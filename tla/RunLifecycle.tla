---------------------------- MODULE RunLifecycle ----------------------------
(***************************************************************************)
(* What a durable Run promises, whatever runs it: a status that moves only *)
(* along the durable transitions (core/runs/models.py), Actors that finish *)
(* in dependency order and only once a human has approved, and "completed" *)
(* reached only when every planned Actor has finished, and for good.       *)
(***************************************************************************)
CONSTANTS
  Plans,    \* what may be planned: Actors, whom each needs, approval
  NoPlan

VARIABLES
  status,     \* RunRecord.status
  plan,       \* the plan the Run is held to
  accepted,   \* a human has approved the Run
  finished    \* Actors that have finished at least once

vars == <<status, plan, accepted, finished>>

Init ==
  /\ status = "created"
  /\ plan = NoPlan
  /\ accepted = FALSE
  /\ finished = {}

Accept ==
  /\ status # "completed"
  /\ accepted' = TRUE
  /\ UNCHANGED <<status, plan, finished>>

Move(from, to) ==
  /\ status \in from
  /\ status' = to
  /\ UNCHANGED <<plan, accepted, finished>>

Start == Move({"created", "paused", "failed"}, "running")
Pause == Move({"running"}, "paused")
Fail  == Move({"created", "running", "paused"}, "failed")

\* A Run is held to one plan for good.
Adopt(p) ==
  /\ plan = NoPlan
  /\ plan' = p
  /\ status # "completed"
  /\ status' = "running"
  /\ UNCHANGED <<accepted, finished>>

Complete ==
  /\ plan # NoPlan /\ finished = plan.actors
  /\ Move({"running"}, "completed")

FinishActor(a) ==
  /\ status \notin {"created", "completed"}
  /\ plan.approval => accepted
  /\ plan.needs[a] \subseteq finished
  /\ finished' = finished \cup {a}
  /\ UNCHANGED <<status, plan, accepted>>

Next ==
  \/ Accept
  \/ Start \/ Pause \/ Fail \/ Complete
  \/ \E p \in Plans \ {NoPlan} : Adopt(p)
  \/ \E a \in plan.actors : FinishActor(a)

Spec == Init /\ [][Next]_vars
=============================================================================
