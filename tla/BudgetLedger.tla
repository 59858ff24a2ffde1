---------------------------- MODULE BudgetLedger ----------------------------
(***************************************************************************)
(* The consumption ledger of one Run (core/execution/policy.py), shared by *)
(* the Planner's model loop and the loops of every Actor it delegates to.  *)
(*                                                                         *)
(* Each ledger operation holds one asyncio lock and never awaits inside    *)
(* it, so each is one atomic action here.  What is not atomic is the model *)
(* call: capacity is claimed before the request leaves and its tokens are  *)
(* charged when the answer is back, and the other loops claim and charge   *)
(* in between.                                                             *)
(*                                                                         *)
(* Abstractions: the wall clock is the flag "late" (elapsed active time is *)
(* above the limit); the tokens of one response range over 0..MaxResponse; *)
(* completed_actor_roles is a set, as only membership in it is ever asked. *)
(***************************************************************************)
EXTENDS Integers, Sequences, FiniteSets

CONSTANTS
  Planner,              \* the root model loop
  Actors,               \* the Actors the Run may delegate to
  Roles,                \* Actor roles
  RoleOf,               \* RoleOf[a] is the role Actor a is delegated with
  MaxModelCalls,
  MaxTokens,
  MaxResponse,          \* most tokens one model response is charged
  MaxFailedToolCalls,
  MaxRepairs,
  MaxActors,            \* policy.max_actors
  MaxStartAttempts,     \* budget.max_actor_start_attempts, 0 when unset
  NeedsApproval,        \* policy.requires_human_approval
  MaxSegments           \* bound of the model: processes the Run is resumed in

ASSUME BudgetAssumption ==
  /\ Planner \notin Actors
  /\ IsFiniteSet(Actors)
  /\ RoleOf \in [Actors -> Roles]
  /\ {MaxModelCalls, MaxTokens, MaxResponse, MaxFailedToolCalls, MaxRepairs,
      MaxActors, MaxStartAttempts, MaxSegments} \subseteq Nat
  /\ NeedsApproval \in BOOLEAN

VARIABLES
  snapshot,   \* RunBudgetLedger._snapshot
  approved,   \* policy.human_approved
  late,       \* active wall time is above its limit
  loop,       \* where each model loop stands
  saved,      \* snapshot, approval and loops of the last RunStore checkpoint
  segments    \* processes that have run the Run so far

vars == <<snapshot, approved, late, loop, saved, segments>>

Loops == {Planner} \cup Actors

(***************************************************************************)
(* "replaying" is a resumed Planner working off the tool calls its         *)
(* checkpoint left without an observation; "interrupted" is an Actor whose *)
(* process died while it ran.                                              *)
(***************************************************************************)
LoopStates == {"off", "idle", "calling", "stopped", "replaying",
               "interrupted", "done", "failed"}

EmptySnapshot ==
  [model_calls |-> 0, total_tokens |-> 0, failed_tool_calls |-> 0,
   actors_started |-> 0, actor_start_attempts |-> 0, actor_roles |-> <<>>,
   completed_actor_roles |-> {}, repair_attempts |-> 0]

ApprovalSatisfied == ~NeedsApproval \/ approved

\* budget.max_actor_start_attempts or max(1, policy.max_actors)
AttemptLimit ==
  IF MaxStartAttempts # 0 THEN MaxStartAttempts
  ELSE IF MaxActors > 1 THEN MaxActors ELSE 1

InFlight == {c \in Loops : loop[c] = "calling"}

Enter(c, s) == loop' = [loop EXCEPT ![c] = s]

Init ==
  /\ snapshot = EmptySnapshot
  /\ approved = FALSE
  /\ late = FALSE
  /\ loop = [c \in Loops |-> IF c = Planner THEN "idle" ELSE "off"]
  /\ saved = [snapshot |-> EmptySnapshot, approved |-> FALSE, late |-> FALSE,
              loop |-> [c \in Loops |-> IF c = Planner THEN "idle" ELSE "off"]]
  /\ segments = 1

(***************************************************************************)
(* Model calls                                                             *)
(***************************************************************************)
\* Definitions marked as a fault are plausible bugs, for testing the properties.
\* Fault: claim_model_call does not ask for the approval.
CapacityWithoutApproval ==
  ~late /\ snapshot.model_calls < MaxModelCalls /\ snapshot.total_tokens < MaxTokens

\* Fault: claim_model_call leaves the token budget to the charge afterwards.
CapacityWithoutTokens ==
  ApprovalSatisfied /\ ~late /\ snapshot.model_calls < MaxModelCalls

CallCapacity ==
  /\ ApprovalSatisfied
  /\ ~late
  /\ snapshot.model_calls < MaxModelCalls
  /\ snapshot.total_tokens < MaxTokens

ClaimModelCall(c) ==
  /\ loop[c] \in {"idle", "replaying"}
  /\ \/ /\ CallCapacity
        /\ snapshot' = [snapshot EXCEPT !.model_calls = @ + 1]
        /\ Enter(c, "calling")
     \/ /\ ~CallCapacity
        /\ Enter(c, "stopped")
        /\ UNCHANGED snapshot
  /\ UNCHANGED <<approved, late, saved, segments>>

(***************************************************************************)
(* record_usage when the response is back.  Once the wall time is over the *)
(* check at the head of charge_tokens raises before anything is added.     *)
(***************************************************************************)
ChargeTokens(c, count) ==
  /\ loop[c] = "calling"
  /\ IF late
     THEN Enter(c, "stopped") /\ UNCHANGED snapshot
     ELSE /\ snapshot' = [snapshot EXCEPT !.total_tokens = @ + count]
          /\ Enter(c, IF snapshot.total_tokens + count > MaxTokens
                      THEN "stopped" ELSE "idle")
  /\ UNCHANGED <<approved, late, saved, segments>>

\* The provider raises LLMAPIError, or PRE_MODEL denies the claimed call:
\* nothing is charged and the loop ends.
LoseCall(c) ==
  /\ loop[c] = "calling"
  /\ Enter(c, "stopped")
  /\ UNCHANGED <<snapshot, approved, late, saved, segments>>

\* Fault: the charge never raises.
ChargeWithoutLimit(c) ==
  /\ loop[c] \in {"idle", "replaying"}
  /\ snapshot' = [snapshot EXCEPT !.failed_tool_calls = @ + 1]
  /\ UNCHANGED <<approved, late, loop, saved, segments>>

(***************************************************************************)
(* A failed tool call.  A live loop ends when the charge raises; a         *)
(* resumed Planner goes on to its main loop whatever the charge said.      *)
(***************************************************************************)
ChargeFailedToolCall(c) ==
  /\ loop[c] \in {"idle", "replaying"}
  /\ LET total == snapshot.failed_tool_calls + 1
         raises == late \/ total > MaxFailedToolCalls
     IN /\ snapshot' = IF late THEN snapshot
                       ELSE [snapshot EXCEPT !.failed_tool_calls = total]
        /\ Enter(c, IF ~raises THEN loop[c]
                    ELSE IF loop[c] = "replaying" THEN "idle" ELSE "stopped")
  /\ UNCHANGED <<approved, late, saved, segments>>

(***************************************************************************)
(* Actors                                                                  *)
(***************************************************************************)
ReserveActors(S) ==
  /\ S # {}
  /\ \A a \in S : loop[a] \in {"off", "interrupted"}
  /\ ~late
  /\ snapshot.actor_start_attempts + Cardinality(S) <= AttemptLimit
  /\ snapshot.actors_started + Cardinality(S) <= MaxActors
  /\ \E order \in [1..Cardinality(S) -> S] :
        /\ \A a \in S : \E i \in DOMAIN order : order[i] = a
        /\ snapshot' = [snapshot EXCEPT
              !.actors_started = @ + Cardinality(S),
              !.actor_start_attempts = @ + Cardinality(S),
              !.actor_roles = @ \o [i \in DOMAIN order |-> RoleOf[order[i]]]]
  /\ loop' = [c \in Loops |-> IF c \in S THEN "idle" ELSE loop[c]]
  /\ UNCHANGED <<approved, late, saved, segments>>

\* Fault: the limit is tested before the attempt is counted.
ClaimOneRepairMore(a) ==
  /\ loop[a] = "idle" /\ ~late
  /\ snapshot.repair_attempts <= MaxRepairs
  /\ snapshot' = [snapshot EXCEPT !.repair_attempts = @ + 1]
  /\ UNCHANGED <<approved, late, loop, saved, segments>>

\* A Coder whose verification failed asks for one more round.
ClaimRepairAttempt(a) ==
  /\ loop[a] = "idle"
  /\ IF late \/ snapshot.repair_attempts + 1 > MaxRepairs
     THEN Enter(a, "stopped") /\ UNCHANGED snapshot
     ELSE /\ snapshot' = [snapshot EXCEPT !.repair_attempts = @ + 1]
          /\ UNCHANGED loop
  /\ UNCHANGED <<approved, late, saved, segments>>

\* record_actor_completed; when the wall time is over it raises instead.
ActorDone(a) ==
  /\ loop[a] = "idle"
  /\ Enter(a, "done")
  /\ snapshot' = IF late THEN snapshot
                 ELSE [snapshot EXCEPT !.completed_actor_roles = @ \cup {RoleOf[a]}]
  /\ UNCHANGED <<approved, late, saved, segments>>

\* An Actor that failed by its own doing keeps its slot.
ActorFailed(a) ==
  /\ loop[a] \in {"idle", "stopped"}
  /\ Enter(a, "failed")
  /\ UNCHANGED <<snapshot, approved, late, saved, segments>>

\* The ledger only counts and tests its roles, so which of several equal
\* entries list.remove drops cannot be observed.
RemoveRole(roles, role) ==
  LET i == CHOOSE n \in DOMAIN roles : roles[n] = role
  IN SubSeq(roles, 1, i - 1) \o SubSeq(roles, i + 1, Len(roles))

\* release_actor_reservation: bootstrap or tool provider failure.
ReleaseActorReservation(a) ==
  /\ loop[a] \in {"idle", "stopped"}
  /\ Enter(a, "failed")
  /\ IF \E i \in DOMAIN snapshot.actor_roles : snapshot.actor_roles[i] = RoleOf[a]
     THEN snapshot' = [snapshot EXCEPT
            !.actors_started = IF @ > 0 THEN @ - 1 ELSE 0,
            !.actor_roles = RemoveRole(@, RoleOf[a])]
     ELSE UNCHANGED snapshot
  /\ UNCHANGED <<approved, late, saved, segments>>

(***************************************************************************)
(* Approval, time, checkpoints and restarts                                *)
(***************************************************************************)
\* grant_human_approval: a new ledger object over the old consumption.
GrantHumanApproval ==
  /\ NeedsApproval /\ ~approved
  /\ approved' = TRUE
  /\ UNCHANGED <<snapshot, late, loop, saved, segments>>

WallTimeExpires ==
  /\ ~late
  /\ late' = TRUE
  /\ UNCHANGED <<snapshot, approved, loop, saved, segments>>

Persist ==
  /\ saved' = [snapshot |-> snapshot, approved |-> approved, late |-> late,
               loop |-> loop]
  /\ UNCHANGED <<snapshot, approved, late, loop, segments>>

\* The process dies and another one resumes from the last checkpoint.
Restart ==
  /\ segments < MaxSegments
  /\ segments' = segments + 1
  /\ snapshot' = saved.snapshot
  /\ approved' = saved.approved
  /\ late' = saved.late
  /\ loop' = [c \in Loops |->
       CASE c = Planner -> "replaying"
         [] c # Planner /\ saved.loop[c] \in {"idle", "calling", "stopped"} -> "interrupted"
         [] OTHER -> saved.loop[c]]
  /\ UNCHANGED saved

Next ==
  \/ \E c \in Loops : ClaimModelCall(c)
  \/ \E c \in Loops, count \in 0..MaxResponse : ChargeTokens(c, count)
  \/ \E c \in Loops : LoseCall(c)
  \/ \E c \in Loops : ChargeFailedToolCall(c)
  \/ \E S \in SUBSET Actors : ReserveActors(S)
  \/ \E a \in Actors : ClaimRepairAttempt(a)
  \/ \E a \in Actors : ActorDone(a)
  \/ \E a \in Actors : ActorFailed(a)
  \/ \E a \in Actors : ReleaseActorReservation(a)
  \/ GrantHumanApproval
  \/ WallTimeExpires
  \/ Persist
  \/ Restart

Spec == Init /\ [][Next]_vars

-----------------------------------------------------------------------------
SnapshotType ==
  [model_calls : Nat, total_tokens : Nat, failed_tool_calls : Nat,
   actors_started : Nat, actor_start_attempts : Nat, actor_roles : Seq(Roles),
   completed_actor_roles : SUBSET Roles, repair_attempts : Nat]

\* Every value of the ledger, of its checkpoint and of the loops has its type.
TypeOK ==
  /\ snapshot \in SnapshotType
  /\ approved \in BOOLEAN
  /\ late \in BOOLEAN
  /\ loop \in [Loops -> LoopStates]
  /\ saved \in [snapshot : SnapshotType, approved : BOOLEAN, late : BOOLEAN,
                loop : [Loops -> LoopStates]]
  /\ segments \in Nat

\* The Run never has more Actor slots, starts, repairs or model calls than its
\* policy grants, whatever was released, retried or resumed in between
\* (reserve_actors, release_actor_reservation, claim_repair_attempt).  A slot in
\* the count is one in the list of roles: max(0, started - 1) never hides a release
\* that was not matched.
HardLimits ==
  /\ snapshot.actors_started = Len(snapshot.actor_roles)
  /\ snapshot.actors_started <= MaxActors
  /\ snapshot.actor_start_attempts <= AttemptLimit
  /\ snapshot.repair_attempts <= MaxRepairs
  /\ snapshot.model_calls <= MaxModelCalls

\* Claiming before and charging after the call lets the token budget be
\* crossed, but by no more than one response of every loop that was waiting.
TokenOvershootBounded ==
  snapshot.total_tokens <= MaxTokens + MaxResponse * Cardinality(Loops)

\* Failed tool calls pass their limit at most once per loop that was started:
\* twice per process for the Planner (resumed calls, then its own), once per
\* Actor start.
FailedCallsBounded ==
  snapshot.failed_tool_calls
    <= MaxFailedToolCalls + 2 * segments + snapshot.actor_start_attempts

\* No model call is ever claimed, in this process or a resumed one, before
\* the policy's approval was given and kept (claim_model_call fails closed).
NoCallBeforeApproval ==
  snapshot.model_calls > 0 => ApprovalSatisfied
=============================================================================
