---------------------------- MODULE LoopControl ----------------------------
(***************************************************************************)
(* The anti-loop policy of one model loop                                  *)
(* (core/runtime/loop_control.py), as operators on its state: what the     *)
(* loop answers to a tool call in place of running it, and what it         *)
(* remembers of the calls it has seen.                                     *)
(*                                                                         *)
(* An action is a tool with the file it names, "none" for a tool that      *)
(* names no file; two calls with the same arguments are the same action.   *)
(* A shell command that only reads sources is the tool "run_reader".       *)
(* Counters that the code only tests for zero are Booleans.                *)
(***************************************************************************)
EXTENDS Naturals, Sequences, SequencesExt

CONSTANTS
  Files,                      \* files a call may name
  ActorExplorationLimit,      \* source reads of an Actor before a change
  PlannerExplorationLimit,    \* source reads of the Planner before delegating
  RecentActions               \* length of the window of recent actions

ASSUME LoopControlAssumption ==
  /\ "none" \notin Files
  /\ ActorExplorationLimit \in Nat \ {0}
  /\ PlannerExplorationLimit \in Nat \ {0}
  /\ RecentActions \in Nat \ {0}

Roles == {"planner", "root", "scout", "coder", "verifier"}

Tools == {"read", "read_outline", "list_dir", "run_reader", "run", "edit",
          "apply_patch", "delegate", "update_state"}

ExplorationTools == {"read", "read_outline", "list_dir"}
MutationTools == {"edit", "apply_patch"}
OrchestrationTools == {"delegate", "update_state"}
SourceTools == {"read", "edit"}

\* The tools whose schemas each role's loop lists.
Available ==
  [r \in Roles |->
     CASE r = "scout" -> {"read", "read_outline", "list_dir"}
       [] r = "coder" -> {"read", "read_outline", "list_dir", "edit",
                          "run", "run_reader"}
       [] r = "verifier" -> {"read", "list_dir", "edit", "run", "run_reader"}
       [] OTHER -> {"read", "read_outline", "list_dir"} \cup
                   {"apply_patch", "delegate", "update_state"}]

\* "planner" is the Planner under the orchestrator, which runs it only for
\* planner_direct; "root" is a Planner run by itself on a task that changes code.
IsActor(r) == r \notin {"planner", "root"}

IsCodeChangeRuntime(r) == r # "planner"

HasMutationCapability(r) == Available[r] \cap MutationTools # {}

Fresh ==
  [recent |-> <<>>, outlines |-> [f \in Files |-> 0],
   explored |-> 0, actorLocked |-> FALSE,
   planned |-> 0, plannerLocked |-> FALSE, delegated |-> FALSE,
   mutated |-> FALSE, blocked |-> 0]

(***************************************************************************)
(* planner_intervention: a Planner that has read enough must delegate      *)
(***************************************************************************)
PlannerHeld(r, lc) == ~IsActor(r) /\ lc.plannerLocked /\ ~lc.delegated

PlannerCounts(r, lc, a) ==
  /\ ~IsActor(r) /\ ~lc.plannerLocked /\ ~lc.delegated
  /\ a.tool \in ExplorationTools
  /\ IsCodeChangeRuntime(r)
  /\ "delegate" \in Available[r]

PlannerIntervention(r, lc, a) ==
  PlannerHeld(r, lc) /\ a.tool \notin OrchestrationTools

AfterPlannerIntervention(r, lc, a) ==
  IF PlannerCounts(r, lc, a)
    THEN [lc EXCEPT !.planned = @ + 1,
                    !.plannerLocked = (lc.planned + 1 = PlannerExplorationLimit)]
    ELSE lc

(***************************************************************************)
(* actor_intervention: an Actor that has read enough must change something *)
(***************************************************************************)
ActorGuarded(r, lc) ==
  /\ IsActor(r) /\ ~lc.mutated
  /\ IsCodeChangeRuntime(r) /\ HasMutationCapability(r)

ActorIntervention(r, lc, a) ==
  ActorGuarded(r, lc) /\ lc.actorLocked /\ a.tool \notin MutationTools

ActorCounts(r, lc, a) ==
  /\ ActorGuarded(r, lc) /\ ~lc.actorLocked
  /\ a.tool \in ExplorationTools \cup {"run_reader"}

AfterActorIntervention(r, lc, a) ==
  IF ActorCounts(r, lc, a)
    THEN [lc EXCEPT !.explored = @ + 1,
                    !.actorLocked = (lc.explored + 1 = ActorExplorationLimit)]
    ELSE lc

(***************************************************************************)
(* outline_intervention: a third outline of a file that was not read since *)
(***************************************************************************)
OutlineIntervention(lc, a) ==
  a.tool = "read_outline" /\ a.file \in Files /\ lc.outlines[a.file] = 2

AfterOutlineIntervention(lc, a) ==
  IF a.file \notin Files THEN lc
  ELSE IF a.tool \in SourceTools THEN [lc EXCEPT !.outlines[a.file] = 0]
  ELSE IF a.tool = "read_outline" THEN [lc EXCEPT !.outlines[a.file] = @ + 1]
  ELSE lc

(***************************************************************************)
(* repeated_action: the third equal call in the window of recent actions   *)
(***************************************************************************)
\* Fault: the third repetition is the first one refused.
RepeatedThrice(lc, a) ==
  Cardinality({i \in DOMAIN lc.recent : lc.recent[i] = a}) >= 3

RepeatedAction(lc, a) ==
  Cardinality({i \in DOMAIN lc.recent : lc.recent[i] = a}) >= 2

AfterRepeatedAction(lc, a) ==
  LET seen == Append(lc.recent, a)
  IN  [lc EXCEPT !.recent =
         SubSeq(seen, 1 + (IF Len(seen) > RecentActions
                             THEN Len(seen) - RecentActions ELSE 0), Len(seen))]

(***************************************************************************)
(* The four questions in the order the loop asks them.  The verdict is     *)
(* "run", or how the call is answered instead: "ok" for the three          *)
(* interventions, "fail" for a repetition.  A question that intervenes     *)
(* ends the inquiry, so that the later ones remember nothing.              *)
(***************************************************************************)
Consider(r, lc, a) ==
  LET p == AfterPlannerIntervention(r, lc, a)
      e == AfterActorIntervention(r, p, a)
      o == AfterOutlineIntervention(e, a)
  IN  IF PlannerIntervention(r, lc, a) THEN [verdict |-> "ok", control |-> lc]
      ELSE IF ActorIntervention(r, p, a) THEN [verdict |-> "ok", control |-> p]
      ELSE IF OutlineIntervention(e, a) THEN [verdict |-> "ok", control |-> e]
      ELSE IF RepeatedAction(o, a) THEN [verdict |-> "fail", control |-> o]
      ELSE [verdict |-> "run", control |-> AfterRepeatedAction(o, a)]

\* Fault: any success frees the Actor.
RecordAnySuccess(lc, a, outcome) ==
  IF outcome = "ok"
    THEN [lc EXCEPT !.mutated = TRUE, !.explored = 0, !.actorLocked = FALSE]
    ELSE lc

\* record_tool_result: a delegation frees the Planner, a change frees the
\* Actor; "unchanged" is the success of an apply_patch with nothing to apply.
RecordToolResult(lc, a, outcome) ==
  LET d == IF a.tool = "delegate" /\ outcome \in {"ok", "unchanged"}
             THEN [lc EXCEPT !.delegated = TRUE, !.planned = 0,
                             !.plannerLocked = FALSE, !.explored = 0]
             ELSE lc
  IN  IF a.tool \in MutationTools /\ outcome = "ok"
        THEN [d EXCEPT !.mutated = TRUE, !.explored = 0, !.actorLocked = FALSE]
        ELSE d

\* should_continue_for_missing_mutation: at most two final answers are refused.
MissingMutation(r, lc) ==
  /\ ~lc.mutated /\ lc.blocked < 2
  /\ IsCodeChangeRuntime(r) /\ HasMutationCapability(r)

\* schemas_for_step: the tools the model is shown for its next answer.
SchemasForStep(r, lc) ==
  IF IsActor(r) /\ lc.actorLocked /\ ~lc.mutated
    THEN Available[r] \cap MutationTools
  ELSE IF PlannerHeld(r, lc) THEN Available[r] \cap OrchestrationTools
  ELSE Available[r]
=============================================================================
