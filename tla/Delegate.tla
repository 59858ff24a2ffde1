----------------------------- MODULE Delegate -----------------------------
(***************************************************************************)
(* The delegate tool (core/tools/delegate.py): a batch of subtasks is      *)
(* checked against the policy, pays for its slots, and runs in rounds of   *)
(* what is ready, each Actor being an execution of module ActorExecutor.   *)
(* With it go the task state the results are recorded in                   *)
(* (core/runs/task_state.py), the update_state tool with which the Planner *)
(* writes it between the calls, and the Actor part of the ledger.          *)
(*                                                                         *)
(* One call runs at a time: the model loop awaits each tool call.  The     *)
(* order of the subtasks in a batch is the model's: wherever it decides,   *)
(* any order may happen.                                                   *)
(***************************************************************************)
EXTENDS ActorExecutor, FiniteSetsExt

CONSTANTS
  DependsOn,        \* TaskNode.dependencies
  Strategy,         \* of the execution policy
  MaxActors,        \* policy.max_actors
  MaxStartAttempts, \* budget.max_actor_start_attempts
  MaxConcurrent,    \* SCA_MAX_ACTORS
  MaxCalls          \* bound of the model: calls of the Planner

\* A task can only wait for tasks that were there before it.
ASSUME DelegateAssumption ==
  /\ DependsOn \in [Tasks -> SUBSET Tasks]
  /\ \A S \in SUBSET Tasks : S # {} => \E t \in S : DependsOn[t] \cap S = {}
  /\ {MaxActors, MaxStartAttempts, MaxConcurrent, MaxCalls} \subseteq Nat

VARIABLES
  tree,      \* GlobalState.task_tree
  ledger,    \* actor_roles (counted), actor_start_attempts, completed roles
  call,      \* the call in progress
  calls      \* bound: calls of the Planner so far

delegateVars == <<tree, ledger, call, calls>>
vars == <<executorVars, delegateVars>>

NoCall ==
  [state |-> "none", specs |-> {}, remaining |-> {}, ready |-> {},
   completed |-> {}, failed |-> {}]

Init ==
  /\ ExecutorInit
  /\ tree = [t \in Tasks |-> [status |-> "absent", owned |-> FALSE,
                              summary |-> "none", infra |-> FALSE]]
  /\ ledger = [slots |-> [r \in Roles |-> 0], attempts |-> 0, completed |-> {}]
  /\ call = NoCall
  /\ calls = 0

Idling == call.state \notin {"running", "cancelling"}
Running == {t \in Tasks : actor[t].at \notin {"off", "result"}}
Slots == MapThenSumSet(LAMBDA r : ledger.slots[r], Roles)

(***************************************************************************)
(* Task state                                                              *)
(***************************************************************************)
ValidTransitions ==
  [pending   |-> {"pending", "running", "done", "failed", "blocked"},
   running   |-> {"running", "verifying", "done", "failed", "blocked"},
   verifying |-> {"verifying", "done", "failed", "blocked"},
   done      |-> {"done"},
   failed    |-> {"failed", "blocked"},
   blocked   |-> {"blocked"}]

MayBecome(t, status) == status \in ValidTransitions[tree[t].status]

\* update_state, between two calls.  The Planner can name as a dependency only
\* a task whose id it was given.
AddTask(t) ==
  /\ Idling /\ tree[t].status = "absent"
  /\ \A d \in DependsOn[t] : tree[d].status # "absent"
  /\ tree' = [tree EXCEPT ![t].status = "pending"]
  /\ UNCHANGED <<executorVars, ledger, call, calls>>

PlannerCall == Idling /\ calls < MaxCalls /\ calls' = calls + 1

UpdateTask(t, status) ==
  /\ PlannerCall
  /\ tree[t].status \notin {"absent", status}
  /\ MayBecome(t, status)
  /\ tree[t].owned => status \notin {"done", "failed", "blocked"}
  /\ tree' = [tree EXCEPT ![t].status = status]
  /\ UNCHANGED <<executorVars, ledger, call>>

\* Fault: only the status of an Actor's task is protected.
AddSummaryToAny(t) ==
  /\ PlannerCall
  /\ tree[t].status # "absent"
  /\ tree' = [tree EXCEPT ![t].summary = "planner",
                          ![t].status = IF MayBecome(t, "done") THEN "done" ELSE @]
  /\ UNCHANGED <<executorVars, ledger, call>>

\* add_summary writes the summary first; a status that may not become done
\* refuses the rest.
AddSummary(t) ==
  /\ PlannerCall
  /\ tree[t].status # "absent"
  /\ ~tree[t].owned
  /\ tree' = [tree EXCEPT ![t].summary = "planner",
                          ![t].status = IF MayBecome(t, "done") THEN "done" ELSE @]
  /\ UNCHANGED <<executorVars, ledger, call>>

(***************************************************************************)
(* What the policy asks of a batch                                         *)
(***************************************************************************)
OfRole(batch, role) == {t \in batch : RoleOf[t] = role}
Scouted == "scout" \in ledger.completed
FollowsScout(batch, t) == DependsOn[t] \cap OfRole(batch, "scout") # {}
FollowsCoder(batch, t) == DependsOn[t] \cap OfRole(batch, "coder") # {}

\* Fault: a Coder may go first when some Scout is in the batch.
PolicyAllowsUnordered(batch) ==
  CASE Strategy = "planner_direct" -> FALSE
    [] Strategy = "scout_then_coder" ->
         /\ \A t \in batch : RoleOf[t] \in {"scout", "coder"}
         /\ Scouted \/ OfRole(batch, "scout") # {}
    [] Strategy = "scout_then_dag" -> Scouted \/ OfRole(batch, "scout") # {}
    [] OTHER -> \A t \in batch : RoleOf[t] = "coder"

PolicyAllows(batch) ==
  CASE Strategy = "planner_direct" -> FALSE
    [] Strategy = "scout_then_coder" ->
         /\ \A t \in batch : RoleOf[t] \in {"scout", "coder"}
         /\ \A r \in {"scout", "coder"} :
              ledger.slots[r] + Cardinality(OfRole(batch, r)) <= 1
         /\ \A t \in OfRole(batch, "coder") : Scouted \/ FollowsScout(batch, t)
    [] Strategy = "scout_then_dag" ->
         /\ Scouted \/ OfRole(batch, "scout") # {}
         /\ \A t \in batch \ OfRole(batch, "scout") :
              Scouted \/ FollowsScout(batch, t)
         /\ \A t \in OfRole(batch, "verifier") :
              "coder" \in ledger.completed \/ FollowsCoder(batch, t)
    [] OTHER -> \A t \in batch : RoleOf[t] = "coder"

AttemptLimit ==
  IF MaxStartAttempts # 0 THEN MaxStartAttempts
  ELSE IF MaxActors > 1 THEN MaxActors ELSE 1

\* reserve_actors
MayReserve(batch) ==
  /\ ~late
  /\ ledger.attempts + Cardinality(batch) <= AttemptLimit
  /\ Slots + Cardinality(batch) <= MaxActors

Reserve(batch) ==
  ledger' = [ledger EXCEPT
    !.attempts = @ + Cardinality(batch),
    !.slots = [r \in Roles |-> @[r] + Cardinality(OfRole(batch, r))]]

(***************************************************************************)
(* A call: refused with nothing changed; or the slots are paid and every   *)
(* task goes to running, unless one of them may not, which ends the call   *)
(* with the slots paid and the tasks before it running.                    *)
(***************************************************************************)
Hand(t) == [tree[t] EXCEPT !.status = "running", !.owned = TRUE]

Delegate(batch) ==
  /\ PlannerCall
  /\ \A t \in batch : tree[t].status # "absent"
  /\ IF ~PolicyAllows(batch) \/ ~MayReserve(batch)
     THEN /\ call' = [NoCall EXCEPT !.state = "refused"]
          /\ UNCHANGED <<tree, ledger>>
     ELSE /\ Reserve(batch)
          /\ LET willing == {t \in batch : MayBecome(t, "running")}
             IN IF willing = batch
                THEN /\ tree' = [t \in Tasks |->
                                   IF t \in batch THEN Hand(t) ELSE tree[t]]
                     /\ call' = [NoCall EXCEPT !.state = "running",
                                  !.specs = batch, !.remaining = batch]
                ELSE \E first \in SUBSET willing :
                       /\ tree' = [t \in Tasks |->
                                     IF t \in first THEN Hand(t) ELSE tree[t]]
                       /\ call' = [NoCall EXCEPT !.state = "raised"]
  /\ UNCHANGED executorVars

(***************************************************************************)
(* A round begins when the results of the one before are recorded.  Tasks  *)
(* with a failed dependency are blocked; those of which no dependency is   *)
(* left in the batch are ready; if none is, whatever remains is.  A task   *)
(* blocked in this round still counts as left in the batch, so that those  *)
(* who wait for it are what remains when nothing else does.                *)
(***************************************************************************)
Blocked == {t \in call.remaining : DependsOn[t] \cap call.failed # {}}

\* Fault: a batch of which nothing is ready is given up.
ReadyOrNothing ==
  {t \in call.remaining \ Blocked :
     DependsOn[t] \cap call.remaining = {}}

Ready ==
  LET left == call.remaining \ Blocked
      free == {t \in left : DependsOn[t] \cap call.remaining = {}}
  IN IF free = {} THEN left ELSE free

BeginRound ==
  /\ call.state = "running" /\ call.ready = {}
  /\ \A t \in Tasks : At(t, "off")
  /\ tree' = [t \in Tasks |->
                IF t \in Blocked THEN [tree[t] EXCEPT !.status = "blocked"]
                ELSE tree[t]]
  /\ call' = [call EXCEPT !.remaining = @ \ Blocked, !.ready = Ready,
                          !.state = IF Ready = {} THEN "returned" ELSE @]
  /\ UNCHANGED <<executorVars, ledger, calls>>

\* The semaphore: min(SCA_MAX_ACTORS, policy.max_actors), at least one.
Concurrency ==
  LET limit == IF MaxConcurrent < MaxActors THEN MaxConcurrent ELSE MaxActors
  IN IF limit < 1 THEN 1 ELSE limit

StartActor(t) ==
  /\ t \in call.ready
  /\ Cardinality(Running) < Concurrency
  /\ Setup(t)
  /\ call' = [call EXCEPT !.ready = @ \ {t}]
  /\ UNCHANGED <<tree, ledger, calls>>

\* A subtask without a description fails without an Actor.
NoDescription(t) ==
  /\ t \in call.ready
  /\ Becomes(t, [Idle EXCEPT !.at = "result", !.status = "failed"])
  /\ call' = [call EXCEPT !.ready = @ \ {t}]
  /\ UNCHANGED <<worktree, repairs, late, tree, ledger, calls>>

(***************************************************************************)
(* gather has returned: one result after the other is recorded, and its    *)
(* slot credited or, for an infrastructure failure, given back.  The wall  *)
(* time ends the call there, with the results after it unrecorded.         *)
(***************************************************************************)
Gathered == call.state = "running" /\ call.ready = {} /\ Running = {}

\* Fault: every failed Actor gives its slot back.
ReleaseAny(t, infra) ==
  ledger' = [ledger EXCEPT !.slots[RoleOf[t]] = IF @ > 0 THEN @ - 1 ELSE 0]

Release(t, infra) ==
  ledger' = [ledger EXCEPT !.slots[RoleOf[t]] =
               IF infra /\ @ > 0 THEN @ - 1 ELSE @]

RecordResult(t) ==
  tree' = [tree EXCEPT ![t].status = actor[t].status, ![t].summary = "actor",
                       ![t].infra = actor[t].infra]

Clear(t) == Becomes(t, Idle) /\ UNCHANGED <<worktree, repairs, late>>

RecordDone(t) ==
  /\ Gathered /\ At(t, "result") /\ actor[t].status = "done"
  /\ RecordResult(t)
  /\ IF late
     THEN /\ call' = [NoCall EXCEPT !.state = "raised"]
          /\ actor' = [u \in Tasks |-> Idle]
          /\ UNCHANGED <<worktree, repairs, late, ledger>>
     ELSE /\ ledger' = [ledger EXCEPT !.completed = @ \cup {RoleOf[t]}]
          /\ call' = [call EXCEPT !.completed = @ \cup {t},
                                  !.remaining = @ \ {t}]
          /\ Clear(t)
  /\ UNCHANGED calls

\* Fault: a failed task is left in the batch.
RecordFailedKeeping(t) ==
  /\ Gathered /\ At(t, "result") /\ actor[t].status = "failed"
  /\ RecordResult(t)
  /\ Release(t, actor[t].infra)
  /\ call' = [call EXCEPT !.failed = @ \cup {t}]
  /\ Clear(t)
  /\ UNCHANGED calls

RecordFailed(t) ==
  /\ Gathered /\ At(t, "result") /\ actor[t].status = "failed"
  /\ RecordResult(t)
  /\ Release(t, actor[t].infra)
  /\ call' = [call EXCEPT !.failed = @ \cup {t}, !.remaining = @ \ {t}]
  /\ Clear(t)
  /\ UNCHANGED calls

(***************************************************************************)
(* Ctrl-C: gather cancels its Actors and waits for them; nothing is        *)
(* recorded.  A second one cuts off the clean-ups the first has started.   *)
(***************************************************************************)
Interrupt ==
  /\ call.state \in {"running", "cancelling"} /\ Running # {}
  /\ actor' = [t \in Tasks |-> Cancelled(t)]
  /\ worktree' = [t \in Tasks |-> IF CutOff(t) THEN "left" ELSE worktree[t]]
  /\ call' = [call EXCEPT !.state = "cancelling", !.ready = {}]
  /\ UNCHANGED <<repairs, late, tree, ledger, calls>>

EndCancelled ==
  /\ call.state = "cancelling" /\ Running = {}
  /\ call' = [NoCall EXCEPT !.state = "cancelled"]
  /\ actor' = [t \in Tasks |-> Idle]
  /\ UNCHANGED <<worktree, repairs, late, tree, ledger, calls>>

Scheduler ==
  \/ BeginRound \/ EndCancelled
  \/ \E t \in Tasks :
       StartActor(t) \/ NoDescription(t) \/ RecordDone(t) \/ RecordFailed(t)

Executor(t) == ExecutorStep(t) /\ UNCHANGED delegateVars

Next ==
  \/ \E t \in Tasks : AddTask(t) \/ AddSummary(t)
  \/ \E t \in Tasks, s \in {"running", "done", "failed", "blocked"} : UpdateTask(t, s)
  \/ \E batch \in SUBSET Tasks \ {{}} : Delegate(batch)
  \/ Scheduler \/ Interrupt
  \/ \E t \in Tasks : Executor(t)
  \/ WallTimeEnds /\ UNCHANGED delegateVars

\* The event loop runs what is ready; step limits, timeouts and the wall time
\* bound the loop of an Actor and the commands of its gates.
Spec ==
  /\ Init /\ [][Next]_vars
  /\ WF_vars(Scheduler)
  /\ \A t \in Tasks : WF_vars(Executor(t))

-----------------------------------------------------------------------------
Node ==
  [status : {"absent"} \cup DOMAIN ValidTransitions, owned : BOOLEAN,
   summary : {"none", "planner", "actor"}, infra : BOOLEAN]

Ledgers == [slots : [Roles -> Nat], attempts : Nat, completed : SUBSET Roles]

DelegateCalls ==
  [state : {"none", "refused", "raised", "running", "returned", "cancelling", "cancelled"},
   specs : SUBSET Tasks, remaining : SUBSET Tasks, ready : SUBSET Tasks,
   completed : SUBSET Tasks, failed : SUBSET Tasks]

TypeOK ==
  /\ ExecutorTypeOK
  /\ tree \in [Tasks -> Node]
  /\ ledger \in Ledgers
  /\ call \in DelegateCalls
  /\ calls \in Nat

\* In a scouted strategy no other Actor is at work before a Scout has completed,
\* whatever failed or was taken back in this call or an earlier one (the checks
\* of a batch in execute, and its rounds).  Only behind a task of the batch that
\* was blocked, which is neither failed nor left in it, may one start after all.
ScoutsFirst ==
  Strategy \in {"scout_then_coder", "scout_then_dag"} =>
    \A t \in Running : RoleOf[t] # "scout" =>
      Scouted \/ \E u \in call.specs : tree[u].status = "blocked"

\* A call that returns to the Planner has settled every task it was given: none
\* is left running because its round never came (the rounds of execute).
ReturnSettlesBatch ==
  call.state = "returned" =>
    \A t \in call.specs : tree[t].status \in {"done", "failed", "blocked"}

\* An Actor that did its work keeps its slot: the Run never pays for fewer
\* Actors of a role than have a result that is no infrastructure failure,
\* through retries, cancellations and calls that ended half way
\* (reserve_actors, release_actor_reservation and where execute calls them).
WorkKeepsItsSlot ==
  \A r \in Roles :
    Cardinality({t \in OfRole(Tasks, r) :
                   tree[t].summary = "actor" /\ ~tree[t].infra})
      <= ledger.slots[r]

\* What an Actor has done stands: no later call, update or summary of the
\* Planner changes a task an Actor finished (VALID_STATUS_TRANSITIONS and the
\* ownership checks of update_state, which writes a summary before the status).
ResultsStand ==
  [][\A t \in Tasks :
       tree[t].owned /\ tree[t].status = "done" => tree'[t] = tree[t]]_vars

\* The steps an execution may still take: to start and to act, up to three for
\* every repair that is left, and those to a result that is recorded.
Effort(a) ==
  LET repair == 3 * (RepairLimit - a.tried)
  IN CASE a.at = "startup"    -> 6 + repair
       [] a.at = "acting"     -> 5 + repair
       [] a.at = "verifying"  -> 4 + repair
       [] a.at = "claiming"   -> 3 + repair
       [] a.at = "repairing"  -> 5 + repair
       [] a.at = "extracting" -> 3
       [] a.at = "cleanup"    -> 2
       [] OTHER               -> 1

\* And a task of the call, which first waits for its round and then for its turn.
StepsLeft(t) ==
  CASE ~At(t, "off")                       -> Effort(actor[t])
    [] At(t, "off") /\ t \in call.ready    -> 7 + 3 * RepairLimit
    [] At(t, "off") /\ t \in call.remaining \ call.ready
         /\ call.state = "running"         -> 8 + 3 * RepairLimit
    [] OTHER                               -> 0

\* A call never turns in circles: no round, repair, late failure or interrupt
\* gives a task of it steps back, and each takes some from one of them, unless
\* it ends the call or is the end of the wall time (the rounds of execute, the
\* repair loop, and the cancellation of gather).
CallRunsOut ==
  ~Idling =>
    \/ Idling'
    \/ /\ \A t \in Tasks : StepsLeft(t)' \in 0 .. StepsLeft(t)
       /\ late => late'
       /\ \/ ~late /\ late'
          \/ \E t \in Tasks : StepsLeft(t)' < StepsLeft(t)

\* Nor does it stand still: when no Actor is at work, one waits to start, or a
\* result is there that the call can record, or all are and the next round can
\* begin.  A cancelled result, which no round records, is in no call that goes on.
CallGoesOn ==
  call.state = "running" /\ Running = {} =>
    \/ call.ready # {}
    \/ \A t \in Tasks : At(t, "off")
    \/ \E t \in Tasks : At(t, "result") /\ actor[t].status \in {"done", "failed"}

\* So a call always comes nearer to its end (execute, with its Actors).
CallAdvances == [][CallRunsOut /\ CallGoesOn']_vars

\* A call ends, whatever fails in it and however often it is interrupted.
CallsEnd == [](~Idling => <>Idling)
=============================================================================
