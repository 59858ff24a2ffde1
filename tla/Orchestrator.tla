---------------------------- MODULE Orchestrator ----------------------------
(***************************************************************************)
(* One durable Run driven by the LangGraph control plane                   *)
(* (core/orchestration/adapter.py): the graph's nodes, the RunStore        *)
(* checkpoints they write, cancellation, failure, process death, approval  *)
(* and resume.                                                             *)
(*                                                                         *)
(* Two stores survive a process: RunStore (status and aggregate) and the   *)
(* graph checkpointer (program counter and graph state).  They are written *)
(* by different calls, so a death in between leaves one ahead of the       *)
(* other; that distance is what the module is about.                       *)
(*                                                                         *)
(* Abstractions: a planned Actor is named by its role, which is unique in  *)
(* every plan compile_task_plan makes.  A node is its handler, then the    *)
(* return of its update; a handler's own writes happen in one step.  What  *)
(* an Actor or the Planner does inside is only its outcome.  Version       *)
(* conflicts between processes are the subject of module RunStore.         *)
(***************************************************************************)
EXTENDS Assessment, FiniteSets, FiniteSetsExt

CONSTANTS
  Asked,             \* requests the Run may be for
  Places,            \* workspaces they may be assessed in
  RecursionLimit,    \* supersteps of one invocation (50 in the code)
  MaxInvocations,    \* bounds of the model: invocations of run_stream,
  MaxMishaps,        \*   process deaths, cancellations and exceptions of I/O
                     \*   (a save that was to report one may fail on top of it),
  MayExpire          \*   and whether the wall time may run out

ASSUME OrchestratorAssumption ==
  /\ Asked \subseteq Requests /\ Places \subseteq Workspaces
  /\ MayExpire \in BOOLEAN
  /\ {RecursionLimit, MaxInvocations, MaxMishaps} \subseteq Nat

VARIABLES
  request,      \* what the assessor makes of it in each workspace
  store,        \* RunStore: status and the saved aggregate
  checkpoint,   \* the durable graph checkpoint
  run,          \* the aggregate in memory
  thread,       \* the graph state in memory
  pc,           \* where the process stands
  pending,      \* the update a finished handler is about to return
  answer,       \* the approval this invocation was resumed with
  steps,        \* supersteps of this invocation
  finished,     \* history: how often each Actor finished its task
  accepted,     \* history: a human has approved the Run
  owed,         \* history: the last diff a Coder made is not in the workspace
  unsettled,    \* history: the save that was to end this invocation failed
  used          \* bounds: invocations and mishaps so far

durable == <<store, checkpoint>>
memory == <<run, thread, pending, answer, steps>>
history == <<request, finished, accepted, owed, unsettled>>
vars == <<durable, memory, pc, history, used>>

(***************************************************************************)
(* What the assessment makes of a request, and the Run it compiles to      *)
(***************************************************************************)
\* Requests the assessor cannot tell apart in any workspace are one.
Assessments == {[w \in Places |-> Assess(r, w)] : r \in Asked}

Unassessed == [strategy |-> "none", approval |-> FALSE]

Strategy == run.assessed.strategy
NeedsApproval == run.assessed.approval
Planned == RolesOf(Strategy)
Dependencies == DependenciesOf(Planned)

Actors == {"scout", "coder", "verifier"}
TaskStates == {"absent", "pending", "running", "done", "failed", "blocked"}

\* install_execution_policy: the policy and a fresh ledger.
Install(assessed, policy) ==
  LET planned == RolesOf(assessed.strategy)
  IN [assessed |-> assessed, policy |-> policy,
      tree |-> [a \in planned |-> "absent"], patch |-> "none",
      reserved |-> [a \in planned |-> 0], attempts |-> 0, credited |-> {},
      expired |-> FALSE]

NoRun == Install(Unassessed, "none")

NewThread(preapproved) ==
  [next |-> "assess_task", stage |-> "ingress_security",
   approval |-> IF preapproved THEN "yes" ELSE "none",
   assessed |-> Unassessed, policy |-> "none",
   ready |-> {}, completed |-> {}, failed |-> {}, blocked |-> {}, final |-> ""]

NoThread == [NewThread(FALSE) EXCEPT !.next = "none"]

Tasks(s) == {a \in Planned : run.tree[a] = s}

ApprovalSatisfied(policy) == ~NeedsApproval \/ policy = "approved"

(***************************************************************************)
(* Durable status                                                          *)
(***************************************************************************)
LegalTransitions ==
  [created   |-> {"running", "failed"},
   running   |-> {"paused", "completed", "failed"},
   paused    |-> {"running", "failed"},
   failed    |-> {"running"},
   completed |-> {}]

CanBecome(s) == s = store.status \/ s \in LegalTransitions[store.status]

\* persist_checkpoint: the aggregate as it is in memory, under status s.
Persist(s, r) ==
  /\ store' = [status |-> s, saved |-> r]
  /\ run' = r

(***************************************************************************)
(* The workflow stage of each node and the moves between stages            *)
(***************************************************************************)
StageOf ==
  [assess_task |-> "task_assessment", compile_policy |-> "execution_policy",
   request_human_approval |-> "input_approval", plan |-> "planning",
   validate_plan |-> "plan_validation",
   schedule_ready_actors |-> "actor_scheduling",
   execute_planner |-> "actor_execution", execute_actor |-> "actor_execution",
   collect_actor_results |-> "actor_execution", verify |-> "verification",
   repair_router |-> "verification", finalize_success |-> "finalization",
   finalize_failure |-> "finalization"]

Allowed ==
  [ingress_security |-> {"task_assessment"},
   task_assessment  |-> {"execution_policy"},
   execution_policy |-> {"input_approval", "planning", "finalization"},
   input_approval   |-> {"planning", "finalization"},
   planning         |-> {"plan_validation"},
   plan_validation  |-> {"actor_scheduling"},
   actor_scheduling |-> {"actor_execution", "verification"},
   actor_execution  |-> {"actor_scheduling", "verification"},
   verification     |-> {"bounded_repair", "finalization"},
   finalization     |-> {"final_output_security"}]

Nodes == DOMAIN StageOf

Active == {"node", "asking", "acting", "returning", "raised", "ended"}

Init ==
  /\ request \in Assessments
  /\ run = NoRun
  /\ store = [status |-> "created", saved |-> run]
  /\ checkpoint = NoThread
  /\ thread = NoThread
  /\ pc = "down"
  /\ pending = NoThread
  /\ answer = "none"
  /\ steps = 0
  /\ finished = [a \in Actors |-> 0]
  /\ accepted = FALSE
  /\ owed = FALSE
  /\ unsettled = FALSE
  /\ used = [invocations |-> 0, mishaps |-> 0]

-----------------------------------------------------------------------------
(***************************************************************************)
(* Handlers.  Each one ends by returning an update of the graph state, by  *)
(* raising, or by starting work that ends later.                           *)
(***************************************************************************)
At(node) == pc = "node" /\ thread.next = node /\ steps < RecursionLimit

Returns(t) == pc' = "returning" /\ pending' = t

Raises == pc' = "raised" /\ UNCHANGED pending

Quiet == UNCHANGED <<checkpoint, thread, answer, steps, history, used>>

Goto(t, node) == [t EXCEPT !.next = node]

\* The workspace is looked at anew: what it holds may have changed since.
AssessTask ==
  /\ At("assess_task")
  /\ \E w \in Places :
       Returns(Goto([thread EXCEPT !.assessed = request[w]], "compile_policy"))
  /\ UNCHANGED <<store, run>> /\ Quiet

ApprovalRoute(t) ==
  IF ~t.assessed.approval \/ t.approval = "yes" THEN "plan"
  ELSE IF t.approval = "no" THEN "finalize_failure"
  ELSE "request_human_approval"

\* A policy is installed once; on another one the node raises.
CompilePolicy ==
  /\ At("compile_policy")
  /\ LET policy == IF thread.assessed.approval /\ thread.approval = "yes"
                   THEN "approved" ELSE "unapproved"
         t == [thread EXCEPT !.policy = policy]
     IN CASE run.policy = "none" ->
               /\ Persist("running", Install(thread.assessed, policy))
               /\ Returns(Goto(t, ApprovalRoute(t)))
          [] <<run.assessed, run.policy>> = <<thread.assessed, policy>> ->
               /\ Persist("running", run)
               /\ Returns(Goto(t, ApprovalRoute(t)))
          [] OTHER -> Raises /\ UNCHANGED <<store, run>>
  /\ Quiet

\* The code before interrupt() runs again on every entry of the node.
RequestApproval ==
  /\ At("request_human_approval")
  /\ IF CanBecome("paused")
     THEN /\ pc' = "asking"
          /\ IF store.status = "paused" THEN UNCHANGED <<store, run>>
             ELSE Persist("paused", run)
          /\ UNCHANGED pending
     ELSE Raises /\ UNCHANGED <<store, run>>
  /\ Quiet

\* interrupt() without an answer ends the invocation; the graph checkpoint
\* is complete before run_stream returns.
Interrupt ==
  /\ pc = "asking" /\ answer = "none"
  /\ pc' = "waiting"
  /\ checkpoint' = thread
  /\ UNCHANGED <<store, memory, history, used>>

\* Fault: any answer resumes the interrupt as if it were a yes.
ApprovedByAnyAnswer ==
  /\ pc = "asking" /\ answer # "none"
  /\ Persist("running", [run EXCEPT !.policy = "approved"])
  /\ LET t == [thread EXCEPT !.approval = "yes", !.policy = "approved"]
     IN Returns(Goto(t, ApprovalRoute(t)))
  /\ Quiet

Approved ==
  /\ pc = "asking" /\ answer = "yes"
  /\ Persist("running", [run EXCEPT !.policy = "approved"])
  /\ LET t == [thread EXCEPT !.approval = "yes", !.policy = "approved"]
     IN Returns(Goto(t, ApprovalRoute(t)))
  /\ Quiet

Rejected ==
  /\ pc = "asking" /\ answer = "no"
  /\ Persist("failed", run)
  /\ LET t == [thread EXCEPT !.approval = "no", !.policy = run.policy,
                             !.final = "rejected"]
     IN Returns(Goto(t, ApprovalRoute(t)))
  /\ Quiet

\* Fault: the planned tasks are in memory alone.
PlanUnsaved ==
  /\ At("plan")
  /\ IF ApprovalSatisfied(run.policy)
     THEN /\ run' = [run EXCEPT !.tree =
                [a \in Planned |-> IF @[a] = "absent" THEN "pending" ELSE @[a]]]
          /\ store' = [store EXCEPT !.status = "running"]
          /\ Returns(Goto(thread, "validate_plan"))
     ELSE Raises /\ UNCHANGED <<store, run>>
  /\ Quiet

Plan ==
  /\ At("plan")
  /\ IF ApprovalSatisfied(run.policy)
     THEN /\ Persist("running", [run EXCEPT !.tree =
                [a \in Planned |-> IF @[a] = "absent" THEN "pending" ELSE @[a]]])
          /\ Returns(Goto(thread, "validate_plan"))
     ELSE Raises /\ UNCHANGED <<store, run>>
  /\ Quiet

ValidatePlan ==
  /\ At("validate_plan")
  /\ IF thread.policy = run.policy
     THEN Returns(Goto(thread, "schedule_ready_actors"))
     ELSE Raises
  /\ UNCHANGED <<store, run>> /\ Quiet

DispatchRoute(ready) ==
  IF Planned = {} THEN "execute_planner"
  ELSE IF ready = {} THEN "collect_actor_results"
  ELSE "execute_actor"

ScheduleReadyActors ==
  /\ At("schedule_ready_actors")
  /\ LET dead == Tasks("failed") \cup thread.blocked
         blocked == {a \in Planned : Dependencies[a] \cap dead # {}}
         ready == {a \in Planned \ (Tasks("done") \cup Tasks("failed") \cup blocked) :
                     Dependencies[a] \subseteq Tasks("done")}
     IN /\ run' = [run EXCEPT !.tree =
             [a \in Planned |-> IF a \in blocked /\ @[a] = "pending"
                                THEN "blocked" ELSE @[a]]]
        /\ Returns(Goto([thread EXCEPT !.ready = ready, !.blocked = blocked],
                        DispatchRoute(ready)))
  /\ UNCHANGED store /\ Quiet

-----------------------------------------------------------------------------
(***************************************************************************)
(* Work: the Planner's loop, or one Actor behind the delegate tool         *)
(***************************************************************************)
\* The Planner's loop saves the root checkpoint as it goes, status unchanged.
ExecutePlanner ==
  /\ At("execute_planner")
  /\ pc' = "acting"
  /\ Persist(store.status, run)
  /\ UNCHANGED pending /\ Quiet

FinishPlanner ==
  /\ pc = "acting" /\ thread.next = "execute_planner"
  /\ Persist(store.status, run)
  /\ \E final \in {"executed", "failed"} :
        Returns(Goto([thread EXCEPT !.final = final], "verify"))
  /\ Quiet

\* What the strategy lets a single subtask of this role do (delegate.execute).
RolePermitted(a) ==
  CASE Strategy = "scout_then_coder" ->
         /\ \A b \in Planned : run.reserved[b] + (IF b = a THEN 1 ELSE 0) <= 1
         /\ a = "coder" => "scout" \in run.credited
    [] Strategy = "scout_then_dag" ->
         /\ a # "scout" => "scout" \in run.credited
         /\ a = "verifier" => "coder" \in run.credited
    [] OTHER -> TRUE

Reserved == MapThenSumSet(LAMBDA a : run.reserved[a], Planned)

MayReserve(a) ==
  /\ RolePermitted(a)
  /\ ~run.expired
  /\ run.attempts + 1 <= StartAttemptsOf(Strategy)
  /\ Reserved + 1 <= MaxActorsOf(Strategy)

Reserve(a) ==
  [run EXCEPT !.reserved[a] = @ + 1, !.attempts = @ + 1]

\* An Actor that is done is replayed; one the ledger refuses leaves its task
\* as it is; one whose task cannot go back to running raises after it has
\* reserved its slot.
ExecuteActor(a) ==
  /\ At("execute_actor") /\ a \in thread.ready
  /\ \/ /\ run.tree[a] = "done" \/ ~MayReserve(a)
        /\ Returns(Goto(thread, "collect_actor_results"))
        /\ UNCHANGED run
     \/ /\ run.tree[a] \in {"pending", "running"} /\ MayReserve(a)
        /\ run' = [Reserve(a) EXCEPT !.tree[a] = "running"]
        /\ pc' = "acting" /\ UNCHANGED pending
     \/ /\ run.tree[a] \in {"failed", "blocked"} /\ MayReserve(a)
        /\ run' = Reserve(a)
        /\ Raises
  /\ UNCHANGED store /\ Quiet

Acting(a) == pc = "acting" /\ thread.next = "execute_actor" /\ a \in thread.ready

\* The result is recorded; then record_actor_completed raises if the wall time
\* is over.  A Coder's worktree may or may not have left a diff to apply.
ActorDone(a) ==
  /\ Acting(a)
  /\ \E diff \in IF a = "coder" THEN BOOLEAN ELSE {FALSE} :
       LET r == [run EXCEPT !.tree[a] = "done",
                   !.patch = IF a # "coder" THEN @
                             ELSE IF diff THEN "ready" ELSE "none"]
       IN /\ IF run.expired
             THEN run' = r /\ Raises
             ELSE /\ run' = [r EXCEPT !.credited = @ \cup {a}]
                  /\ Returns(Goto(thread, "collect_actor_results"))
          /\ owed' = IF a = "coder" THEN diff ELSE owed
  /\ finished' = [finished EXCEPT ![a] = @ + 1]
  /\ UNCHANGED <<store, checkpoint, thread, answer, steps, request, accepted,
                 unsettled, used>>

\* A bootstrap or tool provider failure gives the slot back, any other keeps it.
ActorFailed(a) ==
  /\ Acting(a)
  /\ \E environment \in BOOLEAN :
       run' = [run EXCEPT !.tree[a] = "failed",
                 !.reserved[a] = IF environment /\ @ > 0 THEN @ - 1 ELSE @]
  /\ Returns(Goto(thread, "collect_actor_results"))
  /\ UNCHANGED store /\ Quiet

\* Fault: unfinished work is planned again.
CollectThenPlan(t) ==
  IF Planned \subseteq t.completed \cup t.failed \cup t.blocked THEN "verify" ELSE "plan"

CollectRoute(t) ==
  IF Planned \subseteq t.completed \cup t.failed \cup t.blocked
  THEN "verify" ELSE "schedule_ready_actors"

\* Applies the Coder's diff to the workspace; a diff that does not apply makes
\* the Coder count as failed in the graph, while its task stays done.
CollectActorResults ==
  /\ At("collect_actor_results")
  /\ \E applies \in IF "coder" \in Tasks("done") /\ run.patch = "ready"
                    THEN {"yes", "no"} ELSE {"nothing"} :
       LET failed == Tasks("failed") \cup (IF applies = "no" THEN {"coder"} ELSE {})
           t == [thread EXCEPT
                   !.completed = Tasks("done"), !.failed = failed,
                   !.blocked = Tasks("blocked"),
                   !.final = IF failed # {} THEN "failed" ELSE "executed"]
       IN /\ run' = IF applies = "yes" THEN [run EXCEPT !.patch = "applied"] ELSE run
          /\ owed' = (owed /\ applies # "yes")
          /\ Returns(Goto(t, CollectRoute(t)))
  /\ UNCHANGED <<store, checkpoint, thread, answer, steps, request, finished,
                 accepted, unsettled, used>>

\* Fault: the task tree is asked, not the results the graph collected.
VerifyTaskTree ==
  /\ At("verify")
  /\ LET passed == Tasks("failed") \cup Tasks("blocked") = {}
     IN Returns(Goto([thread EXCEPT !.final = IF passed THEN "verified" ELSE "failed"],
                     "repair_router"))
  /\ UNCHANGED <<store, run>> /\ Quiet

\* Fault: failed and blocked Actors do not matter.
VerifyNothing ==
  /\ At("verify")
  /\ Returns(Goto([thread EXCEPT !.final = "verified"], "repair_router"))
  /\ UNCHANGED <<store, run>> /\ Quiet

Verify ==
  /\ At("verify")
  /\ LET passed == thread.failed = {} /\ thread.blocked = {} /\ thread.final # "failed"
     IN Returns(Goto([thread EXCEPT !.final = IF passed THEN "verified" ELSE "failed"],
                     "repair_router"))
  /\ UNCHANGED <<store, run>> /\ Quiet

\* "repairable" is never set, so the route to bounded_repair does not exist.
RepairRouter ==
  /\ At("repair_router")
  /\ Returns(Goto(thread, IF thread.final = "verified" THEN "finalize_success"
                          ELSE "finalize_failure"))
  /\ UNCHANGED <<store, run>> /\ Quiet

FinalizeSuccess ==
  /\ At("finalize_success")
  /\ Persist("running", run)
  /\ Returns(Goto([thread EXCEPT !.final = "graph_committed"], "END"))
  /\ Quiet

FinalizeFailure ==
  /\ At("finalize_failure")
  /\ IF store.status \in {"created", "running", "paused"}
     THEN Persist("failed", run) ELSE UNCHANGED <<store, run>>
  /\ Returns(Goto([thread EXCEPT !.final = IF @ = "rejected" THEN @ ELSE "failed"],
                  "END"))
  /\ Quiet

-----------------------------------------------------------------------------
(***************************************************************************)
(* The graph engine (LangGraph, external) and run_stream around it         *)
(***************************************************************************)
\* Fault: nothing counts the supersteps.
ReturnUncounted ==
  /\ pc = "returning"
  /\ thread' = [pending EXCEPT !.stage = StageOf[thread.next]]
  /\ pc' = IF pending.next = "END" THEN "ended" ELSE "node"
  /\ pending' = NoThread
  /\ UNCHANGED <<store, run, checkpoint, answer, steps, history, used>>

\* The update is merged, the superstep counted, the next node chosen.
Return ==
  /\ pc = "returning"
  /\ thread' = [pending EXCEPT !.stage = StageOf[thread.next]]
  /\ steps' = steps + 1
  /\ pc' = IF pending.next = "END" THEN "ended" ELSE "node"
  /\ pending' = NoThread
  /\ UNCHANGED <<store, run, checkpoint, answer, history, used>>

\* Checkpoints are written in the background, while the next node runs.
WriteCheckpoint ==
  /\ pc \in Active
  /\ checkpoint # thread
  /\ checkpoint' = thread
  /\ UNCHANGED <<store, memory, pc, history, used>>

\* GraphRecursionError: the limit is reached with a node still to run.
ExceedRecursionLimit ==
  /\ pc = "node" /\ steps >= RecursionLimit
  /\ Raises
  /\ UNCHANGED <<store, run>> /\ Quiet

Mishap ==
  /\ used.mishaps < MaxMishaps
  /\ used' = [used EXCEPT !.mishaps = @ + 1]

\* A store, artifact or audit call of a handler raises.
Fault ==
  /\ pc \in {"node", "asking", "acting", "returning", "ended"}
  /\ Mishap
  /\ pc' = "raised"
  /\ pending' = NoThread
  /\ UNCHANGED <<durable, run, thread, answer, steps, history>>

\* Fault: the error is only reported.
ReportFailure ==
  /\ pc = "raised"
  /\ checkpoint' = thread
  /\ pc' = "idle"
  /\ UNCHANGED <<store, run, thread, pending, answer, steps, history, used>>

\* run_stream's handler of Exception.  Its own save may raise as well; that is
\* only reported, and the row stays as it is.
PersistFailure ==
  /\ pc = "raised"
  /\ \/ /\ IF store.status \in {"created", "running", "paused"}
           THEN Persist("failed", run) ELSE UNCHANGED <<store, run>>
        /\ UNCHANGED unsettled
     \/ /\ store.status \in {"created", "running", "paused"}
        /\ unsettled' = TRUE
        /\ UNCHANGED <<store, run>>
  /\ checkpoint' = thread
  /\ pc' = "idle"
  /\ UNCHANGED <<thread, pending, answer, steps, request, finished, accepted, owed,
                 used>>

\* The graph is at END and its checkpoint written: a committed graph
\* completes the Run, if the durable status may still become completed.
CompleteRun ==
  /\ pc = "ended"
  /\ checkpoint' = thread
  /\ IF thread.final # "graph_committed"
     THEN pc' = "idle" /\ UNCHANGED <<store, run>>
     ELSE IF CanBecome("completed")
     THEN pc' = "idle" /\ Persist("completed", run)
     ELSE pc' = "raised" /\ UNCHANGED <<store, run>>
  /\ UNCHANGED <<thread, pending, answer, steps, history, used>>

\* CancelledError: the graph task is cancelled, its checkpoint written out, and a
\* Run that is running becomes paused.  The shielded save may raise, or conflict
\* with a cancelled save whose UPDATE commits late; it is not even tried when that
\* save was the one that made the Run running, which the record then does not know.
Cancel ==
  /\ pc \in Active
  /\ Mishap
  /\ \/ /\ IF store.status = "running"
           THEN Persist("paused", run) ELSE UNCHANGED <<store, run>>
        /\ UNCHANGED unsettled
     \/ /\ store.status = "running"
        /\ unsettled' = TRUE
        /\ UNCHANGED <<store, run>>
  /\ checkpoint' = thread
  /\ pc' = "idle"
  /\ pending' = NoThread
  /\ UNCHANGED <<thread, answer, steps, request, finished, accepted, owed>>

\* Memory is lost; what a new process would load takes its place.
Forget ==
  /\ pc' = "down"
  /\ run' = store.saved
  /\ thread' = checkpoint
  /\ pending' = NoThread
  /\ answer' = "none"
  /\ steps' = 0
  /\ UNCHANGED <<durable, history>>

Crash ==
  /\ pc \in Active
  /\ Mishap
  /\ Forget

Exit == pc \in {"idle", "waiting"} /\ Forget /\ UNCHANGED used

WallTimeExpires ==
  /\ MayExpire /\ pc \in Active /\ run.policy # "none" /\ ~run.expired
  /\ run' = [run EXCEPT !.expired = TRUE]
  /\ UNCHANGED <<durable, thread, pending, answer, steps, pc, history, used>>

Invoke ==
  /\ used.invocations < MaxInvocations
  /\ used' = [used EXCEPT !.invocations = @ + 1]
  /\ steps' = 0
  /\ unsettled' = FALSE
  /\ UNCHANGED <<durable, run, pending, request, finished, owed>>

\* A new Run, possibly approved in advance; its input may be turned away.
StartRun ==
  /\ pc = "down" /\ used.invocations = 0
  /\ \/ \E preapproved \in BOOLEAN :
          /\ thread' = NewThread(preapproved)
          /\ accepted' = preapproved
          /\ pc' = "node"
     \/ /\ pc' = "raised"
        /\ UNCHANGED <<thread, accepted>>
  /\ Invoke /\ UNCHANGED answer

\* A Run that waits for approval cannot go on without an answer; any other
\* ignores the one it is given.
Continue(approval) ==
  LET waiting == thread.next = "request_human_approval"
  IN /\ pc' = IF waiting /\ approval = "none" THEN "raised"
              ELSE IF thread.next = "END" THEN "ended" ELSE "node"
     /\ answer' = IF waiting THEN approval ELSE "none"
     /\ accepted' = (accepted \/ (waiting /\ approval = "yes"))
     /\ Invoke /\ UNCHANGED thread

\* sca resume, with or without --approve-high-risk, in a new process.
ResumeRun(approval) ==
  /\ pc = "down"
  /\ store.status # "completed"
  /\ checkpoint.next # "none"
  /\ Continue(approval)

\* The approval prompt of an interactive session, in the same process.
AnswerPrompt(approval) == pc = "waiting" /\ Continue(approval)

-----------------------------------------------------------------------------
Handlers ==
  \/ AssessTask \/ CompilePolicy
  \/ RequestApproval \/ Interrupt \/ Approved \/ Rejected
  \/ Plan \/ ValidatePlan \/ ScheduleReadyActors
  \/ ExecutePlanner
  \/ \E a \in Planned : ExecuteActor(a)
  \/ CollectActorResults \/ Verify \/ RepairRouter
  \/ FinalizeSuccess \/ FinalizeFailure

Work ==
  \/ FinishPlanner
  \/ \E a \in Planned : ActorDone(a) \/ ActorFailed(a)

Engine ==
  \/ Return \/ ExceedRecursionLimit \/ PersistFailure \/ CompleteRun

Next ==
  \/ Handlers \/ Work \/ Engine
  \/ WriteCheckpoint \/ Fault \/ Cancel \/ Crash \/ Exit \/ WallTimeExpires
  \/ StartRun
  \/ \E approval \in {"none", "yes"} : ResumeRun(approval)
  \/ \E approval \in {"no", "yes"} : AnswerPrompt(approval)

Spec == Init /\ [][Next]_vars

\* The event loop runs what is ready; the wall time and the step limits of
\* the loops bound the Planner and the Actors.
FairSpec == Spec /\ WF_vars(Handlers) /\ WF_vars(Work) /\ WF_vars(Engine)

-----------------------------------------------------------------------------
Assessed == [strategy : Strategies \cup {"none"}, approval : BOOLEAN]

AggregateOf(planned) ==
  [assessed : Assessed, policy : {"none", "unapproved", "approved"},
   tree : [planned -> TaskStates], patch : {"none", "ready", "applied"},
   reserved : [planned -> Nat],
   attempts : Nat, credited : SUBSET planned, expired : BOOLEAN]

GraphState ==
  [next : Nodes \cup {"none", "END"}, stage : DOMAIN Allowed,
   approval : {"none", "yes", "no"}, assessed : Assessed,
   policy : {"none", "unapproved", "approved"},
   ready : SUBSET Actors, completed : SUBSET Actors, failed : SUBSET Actors,
   blocked : SUBSET Actors,
   final : {"", "executed", "failed", "verified", "graph_committed", "rejected"}]

\* Both stores and the memory of the process hold values of their types.
TypeOK ==
  /\ request \in [Places -> [strategy : Strategies, approval : BOOLEAN]]
  /\ store \in [status : DOMAIN LegalTransitions, saved : AggregateOf(Planned)]
  /\ run \in AggregateOf(Planned)
  /\ {checkpoint, thread, pending} \subseteq GraphState
  /\ pc \in Active \cup {"down", "idle", "waiting"}
  /\ answer \in {"none", "yes", "no"}
  /\ steps \in Nat
  /\ finished \in [Actors -> Nat]
  /\ accepted \in BOOLEAN /\ owed \in BOOLEAN /\ unsettled \in BOOLEAN
  /\ used \in [invocations : Nat, mishaps : Nat]

\* No Actor and no Planner call runs in a high-risk Run before a human has
\* said yes and RunStore has kept it, whichever process the answer reached
\* and wherever it died (_approval_route, _request_approval, _plan).
WorkNeedsDurableApproval ==
  pc = "acting" /\ NeedsApproval
    => accepted /\ store.saved.policy = "approved"

\* Every node the graph goes to, also after a resume, is a stage the
\* AgentWorkflow allows next (_instrument raises otherwise).
WorkflowAdmitsNode ==
  pc = "node" => LET stage == StageOf[thread.next]
                 IN stage = thread.stage \/ stage \in Allowed[thread.stage]

\* A completed Run has a committed graph, each planned Actor has finished,
\* after those it depends on, and the last diff of its Coder is in the
\* workspace, however often the Run died or was cancelled on the way.
CompletedMeansDone ==
  store.status = "completed" =>
    /\ checkpoint.next = "END" /\ checkpoint.final = "graph_committed"
    /\ \A a \in Planned : finished[a] > 0
    /\ ~owed

\* An invocation of a living process leaves the Run running only if the very save
\* that was to settle it failed, and then the graph has a checkpoint that a resume
\* goes on from.  A Run left created has no policy in the store, so that a resume
\* starts from the beginning (run_stream, _invoke).
IdleRunIsSettled ==
  pc \in {"idle", "waiting"} =>
    /\ store.status = "running" => unsettled /\ checkpoint.next # "none"
    /\ store.status = "created" => store.saved.policy = "none"

\* What an invocation can use up: the supersteps that are left, what is left of
\* this one, a checkpoint to write and the wall time.
ToDo ==
  [node |-> 3, asking |-> 2, acting |-> 2, returning |-> 1, ended |-> 1, raised |-> 0]

StepsToGo ==
  3 * (4 * (RecursionLimit - steps) + ToDo[pc])
    + (IF checkpoint # thread THEN 1 ELSE 0) + (IF run.expired THEN 0 ELSE 1)

\* Whatever the graph goes round in, its invocation comes nearer to an end with
\* every step, between the nodes, through a refusal of the ledger, an exception or
\* an answer (run_stream and its recursion_limit, the edges of build_graph).
InvocationRunsOut ==
  pc \in Active =>
    \/ pc' \notin Active
    \/ StepsToGo' \in Nat /\ StepsToGo' < StepsToGo

\* No node finds nothing to do: a graph that executes an Actor, also one that a
\* resume brought back from the checkpoint, has one to execute, and its task is
\* in the tree that came from the other store (_plan, _schedule_ready_actors).
InvocationGoesOn ==
  /\ pc = "node" => thread.next \in Nodes
  /\ pc = "acting" => thread.next \in {"execute_planner", "execute_actor"}
  /\ pc \in {"node", "acting"} /\ thread.next = "execute_actor" =>
       \E a \in thread.ready \cap Planned : run.tree[a] # "absent"

\* So an invocation always comes nearer to its end (run_stream with the graph).
InvocationAdvances == [][InvocationRunsOut /\ InvocationGoesOn']_vars

\* Every invocation ends, even when the ledger refuses every Actor and the
\* schedule and collect nodes go round: the recursion limit stops them.
InvocationsEnd == pc \in Active ~> pc \notin Active

\* The Run keeps the promise of RunLifecycle.
PlanOf(assessed) ==
  [of |-> assessed.strategy,
   actors |-> RolesOf(assessed.strategy),
   needs  |-> DependenciesOf(RolesOf(assessed.strategy)),
   approval |-> assessed.approval]

Lifecycle ==
  INSTANCE RunLifecycle WITH
    Plans <- {PlanOf(a) : a \in Assessed},
    NoPlan <- PlanOf(Unassessed),
    status <- store.status,
    plan <- PlanOf(store.saved.assessed),
    finished <- {a \in Actors : finished[a] > 0}

KeepsLifecycle == Lifecycle!Spec

=============================================================================
