------------------------ MODULE OrchestratorProofs ------------------------
(***************************************************************************)
(* Safety of Orchestrator for every request, workspace, recursion limit    *)
(* and number of invocations and mishaps, and that it implements           *)
(* RunLifecycle.                                                           *)
(*                                                                         *)
(* The invariant OrchInv has one part per relation the code keeps between  *)
(* its stores: where the program counter, the graph states and the pending *)
(* update stand (ControlInv), the aggregate in memory and the saved one    *)
(* (Agree), both and the approval (PolicyInv), the stage (StageInv), the   *)
(* durable status (StatusInv), and what the Actors have done (WorkInv).    *)
(***************************************************************************)
EXTENDS Orchestrator, TLAPS

USE OrchestratorAssumption

(***************************************************************************)
(* Facts of the plans and the graph                                        *)
(***************************************************************************)
\* What a Run may be assessed to is typed, whatever the request.
LEMMA AssessmentsTyped ==
  Assessments \subseteq [Places -> [strategy : Strategies, approval : BOOLEAN]]
<1>1. ASSUME NEW r, NEW w PROVE Assess(r, w) \in [strategy : Strategies, approval : BOOLEAN]
  <2>1. SelectStrategy(r, w) \in Strategies
    BY DEF SelectStrategy, Strategies
  <2>2. QED
    BY <2>1 DEF Assess
<1>2. QED
  BY <1>1 DEF Assessments

\* A strategy plans known Actors, a Coder whenever it plans one at all.
LEMMA RolesKnown ==
  /\ \A s : RolesOf(s) \subseteq Actors
  /\ RolesOf("none") = {}
  /\ \A s : RolesOf(s) # {} => "coder" \in RolesOf(s)
BY DEF RolesOf, Actors

\* The nodes by name.
LEMMA NodesNamed ==
  Nodes = {"assess_task", "compile_policy", "request_human_approval", "plan",
           "validate_plan", "schedule_ready_actors", "execute_planner",
           "execute_actor", "collect_actor_results", "verify", "repair_router",
           "finalize_success", "finalize_failure"}
BY DEF Nodes, StageOf

-----------------------------------------------------------------------------
(***************************************************************************)
(* Type correctness                                                        *)
(***************************************************************************)
Policies == {"none", "unapproved", "approved"}
Statuses == DOMAIN LegalTransitions
(* Nodes each node may hand over to. *)
Successors ==
  [assess_task |-> {"compile_policy"},
   compile_policy |-> {"plan", "finalize_failure", "request_human_approval"},
   request_human_approval |-> {"plan", "finalize_failure", "request_human_approval"},
   plan |-> {"validate_plan"},
   validate_plan |-> {"schedule_ready_actors"},
   schedule_ready_actors |->
     {"execute_planner", "collect_actor_results", "execute_actor"},
   execute_planner |-> {"verify"},
   execute_actor |-> {"collect_actor_results"},
   collect_actor_results |-> {"verify", "schedule_ready_actors"},
   verify |-> {"repair_router"},
   repair_router |-> {"finalize_success", "finalize_failure"},
   finalize_success |-> {"END"},
   finalize_failure |-> {"END"}]

Finals == {"", "executed", "failed", "verified", "graph_committed", "rejected"}

\* The durable statuses.
LEMMA StatusesNamed ==
  Statuses = {"created", "running", "paused", "failed", "completed"}
BY DEF Statuses, LegalTransitions

\* A fresh installation has the type of its plan.
LEMMA InstallTyped ==
  ASSUME NEW assessed \in Assessed, NEW policy \in Policies
  PROVE  /\ Install(assessed, policy) \in AggregateOf(RolesOf(assessed.strategy))
         /\ Install(assessed, policy).assessed = assessed
         /\ Install(assessed, policy).policy = policy
BY DEF Install, AggregateOf, TaskStates, Policies

\* A new graph state and none at all are graph states.
LEMMA ThreadsTyped ==
  /\ NoThread \in GraphState /\ NoThread.next = "none"
  /\ \A p \in BOOLEAN : NewThread(p) \in GraphState
<1>1. \A p \in BOOLEAN : NewThread(p) \in GraphState
  BY NodesNamed DEF NewThread, GraphState, Unassessed, Assessed, Allowed
<1>2. QED
  BY <1>1 DEF NoThread, GraphState

\* The two halves of a graph state besides its place.
SameChoices(u, t) ==
  u.approval = t.approval /\ u.assessed = t.assessed

SameResults(u, t) ==
  /\ u.ready = t.ready /\ u.completed = t.completed /\ u.failed = t.failed
  /\ u.blocked = t.blocked /\ u.final = t.final

\* Going to a node changes nothing else of a graph state.
LEMMA GotoTyped ==
  ASSUME NEW t \in GraphState, NEW n \in Nodes \cup {"END"}
  PROVE  Goto(t, n) \in GraphState /\ Goto(t, n).next = n /\ SameChoices(Goto(t, n), t)
         /\ SameResults(Goto(t, n), t)
BY DEF Goto, GraphState, SameChoices, SameResults

\* What handlers write into a graph state keeps its type and the rest of it.
LEMMA AssessedUpdate ==
  ASSUME NEW t \in GraphState, NEW x \in Assessed
  PROVE  LET u == [t EXCEPT !.assessed = x]
         IN /\ u \in GraphState
            /\ SameResults(u, t)
            /\ u.approval = t.approval
            /\ u.assessed = x
BY DEF GraphState, SameResults

\* What a node makes of the policy leaves the rest of the choices alone.
LEMMA PolicyUpdate ==
  ASSUME NEW t \in GraphState, NEW x \in Policies
  PROVE  LET u == [t EXCEPT !.policy = x]
         IN /\ u \in GraphState
            /\ SameResults(u, t)
            /\ SameChoices(u, t)
BY DEF GraphState, Policies, SameResults, SameChoices

\* A new outcome leaves the choices and the results alone.
LEMMA FinalUpdate ==
  ASSUME NEW t \in GraphState, NEW x \in Finals
  PROVE  LET u == [t EXCEPT !.final = x]
         IN /\ u \in GraphState
            /\ SameChoices(u, t)
            /\ u.final = x
            /\ u.ready = t.ready /\ u.completed = t.completed
            /\ u.failed = t.failed /\ u.blocked = t.blocked
BY DEF GraphState, Finals, SameChoices

\* A yes changes the approval and the policy.
LEMMA ApprovalUpdate ==
  ASSUME NEW t \in GraphState, NEW x \in Policies, NEW y \in {"none", "yes", "no"}
  PROVE  LET u == [t EXCEPT !.approval = y, !.policy = x]
         IN /\ u \in GraphState
            /\ SameResults(u, t)
            /\ u.assessed = t.assessed
            /\ u.approval = y
BY DEF GraphState, Policies, SameResults

\* A no changes the outcome as well.
LEMMA RejectionUpdate ==
  ASSUME NEW t \in GraphState, NEW x \in Policies
  PROVE  LET u == [t EXCEPT !.approval = "no", !.policy = x, !.final = "rejected"]
         IN /\ u \in GraphState
            /\ u.ready = t.ready
            /\ u.assessed = t.assessed
            /\ u.approval = "no"
BY DEF GraphState, Policies

\* The stage is no choice and no result.
LEMMA StageUpdate ==
  ASSUME NEW t \in GraphState, NEW x \in DOMAIN Allowed
  PROVE  LET u == [t EXCEPT !.stage = x]
         IN /\ u \in GraphState
            /\ SameResults(u, t)
            /\ SameChoices(u, t)
            /\ u.next = t.next
            /\ u.stage = x
BY DEF GraphState, SameResults, SameChoices

\* A schedule changes what is ready and what is blocked.
LEMMA ReadyUpdate ==
  ASSUME NEW t \in GraphState, NEW x \in SUBSET Actors, NEW y \in SUBSET Actors
  PROVE  LET u == [t EXCEPT !.ready = x, !.blocked = y]
         IN /\ u \in GraphState
            /\ SameChoices(u, t)
            /\ u.ready = x
BY DEF GraphState, SameChoices

\* A new Run is typed.
LEMMA InitTyped == Init => TypeOK
<1> SUFFICES ASSUME Init PROVE TypeOK
  OBVIOUS
<1>1. request \in [Places -> [strategy : Strategies, approval : BOOLEAN]]
  BY AssessmentsTyped DEF Init
<1>2. Unassessed \in Assessed /\ "none" \in Policies
  BY DEF Unassessed, Assessed, Policies
<1>3. run \in AggregateOf(Planned)
  BY <1>2, InstallTyped DEF Init, NoRun, Planned, Strategy
<1>4. "created" \in DOMAIN LegalTransitions
  BY DEF LegalTransitions
<1>5. store \in [status : DOMAIN LegalTransitions, saved : AggregateOf(Planned)]
  BY <1>3, <1>4 DEF Init
<1>6. {checkpoint, thread, pending} \subseteq GraphState
  BY ThreadsTyped DEF Init
<1>7. QED
  BY <1>1, <1>3, <1>5, <1>6 DEF Init, TypeOK, Actors, Active

\* Where the conditional edges lead.
LEMMA RoutesKnown ==
  /\ \A t : ApprovalRoute(t) \in {"plan", "finalize_failure", "request_human_approval"}
  /\ \A ready : DispatchRoute(ready)
       \in {"execute_planner", "collect_actor_results", "execute_actor"}
  /\ \A t : CollectRoute(t) \in {"verify", "schedule_ready_actors"}
BY DEF ApprovalRoute, DispatchRoute, CollectRoute

\* The choices in a graph state t are the thread's, but for the one its node makes.
ChoicesOf(t) ==
  /\ \/ t.assessed = thread.assessed
     \/ thread.next = "assess_task" /\ \E w \in Places : t.assessed = request[w]
  /\ \/ t.approval = thread.approval
     \/ thread.next = "request_human_approval" /\ t.approval = answer
  /\ t.ready = thread.ready \/ thread.next = "schedule_ready_actors"

\* What a handler returns is a graph state at a node that may come next.
LEMMA UpdatesTyped ==
  ASSUME TypeOK, Handlers \/ Work,
         pc = "asking" => thread.next = "request_human_approval"
  PROVE  /\ pending' \in GraphState
         /\ pc' = "returning" => /\ pending'.next \in Successors[thread.next]
                                /\ ChoicesOf(pending')
<1> DEFINE Done ==
      /\ pending' \in GraphState
      /\ pc' = "returning" => /\ pending'.next \in Successors[thread.next]
                             /\ ChoicesOf(pending')
<1> USE NodesNamed DEF Returns, Raises
<1>0. thread \in GraphState /\ pending \in GraphState
  BY DEF TypeOK
<1>20. \A t \in GraphState, n \in Nodes \cup {"END"} :
        n \in Successors[thread.next] /\ ChoicesOf(t) /\ pending' = Goto(t, n) => Done
  BY GotoTyped DEF ChoicesOf, SameChoices, SameResults
<1>21. pending' = pending /\ pc' # "returning" => Done
  BY <1>0
<1>22. ChoicesOf(thread)
  BY DEF ChoicesOf
<1> HIDE DEF Done
<1> SUFFICES Done
  BY DEF Done
<1>1. CASE AssessTask
  <2>1. PICK w \in Places :
          pending' = Goto([thread EXCEPT !.assessed = request[w]], "compile_policy")
    BY <1>1 DEF AssessTask
  <2> DEFINE t == [thread EXCEPT !.assessed = request[w]]
  <2>2. t \in GraphState /\ ChoicesOf(t)
    <3>1. request[w] \in Assessed
      BY DEF TypeOK, Assessed
    <3>2. QED
      BY <3>1, <1>0, <1>1, AssessedUpdate DEF AssessTask, At, ChoicesOf, SameResults
  <2>3. "compile_policy" \in Successors[thread.next]
    BY <1>1 DEF AssessTask, At, Successors
  <2>4. QED
    BY <2>1, <2>2, <2>3, <1>20
<1>2. CASE CompilePolicy
  <2>1. \/ UNCHANGED pending /\ pc' # "returning"
        \/ \E policy \in Policies :
             LET t == [thread EXCEPT !.policy = policy]
             IN pending' = Goto(t, ApprovalRoute(t))
    BY <1>2 DEF CompilePolicy, Policies
  <2>2. ASSUME NEW policy \in Policies,
               LET t == [thread EXCEPT !.policy = policy] IN pending' = Goto(t, ApprovalRoute(t))
        PROVE  Done
    <3> DEFINE t == [thread EXCEPT !.policy = policy]
    <3>1. t \in GraphState /\ ChoicesOf(t)
      BY <1>0, PolicyUpdate DEF ChoicesOf, SameResults, SameChoices
    <3>2. ApprovalRoute(t) \in Successors[thread.next] /\ ApprovalRoute(t) \in Nodes
      BY <1>2, RoutesKnown DEF CompilePolicy, At, Successors
    <3>3. QED
      BY <2>2, <3>1, <3>2, <1>20
  <2>3. QED
    BY <2>1, <2>2, <1>21
<1>3. CASE RequestApproval \/ Interrupt \/ ExecutePlanner
  BY <1>3, <1>21 DEF RequestApproval, Interrupt, ExecutePlanner, memory
<1>5. CASE Approved \/ Rejected
  <2> DEFINE yes == [thread EXCEPT !.approval = "yes", !.policy = "approved"]
             no == [thread EXCEPT !.approval = "no", !.policy = run.policy,
                                  !.final = "rejected"]
  <2>1. \/ answer = "yes" /\ pending' = Goto(yes, ApprovalRoute(yes))
        \/ answer = "no" /\ pending' = Goto(no, ApprovalRoute(no))
    BY <1>5 DEF Approved, Rejected
  <2>2. run.policy \in Policies
    BY DEF TypeOK, AggregateOf, Policies
  <2>3. yes \in GraphState /\ (answer = "yes" => ChoicesOf(yes))
    BY <1>0, <1>5, ApprovalUpdate DEF Approved, Rejected, Policies, ChoicesOf, SameResults
  <2>8. no \in GraphState /\ (answer = "no" => ChoicesOf(no))
    BY <2>2, <1>0, <1>5, RejectionUpdate DEF Approved, Rejected, ChoicesOf
  <2>4. \A t : ApprovalRoute(t) \in Successors[thread.next] /\ ApprovalRoute(t) \in Nodes
    BY <1>5, RoutesKnown DEF Approved, Rejected, Successors
  <2>5. QED
    BY <2>1, <2>3, <2>8, <2>4, <1>20
<1>6. CASE Plan \/ ValidatePlan \/ RepairRouter
  <2>1. \/ UNCHANGED pending /\ pc' # "returning"
        \/ thread.next = "plan" /\ pending' = Goto(thread, "validate_plan")
        \/ thread.next = "validate_plan" /\ pending' = Goto(thread, "schedule_ready_actors")
        \/ thread.next = "repair_router" /\ pending' = Goto(thread, "finalize_success")
        \/ thread.next = "repair_router" /\ pending' = Goto(thread, "finalize_failure")
    BY <1>6 DEF Plan, ValidatePlan, RepairRouter, At
  <2>2. QED
    BY <2>1, <1>0, <1>20, <1>21, <1>22 DEF Successors
<1>7. CASE ScheduleReadyActors
  <2>1. PICK ready \in SUBSET Actors, blocked \in SUBSET Actors :
          pending' = Goto([thread EXCEPT !.ready = ready, !.blocked = blocked],
                          DispatchRoute(ready))
    BY <1>7, RolesKnown DEF ScheduleReadyActors, Planned
  <2> DEFINE t == [thread EXCEPT !.ready = ready, !.blocked = blocked]
  <2>2. t \in GraphState /\ ChoicesOf(t)
    <3>1. t \in GraphState /\ SameChoices(t, thread)
      BY <1>0, ReadyUpdate
    <3>2. thread.next = "schedule_ready_actors"
      BY <1>7 DEF ScheduleReadyActors, At
    <3> HIDE DEF t
    <3>3. QED
      BY <3>1, <3>2 DEF ChoicesOf, SameChoices
  <2>3. DispatchRoute(ready) \in Successors[thread.next] /\ DispatchRoute(ready) \in Nodes
    BY <1>7, RoutesKnown DEF ScheduleReadyActors, At, Successors
  <2>4. QED
    BY <2>1, <2>2, <2>3, <1>20
<1>9. CASE \E a \in Planned : ExecuteActor(a) \/ ActorDone(a) \/ ActorFailed(a)
  <2>1. \/ UNCHANGED pending /\ pc' # "returning"
        \/ thread.next = "execute_actor" /\ pending' = Goto(thread, "collect_actor_results")
    BY <1>9 DEF ExecuteActor, ActorDone, ActorFailed, At, Acting
  <2>2. QED
    BY <2>1, <1>0, <1>20, <1>21, <1>22 DEF Successors
<1>10. CASE CollectActorResults
  <2>1. PICK x \in SUBSET Actors, y \in SUBSET Actors, z \in SUBSET Actors, f \in Finals :
          LET t == [thread EXCEPT !.completed = x, !.failed = y, !.blocked = z, !.final = f]
          IN pending' = Goto(t, CollectRoute(t))
    <3>1. \A s : Tasks(s) \subseteq Actors
      BY RolesKnown DEF Tasks, Planned
    <3>2. PICK applies \in {"yes", "no", "nothing"} :
            LET failed == Tasks("failed") \cup (IF applies = "no" THEN {"coder"} ELSE {})
                t == [thread EXCEPT
                        !.completed = Tasks("done"), !.failed = failed,
                        !.blocked = Tasks("blocked"),
                        !.final = IF failed # {} THEN "failed" ELSE "executed"]
            IN pending' = Goto(t, CollectRoute(t))
      BY <1>10 DEF CollectActorResults
    <3> DEFINE failed == Tasks("failed") \cup (IF applies = "no" THEN {"coder"} ELSE {})
    <3>3. failed \in SUBSET Actors
      BY <3>1 DEF Actors
    <3>4. /\ Tasks("done") \in SUBSET Actors /\ Tasks("blocked") \in SUBSET Actors
          /\ (IF failed # {} THEN "failed" ELSE "executed") \in Finals
      BY <3>1 DEF Finals
    <3>5. QED
      BY <3>2, <3>3, <3>4
  <2> DEFINE t == [thread EXCEPT !.completed = x, !.failed = y, !.blocked = z, !.final = f]
  <2>2. t \in GraphState /\ ChoicesOf(t)
    <3>1. t \in GraphState /\ SameChoices(t, thread) /\ t.ready = thread.ready
      BY <1>0 DEF GraphState, Finals, SameChoices
    <3> HIDE DEF t
    <3>2. QED
      BY <3>1 DEF ChoicesOf, SameChoices
  <2>3. CollectRoute(t) \in Successors[thread.next] /\ CollectRoute(t) \in Nodes
    BY <1>10, RoutesKnown DEF CollectActorResults, At, Successors
  <2>4. QED
    BY <2>1, <2>2, <2>3, <1>20
<1>11. CASE Verify \/ FinishPlanner \/ FinalizeSuccess \/ FinalizeFailure
  <2>1. PICK f \in Finals :
          LET t == [thread EXCEPT !.final = f]
          IN \/ thread.next = "verify" /\ pending' = Goto(t, "repair_router")
             \/ thread.next = "execute_planner" /\ pending' = Goto(t, "verify")
             \/ /\ thread.next \in {"finalize_success", "finalize_failure"}
                /\ pending' = Goto(t, "END")
    BY <1>11 DEF Verify, FinishPlanner, FinalizeSuccess, FinalizeFailure, Finals, At
  <2> DEFINE t == [thread EXCEPT !.final = f]
  <2>2. t \in GraphState /\ ChoicesOf(t)
    BY <1>0, FinalUpdate DEF ChoicesOf, SameChoices
  <2>3. QED
    BY <2>1, <2>2, <1>20 DEF Successors
<1>15. QED
  BY <1>1, <1>2, <1>3, <1>5, <1>6, <1>7, <1>9, <1>10, <1>11 DEF Handlers, Work

(***************************************************************************)
(* Where the process stands, and what the two graph states have to do with *)
(* each other                                                              *)
(***************************************************************************)
\* Nodes after which no Actor works any more.
Closing == {"verify", "repair_router", "finalize_success", "finalize_failure", "END"}

ControlInv ==
  /\ pc \in {"node", "asking", "acting", "returning"} => thread.next \in Nodes
  /\ pc \in {"asking", "waiting"} => thread.next = "request_human_approval"
  /\ pc = "acting" => thread.next \in {"execute_planner", "execute_actor"}
  /\ pc = "ended" => thread.next = "END"
  /\ pc = "down" => thread = checkpoint
  /\ pc = "returning" => pending.next \in Successors[thread.next]
  /\ pc # "returning" => pending.next = "none"
  /\ checkpoint.next \in Closing => thread.next \in Closing
  /\ checkpoint.next = "END" => thread.next = "END"
  /\ used.invocations = 0 => pc = "down" /\ checkpoint.next = "none" /\ ~accepted

\* What handlers and work write into the aggregate keeps its type and its plan.
LEMMA AggregateUpdates ==
  ASSUME NEW planned, NEW r \in AggregateOf(planned)
  PROVE  /\ [r EXCEPT !.policy = "approved"] \in AggregateOf(planned)
         /\ [r EXCEPT !.expired = TRUE] \in AggregateOf(planned)
         /\ [r EXCEPT !.patch = "applied"] \in AggregateOf(planned)
         /\ \A tree \in [planned -> TaskStates] :
              [r EXCEPT !.tree = tree] \in AggregateOf(planned)
BY DEF AggregateOf

\* The aggregate in memory and the saved one are of one assessment and policy.
Agree ==
  /\ run.assessed = store.saved.assessed
  /\ run.policy = store.saved.policy

\* The assessment is fixed with the first policy, and the policy changes only
\* when a yes is answered to it.
PolicyMoves ==
  \/ run'.assessed = run.assessed /\ run'.policy = run.policy
  \/ /\ run.policy = "none" /\ run'.policy \in {"unapproved", "approved"}
     /\ thread.next = "compile_policy" /\ run'.assessed = thread.assessed
     /\ run'.policy = "approved" => thread.approval = "yes"
     /\ store'.status = "running"
  \/ /\ run'.assessed = run.assessed /\ run'.policy = "approved" /\ answer = "yes"
     /\ thread.next = "request_human_approval" /\ store'.status = "running"

\* A step saves the aggregate it leaves in memory, or changes neither the
\* assessment nor the policy.
Saves ==
  /\ PolicyMoves
  /\ run' \in AggregateOf(RolesOf(run'.assessed.strategy))
  /\ \E s \in Statuses : store' = [status |-> s, saved |-> run']

Keeps ==
  /\ run' \in AggregateOf(Planned)
  /\ run'.assessed = run.assessed /\ run'.policy = run.policy
  /\ store' = store

\* Every step saves the aggregate or keeps its assessment and policy.
LEMMA RunTyped ==
  ASSUME TypeOK, Agree, ControlInv, [Next]_vars
  PROVE  Saves \/ Keeps
<1> USE DEF Returns, Raises
<1>0. /\ run \in AggregateOf(Planned) /\ store.saved \in AggregateOf(Planned)
      /\ thread \in GraphState
      /\ store.status \in Statuses
  BY DEF TypeOK, Statuses
<1>1. Planned = RolesOf(run.assessed.strategy)
  BY DEF Planned, Strategy
<1>2. CASE UNCHANGED <<store, run>>
  BY <1>2, <1>0 DEF Keeps
<1> DEFINE SavesRun == \E s \in Statuses : Persist(s, run)
<1>3. CASE SavesRun
  BY <1>3, <1>0, <1>1 DEF Persist, Saves, PolicyMoves
<1>4. CASE AssessTask \/ RequestApproval \/ Interrupt \/ Rejected \/ ValidatePlan
           \/ ExecutePlanner \/ FinishPlanner \/ Verify \/ RepairRouter
           \/ FinalizeSuccess \/ FinalizeFailure
  <2>1. UNCHANGED <<store, run>> \/ SavesRun
    BY <1>4, <1>0, StatusesNamed
    DEF AssessTask, RequestApproval, Interrupt, Rejected, ValidatePlan, ExecutePlanner,
        FinishPlanner, Verify, RepairRouter, FinalizeSuccess, FinalizeFailure, memory
  <2>2. QED
    BY <2>1, <1>2, <1>3
<1>5. CASE CompilePolicy
  <2>1. \/ UNCHANGED <<store, run>> \/ SavesRun
        \/ /\ run.policy = "none" /\ thread.next = "compile_policy"
           /\ \E policy \in {"unapproved", "approved"} :
                /\ Persist("running", Install(thread.assessed, policy))
                /\ policy = "approved" => thread.approval = "yes"
    BY <1>5, StatusesNamed DEF CompilePolicy, At
  <2>2. thread.assessed \in Assessed
    BY <1>0 DEF GraphState
  <2>3. ASSUME run.policy = "none", thread.next = "compile_policy",
               NEW policy \in {"unapproved", "approved"},
               Persist("running", Install(thread.assessed, policy)),
               policy = "approved" => thread.approval = "yes"
        PROVE  Saves
    BY <2>2, <2>3, InstallTyped, StatusesNamed DEF Persist, Saves, PolicyMoves, Policies
  <2>4. QED
    BY <2>1, <2>3, <1>2, <1>3
<1>6. CASE Approved
  <2> DEFINE r == [run EXCEPT !.policy = "approved"]
  <2>1. Persist("running", r)
    BY <1>6 DEF Approved
  <2>2. r \in AggregateOf(Planned) /\ r.assessed = run.assessed /\ r.policy = "approved"
    BY <1>0, AggregateUpdates DEF AggregateOf
  <2>3. answer = "yes" /\ thread.next = "request_human_approval"
    BY <1>6 DEF Approved, ControlInv
  <2>4. QED
    BY <2>1, <2>2, <2>3, <1>1, StatusesNamed DEF Persist, Saves, PolicyMoves
<1>7. CASE Plan
  <2> DEFINE tree == [a \in Planned |-> IF run.tree[a] = "absent" THEN "pending"
                                                                  ELSE run.tree[a]]
             r == [run EXCEPT !.tree = tree]
  <2>1. UNCHANGED <<store, run>> \/ Persist("running", r)
    BY <1>7 DEF Plan
  <2>2. tree \in [Planned -> TaskStates]
    BY <1>0 DEF AggregateOf, TaskStates
  <2>3. r \in AggregateOf(Planned) /\ r.assessed = run.assessed /\ r.policy = run.policy
    BY <2>2, <1>0, AggregateUpdates DEF AggregateOf
  <2>4. QED
    BY <2>1, <2>3, <1>1, <1>2, StatusesNamed DEF Persist, Saves, PolicyMoves
<1>8. CASE ScheduleReadyActors
  <2>1. PICK blocked :
          run' = [run EXCEPT !.tree =
             [a \in Planned |-> IF a \in blocked /\ run.tree[a] = "pending"
                                THEN "blocked" ELSE run.tree[a]]]
    BY <1>8 DEF ScheduleReadyActors
  <2> DEFINE tree == [a \in Planned |-> IF a \in blocked /\ run.tree[a] = "pending"
                                        THEN "blocked" ELSE run.tree[a]]
  <2>2. tree \in [Planned -> TaskStates]
    BY <1>0 DEF AggregateOf, TaskStates
  <2>3. run' = [run EXCEPT !.tree = tree]
    BY <2>1
  <2>4. run' \in AggregateOf(Planned)
    BY <2>2, <2>3, <1>0, AggregateUpdates
  <2>5. run'.assessed = run.assessed /\ run'.policy = run.policy
    BY <2>3, <1>0 DEF AggregateOf
  <2>6. store' = store
    BY <1>8 DEF ScheduleReadyActors
  <2>7. QED
    BY <2>4, <2>5, <2>6 DEF Keeps
<1>9. ASSUME NEW a \in Planned, ExecuteActor(a) PROVE Keeps
  <2>1. store' = store
    BY <1>9 DEF ExecuteActor
  <2>2. run' = run \/ run' = Reserve(a) \/ run' = [Reserve(a) EXCEPT !.tree[a] = "running"]
    BY <1>9 DEF ExecuteActor
  <2>3. /\ Reserve(a) \in AggregateOf(Planned)
        /\ Reserve(a).assessed = run.assessed /\ Reserve(a).policy = run.policy
    <3>1. /\ [run.reserved EXCEPT ![a] = @ + 1] \in [Planned -> Nat]
          /\ run.attempts + 1 \in Nat
      BY <1>0 DEF AggregateOf
    <3>2. Reserve(a) = [run EXCEPT !.reserved = [run.reserved EXCEPT ![a] = @ + 1],
                                   !.attempts = run.attempts + 1]
      BY <1>0 DEF Reserve, AggregateOf
    <3>3. QED
      BY <3>1, <3>2, <1>0 DEF AggregateOf
  <2>4. LET r == [Reserve(a) EXCEPT !.tree[a] = "running"]
        IN /\ r \in AggregateOf(Planned)
           /\ r.assessed = Reserve(a).assessed /\ r.policy = Reserve(a).policy
    BY <2>3 DEF AggregateOf, TaskStates
  <2>5. QED
    BY <2>1, <2>2, <2>3, <2>4, <1>0 DEF Keeps
<1>10. ASSUME NEW a \in Planned, ActorDone(a) PROVE Keeps
  <2>1. store' = store
    BY <1>10 DEF ActorDone
  <2>2. PICK patch \in {"none", "ready", "applied"} :
          LET r == [run EXCEPT !.tree[a] = "done", !.patch = patch]
          IN run' = r \/ run' = [r EXCEPT !.credited = @ \cup {a}]
    <3>1. run.patch \in {"none", "ready", "applied"}
      BY <1>0 DEF AggregateOf
    <3>2. QED
      BY <1>10, <3>1 DEF ActorDone
  <2> DEFINE r == [run EXCEPT !.tree[a] = "done", !.patch = patch]
  <2>3. /\ r \in AggregateOf(Planned)
        /\ r.assessed = run.assessed /\ r.policy = run.policy
    BY <1>0 DEF AggregateOf, TaskStates
  <2>4. LET q == [r EXCEPT !.credited = @ \cup {a}]
        IN q \in AggregateOf(Planned) /\ q.assessed = r.assessed /\ q.policy = r.policy
    BY <2>3 DEF AggregateOf
  <2>5. QED
    BY <2>1, <2>2, <2>3, <2>4 DEF Keeps
<1>11. ASSUME NEW a \in Planned, ActorFailed(a) PROVE Keeps
  <2>1. store' = store
    BY <1>11 DEF ActorFailed
  <2>2. PICK environment \in BOOLEAN :
          run' = [run EXCEPT !.tree[a] = "failed",
                    !.reserved[a] = IF environment /\ @ > 0 THEN @ - 1 ELSE @]
    BY <1>11 DEF ActorFailed
  <2>3. (IF environment /\ run.reserved[a] > 0 THEN run.reserved[a] - 1
                                               ELSE run.reserved[a]) \in Nat
    BY <1>0 DEF AggregateOf
  <2>4. QED
    BY <2>1, <2>2, <2>3, <1>0 DEF Keeps, AggregateOf, TaskStates
<1>12. CASE CollectActorResults
  <2>1. run' = run \/ run' = [run EXCEPT !.patch = "applied"]
    BY <1>12 DEF CollectActorResults
  <2>2. store' = store
    BY <1>12 DEF CollectActorResults
  <2> DEFINE r == [run EXCEPT !.patch = "applied"]
  <2>3. r \in AggregateOf(Planned)
    BY <1>0, AggregateUpdates
  <2>4. r.assessed = run.assessed /\ r.policy = run.policy
    BY <1>0 DEF AggregateOf
  <2>5. QED
    BY <2>1, <2>2, <2>3, <2>4, <1>0 DEF Keeps
<1>13. CASE Engine \/ Fault \/ Cancel \/ WriteCheckpoint \/ Interrupt
  <2>1. UNCHANGED <<store, run>> \/ SavesRun
    BY <1>13, <1>0, StatusesNamed
    DEF Engine, Return, ExceedRecursionLimit, PersistFailure, CompleteRun, Fault, Cancel,
        WriteCheckpoint, Interrupt, durable, memory
  <2>2. QED
    BY <2>1, <1>2, <1>3
<1>14. CASE Crash \/ Exit
  <2>1. run' = store.saved /\ store' = store
    BY <1>14 DEF Crash, Exit, Forget, durable
  <2>2. QED
    BY <2>1, <1>0 DEF Keeps, Agree
<1>15. CASE WallTimeExpires
  <2>1. run' = [run EXCEPT !.expired = TRUE] /\ store' = store
    BY <1>15 DEF WallTimeExpires, durable
  <2>2. QED
    BY <2>1, <1>0, AggregateUpdates DEF Keeps, AggregateOf
<1>16. CASE StartRun
  BY <1>16, <1>2 DEF StartRun, Invoke, durable
<1>17. ASSUME NEW approval, ResumeRun(approval) \/ AnswerPrompt(approval)
       PROVE  Keeps
  <2>1. UNCHANGED <<store, run>>
    BY <1>17 DEF ResumeRun, AnswerPrompt, Continue, Invoke, durable
  <2>2. QED
    BY <2>1, <1>0 DEF Keeps
<1>18. CASE UNCHANGED vars
  BY <1>18, <1>2 DEF vars, durable, memory
<1>19. QED
  BY <1>4, <1>5, <1>6, <1>7, <1>8, <1>9, <1>10, <1>11, <1>12, <1>13, <1>14, <1>15,
     <1>16, <1>17, <1>18 DEF Next, Handlers, Work

\* The aggregates keep their type and agree.
LEMMA RunStaysTyped ==
  ASSUME TypeOK, Agree, ControlInv, [Next]_vars
  PROVE  /\ run' \in AggregateOf(Planned')
         /\ store' \in [status : DOMAIN LegalTransitions, saved : AggregateOf(Planned')]
         /\ Agree'
<1>1. Planned' = RolesOf(run'.assessed.strategy)
  BY DEF Planned, Strategy
<1>2. CASE Saves
  BY <1>1, <1>2 DEF Saves, Agree, Statuses
<1>3. CASE Keeps
  BY <1>1, <1>3 DEF Keeps, TypeOK, Agree, Planned, Strategy
<1>4. QED
  BY <1>2, <1>3, RunTyped

\* What a handler or a piece of work does to the control.
LEMMA HandlersMove ==
  ASSUME TypeOK, ControlInv, Handlers \/ Work
  PROVE  /\ thread' = thread /\ checkpoint' \in {checkpoint, thread}
         /\ UNCHANGED <<used, accepted, answer, request>>
         /\ thread.next \in Nodes
         /\ pc \in {"node", "asking", "acting"}
         /\ \/ pc' = "returning"
            \/ UNCHANGED pending /\ pc' = "raised"
            \/ /\ UNCHANGED pending /\ pc' \in {"asking", "waiting"}
               /\ thread.next = "request_human_approval"
            \/ /\ UNCHANGED pending /\ pc' = "acting"
               /\ thread.next \in {"execute_planner", "execute_actor"}
<1> USE DEF Returns, Raises, Quiet, At, history, ControlInv
<1>1. CASE AssessTask \/ CompilePolicy \/ RequestApproval \/ Plan \/ ValidatePlan
           \/ ScheduleReadyActors \/ ExecutePlanner
  BY <1>1, NodesNamed
  DEF AssessTask, CompilePolicy, RequestApproval, Plan, ValidatePlan, ScheduleReadyActors,
      ExecutePlanner
<1>2. CASE Interrupt \/ Approved \/ Rejected
  BY <1>2, NodesNamed DEF Interrupt, Approved, Rejected, memory
<1>3. CASE Verify \/ RepairRouter \/ FinalizeSuccess \/ FinalizeFailure \/ FinishPlanner
  BY <1>3, NodesNamed
  DEF Verify, RepairRouter, FinalizeSuccess, FinalizeFailure, FinishPlanner
<1>4. CASE CollectActorResults
  BY <1>4, NodesNamed DEF CollectActorResults
<1>5. ASSUME NEW a \in Planned, ExecuteActor(a) \/ ActorFailed(a) \/ ActorDone(a)
      PROVE  /\ UNCHANGED <<thread, checkpoint, used, accepted, answer, request>>
             /\ thread.next = "execute_actor" /\ pc \in {"node", "acting"}
             /\ \/ pc' = "returning"
                \/ UNCHANGED pending /\ pc' \in {"raised", "acting"}
  BY <1>5 DEF ExecuteActor, ActorFailed, ActorDone, Acting
<1>6. QED
  BY <1>1, <1>2, <1>3, <1>4, <1>5, NodesNamed DEF Handlers, Work

\* The graph states keep their type.
LEMMA ThreadsStayTyped ==
  ASSUME TypeOK, ControlInv, [Next]_vars
  PROVE  ({checkpoint, thread, pending} \subseteq GraphState)'
<1>0. {checkpoint, thread, pending} \subseteq GraphState
  BY DEF TypeOK
<1> SUFFICES checkpoint' \in GraphState /\ thread' \in GraphState /\ pending' \in GraphState
  OBVIOUS
<1>1. CASE Handlers \/ Work
  BY <1>0, <1>1, HandlersMove, UpdatesTyped DEF ControlInv
<1>2. CASE Return
  <2>1. StageOf[thread.next] \in DOMAIN Allowed
    BY <1>2, NodesNamed DEF Return, ControlInv, StageOf, Allowed
  <2>2. QED
    BY <1>0, <1>2, <2>1, StageUpdate, ThreadsTyped DEF Return
<1>3. CASE (Engine /\ ~Return) \/ WriteCheckpoint \/ Fault \/ Cancel
  BY <1>0, <1>3, ThreadsTyped
  DEF Engine, ExceedRecursionLimit, PersistFailure, CompleteRun, WriteCheckpoint, Fault,
      Cancel, Raises, Quiet, durable, memory
<1>4. CASE Crash \/ Exit
  BY <1>0, <1>4, ThreadsTyped DEF Crash, Exit, Forget, durable
<1>5. CASE WallTimeExpires \/ UNCHANGED vars
  BY <1>0, <1>5 DEF WallTimeExpires, durable, vars, memory
<1>6. CASE StartRun
  BY <1>0, <1>6, ThreadsTyped DEF StartRun, Invoke, durable
<1>7. ASSUME NEW approval, ResumeRun(approval) \/ AnswerPrompt(approval)
      PROVE  UNCHANGED <<checkpoint, thread, pending>>
  BY <1>7 DEF ResumeRun, AnswerPrompt, Continue, Invoke, durable
<1>8. QED
  BY <1>0, <1>1, <1>2, <1>3, <1>4, <1>5, <1>6, <1>7 DEF Next, Engine

\* Every step keeps the program counter, the graph states and the update in line.
LEMMA ControlStays ==
  ASSUME TypeOK, ControlInv, [Next]_vars
  PROVE  ControlInv'
<1> USE NodesNamed
<1>0. thread \in GraphState /\ NoThread.next = "none"
  BY ThreadsTyped DEF TypeOK
<1>1. CASE Handlers \/ Work
  <2>1. pc' = "returning" => pending'.next \in Successors[thread.next]
    BY <1>1, UpdatesTyped DEF ControlInv
  <2>2. QED
    BY <1>1, <2>1, HandlersMove DEF ControlInv
<1>2. CASE Return
  <2>1. thread'.next = pending.next
    BY <1>2 DEF Return, TypeOK, GraphState
  <2>2. /\ thread.next \in Closing => pending.next \in Closing
        /\ thread.next # "END" /\ pending.next \in Nodes \cup {"END"}
    BY <1>2 DEF Return, ControlInv, Successors, Closing
  <2>3. QED
    BY <1>0, <1>2, <2>1, <2>2 DEF Return, ControlInv, history
<1>3. CASE (Engine /\ ~Return) \/ WriteCheckpoint \/ Fault \/ Cancel
  BY <1>0, <1>3
  DEF Engine, ExceedRecursionLimit, PersistFailure, CompleteRun, WriteCheckpoint, Fault,
      Cancel, Mishap, Raises, Quiet, durable, memory, history, ControlInv, TypeOK, Active
<1>4. CASE Crash \/ Exit
  BY <1>0, <1>4 DEF Crash, Exit, Mishap, Forget, durable, history, ControlInv, TypeOK, Active
<1>5. CASE WallTimeExpires \/ UNCHANGED vars
  BY <1>5 DEF WallTimeExpires, durable, vars, memory, history, ControlInv
<1>6. CASE StartRun
  <2>1. \A p : NewThread(p).next = "assess_task"
    BY DEF NewThread
  <2>2. used'.invocations # 0
    BY <1>6 DEF StartRun, Invoke, TypeOK
  <2>3. QED
    BY <1>6, <2>1, <2>2 DEF StartRun, Invoke, durable, ControlInv, Closing
<1>7. ASSUME NEW approval, ResumeRun(approval) \/ AnswerPrompt(approval)
      PROVE  ControlInv'
  <2>1. used'.invocations # 0
    BY <1>7 DEF ResumeRun, AnswerPrompt, Continue, Invoke, TypeOK
  <2>2. thread.next \in Nodes \cup {"END"}
    BY <1>7 DEF ResumeRun, AnswerPrompt, ControlInv, TypeOK, GraphState
  <2>3. QED
    BY <1>7, <2>1, <2>2 DEF ResumeRun, AnswerPrompt, Continue, Invoke, durable, ControlInv
<1>8. QED
  BY <1>1, <1>2, <1>3, <1>4, <1>5, <1>6, <1>7 DEF Next, Engine

(***************************************************************************)
(* Work needs an approved policy, a policy an approval, and an approval a  *)
(* human                                                                   *)
(***************************************************************************)
\* Nodes past the installation of a policy, and those past its approval.
Compiled == (Nodes \cup {"END"}) \ {"assess_task", "compile_policy"}
Approving == {"validate_plan", "schedule_ready_actors", "execute_planner",
              "execute_actor", "collect_actor_results"}

\* A graph state t that goes with the aggregate r.
Fits(t, r) ==
  /\ t.next \in Compiled \/ t.ready # {} => r.policy # "none"
  /\ t.next = "compile_policy" => t.assessed.strategy # "none"
  /\ t.next \in Approving => ~r.assessed.approval \/ r.policy = "approved"
  /\ t.next = "execute_planner" => RolesOf(r.assessed.strategy) = {}

PolicyInv ==
  /\ run.policy = "none" <=> run.assessed.strategy = "none"
  /\ run.policy = "none" => ~run.assessed.approval
  /\ run.policy = "approved" \/ answer = "yes" => accepted
  /\ thread.approval = "yes" \/ checkpoint.approval = "yes" => accepted
  /\ pending.approval = "yes" => accepted
  /\ Fits(thread, run) /\ Fits(checkpoint, run) /\ Fits(pending, run)

\* Every step moves the policy as PolicyMoves says.
LEMMA PolicyMoved ==
  ASSUME TypeOK, Agree, ControlInv, [Next]_vars
  PROVE  PolicyMoves
BY RunTyped DEF Saves, Keeps, PolicyMoves

\* A graph state that goes with the aggregate goes with it after any step.
LEMMA FitsStays ==
  ASSUME PolicyMoves, PolicyInv
  PROVE  \A t : Fits(t, run) => Fits(t, run')
BY NodesNamed DEF PolicyMoves, PolicyInv, Fits, Compiled, Approving

\* Each node is handled by its handler.
LEMMA HandlerOfNode ==
  ASSUME ControlInv, Handlers \/ Work
  PROVE  /\ thread.next = "assess_task" => AssessTask
         /\ thread.next = "compile_policy" => CompilePolicy
         /\ thread.next = "plan" => Plan
         /\ thread.next = "schedule_ready_actors" => ScheduleReadyActors
         /\ thread.next = "execute_planner" => ExecutePlanner \/ FinishPlanner
         /\ thread.next = "execute_actor" =>
              \E a \in Planned : ExecuteActor(a) \/ ActorDone(a) \/ ActorFailed(a)
         /\ thread.next = "collect_actor_results" => CollectActorResults
         /\ thread.next = "verify" => Verify
         /\ thread.next = "repair_router" => RepairRouter
         /\ thread.next = "finalize_success" => FinalizeSuccess
         /\ thread.next = "finalize_failure" => FinalizeFailure
<1>1. /\ AssessTask => thread.next = "assess_task"
      /\ CompilePolicy => thread.next = "compile_policy"
      /\ RequestApproval => thread.next = "request_human_approval"
      /\ Plan => thread.next = "plan"
      /\ ValidatePlan => thread.next = "validate_plan"
      /\ ScheduleReadyActors => thread.next = "schedule_ready_actors"
      /\ ExecutePlanner \/ FinishPlanner => thread.next = "execute_planner"
      /\ CollectActorResults => thread.next = "collect_actor_results"
      /\ Verify => thread.next = "verify"
      /\ RepairRouter => thread.next = "repair_router"
      /\ FinalizeSuccess => thread.next = "finalize_success"
      /\ FinalizeFailure => thread.next = "finalize_failure"
  BY DEF At, AssessTask, CompilePolicy, RequestApproval, Plan, ValidatePlan,
     ScheduleReadyActors, ExecutePlanner, FinishPlanner, CollectActorResults, Verify,
     RepairRouter, FinalizeSuccess, FinalizeFailure
<1>2. Interrupt \/ Approved \/ Rejected => thread.next = "request_human_approval"
  BY DEF Interrupt, Approved, Rejected, ControlInv
<1>3. \A a : ExecuteActor(a) \/ ActorDone(a) \/ ActorFailed(a) => thread.next = "execute_actor"
  BY DEF ExecuteActor, ActorDone, ActorFailed, At, Acting
<1>4. QED
  BY <1>1, <1>2, <1>3 DEF Handlers, Work

\* The graph state a handler returns goes with the aggregate.
LEMMA UpdatesFit ==
  ASSUME TypeOK, Agree, ControlInv, PolicyInv, Handlers \/ Work, pc' = "returning"
  PROVE  /\ Fits(pending', run')
         /\ pending'.approval = "yes" => accepted
<1>0. thread \in GraphState /\ PolicyMoves
  BY PolicyMoved DEF TypeOK, Next
<1>1. /\ pending'.next \in Successors[thread.next]
      /\ thread.next \in Nodes /\ Fits(thread, run') /\ ChoicesOf(pending')
  BY <1>0, UpdatesTyped, HandlersMove, FitsStays DEF ControlInv, PolicyInv
<1>2. pending'.approval = "yes" => accepted
  BY <1>1 DEF PolicyInv, ChoicesOf
<1>3. CASE thread.next = "assess_task"
  <2>1. pending'.next = "compile_policy"
    BY <1>1, <1>3 DEF Successors
  <2>2. pending'.ready = thread.ready
    BY <1>1, <1>3 DEF ChoicesOf
  <2>3. PICK w \in Places :
          pending' = Goto([thread EXCEPT !.assessed = request[w]], "compile_policy")
    BY <1>3, HandlerOfNode DEF AssessTask, Returns
  <2>4. request[w] \in [strategy : Strategies, approval : BOOLEAN]
    BY DEF TypeOK
  <2>5. pending'.assessed = request[w]
    <3> DEFINE t == [thread EXCEPT !.assessed = request[w]]
    <3>1. t \in GraphState /\ t.assessed = request[w]
      BY <2>4, <1>0, AssessedUpdate DEF Assessed
    <3> HIDE DEF t
    <3>2. Goto(t, "compile_policy").assessed = t.assessed
      BY <3>1, GotoTyped, NodesNamed DEF SameChoices
    <3>3. QED
      BY <2>3, <3>1, <3>2 DEF t
  <2>6. QED
    BY <2>1, <2>2, <2>4, <2>5, <1>1, <1>2 DEF Fits, Compiled, Approving, Strategies
<1>4. CASE thread.next = "compile_policy"
  <2>1. CompilePolicy
    BY <1>4, HandlerOfNode
  <2>2. run'.policy # "none" /\ pending'.next # "compile_policy"
    <3>1. CASE run.policy = "none"
      <4> DEFINE policy == IF thread.assessed.approval /\ thread.approval = "yes"
                           THEN "approved" ELSE "unapproved"
      <4>1. policy \in {"unapproved", "approved"}
        BY Zenon
      <4>0. <<run.assessed, run.policy>> # <<thread.assessed, policy>> /\ ~Raises
        BY <3>1, <4>1 DEF Raises
      <4>2. Persist("running", Install(thread.assessed, policy))
        BY <2>1, <3>1, <4>0 DEF CompilePolicy
      <4> HIDE DEF policy
      <4>3. run' = Install(thread.assessed, policy)
        BY <4>2 DEF Persist
      <4>4. thread.assessed \in Assessed
        BY <1>0 DEF GraphState
      <4>5. run'.policy = policy
        BY <4>1, <4>3, <4>4, InstallTyped DEF Policies
      <4>6. QED
        BY <4>1, <4>5, <1>1, <1>4 DEF Successors
    <3>2. CASE run.policy # "none"
      BY <3>2, <1>0, <1>1, <1>4 DEF PolicyMoves, Successors
    <3>3. QED
      BY <3>1, <3>2
  <2>3. QED
    BY <2>2, <1>1, <1>4, <1>2 DEF Fits, Compiled, Approving, Successors, ChoicesOf
<1>5. CASE thread.next = "plan"
  <2>1. Plan
    BY <1>5, HandlerOfNode
  <2>2. ~run'.assessed.approval \/ run'.policy = "approved"
    <3>1. ApprovalSatisfied(run.policy)
      BY <2>1 DEF Plan, Raises
    <3>2. run'.assessed = run.assessed /\ run'.policy = run.policy
      BY <1>0, <1>5 DEF PolicyMoves
    <3>3. QED
      BY <3>1, <3>2 DEF ApprovalSatisfied, NeedsApproval
  <2>5. QED
    BY <2>2, <1>1, <1>5, <1>2, NodesNamed DEF Fits, Compiled, Approving, Successors, ChoicesOf
<1>6. CASE thread.next = "schedule_ready_actors"
  <2>1. ScheduleReadyActors
    BY <1>6, HandlerOfNode
  <2>2. pending'.next = "execute_planner" => RolesOf(run'.assessed.strategy) = {}
    <3>1. PICK ready \in SUBSET Actors, blocked \in SUBSET Actors :
            pending' = Goto([thread EXCEPT !.ready = ready, !.blocked = blocked],
                            DispatchRoute(ready))
      BY <2>1, RolesKnown DEF ScheduleReadyActors, Planned, Returns
    <3> DEFINE t == [thread EXCEPT !.ready = ready, !.blocked = blocked]
    <3>2. t \in GraphState
      BY <1>0, ReadyUpdate
    <3> HIDE DEF t
    <3>3. pending'.next = DispatchRoute(ready)
      BY <3>1, <3>2, GotoTyped, RoutesKnown, NodesNamed DEF t
    <3>4. run'.assessed = run.assessed
      BY <1>0, <1>6 DEF PolicyMoves
    <3>5. QED
      BY <3>3, <3>4 DEF DispatchRoute, Planned, Strategy
  <2>5. QED
    BY <2>2, <1>1, <1>6, <1>2, NodesNamed DEF Fits, Compiled, Approving, Successors, ChoicesOf
<1>7. CASE thread.next \notin {"assess_task", "compile_policy", "plan", "schedule_ready_actors"}
  <2>1. /\ thread.next \in Compiled /\ pending'.next # "compile_policy"
        /\ pending'.next # "execute_planner"
        /\ pending'.next \in Approving => thread.next \in Approving
    BY <1>1, <1>7, NodesNamed DEF Compiled, Approving, Successors
  <2>5. QED
    BY <2>1, <1>1, <1>2 DEF Fits
<1>9. QED
  BY <1>3, <1>4, <1>5, <1>6, <1>7


\* An approval is never taken back, and an invocation answers yes only with one.
LEMMA ApprovalStays ==
  ASSUME TypeOK, ControlInv, [Next]_vars
  PROVE  /\ accepted => accepted'
         /\ answer' = answer \/ (answer' = "yes" => accepted')
<1>1. CASE Handlers \/ Work
  BY <1>1, HandlersMove
<1>2. CASE Engine \/ WriteCheckpoint \/ Fault \/ Cancel
  BY <1>2
  DEF Engine, Return, ExceedRecursionLimit, PersistFailure, CompleteRun, WriteCheckpoint,
      Fault, Cancel, Raises, Quiet, durable, memory, history
<1>3. CASE Crash \/ Exit \/ WallTimeExpires \/ UNCHANGED vars
  BY <1>3 DEF Crash, Exit, Forget, WallTimeExpires, durable, vars, memory, history
<1>4. CASE StartRun
  BY <1>4 DEF StartRun, Invoke, ControlInv
<1>5. ASSUME NEW approval, ResumeRun(approval) \/ AnswerPrompt(approval)
      PROVE  /\ accepted => accepted'
             /\ answer' = "yes" => accepted'
  BY <1>5 DEF ResumeRun, AnswerPrompt, Continue
<1>6. QED
  BY <1>1, <1>2, <1>3, <1>4, <1>5 DEF Next

\* Everything but handlers and work leaves graph states where they are or copies
\* them.
LEMMA ThreadsMove ==
  ASSUME TypeOK, ControlInv, [Next]_vars
  PROVE  \/ /\ Handlers \/ Work
            /\ thread' = thread /\ checkpoint' \in {checkpoint, thread}
         \/ Return /\ checkpoint' = checkpoint /\ pending' = NoThread
         \/ /\ StartRun /\ checkpoint' = checkpoint /\ pending' = pending
            /\ \/ thread' = NewThread(TRUE) /\ accepted'
               \/ thread' \in {NewThread(FALSE), thread}
         \/ /\ thread' \in {thread, checkpoint} /\ checkpoint' \in {checkpoint, thread}
            /\ pending' \in {pending, NoThread}
<1>1. CASE Handlers \/ Work
  BY <1>1, HandlersMove
<1>2. CASE Engine \/ WriteCheckpoint \/ Fault \/ Cancel
  BY <1>2
  DEF Engine, Return, ExceedRecursionLimit, PersistFailure, CompleteRun, WriteCheckpoint,
      Fault, Cancel, Raises, Quiet, durable, memory, history
<1>3. CASE Crash \/ Exit \/ WallTimeExpires \/ UNCHANGED vars
  BY <1>3 DEF Crash, Exit, Forget, WallTimeExpires, durable, vars, memory
<1>4. CASE StartRun
  <2>1. \/ thread' = NewThread(TRUE) /\ accepted' = TRUE
        \/ thread' = NewThread(FALSE) /\ accepted' = FALSE
        \/ UNCHANGED <<thread, accepted>>
    BY <1>4 DEF StartRun
  <2>2. QED
    BY <1>4, <2>1 DEF StartRun, Invoke, durable
<1>5. ASSUME NEW approval, ResumeRun(approval) \/ AnswerPrompt(approval)
      PROVE  UNCHANGED <<thread, checkpoint, pending>>
  BY <1>5 DEF ResumeRun, AnswerPrompt, Continue, Invoke, durable
<1>6. QED
  BY <1>1, <1>2, <1>3, <1>4, <1>5 DEF Next

\* Every step keeps graph states, aggregate and approval in line.
LEMMA PolicyStays ==
  ASSUME TypeOK, Agree, ControlInv, PolicyInv, [Next]_vars
  PROVE  PolicyInv'
<1>0. /\ PolicyMoves /\ \A t : Fits(t, run) => Fits(t, run')
      /\ {thread, checkpoint, pending} \subseteq GraphState
  BY PolicyMoved, FitsStays DEF TypeOK
<1>1. \A p \in BOOLEAN : \A r : /\ Fits(NoThread, r) /\ NoThread.approval = "none"
                                /\ Fits(NewThread(p), r) /\ NewThread(FALSE).approval = "none"
  BY NodesNamed DEF NoThread, NewThread, Fits, Compiled, Approving
<1>2. /\ run'.policy = "none" <=> run'.assessed.strategy = "none"
      /\ run'.policy = "none" => ~run'.assessed.approval
  <2>1. thread.next = "compile_policy" => thread.assessed.strategy # "none"
    BY DEF PolicyInv, Fits
  <2>2. run.policy = "none" => run.assessed.strategy = "none" /\ ~run.assessed.approval
    BY DEF PolicyInv
  <2>3. run.assessed.strategy = "none" => run.policy = "none"
    BY DEF PolicyInv
  <2>4. thread.next = "request_human_approval" => run.policy # "none"
    BY NodesNamed DEF PolicyInv, Fits, Compiled
  <2>5. QED
    BY <2>1, <2>2, <2>3, <2>4, <1>0 DEF PolicyMoves
<1>3. run'.policy = "approved" \/ answer' = "yes" => accepted'
  BY <1>0, ApprovalStays DEF PolicyMoves, PolicyInv
<1>4. Fits(pending', run') /\ (pending'.approval = "yes" => accepted')
  <2>1. CASE (Handlers \/ Work) /\ pc' = "returning"
    BY <2>1, UpdatesFit, ApprovalStays
  <2>2. CASE pending' \in {pending, NoThread}
    BY <2>2, <1>0, <1>1, ApprovalStays DEF PolicyInv
  <2>3. QED
    BY <2>1, <2>2, ThreadsMove, HandlersMove
<1>5. Fits(checkpoint', run') /\ (checkpoint'.approval = "yes" => accepted')
  BY <1>0, ThreadsMove, ApprovalStays DEF PolicyInv
<1>6. Fits(thread', run') /\ (thread'.approval = "yes" => accepted')
  <2>1. CASE Return
    <3>1. StageOf[thread.next] \in DOMAIN Allowed
      BY <2>1, NodesNamed DEF Return, ControlInv, StageOf, Allowed
    <3> DEFINE x == StageOf[thread.next]
               t == [pending EXCEPT !.stage = x]
    <3>2. t.next = pending.next /\ SameResults(t, pending) /\ SameChoices(t, pending)
      BY <3>1, <1>0, StageUpdate
    <3>3. thread' = t
      BY <2>1 DEF Return
    <3> HIDE DEF t
    <3>4. Fits(pending, run') /\ (pending.approval = "yes" => accepted')
      BY <1>0, ApprovalStays DEF PolicyInv
    <3>5. QED
      BY <3>2, <3>3, <3>4 DEF SameResults, SameChoices, Fits
  <2>2. CASE thread' \in {thread, checkpoint}
    BY <2>2, <1>0, ApprovalStays DEF PolicyInv
  <2>3. CASE (thread' = NewThread(TRUE) /\ accepted') \/ thread' = NewThread(FALSE)
    BY <2>3, <1>1
  <2>4. QED
    BY <2>1, <2>2, <2>3, ThreadsMove
<1>7. QED
  BY <1>2, <1>3, <1>4, <1>5, <1>6 DEF PolicyInv

(***************************************************************************)
(* Every node is a stage the workflow admits                               *)
(***************************************************************************)
Admits(t) ==
  t.next \in Nodes => StageOf[t.next] \in {t.stage} \cup Allowed[t.stage]

StageInv == Admits(thread) /\ Admits(checkpoint)

\* Every edge of the graph is a move between stages the workflow allows.
LEMMA SuccessorsAdmitted ==
  \A n \in Nodes : \A m \in Successors[n] :
    m \in Nodes => StageOf[m] \in {StageOf[n]} \cup Allowed[StageOf[n]]
BY NodesNamed DEF Successors, StageOf, Allowed

\* Every step leaves the graph at a stage the workflow admits.
LEMMA StageStays ==
  ASSUME TypeOK, ControlInv, StageInv, [Next]_vars
  PROVE  StageInv'
<1>1. Admits(NewThread(TRUE)) /\ Admits(NewThread(FALSE))
  BY NodesNamed DEF Admits, NewThread, StageOf, Allowed
<1>2. CASE Return
  <2>1. thread.next \in Nodes /\ pending.next \in Successors[thread.next]
    BY <1>2 DEF Return, ControlInv
  <2>2. thread'.next = pending.next /\ thread'.stage = StageOf[thread.next]
    BY <1>2 DEF Return, TypeOK, GraphState
  <2>3. Admits(thread')
    BY <2>1, <2>2, SuccessorsAdmitted DEF Admits
  <2>4. QED
    BY <1>2, <2>3 DEF Return, StageInv, Admits
<1>3. CASE ~Return
  BY <1>1, <1>3, ThreadsMove DEF StageInv, Admits
<1>4. QED
  BY <1>2, <1>3

(***************************************************************************)
(* The durable status                                                      *)
(***************************************************************************)
\* A graph state that has failed for good, and one that has committed.
Failed(t) == t.next = "END" /\ t.final # "graph_committed"

StatusInv ==
  /\ store.status = "created" => run.policy = "none"
  /\ pc \in {"idle", "waiting"} /\ store.status = "running"
       => unsettled /\ checkpoint.next # "none"
  /\ pc # "down" /\ store.status = "running" => thread.next # "none"
  /\ used.invocations = 0 => store.status = "created"
  /\ pc = "asking" => store.status = "paused"
  /\ Failed(thread) \/ Failed(checkpoint) \/ Failed(pending) => store.status # "running"
  /\ store.status = "completed" => /\ pc \in {"idle", "down"}
                                   /\ checkpoint.next = "END"
                                   /\ checkpoint.final = "graph_committed"

\* What a step does to the status.
StatusMoves ==
  \/ store'.status = store.status
  \/ /\ store'.status = "running" /\ pc \in {"node", "asking"} /\ pc' = "returning"
     /\ Handlers
  \/ store'.status = "paused" /\ store.status = "running" /\ pc \in Active
  \/ /\ store'.status = "failed" /\ store.status \in {"created", "running", "paused"}
     /\ pc \in Active
  \/ /\ store'.status = "completed" /\ store.status = "running" /\ pc = "ended"
     /\ thread.final = "graph_committed" /\ pc' = "idle" /\ checkpoint' = thread

\* Every step moves the status as StatusMoves says.
LEMMA StatusMovesLegally ==
  ASSUME TypeOK, ControlInv, StatusInv, [Next]_vars
  PROVE  StatusMoves
<1> USE DEF Persist, StatusMoves
<1>0. store.status \in {"created", "running", "paused", "failed", "completed"}
  BY StatusesNamed DEF TypeOK, Statuses
<1>1. CASE UNCHANGED store
  BY <1>1
<1>2. CASE AssessTask \/ Interrupt \/ ValidatePlan \/ ScheduleReadyActors
           \/ CollectActorResults \/ Verify \/ RepairRouter
  BY <1>2
  DEF AssessTask, Interrupt, ValidatePlan, ScheduleReadyActors, CollectActorResults,
      Verify, RepairRouter
<1>3. CASE ExecutePlanner \/ FinishPlanner
  <2>1. Persist(store.status, run)
    BY <1>3 DEF ExecutePlanner, FinishPlanner
  <2>2. QED
    BY <2>1
<1>4. CASE CompilePolicy
  <2>1. \/ UNCHANGED store
        \/ store'.status = "running" /\ pc = "node" /\ pc' = "returning"
    BY <1>4 DEF CompilePolicy, At, Returns
  <2>2. QED
    BY <1>4, <2>1 DEF Handlers
<1>5. CASE Plan \/ FinalizeSuccess \/ Approved
  BY <1>5 DEF Plan, FinalizeSuccess, Approved, At, Returns, Handlers
<1>6. CASE RequestApproval
  <2>1. CanBecome("paused") /\ store.status # "paused" => store.status = "running"
    BY <1>0 DEF CanBecome, LegalTransitions
  <2>2. QED
    BY <1>6, <2>1 DEF RequestApproval, At, Active
<1>7. CASE Rejected \/ FinalizeFailure
  BY <1>7 DEF Rejected, FinalizeFailure, At, StatusInv, Active
<1>8. ASSUME NEW a \in Planned, ExecuteActor(a) \/ ActorDone(a) \/ ActorFailed(a)
      PROVE  UNCHANGED store
  BY <1>8 DEF ExecuteActor, ActorDone, ActorFailed
<1>9. CASE Return \/ ExceedRecursionLimit \/ WriteCheckpoint \/ Fault
  BY <1>9 DEF Return, ExceedRecursionLimit, WriteCheckpoint, Fault, durable
<1>10. CASE PersistFailure \/ Cancel
  BY <1>10 DEF PersistFailure, Cancel, Active
<1>11. CASE CompleteRun
  <2>1. CanBecome("completed") => store.status \in {"running", "completed"}
    BY <1>0 DEF CanBecome, LegalTransitions
  <2>2. QED
    BY <1>11, <2>1 DEF CompleteRun
<1>12. CASE Crash \/ Exit \/ WallTimeExpires \/ StartRun \/ UNCHANGED vars
  BY <1>12 DEF Crash, Exit, Forget, WallTimeExpires, StartRun, Invoke, durable, vars
<1>13. ASSUME NEW approval, ResumeRun(approval) \/ AnswerPrompt(approval)
       PROVE  UNCHANGED store
  BY <1>13 DEF ResumeRun, AnswerPrompt, Continue, Invoke, durable
<1> HIDE DEF StatusMoves, Persist
<1>14. QED
  BY <1>1, <1>2, <1>3, <1>4, <1>5, <1>6, <1>7, <1>8, <1>9, <1>10, <1>11, <1>12, <1>13
  DEF Next, Handlers, Work, Engine

\* A completed Run is only left alone.
LEMMA CompletedIsOver ==
  ASSUME TypeOK, ControlInv, StatusInv, [Next]_vars, store.status = "completed"
  PROVE  Exit \/ UNCHANGED vars
<1>1. pc \notin Active /\ pc # "waiting" /\ used.invocations # 0
  BY DEF StatusInv, ControlInv, Active
<1>2. ~(Handlers \/ Work)
  BY <1>1, HandlersMove DEF Active
<1>3. ~(Engine \/ WriteCheckpoint \/ Fault \/ Cancel \/ Crash \/ WallTimeExpires)
  BY <1>1
  DEF Engine, Return, ExceedRecursionLimit, PersistFailure, CompleteRun, WriteCheckpoint,
      Fault, Cancel, Crash, WallTimeExpires, Active
<1>4. ~StartRun /\ \A approval : ~ResumeRun(approval) /\ ~AnswerPrompt(approval)
  BY <1>1 DEF StartRun, ResumeRun, AnswerPrompt
<1>5. QED
  BY <1>2, <1>3, <1>4 DEF Next

\* Where a step ends an invocation or a graph, the status is no longer running,
\* unless the save that was to end the invocation failed.
LEMMA EndsSettled ==
  ASSUME TypeOK, ControlInv, StatusInv, [Next]_vars
  PROVE  /\ pc' \in {"idle", "waiting"} /\ store'.status = "running" => unsettled'
         /\ pc' = "asking" => store'.status = "paused"
         /\ Failed(pending') => store'.status # "running"
<1> USE DEF Persist
<1>0. thread \in GraphState
  BY DEF TypeOK
<1>1. CASE Handlers \/ Work
  <2>1. pc' = "waiting" => Interrupt
    BY <1>1
    DEF Handlers, Work, AssessTask, CompilePolicy, RequestApproval, Approved, Rejected, Plan,
        ValidatePlan, ScheduleReadyActors, ExecutePlanner, ExecuteActor, FinishPlanner,
        ActorDone, ActorFailed, CollectActorResults, Verify, RepairRouter,
        FinalizeSuccess, FinalizeFailure, Returns, Raises
  <2>2. pc' = "asking" => RequestApproval
    BY <1>1
    DEF Handlers, Work, AssessTask, CompilePolicy, Interrupt, Approved, Rejected, Plan,
        ValidatePlan, ScheduleReadyActors, ExecutePlanner, ExecuteActor, FinishPlanner,
        ActorDone, ActorFailed, CollectActorResults, Verify, RepairRouter,
        FinalizeSuccess, FinalizeFailure, Returns, Raises
  <2>3. Interrupt => store'.status = "paused"
    BY DEF Interrupt, StatusInv
  <2>4. RequestApproval /\ pc' = "asking" => store'.status = "paused"
    BY DEF RequestApproval, Raises
  <2>5. pc' # "idle"
    BY <1>1, HandlersMove
  <2>6. Failed(pending') => store'.status # "running"
    <3> SUFFICES ASSUME Failed(pending') PROVE store'.status # "running"
      OBVIOUS
    <3>1. pc' = "returning" \/ pending' = pending
      BY <1>1, HandlersMove
    <3>2. pending.next # "END"
      BY <1>1, HandlersMove, NodesNamed DEF ControlInv, Successors
    <3>3. pending'.next = "END" /\ pc' = "returning"
      BY <3>1, <3>2 DEF Failed
    <3>4. thread.next \in Nodes /\ pending'.next \in Successors[thread.next]
      BY <1>1, <3>3, HandlersMove, UpdatesTyped DEF ControlInv
    <3>5. thread.next \in {"finalize_success", "finalize_failure"}
      BY <3>3, <3>4, NodesNamed DEF Successors
    <3>6. FinalizeSuccess \/ FinalizeFailure
      BY <1>1, <3>5, HandlerOfNode
    <3>7. ~FinalizeSuccess
      <4>1. Goto([thread EXCEPT !.final = "graph_committed"], "END").final
              = "graph_committed"
        BY <1>0 DEF Goto, GraphState
      <4>2. QED
        BY <4>1 DEF FinalizeSuccess, Returns, Failed
    <3>8. FinalizeFailure => store'.status # "running"
      BY DEF FinalizeFailure
    <3>9. QED
      BY <3>6, <3>7, <3>8
  <2>7. QED
    BY <2>1, <2>2, <2>3, <2>4, <2>5, <2>6
<1>2. CASE Return \/ ExceedRecursionLimit
  <2>1. pc' \in {"node", "ended", "raised"} /\ (pending' = NoThread \/ UNCHANGED pending)
    BY <1>2 DEF Return, ExceedRecursionLimit, Raises
  <2>2. store' = store
    BY <1>2 DEF Return, ExceedRecursionLimit
  <2>3. QED
    BY <2>1, <2>2, ThreadsTyped DEF StatusInv, Failed
<1>3. CASE PersistFailure
  BY <1>3 DEF PersistFailure, StatusInv, Failed
<1>4. CASE CompleteRun
  <2>1. thread.next = "END" /\ pc = "ended"
    BY <1>4 DEF CompleteRun, ControlInv
  <2>2. thread.final # "graph_committed" => Failed(thread)
    BY <2>1 DEF Failed
  <2>3. QED
    BY <1>4, <2>2 DEF CompleteRun, StatusInv
<1>5. CASE WriteCheckpoint \/ Fault \/ Crash \/ WallTimeExpires
  <2>1. /\ store' = store /\ unsettled' = unsettled
        /\ pending' = NoThread \/ UNCHANGED pending
    BY <1>5
    DEF WriteCheckpoint, Fault, Crash, Forget, WallTimeExpires, durable, memory, history
  <2>2. pc' \in {pc, "raised", "down"}
    BY <1>5 DEF WriteCheckpoint, Fault, Crash, Forget, WallTimeExpires
  <2>3. QED
    BY <2>1, <2>2, ThreadsTyped DEF StatusInv, Failed
<1>6. CASE Cancel
  <2>1. /\ pending' = NoThread /\ pc' = "idle"
        /\ store'.status = "running" => unsettled'
    BY <1>6 DEF Cancel
  <2>2. QED
    BY <2>1, ThreadsTyped DEF Failed
<1>7. CASE Exit
  BY <1>7, ThreadsTyped DEF Exit, Forget, durable, Failed
<1>8. ASSUME NEW approval, StartRun \/ ResumeRun(approval) \/ AnswerPrompt(approval)
      PROVE  /\ store' = store /\ pending' = pending
             /\ pc' \in {"node", "raised", "ended"}
  BY <1>8 DEF StartRun, ResumeRun, AnswerPrompt, Continue, Invoke, durable
<1>9. CASE UNCHANGED vars
  BY <1>9 DEF vars, durable, memory, history, StatusInv
<1> HIDE DEF Persist
<1>20. QED
  BY <1>1, <1>2, <1>3, <1>4, <1>5, <1>6, <1>7, <1>8, <1>9 DEF Next, Engine, StatusInv

\* A running Run has a graph that stands somewhere, in memory as long as its process
\* lives and in the checkpoint when its invocation is over.
LEMMA PlacedStays ==
  ASSUME TypeOK, ControlInv, StatusInv, [Next]_vars
  PROVE  /\ pc' # "down" /\ store'.status = "running" => thread'.next # "none"
         /\ pc' \in {"idle", "waiting"} => checkpoint' = thread' \/ UNCHANGED vars
<1>0. "none" \notin Nodes
  BY NodesNamed
<1>1. CASE Handlers \/ Work
  <2>1. thread' = thread /\ thread.next \in Nodes
    BY <1>1, HandlersMove
  <2>2. pc' = "waiting" => Interrupt
    BY <1>1
    DEF Handlers, Work, AssessTask, CompilePolicy, RequestApproval, Approved, Rejected, Plan,
        ValidatePlan, ScheduleReadyActors, ExecutePlanner, ExecuteActor, FinishPlanner,
        ActorDone, ActorFailed, CollectActorResults, Verify, RepairRouter,
        FinalizeSuccess, FinalizeFailure, Returns, Raises
  <2>3. Interrupt => checkpoint' = thread
    BY DEF Interrupt
  <2>4. pc' # "idle"
    BY <1>1, HandlersMove
  <2>5. QED
    BY <1>0, <2>1, <2>2, <2>3, <2>4
<1>2. CASE Return
  <2>1. thread'.next = pending.next
    BY <1>2 DEF Return, TypeOK, GraphState
  <2>2. pending.next # "none"
    BY <1>0, <1>2, NodesNamed DEF Return, ControlInv, Successors
  <2>3. QED
    BY <1>2, <2>1, <2>2 DEF Return
<1>3. CASE ExceedRecursionLimit \/ WriteCheckpoint \/ Fault \/ WallTimeExpires
  BY <1>3
  DEF ExceedRecursionLimit, WriteCheckpoint, Fault, WallTimeExpires, Raises, Quiet, durable,
      memory, StatusInv, Active
<1>4. CASE PersistFailure \/ CompleteRun \/ Cancel
  <2>1. /\ thread' = thread /\ checkpoint' = thread /\ pc # "down"
        /\ store' = store \/ store'.status # "running"
    BY <1>4 DEF PersistFailure, CompleteRun, Cancel, Persist, Active
  <2>2. QED
    BY <2>1 DEF StatusInv
<1>5. CASE Crash \/ Exit
  BY <1>5 DEF Crash, Exit, Forget
<1>6. CASE StartRun
  <2>1. store.status = "created" /\ store' = store
    BY <1>6 DEF StartRun, Invoke, StatusInv, durable
  <2>2. QED
    BY <1>6, <2>1 DEF StartRun
<1>7. ASSUME NEW approval, ResumeRun(approval) \/ AnswerPrompt(approval)
      PROVE  thread' = thread /\ thread.next # "none" /\ pc' \in {"raised", "ended", "node"}
  BY <1>0, <1>7, NodesNamed DEF ResumeRun, AnswerPrompt, Continue, ControlInv
<1>8. CASE UNCHANGED vars
  BY <1>8 DEF vars, durable, memory, StatusInv
<1>9. QED
  BY <1>1, <1>2, <1>3, <1>4, <1>5, <1>6, <1>7, <1>8 DEF Next, Engine

\* Before the first invocation nothing is saved.
LEMMA NothingBeforeStart ==
  ASSUME TypeOK, ControlInv, StatusInv, [Next]_vars, used'.invocations = 0
  PROVE  store' = store /\ used.invocations = 0
<1>1. ASSUME Handlers \/ Work \/ Engine \/ WriteCheckpoint \/ Fault \/ Cancel \/ Crash
             \/ WallTimeExpires
      PROVE  pc \in Active /\ used'.invocations = used.invocations
  <2>1. CASE Handlers \/ Work
    BY <2>1, HandlersMove DEF Active
  <2>2. CASE ~(Handlers \/ Work)
    BY <1>1, <2>2
    DEF Engine, Return, ExceedRecursionLimit, PersistFailure, CompleteRun, Quiet,
        WriteCheckpoint, Fault, Cancel, Crash, WallTimeExpires, Mishap, Active, TypeOK
  <2>3. QED
    BY <2>1, <2>2
<1>2. pc \in Active => used.invocations # 0
  BY DEF ControlInv, Active
<1>3. Exit => store' = store /\ used' = used
  BY DEF Exit, Forget, durable
<1>4. ~StartRun /\ \A approval : ~ResumeRun(approval) /\ ~AnswerPrompt(approval)
  BY DEF StartRun, ResumeRun, AnswerPrompt, Continue, Invoke, TypeOK
<1>5. QED
  BY <1>1, <1>2, <1>3, <1>4 DEF Next, vars, durable

\* Every step keeps status, graph states and program counter in line.
LEMMA StatusStays ==
  ASSUME TypeOK, Agree, ControlInv, StatusInv, [Next]_vars
  PROVE  StatusInv'
<1>0. StatusMoves
  BY StatusMovesLegally
<1>1. CASE store.status = "completed"
  <2>1. Exit \/ UNCHANGED vars
    BY <1>1, CompletedIsOver
  <2>2. /\ store' = store /\ checkpoint' = checkpoint /\ run' \in {run, store.saved}
        /\ pc' \in {pc, "down"} /\ pending' \in {pending, NoThread}
        /\ thread' \in {thread, checkpoint} /\ used' = used
    BY <2>1 DEF Exit, Forget, vars, durable, memory
  <2>3. ~Failed(NoThread)
    BY ThreadsTyped DEF Failed
  <2>4. QED
    BY <1>1, <2>2, <2>3 DEF StatusInv, Failed
<1>2. CASE store.status # "completed"
  <2>1. store'.status = "created" => run'.policy = "none"
    <3>1. store'.status = "created" => store.status = "created"
      BY <1>0 DEF StatusMoves
    <3>2. PolicyMoves
      BY PolicyMoved
    <3>3. store'.status = "created" => run'.policy = run.policy
      BY <3>2 DEF PolicyMoves
    <3>4. QED
      BY <3>1, <3>3 DEF StatusInv
  <2>2. /\ pc' \in {"idle", "waiting"} /\ store'.status = "running" => unsettled'
        /\ pc' = "asking" => store'.status = "paused"
        /\ Failed(pending') => store'.status # "running"
    BY EndsSettled
  <2>10. pc' # "down" /\ store'.status = "running" => thread'.next # "none"
    BY PlacedStays
  <2>11. pc' \in {"idle", "waiting"} /\ store'.status = "running" => checkpoint'.next # "none"
    <3>1. CASE checkpoint' = thread'
      BY <2>10, <3>1
    <3>2. CASE UNCHANGED vars
      BY <3>2 DEF vars, durable, StatusInv
    <3>3. QED
      BY <3>1, <3>2, PlacedStays
  <2>12. used'.invocations = 0 => store'.status = "created"
    BY NothingBeforeStart DEF StatusInv
  <2>3. Failed(thread) \/ Failed(checkpoint) => store'.status # "running"
    <3>1. Failed(thread) \/ Failed(checkpoint) => thread.next \notin Nodes
      BY NodesNamed DEF Failed, ControlInv
    <3>2. Handlers => thread.next \in Nodes
      BY HandlersMove
    <3>3. QED
      BY <1>0, <3>1, <3>2 DEF StatusMoves, StatusInv
  <2>4. Return => /\ thread'.next = pending.next /\ thread'.final = pending.final
                  /\ store' = store
    BY DEF Return, TypeOK, GraphState
    <2>5. \A p : ~Failed(NewThread(p))
    BY DEF Failed, NewThread
  <2>6. Failed(thread') => store'.status # "running"
    BY <2>3, <2>4, <2>5, ThreadsMove DEF Failed, StatusInv
  <2>7. Failed(checkpoint') => store'.status # "running"
    BY <2>3, <2>4, <2>5, ThreadsMove DEF Failed, StatusInv
  <2>8. store'.status = "completed" => /\ pc' \in {"idle", "down"}
                                       /\ checkpoint'.next = "END"
                                       /\ checkpoint'.final = "graph_committed"
    <3>1. store'.status = "completed" => /\ thread.final = "graph_committed"
                                         /\ pc = "ended" /\ pc' = "idle" /\ checkpoint' = thread
      BY <1>0, <1>2 DEF StatusMoves
    <3>2. QED
      BY <3>1 DEF ControlInv
  <2>9. QED
    BY <2>1, <2>2, <2>6, <2>7, <2>8, <2>10, <2>11, <2>12 DEF StatusInv, Failed
<1>3. QED
  BY <1>1, <1>2

\* Whether the save that was to end an invocation failed stays a truth value.
LEMMA UnsettledMoves ==
  ASSUME [Next]_vars
  PROVE  unsettled' \in {unsettled, TRUE, FALSE}
<1>1. Handlers \/ Work => unsettled' = unsettled
  BY DEF Handlers, Work, AssessTask, CompilePolicy, RequestApproval, Interrupt, Approved,
        Rejected, Plan, ValidatePlan, ScheduleReadyActors, ExecutePlanner, ExecuteActor,
        FinishPlanner, ActorDone, ActorFailed, CollectActorResults, Verify, RepairRouter,
        FinalizeSuccess, FinalizeFailure, Quiet, history
<1>2. ASSUME Engine \/ WriteCheckpoint \/ Fault \/ Cancel \/ Crash \/ Exit \/ WallTimeExpires
      PROVE  unsettled' \in {unsettled, TRUE, FALSE}
  BY <1>2
  DEF Engine, Return, ExceedRecursionLimit, PersistFailure, CompleteRun, WriteCheckpoint,
      Fault, Cancel, Crash, Exit, Forget, WallTimeExpires, Quiet, history
<1>3. ASSUME NEW approval, StartRun \/ ResumeRun(approval) \/ AnswerPrompt(approval)
      PROVE  unsettled' = FALSE
  BY <1>3 DEF StartRun, ResumeRun, AnswerPrompt, Continue, Invoke
<1>4. QED
  BY <1>1, <1>2, <1>3 DEF Next, vars, history

\* Every step keeps the type invariant.
LEMMA TypeStays ==
  ASSUME TypeOK, Agree, ControlInv, [Next]_vars
  PROVE  TypeOK'
<1>1. /\ run' \in AggregateOf(Planned')
      /\ store' \in [status : DOMAIN LegalTransitions, saved : AggregateOf(Planned')]
  BY RunStaysTyped
<1>2. ({checkpoint, thread, pending} \subseteq GraphState)'
  BY ThreadsStayTyped
<1> DEFINE Rest == /\ request' \in [Places -> [strategy : Strategies, approval : BOOLEAN]]
                   /\ pc' \in Active \cup {"down", "idle", "waiting"}
                   /\ answer' \in {"none", "yes", "no"}
                   /\ steps' \in Nat
                   /\ finished' \in [Actors -> Nat]
                   /\ accepted' \in BOOLEAN /\ owed' \in BOOLEAN
                   /\ used' \in [invocations : Nat, mishaps : Nat]
<1>0. /\ request \in [Places -> [strategy : Strategies, approval : BOOLEAN]]
      /\ pc \in Active \cup {"down", "idle", "waiting"}
      /\ answer \in {"none", "yes", "no"}
      /\ steps \in Nat
      /\ finished \in [Actors -> Nat]
      /\ accepted \in BOOLEAN /\ owed \in BOOLEAN
      /\ used \in [invocations : Nat, mishaps : Nat]
  BY DEF TypeOK
<1>11. unsettled' \in BOOLEAN
  BY UnsettledMoves DEF TypeOK
<1> SUFFICES Rest
  BY <1>1, <1>2, <1>11 DEF TypeOK
<1>3. CASE Handlers \/ Work
  <2>1. /\ request' = request /\ accepted' = accepted /\ answer' = answer /\ used' = used
        /\ pc' \in {"returning", "raised", "asking", "waiting", "acting"}
    <3>1. ControlInv /\ TypeOK
      OBVIOUS
    <3>2. QED
      BY <1>3, <3>1, HandlersMove
  <2>2. steps' = steps
    BY <1>3
    DEF Handlers, Work, AssessTask, CompilePolicy, RequestApproval, Interrupt, Approved,
        Rejected, Plan, ValidatePlan, ScheduleReadyActors, ExecutePlanner, ExecuteActor,
        FinishPlanner, ActorDone, ActorFailed, CollectActorResults, Verify, RepairRouter,
        FinalizeSuccess, FinalizeFailure, Quiet, memory
  <2>3. ASSUME NEW a \in Planned, ActorDone(a)
        PROVE  finished' \in [Actors -> Nat] /\ owed' \in BOOLEAN
    <3>1. finished' = [finished EXCEPT ![a] = @ + 1]
      BY <2>3 DEF ActorDone
    <3>2. a \in Actors
      BY RolesKnown DEF Planned
    <3>3. owed' \in BOOLEAN
      BY <1>0, <2>3 DEF ActorDone
    <3>4. QED
      BY <1>0, <3>1, <3>2, <3>3
  <2>4. ASSUME CollectActorResults
        PROVE  finished' \in [Actors -> Nat] /\ owed' \in BOOLEAN
    <3>1. finished' = finished
      BY <2>4 DEF CollectActorResults
    <3>2. \E applies : owed' = (owed /\ applies # "yes")
      BY <2>4 DEF CollectActorResults
    <3>3. QED
      BY <1>0, <3>1, <3>2
  <2>5. ASSUME ~CollectActorResults /\ \A a \in Planned : ~ActorDone(a)
        PROVE  finished' \in [Actors -> Nat] /\ owed' \in BOOLEAN
    BY <1>0, <1>3, <2>5
    DEF Handlers, Work, AssessTask, CompilePolicy, RequestApproval, Interrupt, Approved,
        Rejected, Plan, ValidatePlan, ScheduleReadyActors, ExecutePlanner, ExecuteActor,
        FinishPlanner, ActorFailed, Verify, RepairRouter,
        FinalizeSuccess, FinalizeFailure, Quiet, history
  <2>6. finished' \in [Actors -> Nat] /\ owed' \in BOOLEAN
    BY <2>3, <2>4, <2>5
  <2>7. QED
    BY <1>0, <2>1, <2>2, <2>6 DEF Active
<1>4. CASE Engine
  BY <1>0, <1>4 DEF Engine, Return, ExceedRecursionLimit, PersistFailure, CompleteRun, Raises,
                    Quiet, history, Active
<1>5. CASE WriteCheckpoint \/ Fault \/ Cancel
  BY <1>0, <1>5 DEF WriteCheckpoint, Fault, Cancel, Mishap, memory, history, Active
<1>6. CASE Crash \/ Exit \/ WallTimeExpires
  BY <1>0, <1>6 DEF Crash, Exit, Forget, WallTimeExpires, Mishap, history, Active
<1>7. CASE StartRun
  BY <1>0, <1>7 DEF StartRun, Invoke, Active
<1>8. ASSUME NEW approval \in {"none", "no", "yes"},
             ResumeRun(approval) \/ AnswerPrompt(approval)
      PROVE  Rest
  <2>1. Continue(approval)
    BY <1>8 DEF ResumeRun, AnswerPrompt
  <2>2. /\ pc' \in {"raised", "ended", "node"} /\ answer' \in {"none", "no", "yes"}
        /\ accepted' \in BOOLEAN
    BY <2>1 DEF Continue
  <2>3. Invoke
    BY <2>1 DEF Continue
  <2>4. QED
    BY <1>0, <2>2, <2>3 DEF Invoke, Active
<1>9. CASE UNCHANGED vars
  BY <1>0, <1>9 DEF vars, memory, history
<1> HIDE DEF Rest
<1>10. QED
  BY <1>3, <1>4, <1>5, <1>6, <1>7, <1>8, <1>9 DEF Next

-----------------------------------------------------------------------------
(***************************************************************************)
(* What the Actors have done                                               *)
(***************************************************************************)
\* The aggregate r goes with a plan, with how often its Actors finished, and
\* with whether a diff is owed.
Sound(r, planned, times, due) ==
  /\ \A a \in planned : r.tree[a] = "done" => times[a] > 0
  /\ due /\ "coder" \in planned => (r.tree["coder"] = "done" => r.patch = "ready")
  /\ \A c \in r.credited : r.tree[c] = "done"
  /\ \A a \in planned \ {"scout"} :
       "scout" \in planned /\ r.tree[a] \in {"running", "done"} => "scout" \in r.credited

\* What is done in the aggregate q is done in r.
Ahead(r, q, planned) == \A a \in planned : q.tree[a] = "done" => r.tree[a] = "done"

\* A graph state on its way to success.
Passing(t) ==
  \/ t.next = "verify" /\ t.failed = {} /\ t.blocked = {} /\ t.final # "failed"
  \/ t.next = "repair_router" /\ t.final = "verified"
  \/ t.next = "finalize_success"
  \/ t.next = "END" /\ t.final = "graph_committed"

Backed(t, planned, times, due) ==
  /\ \A a, b \in t.ready : a = b
  /\ \A a \in t.ready \cap planned : \A b \in DependenciesOf(planned)[a] : times[b] > 0
  /\ Passing(t) => ~due /\ \A a \in planned : times[a] > 0

RecordInv ==
  /\ \A a \in Actors : finished[a] > 0 => a \in Planned
  /\ owed => "coder" \in Planned
  /\ Sound(run, Planned, finished, owed)
  /\ Sound(store.saved, Planned, finished, owed)
  /\ Ahead(run, store.saved, Planned)

BackedInv ==
  /\ Backed(thread, Planned, finished, owed)
  /\ Backed(checkpoint, Planned, finished, owed)
  /\ Backed(pending, Planned, finished, owed)

ActingInv ==
  pc = "acting" /\ thread.next = "execute_actor" =>
    \A a \in thread.ready \cap Planned : run.tree[a] = "running"

SameWork(r, q) ==
  r.assessed = q.assessed /\ r.tree = q.tree /\ r.patch = q.patch /\ r.credited = q.credited

\* A step at which no Actor's work moves.
Rests ==
  /\ finished' = finished /\ owed' = owed
  /\ \/ SameWork(run', run) /\ store'.saved \in {store.saved, run'}
     \/ run' = store.saved /\ store' = store

Installs ==
  /\ finished' = finished /\ owed' = owed /\ accepted' = accepted
  /\ run.policy = "none"
  /\ thread.next = "compile_policy" /\ pc = "node" /\ pc' = "returning"
  /\ \E policy \in {"unapproved", "approved"} :
       /\ run' = Install(thread.assessed, policy)
       /\ store' = [status |-> "running", saved |-> run']

Works ==
  \/ Plan \/ ScheduleReadyActors \/ CollectActorResults
  \/ \E a \in Planned : ExecuteActor(a) \/ ActorDone(a) \/ ActorFailed(a)

\* Every step rests, installs a policy or moves work.
LEMMA WorkMoves ==
  ASSUME TypeOK, ControlInv, [Next]_vars
  PROVE  Rests \/ Installs \/ Works
<1> USE DEF Quiet, history, Persist
<1>0. run \in AggregateOf(Planned)
  BY DEF TypeOK
<1>1. CASE UNCHANGED <<store, run, finished, owed>>
  BY <1>1 DEF Rests, SameWork
<1>2. CASE UNCHANGED <<finished, owed>> /\ \E s : Persist(s, run)
  BY <1>2 DEF Rests, SameWork
<1>3. CASE AssessTask \/ Interrupt \/ ValidatePlan \/ Verify \/ RepairRouter
  BY <1>1, <1>3 DEF AssessTask, Interrupt, ValidatePlan, Verify, RepairRouter, memory
<1>4. CASE RequestApproval \/ Rejected \/ ExecutePlanner \/ FinishPlanner
           \/ FinalizeSuccess \/ FinalizeFailure
  BY <1>1, <1>2, <1>4
  DEF RequestApproval, Rejected, ExecutePlanner, FinishPlanner, FinalizeSuccess,
      FinalizeFailure
<1>5. CASE CompilePolicy
  <2>1. \/ UNCHANGED <<store, run>> \/ Persist("running", run)
        \/ /\ run.policy = "none" /\ thread.next = "compile_policy"
           /\ pc = "node" /\ pc' = "returning"
           /\ \E policy \in {"unapproved", "approved"} :
                Persist("running", Install(thread.assessed, policy))
    BY <1>5 DEF CompilePolicy, At, Returns
  <2>2. UNCHANGED <<finished, owed, accepted>>
    BY <1>5 DEF CompilePolicy
  <2>3. QED
    BY <2>1, <2>2, <1>1, <1>2 DEF Installs
<1>6. CASE Approved
  <2>1. Persist("running", [run EXCEPT !.policy = "approved"]) /\ UNCHANGED <<finished, owed>>
    BY <1>6 DEF Approved
  <2>2. SameWork([run EXCEPT !.policy = "approved"], run)
    BY <1>0 DEF SameWork, AggregateOf
  <2>3. QED
    BY <2>1, <2>2 DEF Rests
<1>7. CASE Engine \/ WriteCheckpoint \/ Fault \/ Cancel
  BY <1>1, <1>2, <1>7
  DEF Engine, Return, ExceedRecursionLimit, PersistFailure, CompleteRun, WriteCheckpoint,
      Fault, Cancel, durable, memory
<1>8. CASE Crash \/ Exit
  BY <1>8 DEF Crash, Exit, Forget, Rests, durable
<1>9. CASE WallTimeExpires
  <2>1. /\ run' = [run EXCEPT !.expired = TRUE] /\ store' = store
        /\ UNCHANGED <<finished, owed>>
    BY <1>9 DEF WallTimeExpires, durable
  <2>2. SameWork([run EXCEPT !.expired = TRUE], run)
    BY <1>0 DEF SameWork, AggregateOf
  <2>3. QED
    BY <2>1, <2>2 DEF Rests
<1>10. CASE StartRun \/ UNCHANGED vars
  BY <1>1, <1>10 DEF StartRun, Invoke, durable, vars, memory
<1>11. ASSUME NEW approval, ResumeRun(approval) \/ AnswerPrompt(approval)
       PROVE  UNCHANGED <<store, run, finished, owed>>
  BY <1>11 DEF ResumeRun, AnswerPrompt, Continue, Invoke, durable
<1> HIDE DEF Quiet, history, Persist
<1>12. QED
  BY <1>1, <1>3, <1>4, <1>5, <1>6, <1>7, <1>8, <1>9, <1>10, <1>11
  DEF Next, Handlers, Work, Works

\* Where the plan requires a Scout, every other Actor that may reserve a slot
\* has the Scout's result.
LEMMA ScoutFirst ==
  \A a \in Planned \ {"scout"} :
    "scout" \in Planned /\ RolePermitted(a) => "scout" \in run.credited
BY DEF Planned, RolesOf, RolePermitted

\* How the aggregate and the history move when an Actor's work does.
Moved ==
  /\ Planned' = Planned
  /\ \A a \in Actors : finished[a] > 0 => finished'[a] > 0
  /\ owed' => owed \/ (thread.next = "execute_actor" /\ pc = "acting")

\* A step at which no work moves keeps the record of it true.
LEMMA RecordsRest ==
  ASSUME TypeOK, Agree, RecordInv, Rests
  PROVE  RecordInv' /\ Moved
<1>1. Planned' = Planned
  BY DEF Rests, SameWork, Planned, Strategy, Agree
<1>2. Sound(run', Planned, finished, owed) /\ Sound(store'.saved, Planned, finished, owed)
  BY DEF Rests, SameWork, RecordInv, Sound
<1>3. Ahead(run', store'.saved, Planned)
  BY DEF Rests, SameWork, RecordInv, Ahead
<1>4. finished' = finished /\ owed' = owed
  BY DEF Rests
<1>5. QED
  BY <1>1, <1>2, <1>3, <1>4 DEF RecordInv, Moved

\* A policy is installed before there is any work.
LEMMA RecordsInstalled ==
  ASSUME TypeOK, PolicyInv, RecordInv, Installs
  PROVE  /\ RecordInv'
         /\ Planned = {} /\ ~owed /\ \A a \in Actors : ~(finished[a] > 0)
<1>1. Planned = {}
  BY RolesKnown DEF Installs, PolicyInv, Planned, Strategy
<1>2. ~owed /\ \A a \in Actors : ~(finished[a] > 0)
  BY <1>1 DEF RecordInv
<1>3. PICK policy \in {"unapproved", "approved"} : run' = Install(thread.assessed, policy)
  BY DEF Installs
<1>4. thread.assessed \in Assessed
  BY DEF TypeOK, GraphState
<1>5. Planned' = RolesOf(thread.assessed.strategy)
  BY <1>3, <1>4, InstallTyped DEF Planned, Strategy, Policies
<1>6. /\ \A a \in Planned' : run'.tree[a] = "absent"
      /\ run'.credited = {}
  BY <1>3, <1>5 DEF Install
<1>7. store'.saved = run' /\ finished' = finished /\ owed' = owed
  BY DEF Installs
<1>8. Sound(run', Planned', finished', owed')
  BY <1>2, <1>6, <1>7 DEF Sound
<1>9. QED
  BY <1>1, <1>2, <1>6, <1>7, <1>8 DEF RecordInv, Ahead

\* The steps that move an Actor's work keep the record of it true.
LEMMA RecordsWork ==
  ASSUME TypeOK, Agree, ControlInv, RecordInv, BackedInv, ActingInv, Works
  PROVE  RecordInv' /\ Moved
<1> USE DEF RecordInv, Ahead, Quiet, history
<1>0. /\ run \in AggregateOf(Planned) /\ Planned \subseteq Actors
      /\ finished \in [Actors -> Nat]
  BY RolesKnown DEF TypeOK, Planned
<1>1. CASE Plan
  <2>1. UNCHANGED <<finished, owed>>
    BY <1>1 DEF Plan
  <2>2. CASE UNCHANGED <<store, run>>
    BY <2>1, <2>2 DEF Moved, Planned, Strategy
  <2>3. CASE ~UNCHANGED <<store, run>>
    <3>1. /\ run' = [run EXCEPT !.tree = [a \in Planned |->
                        IF run.tree[a] = "absent" THEN "pending" ELSE run.tree[a]]]
          /\ store' = [status |-> "running", saved |-> run']
      BY <1>1, <2>3 DEF Plan, Persist
    <3>2. /\ \A a \in Planned : run'.tree[a] =
                        IF run.tree[a] = "absent" THEN "pending" ELSE run.tree[a]
          /\ run'.patch = run.patch /\ run'.credited = run.credited
          /\ run'.assessed = run.assessed
      BY <3>1, <1>0 DEF AggregateOf
    <3>3. Planned' = Planned
      BY <3>2 DEF Planned, Strategy
    <3>4. run.credited \subseteq Planned
      BY <1>0 DEF AggregateOf
    <3>5. Sound(run', Planned, finished, owed)
      BY <3>2, <3>4 DEF Sound
    <3>6. store'.saved = run'
      BY <3>1
    <3>7. QED
      BY <2>1, <3>3, <3>5, <3>6 DEF Moved
  <2>4. QED
    BY <2>2, <2>3
<1>2. CASE ScheduleReadyActors
  <2>1. UNCHANGED <<finished, owed, store>>
    BY <1>2 DEF ScheduleReadyActors
  <2>2. PICK blocked :
          run' = [run EXCEPT !.tree = [a \in Planned |->
                    IF a \in blocked /\ run.tree[a] = "pending" THEN "blocked" ELSE run.tree[a]]]
    BY <1>2 DEF ScheduleReadyActors
  <2>3. /\ \A a \in Planned : run'.tree[a] =
             IF a \in blocked /\ run.tree[a] = "pending" THEN "blocked" ELSE run.tree[a]
        /\ run'.patch = run.patch /\ run'.credited = run.credited
        /\ run'.assessed = run.assessed
    BY <2>2, <1>0 DEF AggregateOf
  <2>4. Planned' = Planned
    BY <2>3 DEF Planned, Strategy
  <2>5. run.credited \subseteq Planned
    BY <1>0 DEF AggregateOf
  <2>6. Sound(run', Planned, finished, owed)
    BY <2>3, <2>5 DEF Sound
  <2>7. QED
    BY <2>1, <2>3, <2>4, <2>6 DEF Moved
<1>3. CASE CollectActorResults
  <2>1. UNCHANGED <<finished, store>>
    BY <1>3 DEF CollectActorResults
  <2>2. \/ run' = [run EXCEPT !.patch = "applied"] /\ ~owed'
        \/ run' = run /\ (owed' => owed)
    BY <1>3 DEF CollectActorResults
  <2>3. /\ run'.tree = run.tree /\ run'.credited = run.credited
        /\ run'.assessed = run.assessed /\ (owed' => run'.patch = run.patch)
    BY <2>2, <1>0 DEF AggregateOf
  <2>4. Planned' = Planned
    BY <2>3 DEF Planned, Strategy
  <2>5. Sound(run', Planned, finished, owed') /\ Sound(store.saved, Planned, finished, owed')
    BY <2>2, <2>3 DEF Sound
  <2>6. QED
    BY <2>1, <2>2, <2>3, <2>4, <2>5 DEF Moved
<1>4. ASSUME NEW a \in Planned, ExecuteActor(a) PROVE RecordInv' /\ Moved
  <2>1. UNCHANGED <<finished, owed, store>>
    BY <1>4 DEF ExecuteActor
  <2>2. /\ Reserve(a) \in AggregateOf(Planned)
        /\ SameWork(Reserve(a), run)
    <3>1. /\ [run.reserved EXCEPT ![a] = @ + 1] \in [Planned -> Nat]
          /\ run.attempts + 1 \in Nat
      BY <1>0 DEF AggregateOf
    <3>2. Reserve(a) = [run EXCEPT !.reserved = [run.reserved EXCEPT ![a] = @ + 1],
                                   !.attempts = run.attempts + 1]
      BY <1>0 DEF Reserve, AggregateOf
    <3>3. QED
      BY <3>1, <3>2, <1>0 DEF AggregateOf, SameWork
  <2>3. CASE run' \in {run, Reserve(a)}
    <3>1. SameWork(run', run)
      BY <2>2, <2>3 DEF SameWork
    <3>2. QED
      BY <2>1, <3>1 DEF SameWork, Moved, Sound, Planned, Strategy
  <2>4. CASE run' \notin {run, Reserve(a)}
    <3>1. /\ run.tree[a] \in {"pending", "running"} /\ RolePermitted(a)
          /\ run' = [Reserve(a) EXCEPT !.tree[a] = "running"]
      BY <1>4, <2>4 DEF ExecuteActor, MayReserve
    <3>2. /\ run'.tree = [run.tree EXCEPT ![a] = "running"]
          /\ run'.patch = run.patch /\ run'.credited = run.credited
          /\ run'.assessed = run.assessed
      BY <3>1, <2>2 DEF AggregateOf, SameWork
    <3>3. Planned' = Planned
      BY <3>2 DEF Planned, Strategy
    <3>4. \A b \in Planned : run'.tree[b] = IF b = a THEN "running" ELSE run.tree[b]
      BY <3>2, <1>0 DEF AggregateOf
    <3>5. run.credited \subseteq Planned
      BY <1>0 DEF AggregateOf
    <3>6. a # "scout" /\ "scout" \in Planned => "scout" \in run.credited
      BY <3>1, ScoutFirst
    <3>7. \A b \in Planned : run'.tree[b] = "done" <=> run.tree[b] = "done"
      BY <3>1, <3>4
    <3>8. Sound(run', Planned, finished, owed)
      BY <3>2, <3>4, <3>5, <3>6, <3>7 DEF Sound
    <3>9. QED
      BY <2>1, <3>3, <3>7, <3>8 DEF Moved
  <2>5. QED
    BY <2>3, <2>4
<1>5. ASSUME NEW a \in Planned, Acting(a) PROVE run.tree[a] = "running" /\ a \in thread.ready
  BY <1>5 DEF Acting, ActingInv
<1>6. ASSUME NEW a \in Planned, ActorDone(a) PROVE RecordInv' /\ Moved
  <2>1. store' = store /\ finished' = [finished EXCEPT ![a] = @ + 1]
    BY <1>6 DEF ActorDone
  <2>2. run.tree[a] = "running" /\ store.saved.tree[a] # "done"
    BY <1>5, <1>6 DEF ActorDone
  <2>3. PICK diff \in IF a = "coder" THEN BOOLEAN ELSE {FALSE} :
          LET r == [run EXCEPT !.tree[a] = "done",
                      !.patch = IF a # "coder" THEN @
                                ELSE IF diff THEN "ready" ELSE "none"]
          IN /\ run' = r \/ run' = [r EXCEPT !.credited = @ \cup {a}]
             /\ owed' = IF a = "coder" THEN diff ELSE owed
    BY <1>6 DEF ActorDone
  <2> DEFINE r == [run EXCEPT !.tree[a] = "done",
                     !.patch = IF a # "coder" THEN @ ELSE IF diff THEN "ready" ELSE "none"]
  <2>4. /\ r.tree = [run.tree EXCEPT ![a] = "done"]
        /\ r.patch = IF a # "coder" THEN run.patch ELSE IF diff THEN "ready" ELSE "none"
        /\ r.credited = run.credited /\ r.assessed = run.assessed
        /\ r \in AggregateOf(Planned)
    BY <1>0 DEF AggregateOf, TaskStates
  <2>5. run' = r \/ run' = [r EXCEPT !.credited = r.credited \cup {a}]
    BY <2>3
  <2> HIDE DEF r
  <2>6. /\ run'.tree = r.tree /\ run'.patch = r.patch /\ run'.assessed = r.assessed
        /\ run'.credited \in {run.credited, run.credited \cup {a}}
    BY <2>4, <2>5 DEF AggregateOf
  <2>7. /\ \A b \in Planned : run'.tree[b] = IF b = a THEN "done" ELSE run.tree[b]
        /\ a # "coder" => run'.patch = run.patch
        /\ a = "coder" /\ owed' => run'.patch = "ready"
        /\ run'.assessed = run.assessed
    BY <2>3, <2>4, <2>6, <1>0 DEF AggregateOf
  <2>8. Planned' = Planned
    BY <2>7 DEF Planned, Strategy
  <2>9. \A b \in Actors : finished'[b] > 0 <=> b = a \/ finished[b] > 0
    BY <2>1, <1>0
  <2>10. owed' => owed \/ a = "coder"
    BY <2>3
  <2>11. run.credited \subseteq Planned
    BY <1>0 DEF AggregateOf
  <2>12. Sound(run', Planned, finished', owed')
    <3>1. \A b \in Planned : run'.tree[b] = "done" => finished'[b] > 0
      BY <2>7, <2>9, <1>0 DEF Sound
    <3>2. owed' /\ "coder" \in Planned => (run'.tree["coder"] = "done" => run'.patch = "ready")
      BY <2>7, <2>10 DEF Sound
    <3>3. \A c \in run'.credited : run'.tree[c] = "done"
      BY <2>6, <2>7, <2>11 DEF Sound
    <3>4. \A b \in Planned \ {"scout"} :
            "scout" \in Planned /\ run'.tree[b] \in {"running", "done"} => "scout" \in run'.credited
      BY <2>2, <2>6, <2>7 DEF Sound
    <3>5. QED
      BY <3>1, <3>2, <3>3, <3>4 DEF Sound
  <2>13. Sound(store.saved, Planned, finished', owed')
    BY <2>2, <2>9, <2>10, <1>0 DEF Sound
  <2>14. Ahead(run', store.saved, Planned)
    BY <2>7
  <2>15. Moved
    BY <2>8, <2>9, <2>10, <1>6 DEF Moved, ActorDone, Acting
  <2>16. RecordInv'
    BY <2>1, <2>8, <2>9, <2>10, <2>12, <2>13, <2>14
  <2>17. QED
    BY <2>15, <2>16
<1>7. ASSUME NEW a \in Planned, ActorFailed(a) PROVE RecordInv' /\ Moved
  <2>1. UNCHANGED <<store, finished, owed>>
    BY <1>7 DEF ActorFailed
  <2>2. run.tree[a] = "running"
    BY <1>5, <1>7 DEF ActorFailed
  <2>3. PICK n : run' = [run EXCEPT !.tree[a] = "failed", !.reserved[a] = n]
    BY <1>7 DEF ActorFailed
  <2>4. /\ \A b \in Planned : run'.tree[b] = IF b = a THEN "failed" ELSE run.tree[b]
        /\ run'.patch = run.patch /\ run'.credited = run.credited
        /\ run'.assessed = run.assessed
    BY <2>3, <1>0 DEF AggregateOf
  <2>5. Planned' = Planned
    BY <2>4 DEF Planned, Strategy
  <2>6. run.credited \subseteq Planned
    BY <1>0 DEF AggregateOf
  <2>7. \A b \in Planned : run'.tree[b] = "done" <=> run.tree[b] = "done"
    BY <2>2, <2>4
  <2>8. Sound(run', Planned, finished, owed)
    BY <2>4, <2>6, <2>7 DEF Sound
  <2>9. QED
    BY <2>1, <2>5, <2>7, <2>8 DEF Moved
<1>8. QED
  BY <1>1, <1>2, <1>3, <1>4, <1>6, <1>7 DEF Works

\* The Actor that acts is the one whose task is running.
LEMMA ActingStays ==
  ASSUME TypeOK, ControlInv, RecordInv, BackedInv, ActingInv, Moved, [Next]_vars
  PROVE  ActingInv'
<1> USE DEF ActingInv
<1>0. run \in AggregateOf(Planned)
  BY DEF TypeOK
<1>1. Planned' = Planned
  BY DEF Moved
<1>2. ASSUME NEW a \in Planned, ExecuteActor(a) PROVE ActingInv'
  <2>1. thread' = thread /\ a \in thread.ready
    BY <1>2 DEF ExecuteActor, Quiet
  <2>2. pc' = "acting" => run'.tree[a] = "running"
    <3>1. pc' = "acting" => run' = [Reserve(a) EXCEPT !.tree[a] = "running"]
      BY <1>2 DEF ExecuteActor, Returns, Raises
    <3>2. Reserve(a).tree = run.tree
      BY <1>0 DEF Reserve, AggregateOf
    <3>3. DOMAIN run.tree = Planned
      BY <1>0 DEF AggregateOf
    <3>4. [Reserve(a) EXCEPT !.tree[a] = "running"].tree[a] = "running"
      BY <3>2, <3>3, <1>0 DEF Reserve, AggregateOf
    <3>5. QED
      BY <3>1, <3>4
  <2>3. \A b \in thread.ready : b = a
    BY <2>1 DEF BackedInv, Backed
  <2>4. QED
    BY <2>1, <2>2, <2>3
<1>3. CASE ExecutePlanner
  BY <1>3 DEF ExecutePlanner, At, Quiet
<1>4. CASE (Handlers \/ Work) /\ ~ExecutePlanner /\ \A a \in Planned : ~ExecuteActor(a)
  <2>1. pc' # "acting"
    BY <1>4
    DEF Handlers, Work, AssessTask, CompilePolicy, RequestApproval, Interrupt, Approved,
        Rejected, Plan, ValidatePlan, ScheduleReadyActors, FinishPlanner, ActorDone,
        ActorFailed, CollectActorResults, Verify, RepairRouter, FinalizeSuccess,
        FinalizeFailure, Returns, Raises
  <2>2. QED
    BY <2>1
<1>5. CASE Engine \/ Fault \/ Cancel \/ Crash \/ Exit \/ StartRun
  <2>1. pc' # "acting"
    BY <1>5
    DEF Engine, Return, ExceedRecursionLimit, PersistFailure, CompleteRun, Fault, Cancel,
        Crash, Exit, Forget, StartRun, Raises
  <2>2. QED
    BY <2>1
<1>6. ASSUME NEW approval, ResumeRun(approval) \/ AnswerPrompt(approval)
      PROVE  ActingInv'
  <2>1. pc' # "acting"
    BY <1>6 DEF ResumeRun, AnswerPrompt, Continue
  <2>2. QED
    BY <2>1
<1>7. CASE WriteCheckpoint \/ UNCHANGED vars
  BY <1>1, <1>7 DEF WriteCheckpoint, vars, memory
<1>8. CASE WallTimeExpires
  <2>1. run' = [run EXCEPT !.expired = TRUE] /\ UNCHANGED <<pc, thread>>
    BY <1>8 DEF WallTimeExpires
  <2>2. run'.tree = run.tree
    BY <2>1, <1>0 DEF AggregateOf
  <2>3. QED
    BY <2>1, <2>2, <1>1
<1>9. QED
  BY <1>2, <1>3, <1>4, <1>5, <1>6, <1>7, <1>8 DEF Next, Handlers, Work

\* An Actor depends on Actors.
LEMMA DependenciesKnown ==
  \A planned \in SUBSET Actors : \A a \in planned :
    DependenciesOf(planned)[a] \subseteq Actors
BY DEF DependenciesOf, Actors

\* A graph state on its way to success is past all work.
LEMMA PassingCloses ==
  \A t : Passing(t) => t.next \in Closing /\ t.next \in Compiled
BY NodesNamed DEF Passing, Closing, Compiled

\* A graph state that is backed before a step is backed after it.
LEMMA BackedMoves ==
  ASSUME TypeOK, Agree, ControlInv, PolicyInv, RecordInv, BackedInv,
         Moved \/ Installs,
         NEW t \in {thread, checkpoint, pending}
  PROVE  Backed(t, Planned', finished', owed')
<1>0. Planned \in SUBSET Actors
  BY RolesKnown DEF Planned
<1>1. Backed(t, Planned, finished, owed)
  BY DEF BackedInv
<1>2. CASE Moved
  <2>1. \A a \in t.ready \cap Planned : \A b \in DependenciesOf(Planned)[a] : finished'[b] > 0
    BY <1>0, <1>1, <1>2, DependenciesKnown DEF Backed, Moved
  <2>2. Passing(t) => \A a \in Planned : finished'[a] > 0
    BY <1>0, <1>1, <1>2 DEF Backed, Moved
  <2>3. Passing(t) => ~owed'
    <3>1. "execute_actor" \notin Closing
      BY DEF Closing
    <3>2. Passing(t) => t.next \in Closing
      BY PassingCloses
    <3>3. "none" \notin Closing
      BY DEF Closing
    <3>4. t.next \in Closing => ~(thread.next = "execute_actor" /\ pc = "acting")
      BY <3>1, <3>3 DEF ControlInv
    <3>5. QED
      BY <3>2, <3>4, <1>1, <1>2 DEF Backed, Moved
  <2>4. QED
    BY <1>1, <1>2, <2>1, <2>2, <2>3 DEF Backed, Moved
<1>3. CASE Installs
  <2>1. run.policy = "none" /\ Fits(t, run)
    BY <1>3 DEF Installs, PolicyInv
  <2>2. t.ready = {} /\ ~Passing(t)
    BY <2>1, PassingCloses DEF Fits
  <2>3. QED
    BY <2>2 DEF Backed
<1>4. QED
  BY <1>2, <1>3

\* What is ready when the schedule is made is one Actor whose dependencies are done.
ReadyOf(blocked) ==
  {a \in Planned \ (Tasks("done") \cup Tasks("failed") \cup blocked) :
     Dependencies[a] \subseteq Tasks("done")}

\* A schedule makes one Actor ready, after those it depends on.
LEMMA ReadyBacked ==
  ASSUME TypeOK, RecordInv, NEW blocked
  PROVE  /\ \A a, b \in ReadyOf(blocked) : a = b
         /\ \A a \in ReadyOf(blocked) : \A b \in Dependencies[a] : finished[b] > 0
<1> DEFINE ready == ReadyOf(blocked)
<1> USE DEF ReadyOf
<1>1. \A a \in Tasks("done") : finished[a] > 0 /\ a \in Planned
  BY DEF Tasks, RecordInv, Sound
<1>2. \A a \in ready : \A b \in Dependencies[a] : finished[b] > 0
  BY <1>1
<1>3. Planned \subseteq Actors
  BY RolesKnown DEF Planned
<1>4. "verifier" \in Planned => "scout" \in Planned /\ "coder" \in Planned
  BY DEF Planned, RolesOf
<1>5. ~("coder" \in ready /\ "verifier" \in ready)
  <2>1. "verifier" \in ready => "coder" \in Dependencies["verifier"]
    BY DEF Dependencies, DependenciesOf
  <2>2. QED
    BY <2>1
<1>6. ~("coder" \in ready /\ "scout" \in ready)
  <2>1. "coder" \in ready /\ "scout" \in Planned => "scout" \in Dependencies["coder"]
    BY DEF Dependencies, DependenciesOf
  <2>2. QED
    BY <2>1
<1>7. ~("verifier" \in ready /\ "scout" \in ready)
  <2>1. "verifier" \in ready => "coder" \in Dependencies["verifier"]
    BY DEF Dependencies, DependenciesOf
  <2>2. "verifier" \in ready => "coder" \in Tasks("done") /\ "scout" \in Planned
    BY <2>1, <1>4
  <2>3. "verifier" \in ready => "scout" \in run.credited
    BY <2>2 DEF Tasks, RecordInv, Sound
  <2>4. "verifier" \in ready => "scout" \in Tasks("done")
    BY <2>2, <2>3 DEF Tasks, RecordInv, Sound
  <2>5. QED
    BY <2>4
<1>8. QED
  BY <1>2, <1>3, <1>5, <1>6, <1>7 DEF Actors

\* The graph state a handler returns is backed.
LEMMA UpdatesBacked ==
  ASSUME TypeOK, Agree, ControlInv, PolicyInv, RecordInv, BackedInv,
         RecordInv', Moved \/ Installs, Handlers \/ Work, pc' = "returning"
  PROVE  Backed(pending', Planned', finished', owed')
<1>0. thread \in GraphState /\ run \in AggregateOf(Planned) /\ Planned \subseteq Actors
  BY RolesKnown DEF TypeOK, Planned
<1>1. Backed(thread, Planned', finished', owed')
  BY BackedMoves
<1>2. /\ thread.next \in Nodes /\ pending'.next \in Successors[thread.next]
      /\ ChoicesOf(pending')
  BY UpdatesTyped, HandlersMove DEF ControlInv
<1>3. CASE thread.next = "schedule_ready_actors"
  <2>1. ScheduleReadyActors
    BY <1>3, HandlerOfNode
  <2>2. PICK ready, blocked :
          /\ ready = ReadyOf(blocked)
          /\ blocked \in SUBSET Planned
          /\ pending' = Goto([thread EXCEPT !.ready = ready, !.blocked = blocked],
                             DispatchRoute(ready))
    BY <2>1 DEF ScheduleReadyActors, Returns, ReadyOf
  <2>3. pending'.ready = ready
    <3> DEFINE t == [thread EXCEPT !.ready = ready, !.blocked = blocked]
    <3>0. ready \in SUBSET Actors /\ blocked \in SUBSET Actors
      BY <1>0, <2>2 DEF ReadyOf
    <3>1. t \in GraphState /\ t.ready = ready
      BY <1>0, <3>0, ReadyUpdate
    <3> HIDE DEF t
    <3>2. Goto(t, DispatchRoute(ready)).ready = t.ready
      BY <3>1, GotoTyped, RoutesKnown, NodesNamed DEF SameResults
    <3>3. QED
      BY <2>2, <3>1, <3>2 DEF t
  <2>4. ~Passing(pending')
    <3>1. pending'.next \in {"execute_planner", "collect_actor_results", "execute_actor"}
      BY <1>2, <1>3 DEF Successors
    <3>2. QED
      BY <3>1, PassingCloses DEF Closing
  <2>5. /\ \A a, b \in ready : a = b
        /\ \A a \in ready : \A b \in Dependencies[a] : finished[b] > 0
    BY <2>2, ReadyBacked
  <2>6. Planned' = Planned /\ \A a \in Actors : finished[a] > 0 => finished'[a] > 0
    BY <1>3 DEF Moved, Installs
  <2>7. \A a \in ready : \A b \in DependenciesOf(Planned)[a] : finished'[b] > 0
    BY <1>0, <2>2, <2>5, <2>6, DependenciesKnown DEF Dependencies, ReadyOf
  <2>8. QED
    BY <2>3, <2>4, <2>5, <2>6, <2>7 DEF Backed
<1>4. CASE thread.next # "schedule_ready_actors"
  <2>1. pending'.ready = thread.ready
    BY <1>2, <1>4 DEF ChoicesOf
  <2> SUFFICES ASSUME Passing(pending')
               PROVE  ~owed' /\ \A a \in Planned' : finished'[a] > 0
    BY <1>1, <2>1 DEF Backed
  <2>2. Passing(thread) => ~owed' /\ \A a \in Planned' : finished'[a] > 0
    BY <1>1 DEF Backed
  <2>3. pending'.next \in Closing
    BY PassingCloses
  <2>4. thread.next \in {"execute_planner", "collect_actor_results", "verify",
                         "repair_router", "finalize_success", "finalize_failure"}
        \/ (pending'.next = "finalize_failure")
    BY <1>2, <1>4, <2>3, NodesNamed DEF Successors, Closing
  <2>5. pending'.next # "finalize_failure"
    BY DEF Passing
  <2>6. CASE thread.next = "execute_planner"
    <3>1. Planned = {}
      BY <2>6 DEF PolicyInv, Fits, Planned, Strategy
    <3>2. Moved
      BY <2>6 DEF Installs
    <3>3. QED
      BY <3>1, <3>2 DEF Moved, RecordInv
  <2>7. CASE thread.next = "collect_actor_results"
    <3>1. CollectActorResults
      BY <2>7, HandlerOfNode
    <3>2. PICK applies \in IF "coder" \in Tasks("done") /\ run.patch = "ready"
                           THEN {"yes", "no"} ELSE {"nothing"} :
            LET failed == Tasks("failed") \cup (IF applies = "no" THEN {"coder"} ELSE {})
                t == [thread EXCEPT
                        !.completed = Tasks("done"), !.failed = failed,
                        !.blocked = Tasks("blocked"),
                        !.final = IF failed # {} THEN "failed" ELSE "executed"]
            IN /\ owed' = (owed /\ applies # "yes")
               /\ pending' = Goto(t, CollectRoute(t))
      BY <3>1 DEF CollectActorResults, Returns
    <3> DEFINE failed == Tasks("failed") \cup (IF applies = "no" THEN {"coder"} ELSE {})
    <3>3. \A s : Tasks(s) \in SUBSET Actors
      BY <1>0 DEF Tasks
    <3>4. /\ failed \in SUBSET Actors
          /\ (IF failed # {} THEN "failed" ELSE "executed") \in Finals
      BY <3>3 DEF Actors, Finals
    <3>5. PICK x \in SUBSET Actors, y \in SUBSET Actors, z \in SUBSET Actors, f \in Finals :
            /\ x = Tasks("done") /\ y = failed /\ z = Tasks("blocked")
            /\ LET u == [thread EXCEPT !.completed = x, !.failed = y, !.blocked = z,
                                       !.final = f]
               IN pending' = Goto(u, CollectRoute(u))
      BY <3>2, <3>3, <3>4
    <3> DEFINE t == [thread EXCEPT !.completed = x, !.failed = y, !.blocked = z, !.final = f]
    <3>6. /\ t \in GraphState /\ t.completed = x /\ t.failed = y /\ t.blocked = z
          /\ pending' = Goto(t, CollectRoute(t))
      BY <1>0, <3>5 DEF GraphState, Finals
    <3> HIDE DEF t
    <3>7. /\ pending'.next = CollectRoute(t) /\ pending'.failed = t.failed
          /\ pending'.blocked = t.blocked
      BY <3>6, GotoTyped, RoutesKnown, NodesNamed DEF SameResults
    <3>8. pending'.next = "verify"
      BY <1>2, <2>7, <2>3 DEF Successors, Closing
    <3>9. failed = {} /\ Tasks("blocked") = {}
      BY <3>5, <3>6, <3>7, <3>8 DEF Passing
    <3>10. Planned \subseteq Tasks("done")
      BY <3>5, <3>6, <3>7, <3>8, <3>9 DEF CollectRoute
    <3>11. Moved /\ finished' = finished
      BY <2>7, <3>1 DEF Installs, CollectActorResults
    <3>12. \A a \in Planned' : finished'[a] > 0
      BY <3>10, <3>11 DEF Moved, Tasks, RecordInv, Sound
    <3>13. applies # "no"
      BY <3>9
    <3>14. owed => "coder" \in Tasks("done") /\ run.patch = "ready"
      BY <3>10 DEF RecordInv, Sound, Tasks
    <3>15. ~owed'
      BY <3>2, <3>13, <3>14
    <3>16. QED
      BY <3>12, <3>15
  <2>8. CASE thread.next = "verify"
    <3>1. pending'.next = "repair_router" /\ pending'.final = "verified"
      BY <1>2, <2>8 DEF Successors, Passing
    <3>2. Verify
      BY <2>8, HandlerOfNode
    <3>3. ~Passing(thread) =>
            pending' = Goto([thread EXCEPT !.final = "failed"], "repair_router")
      BY <2>8, <3>2 DEF Verify, Returns, Passing
    <3>4. Goto([thread EXCEPT !.final = "failed"], "repair_router").final = "failed"
      BY <1>0 DEF Goto, GraphState
    <3>5. QED
      BY <2>2, <3>1, <3>3, <3>4
  <2>9. CASE thread.next = "repair_router"
    <3>1. RepairRouter
      BY <2>9, HandlerOfNode
    <3>2. pending'.next = "finalize_success"
      BY <1>2, <2>5, <2>9 DEF Successors
    <3>3. thread.final # "verified" => pending' = Goto(thread, "finalize_failure")
      BY <3>1 DEF RepairRouter, Returns
    <3>4. Goto(thread, "finalize_failure").next = "finalize_failure"
      BY <1>0, GotoTyped, NodesNamed
    <3>5. QED
      BY <2>2, <2>9, <3>2, <3>3, <3>4 DEF Passing
  <2>10. CASE thread.next = "finalize_success"
    BY <2>2, <2>10 DEF Passing
  <2>11. CASE thread.next = "finalize_failure"
    <3>1. FinalizeFailure
      BY <2>11, HandlerOfNode
    <3>2. PICK f \in {"rejected", "failed"} :
            pending' = Goto([thread EXCEPT !.final = f], "END")
      BY <3>1 DEF FinalizeFailure, Returns
    <3>3. pending'.final = f /\ pending'.next = "END"
      BY <3>2, <1>0 DEF Goto, GraphState
    <3>4. QED
      BY <3>3 DEF Passing
  <2>12. QED
    BY <2>4, <2>5, <2>6, <2>7, <2>8, <2>9, <2>10, <2>11
<1>5. QED
  BY <1>3, <1>4

\* Every step keeps the graph states backed by finished work.
LEMMA BackedStays ==
  ASSUME TypeOK, Agree, ControlInv, PolicyInv, RecordInv, BackedInv,
         RecordInv', Moved \/ Installs, [Next]_vars
  PROVE  BackedInv'
<1>0. {thread, checkpoint, pending} \subseteq GraphState
  BY DEF TypeOK
<1>1. \A t \in {thread, checkpoint, pending} : Backed(t, Planned', finished', owed')
  BY BackedMoves
<1>2. /\ Backed(NoThread, Planned', finished', owed')
      /\ \A p \in BOOLEAN : Backed(NewThread(p), Planned', finished', owed')
  BY DEF NoThread, NewThread, Backed, Passing
<1>3. Backed(pending', Planned', finished', owed')
  <2>1. CASE (Handlers \/ Work) /\ pc' = "returning"
    BY <2>1, UpdatesBacked
  <2>2. CASE pending' \in {pending, NoThread}
    BY <2>2, <1>1, <1>2
  <2>3. QED
    BY <2>1, <2>2, ThreadsMove, HandlersMove
<1>4. Backed(checkpoint', Planned', finished', owed')
  BY <1>1, ThreadsMove
<1>5. Backed(thread', Planned', finished', owed')
  <2>1. CASE Return
    <3>1. StageOf[thread.next] \in DOMAIN Allowed
      BY <2>1, NodesNamed DEF Return, ControlInv, StageOf, Allowed
    <3> DEFINE x == StageOf[thread.next]
               t == [pending EXCEPT !.stage = x]
    <3>2. t.next = pending.next /\ SameResults(t, pending)
      BY <3>1, <1>0, StageUpdate
    <3>3. thread' = t
      BY <2>1 DEF Return
    <3> HIDE DEF t
    <3>4. Backed(pending, Planned', finished', owed')
      BY <1>1
    <3>5. QED
      BY <3>2, <3>3, <3>4 DEF SameResults, Backed, Passing
  <2>2. CASE ~Return
    BY <2>2, <1>1, <1>2, ThreadsMove
  <2>3. QED
    BY <2>1, <2>2
<1>6. QED
  BY <1>3, <1>4, <1>5 DEF BackedInv

WorkInv == RecordInv /\ BackedInv /\ ActingInv

\* Every step keeps the account of the work.
LEMMA WorkStays ==
  ASSUME TypeOK, Agree, ControlInv, PolicyInv, WorkInv, [Next]_vars
  PROVE  WorkInv'
<1> USE DEF WorkInv
<1>1. RecordInv' /\ (Moved \/ Installs)
  BY WorkMoves, RecordsRest, RecordsInstalled, RecordsWork
<1>2. BackedInv'
  BY <1>1, BackedStays
<1>3. ActingInv'
  <2>1. Installs => pc' # "acting"
    BY DEF Installs
  <2>2. QED
    BY <2>1, <1>1, ActingStays DEF ActingInv
<1>4. QED
  BY <1>1, <1>2, <1>3

\* A new Run has done no work.
LEMMA InitWork == Init => WorkInv
<1> SUFFICES ASSUME Init PROVE WorkInv
  OBVIOUS
<1>1. Planned = {}
  BY RolesKnown DEF Init, NoRun, Install, Unassessed, Planned, Strategy
<1>2. thread = NoThread /\ checkpoint = NoThread /\ pending = NoThread
  BY DEF Init
<1>3. Backed(NoThread, Planned, finished, owed)
  BY DEF NoThread, NewThread, Backed, Passing
<1>4. run.credited = {}
  BY DEF Init, NoRun, Install
<1>5. /\ \A a \in Actors : ~(finished[a] > 0)
      /\ ~owed /\ store.saved = run /\ pc = "down"
  BY DEF Init
<1>6. QED
  BY <1>1, <1>2, <1>3, <1>4, <1>5 DEF WorkInv, RecordInv, BackedInv, ActingInv, Sound, Ahead

-----------------------------------------------------------------------------
(***************************************************************************)
(* The inductive invariant, and what follows from it                       *)
(***************************************************************************)
OrchInv ==
  TypeOK /\ Agree /\ ControlInv /\ PolicyInv /\ StageInv /\ StatusInv /\ WorkInv

\* A new Run satisfies the invariant.
LEMMA InitInv == Init => OrchInv
<1> SUFFICES ASSUME Init PROVE OrchInv
  OBVIOUS
<1>1. TypeOK
  BY InitTyped
<1>2. /\ run.assessed = Unassessed /\ run.policy = "none"
      /\ store.saved = run /\ store.status = "created"
  BY DEF Init, NoRun, Install
<1>3. /\ thread = NoThread /\ checkpoint = NoThread /\ pending = NoThread
      /\ pc = "down" /\ answer = "none" /\ ~accepted
  BY DEF Init
<1>4. /\ NoThread.next = "none" /\ NoThread.approval = "none" /\ NoThread.ready = {}
  BY DEF NoThread, NewThread
<1>5. Agree
  BY <1>2 DEF Agree
<1>6. ControlInv
  BY <1>3, <1>4 DEF ControlInv, Closing
<1>7. PolicyInv
  BY <1>2, <1>3, <1>4, NodesNamed DEF PolicyInv, Fits, Unassessed, Compiled, Approving
<1>8. StageInv
  BY <1>3, <1>4, NodesNamed DEF StageInv, Admits
<1>9. StatusInv
  BY <1>2, <1>3, <1>4 DEF StatusInv, Failed
<1>10. QED
  BY <1>1, <1>5, <1>6, <1>7, <1>8, <1>9, InitWork DEF OrchInv

\* Every step keeps the invariant.
LEMMA StepInv == OrchInv /\ [Next]_vars => OrchInv'
BY TypeStays, RunStaysTyped, ControlStays, PolicyStays, StageStays, StatusStays, WorkStays
DEF OrchInv

\* The invariant the theorems below rest on.
THEOREM Invariance == Spec => []OrchInv
BY InitInv, StepInv, PTL DEF Spec

\* Both stores and the memory of the process hold values of their types.
THEOREM OrchestratorTypeCorrect == Spec => []TypeOK
BY Invariance, PTL DEF OrchInv

\* No Actor and no Planner call of a high-risk Run runs before a human's yes is
\* in RunStore, for any request and any number of deaths, cancellations,
\* exceptions and resumes.
THEOREM WorkAlwaysApproved == Spec => []WorkNeedsDurableApproval
<1>1. OrchInv => WorkNeedsDurableApproval
  BY DEF OrchInv, WorkNeedsDurableApproval, Agree, ControlInv, PolicyInv, Fits, Approving,
         NeedsApproval
<1>2. QED
  BY Invariance, <1>1, PTL

\* Every node the graph goes to is a stage the workflow admits.
THEOREM NodesAlwaysAdmitted == Spec => []WorkflowAdmitsNode
<1>1. OrchInv => WorkflowAdmitsNode
  BY DEF OrchInv, WorkflowAdmitsNode, ControlInv, StageInv, Admits
<1>2. QED
  BY Invariance, <1>1, PTL

\* An invocation of a living process leaves its Run running only if the save that was
\* to settle it failed, and then where a resume can go on from.
THEOREM IdleRunsAlwaysSettled == Spec => []IdleRunIsSettled
<1>1. OrchInv => IdleRunIsSettled
  BY DEF OrchInv, IdleRunIsSettled, StatusInv, Agree
<1>2. QED
  BY Invariance, <1>1, PTL

\* A completed Run has a committed graph, each planned Actor has finished, and
\* the Coder's last diff is in the workspace.
THEOREM CompletedAlwaysMeansDone == Spec => []CompletedMeansDone
<1>1. OrchInv => CompletedMeansDone
  BY DEF OrchInv, CompletedMeansDone, StatusInv, WorkInv, BackedInv, Backed, Passing
<1>2. QED
  BY Invariance, <1>1, PTL

-----------------------------------------------------------------------------
(***************************************************************************)
(* The Run implements RunLifecycle                                         *)
(***************************************************************************)
LEMMA FinishedMoves ==
  ASSUME TypeOK, ControlInv, [Next]_vars
  PROVE  finished' = finished \/ \E a \in Planned : ActorDone(a)
<1>1. Works => finished' = finished \/ \E a \in Planned : ActorDone(a)
  BY DEF Works, Plan, ScheduleReadyActors, CollectActorResults, ExecuteActor, ActorFailed,
         Quiet, history
<1>2. QED
  BY <1>1, WorkMoves DEF Rests, Installs

\* A human's yes moves nothing else a lifecycle sees.
LEMMA AcceptedMoves ==
  ASSUME TypeOK, ControlInv, [Next]_vars
  PROVE  \/ accepted' = accepted
         \/ accepted' = TRUE /\ store' = store /\ finished' = finished
<1>1. CASE Handlers \/ Work
  BY <1>1, HandlersMove
<1>2. CASE Engine \/ WriteCheckpoint \/ Fault \/ Cancel \/ Crash \/ Exit \/ WallTimeExpires
           \/ UNCHANGED vars
  BY <1>2
  DEF Engine, Return, ExceedRecursionLimit, PersistFailure, CompleteRun, WriteCheckpoint,
      Fault, Cancel, Crash, Exit, Forget, WallTimeExpires, Quiet, history, vars
<1>3. CASE StartRun
  BY <1>3 DEF StartRun, Invoke, ControlInv, TypeOK, durable
<1>4. ASSUME NEW approval, ResumeRun(approval) \/ AnswerPrompt(approval)
      PROVE  \/ accepted' = accepted
             \/ accepted' = TRUE /\ store' = store /\ finished' = finished
  BY <1>4 DEF ResumeRun, AnswerPrompt, Continue, Invoke, TypeOK, durable
<1>5. QED
  BY <1>1, <1>2, <1>3, <1>4 DEF Next

\* The saved assessment changes with the policy only.
LEMMA PlanMoves ==
  ASSUME OrchInv, [Next]_vars
  PROVE  store'.saved.assessed = store.saved.assessed \/ Installs
<1> USE DEF OrchInv
<1>1. Rests => store'.saved.assessed = store.saved.assessed
  BY DEF Rests, SameWork, Agree
<1>2. Works => store'.saved.assessed = store.saved.assessed
  <2>1. Works => thread.next # "compile_policy"
    BY DEF Works, Plan, ScheduleReadyActors, CollectActorResults, ExecuteActor, ActorDone,
           ActorFailed, Acting, At
  <2>2. PolicyMoves
    BY PolicyMoved
  <2>3. Agree'
    BY RunStaysTyped
  <2>4. QED
    BY <2>1, <2>2, <2>3 DEF PolicyMoves, Agree
<1>3. QED
  BY <1>1, <1>2, WorkMoves

\* A Run whose policy is installed is held to a plan of its own.
LEMMA PlansDiffer ==
  /\ Unassessed \in Assessed
  /\ \A x \in Assessed : x.strategy = "none" /\ ~x.approval => x = Unassessed
  /\ \A x : x.strategy # "none" => PlanOf(x) # PlanOf(Unassessed)
  /\ \A x : /\ PlanOf(x).actors = RolesOf(x.strategy)
            /\ PlanOf(x).needs = DependenciesOf(RolesOf(x.strategy))
            /\ PlanOf(x).approval = x.approval
BY DEF Unassessed, Assessed, PlanOf

\* Finishing an Actor is allowed by the lifecycle.
LEMMA FinishRefines ==
  ASSUME OrchInv, NEW a \in Planned, ActorDone(a), store.status # "completed"
  PROVE  Lifecycle!FinishActor(a)
<1> USE DEF OrchInv
<1>1. /\ thread.next = "execute_actor" /\ a \in thread.ready /\ store' = store
      /\ finished' = [finished EXCEPT ![a] = @ + 1] /\ accepted' = accepted
  BY DEF ActorDone, Acting
<1>2. Planned = RolesOf(store.saved.assessed.strategy) /\ Planned \in SUBSET Actors
  BY RolesKnown DEF Agree, Planned, Strategy
<1>3. run.policy # "none" /\ (~run.assessed.approval \/ run.policy = "approved")
  BY <1>1, NodesNamed DEF PolicyInv, Fits, Compiled, Approving
<1>4. store.status # "created"
  BY <1>3 DEF StatusInv
<1>5. PlanOf(store.saved.assessed).approval => accepted
  BY <1>3, PlansDiffer DEF PolicyInv, Agree
<1>6. PlanOf(store.saved.assessed).needs[a] \subseteq {b \in Actors : finished[b] > 0}
  <2>1. \A b \in DependenciesOf(Planned)[a] : b \in Actors /\ finished[b] > 0
    BY <1>1, <1>2, DependenciesKnown DEF WorkInv, BackedInv, Backed
  <2>2. QED
    BY <2>1, <1>2, PlansDiffer
<1>7. {b \in Actors : finished'[b] > 0} = {b \in Actors : finished[b] > 0} \cup {a}
  BY <1>1, <1>2 DEF TypeOK
<1>8. QED
  BY <1>1, <1>4, <1>5, <1>6, <1>7 DEF Lifecycle!FinishActor

\* Installing the policy adopts a plan.
LEMMA InstallRefines ==
  ASSUME OrchInv, Installs, store.status # "completed"
  PROVE  \E p \in {PlanOf(x) : x \in Assessed} \ {PlanOf(Unassessed)} : Lifecycle!Adopt(p)
<1> USE DEF OrchInv
<1>1. /\ run.policy = "none" /\ thread.next = "compile_policy"
      /\ finished' = finished /\ accepted' = accepted /\ store'.status = "running"
  BY DEF Installs
<1>2. store'.saved.assessed = thread.assessed
  <2>1. PICK policy \in {"unapproved", "approved"} : run' = Install(thread.assessed, policy)
    BY DEF Installs
  <2>2. thread.assessed \in Assessed
    BY DEF TypeOK, GraphState
  <2>3. QED
    BY <2>1, <2>2, InstallTyped DEF Policies, Installs
<1>3. thread.assessed \in Assessed /\ thread.assessed.strategy # "none"
  BY <1>1 DEF TypeOK, GraphState, PolicyInv, Fits
<1>4. store.saved.assessed = Unassessed
  <2>1. run.assessed \in Assessed
    BY DEF TypeOK, AggregateOf
  <2>2. QED
    BY <2>1, <1>1, PlansDiffer DEF PolicyInv, Agree
<1>5. Lifecycle!Adopt(PlanOf(thread.assessed))
  BY <1>1, <1>2, <1>4 DEF Lifecycle!Adopt
<1>6. QED
  BY <1>3, <1>5, PlansDiffer

\* A change of the status alone is a move of the lifecycle.
LEMMA StatusRefines ==
  ASSUME OrchInv, [Next]_vars, store.status # "completed",
         store'.saved.assessed = store.saved.assessed,
         finished' = finished, accepted' = accepted
  PROVE  \/ Lifecycle!Start \/ Lifecycle!Pause \/ Lifecycle!Fail \/ Lifecycle!Complete
         \/ store'.status = store.status
<1> USE DEF OrchInv
<1>1. StatusMoves
  BY StatusMovesLegally
<1>2. store.status \in {"created", "running", "paused", "failed"}
  BY StatusesNamed DEF TypeOK, Statuses
<1>3. ASSUME store'.status = "completed" PROVE Lifecycle!Complete
  <2>1. /\ store.status = "running" /\ thread.next = "END"
        /\ thread.final = "graph_committed"
    BY <1>1, <1>2, <1>3 DEF StatusMoves, ControlInv
  <2>2. \A a \in Planned : finished[a] > 0
    BY <2>1 DEF WorkInv, BackedInv, Backed, Passing
  <2>3. {b \in Actors : finished[b] > 0} = Planned
    BY <2>2, RolesKnown DEF WorkInv, RecordInv, Planned
  <2>4. run.assessed.strategy # "none"
    BY <2>1, NodesNamed DEF PolicyInv, Fits, Compiled
  <2>5. /\ PlanOf(store.saved.assessed).actors = Planned
        /\ PlanOf(store.saved.assessed) # PlanOf(Unassessed)
    BY <2>4, PlansDiffer DEF Agree, Planned, Strategy
  <2>6. QED
    BY <1>3, <2>1, <2>3, <2>5 DEF Lifecycle!Complete, Lifecycle!Move
<1>4. store'.status = "running" =>
        Lifecycle!Start \/ store'.status = store.status
  BY <1>2 DEF Lifecycle!Start, Lifecycle!Move
<1>5. store'.status = "paused" =>
        Lifecycle!Pause \/ store'.status = store.status
  BY <1>1 DEF StatusMoves, Lifecycle!Pause, Lifecycle!Move
<1>6. store'.status = "failed" =>
        Lifecycle!Fail \/ store'.status = store.status
  BY <1>1 DEF StatusMoves, Lifecycle!Fail, Lifecycle!Move
<1>7. QED
  BY <1>1, <1>3, <1>4, <1>5, <1>6 DEF StatusMoves

\* Every step is a step of the lifecycle or none.
LEMMA StepRefines ==
  ASSUME OrchInv, [Next]_vars
  PROVE  [Lifecycle!Next]_(Lifecycle!vars)
<1> USE DEF OrchInv
<1>1. CASE store.status = "completed"
  <2>1. UNCHANGED <<store, finished, accepted>>
    BY <1>1, CompletedIsOver DEF Exit, Forget, vars, durable, history
  <2>2. QED
    BY <2>1 DEF Lifecycle!vars
<1>2. ASSUME store.status # "completed", NEW a \in Planned, ActorDone(a)
      PROVE  Lifecycle!Next
  <2>1. Lifecycle!FinishActor(a)
    BY <1>2, FinishRefines
  <2>2. a \in PlanOf(store.saved.assessed).actors
    BY PlansDiffer DEF Agree, Planned, Strategy
  <2>3. QED
    BY <2>1, <2>2 DEF Lifecycle!Next
<1>3. CASE store.status # "completed" /\ Installs
  BY <1>3, InstallRefines DEF Lifecycle!Next
<1>4. CASE store.status # "completed" /\ accepted' # accepted
  <2>1. accepted' = TRUE /\ store' = store /\ finished' = finished
    BY <1>4, AcceptedMoves
  <2>2. Lifecycle!Accept
    BY <1>4, <2>1 DEF Lifecycle!Accept
  <2>3. QED
    BY <2>2 DEF Lifecycle!Next
<1>5. CASE /\ store.status # "completed" /\ ~Installs /\ accepted' = accepted
           /\ finished' = finished
  <2>1. store'.saved.assessed = store.saved.assessed
    BY <1>5, PlanMoves
  <2>2. CASE store'.status = store.status
    BY <1>5, <2>1, <2>2 DEF Lifecycle!vars
  <2>3. CASE store'.status # store.status
    BY <1>5, <2>1, <2>3, StatusRefines DEF Lifecycle!Next
  <2>4. QED
    BY <2>2, <2>3
<1>6. QED
  BY <1>1, <1>2, <1>3, <1>4, <1>5, FinishedMoves

\* A new Run is a new lifecycle.
LEMMA InitRefines == Init => Lifecycle!Init
<1> SUFFICES ASSUME Init PROVE Lifecycle!Init
  OBVIOUS
<1>1. /\ store.status = "created" /\ store.saved.assessed = Unassessed
      /\ accepted = FALSE /\ {a \in Actors : finished[a] > 0} = {}
  BY DEF Init, NoRun, Install
<1>2. QED
  BY <1>1 DEF Lifecycle!Init

\* The Run of the control plane keeps every promise of RunLifecycle.
THEOREM LifecycleKept == Spec => KeepsLifecycle
<1>1. OrchInv /\ [Next]_vars => [Lifecycle!Next]_(Lifecycle!vars)
  BY StepRefines
<1>2. QED
  BY <1>1, InitRefines, Invariance, PTL DEF Spec, KeepsLifecycle, Lifecycle!Spec

-----------------------------------------------------------------------------
(***************************************************************************)
(* An invocation does not go on for ever                                   *)
(***************************************************************************)
CountInv ==
  /\ steps <= RecursionLimit
  /\ pc \in {"asking", "acting", "returning"} => steps < RecursionLimit

\* A handler runs below the recursion limit and hands over to something nearer
\* to the end of its superstep.
LEMMA HandlersCount ==
  ASSUME CountInv, Handlers \/ Work
  PROVE  /\ steps' = steps /\ steps < RecursionLimit
         /\ \/ pc = "node" /\ pc' \in {"asking", "acting", "returning", "raised"}
            \/ pc \in {"asking", "acting"} /\ pc' \in {"returning", "raised", "waiting"}
<1> USE DEF Returns, Raises, Quiet, At, CountInv
<1>1. CASE AssessTask \/ CompilePolicy \/ RequestApproval \/ Plan \/ ValidatePlan
           \/ ScheduleReadyActors \/ ExecutePlanner
  BY <1>1
  DEF AssessTask, CompilePolicy, RequestApproval, Plan, ValidatePlan, ScheduleReadyActors,
      ExecutePlanner
<1>2. CASE Interrupt \/ Approved \/ Rejected
  BY <1>2 DEF Interrupt, Approved, Rejected, memory
<1>3. CASE Verify \/ RepairRouter \/ FinalizeSuccess \/ FinalizeFailure \/ FinishPlanner
  BY <1>3 DEF Verify, RepairRouter, FinalizeSuccess, FinalizeFailure, FinishPlanner
<1>4. CASE CollectActorResults
  BY <1>4 DEF CollectActorResults
<1>5. ASSUME NEW a \in Planned, ExecuteActor(a) \/ ActorFailed(a) \/ ActorDone(a)
      PROVE  /\ steps' = steps /\ steps < RecursionLimit
             /\ \/ pc = "node" /\ pc' \in {"acting", "returning", "raised"}
                \/ pc = "acting" /\ pc' \in {"returning", "raised"}
  BY <1>5 DEF ExecuteActor, ActorFailed, ActorDone, Acting
<1>6. QED
  BY <1>1, <1>2, <1>3, <1>4, <1>5 DEF Handlers, Work

\* No invocation passes the recursion limit.
LEMMA CountStays ==
  ASSUME TypeOK, CountInv, [Next]_vars
  PROVE  CountInv'
<1>0. steps \in Nat /\ RecursionLimit \in Nat
  BY OrchestratorAssumption DEF TypeOK
<1>1. CASE Handlers \/ Work
  BY <1>1, HandlersCount DEF CountInv
<1>2. CASE Return
  BY <1>0, <1>2 DEF Return, CountInv
<1>3. CASE ExceedRecursionLimit \/ PersistFailure \/ CompleteRun \/ WriteCheckpoint
           \/ Fault \/ Cancel
  BY <1>3 DEF ExceedRecursionLimit, PersistFailure, CompleteRun, WriteCheckpoint, Fault,
              Cancel, Raises, Quiet, memory, CountInv
<1>4. CASE Crash \/ Exit
  BY <1>0, <1>4 DEF Crash, Exit, Forget, CountInv
<1>5. CASE WallTimeExpires \/ UNCHANGED vars
  BY <1>5 DEF WallTimeExpires, vars, memory, CountInv
<1>6. CASE StartRun
  BY <1>0, <1>6 DEF StartRun, Invoke, CountInv
<1>7. ASSUME NEW approval, ResumeRun(approval) \/ AnswerPrompt(approval) PROVE CountInv'
  BY <1>0, <1>7 DEF ResumeRun, AnswerPrompt, Continue, Invoke, CountInv
<1>8. QED
  BY <1>1, <1>2, <1>3, <1>4, <1>5, <1>6, <1>7 DEF Next, Engine

\* The supersteps that are left, and what is left of this one.
Rank == 4 * (RecursionLimit - steps) + ToDo[pc]

\* While an invocation is active its rank is a natural number.
LEMMA RankIsNatural ==
  ASSUME TypeOK, CountInv, pc \in Active
  PROVE  Rank \in Nat
<1>1. steps \in Nat /\ RecursionLimit \in Nat /\ 4 * (RecursionLimit - steps) \in Nat
  BY OrchestratorAssumption DEF TypeOK, CountInv
<1>2. ToDo[pc] \in Nat
  BY DEF Active, ToDo
<1>3. QED
  BY <1>1, <1>2 DEF Rank

\* Checkpoint and wall time weigh less than one step of the graph.
LEMMA RankDecides ==
  ASSUME NEW m \in Nat, NEW n \in Nat,
         NEW c \in {0, 1}, NEW d \in {0, 1}, NEW e \in {0, 1}, NEW f \in {0, 1},
         n < m \/ (n = m /\ c + d < e + f)
  PROVE  3 * n + c + d \in Nat /\ 3 * n + c + d < 3 * m + e + f
OBVIOUS

\* Every step of an active invocation ends it or uses something up.
LEMMA InvocationShrinks ==
  ASSUME TypeOK, TypeOK', CountInv, CountInv', Next, pc \in Active
  PROVE  \/ pc' \notin Active
         \/ StepsToGo' \in Nat /\ StepsToGo' < StepsToGo
<1> SUFFICES ASSUME pc' \in Active
             PROVE  StepsToGo' \in Nat /\ StepsToGo' < StepsToGo
  OBVIOUS
<1> DEFINE behind == IF checkpoint # thread THEN 1 ELSE 0
           early == IF run.expired THEN 0 ELSE 1
<1>0. /\ Rank \in Nat /\ steps \in Nat /\ RecursionLimit \in Nat /\ steps <= RecursionLimit
      /\ Rank' \in Nat
  <2>1. Rank \in Nat
    BY RankIsNatural
  <2>2. steps' \in Nat /\ 4 * (RecursionLimit - steps') \in Nat /\ ToDo[pc'] \in Nat
    BY OrchestratorAssumption DEF TypeOK, CountInv, Active, ToDo
  <2>3. QED
    BY <2>1, <2>2, OrchestratorAssumption DEF TypeOK, CountInv, Rank
<1>1. StepsToGo = 3 * Rank + behind + early /\ StepsToGo' = 3 * Rank' + behind' + early'
  BY DEF StepsToGo, Rank
<1>2. behind \in {0, 1} /\ behind' \in {0, 1} /\ early \in {0, 1} /\ early' \in {0, 1}
  OBVIOUS
<1>3. ASSUME Rank' < Rank PROVE StepsToGo' \in Nat /\ StepsToGo' < StepsToGo
  <2> HIDE DEF behind, early
  <2>1. QED
    BY <1>0, <1>1, <1>2, <1>3, RankDecides
<1>4. CASE Handlers \/ Work
  <2>1. steps' = steps /\ ToDo[pc'] < ToDo[pc] /\ ToDo[pc] \in Nat /\ ToDo[pc'] \in Nat
    BY <1>4, HandlersCount DEF Active, ToDo
  <2>2. QED
    BY <1>0, <1>3, <2>1 DEF Rank
<1>5. CASE Return
  <2>1. /\ steps' = steps + 1 /\ ToDo[pc] = 1 /\ ToDo[pc'] \in {1, 3}
    BY <1>5 DEF Return, ToDo
  <2>2. QED
    BY <1>0, <1>3, <2>1 DEF Rank
<1>6. CASE ExceedRecursionLimit \/ CompleteRun \/ Fault
  <2>1. steps' = steps /\ ToDo[pc] \in {1, 2, 3} /\ ToDo[pc'] = 0
    BY <1>6 DEF ExceedRecursionLimit, CompleteRun, Fault, Raises, Quiet, Active, ToDo
  <2>2. QED
    BY <1>0, <1>3, <2>1 DEF Rank
<1>7. CASE PersistFailure \/ Cancel \/ Crash \/ Exit
  BY <1>7 DEF PersistFailure, Cancel, Crash, Exit, Forget, Active
<1>8. CASE WriteCheckpoint \/ WallTimeExpires
  <2>1. Rank' = Rank
    BY <1>8 DEF WriteCheckpoint, WallTimeExpires, memory, Rank
  <2>2. behind' + early' < behind + early
    <3>1. CASE WriteCheckpoint
      BY <3>1 DEF WriteCheckpoint, memory
    <3>2. CASE WallTimeExpires
      <4>1. run'.expired = TRUE
        BY <3>2 DEF WallTimeExpires, TypeOK, AggregateOf
      <4>2. QED
        BY <3>2, <4>1 DEF WallTimeExpires, durable
    <3>3. QED
      BY <1>8, <3>1, <3>2
  <2> HIDE DEF behind, early
  <2>3. QED
    BY <1>0, <1>1, <1>2, <2>1, <2>2, RankDecides
<1>9. CASE StartRun
  BY <1>9 DEF StartRun, Active
<1>10. ASSUME NEW approval, ResumeRun(approval) \/ AnswerPrompt(approval) PROVE FALSE
  BY <1>10 DEF ResumeRun, AnswerPrompt, Active
<1>11. QED
  BY <1>4, <1>5, <1>6, <1>7, <1>8, <1>9, <1>10 DEF Next, Engine

\* The supersteps are counted in every behaviour.
LEMMA CountInvariant == Spec => []CountInv
<1>1. Init => CountInv
  BY OrchestratorAssumption DEF Init, CountInv
<1>2. OrchInv /\ CountInv /\ [Next]_vars => CountInv'
  BY CountStays DEF OrchInv
<1>3. QED
  BY <1>1, <1>2, Invariance, PTL DEF Spec

\* No invocation turns in circles, for any request, refusals of the ledger, mishaps
\* and recursion limit: every step uses up something it had.
THEOREM InvocationsRunOut == Spec => [][InvocationRunsOut]_vars
<1>1. OrchInv /\ OrchInv' /\ CountInv /\ CountInv' /\ [Next]_vars
        => [InvocationRunsOut]_vars
  BY InvocationShrinks DEF OrchInv, InvocationRunsOut
<1>2. QED
  BY <1>1, Invariance, CountInvariant, PTL DEF Spec

-----------------------------------------------------------------------------
(***************************************************************************)
(* What is to be executed is planned, in whichever store                   *)
(***************************************************************************)
\* Nodes past a plan that was saved.
PastPlan == {"validate_plan", "schedule_ready_actors", "execute_planner",
             "execute_actor", "collect_actor_results"}

InTree(r) == \A a \in Planned : r.tree[a] # "absent"

Rooted(t) ==
  /\ t.next \in PastPlan => InTree(run) /\ InTree(store.saved)
  /\ t.next = "execute_actor" => t.ready \cap Planned # {}

RootInv == Rooted(thread) /\ Rooted(checkpoint) /\ Rooted(pending)

\* Only the installation of a policy takes tasks out of the tree.
LEMMA TreeStays ==
  ASSUME OrchInv, [Next]_vars, ~Installs
  PROVE  /\ Planned' = Planned
         /\ InTree(run) /\ InTree(store.saved) => InTree(run)' /\ InTree(store.saved)'
<1> USE DEF OrchInv, WorkInv
<1>0. run \in AggregateOf(Planned)
  BY DEF TypeOK
<1>1. Rests \/ Works
  BY WorkMoves
<1>2. Planned' = Planned
  BY <1>1, RecordsRest, RecordsWork DEF Moved
<1>3. ASSUME \A a \in Planned : run.tree[a] # "absent" => run'.tree[a] # "absent",
             store'.saved \in {store.saved, run'}
      PROVE  InTree(run) /\ InTree(store.saved) => InTree(run)' /\ InTree(store.saved)'
  BY <1>2, <1>3 DEF InTree
<1>4. CASE Rests
  BY <1>2, <1>4 DEF Rests, SameWork, InTree
<1>5. CASE Plan
  <2>1. CASE UNCHANGED <<store, run>>
    BY <1>2, <2>1 DEF InTree
  <2>2. CASE Persist("running", [run EXCEPT !.tree =
               [a \in Planned |-> IF @[a] = "absent" THEN "pending" ELSE @[a]]])
    <3>0. run'.tree = [a \in Planned |-> IF run.tree[a] = "absent" THEN "pending"
                                       ELSE run.tree[a]]
      BY <1>0, <2>2 DEF Persist, AggregateOf
    <3>1. \A a \in Planned : run'.tree[a] # "absent"
      BY <3>0
    <3>2. store'.saved = run'
      BY <2>2 DEF Persist
    <3>3. QED
      BY <1>2, <1>3, <3>1, <3>2
  <2>3. QED
    BY <1>5, <2>1, <2>2 DEF Plan
<1>6. CASE ScheduleReadyActors
  <2>1. PICK blocked : run' = [run EXCEPT !.tree =
          [a \in Planned |-> IF a \in blocked /\ @[a] = "pending" THEN "blocked" ELSE @[a]]]
    BY <1>6 DEF ScheduleReadyActors
  <2>0. run'.tree = [a \in Planned |-> IF a \in blocked /\ run.tree[a] = "pending"
                                     THEN "blocked" ELSE run.tree[a]]
    BY <1>0, <2>1 DEF AggregateOf
  <2>2. \A a \in Planned : run.tree[a] # "absent" => run'.tree[a] # "absent"
    BY <2>0
  <2>3. store' = store
    BY <1>6 DEF ScheduleReadyActors
  <2>4. QED
    BY <1>2, <1>3, <2>2, <2>3
<1>7. CASE CollectActorResults
  <2>0. PICK applies : run' = IF applies = "yes" THEN [run EXCEPT !.patch = "applied"]
                             ELSE run
    BY <1>7 DEF CollectActorResults
  <2>1. run' \in {run, [run EXCEPT !.patch = "applied"]} /\ store' = store
    BY <1>7, <2>0 DEF CollectActorResults
  <2>2. run'.tree = run.tree
    BY <1>0, <2>1 DEF AggregateOf
  <2>3. QED
    BY <1>2, <1>3, <2>1, <2>2
<1>8. ASSUME NEW a \in Planned, ExecuteActor(a) \/ ActorDone(a) \/ ActorFailed(a)
      PROVE  InTree(run) /\ InTree(store.saved) => InTree(run)' /\ InTree(store.saved)'
  <2>1. store' = store
    BY <1>8 DEF ExecuteActor, ActorDone, ActorFailed
  <2>2. CASE ExecuteActor(a)
    <3>1. run' \in {run, Reserve(a), [Reserve(a) EXCEPT !.tree[a] = "running"]}
      BY <2>2 DEF ExecuteActor
    <3>2. Reserve(a).tree = run.tree /\ [Reserve(a) EXCEPT !.tree[a] = "running"].tree
                                        = [run.tree EXCEPT ![a] = "running"]
      BY <1>0 DEF Reserve, AggregateOf
    <3>3. run'.tree \in {run.tree, [run.tree EXCEPT ![a] = "running"]}
      BY <3>1, <3>2
    <3>4. QED
      BY <1>0, <1>3, <2>1, <3>3 DEF AggregateOf
  <2>3. CASE ActorDone(a) \/ ActorFailed(a)
    <3>1. run'.tree \in {[run.tree EXCEPT ![a] = "done"], [run.tree EXCEPT ![a] = "failed"]}
      <4>1. CASE ActorFailed(a)
        BY <1>0, <4>1 DEF ActorFailed, AggregateOf
      <4>2. CASE ActorDone(a)
        <5>1. PICK patch : LET r == [run EXCEPT !.tree[a] = "done", !.patch = patch]
                           IN run' \in {r, [r EXCEPT !.credited = @ \cup {a}]}
          BY <4>2 DEF ActorDone
        <5>2. QED
          BY <1>0, <5>1 DEF AggregateOf
      <4>3. QED
        BY <2>3, <4>1, <4>2
    <3>2. QED
      BY <1>0, <1>3, <2>1, <3>1 DEF AggregateOf
  <2>4. QED
    BY <1>8, <2>2, <2>3
<1>9. QED
  BY <1>1, <1>2, <1>4, <1>5, <1>6, <1>7, <1>8 DEF Works

\* The graph state a handler returns is rooted in the plan that was saved.
LEMMA UpdatesRooted ==
  ASSUME OrchInv, RootInv, Handlers \/ Work, pc' = "returning"
  PROVE  Rooted(pending)'
<1> USE DEF OrchInv, WorkInv
<1>0. thread \in GraphState /\ run \in AggregateOf(Planned) /\ Planned \subseteq Actors
  BY RolesKnown DEF TypeOK, Planned
<1>1. /\ thread.next \in Nodes /\ pending'.next \in Successors[thread.next]
      /\ [Next]_vars
  BY UpdatesTyped, HandlersMove DEF ControlInv, Next
<1>2. CASE thread.next = "plan"
  <2>1. Plan /\ pending'.next = "validate_plan"
    BY <1>1, <1>2, HandlerOfNode DEF Successors
  <2>2. Persist("running", [run EXCEPT !.tree =
               [a \in Planned |-> IF @[a] = "absent" THEN "pending" ELSE @[a]]])
    BY <2>1 DEF Plan, Raises
  <2>3. /\ run'.tree = [a \in Planned |-> IF run.tree[a] = "absent" THEN "pending"
                                         ELSE run.tree[a]]
        /\ run'.assessed = run.assessed /\ store'.saved = run'
    BY <1>0, <2>2 DEF Persist, AggregateOf
  <2>4. Planned' = Planned
    BY <2>3 DEF Planned, Strategy
  <2>5. InTree(run)' /\ InTree(store.saved)'
    BY <2>3, <2>4 DEF InTree
  <2>6. QED
    BY <2>1, <2>5 DEF Rooted
<1>3. CASE thread.next \in PastPlan
  <2>1. ~Installs
    BY <1>3 DEF Installs, PastPlan
  <2>2. /\ InTree(run)' /\ InTree(store.saved)' /\ Planned' = Planned
    BY <1>1, <1>3, <2>1, TreeStays DEF RootInv, Rooted
  <2>3. ASSUME pending'.next = "execute_actor" PROVE pending'.ready \cap Planned # {}
    <3>1. thread.next = "schedule_ready_actors"
      BY <1>1, <1>3, <2>3 DEF Successors, PastPlan
    <3>2. PICK ready, blocked :
            /\ ready = ReadyOf(blocked) /\ blocked \in SUBSET Planned
            /\ pending' = Goto([thread EXCEPT !.ready = ready, !.blocked = blocked],
                               DispatchRoute(ready))
      BY <3>1, HandlerOfNode DEF ScheduleReadyActors, Returns, ReadyOf
    <3> DEFINE t == [thread EXCEPT !.ready = ready, !.blocked = blocked]
    <3>3. ready \subseteq Planned /\ ready \in SUBSET Actors /\ blocked \in SUBSET Actors
      BY <1>0, <3>2 DEF ReadyOf
    <3>4. t \in GraphState /\ t.ready = ready
      BY <1>0, <3>3, ReadyUpdate
    <3> HIDE DEF t
    <3>5. /\ Goto(t, DispatchRoute(ready)).ready = t.ready
          /\ Goto(t, DispatchRoute(ready)).next = DispatchRoute(ready)
      BY <3>4, GotoTyped, RoutesKnown, NodesNamed DEF SameResults
    <3>6. pending' = Goto(t, DispatchRoute(ready))
      BY <3>2 DEF t
    <3>7. ready # {}
      BY <2>3, <3>5, <3>6 DEF DispatchRoute
    <3>8. QED
      BY <3>3, <3>4, <3>5, <3>6, <3>7
  <2>4. QED
    BY <2>2, <2>3 DEF Rooted
<1>4. CASE thread.next \notin PastPlan \cup {"plan"}
  <2>1. pending'.next \notin PastPlan
    BY <1>1, <1>4, NodesNamed DEF Successors, PastPlan
  <2>2. QED
    BY <2>1 DEF Rooted, PastPlan
<1>5. QED
  BY <1>2, <1>3, <1>4

\* Every step keeps the graph states rooted in the plan.
LEMMA RootStays ==
  ASSUME OrchInv, RootInv, [Next]_vars
  PROVE  RootInv'
<1> USE DEF OrchInv, WorkInv
<1>0. {thread, checkpoint, pending} \subseteq GraphState
  BY DEF TypeOK
<1> DEFINE After(t) == /\ t.next \in PastPlan => InTree(run)' /\ InTree(store.saved)'
                       /\ t.next = "execute_actor" => t.ready \cap Planned' # {}
<1>1. \A t \in {thread, checkpoint, pending} : After(t)
  <2>1. CASE Installs
    <3>1. \A t \in {thread, checkpoint, pending} : t.next \notin Compiled
      BY <2>1 DEF Installs, PolicyInv, Fits
    <3>2. PastPlan \subseteq Compiled /\ "execute_actor" \in PastPlan
      BY NodesNamed DEF PastPlan, Compiled
    <3>3. QED
      BY <3>1, <3>2
  <2>2. CASE ~Installs
    BY <2>2, TreeStays DEF RootInv, Rooted
  <2>3. QED
    BY <2>1, <2>2
<1>2. After(NoThread) /\ \A p \in BOOLEAN : After(NewThread(p))
  BY DEF NoThread, NewThread, PastPlan
<1>3. Rooted(pending)'
  <2>1. CASE (Handlers \/ Work) /\ pc' = "returning"
    BY <2>1, UpdatesRooted
  <2>2. CASE pending' \in {pending, NoThread}
    BY <2>2, <1>1, <1>2 DEF Rooted
  <2>3. QED
    BY <2>1, <2>2, ThreadsMove, HandlersMove
<1>4. Rooted(checkpoint)'
  <2>1. checkpoint' \in {checkpoint, thread}
    BY ThreadsMove
  <2>2. QED
    BY <1>1, <2>1 DEF Rooted
<1>5. Rooted(thread)'
  <2>1. CASE Return
    <3>1. StageOf[thread.next] \in DOMAIN Allowed
      BY <2>1, NodesNamed DEF Return, ControlInv, StageOf, Allowed
    <3> DEFINE x == StageOf[thread.next]
               t == [pending EXCEPT !.stage = x]
    <3>2. t.next = pending.next /\ SameResults(t, pending) /\ SameChoices(t, pending)
      BY <3>1, <1>0, StageUpdate
    <3>3. thread' = t
      BY <2>1 DEF Return
    <3>4. t.ready = pending.ready
      BY <1>0 DEF GraphState
    <3> HIDE DEF t
    <3>5. QED
      BY <1>1, <3>2, <3>3, <3>4 DEF Rooted
  <2>2. CASE ~Return
    <3>1. thread' \in {thread, checkpoint, NewThread(TRUE), NewThread(FALSE)}
      BY <2>2, ThreadsMove
    <3>2. QED
      BY <1>1, <1>2, <3>1 DEF Rooted
  <2>3. QED
    BY <2>1, <2>2
<1>6. QED
  BY <1>3, <1>4, <1>5 DEF RootInv

\* They are rooted in every behaviour.
LEMMA RootInvariant == Spec => []RootInv
<1>1. Init => RootInv
  BY DEF Init, RootInv, Rooted, NoThread, NewThread, PastPlan
<1>2. OrchInv /\ RootInv /\ [Next]_vars => RootInv'
  BY RootStays
<1>3. QED
  BY <1>1, <1>2, Invariance, PTL DEF Spec

\* A graph that executes an Actor has one, with a task in the tree, for any request,
\* deaths and resumes, although position and tree come from two stores.
THEOREM InvocationsGoOn == Spec => []InvocationGoesOn
<1>1. OrchInv /\ RootInv => InvocationGoesOn
  <2> SUFFICES ASSUME OrchInv, RootInv PROVE InvocationGoesOn
    OBVIOUS
  <2>1. /\ pc = "node" => thread.next \in Nodes
        /\ pc = "acting" => thread.next \in {"execute_planner", "execute_actor"}
    BY DEF OrchInv, ControlInv
  <2>2. thread.next = "execute_actor" => \E a \in thread.ready \cap Planned : run.tree[a] # "absent"
    BY DEF RootInv, Rooted, InTree, PastPlan
  <2>3. QED
    BY <2>1, <2>2 DEF InvocationGoesOn
<1>2. QED
  BY <1>1, Invariance, RootInvariant, PTL

\* So whatever mishaps and refusals it meets, an invocation only ever comes nearer
\* to its end.
THEOREM InvocationsAdvance == Spec => InvocationAdvances
BY InvocationsRunOut, InvocationsGoOn, PTL DEF InvocationAdvances
=============================================================================
