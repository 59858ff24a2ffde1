--------------------------- MODULE DelegateProofs ---------------------------
(***************************************************************************)
(* Delegate for any tasks, roles, acyclic dependencies, strategy, limits   *)
(* and number of calls: what a batch promises holds through failures at    *)
(* any step of its Actors, interrupts and calls that end half way.         *)
(*                                                                         *)
(* The invariant follows one execution (Sound: what its gates left, how     *)
(* often it repaired), the phases and worktrees of a call (WorkInv), its   *)
(* records (RecordInv), the order that the policy asked of the batch in    *)
(* its rounds (BatchInv) and the slots that pay for its work (SlotInv).    *)
(***************************************************************************)
EXTENDS Delegate, FiniteSetTheorems, TLAPS

\* One execution: repairs are paid for by new failures, and what comes after the
\* last passing report changes nothing.
Sound(t, a) ==
  /\ IsFiniteSet(a.seen)
  /\ a.tried <= RepairLimit /\ a.tried <= Cardinality(a.seen)
  /\ a.at = "claiming" => a.tried < RepairLimit /\ a.tried < Cardinality(a.seen)
  /\ RoleOf[t] = "coder" /\ Gates /\ a.status = "done" =>
       /\ a.at \in {"extracting", "cleanup", "result"} => a.passed = a.version
       /\ a.at \in {"cleanup", "result"} => a.diff \in {NoVersion, a.passed}

SoundInv == repairs <= MaxRepairs /\ \A t \in Tasks : Sound(t, actor[t])

-----------------------------------------------------------------------------
(***************************************************************************)
(* The types of what a step writes                                         *)
(***************************************************************************)
Statuses == {"none", "done", "failed", "cancelled"}

LEMMA IdleType == Idle \in Execution
  BY DEF Idle, Execution, Phases, NoVersion

LEMMA EndsType ==
  ASSUME NEW t, NEW s \in Statuses, NEW i \in BOOLEAN, NEW p \in Phases
  PROVE  Ends(t, s, i, p) \in Execution
  BY DEF Ends, Idle, Execution, Phases, NoVersion, Statuses

LEMMA FreshType ==
  ASSUME NEW i \in BOOLEAN, NEW p \in Phases, NEW s \in Statuses
  PROVE  /\ [Idle EXCEPT !.at = p, !.status = s, !.infra = i] \in Execution
         /\ [Idle EXCEPT !.at = p, !.status = s] \in Execution
  BY DEF Idle, Execution, Phases, NoVersion, Statuses

\* An edit is a new version; nothing else of the execution changes.
LEMMA EditedType ==
  ASSUME NEW t \in Tasks, actor[t] \in Execution
  PROVE  /\ Edited(t) \in Execution
         /\ Edited(t).seen = actor[t].seen /\ Edited(t).tried = actor[t].tried
         /\ Edited(t).status = actor[t].status
         /\ Edited(t).version = actor[t].version + 1 /\ actor[t].version + 1 \in Nat
<1>1. actor[t].version + 1 \in Nat
  BY DEF Execution
<1>2. QED
  BY <1>1 DEF Edited, Execution

LEMMA LimitType == RepairLimit \in Nat
  BY ExecutorAssumption DEF RepairLimit

\* An execution that ends without a diff has nothing to be asked for.
LEMMA EndsSound ==
  ASSUME NEW t \in Tasks, NEW s \in {"failed", "cancelled"}, NEW i \in BOOLEAN,
         NEW p \in {"cleanup", "result"}
  PROVE  Sound(t, Ends(t, s, i, p))
<1>1. IsFiniteSet({}) /\ Cardinality({}) = 0
  BY FS_EmptySet
<1>2. 0 <= RepairLimit
  BY LimitType
<1>3. /\ Ends(t, s, i, p).seen = {} /\ Ends(t, s, i, p).tried = 0
      /\ Ends(t, s, i, p).status = s /\ Ends(t, s, i, p).at = p
  BY DEF Ends, Idle
<1>4. QED
  BY <1>1, <1>2, <1>3 DEF Sound

LEMMA FreshSound ==
  ASSUME NEW t \in Tasks
  PROVE  /\ Sound(t, Idle)
         /\ Sound(t, [Idle EXCEPT !.at = "result", !.status = "failed"])
<1> DEFINE a == [Idle EXCEPT !.at = "result", !.status = "failed"]
<1>1. IsFiniteSet({}) /\ Cardinality({}) = 0
  BY FS_EmptySet
<1>2. 0 <= RepairLimit
  BY LimitType
<1>3. /\ a.seen = {} /\ a.tried = 0 /\ a.status = "failed" /\ a.at = "result"
      /\ Idle.seen = {} /\ Idle.tried = 0 /\ Idle.status = "none" /\ Idle.at = "off"
  BY DEF Idle
<1>4. QED
  BY <1>1, <1>2, <1>3 DEF Sound

LEMMA IdleSound ==
  ASSUME NEW t \in Tasks, NEW p \in {"off", "startup"}
  PROVE  Sound(t, [Idle EXCEPT !.at = p])
<1>1. IsFiniteSet({}) /\ Cardinality({}) = 0
  BY FS_EmptySet
<1>2. 0 <= RepairLimit
  BY LimitType
<1>3. /\ [Idle EXCEPT !.at = p].seen = {} /\ [Idle EXCEPT !.at = p].tried = 0
      /\ [Idle EXCEPT !.at = p].status = "none" /\ [Idle EXCEPT !.at = p].at = p
  BY DEF Idle
<1>4. QED
  BY <1>1, <1>2, <1>3 DEF Sound

-----------------------------------------------------------------------------
(***************************************************************************)
(* The executions                                                          *)
(***************************************************************************)
\* What one step of an execution makes of it.
Advances(t, a) ==
  /\ actor' = [actor EXCEPT ![t] = a]
  /\ a \in Execution /\ Sound(t, a)
  /\ a.at # "off"
  /\ IF a.at = "result" THEN worktree' = [worktree EXCEPT ![t] = "closed"]
     ELSE UNCHANGED worktree

\* A record that keeps what was seen and tried, in a phase that asks no more.
LEMMA MovesSound ==
  ASSUME NEW t \in Tasks, NEW a \in Execution, NEW b \in Execution, Sound(t, a),
         b.seen = a.seen, b.tried = a.tried, b.at # "claiming",
         \/ b.status # "done"
         \/ b.at \notin {"extracting", "cleanup", "result"}
         \/ ~(RoleOf[t] = "coder" /\ Gates)
  PROVE  Sound(t, b)
  BY DEF Sound

LEMMA ExecutorStepAdvances ==
  ASSUME ExecutorTypeOK, SoundInv, NEW t \in Tasks, ExecutorStep(t)
  PROVE  /\ actor[t].at \notin {"off", "result"}
         /\ \E a \in Execution : Advances(t, a)
         /\ repairs' \in Nat /\ repairs' <= MaxRepairs /\ late' = late
<1> DEFINE Goal == /\ actor[t].at \notin {"off", "result"}
                   /\ \E a \in Execution : Advances(t, a)
                   /\ repairs' \in Nat /\ repairs' <= MaxRepairs /\ late' = late
<1>0. /\ actor[t] \in Execution /\ Sound(t, actor[t])
      /\ repairs \in Nat /\ repairs <= MaxRepairs
  BY DEF ExecutorTypeOK, SoundInv
<1>1. ASSUME NEW i \in BOOLEAN, Becomes(t, Ends(t, "failed", i, "cleanup")),
             UNCHANGED worktree
      PROVE  \E a \in Execution : Advances(t, a)
  <2>1. Ends(t, "failed", i, "cleanup") \in Execution
    BY EndsType DEF Statuses, Phases
  <2>2. Sound(t, Ends(t, "failed", i, "cleanup"))
    BY EndsSound
  <2>3. Ends(t, "failed", i, "cleanup").at = "cleanup"
    BY DEF Ends, Idle
  <2>4. QED
    BY <1>1, <2>1, <2>2, <2>3 DEF Advances, Becomes
<1>2. CASE Startup(t)
  <2>1. CASE Becomes(t, [actor[t] EXCEPT !.at = "acting"])
    <3> DEFINE a == [actor[t] EXCEPT !.at = "acting"]
    <3>1. /\ a \in Execution /\ a.at = "acting"
          /\ a.seen = actor[t].seen /\ a.tried = actor[t].tried
      BY <1>0 DEF Execution, Phases
    <3>2. Sound(t, a)
      BY <1>0, <3>1, MovesSound
    <3>3. Advances(t, a)
      BY <1>2, <2>1, <3>1, <3>2 DEF Startup, Becomes, Advances
    <3>4. QED
      BY <1>0, <1>2, <3>1, <3>3 DEF Startup, At
  <2>2. CASE Becomes(t, Ends(t, "failed", TRUE, "cleanup"))
    BY <1>0, <1>1, <1>2, <2>2 DEF Startup, At
  <2>3. QED
    BY <1>2, <2>1, <2>2 DEF Startup
<1>3. CASE FinishLoop(t)
  <2>1. ASSUME NEW p \in {"verifying", "extracting"}, NEW s \in {"done", "failed"},
               NEW i \in BOOLEAN,
               s = "done" /\ p = "extracting" => ~(RoleOf[t] = "coder" /\ Gates),
               Becomes(t, [Edited(t) EXCEPT !.at = p, !.status = s, !.infra = i])
        PROVE  Goal
    <3> DEFINE a == [Edited(t) EXCEPT !.at = p, !.status = s, !.infra = i]
    <3>1. /\ a \in Execution /\ a.at = p /\ a.status = s
          /\ a.seen = actor[t].seen /\ a.tried = actor[t].tried
      <4>1. p \in Phases /\ s \in {"none", "done", "failed", "cancelled"}
        BY DEF Phases
      <4>2. QED
        BY <1>0, <4>1, EditedType DEF Execution
    <3>2. Sound(t, a)
      BY <1>0, <2>1, <3>1, MovesSound
    <3>3. Advances(t, a)
      BY <1>3, <2>1, <3>1, <3>2 DEF FinishLoop, Becomes, Advances
    <3>4. QED
      BY <1>0, <1>3, <3>1, <3>3 DEF FinishLoop, At
  <2>2. CASE Becomes(t, [Edited(t) EXCEPT !.at =
               IF RoleOf[t] = "coder" /\ Gates THEN "verifying" ELSE "extracting",
               !.status = "done"])
    <3> DEFINE p == IF RoleOf[t] = "coder" /\ Gates THEN "verifying" ELSE "extracting"
    <3>1. [Edited(t) EXCEPT !.at = p, !.status = "done"]
            = [Edited(t) EXCEPT !.at = p, !.status = "done", !.infra = actor[t].infra]
      BY <1>0 DEF Edited, Execution
    <3>2. actor[t].infra \in BOOLEAN
      BY <1>0 DEF Execution
    <3>3. QED
      BY <2>1, <2>2, <3>1, <3>2
  <2>3. ASSUME NEW i \in BOOLEAN, Becomes(t, Ends(t, "failed", i, "cleanup")) PROVE Goal
    BY <1>0, <1>1, <1>3, <2>3 DEF FinishLoop, At
  <2>4. QED
    BY <1>3, <2>1, <2>2, <2>3 DEF FinishLoop
<1>4. CASE GatesPass(t)
  <2> DEFINE a == [Edited(t) EXCEPT !.at = "extracting", !.passed = actor[t].version + 1]
  <2>1. /\ a \in Execution /\ a.at = "extracting" /\ a.passed = a.version
        /\ a.seen = actor[t].seen /\ a.tried = actor[t].tried
    BY <1>0, EditedType DEF Execution, Phases
  <2>2. Sound(t, a)
    BY <1>0, <2>1 DEF Sound
  <2>3. Advances(t, a)
    BY <1>4, <2>1, <2>2 DEF GatesPass, Becomes, Advances
  <2>4. QED
    BY <1>0, <1>4, <2>1, <2>3 DEF GatesPass, At
<1>5. ASSUME NEW f \in Fingerprints, GatesFail(t, f) PROVE Goal
  <2>1. CASE f \notin actor[t].seen /\ actor[t].tried < RepairLimit
    <3> DEFINE a == [Edited(t) EXCEPT !.at = "claiming", !.seen = @ \cup {f}]
    <3>1. /\ a \in Execution /\ a.at = "claiming"
          /\ a.seen = actor[t].seen \cup {f} /\ a.tried = actor[t].tried
      BY <1>0, EditedType DEF Execution, Phases
    <3>2. /\ IsFiniteSet(a.seen)
          /\ Cardinality(a.seen) = Cardinality(actor[t].seen) + 1
          /\ Cardinality(actor[t].seen) \in Nat /\ actor[t].tried \in Nat
      BY <1>0, <2>1, <3>1, FS_AddElement, FS_CardinalityType DEF Sound, Execution
    <3>3. Sound(t, a)
      BY <1>0, <2>1, <3>1, <3>2, LimitType DEF Sound
    <3>4. Advances(t, a)
      BY <1>5, <2>1, <3>1, <3>3 DEF GatesFail, Becomes, Advances
    <3>5. QED
      BY <1>0, <1>5, <3>1, <3>4 DEF GatesFail, At
  <2>2. CASE ~(f \notin actor[t].seen /\ actor[t].tried < RepairLimit)
    BY <1>0, <1>1, <1>5, <2>2 DEF GatesFail, At
  <2>3. QED
    BY <2>1, <2>2
<1>6. CASE GatesRaise(t)
  BY <1>0, <1>1, <1>6 DEF GatesRaise, At
<1>7. CASE ClaimRepair(t)
  <2>1. CASE ~late /\ repairs < MaxRepairs
    <3> DEFINE a == [actor[t] EXCEPT !.at = "repairing", !.tried = @ + 1]
    <3>1. /\ a \in Execution /\ a.at = "repairing"
          /\ a.seen = actor[t].seen /\ a.tried = actor[t].tried + 1
      <4>1. actor[t].tried + 1 \in Nat /\ "repairing" \in Phases
        BY <1>0 DEF Execution, Phases
      <4>2. QED
        BY <1>0, <4>1 DEF Execution
    <3>2. Cardinality(a.seen) \in Nat /\ actor[t].tried \in Nat
      BY <1>0, <3>1, FS_CardinalityType DEF Sound, Execution
    <3>3. Sound(t, a)
      BY <1>0, <1>7, <3>1, <3>2, LimitType DEF Sound, ClaimRepair, At
    <3>4. Advances(t, a)
      BY <1>7, <2>1, <3>1, <3>3 DEF ClaimRepair, Becomes, Advances
    <3>5. repairs' = repairs + 1 /\ repairs' <= MaxRepairs
      BY <1>0, <1>7, <2>1, ExecutorAssumption DEF ClaimRepair
    <3>6. QED
      BY <1>0, <1>7, <3>1, <3>4, <3>5 DEF ClaimRepair, At
  <2>2. CASE ~(~late /\ repairs < MaxRepairs)
    BY <1>0, <1>1, <1>7, <2>2 DEF ClaimRepair, At
  <2>3. QED
    BY <2>1, <2>2
<1>8. CASE FinishRepair(t)
  <2>1. CASE Becomes(t, [Edited(t) EXCEPT !.at = "verifying"])
    <3> DEFINE a == [Edited(t) EXCEPT !.at = "verifying"]
    <3>1. /\ a \in Execution /\ a.at = "verifying"
          /\ a.seen = actor[t].seen /\ a.tried = actor[t].tried
      BY <1>0, EditedType DEF Execution, Phases
    <3>2. Sound(t, a)
      BY <1>0, <3>1, MovesSound
    <3>3. Advances(t, a)
      BY <1>8, <2>1, <3>1, <3>2 DEF FinishRepair, Becomes, Advances
    <3>4. QED
      BY <1>0, <1>8, <3>1, <3>3 DEF FinishRepair, At
  <2>2. ASSUME NEW i \in BOOLEAN, Becomes(t, Ends(t, "failed", i, "cleanup")) PROVE Goal
    BY <1>0, <1>1, <1>8, <2>2 DEF FinishRepair, At
  <2>3. QED
    BY <1>8, <2>1, <2>2 DEF FinishRepair
<1>9. CASE Extract(t)
  <2>1. PICK v \in {NoVersion, actor[t].version} :
          Becomes(t, [actor[t] EXCEPT !.at = "cleanup", !.diff = v])
    BY <1>9 DEF Extract
  <2> DEFINE a == [actor[t] EXCEPT !.at = "cleanup", !.diff = v]
  <2>2. /\ a \in Execution /\ a.at = "cleanup" /\ a.status = actor[t].status
        /\ a.passed = actor[t].passed /\ a.version = actor[t].version /\ a.diff = v
        /\ a.seen = actor[t].seen /\ a.tried = actor[t].tried
    <3>1. v \in Nat /\ "cleanup" \in Phases
      BY <1>0 DEF Execution, Phases, NoVersion
    <3>2. QED
      BY <1>0, <3>1 DEF Execution
  <2>3. Sound(t, a)
    BY <1>0, <1>9, <2>2 DEF Sound, Extract, At
  <2>4. Advances(t, a)
    BY <1>9, <2>1, <2>2, <2>3 DEF Extract, Becomes, Advances
  <2>5. QED
    BY <1>0, <1>9, <2>2, <2>4 DEF Extract, At
<1>10. CASE CleanUp(t)
  <2> DEFINE a == [actor[t] EXCEPT !.at = "result"]
  <2>1. /\ a \in Execution /\ a.at = "result" /\ a.status = actor[t].status
        /\ a.passed = actor[t].passed /\ a.version = actor[t].version
        /\ a.diff = actor[t].diff
        /\ a.seen = actor[t].seen /\ a.tried = actor[t].tried
    BY <1>0 DEF Execution, Phases
  <2>2. Sound(t, a)
    BY <1>0, <1>10, <2>1 DEF Sound, CleanUp, At
  <2>3. worktree' = [worktree EXCEPT ![t] = "closed"]
    BY <1>10 DEF CleanUp
  <2>4. Advances(t, a)
    BY <1>10, <2>1, <2>2, <2>3 DEF CleanUp, Becomes, Advances
  <2>5. QED
    BY <1>0, <1>10, <2>1, <2>4 DEF CleanUp, At
<1>11. QED
  BY <1>2, <1>3, <1>4, <1>5, <1>6, <1>7, <1>8, <1>9, <1>10 DEF ExecutorStep

\* Where the set-up of an execution leaves its worktree.
Placed(t, a) ==
  /\ a.at # "off" /\ (a.at = "result" => a.status = "failed")
  /\ worktree' = [worktree EXCEPT ![t] = IF a.at = "result" THEN "left" ELSE "live"]

LEMMA SetupAdvances ==
  ASSUME ExecutorTypeOK, NEW t \in Tasks, Setup(t)
  PROVE  /\ \E a \in Execution :
              /\ actor' = [actor EXCEPT ![t] = a] /\ Sound(t, a)
              /\ Placed(t, a)
         /\ worktree' \in {[worktree EXCEPT ![t] = w] : w \in {"live", "left"}}
         /\ repairs' = repairs /\ late' = late
<1> DEFINE Goal == \E a \in Execution :
                     /\ actor' = [actor EXCEPT ![t] = a] /\ Sound(t, a)
                     /\ Placed(t, a)
<1>1. ASSUME NEW p \in {"cleanup", "result"},
             Becomes(t, [Idle EXCEPT !.at = p, !.status = "failed", !.infra = TRUE]),
             worktree' = [worktree EXCEPT ![t] = IF p = "result" THEN "left" ELSE "live"]
      PROVE  Goal
  <2> DEFINE a == [Idle EXCEPT !.at = p, !.status = "failed", !.infra = TRUE]
  <2>1. a \in Execution /\ a.at = p /\ a.status = "failed"
    BY FreshType DEF Phases, Statuses, Idle
  <2>2. a = Ends(t, "failed", TRUE, p)
    BY DEF Ends, Idle
  <2>3. Sound(t, a)
    BY <2>2, EndsSound
  <2>4. QED
    BY <1>1, <2>1, <2>3 DEF Becomes, Placed
<1>2. ASSUME Becomes(t, [Idle EXCEPT !.at = "startup"]),
             worktree' = [worktree EXCEPT ![t] = "live"]
      PROVE Goal
  <2> DEFINE a == [Idle EXCEPT !.at = "startup"]
  <2>1. a \in Execution /\ a.at = "startup"
    BY DEF Phases, Idle, Execution, NoVersion
  <2>2. Sound(t, a)
    BY IdleSound
  <2>3. QED
    BY <1>2, <2>1, <2>2 DEF Becomes, Placed
<1>3. Goal
  BY <1>1, <1>2 DEF Setup
<1>4. QED
  BY <1>3 DEF Setup

-----------------------------------------------------------------------------
(***************************************************************************)
(* Types                                                                   *)
(***************************************************************************)
LEMMA NoCallType ==
  ASSUME NEW s \in {"refused", "raised", "cancelled"}
  PROVE  NoCall \in DelegateCalls /\ [NoCall EXCEPT !.state = s] \in DelegateCalls
  BY DEF NoCall, DelegateCalls

LEMMA CallFields ==
  ASSUME NEW c \in DelegateCalls
  PROVE  /\ c.specs \in SUBSET Tasks /\ c.remaining \in SUBSET Tasks
         /\ c.ready \in SUBSET Tasks /\ c.completed \in SUBSET Tasks
         /\ c.failed \in SUBSET Tasks
  BY DEF DelegateCalls

LEMMA StatusDomain ==
  DOMAIN ValidTransitions = {"pending", "running", "verifying", "done", "failed", "blocked"}
  BY DEF ValidTransitions

LEMMA TypeStep == TypeOK /\ SoundInv /\ [Next]_vars => TypeOK'
<1> SUFFICES ASSUME TypeOK, SoundInv, [Next]_vars PROVE TypeOK'
  OBVIOUS
<1> USE DEF TypeOK, ExecutorTypeOK, executorVars, delegateVars
<1>0. /\ \A t \in Tasks : tree[t] \in Node
      /\ \A t \in Tasks : actor[t] \in Execution
  OBVIOUS
<1>1. ASSUME NEW t \in Tasks, AddTask(t) PROVE TypeOK'
  <2>1. [tree[t] EXCEPT !.status = "pending"] \in Node
    BY <1>0, StatusDomain DEF Node
  <2>2. tree' \in [Tasks -> Node]
    BY <1>1, <2>1 DEF AddTask
  <2>3. QED
    BY <1>1, <2>2 DEF AddTask
<1>2. ASSUME NEW t \in Tasks, AddSummary(t) PROVE TypeOK'
  <2> DEFINE s == IF MayBecome(t, "done") THEN "done" ELSE tree[t].status
  <2>1. tree[t].status \in DOMAIN ValidTransitions
    BY <1>0, <1>2 DEF AddSummary, Node
  <2>2. [tree[t] EXCEPT !.summary = "planner", !.status = s] \in Node
    BY <1>0, <2>1, StatusDomain DEF Node
  <2>3. tree' = [tree EXCEPT ![t] = [tree[t] EXCEPT !.summary = "planner", !.status = s]]
    BY <1>0, <1>2 DEF AddSummary, Node
  <2>4. QED
    BY <1>2, <2>2, <2>3 DEF AddSummary, PlannerCall
<1>3. ASSUME NEW t \in Tasks, NEW s \in {"running", "done", "failed", "blocked"},
             UpdateTask(t, s)
      PROVE TypeOK'
  <2>1. [tree[t] EXCEPT !.status = s] \in Node
    BY <1>0, StatusDomain DEF Node
  <2>2. tree' \in [Tasks -> Node]
    BY <1>3, <2>1 DEF UpdateTask
  <2>3. QED
    BY <1>3, <2>2 DEF UpdateTask, PlannerCall
<1>4. ASSUME NEW batch \in SUBSET Tasks, Delegate(batch) PROVE TypeOK'
  <2>1. \A t \in Tasks : Hand(t) \in Node
    BY <1>0, StatusDomain DEF Hand, Node
  <2>2. tree' \in [Tasks -> Node]
    BY <1>4, <2>1 DEF Delegate
  <2>3. call' \in DelegateCalls
    <3>1. [NoCall EXCEPT !.state = "running", !.specs = batch, !.remaining = batch]
            \in DelegateCalls
      BY DEF NoCall, DelegateCalls
    <3>2. QED
      BY <1>4, <3>1, NoCallType DEF Delegate
  <2>4. ledger' \in Ledgers
    <3>1. IsFiniteSet(batch)
      BY ExecutorAssumption, FS_Subset
    <3>2. \A r : OfRole(batch, r) \subseteq batch
      BY DEF OfRole
    <3>3. /\ Cardinality(batch) \in Nat
          /\ \A r \in Roles : Cardinality(OfRole(batch, r)) \in Nat
      BY <3>1, <3>2, FS_Subset, FS_CardinalityType
    <3>4. /\ ledger.attempts + Cardinality(batch) \in Nat
          /\ [r \in Roles |-> ledger.slots[r] + Cardinality(OfRole(batch, r))]
               \in [Roles -> Nat]
      BY <3>3 DEF Ledgers
    <3>5. Reserve(batch) => ledger' \in Ledgers
      BY <3>4 DEF Reserve, Ledgers
    <3>6. QED
      BY <1>4, <3>5 DEF Delegate
  <2>5. QED
    BY <1>4, <2>2, <2>3, <2>4 DEF Delegate, PlannerCall
<1>5. CASE BeginRound
  <2>1. \A t \in Tasks : [tree[t] EXCEPT !.status = "blocked"] \in Node
    BY <1>0, StatusDomain DEF Node
  <2>2. tree' \in [Tasks -> Node]
    BY <1>5, <2>1 DEF BeginRound
  <2>3. Ready \in SUBSET Tasks /\ call.remaining \ Blocked \in SUBSET Tasks
    BY CallFields DEF Ready
  <2>4. call' \in DelegateCalls
    BY <1>5, <2>3 DEF BeginRound, DelegateCalls
  <2>5. QED
    BY <1>5, <2>2, <2>4 DEF BeginRound
<1>6. CASE EndCancelled
  BY <1>6, IdleType, NoCallType DEF EndCancelled
<1>7. ASSUME NEW t \in Tasks, StartActor(t) PROVE TypeOK'
  <2>1. call' \in DelegateCalls
    BY <1>7 DEF StartActor, DelegateCalls
  <2>2. Setup(t)
    BY <1>7 DEF StartActor
  <2>3. QED
    BY <1>7, <2>1, <2>2, SetupAdvances DEF StartActor
<1>8. ASSUME NEW t \in Tasks, NoDescription(t) PROVE TypeOK'
  <2>1. call' \in DelegateCalls
    BY <1>8 DEF NoDescription, DelegateCalls
  <2>2. [Idle EXCEPT !.at = "result", !.status = "failed"] \in Execution
    BY DEF Idle, Execution, Phases, NoVersion
  <2>3. QED
    BY <1>8, <2>1, <2>2 DEF NoDescription, Becomes
<1>9. ASSUME NEW t \in Tasks, RecordResult(t), actor[t].status \in {"done", "failed"}
      PROVE  tree' \in [Tasks -> Node]
  <2>1. actor[t].infra \in BOOLEAN
    BY <1>0 DEF Execution
  <2>2. [tree[t] EXCEPT !.status = actor[t].status, !.summary = "actor",
                        !.infra = actor[t].infra] \in Node
    BY <1>0, <1>9, <2>1, StatusDomain DEF Node
  <2>3. tree' = [tree EXCEPT ![t] = [tree[t] EXCEPT !.status = actor[t].status,
                   !.summary = "actor", !.infra = actor[t].infra]]
    BY <1>0, <1>9 DEF RecordResult, Node
  <2>4. QED
    BY <2>2, <2>3
<1>10. ASSUME NEW t \in Tasks, RecordDone(t) PROVE TypeOK'
  <2>1. tree' \in [Tasks -> Node]
    BY <1>9, <1>10 DEF RecordDone
  <2>2. CASE late
    BY <1>10, <2>1, <2>2, NoCallType, IdleType DEF RecordDone
  <2>3. CASE ~late
    <3>1. RoleOf[t] \in Roles
      BY ExecutorAssumption
    <3>2. ledger' \in Ledgers
      BY <1>10, <2>3, <3>1 DEF RecordDone, Ledgers
    <3>3. call' \in DelegateCalls
      <4>1. call' = [call EXCEPT !.completed = @ \cup {t}, !.remaining = @ \ {t}]
        BY <1>10, <2>3 DEF RecordDone
      <4>2. QED
        BY <4>1 DEF DelegateCalls
    <3>4. QED
      BY <1>10, <2>1, <2>3, <3>2, <3>3, IdleType DEF RecordDone, Clear, Becomes
  <2>4. QED
    BY <2>2, <2>3
<1>11. ASSUME NEW t \in Tasks, RecordFailed(t) PROVE TypeOK'
  <2>1. tree' \in [Tasks -> Node]
    BY <1>9, <1>11 DEF RecordFailed
  <2>2. ledger' \in Ledgers
    <3>1. RoleOf[t] \in Roles
      BY ExecutorAssumption
    <3>2. \A n \in Nat : n > 0 => n - 1 \in Nat
      OBVIOUS
    <3>3. ledger.slots \in [Roles -> Nat]
      BY DEF Ledgers
    <3>4. PICK n \in Nat : ledger' = [ledger EXCEPT !.slots[RoleOf[t]] = n]
      BY <1>11, <3>1, <3>2, <3>3 DEF RecordFailed, Release
    <3>5. QED
      BY <3>1, <3>4 DEF Ledgers
  <2>3. call' \in DelegateCalls
    BY <1>11 DEF RecordFailed, DelegateCalls
  <2>4. QED
    BY <1>11, <2>1, <2>2, <2>3, IdleType DEF RecordFailed, Clear, Becomes
<1>12. CASE Interrupt
  <2>1. \A t \in Tasks : Cancelled(t) \in Execution
    BY <1>0, EndsType DEF Cancelled, Statuses, Phases
  <2>2. call' \in DelegateCalls
    BY <1>12 DEF Interrupt, DelegateCalls
  <2>3. QED
    BY <1>12, <2>1, <2>2 DEF Interrupt
<1>13. ASSUME NEW t \in Tasks, Executor(t) PROVE TypeOK'
  <2>1. /\ \E a \in Execution : Advances(t, a)
        /\ repairs' \in Nat /\ late' = late
    BY <1>13, ExecutorStepAdvances DEF Executor
  <2>2. QED
    BY <1>13, <2>1 DEF Executor, Advances
<1>14. CASE WallTimeEnds /\ UNCHANGED delegateVars
  BY <1>14 DEF WallTimeEnds
<1>15. CASE UNCHANGED vars
  BY <1>15 DEF vars
<1>16. QED
  BY <1>1, <1>2, <1>3, <1>4, <1>5, <1>6, <1>7, <1>8, <1>10, <1>11, <1>12, <1>13, <1>14, <1>15
    DEF Next, Scheduler

-----------------------------------------------------------------------------
(***************************************************************************)
(* Executions stay sound, whatever call they belong to                     *)
(***************************************************************************)
\* Only the executions of a call in progress are anywhere, and only what is at
\* work has its worktree.
WorkInv ==
  /\ Idling => \A t \in Tasks : actor[t].at = "off"
  /\ call.state # "running" => call.ready = {}
  /\ \A t \in call.ready : actor[t].at = "off"
  /\ CleanUpNeverSkipped

\* What is at work or waits to be is on record as running.
RecordInv ==
  /\ call.ready \subseteq call.remaining
  /\ \A t \in Tasks : actor[t].at # "off" => tree[t].status = "running"
  /\ call.state = "running" => \A t \in call.remaining : tree[t].status = "running"

LEMMA SoundStep == TypeOK /\ SoundInv /\ WorkInv /\ [Next]_vars => SoundInv'
<1> SUFFICES ASSUME TypeOK, SoundInv, WorkInv, [Next]_vars PROVE SoundInv'
  OBVIOUS
<1> USE DEF executorVars, delegateVars
<1>0. actor \in [Tasks -> Execution] /\ ExecutorTypeOK
  BY DEF TypeOK, ExecutorTypeOK
<1>1. ASSUME UNCHANGED <<actor, repairs>> PROVE SoundInv'
  BY <1>1 DEF SoundInv
<1>2. ASSUME NEW t \in Tasks, NEW a \in Execution,
             actor' = [actor EXCEPT ![t] = a], Sound(t, a), repairs' <= MaxRepairs
      PROVE  SoundInv'
  BY <1>0, <1>2 DEF SoundInv
<1>3. \A t \in Tasks : Sound(t, Idle)
  BY FreshSound
<1>4. ASSUME \E t \in Tasks : AddTask(t) \/ AddSummary(t)
                              \/ \E s \in {"running", "done", "failed", "blocked"} : UpdateTask(t, s)
      PROVE  SoundInv'
  BY <1>1, <1>4 DEF AddTask, AddSummary, UpdateTask
<1>5. ASSUME \E batch \in SUBSET Tasks : Delegate(batch) PROVE SoundInv'
  BY <1>1, <1>5 DEF Delegate
<1>6. CASE BeginRound \/ (WallTimeEnds /\ UNCHANGED delegateVars) \/ UNCHANGED vars
  BY <1>1, <1>6 DEF BeginRound, WallTimeEnds, vars
<1>7. CASE EndCancelled
  BY <1>3, <1>7 DEF EndCancelled, SoundInv
<1>8. ASSUME NEW t \in Tasks, StartActor(t) PROVE SoundInv'
  BY <1>0, <1>2, <1>8, SetupAdvances DEF StartActor, SoundInv
<1>9. ASSUME NEW t \in Tasks, NoDescription(t) PROVE SoundInv'
  <2> DEFINE a == [Idle EXCEPT !.at = "result", !.status = "failed"]
  <2>2. Sound(t, a)
    BY FreshSound
  <2>3. a \in Execution
    BY DEF Idle, Execution, Phases, NoVersion
  <2>4. QED
    BY <1>2, <1>9, <2>2, <2>3 DEF NoDescription, Becomes, SoundInv
<1>10. ASSUME NEW t \in Tasks, RecordDone(t) \/ RecordFailed(t) PROVE SoundInv'
  <2>1. actor' = [actor EXCEPT ![t] = Idle] \/ actor' = [u \in Tasks |-> Idle]
    BY <1>10 DEF RecordDone, RecordFailed, Clear, Becomes
  <2>2. repairs' = repairs
    BY <1>10 DEF RecordDone, RecordFailed, Clear
  <2>3. QED
    BY <1>2, <1>3, <2>1, <2>2, IdleType DEF SoundInv
<1>11. CASE Interrupt
  <2>1. ASSUME NEW t \in Tasks PROVE Sound(t, Cancelled(t))
    <3>1. Sound(t, actor[t])
      BY DEF SoundInv
    <3>2. /\ Sound(t, Ends(t, "cancelled", FALSE, "cleanup"))
          /\ Sound(t, Ends(t, "cancelled", FALSE, "result"))
      BY EndsSound
    <3>3. QED
      BY <3>1, <3>2 DEF Cancelled
  <2>2. QED
    BY <1>11, <2>1 DEF Interrupt, SoundInv
<1>12. ASSUME NEW t \in Tasks, Executor(t) PROVE SoundInv'
  BY <1>0, <1>2, <1>12, ExecutorStepAdvances DEF Executor, Advances
<1>13. QED
  BY <1>4, <1>5, <1>6, <1>7, <1>8, <1>9, <1>10, <1>11, <1>12 DEF Next, Scheduler

-----------------------------------------------------------------------------
\* What a step does to phases and worktrees, for all the steps of a call.
LEMMA WorkStep == TypeOK /\ SoundInv /\ WorkInv /\ [Next]_vars => WorkInv'
<1> SUFFICES ASSUME TypeOK, SoundInv, WorkInv, [Next]_vars PROVE WorkInv'
  OBVIOUS
<1> USE DEF executorVars, delegateVars
<1>0. /\ actor \in [Tasks -> Execution] /\ ExecutorTypeOK
      /\ DOMAIN worktree = Tasks /\ call \in DelegateCalls
  BY DEF TypeOK, ExecutorTypeOK
<1>1. ASSUME UNCHANGED <<executorVars, call>> PROVE WorkInv'
  BY <1>1 DEF WorkInv, Idling, CleanUpNeverSkipped
<1>2. CASE (\E t \in Tasks : AddTask(t) \/ AddSummary(t)
              \/ \E s \in {"running", "done", "failed", "blocked"} : UpdateTask(t, s))
  BY <1>1, <1>2 DEF AddTask, AddSummary, UpdateTask, PlannerCall
<1>3. ASSUME NEW batch \in SUBSET Tasks, Delegate(batch) PROVE WorkInv'
  <2>1. Idling /\ UNCHANGED executorVars
    BY <1>3 DEF Delegate, PlannerCall
  <2>2. call'.ready = {}
    BY <1>3 DEF Delegate, NoCall
  <2>3. QED
    BY <2>1, <2>2 DEF WorkInv, CleanUpNeverSkipped
<1>4. CASE BeginRound
  <2>1. /\ \A t \in Tasks : actor[t].at = "off"
        /\ UNCHANGED executorVars
    BY <1>4 DEF BeginRound, At
  <2>2. call'.state = (IF Ready = {} THEN "returned" ELSE call.state) /\ call'.ready = Ready
    BY <1>0, <1>4 DEF BeginRound, DelegateCalls
  <2>3. Ready \subseteq Tasks /\ call.state = "running"
    BY <1>0, <1>4, CallFields DEF BeginRound, Ready
  <2>4. QED
    BY <2>1, <2>2, <2>3 DEF WorkInv, CleanUpNeverSkipped
<1>5. CASE EndCancelled
  <2>1. \A t \in Tasks : actor[t].at \in {"off", "result"}
    BY <1>5 DEF EndCancelled, Running
  <2>2. \A t \in Tasks : actor'[t].at = "off"
    BY <1>5 DEF EndCancelled, Idle
  <2>3. call'.ready = {} /\ worktree' = worktree
    BY <1>5 DEF EndCancelled, NoCall
  <2>4. QED
    BY <2>1, <2>2, <2>3 DEF WorkInv, CleanUpNeverSkipped
<1>6. ASSUME NEW t \in Tasks, StartActor(t) PROVE WorkInv'
  <2>1. PICK a \in Execution : actor' = [actor EXCEPT ![t] = a] /\ Placed(t, a)
    BY <1>0, <1>6, SetupAdvances DEF StartActor
  <2>2. a.at # "off"
    BY <2>1 DEF Placed
  <2>4. t \in call.ready /\ call'.ready = call.ready \ {t} /\ call'.state = call.state
    BY <1>0, <1>6 DEF StartActor, DelegateCalls
  <2>5. call.state = "running" /\ actor[t].at = "off"
    BY <2>4 DEF WorkInv
  <2>6. CleanUpNeverSkipped'
    BY <1>0, <2>1, <2>5 DEF WorkInv, CleanUpNeverSkipped, Placed
  <2>7. QED
    BY <1>0, <2>1, <2>4, <2>5, <2>6, CallFields DEF WorkInv, Idling
<1>7. ASSUME NEW t \in Tasks, NoDescription(t) PROVE WorkInv'
  <2>1. actor' = [actor EXCEPT ![t] = [Idle EXCEPT !.at = "result", !.status = "failed"]]
        /\ worktree' = worktree
    BY <1>7 DEF NoDescription, Becomes
  <2>2. t \in call.ready /\ call'.ready = call.ready \ {t} /\ call'.state = call.state
    BY <1>0, <1>7 DEF NoDescription, DelegateCalls
  <2>3. call.state = "running" /\ actor[t].at = "off"
    BY <2>2 DEF WorkInv
  <2>4. CleanUpNeverSkipped'
    BY <1>0, <2>1, <2>3 DEF WorkInv, CleanUpNeverSkipped
  <2>5. QED
    BY <1>0, <2>1, <2>2, <2>3, <2>4, CallFields DEF WorkInv, Idling
<1>8. ASSUME NEW t \in Tasks, RecordDone(t) \/ RecordFailed(t) PROVE WorkInv'
  <2>1. Gathered /\ worktree' = worktree
    BY <1>8 DEF RecordDone, RecordFailed, Clear
  <2>2. \A u \in Tasks : actor[u].at \in {"off", "result"}
    BY <2>1 DEF Gathered, Running
  <2>3. \A u \in Tasks : actor'[u] \in {actor[u], Idle}
    BY <1>0, <1>8 DEF RecordDone, RecordFailed, Clear, Becomes
  <2>4. CleanUpNeverSkipped'
    BY <2>1, <2>2, <2>3 DEF WorkInv, CleanUpNeverSkipped, Idle
  <2>5. \/ call'.state = "running" /\ call'.ready = {}
        \/ call' = [NoCall EXCEPT !.state = "raised"] /\ actor' = [u \in Tasks |-> Idle]
    BY <1>0, <1>8, <2>1 DEF RecordDone, RecordFailed, Gathered, DelegateCalls
  <2>6. QED
    BY <2>4, <2>5 DEF WorkInv, Idling, NoCall, Idle
<1>9. CASE Interrupt
  <2>1. call'.state = "cancelling" /\ call'.ready = {}
    BY <1>0, <1>9 DEF Interrupt, DelegateCalls
  <2>2. ASSUME NEW t \in Tasks
        PROVE  /\ worktree'[t] = "live" <=> actor'[t].at \notin {"off", "result"}
               /\ actor'[t].at = "result" /\ actor'[t].status = "done"
                    => worktree'[t] = "closed"
    <3>1. /\ worktree'[t] = IF At(t, "cleanup") THEN "left" ELSE worktree[t]
          /\ actor'[t] = Cancelled(t)
      BY <1>9 DEF Interrupt, CutOff
    <3>2. CASE At(t, "off") \/ At(t, "result")
      BY <3>1, <3>2 DEF Cancelled, WorkInv, CleanUpNeverSkipped, At
    <3>3. CASE At(t, "cleanup")
      BY <3>1, <3>3 DEF Cancelled, At, Ends, Idle
    <3>4. CASE ~(At(t, "off") \/ At(t, "result") \/ At(t, "cleanup"))
      BY <3>1, <3>4 DEF Cancelled, WorkInv, CleanUpNeverSkipped, At, Ends, Idle
    <3>5. QED
      BY <3>2, <3>3, <3>4
  <2>3. QED
    BY <2>1, <2>2 DEF WorkInv, CleanUpNeverSkipped, Idling
<1>10. ASSUME NEW t \in Tasks, Executor(t) PROVE WorkInv'
  <2>1. PICK a \in Execution : Advances(t, a)
    BY <1>0, <1>10, ExecutorStepAdvances DEF Executor
  <2>2. actor[t].at \notin {"off", "result"} /\ call' = call
    BY <1>0, <1>10, ExecutorStepAdvances DEF Executor
  <2>3. CleanUpNeverSkipped'
    BY <1>0, <2>1, <2>2 DEF Advances, WorkInv, CleanUpNeverSkipped
  <2>4. QED
    BY <1>0, <2>1, <2>2, <2>3, CallFields DEF Advances, WorkInv, Idling
<1>11. CASE (WallTimeEnds /\ UNCHANGED delegateVars) \/ UNCHANGED vars
  BY <1>11 DEF WallTimeEnds, vars, WorkInv, Idling, CleanUpNeverSkipped
<1>12. QED
  BY <1>2, <1>3, <1>4, <1>5, <1>6, <1>7, <1>8, <1>9, <1>10, <1>11 DEF Next, Scheduler

-----------------------------------------------------------------------------
(***************************************************************************)
(* What is on record                                                       *)
(***************************************************************************)
\* What the Planner may do between two calls to the task state.
Planning ==
  /\ Idling /\ UNCHANGED <<executorVars, ledger, call>>
  /\ \A t \in Tasks : tree'[t].owned = tree[t].owned
  /\ \A t \in Tasks :
       tree[t].owned /\ tree[t].status \in {"done", "failed", "blocked"}
         => tree'[t] = tree[t]

LEMMA PlannerPlans ==
  ASSUME TypeOK,
         \E t \in Tasks : AddTask(t) \/ AddSummary(t)
           \/ \E s \in {"running", "done", "failed", "blocked"} : UpdateTask(t, s)
  PROVE  Planning
<1>0. tree \in [Tasks -> Node]
  BY DEF TypeOK
<1>1. ASSUME NEW t \in Tasks, AddTask(t) PROVE Planning
  BY <1>0, <1>1 DEF AddTask, Planning, Node, executorVars
<1>2. ASSUME NEW t \in Tasks, AddSummary(t) PROVE Planning
  BY <1>0, <1>2 DEF AddSummary, PlannerCall, Planning, Node, executorVars
<1>3. ASSUME NEW t \in Tasks, NEW s \in {"running", "done", "failed", "blocked"},
             UpdateTask(t, s)
      PROVE  Planning
  <2>1. ~(tree[t].owned /\ tree[t].status \in {"done", "failed", "blocked"})
    BY <1>3 DEF UpdateTask, MayBecome, ValidTransitions
  <2>2. tree' = [tree EXCEPT ![t] = [tree[t] EXCEPT !.status = s]]
    BY <1>0, <1>3 DEF UpdateTask
  <2>3. QED
    BY <1>0, <1>3, <2>1, <2>2 DEF UpdateTask, PlannerCall, Planning, Node, executorVars
<1>4. QED
  BY <1>1, <1>2, <1>3

\* What RecordResult writes.
LEMMA RecordWrites ==
  ASSUME TypeOK, NEW t \in Tasks, RecordResult(t)
  PROVE  /\ tree'[t].status = actor[t].status /\ tree'[t].owned = tree[t].owned
         /\ \A u \in Tasks \ {t} : tree'[u] = tree[u]
<1>1. tree' = [tree EXCEPT ![t] = [tree[t] EXCEPT !.status = actor[t].status,
                 !.summary = "actor", !.infra = actor[t].infra]]
  BY DEF RecordResult, TypeOK, Node
<1>2. QED
  BY <1>1 DEF TypeOK, Node

LEMMA RecordStep ==
  TypeOK /\ SoundInv /\ WorkInv /\ RecordInv /\ [Next]_vars => RecordInv'
<1> SUFFICES ASSUME TypeOK, SoundInv, WorkInv, RecordInv, [Next]_vars PROVE RecordInv'
  OBVIOUS
<1> USE DEF executorVars, delegateVars
<1>0. /\ actor \in [Tasks -> Execution] /\ ExecutorTypeOK
      /\ call \in DelegateCalls /\ tree \in [Tasks -> Node]
  BY DEF TypeOK, ExecutorTypeOK
<1>1. CASE (\E t \in Tasks : AddTask(t) \/ AddSummary(t)
              \/ \E s \in {"running", "done", "failed", "blocked"} : UpdateTask(t, s))
  <2>1. Planning
    BY <1>1, PlannerPlans
  <2>2. QED
    BY <2>1 DEF Planning, Idling, WorkInv, RecordInv
<1>2. ASSUME NEW batch \in SUBSET Tasks, Delegate(batch) PROVE RecordInv'
  <2>1. \A t \in Tasks : actor'[t].at = "off"
    BY <1>2 DEF Delegate, PlannerCall, WorkInv
  <2>2. CASE call' = [NoCall EXCEPT !.state = "running", !.specs = batch, !.remaining = batch]
    <3>1. tree' = [t \in Tasks |-> IF t \in batch THEN Hand(t) ELSE tree[t]]
      BY <1>2, <2>2 DEF Delegate, NoCall
    <3>2. \A t \in batch : tree'[t].status = "running"
      BY <1>0, <3>1 DEF Hand, Node
    <3>3. call'.ready = {} /\ call'.remaining = batch
      BY <2>2 DEF NoCall
    <3>4. QED
      BY <2>1, <3>2, <3>3 DEF RecordInv
  <2>3. CASE call' \in {[NoCall EXCEPT !.state = "refused"], [NoCall EXCEPT !.state = "raised"]}
    BY <2>1, <2>3 DEF RecordInv, NoCall
  <2>4. QED
    BY <1>2, <2>2, <2>3 DEF Delegate
<1>3. CASE BeginRound
  <2>1. /\ \A t \in Tasks : actor'[t].at = "off"
        /\ call'.remaining = call.remaining \ Blocked /\ call'.ready = Ready
        /\ call.state = "running"
    BY <1>0, <1>3 DEF BeginRound, At, DelegateCalls
  <2>2. Ready \subseteq call.remaining \ Blocked
    BY DEF Ready
  <2>3. \A t \in call.remaining \ Blocked : tree'[t] = tree[t]
    BY <1>0, <1>3, CallFields DEF BeginRound
  <2>4. QED
    BY <2>1, <2>2, <2>3 DEF RecordInv
<1>4. CASE EndCancelled
  BY <1>4 DEF EndCancelled, NoCall, RecordInv, Idle
<1>5. ASSUME NEW t \in Tasks, StartActor(t) \/ NoDescription(t) PROVE RecordInv'
  <2>1. /\ t \in call.ready /\ call'.ready = call.ready \ {t}
        /\ call'.remaining = call.remaining /\ call'.state = call.state /\ tree' = tree
    BY <1>0, <1>5 DEF StartActor, NoDescription, DelegateCalls
  <2>2. \A u \in Tasks \ {t} : actor'[u] = actor[u]
    BY <1>0, <1>5, SetupAdvances DEF StartActor, NoDescription, Becomes
  <2>3. call.state = "running"
    BY <2>1 DEF WorkInv
  <2>4. QED
    BY <2>1, <2>2, <2>3 DEF RecordInv
<1>6. ASSUME NEW t \in Tasks, RecordDone(t) \/ RecordFailed(t) PROVE RecordInv'
  <2>1. RecordResult(t) /\ Gathered
    BY <1>6 DEF RecordDone, RecordFailed
  <2>2. \A u \in Tasks \ {t} : tree'[u] = tree[u]
    BY <2>1, RecordWrites
  <2>3. CASE actor' = [actor EXCEPT ![t] = Idle]
             /\ call'.remaining = call.remaining \ {t} /\ call'.ready = {}
             /\ call'.state = "running" /\ call.state = "running"
    <3>1. \A u \in call'.remaining : u \in Tasks \ {t} /\ u \in call.remaining
      BY <1>0, <2>3, CallFields
    <3>2. \A u \in Tasks : actor'[u].at # "off" => u # t /\ actor'[u] = actor[u]
      BY <1>0, <2>3 DEF Idle
    <3>3. QED
      BY <2>2, <2>3, <3>1, <3>2 DEF RecordInv
  <2>4. CASE actor' = [u \in Tasks |-> Idle] /\ call' = [NoCall EXCEPT !.state = "raised"]
    BY <2>4 DEF RecordInv, Idle, NoCall
  <2>5. QED
    BY <1>0, <1>6, <2>1, <2>3, <2>4
      DEF RecordDone, RecordFailed, Clear, Becomes, Gathered, DelegateCalls
<1>7. CASE Interrupt
  <2>1. call'.state = "cancelling" /\ call'.ready = {} /\ tree' = tree
    BY <1>0, <1>7 DEF Interrupt, DelegateCalls
  <2>2. \A t \in Tasks : actor[t].at = "off" => actor'[t].at = "off"
    BY <1>7 DEF Interrupt, Cancelled, At
  <2>3. QED
    BY <2>1, <2>2 DEF RecordInv
<1>8. ASSUME NEW t \in Tasks, Executor(t) PROVE RecordInv'
  <2>1. actor[t].at # "off" /\ \E a \in Execution : Advances(t, a)
    BY <1>0, <1>8, ExecutorStepAdvances DEF Executor
  <2>2. \A u \in Tasks \ {t} : actor'[u] = actor[u]
    BY <1>0, <2>1 DEF Advances
  <2>3. call' = call /\ tree' = tree
    BY <1>8 DEF Executor
  <2>4. QED
    BY <2>1, <2>2, <2>3 DEF RecordInv
<1>9. CASE (WallTimeEnds /\ UNCHANGED delegateVars) \/ UNCHANGED vars
  BY <1>9 DEF WallTimeEnds, vars, RecordInv
<1>10. QED
  BY <1>1, <1>2, <1>3, <1>4, <1>5, <1>6, <1>7, <1>8, <1>9 DEF Next, Scheduler

-----------------------------------------------------------------------------
(***************************************************************************)
(* The rounds of a call                                                    *)
(***************************************************************************)
ScoutedStrategy == Strategy \in {"scout_then_coder", "scout_then_dag"}

\* A task of the batch was blocked.
SomeBlocked == \E u \in call.specs : tree[u].status = "blocked"

\* Why a task may be at work.
Free(t) == RoleOf[t] = "scout" \/ Scouted \/ SomeBlocked

\* How a task of a batch that is no longer in it was settled.
Settled(u) ==
  u \in call.failed \/ tree[u].status = "blocked" \/ RoleOf[u] \in ledger.completed

\* Every task of the batch is the call's own, and settled or still in it; the
\* order the policy asked for holds of what is at work, waits or remains.
BatchInv ==
  /\ call.remaining \subseteq call.specs
  /\ call.state \in {"running", "returned"} =>
       \A t \in call.specs :
         /\ tree[t].owned
         /\ \/ tree[t].status \in {"done", "failed", "blocked"}
            \/ call.state = "running" /\ t \in call.remaining
  /\ call.state = "running" =>
       \A u \in call.specs : u \in call.remaining \/ Settled(u)
  /\ ScoutedStrategy =>
       /\ \A t \in call.ready \cup Running : Free(t)
       /\ call.state = "running" =>
            \A t \in call.remaining : Free(t) \/ FollowsScout(call.specs, t)

\* Nobody is at work and no call in progress: nothing is asked of the batch
\* but that it is on record.
LEMMA AtRest ==
  ASSUME call'.remaining \subseteq call'.specs, call'.state \notin {"running", "returned"},
         call'.ready = {}, \A t \in Tasks : actor'[t].at = "off"
  PROVE  BatchInv'
  BY DEF BatchInv, Running

\* The round that begins starts nobody before a Scout it waits for.
LEMMA RoundIsFree ==
  ASSUME TypeOK, BatchInv, BeginRound, ScoutedStrategy
  PROVE  \A t \in Ready : Free(t)'
<1>0. call \in DelegateCalls /\ tree \in [Tasks -> Node]
  BY DEF TypeOK
<1>1. call'.specs = call.specs /\ ledger' = ledger /\ call.state = "running"
  BY <1>0 DEF BeginRound, DelegateCalls
<1>2. /\ call.remaining \subseteq call.specs /\ call.specs \subseteq Tasks
      /\ call.remaining \subseteq Tasks
  BY <1>0, CallFields DEF BatchInv
<1>3. CASE Blocked # {}
  <2>1. PICK u \in Blocked : u \in call.specs /\ u \in Tasks
    BY <1>2, <1>3 DEF Blocked
  <2>2. tree' = [t \in Tasks |->
                  IF t \in Blocked THEN [tree[t] EXCEPT !.status = "blocked"] ELSE tree[t]]
    BY DEF BeginRound
  <2>3. tree'[u].status = "blocked"
    BY <1>0, <2>1, <2>2 DEF Node
  <2>4. SomeBlocked'
    BY <1>1, <2>1, <2>3 DEF SomeBlocked
  <2>5. QED
    BY <2>4 DEF Free
<1>4. CASE Blocked = {}
  <2>1. tree' = tree
    BY <1>0, <1>4 DEF BeginRound
  <2>2. \A t \in Tasks : Free(t) => Free(t)'
    BY <1>1, <2>1 DEF Free, SomeBlocked, Scouted
  <2>3. \A t \in Ready : t \in call.remaining /\ DependsOn[t] \cap call.remaining = {}
    <3>1. CASE call.remaining = {}
      BY <3>1 DEF Ready
    <3>2. CASE call.remaining # {}
      <4>1. PICK f \in call.remaining : DependsOn[f] \cap call.remaining = {}
        BY <1>2, <3>2, DelegateAssumption
      <4>2. QED
        BY <1>4, <4>1 DEF Ready
    <3>3. QED
      BY <3>1, <3>2
  <2>4. ASSUME NEW t \in Ready, FollowsScout(call.specs, t), ~Free(t) PROVE FALSE
    <3>1. PICK d \in DependsOn[t] : d \in call.specs /\ RoleOf[d] = "scout"
      BY <2>4 DEF FollowsScout, OfRole
    <3>2. d \notin call.remaining
      BY <2>3, <3>1
    <3>3. d \notin call.failed
      BY <1>4, <2>3, <3>1 DEF Blocked
    <3>4. Settled(d)
      BY <1>1, <3>1, <3>2 DEF BatchInv
    <3>5. QED
      BY <2>4, <3>1, <3>3, <3>4 DEF Settled, Free, SomeBlocked, Scouted
  <2>5. QED
    BY <1>1, <1>2, <2>2, <2>3, <2>4 DEF BatchInv
<1>5. QED
  BY <1>3, <1>4

LEMMA BatchStep ==
  TypeOK /\ SoundInv /\ WorkInv /\ RecordInv /\ BatchInv /\ [Next]_vars => BatchInv'
<1> SUFFICES ASSUME TypeOK, SoundInv, WorkInv, RecordInv, BatchInv, [Next]_vars
             PROVE  BatchInv'
  OBVIOUS
<1> USE DEF executorVars, delegateVars
<1>0. /\ actor \in [Tasks -> Execution] /\ ExecutorTypeOK
      /\ call \in DelegateCalls /\ tree \in [Tasks -> Node]
      /\ call.remaining \subseteq Tasks /\ call.specs \subseteq Tasks
      /\ call.ready \subseteq Tasks
  BY CallFields DEF TypeOK, ExecutorTypeOK
\* A step that leaves the records alone and puts nobody to work.
<1>1. ASSUME UNCHANGED <<tree, ledger>>, Running' \subseteq Running \cup call.ready,
             call'.ready \subseteq call.ready, call'.remaining = call.remaining,
             call'.specs = call.specs, call'.failed = call.failed,
             call'.state \in {call.state, "cancelling"}
      PROVE  BatchInv'
  <2>1. \A t \in Tasks : Free(t) => Free(t)'
    BY <1>1 DEF Free, SomeBlocked, Scouted
  <2>2. \A t \in Tasks : Settled(t) => Settled(t)'
    BY <1>1 DEF Settled
  <2>4. Running \subseteq Tasks
    BY DEF Running
  <2>5. QED
    BY <1>0, <1>1, <2>1, <2>2, <2>4 DEF BatchInv, FollowsScout, OfRole
<1>2. CASE (\E t \in Tasks : AddTask(t) \/ AddSummary(t)
              \/ \E s \in {"running", "done", "failed", "blocked"} : UpdateTask(t, s))
  <2>1. Planning
    BY <1>2, PlannerPlans
  <2>2. /\ Running' = {} /\ call'.ready = {} /\ call' = call
        /\ call.state # "running"
    BY <2>1 DEF Planning, Idling, WorkInv, Running
  <2>3. QED
    BY <1>0, <2>1, <2>2 DEF Planning, BatchInv
<1>3. ASSUME NEW batch \in SUBSET Tasks, Delegate(batch) PROVE BatchInv'
  <2>1. \A t \in Tasks : actor'[t].at = "off"
    BY <1>3 DEF Delegate, PlannerCall, WorkInv
  <2>2. CASE call' = [NoCall EXCEPT !.state = "running", !.specs = batch, !.remaining = batch]
    <3>1. /\ call'.ready = {} /\ call'.remaining = batch /\ call'.specs = batch
          /\ call'.state = "running"
      BY <2>2 DEF NoCall
    <3>2. /\ tree' = [t \in Tasks |-> IF t \in batch THEN Hand(t) ELSE tree[t]]
          /\ PolicyAllows(batch)
      BY <1>3, <2>2 DEF Delegate, NoCall
    <3>3. \A t \in batch : tree'[t].owned
      BY <1>0, <3>2 DEF Hand, Node
    <3>4. Scouted => Scouted'
      BY <1>3 DEF Delegate, Reserve, Scouted, TypeOK, Ledgers
    <3>5. ScoutedStrategy =>
            \A t \in batch : RoleOf[t] = "scout" \/ Scouted \/ FollowsScout(batch, t)
      BY <3>2 DEF ScoutedStrategy, PolicyAllows, OfRole
    <3>6. Running' = {}
      BY <2>1 DEF Running
    <3>7. QED
      BY <3>1, <3>3, <3>4, <3>5, <3>6 DEF BatchInv, Free
  <2>3. CASE call' \in {[NoCall EXCEPT !.state = "refused"], [NoCall EXCEPT !.state = "raised"]}
    BY <2>1, <2>3, AtRest DEF NoCall
  <2>4. QED
    BY <1>3, <2>2, <2>3 DEF Delegate
<1>4. CASE BeginRound
  <2>1. /\ Running' = {} /\ ledger' = ledger
        /\ call'.remaining = call.remaining \ Blocked /\ call'.ready = Ready
        /\ call'.specs = call.specs /\ call'.failed = call.failed
        /\ call.state = "running"
        /\ call'.state = (IF Ready = {} THEN "returned" ELSE call.state)
    BY <1>0, <1>4 DEF BeginRound, At, DelegateCalls, Running
  <2>2. /\ \A t \in Blocked : tree'[t] = [tree[t] EXCEPT !.status = "blocked"]
        /\ \A t \in Tasks \ Blocked : tree'[t] = tree[t]
        /\ Blocked \subseteq call.remaining
    BY <1>0, <1>4 DEF BeginRound, Blocked
  <2>3. ASSUME NEW t \in Tasks
        PROVE  /\ tree'[t].owned = tree[t].owned
               /\ t \in Blocked => tree'[t].status = "blocked"
               /\ t \notin Blocked => tree'[t].status = tree[t].status
    <3>1. tree[t] \in Node
      BY <1>0
    <3>2. /\ [tree[t] EXCEPT !.status = "blocked"].owned = tree[t].owned
          /\ [tree[t] EXCEPT !.status = "blocked"].status = "blocked"
      BY <3>1 DEF Node
    <3>3. QED
      BY <2>2, <3>2
  <2>4. Ready = {} => call.remaining \ Blocked = {}
    BY DEF Ready
  <2>5. \A u \in call.specs : Settled(u) => Settled(u)'
    BY <1>0, <2>1, <2>3 DEF Settled
  <2>6. \A u \in Blocked : Settled(u)'
    BY <1>0, <2>2, <2>3 DEF Settled
  <2>7. \A t \in Tasks : Free(t) => Free(t)'
    BY <1>0, <2>1, <2>3 DEF Free, SomeBlocked, Scouted
  <2>8. ScoutedStrategy => \A t \in Ready : Free(t)'
    BY <1>4, RoundIsFree
  <2>9. QED
    BY <1>0, <2>1, <2>2, <2>3, <2>4, <2>5, <2>6, <2>7, <2>8 DEF BatchInv
<1>5. CASE EndCancelled
  BY <1>5, AtRest DEF EndCancelled, NoCall, Idle
<1>6. ASSUME NEW t \in Tasks, StartActor(t) \/ NoDescription(t) PROVE BatchInv'
  <2>1. /\ t \in call.ready /\ call' = [call EXCEPT !.ready = @ \ {t}]
        /\ UNCHANGED <<tree, ledger>>
    BY <1>6 DEF StartActor, NoDescription
  <2>2. \A u \in Tasks \ {t} : actor'[u] = actor[u]
    BY <1>0, <1>6, SetupAdvances DEF StartActor, NoDescription, Becomes
  <2>3. Running' \subseteq Running \cup call.ready
    BY <2>1, <2>2 DEF Running
  <2>4. QED
    BY <1>0, <1>1, <2>1, <2>3 DEF DelegateCalls
<1>7. ASSUME NEW t \in Tasks, RecordDone(t) \/ RecordFailed(t) PROVE BatchInv'
  <2>1. RecordResult(t) /\ Gathered /\ actor[t].status \in {"done", "failed"}
    BY <1>7 DEF RecordDone, RecordFailed
  <2>2. /\ tree'[t].status = actor[t].status /\ tree'[t].owned = tree[t].owned
        /\ \A u \in Tasks \ {t} : tree'[u] = tree[u]
    BY <2>1, RecordWrites
  <2>3. CASE actor' = [u \in Tasks |-> Idle] /\ call' = [NoCall EXCEPT !.state = "raised"]
    BY <2>3, AtRest DEF NoCall, Idle
  <2>4. CASE actor' = [actor EXCEPT ![t] = Idle] /\ (RecordFailed(t) \/ ~late)
    <3>1. /\ call'.state = "running" /\ call.state = "running" /\ call'.ready = {}
          /\ call'.remaining = call.remaining \ {t} /\ call'.specs = call.specs
          /\ call'.failed \in {call.failed, call.failed \cup {t}}
      BY <1>0, <1>7, <2>1, <2>4 DEF RecordDone, RecordFailed, Gathered, DelegateCalls
    <3>2. Running' = {}
      <4>1. \A u \in Tasks : actor[u].at \in {"off", "result"}
        BY <2>1 DEF Gathered, Running
      <4>2. QED
        BY <1>0, <2>4, <4>1 DEF Running, Idle
    <3>3. ledger.completed \subseteq ledger'.completed
      BY <1>7, <2>4 DEF RecordDone, RecordFailed, Release, TypeOK, Ledgers
    <3>4. Settled(t)'
      <4>1. CASE RecordDone(t)
        <5>1. ledger' = [ledger EXCEPT !.completed = @ \cup {RoleOf[t]}]
          BY <2>4, <4>1, <2>1 DEF RecordDone, RecordFailed
        <5>2. QED
          BY <5>1 DEF Settled, TypeOK, Ledgers
      <4>2. CASE RecordFailed(t)
        <5>1. call' = [call EXCEPT !.failed = @ \cup {t}, !.remaining = @ \ {t}]
          BY <4>2 DEF RecordFailed
        <5>2. QED
          BY <1>0, <5>1 DEF Settled, DelegateCalls
      <4>3. QED
        BY <1>7, <4>1, <4>2
    <3>5. tree[t].status = "running"
      BY <1>7 DEF RecordInv, RecordDone, RecordFailed, At
    <3>6. \A u \in call.specs : Settled(u) => Settled(u)'
      BY <1>0, <2>2, <3>1, <3>3, <3>4 DEF Settled
    <3>7. \A u \in Tasks : Free(u) => Free(u)'
      BY <1>0, <2>2, <3>1, <3>3, <3>5 DEF Free, SomeBlocked, Scouted
    <3>8. QED
      BY <1>0, <2>1, <2>2, <3>1, <3>2, <3>4, <3>6, <3>7 DEF BatchInv
  <2>5. QED
    BY <1>7, <2>3, <2>4 DEF RecordDone, RecordFailed, Clear, Becomes
<1>8. CASE Interrupt
  <2>1. call' = [call EXCEPT !.state = "cancelling", !.ready = {}]
        /\ UNCHANGED <<tree, ledger>>
    BY <1>8 DEF Interrupt
  <2>2. \A t \in Tasks : actor[t].at \in {"off", "result"} => actor'[t] = actor[t]
    BY <1>8 DEF Interrupt, Cancelled, At
  <2>3. Running' \subseteq Running
    BY <2>2 DEF Running
  <2>4. QED
    BY <1>0, <1>1, <2>1, <2>3 DEF DelegateCalls
<1>9. ASSUME NEW t \in Tasks, Executor(t) PROVE BatchInv'
  <2>1. actor[t].at \notin {"off", "result"} /\ \E a \in Execution : Advances(t, a)
    BY <1>0, <1>9, ExecutorStepAdvances DEF Executor
  <2>2. \A u \in Tasks \ {t} : actor'[u] = actor[u]
    BY <1>0, <2>1 DEF Advances
  <2>3. Running' \subseteq Running
    BY <2>1, <2>2 DEF Running
  <2>4. QED
    BY <1>1, <1>9, <2>3 DEF Executor
<1>10. CASE (WallTimeEnds /\ UNCHANGED delegateVars) \/ UNCHANGED vars
  BY <1>1, <1>10 DEF WallTimeEnds, vars, Running
<1>11. QED
  BY <1>2, <1>3, <1>4, <1>5, <1>6, <1>7, <1>8, <1>9, <1>10 DEF Next, Scheduler

-----------------------------------------------------------------------------
(***************************************************************************)
(* Slots: those of a role pay for its results and for what remains of the  *)
(* call in progress.                                                       *)
(***************************************************************************)
Worked(t) == tree[t].summary = "actor" /\ ~tree[t].infra

Paid(r) == {t \in OfRole(Tasks, r) : Worked(t) \/ t \in call.remaining}

SlotInv ==
  /\ \A r \in Roles : Cardinality(Paid(r)) <= ledger.slots[r]
  /\ call.state = "running" =>
       \A t \in Tasks : actor[t].at # "off" => t \in call.remaining

LEMMA PaidIsFinite ==
  \A r : IsFiniteSet(Paid(r)) /\ Cardinality(Paid(r)) \in Nat
<1> TAKE r
<1>1. Paid(r) \subseteq Tasks
  BY DEF Paid, OfRole
<1>2. QED
  BY <1>1, ExecutorAssumption, FS_Subset, FS_CardinalityType

\* A step that pays for nothing new and gives no slot back.
LEMMA NothingNewPaid ==
  ASSUME TypeOK, TypeOK', SlotInv, NEW r \in Roles,
         Paid(r)' \subseteq Paid(r), ledger'.slots[r] >= ledger.slots[r]
  PROVE  Cardinality(Paid(r)') <= ledger'.slots[r]
<1>1. Cardinality(Paid(r)') <= Cardinality(Paid(r)) /\ Cardinality(Paid(r)') \in Nat
  BY PaidIsFinite, FS_Subset, FS_CardinalityType
<1>2. ledger.slots[r] \in Nat /\ ledger'.slots[r] \in Nat
  BY DEF TypeOK, Ledgers
<1>3. QED
  BY <1>1, <1>2, PaidIsFinite DEF SlotInv

LEMMA SlotStep ==
  TypeOK /\ TypeOK' /\ SoundInv /\ WorkInv /\ RecordInv /\ SlotInv /\ [Next]_vars
    => SlotInv'
<1> SUFFICES ASSUME TypeOK, TypeOK', SoundInv, WorkInv, RecordInv, SlotInv, [Next]_vars
             PROVE  SlotInv'
  OBVIOUS
<1> USE DEF executorVars, delegateVars
<1>0. /\ actor \in [Tasks -> Execution] /\ ExecutorTypeOK
      /\ call \in DelegateCalls /\ tree \in [Tasks -> Node] /\ ledger \in Ledgers
      /\ call.remaining \subseteq Tasks /\ call.ready \subseteq Tasks
      /\ \A r \in Roles : ledger.slots[r] \in Nat
  BY CallFields DEF TypeOK, ExecutorTypeOK, Ledgers
<1> DEFINE AtWorkRemains == call'.state = "running" =>
             \A t \in Tasks : actor'[t].at # "off" => t \in call'.remaining
\* A step that leaves the ledger and what was worked alone.
<1>1. ASSUME \A t \in Tasks : Worked(t)' => Worked(t), ledger'.slots = ledger.slots,
             call'.remaining \subseteq call.remaining, AtWorkRemains
      PROVE  SlotInv'
  <2>1. \A r \in Roles : Paid(r)' \subseteq Paid(r)
    BY <1>1 DEF Paid, OfRole
  <2>2. \A r \in Roles : ledger'.slots[r] >= ledger.slots[r]
    BY <1>0, <1>1
  <2>3. \A r \in Roles : Cardinality(Paid(r)') <= ledger'.slots[r]
    BY <2>1, <2>2, NothingNewPaid
  <2>4. QED
    BY <1>1, <2>3 DEF SlotInv
<1>2. CASE (\E t \in Tasks : AddTask(t) \/ AddSummary(t)
              \/ \E s \in {"running", "done", "failed", "blocked"} : UpdateTask(t, s))
  <2>1. \A t \in Tasks : Worked(t)' => Worked(t)
    BY <1>0, <1>2 DEF AddTask, AddSummary, UpdateTask, Worked, Node
  <2>2. ledger' = ledger /\ call' = call /\ actor' = actor
    BY <1>2, PlannerPlans DEF Planning
  <2>3. AtWorkRemains
    BY <2>2 DEF SlotInv
  <2>4. QED
    BY <1>1, <2>1, <2>2, <2>3
<1>3. ASSUME NEW batch \in SUBSET Tasks, Delegate(batch) PROVE SlotInv'
  <2>1. \A t \in Tasks : actor'[t].at = "off"
    BY <1>3 DEF Delegate, PlannerCall, WorkInv
  <2>2. \A t \in Tasks : Worked(t)' => Worked(t)
    <3>1. \A t \in Tasks : tree'[t] \in {tree[t], Hand(t)}
      BY <1>0, <1>3 DEF Delegate
    <3>2. ASSUME NEW t \in Tasks
          PROVE  Hand(t).summary = tree[t].summary /\ Hand(t).infra = tree[t].infra
      <4>1. tree[t] \in Node
        BY <1>0
      <4>2. QED
        BY <4>1 DEF Hand, Node
    <3>3. QED
      BY <3>1, <3>2 DEF Worked
  <2>3. call'.remaining \subseteq batch
    BY <1>3 DEF Delegate, NoCall
  <2>4. CASE ledger' = ledger /\ call' = [NoCall EXCEPT !.state = "refused"]
    <3>1. call'.remaining = {}
      BY <2>4 DEF NoCall
    <3>2. QED
      BY <1>1, <2>1, <2>2, <2>4, <3>1
  <2>5. CASE Reserve(batch)
    <3>1. ASSUME NEW r \in Roles PROVE Cardinality(Paid(r)') <= ledger'.slots[r]
      <4> DEFINE new == OfRole(batch, r)
      <4>1. Paid(r)' \subseteq Paid(r) \cup new
        BY <2>2, <2>3 DEF Paid, OfRole
      <4>2. IsFiniteSet(new) /\ Cardinality(new) \in Nat
        <5>1. new \subseteq Tasks
          BY DEF OfRole
        <5>2. QED
          BY <5>1, ExecutorAssumption, FS_Subset, FS_CardinalityType
      <4>3. /\ IsFiniteSet(Paid(r) \cup new)
            /\ Cardinality(Paid(r) \cup new) <= Cardinality(Paid(r)) + Cardinality(new)
        <5>1. /\ IsFiniteSet(Paid(r) \cup new)
              /\ Cardinality(Paid(r) \cup new)
                   = Cardinality(Paid(r)) + Cardinality(new) - Cardinality(Paid(r) \cap new)
          BY <4>2, PaidIsFinite, FS_Union
        <5>2. Cardinality(Paid(r) \cap new) \in Nat
          BY <4>2, FS_Subset, FS_CardinalityType
        <5>3. QED
          BY <4>2, <5>1, <5>2, PaidIsFinite
      <4>4. /\ Cardinality(Paid(r)') <= Cardinality(Paid(r) \cup new)
            /\ Cardinality(Paid(r)') \in Nat /\ Cardinality(Paid(r) \cup new) \in Nat
        BY <4>1, <4>3, FS_Subset, FS_CardinalityType
      <4>5. ledger'.slots[r] = ledger.slots[r] + Cardinality(new)
        BY <1>0, <2>5 DEF Reserve, Ledgers
      <4>6. Cardinality(Paid(r)) <= ledger.slots[r]
        BY DEF SlotInv
      <4>7. QED
        BY <1>0, <4>2, <4>3, <4>4, <4>5, <4>6, PaidIsFinite
    <3>2. QED
      BY <2>1, <3>1 DEF SlotInv
  <2>6. QED
    BY <1>3, <2>4, <2>5 DEF Delegate
<1>4. CASE BeginRound
  <2>1. /\ \A t \in Tasks : actor'[t].at = "off"
        /\ ledger' = ledger /\ call'.remaining = call.remaining \ Blocked
    BY <1>0, <1>4 DEF BeginRound, At, DelegateCalls
  <2>2. \A t \in Tasks : Worked(t)' => Worked(t)
    BY <1>0, <1>4 DEF BeginRound, Worked, Node
  <2>3. QED
    BY <1>1, <2>1, <2>2
<1>5. CASE EndCancelled
  <2>1. /\ call'.remaining = {} /\ call'.state # "running"
        /\ tree' = tree /\ ledger' = ledger
    BY <1>5 DEF EndCancelled, NoCall
  <2>2. QED
    BY <1>1, <2>1 DEF Worked
<1>6. ASSUME NEW t \in Tasks, StartActor(t) \/ NoDescription(t) PROVE SlotInv'
  <2>1. /\ t \in call.ready /\ call'.remaining = call.remaining
        /\ call'.state = call.state /\ UNCHANGED <<tree, ledger>>
    BY <1>0, <1>6 DEF StartActor, NoDescription, DelegateCalls
  <2>2. \A u \in Tasks \ {t} : actor'[u] = actor[u]
    BY <1>0, <1>6, SetupAdvances DEF StartActor, NoDescription, Becomes
  <2>3. t \in call.remaining
    BY <2>1 DEF RecordInv
  <2>4. AtWorkRemains
    BY <2>1, <2>2, <2>3 DEF SlotInv
  <2>5. QED
    BY <1>1, <2>1, <2>4 DEF Worked
<1>7. ASSUME NEW t \in Tasks, RecordDone(t) \/ RecordFailed(t) PROVE SlotInv'
  <2>1. /\ RecordResult(t) /\ Gathered /\ actor[t].at = "result"
        /\ call.state = "running"
    BY <1>7 DEF RecordDone, RecordFailed, At, Gathered
  <2>2. t \in call.remaining
    BY <2>1 DEF SlotInv
  <2>3. \A u \in Tasks \ {t} : tree'[u] = tree[u]
    BY <2>1, RecordWrites
  <2>4. tree'[t].infra = actor[t].infra
    <3>1. tree' = [tree EXCEPT ![t] = [tree[t] EXCEPT !.status = actor[t].status,
                     !.summary = "actor", !.infra = actor[t].infra]]
      BY <1>0, <2>1 DEF RecordResult, Node
    <3>2. QED
      BY <1>0, <3>1 DEF Node
  <2>5. call'.remaining \subseteq call.remaining
        /\ (call'.state = "running" => call'.remaining = call.remaining \ {t})
    <3>1. \/ call' = [call EXCEPT !.completed = @ \cup {t}, !.remaining = @ \ {t}]
          \/ call' = [call EXCEPT !.failed = @ \cup {t}, !.remaining = @ \ {t}]
          \/ call' = [NoCall EXCEPT !.state = "raised"]
      BY <1>7 DEF RecordDone, RecordFailed
    <3>2. QED
      BY <1>0, <3>1 DEF NoCall, DelegateCalls
  <2>6. AtWorkRemains
    <3>1. actor' = [actor EXCEPT ![t] = Idle] \/ actor' = [u \in Tasks |-> Idle]
      BY <1>7 DEF RecordDone, RecordFailed, Clear, Becomes
    <3>2. \A u \in Tasks : actor'[u].at # "off" => u # t /\ actor[u].at # "off"
      BY <1>0, <3>1 DEF Idle
    <3>3. QED
      BY <2>1, <2>5, <3>2 DEF SlotInv
  <2>7. \A r \in Roles : Paid(r)' \subseteq Paid(r)
    BY <2>2, <2>3, <2>5 DEF Paid, OfRole, Worked
  <2>8. CASE ledger'.slots = ledger.slots
    <3>1. \A r \in Roles : ledger'.slots[r] >= ledger.slots[r]
      BY <1>0, <2>8
    <3>2. QED
      BY <2>6, <2>7, <3>1, NothingNewPaid DEF SlotInv
  <2>9. CASE ledger'.slots # ledger.slots
    <3>1. RecordFailed(t) /\ actor[t].infra
      <4>1. RecordFailed(t)
        BY <1>0, <1>7, <2>9 DEF RecordDone, Ledgers
      <4>2. ASSUME ~actor[t].infra PROVE FALSE
        <5>1. ledger' = [ledger EXCEPT !.slots[RoleOf[t]] = @]
          BY <4>1, <4>2 DEF RecordFailed, Release
        <5>2. QED
          BY <1>0, <2>9, <5>1 DEF Ledgers
      <4>3. QED
        BY <4>1, <4>2
    <3>2. call'.remaining = call.remaining \ {t}
      BY <1>0, <3>1 DEF RecordFailed, DelegateCalls
    <3>3. ASSUME NEW r \in Roles PROVE Cardinality(Paid(r)') <= ledger'.slots[r]
      <4>1. CASE r # RoleOf[t]
        <5>1. ledger'.slots[r] = ledger.slots[r]
          BY <1>0, <3>1, <4>1 DEF RecordFailed, Release, Ledgers
        <5>2. QED
          BY <1>0, <2>7, <5>1, NothingNewPaid
      <4>2. CASE r = RoleOf[t]
        <5>1. Paid(r)' \subseteq Paid(r) \ {t}
          BY <2>3, <2>4, <3>1, <3>2 DEF Paid, OfRole, Worked
        <5>2. t \in Paid(r)
          BY <2>2, <4>2 DEF Paid, OfRole
        <5>3. /\ Cardinality(Paid(r)') <= Cardinality(Paid(r)) - 1
              /\ Cardinality(Paid(r)') \in Nat
          BY <5>1, <5>2, PaidIsFinite, FS_RemoveElement, FS_Subset, FS_CardinalityType
        <5>4. ledger.slots[r] > 0 /\ Cardinality(Paid(r)) <= ledger.slots[r]
          BY <1>0, <5>3, PaidIsFinite DEF SlotInv
        <5>5. ledger'.slots[r] = ledger.slots[r] - 1
          BY <1>0, <3>1, <4>2, <5>4 DEF RecordFailed, Release, Ledgers
        <5>6. QED
          BY <1>0, <5>3, <5>4, <5>5, PaidIsFinite
      <4>3. QED
        BY <4>1, <4>2
    <3>4. QED
      BY <2>6, <3>3 DEF SlotInv
  <2>10. QED
    BY <2>8, <2>9
<1>8. CASE Interrupt
  <2>1. /\ call'.remaining = call.remaining /\ call'.state # "running"
        /\ UNCHANGED <<tree, ledger>>
    BY <1>0, <1>8 DEF Interrupt, DelegateCalls
  <2>2. QED
    BY <1>1, <2>1 DEF Worked
<1>9. ASSUME NEW t \in Tasks, Executor(t) PROVE SlotInv'
  <2>1. actor[t].at # "off" /\ \E a \in Execution : Advances(t, a)
    BY <1>0, <1>9, ExecutorStepAdvances DEF Executor
  <2>2. \A u \in Tasks \ {t} : actor'[u] = actor[u]
    BY <1>0, <2>1 DEF Advances
  <2>3. UNCHANGED <<tree, ledger, call>>
    BY <1>9 DEF Executor
  <2>4. AtWorkRemains
    BY <2>1, <2>2, <2>3 DEF SlotInv
  <2>5. QED
    BY <1>1, <2>3, <2>4 DEF Worked
<1>10. CASE (WallTimeEnds /\ UNCHANGED delegateVars) \/ UNCHANGED vars
  <2>1. UNCHANGED <<tree, ledger, call, actor>>
    BY <1>10 DEF WallTimeEnds, vars
  <2>2. AtWorkRemains
    BY <2>1 DEF SlotInv
  <2>3. QED
    BY <1>1, <2>1, <2>2 DEF Worked
<1>11. QED
  BY <1>2, <1>3, <1>4, <1>5, <1>6, <1>7, <1>8, <1>9, <1>10 DEF Next, Scheduler

-----------------------------------------------------------------------------
(***************************************************************************)
(* The theorems                                                            *)
(***************************************************************************)
DelegateInv == TypeOK /\ SoundInv /\ WorkInv /\ RecordInv /\ BatchInv /\ SlotInv

LEMMA DelegateInitial == Init => DelegateInv
<1> SUFFICES ASSUME Init PROVE DelegateInv
  OBVIOUS
<1>1. ExecutorTypeOK
  BY IdleType DEF Init, ExecutorInit, ExecutorTypeOK
<1>2. tree \in [Tasks -> Node]
  BY StatusDomain DEF Init, Node
<1>3. ledger \in Ledgers
  BY DEF Init, Ledgers
<1>4. call \in DelegateCalls
  BY DEF Init, NoCall, DelegateCalls
<1>5. SoundInv
  BY FreshSound, ExecutorAssumption DEF Init, ExecutorInit, SoundInv
<1>6. \A t \in Tasks : actor[t].at = "off" /\ worktree[t] = "none"
  BY DEF Init, ExecutorInit, Idle
<1>7. WorkInv /\ RecordInv /\ BatchInv
  BY <1>6 DEF Init, WorkInv, RecordInv, BatchInv, CleanUpNeverSkipped, NoCall, Running
<1>8. SlotInv
  <2>1. /\ \A t \in Tasks : tree[t].summary = "none"
        /\ call.remaining = {} /\ call.state = "none"
        /\ \A r \in Roles : ledger.slots[r] = 0
    BY DEF Init, NoCall
  <2>2. \A r \in Roles : Paid(r) = {}
    BY <2>1 DEF Paid, Worked, OfRole
  <2>3. QED
    BY <2>1, <2>2, FS_EmptySet DEF SlotInv
<1>9. QED
  BY <1>1, <1>2, <1>3, <1>4, <1>5, <1>7, <1>8 DEF DelegateInv, TypeOK, Init

LEMMA DelegateInvariant == Spec => []DelegateInv
<1>1. DelegateInv /\ [Next]_vars => DelegateInv'
  BY TypeStep, SoundStep, WorkStep, RecordStep, BatchStep, SlotStep DEF DelegateInv
<1>2. QED
  BY DelegateInitial, <1>1, PTL DEF Spec

\* Every step leaves executions, records, ledger and call well formed, for any
\* batch of any tasks (the task state and ledger models).
THEOREM DelegateTypeCorrect == Spec => []TypeOK
<1>1. DelegateInv => TypeOK
  BY DEF DelegateInv
<1>2. QED
  BY <1>1, DelegateInvariant, PTL

\* Whatever is repaired, fails or is cancelled, a Coder that is done exports exactly
\* what the last passing run of its gates left (the verification loop of execute).
THEOREM GatesAlwaysHaveLastWord == Spec => []GatesHaveLastWord
<1>1. DelegateInv => GatesHaveLastWord
  BY DEF DelegateInv, SoundInv, Sound, GatesHaveLastWord
<1>2. QED
  BY <1>1, DelegateInvariant, PTL

\* Any number of executions claim repairs at once, and the Run's budget and each
\* task's limit hold (claim_repair_attempt and the repair loop).
THEOREM RepairsStayBounded == Spec => []RepairsBounded
<1>1. DelegateInv => RepairsBounded
  BY DEF DelegateInv, SoundInv, Sound, RepairsBounded
<1>2. QED
  BY <1>1, DelegateInvariant, PTL

\* No failure or interrupt takes the worktree from an execution at work or skips the
\* clean-up of one that is over, and one that is done has tried its teardown (the
\* finally block of execute, and gather in the delegate tool).
THEOREM CleanUpIsNeverSkipped == Spec => []CleanUpNeverSkipped
<1>1. DelegateInv => CleanUpNeverSkipped
  BY DEF DelegateInv, WorkInv
<1>2. QED
  BY <1>1, DelegateInvariant, PTL

\* The order the policy asks of a batch is kept by its rounds, for any acyclic
\* dependencies: no Actor that must follow a Scout works before one completed,
\* unless a task of the batch was blocked (execute).
THEOREM ScoutsGoFirst == Spec => []ScoutsFirst
<1>1. DelegateInv => ScoutsFirst
  BY DEF DelegateInv, BatchInv, ScoutsFirst, ScoutedStrategy, Free, SomeBlocked
<1>2. QED
  BY <1>1, DelegateInvariant, PTL

\* A call that returns has settled its whole batch, for any dependencies (the
\* rounds of execute).
THEOREM ReturnsSettled == Spec => []ReturnSettlesBatch
<1>1. DelegateInv => ReturnSettlesBatch
  BY DEF DelegateInv, BatchInv, ReturnSettlesBatch
<1>2. QED
  BY <1>1, DelegateInvariant, PTL

\* No step changes what an Actor has finished (ValidTransitions, the ownership
\* checks of update_state, and that a call records only what it runs).
THEOREM ResultsAlwaysStand == Spec => ResultsStand
<1> DEFINE Stands == \A t \in Tasks :
                       tree[t].owned /\ tree[t].status = "done" => tree'[t] = tree[t]
<1>1. ASSUME DelegateInv, [Next]_vars PROVE Stands
  <2> USE <1>1 DEF DelegateInv
  <2> USE DEF executorVars, delegateVars
  <2>0. /\ tree \in [Tasks -> Node] /\ actor \in [Tasks -> Execution]
        /\ call.remaining \subseteq Tasks
    BY CallFields DEF TypeOK, ExecutorTypeOK
  <2>1. CASE (\E t \in Tasks : AddTask(t) \/ AddSummary(t)
                \/ \E s \in {"running", "done", "failed", "blocked"} : UpdateTask(t, s))
    BY <2>1, PlannerPlans DEF Planning
  <2>2. ASSUME NEW batch \in SUBSET Tasks, Delegate(batch) PROVE Stands
    <3>1. \A t \in Tasks : MayBecome(t, "running") => tree[t].status # "done"
      BY DEF MayBecome, ValidTransitions
    <3>2. \A t \in Tasks : tree'[t] # tree[t] => MayBecome(t, "running")
      BY <2>0, <2>2 DEF Delegate
    <3>3. QED
      BY <3>1, <3>2
  <2>3. CASE BeginRound
    <3>1. \A t \in Tasks : tree'[t] # tree[t] => t \in call.remaining /\ call.state = "running"
      BY <2>0, <2>3 DEF BeginRound, Blocked
    <3>2. QED
      BY <3>1 DEF RecordInv
  <2>4. ASSUME NEW t \in Tasks, RecordDone(t) \/ RecordFailed(t) PROVE Stands
    <3>1. RecordResult(t) /\ actor[t].at = "result"
      BY <2>4 DEF RecordDone, RecordFailed, At
    <3>2. tree[t].status = "running"
      BY <3>1 DEF RecordInv
    <3>3. QED
      BY <3>1, <3>2, RecordWrites
  <2>5. CASE \/ EndCancelled \/ Interrupt \/ UNCHANGED vars
             \/ \E t \in Tasks : StartActor(t) \/ NoDescription(t) \/ Executor(t)
             \/ WallTimeEnds /\ UNCHANGED delegateVars
    BY <2>5 DEF EndCancelled, Interrupt, vars, StartActor, NoDescription, Executor
  <2>6. QED
    BY <2>1, <2>2, <2>3, <2>4, <2>5 DEF Next, Scheduler
<1>3. DelegateInv /\ [Next]_vars => [Stands]_vars
  BY <1>1
<1>4. QED
  BY <1>3, DelegateInvariant, PTL DEF Spec, ResultsStand

\* An Actor that worked keeps its slot through retries, refunds of others and
\* calls that end half way, for any number of calls (reserve_actors and
\* release_actor_reservation).
THEOREM WorkAlwaysKeepsItsSlot == Spec => []WorkKeepsItsSlot
<1>1. ASSUME DelegateInv PROVE WorkKeepsItsSlot
  <2> DEFINE W(r) == {t \in OfRole(Tasks, r) : tree[t].summary = "actor" /\ ~tree[t].infra}
  <2>1. ASSUME NEW r \in Roles PROVE Cardinality(W(r)) <= ledger.slots[r]
    <3>1. W(r) \subseteq Paid(r)
      BY DEF Paid, Worked
    <3>2. Cardinality(W(r)) <= Cardinality(Paid(r)) /\ Cardinality(W(r)) \in Nat
      BY <3>1, PaidIsFinite, FS_Subset, FS_CardinalityType
    <3>3. Cardinality(Paid(r)) <= ledger.slots[r] /\ ledger.slots[r] \in Nat
      BY <1>1 DEF DelegateInv, SlotInv, TypeOK, Ledgers
    <3>4. QED
      BY <3>2, <3>3, PaidIsFinite
  <2>2. QED
    BY <2>1 DEF WorkKeepsItsSlot
<1>2. QED
  BY <1>1, DelegateInvariant, PTL

-----------------------------------------------------------------------------
(***************************************************************************)
(* A call in progress: what is left of it, and that it can go on           *)
(***************************************************************************)
\* A record a call can give up or record: past the loop it says how that ended.
Tells(a) ==
  a.at \notin {"off", "startup", "acting"} => a.status \in {"done", "failed"}

TellInv == call.state = "running" => \A t \in Tasks : Tells(actor[t])

\* What one step of an execution costs it.
Spends(t, b) ==
  /\ actor' = [actor EXCEPT ![t] = b]
  /\ b.at # "off"
  /\ Effort(b) \in Nat /\ Effort(b) < Effort(actor[t])
  /\ Tells(actor[t]) => Tells(b)

\* The effort of an execution by its phase.
LEMMA EffortBounds ==
  ASSUME NEW t \in Tasks, NEW a \in Execution, Sound(t, a)
  PROVE  /\ Effort(a) \in Nat /\ Effort(a) >= 1
         /\ a.at \notin {"off", "result"} => Effort(a) >= 2
         /\ a.at \notin {"off", "result", "cleanup"} => Effort(a) >= 3
         /\ a.at = "result" => Effort(a) = 1
         /\ a.at = "cleanup" => Effort(a) = 2
         /\ a.at = "extracting" => Effort(a) = 3
<1>1. a.tried \in Nat /\ a.tried <= RepairLimit /\ RepairLimit \in Nat /\ a.at \in Phases
  BY LimitType DEF Sound, Execution
<1>2. 3 * (RepairLimit - a.tried) \in Nat
  BY <1>1
<1>3. QED
  BY <1>1, <1>2 DEF Effort, Phases

\* Every step of an execution brings it nearer to its result.
LEMMA ExecutorStepSpends ==
  ASSUME ExecutorTypeOK, NEW t \in Tasks, Sound(t, actor[t]), ExecutorStep(t)
  PROVE  \E b \in Execution : Spends(t, b)
<1> DEFINE Goal == \E b \in Execution : Spends(t, b)
<1>0. /\ actor[t] \in Execution /\ actor[t].tried \in Nat
      /\ actor[t].tried <= RepairLimit /\ RepairLimit \in Nat
      /\ 3 * (RepairLimit - actor[t].tried) \in Nat
  BY LimitType DEF ExecutorTypeOK, Sound, Execution
<1>1. ASSUME NEW i \in BOOLEAN, Becomes(t, Ends(t, "failed", i, "cleanup")),
             actor[t].at \notin {"off", "result", "cleanup"}
      PROVE  Goal
  <2> DEFINE b == Ends(t, "failed", i, "cleanup")
  <2>1. b \in Execution
    BY EndsType DEF Statuses, Phases
  <2>2. b.at = "cleanup" /\ b.status = "failed"
    BY DEF Ends, Idle
  <2>3. Effort(b) = 2 /\ Effort(actor[t]) >= 3 /\ Effort(actor[t]) \in Nat
    BY <1>0, <1>1, <2>1, <2>2, EndsSound, EffortBounds
  <2>4. Spends(t, b)
    BY <1>1, <2>1, <2>2, <2>3 DEF Spends, Becomes, Tells
  <2>5. QED
    BY <2>1, <2>2, <2>4
<1>2. CASE Startup(t)
  <2>1. CASE Becomes(t, [actor[t] EXCEPT !.at = "acting"])
    <3> DEFINE b == [actor[t] EXCEPT !.at = "acting"]
    <3>1. b \in Execution /\ b.at = "acting" /\ b.tried = actor[t].tried
      BY <1>0 DEF Execution, Phases
    <3>2. Effort(b) = 5 + 3 * (RepairLimit - actor[t].tried)
      BY <3>1 DEF Effort
    <3>3. Effort(actor[t]) = 6 + 3 * (RepairLimit - actor[t].tried)
      BY <1>2 DEF Startup, At, Effort
    <3>4. Spends(t, b)
      BY <1>0, <2>1, <3>1, <3>2, <3>3 DEF Spends, Becomes, Tells
    <3>5. QED
      BY <3>1, <3>2, <3>4
  <2>2. QED
    BY <1>1, <1>2, <2>1 DEF Startup, At
<1>3. CASE FinishLoop(t)
  <2>1. ASSUME NEW p \in {"verifying", "extracting"}, NEW s \in {"done", "failed"},
               NEW i \in BOOLEAN,
               Becomes(t, [Edited(t) EXCEPT !.at = p, !.status = s, !.infra = i])
        PROVE  Goal
    <3> DEFINE b == [Edited(t) EXCEPT !.at = p, !.status = s, !.infra = i]
    <3>1. b \in Execution /\ b.at = p /\ b.status = s /\ b.tried = actor[t].tried
      <4>1. p \in Phases /\ s \in {"none", "done", "failed", "cancelled"}
        BY DEF Phases
      <4>2. QED
        BY <1>0, <4>1, EditedType DEF Execution
    <3>2. Effort(b) \in {3, 4 + 3 * (RepairLimit - actor[t].tried)}
      BY <3>1 DEF Effort
    <3>3. Effort(actor[t]) = 5 + 3 * (RepairLimit - actor[t].tried)
      BY <1>3 DEF FinishLoop, At, Effort
    <3>4. Spends(t, b)
      BY <1>0, <2>1, <3>1, <3>2, <3>3 DEF Spends, Becomes, Tells
    <3>5. QED
      BY <3>1, <3>2, <3>4
  <2>2. CASE Becomes(t, [Edited(t) EXCEPT !.at =
               IF RoleOf[t] = "coder" /\ Gates THEN "verifying" ELSE "extracting",
               !.status = "done"])
    <3> DEFINE p == IF RoleOf[t] = "coder" /\ Gates THEN "verifying" ELSE "extracting"
    <3>1. [Edited(t) EXCEPT !.at = p, !.status = "done"]
            = [Edited(t) EXCEPT !.at = p, !.status = "done", !.infra = actor[t].infra]
      BY <1>0 DEF Edited, Execution
    <3>2. actor[t].infra \in BOOLEAN
      BY <1>0 DEF Execution
    <3>3. QED
      BY <2>1, <2>2, <3>1, <3>2
  <2>3. ASSUME NEW i \in BOOLEAN, Becomes(t, Ends(t, "failed", i, "cleanup")) PROVE Goal
    BY <1>1, <1>3, <2>3 DEF FinishLoop, At
  <2>4. QED
    BY <1>3, <2>1, <2>2, <2>3 DEF FinishLoop
<1>4. CASE GatesPass(t)
  <2> DEFINE b == [Edited(t) EXCEPT !.at = "extracting", !.passed = actor[t].version + 1]
  <2>1. b \in Execution /\ b.at = "extracting" /\ b.status = actor[t].status
    BY <1>0, EditedType DEF Execution, Phases
  <2>2. Effort(b) = 3 /\ Effort(actor[t]) = 4 + 3 * (RepairLimit - actor[t].tried)
    BY <1>4, <2>1 DEF GatesPass, At, Effort
  <2>3. Spends(t, b)
    BY <1>0, <1>4, <2>1, <2>2 DEF GatesPass, At, Spends, Becomes, Tells
  <2>4. QED
    BY <2>1, <2>2, <2>3
<1>5. ASSUME NEW f \in Fingerprints, GatesFail(t, f) PROVE Goal
  <2>1. CASE f \notin actor[t].seen /\ actor[t].tried < RepairLimit
    <3> DEFINE b == [Edited(t) EXCEPT !.at = "claiming", !.seen = @ \cup {f}]
    <3>1. /\ b \in Execution /\ b.at = "claiming" /\ b.tried = actor[t].tried
          /\ b.status = actor[t].status
      BY <1>0, EditedType DEF Execution, Phases
    <3>2. Effort(b) = 3 + 3 * (RepairLimit - actor[t].tried)
      BY <3>1 DEF Effort
    <3>3. Effort(actor[t]) = 4 + 3 * (RepairLimit - actor[t].tried)
      BY <1>5 DEF GatesFail, At, Effort
    <3>4. Spends(t, b)
      BY <1>0, <1>5, <2>1, <3>1, <3>2, <3>3 DEF GatesFail, At, Spends, Becomes, Tells
    <3>5. QED
      BY <3>1, <3>2, <3>4
  <2>2. CASE ~(f \notin actor[t].seen /\ actor[t].tried < RepairLimit)
    BY <1>1, <1>5, <2>2 DEF GatesFail, At
  <2>3. QED
    BY <2>1, <2>2
<1>6. CASE GatesRaise(t)
  BY <1>1, <1>6 DEF GatesRaise, At
<1>7. CASE ClaimRepair(t)
  <2>1. CASE ~late /\ repairs < MaxRepairs
    <3> DEFINE b == [actor[t] EXCEPT !.at = "repairing", !.tried = @ + 1]
    <3>1. /\ b \in Execution /\ b.at = "repairing" /\ b.tried = actor[t].tried + 1
          /\ b.status = actor[t].status
      <4>1. actor[t].tried + 1 \in Nat /\ "repairing" \in Phases
        BY <1>0 DEF Phases
      <4>2. QED
        BY <1>0, <4>1 DEF Execution
    <3>2. Effort(b) = 5 + 3 * (RepairLimit - (actor[t].tried + 1))
      BY <3>1 DEF Effort
    <3>3. /\ Effort(actor[t]) = 3 + 3 * (RepairLimit - actor[t].tried)
          /\ actor[t].tried < RepairLimit
      BY <1>7 DEF ClaimRepair, At, Effort, Sound
    <3>4. Spends(t, b)
      BY <1>0, <1>7, <2>1, <3>1, <3>2, <3>3 DEF ClaimRepair, At, Spends, Becomes, Tells
    <3>5. QED
      BY <3>1, <3>2, <3>4
  <2>2. CASE ~(~late /\ repairs < MaxRepairs)
    BY <1>1, <1>7, <2>2 DEF ClaimRepair, At
  <2>3. QED
    BY <2>1, <2>2
<1>8. CASE FinishRepair(t)
  <2>1. CASE Becomes(t, [Edited(t) EXCEPT !.at = "verifying"])
    <3> DEFINE b == [Edited(t) EXCEPT !.at = "verifying"]
    <3>1. /\ b \in Execution /\ b.at = "verifying" /\ b.tried = actor[t].tried
          /\ b.status = actor[t].status
      BY <1>0, EditedType DEF Execution, Phases, Edited
    <3>2. Effort(b) = 4 + 3 * (RepairLimit - actor[t].tried)
      BY <3>1 DEF Effort
    <3>3. Effort(actor[t]) = 5 + 3 * (RepairLimit - actor[t].tried)
      BY <1>8 DEF FinishRepair, At, Effort
    <3>4. Spends(t, b)
      BY <1>0, <1>8, <2>1, <3>1, <3>2, <3>3 DEF FinishRepair, At, Spends, Becomes, Tells
    <3>5. QED
      BY <3>1, <3>2, <3>4
  <2>2. ASSUME NEW i \in BOOLEAN, Becomes(t, Ends(t, "failed", i, "cleanup")) PROVE Goal
    BY <1>1, <1>8, <2>2 DEF FinishRepair, At
  <2>3. QED
    BY <1>8, <2>1, <2>2 DEF FinishRepair
<1>9. CASE Extract(t)
  <2>1. PICK v \in {NoVersion, actor[t].version} :
          Becomes(t, [actor[t] EXCEPT !.at = "cleanup", !.diff = v])
    BY <1>9 DEF Extract
  <2> DEFINE b == [actor[t] EXCEPT !.at = "cleanup", !.diff = v]
  <2>2. b \in Execution /\ b.at = "cleanup" /\ b.status = actor[t].status
    <3>1. v \in Nat /\ "cleanup" \in Phases
      BY <1>0 DEF Execution, Phases, NoVersion
    <3>2. QED
      BY <1>0, <3>1 DEF Execution
  <2>3. Effort(b) = 2 /\ Effort(actor[t]) = 3
    BY <1>9, <2>2 DEF Extract, At, Effort
  <2>4. actor' = [actor EXCEPT ![t] = b]
    BY <2>1 DEF Becomes
  <2>5. Tells(actor[t]) => Tells(b)
    BY <1>9, <2>2 DEF Extract, At, Tells
  <2>6. Spends(t, b)
    BY <2>2, <2>3, <2>4, <2>5 DEF Spends
  <2>7. QED
    BY <2>2, <2>6
<1>10. CASE CleanUp(t)
  <2> DEFINE b == [actor[t] EXCEPT !.at = "result"]
  <2>1. b \in Execution /\ b.at = "result" /\ b.status = actor[t].status
    BY <1>0 DEF Execution, Phases
  <2>2. Effort(b) = 1 /\ Effort(actor[t]) = 2
    BY <1>10, <2>1 DEF CleanUp, At, Effort
  <2>3. Spends(t, b)
    BY <1>10, <2>1, <2>2 DEF CleanUp, At, Spends, Becomes, Tells
  <2>4. QED
    BY <2>1, <2>2, <2>3
<1>11. QED
  BY <1>2, <1>3, <1>4, <1>5, <1>6, <1>7, <1>8, <1>9, <1>10 DEF ExecutorStep

\* Nothing a call in progress records is without an end.
LEMMA TellStep ==
  TypeOK /\ SoundInv /\ WorkInv /\ TellInv /\ [Next]_vars => TellInv'
<1> SUFFICES ASSUME TypeOK, SoundInv, WorkInv, TellInv, [Next]_vars, call'.state = "running"
             PROVE  \A u \in Tasks : Tells(actor'[u])
  BY DEF TellInv, Tells
<1> USE DEF executorVars, delegateVars
<1>0. actor \in [Tasks -> Execution] /\ call \in DelegateCalls
  BY DEF TypeOK, ExecutorTypeOK
<1>1. ASSUME NEW t \in Tasks, NEW b \in Execution, actor' = [actor EXCEPT ![t] = b],
             Tells(b), call.state = "running"
      PROVE  \A u \in Tasks : Tells(actor'[u])
  BY <1>0, <1>1 DEF TellInv
<1>2. CASE UNCHANGED <<actor, call>>
  BY <1>2 DEF TellInv, Tells
<1>3. ASSUME Idling, UNCHANGED actor PROVE \A u \in Tasks : Tells(actor'[u])
  BY <1>3 DEF WorkInv, Tells
<1>4. CASE BeginRound
  BY <1>4 DEF BeginRound, TellInv, Tells
<1>5. ASSUME NEW t \in Tasks, StartActor(t) PROVE \A u \in Tasks : Tells(actor'[u])
  <2>1. call.state = "running"
    BY <1>5 DEF StartActor, WorkInv
  <2>2. PICK b : Becomes(t, b) /\ b \in {
            [Idle EXCEPT !.at = "result", !.status = "failed", !.infra = TRUE],
            [Idle EXCEPT !.at = "cleanup", !.status = "failed", !.infra = TRUE],
            [Idle EXCEPT !.at = "startup"]}
    BY <1>5 DEF StartActor, Setup
  <2>3. b \in Execution /\ Tells(b)
    <3>1. ASSUME NEW p \in {"result", "cleanup"}
          PROVE  /\ [Idle EXCEPT !.at = p, !.status = "failed", !.infra = TRUE] \in Execution
                 /\ Tells([Idle EXCEPT !.at = p, !.status = "failed", !.infra = TRUE])
      BY FreshType DEF Idle, Phases, Statuses, Tells
    <3>2. [Idle EXCEPT !.at = "startup"] \in Execution /\ Tells([Idle EXCEPT !.at = "startup"])
      BY DEF Idle, Execution, Phases, NoVersion, Tells
    <3>3. QED
      BY <2>2, <3>1, <3>2
  <2>4. QED
    BY <1>1, <2>1, <2>2, <2>3 DEF Becomes
<1>6. ASSUME NEW t \in Tasks, NoDescription(t) PROVE \A u \in Tasks : Tells(actor'[u])
  <2> DEFINE b == [Idle EXCEPT !.at = "result", !.status = "failed"]
  <2>1. b \in Execution /\ Tells(b)
    BY DEF Idle, Execution, Phases, NoVersion, Tells
  <2>2. call.state = "running" /\ Becomes(t, b)
    BY <1>6 DEF NoDescription, WorkInv
  <2>3. QED
    BY <1>1, <2>1, <2>2 DEF Becomes
<1>7. ASSUME NEW t \in Tasks, RecordDone(t) \/ RecordFailed(t)
      PROVE  \A u \in Tasks : Tells(actor'[u])
  <2>1. Idle \in Execution /\ Tells(Idle)
    BY IdleType DEF Idle, Tells
  <2>2. CASE RecordDone(t) /\ late
    BY <2>2 DEF RecordDone, NoCall
  <2>3. CASE ~(RecordDone(t) /\ late)
    <3>1. call.state = "running" /\ Becomes(t, Idle)
      BY <1>7, <2>3 DEF RecordDone, RecordFailed, Gathered, Clear
    <3>2. QED
      BY <1>1, <2>1, <3>1 DEF Becomes
  <2>4. QED
    BY <2>2, <2>3
<1>8. ASSUME NEW t \in Tasks, Executor(t) PROVE \A u \in Tasks : Tells(actor'[u])
  <2>1. PICK b \in Execution : Spends(t, b)
    BY <1>8, ExecutorStepSpends DEF Executor, TypeOK, SoundInv
  <2>2. call.state = "running"
    BY <1>8 DEF Executor
  <2>3. Tells(b)
    BY <2>1, <2>2 DEF Spends, TellInv
  <2>4. QED
    BY <1>1, <2>1, <2>2, <2>3 DEF Spends
<1>9. CASE Interrupt \/ EndCancelled
  BY <1>0, <1>9 DEF Interrupt, EndCancelled, NoCall, DelegateCalls
<1>10. ASSUME NEW batch \in SUBSET Tasks, Delegate(batch)
       PROVE  \A u \in Tasks : Tells(actor'[u])
  BY <1>3, <1>10 DEF Delegate, PlannerCall
<1>11. ASSUME NEW t \in Tasks,
              \/ AddTask(t) \/ AddSummary(t)
              \/ \E s \in {"running", "done", "failed", "blocked"} : UpdateTask(t, s)
       PROVE  UNCHANGED <<actor, call>>
  BY <1>11 DEF AddTask, AddSummary, UpdateTask
<1>12. CASE (WallTimeEnds /\ UNCHANGED delegateVars) \/ UNCHANGED vars
  BY <1>2, <1>12 DEF WallTimeEnds, vars
<1>13. QED
  BY <1>2, <1>4, <1>5, <1>6, <1>7, <1>8, <1>9, <1>10, <1>11, <1>12 DEF Next, Scheduler

\* It holds in every behaviour.
LEMMA TellInvariant == Spec => []TellInv
<1>1. Init => TellInv
  BY DEF Init, NoCall, TellInv
<1>2. DelegateInv /\ TellInv /\ [Next]_vars => TellInv'
  BY TellStep DEF DelegateInv
<1>3. QED
  BY <1>1, <1>2, DelegateInvariant, PTL DEF Spec

\* A step that takes from a task, or ends the call, or its time.
Shrinks ==
  /\ \A t \in Tasks : StepsLeft(t)' \in 0 .. StepsLeft(t)
  /\ late => late'
  /\ \/ ~late /\ late'
     \/ \E t \in Tasks : StepsLeft(t)' < StepsLeft(t)

\* What is left of a task is a number, and of one at work at least a step.
LEMMA StepsLeftBounds ==
  ASSUME DelegateInv, NEW t \in Tasks
  PROVE  /\ StepsLeft(t) \in Nat /\ StepsLeft(t) <= 8 + 3 * RepairLimit
         /\ ~At(t, "off") => StepsLeft(t) = Effort(actor[t]) /\ StepsLeft(t) >= 1
<1>1. actor[t] \in Execution /\ Sound(t, actor[t])
  BY DEF DelegateInv, TypeOK, ExecutorTypeOK, SoundInv
<1>2. RepairLimit \in Nat /\ 3 * RepairLimit \in Nat
  BY LimitType
<1>3. /\ Effort(actor[t]) \in Nat /\ Effort(actor[t]) >= 1
      /\ Effort(actor[t]) <= 6 + 3 * RepairLimit
  <2>1. /\ actor[t].tried \in Nat /\ actor[t].tried <= RepairLimit
        /\ actor[t].at \in Phases
    BY <1>1 DEF Sound, Execution
  <2>2. /\ 3 * (RepairLimit - actor[t].tried) \in Nat
        /\ 3 * (RepairLimit - actor[t].tried) <= 3 * RepairLimit
    BY <1>2, <2>1
  <2>3. QED
    BY <1>2, <2>1, <2>2 DEF Effort, Phases
<1>4. QED
  BY <1>2, <1>3 DEF StepsLeft

\* One task has moved on, and the rest of the call is as it was.
LEMMA OneMoves ==
  ASSUME DelegateInv, NEW t \in Tasks,
         StepsLeft(t)' \in Nat, StepsLeft(t)' < StepsLeft(t),
         \A u \in Tasks \ {t} : StepsLeft(u)' = StepsLeft(u), late' = late
  PROVE  Shrinks
<1>1. \A u \in Tasks : StepsLeft(u)' \in 0 .. StepsLeft(u)
  <2>1. \A u \in Tasks \ {t} : StepsLeft(u)' \in 0 .. StepsLeft(u)
    BY StepsLeftBounds
  <2>2. StepsLeft(t)' \in 0 .. StepsLeft(t)
    BY StepsLeftBounds
  <2>3. QED
    BY <2>1, <2>2
<1>2. QED
  BY <1>1 DEF Shrinks

\* Every step of a call ends it, takes from one of its tasks or from its time.
LEMMA CallShrinks == DelegateInv /\ ~Idling /\ [Next]_vars => Idling' \/ Shrinks \/ UNCHANGED vars
<1> SUFFICES ASSUME DelegateInv, ~Idling, Next PROVE Idling' \/ Shrinks
  OBVIOUS
<1> USE DEF executorVars, delegateVars
<1>0. /\ actor \in [Tasks -> Execution] /\ call \in DelegateCalls
      /\ RepairLimit \in Nat /\ 3 * RepairLimit \in Nat
  BY LimitType DEF DelegateInv, TypeOK, ExecutorTypeOK
<1>1. ASSUME NEW t \in Tasks, NEW b \in Execution, actor' = [actor EXCEPT ![t] = b],
             Effort(b) \in Nat, Effort(b) < StepsLeft(t), b.at # "off", late' = late,
             \/ call' = call
             \/ call' = [call EXCEPT !.ready = @ \ {t}]
      PROVE  Shrinks
  <2>1. StepsLeft(t)' = Effort(b)
    BY <1>0, <1>1 DEF StepsLeft, At
  <2>2. \A u \in Tasks \ {t} : StepsLeft(u)' = StepsLeft(u)
    BY <1>0, <1>1 DEF StepsLeft, At, DelegateCalls
  <2>3. QED
    BY <1>1, <2>1, <2>2, OneMoves
<1>2. ASSUME NEW t \in call.ready, t \in Tasks PROVE StepsLeft(t) = 7 + 3 * RepairLimit
  BY <1>2 DEF DelegateInv, WorkInv, StepsLeft, At
<1>3. CASE BeginRound
  <2>1. CASE Ready = {}
    BY <1>0, <1>3, <2>1 DEF BeginRound, Idling, DelegateCalls
  <2>2. CASE Ready # {}
    <3>1. /\ actor' = actor /\ late' = late /\ call.ready = {} /\ call.state = "running"
          /\ call'.ready = Ready /\ call'.remaining = call.remaining \ Blocked
          /\ call'.state = "running" /\ \A t \in Tasks : At(t, "off")
      BY <1>0, <1>3, <2>2 DEF BeginRound, DelegateCalls
    <3>2. Ready \subseteq call.remaining \ Blocked /\ call.remaining \subseteq Tasks
      BY <1>0 DEF Ready, DelegateCalls
    <3>3. \A t \in Tasks :
            /\ StepsLeft(t) = IF t \in call.remaining THEN 8 + 3 * RepairLimit ELSE 0
            /\ StepsLeft(t)' = IF t \in Ready THEN 7 + 3 * RepairLimit
                              ELSE IF t \in call.remaining \ Blocked THEN 8 + 3 * RepairLimit
                              ELSE 0
      BY <3>1 DEF StepsLeft, At
    <3>4. \A t \in Tasks : StepsLeft(t)' \in 0 .. StepsLeft(t)
      BY <1>0, <3>2, <3>3
    <3>5. PICK w \in Ready : w \in Tasks
      BY <2>2, <3>2
    <3>6. StepsLeft(w)' < StepsLeft(w)
      BY <1>0, <3>2, <3>3, <3>5
    <3>7. QED
      BY <3>1, <3>4, <3>5, <3>6 DEF Shrinks
  <2>3. QED
    BY <2>1, <2>2
<1>4. ASSUME NEW t \in Tasks, StartActor(t) PROVE Shrinks
  <2>1. /\ t \in call.ready /\ call' = [call EXCEPT !.ready = @ \ {t}] /\ late' = late
    BY <1>4 DEF StartActor, Setup
  <2>2. PICK b : Becomes(t, b) /\ b \in {
            [Idle EXCEPT !.at = "result", !.status = "failed", !.infra = TRUE],
            [Idle EXCEPT !.at = "cleanup", !.status = "failed", !.infra = TRUE],
            [Idle EXCEPT !.at = "startup"]}
    BY <1>4 DEF StartActor, Setup
  <2>3. /\ b \in Execution /\ b.at \in {"result", "cleanup", "startup"} /\ b.tried = 0
    <3>1. ASSUME NEW p \in {"result", "cleanup"}
          PROVE  /\ [Idle EXCEPT !.at = p, !.status = "failed", !.infra = TRUE] \in Execution
                 /\ [Idle EXCEPT !.at = p, !.status = "failed", !.infra = TRUE].at = p
                 /\ [Idle EXCEPT !.at = p, !.status = "failed", !.infra = TRUE].tried = 0
      BY FreshType DEF Idle, Phases, Statuses
    <3>2. /\ [Idle EXCEPT !.at = "startup"] \in Execution
          /\ [Idle EXCEPT !.at = "startup"].at = "startup"
          /\ [Idle EXCEPT !.at = "startup"].tried = 0
      BY DEF Idle, Execution, Phases, NoVersion
    <3>3. QED
      BY <2>2, <3>1, <3>2
  <2>4. Effort(b) \in Nat /\ Effort(b) <= 6 + 3 * RepairLimit
    BY <1>0, <2>3 DEF Effort
  <2>5. Effort(b) < StepsLeft(t)
    BY <1>0, <1>2, <2>1, <2>4
  <2>6. QED
    BY <1>1, <2>1, <2>2, <2>3, <2>4, <2>5 DEF Becomes
<1>5. ASSUME NEW t \in Tasks, NoDescription(t) PROVE Shrinks
  <2> DEFINE b == [Idle EXCEPT !.at = "result", !.status = "failed"]
  <2>1. /\ t \in call.ready /\ call' = [call EXCEPT !.ready = @ \ {t}] /\ late' = late
        /\ actor' = [actor EXCEPT ![t] = b]
    BY <1>5 DEF NoDescription, Becomes
  <2>2. b \in Execution /\ b.at = "result"
    BY DEF Idle, Execution, Phases, NoVersion
  <2>3. Effort(b) = 1
    BY <2>2 DEF Effort
  <2>4. Effort(b) \in Nat /\ Effort(b) < StepsLeft(t) /\ b.at # "off"
    BY <1>0, <1>2, <2>1, <2>2, <2>3
  <2> HIDE DEF b
  <2>5. QED
    BY <1>1, <2>1, <2>2, <2>4
<1>6. ASSUME NEW t \in Tasks, RecordDone(t) \/ RecordFailed(t) PROVE Idling' \/ Shrinks
  <2>1. CASE RecordDone(t) /\ late
    BY <2>1 DEF RecordDone, NoCall, Idling
  <2>2. CASE ~(RecordDone(t) /\ late)
    <3>1. /\ actor' = [actor EXCEPT ![t] = Idle] /\ late' = late /\ call.ready = {}
          /\ call'.ready = {} /\ call'.remaining = call.remaining \ {t}
          /\ call'.state = call.state /\ At(t, "result")
      BY <1>0, <1>6, <2>2 DEF RecordDone, RecordFailed, Gathered, Clear, Becomes, DelegateCalls
    <3>2. actor'[t].at = "off"
      BY <1>0, <3>1 DEF Idle
    <3>3. StepsLeft(t)' = 0
      BY <3>1, <3>2 DEF StepsLeft, At
    <3>4. StepsLeft(t) >= 1 /\ StepsLeft(t) \in Nat
      BY <3>1, StepsLeftBounds DEF At
    <3>5. \A u \in Tasks \ {t} : StepsLeft(u)' = StepsLeft(u)
      BY <1>0, <3>1 DEF StepsLeft, At
    <3>6. QED
      BY <3>1, <3>3, <3>4, <3>5, OneMoves
  <2>3. QED
    BY <2>1, <2>2
<1>7. ASSUME NEW t \in Tasks, Executor(t) PROVE Shrinks
  <2>1. PICK b \in Execution : Spends(t, b)
    BY <1>7, ExecutorStepSpends DEF Executor, DelegateInv, TypeOK, SoundInv
  <2>2. call' = call /\ late' = late /\ actor[t].at # "off"
    BY <1>7, ExecutorStepAdvances DEF Executor, DelegateInv, TypeOK
  <2>3. StepsLeft(t) = Effort(actor[t])
    BY <2>2, StepsLeftBounds DEF At
  <2>4. QED
    BY <1>1, <2>1, <2>2, <2>3 DEF Spends
<1>8. CASE Interrupt
  <2>1. /\ call'.ready = {} /\ call'.state = "cancelling" /\ late' = late
        /\ actor' = [t \in Tasks |-> Cancelled(t)] /\ Running # {}
    BY <1>0, <1>8 DEF Interrupt, DelegateCalls
  <2>2. ASSUME NEW t \in Tasks
        PROVE  /\ StepsLeft(t)' \in 0 .. StepsLeft(t)
               /\ t \in Running => StepsLeft(t)' < StepsLeft(t)
    <3>0. /\ actor[t] \in Execution /\ Sound(t, actor[t]) /\ actor'[t] = Cancelled(t)
          /\ StepsLeft(t) \in Nat
      BY <1>0, <2>1, StepsLeftBounds DEF DelegateInv, SoundInv
    <3>1. CASE At(t, "off")
      <4>1. StepsLeft(t)' = 0
        BY <2>1, <3>0, <3>1 DEF StepsLeft, Cancelled, At
      <4>2. QED
        BY <3>0, <3>1, <4>1 DEF Running, At
    <3>2. CASE At(t, "result")
      <4>1. StepsLeft(t)' = StepsLeft(t)
        BY <2>1, <3>0, <3>2 DEF StepsLeft, Cancelled, At
      <4>2. QED
        BY <3>0, <3>2, <4>1 DEF Running, At
    <3>3. CASE At(t, "cleanup")
      <4>1. actor'[t].at = "result"
        BY <3>0, <3>3 DEF Cancelled, At, Ends, Idle
      <4>2. StepsLeft(t)' = 1 /\ StepsLeft(t) = 2
        BY <3>3, <4>1 DEF StepsLeft, At, Effort
      <4>3. QED
        BY <4>2
    <3>4. CASE ~(At(t, "off") \/ At(t, "result") \/ At(t, "cleanup"))
      <4>1. actor'[t].at = "cleanup"
        BY <3>0, <3>4 DEF Cancelled, At, Ends, Idle
      <4>2. StepsLeft(t)' = 2
        BY <4>1 DEF StepsLeft, At, Effort
      <4>3. StepsLeft(t) >= 3
        BY <3>0, <3>4, EffortBounds, StepsLeftBounds DEF At
      <4>4. QED
        BY <3>0, <4>2, <4>3
    <3>5. QED
      BY <3>1, <3>2, <3>3, <3>4
  <2>3. QED
    BY <2>1, <2>2 DEF Shrinks, Running
<1>9. CASE EndCancelled
  BY <1>9 DEF EndCancelled, NoCall, Idling
<1>10. CASE WallTimeEnds /\ UNCHANGED delegateVars
  <2>1. \A t \in Tasks : StepsLeft(t)' = StepsLeft(t)
    BY <1>10 DEF WallTimeEnds, StepsLeft, At
  <2>2. \A t \in Tasks : StepsLeft(t)' \in 0 .. StepsLeft(t)
    BY <2>1, StepsLeftBounds
  <2>3. QED
    BY <1>10, <2>2 DEF Shrinks, WallTimeEnds
<1>11. QED
  BY <1>3, <1>4, <1>5, <1>6, <1>7, <1>8, <1>9, <1>10
     DEF Next, Scheduler, AddTask, AddSummary, UpdateTask, Delegate, PlannerCall

\* No call turns in circles, for any tasks, repairs, failures and interrupts: its
\* rounds, repairs and clean-ups use up what they share (execute of the delegate
\* tool and of the Actor executor).
THEOREM CallsRunOut == Spec => [][CallRunsOut]_vars
<1>1. DelegateInv /\ [Next]_vars => [CallRunsOut]_vars
  BY CallShrinks DEF CallRunsOut, Shrinks
<1>2. QED
  BY <1>1, DelegateInvariant, PTL DEF Spec

\* No call stands still with nothing at work: nothing an execution brings back is
\* without an end that the call can record (gather, and the loop behind it).
THEOREM CallsGoOn == Spec => []CallGoesOn
<1>1. DelegateInv /\ TellInv => CallGoesOn
  <2> SUFFICES ASSUME TellInv, call.state = "running", Running = {}
               PROVE  \/ \A t \in Tasks : At(t, "off")
                      \/ \E t \in Tasks : At(t, "result") /\ actor[t].status \in {"done", "failed"}
    BY DEF CallGoesOn
  <2>1. \A t \in Tasks : At(t, "off") \/ At(t, "result")
    BY DEF Running, At
  <2>2. QED
    BY <2>1 DEF TellInv, Tells, At
<1>2. QED
  BY <1>1, DelegateInvariant, TellInvariant, PTL

\* So a call only ever comes nearer to its end, for any tasks and failures.
THEOREM CallsAdvance == Spec => CallAdvances
BY CallsRunOut, CallsGoOn, PTL DEF CallAdvances
=============================================================================
