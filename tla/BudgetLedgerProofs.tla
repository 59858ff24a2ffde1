------------------------- MODULE BudgetLedgerProofs -------------------------
(***************************************************************************)
(* The ledger's guarantees for any policy, any number of Actors and any    *)
(* number of resumed processes: types, hard limits with matched slots,     *)
(* approval before the first model call, and the bound on the tokens by    *)
(* which responses that were under way may cross the limit.                *)
(***************************************************************************)
EXTENDS BudgetLedger, FiniteSetTheorems, SequenceTheorems, TLAPS

\* The limits of one snapshot, with as many roles as slots.
Within(s) ==
  /\ s.actors_started <= MaxActors
  /\ s.actor_start_attempts <= AttemptLimit
  /\ s.repair_attempts <= MaxRepairs
  /\ s.model_calls <= MaxModelCalls
  /\ s.actors_started = Len(s.actor_roles)

\* What is saved will be the ledger of the next process, so it has to be
\* within the limits as well.
LimitsInv == Within(snapshot) /\ Within(saved.snapshot)

\* Calls were made under an approval, and calls were saved together with it.
ApprovalInv ==
  /\ snapshot.model_calls > 0 => ApprovalSatisfied
  /\ saved.snapshot.model_calls > 0 => ~NeedsApproval \/ saved.approved

\* Room is left for the n responses under way.
Room(s, n) ==
  s.total_tokens + MaxResponse * n <= MaxTokens + MaxResponse * Cardinality(Loops)

TokenInv == Room(snapshot, Cardinality(InFlight)) /\ Room(saved.snapshot, 0)

-----------------------------------------------------------------------------
LEMMA AttemptLimitNat == AttemptLimit \in Nat
BY BudgetAssumption DEF AttemptLimit

LEMMA LoopsFinite ==
  /\ IsFiniteSet(Loops)
  /\ Cardinality(Loops) \in Nat
<1>1. IsFiniteSet(Actors \cup {Planner})
  BY BudgetAssumption, FS_AddElement
<1>2. Loops = Actors \cup {Planner}
  BY DEF Loops
<1>3. QED
  BY <1>1, <1>2, FS_CardinalityType

LEMMA InFlightFinite ==
  /\ IsFiniteSet(InFlight)
  /\ Cardinality(InFlight) \in Nat
  /\ Cardinality(InFlight) <= Cardinality(Loops)
<1>1. InFlight \in SUBSET Loops
  BY DEF InFlight
<1>2. QED
  BY <1>1, LoopsFinite, FS_Subset, FS_CardinalityType

LEMMA ActorsAreLoops == Planner \in Loops /\ Actors \subseteq Loops
BY DEF Loops

LEMMA EmptySnapshotType == EmptySnapshot \in SnapshotType
<1>1. <<>> \in Seq(Roles)
  BY EmptySeq
<1>2. QED
  BY <1>1 DEF EmptySnapshot, SnapshotType

\* The updates of a snapshot keep its type.
LEMMA SnapshotUpdates ==
  ASSUME NEW s \in SnapshotType, NEW n \in Nat, NEW done \in SUBSET Roles
  PROVE  /\ [s EXCEPT !.model_calls = @ + 1] \in SnapshotType
         /\ [s EXCEPT !.total_tokens = @ + n] \in SnapshotType
         /\ [s EXCEPT !.failed_tool_calls = n] \in SnapshotType
         /\ [s EXCEPT !.repair_attempts = @ + 1] \in SnapshotType
         /\ [s EXCEPT !.completed_actor_roles = @ \cup done] \in SnapshotType
<1>1. [s EXCEPT !.model_calls = @ + 1] \in SnapshotType
  BY DEF SnapshotType
<1>2. [s EXCEPT !.total_tokens = @ + n] \in SnapshotType
  BY DEF SnapshotType
<1>3. [s EXCEPT !.failed_tool_calls = n] \in SnapshotType
  BY DEF SnapshotType
<1>4. [s EXCEPT !.repair_attempts = @ + 1] \in SnapshotType
  BY DEF SnapshotType
<1>5. [s EXCEPT !.completed_actor_roles = @ \cup done] \in SnapshotType
  BY DEF SnapshotType
<1>6. QED
  BY <1>1, <1>2, <1>3, <1>4, <1>5

LEMMA SnapshotRoles ==
  ASSUME NEW s \in SnapshotType, NEW n \in Nat, NEW roles \in Seq(Roles)
  PROVE  /\ [s EXCEPT !.actors_started = @ + n, !.actor_start_attempts = @ + n,
                      !.actor_roles = @ \o roles] \in SnapshotType
         /\ [s EXCEPT !.actors_started = IF @ > 0 THEN @ - 1 ELSE 0,
                      !.actor_roles = roles] \in SnapshotType
<1>1. /\ s.actor_roles \in Seq(Roles) /\ s.actors_started \in Nat
      /\ s.actor_start_attempts \in Nat
  BY DEF SnapshotType
<1>2. s.actor_roles \o roles \in Seq(Roles)
  BY <1>1, ConcatProperties
<1>3. \A t \in SnapshotType, k \in Nat : [t EXCEPT !.actors_started = k] \in SnapshotType
  BY DEF SnapshotType
<1>4. \A t \in SnapshotType, k \in Nat :
        [t EXCEPT !.actor_start_attempts = k] \in SnapshotType
  BY DEF SnapshotType
<1>5. \A t \in SnapshotType, q \in Seq(Roles) :
        [t EXCEPT !.actor_roles = q] \in SnapshotType
  BY DEF SnapshotType
<1>6. /\ s.actors_started + n \in Nat
      /\ s.actor_start_attempts + n \in Nat
      /\ (IF s.actors_started > 0 THEN s.actors_started - 1 ELSE 0) \in Nat
  BY <1>1
<1>7. [s EXCEPT !.actors_started = @ + n] \in SnapshotType
  BY <1>3, <1>6, Zenon
<1>8. [s EXCEPT !.actors_started = @ + n, !.actor_start_attempts = s.actor_start_attempts + n]
        \in SnapshotType
  BY <1>4, <1>6, <1>7, Zenon
<1>9. /\ [s EXCEPT !.actors_started = @ + n,
                    !.actor_start_attempts = s.actor_start_attempts + n,
                    !.actor_roles = s.actor_roles \o roles] \in SnapshotType
       /\ [s EXCEPT !.actors_started = IF @ > 0 THEN @ - 1 ELSE 0,
                    !.actor_roles = roles] \in SnapshotType
  BY <1>2, <1>3, <1>5, <1>6, <1>8, Zenon
<1>10. QED
  BY <1>9

\* list.remove takes one entry and leaves a list of roles.
LEMMA RemoveRoleProperties ==
  ASSUME NEW roles \in Seq(Roles), NEW role,
         \E i \in DOMAIN roles : roles[i] = role
  PROVE  /\ RemoveRole(roles, role) \in Seq(Roles)
         /\ Len(RemoveRole(roles, role)) = Len(roles) - 1
<1> DEFINE n == CHOOSE i \in DOMAIN roles : roles[i] = role
           left == SubSeq(roles, 1, n - 1)
           right == SubSeq(roles, n + 1, Len(roles))
<1>1. n \in DOMAIN roles
  OBVIOUS
<1>2. Len(roles) \in Nat /\ n \in 1..Len(roles)
  BY <1>1, LenProperties
<1>3. \A i \in 1..Len(roles) : roles[i] \in Roles
  BY ElementOfSeq
<1> HIDE DEF n
<1>4. left \in Seq(Roles) /\ Len(left) = n - 1
  <2>1. n - 1 \in Int /\ \A i \in 1..(n - 1) : roles[i] \in Roles
    BY <1>2, <1>3
  <2>2. /\ SubSeq(roles, 1, n - 1) \in Seq(Roles)
        /\ Len(SubSeq(roles, 1, n - 1)) = IF 1 <= n - 1 THEN n - 1 - 1 + 1 ELSE 0
    BY <2>1, SubSeqProperties
  <2>3. QED
    BY <1>2, <2>2
<1>5. right \in Seq(Roles) /\ Len(right) = Len(roles) - n
  <2>1. n + 1 \in Int /\ Len(roles) \in Int
        /\ \A i \in (n + 1)..Len(roles) : roles[i] \in Roles
    BY <1>2, <1>3
  <2>2. /\ SubSeq(roles, n + 1, Len(roles)) \in Seq(Roles)
        /\ Len(SubSeq(roles, n + 1, Len(roles)))
             = IF n + 1 <= Len(roles) THEN Len(roles) - (n + 1) + 1 ELSE 0
    BY <2>1, SubSeqProperties
  <2>3. QED
    BY <1>2, <2>2
<1>6. /\ left \o right \in Seq(Roles)
      /\ Len(left \o right) = (n - 1) + (Len(roles) - n)
  BY <1>4, <1>5, ConcatProperties
<1>7. RemoveRole(roles, role) = left \o right
  BY DEF RemoveRole, n
<1> HIDE DEF left, right
<1>8. QED
  BY <1>2, <1>6, <1>7

\* The roles of a reservation are as many as its Actors.
LEMMA ReservedRolesProperties ==
  ASSUME NEW S \in SUBSET Actors, NEW order \in [1..Cardinality(S) -> S]
  PROVE  /\ Cardinality(S) \in Nat
         /\ [i \in DOMAIN order |-> RoleOf[order[i]]] \in Seq(Roles)
         /\ Len([i \in DOMAIN order |-> RoleOf[order[i]]]) = Cardinality(S)
<1>1. Cardinality(S) \in Nat
  BY BudgetAssumption, FS_Subset, FS_CardinalityType
<1>2. [i \in DOMAIN order |-> RoleOf[order[i]]] \in [1..Cardinality(S) -> Roles]
  BY BudgetAssumption
<1>3. QED
  BY <1>1, <1>2

-----------------------------------------------------------------------------
LEMMA InitType == Init => TypeOK
<1> SUFFICES ASSUME Init PROVE TypeOK
  OBVIOUS
<1>1. EmptySnapshot \in SnapshotType
  BY EmptySnapshotType
<1>2. [c \in Loops |-> IF c = Planner THEN "idle" ELSE "off"] \in [Loops -> LoopStates]
  BY DEF LoopStates
<1>3. QED
  BY <1>1, <1>2 DEF Init, TypeOK

LEMMA NextType == TypeOK /\ [Next]_vars => TypeOK'
<1> SUFFICES ASSUME TypeOK, [Next]_vars PROVE TypeOK'
  OBVIOUS
<1>t. /\ snapshot \in SnapshotType /\ approved \in BOOLEAN /\ late \in BOOLEAN
      /\ loop \in [Loops -> LoopStates]
      /\ saved \in [snapshot : SnapshotType, approved : BOOLEAN,
                    late : BOOLEAN, loop : [Loops -> LoopStates]]
      /\ segments \in Nat
  BY DEF TypeOK
<1>s. snapshot \in SnapshotType
  BY <1>t
<1>e. \A c \in Loops, s \in LoopStates : [loop EXCEPT ![c] = s] \in [Loops -> LoopStates]
  BY <1>t
<1> USE ActorsAreLoops, BudgetAssumption
<1>1. ASSUME NEW c \in Loops, ClaimModelCall(c) PROVE TypeOK'
  <2>1. [snapshot EXCEPT !.model_calls = @ + 1] \in SnapshotType
    BY <1>s, SnapshotUpdates
  <2>2. snapshot' \in SnapshotType /\ loop' \in [Loops -> LoopStates]
    BY <1>1, <1>t, <1>e, <2>1 DEF ClaimModelCall, Enter, LoopStates
  <2>3. QED
    BY <1>1, <1>t, <2>2 DEF ClaimModelCall, TypeOK
<1>2. ASSUME NEW c \in Loops, NEW count \in 0..MaxResponse, ChargeTokens(c, count)
      PROVE  TypeOK'
  <2>1. count \in Nat
    OBVIOUS
  <2>2. [snapshot EXCEPT !.total_tokens = @ + count] \in SnapshotType
    BY <1>s, <2>1, SnapshotUpdates
  <2>3. snapshot' \in SnapshotType /\ loop' \in [Loops -> LoopStates]
    BY <1>2, <1>t, <1>e, <2>2 DEF ChargeTokens, Enter, LoopStates
  <2>4. QED
    BY <1>2, <1>t, <2>3 DEF ChargeTokens, TypeOK
<1>3. ASSUME NEW c \in Loops, LoseCall(c) PROVE TypeOK'
  BY <1>3, <1>t, <1>e DEF LoseCall, Enter, LoopStates, TypeOK
<1>4. ASSUME NEW c \in Loops, ChargeFailedToolCall(c) PROVE TypeOK'
  <2>1. [snapshot EXCEPT !.failed_tool_calls = snapshot.failed_tool_calls + 1]
          \in SnapshotType
    <3>1. snapshot.failed_tool_calls + 1 \in Nat
      BY <1>s DEF SnapshotType
    <3>2. QED
      BY <1>s, <3>1, SnapshotUpdates
  <2>2. snapshot' \in SnapshotType /\ loop' \in [Loops -> LoopStates]
    BY <1>4, <1>t, <1>e, <2>1 DEF ChargeFailedToolCall, Enter, LoopStates
  <2>3. QED
    BY <1>4, <1>t, <2>2 DEF ChargeFailedToolCall, TypeOK
<1>5. ASSUME NEW S \in SUBSET Actors, ReserveActors(S) PROVE TypeOK'
  <2>1. PICK order \in [1..Cardinality(S) -> S] :
          snapshot' = [snapshot EXCEPT
              !.actors_started = @ + Cardinality(S),
              !.actor_start_attempts = @ + Cardinality(S),
              !.actor_roles = @ \o [i \in DOMAIN order |-> RoleOf[order[i]]]]
    BY <1>5 DEF ReserveActors
  <2> DEFINE new == [i \in DOMAIN order |-> RoleOf[order[i]]]
  <2>2. Cardinality(S) \in Nat /\ new \in Seq(Roles)
    BY ReservedRolesProperties
  <2> HIDE DEF new
  <2>3. [snapshot EXCEPT !.actors_started = @ + Cardinality(S),
                         !.actor_start_attempts = @ + Cardinality(S),
                         !.actor_roles = @ \o new] \in SnapshotType
    BY <1>s, <2>2, SnapshotRoles
  <2>4. snapshot' \in SnapshotType
    BY <2>1, <2>3 DEF new
  <2>5. loop' \in [Loops -> LoopStates]
    BY <1>5, <1>t DEF ReserveActors, LoopStates
  <2>6. QED
    BY <1>5, <1>t, <2>4, <2>5 DEF ReserveActors, TypeOK
<1>6. ASSUME NEW a \in Actors, ClaimRepairAttempt(a) PROVE TypeOK'
  <2>1. [snapshot EXCEPT !.repair_attempts = @ + 1] \in SnapshotType
    BY <1>s, SnapshotUpdates
  <2>2. snapshot' \in SnapshotType /\ loop' \in [Loops -> LoopStates]
    BY <1>6, <1>t, <1>e, <2>1 DEF ClaimRepairAttempt, Enter, LoopStates
  <2>3. QED
    BY <1>6, <1>t, <2>2 DEF ClaimRepairAttempt, TypeOK
<1>7. ASSUME NEW a \in Actors, ActorDone(a) PROVE TypeOK'
  <2>1. [snapshot EXCEPT !.completed_actor_roles = @ \cup {RoleOf[a]}] \in SnapshotType
    <3>1. {RoleOf[a]} \in SUBSET Roles
      OBVIOUS
    <3>2. QED
      BY <1>s, <3>1, SnapshotUpdates
  <2>2. snapshot' \in SnapshotType /\ loop' \in [Loops -> LoopStates]
    BY <1>7, <1>t, <1>e, <2>1 DEF ActorDone, Enter, LoopStates
  <2>3. QED
    BY <1>7, <1>t, <2>2 DEF ActorDone, TypeOK
<1>8. ASSUME NEW a \in Actors, ActorFailed(a) PROVE TypeOK'
  BY <1>8, <1>t, <1>e DEF ActorFailed, Enter, LoopStates, TypeOK
<1>9. ASSUME NEW a \in Actors, ReleaseActorReservation(a) PROVE TypeOK'
  <2> DEFINE present == \E i \in DOMAIN snapshot.actor_roles :
                          snapshot.actor_roles[i] = RoleOf[a]
             s == [snapshot EXCEPT !.actors_started = IF @ > 0 THEN @ - 1 ELSE 0,
                                   !.actor_roles = RemoveRole(@, RoleOf[a])]
  <2>1. present => s \in SnapshotType
    <3>1. snapshot.actor_roles \in Seq(Roles)
      BY <1>s DEF SnapshotType
    <3>2. present => RemoveRole(snapshot.actor_roles, RoleOf[a]) \in Seq(Roles)
      BY <3>1, RemoveRoleProperties
    <3>3. QED
      BY <1>s, <3>2, SnapshotRoles
  <2>2. snapshot' = IF present THEN s ELSE snapshot
    BY <1>9 DEF ReleaseActorReservation
  <2>3. loop' \in [Loops -> LoopStates]
    BY <1>9, <1>e DEF ReleaseActorReservation, Enter, LoopStates
  <2> HIDE DEF present, s
  <2>4. QED
    BY <1>9, <1>t, <2>1, <2>2, <2>3 DEF ReleaseActorReservation, TypeOK
<1>10. CASE GrantHumanApproval
  BY <1>10, <1>t DEF GrantHumanApproval, TypeOK
<1>11. CASE WallTimeExpires
  BY <1>11, <1>t DEF WallTimeExpires, TypeOK
<1>12. CASE Persist
  BY <1>12, <1>t DEF Persist, TypeOK
<1>13. CASE Restart
  <2>1. \A c \in Loops : saved.loop[c] \in LoopStates
    BY <1>t
  <2>2. loop' \in [Loops -> LoopStates]
    BY <1>13, <2>1 DEF Restart, LoopStates
  <2>3. QED
    BY <1>13, <1>t, <2>2 DEF Restart, TypeOK
<1>14. CASE UNCHANGED vars
  BY <1>14 DEF vars, TypeOK
<1>15. QED
  BY <1>1, <1>2, <1>3, <1>4, <1>5, <1>6, <1>7, <1>8, <1>9, <1>10, <1>11,
     <1>12, <1>13, <1>14 DEF Next

\* The ledger, its checkpoint and the loops always have their types.
THEOREM LedgerTypeCorrect == Spec => []TypeOK
<1>1. QED
  BY InitType, NextType, PTL DEF Spec

-----------------------------------------------------------------------------
\* An update that a guard admits stays within the limits.
LEMMA WithinUpdates ==
  ASSUME NEW s \in SnapshotType, Within(s), NEW n \in Nat, NEW done \in SUBSET Roles
  PROVE  /\ s.model_calls < MaxModelCalls => Within([s EXCEPT !.model_calls = @ + 1])
         /\ Within([s EXCEPT !.total_tokens = @ + n])
         /\ Within([s EXCEPT !.failed_tool_calls = n])
         /\ s.repair_attempts + 1 <= MaxRepairs =>
              Within([s EXCEPT !.repair_attempts = @ + 1])
         /\ Within([s EXCEPT !.completed_actor_roles = @ \cup done])
<1> USE BudgetAssumption
<1>1. s.model_calls < MaxModelCalls => Within([s EXCEPT !.model_calls = @ + 1])
  BY DEF SnapshotType, Within
<1>2. Within([s EXCEPT !.total_tokens = @ + n])
  BY DEF SnapshotType, Within
<1>3. Within([s EXCEPT !.failed_tool_calls = n])
  BY DEF SnapshotType, Within
<1>4. s.repair_attempts + 1 <= MaxRepairs =>
        Within([s EXCEPT !.repair_attempts = @ + 1])
  BY DEF SnapshotType, Within
<1>5. Within([s EXCEPT !.completed_actor_roles = @ \cup done])
  BY DEF SnapshotType, Within
<1>6. QED
  BY <1>1, <1>2, <1>3, <1>4, <1>5

\* Slots and roles are reserved together and released together.
LEMMA WithinRoles ==
  ASSUME NEW s \in SnapshotType, Within(s), NEW n \in Nat, NEW roles \in Seq(Roles)
  PROVE  /\ /\ Len(roles) = n
            /\ s.actors_started + n <= MaxActors
            /\ s.actor_start_attempts + n <= AttemptLimit
            => Within([s EXCEPT !.actors_started = @ + n,
                                !.actor_start_attempts = @ + n,
                                !.actor_roles = @ \o roles])
         /\ Len(roles) = Len(s.actor_roles) - 1 =>
              Within([s EXCEPT !.actors_started = IF @ > 0 THEN @ - 1 ELSE 0,
                               !.actor_roles = roles])
<1>1. /\ s.actor_roles \in Seq(Roles) /\ s.actors_started \in Nat
      /\ s.actor_start_attempts \in Nat
  BY DEF SnapshotType
<1>2. Len(s.actor_roles) \in Nat /\ Len(roles) \in Nat
  BY <1>1, LenProperties
<1>3. Len(s.actor_roles \o roles) = Len(s.actor_roles) + Len(roles)
  BY <1>1, ConcatProperties
<1> DEFINE more == [s EXCEPT !.actors_started = @ + n,
                             !.actor_start_attempts = @ + n,
                             !.actor_roles = @ \o roles]
           less == [s EXCEPT !.actors_started = IF @ > 0 THEN @ - 1 ELSE 0,
                             !.actor_roles = roles]
<1>4. /\ more.actors_started = s.actors_started + n
      /\ more.actor_start_attempts = s.actor_start_attempts + n
      /\ more.actor_roles = s.actor_roles \o roles
      /\ more.repair_attempts = s.repair_attempts
      /\ more.model_calls = s.model_calls
  BY DEF SnapshotType
<1>5. /\ less.actors_started = IF s.actors_started > 0 THEN s.actors_started - 1 ELSE 0
      /\ less.actor_start_attempts = s.actor_start_attempts
      /\ less.actor_roles = roles
      /\ less.repair_attempts = s.repair_attempts
      /\ less.model_calls = s.model_calls
  BY DEF SnapshotType
<1> HIDE DEF more, less
<1>6. /\ Len(roles) = n
      /\ s.actors_started + n <= MaxActors
      /\ s.actor_start_attempts + n <= AttemptLimit
      => Within(more)
  BY <1>1, <1>2, <1>3, <1>4 DEF Within
<1>7. Len(roles) = Len(s.actor_roles) - 1 => Within(less)
  BY <1>1, <1>2, <1>5, BudgetAssumption DEF Within
<1>8. QED
  BY <1>6, <1>7 DEF more, less

LEMMA InitLimits == Init => LimitsInv
<1>1. Len(<<>>) = 0 /\ AttemptLimit \in Nat
  BY AttemptLimitNat
<1>2. Within(EmptySnapshot)
  BY <1>1, BudgetAssumption DEF EmptySnapshot, Within
<1>3. QED
  BY <1>2 DEF Init, LimitsInv

LEMMA NextLimits == TypeOK /\ LimitsInv /\ [Next]_vars => LimitsInv'
<1> SUFFICES ASSUME TypeOK, LimitsInv, [Next]_vars PROVE LimitsInv'
  OBVIOUS
<1>s. snapshot \in SnapshotType /\ Within(snapshot) /\ Within(saved.snapshot)
  BY DEF TypeOK, LimitsInv
<1>p. ASSUME Within(snapshot'), saved' = saved PROVE LimitsInv'
  <2>1. Within(snapshot)' /\ Within(saved.snapshot)'
    BY <1>s, <1>p DEF Within, AttemptLimit
  <2>2. QED
    BY <2>1 DEF LimitsInv
<1>1. ASSUME NEW c \in Loops, ClaimModelCall(c) PROVE LimitsInv'
  <2>1. snapshot.model_calls < MaxModelCalls =>
          Within([snapshot EXCEPT !.model_calls = @ + 1])
    BY <1>s, WithinUpdates
  <2>2. Within(snapshot')
    BY <1>1, <1>s, <2>1 DEF ClaimModelCall, CallCapacity
  <2>3. QED
    BY <1>1, <1>p, <2>2 DEF ClaimModelCall
<1>2. ASSUME NEW c \in Loops, NEW count \in 0..MaxResponse, ChargeTokens(c, count)
      PROVE  LimitsInv'
  <2>1. count \in Nat
    BY BudgetAssumption
  <2>2. Within([snapshot EXCEPT !.total_tokens = @ + count])
    BY <1>s, <2>1, WithinUpdates
  <2>3. Within(snapshot')
    BY <1>2, <1>s, <2>2 DEF ChargeTokens
  <2>4. QED
    BY <1>2, <1>p, <2>3 DEF ChargeTokens
<1>3. ASSUME NEW c \in Loops, ChargeFailedToolCall(c) PROVE LimitsInv'
  <2>1. snapshot.failed_tool_calls + 1 \in Nat
    BY <1>s DEF SnapshotType
  <2>2. Within([snapshot EXCEPT !.failed_tool_calls = snapshot.failed_tool_calls + 1])
    BY <1>s, <2>1, WithinUpdates
  <2>3. Within(snapshot')
    BY <1>3, <1>s, <2>2 DEF ChargeFailedToolCall
  <2>4. QED
    BY <1>3, <1>p, <2>3 DEF ChargeFailedToolCall
<1>4. ASSUME NEW S \in SUBSET Actors, ReserveActors(S) PROVE LimitsInv'
  <2>1. PICK order \in [1..Cardinality(S) -> S] :
          snapshot' = [snapshot EXCEPT
              !.actors_started = @ + Cardinality(S),
              !.actor_start_attempts = @ + Cardinality(S),
              !.actor_roles = @ \o [i \in DOMAIN order |-> RoleOf[order[i]]]]
    BY <1>4 DEF ReserveActors
  <2> DEFINE new == [i \in DOMAIN order |-> RoleOf[order[i]]]
             after == [snapshot EXCEPT !.actors_started = @ + Cardinality(S),
                                       !.actor_start_attempts = @ + Cardinality(S),
                                       !.actor_roles = @ \o new]
  <2>2. Cardinality(S) \in Nat /\ new \in Seq(Roles) /\ Len(new) = Cardinality(S)
    BY ReservedRolesProperties
  <2>3. /\ snapshot.actors_started + Cardinality(S) <= MaxActors
        /\ snapshot.actor_start_attempts + Cardinality(S) <= AttemptLimit
    BY <1>4 DEF ReserveActors
  <2>4. snapshot' = after
    BY <2>1
  <2> HIDE DEF new
  <2>5. Within(after)
    BY <1>s, <2>2, <2>3, WithinRoles
  <2> HIDE DEF after
  <2>6. QED
    BY <1>4, <1>p, <2>4, <2>5 DEF ReserveActors
<1>5. ASSUME NEW a \in Actors, ClaimRepairAttempt(a) PROVE LimitsInv'
  <2>1. snapshot.repair_attempts + 1 <= MaxRepairs =>
          Within([snapshot EXCEPT !.repair_attempts = @ + 1])
    BY <1>s, WithinUpdates
  <2>2. snapshot.repair_attempts + 1 <= MaxRepairs
          \/ snapshot.repair_attempts + 1 > MaxRepairs
    BY <1>s, BudgetAssumption DEF SnapshotType
  <2>3. Within(snapshot')
    BY <1>5, <1>s, <2>1, <2>2 DEF ClaimRepairAttempt
  <2>4. QED
    BY <1>5, <1>p, <2>3 DEF ClaimRepairAttempt
<1>6. ASSUME NEW a \in Actors, ActorDone(a) PROVE LimitsInv'
  <2>1. {RoleOf[a]} \in SUBSET Roles
    BY BudgetAssumption
  <2>2. Within([snapshot EXCEPT !.completed_actor_roles = @ \cup {RoleOf[a]}])
    BY <1>s, <2>1, WithinUpdates
  <2>3. Within(snapshot')
    BY <1>6, <1>s, <2>2 DEF ActorDone
  <2>4. QED
    BY <1>6, <1>p, <2>3 DEF ActorDone
<1>7. ASSUME NEW a \in Actors, ReleaseActorReservation(a) PROVE LimitsInv'
  <2> DEFINE present == \E i \in DOMAIN snapshot.actor_roles :
                          snapshot.actor_roles[i] = RoleOf[a]
             rest == RemoveRole(snapshot.actor_roles, RoleOf[a])
             after == [snapshot EXCEPT !.actors_started = IF @ > 0 THEN @ - 1 ELSE 0,
                                       !.actor_roles = rest]
  <2>1. snapshot.actor_roles \in Seq(Roles)
    BY <1>s DEF SnapshotType
  <2>2. present => rest \in Seq(Roles) /\ Len(rest) = Len(snapshot.actor_roles) - 1
    BY <2>1, RemoveRoleProperties
  <2>3. snapshot' = IF present THEN after ELSE snapshot
    BY <1>7 DEF ReleaseActorReservation
  <2> HIDE DEF present, rest
  <2>4. present => Within(after)
    <3>1. 0 \in Nat
      OBVIOUS
    <3>2. QED
      BY <1>s, <2>2, <3>1, WithinRoles
  <2> HIDE DEF after
  <2>5. QED
    BY <1>7, <1>p, <1>s, <2>3, <2>4 DEF ReleaseActorReservation
<1>8. CASE Persist
  BY <1>8, <1>s DEF Persist, LimitsInv, Within, AttemptLimit
<1>9. CASE Restart
  BY <1>9, <1>s DEF Restart, LimitsInv, Within, AttemptLimit
<1>10. ASSUME UNCHANGED <<snapshot, saved>> PROVE LimitsInv'
  BY <1>10, <1>s, <1>p
<1>11. QED
  BY <1>1, <1>2, <1>3, <1>4, <1>5, <1>6, <1>7, <1>8, <1>9, <1>10
  DEF Next, LoseCall, ActorFailed, GrantHumanApproval, WallTimeExpires, vars

\* The policy's hard limits hold in every process of the Run.
THEOREM LedgerWithinLimits == Spec => []HardLimits
<1>1. LimitsInv => HardLimits
  BY DEF LimitsInv, Within, HardLimits
<1>2. QED
  BY <1>1, InitType, NextType, InitLimits, NextLimits, PTL DEF Spec

-----------------------------------------------------------------------------
\* Only a claim adds a model call and only a charge adds tokens.
LEMMA FieldsTouched ==
  ASSUME NEW s \in SnapshotType, NEW n \in Nat, NEW done \in SUBSET Roles, NEW roles
  PROVE  /\ LET t == [s EXCEPT !.model_calls = @ + 1]
            IN t.model_calls = s.model_calls + 1 /\ t.total_tokens = s.total_tokens
         /\ LET t == [s EXCEPT !.total_tokens = @ + n]
            IN t.model_calls = s.model_calls /\ t.total_tokens = s.total_tokens + n
         /\ LET t == [s EXCEPT !.failed_tool_calls = n]
            IN t.model_calls = s.model_calls /\ t.total_tokens = s.total_tokens
         /\ LET t == [s EXCEPT !.repair_attempts = @ + 1]
            IN t.model_calls = s.model_calls /\ t.total_tokens = s.total_tokens
         /\ LET t == [s EXCEPT !.completed_actor_roles = @ \cup done]
            IN t.model_calls = s.model_calls /\ t.total_tokens = s.total_tokens
         /\ LET t == [s EXCEPT !.actors_started = @ + n, !.actor_start_attempts = @ + n,
                               !.actor_roles = @ \o roles]
            IN t.model_calls = s.model_calls /\ t.total_tokens = s.total_tokens
         /\ LET t == [s EXCEPT !.actors_started = IF @ > 0 THEN @ - 1 ELSE 0,
                               !.actor_roles = roles]
            IN t.model_calls = s.model_calls /\ t.total_tokens = s.total_tokens
BY DEF SnapshotType

\* The four kinds of step, seen by the counters of model use.
SameUse ==
  /\ snapshot'.model_calls = snapshot.model_calls
  /\ snapshot'.total_tokens = snapshot.total_tokens

QuietStep ==
  /\ SameUse
  /\ InFlight' \subseteq InFlight
  /\ approved => approved'
  /\ saved' = saved \/ Persist

ClaimStep ==
  /\ CallCapacity
  /\ snapshot'.model_calls = snapshot.model_calls + 1
  /\ snapshot'.total_tokens = snapshot.total_tokens
  /\ UNCHANGED <<approved, saved>>

ChargeStep ==
  /\ snapshot'.model_calls = snapshot.model_calls
  /\ \E c \in InFlight, count \in 0..MaxResponse :
       /\ snapshot'.total_tokens = snapshot.total_tokens + count
       /\ InFlight' = InFlight \ {c}
  /\ UNCHANGED <<approved, saved>>

LEMMA UseStep ==
  ASSUME TypeOK, [Next]_vars
  PROVE  QuietStep \/ ClaimStep \/ ChargeStep \/ (Restart /\ InFlight' = {})
<1>s. snapshot \in SnapshotType /\ loop \in [Loops -> LoopStates]
  BY DEF TypeOK
<1>e. \A c \in Loops, s \in LoopStates :
        Enter(c, s) /\ s # "calling" => InFlight' = InFlight \ {c}
  BY <1>s DEF Enter, InFlight
<1> USE ActorsAreLoops
<1>1. ASSUME NEW c \in Loops, ClaimModelCall(c) PROVE QuietStep \/ ClaimStep
  <2>1. \/ /\ CallCapacity
           /\ snapshot' = [snapshot EXCEPT !.model_calls = @ + 1]
        \/ snapshot' = snapshot /\ InFlight' \subseteq InFlight
    BY <1>1, <1>e DEF ClaimModelCall, LoopStates
  <2>2. LET t == [snapshot EXCEPT !.model_calls = @ + 1]
        IN  t.model_calls = snapshot.model_calls + 1 /\ t.total_tokens = snapshot.total_tokens
    BY <1>s, FieldsTouched
  <2>3. QED
    BY <1>1, <2>1, <2>2 DEF ClaimModelCall, QuietStep, ClaimStep, SameUse
<1>2. ASSUME NEW c \in Loops, NEW count \in 0..MaxResponse, ChargeTokens(c, count)
      PROVE  ChargeStep
  <2>1. c \in InFlight /\ InFlight' = InFlight \ {c}
    BY <1>2, <1>e DEF ChargeTokens, LoopStates, InFlight
  <2>2. snapshot' \in {snapshot, [snapshot EXCEPT !.total_tokens = @ + count]}
    BY <1>2 DEF ChargeTokens
  <2>3. count \in Nat /\ snapshot.total_tokens \in Nat /\ 0 \in 0..MaxResponse
    BY <1>s, BudgetAssumption DEF SnapshotType
  <2>4. LET t == [snapshot EXCEPT !.total_tokens = @ + count]
        IN  t.model_calls = snapshot.model_calls
              /\ t.total_tokens = snapshot.total_tokens + count
    BY <1>s, <2>3, FieldsTouched
  <2>5. snapshot.total_tokens = snapshot.total_tokens + 0
    BY <2>3
  <2>6. /\ snapshot'.model_calls = snapshot.model_calls
        /\ \E n \in 0..MaxResponse : snapshot'.total_tokens = snapshot.total_tokens + n
    BY <2>2, <2>3, <2>4, <2>5, Zenon
  <2>7. QED
    BY <1>2, <2>1, <2>6 DEF ChargeTokens, ChargeStep
<1>3. ASSUME NEW c \in Loops, ChargeFailedToolCall(c) PROVE QuietStep
  <2>1. InFlight' \subseteq InFlight
    BY <1>3, <1>s DEF ChargeFailedToolCall, Enter, InFlight
  <2>2. snapshot.failed_tool_calls + 1 \in Nat
    BY <1>s DEF SnapshotType
  <2>3. SameUse
    BY <1>3, <1>s, <2>2, FieldsTouched DEF ChargeFailedToolCall, SameUse
  <2>4. QED
    BY <1>3, <2>1, <2>3 DEF ChargeFailedToolCall, QuietStep
<1>4. ASSUME NEW S \in SUBSET Actors, ReserveActors(S) PROVE QuietStep
  <2>1. InFlight' \subseteq InFlight
    BY <1>4, <1>s DEF ReserveActors, InFlight
  <2>2. \E roles : snapshot' = [snapshot EXCEPT
                                !.actors_started = @ + Cardinality(S),
                                !.actor_start_attempts = @ + Cardinality(S),
                                !.actor_roles = @ \o roles]
    BY <1>4 DEF ReserveActors
  <2>3. Cardinality(S) \in Nat
    BY BudgetAssumption, FS_Subset, FS_CardinalityType
  <2>4. SameUse
    BY <1>s, <2>2, <2>3, FieldsTouched DEF SameUse
  <2>5. QED
    BY <1>4, <2>1, <2>4 DEF ReserveActors, QuietStep
<1>5. ASSUME NEW a \in Actors, ClaimRepairAttempt(a) PROVE QuietStep
  <2>1. InFlight' \subseteq InFlight
    BY <1>5, <1>s, <1>e DEF ClaimRepairAttempt, LoopStates, InFlight
  <2>2. SameUse
    BY <1>5, <1>s, FieldsTouched DEF ClaimRepairAttempt, SameUse
  <2>3. QED
    BY <1>5, <2>1, <2>2 DEF ClaimRepairAttempt, QuietStep
<1>6. ASSUME NEW a \in Actors, ActorDone(a) PROVE QuietStep
  <2>1. InFlight' \subseteq InFlight
    BY <1>6, <1>e DEF ActorDone, LoopStates
  <2>2. {RoleOf[a]} \in SUBSET Roles
    BY BudgetAssumption
  <2>3. SameUse
    BY <1>6, <1>s, <2>2, FieldsTouched DEF ActorDone, SameUse
  <2>4. QED
    BY <1>6, <2>1, <2>3 DEF ActorDone, QuietStep
<1>7. ASSUME NEW a \in Actors, ReleaseActorReservation(a) PROVE QuietStep
  <2>1. InFlight' \subseteq InFlight
    BY <1>7, <1>e DEF ReleaseActorReservation, LoopStates
  <2>2. 0 \in Nat /\ {} \in SUBSET Roles
    OBVIOUS
  <2>3. \A roles : LET t == [snapshot EXCEPT
                            !.actors_started = IF @ > 0 THEN @ - 1 ELSE 0,
                            !.actor_roles = roles]
                   IN  /\ t.model_calls = snapshot.model_calls
                       /\ t.total_tokens = snapshot.total_tokens
    BY <1>s, <2>2, FieldsTouched
  <2>4. SameUse
    BY <1>7, <2>3 DEF ReleaseActorReservation, SameUse
  <2>5. QED
    BY <1>7, <2>1, <2>4 DEF ReleaseActorReservation, QuietStep
<1>8. ASSUME NEW c \in Loops, LoseCall(c) \/ ActorFailed(c) PROVE QuietStep
  BY <1>8, <1>e DEF LoseCall, ActorFailed, LoopStates, QuietStep, SameUse
<1>9. CASE GrantHumanApproval \/ WallTimeExpires \/ Persist \/ UNCHANGED vars
  BY <1>9 DEF GrantHumanApproval, WallTimeExpires, Persist, vars, InFlight,
              QuietStep, SameUse
<1>10. ASSUME Restart PROVE InFlight' = {}
  <2>1. \A c \in Loops : loop'[c] # "calling"
    BY <1>10 DEF Restart
  <2>2. QED
    BY <2>1 DEF InFlight
<1>11. QED
  BY <1>1, <1>2, <1>3, <1>4, <1>5, <1>6, <1>7, <1>8, <1>9, <1>10 DEF Next

-----------------------------------------------------------------------------
LEMMA NextApproval == TypeOK /\ ApprovalInv /\ [Next]_vars => ApprovalInv'
<1> SUFFICES ASSUME TypeOK, ApprovalInv, [Next]_vars PROVE ApprovalInv'
  OBVIOUS
<1>1. CASE QuietStep
  BY <1>1 DEF QuietStep, SameUse, Persist, ApprovalInv, ApprovalSatisfied
<1>2. CASE ClaimStep
  BY <1>2 DEF ClaimStep, CallCapacity, ApprovalInv, ApprovalSatisfied
<1>3. CASE ChargeStep
  BY <1>3 DEF ChargeStep, ApprovalInv, ApprovalSatisfied
<1>4. CASE Restart
  BY <1>4 DEF Restart, ApprovalInv, ApprovalSatisfied
<1>5. QED
  BY <1>1, <1>2, <1>3, <1>4, UseStep

\* No model call without the approval the policy asks for, across restarts.
THEOREM LedgerFailsClosed == Spec => []NoCallBeforeApproval
<1>1. Init => ApprovalInv
  BY DEF Init, EmptySnapshot, ApprovalInv
<1>2. ApprovalInv => NoCallBeforeApproval
  BY DEF ApprovalInv, NoCallBeforeApproval
<1>3. QED
  BY <1>1, <1>2, InitType, NextType, NextApproval, PTL DEF Spec

-----------------------------------------------------------------------------
LEMMA ResponseRoom ==
  ASSUME NEW m \in Nat, NEW n \in Nat, m <= n
  PROVE  /\ MaxResponse * m \in Nat
         /\ MaxResponse * m <= MaxResponse * n
         /\ MaxResponse * (m + 1) = MaxResponse * m + MaxResponse
BY BudgetAssumption

LEMMA InitTokens == Init => TokenInv
<1> SUFFICES ASSUME Init PROVE TokenInv
  OBVIOUS
<1>1. InFlight = {}
  BY DEF Init, InFlight
<1>2. Cardinality(InFlight) = 0
  BY <1>1, FS_EmptySet
<1>3. MaxResponse * 0 = 0 /\ MaxResponse * Cardinality(Loops) \in Nat
  BY LoopsFinite, ResponseRoom, BudgetAssumption
<1>4. snapshot.total_tokens = 0 /\ saved.snapshot.total_tokens = 0
  BY DEF Init, EmptySnapshot
<1>5. QED
  BY <1>2, <1>3, <1>4, BudgetAssumption DEF TokenInv, Room

LEMMA NextTokens == TypeOK /\ TokenInv /\ [Next]_vars => TokenInv'
<1> SUFFICES ASSUME TypeOK, TokenInv, [Next]_vars PROVE TokenInv'
  OBVIOUS
<1> DEFINE n == Cardinality(InFlight)
           total == snapshot.total_tokens
<1>1. /\ total \in Nat /\ saved.snapshot.total_tokens \in Nat
      /\ total + MaxResponse * n <= MaxTokens + MaxResponse * Cardinality(Loops)
      /\ saved.snapshot.total_tokens + MaxResponse * 0
           <= MaxTokens + MaxResponse * Cardinality(Loops)
  BY DEF TypeOK, SnapshotType, TokenInv, Room
<1>2. /\ n \in Nat /\ n' \in Nat /\ n' <= Cardinality(Loops)
      /\ Cardinality(Loops) \in Nat
      /\ IsFiniteSet(InFlight)
  <2>1. InFlight' \in SUBSET Loops
    BY DEF InFlight
  <2>2. QED
    BY <2>1, InFlightFinite, LoopsFinite, FS_Subset, FS_CardinalityType
<1>3. CASE QuietStep
  <2>1. n' <= n
    BY <1>2, <1>3, FS_Subset DEF QuietStep
  <2>2. MaxResponse * n' <= MaxResponse * n /\ MaxResponse * n' \in Nat
        /\ MaxResponse * n \in Nat /\ MaxResponse * 0 <= MaxResponse * n
        /\ MaxResponse * Cardinality(Loops) \in Nat /\ MaxResponse * 0 \in Nat
    BY <1>2, <2>1, ResponseRoom
  <2>3. Room(snapshot', n')
    BY <1>1, <1>3, <2>2, BudgetAssumption DEF QuietStep, SameUse, Room
  <2>4. Room(saved'.snapshot, 0)
    BY <1>1, <1>3, <2>2, BudgetAssumption DEF QuietStep, Persist, Room
  <2>5. QED
    BY <2>3, <2>4 DEF TokenInv, Room
<1>4. CASE ClaimStep
  <2>1. /\ MaxResponse * n' <= MaxResponse * Cardinality(Loops)
        /\ MaxResponse * n' \in Nat /\ MaxResponse * Cardinality(Loops) \in Nat
    BY <1>2, ResponseRoom
  <2>2. Room(snapshot', n')
    BY <1>1, <1>4, <2>1, BudgetAssumption DEF ClaimStep, CallCapacity, Room
  <2>3. QED
    BY <1>1, <1>4, <2>2 DEF ClaimStep, TokenInv, Room
<1>5. CASE ChargeStep
  <2>1. PICK c \in InFlight, count \in 0..MaxResponse :
          /\ snapshot'.total_tokens = total + count
          /\ InFlight' = InFlight \ {c}
    BY <1>5 DEF ChargeStep
  <2>2. n = n' + 1
    <3>1. Cardinality(InFlight \ {c}) = Cardinality(InFlight) - 1
      BY <1>2, FS_RemoveElement
    <3>2. QED
      BY <1>2, <2>1, <3>1
  <2>3. /\ MaxResponse * n = MaxResponse * n' + MaxResponse
        /\ MaxResponse * n' \in Nat /\ MaxResponse * Cardinality(Loops) \in Nat
    BY <1>2, <2>2, ResponseRoom
  <2>4. Room(snapshot', n')
    BY <1>1, <2>1, <2>3, BudgetAssumption DEF Room
  <2>5. QED
    BY <1>1, <1>5, <2>4 DEF ChargeStep, TokenInv, Room
<1>6. CASE Restart /\ InFlight' = {}
  <2>1. n' = 0
    BY <1>6, FS_EmptySet
  <2>2. QED
    BY <1>1, <1>6, <2>1 DEF Restart, TokenInv, Room
<1>7. QED
  BY <1>3, <1>4, <1>5, <1>6, UseStep

\* Late charging crosses the token limit by at most one response per loop.
THEOREM LedgerTokensBounded == Spec => []TokenOvershootBounded
<1>1. TypeOK /\ TokenInv => TokenOvershootBounded
  <2> SUFFICES ASSUME TypeOK, TokenInv PROVE TokenOvershootBounded
    OBVIOUS
  <2>1. MaxResponse * Cardinality(InFlight) \in Nat
    BY InFlightFinite, ResponseRoom
  <2>2. snapshot.total_tokens \in Nat
    BY DEF TypeOK, SnapshotType
  <2>3. MaxResponse * Cardinality(Loops) \in Nat
    BY LoopsFinite, ResponseRoom
  <2>4. QED
    BY <2>1, <2>2, <2>3, BudgetAssumption DEF TokenInv, Room, TokenOvershootBounded
<1>2. QED
  BY <1>1, InitType, NextType, InitTokens, NextTokens, PTL DEF Spec

-----------------------------------------------------------------------------
(***************************************************************************)
(* Failed tool calls                                                       *)
(***************************************************************************)
\* A loop that is going can pass the limit once more, the Planner twice as long
\* as it works off the calls its checkpoint left.
Going == {a \in Actors : loop[a] \in {"idle", "calling"}}

PlannerGoes ==
  IF loop[Planner] = "replaying" THEN 2
  ELSE IF loop[Planner] \in {"idle", "calling"} THEN 1 ELSE 0

Chances == Cardinality(Going) + PlannerGoes

Paid == 2 * segments + snapshot.actor_start_attempts

\* Every chance to pass the limit was paid by a process or an Actor's start, and
\* one that was taken is gone.
FailedInv ==
  /\ \A a \in Actors : loop[a] # "replaying" /\ saved.loop[a] # "replaying"
  /\ Chances <= Paid
  /\ snapshot.failed_tool_calls + Chances <= MaxFailedToolCalls + Paid
  /\ saved.snapshot.failed_tool_calls
       <= MaxFailedToolCalls + 2 * segments + saved.snapshot.actor_start_attempts

LEMMA GoingFinite ==
  /\ IsFiniteSet(Going) /\ Cardinality(Going) \in Nat
  /\ IsFiniteSet(Going') /\ Cardinality(Going') \in Nat
<1>1. Going \in SUBSET Actors /\ Going' \in SUBSET Actors
  BY DEF Going
<1>2. QED
  BY <1>1, BudgetAssumption, FS_Subset, FS_CardinalityType

\* The kinds of step, seen by the counter of failed calls.
SameFailures ==
  /\ snapshot'.failed_tool_calls = snapshot.failed_tool_calls
  /\ segments' = segments

CalmStep ==
  /\ SameFailures
  /\ snapshot'.actor_start_attempts = snapshot.actor_start_attempts
  /\ Going' \subseteq Going /\ PlannerGoes' <= PlannerGoes
  /\ saved' = saved \/ Persist

WithinStep ==
  /\ snapshot'.failed_tool_calls <= MaxFailedToolCalls
  /\ snapshot'.actor_start_attempts = snapshot.actor_start_attempts
  /\ UNCHANGED <<loop, saved, segments>>

OverStep ==
  /\ snapshot'.failed_tool_calls = snapshot.failed_tool_calls + 1
  /\ snapshot'.actor_start_attempts = snapshot.actor_start_attempts
  /\ \/ PlannerGoes' = PlannerGoes /\ \E a \in Going : Going' = Going \ {a}
     \/ PlannerGoes' = PlannerGoes - 1 /\ Going' = Going
  /\ UNCHANGED <<saved, segments>>

StartStep ==
  /\ SameFailures
  /\ \E S \in SUBSET Actors :
       /\ Going' = Going \cup S
       /\ snapshot'.actor_start_attempts = snapshot.actor_start_attempts + Cardinality(S)
  /\ PlannerGoes' = PlannerGoes
  /\ UNCHANGED saved

\* Only a failed call adds to the counter, only a reservation to the starts.
LEMMA FailureFields ==
  ASSUME NEW s \in SnapshotType, NEW n \in Nat, NEW roles
  PROVE  /\ LET t == [s EXCEPT !.failed_tool_calls = n]
            IN /\ t.failed_tool_calls = n
               /\ t.actor_start_attempts = s.actor_start_attempts
         /\ LET t == [s EXCEPT !.actors_started = @ + n, !.actor_start_attempts = @ + n,
                               !.actor_roles = @ \o roles]
            IN /\ t.failed_tool_calls = s.failed_tool_calls
               /\ t.actor_start_attempts = s.actor_start_attempts + n
BY DEF SnapshotType

LEMMA FieldsKept ==
  ASSUME NEW s \in SnapshotType
  PROVE  \A v, w :
           /\ LET t == [s EXCEPT !.model_calls = v]
              IN /\ t.failed_tool_calls = s.failed_tool_calls
                 /\ t.actor_start_attempts = s.actor_start_attempts
           /\ LET t == [s EXCEPT !.total_tokens = v]
              IN /\ t.failed_tool_calls = s.failed_tool_calls
                 /\ t.actor_start_attempts = s.actor_start_attempts
           /\ LET t == [s EXCEPT !.repair_attempts = v]
              IN /\ t.failed_tool_calls = s.failed_tool_calls
                 /\ t.actor_start_attempts = s.actor_start_attempts
           /\ LET t == [s EXCEPT !.completed_actor_roles = v]
              IN /\ t.failed_tool_calls = s.failed_tool_calls
                 /\ t.actor_start_attempts = s.actor_start_attempts
           /\ LET t == [s EXCEPT !.actors_started = v, !.actor_roles = w]
              IN /\ t.failed_tool_calls = s.failed_tool_calls
                 /\ t.actor_start_attempts = s.actor_start_attempts
BY DEF SnapshotType

LEMMA FailureStep ==
  ASSUME TypeOK, FailedInv, [Next]_vars
  PROVE  CalmStep \/ WithinStep \/ OverStep \/ StartStep \/ Restart
<1>s. snapshot \in SnapshotType /\ loop \in [Loops -> LoopStates]
  BY DEF TypeOK
<1>p. PlannerGoes \in {0, 1, 2} /\ Planner \notin Actors
  BY BudgetAssumption DEF PlannerGoes
<1> USE ActorsAreLoops
\* A loop that is left or ends has at most the chances it had.
<1>e. ASSUME NEW c \in Loops, NEW s \in {"idle", "calling", "stopped", "done", "failed"},
             loop[c] \in {"idle", "calling", "replaying"} \/ s \in {"stopped", "done", "failed"},
             c \in Actors => loop[c] # "replaying", Enter(c, s)
      PROVE  Going' \subseteq Going /\ PlannerGoes' <= PlannerGoes
  BY <1>s, <1>p, <1>e DEF Enter, Going, PlannerGoes
<1>a. \A c \in Actors : loop[c] # "replaying"
  BY DEF FailedInv
<1>1. ASSUME NEW c \in Loops, ClaimModelCall(c) PROVE CalmStep
  <2>1. Going' \subseteq Going /\ PlannerGoes' <= PlannerGoes
    BY <1>1, <1>e, <1>a DEF ClaimModelCall
  <2>2. SameFailures /\ snapshot'.actor_start_attempts = snapshot.actor_start_attempts
    <3>1. snapshot' \in {snapshot, [snapshot EXCEPT !.model_calls = @ + 1]} /\ segments' = segments
      BY <1>1 DEF ClaimModelCall
    <3>2. LET t == [snapshot EXCEPT !.model_calls = @ + 1]
          IN /\ t.failed_tool_calls = snapshot.failed_tool_calls
             /\ t.actor_start_attempts = snapshot.actor_start_attempts
      BY <1>s, FieldsKept
    <3>3. QED
      BY <3>1, <3>2, Zenon DEF SameFailures
  <2>3. QED
    BY <1>1, <2>1, <2>2 DEF ClaimModelCall, CalmStep
<1>2. ASSUME NEW c \in Loops, NEW count \in 0..MaxResponse, ChargeTokens(c, count)
      PROVE  CalmStep
  <2>1. Going' \subseteq Going /\ PlannerGoes' <= PlannerGoes
    BY <1>2, <1>e, <1>a DEF ChargeTokens
  <2>2. SameFailures /\ snapshot'.actor_start_attempts = snapshot.actor_start_attempts
    <3>1. snapshot' \in {snapshot, [snapshot EXCEPT !.total_tokens = @ + count]} /\ segments' = segments
      BY <1>2 DEF ChargeTokens
    <3>2. LET t == [snapshot EXCEPT !.total_tokens = @ + count]
          IN /\ t.failed_tool_calls = snapshot.failed_tool_calls
             /\ t.actor_start_attempts = snapshot.actor_start_attempts
      BY <1>s, FieldsKept
    <3>3. QED
      BY <3>1, <3>2, Zenon DEF SameFailures
  <2>3. QED
    BY <1>2, <2>1, <2>2 DEF ChargeTokens, CalmStep
<1>3. ASSUME NEW c \in Loops, ChargeFailedToolCall(c)
      PROVE  CalmStep \/ WithinStep \/ OverStep
  <2> DEFINE total == snapshot.failed_tool_calls + 1
  <2>1. total \in Nat
    BY <1>s DEF SnapshotType
  <2>2. loop[c] \in {"idle", "replaying"} /\ UNCHANGED <<saved, segments>>
    BY <1>3 DEF ChargeFailedToolCall
  <2>3. CASE late
    <3>1. snapshot' = snapshot
      BY <1>3, <2>3 DEF ChargeFailedToolCall
    <3>2. Enter(c, IF loop[c] = "replaying" THEN "idle" ELSE "stopped")
      BY <1>3, <2>3 DEF ChargeFailedToolCall
    <3>3. Going' \subseteq Going /\ PlannerGoes' <= PlannerGoes
      BY <1>e, <1>a, <2>2, <3>2
    <3>4. QED
      BY <2>2, <3>1, <3>3 DEF CalmStep, SameFailures
  <2>4. CASE ~late
    <3>1. snapshot' = [snapshot EXCEPT !.failed_tool_calls = total]
      BY <1>3, <2>4 DEF ChargeFailedToolCall
    <3>2. snapshot'.failed_tool_calls = total
            /\ snapshot'.actor_start_attempts = snapshot.actor_start_attempts
      BY <1>s, <2>1, <3>1, FailureFields
    <3>3. CASE total <= MaxFailedToolCalls
      <4>1. ~(snapshot.failed_tool_calls + 1 > MaxFailedToolCalls)
        BY <2>1, <3>3, BudgetAssumption
      <4>2. loop' = [loop EXCEPT ![c] = loop[c]]
        BY <1>3, <2>4, <4>1, Zenon DEF ChargeFailedToolCall, Enter
      <4>3. loop' = loop
        BY <1>s, <4>2
      <4>4. QED
        BY <2>2, <3>2, <3>3, <4>3 DEF WithinStep
    <3>4. CASE total > MaxFailedToolCalls
      <4>1. loop' = [loop EXCEPT ![c] = IF loop[c] = "replaying" THEN "idle" ELSE "stopped"]
        BY <1>3, <2>4, <3>4 DEF ChargeFailedToolCall, Enter
      <4>2. CASE c \in Actors
        <5>1. c \in Going /\ Going' = Going \ {c}
          BY <1>s, <1>a, <2>2, <4>1, <4>2 DEF Going
        <5>2. PlannerGoes' = PlannerGoes
          BY <1>s, <1>p, <4>1, <4>2 DEF PlannerGoes
        <5>3. QED
          BY <2>2, <3>2, <5>1, <5>2 DEF OverStep
      <4>3. CASE c = Planner
        <5>1. Going' = Going
          BY <1>s, <1>p, <4>1, <4>3 DEF Going
        <5>2. PlannerGoes' = PlannerGoes - 1
          BY <1>s, <2>2, <4>1, <4>3 DEF PlannerGoes
        <5>3. QED
          BY <2>2, <3>2, <5>1, <5>2 DEF OverStep
      <4>4. QED
        BY <4>2, <4>3 DEF Loops
    <3>5. QED
      BY <2>1, <3>3, <3>4, BudgetAssumption
  <2>5. QED
    BY <2>3, <2>4
<1>4. ASSUME NEW S \in SUBSET Actors, ReserveActors(S) PROVE StartStep
  <2>1. Cardinality(S) \in Nat
    BY BudgetAssumption, FS_Subset, FS_CardinalityType
  <2>2. \E roles : snapshot' = [snapshot EXCEPT
                                !.actors_started = @ + Cardinality(S),
                                !.actor_start_attempts = @ + Cardinality(S),
                                !.actor_roles = @ \o roles]
    BY <1>4, Zenon DEF ReserveActors
  <2>3. /\ snapshot'.failed_tool_calls = snapshot.failed_tool_calls
        /\ snapshot'.actor_start_attempts = snapshot.actor_start_attempts + Cardinality(S)
    BY <1>s, <2>1, <2>2, FailureFields
  <2>4. Going' = Going \cup S
    BY <1>4, <1>s DEF ReserveActors, Going
  <2>5. PlannerGoes' = PlannerGoes
    BY <1>4, <1>p DEF ReserveActors, PlannerGoes
  <2>6. QED
    BY <1>4, <2>3, <2>4, <2>5 DEF ReserveActors, StartStep, SameFailures
<1>5. ASSUME NEW a \in Actors,
             ClaimRepairAttempt(a) \/ ActorDone(a) \/ ReleaseActorReservation(a)
      PROVE  CalmStep
  <2>1. Going' \subseteq Going /\ PlannerGoes' <= PlannerGoes
    <3>1. loop' = loop \/ \E s \in {"stopped", "done", "failed"} : Enter(a, s)
      BY <1>5 DEF ClaimRepairAttempt, ActorDone, ReleaseActorReservation
    <3>2. CASE loop' = loop
      BY <1>p, <3>2 DEF Going, PlannerGoes
    <3>3. QED
      BY <1>e, <1>a, <3>1, <3>2
  <2>2. SameFailures /\ snapshot'.actor_start_attempts = snapshot.actor_start_attempts
    <3>1. segments' = segments
      BY <1>5 DEF ClaimRepairAttempt, ActorDone, ReleaseActorReservation
    <3>2. CASE ClaimRepairAttempt(a)
      <4>1. snapshot' \in {snapshot, [snapshot EXCEPT !.repair_attempts = @ + 1]} /\ segments' = segments
        BY <3>2 DEF ClaimRepairAttempt
      <4>2. LET t == [snapshot EXCEPT !.repair_attempts = @ + 1]
            IN /\ t.failed_tool_calls = snapshot.failed_tool_calls
               /\ t.actor_start_attempts = snapshot.actor_start_attempts
        BY <1>s, FieldsKept
      <4>3. QED
        BY <4>1, <4>2, Zenon DEF SameFailures
    <3>3. CASE ActorDone(a)
      <4>1. snapshot' \in {snapshot, [snapshot EXCEPT !.completed_actor_roles = @ \cup {RoleOf[a]}]} /\ segments' = segments
        BY <3>3 DEF ActorDone
      <4>2. LET t == [snapshot EXCEPT !.completed_actor_roles = @ \cup {RoleOf[a]}]
            IN /\ t.failed_tool_calls = snapshot.failed_tool_calls
               /\ t.actor_start_attempts = snapshot.actor_start_attempts
        BY <1>s, FieldsKept
      <4>3. QED
        BY <4>1, <4>2, Zenon DEF SameFailures
    <3>4. CASE ReleaseActorReservation(a)
      <4>1. \/ snapshot' = snapshot
            \/ snapshot' = [snapshot EXCEPT !.actors_started = IF @ > 0 THEN @ - 1 ELSE 0,
                                            !.actor_roles = RemoveRole(@, RoleOf[a])]
        BY <3>4, Zenon DEF ReleaseActorReservation
      <4>2. LET t == [snapshot EXCEPT !.actors_started = IF @ > 0 THEN @ - 1 ELSE 0,
                                      !.actor_roles = RemoveRole(@, RoleOf[a])]
            IN /\ t.failed_tool_calls = snapshot.failed_tool_calls
               /\ t.actor_start_attempts = snapshot.actor_start_attempts
        BY <1>s, FieldsKept
      <4>3. QED
        BY <3>1, <4>1, <4>2, Zenon DEF SameFailures
    <3>5. QED
      BY <1>5, <3>2, <3>3, <3>4
  <2>3. saved' = saved
    BY <1>5 DEF ClaimRepairAttempt, ActorDone, ReleaseActorReservation
  <2>4. QED
    BY <2>1, <2>2, <2>3 DEF CalmStep
<1>6. ASSUME NEW c \in Loops, LoseCall(c) \/ (c \in Actors /\ ActorFailed(c)) PROVE CalmStep
  <2>1. Going' \subseteq Going /\ PlannerGoes' <= PlannerGoes
    BY <1>6, <1>e, <1>a DEF LoseCall, ActorFailed
  <2>2. QED
    BY <1>6, <2>1 DEF LoseCall, ActorFailed, CalmStep, SameFailures
<1>7. CASE GrantHumanApproval \/ WallTimeExpires \/ Persist \/ UNCHANGED vars
  BY <1>7, <1>p DEF GrantHumanApproval, WallTimeExpires, Persist, vars, Going, PlannerGoes,
                    CalmStep, SameFailures
<1>8. QED
  BY <1>1, <1>2, <1>3, <1>4, <1>5, <1>6, <1>7 DEF Next

\* No Actor works off the calls of a checkpoint.
LEMMA NoActorReplays ==
  ASSUME TypeOK, FailedInv, [Next]_vars
  PROVE  \A a \in Actors : loop'[a] # "replaying" /\ saved'.loop[a] # "replaying"
<1>s. /\ loop \in [Loops -> LoopStates] /\ Planner \notin Actors
      /\ \A a \in Actors : loop[a] # "replaying" /\ saved.loop[a] # "replaying"
  BY BudgetAssumption DEF TypeOK, FailedInv
<1> USE ActorsAreLoops
<1>1. ASSUME NEW c \in Loops, NEW s, s # "replaying", Enter(c, s)
      PROVE  \A a \in Actors : loop'[a] # "replaying"
  BY <1>s, <1>1 DEF Enter
<1>2. ASSUME NEW c \in Loops, ChargeFailedToolCall(c)
      PROVE  \A a \in Actors : loop'[a] # "replaying"
  BY <1>s, <1>2 DEF ChargeFailedToolCall, Enter
<1>3. \A a \in Actors : loop'[a] # "replaying"
  <2>1. ASSUME NEW c \in Loops,
               \/ ClaimModelCall(c) \/ (\E n \in 0..MaxResponse : ChargeTokens(c, n))
               \/ LoseCall(c) \/ ActorDone(c) \/ ActorFailed(c)
               \/ ReleaseActorReservation(c)
        PROVE  \E s \in {"calling", "idle", "stopped", "done", "failed"} : Enter(c, s)
    BY <2>1 DEF ClaimModelCall, ChargeTokens, LoseCall, ActorDone, ActorFailed,
                ReleaseActorReservation
  <2>2. ASSUME NEW c \in Loops, ClaimRepairAttempt(c)
        PROVE  loop' = loop \/ Enter(c, "stopped")
    BY <2>2 DEF ClaimRepairAttempt
  <2>3. ASSUME \E S \in SUBSET Actors : ReserveActors(S)
        PROVE  \A a \in Actors : loop'[a] # "replaying"
    BY <1>s, <2>3 DEF ReserveActors
  <2>4. ASSUME Restart PROVE \A a \in Actors : loop'[a] # "replaying"
    BY <1>s, <2>4 DEF Restart
  <2>5. ASSUME GrantHumanApproval \/ WallTimeExpires \/ Persist \/ UNCHANGED vars
        PROVE  loop' = loop
    BY <2>5 DEF GrantHumanApproval, WallTimeExpires, Persist, vars
  <2>6. QED
    BY <1>s, <1>1, <1>2, <2>1, <2>2, <2>3, <2>4, <2>5 DEF Next
<1>4. saved' = saved \/ Persist
  BY Zenon DEF Next, ClaimModelCall, ChargeTokens, LoseCall, ChargeFailedToolCall, ReserveActors,
         ClaimRepairAttempt, ActorDone, ActorFailed, ReleaseActorReservation,
         GrantHumanApproval, WallTimeExpires, Restart, vars
<1>5. QED
  BY <1>s, <1>3, <1>4 DEF Persist

LEMMA InitFailed == Init => FailedInv
<1> SUFFICES ASSUME Init PROVE FailedInv
  OBVIOUS
<1> USE ActorsAreLoops
<1>1. Going = {} /\ PlannerGoes = 1
  BY BudgetAssumption DEF Init, Going, PlannerGoes
<1>2. Chances = 1
  BY <1>1, FS_EmptySet DEF Chances
<1>3. QED
  BY <1>2, BudgetAssumption DEF Init, EmptySnapshot, Paid, FailedInv

LEMMA NextFailed == TypeOK /\ FailedInv /\ [Next]_vars => FailedInv'
<1> SUFFICES ASSUME TypeOK, FailedInv, [Next]_vars PROVE FailedInv'
  OBVIOUS
<1> DEFINE n == Cardinality(Going)
           failed == snapshot.failed_tool_calls
           starts == snapshot.actor_start_attempts
<1>1. /\ failed \in Nat /\ starts \in Nat /\ segments \in Nat
      /\ saved.snapshot.failed_tool_calls \in Nat
      /\ saved.snapshot.actor_start_attempts \in Nat
      /\ MaxFailedToolCalls \in Nat
  BY BudgetAssumption DEF TypeOK, SnapshotType
<1>2. /\ n \in Nat /\ n' \in Nat /\ IsFiniteSet(Going) /\ IsFiniteSet(Going')
      /\ PlannerGoes \in 0..2 /\ PlannerGoes' \in 0..2
      /\ Chances = n + PlannerGoes /\ Chances' = n' + PlannerGoes'
  BY GoingFinite DEF PlannerGoes, Chances
<1>3. Chances \in Nat /\ Chances' \in Nat
  BY <1>2
<1>4. /\ Chances <= 2 * segments + starts
      /\ failed + Chances <= MaxFailedToolCalls + (2 * segments + starts)
      /\ saved.snapshot.failed_tool_calls
           <= MaxFailedToolCalls + 2 * segments + saved.snapshot.actor_start_attempts
  BY DEF FailedInv, Paid
<1>5. SUFFICES
        /\ Chances' <= 2 * segments' + starts'
        /\ failed' + Chances' <= MaxFailedToolCalls + (2 * segments' + starts')
        /\ saved'.snapshot.failed_tool_calls
             <= MaxFailedToolCalls + 2 * segments' + saved'.snapshot.actor_start_attempts
  BY NoActorReplays DEF FailedInv, Paid
<1>6. CASE CalmStep
  <2>1. n' <= n /\ PlannerGoes' <= PlannerGoes
    BY <1>2, <1>6, FS_Subset DEF CalmStep
  <2>2. Chances' <= Chances
    BY <1>2, <2>1
  <2>3. failed' = failed /\ starts' = starts /\ segments' = segments
    BY <1>6 DEF CalmStep, SameFailures
  <2>4. saved' = saved \/ saved'.snapshot = snapshot
    BY <1>6 DEF CalmStep, Persist
  <2>5. failed <= MaxFailedToolCalls + 2 * segments + starts
    BY <1>1, <1>3, <1>4
  <2>6. saved'.snapshot.failed_tool_calls
          <= MaxFailedToolCalls + 2 * segments + saved'.snapshot.actor_start_attempts
    BY <1>4, <2>4, <2>5
  <2>7. QED
    BY <1>1, <1>3, <1>4, <2>2, <2>3, <2>6
<1>7. CASE WithinStep
  <2>1. n' = n /\ PlannerGoes' = PlannerGoes
    BY <1>7 DEF WithinStep, Going, PlannerGoes
  <2>2. Chances' = Chances
    BY <1>2, <2>1
  <2>3. /\ failed' <= MaxFailedToolCalls /\ starts' = starts /\ segments' = segments
        /\ saved' = saved
    BY <1>7 DEF WithinStep
  <2>4. failed' \in Nat
    BY NextType DEF TypeOK, SnapshotType
  <2>5. QED
    BY <1>1, <1>3, <1>4, <2>2, <2>3, <2>4
<1>8. CASE OverStep
  <2>1. n' + PlannerGoes' = n + PlannerGoes - 1
    <3>1. CASE PlannerGoes' = PlannerGoes /\ \E a \in Going : Going' = Going \ {a}
      <4>1. n' = n - 1
        BY <1>2, <3>1, FS_RemoveElement
      <4>2. QED
        BY <1>2, <3>1, <4>1
    <3>2. CASE PlannerGoes' = PlannerGoes - 1 /\ Going' = Going
      BY <1>2, <3>2
    <3>3. QED
      BY <1>8, <3>1, <3>2 DEF OverStep
  <2>2. Chances' = Chances - 1
    BY <1>2, <2>1
  <2>3. /\ failed' = failed + 1 /\ starts' = starts /\ segments' = segments
        /\ saved' = saved
    BY <1>8 DEF OverStep
  <2>4. QED
    BY <1>1, <1>3, <1>4, <2>2, <2>3
<1>9. CASE StartStep
  <2>1. PICK S \in SUBSET Actors : Going' = Going \cup S /\ starts' = starts + Cardinality(S)
    BY <1>9 DEF StartStep
  <2> DEFINE k == Cardinality(S)
  <2>2. IsFiniteSet(S) /\ k \in Nat
    BY BudgetAssumption, FS_Subset, FS_CardinalityType
  <2>3. n' <= n + k
    <3>1. /\ Cardinality(Going \cup S)
               = Cardinality(Going) + Cardinality(S) - Cardinality(Going \cap S)
          /\ Cardinality(Going \cap S) \in Nat
      BY <1>2, <2>2, FS_Union, FS_Intersection, FS_CardinalityType
    <3>2. QED
      BY <1>2, <2>1, <2>2, <3>1
  <2>4. PlannerGoes' = PlannerGoes /\ failed' = failed /\ segments' = segments /\ saved' = saved
    BY <1>9 DEF StartStep, SameFailures
  <2>5. Chances' <= Chances + k
    BY <1>2, <2>2, <2>3, <2>4
  <2> HIDE DEF k
  <2>6. starts' = starts + k
    BY <2>1 DEF k
  <2>7. QED
    BY <1>1, <1>3, <1>4, <2>2, <2>4, <2>5, <2>6
<1>10. CASE Restart
  <2>1. \A a \in Actors : loop'[a] \notin {"idle", "calling"}
    <3>1. Planner \notin Actors /\ Actors \subseteq Loops
      BY BudgetAssumption, ActorsAreLoops
    <3>2. QED
      BY <1>10, <3>1 DEF Restart
  <2>2. n' <= 0
    <3>1. Going' = {}
      BY <2>1 DEF Going
    <3>2. QED
      BY <3>1, FS_EmptySet
  <2>3. Chances' <= 2
    BY <1>2, <2>2
  <2>4. /\ failed' = saved.snapshot.failed_tool_calls
        /\ starts' = saved.snapshot.actor_start_attempts
        /\ segments' = segments + 1 /\ saved' = saved
    BY <1>10 DEF Restart
  <2>5. QED
    BY <1>1, <1>3, <1>4, <2>3, <2>4
<1>11. QED
  BY <1>6, <1>7, <1>8, <1>9, <1>10, FailureStep

\* Failed calls pass their limit twice for each process and once for each start
\* of an Actor at most, for any number of loops and resumes
\* (charge_failed_tool_call, and a resumed Planner that goes on after it raised).
THEOREM LedgerFailuresBounded == Spec => []FailedCallsBounded
<1>1. TypeOK /\ FailedInv => FailedCallsBounded
  <2> SUFFICES ASSUME TypeOK, FailedInv PROVE FailedCallsBounded
    OBVIOUS
  <2>1. PlannerGoes \in Nat
    BY DEF PlannerGoes
  <2>2. Chances \in Nat
    BY <2>1, GoingFinite DEF Chances
  <2>3. /\ segments \in Nat
        /\ snapshot.failed_tool_calls \in Nat /\ snapshot.actor_start_attempts \in Nat
    BY DEF TypeOK, SnapshotType
  <2>4. QED
    BY <2>2, <2>3, BudgetAssumption DEF FailedInv, Paid, FailedCallsBounded
<1>2. QED
  BY <1>1, InitType, NextType, InitFailed, NextFailed, PTL DEF Spec
=============================================================================
