--------------------------- MODULE RunStoreProofs ---------------------------
(***************************************************************************)
(* The optimistic lock of RunStore, for any number of processes, saves,    *)
(* cancellations, deaths and late threads: the row only takes legal steps  *)
(* and keeps all that was acknowledged.                                    *)
(*                                                                         *)
(* The invariant ties every record and every UPDATE under way to the row   *)
(* by its version: one that could still match was made from this very row. *)
(***************************************************************************)
EXTENDS RunStore, TLAPS

\* A record is never ahead of the row, and is true of it when it is level.
RecordInv ==
  \A p \in Processes :
    /\ record[p].version <= row.version
    /\ record[p].version = row.version =>
         record[p].status = row.status /\ row.facts \subseteq record[p].facts

\* An UPDATE that has not reached the row yet.
Fits(w) ==
  /\ w.version <= row.version + 1
  /\ w.version = row.version + 1 =>
       CanBecome(row.status, w.status) /\ row.facts \subseteq w.facts

WriteInv ==
  \A p \in Processes : pc[p] \in {"saving", "pausing"} => Fits(write[p])

OrphanInv == \A p \in Processes : \A w \in orphans[p] : Fits(w)

\* An UPDATE that has reached the row and is not acknowledged yet.
Landed(w) ==
  /\ w.version <= row.version
  /\ w.facts \subseteq row.facts
  /\ w.version = row.version => w = row

SavedInv == \A p \in Processes : pc[p] = "saved" => Landed(write[p])

Inv ==
  TypeOK /\ RecordInv /\ WriteInv /\ OrphanInv /\ SavedInv /\ AcknowledgedSavesKept

-----------------------------------------------------------------------------
LEMMA InitInv == Init => Inv
<1> SUFFICES ASSUME Init PROVE Inv
  OBVIOUS
<1>1. Created \in Record
  BY DEF Created, Record, Statuses
<1>2. TypeOK
  BY <1>1 DEF Init, TypeOK
<1>3. RecordInv
  <2>1. \A p \in Processes : record[p] = row
    BY DEF Init
  <2>2. \A r \in Record : /\ r.version <= r.version
                          /\ r.status = r.status /\ r.facts \subseteq r.facts
    BY DEF Record
  <2>3. QED
    BY <1>2, <2>1, <2>2, Zenon DEF RecordInv, TypeOK
<1>4. WriteInv /\ SavedInv
  <2>1. \A p \in Processes : pc[p] \notin {"saving", "pausing", "saved"}
    BY DEF Init
  <2>2. QED
    BY <2>1 DEF WriteInv, SavedInv
<1>5. OrphanInv
  BY DEF Init, OrphanInv
<1>6. AcknowledgedSavesKept
  BY DEF Init, AcknowledgedSavesKept
<1>7. QED
  BY <1>2, <1>3, <1>4, <1>5, <1>6 DEF Inv

\* An UPDATE that matches is a legal step of the row that drops nothing.
LEMMA MatchingWrite ==
  ASSUME TypeOK, NEW w \in Record, Fits(w), Matches(w)
  PROVE  /\ w.version = row.version + 1
         /\ CanBecome(row.status, w.status)
         /\ row.facts \subseteq w.facts
BY DEF Fits, Matches

\* What a process writes next from its record fits the row.
LEMMA SuccessorFits ==
  ASSUME TypeOK, RecordInv, NEW p \in Processes, NEW status \in Statuses,
         CanBecome(record[p].status, status),
         NEW facts \in SUBSET Facts, record[p].facts \subseteq facts
  PROVE  /\ Successor(record[p], status, facts) \in Record
         /\ Fits(Successor(record[p], status, facts))
<1>1. record[p] \in Record /\ row \in Record
  BY DEF TypeOK
<1>2. QED
  BY <1>1 DEF RecordInv, Fits, Successor, Record

\* The row takes a matching UPDATE: whatever fitted or had landed still does.
LEMMA RowStep ==
  ASSUME Inv, NEW w \in Record, Fits(w), Matches(w), row' = w,
         record' = record
  PROVE  /\ RecordInv'
         /\ \A v \in Record : Fits(v) => Fits(v)'
         /\ \A v \in Record : Landed(v) => Landed(v)'
         /\ Landed(w)'
         /\ told \subseteq row'.facts
<1>1. /\ w.version = row.version + 1
      /\ CanBecome(row.status, w.status)
      /\ row.facts \subseteq w.facts
  BY MatchingWrite DEF Inv
<1>2. row \in Record /\ record \in [Processes -> Record]
  BY DEF Inv, TypeOK
<1>3. RecordInv'
  BY <1>1, <1>2 DEF Inv, RecordInv, Record
<1>4. \A v \in Record : Fits(v) => Fits(v)'
  BY <1>1, <1>2 DEF Fits, Record
<1>5. \A v \in Record : Landed(v) => Landed(v)'
  BY <1>1, <1>2 DEF Landed, Record
<1>6. Landed(w)'
  BY <1>2 DEF Landed, Record
<1>7. told \subseteq row'.facts
  BY <1>1 DEF Inv, AcknowledgedSavesKept
<1>8. QED
  BY <1>3, <1>4, <1>5, <1>6, <1>7

LEMMA NextInv == Inv /\ [Next]_vars => Inv'
<1> SUFFICES ASSUME Inv, [Next]_vars PROVE Inv'
  OBVIOUS
<1> USE DEF Inv
<1>t. /\ row \in Record /\ deleted \in BOOLEAN
      /\ record \in [Processes -> Record] /\ write \in [Processes -> Record]
      /\ orphans \in [Processes -> SUBSET Record]
      /\ \A p \in Processes : orphans[p] \subseteq Record
  BY DEF TypeOK
<1>1. ASSUME NEW p \in Processes, Load(p) PROVE Inv'
  <2>1. TypeOK'
    BY <1>1 DEF Load, Go, TypeOK
  <2>2. RecordInv'
    BY <1>1, <1>t DEF Load, RecordInv, Record
  <2>3. WriteInv' /\ OrphanInv' /\ SavedInv' /\ AcknowledgedSavesKept'
    BY <1>1 DEF Load, Go, TypeOK, WriteInv, OrphanInv, SavedInv, Fits, Landed,
                AcknowledgedSavesKept
  <2>4. QED
    BY <2>1, <2>2, <2>3
<1>2. ASSUME NEW p \in Processes, NEW status \in Statuses, NEW fact \in Facts,
             BeginPersist(p, status, fact)
      PROVE  Inv'
  <2> DEFINE facts == record[p].facts \cup {fact}
             w == Successor(record[p], status, facts)
  <2>1. facts \in SUBSET Facts
    BY <1>t DEF Record
  <2>2. w \in Record /\ Fits(w)
    BY <1>2, <2>1, SuccessorFits DEF BeginPersist
  <2>3. /\ record' = [record EXCEPT ![p].facts = facts]
        /\ write' = [write EXCEPT ![p] = w]
        /\ pc' = [pc EXCEPT ![p] = "saving"]
        /\ UNCHANGED <<row, deleted, orphans, told>>
        /\ issued' = issued \cup {fact}
    BY <1>2 DEF BeginPersist, Go
  <2>4. record[p] \in Record
    BY <1>t
  <2>5. [record[p] EXCEPT !.facts = facts] \in Record
    BY <2>1, <2>4 DEF Record
  <2>6. TypeOK'
    BY <2>2, <2>3, <2>5 DEF TypeOK
  <2>7. RecordInv'
    BY <2>1, <2>3, <2>4, <1>t DEF RecordInv, Record
  <2>8. WriteInv'
    BY <2>2, <2>3 DEF WriteInv, Fits, TypeOK
  <2>9. OrphanInv' /\ SavedInv' /\ AcknowledgedSavesKept'
    BY <2>3 DEF OrphanInv, SavedInv, Fits, Landed, AcknowledgedSavesKept, TypeOK
  <2>10. QED
    BY <2>6, <2>7, <2>8, <2>9
<1>3. ASSUME NEW p \in Processes, Save(p) PROVE Inv'
  <2>1. write[p] \in Record /\ Fits(write[p])
    BY <1>3, <1>t DEF Save, WriteInv
  <2>2. UNCHANGED <<deleted, record, write, orphans, issued, told>>
    BY <1>3 DEF Save
  <2>3. CASE Matches(write[p])
    <3>1. row' = write[p] /\ pc' = [pc EXCEPT ![p] = "saved"]
      BY <1>3, <2>3 DEF Save, Go
    <3>2. /\ RecordInv'
          /\ \A v \in Record : Fits(v) => Fits(v)'
          /\ \A v \in Record : Landed(v) => Landed(v)'
          /\ Landed(write[p])'
          /\ told \subseteq row'.facts
      <4>1. \A w \in Record : /\ Fits(w) /\ Matches(w) /\ row' = w
                              => /\ RecordInv'
                                 /\ \A v \in Record : Fits(v) => Fits(v)'
                                 /\ \A v \in Record : Landed(v) => Landed(v)'
                                 /\ told \subseteq row'.facts
        BY <2>2, RowStep
      <4>2. Landed(write[p])'
        BY <3>1, <2>1, <2>2 DEF Landed, Record
      <4>3. QED
        BY <4>1, <4>2, <2>1, <2>3, <3>1
    <3>3. TypeOK'
      BY <2>1, <2>2, <3>1 DEF TypeOK
    <3>4. WriteInv' /\ OrphanInv' /\ SavedInv'
      BY <1>t, <2>2, <3>1, <3>2 DEF WriteInv, OrphanInv, SavedInv, TypeOK
    <3>5. AcknowledgedSavesKept'
      BY <2>2, <3>2 DEF AcknowledgedSavesKept
    <3>6. QED
      BY <3>2, <3>3, <3>4, <3>5
  <2>4. CASE ~Matches(write[p])
    <3>1. row' = row /\ pc' = [pc EXCEPT ![p] = "conflict"]
      BY <1>3, <2>4 DEF Save, Go
    <3>2. QED
      BY <2>2, <3>1 DEF TypeOK, RecordInv, WriteInv, OrphanInv, SavedInv, Fits,
                        Landed, AcknowledgedSavesKept
  <2>5. QED
    BY <2>3, <2>4
<1>4. ASSUME NEW p \in Processes, Acknowledge(p) PROVE Inv'
  <2>1. /\ record' = [record EXCEPT ![p] = write[p]]
        /\ told' = told \cup write[p].facts
        /\ pc' = [pc EXCEPT ![p] = "idle"]
        /\ UNCHANGED <<row, deleted, write, orphans, issued>>
    BY <1>4 DEF Acknowledge, Go
  <2>2. write[p] \in Record /\ Landed(write[p])
    BY <1>4, <1>t DEF Acknowledge, SavedInv
  <2>3. TypeOK'
    BY <2>1, <2>2 DEF TypeOK, Record
  <2>4. RecordInv'
    BY <2>1, <2>2, <1>t DEF RecordInv, Landed
  <2>5. WriteInv' /\ OrphanInv' /\ SavedInv'
    BY <2>1 DEF WriteInv, OrphanInv, SavedInv, Fits, Landed, TypeOK
  <2>6. AcknowledgedSavesKept'
    BY <2>1, <2>2 DEF AcknowledgedSavesKept, Landed
  <2>7. QED
    BY <2>3, <2>4, <2>5, <2>6
<1>5. ASSUME NEW p \in Processes, Conflict(p) PROVE Inv'
  BY <1>5 DEF Conflict, Go, TypeOK, RecordInv, WriteInv, OrphanInv, SavedInv,
              Fits, Landed, AcknowledgedSavesKept
<1>6. ASSUME NEW p \in Processes, Cancel(p) PROVE Inv'
  <2> DEFINE w == Successor(record[p], "paused", record[p].facts)
             left == IF pc[p] = "saving" THEN orphans[p] \cup {write[p]} ELSE orphans[p]
  <2>1. /\ orphans' = [orphans EXCEPT ![p] = left]
        /\ UNCHANGED <<row, deleted, record, issued, told>>
        /\ \/ /\ record[p].status = "running"
              /\ write' = [write EXCEPT ![p] = w]
              /\ pc' = [pc EXCEPT ![p] = "pausing"]
           \/ write' = write /\ pc' = [pc EXCEPT ![p] = "off"]
    BY <1>6 DEF Cancel, Go
  <2>2. record[p].status = "running" => w \in Record /\ Fits(w)
    <3>1. SUFFICES ASSUME record[p].status = "running"
                   PROVE  w \in Record /\ Fits(w)
      OBVIOUS
    <3>2. record[p].facts \in SUBSET Facts
      BY <1>t DEF Record
    <3>3. "paused" \in Statuses /\ CanBecome(record[p].status, "paused")
      BY <3>1 DEF Statuses, CanBecome, LegalTransitions
    <3>4. QED
      BY <3>2, <3>3, SuccessorFits
  <2>3. left \subseteq Record /\ \A v \in left : Fits(v)
    BY <1>t DEF WriteInv, OrphanInv
  <2>4. TypeOK'
    BY <2>1, <2>2, <2>3 DEF TypeOK
  <2>5. RecordInv' /\ AcknowledgedSavesKept'
    BY <2>1 DEF RecordInv, AcknowledgedSavesKept
  <2>6. WriteInv'
    BY <2>1, <2>2 DEF WriteInv, Fits, TypeOK
  <2>7. OrphanInv'
    BY <2>1, <2>3 DEF OrphanInv, Fits, TypeOK
  <2>8. SavedInv'
    BY <2>1 DEF SavedInv, Landed, TypeOK
  <2>9. QED
    BY <2>4, <2>5, <2>6, <2>7, <2>8
<1>7. ASSUME NEW p \in Processes, SavePaused(p) PROVE Inv'
  <2>1. write[p] \in Record /\ Fits(write[p])
    BY <1>7, <1>t DEF SavePaused, WriteInv
  <2>2. /\ UNCHANGED <<deleted, record, write, orphans, issued>>
        /\ pc' = [pc EXCEPT ![p] = "cancelled"]
    BY <1>7 DEF SavePaused, Go
  <2>3. CASE Matches(write[p])
    <3>1. row' = write[p] /\ told' = told \cup write[p].facts
      BY <1>7, <2>3 DEF SavePaused
    <3>2. \A w \in Record : /\ Fits(w) /\ Matches(w) /\ row' = w
                            => /\ RecordInv'
                               /\ \A v \in Record : Fits(v) => Fits(v)'
                               /\ \A v \in Record : Landed(v) => Landed(v)'
                               /\ told \subseteq row'.facts
      BY <2>2, RowStep
    <3>3. /\ RecordInv'
          /\ \A v \in Record : Fits(v) => Fits(v)'
          /\ \A v \in Record : Landed(v) => Landed(v)'
          /\ told \subseteq row'.facts
      BY <3>2, <2>1, <2>3, <3>1
    <3>4. TypeOK'
      BY <2>1, <2>2, <3>1 DEF TypeOK, Record
    <3>5. WriteInv' /\ OrphanInv' /\ SavedInv'
      BY <1>t, <2>2, <3>3 DEF WriteInv, OrphanInv, SavedInv, TypeOK
    <3>6. AcknowledgedSavesKept'
      BY <3>1, <3>3 DEF AcknowledgedSavesKept
    <3>7. QED
      BY <3>3, <3>4, <3>5, <3>6
  <2>4. CASE ~Matches(write[p])
    <3>1. row' = row /\ told' = told
      BY <1>7, <2>4 DEF SavePaused
    <3>2. QED
      BY <2>2, <3>1 DEF TypeOK, RecordInv, WriteInv, OrphanInv, SavedInv, Fits,
                        Landed, AcknowledgedSavesKept
  <2>5. QED
    BY <2>3, <2>4
<1>8. ASSUME NEW p \in Processes, NEW w \in orphans[p], SaveOrphan(p, w) PROVE Inv'
  <2>1. w \in Record /\ Fits(w)
    BY <1>t DEF OrphanInv
  <2>2. /\ UNCHANGED <<deleted, record, pc, write, issued, told>>
        /\ orphans' = [orphans EXCEPT ![p] = @ \ {w}]
        /\ row' = IF Matches(w) THEN w ELSE row
    BY <1>8 DEF SaveOrphan
  <2>3. \A q \in Processes : orphans'[q] \subseteq orphans[q]
    BY <2>2 DEF TypeOK
  <2>4. TypeOK'
    BY <2>1, <2>2 DEF TypeOK
  <2>5. CASE Matches(w)
    <3>1. row' = w
      BY <2>2, <2>5
    <3>2. /\ RecordInv'
          /\ \A v \in Record : Fits(v) => Fits(v)'
          /\ \A v \in Record : Landed(v) => Landed(v)'
          /\ told \subseteq row'.facts
      BY <2>1, <2>2, <2>5, <3>1, RowStep
    <3>3. WriteInv' /\ OrphanInv' /\ SavedInv'
      BY <1>t, <2>2, <2>3, <3>2 DEF WriteInv, OrphanInv, SavedInv
    <3>4. AcknowledgedSavesKept'
      BY <2>2, <3>2 DEF AcknowledgedSavesKept
    <3>5. QED
      BY <2>4, <3>2, <3>3, <3>4
  <2>6. CASE ~Matches(w)
    <3>1. row' = row
      BY <2>2, <2>6
    <3>2. QED
      BY <2>2, <2>3, <2>4, <3>1 DEF RecordInv, WriteInv, OrphanInv, SavedInv,
                                    Fits, Landed, AcknowledgedSavesKept
  <2>7. QED
    BY <2>5, <2>6
<1>9. ASSUME NEW p \in Processes, Crash(p) PROVE Inv'
  BY <1>9 DEF Crash, Go, TypeOK, RecordInv, WriteInv, OrphanInv, SavedInv,
              Fits, Landed, AcknowledgedSavesKept
<1>10. CASE Delete
  BY <1>10 DEF Delete, TypeOK, RecordInv, WriteInv, OrphanInv, SavedInv,
               Fits, Landed, AcknowledgedSavesKept
<1>11. CASE UNCHANGED vars
  BY <1>11 DEF vars, TypeOK, RecordInv, WriteInv, OrphanInv, SavedInv,
               Fits, Landed, AcknowledgedSavesKept
<1>12. QED
  BY <1>1, <1>2, <1>3, <1>4, <1>5, <1>6, <1>7, <1>8, <1>9, <1>10, <1>11 DEF Next

LEMMA SpecInv == Spec => []Inv
<1>1. QED
  BY InitInv, NextInv, PTL DEF Spec

-----------------------------------------------------------------------------
\* The row, the records and the UPDATEs under way always have their types.
THEOREM RunStoreTypeCorrect == Spec => []TypeOK
<1>1. Inv => TypeOK
  BY DEF Inv
<1>2. QED
  BY SpecInv, <1>1, PTL

\* No acknowledged checkpoint is ever lost, with any number of processes
\* resuming the Run and any order in which late UPDATEs arrive.
THEOREM AcknowledgedSavesNeverLost == Spec => []AcknowledgedSavesKept
<1>1. Inv => AcknowledgedSavesKept
  BY DEF Inv
<1>2. QED
  BY SpecInv, <1>1, PTL

\* A process whose record is as new as the row decides from the truth.
THEOREM CurrentRecordsTrue == Spec => []CurrentRecordIsTrue
<1>1. Inv => CurrentRecordIsTrue
  BY DEF Inv, RecordInv, CurrentRecordIsTrue
<1>2. QED
  BY SpecInv, <1>1, PTL

\* Whatever UPDATE is under way, the row can take it or will refuse it.
THEOREM UpdatesAlwaysFit == Spec => []UpdatesFitTheRow
<1>1. Inv => UpdatesFitTheRow
  BY DEF Inv, WriteInv, OrphanInv, Fits, UpdatesFitTheRow, UpdatesUnderWay
<1>2. QED
  BY SpecInv, <1>1, PTL

\* Every change of the row is one version, one legal transition and loses
\* nothing; a completed Run therefore stays completed.
THEOREM DurableStepsAreLegal == Spec => DurableStepsLegal
<1>1. Inv /\ [Next]_vars => [DurableStep]_vars
  <2> SUFFICES ASSUME Inv, [Next]_vars, row' # row PROVE DurableStep
    BY DEF DurableStep
  <2> USE DEF Inv
  <2>t. write \in [Processes -> Record] /\ orphans \in [Processes -> SUBSET Record]
    BY DEF TypeOK
  <2>1. PICK w \in Record : Fits(w) /\ Matches(w) /\ row' = w
    <3>1. CASE \E p \in Processes : Save(p)
      BY <3>1, <2>t DEF Save, WriteInv
    <3>2. CASE \E p \in Processes : SavePaused(p)
      BY <3>2, <2>t DEF SavePaused, WriteInv
    <3>3. CASE \E p \in Processes : \E w \in orphans[p] : SaveOrphan(p, w)
      BY <3>3, <2>t DEF SaveOrphan, OrphanInv
    <3>4. QED
      BY <3>1, <3>2, <3>3 DEF Next, vars, Load, BeginPersist, Acknowledge,
         Conflict, Cancel, Crash, Delete
  <2>2. QED
    BY <2>1, MatchingWrite DEF DurableStep, Matches
<1>2. QED
  BY SpecInv, <1>1, PTL DEF Spec, DurableStepsLegal
=============================================================================
