-------------------------- MODULE RetentionProofs --------------------------
(***************************************************************************)
(* Retention for any Runs, limits, deaths and numbers of commands: a Run   *)
(* that is still listed keeps its report, unless a removal of the whole         *)
(* directory took it.                                                      *)
(*                                                                         *)
(* Nothing is locked, so the argument is one of order: whoever removes a   *)
(* report on account of its Run has removed the row before, an id is never *)
(* given twice, and a Run that a collection did not list has a report of   *)
(* the day of this collection, or none.                                    *)
(***************************************************************************)
EXTENDS Retention, TLAPS

\* What steps leave alone is written with this abbreviation throughout.
USE DEF history

\* Whatever is known of a Run comes after its start.
IdsInv ==
  /\ clock > 0
  /\ Stored \cup Reported \cup filed \subseteq used.ids
  /\ \A r \in Runs : process[r] # "off" => r \in used.ids

\* A deletion that is past the row has no row left to betray.
DeleteInv ==
  /\ \A r, s \in deleter.run : r = s
  /\ deleter.run \subseteq used.ids
  /\ deleter.step \in {"report", "artifacts"} => deleter.run \cap Stored = {}

\* The same for the Runs a collection has listed.
CollectInv ==
  /\ collector.step # "row"
  /\ collector.step \in {"runs", "report", "artifacts"} => collector.todo \subseteq used.ids
  /\ collector.step \in {"report", "artifacts"} =>
       collector.run \subseteq used.ids /\ collector.run \cap Stored = {}

\* A Run started since the list was read reported today, if at all.
ListedInv ==
  collector.step \in {"runs", "report", "artifacts", "history"} =>
    \A r \in Stored \ collector.listed : reports[r] \in {0, clock}

Facts == IdsInv /\ DeleteInv /\ CollectInv /\ ListedInv /\ RowsKeepTheirReports

-----------------------------------------------------------------------------
\* The step after one of a deletion.
LEMMA ThenSteps ==
  /\ DOMAIN Then = {"row", "report", "artifacts"}
  /\ Then["row"] = "report" /\ Then["report"] = "artifacts" /\ Then["artifacts"] = "off"
  BY DEF Then

LEMMA InitInv == Init => TypeOK /\ Facts
<1> SUFFICES ASSUME Init PROVE TypeOK /\ Facts
  OBVIOUS
<1>1. Stored = {} /\ Reported = {}
  BY DEF Init, Stored, Reported, NoRow
<1>2. TypeOK
  BY ThenSteps DEF Init, TypeOK, Row, Metadata, Deletion, Collection, Used, NoRow,
                    NotCollecting
<1>3. IdsInv /\ DeleteInv /\ CollectInv /\ ListedInv /\ RowsKeepTheirReports
  BY <1>1 DEF Init, IdsInv, DeleteInv, CollectInv, ListedInv, RowsKeepTheirReports,
              NotCollecting
<1>4. QED
  BY <1>2, <1>3 DEF Facts

-----------------------------------------------------------------------------
\* The values a step makes have their types.
LEMMA RowTypes ==
  /\ NoRow \in Row
  /\ \A n \in Nat, s \in {"running", "paused", "failed", "completed"} :
       [status |-> s, updated |-> n] \in Row
  /\ \A row \in Row, n \in Nat : [row EXCEPT !.updated = n] \in Row
  BY DEF NoRow, Row

LEMMA MetadataTypes ==
  ASSUME NEW n \in Nat, NEW m \in Metadata
  PROVE  /\ [there |-> TRUE, orphaned |-> n] \in Metadata
         /\ [there |-> FALSE, orphaned |-> n] \in Metadata
         /\ [m EXCEPT !.orphaned = n] \in Metadata
  BY DEF Metadata

LEMMA DeletionTypes ==
  ASSUME NEW R \in SUBSET Runs, NEW d \in Deletion, NEW s \in DOMAIN Then
  PROVE  /\ [step |-> s, run |-> R] \in Deletion
         /\ [step |-> "off", run |-> R] \in Deletion
         /\ [d EXCEPT !.step = s] \in Deletion
         /\ d.step \in DOMAIN Then \cup {"off"}
  BY ThenSteps DEF Deletion

Steps == DOMAIN Then \cup {"off", "look", "remove", "runs", "history", "cap"}

LEMMA NoCollection == NotCollecting \in Collection
  BY DEF NotCollecting, Collection

LEMMA CollectionFields ==
  ASSUME NEW c \in Collection
  PROVE  /\ c.listed \in SUBSET Runs /\ c.todo \in SUBSET Runs /\ c.run \in SUBSET Runs
         /\ c.step \in Steps
  BY DEF Collection, Steps

LEMMA CollectionTypes ==
  ASSUME NEW c \in Collection, NEW s \in Steps,
         NEW L \in SUBSET Runs, NEW T \in SUBSET Runs, NEW R \in SUBSET Runs, NEW b \in BOOLEAN
  PROVE  /\ [NotCollecting EXCEPT !.step = s] \in Collection
         /\ [c EXCEPT !.alone = b] \in Collection
         /\ [c EXCEPT !.step = s] \in Collection
         /\ [c EXCEPT !.run = R] \in Collection
         /\ [c EXCEPT !.step = s, !.run = R] \in Collection
         /\ [c EXCEPT !.step = s, !.listed = L, !.todo = T] \in Collection
         /\ [c EXCEPT !.step = s, !.todo = T, !.run = {}, !.listed = L] \in Collection
  BY NoCollection DEF Collection, Steps

LEMMA UsedTypes ==
  ASSUME NEW u \in Used, NEW r \in Runs
  PROVE  /\ [u EXCEPT !.ids = @ \cup {r}] \in Used
         /\ [u EXCEPT !.commands = @ + 1] \in Used
         /\ [u EXCEPT !.mishaps = @ + 1] \in Used
  BY DEF Used

\* What dropping one thing of a Run leaves of the rest.
LEMMA DropKeepsType ==
  ASSUME TypeOK, NEW r \in Runs, NEW s \in DOMAIN Then, Drop(s, r)
  PROVE  rows' \in [Runs -> Row] /\ reports' \in [Runs -> Nat] /\ artifacts' \in [Runs -> Nat]
  <1>1. CASE s = "row"
    BY <1>1, RowTypes DEF TypeOK, Drop, DropRow, files
  <1>2. CASE s = "report"
    BY <1>2 DEF TypeOK, Drop, DropReport
  <1>3. CASE s = "artifacts"
    BY <1>3 DEF TypeOK, Drop, DropArtifacts
  <1>4. QED
    BY <1>1, <1>2, <1>3, ThenSteps

\* Any deletions and collections may go on while something else happens.
LEMMA DisturbType ==
  ASSUME TypeOK, Disturb
  PROVE  collector' \in Collection
  BY CollectionTypes DEF TypeOK, Disturb, Steps

LEMMA MishapType ==
  ASSUME TypeOK, Mishap
  PROVE  used' \in Used
  BY DEF TypeOK, Mishap, Used

LEMMA CommandType ==
  ASSUME TypeOK, Command
  PROVE  used' \in Used
  BY DEF TypeOK, Command, Used

LEMMA TouchType ==
  ASSUME TypeOK, Touch
  PROVE  metadata' \in Metadata
  BY DEF Touch, Metadata

LEMMA GoesType ==
  ASSUME TypeOK, NEW s \in Steps, NEW T \in SUBSET Runs, Goes(s, T)
  PROVE  collector' \in Collection
<1>1. (IF s = "cap" THEN {} ELSE collector.listed) \in SUBSET Runs
  BY DEF TypeOK, Collection
<1>2. QED
  BY <1>1 DEF TypeOK, Goes, Collection, Steps

-----------------------------------------------------------------------------
LEMMA TypeStep == TypeOK /\ [Next]_vars => TypeOK'
<1> SUFFICES ASSUME TypeOK, [Next]_vars PROVE TypeOK'
  OBVIOUS
<1> USE DEF TypeOK, files, others, Bystanders
<1>1. ASSUME NEW r \in Runs, StartRun(r) PROVE TypeOK'
  BY <1>1, RowTypes, UsedTypes, TouchType, DisturbType DEF StartRun
<1>2. ASSUME NEW r \in Runs, ResumeRun(r) PROVE TypeOK'
  BY <1>2, RowTypes, TouchType, DisturbType DEF ResumeRun
<1>3. ASSUME NEW r \in Runs, SaveRun(r) PROVE TypeOK'
  BY <1>3, RowTypes, TouchType, DisturbType DEF SaveRun
<1>4. ASSUME NEW r \in Runs, EndRun(r) PROVE TypeOK'
  BY <1>4, RowTypes, DisturbType DEF EndRun
<1>5. ASSUME NEW r \in Runs, WriteReport(r) PROVE TypeOK'
  BY <1>5, TouchType, DisturbType DEF WriteReport
<1>6. ASSUME NEW r \in Runs, RunDies(r) PROVE TypeOK'
  BY <1>6, MishapType, DisturbType DEF RunDies
<1>7. ASSUME NEW r \in Runs, BeginDelete(r) PROVE TypeOK'
  BY <1>7, ThenSteps, DeletionTypes, CommandType, TouchType, DisturbType DEF BeginDelete
<1>8. ASSUME NEW r \in Runs, Delete(r) PROVE TypeOK'
  <2>1. deleter.step \in DOMAIN Then
    BY <1>8, DeletionTypes, ThenSteps DEF Delete
  <2>2. Then[deleter.step] = "off" \/ Then[deleter.step] \in DOMAIN Then
    BY <2>1, ThenSteps
  <2>3. deleter' \in Deletion
    BY <1>8, <2>1, <2>2, DeletionTypes DEF Delete, Deletion
  <2>4. QED
    BY <1>8, <2>1, <2>3, DropKeepsType, DisturbType DEF Delete
<1>9. CASE DeleterDies
  BY <1>9, DeletionTypes, ThenSteps, MishapType, DisturbType DEF DeleterDies
<1>10. CASE CollectorDies \/ DayPasses
  <2>1. (torn \cup Stored) \subseteq Runs
    BY DEF Stored
  <2>2. torn' \subseteq Runs
    BY <1>10, <2>1 DEF CollectorDies, DayPasses
  <2>3. QED
    BY <1>10, <2>2, NoCollection, MishapType DEF CollectorDies, DayPasses
<1>11. CASE MoveWorkspace
  BY <1>11, MishapType, DisturbType DEF MoveWorkspace
<1>12. CASE Collect
  <2>1. CASE BeginCollect
    BY <2>1, CollectionTypes, CommandType DEF BeginCollect, Steps
  <2>2. CASE MarkOrphan
    BY <2>2, MetadataTypes, GoesType DEF MarkOrphan, Steps
  <2>3. CASE DeleteOrphan \/ Removed \/ HistoryTaken
    <3>1. Goes("remove", {}) \/ Goes("cap", {})
      BY <2>3 DEF DeleteOrphan, Removed, HistoryTaken
    <3>2. collector' \in Collection
      BY <3>1, GoesType DEF Steps
    <3>3. QED
      BY <2>3, <3>2 DEF DeleteOrphan, Removed, HistoryTaken
  <2>4. CASE RemoveEntry
    <3>1. rows' \in [Runs -> Row] /\ reports' \in [Runs -> Nat] /\ artifacts' \in [Runs -> Nat]
      BY <2>4, RowTypes DEF RemoveEntry, DropReport, DropArtifacts, Reported
    <3>2. metadata' \in Metadata
      <4>1. metadata' \in {metadata, [there |-> FALSE, orphaned |-> 0]}
        BY <2>4 DEF RemoveEntry
      <4>2. [there |-> FALSE, orphaned |-> 0] \in Metadata
        BY DEF Metadata
      <4>3. QED
        BY <4>1, <4>2
    <3>3. filed' \subseteq Runs /\ torn' \subseteq Runs
      BY <2>4 DEF RemoveEntry
    <3>4. QED
      BY <2>4, <3>1, <3>2, <3>3 DEF RemoveEntry
  <2>5. CASE SkipState \/ EndCollect
    BY <2>5, NoCollection DEF SkipState, EndCollect
  <2>6. CASE ListRuns
    <3>1. PICK T \in SUBSET Runs :
            collector' = [collector EXCEPT !.step = "runs", !.listed = Stored, !.todo = T]
      BY <2>6 DEF ListRuns, Stored
    <3>2. Stored \in SUBSET Runs
      BY DEF Stored
    <3>3. collector' \in Collection
      BY <3>1, <3>2 DEF Collection
    <3>4. QED
      BY <2>6, <3>3 DEF ListRuns
  <2>7. CASE ListHistory
    BY <2>7, GoesType DEF ListHistory, Reported, Steps
  <2>8. CASE EnforceCap
    BY <2>8 DEF EnforceCap, Kept, DropArtifacts
  <2>9. ASSUME NEW r \in Runs, TakeRun(r) PROVE TypeOK'
    <3>1. collector' \in Collection
      BY <2>9, ThenSteps DEF TakeRun, Collection
    <3>2. QED
      BY <2>9, <3>1, RowTypes DEF TakeRun, DropRow
  <2>10. ASSUME NEW r \in Runs, CollectRun(r) PROVE TypeOK'
    <3>1. collector.todo \ {r} \in SUBSET Runs
      BY CollectionFields
    <3>2. ASSUME Then[collector.step] = "off" PROVE collector' \in Collection
      <4>1. Goes("runs", collector.todo \ {r})
        BY <2>10, <3>2 DEF CollectRun
      <4>2. QED
        BY <3>1, <4>1, GoesType DEF Steps
    <3>3. ASSUME Then[collector.step] # "off" PROVE collector' \in Collection
      <4>1. collector' = [collector EXCEPT !.step = Then[@]]
        BY <2>10, <3>3 DEF CollectRun
      <4>2. Then[collector.step] \in Steps
        BY <2>10, <3>3, ThenSteps DEF CollectRun, Steps
      <4>3. QED
        BY <4>1, <4>2 DEF Collection, Steps
    <3>4. collector' \in Collection
      BY <3>2, <3>3
    <3>5. QED
      BY <2>10, <3>4, DropKeepsType DEF CollectRun
  <2>11. ASSUME NEW r \in Runs, TakeReport(r) PROVE TypeOK'
    BY <2>11, CollectionTypes DEF TakeReport, DropReport, Steps
  <2>12. ASSUME NEW r \in Runs, PassReport(r) \/ MissReport(r) \/ TakeHistory(r) PROVE TypeOK'
    <3>1. collector.todo \ {r} \in SUBSET Runs
      BY CollectionFields
    <3>2. collector' = NotCollecting \/ Goes("history", collector.todo \ {r})
      BY <2>12 DEF PassReport, MissReport, TakeHistory
    <3>3. collector' \in Collection
      BY <3>1, <3>2, NoCollection, GoesType DEF Steps
    <3>4. QED
      BY <2>12, <3>3 DEF PassReport, MissReport, TakeHistory, DropArtifacts
  <2>13. QED
    BY <1>12, <2>1, <2>2, <2>3, <2>4, <2>5, <2>6, <2>7, <2>8, <2>9, <2>10, <2>11, <2>12
      DEF Collect
<1>13. CASE UNCHANGED vars
  BY <1>13 DEF vars
<1>14. QED
  BY <1>1, <1>2, <1>3, <1>4, <1>5, <1>6, <1>7, <1>8, <1>9, <1>10, <1>11, <1>12, <1>13
    DEF Next

-----------------------------------------------------------------------------
\* A step of a process or of the user leaves a collection where it is.
LEMMA DisturbKeeps ==
  ASSUME TypeOK, Disturb
  PROVE  /\ collector'.step = collector.step /\ collector'.listed = collector.listed
         /\ collector'.todo = collector.todo /\ collector'.run = collector.run
  BY DEF TypeOK, Disturb, Collection

\* The steps of a collection leave ids and the clock alone, and so its place
\* in the day.
LEMMA CollectKeeps ==
  ASSUME TypeOK, Collect
  PROVE  clock' = clock /\ used'.ids = used.ids /\ process' = process /\ deleter' = deleter
<1> USE DEF Bystanders, others
<1>1. CASE BeginCollect
  BY <1>1 DEF BeginCollect, Command, TypeOK, Used
<1>2. CASE ~BeginCollect
  BY <1>2 DEF Collect, MarkOrphan, DeleteOrphan, RemoveEntry, Removed, SkipState, ListRuns,
     ListHistory, HistoryTaken, EnforceCap, EndCollect, TakeRun, CollectRun, TakeReport,
     PassReport, MissReport, TakeHistory
<1>3. QED
  BY <1>1, <1>2

-----------------------------------------------------------------------------
SameFacts ==
  /\ Stored' = Stored /\ reports' = reports /\ filed' = filed
  /\ torn' = torn /\ clock' = clock /\ used'.ids = used.ids

SameCollection ==
  /\ collector'.step = collector.step /\ collector'.listed = collector.listed
  /\ collector'.todo = collector.todo /\ collector'.run = collector.run

\* A removal of the directory goes on, or leaves no row that it does not mark.
RemovalCovers ==
  collector.step = "remove" => collector'.step = "remove" \/ Stored' \subseteq torn'

SameDeletion == deleter'.step = deleter.step /\ deleter'.run = deleter.run

\* A step that touches neither rows nor reports keeps what is known of them.
LEMMA QuietKeeps ==
  ASSUME Facts, SameFacts, SameCollection,
         \/ SameDeletion
         \/ /\ deleter'.step \notin {"report", "artifacts"}
            /\ \A r, s \in deleter'.run : r = s
            /\ deleter'.run \subseteq Stored,
         \A r \in Runs : process'[r] # "off" => r \in used.ids
  PROVE  Facts'
<1> USE DEF Facts, SameFacts, SameCollection, SameDeletion
<1>1. Reported' = Reported
  BY DEF Reported
<1>2. IdsInv'
  BY <1>1 DEF IdsInv
<1>3. DeleteInv'
  BY DEF DeleteInv, IdsInv
<1>4. CollectInv' /\ ListedInv' /\ RowsKeepTheirReports'
  BY <1>1 DEF CollectInv, ListedInv, RowsKeepTheirReports, Collecting
<1>5. QED
  BY <1>2, <1>3, <1>4

\* A new Run has no past, so that nobody has anything of it to take.
LEMMA StartKeeps ==
  ASSUME TypeOK, Facts, NEW r \in Runs, StartRun(r)
  PROVE  Facts'
<1> USE DEF Facts
<1>1. SameCollection /\ reports' = reports /\ UNCHANGED history /\ clock' = clock
      /\ deleter' = deleter
  BY DisturbKeeps DEF StartRun, SameCollection, files
<1>2. Stored' = Stored \cup {r}
  BY DEF StartRun, Stored, TypeOK
<1>3. used'.ids = used.ids \cup {r} /\ r \notin used.ids
  BY DEF StartRun, TypeOK, Used
<1>4. Reported' = Reported
  BY <1>1 DEF Reported
<1>5. reports[r] = 0 /\ r \notin filed
  BY <1>3 DEF IdsInv, Reported
<1>6. IdsInv'
  BY <1>1, <1>2, <1>3, <1>4 DEF IdsInv, StartRun, TypeOK
<1>7. DeleteInv'
  BY <1>1, <1>2, <1>3 DEF DeleteInv
<1>8. CollectInv'
  BY <1>1, <1>2, <1>3 DEF CollectInv, SameCollection
<1>9. ListedInv'
  BY <1>1, <1>2, <1>5 DEF ListedInv, SameCollection
<1>10. RowsKeepTheirReports'
  BY <1>1, <1>2, <1>4, <1>5 DEF RowsKeepTheirReports, SameCollection, Collecting
<1>11. QED
  BY <1>6, <1>7, <1>8, <1>9, <1>10

\* A report is of the day it is written.
LEMMA ReportKeeps ==
  ASSUME TypeOK, Facts, NEW r \in Runs, WriteReport(r)
  PROVE  Facts'
<1> USE DEF Facts
<1>1. SameCollection /\ clock' = clock /\ deleter' = deleter /\ rows' = rows
      /\ used' = used /\ filed' = filed \cup {r} /\ torn' = torn \ {r}
  BY DisturbKeeps DEF WriteReport, SameCollection
<1>2. Stored' = Stored
  BY <1>1 DEF Stored
<1>3. reports' = [reports EXCEPT ![r] = clock] /\ DOMAIN reports = Runs /\ clock > 0
  BY DEF WriteReport, TypeOK, IdsInv
<1>4. Reported' = Reported \cup {r}
  BY <1>3 DEF Reported, TypeOK
<1>5. r \in used.ids
  BY DEF WriteReport, IdsInv
<1>6. \A q \in Runs : process'[q] # "off" => q \in used.ids
  BY DEF WriteReport, TypeOK, IdsInv
<1>7. IdsInv'
  BY <1>1, <1>2, <1>4, <1>5, <1>6 DEF IdsInv
<1>8. DeleteInv' /\ CollectInv'
  BY <1>1, <1>2 DEF DeleteInv, CollectInv, SameCollection
<1>9. ListedInv'
  BY <1>1, <1>2, <1>3 DEF ListedInv, SameCollection, Stored
<1>10. RowsKeepTheirReports'
  BY <1>1, <1>2, <1>4 DEF RowsKeepTheirReports, SameCollection, Collecting
<1>11. QED
  BY <1>7, <1>8, <1>9, <1>10

\* A row that goes takes nothing with it that a listed Run needs.
LEMMA FewerRows ==
  ASSUME Facts, Stored' \subseteq Stored, reports' = reports, UNCHANGED history,
         SameCollection \/ RemovalCovers, clock' = clock, used'.ids = used.ids, process' = process
  PROVE  IdsInv' /\ RowsKeepTheirReports'
         /\ (SameDeletion => DeleteInv')
         /\ (SameCollection => CollectInv' /\ ListedInv')
<1> USE DEF Facts
<1>1. Reported' = Reported
  BY DEF Reported
<1>2. QED
  BY <1>1 DEF IdsInv, RowsKeepTheirReports, DeleteInv, CollectInv, ListedInv,
              SameDeletion, SameCollection, RemovalCovers, Collecting

\* And a report that goes is not missed where its Run has no row.
LEMMA FewerReports ==
  ASSUME TypeOK, Facts, NEW r \in Runs, DropReport(r),
         \/ r \notin Stored
         \/ collector.step = "remove" /\ collector'.step = "remove",
         SameCollection \/ RemovalCovers,
         UNCHANGED history, clock' = clock, used'.ids = used.ids, process' = process
  PROVE  IdsInv' /\ RowsKeepTheirReports'
         /\ (SameDeletion => DeleteInv')
         /\ (SameCollection => CollectInv' /\ ListedInv')
<1> USE DEF Facts
<1>1. reports' = [reports EXCEPT ![r] = 0] /\ DOMAIN reports = Runs
  BY DEF DropReport, TypeOK
<1>2. Reported' = Reported \ {r} /\ Stored' = Stored
  BY <1>1 DEF Reported, DropReport, Stored
<1>3. \A q \in Runs : reports'[q] \in {0, reports[q]}
  BY <1>1
<1>4. IdsInv' /\ RowsKeepTheirReports'
  BY <1>2 DEF IdsInv, RowsKeepTheirReports, SameCollection, RemovalCovers, Collecting
<1>5. SameDeletion => DeleteInv'
  BY <1>2 DEF SameDeletion, DeleteInv
<1>6. SameCollection => CollectInv' /\ ListedInv'
  BY <1>2, <1>3 DEF SameCollection, CollectInv, ListedInv, Stored
<1>7. QED
  BY <1>4, <1>5, <1>6

LEMMA DropsRow ==
  ASSUME TypeOK, NEW r \in Runs, DropRow(r)
  PROVE  Stored' = Stored \ {r} /\ reports' = reports
  BY DEF TypeOK, DropRow, NoRow, Stored, files

LEMMA DeleteKeeps ==
  ASSUME TypeOK, Facts, NEW r \in Runs, Delete(r)
  PROVE  Facts'
<1> USE DEF Facts
<1>1. SameCollection /\ clock' = clock /\ used' = used /\ process' = process
      /\ UNCHANGED history
  BY DisturbKeeps DEF Delete, SameCollection
<1>2. deleter.run = {r} /\ r \in used.ids
  BY DEF Delete, DeleteInv
<1>3. deleter.step \in DOMAIN Then
  BY ThenSteps DEF Delete, TypeOK, Deletion
<1>4. CASE deleter.step = "row"
  <2>1. DropRow(r) /\ deleter' = [deleter EXCEPT !.step = "report"]
    BY <1>4, ThenSteps DEF Delete, Drop
  <2>2. deleter'.step = "report" /\ deleter'.run = {r}
    BY <1>2, <2>1 DEF TypeOK, Deletion
  <2>3. Stored' = Stored \ {r} /\ reports' = reports
    BY <2>1, DropsRow
  <2>4. DeleteInv'
    BY <1>1, <1>2, <2>2, <2>3 DEF DeleteInv
  <2>5. QED
    BY <1>1, <2>3, <2>4, FewerRows
<1>5. CASE deleter.step = "report"
  <2>1. DropReport(r) /\ deleter' = [deleter EXCEPT !.step = "artifacts"]
    BY <1>5, ThenSteps DEF Delete, Drop
  <2>2. deleter'.step = "artifacts" /\ deleter'.run = {r}
    BY <1>2, <2>1 DEF TypeOK, Deletion
  <2>3. r \notin Stored
    BY <1>2, <1>5 DEF DeleteInv
  <2>4. Stored' = Stored
    BY <2>1 DEF DropReport, Stored
  <2>5. DeleteInv'
    BY <1>1, <1>2, <2>2, <2>3, <2>4 DEF DeleteInv
  <2>6. QED
    BY <1>1, <2>1, <2>3, <2>5, FewerReports
<1>6. CASE deleter.step = "artifacts"
  <2>1. DropArtifacts(r) /\ deleter' = [step |-> "off", run |-> {}]
    BY <1>6, ThenSteps DEF Delete, Drop
  <2>2. SameFacts
    BY <1>1, <2>1 DEF SameFacts, DropArtifacts, Stored
  <2>3. \A q \in Runs : process'[q] # "off" => q \in used.ids
    BY <1>1 DEF IdsInv
  <2>4. deleter'.step = "off" /\ deleter'.run = {}
    BY <2>1
  <2>5. QED
    BY <1>1, <2>2, <2>3, <2>4, QuietKeeps
<1>7. QED
  BY <1>3, <1>4, <1>5, <1>6, ThenSteps

\* All the other steps of processes, of the deleter and of the user are quiet.
LEMMA OthersKeep ==
  ASSUME TypeOK, Facts,
         \/ \E r \in Runs : \/ ResumeRun(r) \/ SaveRun(r) \/ EndRun(r) \/ RunDies(r)
                            \/ BeginDelete(r)
         \/ DeleterDies \/ MoveWorkspace
  PROVE  Facts'
<1> USE DEF Facts
<1>1. ASSUME NEW r \in Runs, ResumeRun(r) \/ SaveRun(r) \/ EndRun(r) PROVE Facts'
  <2>1. SameCollection
    BY <1>1, DisturbKeeps DEF ResumeRun, SaveRun, EndRun, SameCollection
  <2>2. Stored' = Stored
    BY <1>1 DEF ResumeRun, SaveRun, EndRun, Stored, TypeOK, Row, Active
  <2>3. SameFacts /\ deleter' = deleter
    BY <1>1, <2>2 DEF ResumeRun, SaveRun, EndRun, SameFacts, files
  <2>4. r \in used.ids /\ \A q \in Runs \ {r} : process'[q] = process[q]
    BY <1>1 DEF ResumeRun, SaveRun, EndRun, IdsInv, Stored, Active, TypeOK
  <2>5. QED
    BY <2>1, <2>3, <2>4, QuietKeeps DEF SameDeletion, IdsInv
<1>2. ASSUME NEW r \in Runs, RunDies(r) PROVE Facts'
  <2>1. SameCollection /\ deleter' = deleter
    BY <1>2, DisturbKeeps DEF RunDies, SameCollection
  <2>2. SameFacts
    BY <1>2 DEF RunDies, SameFacts, Stored, files, Mishap, TypeOK, Used
  <2>3. \A q \in Runs : process'[q] # "off" => q \in used.ids
    BY <1>2 DEF RunDies, IdsInv, TypeOK
  <2>4. QED
    BY <2>1, <2>2, <2>3, QuietKeeps DEF SameDeletion
<1>3. ASSUME NEW r \in Runs, BeginDelete(r) PROVE Facts'
  <2>1. SameCollection
    BY <1>3, DisturbKeeps DEF BeginDelete, SameCollection
  <2>2. SameFacts /\ process' = process
    BY <1>3 DEF BeginDelete, SameFacts, Stored, files, Command, TypeOK, Used
  <2>3. deleter'.step = "row" /\ deleter'.run = {r} /\ r \in Stored
    BY <1>3 DEF BeginDelete
  <2>4. QED
    BY <2>1, <2>2, <2>3, QuietKeeps DEF IdsInv
<1>4. CASE DeleterDies
  <2>1. SameCollection
    BY <1>4, DisturbKeeps DEF DeleterDies, SameCollection
  <2>2. SameFacts /\ process' = process
    BY <1>4 DEF DeleterDies, SameFacts, Stored, files, Mishap, TypeOK, Used
  <2>3. deleter'.step = "off" /\ deleter'.run = {}
    BY <1>4 DEF DeleterDies
  <2>4. QED
    BY <2>1, <2>2, <2>3, QuietKeeps DEF IdsInv
<1>5. CASE MoveWorkspace
  <2>1. SameCollection /\ deleter' = deleter
    BY <1>5, DisturbKeeps DEF MoveWorkspace, SameCollection
  <2>2. SameFacts /\ process' = process
    BY <1>5 DEF MoveWorkspace, SameFacts, Stored, files, Mishap, TypeOK, Used
  <2>3. QED
    BY <2>1, <2>2, QuietKeeps DEF IdsInv, SameDeletion
<1>6. QED
  BY <1>1, <1>2, <1>3, <1>4, <1>5

-----------------------------------------------------------------------------
\* Where a collection has no list, nothing is asked of it.
LEMMA Unlisted ==
  ASSUME collector'.step \notin {"row", "runs", "report", "artifacts", "history"}
  PROVE  CollectInv' /\ ListedInv'
  BY DEF CollectInv, ListedInv

\* A step that only moves the collection on.
LEMMA MovesOn ==
  ASSUME Facts, SameFacts, RemovalCovers, process' = process, deleter' = deleter,
         CollectInv', ListedInv'
  PROVE  Facts'
  BY FewerRows DEF Facts, SameFacts, SameDeletion

\* The steps before the list, after it, and over the old reports.
LEMMA CollectMoves ==
  ASSUME TypeOK, Facts, Collect,
         ~RemoveEntry, \A r \in Runs : ~TakeRun(r) /\ ~CollectRun(r) /\ ~TakeReport(r)
  PROVE  Facts'
<1> USE DEF Facts
<1>1. SameFacts /\ process' = process /\ deleter' = deleter
  <2>1. rows' = rows /\ reports' = reports /\ UNCHANGED history
    BY DEF Collect, BeginCollect, MarkOrphan, DeleteOrphan, Removed, SkipState, ListRuns,
           ListHistory, HistoryTaken, EnforceCap, EndCollect, PassReport, MissReport,
           TakeHistory, DropArtifacts, files
  <2>2. QED
    BY <2>1, CollectKeeps DEF SameFacts, Stored
<1>0. RemovalCovers
  <2>1. CASE Removed
    <3>1. Stored' = {}
      BY <1>1, <2>1 DEF Removed, SameFacts
    <3>2. QED
      BY <3>1 DEF RemovalCovers
  <2>2. CASE ~Removed
    BY <2>2 DEF Collect, BeginCollect, MarkOrphan, DeleteOrphan, SkipState, ListRuns,
       ListHistory, HistoryTaken, EnforceCap, EndCollect, PassReport, MissReport,
       TakeHistory, NextReport, Collecting, RemovalCovers
  <2>3. QED
    BY <2>1, <2>2
<1>2. CASE BeginCollect \/ SkipState \/ EndCollect \/ (\E r \in Runs : MissReport(r))
  <2>1. collector'.step \in {"look", "off"}
    BY <1>2 DEF BeginCollect, SkipState, EndCollect, MissReport, NotCollecting
  <2>2. QED
    BY <1>1, <2>1, <1>0, Unlisted, MovesOn
<1>3. CASE MarkOrphan \/ DeleteOrphan \/ Removed \/ HistoryTaken
  <2>1. Goes("cap", {}) \/ Goes("remove", {})
    BY <1>3 DEF MarkOrphan, DeleteOrphan, Removed, HistoryTaken
  <2>2. collector'.step \in {"cap", "remove"}
    BY <2>1 DEF Goes, TypeOK, Collection
  <2>3. QED
    BY <1>1, <2>2, <1>0, Unlisted, MovesOn
<1>4. CASE EnforceCap
  <2>1. collector'.step = "cap"
    BY <1>4 DEF EnforceCap, Collecting
  <2>2. QED
    BY <1>1, <2>1, <1>0, Unlisted, MovesOn
<1>5. CASE ListRuns
  <2>1. PICK T \in SUBSET Stored :
          collector' = [collector EXCEPT !.step = "runs", !.listed = Stored, !.todo = T]
    BY <1>5 DEF ListRuns
  <2>2. collector'.step = "runs" /\ collector'.listed = Stored /\ collector'.todo \subseteq Stored
    BY <2>1 DEF TypeOK, Collection
  <2>3. CollectInv' /\ ListedInv'
    BY <1>1, <2>2 DEF CollectInv, ListedInv, SameFacts, IdsInv
  <2>4. QED
    BY <1>0, <1>1, <2>3, MovesOn
<1>6. CASE ListHistory \/ (\E r \in Runs : PassReport(r) \/ TakeHistory(r))
  <2>1. PICK T \in SUBSET Runs : Goes("history", T)
    <3>1. \A r \in Runs : collector.todo \ {r} \in SUBSET Runs
      BY CollectionFields DEF TypeOK
    <3>2. Reported \in SUBSET Runs
      BY DEF Reported
    <3>3. QED
      BY <1>6, <3>1, <3>2 DEF ListHistory, PassReport, TakeHistory
  <2>2. collector'.step = "history" /\ collector'.listed = collector.listed
    BY <2>1 DEF Goes, TypeOK, Collection
  <2>3. collector.step \in {"runs", "history"}
    BY <1>6 DEF ListHistory, PassReport, TakeHistory, NextReport, Collecting
  <2>4. CollectInv' /\ ListedInv'
    BY <1>1, <2>2, <2>3 DEF CollectInv, ListedInv, SameFacts
  <2>5. QED
    BY <1>0, <1>1, <2>4, MovesOn
<1>7. QED
  BY <1>2, <1>3, <1>4, <1>5, <1>6 DEF Collect

\* The state of a workspace that is gone goes entry by entry.
LEMMA RemoveKeeps ==
  ASSUME TypeOK, Facts, RemoveEntry
  PROVE  Facts'
<1> USE DEF Facts
<1>1. clock' = clock /\ used' = used /\ process' = process /\ deleter' = deleter
      /\ collector' = collector
  BY DEF RemoveEntry, Bystanders, others
<1>2. SameCollection /\ SameDeletion
  BY <1>1 DEF SameCollection, SameDeletion
<1>3. CASE rows' = [r \in Runs |-> NoRow] /\ UNCHANGED <<files, metadata, history>>
  <2>1. Stored' = {}
    BY <1>3 DEF Stored, NoRow
  <2>2. QED
    BY <1>1, <1>2, <1>3, <2>1, FewerRows DEF files
<1>4. ASSUME NEW r \in Reported, DropReport(r), UNCHANGED history PROVE Facts'
  <2>1. r \in Runs /\ collector.step = "remove"
    BY DEF Reported, RemoveEntry, Collecting
  <2>2. QED
    BY <1>1, <1>2, <1>4, <2>1, FewerReports
<1>5. CASE rows' = rows /\ reports' = reports /\ UNCHANGED history
  <2>1. Stored' = Stored
    BY <1>5 DEF Stored
  <2>2. QED
    BY <1>1, <1>2, <1>5, <2>1, FewerRows
<1>6. QED
  BY <1>3, <1>4, <1>5 DEF RemoveEntry, DropArtifacts, files

\* A listed Run: its row, then what is left of it.
LEMMA TakeRunKeeps ==
  ASSUME TypeOK, Facts, NEW r \in Runs, TakeRun(r)
  PROVE  Facts'
<1> USE DEF Facts
<1>1. clock' = clock /\ used' = used /\ process' = process /\ deleter' = deleter
      /\ UNCHANGED history
  BY DEF TakeRun, Bystanders, others
<1>2. Stored' = Stored \ {r} /\ reports' = reports
  BY DropsRow DEF TakeRun
<1>3. /\ collector'.step = "report" /\ collector'.run = {r}
      /\ collector'.listed = collector.listed /\ collector'.todo = collector.todo
  BY ThenSteps DEF TakeRun, TypeOK, Collection
<1>4. collector.step = "runs" /\ r \in collector.todo
  BY DEF TakeRun, Collecting
<1>5. CollectInv' /\ ListedInv'
  BY <1>1, <1>2, <1>3, <1>4 DEF CollectInv, ListedInv
<1>6. QED
  BY <1>1, <1>2, <1>4, <1>5, FewerRows DEF SameDeletion, RemovalCovers

LEMMA CollectRunKeeps ==
  ASSUME TypeOK, Facts, NEW r \in Runs, CollectRun(r)
  PROVE  Facts'
<1> USE DEF Facts
<1>1. clock' = clock /\ used' = used /\ process' = process /\ deleter' = deleter
      /\ UNCHANGED history
  BY DEF CollectRun, Bystanders, others
<1>2. collector.step \in {"report", "artifacts"} /\ r \in collector.run
  BY ThenSteps DEF CollectRun, CollectInv
<1>3. r \notin Stored
  BY <1>2 DEF CollectInv
<1>4. CASE collector.step = "report"
  <2>1. DropReport(r) /\ collector' = [collector EXCEPT !.step = "artifacts"]
    BY <1>4, ThenSteps DEF CollectRun, Drop
  <2>2. /\ collector'.step = "artifacts" /\ collector'.run = collector.run
        /\ collector'.listed = collector.listed /\ collector'.todo = collector.todo
    BY <2>1 DEF TypeOK, Collection
  <2>3. Stored' = Stored /\ \A q \in Runs : reports'[q] \in {0, reports[q]}
    BY <2>1 DEF DropReport, Stored, TypeOK
  <2>4. CollectInv' /\ ListedInv'
    BY <1>1, <1>4, <2>2, <2>3 DEF CollectInv, ListedInv, Stored
  <2>5. QED
    BY <1>1, <1>3, <1>4, <2>1, <2>4, FewerReports DEF SameDeletion, RemovalCovers
<1>5. CASE collector.step = "artifacts"
  <2>1. DropArtifacts(r) /\ Goes("runs", collector.todo \ {r})
    BY <1>5, ThenSteps DEF CollectRun, Drop
  <2>2. /\ collector'.step = "runs" /\ collector'.listed = collector.listed
        /\ collector'.todo \subseteq collector.todo
    BY <2>1 DEF Goes, TypeOK, Collection
  <2>3. SameFacts
    BY <1>1, <2>1 DEF SameFacts, DropArtifacts, Stored
  <2>4. CollectInv' /\ ListedInv'
    BY <1>1, <1>5, <2>2, <2>3 DEF CollectInv, ListedInv, SameFacts
  <2>5. QED
    BY <1>1, <1>5, <2>3, <2>4, MovesOn DEF RemovalCovers
<1>6. QED
  BY <1>2, <1>4, <1>5

\* An old report of a Run that was not listed: it has no row, since the report
\* of one that started in the meantime would be of today.
LEMMA TakeReportKeeps ==
  ASSUME TypeOK, Facts, NEW r \in Runs, TakeReport(r)
  PROVE  Facts'
<1> USE DEF Facts
<1>1. clock' = clock /\ used' = used /\ process' = process /\ deleter' = deleter
      /\ UNCHANGED history
  BY DEF TakeReport, Bystanders, others
<1>2. collector.step = "history" /\ r \notin collector.listed /\ DropReport(r)
  BY DEF TakeReport, NextReport, Collecting
<1>3. reports[r] # 0 /\ reports[r] < clock
  BY RetentionAssumption DEF TakeReport, Reported, Before, TypeOK
<1>4. r \notin Stored
  BY <1>2, <1>3 DEF ListedInv, TypeOK
<1>5. /\ collector'.step = collector.step /\ collector'.listed = collector.listed
      /\ collector'.todo = collector.todo
  BY DEF TakeReport, TypeOK, Collection
<1>6. Stored' = Stored /\ \A q \in Runs : reports'[q] \in {0, reports[q]}
  BY <1>2 DEF DropReport, Stored, TypeOK
<1>7. CollectInv' /\ ListedInv'
  BY <1>1, <1>2, <1>5, <1>6 DEF CollectInv, ListedInv, Stored
<1>8. QED
  BY <1>1, <1>2, <1>4, <1>7, FewerReports DEF SameDeletion, RemovalCovers

-----------------------------------------------------------------------------
LEMMA FactsStep == TypeOK /\ Facts /\ [Next]_vars => Facts'
<1> SUFFICES ASSUME TypeOK, Facts, [Next]_vars PROVE Facts'
  OBVIOUS
<1>1. CASE Collect
  BY <1>1, CollectMoves, RemoveKeeps, TakeRunKeeps, CollectRunKeeps, TakeReportKeeps
<1>2. CASE CollectorDies
  <2>1. /\ Stored' = Stored /\ reports' = reports /\ filed' = filed /\ clock' = clock
        /\ used'.ids = used.ids /\ process' = process /\ deleter' = deleter
    BY <1>2 DEF CollectorDies, Stored, files, Mishap, TypeOK, Used
  <2>2. collector'.step = "off"
    BY <1>2 DEF CollectorDies, NotCollecting
  <2>3. Reported' = Reported
    BY <2>1 DEF Reported
  <2>4. RowsKeepTheirReports'
    <3>1. CASE collector.step = "remove"
      BY <1>2, <2>1, <3>1 DEF CollectorDies, RowsKeepTheirReports, Collecting
    <3>2. CASE collector.step # "remove"
      BY <1>2, <2>1, <2>3, <3>2 DEF CollectorDies, Facts, RowsKeepTheirReports, Collecting
    <3>3. QED
      BY <3>1, <3>2
  <2>5. QED
    BY <2>1, <2>2, <2>3, <2>4, Unlisted DEF Facts, IdsInv, DeleteInv
<1>3. CASE DayPasses
  <2>1. /\ UNCHANGED <<rows, reports, process, deleter, collector, history, used>>
        /\ collector.step = "off" /\ clock' > 0
    BY <1>3 DEF DayPasses, files, Collecting, Facts, IdsInv, TypeOK
  <2>2. Stored' = Stored /\ Reported' = Reported
    BY <2>1 DEF Stored, Reported
  <2>3. CollectInv' /\ ListedInv'
    BY <2>1, Unlisted
  <2>4. QED
    BY <2>1, <2>2, <2>3 DEF Facts, IdsInv, DeleteInv, RowsKeepTheirReports, Collecting
<1>4. CASE UNCHANGED vars
  <2>1. SameFacts /\ SameCollection /\ SameDeletion /\ process' = process
    BY <1>4 DEF vars, files, SameFacts, SameCollection, SameDeletion, Stored
  <2>2. QED
    BY <2>1, QuietKeeps DEF Facts, IdsInv
<1>5. QED
  BY <1>1, <1>2, <1>3, <1>4, StartKeeps, ReportKeeps, DeleteKeeps, OthersKeep DEF Next

LEMMA SpecInv == Spec => [](TypeOK /\ Facts)
<1>1. TypeOK /\ Facts /\ [Next]_vars => (TypeOK /\ Facts)'
  BY TypeStep, FactsStep
<1>2. QED
  BY <1>1, InitInv, PTL DEF Spec

\* Every value has its type, for any Runs and limits.
THEOREM RetentionTypeCorrect == Spec => []TypeOK
  BY SpecInv, PTL

\* A listed Run has the report it wrote, for any number of Runs, collections,
\* deletions and deaths, and any limits, except where the removal of a whole
\* directory is going on or broke off.
THEOREM ListedRunsKeepReports == Spec => []RowsKeepTheirReports
<1>1. Facts => RowsKeepTheirReports
  BY DEF Facts
<1>2. QED
  BY <1>1, SpecInv, PTL
=============================================================================
