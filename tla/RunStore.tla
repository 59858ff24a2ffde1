------------------------------ MODULE RunStore ------------------------------
(***************************************************************************)
(* The durable row of one Run (core/adapters/sqlite/run_store.py) and the  *)
(* processes that keep it up to date (RunContext.persist_checkpoint).      *)
(*                                                                         *)
(* A process works from the record it last loaded or wrote.  A save is one *)
(* UPDATE that only matches the version the record had.  It runs in a      *)
(* worker thread: a save whose coroutine is cancelled may still reach the  *)
(* database, while the process goes on from a record that was not moved on.*)
(*                                                                         *)
(* Abstractions: a checkpoint is the set of things it has kept, and every  *)
(* save adds one; the row is there from the start, as create_run leaves    *)
(* it; the event log, which no save reads, is left out.                    *)
(***************************************************************************)
EXTENDS Naturals

CONSTANTS
  Processes,    \* processes that run or resume the Run
  Facts         \* what checkpoints record; bounds the saves of the model

VARIABLES
  row,        \* the row in SQLite
  deleted,    \* the row has been deleted
  record,     \* RunContext.record of each process, with the facts it holds
  pc,         \* where each process stands
  write,      \* the UPDATE each process waits for
  orphans,    \* UPDATEs of cancelled saves, still in their threads
  issued,     \* history: facts that some save has carried
  told        \* history: facts whose save was acknowledged

vars == <<row, deleted, record, pc, write, orphans, issued, told>>

Statuses == {"created", "running", "paused", "failed", "completed"}

LegalTransitions ==
  [created   |-> {"running", "failed"},
   running   |-> {"paused", "completed", "failed"},
   paused    |-> {"running", "failed"},
   failed    |-> {"running"},
   completed |-> {}]

CanBecome(from, to) == to = from \/ to \in LegalTransitions[from]

Record == [status : Statuses, version : Nat, facts : SUBSET Facts]

Created == [status |-> "created", version |-> 0, facts |-> {}]

Init ==
  /\ row = Created
  /\ deleted = FALSE
  /\ record = [p \in Processes |-> Created]
  /\ pc = [p \in Processes |-> "off"]
  /\ write = [p \in Processes |-> Created]
  /\ orphans = [p \in Processes |-> {}]
  /\ issued = {}
  /\ told = {}

Go(p, s) == pc' = [pc EXCEPT ![p] = s]

\* The record a save carries: one version on, under the given status.
Successor(r, status, facts) ==
  [status |-> status, version |-> r.version + 1, facts |-> facts]

\* Fault: the UPDATE does not name a version.
MatchesAnyVersion(w) == ~deleted

\* UPDATE runs SET ... WHERE run_id = ? AND version = ?
Matches(w) == ~deleted /\ w.version = row.version + 1

-----------------------------------------------------------------------------
\* Fault: a resume takes the row's version and keeps its own data.
LoadVersionOnly(p) ==
  /\ pc[p] \in {"off", "cancelled"}
  /\ ~deleted /\ row.status # "completed"
  /\ record' = [record EXCEPT ![p] = [row EXCEPT !.facts = record[p].facts]]
  /\ Go(p, "idle")
  /\ UNCHANGED <<row, deleted, write, orphans, issued, told>>

\* create_durable_run_context, or load_resumable_run and from_checkpoint.
Load(p) ==
  /\ pc[p] \in {"off", "cancelled"}
  /\ ~deleted /\ row.status # "completed"
  /\ record' = [record EXCEPT ![p] = row]
  /\ Go(p, "idle")
  /\ UNCHANGED <<row, deleted, write, orphans, issued, told>>

\* persist_checkpoint up to its call of save_run; an illegal transition
\* raises before anything is written.
BeginPersist(p, status, fact) ==
  /\ pc[p] = "idle"
  /\ CanBecome(record[p].status, status)
  /\ fact \notin issued
  /\ issued' = issued \cup {fact}
  /\ LET facts == record[p].facts \cup {fact}
     IN /\ record' = [record EXCEPT ![p].facts = facts]
        /\ write' = [write EXCEPT ![p] = Successor(record[p], status, facts)]
  /\ Go(p, "saving")
  /\ UNCHANGED <<row, deleted, orphans, told>>

Save(p) ==
  /\ pc[p] = "saving"
  /\ IF Matches(write[p])
     THEN row' = write[p] /\ Go(p, "saved")
     ELSE row' = row /\ Go(p, "conflict")
  /\ UNCHANGED <<deleted, record, write, orphans, issued, told>>

\* save_run has returned: only now does the process move its record on.
Acknowledge(p) ==
  /\ pc[p] = "saved"
  /\ record' = [record EXCEPT ![p] = write[p]]
  /\ told' = told \cup write[p].facts
  /\ Go(p, "idle")
  /\ UNCHANGED <<row, deleted, write, orphans, issued>>

\* Fault: a conflict is answered by taking the row's version and going on.
ConflictAdopts(p) ==
  /\ pc[p] = "conflict"
  /\ record' = [record EXCEPT ![p].version = row.version]
  /\ Go(p, "idle")
  /\ UNCHANGED <<row, deleted, write, orphans, issued, told>>

\* RunStoreConflictError: the process stays with its stale record, over which
\* run_stream then tries to persist the failure.
Conflict(p) ==
  /\ pc[p] = "conflict"
  /\ Go(p, "idle")
  /\ UNCHANGED <<row, deleted, record, write, orphans, issued, told>>

\* run_stream's CancelledError handler.  A save that is under way is left to
\* its thread, and a record that says running is persisted as paused.
Cancel(p) ==
  /\ pc[p] \in {"idle", "saving", "saved"}
  /\ orphans' = [orphans EXCEPT ![p] =
                   IF pc[p] = "saving" THEN @ \cup {write[p]} ELSE @]
  /\ IF record[p].status = "running"
     THEN /\ write' = [write EXCEPT ![p] =
                         Successor(record[p], "paused", record[p].facts)]
          /\ Go(p, "pausing")
     ELSE write' = write /\ Go(p, "off")
  /\ UNCHANGED <<row, deleted, record, issued, told>>

\* The shielded save of the cancellation; then the process ends.
SavePaused(p) ==
  /\ pc[p] = "pausing"
  /\ IF Matches(write[p])
     THEN row' = write[p] /\ told' = told \cup write[p].facts
     ELSE row' = row /\ told' = told
  /\ Go(p, "cancelled")
  /\ UNCHANGED <<deleted, record, write, orphans, issued>>

SaveOrphan(p, w) ==
  /\ w \in orphans[p]
  /\ row' = IF Matches(w) THEN w ELSE row
  /\ orphans' = [orphans EXCEPT ![p] = @ \ {w}]
  /\ UNCHANGED <<deleted, record, pc, write, issued, told>>

\* The process dies, and its threads with it.
Crash(p) ==
  /\ Go(p, "off")
  /\ orphans' = [orphans EXCEPT ![p] = {}]
  /\ UNCHANGED <<row, deleted, record, write, issued, told>>

\* sca runs delete, or the garbage collection of old Runs.
Delete ==
  /\ ~deleted
  /\ deleted' = TRUE
  /\ UNCHANGED <<row, record, pc, write, orphans, issued, told>>

Next ==
  \/ \E p \in Processes : Load(p)
  \/ \E p \in Processes, status \in Statuses, fact \in Facts :
        BeginPersist(p, status, fact)
  \/ \E p \in Processes : Save(p)
  \/ \E p \in Processes : Acknowledge(p)
  \/ \E p \in Processes : Conflict(p)
  \/ \E p \in Processes : Cancel(p)
  \/ \E p \in Processes : SavePaused(p)
  \/ \E p \in Processes : \E w \in orphans[p] : SaveOrphan(p, w)
  \/ \E p \in Processes : Crash(p)
  \/ Delete

Spec == Init /\ [][Next]_vars

-----------------------------------------------------------------------------
\* The row, the records and the UPDATEs under way have their types.
TypeOK ==
  /\ row \in Record
  /\ deleted \in BOOLEAN
  /\ record \in [Processes -> Record]
  /\ pc \in [Processes -> {"off", "idle", "saving", "saved", "conflict",
                           "pausing", "cancelled"}]
  /\ write \in [Processes -> Record]
  /\ orphans \in [Processes -> SUBSET Record]
  /\ issued \subseteq Facts
  /\ told \subseteq Facts

\* What a process was told is saved stays saved: no stale record, resumed
\* process or late thread of a cancelled save writes a checkpoint without it.
AcknowledgedSavesKept == told \subseteq row.facts

\* A record that carries the row's version tells the truth about the row:
\* its status is the row's and it holds all the row has kept, so that what
\* the process decides from it is not decided from a stale state.
CurrentRecordIsTrue ==
  \A p \in Processes : record[p].version = row.version =>
    record[p].status = row.status /\ row.facts \subseteq record[p].facts

\* Every UPDATE under way, also one whose coroutine was cancelled, is at most
\* one version ahead of the row, and if it would match, then it is a legal
\* step from the row that drops nothing: it may arrive in any order.
UpdatesUnderWay ==
  {write[p] : p \in {q \in Processes : pc[q] \in {"saving", "pausing"}}}
    \cup UNION {orphans[p] : p \in Processes}

UpdatesFitTheRow ==
  \A w \in UpdatesUnderWay :
    /\ w.version <= row.version + 1
    /\ w.version = row.version + 1 =>
         CanBecome(row.status, w.status) /\ row.facts \subseteq w.facts

\* The row changes by one version at a time, along the durable transitions,
\* and loses nothing, although each writer checked the transition against its
\* own record: in particular a completed Run stays completed.
DurableStep ==
  row' # row => /\ row'.version = row.version + 1
                /\ CanBecome(row.status, row'.status)
                /\ row.facts \subseteq row'.facts
                /\ ~deleted

DurableStepsLegal == [][DurableStep]_vars
=============================================================================
