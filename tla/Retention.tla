------------------------------ MODULE Retention ------------------------------
(***************************************************************************)
(* What is kept of a workspace's Runs: the state directory outside the     *)
(* workspace (core/paths.py), its rows, reports and artifacts, and those   *)
(* who write and delete them side by side (core/lifecycle.py, cli):        *)
(* processes that run or resume a Run and report on it, `sca runs delete`  *)
(* and `sca gc`.  Nothing locks the directory; each file or row goes in a  *)
(* step of its own, and a process may die between any two.                 *)
(*                                                                         *)
(* Abstractions: one workspace; a clock of days; a report, the artifacts   *)
(* of a Run and the artifacts' size are one unit each, with the time of    *)
(* their last change.  The copy of the newest report, final_report.md, and *)
(* a dry run, which changes nothing, are left out.  Rows as RunStore keeps *)
(* them, status alone: "created" is as good as "running" here.  A          *)
(* collection takes less than a day.                                       *)
(***************************************************************************)
EXTENDS Naturals, FiniteSets

CONSTANTS
  Runs,            \* ids, each for one Run
  RetentionDays,   \* 30 by default
  RetainRuns,      \* 50 by default
  MaxArtifacts,    \* artifact_max_bytes, in Runs' artifacts
  MaxDays,         \* bounds of the model: days that pass,
  MaxCommands,     \*   deletions and collections,
  MaxMishaps       \*   and deaths, and times the workspace goes or comes

ASSUME RetentionAssumption ==
  {RetentionDays, RetainRuns, MaxArtifacts, MaxDays, MaxCommands, MaxMishaps} \subseteq Nat

VARIABLES
  clock,       \* today; day 0 stands for "never"
  rows,        \* runs.db
  reports,     \* reports/<run>.md: the day it was written
  artifacts,   \* artifacts/runs/<run>: the day of the last one
  metadata,    \* workspace.json: there or not, and since when an orphan
  workspace,   \* the workspace exists
  process,     \* who drives each Run
  deleter,     \* sca runs delete
  collector,   \* sca gc
  filed,       \* history: Runs that wrote a report
  torn,        \* history: Runs that had a row when a removal of the directory broke off
  used         \* bounds: ids, commands and mishaps so far

files == <<reports, artifacts>>
history == <<filed, torn>>
others == <<clock, workspace, used>>
vars == <<clock, rows, files, metadata, workspace, process, deleter, collector, history, used>>

NoRow == [status |-> "none", updated |-> 0]
Active == {"running", "paused"}
Stored == {r \in Runs : rows[r].status # "none"}
Reported == {r \in Runs : reports[r] # 0}

\* The choices of the n latest, by `when`, of a set.
Newest(S, when, n) ==
  {T \in SUBSET S :
     /\ Cardinality(T) = IF Cardinality(S) < n THEN Cardinality(S) ELSE n
     /\ \A r \in T, s \in S \ T : when[r] >= when[s]}

NotCollecting ==
  [step |-> "off", listed |-> {}, todo |-> {}, run |-> {}, alone |-> TRUE]

Init ==
  /\ clock = 1
  /\ rows = [r \in Runs |-> NoRow]
  /\ reports = [r \in Runs |-> 0] /\ artifacts = [r \in Runs |-> 0]
  /\ metadata = [there |-> FALSE, orphaned |-> 0]
  /\ workspace = TRUE
  /\ process = [r \in Runs |-> "off"]
  /\ deleter = [step |-> "off", run |-> {}]
  /\ collector = NotCollecting
  /\ filed = {} /\ torn = {}
  /\ used = [ids |-> {}, commands |-> 0, mishaps |-> 0]

\* touch_workspace_state: whoever uses the directory takes the mark away.
Touch == metadata' = [there |-> TRUE, orphaned |-> 0]

\* History: a collection others did not step into.
Disturb == collector' = [collector EXCEPT !.alone = (collector.step = "off")]

Command == used.commands < MaxCommands /\ used' = [used EXCEPT !.commands = @ + 1]
Mishap == used.mishaps < MaxMishaps /\ used' = [used EXCEPT !.mishaps = @ + 1]

-----------------------------------------------------------------------------
(***************************************************************************)
(* A process with one Run                                                  *)
(***************************************************************************)
StartRun(r) ==
  /\ workspace /\ r \notin used.ids
  /\ rows' = [rows EXCEPT ![r] = [status |-> "running", updated |-> clock]]
  /\ process' = [process EXCEPT ![r] = "working"]
  /\ used' = [used EXCEPT !.ids = @ \cup {r}]
  /\ Touch /\ Disturb
  /\ UNCHANGED <<clock, files, workspace, deleter, history>>

ResumeRun(r) ==
  /\ workspace /\ process[r] = "off" /\ rows[r].status \in Active \cup {"failed"}
  /\ rows' = [rows EXCEPT ![r] = [status |-> "running", updated |-> clock]]
  /\ process' = [process EXCEPT ![r] = "working"]
  /\ Touch /\ Disturb
  /\ UNCHANGED <<clock, files, workspace, deleter, history, used>>

\* A checkpoint, or an Actor's diff with the next one.
SaveRun(r) ==
  /\ process[r] = "working" /\ r \in Stored
  /\ rows' = [rows EXCEPT ![r].updated = clock]
  /\ artifacts' \in {artifacts, [artifacts EXCEPT ![r] = clock]}
  /\ IF artifacts' = artifacts THEN UNCHANGED metadata ELSE Touch
  /\ Disturb
  /\ UNCHANGED <<clock, reports, workspace, process, deleter, history, used>>

\* The Run comes to its end, or finds its row gone; the report follows.
EndRun(r) ==
  /\ process[r] = "working"
  /\ rows' \in IF r \in Stored
               THEN {[rows EXCEPT ![r] = [status |-> s, updated |-> clock]] :
                       s \in {"completed", "failed", "paused"}}
               ELSE {rows}
  /\ process' = [process EXCEPT ![r] = "reporting"]
  /\ Disturb
  /\ UNCHANGED <<clock, files, metadata, workspace, deleter, history, used>>

WriteReport(r) ==
  /\ process[r] = "reporting"
  /\ reports' = [reports EXCEPT ![r] = clock]
  /\ filed' = filed \cup {r} /\ torn' = torn \ {r}
  /\ process' = [process EXCEPT ![r] = "off"]
  /\ Touch /\ Disturb
  /\ UNCHANGED <<clock, rows, artifacts, workspace, deleter, used>>

RunDies(r) ==
  /\ process[r] # "off"
  /\ process' = [process EXCEPT ![r] = "off"]
  /\ Mishap /\ Disturb
  /\ UNCHANGED <<clock, rows, files, metadata, workspace, deleter, history>>

-----------------------------------------------------------------------------
(***************************************************************************)
(* Deletions: first the row, then the report, then the artifacts           *)
(***************************************************************************)
DropRow(r) == rows' = [rows EXCEPT ![r] = NoRow] /\ UNCHANGED files
DropReport(r) == reports' = [reports EXCEPT ![r] = 0] /\ UNCHANGED <<rows, artifacts>>
DropArtifacts(r) == artifacts' = [artifacts EXCEPT ![r] = 0] /\ UNCHANGED <<rows, reports>>

Drop(step, r) ==
  CASE step = "row" -> DropRow(r)
    [] step = "report" -> DropReport(r)
    [] step = "artifacts" -> DropArtifacts(r)

Then == [row |-> "report", report |-> "artifacts", artifacts |-> "off"]

\* sca runs delete, for a Run in any status.
BeginDelete(r) ==
  /\ deleter.step = "off" /\ r \in Stored
  /\ Command /\ Touch /\ Disturb
  /\ deleter' = [step |-> "row", run |-> {r}]
  /\ UNCHANGED <<clock, rows, files, workspace, process, history>>

Delete(r) ==
  /\ deleter.step # "off" /\ r \in deleter.run
  /\ Drop(deleter.step, r)
  /\ deleter' = IF Then[deleter.step] = "off" THEN [step |-> "off", run |-> {}]
                ELSE [deleter EXCEPT !.step = Then[@]]
  /\ Disturb
  /\ UNCHANGED <<clock, metadata, workspace, process, history, used>>

DeleterDies ==
  /\ deleter.step # "off"
  /\ deleter' = [step |-> "off", run |-> {}]
  /\ Mishap /\ Disturb
  /\ UNCHANGED <<clock, rows, files, metadata, workspace, process, history>>

-----------------------------------------------------------------------------
(***************************************************************************)
(* sca gc: cutoff and list of the Runs are read once, at its start         *)
(***************************************************************************)
Before(day) == day + RetentionDays < clock
Collecting(step) == collector.step = step
Goes(step, todo) ==
  collector' = [collector EXCEPT !.step = step, !.todo = todo, !.run = {},
                                 !.listed = IF step = "cap" THEN {} ELSE @]
Bystanders == UNCHANGED <<others, process, deleter>>

BeginCollect ==
  /\ Collecting("off") /\ Command
  /\ collector' = [NotCollecting EXCEPT !.step = "look"]
  /\ UNCHANGED <<clock, rows, files, metadata, workspace, process, deleter, history>>

\* A workspace that is gone is marked, and its state kept for this time.
MarkOrphan ==
  /\ Collecting("look") /\ metadata.there /\ ~workspace /\ metadata.orphaned = 0
  /\ metadata' = [metadata EXCEPT !.orphaned = clock]
  /\ Goes("cap", {})
  /\ UNCHANGED <<rows, files, history>> /\ Bystanders

Expired == ~workspace /\ metadata.orphaned # 0
             /\ metadata.orphaned + RetentionDays <= clock

DeleteOrphan ==
  /\ Collecting("look") /\ metadata.there /\ Expired
  /\ Goes("remove", {})
  /\ UNCHANGED <<rows, files, metadata, history>> /\ Bystanders

\* shutil.rmtree takes the entries of the directory in any order.
RemoveEntry ==
  /\ Collecting("remove")
  /\ \/ /\ rows' = [r \in Runs |-> NoRow] /\ rows' # rows
        /\ UNCHANGED <<files, metadata, history>>
     \/ \E r \in Reported : DropReport(r) /\ UNCHANGED <<metadata, history>>
     \/ \E r \in Runs : artifacts[r] # 0 /\ DropArtifacts(r) /\ UNCHANGED <<metadata, history>>
     \/ /\ metadata.there /\ metadata' = [there |-> FALSE, orphaned |-> 0]
        /\ UNCHANGED <<rows, files, history>>
  /\ UNCHANGED collector /\ Bystanders

Removed ==
  /\ Collecting("remove") /\ ~metadata.there
  /\ Stored = {} /\ Reported = {} /\ \A r \in Runs : artifacts[r] = 0
  /\ Goes("cap", {})
  /\ UNCHANGED <<rows, files, metadata, history>> /\ Bystanders

\* Runs that are neither active, nor recent, nor among the newest.
ListRuns ==
  /\ Collecting("look") /\ metadata.there /\ (workspace \/ metadata.orphaned # 0) /\ ~Expired
  /\ \E kept \in Newest(Stored, [r \in Runs |-> rows[r].updated], RetainRuns) :
       collector' = [collector EXCEPT !.step = "runs", !.listed = Stored,
         !.todo = {r \in Stored \ kept :
                     Before(rows[r].updated) /\ rows[r].status \notin Active}]
  /\ UNCHANGED <<rows, files, metadata, history>> /\ Bystanders

\* Without workspace.json the directory is left alone, its artifacts too.
SkipState ==
  /\ Collecting("look") /\ ~metadata.there
  /\ collector' = NotCollecting
  /\ UNCHANGED <<rows, files, metadata, history>> /\ Bystanders

TakeRun(r) ==
  /\ Collecting("runs") /\ r \in collector.todo
  /\ DropRow(r)
  /\ collector' = [collector EXCEPT !.step = Then["row"], !.run = {r}]
  /\ UNCHANGED <<metadata, history>> /\ Bystanders

CollectRun(r) ==
  /\ collector.step \in DOMAIN Then /\ r \in collector.run
  /\ Drop(collector.step, r)
  /\ IF Then[collector.step] = "off" THEN Goes("runs", collector.todo \ {r})
     ELSE collector' = [collector EXCEPT !.step = Then[@]]
  /\ UNCHANGED <<metadata, history>> /\ Bystanders

\* Fault: a workspace with a database has no history beside it.
ListNoHistory ==
  /\ Collecting("runs") /\ collector.todo = {}
  /\ Goes("history", {})
  /\ UNCHANGED <<rows, files, metadata, history>> /\ Bystanders

\* The reports that are not among the newest.
ListHistory ==
  /\ Collecting("runs") /\ collector.todo = {}
  /\ \E kept \in Newest(Reported, reports, RetainRuns) : Goes("history", Reported \ kept)
  /\ UNCHANGED <<rows, files, metadata, history>> /\ Bystanders

NextReport(r) == Collecting("history") /\ collector.run = {} /\ r \in collector.todo

\* Fault: reports go by their age, whether or not their Run was listed.
TakeOldReport(r) ==
  /\ NextReport(r) /\ r \in Reported /\ Before(reports[r])
  /\ DropReport(r)
  /\ collector' = [collector EXCEPT !.run = {r}]
  /\ UNCHANGED <<metadata, history>> /\ Bystanders

\* An old report of no listed Run.
TakeReport(r) ==
  /\ NextReport(r) /\ r \in Reported /\ Before(reports[r]) /\ r \notin collector.listed
  /\ DropReport(r)
  /\ collector' = [collector EXCEPT !.run = {r}]
  /\ UNCHANGED <<metadata, history>> /\ Bystanders

PassReport(r) ==
  /\ NextReport(r) /\ r \in Reported
  /\ ~Before(reports[r]) \/ r \in collector.listed
  /\ Goes("history", collector.todo \ {r})
  /\ UNCHANGED <<rows, files, metadata, history>> /\ Bystanders

\* stat() of a report that went away in the meantime ends the collection.
MissReport(r) ==
  /\ NextReport(r) /\ r \notin Reported
  /\ collector' = NotCollecting
  /\ UNCHANGED <<rows, files, metadata, history>> /\ Bystanders

TakeHistory(r) ==
  /\ Collecting("history") /\ r \in collector.run
  /\ DropArtifacts(r)
  /\ Goes("history", collector.todo \ {r})
  /\ UNCHANGED <<metadata, history>> /\ Bystanders

HistoryTaken ==
  /\ Collecting("history") /\ collector.run = {} /\ collector.todo = {}
  /\ Goes("cap", {})
  /\ UNCHANGED <<rows, files, metadata, history>> /\ Bystanders

\* The size limit: what is oldest first, whosever it is.
Kept == {r \in Runs : artifacts[r] # 0}

EnforceCap ==
  /\ Collecting("cap") /\ Cardinality(Kept) > MaxArtifacts
  /\ \E r \in Kept : (\A s \in Kept : artifacts[r] <= artifacts[s]) /\ DropArtifacts(r)
  /\ UNCHANGED <<metadata, history, collector>> /\ Bystanders

EndCollect ==
  /\ Collecting("cap") /\ Cardinality(Kept) <= MaxArtifacts
  /\ collector' = NotCollecting
  /\ UNCHANGED <<rows, files, metadata, history>> /\ Bystanders

\* The process dies, or an error ends it.
CollectorDies ==
  /\ ~Collecting("off") /\ Mishap
  /\ collector' = NotCollecting
  /\ torn' = IF Collecting("remove") THEN torn \cup Stored ELSE torn
  /\ UNCHANGED <<clock, rows, files, metadata, workspace, process, deleter, filed>>

-----------------------------------------------------------------------------
\* The workspace is moved away, or the drive it is on; or it comes back.
MoveWorkspace ==
  /\ workspace' = ~workspace
  /\ Mishap /\ Disturb
  /\ UNCHANGED <<clock, rows, files, metadata, process, deleter, history>>

DayPasses ==
  /\ Collecting("off") /\ clock < MaxDays /\ clock' = clock + 1
  /\ UNCHANGED <<rows, files, metadata, workspace, process, deleter, collector, history, used>>

Collect ==
  \/ BeginCollect \/ MarkOrphan \/ DeleteOrphan \/ RemoveEntry \/ Removed \/ SkipState
  \/ ListRuns \/ ListHistory \/ HistoryTaken \/ EnforceCap \/ EndCollect
  \/ \E r \in Runs :
       \/ TakeRun(r) \/ CollectRun(r)
       \/ TakeReport(r) \/ PassReport(r) \/ MissReport(r) \/ TakeHistory(r)

Next ==
  \/ \E r \in Runs :
       \/ StartRun(r) \/ ResumeRun(r) \/ SaveRun(r) \/ EndRun(r) \/ WriteReport(r)
       \/ RunDies(r) \/ BeginDelete(r) \/ Delete(r)
  \/ Collect \/ CollectorDies \/ DeleterDies \/ MoveWorkspace \/ DayPasses

Spec == Init /\ [][Next]_vars

-----------------------------------------------------------------------------
Row == [status : {"none", "running", "paused", "failed", "completed"}, updated : Nat]
Metadata == [there : BOOLEAN, orphaned : Nat]
Deletion == [step : DOMAIN Then \cup {"off"}, run : SUBSET Runs]
Collection ==
  [step : DOMAIN Then \cup {"off", "look", "remove", "runs", "history", "cap"},
   listed : SUBSET Runs, todo : SUBSET Runs, run : SUBSET Runs, alone : BOOLEAN]
Used == [ids : SUBSET Runs, commands : Nat, mishaps : Nat]

\* Every value has its type.
TypeOK ==
  /\ clock \in Nat /\ workspace \in BOOLEAN
  /\ rows \in [Runs -> Row]
  /\ reports \in [Runs -> Nat] /\ artifacts \in [Runs -> Nat]
  /\ metadata \in Metadata
  /\ process \in [Runs -> {"off", "working", "reporting"}]
  /\ deleter \in Deletion /\ collector \in Collection
  /\ filed \subseteq Runs /\ torn \subseteq Runs
  /\ used \in Used

\* A Run that `sca runs` still lists has the report it wrote, whoever deleted,
\* collected, resumed or died in between: the row goes first, and the history
\* loop leaves the reports of listed Runs alone.  The one exception is rmtree of
\* the whole directory, in any order: its Runs may lack their reports while it
\* works, and for good where it broke off (torn), until they write new ones.
RowsKeepTheirReports ==
  Collecting("remove") \/ (filed \ torn) \cap Stored \subseteq Reported

\* A collection nobody stepped into leaves, of Runs without a row, reports that
\* are recent or among the newest, also when they are what a deletion that died
\* left behind; of Runs with a row, ones that are active, recent or among the
\* newest; and no more artifacts than the limit.
LeftoversCollected ==
  [][EndCollect /\ collector.alone /\ metadata.orphaned = 0 =>
       /\ \A r \in Reported \ Stored :
            ~Before(reports[r])
              \/ Cardinality({s \in Reported : reports[s] > reports[r]}) < RetainRuns
       /\ \A r \in Stored :
            \/ ~Before(rows[r].updated) \/ rows[r].status \in Active
            \/ Cardinality({s \in Stored : rows[s].updated > rows[r].updated}) < RetainRuns
       /\ Cardinality(Kept) <= MaxArtifacts]_vars
=============================================================================
