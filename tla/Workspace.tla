----------------------------- MODULE Workspace -----------------------------
(***************************************************************************)
(* The main workspace, the worktrees the Coders get and the patches that   *)
(* come back (core/git_utils.py, core/tools/apply_patch.py, the baseline   *)
(* and the context copies of core/actors/worktree.py, and the collection   *)
(* node of core/orchestration/adapter.py).                                 *)
(*                                                                         *)
(* The user is another process: it may edit or commit between any two      *)
(* steps, and a step ends wherever the code has let it in: between the     *)
(* copy and the hashes, the checks and the patch, the patch and the new    *)
(* hashes.  The program may die at any point.                              *)
(*                                                                         *)
(* Abstractions: the content of a file is the set of edits in it, a hash   *)
(* is the content it was taken of.  A Coder adds to files; what its diff   *)
(* takes out is what a context copy has taken out of its worktree.  git    *)
(* apply takes a patch for the content it was made of, refuses one of      *)
(* which a line is gone or there already, and may do either otherwise.     *)
(***************************************************************************)
EXTENDS Integers, FiniteSets

CONSTANTS
  Files,
  Coders,       \* task_ids of the Coders
  DependsOn,    \* their dependencies
  Scope,        \* the files each changes, if it changes any
  ContextFiles, \* the files of the main workspace each is given
  Callers,      \* who calls apply_patch: the "collect" node or the "planner"
  MaxUserEdits, \* bound of the model: edits of the user
  MaxCrashes    \* bound of the model: deaths of the program

UserEdits == {<<"user", n>> : n \in 1..MaxUserEdits}

ASSUME WorkspaceAssumption ==
  /\ DependsOn \in [Coders -> SUBSET Coders]
  /\ Scope \in [Coders -> SUBSET Files]
  /\ ContextFiles \in [Coders -> SUBSET Files]
  /\ Callers \subseteq {"collect", "planner"}
  /\ {MaxUserEdits, MaxCrashes} \subseteq Nat
  /\ Coders \cap UserEdits = {}

Edits == Coders \cup UserEdits
Content == [Files -> SUBSET Edits]

VARIABLES
  ws,        \* content of the main workspace
  head,      \* content of the commit it is at, when it is the root of a repository
  git,       \* it is one
  caller,    \* who applies the patches of this Run
  session,   \* _shadow_sessions[workspace]
  task,      \* GlobalState.task_tree and the Actor at work on each task
  saved,     \* the task tree of the last checkpoint
  patch,     \* the call of apply_patch in progress
  touched,   \* history: files changed by another hand since they were hashed
  merged,    \* history: Coders whose whole patch was applied
  edits,     \* bound: edits of the user so far
  crashes    \* bound: deaths so far

durable == <<ws, head, git, caller>>
bounds == <<edits, crashes>>
vars == <<durable, session, task, saved, patch, touched, merged, bounds>>

Nothing == [f \in Files |-> {}]
NoSession == [at |-> "none", repo |-> Nothing, hash |-> Nothing]

\* A diff, and what it was made of.  extract_diff strips it: "plain" has lost
\* its last line end only, "torn" blank lines of its last hunk as well, and
\* "marked" ends with the marker of a file without a last line end.
NoDiff == [base |-> Nothing, added |-> Nothing, removed |-> Nothing,
           end |-> "marked"]
NewTask == [at |-> "new", base |-> Nothing, tree |-> Nothing, diff |-> NoDiff,
            applied |-> FALSE, refused |-> "no"]
NoPatch == [step |-> "none", of |-> {}, strategy |-> "strict"]

Init ==
  /\ ws = Nothing /\ head = Nothing
  /\ git \in BOOLEAN
  /\ caller \in Callers
  /\ session = NoSession
  /\ task = [t \in Coders |-> NewTask]
  /\ saved = task
  /\ patch = NoPatch
  /\ touched = {} /\ merged = {}
  /\ edits = 0 /\ crashes = 0

(***************************************************************************)
(* The user                                                                *)
(***************************************************************************)
Edit(f) ==
  /\ edits < MaxUserEdits
  /\ edits' = edits + 1
  /\ ws' = [ws EXCEPT ![f] = @ \cup {<<"user", edits + 1>>}]
  /\ touched' = touched \cup {f}
  /\ UNCHANGED <<head, git, caller, session, task, saved, patch, merged, crashes>>

Commit ==
  /\ git /\ head # ws
  /\ head' = ws
  /\ UNCHANGED <<ws, git, caller, session, task, saved, patch, touched, merged,
                 bounds>>

(***************************************************************************)
(* Diffs                                                                   *)
(***************************************************************************)
TouchedBy(diff) == {f \in Files : diff.added[f] \cup diff.removed[f] # {}}
IsEmpty(diff) == TouchedBy(diff) = {}

MayFit(diff, content) ==
  \A f \in TouchedBy(diff) :
    diff.removed[f] \subseteq content[f] /\ diff.added[f] \cap content[f] = {}
MustFit(diff, content) ==
  \A f \in TouchedBy(diff) : content[f] = diff.base[f]

\* Fault: the files of the Coder replace those of the workspace.
WholeFiles(diff, content) ==
  [f \in Files |-> IF f \in TouchedBy(diff)
                   THEN (diff.base[f] \ diff.removed[f]) \cup diff.added[f]
                   ELSE content[f]]

Patched(diff, content) ==
  [f \in Files |-> (content[f] \ diff.removed[f]) \cup diff.added[f]]

(***************************************************************************)
(* A worktree is made of HEAD when the workspace is a clean repository,    *)
(* else of the snapshot the process has, or takes now: the copy, then the  *)
(* hashes.  It is taken once and never again.                              *)
(***************************************************************************)
Clean == git /\ ws = head
Undisturbed == patch = NoPatch /\ \A t \in Coders : task[t].at # "copying"

\* The stored diffs of the direct dependencies are the committed baseline of
\* the Actor; one that git refuses ends it.
Baseline(t, content) ==
  LET diffs == {task[d].diff : d \in DependsOn[t]} \ {NoDiff}
      upstream == [f \in Files |->
                     (content[f] \ UNION {d.removed[f] : d \in diffs})
                       \cup UNION {d.added[f] : d \in diffs}]
  IN \/ /\ \A d \in diffs : d.end = "marked" /\ MayFit(d, content)
        /\ task' = [task EXCEPT ![t].at = "ready", ![t].base = upstream,
                                ![t].tree = upstream]
     \/ /\ \E d \in diffs :
             d.end # "marked" \/ ~MustFit(d, content) \/ Cardinality(diffs) > 1
        /\ task' = [task EXCEPT ![t].at = "failed", ![t].refused = "baseline"]

\* An Actor is started when its dependencies are done, by the graph only after
\* it has collected their results.
MayStart(t) ==
  /\ task[t].at = "new"
  /\ \A d \in DependsOn[t] :
       /\ task[d].at = "done"
       /\ caller = "collect" =>
            task[d].applied \/ task[d].refused # "no" \/ IsEmpty(task[d].diff)

SetupWorktree(t) ==
  /\ Undisturbed /\ MayStart(t)
  /\ CASE Clean -> Baseline(t, head) /\ UNCHANGED session
       [] ~Clean /\ session # NoSession ->
            Baseline(t, session.repo) /\ UNCHANGED session
       [] OTHER -> /\ session' = [session EXCEPT !.at = "copied", !.repo = ws]
                   /\ task' = [task EXCEPT ![t].at = "copying"]
  /\ UNCHANGED <<durable, saved, patch, touched, merged, bounds>>

HashSnapshot(t) ==
  /\ task[t].at = "copying"
  /\ session' = [session EXCEPT !.at = "open", !.hash = ws]
  /\ touched' = {}
  /\ Baseline(t, session.repo)
  /\ UNCHANGED <<durable, saved, patch, merged, bounds>>

(***************************************************************************)
(* The Actor: the context files are copied over its baseline, from the     *)
(* main workspace as it is now; then it works.                             *)
(***************************************************************************)
CopyContext(t) ==
  /\ Undisturbed /\ task[t].at = "ready"
  /\ task' = [task EXCEPT ![t].at = "acting", ![t].tree =
                [f \in Files |-> IF f \in ContextFiles[t] THEN ws[f] ELSE @[f]]]
  /\ UNCHANGED <<durable, session, saved, patch, touched, merged, bounds>>

ExtractedDiff(t, end) ==
  LET tree == [f \in Files |->
                 task[t].tree[f] \cup (IF f \in Scope[t] THEN {t} ELSE {})]
  IN [base    |-> task[t].base,
      added   |-> [f \in Files |-> tree[f] \ task[t].base[f]],
      removed |-> [f \in Files |-> task[t].base[f] \ tree[f]],
      end     |-> end]

FinishActor(t) ==
  /\ Undisturbed /\ task[t].at = "acting"
  /\ \/ \E end \in {"marked", "plain", "torn"} :
          task' = [task EXCEPT ![t] =
                     [NewTask EXCEPT !.at = "done", !.diff = ExtractedDiff(t, end)]]
     \/ \E at \in {"done", "failed"} :
          task' = [task EXCEPT ![t] = [NewTask EXCEPT !.at = at]]
  /\ UNCHANGED <<durable, session, saved, patch, touched, merged, bounds>>

(***************************************************************************)
(* apply_patch.  The collection node calls it once per batch for every     *)
(* done Coder without the flag patch_applied; the Planner calls it as it   *)
(* likes, and no flag is set.                                              *)
(***************************************************************************)
MayApply(t, strategy) ==
  /\ Undisturbed
  /\ task[t].at = "done" /\ ~IsEmpty(task[t].diff)
  /\ caller = "collect" => ~task[t].applied /\ strategy = "strict"

Conflicts(diff) ==
  session.at = "open" /\ \E f \in TouchedBy(diff) : ws[f] # session.hash[f]

Refuse(t) ==
  /\ task' = [task EXCEPT ![t].refused = "patch"]
  /\ patch' = NoPatch

\* Fault: the flag is set before the patch is applied.
FlagThenCheck(t, strategy) ==
  /\ MayApply(t, strategy)
  /\ CASE session = NoSession /\ ~Clean -> Refuse(t)
       [] Conflicts(task[t].diff) -> Refuse(t)
       [] OTHER -> /\ patch' = [step |-> "checked", of |-> {t},
                                strategy |-> strategy]
                   /\ task' = [task EXCEPT ![t].applied = (caller = "collect")]
  /\ UNCHANGED <<durable, session, saved, touched, merged, bounds>>

CheckPatch(t, strategy) ==
  /\ MayApply(t, strategy)
  /\ CASE session = NoSession /\ ~Clean -> Refuse(t)
       [] Conflicts(task[t].diff) -> Refuse(t)
       [] OTHER -> /\ patch' = [step |-> "checked", of |-> {t},
                                strategy |-> strategy]
                   /\ UNCHANGED task
  /\ UNCHANGED <<durable, session, saved, touched, merged, bounds>>

GitAccepts(t) ==
  /\ patch.step = "checked" /\ t \in patch.of
  /\ task[t].diff.end # "torn" /\ MayFit(task[t].diff, ws)
  /\ ws' = Patched(task[t].diff, ws)
  /\ merged' = merged \cup {t}
  /\ patch' = [patch EXCEPT !.step = "applied"]
  /\ UNCHANGED <<head, git, caller, session, task, saved, touched, bounds>>

\* Without strategy "fuzz" nothing changes; with it, any part of the patch is
\* applied, and the call ends with no new hashes.
GitRefuses(t) ==
  /\ patch.step = "checked" /\ t \in patch.of
  /\ task[t].diff.end = "torn" \/ ~MustFit(task[t].diff, ws)
  /\ Refuse(t)
  /\ IF patch.strategy = "strict" \/ task[t].diff.end = "torn"
     THEN UNCHANGED <<ws, touched>>
     ELSE \E hunks \in SUBSET TouchedBy(task[t].diff) :
            /\ ws' = [f \in Files |->
                        IF f \in hunks THEN Patched(task[t].diff, ws)[f] ELSE ws[f]]
            /\ touched' = touched \cup hunks
  /\ UNCHANGED <<head, git, caller, session, saved, merged, bounds>>

\* Fault: the patches of this program count as changes of the user.
EndPatchWithoutHashes(t) ==
  /\ patch.step = "applied" /\ t \in patch.of
  /\ patch' = NoPatch
  /\ task' = [task EXCEPT ![t].applied = (caller = "collect")]
  /\ UNCHANGED <<durable, session, saved, touched, merged, bounds>>

\* refresh_shadow_baseline: the hashes of what is there now.
EndPatch(t) ==
  /\ patch.step = "applied" /\ t \in patch.of
  /\ session' =
       IF session = NoSession THEN session
       ELSE [session EXCEPT !.hash = [f \in Files |->
               IF f \in TouchedBy(task[t].diff) THEN ws[f] ELSE @[f]]]
  /\ touched' = touched \ TouchedBy(task[t].diff)
  /\ patch' = NoPatch
  /\ task' = [task EXCEPT ![t].applied = (caller = "collect")]
  /\ UNCHANGED <<durable, saved, merged, bounds>>

(***************************************************************************)
(* Checkpoints and deaths: the snapshot and its hashes are the process',   *)
(* and a task that was at work starts again (module Orchestrator).         *)
(***************************************************************************)
Checkpoint ==
  /\ Undisturbed /\ saved # task
  /\ saved' = task
  /\ UNCHANGED <<durable, session, task, patch, touched, merged, bounds>>

Crash ==
  /\ crashes < MaxCrashes
  /\ crashes' = crashes + 1
  /\ session' = NoSession
  /\ patch' = NoPatch
  /\ touched' = {}
  /\ task' = [t \in Coders |->
                IF saved[t].at \in {"done", "failed"} THEN saved[t] ELSE NewTask]
  /\ saved' = task'
  /\ UNCHANGED <<durable, merged, edits>>

Next ==
  \/ \E f \in Files : Edit(f)
  \/ Commit \/ Checkpoint \/ Crash
  \/ \E t \in Coders :
       \/ SetupWorktree(t) \/ HashSnapshot(t) \/ CopyContext(t) \/ FinishActor(t)
       \/ \E strategy \in {"strict", "fuzz"} : CheckPatch(t, strategy)
       \/ GitAccepts(t) \/ GitRefuses(t) \/ EndPatch(t)

Spec == Init /\ [][Next]_vars

-----------------------------------------------------------------------------
Diff == [base : Content, added : Content, removed : Content,
         end : {"marked", "plain", "torn"}]

Task ==
  [at : {"new", "copying", "ready", "acting", "done", "failed"},
   base : Content, tree : Content, diff : Diff, applied : BOOLEAN,
   refused : {"no", "baseline", "patch"}]

TypeOK ==
  /\ ws \in Content /\ head \in Content
  /\ git \in BOOLEAN /\ caller \in Callers
  /\ session \in [at : {"none", "copied", "open"}, repo : Content, hash : Content]
  /\ task \in [Coders -> Task] /\ saved \in [Coders -> Task]
  /\ patch \in [step : {"none", "checked", "applied"}, of : SUBSET Coders,
                strategy : {"strict", "fuzz"}]
  /\ touched \subseteq Files /\ merged \subseteq Coders
  /\ edits \in Nat /\ crashes \in Nat

\* What the program itself has merged is no conflict: while every patch is
\* strict, a patch is refused as one over concurrent changes only if somebody
\* else changed a file it touches after that file was last hashed (the hashes
\* of the snapshot, shadow_patch_conflicts, refresh_shadow_baseline).
ConflictMeansChange ==
  \A t \in Coders :
    patch = NoPatch /\ Conflicts(task[t].diff) => TouchedBy(task[t].diff) \cap touched # {}

\* A patch that counts as applied was applied, as a whole, also after a death
\* at any point between the patch, its flag and the checkpoint of the flag
\* (the collection node and execute of apply_patch).
FlagMeansMerged ==
  \A t \in Coders : task[t].applied \/ saved[t].applied => t \in merged

\* Nothing the user wrote is lost by a merge: neither the snapshot, nor a
\* baseline, nor a context copy, nor a partial patch takes an edit of the user
\* out of the workspace (setup_worktree, the context copies, apply_patch).
UserEditsKept ==
  [][\A f \in Files : ws[f] \cap UserEdits \subseteq ws'[f]]_vars

-----------------------------------------------------------------------------
(***************************************************************************)
(* What a document says and the code does not do                           *)
(***************************************************************************)
\* README.md:430: dependent Actor tasks receive upstream diffs as a committed
\* worktree baseline.
DependentGetsBaseline ==
  \A t \in Coders : task[t].refused # "baseline"
=============================================================================
