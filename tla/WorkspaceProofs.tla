-------------------------- MODULE WorkspaceProofs --------------------------
(***************************************************************************)
(* The merges of Workspace, for any files, Coders, dependencies and        *)
(* scopes, any number of edits and deaths: what the program takes for a    *)
(* conflict is one, what it counts as applied was applied, and no edit of  *)
(* the user is lost.                                                       *)
(*                                                                         *)
(* The invariant says of everything a Coder is given or makes (snapshot,   *)
(* baseline, worktree, diff) that it holds no edit of the user the         *)
(* workspace has not, and of a diff that it takes none away; and of the    *)
(* hashes, between which two steps they may differ from the workspace.     *)
(***************************************************************************)
EXTENDS Workspace, TLAPS

\* c has no edit of the user that w has not.
Behind(c, w) == \A f \in Files : c[f] \cap UserEdits \subseteq w[f]

SafeDiff(d, w) ==
  /\ Behind(d.added, w)
  /\ \A f \in Files : d.removed[f] \cap UserEdits = {}

SafeTask(k, w) ==
  /\ Behind(k.base, w) /\ Behind(k.tree, w) /\ SafeDiff(k.diff, w)
  /\ k.at = "ready" => k.tree = k.base
  /\ k.at = "acting" => Behind(k.base, k.tree)

KeptInv ==
  /\ Behind(head, ws) /\ Behind(session.repo, ws)
  /\ \A t \in Coders : SafeTask(task[t], ws) /\ SafeTask(saved[t], ws)

\* One patch at a time, and one that git has applied is merged.
PatchInv ==
  /\ \A a, b \in patch.of : a = b
  /\ patch.step = "applied" => patch.of \subseteq merged

\* A file that differs from its hash was touched by another hand, or belongs to
\* the patch that was just applied.
HashInv ==
  session.at = "open" =>
    \A f \in Files : ws[f] # session.hash[f] =>
      \/ f \in touched
      \/ patch.step = "applied" /\ \E t \in patch.of : f \in TouchedBy(task[t].diff)

Inv == TypeOK /\ KeptInv /\ PatchInv /\ HashInv /\ FlagMeansMerged

-----------------------------------------------------------------------------
(***************************************************************************)
(* Contents and diffs                                                      *)
(***************************************************************************)
LEMMA NothingTyped ==
  /\ Nothing \in Content /\ NoDiff \in Diff /\ NewTask \in Task
  /\ \A w : Behind(Nothing, w) /\ SafeDiff(NoDiff, w) /\ SafeTask(NewTask, w)
<1>1. Nothing \in Content /\ \A w : Behind(Nothing, w)
  BY DEF Nothing, Content, Behind
<1>2. NoDiff \in Diff
  BY <1>1 DEF NoDiff, Diff
<1>3. \A w : SafeDiff(NoDiff, w)
  BY <1>1 DEF NoDiff, SafeDiff, Nothing
<1>4. NewTask \in Task
  BY <1>1, <1>2 DEF NewTask, Task
<1>5. \A w : SafeTask(NewTask, w)
  BY <1>1, <1>3 DEF NewTask, SafeTask
<1>6. QED
  BY <1>1, <1>2, <1>3, <1>4, <1>5

\* What is behind a workspace is behind it when it has grown.
LEMMA StaysBehind ==
  ASSUME NEW w, NEW v, Behind(w, v)
  PROVE  /\ \A c : Behind(c, w) => Behind(c, v)
         /\ \A d : SafeDiff(d, w) => SafeDiff(d, v)
         /\ \A k : SafeTask(k, w) => SafeTask(k, v)
<1>1. \A c : Behind(c, w) => Behind(c, v)
  BY DEF Behind
<1>2. \A d : SafeDiff(d, w) => SafeDiff(d, v)
  BY <1>1 DEF SafeDiff
<1>3. \A k : SafeTask(k, w) => SafeTask(k, v)
  BY <1>1, <1>2 DEF SafeTask
<1>4. QED
  BY <1>1, <1>2, <1>3

\* A patch, or some of its files, keeps the edits of the user.
LEMMA PatchKeeps ==
  ASSUME NEW d \in Diff, NEW w, SafeDiff(d, w), NEW hunks, NEW v,
         v = [f \in Files |-> IF f \in hunks THEN Patched(d, w)[f] ELSE w[f]]
  PROVE  Behind(w, v)
<1>1. \A f \in Files : Patched(d, w)[f] = (w[f] \ d.removed[f]) \cup d.added[f]
  BY DEF Patched
<1>2. \A f \in Files : d.removed[f] \cap UserEdits = {}
  BY DEF SafeDiff
<1>3. QED
  BY <1>1, <1>2 DEF Behind

\* Where a patch touches nothing it changes nothing.
LEMMA PatchTouches ==
  ASSUME NEW d \in Diff, NEW w \in Content
  PROVE  /\ Patched(d, w) \in Content
         /\ \A f \in Files \ TouchedBy(d) : Patched(d, w)[f] = w[f]
<1>1. d.added \in Content /\ d.removed \in Content
  BY DEF Diff
<1>2. Patched(d, w) \in Content
  BY <1>1 DEF Patched, Content
<1>3. \A f \in Files \ TouchedBy(d) : Patched(d, w)[f] = w[f]
  BY DEF Patched, TouchedBy, Content
<1>4. QED
  BY <1>2, <1>3

\* What becomes of a task that is given its baseline.
Based(t, content, k) ==
  /\ k \in Task
  /\ task' = [task EXCEPT ![t] = k]
  /\ k.diff = task[t].diff /\ k.applied = task[t].applied
  /\ \/ k.at = "failed" /\ k.base = task[t].base /\ k.tree = task[t].tree
     \/ /\ k.at = "ready" /\ k.tree = k.base
        /\ \A w : /\ Behind(content, w)
                  /\ \A d \in Coders : Behind(task[d].diff.added, w)
                  => Behind(k.base, w)

LEMMA BaselineGiven ==
  ASSUME TypeOK, NEW t \in Coders, NEW content \in Content, Baseline(t, content)
  PROVE  \E k : Based(t, content, k)
<1> DEFINE diffs == {task[d].diff : d \in DependsOn[t]} \ {NoDiff}
           losses(f) == UNION {d.removed[f] : d \in diffs}
           gains(f) == UNION {d.added[f] : d \in diffs}
           up == [f \in Files |-> (content[f] \ losses(f)) \cup gains(f)]
<1>1. task \in [Coders -> Task] /\ task[t] \in Task
  BY DEF TypeOK
<1>2. \A d \in diffs : d \in Diff /\ \E e \in Coders : d = task[e].diff
  BY <1>1, WorkspaceAssumption DEF Task
<1> HIDE DEF diffs
<1>3. up \in Content
  <2>1. \A d \in diffs, f \in Files : d.added[f] \in SUBSET Edits
    BY <1>2 DEF Diff, Content
  <2>2. \A f \in Files : gains(f) \in SUBSET Edits
    BY <2>1
  <2>3. \A f \in Files : content[f] \in SUBSET Edits
    BY DEF Content
  <2> HIDE DEF losses, gains
  <2>4. QED
    BY <2>2, <2>3 DEF Content
<1>4. ASSUME NEW w, Behind(content, w), \A d \in Coders : Behind(task[d].diff.added, w)
      PROVE  Behind(up, w)
  <2>1. \A d \in diffs, f \in Files : d.added[f] \cap UserEdits \subseteq w[f]
    BY <1>2, <1>4 DEF Behind
  <2>2. ASSUME NEW f \in Files PROVE up[f] \cap UserEdits \subseteq w[f]
    <3>1. gains(f) \cap UserEdits \subseteq w[f]
      <4>1. \A x \in gains(f) : \E d \in diffs : x \in d.added[f]
        OBVIOUS
      <4> HIDE DEF gains
      <4>2. QED
        BY <2>1, <4>1
    <3>2. content[f] \cap UserEdits \subseteq w[f]
      BY <1>4 DEF Behind
    <3>3. up[f] = (content[f] \ losses(f)) \cup gains(f)
      OBVIOUS
    <3> HIDE DEF up, losses, gains
    <3>4. QED
      BY <3>1, <3>2, <3>3
  <2>3. QED
    BY <2>2 DEF Behind
<1>5. \/ task' = [task EXCEPT ![t].at = "ready", ![t].base = up, ![t].tree = up]
      \/ task' = [task EXCEPT ![t].at = "failed", ![t].refused = "baseline"]
  BY DEF Baseline, diffs
<1> HIDE DEF up
<1> DEFINE ready == [task[t] EXCEPT !.at = "ready", !.base = up, !.tree = up]
           failed == [task[t] EXCEPT !.at = "failed", !.refused = "baseline"]
<1>6. /\ ready \in Task /\ failed \in Task
      /\ ready.at = "ready" /\ ready.base = up /\ ready.tree = up
      /\ ready.diff = task[t].diff /\ ready.applied = task[t].applied
      /\ failed.at = "failed" /\ failed.base = task[t].base /\ failed.tree = task[t].tree
      /\ failed.diff = task[t].diff /\ failed.applied = task[t].applied
  BY <1>1, <1>3 DEF Task
<1>7. \/ task' = [task EXCEPT ![t] = ready]
      \/ task' = [task EXCEPT ![t] = failed]
  BY <1>1, <1>5
<1> HIDE DEF ready, failed
<1>8. task' = [task EXCEPT ![t] = ready] => Based(t, content, ready)
  BY <1>4, <1>6 DEF Based
<1>9. task' = [task EXCEPT ![t] = failed] => Based(t, content, failed)
  BY <1>6 DEF Based
<1>10. QED
  BY <1>7, <1>8, <1>9

\* The diff of a Coder: it takes out what a context copy took out.
LEMMA ExtractedTyped ==
  ASSUME TypeOK, NEW t \in Coders, NEW end \in {"marked", "plain", "torn"}
  PROVE  /\ ExtractedDiff(t, end) \in Diff
         /\ \A w : Behind(task[t].base, task[t].tree) /\ Behind(task[t].tree, w)
                   => SafeDiff(ExtractedDiff(t, end), w)
<1> DEFINE base == task[t].base
           tree == [f \in Files |-> task[t].tree[f] \cup (IF f \in Scope[t] THEN {t} ELSE {})]
<1>1. base \in Content /\ task[t].tree \in Content
  BY DEF TypeOK, Task
<1>2. tree \in Content
  BY <1>1 DEF Content, Edits
<1>3. ExtractedDiff(t, end)
        = [base |-> base, added |-> [f \in Files |-> tree[f] \ base[f]],
           removed |-> [f \in Files |-> base[f] \ tree[f]], end |-> end]
  BY DEF ExtractedDiff
<1>4. ExtractedDiff(t, end) \in Diff
  <2> HIDE DEF base, tree
  <2>1. /\ [f \in Files |-> tree[f] \ base[f]] \in Content
        /\ [f \in Files |-> base[f] \ tree[f]] \in Content
    BY <1>1, <1>2 DEF Content
  <2>2. QED
    BY <1>1, <1>3, <2>1 DEF Diff
<1>5. ASSUME NEW w, Behind(base, task[t].tree), Behind(task[t].tree, w)
      PROVE  SafeDiff(ExtractedDiff(t, end), w)
  <2>1. \A f \in Files : /\ task[t].tree[f] \subseteq tree[f]
                         /\ tree[f] \cap UserEdits \subseteq task[t].tree[f]
    <3>1. t \notin UserEdits
      BY WorkspaceAssumption
    <3>2. QED
      BY <3>1
  <2> HIDE DEF base, tree
  <2>2. \A f \in Files : /\ ExtractedDiff(t, end).added[f] = tree[f] \ base[f]
                         /\ ExtractedDiff(t, end).removed[f] = base[f] \ tree[f]
    BY <1>3
  <2>3. Behind(ExtractedDiff(t, end).added, w)
    BY <1>5, <2>1, <2>2 DEF Behind
  <2>4. \A f \in Files : ExtractedDiff(t, end).removed[f] \cap UserEdits = {}
    BY <1>5, <2>1, <2>2 DEF Behind
  <2>5. QED
    BY <2>3, <2>4 DEF SafeDiff
<1>6. QED
  BY <1>4, <1>5

-----------------------------------------------------------------------------
(***************************************************************************)
(* Types                                                                   *)
(***************************************************************************)
LEMMA InitType == Init => TypeOK
<1> SUFFICES ASSUME Init PROVE TypeOK
  OBVIOUS
<1>1. task \in [Coders -> Task] /\ saved \in [Coders -> Task]
  BY NothingTyped DEF Init
<1>2. QED
  BY <1>1, NothingTyped DEF Init, TypeOK, NoSession, NoPatch

LEMMA TypeStep == TypeOK /\ [Next]_vars => TypeOK'
<1> SUFFICES ASSUME TypeOK, [Next]_vars PROVE TypeOK'
  OBVIOUS
<1>t. /\ ws \in Content /\ head \in Content
      /\ git \in BOOLEAN /\ caller \in Callers
      /\ session \in [at : {"none", "copied", "open"}, repo : Content, hash : Content]
      /\ task \in [Coders -> Task] /\ saved \in [Coders -> Task]
      /\ patch \in [step : {"none", "checked", "applied"}, of : SUBSET Coders,
                    strategy : {"strict", "fuzz"}]
      /\ touched \subseteq Files /\ merged \subseteq Coders
      /\ edits \in Nat /\ crashes \in Nat
  BY DEF TypeOK
<1>n. /\ NoPatch \in [step : {"none", "checked", "applied"}, of : SUBSET Coders,
                      strategy : {"strict", "fuzz"}]
      /\ NoSession \in [at : {"none", "copied", "open"}, repo : Content, hash : Content]
  BY NothingTyped DEF NoPatch, NoSession
<1> USE DEF durable, bounds
<1>1. ASSUME NEW f \in Files, Edit(f) PROVE TypeOK'
  <2>1. edits + 1 \in 1..MaxUserEdits
    BY <1>1, <1>t, WorkspaceAssumption DEF Edit
  <2>2. <<"user", edits + 1>> \in Edits
    BY <2>1 DEF UserEdits, Edits
  <2>3. ws' \in Content
    BY <1>1, <1>t, <2>2 DEF Edit, Content
  <2>4. QED
    BY <1>1, <1>t, <2>1, <2>3 DEF Edit, TypeOK
<1>2. CASE Commit
  BY <1>2, <1>t DEF Commit, TypeOK
<1>3. CASE Checkpoint
  BY <1>3, <1>t DEF Checkpoint, TypeOK
<1>4. CASE Crash
  <2>1. task' \in [Coders -> Task] /\ saved' = task'
    BY <1>4, <1>t, NothingTyped DEF Crash
  <2>2. crashes' \in Nat
    BY <1>4, <1>t DEF Crash
  <2>3. QED
    BY <1>4, <1>t, <1>n, <2>1, <2>2 DEF Crash, TypeOK
<1>5. ASSUME NEW t \in Coders, SetupWorktree(t) PROVE TypeOK'
  <2>1. \/ /\ \E content \in Content : Baseline(t, content)
           /\ UNCHANGED session
        \/ /\ session' = [session EXCEPT !.at = "copied", !.repo = ws]
           /\ task' = [task EXCEPT ![t].at = "copying"]
    BY <1>5, <1>t DEF SetupWorktree
  <2>2. session' \in [at : {"none", "copied", "open"}, repo : Content, hash : Content]
    BY <1>t, <2>1
  <2>3. task' \in [Coders -> Task]
    <3>1. CASE \E content \in Content : Baseline(t, content)
      BY <1>t, <3>1, BaselineGiven DEF Based
    <3>2. CASE task' = [task EXCEPT ![t].at = "copying"]
      BY <1>t, <3>2 DEF Task
    <3>3. QED
      BY <2>1, <3>1, <3>2
  <2>4. QED
    BY <1>5, <1>t, <2>2, <2>3 DEF SetupWorktree, TypeOK
<1>6. ASSUME NEW t \in Coders, HashSnapshot(t) PROVE TypeOK'
  <2>1. task' \in [Coders -> Task]
    BY <1>6, <1>t, BaselineGiven DEF HashSnapshot, Based
  <2>2. session' \in [at : {"none", "copied", "open"}, repo : Content, hash : Content]
    BY <1>6, <1>t DEF HashSnapshot
  <2>3. QED
    BY <1>6, <1>t, <2>1, <2>2 DEF HashSnapshot, TypeOK
<1>7. ASSUME NEW t \in Coders, CopyContext(t) PROVE TypeOK'
  <2> DEFINE tree == [f \in Files |-> IF f \in ContextFiles[t] THEN ws[f]
                                      ELSE task[t].tree[f]]
  <2>1. tree \in Content
    BY <1>t DEF Task, Content
  <2>2. task' = [task EXCEPT ![t].at = "acting", ![t].tree = tree]
    BY <1>7, <1>t DEF CopyContext
  <2> HIDE DEF tree
  <2> DEFINE k == [task[t] EXCEPT !.at = "acting", !.tree = tree]
  <2>3. k \in Task /\ task' = [task EXCEPT ![t] = k]
    <3>1. task[t] \in Task
      BY <1>t
    <3>2. k \in Task
      BY <2>1, <3>1 DEF Task
    <3>3. task' = [task EXCEPT ![t] = k]
      BY <1>t, <2>2
    <3>4. QED
      BY <3>2, <3>3
  <2> HIDE DEF k
  <2>4. task' \in [Coders -> Task]
    BY <1>t, <2>3
  <2>5. QED
    BY <1>7, <1>t, <2>4 DEF CopyContext, TypeOK
<1>8. ASSUME NEW t \in Coders, FinishActor(t) PROVE TypeOK'
  <2>1. \A end \in {"marked", "plain", "torn"} :
          [NewTask EXCEPT !.at = "done", !.diff = ExtractedDiff(t, end)] \in Task
    BY ExtractedTyped, NothingTyped DEF Task
  <2>2. \A at \in {"done", "failed"} : [NewTask EXCEPT !.at = at] \in Task
    BY NothingTyped DEF Task
  <2>3. task' \in [Coders -> Task]
    BY <1>8, <1>t, <2>1, <2>2 DEF FinishActor
  <2>4. QED
    BY <1>8, <1>t, <2>3 DEF FinishActor, TypeOK
<1>9. \A t \in Coders : /\ [task EXCEPT ![t].refused = "patch"] \in [Coders -> Task]
                        /\ \A b \in BOOLEAN : [task EXCEPT ![t].applied = b] \in [Coders -> Task]
  BY <1>t DEF Task
<1>10. ASSUME NEW t \in Coders, NEW strategy \in {"strict", "fuzz"}, CheckPatch(t, strategy)
       PROVE  TypeOK'
  <2>1. \/ Refuse(t)
        \/ /\ patch' = [step |-> "checked", of |-> {t}, strategy |-> strategy]
           /\ UNCHANGED task
    BY <1>10 DEF CheckPatch
  <2>2. /\ task' \in [Coders -> Task]
        /\ patch' \in [step : {"none", "checked", "applied"}, of : SUBSET Coders,
                       strategy : {"strict", "fuzz"}]
    BY <1>t, <1>n, <1>9, <2>1 DEF Refuse
  <2>3. QED
    BY <1>10, <1>t, <2>2 DEF CheckPatch, TypeOK
<1>11. ASSUME NEW t \in Coders, GitAccepts(t) PROVE TypeOK'
  <2>1. ws' \in Content
    <3>1. task[t].diff \in Diff
      BY <1>t DEF Task
    <3>2. QED
      BY <1>11, <1>t, <3>1, PatchTouches DEF GitAccepts
  <2>2. /\ merged' \subseteq Coders
        /\ patch' \in [step : {"none", "checked", "applied"}, of : SUBSET Coders,
                       strategy : {"strict", "fuzz"}]
    BY <1>11, <1>t DEF GitAccepts
  <2>3. QED
    BY <1>11, <1>t, <2>1, <2>2 DEF GitAccepts, TypeOK
<1>12. ASSUME NEW t \in Coders, GitRefuses(t) PROVE TypeOK'
  <2>1. ws' \in Content /\ touched' \subseteq Files
    <3>1. task[t].diff \in Diff
      BY <1>t DEF Task
    <3>2. ASSUME NEW hunks \in SUBSET TouchedBy(task[t].diff),
                 ws' = [f \in Files |-> IF f \in hunks THEN Patched(task[t].diff, ws)[f]
                                        ELSE ws[f]]
          PROVE  ws' \in Content
      <4>1. Patched(task[t].diff, ws) \in Content
        BY <1>t, <3>1, PatchTouches
      <4>2. QED
        BY <1>t, <3>2, <4>1 DEF Content
    <3>3. TouchedBy(task[t].diff) \subseteq Files
      BY DEF TouchedBy
    <3>4. QED
      BY <1>12, <1>t, <3>2, <3>3 DEF GitRefuses
  <2>2. /\ task' \in [Coders -> Task]
        /\ patch' \in [step : {"none", "checked", "applied"}, of : SUBSET Coders,
                       strategy : {"strict", "fuzz"}]
    BY <1>12, <1>n, <1>9 DEF GitRefuses, Refuse
  <2>3. QED
    BY <1>12, <1>t, <2>1, <2>2 DEF GitRefuses, TypeOK
<1>13. ASSUME NEW t \in Coders, EndPatch(t) PROVE TypeOK'
  <2>1. session' \in [at : {"none", "copied", "open"}, repo : Content, hash : Content]
    <3> DEFINE hash == [f \in Files |-> IF f \in TouchedBy(task[t].diff) THEN ws[f]
                                        ELSE session.hash[f]]
    <3>1. hash \in Content
      BY <1>t DEF Content
    <3>2. session' = session \/ session' = [session EXCEPT !.hash = hash]
      BY <1>13 DEF EndPatch
    <3> HIDE DEF hash
    <3>3. QED
      BY <1>t, <3>1, <3>2
  <2>2. task' \in [Coders -> Task]
    <3>1. (caller = "collect") \in BOOLEAN
      OBVIOUS
    <3>2. QED
      BY <1>13, <1>9, <3>1 DEF EndPatch
  <2>3. QED
    BY <1>13, <1>t, <1>n, <2>1, <2>2 DEF EndPatch, TypeOK
<1>14. CASE UNCHANGED vars
  BY <1>14, <1>t DEF vars, TypeOK
<1>15. QED
  BY <1>1, <1>2, <1>3, <1>4, <1>5, <1>6, <1>7, <1>8, <1>10, <1>11, <1>12, <1>13, <1>14
  DEF Next

-----------------------------------------------------------------------------
(***************************************************************************)
(* The edits of the user                                                   *)
(***************************************************************************)
\* It is enough to look at the workspace and at what changes in the tasks.
LEMMA KeptFrom ==
  ASSUME KeptInv, Behind(ws, ws'), NEW t \in Coders, NEW k,
         head' = head \/ head' = ws,
         session'.repo = session.repo \/ session'.repo = ws,
         saved' = saved, task \in [Coders -> Task],
         task' = [task EXCEPT ![t] = k], SafeTask(k, ws)
  PROVE  KeptInv'
<1>1. Behind(head', ws') /\ Behind(session'.repo, ws')
  BY StaysBehind DEF KeptInv
<1>2. ASSUME NEW d \in Coders PROVE SafeTask(task'[d], ws') /\ SafeTask(saved'[d], ws')
  <2>1. task'[d] = task[d] \/ task'[d] = k
    OBVIOUS
  <2>2. QED
    BY <2>1, StaysBehind DEF KeptInv
<1>3. QED
  BY <1>1, <1>2 DEF KeptInv

LEMMA KeptSame ==
  ASSUME KeptInv, Behind(ws, ws'),
         head' = head \/ head' = ws,
         session'.repo = session.repo \/ session'.repo = ws,
         task' = task, saved' = saved
  PROVE  KeptInv'
<1>1. Behind(head', ws') /\ Behind(session'.repo, ws')
  BY StaysBehind DEF KeptInv
<1>2. ASSUME NEW d \in Coders PROVE SafeTask(task'[d], ws') /\ SafeTask(saved'[d], ws')
  BY StaysBehind DEF KeptInv
<1>3. QED
  BY <1>1, <1>2 DEF KeptInv

\* A baseline is made of a commit or a snapshot and of diffs.
LEMMA BaselineKept ==
  ASSUME TypeOK, KeptInv, NEW t \in Coders, NEW content \in Content,
         Behind(content, ws), Baseline(t, content)
  PROVE  \E k : task' = [task EXCEPT ![t] = k] /\ SafeTask(k, ws)
<1>1. PICK k : Based(t, content, k)
  BY BaselineGiven
<1>2. SafeTask(task[t], ws) /\ \A d \in Coders : Behind(task[d].diff.added, ws)
  BY DEF KeptInv, SafeTask, SafeDiff
<1>3. task' = [task EXCEPT ![t] = k]
  BY <1>1 DEF Based
<1>4. Behind(k.base, ws) /\ Behind(k.tree, ws) /\ SafeDiff(k.diff, ws)
  BY <1>1, <1>2 DEF Based, SafeTask
<1>5. (k.at = "ready" => k.tree = k.base) /\ k.at # "acting"
  BY <1>1 DEF Based
<1>6. SafeTask(k, ws)
  BY <1>4, <1>5 DEF SafeTask
<1>7. QED
  BY <1>3, <1>6

\* Every step keeps what it must, and the workspace grows by the user's measure.
LEMMA KeptStep == TypeOK /\ KeptInv /\ [Next]_vars => KeptInv' /\ Behind(ws, ws')
<1> SUFFICES ASSUME TypeOK, KeptInv, [Next]_vars PROVE KeptInv' /\ Behind(ws, ws')
  OBVIOUS
<1>t. /\ ws \in Content /\ head \in Content
      /\ session \in [at : {"none", "copied", "open"}, repo : Content, hash : Content]
      /\ task \in [Coders -> Task] /\ saved \in [Coders -> Task]
  BY DEF TypeOK
<1>r. \A w : Behind(w, w)
  BY DEF Behind
<1>k. /\ Behind(head, ws) /\ Behind(session.repo, ws)
      /\ \A t \in Coders : SafeTask(task[t], ws) /\ SafeTask(saved[t], ws)
  BY DEF KeptInv
<1> USE DEF durable, bounds
<1>1. ASSUME NEW f \in Files, Edit(f) PROVE KeptInv' /\ Behind(ws, ws')
  <2>1. Behind(ws, ws')
    BY <1>1, <1>t DEF Edit, Behind, Content
  <2>2. QED
    BY <1>1, <2>1, KeptSame DEF Edit
<1>2. CASE Commit
  BY <1>2, <1>r, KeptSame DEF Commit
<1>3. CASE Checkpoint
  BY <1>3, <1>r, <1>k DEF Checkpoint, KeptInv
<1>4. CASE Crash
  <2>1. \A t \in Coders : SafeTask(task'[t], ws) /\ saved'[t] = task'[t]
    BY <1>4, <1>k, NothingTyped DEF Crash
  <2>2. head' = head /\ ws' = ws /\ session'.repo = Nothing
    BY <1>4 DEF Crash, NoSession
  <2>3. QED
    BY <1>k, <1>r, <2>1, <2>2, NothingTyped DEF KeptInv
<1>5. ASSUME NEW t \in Coders, SetupWorktree(t) PROVE KeptInv' /\ Behind(ws, ws')
  <2>1. CASE \E content \in {head, session.repo} : Baseline(t, content) /\ UNCHANGED session
    <3>1. PICK k : task' = [task EXCEPT ![t] = k] /\ SafeTask(k, ws)
      BY <1>t, <1>k, <2>1, BaselineKept
    <3>2. ws' = ws /\ head' = head /\ saved' = saved /\ session' = session
      BY <1>5, <2>1 DEF SetupWorktree
    <3>3. QED
      BY <1>t, <1>r, <3>1, <3>2, KeptFrom
  <2>2. CASE /\ session' = [session EXCEPT !.at = "copied", !.repo = ws]
             /\ task' = [task EXCEPT ![t].at = "copying"]
    <3> DEFINE k == [task[t] EXCEPT !.at = "copying"]
    <3>1. task' = [task EXCEPT ![t] = k]
      BY <1>t, <2>2
    <3>2. SafeTask(k, ws)
      <4>1. /\ k.at = "copying" /\ k.base = task[t].base /\ k.tree = task[t].tree
            /\ k.diff = task[t].diff
        BY <1>t DEF Task
      <4> HIDE DEF k
      <4>2. QED
        BY <1>k, <4>1 DEF SafeTask
    <3> HIDE DEF k
    <3>3. ws' = ws /\ head' = head /\ saved' = saved /\ session'.repo = ws
      BY <1>5, <1>t, <2>2 DEF SetupWorktree
    <3>4. QED
      BY <1>t, <1>r, <3>1, <3>2, <3>3, KeptFrom
  <2>3. QED
    BY <1>5, <2>1, <2>2 DEF SetupWorktree
<1>6. ASSUME NEW t \in Coders, HashSnapshot(t) PROVE KeptInv' /\ Behind(ws, ws')
  <2>1. Baseline(t, session.repo)
    BY <1>6 DEF HashSnapshot
  <2>2. PICK k : task' = [task EXCEPT ![t] = k] /\ SafeTask(k, ws)
    BY <1>t, <1>k, <2>1, BaselineKept
  <2>3. ws' = ws /\ head' = head /\ saved' = saved /\ session'.repo = session.repo
    BY <1>6, <1>t DEF HashSnapshot
  <2>4. QED
    BY <1>t, <1>r, <2>2, <2>3, KeptFrom
<1>7. ASSUME NEW t \in Coders, CopyContext(t) PROVE KeptInv' /\ Behind(ws, ws')
  <2> DEFINE tree == [f \in Files |-> IF f \in ContextFiles[t] THEN ws[f]
                                      ELSE task[t].tree[f]]
             k == [task[t] EXCEPT !.at = "acting", !.tree = tree]
  <2>1. task' = [task EXCEPT ![t] = k]
    BY <1>7, <1>t DEF CopyContext
  <2>2. SafeTask(k, ws)
    <3>1. Behind(task[t].base, ws) /\ task[t].tree = task[t].base /\ SafeDiff(task[t].diff, ws)
      BY <1>7, <1>k DEF SafeTask, CopyContext
    <3>2. Behind(tree, ws) /\ Behind(task[t].base, tree)
      BY <3>1 DEF Behind
    <3>3. /\ k.at = "acting" /\ k.base = task[t].base /\ k.tree = tree
          /\ k.diff = task[t].diff
      BY <1>t DEF Task
    <3> HIDE DEF k, tree
    <3>4. QED
      BY <3>1, <3>2, <3>3 DEF SafeTask
  <2> HIDE DEF k
  <2>3. ws' = ws /\ head' = head /\ saved' = saved /\ session' = session
    BY <1>7 DEF CopyContext
  <2>4. QED
    BY <1>t, <1>r, <2>1, <2>2, <2>3, KeptFrom
<1>8. ASSUME NEW t \in Coders, FinishActor(t) PROVE KeptInv' /\ Behind(ws, ws')
  <2>1. \A end \in {"marked", "plain", "torn"} :
          SafeTask([NewTask EXCEPT !.at = "done", !.diff = ExtractedDiff(t, end)], ws)
    <3> SUFFICES ASSUME NEW end \in {"marked", "plain", "torn"}
                 PROVE  SafeTask([NewTask EXCEPT !.at = "done",
                                                 !.diff = ExtractedDiff(t, end)], ws)
      OBVIOUS
    <3>1. task[t].at = "acting"
      BY <1>8 DEF FinishActor
    <3>2. Behind(task[t].base, task[t].tree) /\ Behind(task[t].tree, ws)
      BY <1>k, <3>1 DEF SafeTask
    <3>3. SafeDiff(ExtractedDiff(t, end), ws)
      BY <3>2, ExtractedTyped
    <3>4. QED
      BY <3>3, NothingTyped DEF SafeTask, NewTask
  <2>2. \A at \in {"done", "failed"} : SafeTask([NewTask EXCEPT !.at = at], ws)
    BY NothingTyped DEF SafeTask, NewTask
  <2>3. PICK k : task' = [task EXCEPT ![t] = k] /\ SafeTask(k, ws)
    BY <1>8, <2>1, <2>2 DEF FinishActor
  <2>4. ws' = ws /\ head' = head /\ saved' = saved /\ session' = session
    BY <1>8 DEF FinishActor
  <2>5. QED
    BY <1>t, <1>r, <2>3, <2>4, KeptFrom
\* The flags of a task do not matter here.
<1>9. ASSUME NEW t \in Coders,
             \/ task' = [task EXCEPT ![t].refused = "patch"]
             \/ task' = [task EXCEPT ![t].applied = (caller = "collect")]
      PROVE  \E k : task' = [task EXCEPT ![t] = k] /\ SafeTask(k, ws)
  <2> DEFINE refused == [task[t] EXCEPT !.refused = "patch"]
             applied == [task[t] EXCEPT !.applied = (caller = "collect")]
  <2>1. \/ task' = [task EXCEPT ![t] = refused]
        \/ task' = [task EXCEPT ![t] = applied]
    BY <1>9, <1>t
  <2>2. /\ refused.at = task[t].at /\ refused.base = task[t].base
        /\ refused.tree = task[t].tree /\ refused.diff = task[t].diff
        /\ applied.at = task[t].at /\ applied.base = task[t].base
        /\ applied.tree = task[t].tree /\ applied.diff = task[t].diff
    BY <1>t DEF Task
  <2> HIDE DEF refused, applied
  <2>3. SafeTask(refused, ws) /\ SafeTask(applied, ws)
    BY <1>k, <2>2 DEF SafeTask
  <2>4. QED
    BY <2>1, <2>3
<1>10. ASSUME NEW t \in Coders, NEW strategy \in {"strict", "fuzz"}, CheckPatch(t, strategy)
       PROVE  KeptInv' /\ Behind(ws, ws')
  <2>1. ws' = ws /\ head' = head /\ saved' = saved /\ session' = session
    BY <1>10 DEF CheckPatch
  <2>2. task' = [task EXCEPT ![t].refused = "patch"] \/ task' = task
    BY <1>10 DEF CheckPatch, Refuse
  <2>3. CASE task' = task
    BY <1>r, <2>1, <2>3, KeptSame
  <2>4. CASE task' = [task EXCEPT ![t].refused = "patch"]
    BY <1>t, <1>r, <1>9, <2>1, <2>4, KeptFrom
  <2>5. QED
    BY <2>2, <2>3, <2>4
<1>11. \A t \in Coders : task[t].diff \in Diff /\ SafeDiff(task[t].diff, ws)
  BY <1>t, <1>k DEF Task, SafeTask
<1>12. ASSUME NEW t \in Coders, GitAccepts(t) PROVE KeptInv' /\ Behind(ws, ws')
  <2>1. Behind(ws, ws')
    <3>1. ws' = [f \in Files |-> IF f \in Files THEN Patched(task[t].diff, ws)[f] ELSE ws[f]]
      BY <1>12 DEF GitAccepts, Patched
    <3>2. task[t].diff \in Diff /\ SafeDiff(task[t].diff, ws)
      BY <1>11
    <3>3. QED
      BY <3>1, <3>2, PatchKeeps
  <2>2. QED
    BY <1>12, <2>1, KeptSame DEF GitAccepts
<1>13. ASSUME NEW t \in Coders, GitRefuses(t) PROVE KeptInv' /\ Behind(ws, ws')
  <2>1. Behind(ws, ws')
    <3>1. \/ ws' = ws
          \/ \E hunks :
               ws' = [f \in Files |->
                        IF f \in hunks THEN Patched(task[t].diff, ws)[f] ELSE ws[f]]
      BY <1>13 DEF GitRefuses
    <3>2. task[t].diff \in Diff /\ SafeDiff(task[t].diff, ws)
      BY <1>11
    <3>3. QED
      BY <1>r, <3>1, <3>2, PatchKeeps
  <2>2. PICK k : task' = [task EXCEPT ![t] = k] /\ SafeTask(k, ws)
    BY <1>9, <1>13 DEF GitRefuses, Refuse
  <2>3. QED
    BY <1>13, <1>t, <2>1, <2>2, KeptFrom DEF GitRefuses
<1>14. ASSUME NEW t \in Coders, EndPatch(t) PROVE KeptInv' /\ Behind(ws, ws')
  <2>1. PICK k : task' = [task EXCEPT ![t] = k] /\ SafeTask(k, ws)
    BY <1>9, <1>14 DEF EndPatch
  <2>2. session'.repo = session.repo
    BY <1>14, <1>t DEF EndPatch
  <2>3. QED
    BY <1>14, <1>t, <1>r, <2>1, <2>2, KeptFrom DEF EndPatch
<1>15. CASE UNCHANGED vars
  BY <1>15, <1>r, KeptSame DEF vars
<1>16. QED
  BY <1>1, <1>2, <1>3, <1>4, <1>5, <1>6, <1>7, <1>8, <1>10, <1>12, <1>13, <1>14, <1>15
  DEF Next

-----------------------------------------------------------------------------
(***************************************************************************)
(* What is merged, and what the hashes are                                 *)
(***************************************************************************)
\* A task that is given its baseline keeps its diff and its flag.
LEMMA BaselineKeepsDiff ==
  ASSUME TypeOK, NEW t \in Coders, NEW content \in Content, Baseline(t, content)
  PROVE  \A d \in Coders : task'[d].diff = task[d].diff /\ task'[d].applied = task[d].applied
<1>1. PICK k : Based(t, content, k)
  BY BaselineGiven
<1>2. task \in [Coders -> Task] /\ task' = [task EXCEPT ![t] = k]
  BY <1>1 DEF Based, TypeOK
<1>3. QED
  BY <1>1, <1>2 DEF Based

LEMMA MergedStep ==
  TypeOK /\ PatchInv /\ FlagMeansMerged /\ [Next]_vars => PatchInv' /\ FlagMeansMerged'
<1> SUFFICES ASSUME TypeOK, PatchInv, FlagMeansMerged, [Next]_vars
             PROVE  PatchInv' /\ FlagMeansMerged'
  OBVIOUS
<1>t. /\ ws \in Content /\ head \in Content
      /\ session \in [at : {"none", "copied", "open"}, repo : Content, hash : Content]
      /\ task \in [Coders -> Task] /\ saved \in [Coders -> Task]
      /\ patch \in [step : {"none", "checked", "applied"}, of : SUBSET Coders,
                    strategy : {"strict", "fuzz"}]
  BY DEF TypeOK
<1>p. /\ \A a, b \in patch.of : a = b
      /\ patch.step = "applied" => patch.of \subseteq merged
  BY DEF PatchInv
<1>f. \A t \in Coders : task[t].applied \/ saved[t].applied => t \in merged
  BY DEF FlagMeansMerged
<1>n. NoPatch.step = "none" /\ NoPatch.of = {}
  BY DEF NoPatch
<1> USE DEF durable, bounds
<1>1. ASSUME NEW f \in Files, Edit(f) PROVE PatchInv' /\ FlagMeansMerged'
  BY <1>1, <1>p, <1>f DEF Edit, PatchInv, FlagMeansMerged
<1>2. CASE Commit
  BY <1>2, <1>p, <1>f DEF Commit, PatchInv, FlagMeansMerged
<1>3. CASE Checkpoint
  BY <1>3, <1>p, <1>f DEF Checkpoint, PatchInv, FlagMeansMerged
<1>4. CASE Crash
  BY <1>4, <1>n, <1>f DEF Crash, NewTask, PatchInv, FlagMeansMerged
\* The steps of an Actor.
<1>5. ASSUME patch' = patch, merged' = merged, saved' = saved,
             \A d \in Coders : task'[d].applied => task[d].applied
      PROVE  PatchInv' /\ FlagMeansMerged'
  BY <1>5, <1>p, <1>f DEF PatchInv, FlagMeansMerged
<1>6. ASSUME NEW t \in Coders, SetupWorktree(t) PROVE PatchInv' /\ FlagMeansMerged'
  <2>1. \/ \E content \in Content : Baseline(t, content)
        \/ task' = [task EXCEPT ![t].at = "copying"]
    BY <1>6, <1>t DEF SetupWorktree
  <2>2. \A d \in Coders : task'[d].applied => task[d].applied
    <3>1. CASE \E content \in Content : Baseline(t, content)
      BY <3>1, BaselineKeepsDiff
    <3>2. CASE task' = [task EXCEPT ![t].at = "copying"]
      BY <1>t, <3>2 DEF Task
    <3>3. QED
      BY <2>1, <3>1, <3>2
  <2>3. QED
    BY <1>5, <1>6, <2>2 DEF SetupWorktree
<1>7. ASSUME NEW t \in Coders, HashSnapshot(t) PROVE PatchInv' /\ FlagMeansMerged'
  <2>1. Baseline(t, session.repo) /\ session.repo \in Content
    BY <1>7, <1>t DEF HashSnapshot
  <2>2. QED
    BY <1>5, <1>7, <2>1, BaselineKeepsDiff DEF HashSnapshot
<1>8. ASSUME NEW t \in Coders, CopyContext(t) PROVE PatchInv' /\ FlagMeansMerged'
  <2>1. \A d \in Coders : task'[d].applied => task[d].applied
    BY <1>8, <1>t DEF CopyContext, Task
  <2>2. QED
    BY <1>5, <1>8, <2>1 DEF CopyContext
<1>9. ASSUME NEW t \in Coders, FinishActor(t) PROVE PatchInv' /\ FlagMeansMerged'
  <2>1. /\ \A end : ~[NewTask EXCEPT !.at = "done", !.diff = ExtractedDiff(t, end)].applied
        /\ \A at : ~[NewTask EXCEPT !.at = at].applied
    BY DEF NewTask
  <2>2. PICK k : task' = [task EXCEPT ![t] = k] /\ ~k.applied
    BY <1>9, <2>1 DEF FinishActor
  <2>3. \A d \in Coders : task'[d].applied => task[d].applied
    BY <1>t, <2>2
  <2>4. QED
    BY <1>5, <1>9, <2>3 DEF FinishActor
\* The steps of a patch.
<1>10. ASSUME NEW t \in Coders, task' = [task EXCEPT ![t].refused = "patch"] \/ task' = task
       PROVE  \A d \in Coders : task'[d].applied = task[d].applied
  BY <1>10, <1>t DEF Task
<1>11. ASSUME NEW t \in Coders, NEW strategy \in {"strict", "fuzz"}, CheckPatch(t, strategy)
       PROVE  PatchInv' /\ FlagMeansMerged'
  <2>1. \/ patch' = NoPatch
        \/ patch' = [step |-> "checked", of |-> {t}, strategy |-> strategy]
    BY <1>11 DEF CheckPatch, Refuse
  <2>2. PatchInv'
    BY <1>n, <2>1 DEF PatchInv
  <2>3. \A d \in Coders : task'[d].applied = task[d].applied
    BY <1>10, <1>11 DEF CheckPatch, Refuse
  <2>4. QED
    BY <1>11, <1>f, <2>2, <2>3 DEF CheckPatch, FlagMeansMerged
<1>12. ASSUME NEW t \in Coders, GitAccepts(t) PROVE PatchInv' /\ FlagMeansMerged'
  <2>1. patch'.of = patch.of /\ t \in patch.of /\ merged' = merged \cup {t}
    BY <1>12, <1>t DEF GitAccepts
  <2>2. PatchInv'
    BY <1>p, <2>1 DEF PatchInv
  <2>3. QED
    BY <1>12, <1>f, <2>1, <2>2 DEF GitAccepts, FlagMeansMerged
<1>13. ASSUME NEW t \in Coders, GitRefuses(t) PROVE PatchInv' /\ FlagMeansMerged'
  <2>1. patch' = NoPatch /\ \A d \in Coders : task'[d].applied = task[d].applied
    BY <1>10, <1>13 DEF GitRefuses, Refuse
  <2>2. QED
    BY <1>13, <1>f, <1>n, <2>1 DEF GitRefuses, PatchInv, FlagMeansMerged
<1>14. ASSUME NEW t \in Coders, EndPatch(t) PROVE PatchInv' /\ FlagMeansMerged'
  <2>1. t \in merged /\ merged' = merged /\ patch' = NoPatch /\ saved' = saved
    BY <1>14, <1>p DEF EndPatch
  <2>2. \A d \in Coders : d = t \/ task'[d] = task[d]
    BY <1>14, <1>t DEF EndPatch
  <2>3. QED
    BY <1>f, <1>n, <2>1, <2>2 DEF PatchInv, FlagMeansMerged
<1>15. CASE UNCHANGED vars
  BY <1>15, <1>5 DEF vars
<1>16. QED
  BY <1>1, <1>2, <1>3, <1>4, <1>6, <1>7, <1>8, <1>9, <1>11, <1>12, <1>13, <1>14, <1>15
  DEF Next

LEMMA HashStep == TypeOK /\ PatchInv /\ HashInv /\ [Next]_vars => HashInv'
<1> SUFFICES ASSUME TypeOK, PatchInv, HashInv, [Next]_vars, session'.at = "open"
             PROVE  HashInv'
  BY DEF HashInv
<1>t. /\ ws \in Content /\ head \in Content
      /\ session \in [at : {"none", "copied", "open"}, repo : Content, hash : Content]
      /\ task \in [Coders -> Task]
      /\ patch \in [step : {"none", "checked", "applied"}, of : SUBSET Coders,
                    strategy : {"strict", "fuzz"}]
  BY DEF TypeOK
<1>n. NoPatch.step = "none" /\ NoSession.at = "none"
  BY DEF NoPatch, NoSession
<1> USE DEF durable, bounds
\* Most steps: no patch is half done, and neither workspace nor hashes change.
<1>0. ASSUME patch.step # "applied", ws' = ws, session' = session, touched' = touched
      PROVE  HashInv'
  BY <1>0 DEF HashInv
<1>1. ASSUME NEW f \in Files, Edit(f) PROVE HashInv'
  <2>1. \A g \in Files : g = f \/ ws'[g] = ws[g]
    BY <1>1, <1>t DEF Edit, Content
  <2>2. QED
    BY <1>1, <2>1 DEF Edit, HashInv
<1>2. CASE Commit
  BY <1>2 DEF Commit, HashInv
<1>3. CASE Checkpoint
  BY <1>3, <1>0, <1>n DEF Checkpoint, Undisturbed
<1>4. CASE Crash
  BY <1>4, <1>n DEF Crash
<1>5. ASSUME NEW t \in Coders, SetupWorktree(t) PROVE HashInv'
  <2>1. session' = session
    BY <1>5, <1>t DEF SetupWorktree
  <2>2. QED
    BY <1>5, <1>0, <1>n, <2>1 DEF SetupWorktree, Undisturbed
<1>6. ASSUME NEW t \in Coders, HashSnapshot(t) PROVE HashInv'
  <2>1. session'.hash = ws /\ ws' = ws
    BY <1>6, <1>t DEF HashSnapshot
  <2>2. QED
    BY <2>1 DEF HashInv
<1>7. ASSUME NEW t \in Coders, CopyContext(t) PROVE HashInv'
  BY <1>7, <1>0, <1>n DEF CopyContext, Undisturbed
<1>8. ASSUME NEW t \in Coders, FinishActor(t) PROVE HashInv'
  BY <1>8, <1>0, <1>n DEF FinishActor, Undisturbed
<1>9. ASSUME NEW t \in Coders, NEW strategy \in {"strict", "fuzz"}, CheckPatch(t, strategy)
      PROVE  HashInv'
  BY <1>9, <1>0, <1>n DEF CheckPatch, MayApply, Undisturbed
<1>10. ASSUME NEW t \in Coders, GitAccepts(t) PROVE HashInv'
  <2>1. \A f \in Files \ TouchedBy(task[t].diff) : ws'[f] = ws[f]
    <3>1. task[t].diff \in Diff
      BY <1>t DEF Task
    <3>2. QED
      BY <1>10, <1>t, <3>1, PatchTouches DEF GitAccepts
  <2>2. patch.step # "applied" /\ patch'.step = "applied" /\ patch'.of = patch.of
    BY <1>10, <1>t DEF GitAccepts
  <2>3. t \in patch'.of /\ task' = task /\ session' = session /\ touched' = touched
    BY <1>10, <2>2 DEF GitAccepts
  <2>4. QED
    BY <2>1, <2>2, <2>3 DEF HashInv
<1>11. ASSUME NEW t \in Coders, GitRefuses(t) PROVE HashInv'
  <2>1. patch.step # "applied" /\ session' = session
    BY <1>11 DEF GitRefuses
  <2>2. touched \subseteq touched' /\ \A f \in Files : ws'[f] = ws[f] \/ f \in touched'
    BY <1>11 DEF GitRefuses
  <2>3. QED
    BY <2>1, <2>2 DEF HashInv
<1>12. ASSUME NEW t \in Coders, EndPatch(t) PROVE HashInv'
  <2> DEFINE done == TouchedBy(task[t].diff)
  <2>1. /\ ws' = ws /\ touched' = touched \ done /\ session.at = "open"
        /\ session'.hash = [f \in Files |-> IF f \in done THEN ws[f] ELSE session.hash[f]]
    BY <1>12, <1>t, <1>n DEF EndPatch
  <2>2. \A f \in Files : ws[f] # session.hash[f] => f \in touched \/ f \in done
    BY <1>12, <2>1 DEF EndPatch, HashInv, PatchInv
  <2> HIDE DEF done
  <2>3. QED
    BY <2>1, <2>2 DEF HashInv
<1>13. CASE UNCHANGED vars
  BY <1>13 DEF vars, HashInv
<1>14. QED
  BY <1>1, <1>2, <1>3, <1>4, <1>5, <1>6, <1>7, <1>8, <1>9, <1>10, <1>11, <1>12, <1>13
  DEF Next

-----------------------------------------------------------------------------
(***************************************************************************)
(* The invariant and what follows from it                                  *)
(***************************************************************************)
LEMMA InitInv == Init => Inv
<1> SUFFICES ASSUME Init PROVE Inv
  OBVIOUS
<1>1. TypeOK
  BY InitType
<1>2. KeptInv
  BY NothingTyped DEF Init, KeptInv, NoSession
<1>3. PatchInv /\ HashInv
  BY DEF Init, PatchInv, HashInv, NoPatch, NoSession
<1>4. FlagMeansMerged
  BY DEF Init, FlagMeansMerged, NewTask
<1>5. QED
  BY <1>1, <1>2, <1>3, <1>4 DEF Inv

LEMMA InvStep == Inv /\ [Next]_vars => Inv'
BY TypeStep, KeptStep, MergedStep, HashStep DEF Inv

LEMMA SpecInv == Spec => []Inv
<1>1. Init => Inv
  BY InitInv
<1>2. Inv /\ [Next]_vars => Inv'
  BY InvStep
<1>3. QED
  BY <1>1, <1>2, PTL DEF Spec

\* Workspace, worktrees, diffs and the patch in progress stay what git_utils.py
\* and worktree.py take them for.
THEOREM WorkspaceTypeCorrect == Spec => []TypeOK
<1>1. Inv => TypeOK
  BY DEF Inv
<1>2. QED
  BY <1>1, SpecInv, PTL

\* shadow_patch_conflicts refuses a patch only for a file somebody else changed
\* after it was hashed, whatever the program has merged in between.
THEOREM ConflictsAreChanges == Spec => []ConflictMeansChange
<1>1. Inv => ConflictMeansChange
  <2> SUFFICES ASSUME HashInv, patch = NoPatch, NEW t \in Coders, Conflicts(task[t].diff)
               PROVE  TouchedBy(task[t].diff) \cap touched # {}
    BY DEF Inv, ConflictMeansChange
  <2>1. PICK f \in TouchedBy(task[t].diff) : ws[f] # session.hash[f]
    BY DEF Conflicts
  <2>2. session.at = "open" /\ patch.step = "none" /\ f \in Files
    BY DEF Conflicts, NoPatch, TouchedBy
  <2>3. f \in touched
    BY <2>1, <2>2 DEF HashInv
  <2>4. QED
    BY <2>1, <2>3
<1>2. QED
  BY <1>1, SpecInv, PTL

\* patch_applied is set only for a patch that was applied as a whole, and a
\* death loses flags but invents none.
THEOREM FlagsMeanMerged == Spec => []FlagMeansMerged
<1>1. Inv => FlagMeansMerged
  BY DEF Inv
<1>2. QED
  BY <1>1, SpecInv, PTL

\* No snapshot, baseline, context copy or partial patch takes an edit of the
\* user out of the workspace.
THEOREM UserEditsAlwaysKept == Spec => UserEditsKept
<1>1. Inv /\ [Next]_vars => [\A f \in Files : ws[f] \cap UserEdits \subseteq ws'[f]]_vars
  BY KeptStep DEF Inv, Behind
<1>2. QED
  BY <1>1, SpecInv, PTL DEF Spec, UserEditsKept
=============================================================================
