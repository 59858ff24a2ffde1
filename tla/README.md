# simple_coding_agent: a TLA+ verification project

`simple_coding_agent` (`sca`) runs a coding task as a durable *Run*. A LangGraph
control plane assesses the task, compiles an execution policy, asks a human where
the risk is high, plans and delegates to *Actors* (Scout, Coder, Verifier) that
work in disposable Git worktrees, merges their diffs, verifies, and commits. A
Run survives its process: its aggregate lives in a SQLite row, its program
counter in a LangGraph checkpoint.

This directory models that program in TLA+. The modules are translated from the
source; `PROJECT.json` names, for every definition, the lines it stands for.

## 1. Inventory

| part (source) | state | operations | what is hard |
|---|---|---|---|
| Orchestrator (`core/orchestration/adapter.py`, `graph_builder.py`, `core/application/workflow.py`) | graph state, event queue, invocation guard | 13 nodes and their routes, approval interrupt, new Run, resume, failure and cancellation handlers | two durable stores written at different times; resume from any point |
| Assessment (`core/execution/assessment.py`) | none | intent, risk, complexity and strategy from the terms of a request and the workspace | the workspace is looked at anew each time, the policy was made of an earlier look |
| Run lifecycle (`core/runs/models.py`, `context.py`, `core/application/run_lifecycle.py`) | status, aggregate in memory | persist, restore, install and approve a policy | a status checked in memory and written elsewhere |
| Run store (`core/adapters/sqlite/run_store.py`) | one row per Run, event log | create, load, list, save under a version, delete | several processes, saves that outlive their coroutine |
| Budget ledger (`core/execution/policy.py`) | consumption snapshot | claim, charge, reserve, release, repair, approve | shared by concurrent model loops, restored after a death |
| Task plan and task state (`core/orchestration/plan.py`, `core/runs/task_state.py`) | task tree | compile, validate, register, update | task status in memory against the graph's sets |
| Delegate tool (`core/tools/delegate.py`) | a batch in rounds | role rules, reservation, Actors, results, blocked dependents | half of the steps done when one fails or is cancelled |
| Model loop (`core/runtime/model_loop.py`, `loop_control.py`, `conversation.py`) | messages, observations, completed-call cache, anti-loop counters | model calls, tool calls, compaction, checkpoints, resume | tool effects and checkpoints are not one step |
| Actor executor (`core/actors/worktree.py`), verification (`core/verification/`) | a worktree, verification reports | set up, run, verify, repair, extract the diff, clean up | every step may fail; repairs are bounded twice |
| Apply patch and workspaces (`core/tools/apply_patch.py`, `core/git_utils.py`) | shadow baseline | provenance, conflict check, apply, refresh | user edits in between |
| Tool gateway and security (`core/tools/gateway.py`, `core/security/`, `core/adapters/openai_guardrails/`) | approval grants, guard budget and breaker | authorise, dispatch, check the result | fail closed, grants used once |
| MCP client and managed runtime (`core/mcp/`) | sessions, circuit, install lock | start, call, degrade, shut down, install, remove | partial starts, deaths under a lock file |
| State lifecycle (`core/lifecycle.py`, `core/paths.py`) | rows, artifacts, reports | garbage collection, deletion of a Run | Runs resumed while they are collected |
| CLI, web (`cli/`, `web/`) | session | run, resume, approve, delete, report | one session, several invocations |

How they interact: the CLI builds a Planner and an Orchestrator over one
`RunContext`. Graph nodes call the Planner's model loop or the delegate tool;
both charge the same ledger and change the same task state. The delegate tool
runs each Actor as an execution in a worktree, with a model loop, a tool provider
and a SecurityManager of its own; every tool call of any loop goes through the
gateway. The diffs of Coders come back through apply patch, called by the graph's
collection node or by the Planner. Every durable write goes through
`RunContext.persist_checkpoint`, which checks the status transition against the
record in memory and saves the aggregate under `version = ?`. LangGraph writes
its own checkpoints in the background. Cancellation reaches the process at any
`await`.

What each part owes is listed in section 4 and, under "hazards" in
`PROJECT.json`, with the line where each danger bites and the properties that
would show it.

## 2. Modules

| module | models | state and actions |
|---|---|---|
| `BudgetLedger` | `RunBudgetLedger` and the loops that use it | `snapshot` is `_snapshot`; `loop[c]` says where each model loop stands between claiming a call and charging it; one action per ledger method, plus checkpoint and restart |
| `RunStore` | the SQLite row and the processes that save it | `row`; per process the `record` it holds, the UPDATE it waits for and the `orphans`, UPDATEs of cancelled `to_thread` calls; `Save`, `Acknowledge` and `Conflict` are the three ends of `persist_checkpoint` |
| `RunLifecycle` | what a durable Run promises | abstract: status, approval, plan, finished Actors |
| `Assessment` | `TaskAssessor`, the policy table, `compile_task_plan` | no variables: intent, risk, complexity, strategy, limits and the plan's Actors as operators over the term lists a request hits and what the workspace makes of its paths |
| `Orchestrator` | one Run, of any strategy, under the LangGraph control plane | `store` (RunStore row) and `checkpoint` (graph checkpoint) are durable, `run` and `thread` their copies in memory; one action per node handler, `Return` merges a handler's update and follows the edge, `WriteCheckpoint` is LangGraph's background write; cancellation, exceptions, deaths, resumes and the answers to the prompt surround it |
| `LoopControl` | `RuntimeLoopControl` | no variables: the state of one runtime as a record (`Fresh`), one operator per question the loop asks before a call (`Consider` asks them in the code's order) and per thing it remembers after it |
| `ModelLoop` | one model/tool loop, of the Planner or of an Actor, over its turns, repairs and resumptions | `messages` is `ctx.messages`, `held` the list object `RunLifecycleService` was given and `shared` whether the two are still one; `stored` is the checkpoint in RunStore; `batch` what is left of the last answer. One action per await of `_run_stream_loop`, per outcome of a tool call, and `StartTurn`, `StartActor`, `Resume`, `Cancel`, `Die` |
| `ActorExecutor` | one Actor task in its worktree | `actor[t]` is the execution: the await it waits at, the version of its content, the last version its gates passed, repairs tried and failures seen; `repairs` and the wall time are shared. One action per await and outcome |
| `Delegate` | the delegate tool, the task state it records in, the Planner's `update_state` | `tree` is the task tree, `ledger` the Actor part of the ledger, `call` the call in progress; checks, reservation, rounds, results, blocked dependents, refunds, interruption |
| `Workspace` | the user's files, the shadow session, the Coders' baselines and diffs, apply patch | `ws` and `head` are the files and the commit, `session` the shadow copy with its hashes, `task[t]` what is known of a Coder and `saved` what a checkpoint kept; the user is an actor of its own |
| `McpClient` | the tool provider of each Actor | phases of `start`, routing table, sessions, circuit, shutdown |
| `ToolGateway` | the gateway, the SecurityManager, guards and grants | `call[a]` is the call of an Actor at its next await; `guard` the outside guard's budget and breaker, `grants` the unused grants |
| `ManagedRuntime` | `sca mcp install, repair, uninstall` | the entries of the root, versions, pointer, staging directories and lock file; per process where it is in its command |
| `Retention` | the state directory, `sca gc`, `sca runs delete` | rows, reports and artifacts with the day of their change; a deletion and a collection, one file or row a step |
| `MC*` | instances for TLC | model values, bounds, symmetry |
| `*Proofs` | theorems of BudgetLedger, RunStore, Orchestrator, ModelLoop, Delegate, ToolGateway (and ManagedRuntime), Retention, Workspace | see section 5 |

How they are composed: `Orchestrator` EXTENDS `Assessment` and refines
`RunLifecycle` (`KeepsLifecycle`): its status is the row's and an Actor is
finished once its task was done in any process. `Delegate` EXTENDS
`ActorExecutor`: its rounds start executions, which interleave at their awaits.
`ToolGateway` EXTENDS `McpClient`: a call is dispatched by the provider as it is
by then. `ModelLoop` EXTENDS `LoopControl`. `BudgetLedger`, `RunStore`,
`Delegate` and `Workspace` take out of the Orchestrator what it abstracts: in it
the ledger is only slots and start attempts, a save is one step, an Actor is its
outcome and a patch applies or does not.

Definitions marked *Fault* are plausible bugs (a dropped guard, a missing reset, a
swapped order). No action uses them; each one, put in the place of the
definition it follows, makes the property it is meant for fail.

## 3. Bounds

* `BudgetLedger`: a Planner and two Coders of one role, so that releases can hit
  each other's slot; every limit is 0 to 4, so that all of them are reached by a
  few steps; two processes (`MaxSegments`), because a second restart starts from
  a checkpoint of the same shape as the first. The two Coders are symmetric. Four
  calls with answers of two tokens come to 8 where the check before each call is
  missing, past the bound of 7 (a budget of one, three loops).
* `RunStore`: two processes and three facts, hence three saves besides the
  pauses of cancellations. A conflict needs two saves; a late one a third.
  Processes and facts are symmetric.
* `Orchestrator`: four kinds of request (a question, a change, a migration that
  needs approval, a broad rewrite), which between them reach every strategy the
  assessor chooses; a workspace that may get a gates file between two looks.
  Three invocations and two mishaps (a cancellation, an exception or a death), so
  that one can meet the Run again after a resume. `RecursionLimit` is 20 where the
  code has 50: the longest run without refused delegations takes 17 supersteps,
  and the limit is meant to be reached by the others. The liveness run has two
  kinds of request, two invocations, one mishap and a wall clock that may run out.
* `ModelLoop`: Planner under the orchestrator, Planner run by itself, Scout and
  Coder; two turns of a session or repair turns, two steps of up to two calls,
  three calls in all with two ids (so that an id can come back), actions
  that between them reach every counter; the limits of the anti-loop policy
  and of compaction are scaled down (one read, a window of three, a compaction
  from five messages on), so that all of them are met within three calls. One
  compaction, one cancellation or death. The run behind the finding uses the
  code's numbers (8, 5, 10 and 5, 15, 10).
* `Delegate`: a chain of two Scouts, a Coder and a Verifier, and a Coder beside
  them; two calls, two Actors at once, two repairs for the Run, one kind of
  failure, slots for four Actors and five starts. Two Scouts in a chain make a
  round wait for a Scout that another one waits for; two calls let a failed task
  come back; four slots for five tasks run out, and so do five starts.
* `Workspace`: two Coders, the second on the first, two files, one of which both
  change; one edit or commit of the user at any point and one death; a repository
  or a plain directory, patches by the graph or by the Planner.
* `ToolGateway`: one Actor, since Actors share neither provider, guard nor grants
  and the same fingerprint comes back with its second call; every security mode (off, local,
  hybrid, strict) and every mode of the provider; two servers that share a name
  with each other and with a local tool, four tools; the breaker opens after one
  failure where the code waits for three, the outside guard has two calls and two
  failures, and two grants are given.
* `ManagedRuntime`: two processes, two builds of `sca`, three commands and two
  faults: a lock left behind by one command, taken away by the user during a
  second, found by a third.
* `Retention`: two Runs and two days, where what is not of today is old (a retention
  of 0 days, which `sca gc` allows); limits of one Run and one artifact; two
  commands, so that a workspace that is gone is marked by one and removed by the
  next; three mishaps, so that the removal breaks off and the workspace comes back
  to Runs that lack their reports. A collection takes less than a day.
* `CHECK_DEADLOCK FALSE` where a system may stop: a completed or deleted Run, or a
  spent bound, has no next step. The ledger's instance has no such state and
  keeps the check.

## 4. What the runs check

Each run answers one question; its invariants and properties are stated beside
their definitions. Type invariants are defined in every module with variables;
no run spends itself on them: most are proved (section 5), the others were checked
while the modules were written.

* **ledger**: whatever the order of claims, charges, failures, repairs, releases
  and restarts, no hard limit is exceeded and slots and roles stay matched
  (`HardLimits`), and no model call precedes approval (`NoCallBeforeApproval`).
  Two limits are *not* hard in this code, and the model says by how much they give:
  tokens by one response of each loop (`TokenOvershootBounded`), failed tool calls
  by one per start of a loop and two per process for the Planner
  (`FailedCallsBounded`).
* **run_store**: an acknowledged checkpoint is never lost
  (`AcknowledgedSavesKept`), a record at the row's version is true
  (`CurrentRecordIsTrue`), every UPDATE under way fits or misses
  (`UpdatesFitTheRow`), the row moves only along the durable transitions
  (`DurableStepsLegal`), with two processes, late saves, crashes and deletion.
* **orchestrator_dag**: a Run of any strategy. Work only after a durable yes
  (`WorkNeedsDurableApproval`); each node is a stage the workflow admits
  (`WorkflowAdmitsNode`); completed means that every Actor finished and the last
  diff is in the workspace (`CompletedMeansDone`); an invocation of a living process
  leaves the Run running only where the very save that was to settle it failed, and
  then with a checkpoint a resume goes on from (`IdleRunIsSettled`); and the
  refinement (`KeepsLifecycle`).
* **orchestrator_live**: every invocation ends (`InvocationsEnd`), also when the
  ledger refuses Actors for good: schedule, execute and collect then go round
  until the recursion limit. Its safety half is stated apart, because it can be
  proved (`InvocationAdvances`): every step of an invocation uses something up
  (`InvocationRunsOut`), and an Actor that is to be executed exists and is in the
  tree, although a resume takes the graph's position from one store and the tree
  from the other (`InvocationGoesOn`).
* **model_loop**: whenever the model is asked, every tool call before is followed
  by its observation, and what RunStore holds can always be made so
  (`EveryCallAnswered`); a saved observation is in the saved cache
  (`SavedObservationsCached`), so a resumption never repeats a call whose result
  was saved (`NoReplay`); reads before the first change or delegation are bounded
  (`ExplorationBounded`), and no call is let through three times in a window
  (`NoThirdRepetition`). `EveryCallAnswered` leaves out, through the history
  variable `spoiled`, a conversation in which a fatal result or the ledger gave up
  the rest of an answer: `run_stream` goes on to the model after such a batch when
  it was resumed, and the rest has no observation then (see the hazard at
  `model_loop.py:323`). It also leaves out conversations a compaction made
  unrecognisable (section 6).
* **delegate**: between the last passing gates of a done Coder and its diff nothing
  but these gates themselves, which are arbitrary commands, edits its worktree
  (`GatesHaveLastWord`); repairs keep both bounds although executions claim them at
  once (`RepairsBounded`); no execution ends past its clean-up, and one that is
  done has tried its teardown (`CleanUpNeverSkipped`: a teardown may fail with
  nothing but a log line, and what a failed set-up made is not known to it, so that
  nothing is said of the disk); in a scouted strategy nobody works before a Scout
  completed, except behind a blocked task (`ScoutsFirst`); a call that returns has
  settled its batch (`ReturnSettlesBatch`); an Actor that worked keeps its slot
  through refunds and retries (`WorkKeepsItsSlot`); nothing changes what an
  Actor finished (`ResultsStand`); and a call ends (`CallsEnd`), because it
  always advances (`CallAdvances`): no step gives a task of it work back
  (`CallRunsOut`: rounds, repairs, failures and interrupts only take steps away)
  and it never stands with nothing at work and nothing to do (`CallGoesOn`).
* **workspace**: a conflict is refused only where somebody else changed a file
  (`ConflictMeansChange`), a diff counts as applied only if it was, also after a
  death between patch, flag and checkpoint (`FlagMeansMerged`), and no edit of the
  user disappears (`UserEditsKept`).
* **tools**: what is offered a provider still serves (`OfferedToolsAreServed`), a
  grant runs one tool (`GrantsUsedOnce`), and strict mode fails closed, as does
  every doubt of a guard without a grant (`GuardedBeforeRun`).
* **runtime**: one process at a time under the lock (`OneAtATime`), what the
  status shows as healthy is a whole installation (`ShownRuntimeIsWhole`), files
  of somebody else in the root stay (`ForeignFilesStay`).
* **retention**: a Run that is listed has the report it wrote
  (`RowsKeepTheirReports`), and a collection nobody stepped into collects what a
  dead deletion left (`LeftoversCollected`). `RowsKeepTheirReports` excepts the
  removal of a whole orphaned directory: `rmtree` takes its entries in any order, so
  a report may go before `runs.db`. Where that removal broke off, its Runs (`torn`)
  may be listed without their reports until they write new ones, should the
  workspace come back; TLC reaches such states.

Two runs state what the documentation says and the code does not do; TLC shows
the steps (`PROJECT.json`, "findings"):

1. **second_turn**: the history of a session is taken for a resumption, so that a
   later request the Planner handles alone never reaches the model.
2. **dependent_baseline**: `extract_diff` strips the diff (`git_utils.py:289`), so
   one that ends in a context line lost its newline; it is written to a file as it
   is for a dependent Actor, git refuses it, and that Actor fails before it starts.

### Fairness

`InvocationsEnd` assumes weak fairness of the handlers, of the work of Planner and
Actors and of the graph engine; `CallsEnd` of the rounds of a call and of each
execution. The event loop runs whatever is ready, and work ends because its
steps, calls and wall time are bounded and each await on a process or a model has
a timeout. Nothing is assumed of checkpoint writes, deaths, cancellations,
exceptions, the user, or of anyone resuming. No other run assumes fairness.

## 5. What is proved

TLAPS proves, for every value of the constants that satisfies the assumption
named in each module (limits are naturals, sets of Actors, tasks or servers
finite, dependencies acyclic):

* `BudgetLedgerProofs`: `LedgerTypeCorrect`, `LedgerWithinLimits`,
  `LedgerFailsClosed`, `LedgerTokensBounded`,
  `LedgerFailuresBounded`. The limits are
  not inductive alone: a restart brings back the saved snapshot, so each
  invariant is strengthened to say the same of the checkpoint (`LimitsInv`,
  `ApprovalInv`). The token bound needs the calls in flight: consumed tokens plus
  one response for each loop still calling never exceed limit plus one response
  per loop (`TokenInv`), because a claim needs a total below the limit; it is an
  argument over the cardinality of the set of calling loops. Failed calls are counted
  the same way: a loop that is going is a chance to pass the limit once (a Planner
  that works off its checkpoint, twice), every chance was paid by a process or a
  start, and one that was taken is gone (`FailedInv`).
* `RunStoreProofs`: `RunStoreTypeCorrect`, `AcknowledgedSavesNeverLost`,
  `CurrentRecordsTrue`, `UpdatesAlwaysFit`, `DurableStepsAreLegal`, for any
  processes and any number of saves. The invariant says what a version stands
  for: a record with the row's version has its status and all its facts, no
  record or UPDATE is ahead by more than one, and an UPDATE that would match is a
  legal successor of the row.
* `OrchestratorProofs`: `OrchestratorTypeCorrect`, `WorkAlwaysApproved`,
  `NodesAlwaysAdmitted`, `IdleRunsAlwaysSettled`, `CompletedAlwaysMeansDone`,
  `InvocationsAdvance` (from `InvocationsRunOut` and `InvocationsGoOn`) and the refinement `LifecycleKept`, for any
  request, workspace, recursion limit and any number of invocations and mishaps. The invariant `OrchInv` has one part per
  question the two stores raise. `Agree`: between its writes a process has the
  aggregate the row has. `ControlInv` and `StageInv`: where a process may stand,
  and that the program counters in memory and checkpoint are at a stage their next
  node may follow; admission is then read off the edges. `PolicyInv`: a graph state
  never knows more of policy and approval than the aggregate that was saved before
  it, which makes an approval durable before the work. `StatusInv`: which
  statuses the row may have at which point, so that every way out of an
  invocation finds a legal transition, and that a Run left running by a save that
  failed (`unsettled`) has a checkpoint to go on from. `WorkInv`: what a graph state credits is done
  in the tree, what the tree has done some Actor finished after those it depends
  on, and what is owed a patch is not yet marked; it holds of memory, row and
  checkpoint apart, because a resume mixes a newer one with an older one.
  `CompletedMeansDone` follows at END. `InvocationsRunOut` needs `CountInv` (no
  handler runs at the recursion limit) and a measure: four for every superstep that
  is left, up to three for where this one stands, and less than a step of these for a
  checkpoint to write and the wall time. `InvocationsGoOn` needs `RootInv`: a graph
  state past the plan, in memory, in the checkpoint or about to be returned, goes
  with a tree that has every planned task, in memory and in the row.
* `ModelLoopProofs`: `LoopTypeCorrect`, `CallsAlwaysAnswered`,
  `SavedObservationsAlwaysCached`, `NothingReplayed`, `ExplorationAlwaysBounded`,
  `NeverThreeTimes`, for any role, answers of the model, limits, turns, compactions,
  cancellations and deaths. None is inductive: each relates three lists that are
  written at different awaits, the runtime's messages, the list the persisting
  service holds (an old one after a compaction) and the one in RunStore.
  `AnswerInv` says which calls may be open where a loop stands: none while it talks
  to the model, those of the last answer in a batch, which is exactly what is left
  of them, and in the store only ones a resumption can take up. `HeadInv` keeps the
  system prompt first, so that a compaction never drops it. `CacheInv`: what is
  observed in any of the lists is in the cache that goes with it, and the cache of a
  running loop knows all the stored one does; a replay would be a call that is in it.
  `WindowInv` ties the window of recent actions to the end of the calls let through,
  and `AllowanceInv` the counters of exploration to the number of early reads; both
  are arguments over finite sets, since the counters forget what was counted. The
  lemmas under them say what `Pending`, `Compressed`, `LastDropped`, `Max` and `Min`
  return.
* `DelegateProofs`: `DelegateTypeCorrect`, `GatesAlwaysHaveLastWord`,
  `RepairsStayBounded`, `CleanUpIsNeverSkipped`, `ScoutsGoFirst`,
  `ReturnsSettled`, `ResultsAlwaysStand`, `WorkAlwaysKeepsItsSlot`, `CallsAdvance`
  (from `CallsRunOut` and `CallsGoOn`), for any tasks, roles, acyclic dependencies, limits and number of calls. `SoundInv` says of each
  execution that repairs are paid for by new failures and that nothing comes
  between the last passing report and the diff; `WorkInv` and `RecordInv` relate
  executions to the records of the call that started them; `BatchInv` says that
  every task of a batch is settled or still in it and that the order of roles is
  kept by what works, waits and remains (a round that has nothing ready blocks
  what remains; acyclicity says it then waits for a task that failed); `SlotInv`
  counts tasks that worked, work or wait against the slots of a role. `CallsRunOut`
  takes a measure of each task apart (`StepsLeft`), so that no sum over tasks is
  needed: none ever grows, and one shrinks with every step. `TellInv` says that what
  an execution brings back has an end the call records.
* `ToolGatewayProofs`: `GatewayTypeCorrect`, `OfferedToolsAlwaysServed`,
  `AlwaysGuardedBeforeRun`, `GrantsAreUsedOnce`, for any Actors, servers, rules and answers. `ServedInv` says
  what the routing table holds in each phase of a start; `GuardInv` what a call has
  passed at each of its awaits; `GrantInv` counts, for each fingerprint, tools run,
  the grant unused and the one a call holds against those given.
  Of `ManagedRuntime`, in the same module, `RuntimeTypeCorrect`,
  `RuntimeOneAtATime`, `RuntimeShownIsWhole` and `RuntimeSparesForeignFiles`, for any
  processes and builds.
  `LockInv` says whose lock it is at each step; `ForeignInv` that nobody gets past
  the ownership check in a foreign root; `WholeInv` that only a removal leaves a
  version in part.
* `RetentionProofs`: `RetentionTypeCorrect`, `ListedRunsKeepReports`, for any Runs,
  limits and days, with the exception of a removal of the whole directory named in
  section 4 (`RemovalCovers`: it goes on, or marks every row it leaves). Needed for
  it: whatever is past deleting a row has no row left
  to betray (`DeleteInv`, `CollectInv`), and a Run started after a collection read
  its list reported today, if at all (`ListedInv`).

* `WorkspaceProofs`: `WorkspaceTypeCorrect`, `ConflictsAreChanges`,
  `FlagsMeanMerged`, `UserEditsAlwaysKept`, for any files, Coders, dependencies,
  scopes, edits and deaths; the ids of Coders are assumed not to be edits of the
  user. Needed: `KeptInv`, that whatever a Coder is given or makes (commit, snapshot,
  baseline, worktree, diff, also the checkpointed one) holds no edit of the user the
  workspace lacks, and that its diff takes none away, because a context copy only
  ever replaces a file by a newer one; `HashInv`, that a file differs from its
  hash only if another hand changed it or it belongs to the patch just applied;
  `PatchInv`, that there is one patch at a time.

Only model-checked: `InvocationsEnd`, `CallsEnd` and `LeftoversCollected`. They are
liveness properties, and liveness under fairness is out of the prover's reach, as is
what `ENABLED` is about. Of the first two the halves without fairness are proved: a
measure that every step of an invocation or a call makes smaller, and that neither
comes to stand where its code would have nothing to do. Every safety property of a
passing run has a theorem.
The modules with theorems use no RECURSIVE operator; what a recursive function
computes for every input (induction over data) is not proved.

## 6. What the models show of the code besides

Met while modelling, with no run of their own; the models follow the code.

* Orchestrator. Resuming a waiting Run without an answer fails it, and with one
  later it asks for failed -> paused, which is illegal (ADR 0007:103). A finished
  Actor is in no durable store until a later node saves; after a death it runs
  again (ADR 0007:66). A cancellation between END and the completed status pauses a
  Run whose graph is committed. A cancellation that meets a save in its thread
  conflicts with it (`adapter.py:1014`), and the failure handler's own save may raise
  (`adapter.py:957`): the Run then stays running in the store, which
  `IdleRunIsSettled` excepts by the history variable `unsettled`.
  `final_report.md` may be that of an earlier Run.
* Delegate. The dependents of a blocked task start after all
  (`delegate.py:393`; ADR 0007:42). An interrupted Actor keeps its reservation
  (`delegate.py:331`, `:465`; architecture.md:385). What a passing gate itself
  writes into the worktree is exported with the diff, though no report is about it
  (`git_utils.py:293`, `worktree.py:516`). A Coder whose own loop fails has seen no
  gate, and its diff is exported all the same: only a verification error keeps it
  back (`worktree.py:514`; README.md:337, architecture.md:248).
* Model loop. After a compaction the loop saves the conversation as it was before
  (`model_loop.py:62`; architecture.md:385). A compacted conversation may hold no
  user message and is then not recognised as resumed (`adapter.py:488`).
* Tools. In hybrid mode an outage of the outside guard stops tools that need no
  approval otherwise (overview.md:44). The outside guard's budget, said to be the
  Run's (README.md:171), is each Actor's. A Verifier has `CREATE_FILE`, which
  tool-gateway.md does not give it. A grant's fingerprint includes the risk the
  guards found, so that a grant may miss the call it was given for; no production
  code gives any.
* Managed runtime. An installation that finds an older healthy version keeps it; a
  repair refuses a root without ownership mark that a failed npm left
  (README.md:220).
* State lifecycle. gc decides by a list it read at its start and deletes by id alone:
  a failed Run resumed after it was listed loses its row under a running process
  (README.md:395). The orphan mark of a workspace that came back is
  never cleared (`lifecycle.py:126`). Artifacts of a half-deleted Run go by the
  size limit alone, which looks at no status.
* Assessment. The strategy `scout_then_coder` has a policy and a plan and is never
  chosen.

## 7. Not modelled

The texts behind the choices: term lists of the assessor, patterns of the local
guard, redaction, prompts, reports, configuration and the web pages. Tools that
read, search and write files, the sandbox backends, the LLM transport, A2A
messages and the evals: computation or I/O behind one call, which the modules
model as a call that works, fails or raises. The event log is append-only and
never read by a decision; the audit events are left out of the Orchestrator, and
in the gateway only whether one could be written matters. In ModelLoop a call
whose arguments do not parse is not told apart from one that fails; how many
tokens a conversation has is open, so that a compaction may come before any model
call; a save is one step with the change before it, since only cancellation and
death can come between (the races of saves are RunStore's). In Workspace the
orphaned worktrees of dead processes and the fallbacks between git commands are
left out. In Retention a dry run and the copy of the newest report are. Components
marked "partly" in `PROJECT.json` say what is missing.

## 8. Plan

Done: all modules of section 2 and the proofs of section 5.

Left, in this order:

1. The rest of the partly modelled components: the comparison of a stored plan with
   a compiled one, orphaned worktrees, calls whose arguments do not parse.
2. `Orchestrator` with `Delegate` in the place of its abstract Actors, if an
   instance small enough to check is found.
