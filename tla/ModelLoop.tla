----------------------------- MODULE ModelLoop -----------------------------
(***************************************************************************)
(* One model/tool loop (core/runtime/model_loop.py) with its conversation  *)
(* (conversation.py), its anti-loop policy (module LoopControl), the root  *)
(* checkpoints it writes, and the two ways it is started again: the next   *)
(* turn of an interactive session or a repair turn, and the resumption of  *)
(* a Run that was cancelled or whose process died.                         *)
(*                                                                         *)
(* Abstractions: a message keeps its role, its tool calls and what a       *)
(* summary is about; token counts, so that compaction may happen before    *)
(* any model call; the ledger's and the guards' answers, each of which may *)
(* be a refusal (module BudgetLedger has the ledger).  A checkpoint is     *)
(* written in one step with the change before it, since nothing but        *)
(* cancellation and death can come between; version conflicts are the      *)
(* subject of module RunStore.                                             *)
(***************************************************************************)
EXTENDS LoopControl, FiniteSets, FiniteSetsExt, Functions

CONSTANTS
  LoopRoles,         \* whose loop this may be
  CallIds,           \* identifiers the provider gives to tool calls
  Actions,           \* actions the model may ask for
  Requests,          \* user requests, in the order of the session
  MaxSteps,          \* max_steps of the loop
  MaxBatch,          \* tool calls in one answer
  KeepRecent,        \* user messages a compaction keeps
  LongConversation,  \* length from which a compaction may drop without them
  KeptTail,          \*   and the length of the tail it then keeps
  MaxRuns,           \* bounds of the model: turns or repair turns,
  MaxCalls,          \*   tool calls asked for in all,
  MaxCompactions,    \*   compactions,
  MaxStops,          \*   deaths and cancellations,
  MayRefuse          \*   and whether ledger and guards may refuse

ASSUME ModelLoopAssumption ==
  /\ LoopRoles \subseteq Roles
  /\ Actions \subseteq [tool : Tools, file : Files \cup {"none"}]
  /\ IsFiniteSet(CallIds)
  /\ Requests \in Seq(Range(Requests)) \ {<<>>}
  /\ MaxRuns <= Len(Requests)
  /\ {MaxSteps, MaxBatch, KeepRecent} \subseteq Nat \ {0}
  /\ {LongConversation, KeptTail, MaxRuns, MaxCalls, MaxCompactions,
      MaxStops} \subseteq Nat
  /\ KeptTail < LongConversation
  /\ MayRefuse \in BOOLEAN

VARIABLES
  role,        \* whose loop this is
  pc,          \* where the loop stands, "idle" between two invocations
  messages,    \* ctx.messages
  held,        \* the list RunLifecycleService was constructed with,
  shared,      \*   which ctx.messages is, until a compaction rebinds it
  batch,       \* tool calls of the last answer still to be processed
  completed,   \* completed_tool_calls: call id to success
  stored,      \* RunStore: the conversation and completed calls last saved
  control,     \* the anti-loop state of this runtime
  steps,       \* step_count
  stopped,     \* _terminal_budget_error
  resumed,     \* the invocation was started with resume
  outcome,     \* how the last invocation ended
  trace,       \* history: the calls this runtime let through, with the result
  spoiled,     \* history: calls of an answer were given up unanswered
  used         \* bounds: runs, calls, compactions and stops so far

conversation == <<messages, held, shared>>
runtime == <<control, steps, stopped, resumed>>
history == <<trace, spoiled, used>>
vars == <<role, pc, conversation, batch, completed, stored, runtime, outcome,
          history>>

(***************************************************************************)
(* Messages                                                                *)
(***************************************************************************)
User(r) == [role |-> "user", request |-> r]
System(about) == [role |-> "system", about |-> about]
Assistant(calls) == [role |-> "assistant", calls |-> calls]
Observation(id) == [role |-> "tool", id |-> id]

Calls == [id : CallIds, action : Actions]

Batches ==
  {b \in UNION {[1..n -> Calls] : n \in 1..MaxBatch} :
     \A i, j \in DOMAIN b : i # j => b[i].id # b[j].id}

IsUser(m) == m.role = "user"
IsAssistant(m) == m.role = "assistant"

Users(ms) == {i \in DOMAIN ms : IsUser(ms[i])}
Assistants(ms) == {i \in DOMAIN ms : IsAssistant(ms[i])}

Observed(ms, from) ==
  {ms[i].id : i \in {j \in from..Len(ms) : ms[j].role = "tool"}}

\* What of the conversation is about a request: itself or a summary of it.
Speaks(m, r) ==
  \/ IsUser(m) /\ m.request = r
  \/ m.role = "system" /\ r \in m.about

\* Fault: a resumed Run starts over with the model.
NothingPending(ms) == <<>>

\* _pending_tool_calls: calls of the last assistant message not yet observed.
Pending(ms) ==
  IF Assistants(ms) = {} THEN <<>>
  ELSE LET last == Max(Assistants(ms))
           calls == ms[last].calls
           open == {k \in DOMAIN calls : calls[k].id \notin Observed(ms, last + 1)}
           Open(n) == CHOOSE k \in open : Cardinality({j \in open : j <= k}) = n
       IN  [n \in 1..Cardinality(open) |-> calls[Open(n)]]

(***************************************************************************)
(* get_compressible_range: the last message a compaction drops; it drops   *)
(* from the second on, so that 1 means nothing is dropped.                 *)
(***************************************************************************)
LastDropped(ms) ==
  LET users == Users(ms)
      kept == {i \in users : Cardinality({j \in users : j >= i}) <= KeepRecent}
      early == Assistants(ms) \cap 3..(Len(ms) + 1 - KeptTail)
      answers == {i \in early : ms[i].calls = <<>>}
  IN  IF Cardinality(users) > KeepRecent THEN Min(kept) - 1
      ELSE IF Len(ms) <= LongConversation \/ early = {} THEN 1
      ELSE Max(IF answers # {} THEN answers ELSE early) - 1

\* compress; the summary may fail, and then speaks of nothing it replaces.
Compressed(ms, summarised) ==
  LET dropped == SubSeq(ms, 2, LastDropped(ms))
      about == {r \in Range(Requests) :
                  \E i \in DOMAIN dropped : Speaks(dropped[i], r)}
  IN  <<ms[1], System(IF summarised THEN about ELSE {})>>
        \o SubSeq(ms, LastDropped(ms) + 1, Len(ms))

(***************************************************************************)
(* Checkpoints: RunLifecycleService.persist saves the list it was given    *)
(***************************************************************************)
IsRoot == ~IsActor(role)

PersistRoot(completions) ==
  IF IsRoot
    THEN stored' = [messages |-> held', completed |-> completions]
    ELSE UNCHANGED stored

Say(ms) ==
  /\ messages' = messages \o ms
  /\ held' = IF shared THEN messages' ELSE held
  /\ UNCHANGED shared

\* Every way out of the loop that adds a closing message and saves it.
Close(result) ==
  /\ Say(<<Assistant(<<>>)>>)
  /\ PersistRoot(completed)
  /\ outcome' = result
  /\ pc' = "idle"
  /\ batch' = <<>>

(***************************************************************************)
(* Starting: a turn, a repair turn, a resumption                           *)
(***************************************************************************)
Request == Requests[used.runs]

\* A new ModelLoop around the messages ms.
NewRuntime(ms, done) ==
  /\ messages' = ms
  /\ held' = ms
  /\ shared' = TRUE
  /\ completed' = done
  /\ control' = Fresh
  /\ steps' = 0
  /\ stopped' = FALSE
  /\ trace' = <<>>
  /\ batch' = <<>>
  /\ outcome' = "none"
  /\ pc' = "started"
  /\ UNCHANGED role

\* _execute_planner: any user message in the conversation means resume.  Who
\* runs a Planner by itself says so.
RuntimeResume(ms) == role = "root" \/ Users(ms) # {}

\* A session's turn begins with the requests and answers of the turns before.
History ==
  [i \in 1..2 * used.runs |->
     IF i % 2 = 1 THEN User(Requests[(i + 1) \div 2]) ELSE Assistant(<<>>)]

StartTurn ==
  /\ IsRoot /\ pc = "idle" /\ outcome \in {"none", "done", "error"}
  /\ used.runs < (IF role = "planner" THEN MaxRuns ELSE 1)
  /\ used' = [used EXCEPT !.runs = @ + 1]
  /\ spoiled' = FALSE
  /\ LET ms == <<System({})>> \o History
     IN  /\ NewRuntime(ms, <<>>)
         /\ resumed' = (role = "planner" /\ RuntimeResume(ms))
         /\ stored' = [messages |-> ms, completed |-> <<>>]

\* ActorExecutor runs an Actor, and again after a failed verification, each
\* time in a new runtime on the same conversation.
StartActor ==
  /\ ~IsRoot /\ pc = "idle" /\ outcome \in {"none", "done"}
  /\ used.runs < MaxRuns
  /\ used' = [used EXCEPT !.runs = @ + 1]
  /\ NewRuntime(messages, <<>>)
  /\ resumed' = FALSE
  /\ UNCHANGED <<stored, spoiled>>

\* A cancelled or dead Run, from its checkpoint in a new process.
Resume ==
  /\ IsRoot /\ pc = "idle" /\ outcome \in {"cancelled", "dead"}
  /\ NewRuntime(stored.messages, stored.completed)
  /\ resumed' = RuntimeResume(stored.messages)
  /\ spoiled' = (spoiled \/ (~resumed' /\ Pending(stored.messages) # <<>>))
  /\ UNCHANGED <<stored, used>>

\* run_stream: the request joins the conversation unless this is a
\* resumption, which first finishes the calls left pending.
Enter ==
  /\ pc = "started"
  /\ Say(IF resumed THEN <<>> ELSE <<User(Request)>>)
  /\ PersistRoot(completed)
  /\ batch' = IF resumed THEN Pending(messages) ELSE <<>>
  /\ pc' = IF batch' # <<>> THEN "batch" ELSE "entered"
  /\ UNCHANGED <<role, completed, runtime, outcome, history>>

(***************************************************************************)
(* The loop up to the model's answer                                       *)
(***************************************************************************)
Refused == MayRefuse /\ Close("error")

\* ensure_can_execute, once.
EnterLoop ==
  /\ pc = "entered"
  /\ \/ /\ pc' = "top"
        /\ UNCHANGED <<conversation, batch, stored, outcome>>
     \/ Refused
  /\ UNCHANGED <<role, completed, runtime, history>>

NextStep ==
  /\ pc = "top"
  /\ IF steps < MaxSteps
       THEN /\ pc' = "step"
            /\ UNCHANGED <<conversation, batch, stored, outcome>>
       ELSE Close("error")
  /\ steps' = steps + 1
  /\ UNCHANGED <<role, completed, control, stopped, resumed, history>>

\* A compaction with a summary is a model call: the ledger may refuse it
\* before, and its tokens after, when the messages are already replaced.
Compact ==
  /\ pc = "step" /\ used.compactions < MaxCompactions
  /\ used' = [used EXCEPT !.compactions = @ + 1]
  /\ \/ Refused
     \/ \E summarised \in BOOLEAN :
          LET short == IF LastDropped(messages) > 1
                         THEN Compressed(messages, summarised) ELSE messages
          IN  /\ shared' = (shared /\ short = messages)
              /\ \/ /\ messages' = short
                    /\ UNCHANGED <<held, batch, outcome>>
                    /\ PersistRoot(completed)
                    /\ pc' = "ready"
                 \/ /\ MayRefuse
                    /\ messages' = Append(short, Assistant(<<>>))
                    /\ held' = IF shared' THEN messages' ELSE held
                    /\ PersistRoot(completed)
                    /\ outcome' = "error"
                    /\ pc' = "idle"
                    /\ batch' = <<>>
  /\ UNCHANGED <<role, completed, runtime, trace, spoiled>>

\* No compaction, or one that only truncates long messages and saves.
KeepMessages ==
  /\ pc = "step"
  /\ pc' = "ready"
  /\ \/ UNCHANGED stored
     \/ UNCHANGED held /\ PersistRoot(completed)
  /\ UNCHANGED <<role, conversation, batch, completed, runtime, outcome, history>>

\* claim_model_call, the guard before the model, and the call.
AskModel ==
  /\ pc = "ready"
  /\ \/ /\ pc' = "asked"
        /\ UNCHANGED <<conversation, batch, stored, outcome>>
     \/ Refused
  /\ UNCHANGED <<role, completed, runtime, history>>

\* The model fails, or its tokens exceed the budget.
ModelFails ==
  /\ pc = "asked"
  /\ Refused
  /\ UNCHANGED <<role, completed, runtime, history>>

\* A final answer, refused while a change is still missing.
FinalAnswer ==
  /\ pc = "asked"
  /\ IF MissingMutation(role, control)
       THEN /\ Say(<<System({})>>)
            /\ control' = [control EXCEPT !.blocked = @ + 1]
            /\ pc' = "top"
            /\ UNCHANGED <<batch, stored, outcome>>
       ELSE Close("done") /\ UNCHANGED control
  /\ UNCHANGED <<role, completed, steps, stopped, resumed, history>>

ToolAnswer ==
  /\ pc = "asked"
  /\ \E b \in Batches :
       /\ used.calls + Len(b) <= MaxCalls
       /\ used' = [used EXCEPT !.calls = @ + Len(b)]
       /\ Say(<<Assistant(b)>>)
       /\ batch' = b
  /\ PersistRoot(completed)
  /\ pc' = "batch"
  /\ UNCHANGED <<role, completed, runtime, outcome, trace, spoiled>>

(***************************************************************************)
(* The calls of an answer, one after the other                             *)
(***************************************************************************)
call == Head(batch)

\* _planner_tool_policy_denial
PolicyDenies(a) == role = "planner" /\ a.tool \in {"apply_patch", "delegate"}

\* Fault: the cache of completed calls is never asked.
NeverCached(c) == FALSE

\* The cache belongs to a durable root loop.
Cached(c) == IsRoot /\ c.id \in DOMAIN completed

\* Fault: a result is remembered after its checkpoint was written.
RememberNothing(id, success) == completed

\* _remember_tool_result
Remember(id, success) ==
  IF IsRoot
    THEN [i \in DOMAIN completed \cup {id} |-> IF i = id THEN success ELSE completed[i]]
    ELSE completed

\* Where a finished batch leads: a resumed loop goes on to the model whatever
\* became of the calls that were pending.
AfterBatch ==
  IF resumed /\ steps = 0 THEN "entered" ELSE IF stopped' THEN "idle" ELSE "top"

\* The observation is added, remembered and saved; then a fatal result ends
\* the batch, and so does the ledger when it refuses one failed call more.
Finish(result) ==
  LET seen == messages \o <<Observation(call.id)>>
      saved == IF shared THEN seen ELSE held
      success == result \in {"ok", "unchanged"}
      stop == seen \o <<Assistant(<<>>)>>
      list(ms) == IF shared THEN ms ELSE held
  IN  /\ completed' = Remember(call.id, success)
      /\ UNCHANGED <<role, shared, steps, resumed>>
      /\ \/ /\ result # "fatal"
            /\ UNCHANGED <<stopped, spoiled>>
            /\ messages' = seen /\ held' = saved
            /\ PersistRoot(completed')
            /\ batch' = Tail(batch)
            /\ pc' = IF Len(batch) > 1 THEN "batch" ELSE AfterBatch
            /\ outcome' = IF pc' = "idle" THEN "error" ELSE outcome
         \/ /\ result = "fatal" \/ (~success /\ MayRefuse)
            /\ messages' = stop /\ held' = list(stop)
            /\ IF IsRoot
                 THEN stored' = [messages |-> list(IF result = "fatal" THEN seen
                                                                 ELSE stop),
                                 completed |-> completed']
                 ELSE UNCHANGED stored
            /\ stopped' = TRUE /\ spoiled' = TRUE
            /\ batch' = <<>>
            /\ pc' = AfterBatch
            /\ outcome' = IF pc' = "idle" THEN "error" ELSE outcome

Considered == Consider(role, control, call.action)

\* Denied, answered from the cache, or answered by an intervention.
AnswerInstead ==
  /\ pc = "batch"
  /\ \/ /\ PolicyDenies(call.action)
        /\ Finish("fail")
        /\ UNCHANGED control
     \/ /\ ~PolicyDenies(call.action) /\ Cached(call)
        /\ Finish(IF completed[call.id] THEN "ok" ELSE "fail")
        /\ UNCHANGED control
     \/ /\ ~PolicyDenies(call.action) /\ ~Cached(call)
        /\ Considered.verdict # "run"
        /\ Finish(Considered.verdict)
        /\ control' = Considered.control
  /\ UNCHANGED <<trace, used>>

\* The gateway does not know the tool, or does not authorize the call.
GatewayDenies ==
  /\ pc = "batch"
  /\ ~PolicyDenies(call.action) /\ ~Cached(call)
  /\ Considered.verdict = "run"
  /\ call.action.tool \in Available[role] => MayRefuse
  /\ control' = Considered.control
  /\ trace' = Append(trace, [call |-> call, result |-> "denied"])
  /\ Finish("fail")
  /\ UNCHANGED used

\* The gateway dispatches the call: from here on its effect may be there.
Dispatch ==
  /\ pc = "batch"
  /\ ~PolicyDenies(call.action) /\ ~Cached(call)
  /\ Considered.verdict = "run"
  /\ call.action.tool \in Available[role]
  /\ control' = Considered.control
  /\ trace' = Append(trace, [call |-> call, result |-> "started"])
  /\ pc' = "running"
  /\ UNCHANGED <<role, conversation, batch, completed, stored, steps, stopped,
                 resumed, outcome, spoiled, used>>

ToolReturns ==
  /\ pc = "running"
  /\ \E result \in {"ok", "fail", "fatal"} \cup
                   (IF call.action.tool = "apply_patch" THEN {"unchanged"} ELSE {}) :
       /\ control' = RecordToolResult(control, call.action, result)
       /\ trace' = [trace EXCEPT ![Len(trace)].result = result]
       /\ Finish(result)
  /\ UNCHANGED used

(***************************************************************************)
(* Cancellation and death                                                  *)
(***************************************************************************)
\* A cancellation or an unforeseen exception: the loop saves its list and ends;
\* the orchestrator, where there is one, then saves the conversation as it is.
Cancel ==
  /\ pc # "idle" /\ used.stops < MaxStops
  /\ used' = [used EXCEPT !.stops = @ + 1]
  /\ IF IsRoot
       THEN stored' = [messages |-> IF role = "planner" THEN messages ELSE held,
                       completed |-> completed]
       ELSE UNCHANGED stored
  /\ pc' = "idle" /\ batch' = <<>>
  /\ outcome' = IF IsRoot THEN "cancelled" ELSE "lost"
  /\ UNCHANGED <<role, conversation, completed, runtime, trace, spoiled>>

\* The process dies; what it had not saved is gone.
Die ==
  /\ IsRoot /\ pc # "idle" /\ used.stops < MaxStops
  /\ used' = [used EXCEPT !.stops = @ + 1]
  /\ pc' = "idle" /\ batch' = <<>>
  /\ messages' = <<>> /\ held' = <<>> /\ completed' = <<>>
  /\ outcome' = "dead"
  /\ UNCHANGED <<role, shared, stored, runtime, trace, spoiled>>

Init ==
  /\ role \in LoopRoles
  /\ pc = "idle" /\ outcome = "none"
  /\ messages = IF IsRoot THEN <<>> ELSE <<System({}), User(Requests[1])>>
  /\ held = <<>> /\ shared = FALSE
  /\ batch = <<>> /\ completed = <<>>
  /\ stored = [messages |-> <<>>, completed |-> <<>>]
  /\ control = Fresh /\ steps = 0 /\ stopped = FALSE /\ resumed = FALSE
  /\ trace = <<>> /\ spoiled = FALSE
  /\ used = [runs |-> 0, calls |-> 0, compactions |-> 0, stops |-> 0]

Next ==
  \/ StartTurn \/ StartActor \/ Resume \/ Enter \/ EnterLoop \/ NextStep
  \/ Compact \/ KeepMessages \/ AskModel \/ ModelFails \/ FinalAnswer
  \/ ToolAnswer \/ AnswerInstead \/ GatewayDenies \/ Dispatch \/ ToolReturns
  \/ Cancel \/ Die

Spec == Init /\ [][Next]_vars

(***************************************************************************)
(* Properties                                                              *)
(***************************************************************************)
Outcomes == {"none", "done", "error", "cancelled", "dead", "lost"}

Messages ==
  [role : {"user"}, request : Range(Requests)]
    \cup [role : {"system"}, about : SUBSET Range(Requests)]
    \cup [role : {"assistant"}, calls : {<<>>} \cup Batches]
    \cup [role : {"tool"}, id : CallIds]

Completions == UNION {[d -> BOOLEAN] : d \in SUBSET CallIds}

\* The types of the loop's state; in particular a batch only ever holds what
\* is left of one answer, and the locks count no further than their limits.
TypeOK ==
  /\ role \in LoopRoles
  /\ pc \in {"idle", "started", "entered", "top", "step", "ready", "asked",
             "batch", "running"}
  /\ messages \in Seq(Messages) /\ held \in Seq(Messages)
  /\ shared \in BOOLEAN /\ stopped \in BOOLEAN /\ resumed \in BOOLEAN
  /\ spoiled \in BOOLEAN
  /\ batch \in Seq(Calls) /\ Len(batch) <= MaxBatch
  /\ pc \in {"batch", "running"} => batch # <<>>
  /\ completed \in Completions
  /\ stored \in [messages : Seq(Messages), completed : Completions]
  /\ control \in
       [recent : Seq(Actions), outlines : [Files -> 0..2],
        explored : 0..ActorExplorationLimit, actorLocked : BOOLEAN,
        planned : 0..PlannerExplorationLimit, plannerLocked : BOOLEAN,
        delegated : BOOLEAN, mutated : BOOLEAN, blocked : 0..2]
  /\ steps \in 0..(MaxSteps + 1)
  /\ outcome \in Outcomes
  /\ trace \in Seq([call : Calls, result : {"denied", "started", "ok", "unchanged",
                                           "fail", "fatal"}])
  /\ used \in [runs : 0..Len(Requests), calls : 0..MaxCalls,
               compactions : 0..MaxCompactions, stops : 0..MaxStops]

\* The calls of every assistant message before the n-th are observed before
\* the next message that is not an observation.
AnsweredBefore(ms, n) ==
  \A i \in Assistants(ms) : i < n =>
    \A k \in DOMAIN ms[i].calls :
      \E j \in (i + 1)..Len(ms) :
        /\ ms[j].role = "tool" /\ ms[j].id = ms[i].calls[k].id
        /\ \A h \in i + 1..j : ms[h].role = "tool"

\* Whenever the model is asked, every tool call in the conversation is
\* followed by its observation, as the chat API demands; and the conversation
\* in RunStore is always one a resumption can make so, with open calls in the
\* last answer alone ("checkpoints only complete message boundaries").
\* Compaction, cancellation, death and resumption come in between; left out is
\* a Run that gave up in the middle of an answer, after a fatal result or a
\* refusal of the ledger, or one whose compaction dropped every user message,
\* which a resumption takes for a new Run (adapter.py:488).
EveryCallAnswered ==
  ~spoiled =>
    /\ pc = "asked" => AnsweredBefore(messages, Len(messages) + 1)
    /\ IsRoot /\ Assistants(stored.messages) # {} =>
         AnsweredBefore(stored.messages, Max(Assistants(stored.messages)))

\* An observation a checkpoint holds is in the completed-call cache of the
\* same checkpoint, so that no resumption can take its call for a new one.
SavedObservationsCached ==
  Observed(stored.messages, 1) \subseteq DOMAIN stored.completed

\* A root call whose result is in RunStore is not executed again, by this
\* process or one that resumes the Run ("Committed tool-result checkpoints
\* prevent replay of the same root tool-call ID").
NoReplay ==
  [][IsRoot /\ Len(trace') > Len(trace) =>
       trace'[Len(trace')].call.id \notin DOMAIN stored.completed]_vars

\* What a runtime reads before it changes anything (an Actor that can) or
\* delegates (the Planner of a code change) stays within its allowance.
Frees(t) ==
  t.result = "ok" /\ t.call.action.tool \in
    (IF IsActor(role) THEN MutationTools ELSE {"delegate"})

Reads(t) ==
  t.call.action.tool \in ExplorationTools \cup
    (IF IsActor(role) THEN {"run_reader"} ELSE {})

EarlyReads ==
  {i \in DOMAIN trace : Reads(trace[i]) /\ \A j \in 1..i : ~Frees(trace[j])}

ExplorationBounded ==
  /\ role \in {"coder", "verifier"} =>
       Cardinality(EarlyReads) <= ActorExplorationLimit
  /\ role = "root" => Cardinality(EarlyReads) <= PlannerExplorationLimit

\* Of any RecentActions consecutive calls a runtime lets through no three are
\* the same, across answers, refusals and interventions.
NoThirdRepetition ==
  \A i, j, k \in DOMAIN trace :
    i < j /\ j < k /\ k < i + RecentActions + 1 =>
      ~(trace[i].call.action = trace[j].call.action
          /\ trace[j].call.action = trace[k].call.action)

\* The model is asked only in a conversation that speaks of the request.
RequestReachesModel ==
  pc = "asked" => \E i \in DOMAIN messages : Speaks(messages[i], Request)
=============================================================================
