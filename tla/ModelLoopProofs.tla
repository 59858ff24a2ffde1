--------------------------- MODULE ModelLoopProofs ---------------------------
(***************************************************************************)
(* The model/tool loop of ModelLoop, for any role, answers of the model,   *)
(* limits and number of turns, compactions, cancellations and deaths:      *)
(* every conversation the model is asked in has its calls answered, what   *)
(* was run is not run again, and the anti-loop policy keeps its bounds.    *)
(*                                                                         *)
(* The invariant follows three lists: the messages of the runtime, the     *)
(* list the persisting service holds, and the one in RunStore.             *)
(***************************************************************************)
EXTENDS ModelLoop, FiniteSetTheorems, SequenceTheorems, TLAPS

\* Every call in ms is answered.
Closed(ms) == AnsweredBefore(ms, Len(ms) + 1)

\* The n-th message is an answer of the model whose first calls are observed,
\* in their order and with nothing in between; the rest of its calls.
OpenAt(ms, n) ==
  /\ n \in Assistants(ms) /\ AnsweredBefore(ms, n)
  /\ Len(ms) - n <= Len(ms[n].calls)
  /\ \A k \in 1..Len(ms) - n : ms[n + k] = Observation(ms[n].calls[k].id)

\* The calls that are still open.
Left(ms, n) == SubSeq(ms[n].calls, Len(ms) - n + 1, Len(ms[n].calls))

\* What a resumption can close.
Shaped(ms) == Closed(ms) \/ \E n \in Assistants(ms) : OpenAt(ms, n)

SystemFirst(ms) == ms # <<>> /\ ms[1].role = "system"

\* A conversation begins with its system prompt once there is one.
HeadInv ==
  /\ pc # "idle" => /\ SystemFirst(messages) /\ SystemFirst(held)
                    /\ IsRoot => SystemFirst(stored.messages)
  /\ outcome \in {"cancelled", "dead"} => SystemFirst(stored.messages)
  /\ ~IsRoot => SystemFirst(messages) /\ outcome \notin {"cancelled", "dead"}
  /\ used.runs = 0 => pc = "idle" /\ outcome = "none"
  /\ shared => held = messages

\* Where a loop stands decides which calls are open; a batch is what is left of
\* the last answer. The saved lists can always be closed.
AnswerInv ==
  ~spoiled =>
    /\ pc \in {"entered", "top", "step", "ready", "asked"} => Closed(messages)
    /\ pc \in {"batch", "running"} =>
         \E n \in Assistants(messages) :
           OpenAt(messages, n) /\ batch = Left(messages, n)
    /\ pc = "started" =>
         IF resumed THEN Shaped(messages) ELSE Closed(messages)
    /\ ~IsRoot /\ pc = "idle" /\ outcome \in {"none", "done"} => Closed(messages)
    /\ ~shared => Closed(held)
    /\ IsRoot => Shaped(stored.messages)

\* What a loop knows of completed calls.
CacheInv ==
  /\ SavedObservationsCached
  /\ IsRoot => /\ Observed(messages, 1) \cup Observed(held, 1) \subseteq DOMAIN completed
               /\ pc # "idle" => DOMAIN stored.completed \subseteq DOMAIN completed
  /\ ~IsRoot => stored = [messages |-> <<>>, completed |-> <<>>]

\* The window holds the last actions let through.
WindowInv ==
  LET recent == control.recent
  IN  /\ Len(recent) = IF Len(trace) < RecentActions THEN Len(trace) ELSE RecentActions
      /\ \A i \in 1..Len(recent) :
           recent[i] = trace[Len(trace) - Len(recent) + i].call.action
      /\ NoThirdRepetition

\* The call that runs is the last one let through.
RunningInv ==
  pc = "running" =>
    /\ call.action.tool \in Available[role]
    /\ trace # <<>> /\ trace[Len(trace)] = [call |-> call, result |-> "started"]

\* An Actor's reads before a change, a root Planner's before a delegation.
AllowanceInv ==
  /\ ExplorationBounded
  /\ role \in {"coder", "verifier"} =>
       IF control.mutated THEN \E i \in DOMAIN trace : Frees(trace[i])
       ELSE /\ Cardinality(EarlyReads) <= control.explored
            /\ control.actorLocked <=> control.explored = ActorExplorationLimit
  /\ role = "root" =>
       IF control.delegated THEN \E i \in DOMAIN trace : Frees(trace[i])
       ELSE /\ Cardinality(EarlyReads) <= control.planned
            /\ control.plannerLocked <=> control.planned = PlannerExplorationLimit

\* The types of what the conversation consists of.
ConversationOK ==
  /\ messages \in Seq(Messages) /\ held \in Seq(Messages)
  /\ shared \in BOOLEAN /\ spoiled \in BOOLEAN
  /\ batch \in Seq(Calls) /\ Len(batch) <= MaxBatch
  /\ pc \in {"batch", "running"} => batch # <<>>
  /\ completed \in Completions
  /\ stored \in [messages : Seq(Messages), completed : Completions]

ConversationInv == ConversationOK /\ HeadInv /\ AnswerInv /\ CacheInv

-----------------------------------------------------------------------------
(***************************************************************************)
(* The greatest and the least of a finite set of numbers                   *)
(***************************************************************************)
SomeSubsets(F, S) == F # {} /\ F \subseteq SUBSET S

\* A nonempty set of subsets of a finite set has a minimal member.
LEMMA SmallestSubset ==
  ASSUME NEW S, IsFiniteSet(S), NEW F, SomeSubsets(F, S)
  PROVE  \E U \in F : \A V \in F : V \subseteq U => V = U
<1> USE DEF SomeSubsets
<1>1. IsWellFoundedOn(StrictSubsetOrdering(S), SUBSET S)
  BY FS_StrictSubsetOrderingWellFounded, FS_FiniteSubsetsOfFinite
<1>2. \E U \in F : \A V \in F : <<V, U>> \notin StrictSubsetOrdering(S)
  BY <1>1, WFMin
<1>3. QED
  BY <1>2 DEF StrictSubsetOrdering

\* Max is CHOOSE; that it chooses needs a finite set with a member.
LEMMA MaxProperties ==
  ASSUME NEW S \in SUBSET Int, IsFiniteSet(S), S # {}
  PROVE  Max(S) \in S /\ \A y \in S : Max(S) >= y
<1> DEFINE above(x) == {y \in S : y > x}
           F == {above(x) : x \in S}
<1>1. PICK U \in F : \A V \in F : V \subseteq U => V = U
  <2>1. SomeSubsets(F, S)
    BY DEF SomeSubsets
  <2> HIDE DEF F
  <2>2. QED
    BY <2>1, SmallestSubset
<1>2. PICK x \in S : U = above(x)
  BY <1>1
<1>3. \A y \in S : x >= y
  <2> SUFFICES ASSUME NEW y \in S, y > x PROVE FALSE
    OBVIOUS
  <2>1. \A z \in S : z \in above(y) => z \in above(x)
    OBVIOUS
  <2>2. above(y) \subseteq above(x) /\ above(y) \in F
    BY <2>1
  <2>3. y \in above(x) /\ y \notin above(y)
    OBVIOUS
  <2> HIDE DEF above, F
  <2>4. QED
    BY <1>1, <1>2, <2>2, <2>3
<1>4. QED
  BY <1>3 DEF Max

\* The same of Min.
LEMMA MinProperties ==
  ASSUME NEW S \in SUBSET Int, IsFiniteSet(S), S # {}
  PROVE  Min(S) \in S /\ \A y \in S : Min(S) <= y
<1> DEFINE below(x) == {y \in S : y < x}
           F == {below(x) : x \in S}
<1>1. PICK U \in F : \A V \in F : V \subseteq U => V = U
  <2>1. SomeSubsets(F, S)
    BY DEF SomeSubsets
  <2> HIDE DEF F
  <2>2. QED
    BY <2>1, SmallestSubset
<1>2. PICK x \in S : U = below(x)
  BY <1>1
<1>3. \A y \in S : x <= y
  <2> SUFFICES ASSUME NEW y \in S, y < x PROVE FALSE
    OBVIOUS
  <2>1. \A z \in S : z \in below(y) => z \in below(x)
    OBVIOUS
  <2>2. below(y) \subseteq below(x) /\ below(y) \in F
    BY <2>1
  <2>3. y \in below(x) /\ y \notin below(y)
    OBVIOUS
  <2> HIDE DEF below, F
  <2>4. QED
    BY <1>1, <1>2, <2>2, <2>3
<1>4. QED
  BY <1>3 DEF Min

-----------------------------------------------------------------------------
(***************************************************************************)
(* Messages                                                                *)
(***************************************************************************)
\* What a message is.
LEMMA MessageTyped ==
  ASSUME NEW m \in Messages
  PROVE  /\ m.role \in {"user", "system", "assistant", "tool"}
         /\ m.role = "assistant" => m.calls \in Seq(Calls) /\ Len(m.calls) <= MaxBatch
                                    /\ \A i, j \in 1..Len(m.calls) :
                                         i # j => m.calls[i].id # m.calls[j].id
         /\ m.role = "tool" => m.id \in CallIds
<1>1. \A b \in Batches : /\ b \in Seq(Calls) /\ Len(b) <= MaxBatch
                         /\ \A i, j \in 1..Len(b) : i # j => b[i].id # b[j].id
  <2> SUFFICES ASSUME NEW b \in Batches
               PROVE  /\ b \in Seq(Calls) /\ Len(b) <= MaxBatch
                      /\ \A i, j \in 1..Len(b) : i # j => b[i].id # b[j].id
    OBVIOUS
  <2>1. PICK n \in 1..MaxBatch : b \in [1..n -> Calls]
    BY DEF Batches
  <2>2. \A i, j \in DOMAIN b : i # j => b[i].id # b[j].id
    BY DEF Batches
  <2>3. b \in Seq(Calls) /\ Len(b) = n /\ DOMAIN b = 1..n /\ n <= MaxBatch
    BY <2>1, ModelLoopAssumption
  <2>4. QED
    BY <2>2, <2>3
<1>2. <<>> \in Seq(Calls) /\ Len(<<>>) = 0 /\ 0 <= MaxBatch
  BY ModelLoopAssumption
<1>3. CASE m \in [role : {"assistant"}, calls : {<<>>} \cup Batches]
  <2>1. m.calls = <<>> \/ m.calls \in Batches
    BY <1>3
  <2>2. m.role = "assistant"
    BY <1>3
  <2>3. CASE m.calls = <<>>
    BY <1>2, <2>2, <2>3
  <2>4. CASE m.calls \in Batches
    BY <1>1, <2>2, <2>4
  <2>5. QED
    BY <2>1, <2>3, <2>4
<1>4. CASE m \notin [role : {"assistant"}, calls : {<<>>} \cup Batches]
  BY <1>4 DEF Messages
<1>5. QED
  BY <1>3, <1>4

\* The messages a loop makes.
LEMMA MessagesMade ==
  /\ \A i \in 1..Len(Requests) : User(Requests[i]) \in Messages
  /\ \A about \in SUBSET Range(Requests) : System(about) \in Messages
  /\ Assistant(<<>>) \in Messages
  /\ \A b \in Batches : Assistant(b) \in Messages
  /\ \A id \in CallIds : Observation(id) \in Messages
  /\ \A r : User(r).role = "user"
  /\ \A about : System(about).role = "system"
  /\ \A b : Assistant(b).role = "assistant" /\ Assistant(b).calls = b
  /\ \A id : Observation(id).role = "tool" /\ Observation(id).id = id
<1>1. \A i \in 1..Len(Requests) : Requests[i] \in Range(Requests)
  BY ModelLoopAssumption DEF Range
<1>2. QED
  BY <1>1 DEF Messages, User, System, Assistant, Observation

\* The answers in a conversation are finitely many positions.
LEMMA AssistantsFinite ==
  ASSUME NEW ms \in Seq(Messages)
  PROVE  /\ Assistants(ms) \in SUBSET (1..Len(ms)) /\ IsFiniteSet(Assistants(ms))
         /\ Users(ms) \in SUBSET (1..Len(ms)) /\ IsFiniteSet(Users(ms))
<1>1. Assistants(ms) \in SUBSET (1..Len(ms)) /\ Users(ms) \in SUBSET (1..Len(ms))
  BY DEF Assistants, Users
<1>2. IsFiniteSet(1..Len(ms))
  BY FS_Interval
<1>3. QED
  BY <1>1, <1>2, FS_Subset

-----------------------------------------------------------------------------
(***************************************************************************)
(* Conversations                                                           *)
(***************************************************************************)
LEMMA OneMore ==
  ASSUME NEW ms \in Seq(Messages), NEW m \in Messages
  PROVE  /\ ms \o <<m>> \in Seq(Messages) /\ Append(ms, m) = ms \o <<m>>
         /\ Len(ms \o <<m>>) = Len(ms) + 1
         /\ \A i \in 1..Len(ms) : (ms \o <<m>>)[i] = ms[i]
         /\ (ms \o <<m>>)[Len(ms) + 1] = m
         /\ SystemFirst(ms) => SystemFirst(ms \o <<m>>)
<1>1. /\ ms \o <<m>> \in Seq(Messages) /\ Append(ms, m) = ms \o <<m>>
      /\ Len(ms \o <<m>>) = Len(ms) + 1
      /\ \A i \in 1..Len(ms) : (ms \o <<m>>)[i] = ms[i]
      /\ (ms \o <<m>>)[Len(ms) + 1] = m
  BY AppendIsConcat
<1>2. SystemFirst(ms) => SystemFirst(ms \o <<m>>)
  BY <1>1 DEF SystemFirst
<1>3. QED
  BY <1>1, <1>2

\* What was answered stays answered in a longer conversation.
LEMMA AnsweredLonger ==
  ASSUME NEW ms \in Seq(Messages), NEW more \in Seq(Messages),
         Len(ms) <= Len(more), \A i \in 1..Len(ms) : more[i] = ms[i],
         NEW n \in 1..Len(ms) + 1, AnsweredBefore(ms, n)
  PROVE  AnsweredBefore(more, n)
<1> SUFFICES ASSUME NEW i \in Assistants(more), i < n, NEW k \in DOMAIN more[i].calls
             PROVE  \E j \in (i + 1)..Len(more) :
                      /\ more[j].role = "tool" /\ more[j].id = more[i].calls[k].id
                      /\ \A h \in i + 1..j : more[h].role = "tool"
  BY DEF AnsweredBefore
<1>1. i \in 1..Len(ms) /\ more[i] = ms[i]
  BY DEF Assistants
<1>2. i \in Assistants(ms)
  BY <1>1 DEF Assistants
<1>3. PICK j \in (i + 1)..Len(ms) :
        /\ ms[j].role = "tool" /\ ms[j].id = ms[i].calls[k].id
        /\ \A h \in i + 1..j : ms[h].role = "tool"
  BY <1>1, <1>2 DEF AnsweredBefore
<1>4. j \in (i + 1)..Len(more) /\ \A h \in i + 1..j : more[h] = ms[h]
  BY <1>1, <1>3
<1>5. QED
  BY <1>1, <1>3, <1>4

\* A conversation without open calls and one message more.
LEMMA ClosedMore ==
  ASSUME NEW ms \in Seq(Messages), Closed(ms), NEW m \in Messages
  PROVE  /\ m.role # "assistant" \/ m.calls = <<>> => Closed(ms \o <<m>>)
         /\ m.role = "assistant" =>
              OpenAt(ms \o <<m>>, Len(ms) + 1) /\ Left(ms \o <<m>>, Len(ms) + 1) = m.calls
<1> DEFINE more == ms \o <<m>>
<1>1. /\ more \in Seq(Messages) /\ Len(more) = Len(ms) + 1
      /\ \A i \in 1..Len(ms) : more[i] = ms[i]
      /\ more[Len(ms) + 1] = m
  BY OneMore
<1> HIDE DEF more
<1>2. AnsweredBefore(more, Len(ms) + 1)
  BY <1>1, AnsweredLonger DEF Closed
<1>3. ASSUME m.role # "assistant" \/ m.calls = <<>> PROVE Closed(more)
  <2> SUFFICES ASSUME NEW i \in Assistants(more), NEW k \in DOMAIN more[i].calls
               PROVE  i < Len(ms) + 1
    BY <1>1, <1>2 DEF Closed, AnsweredBefore
  <2>1. i \in 1..Len(ms) + 1 /\ more[i].role = "assistant"
    BY <1>1 DEF Assistants, IsAssistant
  <2>2. i # Len(ms) + 1
    BY <1>1, <1>3, <2>1
  <2>3. QED
    BY <2>1, <2>2
<1>4. ASSUME m.role = "assistant"
      PROVE  OpenAt(more, Len(ms) + 1) /\ Left(more, Len(ms) + 1) = m.calls
  <2>1. m.calls \in Seq(Calls)
    BY <1>4, MessageTyped
  <2>2. Len(ms) + 1 \in Assistants(more)
    BY <1>1, <1>4 DEF Assistants, IsAssistant
  <2>3. OpenAt(more, Len(ms) + 1)
    BY <1>1, <1>2, <2>1, <2>2 DEF OpenAt
  <2>4. Left(more, Len(ms) + 1) = SubSeq(m.calls, 1, Len(m.calls))
    BY <1>1 DEF Left
  <2>5. QED
    BY <2>1, <2>3, <2>4, SubSeqFull
<1>5. QED
  BY <1>3, <1>4 DEF more

\* What is known of an answer whose calls are being observed.
LEMMA OpenTyped ==
  ASSUME NEW ms \in Seq(Messages), NEW n, OpenAt(ms, n)
  PROVE  /\ n \in 1..Len(ms) /\ ms[n] \in Messages /\ ms[n].role = "assistant"
         /\ ms[n].calls \in Seq(Calls) /\ Len(ms[n].calls) <= MaxBatch
         /\ \A i, j \in 1..Len(ms[n].calls) : i # j => ms[n].calls[i].id # ms[n].calls[j].id
         /\ Left(ms, n) \in Seq(Calls) /\ Len(Left(ms, n)) = Len(ms[n].calls) - (Len(ms) - n)
         /\ \A k \in 1..Len(Left(ms, n)) : Left(ms, n)[k] = ms[n].calls[Len(ms) - n + k]
         /\ \A i \in n + 1..Len(ms) : ms[i].role = "tool"
         /\ \A i \in Assistants(ms) : i <= n
<1>1. n \in 1..Len(ms) /\ ms[n] \in Messages /\ ms[n].role = "assistant"
  BY DEF OpenAt, Assistants, IsAssistant
<1>2. /\ ms[n].calls \in Seq(Calls) /\ Len(ms[n].calls) <= MaxBatch
      /\ \A i, j \in 1..Len(ms[n].calls) : i # j => ms[n].calls[i].id # ms[n].calls[j].id
  BY <1>1, MessageTyped
<1>3. Len(ms) - n \in 0..Len(ms[n].calls)
  BY <1>1, <1>2 DEF OpenAt
<1>4. /\ Left(ms, n) \in Seq(Calls) /\ Len(Left(ms, n)) = Len(ms[n].calls) - (Len(ms) - n)
      /\ \A k \in 1..Len(Left(ms, n)) : Left(ms, n)[k] = ms[n].calls[Len(ms) - n + k]
  <2> DEFINE c == ms[n].calls
             d == Len(ms) - n
  <2>1. c \in Seq(Calls) /\ d \in 0..Len(c) /\ Left(ms, n) = SubSeq(c, d + 1, Len(c))
    BY <1>2, <1>3 DEF Left
  <2>2. \A i \in d + 1..Len(c) : c[i] \in Calls
    BY <2>1
  <2> HIDE DEF c, d
  <2>3. /\ Left(ms, n) \in Seq(Calls) /\ Len(Left(ms, n)) = Len(c) - d
        /\ \A k \in 1..Len(c) - d : Left(ms, n)[k] = c[d + k]
    BY <2>1, <2>2, SubSeqProperties
  <2>4. QED
    BY <2>3 DEF c, d
<1>5. \A i \in n + 1..Len(ms) : ms[i].role = "tool"
  <2> SUFFICES ASSUME NEW i \in n + 1..Len(ms) PROVE ms[i].role = "tool"
    OBVIOUS
  <2>1. i - n \in 1..Len(ms) - n /\ n + (i - n) = i
    BY <1>1
  <2>2. ms[i] = Observation(ms[n].calls[i - n].id)
    BY <2>1 DEF OpenAt
  <2>3. QED
    BY <2>2, MessagesMade
<1>6. \A i \in Assistants(ms) : i <= n
  BY <1>1, <1>5 DEF Assistants, IsAssistant
<1>7. QED
  BY <1>1, <1>2, <1>4, <1>5, <1>6

\* The next call is observed.
LEMMA OpenObserved ==
  ASSUME NEW ms \in Seq(Messages), NEW n, OpenAt(ms, n), Left(ms, n) # <<>>
  PROVE  LET more == ms \o <<Observation(Head(Left(ms, n)).id)>>
         IN  OpenAt(more, n) /\ Left(more, n) = Tail(Left(ms, n))
<1> DEFINE c == Head(Left(ms, n))
           m == Observation(c.id)
           more == ms \o <<m>>
<1>1. /\ n \in 1..Len(ms) /\ ms[n].role = "assistant"
      /\ ms[n].calls \in Seq(Calls)
      /\ Left(ms, n) \in Seq(Calls) /\ Len(Left(ms, n)) = Len(ms[n].calls) - (Len(ms) - n)
      /\ \A k \in 1..Len(Left(ms, n)) : Left(ms, n)[k] = ms[n].calls[Len(ms) - n + k]
  BY OpenTyped
<1>2. Len(Left(ms, n)) >= 1 /\ c \in Calls /\ c = ms[n].calls[Len(ms) - n + 1]
  BY <1>1
<1>3. m \in Messages
  BY <1>2, MessagesMade DEF Calls
<1> HIDE DEF c, m
<1>4. /\ more \in Seq(Messages) /\ Len(more) = Len(ms) + 1
      /\ \A i \in 1..Len(ms) : more[i] = ms[i]
      /\ more[Len(ms) + 1] = m
  BY <1>3, OneMore
<1> HIDE DEF more
<1>5. AnsweredBefore(more, n)
  <2>1. AnsweredBefore(ms, n) /\ n \in 1..Len(ms) + 1
    BY <1>1 DEF OpenAt
  <2>2. QED
    BY <1>4, <2>1, AnsweredLonger
<1>6. n \in Assistants(more) /\ more[n] = ms[n]
  BY <1>1, <1>4 DEF Assistants, IsAssistant
<1>12. n \in Nat /\ Len(ms) \in Nat /\ n <= Len(ms) /\ Len(more) - n = Len(ms) + 1 - n
  <2>1. n \in Nat /\ Len(ms) \in Nat /\ n <= Len(ms)
    BY <1>1
  <2>2. QED
    BY <1>4, <2>1
<1>7. \A k \in 1..Len(more) - n : more[n + k] = Observation(more[n].calls[k].id)
  <2> SUFFICES ASSUME NEW k \in 1..Len(ms) + 1 - n
               PROVE  more[n + k] = Observation(ms[n].calls[k].id)
    BY <1>6, <1>12
  <2>1. CASE k = Len(ms) + 1 - n
    BY <1>1, <1>2, <1>4, <2>1 DEF m
  <2>2. CASE k \in 1..Len(ms) - n
    <3>1. n + k \in 1..Len(ms)
      BY <1>1, <2>2
    <3>2. ms[n + k] = Observation(ms[n].calls[k].id)
      BY <2>2 DEF OpenAt
    <3>3. QED
      BY <1>4, <3>1, <3>2
  <2>3. k = Len(ms) + 1 - n \/ k \in 1..Len(ms) - n
    BY <1>12
  <2>4. QED
    BY <2>1, <2>2, <2>3
<1>8. Len(more) - n <= Len(more[n].calls)
  BY <1>1, <1>2, <1>4, <1>6
<1>9. OpenAt(more, n)
  BY <1>5, <1>6, <1>7, <1>8 DEF OpenAt
<1>10. Left(more, n) = Tail(Left(ms, n))
  <2>1. /\ Left(more, n) \in Seq(Calls)
        /\ Len(Left(more, n)) = Len(ms[n].calls) - (Len(ms) + 1 - n)
        /\ \A k \in 1..Len(Left(more, n)) : Left(more, n)[k] = ms[n].calls[Len(ms) + 1 - n + k]
    <3>1. /\ Left(more, n) \in Seq(Calls) /\ Len(Left(more, n)) = Len(more[n].calls) - (Len(more) - n)
          /\ \A k \in 1..Len(Left(more, n)) : Left(more, n)[k] = more[n].calls[Len(more) - n + k]
      BY <1>4, <1>9, OpenTyped
    <3>2. QED
      BY <1>6, <1>12, <3>1
  <2>2. /\ Tail(Left(ms, n)) \in Seq(Calls)
        /\ Len(Tail(Left(ms, n))) = Len(Left(ms, n)) - 1
        /\ \A k \in 1..Len(Left(ms, n)) - 1 : Tail(Left(ms, n))[k] = Left(ms, n)[k + 1]
    BY <1>1, HeadTailProperties
  <2>3. Len(Left(more, n)) = Len(Tail(Left(ms, n)))
    BY <1>1, <2>1, <2>2
  <2>4. \A k \in 1..Len(Left(more, n)) : Left(more, n)[k] = Tail(Left(ms, n))[k]
    BY <1>1, <2>1, <2>2
  <2>5. QED
    BY <2>1, <2>2, <2>3, <2>4, SeqEqual
<1>11. QED
  BY <1>9, <1>10 DEF more, m, c

\* The last call was observed.
LEMMA OpenClosed ==
  ASSUME NEW ms \in Seq(Messages), NEW n, OpenAt(ms, n), Left(ms, n) = <<>>
  PROVE  Closed(ms)
<1>1. /\ n \in 1..Len(ms) /\ ms[n].calls \in Seq(Calls)
      /\ Len(ms[n].calls) = Len(ms) - n
      /\ \A i \in n + 1..Len(ms) : ms[i].role = "tool"
      /\ \A i \in Assistants(ms) : i <= n
  <2>1. Len(Left(ms, n)) = 0
    OBVIOUS
  <2>2. QED
    BY <2>1, OpenTyped
<1> SUFFICES ASSUME NEW i \in Assistants(ms), NEW k \in DOMAIN ms[i].calls
             PROVE  \E j \in (i + 1)..Len(ms) :
                      /\ ms[j].role = "tool" /\ ms[j].id = ms[i].calls[k].id
                      /\ \A h \in i + 1..j : ms[h].role = "tool"
  BY DEF Closed, AnsweredBefore
<1>2. CASE i < n
  BY <1>2 DEF OpenAt, AnsweredBefore
<1>3. CASE i = n
  <2>1. k \in 1..Len(ms) - n /\ n + k \in (n + 1)..Len(ms)
    BY <1>1, <1>3
  <2>2. ms[n + k] = Observation(ms[n].calls[k].id)
    BY <2>1 DEF OpenAt
  <2>3. ms[n + k].role = "tool" /\ ms[n + k].id = ms[n].calls[k].id
    BY <2>2, MessagesMade
  <2>4. \A h \in n + 1..n + k : ms[h].role = "tool"
    BY <1>1, <2>1
  <2>5. QED
    BY <1>3, <2>1, <2>3, <2>4
<1>4. QED
  BY <1>1, <1>2, <1>3 DEF Assistants

-----------------------------------------------------------------------------
(***************************************************************************)
(* _pending_tool_calls                                                     *)
(***************************************************************************)
\* The elements of a finite set of numbers are its first, its second, ...
LEMMA RankExists ==
  ASSUME NEW S \in SUBSET Int, IsFiniteSet(S), NEW n \in 1..Cardinality(S)
  PROVE  \E k \in S : Cardinality({j \in S : j <= k}) = n
<1> DEFINE upTo(k) == {j \in S : j <= k}
           late == {k \in S : Cardinality(upTo(k)) >= n}
<1>1. \A k : IsFiniteSet(upTo(k)) /\ Cardinality(upTo(k)) \in Nat
  <2>1. \A k : upTo(k) \subseteq S
    OBVIOUS
  <2>2. \A k : IsFiniteSet(upTo(k))
    BY <2>1, FS_Subset
  <2>3. QED
    BY <2>2, FS_CardinalityType
<1>2. Cardinality(S) \in Nat /\ n \in Nat /\ n >= 1 /\ n <= Cardinality(S)
  BY FS_CardinalityType
<1>3. S # {}
  BY <1>2, FS_EmptySet
<1>4. late # {}
  <2>1. Max(S) \in S /\ \A y \in S : Max(S) >= y
    BY <1>3, MaxProperties
  <2>2. upTo(Max(S)) = S
    BY <2>1
  <2>3. QED
    BY <1>2, <2>1, <2>2
<1>5. late \in SUBSET Int /\ IsFiniteSet(late)
  BY FS_Subset
<1>6. PICK k \in late : \A y \in late : k <= y
  <2> HIDE DEF late
  <2>1. QED
    BY <1>4, <1>5, MinProperties
<1>7. SUFFICES ASSUME Cardinality(upTo(k)) # n PROVE FALSE
  BY <1>6
<1>8. Cardinality(upTo(k)) > n
  BY <1>1, <1>2, <1>6, <1>7
<1> DEFINE less == upTo(k) \ {k}
<1>9. IsFiniteSet(less) /\ Cardinality(less) = Cardinality(upTo(k)) - 1 /\ k \in upTo(k)
  <2>1. k \in upTo(k)
    BY <1>6
  <2>2. QED
    BY <1>1, <2>1, FS_RemoveElement
<1>10. Cardinality(less) >= n /\ less # {} /\ less \in SUBSET Int
  <2>1. Cardinality(less) >= n
    <3> HIDE DEF less, upTo
    <3>1. QED
      BY <1>1, <1>2, <1>8, <1>9
  <2>2. less # {}
    <3>1. Cardinality({}) = 0
      BY FS_EmptySet
    <3> HIDE DEF less
    <3>2. QED
      BY <1>2, <2>1, <3>1
  <2>3. QED
    BY <2>1, <2>2
<1>11. PICK m \in less : \A y \in less : m >= y
  <2> HIDE DEF less
  <2>1. QED
    BY <1>9, <1>10, MaxProperties
<1>12. m \in S /\ m <= k /\ m # k /\ m < k
  BY <1>6, <1>11
<1>13. upTo(m) = less
  <2>1. \A j \in S : j <= m => j <= k /\ j # k
    BY <1>6, <1>12
  <2>2. QED
    BY <1>11, <2>1
<1>14. m \in late
  BY <1>10, <1>12, <1>13
<1>15. QED
  BY <1>6, <1>12, <1>14

\* It answers calls, no more of them than an answer has.
LEMMA PendingTyped ==
  ASSUME NEW ms \in Seq(Messages)
  PROVE  Pending(ms) \in Seq(Calls) /\ Len(Pending(ms)) <= MaxBatch
<1>1. CASE Assistants(ms) = {}
  BY <1>1, ModelLoopAssumption DEF Pending
<1>2. CASE Assistants(ms) # {}
  <2> DEFINE last == Max(Assistants(ms))
             calls == ms[last].calls
             open == {k \in DOMAIN calls : calls[k].id \notin Observed(ms, last + 1)}
             Open(n) == CHOOSE k \in open : Cardinality({j \in open : j <= k}) = n
  <2>1. last \in Assistants(ms)
    <3>1. Assistants(ms) \in SUBSET Int /\ IsFiniteSet(Assistants(ms))
      BY AssistantsFinite
    <3>2. QED
      BY <1>2, <3>1, MaxProperties
  <2>2. calls \in Seq(Calls) /\ Len(calls) <= MaxBatch
    <3>1. ms[last] \in Messages /\ ms[last].role = "assistant"
      BY <2>1 DEF Assistants, IsAssistant
    <3>2. QED
      BY <3>1, MessageTyped
  <2>3. open \subseteq 1..Len(calls)
    BY <2>2
  <2>4. Pending(ms) = [n \in 1..Cardinality(open) |-> calls[Open(n)]]
    BY <1>2 DEF Pending
  <2> HIDE DEF open, calls
  <2>5. IsFiniteSet(open) /\ Cardinality(open) <= Len(calls) /\ Cardinality(open) \in Nat
    <3>1. IsFiniteSet(1..Len(calls)) /\ Cardinality(1..Len(calls)) = Len(calls)
      BY <2>2, FS_Interval
    <3>2. QED
      BY <2>3, <3>1, FS_Subset, FS_CardinalityType
  <2>6. \A n \in 1..Cardinality(open) : Open(n) \in open
    <3> SUFFICES ASSUME NEW n \in 1..Cardinality(open) PROVE Open(n) \in open
      OBVIOUS
    <3>1. open \in SUBSET Int
      BY <2>2, <2>3
    <3>2. \E k \in open : Cardinality({j \in open : j <= k}) = n
      BY <2>5, <3>1, RankExists
    <3>3. QED
      BY <3>2
  <2> HIDE DEF Open
  <2>7. \A n \in 1..Cardinality(open) : calls[Open(n)] \in Calls
    <3>1. \A i \in 1..Len(calls) : calls[i] \in Calls
      BY <2>2
    <3>2. QED
      BY <2>3, <2>6, <3>1
  <2>8. [n \in 1..Cardinality(open) |-> calls[Open(n)]] \in Seq(Calls)
    BY <2>5, <2>7
  <2>9. Len([n \in 1..Cardinality(open) |-> calls[Open(n)]]) = Cardinality(open)
    BY <2>5, <2>8
  <2>10. QED
    BY <2>2, <2>4, <2>5, <2>8, <2>9, ModelLoopAssumption
<1>3. QED
  BY <1>1, <1>2

\* It answers nothing in a conversation without open calls.
LEMMA PendingClosed ==
  ASSUME NEW ms \in Seq(Messages), Closed(ms)
  PROVE  Pending(ms) = <<>>
<1>1. CASE Assistants(ms) = {}
  BY <1>1 DEF Pending
<1>2. CASE Assistants(ms) # {}
  <2> DEFINE last == Max(Assistants(ms))
             calls == ms[last].calls
             open == {k \in DOMAIN calls : calls[k].id \notin Observed(ms, last + 1)}
             Open(n) == CHOOSE k \in open : Cardinality({j \in open : j <= k}) = n
  <2>1. last \in Assistants(ms) /\ last \in 1..Len(ms)
    <3>1. Assistants(ms) \in SUBSET Int /\ IsFiniteSet(Assistants(ms))
      BY AssistantsFinite
    <3>2. QED
      BY <1>2, <3>1, MaxProperties, AssistantsFinite
  <2>2. \A k \in DOMAIN calls : calls[k].id \in Observed(ms, last + 1)
    <3> SUFFICES ASSUME NEW k \in DOMAIN calls PROVE calls[k].id \in Observed(ms, last + 1)
      OBVIOUS
    <3>1. PICK j \in (last + 1)..Len(ms) : ms[j].role = "tool" /\ ms[j].id = calls[k].id
      BY <2>1 DEF Closed, AnsweredBefore
    <3>2. QED
      BY <3>1 DEF Observed
  <2>3. open = {}
    BY <2>2
  <2>4. Pending(ms) = [n \in 1..Cardinality(open) |-> calls[Open(n)]]
    BY <1>2 DEF Pending
  <2> HIDE DEF open, calls, Open
  <2>5. Cardinality(open) = 0
    BY <2>3, FS_EmptySet
  <2>6. QED
    BY <2>4, <2>5
<1>3. QED
  BY <1>1, <1>2

\* It answers the calls of the last answer that are left.
LEMMA PendingOpen ==
  ASSUME NEW ms \in Seq(Messages), NEW n, OpenAt(ms, n)
  PROVE  Pending(ms) = Left(ms, n)
<1>1. /\ n \in 1..Len(ms) /\ ms[n].calls \in Seq(Calls)
      /\ \A i, j \in 1..Len(ms[n].calls) : i # j => ms[n].calls[i].id # ms[n].calls[j].id
      /\ Left(ms, n) \in Seq(Calls) /\ Len(Left(ms, n)) = Len(ms[n].calls) - (Len(ms) - n)
      /\ \A k \in 1..Len(Left(ms, n)) : Left(ms, n)[k] = ms[n].calls[Len(ms) - n + k]
      /\ \A i \in n + 1..Len(ms) : ms[i].role = "tool"
      /\ \A i \in Assistants(ms) : i <= n
      /\ n \in Assistants(ms)
  BY OpenTyped DEF OpenAt
<1>2. Max(Assistants(ms)) = n
  <2>1. Assistants(ms) \in SUBSET Int /\ IsFiniteSet(Assistants(ms)) /\ Assistants(ms) # {}
    BY <1>1, AssistantsFinite
  <2>2. Max(Assistants(ms)) \in Assistants(ms) /\ Max(Assistants(ms)) >= n
    BY <1>1, <2>1, MaxProperties
  <2>3. QED
    BY <1>1, <2>1, <2>2
<1> DEFINE calls == ms[n].calls
           d == Len(ms) - n
           open == {k \in DOMAIN calls : calls[k].id \notin Observed(ms, n + 1)}
           upTo(k) == {j \in open : j <= k}
           Open(m) == CHOOSE k \in open : Cardinality(upTo(k)) = m
<1>3. d \in Nat /\ Len(calls) \in Nat /\ d <= Len(calls)
  BY <1>1 DEF OpenAt
<1>4. Observed(ms, n + 1) = {calls[k].id : k \in 1..d}
  <2>1. Observed(ms, n + 1) = {ms[i].id : i \in n + 1..Len(ms)}
    BY <1>1 DEF Observed
  <2>2. \A k \in 1..d : ms[n + k].id = calls[k].id /\ n + k \in n + 1..Len(ms)
    BY <1>1, MessagesMade DEF OpenAt
  <2>3. \A i \in n + 1..Len(ms) : i - n \in 1..d /\ n + (i - n) = i
    BY <1>1
  <2>4. \A i \in n + 1..Len(ms) : ms[i].id = calls[i - n].id /\ i - n \in 1..d
    BY <2>2, <2>3
  <2> HIDE DEF calls, d
  <2>5. QED
    BY <2>1, <2>2, <2>4
<1>5. open = d + 1..Len(calls)
  <2>1. DOMAIN calls = 1..Len(calls)
    BY <1>1
  <2>2. \A k \in 1..Len(calls) : calls[k].id \in Observed(ms, n + 1) <=> k <= d
    <3> SUFFICES ASSUME NEW k \in 1..Len(calls)
                 PROVE  calls[k].id \in Observed(ms, n + 1) <=> k <= d
      OBVIOUS
    <3>1. \A i \in 1..Len(calls) : calls[k].id = calls[i].id => k = i
      BY <1>1
    <3> HIDE DEF calls, d
    <3>2. ASSUME k <= d PROVE calls[k].id \in Observed(ms, n + 1)
      BY <1>3, <1>4, <3>2
    <3>3. ASSUME calls[k].id \in Observed(ms, n + 1) PROVE k <= d
      <4>1. PICK i \in 1..d : calls[k].id = calls[i].id
        BY <1>4, <3>3
      <4>2. k = i
        BY <1>3, <3>1, <4>1
      <4>3. QED
        BY <1>3, <4>1, <4>2
    <3>4. QED
      BY <3>2, <3>3
  <2> HIDE DEF calls, d
  <2>3. QED
    BY <1>3, <2>1, <2>2
<1>6. Pending(ms) = [m \in 1..Cardinality(open) |-> calls[Open(m)]]
  BY <1>1, <1>2 DEF Pending
<1> HIDE DEF open
<1>7. Cardinality(open) = Len(calls) - d
  <2> HIDE DEF calls, d
  <2>1. d + 1 \in Int /\ Len(calls) \in Int
    BY <1>3
  <2>2. Cardinality(d + 1..Len(calls)) = IF d + 1 > Len(calls) THEN 0 ELSE Len(calls) - (d + 1) + 1
    BY <2>1, FS_Interval
  <2>3. QED
    BY <1>3, <1>5, <2>2
<1>8. \A k \in open : Cardinality(upTo(k)) = k - d
  <2> SUFFICES ASSUME NEW k \in open PROVE Cardinality(upTo(k)) = k - d
    OBVIOUS
  <2> HIDE DEF calls, d
  <2>1. k \in Nat /\ k >= d + 1 /\ upTo(k) = d + 1..k
    BY <1>3, <1>5
  <2>2. Cardinality(d + 1..k) = k - d
    <3>1. Cardinality(d + 1..k) = IF d + 1 > k THEN 0 ELSE k - (d + 1) + 1
      BY <1>3, <2>1, FS_Interval
    <3>2. QED
      BY <1>3, <2>1, <3>1
  <2>3. QED
    BY <2>1, <2>2
<1>9. \A m \in 1..Len(calls) - d : Open(m) = d + m
  <2> HIDE DEF calls, d, upTo
  <2>1. SUFFICES ASSUME NEW m \in 1..Len(calls) - d PROVE Open(m) = d + m
    OBVIOUS
  <2>2. PICK k : k = d + m
    OBVIOUS
  <2>3. k \in open /\ k - d = m
    BY <1>3, <1>5, <2>2
  <2>4. Cardinality(upTo(k)) = m
    BY <1>8, <2>3
  <2>5. \A i \in open : Cardinality(upTo(i)) = m => i = k
    BY <1>3, <1>5, <1>8, <2>2
  <2>6. QED
    BY <2>2, <2>3, <2>4, <2>5
<1>10. Pending(ms) = [m \in 1..Len(calls) - d |-> calls[d + m]]
  <2> HIDE DEF calls, d, Open
  <2>1. QED
    BY <1>6, <1>7, <1>9
<1>11. Len(Left(ms, n)) = Len(calls) - d /\ \A m \in 1..Len(calls) - d : Left(ms, n)[m] = calls[d + m]
  BY <1>1
<1>12. Left(ms, n) = [m \in 1..Len(calls) - d |-> calls[d + m]]
  <2>1. Left(ms, n) = [m \in 1..Len(Left(ms, n)) |-> Left(ms, n)[m]]
    BY <1>1
  <2> HIDE DEF calls, d
  <2>2. QED
    BY <1>11, <2>1
<1>13. QED
  BY <1>10, <1>12

\* In a conversation a resumption can complete, every answer but the last is
\* answered.
LEMMA ShapedAnswered ==
  ASSUME NEW ms \in Seq(Messages), Shaped(ms), Assistants(ms) # {}
  PROVE  AnsweredBefore(ms, Max(Assistants(ms)))
<1>1. Assistants(ms) \in SUBSET (1..Len(ms)) /\ Max(Assistants(ms)) \in Assistants(ms)
  BY AssistantsFinite, MaxProperties
<1>2. CASE Closed(ms)
  BY <1>1, <1>2 DEF Closed, AnsweredBefore
<1>3. CASE \E n \in Assistants(ms) : OpenAt(ms, n)
  <2>1. PICK n \in Assistants(ms) : OpenAt(ms, n)
    BY <1>3
  <2>2. Max(Assistants(ms)) <= n
    BY <1>1, <2>1, OpenTyped
  <2>3. AnsweredBefore(ms, n)
    BY <2>1 DEF OpenAt
  <2>4. QED
    BY <1>1, <2>2, <2>3 DEF AnsweredBefore
<1>4. QED
  BY <1>2, <1>3 DEF Shaped

-----------------------------------------------------------------------------
(***************************************************************************)
(* What is known of a conversation's observations, and compaction          *)
(***************************************************************************)
\* The observations of ms are of calls in S.
LEMMA ObservedIn ==
  ASSUME NEW ms, NEW S
  PROVE  Observed(ms, 1) \subseteq S <=> \A i \in 1..Len(ms) : ms[i].role = "tool" => ms[i].id \in S
  BY DEF Observed

\* One message more is at most one observation more.
LEMMA ObservedMore ==
  ASSUME NEW ms \in Seq(Messages), NEW m \in Messages, NEW S, Observed(ms, 1) \subseteq S,
         m.role = "tool" => m.id \in S
  PROVE  Observed(ms \o <<m>>, 1) \subseteq S
<1> DEFINE more == ms \o <<m>>
<1>1. /\ Len(more) = Len(ms) + 1
      /\ \A i \in 1..Len(ms) : more[i] = ms[i]
      /\ more[Len(ms) + 1] = m
  BY OneMore
<1> HIDE DEF more
<1>2. \A i \in 1..Len(ms) : ms[i].role = "tool" => ms[i].id \in S
  BY ObservedIn
<1>3. \A i \in 1..Len(more) : more[i].role = "tool" => more[i].id \in S
  <2> SUFFICES ASSUME NEW i \in 1..Len(more), more[i].role = "tool" PROVE more[i].id \in S
    OBVIOUS
  <2>1. i \in 1..Len(ms) \/ i = Len(ms) + 1
    BY <1>1
  <2>2. QED
    BY <1>1, <1>2, <2>1
<1>4. QED
  BY <1>3, ObservedIn DEF more

\* A conversation whose answers call nothing has no open call.
LEMMA QuietClosed ==
  ASSUME NEW ms, \A i \in DOMAIN ms : ms[i].role = "assistant" => ms[i].calls = <<>>
  PROVE  Closed(ms)
<1>1. \A i \in Assistants(ms) : ms[i].calls = <<>>
  BY DEF Assistants, IsAssistant
<1>2. DOMAIN <<>> = {}
  OBVIOUS
<1>3. QED
  BY <1>1, <1>2 DEF Closed, AnsweredBefore

\* A compaction drops messages after the system prompt, if any.
LEMMA LastDroppedTyped ==
  ASSUME NEW ms \in Seq(Messages), SystemFirst(ms)
  PROVE  LastDropped(ms) \in 1..Len(ms)
<1> DEFINE users == Users(ms)
           kept == {i \in users : Cardinality({j \in users : j >= i}) <= KeepRecent}
           early == Assistants(ms) \cap 3..(Len(ms) + 1 - KeptTail)
           answers == {i \in early : ms[i].calls = <<>>}
<1>1. users \in SUBSET (1..Len(ms)) /\ IsFiniteSet(users) /\ early \in SUBSET (1..Len(ms))
      /\ IsFiniteSet(early) /\ IsFiniteSet(answers)
  <2>1. IsFiniteSet(users) /\ users \in SUBSET (1..Len(ms)) /\ early \in SUBSET Assistants(ms)
        /\ Assistants(ms) \in SUBSET (1..Len(ms)) /\ IsFiniteSet(Assistants(ms))
        /\ answers \in SUBSET Assistants(ms)
    BY AssistantsFinite
  <2>2. QED
    BY <2>1, FS_Subset
<1>2. Len(ms) \in Nat /\ Len(ms) >= 1 /\ ms[1].role = "system"
  BY DEF SystemFirst
<1>3. CASE Cardinality(users) > KeepRecent
  <2>1. KeepRecent \in Nat /\ KeepRecent >= 1
    BY ModelLoopAssumption
  <2>2. users # {} /\ users \in SUBSET Int
    BY <1>1, <1>3, <2>1, FS_EmptySet
  <2>3. PICK last \in users : \A i \in users : last >= i
    <3> HIDE DEF users
    <3>1. QED
      BY <1>1, <2>2, MaxProperties
  <2>4. last \in kept
    <3>1. {j \in users : j >= last} = {last}
      BY <2>2, <2>3
    <3>2. Cardinality({last}) = 1
      BY FS_Singleton
    <3>3. QED
      BY <2>1, <3>1, <3>2
  <2>5. kept \in SUBSET Int /\ kept # {} /\ kept \subseteq users /\ IsFiniteSet(kept)
    BY <1>1, <2>2, <2>4, FS_Subset
  <2>6. Min(kept) \in kept
    <3> HIDE DEF kept
    <3>1. QED
      BY <2>5, MinProperties
  <2>7. Min(kept) \in 1..Len(ms) /\ ms[Min(kept)].role = "user"
    <3>1. Min(kept) \in users
      BY <2>5, <2>6
    <3> HIDE DEF kept
    <3>2. QED
      BY <3>1 DEF Users, IsUser
  <2>8. LastDropped(ms) = Min(kept) - 1
    BY <1>3 DEF LastDropped
  <2> HIDE DEF kept
  <2>9. PICK i : i = Min(kept)
    OBVIOUS
  <2>10. i \in 1..Len(ms) /\ i # 1 /\ LastDropped(ms) = i - 1
    BY <1>2, <2>7, <2>8, <2>9
  <2>11. QED
    BY <1>2, <2>10
<1>4. CASE ~(Cardinality(users) > KeepRecent) /\ (Len(ms) <= LongConversation \/ early = {})
  <2>1. LastDropped(ms) = 1
    BY <1>4 DEF LastDropped
  <2>2. QED
    BY <1>2, <2>1
<1>5. CASE ~(Cardinality(users) > KeepRecent) /\ ~(Len(ms) <= LongConversation \/ early = {})
  <2> DEFINE from == IF answers # {} THEN answers ELSE early
  <2>1. LastDropped(ms) = Max(from) - 1
    BY <1>5 DEF LastDropped
  <2>2. from \in SUBSET Int /\ from # {} /\ from \subseteq early /\ IsFiniteSet(from)
    BY <1>1, <1>5
  <2> HIDE DEF from
  <2>3. Max(from) \in early
    BY <2>2, MaxProperties
  <2>4. PICK i : i = Max(from)
    OBVIOUS
  <2>5. i \in 1..Len(ms) /\ i >= 3 /\ LastDropped(ms) = i - 1
    <3>1. i \in 3..(Len(ms) + 1 - KeptTail) /\ i \in 1..Len(ms)
      BY <1>1, <2>3, <2>4
    <3>2. QED
      BY <2>1, <2>4, <3>1
  <2>6. QED
    BY <1>2, <2>5
<1>6. QED
  BY <1>3, <1>4, <1>5

\* A compaction replaces messages by one of the system's and leaves the others
\* as they are: no answer loses an observation it keeps a call of.
LEMMA CompressedKeeps ==
  ASSUME NEW ms \in Seq(Messages), SystemFirst(ms), NEW summarised \in BOOLEAN
  PROVE  LET short == Compressed(ms, summarised)
         IN  /\ short \in Seq(Messages) /\ SystemFirst(short)
             /\ Closed(ms) => Closed(short)
             /\ \A S : Observed(ms, 1) \subseteq S => Observed(short, 1) \subseteq S
<1> DEFINE d == LastDropped(ms)
           dropped == SubSeq(ms, 2, d)
           about == {r \in Range(Requests) : \E i \in DOMAIN dropped : Speaks(dropped[i], r)}
           note == System(IF summarised THEN about ELSE {})
           rest == SubSeq(ms, d + 1, Len(ms))
           short == Compressed(ms, summarised)
<1>1. d \in 1..Len(ms) /\ Len(ms) \in Nat
  BY LastDroppedTyped
<1>2. note \in Messages /\ note.role = "system"
  <2>1. (IF summarised THEN about ELSE {}) \in SUBSET Range(Requests)
    OBVIOUS
  <2> HIDE DEF about
  <2>2. QED
    BY <2>1, MessagesMade
<1>3. short = <<ms[1], note>> \o rest
  BY DEF Compressed
<1> HIDE DEF d, note, short
<1>4. rest \in Seq(Messages) /\ Len(rest) = Len(ms) - d
      /\ \A i \in 1..Len(ms) - d : rest[i] = ms[d + i]
  <2>1. d + 1 \in 1..Len(ms) + 1 /\ Len(ms) \in d..Len(ms)
    BY <1>1
  <2>2. \A i \in d + 1..Len(ms) : ms[i] \in Messages
    BY <1>1
  <2>3. QED
    BY <1>1, <2>2, SubSeqProperties
<1>5. ms[1] \in Messages /\ ms[1].role = "system"
  BY DEF SystemFirst
<1> HIDE DEF rest
<1>6. /\ short \in Seq(Messages) /\ Len(short) = Len(ms) - d + 2
      /\ short[1] = ms[1] /\ short[2] = note
      /\ \A i \in 3..Len(ms) - d + 2 : short[i] = ms[i + d - 2]
  <2> DEFINE two == <<ms[1], note>>
  <2>1. two \in Seq(Messages) /\ Len(two) = 2 /\ two[1] = ms[1] /\ two[2] = note
    BY <1>2, <1>5
  <2> HIDE DEF two
  <2>2. short = two \o rest
    BY <1>3 DEF two
  <2>3. /\ short \in Seq(Messages) /\ Len(short) = 2 + Len(rest)
        /\ \A i \in 1..2 + Len(rest) : short[i] = IF i <= 2 THEN two[i] ELSE rest[i - 2]
    <3>1. /\ two \o rest \in Seq(Messages) /\ Len(two \o rest) = Len(two) + Len(rest)
          /\ \A i \in 1..Len(two) + Len(rest) :
               (two \o rest)[i] = IF i <= Len(two) THEN two[i] ELSE rest[i - Len(two)]
      BY <1>4, <2>1, ConcatProperties
    <3>2. QED
      BY <2>1, <2>2, <3>1
  <2>4. short \in Seq(Messages) /\ Len(short) = Len(ms) - d + 2
    BY <1>1, <1>4, <2>3
  <2>5. short[1] = ms[1] /\ short[2] = note
    <3>1. 1 \in 1..2 + Len(rest) /\ 2 \in 1..2 + Len(rest)
      BY <1>1, <1>4
    <3>2. short[1] = two[1] /\ short[2] = two[2]
      BY <2>3, <3>1
    <3>3. QED
      BY <2>1, <3>2
  <2>6. \A i \in 3..Len(ms) - d + 2 : short[i] = ms[i + d - 2]
    <3> SUFFICES ASSUME NEW i \in 3..Len(ms) - d + 2 PROVE short[i] = ms[i + d - 2]
      OBVIOUS
    <3>1. i - 2 \in 1..Len(ms) - d /\ d + (i - 2) = i + d - 2
      BY <1>1
    <3>2. i \in 1..2 + Len(rest) /\ ~(i <= 2)
      BY <1>1, <1>4
    <3>3. QED
      BY <1>4, <2>3, <3>1, <3>2
  <2>7. QED
    BY <2>4, <2>5, <2>6
<1>7. \A i \in 1..Len(short) :
        \/ short[i].role = "system"
        \/ i >= 3 /\ i + d - 2 \in 1..Len(ms) /\ short[i] = ms[i + d - 2]
  BY <1>1, <1>2, <1>5, <1>6
<1>8. SystemFirst(short)
  BY <1>1, <1>5, <1>6 DEF SystemFirst
<1>9. ASSUME Closed(ms) PROVE Closed(short)
  <2> SUFFICES ASSUME NEW i \in Assistants(short), NEW k \in DOMAIN short[i].calls
               PROVE  \E j \in (i + 1)..Len(short) :
                        /\ short[j].role = "tool" /\ short[j].id = short[i].calls[k].id
                        /\ \A h \in i + 1..j : short[h].role = "tool"
    BY DEF Closed, AnsweredBefore
  <2> DEFINE o == i + d - 2
  <2>1. i \in 3..Len(short) /\ o \in 1..Len(ms) /\ short[i] = ms[o] /\ ms[o].role = "assistant"
    BY <1>6, <1>7 DEF Assistants, IsAssistant
  <2>2. o \in Assistants(ms)
    BY <2>1 DEF Assistants, IsAssistant
  <2>3. PICK p \in (o + 1)..Len(ms) :
          /\ ms[p].role = "tool" /\ ms[p].id = short[i].calls[k].id
          /\ \A h \in o + 1..p : ms[h].role = "tool"
    <3> HIDE DEF o
    <3>1. o < Len(ms) + 1
      BY <1>1, <2>1
    <3>2. QED
      BY <1>9, <2>1, <2>2, <3>1 DEF Closed, AnsweredBefore
  <2>4. PICK j : j = p + 2 - d
    OBVIOUS
  <2>5. j \in (i + 1)..Len(short) /\ j \in 3..Len(ms) - d + 2 /\ j + d - 2 = p
    BY <1>1, <1>6, <2>1, <2>4
  <2>6. short[j] = ms[p]
    BY <1>6, <2>5
  <2>7. \A h \in i + 1..j : short[h].role = "tool"
    <3> SUFFICES ASSUME NEW h \in i + 1..j PROVE short[h].role = "tool"
      OBVIOUS
    <3>1. h \in 3..Len(ms) - d + 2 /\ h + d - 2 \in o + 1..p
      BY <1>1, <2>1, <2>5
    <3> HIDE DEF o
    <3>2. QED
      BY <1>6, <2>3, <3>1
  <2>8. QED
    BY <2>3, <2>5, <2>6, <2>7
<1>10. ASSUME NEW S, Observed(ms, 1) \subseteq S PROVE Observed(short, 1) \subseteq S
  <2>1. \A i \in 1..Len(ms) : ms[i].role = "tool" => ms[i].id \in S
    BY <1>10, ObservedIn
  <2>2. \A i \in 1..Len(short) : short[i].role = "tool" => short[i].id \in S
    BY <1>7, <2>1
  <2>3. QED
    BY <2>2, ObservedIn
<1>11. QED
  BY <1>6, <1>8, <1>9, <1>10 DEF short

\* The conversations a loop begins with.
LEMMA Beginnings ==
  ASSUME used.runs \in Nat, used.runs <= Len(Requests)
  PROVE  /\ LET ms == <<System({})>> \o History
            IN  /\ ms \in Seq(Messages) /\ SystemFirst(ms) /\ Closed(ms)
                /\ Observed(ms, 1) = {}
         /\ LET ms == <<System({}), User(Requests[1])>>
            IN  /\ ms \in Seq(Messages) /\ SystemFirst(ms) /\ Closed(ms)
         /\ Closed(<<>>) /\ Observed(<<>>, 1) = {} /\ <<>> \in Seq(Messages)
<1>1. System({}) \in Messages /\ System({}).role = "system"
  BY MessagesMade
<1>2. LET ms == <<System({})>> \o History
      IN  ms \in Seq(Messages) /\ SystemFirst(ms) /\ Closed(ms) /\ Observed(ms, 1) = {}
  <2> DEFINE first == <<System({})>>
             ms == first \o History
  <2>1. first \in Seq(Messages) /\ Len(first) = 1 /\ first[1] = System({})
    BY <1>1
  <2>2. \A i \in 1..2 * used.runs :
          /\ History[i] \in Messages /\ History[i].role # "tool"
          /\ History[i].role = "assistant" => History[i].calls = <<>>
    <3> SUFFICES ASSUME NEW i \in 1..2 * used.runs
                 PROVE  /\ History[i] \in Messages /\ History[i].role # "tool"
                        /\ History[i].role = "assistant" => History[i].calls = <<>>
      OBVIOUS
    <3>1. CASE i % 2 = 1
      <4>1. History[i] = User(Requests[(i + 1) \div 2])
        BY <3>1 DEF History
      <4>2. (i + 1) \div 2 \in 1..Len(Requests)
        <5>1. (i + 1) \div 2 \in Int /\ 2 * ((i + 1) \div 2) <= i + 1 /\ i + 1 < 2 * ((i + 1) \div 2) + 2
          OBVIOUS
        <5>2. Len(Requests) \in Nat
          BY ModelLoopAssumption
        <5>3. QED
          BY <5>1, <5>2
      <4>3. QED
        BY <4>1, <4>2, MessagesMade
    <3>2. CASE i % 2 # 1
      <4>1. History[i] = Assistant(<<>>)
        BY <3>2 DEF History
      <4>2. QED
        BY <4>1, MessagesMade
    <3>3. QED
      BY <3>1, <3>2
  <2>3. History \in Seq(Messages) /\ Len(History) = 2 * used.runs
    <3>1. PICK n \in Nat : n = 2 * used.runs
      OBVIOUS
    <3>2. History = [i \in 1..n |-> History[i]]
      BY <3>1 DEF History
    <3>3. \A i \in 1..n : History[i] \in Messages
      BY <2>2, <3>1
    <3> HIDE DEF ms
    <3>4. [i \in 1..n |-> History[i]] \in Seq(Messages) /\ Len([i \in 1..n |-> History[i]]) = n
      BY <3>1, <3>3
    <3>5. QED
      BY <3>1, <3>2, <3>4
  <2> HIDE DEF first
  <2>4. /\ ms \in Seq(Messages) /\ Len(ms) = 1 + Len(History)
        /\ \A i \in 1..1 + Len(History) : ms[i] = IF i <= 1 THEN first[i] ELSE History[i - 1]
    <3>1. /\ ms \in Seq(Messages) /\ Len(ms) = Len(first) + Len(History)
          /\ \A i \in 1..Len(first) + Len(History) :
               ms[i] = IF i <= Len(first) THEN first[i] ELSE History[i - Len(first)]
      BY <2>1, <2>3, ConcatProperties
    <3> HIDE DEF ms
    <3>2. QED
      BY <2>1, <3>1
  <2> HIDE DEF ms
  <2>5. ms[1] = System({}) /\ \A i \in 2..Len(ms) : i - 1 \in 1..2 * used.runs /\ ms[i] = History[i - 1]
    <3>1. Len(History) \in Nat /\ Len(ms) = 1 + Len(History)
      BY <2>3, <2>4
    <3>2. 1 \in 1..1 + Len(History)
      BY <3>1
    <3>3. ms[1] = System({})
      BY <2>1, <2>4, <3>2
    <3>4. ASSUME NEW i \in 2..Len(ms)
          PROVE  i - 1 \in 1..2 * used.runs /\ ms[i] = History[i - 1]
      <4>1. i \in 1..1 + Len(History) /\ ~(i <= 1) /\ i - 1 \in 1..Len(History)
        BY <3>1
      <4>2. QED
        BY <2>3, <2>4, <4>1
    <3>5. QED
      BY <3>3, <3>4
  <2>6. \A i \in 1..Len(ms) : ms[i].role # "tool" /\ (ms[i].role = "assistant" => ms[i].calls = <<>>)
    <3> SUFFICES ASSUME NEW i \in 1..Len(ms)
                 PROVE  ms[i].role # "tool" /\ (ms[i].role = "assistant" => ms[i].calls = <<>>)
      OBVIOUS
    <3>1. CASE i = 1
      BY <1>1, <2>5, <3>1
    <3>2. CASE i # 1
      BY <2>2, <2>5, <3>2
    <3>3. QED
      BY <3>1, <3>2
  <2>7. Closed(ms) /\ Observed(ms, 1) \subseteq {}
    <3>1. DOMAIN ms = 1..Len(ms)
      BY <2>4
    <3>2. Closed(ms)
      BY <2>6, <3>1, QuietClosed
    <3>3. Observed(ms, 1) \subseteq {}
      <4>1. PICK none : none = {}
        OBVIOUS
      <4>2. \A i \in 1..Len(ms) : ms[i].role = "tool" => ms[i].id \in none
        BY <2>6
      <4>3. Observed(ms, 1) \subseteq none
        BY <4>2, ObservedIn
      <4>4. QED
        BY <4>1, <4>3
    <3>4. QED
      BY <3>2, <3>3
  <2>8. SystemFirst(ms)
    BY <1>1, <2>3, <2>4, <2>5 DEF SystemFirst
  <2>9. QED
    BY <2>4, <2>7, <2>8 DEF ms, first
<1>3. LET ms == <<System({}), User(Requests[1])>>
      IN  ms \in Seq(Messages) /\ SystemFirst(ms) /\ Closed(ms)
  <2> DEFINE ms == <<System({}), User(Requests[1])>>
  <2>1. User(Requests[1]) \in Messages /\ User(Requests[1]).role = "user"
    <3>1. 1 \in 1..Len(Requests)
      BY ModelLoopAssumption
    <3>2. QED
      BY <3>1, MessagesMade
  <2>2. ms \in Seq(Messages) /\ DOMAIN ms = {1, 2} /\ ms # <<>> /\ ms[1] = System({})
        /\ ms[2] = User(Requests[1])
    BY <1>1, <2>1
  <2> HIDE DEF ms
  <2>3. Closed(ms)
    BY <1>1, <2>1, <2>2, QuietClosed
  <2>4. SystemFirst(ms)
    BY <1>1, <2>2 DEF SystemFirst
  <2>5. QED
    BY <2>2, <2>3, <2>4 DEF ms
<1>4. Closed(<<>>) /\ Observed(<<>>, 1) = {} /\ <<>> \in Seq(Messages)
  <2>1. DOMAIN <<>> = {} /\ Len(<<>>) = 0
    OBVIOUS
  <2>2. Closed(<<>>)
    BY <2>1, QuietClosed
  <2>3. Observed(<<>>, 1) = {}
    BY <2>1 DEF Observed
  <2>4. QED
    BY <2>2, <2>3
<1>5. QED
  BY <1>2, <1>3, <1>4

-----------------------------------------------------------------------------
(***************************************************************************)
(* The anti-loop policy                                                    *)
(***************************************************************************)
\* The states of the policy.
Controls ==
  [recent : Seq(Actions), outlines : [Files -> 0..2],
   explored : 0..ActorExplorationLimit, actorLocked : BOOLEAN,
   planned : 0..PlannerExplorationLimit, plannerLocked : BOOLEAN,
   delegated : BOOLEAN, mutated : BOOLEAN, blocked : 0..2]

\* Who is not locked has reads left.
Locks(lc) ==
  /\ ~lc.actorLocked => lc.explored < ActorExplorationLimit
  /\ ~lc.plannerLocked => lc.planned < PlannerExplorationLimit

\* Only the allowances of lc and its outlines differ in k.
SamePast(lc, k) ==
  /\ k.recent = lc.recent /\ k.delegated = lc.delegated
  /\ k.mutated = lc.mutated /\ k.blocked = lc.blocked

\* A runtime starts with nothing read and nothing let through.
LEMMA FreshControl ==
  Fresh \in Controls /\ Locks(Fresh) /\ Fresh.recent = <<>>
  /\ Fresh.explored = 0 /\ ~Fresh.actorLocked /\ Fresh.planned = 0 /\ ~Fresh.plannerLocked
  /\ ~Fresh.delegated /\ ~Fresh.mutated
BY LoopControlAssumption DEF Fresh, Controls, Locks

\* What the Planner's intervention does to its allowance.
LEMMA PlannerAsked ==
  ASSUME NEW r, NEW lc \in Controls, Locks(lc), NEW a
  PROVE  LET p == AfterPlannerIntervention(r, lc, a)
         IN  /\ p \in Controls /\ Locks(p) /\ SamePast(lc, p)
             /\ p.explored = lc.explored /\ p.actorLocked = lc.actorLocked
             /\ IF PlannerCounts(r, lc, a)
                  THEN /\ p.planned = lc.planned + 1
                       /\ p.plannerLocked <=> p.planned = PlannerExplorationLimit
                  ELSE p.planned = lc.planned /\ p.plannerLocked = lc.plannerLocked
<1>1. CASE PlannerCounts(r, lc, a)
  <2>1. ~lc.plannerLocked /\ lc.planned < PlannerExplorationLimit
    BY <1>1 DEF PlannerCounts, Locks
  <2>2. lc.planned + 1 \in 0..PlannerExplorationLimit
    BY <2>1, LoopControlAssumption DEF Controls
  <2>3. PICK n \in 0..PlannerExplorationLimit, b \in BOOLEAN :
          n = lc.planned + 1 /\ b = (n = PlannerExplorationLimit)
    BY <2>2
  <2>4. PICK p : p = AfterPlannerIntervention(r, lc, a)
    OBVIOUS
  <2>5. p = [lc EXCEPT !.planned = n, !.plannerLocked = b]
    BY <1>1, <2>3, <2>4 DEF AfterPlannerIntervention, Controls
  <2>6. p \in Controls /\ SamePast(lc, p) /\ p.planned = n /\ p.plannerLocked = b
        /\ p.explored = lc.explored /\ p.actorLocked = lc.actorLocked
    BY <2>5 DEF Controls, SamePast
  <2>7. p.plannerLocked <=> n = PlannerExplorationLimit
    BY <2>3, <2>6
  <2>9. n <= PlannerExplorationLimit /\ n \in Int /\ PlannerExplorationLimit \in Int
    BY <2>3, LoopControlAssumption
  <2>10. Locks(p)
    BY <2>6, <2>7, <2>9 DEF Locks
  <2>8. QED
    BY <1>1, <2>3, <2>4, <2>6, <2>7, <2>10
<1>2. CASE ~PlannerCounts(r, lc, a)
  BY <1>2 DEF AfterPlannerIntervention, SamePast
<1>3. QED
  BY <1>1, <1>2

\* What an Actor's intervention does to its allowance.
LEMMA ActorAsked ==
  ASSUME NEW r, NEW lc \in Controls, Locks(lc), NEW a
  PROVE  LET e == AfterActorIntervention(r, lc, a)
         IN  /\ e \in Controls /\ Locks(e) /\ SamePast(lc, e)
             /\ e.planned = lc.planned /\ e.plannerLocked = lc.plannerLocked
             /\ IF ActorCounts(r, lc, a)
                  THEN /\ e.explored = lc.explored + 1
                       /\ e.actorLocked <=> e.explored = ActorExplorationLimit
                  ELSE e.explored = lc.explored /\ e.actorLocked = lc.actorLocked
<1>1. CASE ActorCounts(r, lc, a)
  <2>1. ~lc.actorLocked /\ lc.explored < ActorExplorationLimit
    BY <1>1 DEF ActorCounts, Locks
  <2>2. lc.explored + 1 \in 0..ActorExplorationLimit
    BY <2>1, LoopControlAssumption DEF Controls
  <2>3. PICK n \in 0..ActorExplorationLimit, b \in BOOLEAN :
          n = lc.explored + 1 /\ b = (n = ActorExplorationLimit)
    BY <2>2
  <2>4. PICK e : e = AfterActorIntervention(r, lc, a)
    OBVIOUS
  <2>5. e = [lc EXCEPT !.explored = n, !.actorLocked = b]
    BY <1>1, <2>3, <2>4 DEF AfterActorIntervention, Controls
  <2>6. e \in Controls /\ SamePast(lc, e) /\ e.explored = n /\ e.actorLocked = b
        /\ e.planned = lc.planned /\ e.plannerLocked = lc.plannerLocked
    BY <2>5 DEF Controls, SamePast
  <2>7. e.actorLocked <=> n = ActorExplorationLimit
    BY <2>3, <2>6
  <2>9. n <= ActorExplorationLimit /\ n \in Int /\ ActorExplorationLimit \in Int
    BY <2>3, LoopControlAssumption
  <2>10. Locks(e)
    BY <2>6, <2>7, <2>9 DEF Locks
  <2>8. QED
    BY <1>1, <2>3, <2>4, <2>6, <2>7, <2>10
<1>2. CASE ~ActorCounts(r, lc, a)
  BY <1>2 DEF AfterActorIntervention, SamePast
<1>3. QED
  BY <1>1, <1>2

\* The outline intervention touches the outlines alone.
LEMMA OutlineAsked ==
  ASSUME NEW lc \in Controls, Locks(lc), NEW a, ~OutlineIntervention(lc, a)
  PROVE  LET o == AfterOutlineIntervention(lc, a)
         IN  /\ o \in Controls /\ Locks(o) /\ SamePast(lc, o)
             /\ o.explored = lc.explored /\ o.actorLocked = lc.actorLocked
             /\ o.planned = lc.planned /\ o.plannerLocked = lc.plannerLocked
<1> DEFINE o == AfterOutlineIntervention(lc, a)
           counting(n) == [lc EXCEPT !.outlines[a.file] = n]
<1>1. CASE o = lc
  BY <1>1 DEF SamePast
<1>2. ASSUME a.file \in Files, NEW n \in 0..2, o = counting(n)
      PROVE  /\ o \in Controls /\ Locks(o) /\ SamePast(lc, o)
             /\ o.explored = lc.explored /\ o.actorLocked = lc.actorLocked
             /\ o.planned = lc.planned /\ o.plannerLocked = lc.plannerLocked
  <2>1. [lc.outlines EXCEPT ![a.file] = n] \in [Files -> 0..2]
    BY DEF Controls
  <2>2. o = [lc EXCEPT !.outlines = [lc.outlines EXCEPT ![a.file] = n]]
    BY <1>2 DEF Controls
  <2> HIDE DEF o
  <2>3. QED
    BY <2>1, <2>2 DEF Controls, Locks, SamePast
<1>3. CASE a.file \in Files /\ a.tool \in SourceTools
  <2>1. o = counting(0) /\ 0 \in 0..2
    BY <1>3 DEF AfterOutlineIntervention
  <2>2. QED
    BY <1>2, <1>3, <2>1
<1>4. CASE a.file \in Files /\ a.tool \notin SourceTools /\ a.tool = "read_outline"
  <2>1. lc.outlines[a.file] + 1 \in 0..2
    BY <1>4 DEF OutlineIntervention, Controls
  <2>2. PICK n \in 0..2 : n = lc.outlines[a.file] + 1
    BY <2>1
  <2>3. o = counting(n)
    BY <1>4, <2>2 DEF AfterOutlineIntervention, SourceTools, Controls
  <2>4. a.file \in Files
    BY <1>4
  <2> HIDE DEF counting
  <2>5. QED
    BY <1>2, <2>3, <2>4
<1>5. CASE a.file \notin Files \/ a.tool \notin SourceTools \cup {"read_outline"}
  BY <1>1, <1>5 DEF AfterOutlineIntervention
<1>6. QED
  BY <1>3, <1>4, <1>5

\* The window after one more action.
Moved(recent, a) ==
  LET seen == Append(recent, a)
  IN  SubSeq(seen, 1 + (IF Len(seen) > RecentActions
                          THEN Len(seen) - RecentActions ELSE 0), Len(seen))

\* The window after an action that was let through.
LEMMA WindowMoved ==
  ASSUME NEW recent \in Seq(Actions), Len(recent) <= RecentActions, NEW a \in Actions
  PROVE  LET w == Moved(recent, a)
         IN  /\ w \in Seq(Actions)
             /\ Len(w) = IF Len(recent) < RecentActions THEN Len(recent) + 1 ELSE RecentActions
             /\ w[Len(w)] = a
             /\ \A i \in 1..Len(w) - 1 : w[i] = recent[Len(recent) - Len(w) + 1 + i]
<1> DEFINE seen == Append(recent, a)
           from == 1 + (IF Len(seen) > RecentActions THEN Len(seen) - RecentActions ELSE 0)
           w == SubSeq(seen, from, Len(seen))
<1>1. RecentActions \in Nat /\ RecentActions >= 1
  BY LoopControlAssumption
<1>2. /\ seen \in Seq(Actions) /\ Len(seen) = Len(recent) + 1
      /\ \A i \in 1..Len(recent) : seen[i] = recent[i]
      /\ seen[Len(recent) + 1] = a
  OBVIOUS
<1> HIDE DEF seen
<1>3. from \in Nat /\ from >= 1 /\ from <= Len(seen)
      /\ from = IF Len(recent) < RecentActions THEN 1 ELSE Len(recent) + 2 - RecentActions
  BY <1>1, <1>2
<1> HIDE DEF from
<1>4. /\ w \in Seq(Actions) /\ Len(w) = Len(seen) - from + 1
      /\ \A i \in 1..Len(seen) - from + 1 : w[i] = seen[from + i - 1]
  <2>1. from \in 1..Len(seen) + 1 /\ Len(seen) \in from - 1..Len(seen)
    BY <1>2, <1>3
  <2>2. \A i \in from..Len(seen) : seen[i] \in Actions
    BY <1>2, <1>3
  <2>3. QED
    BY <1>2, <1>3, <2>2, SubSeqProperties
<1> HIDE DEF w
<1>5. Len(w) = IF Len(recent) < RecentActions THEN Len(recent) + 1 ELSE RecentActions
  BY <1>1, <1>2, <1>3, <1>4
<1>6. w[Len(w)] = a
  <2>1. Len(w) \in 1..Len(seen) - from + 1 /\ from + Len(w) - 1 = Len(recent) + 1
    BY <1>2, <1>3, <1>4
  <2>2. QED
    BY <1>2, <1>4, <2>1
<1>7. \A i \in 1..Len(w) - 1 : w[i] = recent[Len(recent) - Len(w) + 1 + i]
  <2> SUFFICES ASSUME NEW i \in 1..Len(w) - 1
               PROVE  w[i] = recent[Len(recent) - Len(w) + 1 + i]
    OBVIOUS
  <2>1. /\ i \in 1..Len(seen) - from + 1 /\ from + i - 1 \in 1..Len(recent)
        /\ from + i - 1 = Len(recent) - Len(w) + 1 + i
    BY <1>2, <1>3, <1>4
  <2>2. w[i] = seen[from + i - 1]
    BY <1>4, <2>1
  <2>3. QED
    BY <1>2, <2>1, <2>2
<1>8. QED
  BY <1>4, <1>5, <1>6, <1>7 DEF w, from, seen, Moved

\* What a role can do.
LEMMA Abilities ==
  /\ \A r \in {"coder", "verifier"} :
       /\ IsActor(r) /\ IsCodeChangeRuntime(r) /\ HasMutationCapability(r)
       /\ "delegate" \notin Available[r] /\ "apply_patch" \notin Available[r]
  /\ ~IsActor("root") /\ ~IsActor("planner") /\ IsCodeChangeRuntime("root")
  /\ "delegate" \in Available["root"]
<1>1. /\ Available["coder"] = {"read", "read_outline", "list_dir", "edit", "run", "run_reader"}
      /\ Available["verifier"] = {"read", "list_dir", "edit", "run", "run_reader"}
      /\ Available["root"] = {"read", "read_outline", "list_dir"} \cup
                             {"apply_patch", "delegate", "update_state"}
  BY DEF Available, Roles
<1>2. QED
  BY <1>1 DEF IsActor, IsCodeChangeRuntime, HasMutationCapability, MutationTools

\* What the four questions do to the state of the policy.
LEMMA Considering ==
  ASSUME NEW r \in Roles, NEW lc \in Controls, Locks(lc), Len(lc.recent) <= RecentActions,
         NEW a \in Actions
  PROVE  LET c == Consider(r, lc, a)
             k == c.control
         IN  /\ c.verdict \in {"ok", "fail", "run"}
             /\ k \in Controls /\ Locks(k)
             /\ IF c.verdict = "run"
                  THEN ~RepeatedAction(lc, a) /\ k.recent = Moved(lc.recent, a)
                  ELSE k.recent = lc.recent
             /\ k.delegated = lc.delegated /\ k.mutated = lc.mutated
             /\ lc.explored <= k.explored /\ lc.planned <= k.planned
             /\ (lc.actorLocked <=> lc.explored = ActorExplorationLimit)
                  => (k.actorLocked <=> k.explored = ActorExplorationLimit)
             /\ (lc.plannerLocked <=> lc.planned = PlannerExplorationLimit)
                  => (k.plannerLocked <=> k.planned = PlannerExplorationLimit)
             /\ c.verdict = "run" =>
                  /\ r \in {"coder", "verifier"} /\ ~lc.mutated
                       /\ a.tool \in ExplorationTools \cup {"run_reader"}
                     => k.explored = lc.explored + 1
                  /\ r = "root" /\ ~lc.delegated /\ a.tool \in ExplorationTools
                     => k.planned = lc.planned + 1
<1> DEFINE p == AfterPlannerIntervention(r, lc, a)
           e == AfterActorIntervention(r, p, a)
           o == AfterOutlineIntervention(e, a)
           c == Consider(r, lc, a)
           k == c.control
           fair(x) ==
             /\ x \in Controls /\ Locks(x) /\ SamePast(lc, x)
             /\ lc.explored <= x.explored /\ lc.planned <= x.planned
             /\ (lc.actorLocked <=> lc.explored = ActorExplorationLimit)
                  => (x.actorLocked <=> x.explored = ActorExplorationLimit)
             /\ (lc.plannerLocked <=> lc.planned = PlannerExplorationLimit)
                  => (x.plannerLocked <=> x.planned = PlannerExplorationLimit)
<1>0. lc.explored \in Int /\ lc.planned \in Int
  BY LoopControlAssumption DEF Controls
<1>1. fair(lc)
  BY <1>0 DEF SamePast
<1>2. /\ p \in Controls /\ Locks(p) /\ SamePast(lc, p)
      /\ p.explored = lc.explored /\ p.actorLocked = lc.actorLocked
      /\ IF PlannerCounts(r, lc, a)
           THEN /\ p.planned = lc.planned + 1
                /\ p.plannerLocked <=> p.planned = PlannerExplorationLimit
           ELSE p.planned = lc.planned /\ p.plannerLocked = lc.plannerLocked
  BY PlannerAsked
<1> HIDE DEF p
<1>3. fair(p)
  BY <1>0, <1>2
<1>4. /\ e \in Controls /\ Locks(e) /\ SamePast(p, e)
      /\ e.planned = p.planned /\ e.plannerLocked = p.plannerLocked
      /\ IF ActorCounts(r, p, a)
           THEN /\ e.explored = p.explored + 1
                /\ e.actorLocked <=> e.explored = ActorExplorationLimit
           ELSE e.explored = p.explored /\ e.actorLocked = p.actorLocked
  BY <1>2, ActorAsked
<1> HIDE DEF e
<1>5. fair(e)
  <2>1. SamePast(lc, e)
    BY <1>2, <1>4 DEF SamePast
  <2>2. QED
    BY <1>0, <1>2, <1>3, <1>4, <2>1
<1>6. ASSUME ~OutlineIntervention(e, a)
      PROVE  /\ fair(o) /\ o.explored = e.explored /\ o.planned = e.planned
  <2>1. /\ o \in Controls /\ Locks(o) /\ SamePast(e, o)
        /\ o.explored = e.explored /\ o.actorLocked = e.actorLocked
        /\ o.planned = e.planned /\ o.plannerLocked = e.plannerLocked
    BY <1>4, <1>6, OutlineAsked
  <2> HIDE DEF o
  <2>2. SamePast(lc, o)
    BY <1>5, <2>1 DEF SamePast
  <2>3. QED
    BY <1>5, <2>1, <2>2
<1> HIDE DEF o, fair
<1>7. ASSUME NEW x, fair(x), NEW v \in {"ok", "fail"}, c = [verdict |-> v, control |-> x]
      PROVE  /\ c.verdict = v /\ c.verdict # "run" /\ fair(k) /\ k.recent = lc.recent
             /\ k.delegated = lc.delegated /\ k.mutated = lc.mutated
  <2>1. c.verdict = v /\ k = x
    BY <1>7
  <2> HIDE DEF c, k
  <2>2. QED
    BY <1>7, <2>1 DEF fair, SamePast
<1>8. CASE PlannerIntervention(r, lc, a)
  <2>1. c = [verdict |-> "ok", control |-> lc]
    BY <1>8 DEF Consider
  <2> HIDE DEF c
  <2>2. QED
    BY <1>1, <1>7, <2>1 DEF fair, c
<1>9. CASE ~PlannerIntervention(r, lc, a) /\ ActorIntervention(r, p, a)
  <2>1. c = [verdict |-> "ok", control |-> p]
    BY <1>9 DEF Consider, p
  <2> HIDE DEF c
  <2>2. QED
    BY <1>3, <1>7, <2>1 DEF fair, c
<1>10. CASE /\ ~PlannerIntervention(r, lc, a) /\ ~ActorIntervention(r, p, a)
            /\ OutlineIntervention(e, a)
  <2>1. c = [verdict |-> "ok", control |-> e]
    BY <1>10 DEF Consider, p, e
  <2> HIDE DEF c
  <2>2. QED
    BY <1>5, <1>7, <2>1 DEF fair, c
<1>11. CASE /\ ~PlannerIntervention(r, lc, a) /\ ~ActorIntervention(r, p, a)
            /\ ~OutlineIntervention(e, a) /\ RepeatedAction(o, a)
  <2>1. c = [verdict |-> "fail", control |-> o]
    BY <1>11 DEF Consider, p, e, o
  <2> HIDE DEF c
  <2>2. QED
    BY <1>6, <1>7, <1>11, <2>1 DEF fair, c
<1>12. CASE /\ ~PlannerIntervention(r, lc, a) /\ ~ActorIntervention(r, p, a)
            /\ ~OutlineIntervention(e, a) /\ ~RepeatedAction(o, a)
  <2>1. c = [verdict |-> "run", control |-> AfterRepeatedAction(o, a)]
    BY <1>12 DEF Consider, p, e, o
  <2>2. k = [o EXCEPT !.recent = Moved(o.recent, a)] /\ c.verdict = "run"
    BY <2>1 DEF AfterRepeatedAction, Moved
  <2>3. fair(o) /\ o.explored = e.explored /\ o.planned = e.planned /\ o \in Controls
        /\ o.recent = lc.recent
    BY <1>6, <1>12 DEF fair, SamePast
  <2>4. Moved(lc.recent, a) \in Seq(Actions)
    <3>1. lc.recent \in Seq(Actions)
      BY DEF Controls
    <3>2. QED
      BY <3>1, WindowMoved
  <2> HIDE DEF k, c
  <2>5. /\ k \in Controls /\ k.recent = Moved(lc.recent, a)
        /\ k.explored = o.explored /\ k.actorLocked = o.actorLocked
        /\ k.planned = o.planned /\ k.plannerLocked = o.plannerLocked
        /\ k.delegated = o.delegated /\ k.mutated = o.mutated
    BY <2>2, <2>3, <2>4 DEF Controls
  <2>6. ~RepeatedAction(lc, a)
    BY <1>12, <2>3 DEF RepeatedAction
  <2>7. /\ Locks(k) /\ k.delegated = lc.delegated /\ k.mutated = lc.mutated
        /\ lc.explored <= k.explored /\ lc.planned <= k.planned
        /\ (lc.actorLocked <=> lc.explored = ActorExplorationLimit)
             => (k.actorLocked <=> k.explored = ActorExplorationLimit)
        /\ (lc.plannerLocked <=> lc.planned = PlannerExplorationLimit)
             => (k.plannerLocked <=> k.planned = PlannerExplorationLimit)
    BY <2>3, <2>5 DEF fair, Locks, SamePast
  <2>8. ASSUME r \in {"coder", "verifier"}, ~lc.mutated,
               a.tool \in ExplorationTools \cup {"run_reader"}
        PROVE  k.explored = lc.explored + 1
    <3>1. ActorGuarded(r, p)
      BY <1>2, <2>8, Abilities DEF ActorGuarded, SamePast
    <3>2. a.tool \notin MutationTools
      BY <2>8 DEF ExplorationTools, MutationTools
    <3>3. ActorCounts(r, p, a)
      BY <1>12, <2>8, <3>1, <3>2 DEF ActorCounts, ActorIntervention
    <3>4. QED
      BY <1>2, <1>4, <2>3, <2>5, <3>3
  <2>9. ASSUME r = "root", ~lc.delegated, a.tool \in ExplorationTools
        PROVE  k.planned = lc.planned + 1
    <3>1. a.tool \notin OrchestrationTools
      BY <2>9 DEF ExplorationTools, OrchestrationTools
    <3>2. ~lc.plannerLocked
      BY <1>12, <2>9, <3>1, Abilities DEF PlannerIntervention, PlannerHeld
    <3>3. PlannerCounts(r, lc, a)
      BY <2>9, <3>2, Abilities DEF PlannerCounts
    <3>4. QED
      BY <1>2, <1>4, <2>3, <2>5, <3>3
  <2>10. QED
    BY <2>2, <2>5, <2>6, <2>7, <2>8, <2>9 DEF k, c
<1>13. QED
  BY <1>8, <1>9, <1>10, <1>11, <1>12

\* What the result of a call does to it.
LEMMA Recording ==
  ASSUME NEW lc \in Controls, Locks(lc), NEW a, NEW result
  PROVE  LET k == RecordToolResult(lc, a, result)
         IN  /\ k \in Controls /\ Locks(k) /\ k.recent = lc.recent
             /\ k.mutated = (lc.mutated \/ (a.tool \in MutationTools /\ result = "ok"))
             /\ k.delegated = (lc.delegated \/ (a.tool = "delegate" /\ result \in {"ok", "unchanged"}))
             /\ ~(a.tool = "delegate" /\ result \in {"ok", "unchanged"}) =>
                  k.planned = lc.planned /\ k.plannerLocked = lc.plannerLocked
             /\ ~(a.tool = "delegate" /\ result \in {"ok", "unchanged"})
                  /\ ~(a.tool \in MutationTools /\ result = "ok") => k = lc
<1> DEFINE d == IF a.tool = "delegate" /\ result \in {"ok", "unchanged"}
                  THEN [lc EXCEPT !.delegated = TRUE, !.planned = 0,
                                  !.plannerLocked = FALSE, !.explored = 0]
                  ELSE lc
           k == RecordToolResult(lc, a, result)
<1>1. k = IF a.tool \in MutationTools /\ result = "ok"
            THEN [d EXCEPT !.mutated = TRUE, !.explored = 0, !.actorLocked = FALSE]
            ELSE d
  BY DEF RecordToolResult
<1>2. /\ d \in Controls /\ Locks(d) /\ d.recent = lc.recent /\ d.mutated = lc.mutated
      /\ d.delegated = (lc.delegated \/ (a.tool = "delegate" /\ result \in {"ok", "unchanged"}))
      /\ ~(a.tool = "delegate" /\ result \in {"ok", "unchanged"}) => d = lc
  <2>1. CASE a.tool = "delegate" /\ result \in {"ok", "unchanged"}
    <3>1. d = [lc EXCEPT !.delegated = TRUE, !.planned = 0,
                         !.plannerLocked = FALSE, !.explored = 0]
      BY <2>1
    <3> HIDE DEF d
    <3>0. 0 \in 0..PlannerExplorationLimit /\ 0 \in 0..ActorExplorationLimit
      BY LoopControlAssumption
    <3>2. d \in Controls /\ d.recent = lc.recent /\ d.mutated = lc.mutated /\ d.delegated = TRUE
          /\ d.planned = 0 /\ d.explored = 0
      BY <3>0, <3>1 DEF Controls
    <3>3. Locks(d)
      BY <3>2, LoopControlAssumption DEF Locks
    <3>4. QED
      BY <2>1, <3>2, <3>3
  <2>2. CASE ~(a.tool = "delegate" /\ result \in {"ok", "unchanged"})
    <3>1. d = lc
      BY <2>2
    <3> HIDE DEF d
    <3>2. lc.delegated \in BOOLEAN
      BY DEF Controls
    <3>3. QED
      BY <2>2, <3>1, <3>2
  <2>3. QED
    BY <2>1, <2>2
<1> HIDE DEF d
<1>3. CASE a.tool \in MutationTools /\ result = "ok"
  <2>1. k = [d EXCEPT !.mutated = TRUE, !.explored = 0, !.actorLocked = FALSE]
    BY <1>1, <1>3
  <2> HIDE DEF k
  <2>0. 0 \in 0..ActorExplorationLimit
    BY LoopControlAssumption
  <2>2. k \in Controls /\ k.recent = d.recent /\ k.mutated = TRUE /\ k.delegated = d.delegated
        /\ k.planned = d.planned /\ k.plannerLocked = d.plannerLocked /\ k.explored = 0
    BY <1>2, <2>0, <2>1 DEF Controls
  <2>3. Locks(k)
    BY <1>2, <2>2, LoopControlAssumption DEF Locks
  <2>4. QED
    BY <1>2, <1>3, <2>2, <2>3 DEF k
<1>4. CASE ~(a.tool \in MutationTools /\ result = "ok")
  <2>1. k = d
    BY <1>1, <1>4
  <2> HIDE DEF k
  <2>2. lc.mutated \in BOOLEAN
    BY DEF Controls
  <2>3. QED
    BY <1>2, <1>4, <2>1, <2>2 DEF k
<1>5. QED
  BY <1>3, <1>4

-----------------------------------------------------------------------------
(***************************************************************************)
(* What the parts of the actions do                                        *)
(***************************************************************************)
\* The loop adds a message to its list, and to the one that is saved as long
\* as they are the same.
LEMMA Spoken ==
  ASSUME ConversationInv, NEW m \in Messages, Say(<<m>>)
  PROVE  /\ messages' = messages \o <<m>>
         /\ messages' \in Seq(Messages) /\ held' \in Seq(Messages)
         /\ shared' = shared /\ held' = IF shared THEN messages' ELSE held
         /\ SystemFirst(messages) => SystemFirst(messages')
         /\ SystemFirst(held) => SystemFirst(held')
         /\ \A S : Observed(messages, 1) \cup Observed(held, 1) \subseteq S
                     /\ (m.role = "tool" => m.id \in S)
                   => Observed(messages', 1) \cup Observed(held', 1) \subseteq S
<1>1. messages \in Seq(Messages) /\ held \in Seq(Messages) /\ (shared => held = messages)
  BY DEF ConversationInv, ConversationOK, HeadInv
<1>2. messages' = messages \o <<m>> /\ shared' = shared
      /\ held' = IF shared THEN messages' ELSE held
  BY DEF Say
<1>3. messages' \in Seq(Messages) /\ (SystemFirst(messages) => SystemFirst(messages'))
  BY <1>1, <1>2, OneMore
<1>4. held' \in Seq(Messages) /\ (SystemFirst(held) => SystemFirst(held'))
  BY <1>1, <1>2, <1>3
<1>5. ASSUME NEW S, Observed(messages, 1) \cup Observed(held, 1) \subseteq S,
             m.role = "tool" => m.id \in S
      PROVE  Observed(messages', 1) \cup Observed(held', 1) \subseteq S
  <2>1. Observed(messages', 1) \subseteq S
    BY <1>1, <1>2, <1>5, ObservedMore
  <2>2. held' = messages' \/ held' = held
    BY <1>2
  <2>3. QED
    BY <1>5, <2>1, <2>2
<1>6. QED
  BY <1>2, <1>3, <1>4, <1>5

\* A call is remembered.
LEMMA Remembered ==
  ASSUME completed \in Completions, NEW id \in CallIds, NEW success \in BOOLEAN
  PROVE  /\ Remember(id, success) \in Completions
         /\ IsRoot => DOMAIN Remember(id, success) = DOMAIN completed \cup {id}
<1>1. DOMAIN completed \in SUBSET CallIds /\ completed \in [DOMAIN completed -> BOOLEAN]
  BY DEF Completions
<1>2. CASE IsRoot
  <2>1. DOMAIN completed \cup {id} \in SUBSET CallIds
    BY <1>1
  <2>2. Remember(id, success) =
          [i \in DOMAIN completed \cup {id} |-> IF i = id THEN success ELSE completed[i]]
    BY <1>2 DEF Remember
  <2>3. Remember(id, success) \in [DOMAIN completed \cup {id} -> BOOLEAN]
    BY <1>1, <2>2
  <2>4. QED
    BY <2>1, <2>3 DEF Completions
<1>3. CASE ~IsRoot
  BY <1>3 DEF Remember
<1>4. QED
  BY <1>2, <1>3

\* The empty cache.
LEMMA NothingCompleted == <<>> \in Completions /\ DOMAIN <<>> = {}
<1>1. DOMAIN <<>> = {} /\ <<>> = [i \in {} |-> TRUE]
  OBVIOUS
<1>2. <<>> \in [{} -> BOOLEAN] /\ {} \in SUBSET CallIds
  BY <1>1
<1>3. QED
  BY <1>1, <1>2 DEF Completions

\* The result of the last call is noted.
Results == {"denied", "started", "ok", "unchanged", "fail", "fatal"}

\* The last call of a trace gets its result.
LEMMA Noted ==
  ASSUME NEW t \in Seq([call : Calls, result : Results]), t # <<>>, NEW result \in Results
  PROVE  LET u == [t EXCEPT ![Len(t)].result = result]
         IN  /\ u \in Seq([call : Calls, result : Results]) /\ Len(u) = Len(t)
             /\ \A i \in 1..Len(t) : u[i].call = t[i].call
             /\ \A i \in 1..Len(t) - 1 : u[i] = t[i]
             /\ u[Len(t)].result = result
<1> DEFINE u == [t EXCEPT ![Len(t)].result = result]
           e == [t[Len(t)] EXCEPT !.result = result]
<1>1. Len(t) \in 1..Len(t) /\ t[Len(t)] \in [call : Calls, result : Results]
      /\ Len(t) \in Nat
  <2> DEFINE T == [call : Calls, result : Results]
  <2>1. t \in Seq(T)
    OBVIOUS
  <2> HIDE DEF T
  <2>2. Len(t) \in 1..Len(t) /\ t[Len(t)] \in T /\ Len(t) \in Nat
    BY <2>1
  <2>3. QED
    BY <2>2 DEF T
<1>2. e \in [call : Calls, result : Results] /\ e.result = result /\ e.call = t[Len(t)].call
  BY <1>1
<1>3. u = [t EXCEPT ![Len(t)] = e]
  BY <1>1
<1> HIDE DEF e, u
<1>4. u \in Seq([call : Calls, result : Results]) /\ Len(u) = Len(t) /\ u[Len(t)] = e
      /\ \A i \in 1..Len(t) : i # Len(t) => u[i] = t[i]
  BY <1>1, <1>2, <1>3
<1>5. \A i \in 1..Len(t) - 1 : i \in 1..Len(t) /\ i # Len(t)
  BY <1>1
<1>6. QED
  BY <1>1, <1>2, <1>4, <1>5 DEF u

-----------------------------------------------------------------------------
(***************************************************************************)
(* The conversation: one lemma for the endings, one for what becomes of a  *)
(* call, and then the actions                                              *)
(***************************************************************************)
\* Where the loop stands between two answers.
Between == {"entered", "top", "step", "ready", "asked"}

\* What is known of a loop that talks.
LEMMA Talking ==
  ASSUME ConversationInv, pc # "idle"
  PROVE  /\ SystemFirst(messages) /\ SystemFirst(held)
         /\ IsRoot => SystemFirst(stored.messages)
         /\ used.runs # 0
         /\ ~spoiled => /\ pc \in Between => Closed(messages)
                        /\ ~shared => Closed(held)
                        /\ IsRoot => Shaped(stored.messages)
BY DEF ConversationInv, HeadInv, AnswerInv, Between

\* A loop that ends leaves its conversation to the next turn.
LEMMA Closing ==
  ASSUME ConversationInv, pc \in Between, NEW result \in {"done", "error"}, Close(result),
         role' = role, completed' = completed, spoiled' = spoiled, used'.runs = used.runs
  PROVE  ConversationInv'
<1> DEFINE m == Assistant(<<>>)
<1>1. m \in Messages /\ m.role = "assistant" /\ m.calls = <<>>
  BY MessagesMade
<1> HIDE DEF m
<1>2. Say(<<m>>) /\ PersistRoot(completed) /\ outcome' = result /\ pc' = "idle" /\ batch' = <<>>
  BY DEF Close, m
<1>3. /\ messages' = messages \o <<m>>
      /\ messages' \in Seq(Messages) /\ held' \in Seq(Messages)
      /\ shared' = shared /\ held' = IF shared THEN messages' ELSE held
      /\ SystemFirst(messages) => SystemFirst(messages')
      /\ SystemFirst(held) => SystemFirst(held')
      /\ \A S : Observed(messages, 1) \cup Observed(held, 1) \subseteq S
                  /\ (m.role = "tool" => m.id \in S)
                => Observed(messages', 1) \cup Observed(held', 1) \subseteq S
  BY <1>1, <1>2, Spoken
<1>4. /\ SystemFirst(messages) /\ SystemFirst(held) /\ used.runs # 0
      /\ ~spoiled => Closed(messages) /\ (~shared => Closed(held))
  BY Talking DEF Between
<1>5. IsRoot' = IsRoot /\ stored' = IF IsRoot THEN [messages |-> held', completed |-> completed]
                                    ELSE stored
  BY <1>2 DEF PersistRoot, IsRoot
<1>6. ConversationOK'
  <2>1. stored' \in [messages : Seq(Messages), completed : Completions]
    BY <1>3, <1>5 DEF ConversationInv, ConversationOK
  <2>2. Len(batch') <= MaxBatch /\ batch' \in Seq(Calls)
    BY <1>2, ModelLoopAssumption
  <2>3. QED
    BY <1>2, <1>3, <2>1, <2>2 DEF ConversationInv, ConversationOK
<1>7. HeadInv'
  BY <1>2, <1>3, <1>4, <1>5 DEF ConversationInv, HeadInv
<1>8. AnswerInv'
  <2> SUFFICES ASSUME ~spoiled PROVE AnswerInv'
    BY DEF AnswerInv
  <2>1. Closed(messages')
    BY <1>1, <1>3, <1>4, ClosedMore DEF ConversationInv, ConversationOK
  <2>2. Closed(held')
    BY <1>3, <1>4, <2>1
  <2>3. IsRoot => Shaped(stored'.messages)
    BY <1>5, <2>2 DEF Shaped
  <2>4. QED
    BY <1>2, <1>5, <2>1, <2>2, <2>3 DEF AnswerInv
<1>9. CacheInv'
  <2>1. IsRoot => Observed(messages', 1) \cup Observed(held', 1) \subseteq DOMAIN completed
    BY <1>1, <1>3 DEF ConversationInv, CacheInv
  <2>2. QED
    BY <1>2, <1>5, <2>1 DEF ConversationInv, CacheInv, SavedObservationsCached
<1>10. QED
  BY <1>6, <1>7, <1>8, <1>9 DEF ConversationInv

\* Whatever becomes of a call: it is observed, remembered and saved.
LEMMA Finishing ==
  ASSUME ConversationInv, pc \in {"batch", "running"},
         NEW result \in {"ok", "unchanged", "fail", "fatal"}, Finish(result),
         used'.runs = used.runs
  PROVE  ConversationInv' /\ pc' \in {"idle", "entered", "top", "batch"}
<1> DEFINE m == Observation(call.id)
           closing == Assistant(<<>>)
           seen == messages \o <<m>>
           stop == seen \o <<closing>>
           success == result \in {"ok", "unchanged"}
           list(ms) == IF shared THEN ms ELSE held
<1>1. /\ batch \in Seq(Calls) /\ batch # <<>> /\ call.id \in CallIds
      /\ Tail(batch) \in Seq(Calls) /\ Len(Tail(batch)) = Len(batch) - 1
      /\ Len(batch) \in Nat /\ Len(batch) <= MaxBatch
  <2>1. batch \in Seq(Calls) /\ batch # <<>> /\ Len(batch) <= MaxBatch
    BY DEF ConversationInv, ConversationOK
  <2>2. call \in Calls /\ Tail(batch) \in Seq(Calls) /\ Len(Tail(batch)) = Len(batch) - 1
    BY <2>1, HeadTailProperties DEF call
  <2>3. QED
    BY <2>1, <2>2 DEF Calls
<1>2. /\ m \in Messages /\ m.role = "tool" /\ m.id = call.id
      /\ closing \in Messages /\ closing.role = "assistant"
  BY <1>1, MessagesMade
<1>3. /\ role' = role /\ shared' = shared /\ completed' = Remember(call.id, success)
      /\ \/ /\ spoiled' = spoiled
            /\ messages' = seen /\ held' = list(seen)
            /\ PersistRoot(completed')
            /\ batch' = Tail(batch)
            /\ pc' = IF Len(batch) > 1 THEN "batch" ELSE AfterBatch
            /\ outcome' \in {"error", outcome}
         \/ /\ messages' = stop /\ held' = list(stop)
            /\ IF IsRoot
                 THEN \E ms \in {seen, stop} :
                        stored' = [messages |-> list(ms), completed |-> completed']
                 ELSE stored' = stored
            /\ spoiled' = TRUE /\ batch' = <<>> /\ pc' = AfterBatch
            /\ outcome' \in {"error", outcome}
  BY DEF Finish
<1> HIDE DEF m, closing
<1>4. /\ messages \in Seq(Messages) /\ held \in Seq(Messages) /\ (shared => held = messages)
      /\ SystemFirst(messages) /\ SystemFirst(held) /\ used.runs # 0
      /\ ~spoiled => (~shared => Closed(held))
  BY Talking DEF ConversationInv, ConversationOK, HeadInv
<1>5. seen \in Seq(Messages) /\ SystemFirst(seen)
  BY <1>2, <1>4, OneMore
<1> HIDE DEF seen
<1>6. stop \in Seq(Messages) /\ SystemFirst(stop)
  BY <1>2, <1>5, OneMore
<1> HIDE DEF stop
<1>7. \A ms \in {seen, stop} : list(ms) \in Seq(Messages) /\ SystemFirst(list(ms))
  BY <1>4, <1>5, <1>6
<1>8. AfterBatch \in {"entered", "idle", "top"}
  BY DEF AfterBatch
<1>9. completed' \in Completions /\ (IsRoot => DOMAIN completed' = DOMAIN completed \cup {call.id})
  <2>1. success \in BOOLEAN /\ completed \in Completions
    BY DEF ConversationInv, ConversationOK
  <2> HIDE DEF success
  <2>2. QED
    BY <1>1, <1>3, <2>1, Remembered
<1>10. \E ms, ns \in {seen, stop} :
         /\ messages' = ms /\ held' = list(ms)
         /\ stored' = IF IsRoot THEN [messages |-> list(ns), completed |-> completed'] ELSE stored
  BY <1>3 DEF PersistRoot
<1>11. IsRoot' = IsRoot /\ pc' \in {"idle", "entered", "top", "batch"} /\ outcome' \in {"error", outcome}
  BY <1>3, <1>8 DEF IsRoot
<1> HIDE DEF list
<1>12. messages' \in Seq(Messages) /\ held' \in Seq(Messages) /\ SystemFirst(messages')
       /\ SystemFirst(held') /\ (IsRoot => SystemFirst(stored'.messages))
       /\ stored' \in [messages : Seq(Messages), completed : Completions]
  BY <1>5, <1>6, <1>7, <1>9, <1>10 DEF ConversationInv, ConversationOK
<1>13. ConversationOK'
  <2>1. batch' \in Seq(Calls) /\ Len(batch') <= MaxBatch /\ (pc' = "batch" => batch' # <<>>)
    <3>1. <<>> \in Seq(Calls) /\ Len(<<>>) <= MaxBatch
      BY ModelLoopAssumption
    <3>2. Len(batch) > 1 => Tail(batch) # <<>>
      <4>1. PICK rest : rest = Tail(batch)
        OBVIOUS
      <4>2. Len(batch) \in Nat /\ Len(rest) = Len(batch) - 1
        BY <1>1, <4>1
      <4>3. rest = <<>> => Len(rest) = 0
        OBVIOUS
      <4>4. Len(batch) > 1 => rest # <<>>
        BY <4>2, <4>3
      <4>5. QED
        BY <4>1, <4>4
    <3>3. Len(Tail(batch)) <= MaxBatch
      BY <1>1, ModelLoopAssumption
    <3>4. QED
      BY <1>1, <1>3, <1>8, <3>1, <3>2, <3>3
  <2>2. shared' \in BOOLEAN /\ spoiled' \in BOOLEAN
    BY <1>3 DEF ConversationInv, ConversationOK
  <2>3. QED
    BY <1>9, <1>11, <1>12, <2>1, <2>2 DEF ConversationOK
<1>14. HeadInv'
  <2>1. shared' => held' = messages'
    BY <1>3, <1>10 DEF list
  <2>2. outcome' \in {"cancelled", "dead"} => IsRoot
    BY <1>11 DEF ConversationInv, HeadInv
  <2>3. used'.runs # 0
    BY <1>4
  <2>4. QED
    BY <1>11, <1>12, <2>1, <2>2, <2>3 DEF HeadInv
<1>15. AnswerInv'
  <2> SUFFICES ASSUME ~spoiled' PROVE AnswerInv'
    BY DEF AnswerInv
  <2>1. /\ ~spoiled /\ messages' = seen /\ held' = list(seen) /\ PersistRoot(completed')
        /\ batch' = Tail(batch) /\ pc' = IF Len(batch) > 1 THEN "batch" ELSE AfterBatch
    BY <1>3 DEF ConversationInv, ConversationOK
  <2>2. PICK n \in Assistants(messages) : OpenAt(messages, n) /\ batch = Left(messages, n)
    BY <2>1 DEF ConversationInv, AnswerInv
  <2>3. OpenAt(seen, n) /\ Left(seen, n) = Tail(batch)
    BY <1>1, <1>4, <2>2, OpenObserved DEF seen, m, call
  <2>4. n \in Assistants(seen)
    BY <2>3 DEF OpenAt
  <2>5. pc' # "batch" => Closed(seen)
    <3>1. pc' # "batch" => Tail(batch) = <<>>
      BY <1>1, <2>1
    <3>2. QED
      BY <1>5, <2>3, <3>1, OpenClosed
  <2>6. ~shared => Closed(held')
    BY <1>4, <2>1 DEF list
  <2>7. IsRoot => Shaped(stored'.messages)
    <3>1. IsRoot => stored'.messages = held'
      BY <2>1 DEF PersistRoot
    <3>2. Shaped(held')
      BY <2>1, <2>3, <2>4, <2>6 DEF Shaped, list
    <3>3. QED
      BY <3>1, <3>2
  <2>8. QED
    BY <1>3, <1>11, <2>1, <2>3, <2>4, <2>5, <2>6, <2>7 DEF AnswerInv
<1>16. CacheInv'
  <2>1. CASE IsRoot
    <3> DEFINE S == DOMAIN completed'
    <3>1. Observed(messages, 1) \subseteq S /\ Observed(held, 1) \subseteq S /\ call.id \in S
      BY <1>9, <2>1 DEF ConversationInv, CacheInv
    <3> HIDE DEF S
    <3>2. Observed(seen, 1) \subseteq S
      BY <1>2, <1>4, <3>1, ObservedMore DEF seen
    <3>3. Observed(stop, 1) \subseteq S
      BY <1>2, <1>5, <3>2, ObservedMore DEF stop
    <3>4. \A ms \in {seen, stop} : Observed(list(ms), 1) \subseteq S
      BY <3>1, <3>2, <3>3 DEF list
    <3>5. Observed(messages', 1) \cup Observed(held', 1) \cup Observed(stored'.messages, 1) \subseteq S
          /\ stored'.completed = completed'
      BY <1>10, <2>1, <3>2, <3>3, <3>4
    <3>6. QED
      BY <1>11, <2>1, <3>5 DEF CacheInv, SavedObservationsCached, S
  <2>2. CASE ~IsRoot
    <3>1. stored' = stored
      BY <1>10, <2>2
    <3>2. QED
      BY <1>11, <2>2, <3>1 DEF ConversationInv, CacheInv, SavedObservationsCached
  <2>3. QED
    BY <2>1, <2>2
<1>17. QED
  BY <1>11, <1>13, <1>14, <1>15, <1>16 DEF ConversationInv

\* A new runtime on a conversation that begins with its system prompt.
LEMMA Starting ==
  ASSUME NEW ms \in Seq(Messages), SystemFirst(ms), NEW done \in Completions,
         NewRuntime(ms, done), used'.runs # 0, spoiled' \in BOOLEAN,
         stored' \in [messages : Seq(Messages), completed : Completions],
         ~IsRoot => stored' = [messages |-> <<>>, completed |-> <<>>],
         IsRoot => /\ stored' = [messages |-> ms, completed |-> done]
                   /\ Observed(ms, 1) \subseteq DOMAIN done,
         ~spoiled' => IF resumed' THEN Shaped(ms) ELSE Closed(ms)
  PROVE  ConversationInv'
<1>1. /\ role' = role /\ messages' = ms /\ held' = ms /\ shared' = TRUE /\ completed' = done
      /\ batch' = <<>> /\ outcome' = "none" /\ pc' = "started"
  BY DEF NewRuntime
<1>2. IsRoot' = IsRoot
  BY <1>1 DEF IsRoot
<1>3. ConversationOK'
  <2>1. <<>> \in Seq(Calls) /\ Len(<<>>) <= MaxBatch
    BY ModelLoopAssumption
  <2>2. QED
    BY <1>1, <2>1 DEF ConversationOK
<1>4. HeadInv'
  BY <1>1, <1>2 DEF HeadInv
<1>5. AnswerInv'
  <2>1. ~spoiled' => Shaped(ms)
    BY DEF Shaped
  <2>2. QED
    BY <1>1, <1>2, <2>1 DEF AnswerInv
<1>6. CacheInv'
  <2>1. CASE IsRoot
    BY <1>1, <1>2, <2>1 DEF CacheInv, SavedObservationsCached
  <2>2. CASE ~IsRoot
    <3>1. Observed(<<>>, 1) = {}
      BY Beginnings DEF Observed
    <3>2. QED
      BY <1>1, <1>2, <2>2, <3>1 DEF CacheInv, SavedObservationsCached
  <2>3. QED
    BY <2>1, <2>2
<1>7. QED
  BY <1>3, <1>4, <1>5, <1>6 DEF ConversationInv

\* A state that keeps the conversation, between the same answers.
LEMMA Staying ==
  ASSUME ConversationInv, pc # "idle", role' = role, messages' = messages, held' = held,
         shared' = shared, completed' = completed, spoiled' = spoiled, outcome' = outcome,
         used'.runs = used.runs,
         \/ stored' = stored
         \/ IsRoot /\ stored' = [messages |-> held, completed |-> completed]
                   /\ pc \in Between,
         \/ batch' = batch /\ pc \in {"batch"} /\ pc' = "running"
         \/ batch' = batch /\ pc \in Between /\ pc' \in Between
  PROVE  ConversationInv'
<1>1. IsRoot' = IsRoot /\ pc' # "idle"
  BY DEF IsRoot, Between
<1>2. /\ SystemFirst(messages) /\ SystemFirst(held) /\ (IsRoot => SystemFirst(stored'.messages))
      /\ used.runs # 0 /\ (shared => held = messages)
  BY Talking DEF ConversationInv, HeadInv
<1>3. ConversationOK'
  <2>1. stored' \in [messages : Seq(Messages), completed : Completions]
    BY DEF ConversationInv, ConversationOK
  <2>2. pc' \in {"batch", "running"} => batch # <<>>
    BY DEF ConversationInv, ConversationOK, Between
  <2>3. QED
    BY <2>1, <2>2 DEF ConversationInv, ConversationOK, Between
<1>4. HeadInv'
  BY <1>1, <1>2 DEF ConversationInv, HeadInv
<1>5. AnswerInv'
  <2> SUFFICES ASSUME ~spoiled PROVE AnswerInv'
    BY DEF AnswerInv
  <2>1. pc \in Between => Closed(held)
    BY <1>2, Talking
  <2>2. IsRoot => Shaped(stored'.messages)
    BY <2>1, Talking DEF Shaped
  <2>3. pc' = "running" => \E n \in Assistants(messages) : OpenAt(messages, n) /\ batch = Left(messages, n)
    BY DEF ConversationInv, AnswerInv, Between
  <2>4. pc' # "running" => Closed(messages) /\ pc' \in Between
    BY Talking
  <2>5. ~shared => Closed(held)
    BY Talking
  <2>6. QED
    BY <1>1, <2>2, <2>3, <2>4, <2>5 DEF AnswerInv, Between
<1>6. CacheInv'
  <2>1. /\ SavedObservationsCached
        /\ IsRoot => /\ Observed(messages, 1) \cup Observed(held, 1) \subseteq DOMAIN completed
                     /\ DOMAIN stored.completed \subseteq DOMAIN completed
        /\ ~IsRoot => stored = [messages |-> <<>>, completed |-> <<>>]
    BY DEF ConversationInv, CacheInv
  <2>2. DOMAIN completed' = DOMAIN completed
    OBVIOUS
  <2>3. CASE stored' = stored
    BY <1>1, <2>1, <2>2, <2>3 DEF CacheInv, SavedObservationsCached
  <2>4. CASE IsRoot /\ stored' = [messages |-> held, completed |-> completed]
    BY <1>1, <2>1, <2>2, <2>4 DEF CacheInv, SavedObservationsCached
  <2>5. QED
    BY <2>3, <2>4
<1>7. QED
  BY <1>3, <1>4, <1>5, <1>6 DEF ConversationInv

\* The types of the rest.
RestOK ==
  /\ role \in LoopRoles
  /\ pc \in {"idle", "started", "entered", "top", "step", "ready", "asked",
             "batch", "running"}
  /\ stopped \in BOOLEAN /\ resumed \in BOOLEAN
  /\ control \in Controls /\ Locks(control)
  /\ steps \in 0..(MaxSteps + 1) /\ (pc # "idle" => steps <= MaxSteps)
  /\ outcome \in Outcomes
  /\ trace \in Seq([call : Calls, result : Results])
  /\ used \in [runs : 0..Len(Requests), calls : 0..MaxCalls,
               compactions : 0..MaxCompactions, stops : 0..MaxStops]

\* Before the first turn there is nothing to answer.
LEMMA ConversationInitially ==
  ASSUME Init
  PROVE  ConversationInv
<1>1. /\ Closed(<<>>) /\ Observed(<<>>, 1) = {} /\ <<>> \in Seq(Messages)
      /\ <<>> \in Seq(Calls) /\ Len(<<>>) <= MaxBatch
      /\ <<>> \in Completions /\ DOMAIN <<>> = {}
      /\ <<System({}), User(Requests[1])>> \in Seq(Messages)
      /\ SystemFirst(<<System({}), User(Requests[1])>>)
      /\ Closed(<<System({}), User(Requests[1])>>)
  <2>1. used.runs \in Nat /\ used.runs <= Len(Requests)
    BY ModelLoopAssumption DEF Init
  <2>2. QED
    BY <2>1, Beginnings, NothingCompleted, ModelLoopAssumption
<1>2. ConversationOK
  BY <1>1 DEF Init, ConversationOK
<1>3. HeadInv
  BY <1>1 DEF Init, HeadInv
<1>4. AnswerInv
  BY <1>1 DEF Init, AnswerInv, Shaped
<1>5. CacheInv
  BY <1>1 DEF Init, CacheInv, SavedObservationsCached
<1>6. QED
  BY <1>2, <1>3, <1>4, <1>5 DEF ConversationInv

\* A turn, a repair or a resumption takes over a conversation that can be
\* closed.
LEMMA ConversationStarts ==
  ASSUME ConversationInv, RestOK, StartTurn \/ StartActor \/ Resume
  PROVE  ConversationInv'
<1>0. /\ messages \in Seq(Messages) /\ spoiled \in BOOLEAN
      /\ stored \in [messages : Seq(Messages), completed : Completions]
      /\ used \in [runs : 0..Len(Requests), calls : 0..MaxCalls,
                   compactions : 0..MaxCompactions, stops : 0..MaxStops]
  BY DEF ConversationInv, ConversationOK, RestOK
<1>1. CASE StartTurn
  <2> DEFINE ms == <<System({})>> \o History
  <2>1. /\ IsRoot /\ used' = [used EXCEPT !.runs = @ + 1] /\ spoiled' = FALSE
        /\ NewRuntime(ms, <<>>) /\ stored' = [messages |-> ms, completed |-> <<>>]
    BY <1>1 DEF StartTurn
  <2>2. used.runs \in Nat /\ used.runs <= Len(Requests) /\ used'.runs # 0
    BY <1>0, <2>1
  <2>3. ms \in Seq(Messages) /\ SystemFirst(ms) /\ Closed(ms) /\ Observed(ms, 1) = {}
    BY <2>2, Beginnings
  <2> HIDE DEF ms
  <2>4. Shaped(ms)
    BY <2>3 DEF Shaped
  <2>5. PICK done : done = <<>>
    OBVIOUS
  <2>6. done \in Completions
    BY <2>5, NothingCompleted
  <2>7. QED
    BY <2>1, <2>2, <2>3, <2>4, <2>5, <2>6, Starting
<1>2. CASE StartActor
  <2>1. /\ ~IsRoot /\ pc = "idle" /\ outcome \in {"none", "done"}
        /\ used' = [used EXCEPT !.runs = @ + 1] /\ spoiled' = spoiled
        /\ NewRuntime(messages, <<>>) /\ stored' = stored
    BY <1>2 DEF StartActor
  <2>2. used'.runs # 0
    BY <1>0, <2>1
  <2>3. SystemFirst(messages) /\ (~spoiled => Closed(messages) /\ Shaped(messages))
        /\ stored = [messages |-> <<>>, completed |-> <<>>]
    BY <2>1 DEF ConversationInv, HeadInv, AnswerInv, CacheInv, Shaped
  <2>4. PICK done : done = <<>>
    OBVIOUS
  <2>5. done \in Completions
    BY <2>4, NothingCompleted
  <2>6. QED
    BY <1>0, <2>1, <2>2, <2>3, <2>4, <2>5, Starting
<1>3. CASE Resume
  <2> DEFINE ms == stored.messages
             done == stored.completed
  <2>1. /\ IsRoot /\ pc = "idle" /\ outcome \in {"cancelled", "dead"}
        /\ NewRuntime(ms, done) /\ stored' = stored /\ used' = used
        /\ spoiled' = (spoiled \/ (~resumed' /\ Pending(ms) # <<>>))
    BY <1>3 DEF Resume
  <2>2. ms \in Seq(Messages) /\ done \in Completions
    BY <1>0
  <2>3. stored = [messages |-> ms, completed |-> done]
    BY <1>0
  <2>4. SystemFirst(ms) /\ used.runs # 0 /\ Observed(ms, 1) \subseteq DOMAIN done
        /\ (~spoiled => Shaped(ms))
    BY <2>1 DEF ConversationInv, HeadInv, AnswerInv, CacheInv, SavedObservationsCached
  <2> HIDE DEF ms, done
  <2>5. Shaped(ms) /\ Pending(ms) = <<>> => Closed(ms)
    <3> SUFFICES ASSUME Pending(ms) = <<>>, NEW n, OpenAt(ms, n) PROVE Closed(ms)
      BY DEF Shaped
    <3>1. Left(ms, n) = <<>>
      BY <2>2, PendingOpen
    <3>2. QED
      BY <2>2, <3>1, OpenClosed
  <2>6. ~spoiled' => IF resumed' THEN Shaped(ms) ELSE Closed(ms)
    BY <2>1, <2>4, <2>5
  <2>7. spoiled' \in BOOLEAN
    BY <1>0, <2>1
  <2>8. QED
    BY <1>0, <2>1, <2>2, <2>3, <2>4, <2>6, <2>7, Starting
<1>4. QED
  BY <1>1, <1>2, <1>3

\* Calls a resumed conversation leaves open are answered or taken up again.
LEMMA EnterKeeps ==
  ASSUME ConversationInv, RestOK, Enter
  PROVE  ConversationInv'
<1>1. /\ pc = "started" /\ role' = role /\ completed' = completed /\ outcome' = outcome
      /\ resumed' = resumed /\ spoiled' = spoiled /\ used' = used
      /\ Say(IF resumed THEN <<>> ELSE <<User(Request)>>) /\ PersistRoot(completed)
      /\ batch' = IF resumed THEN Pending(messages) ELSE <<>>
      /\ pc' = IF batch' # <<>> THEN "batch" ELSE "entered"
  BY DEF Enter, runtime, history
<1>2. /\ messages \in Seq(Messages) /\ held \in Seq(Messages) /\ (shared => held = messages)
      /\ SystemFirst(messages) /\ SystemFirst(held) /\ used.runs # 0
      /\ ~spoiled => /\ ~shared => Closed(held)
                     /\ IF resumed THEN Shaped(messages) ELSE Closed(messages)
  BY <1>1, Talking DEF ConversationInv, ConversationOK, HeadInv, AnswerInv
<1>3. Request \in Range(Requests) /\ User(Request) \in Messages /\ User(Request).role = "user"
  <2>1. used.runs \in 0..Len(Requests)
    BY DEF RestOK
  <2>2. Len(Requests) \in Nat
    BY ModelLoopAssumption
  <2>3. used.runs \in 1..Len(Requests)
    BY <1>2, <2>1, <2>2
  <2>4. Requests[used.runs] \in Range(Requests)
    BY <2>3, ModelLoopAssumption
  <2>5. QED
    BY <2>3, <2>4, MessagesMade DEF Request
<1>4. /\ messages' \in Seq(Messages) /\ SystemFirst(messages')
      /\ shared' = shared /\ held' = IF shared THEN messages' ELSE held
      /\ \A S : Observed(messages, 1) \subseteq S => Observed(messages', 1) \subseteq S
      /\ resumed => messages' = messages
      /\ ~resumed /\ Closed(messages) => Closed(messages')
  <2>1. CASE resumed
    <3>1. messages \o <<>> = messages
      BY <1>2, ConcatEmptySeq
    <3>2. messages' = messages /\ shared' = shared
          /\ held' = IF shared THEN messages' ELSE held
      BY <1>1, <2>1, <3>1 DEF Say
    <3>3. QED
      BY <1>2, <2>1, <3>2
  <2>2. CASE ~resumed
    <3> DEFINE m == User(Request)
    <3>1. m \in Messages /\ m.role = "user"
      BY <1>3
    <3> HIDE DEF m
    <3>2. messages' = messages \o <<m>> /\ shared' = shared
          /\ held' = IF shared THEN messages' ELSE held
      BY <1>1, <2>2 DEF Say, m
    <3>3. messages' \in Seq(Messages) /\ SystemFirst(messages')
      BY <1>2, <3>1, <3>2, OneMore
    <3>4. \A S : Observed(messages, 1) \subseteq S => Observed(messages', 1) \subseteq S
      BY <1>2, <3>1, <3>2, ObservedMore
    <3>5. Closed(messages) => Closed(messages')
      BY <1>2, <3>1, <3>2, ClosedMore
    <3>6. QED
      BY <2>2, <3>2, <3>3, <3>4, <3>5
  <2>3. QED
    BY <2>1, <2>2
<1>5. IsRoot' = IsRoot /\ stored' = IF IsRoot THEN [messages |-> held', completed |-> completed]
                                    ELSE stored
  BY <1>1 DEF PersistRoot, IsRoot
<1>6. held' \in Seq(Messages) /\ SystemFirst(held')
  BY <1>2, <1>4
<1>7. ConversationOK'
  <2>1. batch' \in Seq(Calls) /\ Len(batch') <= MaxBatch
    BY <1>1, <1>2, PendingTyped, ModelLoopAssumption
  <2>2. stored' \in [messages : Seq(Messages), completed : Completions]
    BY <1>5, <1>6 DEF ConversationInv, ConversationOK
  <2>3. QED
    BY <1>1, <1>4, <1>6, <2>1, <2>2 DEF ConversationInv, ConversationOK
<1>8. HeadInv'
  BY <1>1, <1>2, <1>4, <1>5, <1>6 DEF ConversationInv, HeadInv
<1>9. AnswerInv'
  <2> SUFFICES ASSUME ~spoiled PROVE AnswerInv'
    BY <1>1 DEF AnswerInv
  <2>1. Shaped(messages') /\ (~resumed => Closed(messages'))
    BY <1>2, <1>4 DEF Shaped
  <2>2. CASE Closed(messages')
    <3>1. batch' = <<>>
      BY <1>1, <1>2, <1>4, <2>2, PendingClosed
    <3>2. pc' = "entered"
      BY <1>1, <3>1
    <3>3. Shaped(held') /\ (~shared => Closed(held'))
      BY <1>2, <1>4, <2>2 DEF Shaped
    <3>4. QED
      BY <1>4, <1>5, <2>2, <3>2, <3>3 DEF AnswerInv
  <2>3. CASE ~Closed(messages')
    <3>1. PICK n \in Assistants(messages) : OpenAt(messages, n)
      BY <1>4, <2>1, <2>3 DEF Shaped
    <3>2. resumed /\ messages' = messages
      BY <1>4, <2>1, <2>3
    <3>3. batch' = Left(messages, n)
      BY <1>1, <1>2, <3>1, <3>2, PendingOpen
    <3>4. batch' # <<>>
      BY <1>2, <2>3, <3>1, <3>2, <3>3, OpenClosed
    <3>5. pc' = "batch"
      BY <1>1, <3>4
    <3>6. Shaped(held') /\ (~shared => Closed(held'))
      BY <1>2, <1>4, <2>1 DEF Shaped
    <3>7. QED
      BY <1>4, <1>5, <3>1, <3>2, <3>3, <3>5, <3>6 DEF AnswerInv
  <2>4. QED
    BY <2>2, <2>3
<1>10. CacheInv'
  <2>1. IsRoot => Observed(messages', 1) \cup Observed(held', 1) \subseteq DOMAIN completed
    <3>1. IsRoot => Observed(messages, 1) \subseteq DOMAIN completed
                    /\ Observed(held, 1) \subseteq DOMAIN completed
      BY DEF ConversationInv, CacheInv
    <3>2. IsRoot => Observed(messages', 1) \subseteq DOMAIN completed
      BY <1>4, <3>1
    <3>3. held' = messages' \/ held' = held
      BY <1>4
    <3>4. QED
      BY <3>1, <3>2, <3>3
  <2>2. QED
    BY <1>1, <1>5, <2>1 DEF ConversationInv, CacheInv, SavedObservationsCached
<1>11. QED
  BY <1>7, <1>8, <1>9, <1>10 DEF ConversationInv

\* A compaction leaves the list that is saved behind.
LEMMA CompactKeeps ==
  ASSUME ConversationInv, RestOK, Compact
  PROVE  ConversationInv'
<1>1. /\ pc = "step" /\ role' = role /\ completed' = completed /\ resumed' = resumed
      /\ spoiled' = spoiled /\ used' = [used EXCEPT !.compactions = @ + 1]
  BY DEF Compact, runtime
<1>2. used'.runs = used.runs
  BY <1>1 DEF RestOK
<1>3. CASE Refused
  BY <1>1, <1>2, <1>3, Closing DEF Refused, Between
<1>4. ASSUME NEW summarised \in BOOLEAN,
             LET short == IF LastDropped(messages) > 1
                            THEN Compressed(messages, summarised) ELSE messages
             IN  /\ shared' = (shared /\ short = messages)
                 /\ \/ /\ messages' = short
                       /\ UNCHANGED <<held, batch, outcome>>
                       /\ PersistRoot(completed)
                       /\ pc' = "ready"
                    \/ /\ MayRefuse
                       /\ messages' = Append(short, Assistant(<<>>))
                       /\ held' = IF shared' THEN messages' ELSE held
                       /\ PersistRoot(completed)
                       /\ outcome' = "error"
                       /\ pc' = "idle"
                       /\ batch' = <<>>
      PROVE  ConversationInv'
  <2> DEFINE short == IF LastDropped(messages) > 1
                        THEN Compressed(messages, summarised) ELSE messages
             m == Assistant(<<>>)
             more == short \o <<m>>
  <2>1. /\ messages \in Seq(Messages) /\ held \in Seq(Messages) /\ (shared => held = messages)
        /\ shared \in BOOLEAN
        /\ SystemFirst(messages) /\ SystemFirst(held) /\ used.runs # 0
        /\ ~spoiled => Closed(messages) /\ Closed(held)
    BY <1>1, Talking DEF ConversationInv, ConversationOK, HeadInv, Between
  <2>2. /\ short \in Seq(Messages) /\ SystemFirst(short) /\ (Closed(messages) => Closed(short))
        /\ \A S : Observed(messages, 1) \subseteq S => Observed(short, 1) \subseteq S
    BY <2>1, CompressedKeeps
  <2>3. m \in Messages /\ m.role = "assistant" /\ m.calls = <<>>
    BY MessagesMade
  <2> HIDE DEF short, m
  <2>4. /\ more \in Seq(Messages) /\ SystemFirst(more) /\ (Closed(messages) => Closed(more))
        /\ \A S : Observed(messages, 1) \subseteq S => Observed(more, 1) \subseteq S
        /\ more = Append(short, m)
    <3>1. more \in Seq(Messages) /\ SystemFirst(more) /\ more = Append(short, m)
      BY <2>2, <2>3, OneMore
    <3>2. Closed(messages) => Closed(more)
      BY <2>2, <2>3, ClosedMore
    <3>3. \A S : Observed(messages, 1) \subseteq S => Observed(more, 1) \subseteq S
      BY <2>2, <2>3, ObservedMore
    <3>4. QED
      BY <3>1, <3>2, <3>3
  <2> HIDE DEF more
  <2>5. shared' \in BOOLEAN /\ (shared' => shared /\ short = messages)
    BY <1>4, <2>1 DEF short
  <2>6. /\ messages' \in {short, more} /\ held' \in {held, messages'}
        /\ shared' => held' = messages'
        /\ PersistRoot(completed)
        /\ \/ batch' = batch /\ outcome' = outcome /\ pc' = "ready"
           \/ batch' = <<>> /\ outcome' = "error" /\ pc' = "idle"
    <3>1. \/ /\ messages' = short /\ held' = held /\ batch' = batch /\ outcome' = outcome
             /\ pc' = "ready" /\ PersistRoot(completed)
          \/ /\ messages' = more /\ held' = (IF shared' THEN messages' ELSE held)
             /\ batch' = <<>> /\ outcome' = "error" /\ pc' = "idle" /\ PersistRoot(completed)
      BY <1>4, <2>4 DEF short, m
    <3>2. QED
      BY <2>1, <2>5, <3>1
  <2>7. IsRoot' = IsRoot /\ stored' = IF IsRoot THEN [messages |-> held', completed |-> completed]
                                      ELSE stored
    BY <1>1, <2>6 DEF PersistRoot, IsRoot
  <2>8. /\ messages' \in Seq(Messages) /\ held' \in Seq(Messages)
        /\ SystemFirst(messages') /\ SystemFirst(held')
        /\ ~spoiled => Closed(messages') /\ Closed(held')
        /\ \A S : Observed(messages, 1) \cup Observed(held, 1) \subseteq S =>
                    Observed(messages', 1) \cup Observed(held', 1) \subseteq S
    BY <2>1, <2>2, <2>4, <2>6
  <2>9. ConversationOK'
    <3>1. stored' \in [messages : Seq(Messages), completed : Completions]
      BY <2>7, <2>8 DEF ConversationInv, ConversationOK
    <3>2. batch' \in Seq(Calls) /\ Len(batch') <= MaxBatch
      <4>1. <<>> \in Seq(Calls) /\ Len(<<>>) <= MaxBatch
        BY ModelLoopAssumption
      <4>2. batch \in Seq(Calls) /\ Len(batch) <= MaxBatch
        BY DEF ConversationInv, ConversationOK
      <4>3. QED
        BY <2>6, <4>1, <4>2
    <3>3. QED
      BY <1>1, <2>5, <2>6, <2>8, <3>1, <3>2 DEF ConversationInv, ConversationOK
  <2>10. HeadInv'
    BY <1>1, <1>2, <2>1, <2>6, <2>7, <2>8 DEF ConversationInv, HeadInv
  <2>11. AnswerInv'
    BY <1>1, <2>6, <2>7, <2>8 DEF AnswerInv, Shaped
  <2>12. CacheInv'
    <3>1. IsRoot => Observed(messages', 1) \cup Observed(held', 1) \subseteq DOMAIN completed
      BY <2>8 DEF ConversationInv, CacheInv
    <3>2. QED
      BY <1>1, <2>7, <3>1 DEF ConversationInv, CacheInv, SavedObservationsCached
  <2>13. QED
    BY <2>9, <2>10, <2>11, <2>12 DEF ConversationInv
<1>5. QED
  BY <1>3, <1>4 DEF Compact

\* An answer without calls.
LEMMA FinalAnswerKeeps ==
  ASSUME ConversationInv, RestOK, FinalAnswer
  PROVE  ConversationInv'
<1>1. /\ pc = "asked" /\ role' = role /\ completed' = completed /\ resumed' = resumed
      /\ spoiled' = spoiled /\ used' = used
  BY DEF FinalAnswer, history
<1>2. CASE ~MissingMutation(role, control)
  <2>1. Close("done")
    BY <1>2 DEF FinalAnswer
  <2>2. QED
    BY <1>1, <2>1, Closing DEF Between
<1>3. CASE MissingMutation(role, control)
  <2> DEFINE m == System({})
  <2>1. Say(<<m>>) /\ pc' = "top" /\ batch' = batch /\ stored' = stored /\ outcome' = outcome
    BY <1>3 DEF FinalAnswer
  <2>2. m \in Messages /\ m.role = "system"
    BY MessagesMade
  <2> HIDE DEF m
  <2>3. /\ messages' = messages \o <<m>>
        /\ messages' \in Seq(Messages) /\ held' \in Seq(Messages)
        /\ shared' = shared /\ held' = IF shared THEN messages' ELSE held
        /\ SystemFirst(messages) => SystemFirst(messages')
        /\ SystemFirst(held) => SystemFirst(held')
        /\ \A S : Observed(messages, 1) \cup Observed(held, 1) \subseteq S
                    /\ (m.role = "tool" => m.id \in S)
                  => Observed(messages', 1) \cup Observed(held', 1) \subseteq S
    BY <2>1, <2>2, Spoken
  <2>4. /\ messages \in Seq(Messages)
        /\ SystemFirst(messages) /\ SystemFirst(held) /\ used.runs # 0
        /\ IsRoot => SystemFirst(stored.messages)
        /\ ~spoiled => /\ Closed(messages) /\ (~shared => Closed(held))
                       /\ IsRoot => Shaped(stored.messages)
    BY <1>1, Talking DEF ConversationInv, ConversationOK, Between
  <2>5. ConversationOK'
    BY <1>1, <2>1, <2>3 DEF ConversationInv, ConversationOK
  <2>6. IsRoot' = IsRoot
    BY <1>1 DEF IsRoot
  <2>7. HeadInv'
    BY <1>1, <2>1, <2>3, <2>4, <2>6 DEF ConversationInv, HeadInv
  <2>8. Closed(messages) => Closed(messages')
    BY <2>2, <2>3, <2>4, ClosedMore
  <2>9. AnswerInv'
    BY <1>1, <2>1, <2>3, <2>4, <2>6, <2>8 DEF AnswerInv
  <2>10. CacheInv'
    <3>1. IsRoot => Observed(messages', 1) \cup Observed(held', 1) \subseteq DOMAIN completed
      BY <2>2, <2>3 DEF ConversationInv, CacheInv
    <3>2. QED
      BY <1>1, <2>1, <2>6, <3>1 DEF ConversationInv, CacheInv, SavedObservationsCached
  <2>11. QED
    BY <2>5, <2>7, <2>9, <2>10 DEF ConversationInv
<1>4. QED
  BY <1>2, <1>3

\* An answer with calls opens the conversation, which the batch is to close.
LEMMA ToolAnswerKeeps ==
  ASSUME ConversationInv, RestOK, ToolAnswer
  PROVE  ConversationInv'
<1>1. PICK b \in Batches : /\ used' = [used EXCEPT !.calls = @ + Len(b)]
                           /\ Say(<<Assistant(b)>>) /\ batch' = b
  BY DEF ToolAnswer
<1>2. /\ pc = "asked" /\ pc' = "batch" /\ role' = role /\ completed' = completed
      /\ outcome' = outcome /\ resumed' = resumed /\ spoiled' = spoiled
      /\ PersistRoot(completed)
  BY DEF ToolAnswer, runtime
<1>3. used'.runs = used.runs
  BY <1>1 DEF RestOK
<1> DEFINE m == Assistant(b)
<1>4. m \in Messages /\ m.role = "assistant" /\ m.calls = b
  BY MessagesMade
<1> HIDE DEF m
<1>5. b \in Seq(Calls) /\ Len(b) <= MaxBatch /\ b # <<>>
  <2>1. b \in Seq(Calls) /\ Len(b) <= MaxBatch
    BY <1>4, MessageTyped
  <2>2. PICK n \in 1..MaxBatch : b \in [1..n -> Calls]
    BY DEF Batches
  <2>3. Len(b) = n /\ n >= 1
    BY <2>1, <2>2, ModelLoopAssumption
  <2>4. Len(<<>>) = 0
    OBVIOUS
  <2>5. QED
    BY <2>1, <2>3, <2>4
<1>6. /\ messages' = messages \o <<m>>
      /\ messages' \in Seq(Messages) /\ held' \in Seq(Messages)
      /\ shared' = shared /\ held' = IF shared THEN messages' ELSE held
      /\ SystemFirst(messages) => SystemFirst(messages')
      /\ SystemFirst(held) => SystemFirst(held')
      /\ \A S : Observed(messages, 1) \cup Observed(held, 1) \subseteq S
                  /\ (m.role = "tool" => m.id \in S)
                => Observed(messages', 1) \cup Observed(held', 1) \subseteq S
  BY <1>1, <1>4, Spoken DEF m
<1>7. /\ messages \in Seq(Messages)
      /\ SystemFirst(messages) /\ SystemFirst(held) /\ used.runs # 0
      /\ ~spoiled => Closed(messages) /\ (~shared => Closed(held))
  BY <1>2, Talking DEF ConversationInv, ConversationOK, Between
<1>8. IsRoot' = IsRoot /\ stored' = IF IsRoot THEN [messages |-> held', completed |-> completed]
                                    ELSE stored
  BY <1>2 DEF PersistRoot, IsRoot
<1>9. ConversationOK'
  <2>1. stored' \in [messages : Seq(Messages), completed : Completions]
    BY <1>6, <1>8 DEF ConversationInv, ConversationOK
  <2>2. QED
    BY <1>1, <1>2, <1>5, <1>6, <2>1 DEF ConversationInv, ConversationOK
<1>10. HeadInv'
  BY <1>2, <1>3, <1>6, <1>7, <1>8 DEF ConversationInv, HeadInv
<1>11. AnswerInv'
  <2> SUFFICES ASSUME ~spoiled PROVE AnswerInv'
    BY <1>2 DEF AnswerInv
  <2>1. PICK n : n = Len(messages) + 1
    OBVIOUS
  <2>2. OpenAt(messages', n) /\ Left(messages', n) = b
    BY <1>4, <1>6, <1>7, <2>1, ClosedMore
  <2>3. n \in Assistants(messages')
    BY <2>2 DEF OpenAt
  <2>4. Shaped(held') /\ (~shared => Closed(held'))
    BY <1>6, <1>7, <2>2, <2>3 DEF Shaped
  <2>5. QED
    BY <1>1, <1>2, <1>6, <1>8, <2>2, <2>3, <2>4 DEF AnswerInv
<1>12. CacheInv'
  <2>1. IsRoot => Observed(messages', 1) \cup Observed(held', 1) \subseteq DOMAIN completed
    BY <1>4, <1>6 DEF ConversationInv, CacheInv
  <2>2. QED
    BY <1>2, <1>8, <2>1 DEF ConversationInv, CacheInv, SavedObservationsCached
<1>13. QED
  BY <1>9, <1>10, <1>11, <1>12 DEF ConversationInv

\* A cancellation leaves what a resumption can close.
LEMMA CancelKeeps ==
  ASSUME ConversationInv, RestOK, Cancel
  PROVE  ConversationInv'
<1>1. /\ pc # "idle" /\ pc' = "idle" /\ batch' = <<>> /\ role' = role
      /\ messages' = messages /\ held' = held /\ shared' = shared
      /\ completed' = completed /\ spoiled' = spoiled
      /\ outcome' = IF IsRoot THEN "cancelled" ELSE "lost"
      /\ used' = [used EXCEPT !.stops = @ + 1]
  BY DEF Cancel, conversation
<1>2. used'.runs = used.runs
  BY <1>1 DEF RestOK
<1>3. IsRoot' = IsRoot /\ IF IsRoot
                            THEN \E ms \in {messages, held} :
                                   stored' = [messages |-> ms, completed |-> completed]
                            ELSE stored' = stored
  BY <1>1 DEF Cancel, IsRoot
<1>4. /\ messages \in Seq(Messages) /\ held \in Seq(Messages) /\ (shared => held = messages)
      /\ SystemFirst(messages) /\ SystemFirst(held) /\ used.runs # 0
      /\ ~spoiled => (~shared => Closed(held))
  BY <1>1, Talking DEF ConversationInv, ConversationOK, HeadInv
<1>5. ConversationOK'
  <2>1. <<>> \in Seq(Calls) /\ Len(<<>>) <= MaxBatch
    BY ModelLoopAssumption
  <2>2. stored' \in [messages : Seq(Messages), completed : Completions]
    BY <1>3, <1>4 DEF ConversationInv, ConversationOK
  <2>3. QED
    BY <1>1, <2>1, <2>2 DEF ConversationInv, ConversationOK
<1>6. HeadInv'
  BY <1>1, <1>2, <1>3, <1>4 DEF ConversationInv, HeadInv
<1>7. AnswerInv'
  <2> SUFFICES ASSUME ~spoiled PROVE AnswerInv'
    BY <1>1 DEF AnswerInv
  <2>1. Shaped(messages)
    BY <1>1 DEF ConversationInv, AnswerInv, Shaped, RestOK
  <2>2. Shaped(held)
    BY <1>4, <2>1 DEF Shaped
  <2>3. IsRoot => Shaped(stored'.messages)
    BY <1>3, <2>1, <2>2
  <2>4. QED
    BY <1>1, <1>3, <1>4, <2>3 DEF AnswerInv
<1>8. CacheInv'
  BY <1>1, <1>3 DEF ConversationInv, CacheInv, SavedObservationsCached
<1>9. QED
  BY <1>5, <1>6, <1>7, <1>8 DEF ConversationInv

\* A death leaves what was saved.
LEMMA DieKeeps ==
  ASSUME ConversationInv, RestOK, Die
  PROVE  ConversationInv'
<1>1. /\ IsRoot /\ pc # "idle" /\ pc' = "idle" /\ batch' = <<>> /\ role' = role
      /\ messages' = <<>> /\ held' = <<>> /\ shared' = shared
      /\ completed' = <<>> /\ stored' = stored /\ spoiled' = spoiled /\ outcome' = "dead"
      /\ used' = [used EXCEPT !.stops = @ + 1]
  BY DEF Die
<1>2. used'.runs = used.runs /\ IsRoot' = IsRoot
  BY <1>1 DEF RestOK, IsRoot
<1>3. /\ Closed(<<>>) /\ Observed(<<>>, 1) = {} /\ <<>> \in Seq(Messages)
      /\ <<>> \in Seq(Calls) /\ Len(<<>>) <= MaxBatch
      /\ <<>> \in Completions
  <2>1. used.runs \in Nat /\ used.runs <= Len(Requests)
    BY ModelLoopAssumption DEF RestOK
  <2>2. QED
    BY <2>1, Beginnings, NothingCompleted, ModelLoopAssumption
<1>4. SystemFirst(stored.messages) /\ used.runs # 0 /\ (~spoiled => Shaped(stored.messages))
  BY <1>1, Talking
<1>5. ConversationOK'
  BY <1>1, <1>3 DEF ConversationInv, ConversationOK
<1>6. HeadInv'
  BY <1>1, <1>2, <1>4 DEF HeadInv
<1>7. AnswerInv'
  BY <1>1, <1>2, <1>3, <1>4 DEF AnswerInv
<1>8. CacheInv'
  BY <1>1, <1>2, <1>3 DEF ConversationInv, CacheInv, SavedObservationsCached
<1>9. QED
  BY <1>5, <1>6, <1>7, <1>8 DEF ConversationInv

\* Every step of the loop keeps what is known of its conversations.
LEMMA ConversationStep ==
  ASSUME ConversationInv, RestOK, [Next]_vars
  PROVE  ConversationInv'
<1>1. CASE StartTurn \/ StartActor \/ Resume
  BY <1>1, ConversationStarts
<1>2. CASE Enter
  BY <1>2, EnterKeeps
<1>3. CASE EnterLoop
  <2>1. /\ pc = "entered" /\ role' = role /\ completed' = completed /\ spoiled' = spoiled
        /\ used' = used
    BY <1>3 DEF EnterLoop, history
  <2>2. CASE Refused
    BY <2>1, <2>2, Closing DEF Refused, Between
  <2>3. CASE ~Refused
    <3>1. /\ pc' = "top" /\ messages' = messages /\ held' = held /\ shared' = shared
          /\ batch' = batch /\ stored' = stored /\ outcome' = outcome
      BY <1>3, <2>3 DEF EnterLoop, conversation
    <3>2. QED
      BY <2>1, <3>1, Staying DEF Between
  <2>4. QED
    BY <2>2, <2>3
<1>4. CASE NextStep
  <2>1. /\ pc = "top" /\ role' = role /\ completed' = completed /\ spoiled' = spoiled
        /\ used' = used
    BY <1>4 DEF NextStep, history
  <2>2. CASE Close("error")
    BY <2>1, <2>2, Closing DEF Between
  <2>3. CASE ~Close("error")
    <3>1. /\ pc' = "step" /\ messages' = messages /\ held' = held /\ shared' = shared
          /\ batch' = batch /\ stored' = stored /\ outcome' = outcome
      BY <1>4, <2>3 DEF NextStep, conversation
    <3>2. QED
      BY <2>1, <3>1, Staying DEF Between
  <2>4. QED
    BY <2>2, <2>3
<1>5. CASE Compact
  BY <1>5, CompactKeeps
<1>6. CASE KeepMessages
  <2>1. /\ pc = "step" /\ pc' = "ready" /\ role' = role /\ completed' = completed
        /\ spoiled' = spoiled /\ used' = used
        /\ messages' = messages /\ held' = held /\ shared' = shared
        /\ batch' = batch /\ outcome' = outcome
        /\ stored' = stored \/ PersistRoot(completed)
    BY <1>6 DEF KeepMessages, conversation, history
  <2>2. \/ stored' = stored
        \/ IsRoot /\ stored' = [messages |-> held, completed |-> completed]
    BY <2>1 DEF PersistRoot
  <2>3. QED
    BY <2>1, <2>2, Staying DEF Between
<1>7. CASE AskModel
  <2>1. /\ pc = "ready" /\ role' = role /\ completed' = completed /\ spoiled' = spoiled
        /\ used' = used
    BY <1>7 DEF AskModel, history
  <2>2. CASE Refused
    BY <2>1, <2>2, Closing DEF Refused, Between
  <2>3. CASE ~Refused
    <3>1. /\ pc' = "asked" /\ messages' = messages /\ held' = held /\ shared' = shared
          /\ batch' = batch /\ stored' = stored /\ outcome' = outcome
      BY <1>7, <2>3 DEF AskModel, conversation
    <3>2. QED
      BY <2>1, <3>1, Staying DEF Between
  <2>4. QED
    BY <2>2, <2>3
<1>8. CASE ModelFails
  BY <1>8, Closing DEF ModelFails, Refused, Between, history
<1>9. CASE FinalAnswer
  BY <1>9, FinalAnswerKeeps
<1>10. CASE ToolAnswer
  BY <1>10, ToolAnswerKeeps
<1>11. CASE AnswerInstead
  <2>1. pc = "batch" /\ used' = used
    BY <1>11 DEF AnswerInstead
  <2>2. Considered.verdict # "run" /\ pc = "batch" => Considered.verdict \in {"ok", "fail"}
    BY DEF Considered, Consider
  <2>3. \E result \in {"ok", "unchanged", "fail", "fatal"} : Finish(result)
    BY <1>11, <2>2 DEF AnswerInstead
  <2>4. QED
    BY <2>1, <2>3, Finishing
<1>12. CASE GatewayDenies
  <2>1. pc = "batch" /\ used' = used /\ Finish("fail")
    BY <1>12 DEF GatewayDenies
  <2>2. QED
    BY <2>1, Finishing
<1>13. CASE Dispatch
  <2>1. /\ pc = "batch" /\ pc' = "running" /\ role' = role /\ completed' = completed
        /\ spoiled' = spoiled /\ used' = used
        /\ messages' = messages /\ held' = held /\ shared' = shared
        /\ batch' = batch /\ outcome' = outcome /\ stored' = stored
    BY <1>13 DEF Dispatch, conversation
  <2>2. QED
    BY <2>1, Staying
<1>14. CASE ToolReturns
  <2>1. pc = "running" /\ used' = used
    BY <1>14 DEF ToolReturns
  <2>2. \E result \in {"ok", "unchanged", "fail", "fatal"} : Finish(result)
    BY <1>14 DEF ToolReturns
  <2>3. QED
    BY <2>1, <2>2, Finishing
<1>15. CASE Cancel
  BY <1>15, CancelKeeps
<1>16. CASE Die
  BY <1>16, DieKeeps
<1>17. CASE UNCHANGED vars
  BY <1>17 DEF vars, conversation, runtime, history, ConversationInv, ConversationOK, HeadInv,
               AnswerInv, CacheInv, SavedObservationsCached, IsRoot
<1>18. QED
  BY <1>1, <1>2, <1>3, <1>4, <1>5, <1>6, <1>7, <1>8, <1>9, <1>10, <1>11, <1>12, <1>13, <1>14,
     <1>15, <1>16, <1>17 DEF Next

-----------------------------------------------------------------------------
(***************************************************************************)
(* The window and the allowances                                           *)
(***************************************************************************)
PolicyInv == WindowInv /\ AllowanceInv

\* The call at hand.
LEMMA CallTyped ==
  ASSUME ConversationInv, pc \in {"batch", "running"}
  PROVE  call \in Calls /\ call.id \in CallIds /\ call.action \in Actions
<1>1. batch \in Seq(Calls) /\ batch # <<>>
  BY DEF ConversationInv, ConversationOK
<1>2. call \in Calls
  BY <1>1, HeadTailProperties DEF call
<1>3. QED
  BY <1>2 DEF Calls

\* What is let through is counted; a call not let through changes no window.
LEMMA ConsideredNow ==
  ASSUME ConversationInv, RestOK, WindowInv, pc = "batch"
  PROVE  LET c == Considered
             k == c.control
         IN  /\ c.verdict \in {"ok", "fail", "run"}
             /\ k \in Controls /\ Locks(k)
             /\ IF c.verdict = "run"
                  THEN ~RepeatedAction(control, call.action)
                       /\ k.recent = Moved(control.recent, call.action)
                  ELSE k.recent = control.recent
             /\ k.delegated = control.delegated /\ k.mutated = control.mutated
             /\ control.explored <= k.explored /\ control.planned <= k.planned
             /\ (control.actorLocked <=> control.explored = ActorExplorationLimit)
                  => (k.actorLocked <=> k.explored = ActorExplorationLimit)
             /\ (control.plannerLocked <=> control.planned = PlannerExplorationLimit)
                  => (k.plannerLocked <=> k.planned = PlannerExplorationLimit)
             /\ c.verdict = "run" =>
                  /\ role \in {"coder", "verifier"} /\ ~control.mutated
                       /\ call.action.tool \in ExplorationTools \cup {"run_reader"}
                     => k.explored = control.explored + 1
                  /\ role = "root" /\ ~control.delegated
                       /\ call.action.tool \in ExplorationTools
                     => k.planned = control.planned + 1
<1>1. role \in Roles /\ control \in Controls /\ Locks(control)
  BY ModelLoopAssumption DEF RestOK
<1>2. Len(control.recent) <= RecentActions
  <2>1. Len(control.recent) = IF Len(trace) < RecentActions THEN Len(trace) ELSE RecentActions
    BY DEF WindowInv
  <2>2. Len(trace) \in Nat /\ RecentActions \in Nat
    BY LoopControlAssumption DEF RestOK
  <2>3. QED
    BY <2>1, <2>2
<1>3. call.action \in Actions
  BY CallTyped
<1>4. QED
  BY <1>1, <1>2, <1>3, Considering DEF Considered

\* Where neither the trace nor the state of the policy changes.
LEMMA PolicyKept ==
  ASSUME PolicyInv, role' = role, control' = control, trace' = trace
  PROVE  PolicyInv'
<1>1. WindowInv'
  <2>1. NoThirdRepetition => NoThirdRepetition'
    BY DEF NoThirdRepetition
  <2>2. QED
    BY <2>1 DEF PolicyInv, WindowInv
<1>2. EarlyReads' = EarlyReads
  BY DEF EarlyReads, Reads, Frees
<1>3. (\E i \in DOMAIN trace : Frees(trace[i])) => (\E i \in DOMAIN trace : Frees(trace[i]))'
  BY DEF Frees
<1>4. ExplorationBounded /\ Cardinality(EarlyReads') = Cardinality(EarlyReads)
  BY <1>2 DEF PolicyInv, AllowanceInv
<1>5. ExplorationBounded'
  BY <1>4 DEF ExplorationBounded
<1>6. AllowanceInv'
  BY <1>3, <1>4, <1>5 DEF PolicyInv, AllowanceInv
<1>7. QED
  BY <1>1, <1>6 DEF PolicyInv

\* A new runtime has let nothing through.
LEMMA PolicyFresh ==
  ASSUME control = Fresh, trace = <<>>
  PROVE  PolicyInv
<1>1. DOMAIN trace = {} /\ Len(trace) = 0 /\ Len(<<>>) = 0 /\ DOMAIN <<>> = {}
  OBVIOUS
<1>2. RecentActions \in Nat \ {0} /\ ActorExplorationLimit \in Nat \ {0}
      /\ PlannerExplorationLimit \in Nat \ {0}
  BY LoopControlAssumption
<1>3. WindowInv
  BY <1>1, <1>2, FreshControl DEF WindowInv, NoThirdRepetition
<1>4. Cardinality(EarlyReads) = 0
  <2>1. EarlyReads = {}
    BY <1>1 DEF EarlyReads
  <2>2. QED
    BY <2>1, FS_EmptySet
<1>5. AllowanceInv
  BY <1>2, <1>4, FreshControl DEF AllowanceInv, ExplorationBounded
<1>6. QED
  BY <1>3, <1>5 DEF PolicyInv

\* The reads before the first change or delegation are finitely many.
LEMMA EarlyReadsFinite ==
  ASSUME RestOK
  PROVE  /\ EarlyReads \subseteq 1..Len(trace) /\ IsFiniteSet(EarlyReads)
         /\ Cardinality(EarlyReads) \in Nat /\ Len(trace) \in Nat /\ DOMAIN trace = 1..Len(trace)
<1>1. Len(trace) \in Nat /\ DOMAIN trace = 1..Len(trace)
  BY DEF RestOK
<1>2. EarlyReads \subseteq 1..Len(trace) /\ IsFiniteSet(1..Len(trace))
  BY <1>1, FS_Interval DEF EarlyReads
<1>3. QED
  BY <1>1, <1>2, FS_Subset, FS_CardinalityType

\* Two that differ are two.
LEMMA TwoApart ==
  ASSUME NEW p, NEW q, p # q
  PROVE  Cardinality({p} \cup {q}) = 2
<1>1. IsFiniteSet({p}) /\ Cardinality({p}) = 1 /\ q \notin {p}
  BY FS_Singleton
<1>2. Cardinality({p} \cup {q}) = Cardinality({p}) + 1
  BY <1>1, FS_AddElement
<1>3. QED
  BY <1>1, <1>2

\* A call is let through, with the result it has until it returns, if ever.
LEMMA WindowLetThrough ==
  ASSUME ConversationInv, RestOK, WindowInv, pc = "batch", Considered.verdict = "run",
         control' = Considered.control,
         NEW result \in Results, trace' = Append(trace, [call |-> call, result |-> result])
  PROVE  WindowInv'
<1> DEFINE a == call.action
           R == control.recent
           w == control'.recent
           L == Len(trace)
           M == Len(R)
<1>1. /\ trace' \in Seq([call : Calls, result : Results]) /\ L \in Nat /\ Len(trace') = L + 1
      /\ \A i \in 1..L : trace'[i] = trace[i]
      /\ trace'[L + 1].call.action = a
      /\ DOMAIN trace = 1..L /\ DOMAIN trace' = 1..L + 1
  <2> DEFINE T == [call : Calls, result : Results]
             t == [call |-> call, result |-> result]
  <2>1. trace \in Seq(T) /\ t \in T /\ t.call = call
    BY CallTyped DEF RestOK
  <2> HIDE DEF T, t
  <2>2. Append(trace, t) \in Seq(T) /\ Len(Append(trace, t)) = Len(trace) + 1
        /\ (\A i \in 1..Len(trace) : Append(trace, t)[i] = trace[i])
        /\ Append(trace, t)[Len(trace) + 1] = t
    BY <2>1
  <2>3. trace' = Append(trace, t)
    BY DEF t
  <2>4. DOMAIN trace = 1..L /\ L \in Nat /\ DOMAIN trace' = 1..Len(trace')
    BY <2>1, <2>2, <2>3
  <2>5. QED
    BY <2>1, <2>2, <2>3, <2>4 DEF T
<1>2. /\ R \in Seq(Actions) /\ M \in Nat /\ RecentActions \in Nat /\ RecentActions >= 1
      /\ M = IF L < RecentActions THEN L ELSE RecentActions
      /\ \A i \in 1..M : R[i] = trace[L - M + i].call.action
      /\ NoThirdRepetition
  <2>1. R \in Seq(Actions)
    BY DEF RestOK, Controls
  <2>2. /\ M = IF L < RecentActions THEN L ELSE RecentActions
        /\ \A i \in 1..M : R[i] = trace[L - M + i].call.action
        /\ NoThirdRepetition
    BY DEF WindowInv
  <2>3. RecentActions \in Nat /\ RecentActions >= 1
    BY LoopControlAssumption
  <2> HIDE DEF R, L
  <2>4. M \in Nat
    BY <2>1
  <2>5. QED
    BY <2>1, <2>2, <2>3, <2>4
<1>3. /\ w = Moved(R, a) /\ ~RepeatedAction(control, a) /\ a \in Actions
  BY ConsideredNow, CallTyped
<1> HIDE DEF a, R, w, L
<1>4. /\ w \in Seq(Actions)
      /\ Len(w) = IF M < RecentActions THEN M + 1 ELSE RecentActions
      /\ w[Len(w)] = a
      /\ \A i \in 1..Len(w) - 1 : w[i] = R[M - Len(w) + 1 + i]
  <2>1. M <= RecentActions
    BY <1>1, <1>2
  <2>2. QED
    BY <1>2, <1>3, <2>1, WindowMoved
<1> HIDE DEF M
<1>5. Len(w) = IF L + 1 < RecentActions THEN L + 1 ELSE RecentActions
  BY <1>1, <1>2, <1>4
<1>6. \A i \in 1..Len(w) : w[i] = trace'[L + 1 - Len(w) + i].call.action
  <2> SUFFICES ASSUME NEW i \in 1..Len(w)
               PROVE  w[i] = trace'[L + 1 - Len(w) + i].call.action
    OBVIOUS
  <2>1. CASE i = Len(w)
    <3>1. L + 1 - Len(w) + i = L + 1
      BY <1>1, <1>4, <2>1
    <3>2. QED
      BY <1>1, <1>4, <2>1, <3>1
  <2>2. CASE i # Len(w)
    <3> DEFINE q == M - Len(w) + 1 + i
    <3>1. i \in 1..Len(w) - 1 /\ q \in 1..M
      BY <1>1, <1>2, <1>4, <2>2
    <3>2. L - M + q = L + 1 - Len(w) + i /\ L - M + q \in 1..L
      BY <1>1, <1>2, <1>4, <3>1
    <3>3. w[i] = R[q]
      BY <1>4, <3>1
    <3> HIDE DEF q
    <3>4. R[q] = trace[L - M + q].call.action
      BY <1>2, <3>1
    <3>5. trace'[L - M + q] = trace[L - M + q]
      BY <1>1, <3>2
    <3>6. QED
      BY <3>2, <3>3, <3>4, <3>5
  <2>3. QED
    BY <2>1, <2>2
<1>7. ASSUME NEW i \in 1..L + 1, NEW j \in 1..L + 1, NEW k \in 1..L + 1,
             i < j, j < k, k < i + RecentActions + 1,
             trace'[i].call.action = trace'[j].call.action,
             trace'[j].call.action = trace'[k].call.action
      PROVE  FALSE
  <2>1. i \in 1..L /\ j \in 1..L /\ trace'[i] = trace[i] /\ trace'[j] = trace[j]
    BY <1>1, <1>7
  <2>2. CASE k \in 1..L
    <3>1. trace'[k] = trace[k]
      BY <1>1, <2>2
    <3>2. i \in DOMAIN trace /\ j \in DOMAIN trace /\ k \in DOMAIN trace
      BY <1>1, <2>1, <2>2
    <3>3. trace[i].call.action = trace[j].call.action
          /\ trace[j].call.action = trace[k].call.action
      BY <1>7, <2>1, <3>1
    <3>4. NoThirdRepetition
      BY <1>2
    <3>5. QED
      BY <1>7, <3>2, <3>3, <3>4 DEF NoThirdRepetition
  <2>3. CASE k = L + 1
    <3>1. trace[i].call.action = a /\ trace[j].call.action = a
      BY <1>1, <1>7, <2>1, <2>3
    <3> DEFINE p == i - (L - M)
               q == j - (L - M)
               two == {p} \cup {q}
               equal == {x \in DOMAIN R : R[x] = a}
    <3>2. p \in 1..M /\ q \in 1..M /\ p # q /\ L - M + p = i /\ L - M + q = j
      BY <1>1, <1>2, <1>7, <2>1, <2>3
    <3> HIDE DEF p, q
    <3>3. R[p] = a /\ R[q] = a
      BY <1>2, <3>1, <3>2
    <3>4. DOMAIN R = 1..M
      BY <1>2 DEF M
    <3>5. two \subseteq equal /\ equal \subseteq 1..M
      BY <3>2, <3>3, <3>4
    <3>6. IsFiniteSet(equal) /\ Cardinality(equal) \in Nat
      <4>1. IsFiniteSet(1..M)
        BY <1>2, FS_Interval
      <4>2. QED
        BY <3>5, <4>1, FS_Subset, FS_CardinalityType
    <3>7. Cardinality(two) = 2
      BY <3>2, TwoApart DEF two
    <3> HIDE DEF equal, two
    <3>8. Cardinality(equal) >= 2
      BY <3>5, <3>6, <3>7, FS_Subset
    <3>9. QED
      BY <1>3, <3>8 DEF RepeatedAction, equal, R
  <2>4. QED
    BY <1>1, <2>2, <2>3
<1>8. NoThirdRepetition'
  BY <1>1, <1>7 DEF NoThirdRepetition
<1>9. QED
  <2>1. /\ Len(w) = IF Len(trace') < RecentActions THEN Len(trace') ELSE RecentActions
        /\ \A i \in 1..Len(w) : w[i] = trace'[Len(trace') - Len(w) + i].call.action
    BY <1>1, <1>5, <1>6
  <2>2. QED
    BY <1>8, <2>1 DEF WindowInv, w

\* A call that is let through was within its allowance.
LEMMA AllowanceLetThrough ==
  ASSUME ConversationInv, RestOK, PolicyInv, pc = "batch", Considered.verdict = "run",
         control' = Considered.control, role' = role,
         NEW result \in {"denied", "started"},
         trace' = Append(trace, [call |-> call, result |-> result])
  PROVE  AllowanceInv'
<1> DEFINE t == [call |-> call, result |-> result]
           L == Len(trace)
           freed == \E i \in DOMAIN trace : Frees(trace[i])
           reads == call.action.tool \in ExplorationTools \cup
                      (IF IsActor(role) THEN {"run_reader"} ELSE {})
           lim == IF role = "root" THEN PlannerExplorationLimit ELSE ActorExplorationLimit
<1>1. /\ L \in Nat /\ DOMAIN trace = 1..L /\ DOMAIN trace' = 1..L + 1
      /\ \A i \in 1..L : trace'[i] = trace[i]
      /\ trace'[L + 1] = t
  <2> DEFINE T == [call : Calls, result : Results]
  <2>1. trace \in Seq(T) /\ t \in T
    BY CallTyped DEF RestOK, Results
  <2> HIDE DEF T, t
  <2>2. Append(trace, t) \in Seq(T) /\ Len(Append(trace, t)) = Len(trace) + 1
        /\ (\A i \in 1..Len(trace) : Append(trace, t)[i] = trace[i])
        /\ Append(trace, t)[Len(trace) + 1] = t
    BY <2>1
  <2>3. trace' = Append(trace, t)
    BY DEF t
  <2>4. DOMAIN trace = 1..L /\ L \in Nat /\ DOMAIN trace' = 1..Len(trace')
    BY <2>1, <2>2, <2>3
  <2>5. QED
    BY <2>2, <2>3, <2>4
<1>2. /\ EarlyReads \subseteq 1..L /\ IsFiniteSet(EarlyReads) /\ Cardinality(EarlyReads) \in Nat
  BY EarlyReadsFinite
<1>3. t.call = call /\ t.result # "ok"
  OBVIOUS
<1> HIDE DEF t, L
<1>4. /\ \A i \in 1..L : /\ Frees(trace[i])' <=> Frees(trace[i])
                         /\ Reads(trace[i])' <=> Reads(trace[i])
      /\ Reads(t) <=> reads
      /\ ~Frees(t)
  BY <1>1, <1>3 DEF Frees, Reads
<1>5. EarlyReads' \subseteq EarlyReads \cup {L + 1}
  <2> SUFFICES ASSUME NEW i \in EarlyReads', i # L + 1 PROVE i \in EarlyReads
    OBVIOUS
  <2>1. i \in 1..L
    BY <1>1 DEF EarlyReads
  <2>2. \A j \in 1..i : j \in 1..L
    BY <1>1, <2>1
  <2>3. Reads(trace[i])' /\ \A j \in 1..i : ~Frees(trace[j])'
    BY DEF EarlyReads
  <2>4. Reads(trace[i]) /\ \A j \in 1..i : ~Frees(trace[j])
    BY <1>4, <2>1, <2>2, <2>3
  <2>5. QED
    BY <1>1, <2>1, <2>4 DEF EarlyReads
<1>6. freed \/ ~reads => EarlyReads' \subseteq EarlyReads
  <2> SUFFICES ASSUME freed \/ ~reads, L + 1 \in EarlyReads' PROVE FALSE
    BY <1>5
  <2>0. PICK n : n = L + 1
    OBVIOUS
  <2>1. Reads(trace[n])' /\ \A j \in 1..n : ~Frees(trace[j])'
    BY <2>0 DEF EarlyReads
  <2>2. reads
    <3>1. trace'[n] = t
      BY <1>1, <2>0
    <3>2. Reads(trace[n])' <=> Reads(t)
      BY <3>1 DEF Reads
    <3>3. QED
      BY <1>4, <2>1, <3>2
  <2>3. \A j \in 1..L : j \in 1..n
    BY <1>1, <2>0
  <2>4. ~freed
    BY <1>1, <1>4, <2>1, <2>3
  <2>5. QED
    BY <2>2, <2>4
<1>7. freed => \E i \in DOMAIN trace' : Frees(trace[i])'
  <2>1. \A j \in 1..L : j \in 1..L + 1
    BY <1>1
  <2>2. QED
    BY <1>1, <1>4, <2>1
<1>8. /\ Cardinality(EarlyReads') \in Nat /\ Cardinality(EarlyReads') <= Cardinality(EarlyReads) + 1
      /\ freed \/ ~reads => Cardinality(EarlyReads') <= Cardinality(EarlyReads)
  <2>1. IsFiniteSet(EarlyReads \cup {L + 1})
        /\ Cardinality(EarlyReads \cup {L + 1}) \in Nat
        /\ Cardinality(EarlyReads \cup {L + 1}) <= Cardinality(EarlyReads) + 1
    <3>1. L + 1 \notin EarlyReads
      BY <1>1, <1>2
    <3>2. /\ IsFiniteSet(EarlyReads \cup {L + 1})
          /\ Cardinality(EarlyReads \cup {L + 1}) = Cardinality(EarlyReads) + 1
      BY <1>2, <3>1, FS_AddElement
    <3>3. QED
      BY <1>2, <3>2
  <2>2. /\ IsFiniteSet(EarlyReads') /\ Cardinality(EarlyReads') \in Nat
        /\ Cardinality(EarlyReads') <= Cardinality(EarlyReads \cup {L + 1})
    BY <1>5, <2>1, FS_Subset, FS_CardinalityType
  <2>3. freed \/ ~reads => Cardinality(EarlyReads') <= Cardinality(EarlyReads)
    BY <1>2, <1>6, FS_Subset
  <2>4. QED
    BY <1>2, <2>1, <2>2, <2>3
<1> HIDE DEF reads
<1>9. /\ control \in Controls /\ control' \in Controls
      /\ control'.delegated = control.delegated /\ control'.mutated = control.mutated
      /\ control.explored <= control'.explored /\ control.planned <= control'.planned
      /\ (control.actorLocked <=> control.explored = ActorExplorationLimit)
           => (control'.actorLocked <=> control'.explored = ActorExplorationLimit)
      /\ (control.plannerLocked <=> control.planned = PlannerExplorationLimit)
           => (control'.plannerLocked <=> control'.planned = PlannerExplorationLimit)
      /\ role \in {"coder", "verifier"} /\ ~control.mutated /\ reads
           => control'.explored = control.explored + 1
      /\ role = "root" /\ ~control.delegated /\ reads
           => control'.planned = control.planned + 1
  BY ConsideredNow, Abilities DEF PolicyInv, RestOK, reads
<1> HIDE DEF freed
<1>10. CASE role \in {"coder", "verifier"}
  <2>1. /\ Cardinality(EarlyReads) <= ActorExplorationLimit
        /\ IF control.mutated THEN freed
           ELSE /\ Cardinality(EarlyReads) <= control.explored
                /\ control.actorLocked <=> control.explored = ActorExplorationLimit
    BY <1>10 DEF PolicyInv, AllowanceInv, ExplorationBounded, freed
  <2>2. /\ control.explored \in Nat /\ control'.explored \in Nat
        /\ control'.explored <= ActorExplorationLimit /\ ActorExplorationLimit \in Nat
    BY <1>9, LoopControlAssumption DEF Controls
  <2>3. ~control.mutated => Cardinality(EarlyReads') <= control'.explored
    BY <1>2, <1>8, <1>9, <1>10, <2>1, <2>2
  <2>4. Cardinality(EarlyReads') <= ActorExplorationLimit
    BY <1>2, <1>8, <2>1, <2>2, <2>3
  <2>5. role' # "root"
    BY <1>10
  <2>6. control'.mutated => \E i \in DOMAIN trace' : Frees(trace[i])'
    BY <1>7, <1>9, <2>1
  <2>7. ExplorationBounded'
    BY <2>4, <2>5 DEF ExplorationBounded
  <2>8. ~control'.mutated => (control'.actorLocked <=> control'.explored = ActorExplorationLimit)
    BY <1>9, <2>1
  <2>9. QED
    BY <1>9, <2>3, <2>5, <2>6, <2>7, <2>8 DEF AllowanceInv
<1>11. CASE role = "root"
  <2>1. /\ Cardinality(EarlyReads) <= PlannerExplorationLimit
        /\ IF control.delegated THEN freed
           ELSE /\ Cardinality(EarlyReads) <= control.planned
                /\ control.plannerLocked <=> control.planned = PlannerExplorationLimit
    BY <1>11 DEF PolicyInv, AllowanceInv, ExplorationBounded, freed
  <2>2. /\ control.planned \in Nat /\ control'.planned \in Nat
        /\ control'.planned <= PlannerExplorationLimit /\ PlannerExplorationLimit \in Nat
    BY <1>9, LoopControlAssumption DEF Controls
  <2>3. ~control.delegated => Cardinality(EarlyReads') <= control'.planned
    BY <1>2, <1>8, <1>9, <1>11, <2>1, <2>2
  <2>4. Cardinality(EarlyReads') <= PlannerExplorationLimit
    BY <1>2, <1>8, <2>1, <2>2, <2>3
  <2>5. role' \notin {"coder", "verifier"}
    BY <1>11
  <2>6. control'.delegated => \E i \in DOMAIN trace' : Frees(trace[i])'
    BY <1>7, <1>9, <2>1
  <2>7. ExplorationBounded'
    BY <2>4, <2>5 DEF ExplorationBounded
  <2>8. ~control'.delegated => (control'.plannerLocked <=> control'.planned = PlannerExplorationLimit)
    BY <1>9, <2>1
  <2>9. QED
    BY <1>9, <2>3, <2>5, <2>6, <2>7, <2>8 DEF AllowanceInv
<1>12. CASE role \notin {"coder", "verifier", "root"}
  BY <1>12 DEF AllowanceInv, ExplorationBounded
<1>13. QED
  BY <1>10, <1>11, <1>12

\* A call returns: its result can free the runtime, and lets nothing through.
LEMMA PolicyReturned ==
  ASSUME RestOK, PolicyInv, RunningInv, pc = "running", role' = role,
         NEW result \in {"ok", "fail", "fatal"} \cup
                        (IF call.action.tool = "apply_patch" THEN {"unchanged"} ELSE {}),
         control' = RecordToolResult(control, call.action, result),
         trace' = [trace EXCEPT ![Len(trace)].result = result]
  PROVE  PolicyInv'
<1> DEFINE L == Len(trace)
           tool == call.action.tool
           freed == \E i \in DOMAIN trace : Frees(trace[i])
           freedNow == \E i \in DOMAIN trace' : Frees(trace[i])'
<1>1. /\ trace' \in Seq([call : Calls, result : Results]) /\ Len(trace') = L /\ L \in Nat
      /\ DOMAIN trace = 1..L /\ DOMAIN trace' = 1..L
      /\ \A i \in 1..L : trace'[i].call = trace[i].call
      /\ \A i \in 1..L : i # L => trace'[i] = trace[i]
      /\ L \in 1..L /\ trace'[L].result = result
      /\ trace[L].call = call /\ trace[L].result = "started"
      /\ tool \in Available[role]
  <2>1. trace \in Seq([call : Calls, result : Results]) /\ trace # <<>> /\ result \in Results
        /\ trace[L] = [call |-> call, result |-> "started"] /\ tool \in Available[role]
    BY DEF RestOK, RunningInv, Results
  <2>2. /\ trace' \in Seq([call : Calls, result : Results]) /\ Len(trace') = L
        /\ \A i \in 1..L : trace'[i].call = trace[i].call
        /\ \A i \in 1..L - 1 : trace'[i] = trace[i]
        /\ trace'[L].result = result
    BY <2>1, Noted
  <2> DEFINE T == [call : Calls, result : Results]
  <2>3. trace \in Seq(T) /\ trace' \in Seq(T)
    BY <2>1, <2>2
  <2> HIDE DEF T, tool
  <2>4. L \in Nat /\ L \in 1..L /\ DOMAIN trace = 1..L /\ DOMAIN trace' = 1..L
    BY <2>1, <2>2, <2>3
  <2>5. \A i \in 1..L : i # L => i \in 1..L - 1
    BY <2>4
  <2>6. trace[L].call = call /\ trace[L].result = "started"
    BY <2>1
  <2>7. QED
    BY <2>1, <2>2, <2>4, <2>5, <2>6
<1> HIDE DEF L
<1>2. /\ control \in Controls /\ control' \in Controls /\ control'.recent = control.recent
      /\ control'.mutated = (control.mutated \/ (tool \in MutationTools /\ result = "ok"))
      /\ control'.delegated = (control.delegated \/ (tool = "delegate" /\ result \in {"ok", "unchanged"}))
      /\ ~(tool = "delegate" /\ result \in {"ok", "unchanged"}) =>
           control'.planned = control.planned /\ control'.plannerLocked = control.plannerLocked
      /\ ~(tool = "delegate" /\ result \in {"ok", "unchanged"})
           /\ ~(tool \in MutationTools /\ result = "ok") => control' = control
  BY Recording DEF RestOK
<1>3. WindowInv'
  <2>1. NoThirdRepetition'
    <3>1. NoThirdRepetition
      BY DEF PolicyInv, WindowInv
    <3>2. \A i \in 1..L : trace'[i].call.action = trace[i].call.action
      BY <1>1
    <3>3. QED
      BY <1>1, <3>1, <3>2 DEF NoThirdRepetition
  <2>2. /\ Len(control.recent) = IF L < RecentActions THEN L ELSE RecentActions
        /\ \A i \in 1..Len(control.recent) :
             control.recent[i] = trace[L - Len(control.recent) + i].call.action
    BY DEF PolicyInv, WindowInv, L
  <2>3. \A i \in 1..Len(control.recent) : L - Len(control.recent) + i \in 1..L
    <3>1. RecentActions \in Nat
      BY LoopControlAssumption
    <3>2. PICK n : n = Len(control.recent)
      OBVIOUS
    <3>3. n \in Nat /\ n <= L
      BY <1>1, <2>2, <3>1, <3>2
    <3>4. \A i \in 1..n : L - n + i \in 1..L
      BY <1>1, <3>3
    <3>5. QED
      BY <3>2, <3>4
  <2>4. \A i \in 1..Len(control.recent) :
          control.recent[i] = trace'[L - Len(control.recent) + i].call.action
    BY <1>1, <2>2, <2>3
  <2>5. QED
    BY <1>1, <1>2, <2>1, <2>2, <2>4 DEF WindowInv
<1>4. /\ \A i \in 1..L : Reads(trace[i])' <=> Reads(trace[i])
      /\ \A i \in 1..L : Frees(trace[i]) => Frees(trace[i])'
  <2>1. \A i \in 1..L : Reads(trace[i])' <=> Reads(trace[i])
    BY <1>1 DEF Reads
  <2>2. \A i \in 1..L : i # L => (Frees(trace[i]) <=> Frees(trace[i])')
    BY <1>1 DEF Frees
  <2>3. ~Frees(trace[L])
    BY <1>1 DEF Frees
  <2>4. QED
    BY <2>1, <2>2, <2>3
<1>5. freed => freedNow
  BY <1>1, <1>4
<1>6. tool \in (IF IsActor(role) THEN MutationTools ELSE {"delegate"}) /\ result = "ok" => freedNow
  <2> SUFFICES ASSUME tool \in (IF IsActor(role) THEN MutationTools ELSE {"delegate"}),
                      result = "ok"
               PROVE  freedNow
    OBVIOUS
  <2>1. PICK n : n = L
    OBVIOUS
  <2>2. n \in DOMAIN trace' /\ trace'[n].result = "ok" /\ trace'[n].call = call
    BY <1>1, <2>1
  <2>3. Frees(trace[n])'
    BY <2>2 DEF Frees
  <2>4. QED
    BY <2>2, <2>3
<1>7. Cardinality(EarlyReads') <= Cardinality(EarlyReads) /\ Cardinality(EarlyReads') \in Nat
      /\ Cardinality(EarlyReads) \in Nat
  <2>1. EarlyReads \subseteq 1..L /\ IsFiniteSet(EarlyReads) /\ Cardinality(EarlyReads) \in Nat
    BY EarlyReadsFinite DEF L
  <2>2. EarlyReads' \subseteq EarlyReads
    <3> SUFFICES ASSUME NEW i \in EarlyReads' PROVE i \in EarlyReads
      OBVIOUS
    <3>1. i \in 1..L /\ Reads(trace[i])' /\ \A j \in 1..i : ~Frees(trace[j])'
      BY <1>1 DEF EarlyReads
    <3>2. \A j \in 1..i : j \in 1..L
      BY <1>1, <3>1
    <3>3. Reads(trace[i]) /\ \A j \in 1..i : ~Frees(trace[j])
      BY <1>4, <3>1, <3>2
    <3>4. QED
      BY <1>1, <3>1, <3>3 DEF EarlyReads
  <2>3. QED
    BY <2>1, <2>2, FS_Subset, FS_CardinalityType
<1>8. ExplorationBounded'
  <2>1. ExplorationBounded
    BY DEF PolicyInv, AllowanceInv
  <2>2. ActorExplorationLimit \in Nat /\ PlannerExplorationLimit \in Nat
    BY LoopControlAssumption
  <2>3. QED
    BY <1>7, <2>1, <2>2 DEF ExplorationBounded
<1> HIDE DEF tool, freed, freedNow
<1>9. CASE role \in {"coder", "verifier"}
  <2>1. IF control.mutated THEN freed
        ELSE /\ Cardinality(EarlyReads) <= control.explored
             /\ control.actorLocked <=> control.explored = ActorExplorationLimit
    BY <1>9 DEF PolicyInv, AllowanceInv, freed
  <2>2. tool # "delegate" /\ IsActor(role) /\ role # "root"
    BY <1>1, <1>9, Abilities
  <2>3. control'.mutated => freedNow
    BY <1>2, <1>5, <1>6, <2>1, <2>2
  <2>4. ~control'.mutated => ~control.mutated /\ control' = control
    BY <1>2, <2>2
  <2>5. control.explored \in Int
    BY <1>2 DEF Controls
  <2>6. ~control'.mutated => /\ Cardinality(EarlyReads') <= control'.explored
                             /\ control'.actorLocked <=> control'.explored = ActorExplorationLimit
    BY <1>7, <2>1, <2>4, <2>5
  <2>7. AllowanceInv'
    BY <1>8, <2>2, <2>3, <2>6 DEF AllowanceInv, freedNow
  <2>8. QED
    BY <1>3, <2>7 DEF PolicyInv
<1>10. CASE role = "root"
  <2>1. IF control.delegated THEN freed
        ELSE /\ Cardinality(EarlyReads) <= control.planned
             /\ control.plannerLocked <=> control.planned = PlannerExplorationLimit
    BY <1>10 DEF PolicyInv, AllowanceInv, freed
  <2>2. ~IsActor(role) /\ role \notin {"coder", "verifier"}
    BY <1>10, Abilities
  <2>3. tool = "delegate" => result # "unchanged"
    BY DEF tool
  <2>4. control'.delegated => freedNow
    BY <1>2, <1>5, <1>6, <2>1, <2>2, <2>3
  <2>5. ~control'.delegated => /\ ~control.delegated /\ control'.planned = control.planned
                               /\ control'.plannerLocked = control.plannerLocked
    BY <1>2
  <2>6. control.planned \in Int
    BY <1>2 DEF Controls
  <2>7. ~control'.delegated => /\ Cardinality(EarlyReads') <= control'.planned
                               /\ control'.plannerLocked <=> control'.planned = PlannerExplorationLimit
    BY <1>7, <2>1, <2>5, <2>6
  <2>8. AllowanceInv'
    BY <1>8, <2>2, <2>4, <2>7 DEF AllowanceInv, freedNow
  <2>9. QED
    BY <1>3, <2>8 DEF PolicyInv
<1>11. CASE role \notin {"coder", "verifier", "root"}
  BY <1>3, <1>8, <1>11 DEF PolicyInv, AllowanceInv
<1>12. QED
  BY <1>9, <1>10, <1>11

\* An answer in place of a call only uses up the allowance.
LEMMA PolicyAnswered ==
  ASSUME RestOK, PolicyInv, role' = role, trace' = trace, control' \in Controls,
         control'.recent = control.recent, control'.delegated = control.delegated,
         control'.mutated = control.mutated,
         control.explored <= control'.explored, control.planned <= control'.planned,
         (control.actorLocked <=> control.explored = ActorExplorationLimit)
           => (control'.actorLocked <=> control'.explored = ActorExplorationLimit),
         (control.plannerLocked <=> control.planned = PlannerExplorationLimit)
           => (control'.plannerLocked <=> control'.planned = PlannerExplorationLimit)
  PROVE  PolicyInv'
<1>1. WindowInv'
  <2>1. NoThirdRepetition => NoThirdRepetition'
    BY DEF NoThirdRepetition
  <2>2. QED
    BY <2>1 DEF PolicyInv, WindowInv
<1>2. EarlyReads' = EarlyReads
  BY DEF EarlyReads, Reads, Frees
<1>3. (\E i \in DOMAIN trace : Frees(trace[i])) => (\E i \in DOMAIN trace : Frees(trace[i]))'
  BY DEF Frees
<1>4. ExplorationBounded /\ Cardinality(EarlyReads') = Cardinality(EarlyReads)
      /\ Cardinality(EarlyReads) \in Nat
  BY <1>2, EarlyReadsFinite DEF PolicyInv, AllowanceInv
<1>5. ExplorationBounded'
  BY <1>4 DEF ExplorationBounded
<1>6. control.explored \in Int /\ control.planned \in Int
      /\ control'.explored \in Int /\ control'.planned \in Int
  BY DEF RestOK, Controls
<1>7. /\ Cardinality(EarlyReads) <= control.explored => Cardinality(EarlyReads') <= control'.explored
      /\ Cardinality(EarlyReads) <= control.planned => Cardinality(EarlyReads') <= control'.planned
  BY <1>4, <1>6
<1>8. AllowanceInv'
  BY <1>3, <1>5, <1>7 DEF PolicyInv, AllowanceInv
<1>9. QED
  BY <1>1, <1>8 DEF PolicyInv

\* Every step keeps the window and the allowances.
LEMMA PolicyStep ==
  ASSUME ConversationInv, RestOK, RunningInv, PolicyInv, [Next]_vars
  PROVE  PolicyInv'
<1>1. ASSUME NEW ms, NEW done, NewRuntime(ms, done) PROVE PolicyInv'
  <2>1. control' = Fresh /\ trace' = <<>>
    BY <1>1 DEF NewRuntime
  <2>2. (control = Fresh /\ trace = <<>>)' => PolicyInv'
    BY PolicyFresh, PTL
  <2>3. QED
    BY <2>1, <2>2 DEF Fresh
<1>2. CASE StartTurn \/ StartActor \/ Resume
  BY <1>1, <1>2 DEF StartTurn, StartActor, Resume
<1>3. CASE Enter \/ EnterLoop \/ NextStep \/ Compact \/ KeepMessages \/ AskModel \/ ModelFails
           \/ ToolAnswer \/ Cancel \/ Die \/ UNCHANGED vars
  <2>1. role' = role /\ control' = control /\ trace' = trace
    BY <1>3 DEF Enter, EnterLoop, NextStep, Compact, KeepMessages, AskModel, ModelFails,
                ToolAnswer, Cancel, Die, vars, runtime, history
  <2>2. QED
    BY <2>1, PolicyKept
<1>4. CASE FinalAnswer
  <2>1. role' = role /\ trace' = trace
    BY <1>4 DEF FinalAnswer, history
  <2>2. CASE control' = control
    BY <2>1, <2>2, PolicyKept
  <2>3. CASE MissingMutation(role, control) /\ control' = [control EXCEPT !.blocked = @ + 1]
    <3>1. control.blocked + 1 \in 0..2 /\ control \in Controls
      BY <2>3 DEF MissingMutation, RestOK, Controls
    <3>2. control' \in Controls
      BY <2>3, <3>1 DEF Controls
    <3>3. /\ control'.recent = control.recent /\ control'.delegated = control.delegated
          /\ control'.mutated = control.mutated
          /\ control'.explored = control.explored /\ control'.planned = control.planned
          /\ control'.actorLocked = control.actorLocked
          /\ control'.plannerLocked = control.plannerLocked
      BY <2>3, <3>1 DEF Controls
    <3>4. control.explored <= control'.explored /\ control.planned <= control'.planned
      BY <3>1, <3>3 DEF Controls
    <3>5. QED
      BY <2>1, <3>2, <3>3, <3>4, PolicyAnswered
  <2>4. QED
    BY <1>4, <2>2, <2>3 DEF FinalAnswer
<1>5. CASE AnswerInstead
  <2>1. pc = "batch" /\ role' = role /\ trace' = trace
    BY <1>5 DEF AnswerInstead, Finish
  <2>2. CASE control' = control
    BY <2>1, <2>2, PolicyKept
  <2>3. CASE Considered.verdict # "run" /\ control' = Considered.control
    <3>1. /\ control' \in Controls
          /\ control'.recent = control.recent /\ control'.delegated = control.delegated
          /\ control'.mutated = control.mutated
          /\ control.explored <= control'.explored /\ control.planned <= control'.planned
          /\ (control.actorLocked <=> control.explored = ActorExplorationLimit)
               => (control'.actorLocked <=> control'.explored = ActorExplorationLimit)
          /\ (control.plannerLocked <=> control.planned = PlannerExplorationLimit)
               => (control'.plannerLocked <=> control'.planned = PlannerExplorationLimit)
      BY <2>1, <2>3, ConsideredNow DEF PolicyInv
    <3>2. QED
      BY <2>1, <3>1, PolicyAnswered
  <2>4. QED
    BY <1>5, <2>2, <2>3 DEF AnswerInstead
<1>6. CASE GatewayDenies \/ Dispatch
  <2>1. /\ pc = "batch" /\ Considered.verdict = "run" /\ control' = Considered.control
        /\ role' = role
        /\ \E result \in {"denied", "started"} :
             trace' = Append(trace, [call |-> call, result |-> result])
    BY <1>6 DEF GatewayDenies, Dispatch, Finish
  <2>2. {"denied", "started"} \subseteq Results
    BY DEF Results
  <2>3. WindowInv'
    BY <2>1, <2>2, WindowLetThrough DEF PolicyInv
  <2>4. AllowanceInv'
    BY <2>1, AllowanceLetThrough
  <2>5. QED
    BY <2>3, <2>4 DEF PolicyInv
<1>7. CASE ToolReturns
  <2>1. pc = "running"
    BY <1>7 DEF ToolReturns
  <2>2. PICK result \in {"ok", "fail", "fatal"} \cup
                        (IF call.action.tool = "apply_patch" THEN {"unchanged"} ELSE {}) :
          /\ control' = RecordToolResult(control, call.action, result)
          /\ trace' = [trace EXCEPT ![Len(trace)].result = result]
          /\ role' = role
    BY <1>7 DEF ToolReturns, Finish
  <2>3. QED
    BY <2>1, <2>2, PolicyReturned
<1>8. QED
  BY <1>2, <1>3, <1>4, <1>5, <1>6, <1>7 DEF Next

\* Every step keeps the call that runs the last one let through.
LEMMA RunningStep ==
  ASSUME ConversationInv, RestOK, RunningInv, [Next]_vars
  PROVE  RunningInv'
<1>1. CASE Dispatch
  <2>1. /\ batch' = batch /\ role' = role /\ call.action.tool \in Available[role]
        /\ trace' = Append(trace, [call |-> call, result |-> "started"])
    BY <1>1 DEF Dispatch
  <2>2. trace' # <<>> /\ trace'[Len(trace')] = [call |-> call, result |-> "started"]
    <3> DEFINE T == [call : Calls, result : Results]
               t == [call |-> call, result |-> "started"]
    <3>1. pc = "batch"
      BY <1>1 DEF Dispatch
    <3>2. trace \in Seq(T) /\ t \in T
      BY <3>1, CallTyped DEF RestOK, Results
    <3>3. trace' = Append(trace, t)
      BY <2>1
    <3> HIDE DEF T, t
    <3>4. trace' # <<>> /\ trace'[Len(trace')] = t
      BY <3>2, <3>3
    <3>5. QED
      BY <3>4 DEF t
  <2>3. QED
    BY <2>1, <2>2 DEF RunningInv, call
<1>2. CASE UNCHANGED vars
  BY <1>2 DEF vars, history, RunningInv, call
<1>3. CASE ~Dispatch /\ Next
  <2>1. ASSUME NEW result, Finish(result) PROVE pc' # "running"
    BY <2>1 DEF Finish, AfterBatch
  <2>2. ASSUME NEW result, Close(result) PROVE pc' # "running"
    BY <2>2 DEF Close
  <2>3. CASE StartTurn \/ StartActor \/ Resume
    BY <2>3 DEF StartTurn, StartActor, Resume, NewRuntime, RunningInv
  <2>4. CASE Enter \/ EnterLoop \/ NextStep \/ Compact \/ KeepMessages \/ AskModel \/ ModelFails
    BY <2>2, <2>4 DEF Enter, EnterLoop, NextStep, Compact, KeepMessages, AskModel, ModelFails,
                      Refused, RunningInv
  <2>5. CASE FinalAnswer \/ ToolAnswer \/ Cancel \/ Die
    BY <2>2, <2>5 DEF FinalAnswer, ToolAnswer, Cancel, Die, RunningInv
  <2>6. CASE AnswerInstead \/ GatewayDenies \/ ToolReturns
    BY <2>1, <2>6 DEF AnswerInstead, GatewayDenies, ToolReturns, RunningInv
  <2>7. QED
    BY <1>3, <2>3, <2>4, <2>5, <2>6 DEF Next
<1>4. QED
  BY <1>1, <1>2, <1>3

-----------------------------------------------------------------------------
(***************************************************************************)
(* The types of the rest, and the theorems                                 *)
(***************************************************************************)
LEMMA RestInitially ==
  ASSUME Init
  PROVE  RestOK /\ RunningInv
<1>1. <<>> \in Seq([call : Calls, result : Results])
  OBVIOUS
<1>2. /\ 0 \in 0..Len(Requests) /\ 0 \in 0..MaxCalls /\ 0 \in 0..MaxCompactions
      /\ 0 \in 0..MaxStops /\ 0 \in 0..(MaxSteps + 1)
  BY ModelLoopAssumption
<1>3. used \in [runs : 0..Len(Requests), calls : 0..MaxCalls,
                compactions : 0..MaxCompactions, stops : 0..MaxStops]
  BY <1>2 DEF Init
<1>4. RestOK
  BY <1>1, <1>2, <1>3, FreshControl DEF Init, RestOK, Outcomes
<1>5. RunningInv
  BY DEF Init, RunningInv
<1>6. QED
  BY <1>4, <1>5

\* What is left of the types when only the place, the outcome and the
\* counters change.
LEMMA RestKept ==
  ASSUME RestOK, role' = role, control' = control, trace' = trace, resumed' = resumed,
         stopped' = stopped,
         pc' \in {"idle", "started", "entered", "top", "step", "ready", "asked",
                  "batch", "running"},
         outcome' \in Outcomes,
         steps' \in 0..(MaxSteps + 1), pc' # "idle" => steps' <= MaxSteps,
         used' \in [runs : 0..Len(Requests), calls : 0..MaxCalls,
                    compactions : 0..MaxCompactions, stops : 0..MaxStops]
  PROVE  RestOK'
BY DEF RestOK

\* Types and bounds of what is not the conversation.
LEMMA RestStep ==
  ASSUME ConversationInv, RestOK, RunningInv, PolicyInv, [Next]_vars
  PROVE  RestOK'
<1>1. /\ used \in [runs : 0..Len(Requests), calls : 0..MaxCalls,
                   compactions : 0..MaxCompactions, stops : 0..MaxStops]
      /\ used.runs \in 0..Len(Requests) /\ used.calls \in 0..MaxCalls
      /\ used.compactions \in 0..MaxCompactions /\ used.stops \in 0..MaxStops
      /\ steps \in 0..(MaxSteps + 1) /\ (pc # "idle" => steps <= MaxSteps)
      /\ resumed \in BOOLEAN /\ stopped \in BOOLEAN /\ outcome \in Outcomes
      /\ trace \in Seq([call : Calls, result : Results])
      /\ role \in LoopRoles /\ control \in Controls /\ Locks(control)
      /\ pc \in {"idle", "started", "entered", "top", "step", "ready", "asked",
                 "batch", "running"}
  BY DEF RestOK
<1>2. /\ MaxRuns \in Nat /\ Len(Requests) \in Nat /\ MaxRuns <= Len(Requests)
      /\ MaxSteps \in Nat /\ MaxCalls \in Nat /\ MaxCompactions \in Nat /\ MaxStops \in Nat
  BY ModelLoopAssumption
<1>3. {"none", "done", "error", "cancelled", "dead", "lost"} = Outcomes
  BY DEF Outcomes
<1>4. ASSUME NEW ms, NEW done, NewRuntime(ms, done), resumed' \in BOOLEAN,
             used' \in [runs : 0..Len(Requests), calls : 0..MaxCalls,
                        compactions : 0..MaxCompactions, stops : 0..MaxStops]
      PROVE  RestOK'
  <2>1. /\ role' = role /\ control' = Fresh /\ steps' = 0 /\ stopped' = FALSE /\ trace' = <<>>
        /\ outcome' = "none" /\ pc' = "started"
    BY <1>4 DEF NewRuntime
  <2>2. <<>> \in Seq([call : Calls, result : Results]) /\ 0 \in 0..(MaxSteps + 1) /\ 0 <= MaxSteps
    BY <1>2
  <2>3. QED
    BY <1>1, <1>3, <1>4, <2>1, <2>2, FreshControl DEF RestOK
<1>5. CASE StartTurn \/ StartActor
  <2>1. used' = [used EXCEPT !.runs = @ + 1] /\ used.runs + 1 \in 0..Len(Requests)
    <3>1. 1 <= Len(Requests)
      BY ModelLoopAssumption
    <3>2. used' = [used EXCEPT !.runs = @ + 1]
          /\ (used.runs < MaxRuns \/ used.runs < 1)
      BY <1>5 DEF StartTurn, StartActor
    <3>3. QED
      BY <1>1, <1>2, <3>1, <3>2
  <2>2. used' \in [runs : 0..Len(Requests), calls : 0..MaxCalls,
                   compactions : 0..MaxCompactions, stops : 0..MaxStops]
    BY <1>1, <2>1
  <2>3. resumed' \in BOOLEAN /\ \E ms, done : NewRuntime(ms, done)
    BY <1>5 DEF StartTurn, StartActor
  <2>4. QED
    BY <1>4, <2>2, <2>3
<1>6. CASE Resume
  <2>1. resumed' \in BOOLEAN /\ used' = used /\ \E ms, done : NewRuntime(ms, done)
    BY <1>6 DEF Resume, RuntimeResume
  <2>2. QED
    BY <1>1, <1>4, <2>1
<1>7. ASSUME NEW result \in {"done", "error"}, Close(result)
      PROVE  pc' = "idle" /\ outcome' \in Outcomes
  BY <1>3, <1>7 DEF Close
<1>8. CASE Enter \/ EnterLoop \/ KeepMessages \/ AskModel \/ ModelFails
  <2>1. /\ role' = role /\ control' = control /\ trace' = trace /\ resumed' = resumed
        /\ stopped' = stopped /\ steps' = steps /\ used' = used /\ pc # "idle"
    BY <1>8 DEF Enter, EnterLoop, KeepMessages, AskModel, ModelFails, runtime, history
  <2>2. /\ pc' \in {"idle", "batch", "entered", "top", "ready", "asked"}
        /\ outcome' \in Outcomes
    BY <1>1, <1>7, <1>8 DEF Enter, EnterLoop, KeepMessages, AskModel, ModelFails, Refused
  <2>3. QED
    BY <1>1, <2>1, <2>2, RestKept
<1>9. CASE NextStep
  <2>1. /\ role' = role /\ control' = control /\ trace' = trace /\ resumed' = resumed
        /\ stopped' = stopped /\ used' = used /\ steps' = steps + 1 /\ pc = "top"
    BY <1>9 DEF NextStep, history
  <2>2. \/ steps < MaxSteps /\ pc' = "step" /\ outcome' = outcome
        \/ pc' = "idle" /\ outcome' \in Outcomes
    BY <1>7, <1>9 DEF NextStep
  <2>3. steps' \in 0..(MaxSteps + 1) /\ (pc' # "idle" => steps' <= MaxSteps)
    BY <1>1, <1>2, <2>1, <2>2
  <2>4. QED
    BY <1>1, <2>1, <2>2, <2>3, RestKept
<1>10. CASE Compact
  <2>1. /\ role' = role /\ control' = control /\ trace' = trace /\ resumed' = resumed
        /\ stopped' = stopped /\ steps' = steps /\ pc = "step"
        /\ used' = [used EXCEPT !.compactions = @ + 1] /\ used.compactions < MaxCompactions
    BY <1>10 DEF Compact, runtime
  <2>2. used.compactions + 1 \in 0..MaxCompactions
    BY <1>1, <1>2, <2>1
  <2>3. used' \in [runs : 0..Len(Requests), calls : 0..MaxCalls,
                   compactions : 0..MaxCompactions, stops : 0..MaxStops]
    BY <1>1, <2>1, <2>2
  <2>4. pc' \in {"idle", "ready"} /\ outcome' \in Outcomes
    BY <1>1, <1>3, <1>7, <1>10 DEF Compact, Refused
  <2>5. QED
    BY <1>1, <2>1, <2>3, <2>4, RestKept
<1>11. CASE FinalAnswer
  <2>1. /\ role' = role /\ trace' = trace /\ resumed' = resumed
        /\ stopped' = stopped /\ steps' = steps /\ used' = used /\ pc = "asked"
    BY <1>11 DEF FinalAnswer, history
  <2>2. pc' \in {"idle", "top"} /\ outcome' \in Outcomes
    BY <1>1, <1>7, <1>11 DEF FinalAnswer
  <2>3. CASE control' = control
    BY <1>1, <2>1, <2>2, <2>3, RestKept
  <2>4. CASE MissingMutation(role, control) /\ control' = [control EXCEPT !.blocked = @ + 1]
    <3>1. control.blocked + 1 \in 0..2
      BY <1>1, <2>4 DEF MissingMutation, Controls
    <3>2. control' \in Controls
      BY <1>1, <2>4, <3>1 DEF Controls
    <3>3. Locks(control')
      BY <1>1, <2>4 DEF Locks, Controls
    <3>4. QED
      BY <1>1, <2>1, <2>2, <3>2, <3>3 DEF RestOK
  <2>5. QED
    BY <1>11, <2>3, <2>4 DEF FinalAnswer
<1>12. CASE ToolAnswer
  <2>1. /\ role' = role /\ control' = control /\ trace' = trace /\ resumed' = resumed
        /\ stopped' = stopped /\ steps' = steps /\ pc = "asked"
        /\ pc' = "batch" /\ outcome' = outcome
    BY <1>12 DEF ToolAnswer, runtime
  <2>2. PICK b \in Batches : used.calls + Len(b) <= MaxCalls
                             /\ used' = [used EXCEPT !.calls = @ + Len(b)]
    BY <1>12 DEF ToolAnswer
  <2>3. Len(b) \in Nat
    <3>1. Assistant(b) \in Messages /\ Assistant(b).role = "assistant" /\ Assistant(b).calls = b
      BY MessagesMade
    <3>2. b \in Seq(Calls)
      BY <3>1, MessageTyped
    <3>3. QED
      BY <3>2
  <2>4. PICK n : n = used.calls + Len(b)
    OBVIOUS
  <2>5. n \in 0..MaxCalls /\ used' = [used EXCEPT !.calls = n]
    BY <1>1, <1>2, <2>2, <2>3, <2>4
  <2>6. used' \in [runs : 0..Len(Requests), calls : 0..MaxCalls,
                   compactions : 0..MaxCompactions, stops : 0..MaxStops]
    BY <1>1, <2>5
  <2>7. QED
    BY <1>1, <2>1, <2>6, RestKept
<1>13. ASSUME NEW result, Finish(result)
       PROVE  /\ role' = role /\ steps' = steps /\ resumed' = resumed /\ stopped' \in BOOLEAN
              /\ pc' \in {"idle", "batch", "entered", "top"} /\ outcome' \in Outcomes
  BY <1>1, <1>3, <1>13 DEF Finish, AfterBatch
<1>14. ASSUME NEW result, Finish(result), pc # "idle", used' = used,
              control' \in Controls, Locks(control'),
              trace' \in Seq([call : Calls, result : Results])
       PROVE  RestOK'
  BY <1>1, <1>13, <1>14 DEF RestOK
<1>15. pc = "batch" => Considered.control \in Controls /\ Locks(Considered.control)
  BY ConsideredNow DEF PolicyInv
<1>16. CASE AnswerInstead
  <2>1. /\ pc = "batch" /\ used' = used /\ trace' = trace
        /\ control' = control \/ control' = Considered.control
        /\ \E result : Finish(result)
    BY <1>16 DEF AnswerInstead
  <2>2. QED
    BY <1>1, <1>14, <1>15, <2>1
<1>17. ASSUME NEW result \in {"denied", "started"}, pc = "batch",
              trace' = Append(trace, [call |-> call, result |-> result])
       PROVE  trace' \in Seq([call : Calls, result : Results])
  <2> DEFINE T == [call : Calls, result : Results]
             t == [call |-> call, result |-> result]
  <2>1. trace \in Seq(T) /\ t \in T
    BY <1>1, <1>17, CallTyped DEF Results
  <2>2. trace' = Append(trace, t)
    BY <1>17
  <2> HIDE DEF T, t
  <2>3. trace' \in Seq(T)
    BY <2>1, <2>2
  <2>4. QED
    BY <2>3 DEF T
<1>18. CASE GatewayDenies
  <2>1. /\ pc = "batch" /\ used' = used /\ control' = Considered.control
        /\ trace' = Append(trace, [call |-> call, result |-> "denied"]) /\ Finish("fail")
    BY <1>18 DEF GatewayDenies
  <2>2. trace' \in Seq([call : Calls, result : Results])
    BY <1>17, <2>1
  <2>3. QED
    BY <1>14, <1>15, <2>1, <2>2
<1>19. CASE Dispatch
  <2>1. /\ pc = "batch" /\ pc' = "running" /\ used' = used /\ control' = Considered.control
        /\ trace' = Append(trace, [call |-> call, result |-> "started"])
        /\ role' = role /\ steps' = steps /\ stopped' = stopped /\ resumed' = resumed
        /\ outcome' = outcome
    BY <1>19 DEF Dispatch
  <2>2. trace' \in Seq([call : Calls, result : Results])
    BY <1>17, <2>1
  <2>3. QED
    BY <1>1, <1>15, <2>1, <2>2 DEF RestOK
<1>20. CASE ToolReturns
  <2>1. pc = "running" /\ used' = used
    BY <1>20 DEF ToolReturns
  <2>2. PICK result \in {"ok", "unchanged", "fail", "fatal"} :
          /\ control' = RecordToolResult(control, call.action, result)
          /\ trace' = [trace EXCEPT ![Len(trace)].result = result]
          /\ Finish(result)
    BY <1>20 DEF ToolReturns
  <2>3. trace' \in Seq([call : Calls, result : Results])
    <3>1. trace # <<>> /\ result \in Results
      BY <2>1 DEF RunningInv, Results
    <3>2. QED
      BY <1>1, <2>2, <3>1, Noted
  <2>4. control' \in Controls /\ Locks(control')
    BY <1>1, <2>2, Recording
  <2>5. QED
    BY <1>14, <2>1, <2>2, <2>3, <2>4
<1>21. CASE Cancel \/ Die
  <2>1. /\ role' = role /\ control' = control /\ trace' = trace /\ resumed' = resumed
        /\ stopped' = stopped /\ steps' = steps /\ pc' = "idle"
        /\ used' = [used EXCEPT !.stops = @ + 1] /\ used.stops < MaxStops
        /\ outcome' \in Outcomes
    BY <1>3, <1>21 DEF Cancel, Die, runtime
  <2>2. used.stops + 1 \in 0..MaxStops
    BY <1>1, <1>2, <2>1
  <2>3. used' \in [runs : 0..Len(Requests), calls : 0..MaxCalls,
                   compactions : 0..MaxCompactions, stops : 0..MaxStops]
    BY <1>1, <2>1, <2>2
  <2>4. QED
    BY <1>1, <2>1, <2>3, RestKept
<1>22. CASE UNCHANGED vars
  BY <1>22 DEF vars, runtime, history, RestOK
<1>23. QED
  BY <1>5, <1>6, <1>8, <1>9, <1>10, <1>11, <1>12, <1>16, <1>18, <1>19, <1>20, <1>21, <1>22
     DEF Next

\* The inductive invariant.
LoopInv == ConversationInv /\ RestOK /\ RunningInv /\ PolicyInv

\* The invariant holds in every reachable state.
LEMMA LoopInvHolds == Spec => []LoopInv
<1>1. Init => LoopInv
  <2> SUFFICES ASSUME Init PROVE LoopInv
    OBVIOUS
  <2>1. control = Fresh /\ trace = <<>>
    BY DEF Init
  <2>2. QED
    BY <2>1, ConversationInitially, RestInitially, PolicyFresh DEF LoopInv
<1>2. LoopInv /\ [Next]_vars => LoopInv'
  BY ConversationStep, RestStep, RunningStep, PolicyStep DEF LoopInv
<1>3. QED
  BY <1>1, <1>2, PTL DEF Spec

\* The loop's state has its types; a batch is what is left of one answer, and
\* the counters of the anti-loop policy end at their limits.
THEOREM LoopTypeCorrect == Spec => []TypeOK
<1>1. LoopInv => TypeOK
  BY DEF LoopInv, ConversationInv, ConversationOK, RestOK, Controls, Results, TypeOK
<1>2. QED
  BY <1>1, LoopInvHolds, PTL

\* Whenever the model is asked, every call in the conversation is answered, and
\* the conversation in RunStore is one a resumption can complete.
THEOREM CallsAlwaysAnswered == Spec => []EveryCallAnswered
<1>1. LoopInv => EveryCallAnswered
  <2> SUFFICES ASSUME LoopInv, ~spoiled PROVE EveryCallAnswered
    BY DEF EveryCallAnswered
  <2>1. pc = "asked" => AnsweredBefore(messages, Len(messages) + 1)
    BY DEF LoopInv, ConversationInv, AnswerInv, Closed
  <2>2. IsRoot /\ Assistants(stored.messages) # {} =>
          AnsweredBefore(stored.messages, Max(Assistants(stored.messages)))
    <3>1. stored.messages \in Seq(Messages) /\ (IsRoot => Shaped(stored.messages))
      BY DEF LoopInv, ConversationInv, ConversationOK, AnswerInv
    <3>2. QED
      BY <3>1, ShapedAnswered
  <2>3. QED
    BY <2>1, <2>2 DEF EveryCallAnswered
<1>2. QED
  BY <1>1, LoopInvHolds, PTL

\* An observation a checkpoint holds is in the cache of the same checkpoint.
THEOREM SavedObservationsAlwaysCached == Spec => []SavedObservationsCached
<1>1. LoopInv => SavedObservationsCached
  BY DEF LoopInv, ConversationInv, CacheInv
<1>2. QED
  BY <1>1, LoopInvHolds, PTL

\* A root call whose result is in RunStore is not let through again.
THEOREM NothingReplayed == Spec => NoReplay
<1>1. LoopInv /\ [Next]_vars =>
        [IsRoot /\ Len(trace') > Len(trace) =>
           trace'[Len(trace')].call.id \notin DOMAIN stored.completed]_vars
  <2> SUFFICES ASSUME LoopInv, [Next]_vars, IsRoot, Len(trace') > Len(trace)
               PROVE  trace'[Len(trace')].call.id \notin DOMAIN stored.completed
    OBVIOUS
  <2>1. trace \in Seq([call : Calls, result : Results]) /\ Len(trace) \in Nat
    BY DEF LoopInv, RestOK
  <2>2. CASE GatewayDenies \/ Dispatch
    <3>1. /\ pc = "batch" /\ ~Cached(call)
          /\ \E result \in {"denied", "started"} :
               trace' = Append(trace, [call |-> call, result |-> result])
      BY <2>2 DEF GatewayDenies, Dispatch
    <3>2. trace'[Len(trace')].call = call
      <4> DEFINE T == [call : Calls, result : Results]
      <4>1. PICK t \in T : t.call = call /\ trace' = Append(trace, t)
        BY <3>1, CallTyped DEF LoopInv, Results
      <4> HIDE DEF T
      <4>2. trace \in Seq(T)
        BY <2>1 DEF T
      <4>3. trace'[Len(trace')] = t
        BY <4>1, <4>2
      <4>4. QED
        BY <4>1, <4>3
    <3>3. call.id \notin DOMAIN completed
      BY <3>1 DEF Cached
    <3>4. DOMAIN stored.completed \subseteq DOMAIN completed
      BY <3>1 DEF LoopInv, ConversationInv, CacheInv
    <3>5. QED
      BY <3>2, <3>3, <3>4
  <2>3. CASE ToolReturns
    <3>1. Len(trace') = Len(trace)
      BY <2>1, <2>3 DEF ToolReturns
    <3>2. QED
      BY <2>1, <3>1
  <2>4. CASE StartTurn \/ StartActor \/ Resume
    <3>1. trace' = <<>>
      BY <2>4 DEF StartTurn, StartActor, Resume, NewRuntime
    <3>2. QED
      BY <2>1, <3>1
  <2>5. CASE ~(GatewayDenies \/ Dispatch \/ ToolReturns \/ StartTurn \/ StartActor \/ Resume)
    <3>1. trace' = trace
      BY <2>5 DEF Next, Enter, EnterLoop, NextStep, Compact, KeepMessages, AskModel, ModelFails,
                  FinalAnswer, ToolAnswer, AnswerInstead, Cancel, Die, vars, runtime, history
    <3>2. QED
      BY <2>1, <3>1
  <2>6. QED
    BY <2>2, <2>3, <2>4, <2>5
<1>2. QED
  BY <1>1, LoopInvHolds, PTL DEF Spec, NoReplay

\* What a runtime reads before its first change or delegation stays within its
\* allowance.
THEOREM ExplorationAlwaysBounded == Spec => []ExplorationBounded
<1>1. LoopInv => ExplorationBounded
  BY DEF LoopInv, PolicyInv, AllowanceInv
<1>2. QED
  BY <1>1, LoopInvHolds, PTL

\* Of RecentActions consecutive calls and the next one, no three are the same.
THEOREM NeverThreeTimes == Spec => []NoThirdRepetition
<1>1. LoopInv => NoThirdRepetition
  BY DEF LoopInv, PolicyInv, WindowInv
<1>2. QED
  BY <1>1, LoopInvHolds, PTL
=============================================================================
