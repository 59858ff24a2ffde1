-------------------------- MODULE ToolGatewayProofs --------------------------
(***************************************************************************)
(* The gateway for any Actors, tools, servers, rules and limits: a grant   *)
(* runs one tool, strict mode fails closed, and what a model is offered is *)
(* served.                                                                 *)
(*                                                                         *)
(* ServedInv follows a provider through its start: until it lists, nothing *)
(* is routed; what is routed was listed by a server with a session.        *)
(* GrantInv counts a grant until it is used: one that lies in the store or *)
(* was consumed by a call about to run is one given and not yet used.      *)
(* GuardInv keeps what the guards said of a call until its tool has run.   *)
(*                                                                         *)
(* The second half is about ManagedRuntime, from which an Actor gets the   *)
(* programs of its servers.                                                *)
(***************************************************************************)
EXTENDS ToolGateway, ManagedRuntime, SequenceTheorems, TLAPS

-----------------------------------------------------------------------------
(***************************************************************************)
(* The provider                                                            *)
(***************************************************************************)
\* A tool is routed to a server that has a session and lists it, and no local
\* tool is; what is offered is local or routed.
Routed(p) ==
  /\ LocalTools \subseteq p.offered
  /\ \A t \in p.offered \cup {u \in Tools : p.routing[u] # None} :
       IF t \in LocalTools
       THEN p.routing[t] = None
       ELSE p.routing[t] \in ToSet(p.sessions) /\ t \in Lists[p.routing[t]]

ServedInv ==
  /\ provider \in [Actors -> Providers]
  /\ \A a \in Actors :
       /\ provider[a].phase = "off" =>
            provider[a].routing = NoRoutes /\ provider[a].sessions = <<>>
       /\ provider[a].phase = "spawning" => provider[a].routing = NoRoutes
       /\ provider[a].phase \in {"spawning", "listing", "up"} => Routed(provider[a])
       /\ provider[a].phase = "listing" =>
            ToSet(provider[a].queue) \subseteq ToSet(provider[a].sessions)
       /\ provider[a].phase = "up" /\ provider[a].mode = "required"
            => provider[a].sessions # <<>>

LEMMA NoneIsNoServer == None \notin ToSet(Servers) /\ None \notin Tools
  BY McpAssumption

LEMMA SeqToSet ==
  ASSUME NEW S, NEW s \in Seq(S)
  PROVE  /\ ToSet(s) \subseteq S
         /\ s # <<>> => Head(s) \in ToSet(s) /\ ToSet(Tail(s)) \subseteq ToSet(s)
         /\ \A e \in S : ToSet(Append(s, e)) = ToSet(s) \cup {e}
  BY DEF ToSet

LEMMA ProviderFields ==
  ASSUME NEW p \in Providers
  PROVE  /\ p.queue \in Seq(ToSet(Servers)) /\ p.sessions \in Seq(ToSet(Servers))
         /\ p.routing \in [Tools -> ToSet(Servers) \cup {None}]
         /\ p.offered \in SUBSET Tools /\ p.failures \in Nat
         /\ p.open \in BOOLEAN /\ p.degraded \in BOOLEAN
         /\ p.mode \in {"off", "optional", "required"}
  BY DEF Providers

\* What a step of the start makes of one provider.
StartedWell(p) ==
  /\ p \in Providers
  /\ p.phase = "off" => p.routing = NoRoutes /\ p.sessions = <<>>
  /\ p.phase = "spawning" => p.routing = NoRoutes
  /\ p.phase \in {"spawning", "listing", "up"} => Routed(p)
  /\ p.phase = "listing" => ToSet(p.queue) \subseteq ToSet(p.sessions)
  /\ p.phase = "up" /\ p.mode = "required" => p.sessions # <<>>

LEMMA ServedByEach ==
  provider \in [Actors -> Providers] =>
    (ServedInv <=> \A a \in Actors : StartedWell(provider[a]))
  BY DEF ServedInv, StartedWell

LEMMA PutKeeps ==
  ASSUME ServedInv, NEW a \in Actors, NEW p, Put(a, p), StartedWell(p)
  PROVE  ServedInv'
<1>1. provider' \in [Actors -> Providers]
  BY DEF ServedInv, Put, StartedWell
<1>2. \A b \in Actors : provider'[b] = IF b = a THEN p ELSE provider[b]
  BY DEF ServedInv, Put
<1>3. \A b \in Actors : StartedWell(provider'[b])
  BY <1>2, ServedByEach DEF ServedInv
<1>4. QED
  BY <1>1, <1>3 DEF ServedInv, StartedWell

LEMMA NoProviderIsWell ==
  ASSUME NEW m \in {"off", "optional", "required"}, NEW ph \in {"off", "down", "failed"},
         NEW n \in Nat, NEW o \in BOOLEAN, NEW d \in BOOLEAN
  PROVE  /\ StartedWell(NoProvider(m))
         /\ StartedWell([NoProvider(m) EXCEPT !.phase = "down", !.failures = n,
                                              !.open = o, !.degraded = d])
<1>1. NoRoutes \in [Tools -> ToSet(Servers) \cup {None}]
  BY DEF NoRoutes
<1>2. <<>> \in Seq(ToSet(Servers))
  BY EmptySeq
<1>3. NoProvider(m) \in Providers
  BY <1>1, <1>2 DEF NoProvider, Providers
<1>4. QED
  BY <1>3 DEF StartedWell, NoProvider, Providers

LEMMA StartStep ==
  ASSUME ServedInv, NEW a \in Actors, McpStep(a)
  PROVE  ServedInv'
<1> DEFINE p == provider[a]
<1>0. p \in Providers /\ StartedWell(p)
  BY ServedByEach DEF ServedInv
<1>1. CASE StartLocal(a)
  <2> DEFINE q == [p EXCEPT !.offered = LocalTools, !.queue = Servers,
                            !.phase = IF p.mode = "off" THEN "up" ELSE "spawning"]
  <2>1. p.phase = "off" /\ Put(a, q)
    BY <1>1 DEF StartLocal
  <2>2. q \in Providers
    BY <1>0, McpAssumption DEF Providers
  <2>3. /\ q.offered = LocalTools /\ q.routing = NoRoutes /\ q.mode = p.mode
        /\ q.phase \in {"up", "spawning"} /\ (q.phase = "up" => p.mode = "off")
    BY <1>0, <2>1 DEF StartedWell, Providers
  <2>4. Routed(q)
    BY <2>3, McpAssumption DEF Routed, NoRoutes
  <2>5. StartedWell(q)
    BY <2>2, <2>3, <2>4 DEF StartedWell
  <2>6. QED
    BY <2>1, <2>5, PutKeeps
<1>2. CASE NoSandbox(a)
  <2> DEFINE q == [p EXCEPT !.phase = "failed"]
  <2>1. q \in Providers /\ q.phase = "failed" /\ Put(a, q)
    BY <1>0, <1>2 DEF Providers, NoSandbox
  <2>2. QED
    BY <2>1, PutKeeps DEF StartedWell
<1>3. CASE Connect(a)
  <2> DEFINE q == [p EXCEPT !.sessions = Append(@, Head(p.queue)), !.queue = Tail(@)]
  <2>1. /\ p.phase = "spawning" /\ p.queue # <<>> /\ Put(a, q)
    BY <1>3 DEF Connect
  <2>2. /\ p.queue \in Seq(ToSet(Servers)) /\ p.sessions \in Seq(ToSet(Servers))
    BY <1>0, ProviderFields
  <2>3. Head(p.queue) \in ToSet(Servers) /\ Tail(p.queue) \in Seq(ToSet(Servers))
    BY <2>1, <2>2, HeadTailProperties
  <2>4. /\ Append(p.sessions, Head(p.queue)) \in Seq(ToSet(Servers))
        /\ ToSet(p.sessions) \subseteq ToSet(Append(p.sessions, Head(p.queue)))
    BY <2>2, <2>3, SeqToSet, AppendProperties
  <2>5. /\ q \in Providers /\ q.phase = "spawning" /\ q.routing = p.routing
        /\ q.offered = p.offered /\ q.sessions = Append(p.sessions, Head(p.queue))
    BY <1>0, <2>1, <2>3, <2>4 DEF Providers
  <2>6. Routed(q)
    BY <1>0, <2>1, <2>4, <2>5 DEF StartedWell, Routed
  <2>7. QED
    BY <1>0, <2>1, <2>5, <2>6, PutKeeps DEF StartedWell
<1>4. ASSUME NEW ph \in {"spawning", "listing"}, p.phase = ph, p.queue # <<>>,
             Put(a, [p EXCEPT !.queue = Tail(@), !.degraded = TRUE])
      PROVE  ServedInv'
  <2> DEFINE q == [p EXCEPT !.queue = Tail(@), !.degraded = TRUE]
  <2>1. p.queue \in Seq(ToSet(Servers))
    BY <1>0, ProviderFields
  <2>2. Tail(p.queue) \in Seq(ToSet(Servers)) /\ ToSet(Tail(p.queue)) \subseteq ToSet(p.queue)
    BY <1>4, <2>1, HeadTailProperties, SeqToSet
  <2>3. /\ q \in Providers /\ q.phase = ph /\ q.routing = p.routing /\ q.queue = Tail(p.queue)
        /\ q.offered = p.offered /\ q.sessions = p.sessions
    BY <1>0, <1>4, <2>2 DEF Providers
  <2>4. Routed(q)
    BY <1>0, <1>4, <2>3 DEF StartedWell, Routed
  <2>5. StartedWell(q)
    BY <1>0, <1>4, <2>2, <2>3, <2>4 DEF StartedWell
  <2>6. QED
    BY <1>4, <2>5, PutKeeps
<1>5. CASE AllSpawned(a)
  <2> DEFINE q == [p EXCEPT !.phase = "listing", !.queue = p.sessions]
  <2>1. p.phase = "spawning" /\ Put(a, q)
    BY <1>5 DEF AllSpawned
  <2>2. /\ q \in Providers /\ q.phase = "listing" /\ q.routing = p.routing
        /\ q.offered = p.offered /\ q.sessions = p.sessions /\ q.queue = p.sessions
    BY <1>0 DEF Providers
  <2>3. Routed(q)
    BY <1>0, <2>1, <2>2 DEF StartedWell, Routed
  <2>4. QED
    BY <2>1, <2>2, <2>3, PutKeeps DEF StartedWell
<1>6. CASE List(a)
  <2> DEFINE s == Head(p.queue)
             fresh == {t \in Lists[s] \ LocalTools : p.routing[t] = None}
             q == [p EXCEPT !.queue = Tail(@),
                            !.routing = [t \in Tools |-> IF t \in fresh THEN s ELSE @[t]],
                            !.offered = @ \cup fresh]
  <2>1. p.phase = "listing" /\ p.queue # <<>> /\ Put(a, q)
    BY <1>6 DEF List
  <2>2. /\ p.queue \in Seq(ToSet(Servers))
        /\ p.routing \in [Tools -> ToSet(Servers) \cup {None}]
        /\ p.offered \in SUBSET Tools
    BY <1>0, ProviderFields
  <2>3. /\ s \in ToSet(Servers) /\ Tail(p.queue) \in Seq(ToSet(Servers))
        /\ s \in ToSet(p.queue) /\ ToSet(Tail(p.queue)) \subseteq ToSet(p.queue)
    BY <2>1, <2>2, HeadTailProperties, SeqToSet
  <2>4. fresh \subseteq Tools
    BY <2>3, McpAssumption
  <2> DEFINE routing == [t \in Tools |-> IF t \in fresh THEN s ELSE p.routing[t]]
  <2>5. routing \in [Tools -> ToSet(Servers) \cup {None}]
    BY <2>2, <2>3
  <2>6. /\ q \in Providers /\ q.phase = "listing" /\ q.routing = routing
        /\ q.queue = Tail(p.queue) /\ q.offered = p.offered \cup fresh
        /\ q.sessions = p.sessions
    BY <1>0, <2>1, <2>2, <2>3, <2>4, <2>5 DEF Providers
  <2>7. s \in ToSet(p.sessions)
    BY <1>0, <2>1, <2>3 DEF StartedWell
  <2>8. Routed(q)
    <3>1. LocalTools \subseteq q.offered
      BY <1>0, <2>1, <2>6 DEF StartedWell, Routed
    <3>2. ASSUME NEW t \in q.offered \cup {u \in Tools : q.routing[u] # None}
          PROVE  IF t \in LocalTools
                 THEN q.routing[t] = None
                 ELSE q.routing[t] \in ToSet(q.sessions) /\ t \in Lists[q.routing[t]]
      <4>1. t \in Tools
        BY <2>2, <2>4, <2>6
      <4>2. CASE t \in fresh
        BY <2>6, <2>7, <4>1, <4>2
      <4>3. CASE t \notin fresh
        <5>1. q.routing[t] = p.routing[t]
          BY <2>6, <4>1, <4>3
        <5>2. t \in p.offered \cup {u \in Tools : p.routing[u] # None}
          BY <2>6, <3>2, <4>1, <4>3, <5>1
        <5>3. QED
          BY <1>0, <2>1, <2>6, <5>1, <5>2 DEF StartedWell, Routed
      <4>4. QED
        BY <4>2, <4>3
    <3>3. QED
      BY <3>1, <3>2 DEF Routed
  <2>9. StartedWell(q)
    BY <1>0, <2>1, <2>3, <2>6, <2>8 DEF StartedWell
  <2>10. QED
    BY <2>1, <2>9, PutKeeps
<1>7. CASE StartEnds(a)
  <2> DEFINE ph == IF p.mode = "required" /\ p.sessions = <<>> THEN "failed" ELSE "up"
             q == [p EXCEPT !.phase = ph]
  <2>1. p.phase = "listing" /\ Put(a, q)
    BY <1>7 DEF StartEnds
  <2>2. /\ q \in Providers /\ q.phase = ph /\ q.routing = p.routing /\ q.mode = p.mode
        /\ q.offered = p.offered /\ q.sessions = p.sessions
    BY <1>0 DEF Providers
  <2>3. Routed(q)
    BY <1>0, <2>1, <2>2 DEF StartedWell, Routed
  <2>4. StartedWell(q)
    BY <2>2, <2>3 DEF StartedWell
  <2>5. QED
    BY <2>1, <2>4, PutKeeps
<1>8. QED
  BY <1>1, <1>2, <1>3, <1>4, <1>5, <1>6, <1>7 DEF McpStep, FailToConnect, FailToList

LEMMA CallKeepsServed ==
  ASSUME ServedInv, NEW a \in Actors, NEW t, NEW success \in BOOLEAN, CallTool(a, t, success)
  PROVE  ServedInv'
<1> DEFINE p == provider[a]
<1>0. p \in Providers /\ StartedWell(p)
  BY ServedByEach DEF ServedInv
<1>1. CASE UNCHANGED provider
  BY <1>1 DEF ServedInv
<1>2. ASSUME NEW n \in Nat, NEW o \in BOOLEAN, NEW d \in BOOLEAN,
             Put(a, [p EXCEPT !.failures = n, !.open = o, !.degraded = d])
      PROVE  ServedInv'
  <2> DEFINE q == [p EXCEPT !.failures = n, !.open = o, !.degraded = d]
  <2>1. /\ q \in Providers /\ q.phase = p.phase /\ q.routing = p.routing /\ q.mode = p.mode
        /\ q.offered = p.offered /\ q.sessions = p.sessions /\ q.queue = p.queue
    BY <1>0 DEF Providers
  <2>2. Routed(p) => Routed(q)
    BY <2>1 DEF Routed
  <2>3. StartedWell(q)
    BY <1>0, <2>1, <2>2 DEF StartedWell
  <2>4. QED
    BY <1>2, <2>3, PutKeeps
<1>3. CASE Put(a, [p EXCEPT !.failures = 0])
  <2>1. [p EXCEPT !.failures = 0] = [p EXCEPT !.failures = 0, !.open = p.open, !.degraded = p.degraded]
    BY <1>0 DEF Providers
  <2>2. QED
    BY <1>0, <1>2, <1>3, <2>1, ProviderFields
<1>4. CASE Put(a, Failure(p))
  <2>1. /\ p.failures + 1 \in Nat
        /\ (p.open \/ p.failures + 1 >= MaxConsecutiveFailures) \in BOOLEAN
    BY <1>0, ProviderFields
  <2>2. QED
    BY <1>2, <1>4, <2>1 DEF Failure
<1>5. QED
  BY <1>1, <1>3, <1>4 DEF CallTool

LEMMA ShutdownKeepsServed ==
  ASSUME ServedInv, NEW a \in Actors, Shutdown(a) \/ ShutdownCancelled(a)
  PROVE  ServedInv'
<1> DEFINE p == provider[a]
<1>0. p \in Providers
  BY DEF ServedInv
<1>1. CASE Shutdown(a)
  <2>1. PICK clean \in BOOLEAN :
          Put(a, [NoProvider(p.mode) EXCEPT !.phase = "down", !.failures = p.failures,
                    !.open = p.open, !.degraded = p.degraded \/ ~clean])
    BY <1>1 DEF Shutdown
  <2>2. (p.degraded \/ ~clean) \in BOOLEAN
    OBVIOUS
  <2>3. QED
    BY <1>0, <2>1, <2>2, NoProviderIsWell, ProviderFields, PutKeeps
<1>2. CASE ShutdownCancelled(a)
  <2> DEFINE q == [p EXCEPT !.phase = "down"]
  <2>1. q \in Providers /\ q.phase = "down" /\ Put(a, q)
    BY <1>0, <1>2 DEF Providers, ShutdownCancelled
  <2>2. QED
    BY <2>1, PutKeeps DEF StartedWell
<1>3. QED
  BY <1>1, <1>2

-----------------------------------------------------------------------------
(***************************************************************************)
(* The calls                                                               *)
(***************************************************************************)
SecurityOK ==
  /\ security.mode = "strict" => security.external
  /\ security.mode \in {"off", "local"} => ~security.external

CallsOK ==
  /\ call \in [Actors -> Calls]
  /\ \A a \in Actors : call[a].step # "none" => call[a].tool \in Tools

\* What the guards said of a call that is being decided, and of one that was let
\* through.
Guarded(a) ==
  /\ call[a].step = "deciding" /\ security.mode = "strict" /\ call[a].outside = "none"
       => call[a].tool \in Oversized
  /\ call[a].step \in {"starting", "guarding"} =>
       /\ security.mode = "strict" => call[a].outside \in {"allow", "review"}
       /\ (\/ Ruling[call[a].tool] = "risky" \/ "review" \in Views(a)
           \/ "error" \in Views(a))
            => call[a].approved

GuardInv == \A a \in Actors : Guarded(a)

\* A grant that a call has consumed and that its tool will use.
Held(f) == call[f.actor].step = "starting" /\ call[f.actor].approved /\ Fingerprint(f.actor) = f

Counts ==
  /\ given \in [Fingerprints -> Nat] /\ used \in [Fingerprints -> Nat]

GrantInv ==
  /\ Counts
  /\ \A f \in Fingerprints :
       used[f] + (IF f \in grants THEN 1 ELSE 0) + (IF Held(f) THEN 1 ELSE 0) <= given[f]

GatewayInv == ServedInv /\ SecurityOK /\ CallsOK /\ GuardInv /\ GrantInv

-----------------------------------------------------------------------------
\* The record of a call after a step on it.
LEMMA CallFields ==
  ASSUME NEW c \in Calls
  PROVE  /\ c.tool \in Tools \cup {None} /\ c.outside \in {"none"} \cup Outcomes
         /\ c.approved \in BOOLEAN
  BY DEF Calls

LEMMA NewCall ==
  /\ NoCall \in Calls /\ NoCall.step = "none"
  /\ \A w \in {"denied", "approval", "result", "untrusted", "withheld"} :
       [NoCall EXCEPT !.answer = w] \in Calls /\ [NoCall EXCEPT !.answer = w].step = "none"
  /\ \A t \in Tools :
       LET n == [NoCall EXCEPT !.tool = t, !.step = "inspecting"]
       IN n \in Calls /\ n.step = "inspecting" /\ n.tool = t
  BY DEF NoCall, Calls

\* A step that puts a call nowhere near its tool.
Retires(a, c) ==
  /\ Call(a, c) /\ c \in Calls /\ UNCHANGED <<security, given, used>>
  /\ c.step \in {"none", "inspecting", "asking", "deciding"}
  /\ c.step # "none" => c.tool \in Tools
  /\ c.step = "deciding" /\ security.mode = "strict" /\ c.outside = "none"
       => c.tool \in Oversized
  /\ grants' \subseteq grants

LEMMA OthersKeep ==
  ASSUME CallsOK, NEW a \in Actors, NEW c \in Calls, Call(a, c), UNCHANGED security
  PROVE  /\ call' \in [Actors -> Calls] /\ call'[a] = c
         /\ \A b \in Actors \ {a} :
              call'[b] = call[b] /\ Views(b)' = Views(b) /\ Fingerprint(b)' = Fingerprint(b)
<1>1. /\ call' \in [Actors -> Calls] /\ call'[a] = c
      /\ \A b \in Actors \ {a} : call'[b] = call[b]
  BY DEF CallsOK, Call
<1>2. QED
  BY <1>1 DEF Views, Fingerprint, RiskOf

LEMMA RetiredWell ==
  ASSUME SecurityOK, CallsOK, GuardInv, GrantInv, NEW a \in Actors, NEW c, Retires(a, c)
  PROVE  SecurityOK' /\ CallsOK' /\ GuardInv' /\ GrantInv'
<1>1. /\ call' \in [Actors -> Calls] /\ call'[a] = c
      /\ \A b \in Actors \ {a} :
           call'[b] = call[b] /\ Views(b)' = Views(b) /\ Fingerprint(b)' = Fingerprint(b)
  BY OthersKeep DEF Retires
<1>2. SecurityOK' /\ CallsOK'
  BY <1>1 DEF SecurityOK, CallsOK, Retires
<1>3. GuardInv'
  <2>1. Guarded(a)'
    BY <1>1 DEF Guarded, Retires
  <2>2. ASSUME NEW b \in Actors \ {a} PROVE Guarded(b)'
    BY <1>1 DEF GuardInv, Guarded, Retires
  <2>3. QED
    BY <2>1, <2>2 DEF GuardInv
<1>4. GrantInv'
  <2>1. Counts'
    BY DEF GrantInv, Counts, Retires
  <2>2. \A f \in Fingerprints : Held(f)' => Held(f)
    BY <1>1 DEF Held, Retires, Fingerprints
  <2>3. ASSUME NEW f \in Fingerprints
        PROVE  used'[f] + (IF f \in grants' THEN 1 ELSE 0) + (IF Held(f)' THEN 1 ELSE 0)
                 <= given'[f]
    <3>1. /\ used'[f] = used[f] /\ given'[f] = given[f] /\ used[f] \in Nat /\ given[f] \in Nat
          /\ f \in grants' => f \in grants
      BY DEF Retires, GrantInv, Counts
    <3>2. used[f] + (IF f \in grants THEN 1 ELSE 0) + (IF Held(f) THEN 1 ELSE 0) <= given[f]
      BY DEF GrantInv
    <3>3. QED
      BY <2>2, <3>1, <3>2
  <2>4. QED
    BY <2>1, <2>3 DEF GrantInv
<1>5. QED
  BY <1>2, <1>3, <1>4

\* A call that gets past the guards consumes a grant where it needs one.
LEMMA AuthorizedWell ==
  ASSUME SecurityOK, CallsOK, GuardInv, GrantInv, NEW a \in Actors, Authorize(a)
  PROVE  SecurityOK' /\ CallsOK' /\ GuardInv' /\ GrantInv'
<1> DEFINE c == [call[a] EXCEPT !.step = "starting", !.approved = NeedsApproval(a)]
<1>0. call[a] \in Calls /\ call[a].step = "deciding" /\ call[a].tool \in Tools
  BY DEF CallsOK, Authorize
<1>1. NeedsApproval(a) \in BOOLEAN
  BY DEF NeedsApproval
<1>2. /\ c \in Calls /\ c.step = "starting" /\ c.tool = call[a].tool
      /\ c.outside = call[a].outside /\ c.approved = NeedsApproval(a)
  BY <1>0, <1>1 DEF Calls
<1>3. Call(a, c) /\ UNCHANGED security
  BY DEF Authorize
<1>4. /\ call' \in [Actors -> Calls] /\ call'[a] = c
      /\ \A b \in Actors \ {a} :
           call'[b] = call[b] /\ Views(b)' = Views(b) /\ Fingerprint(b)' = Fingerprint(b)
  BY <1>2, <1>3, OthersKeep
<1>5. Views(a)' = Views(a) /\ Fingerprint(a)' = Fingerprint(a)
  BY <1>2, <1>3, <1>4 DEF Views, Fingerprint, RiskOf
<1>6. SecurityOK' /\ CallsOK'
  BY <1>0, <1>2, <1>3, <1>4 DEF SecurityOK, CallsOK
<1>7. GuardInv'
  <2>1. ~Denied(a)
    BY DEF Authorize
  <2>2. (Ruling[call[a].tool] = "risky" \/ "review" \in Views(a) \/ "error" \in Views(a))
          => NeedsApproval(a)
    BY <2>1 DEF NeedsApproval, Denied, Outcome
  <2>3. security.mode = "strict" => call[a].outside \in {"allow", "review"}
    <3>1. call[a].outside \in {"none", "allow", "review", "error", "deny"}
      BY <1>0, CallFields DEF Outcomes
    <3>2. security.mode = "strict" =>
            /\ "error" \notin Views(a) /\ "deny" \notin Views(a)
            /\ call[a].tool \notin Oversized
      BY <2>1 DEF Denied, Outcome
    <3>3. call[a].outside # "none" => call[a].outside \in Views(a)
      BY DEF Views
    <3>4. security.mode = "strict" => call[a].outside # "none"
      BY <1>0, <3>2 DEF GuardInv, Guarded
    <3>5. QED
      BY <3>1, <3>2, <3>3, <3>4
  <2>4. QED
    <3>1. Guarded(a)'
      BY <1>2, <1>3, <1>4, <1>5, <2>2, <2>3 DEF Guarded
    <3>2. ASSUME NEW b \in Actors \ {a} PROVE Guarded(b)'
      BY <1>3, <1>4 DEF GuardInv, Guarded
    <3>3. QED
      BY <3>1, <3>2 DEF GuardInv
<1>8. GrantInv'
  <2>1. UNCHANGED <<given, used>>
    BY DEF Authorize
  <2>2. ASSUME NEW f \in Fingerprints
        PROVE  used[f] + (IF f \in grants' THEN 1 ELSE 0) + (IF Held(f)' THEN 1 ELSE 0)
                 <= given[f]
    <3>1. /\ used[f] + (IF f \in grants THEN 1 ELSE 0) + (IF Held(f) THEN 1 ELSE 0) <= given[f]
          /\ used[f] \in Nat /\ given[f] \in Nat
      BY DEF GrantInv, Counts
    <3>2. CASE f.actor = a /\ Held(f)'
      <4>1. NeedsApproval(a) /\ Fingerprint(a) = f
        BY <1>2, <1>4, <1>5, <3>2 DEF Held
      <4>2. f \in grants /\ f \notin grants'
        BY <4>1 DEF Authorize
      <4>3. ~Held(f)
        BY <1>0, <3>2 DEF Held
      <4>4. QED
        BY <3>1, <3>2, <4>2, <4>3
    <3>3. CASE ~(f.actor = a /\ Held(f)')
      <4>1. Held(f)' => Held(f)
        BY <1>4, <3>3 DEF Held, Fingerprints
      <4>2. f \in grants' => f \in grants
        BY DEF Authorize
      <4>3. QED
        BY <3>1, <4>1, <4>2
    <3>4. QED
      BY <3>2, <3>3
  <2>3. QED
    BY <2>1, <2>2 DEF GrantInv, Counts
<1>9. QED
  BY <1>6, <1>7, <1>8

\* A tool that runs uses up the grant its call holds.
LEMMA DispatchedWell ==
  ASSUME SecurityOK, CallsOK, GuardInv, GrantInv, NEW a \in Actors, NEW s \in BOOLEAN,
         Dispatch(a, s)
  PROVE  SecurityOK' /\ CallsOK' /\ GuardInv' /\ GrantInv'
<1> DEFINE c == [call[a] EXCEPT !.step = "guarding"]
<1>0. call[a] \in Calls /\ call[a].step = "starting" /\ call[a].tool \in Tools
  BY DEF CallsOK, Dispatch
<1>2. /\ c \in Calls /\ c.step = "guarding" /\ c.tool = call[a].tool
      /\ c.outside = call[a].outside /\ c.approved = call[a].approved
  BY <1>0 DEF Calls
<1>3. Call(a, c) /\ UNCHANGED <<security, grants, given>>
  BY DEF Dispatch
<1>4. /\ call' \in [Actors -> Calls] /\ call'[a] = c
      /\ \A b \in Actors \ {a} :
           call'[b] = call[b] /\ Views(b)' = Views(b) /\ Fingerprint(b)' = Fingerprint(b)
  BY <1>2, <1>3, OthersKeep
<1>5. Views(a)' = Views(a)
  BY <1>2, <1>3, <1>4 DEF Views
<1>6. SecurityOK' /\ CallsOK'
  BY <1>0, <1>2, <1>3, <1>4 DEF SecurityOK, CallsOK
<1>7. GuardInv'
  <2>1. Guarded(a)'
    BY <1>0, <1>2, <1>3, <1>4, <1>5 DEF GuardInv, Guarded
  <2>2. ASSUME NEW b \in Actors \ {a} PROVE Guarded(b)'
    BY <1>3, <1>4 DEF GuardInv, Guarded
  <2>3. QED
    BY <2>1, <2>2 DEF GuardInv
<1>8. GrantInv'
  <2>1. used' = IF call[a].approved THEN [used EXCEPT ![Fingerprint(a)] = @ + 1] ELSE used
    BY DEF Dispatch
  <2>2. ASSUME NEW f \in Fingerprints
        PROVE  /\ used'[f] = IF call[a].approved /\ Fingerprint(a) = f
                             THEN used[f] + 1 ELSE used[f]
               /\ used[f] \in Nat /\ given[f] \in Nat
    BY <2>1 DEF GrantInv, Counts
  <2>3. ASSUME NEW f \in Fingerprints
        PROVE  used'[f] + (IF f \in grants THEN 1 ELSE 0) + (IF Held(f)' THEN 1 ELSE 0)
                 <= given[f]
    <3>1. used[f] + (IF f \in grants THEN 1 ELSE 0) + (IF Held(f) THEN 1 ELSE 0) <= given[f]
      BY DEF GrantInv
    <3>2. CASE call[a].approved /\ Fingerprint(a) = f
      <4>1. f.actor = a
        BY <3>2 DEF Fingerprint
      <4>2. Held(f) /\ ~Held(f)'
        BY <1>0, <1>2, <1>4, <3>2, <4>1 DEF Held
      <4>3. QED
        BY <2>2, <3>1, <3>2, <4>2
    <3>3. CASE ~(call[a].approved /\ Fingerprint(a) = f)
      <4>1. Held(f)' => Held(f)
        BY <1>2, <1>4 DEF Held, Fingerprints
      <4>2. QED
        BY <2>2, <3>1, <3>3, <4>1
    <3>4. QED
      BY <3>2, <3>3
  <2>4. used' \in [Fingerprints -> Nat]
    <3>1. used' = [f \in Fingerprints |-> used'[f]]
      BY <2>1 DEF GrantInv, Counts
    <3>2. \A f \in Fingerprints : used'[f] \in Nat
      BY <2>2
    <3>3. QED
      BY <3>1, <3>2
  <2>5. QED
    BY <1>3, <2>3, <2>4 DEF GrantInv, Counts
<1>9. QED
  BY <1>6, <1>7, <1>8

LEMMA GatewayStep == GatewayInv /\ [Next]_vars => GatewayInv'
<1> SUFFICES ASSUME GatewayInv, [Next]_vars PROVE GatewayInv'
  OBVIOUS
<1> USE DEF GatewayInv
<1>0. \A a \in Actors : call[a] \in Calls
  BY DEF CallsOK
<1>1. ASSUME NEW a \in Actors, NEW c, Retires(a, c), ServedInv' PROVE GatewayInv'
  BY <1>1, RetiredWell
<1>2. ASSUME NEW a \in Actors,
             NEW w \in {"denied", "approval", "result", "untrusted", "withheld"},
             Answer(a, w), UNCHANGED <<provider, security, given, used>>,
             grants' \subseteq grants
      PROVE  GatewayInv'
  <2>1. Retires(a, [NoCall EXCEPT !.answer = w])
    BY <1>2, NewCall DEF Retires, Answer
  <2>2. ServedInv'
    BY <1>2 DEF ServedInv
  <2>3. QED
    BY <1>1, <2>1, <2>2
<1>3. ASSUME UNCHANGED <<security, call, grants, given, used>>, ServedInv' PROVE GatewayInv'
  <2>1. SecurityOK' /\ CallsOK' /\ GuardInv'
    BY <1>3 DEF SecurityOK, CallsOK, GuardInv, Guarded, Views
  <2>2. \A f \in Fingerprints : Held(f)' <=> Held(f)
    BY <1>3 DEF Held, Fingerprint, RiskOf, Views
  <2>3. GrantInv'
    BY <1>3, <2>2 DEF GrantInv, Counts
  <2>4. QED
    BY <1>3, <2>1, <2>3
<1>4. ASSUME NEW a \in Actors, StartProvider(a) PROVE GatewayInv'
  BY <1>3, <1>4, StartStep DEF StartProvider
<1>5. ASSUME NEW a \in Actors, EndActor(a) PROVE GatewayInv'
  BY <1>3, <1>5, ShutdownKeepsServed DEF EndActor
<1>6. ASSUME NEW a \in Actors, NEW t \in Tools, Propose(a, t) PROVE GatewayInv'
  <2> DEFINE c == [NoCall EXCEPT !.tool = t, !.step = "inspecting"]
  <2>1. CASE Answer(a, "denied")
    BY <1>2, <1>6, <2>1 DEF Propose
  <2>2. CASE Call(a, c)
    <3>1. Retires(a, c)
      BY <1>6, <2>2, NewCall DEF Propose, Retires
    <3>2. ServedInv'
      BY <1>6 DEF Propose, ServedInv
    <3>3. QED
      BY <1>1, <3>1, <3>2
  <2>3. QED
    BY <1>6, <2>1, <2>2 DEF Propose
<1>7. ASSUME NEW a \in Actors, Inspect(a) PROVE GatewayInv'
  <2>1. ServedInv' /\ UNCHANGED <<security, given, used, grants>>
    BY <1>7 DEF Inspect, ServedInv
  <2>2. call[a].tool \in Tools /\ call[a].step = "inspecting"
    BY <1>7 DEF Inspect, CallsOK
  <2> DEFINE out == security.external /\ EgressAllowed(call[a].tool)
  <2>3. CASE Call(a, [call[a] EXCEPT !.step = "asking"])
    <3> DEFINE c == [call[a] EXCEPT !.step = "asking"]
    <3>1. c \in Calls /\ c.step = "asking" /\ c.tool = call[a].tool
      BY <1>0 DEF Calls
    <3>2. Retires(a, c)
      BY <2>1, <2>2, <2>3, <3>1 DEF Retires
    <3>3. QED
      BY <1>1, <2>1, <3>2
  <2>4. CASE Call(a, [call[a] EXCEPT !.step = "deciding",
                                     !.outside = IF out THEN "error" ELSE "none"])
    <3> DEFINE o == IF out THEN "error" ELSE "none"
               c == [call[a] EXCEPT !.step = "deciding", !.outside = o]
    <3>1. c \in Calls /\ c.step = "deciding" /\ c.tool = call[a].tool /\ c.outside = o
      BY <1>0 DEF Calls, Outcomes
    <3>2. security.mode = "strict" /\ c.outside = "none" => c.tool \in Oversized
      BY <3>1 DEF SecurityOK, EgressAllowed
    <3>3. Retires(a, c)
      BY <2>1, <2>2, <2>4, <3>1, <3>2 DEF Retires
    <3>4. QED
      BY <1>1, <2>1, <3>3
  <2>5. QED
    BY <1>7, <2>3, <2>4 DEF Inspect
<1>8. ASSUME NEW a \in Actors, NEW o \in Outcomes, OutsideAnswers(a, o) PROVE GatewayInv'
  <2> DEFINE c == [call[a] EXCEPT !.step = "deciding", !.outside = o]
  <2>1. c \in Calls /\ c.step = "deciding" /\ c.tool = call[a].tool /\ c.outside = o
    BY <1>0 DEF Calls
  <2>2. ServedInv' /\ UNCHANGED <<security, given, used, grants>>
    BY <1>8 DEF OutsideAnswers, ServedInv
  <2>3. Retires(a, c)
    BY <1>8, <2>1, <2>2 DEF Retires, OutsideAnswers, CallsOK, Outcomes
  <2>4. QED
    BY <1>1, <2>2, <2>3
<1>9. ASSUME NEW a \in Actors, Authorize(a) PROVE GatewayInv'
  <2>1. ServedInv'
    BY <1>9 DEF Authorize, ServedInv
  <2>2. QED
    BY <1>9, <2>1, AuthorizedWell
<1>10. ASSUME NEW a \in Actors, Deny(a) \/ RequireApproval(a) \/ EventLostBefore(a)
                 \/ \E w \in {"result", "untrusted", "withheld"} : Return(a, w)
       PROVE  GatewayInv'
  BY <1>2, <1>10 DEF Deny, RequireApproval, EventLostBefore, Return
<1>11. ASSUME NEW a \in Actors, NEW s \in BOOLEAN, Dispatch(a, s) PROVE GatewayInv'
  <2>1. ServedInv'
    BY <1>11, CallKeepsServed DEF Dispatch
  <2>2. QED
    BY <1>11, <2>1, DispatchedWell
<1>12. ASSUME NEW a \in Actors, Break(a) PROVE GatewayInv'
  <2>1. ServedInv'
    BY <1>12, ShutdownKeepsServed DEF Break
  <2>2. Retires(a, NoCall)
    BY <1>12, NewCall DEF Break, Retires
  <2>3. QED
    BY <1>1, <2>1, <2>2
<1>13. ASSUME NEW g, Grant(g) \/ Expire(g) PROVE GatewayInv'
  <2>1. UNCHANGED <<provider, security, call, used>>
    BY <1>13 DEF Grant, Expire
  <2>2. ServedInv' /\ SecurityOK' /\ CallsOK' /\ GuardInv'
    BY <2>1 DEF ServedInv, SecurityOK, CallsOK, GuardInv, Guarded, Views
  <2>3. \A f \in Fingerprints : Held(f)' <=> Held(f)
    BY <2>1 DEF Held, Fingerprint, RiskOf, Views
  <2>4. ASSUME NEW f \in Fingerprints
        PROVE  /\ given'[f] \in Nat /\ used[f] \in Nat
               /\ used[f] + (IF f \in grants' THEN 1 ELSE 0) + (IF Held(f) THEN 1 ELSE 0)
                    <= given'[f]
    <3>1. /\ used[f] + (IF f \in grants THEN 1 ELSE 0) + (IF Held(f) THEN 1 ELSE 0) <= given[f]
          /\ given[f] \in Nat /\ used[f] \in Nat /\ given \in [Fingerprints -> Nat]
      BY DEF GrantInv, Counts
    <3>2. CASE Expire(g)
      BY <3>1, <3>2 DEF Expire
    <3>3. CASE Grant(g)
      <4>1. /\ given'[f] = IF f = g THEN given[f] + 1 ELSE given[f]
            /\ f \in grants' <=> f \in grants \/ f = g
        BY <3>1, <3>3 DEF Grant
      <4>2. QED
        BY <3>1, <4>1
    <3>4. QED
      BY <1>13, <3>2, <3>3
  <2>5. given' = [f \in Fingerprints |-> given'[f]]
    BY <1>13 DEF Grant, Expire, GrantInv, Counts
  <2>6. given' \in [Fingerprints -> Nat]
    BY <2>4, <2>5
  <2>7. GrantInv'
    BY <2>1, <2>3, <2>4, <2>6 DEF GrantInv, Counts
  <2>8. QED
    BY <2>2, <2>7
<1>14. CASE UNCHANGED vars
  BY <1>3, <1>14 DEF vars, ServedInv
<1>15. QED
  BY <1>4, <1>5, <1>6, <1>7, <1>8, <1>9, <1>10, <1>11, <1>12, <1>13, <1>14 DEF Next

LEMMA GatewayInitial == Init => GatewayInv
<1> SUFFICES ASSUME Init PROVE GatewayInv
  OBVIOUS
<1>1. ServedInv
  <2>1. \A a \in Actors : \E m \in {"off", "optional", "required"} : provider[a] = NoProvider(m)
    BY DEF Init, McpInit
  <2>2. \A a \in Actors : StartedWell(provider[a])
    BY <2>1, NoProviderIsWell
  <2>3. provider \in [Actors -> Providers]
    BY <2>2 DEF Init, McpInit, StartedWell
  <2>4. QED
    BY <2>2, <2>3, ServedByEach
<1>2. SecurityOK
  BY DEF Init, SecurityOK
<1>3. \A a \in Actors : call[a] = NoCall
  BY DEF Init
<1>4. CallsOK
  BY <1>3, NewCall DEF Init, CallsOK
<1>5. GuardInv
  BY <1>3, NewCall DEF GuardInv, Guarded
<1>6. GrantInv
  <2>1. \A f \in Fingerprints : ~Held(f)
    BY <1>3, NewCall DEF Held, Fingerprints
  <2>2. \A f \in Fingerprints : given[f] = 0 /\ used[f] = 0 /\ f \notin grants
    BY DEF Init
  <2>3. Counts
    BY DEF Init, Counts
  <2>4. QED
    BY <2>1, <2>2, <2>3 DEF GrantInv
<1>7. QED
  BY <1>1, <1>2, <1>4, <1>5, <1>6 DEF GatewayInv

LEMMA GatewayInvariant == Spec => []GatewayInv
  BY GatewayInitial, GatewayStep, PTL DEF Spec

-----------------------------------------------------------------------------
\* No grant runs two tools, for any Actors, calls, expiries and lost events
\* (ApprovalStore.consume and the gateway around it).
THEOREM GrantsAreUsedOnce == Spec => []GrantsUsedOnce
<1>1. ASSUME GatewayInv PROVE GrantsUsedOnce
  <2>1. ASSUME NEW f \in Fingerprints PROVE used[f] <= given[f]
    <3>1. /\ used[f] + (IF f \in grants THEN 1 ELSE 0) + (IF Held(f) THEN 1 ELSE 0) <= given[f]
          /\ given[f] \in Nat /\ used[f] \in Nat
      BY <1>1 DEF GatewayInv, GrantInv, Counts
    <3>2. QED
      BY <3>1
  <2>2. QED
    BY <2>1 DEF GrantsUsedOnce
<1>2. QED
  BY <1>1, GatewayInvariant, PTL

\* Strict mode fails closed and doubts need a grant, whatever the rules and the
\* guards say (SecurityManager.inspect and authorize_tool).
THEOREM AlwaysGuardedBeforeRun == Spec => []GuardedBeforeRun
<1>1. GatewayInv => GuardedBeforeRun
  BY DEF GatewayInv, GuardInv, Guarded, GuardedBeforeRun
<1>2. QED
  BY <1>1, GatewayInvariant, PTL

\* However the servers come up, fail and are lost, a tool that an Actor is offered
\* is served (MCPToolProvider.start and _build_routing_table).
THEOREM OfferedToolsAlwaysServed == Spec => []OfferedToolsAreServed
<1>1. GatewayInv => OfferedToolsAreServed
  BY DEF GatewayInv, ServedInv, Routed, OfferedToolsAreServed
<1>2. QED
  BY <1>1, GatewayInvariant, PTL

-----------------------------------------------------------------------------
\* The types of what the invariant does not speak of.
RestTyped ==
  /\ security \in [mode : Modes, external : BOOLEAN]
  /\ guard \in [Actors -> [calls : Nat, failures : Nat, drained : BOOLEAN]]
  /\ grants \subseteq Fingerprints /\ asked \subseteq Fingerprints
  /\ runs \in [outside : Nat, tools : Nat, grants : Nat]

\* A fingerprint is made of a call that has a tool.
LEMMA FingerprintTyped ==
  ASSUME CallsOK, NEW a \in Actors, call[a].step # "none"
  PROVE  Fingerprint(a) \in Fingerprints
  BY DEF CallsOK, Fingerprint, Fingerprints, RiskOf, Risks

\* Every step keeps them.
LEMMA RestTypedStep ==
  ASSUME GatewayInv, RestTyped, [Next]_vars
  PROVE  RestTyped'
<1> USE DEF RestTyped
<1>0. CallsOK
  BY DEF GatewayInv
<1>1. ASSUME UNCHANGED <<security, guard, asked, runs>>, grants' \subseteq grants
      PROVE  RestTyped'
  BY <1>1
<1>2. ASSUME NEW a \in Actors,
             \/ StartProvider(a) \/ EndActor(a) \/ Break(a) \/ Authorize(a) \/ Deny(a)
             \/ EventLostBefore(a)
             \/ (\E t \in Tools : Propose(a, t))
             \/ \E w \in {"result", "untrusted", "withheld"} : Return(a, w)
      PROVE  RestTyped'
  BY <1>1, <1>2 DEF StartProvider, EndActor, Break, Authorize, Deny, EventLostBefore,
                    Propose, Return
<1>3. ASSUME NEW a \in Actors, Inspect(a) PROVE RestTyped'
  BY <1>3 DEF Inspect
<1>4. ASSUME NEW a \in Actors, NEW o \in Outcomes, OutsideAnswers(a, o) PROVE RestTyped'
  BY <1>4 DEF OutsideAnswers
<1>5. ASSUME NEW a \in Actors, RequireApproval(a) PROVE RestTyped'
  BY <1>0, <1>5, FingerprintTyped DEF RequireApproval
<1>6. ASSUME NEW a \in Actors, NEW s \in BOOLEAN, Dispatch(a, s) PROVE RestTyped'
  BY <1>6 DEF Dispatch
<1>7. ASSUME NEW f \in asked, Grant(f) PROVE RestTyped'
  BY <1>7 DEF Grant
<1>8. ASSUME NEW f \in grants, Expire(f) PROVE RestTyped'
  BY <1>8 DEF Expire
<1>9. CASE UNCHANGED vars
  BY <1>9 DEF vars
<1>10. QED
  BY <1>2, <1>3, <1>4, <1>5, <1>6, <1>7, <1>8, <1>9 DEF Next

\* Every variable has its type, for any Actors, tools, servers, rules and limits.
THEOREM GatewayTypeCorrect == Spec => []TypeOK
<1>1. Init => RestTyped
  BY DEF Init, RestTyped, FreshGuard
<1>2. GatewayInv /\ RestTyped => TypeOK
  BY DEF GatewayInv, ServedInv, CallsOK, GrantInv, Counts, RestTyped, TypeOK
<1>3. GatewayInv /\ RestTyped /\ [Next]_vars => RestTyped'
  BY RestTypedStep
<1>4. QED
  BY <1>1, <1>2, <1>3, GatewayInvariant, PTL DEF Spec
-----------------------------------------------------------------------------
(***************************************************************************)
(* The shared runtime of ManagedRuntime, for any number of processes,      *)
(* builds, deaths and Ctrl-Cs: the lock keeps its promise, no Actor is     *)
(* shown a runtime that is being built, and foreign files are not touched. *)
(* Its invariant says of the steps under the lock what they have found out *)
(* before: that the lock is theirs, and that the root is not foreign.      *)
(***************************************************************************)
\* Whoever holds the lock created it, and nobody has taken it since.
LockInv == \A p \in Processes : Holding(p) => lock = p

\* In a foreign root nobody gets as far as building or removing.
Beyond == {"building", "promoting", "claiming", "pointing", "uninstalling", "removing"}

ForeignInv ==
  "foreign" \in entries => /\ entries = {"foreign"}
                           /\ \A p \in Processes : pc[p] \notin Beyond

\* Only a removal leaves a runtime in part.
WholeInv ==
  ~torn /\ (\A p \in Processes : pc[p] # "removing") =>
     \A v \in Versions : versions[v] # "part"

RuntimeInv == RuntimeTypeOK /\ LockInv /\ ForeignInv /\ WholeInv

-----------------------------------------------------------------------------
LEMMA RuntimeInitial == RuntimeInit => RuntimeInv
<1> SUFFICES ASSUME RuntimeInit PROVE RuntimeInv
  OBVIOUS
<1>1. RuntimeTypeOK
  <2>1. [name : {"install"}, build : Versions] \subseteq Commands
    BY DEF Commands
  <2>2. command \in [Processes -> Commands]
    BY <2>1 DEF RuntimeInit
  <2>3. 0 \in 0..MaxCommands /\ 0 \in 0..MaxFaults
    BY RuntimeAssumption
  <2>4. QED
    BY <2>2, <2>3 DEF RuntimeInit, RuntimeTypeOK
<1>2. LockInv
  BY DEF RuntimeInit, LockInv, Holding
<1>3. ForeignInv
  BY DEF RuntimeInit, ForeignInv, Beyond
<1>4. WholeInv
  BY DEF RuntimeInit, WholeInv
<1>5. QED
  BY <1>1, <1>2, <1>3, <1>4 DEF RuntimeInv

-----------------------------------------------------------------------------
LEMMA RuntimeTypeStep == RuntimeTypeOK /\ [RuntimeNext]_runtimeVars => RuntimeTypeOK'
<1> SUFFICES ASSUME RuntimeTypeOK, [RuntimeNext]_runtimeVars PROVE RuntimeTypeOK'
  OBVIOUS
<1> USE DEF RuntimeTypeOK, files, Go, End, Unlock
<1>1. ASSUME NEW p \in Processes, NEW c \in Commands, Begin(p, c) PROVE RuntimeTypeOK'
  BY <1>1, RuntimeAssumption DEF Begin
<1>2. ASSUME NEW p \in Processes, Install(p) PROVE RuntimeTypeOK'
  <2>1. CASE FindHealthy(p)
    BY <2>1 DEF FindHealthy
  <2>2. CASE FindUnhealthy(p)
    BY <2>2 DEF FindUnhealthy
  <2>3. CASE Prepare(p)
    BY <2>3 DEF Prepare
  <2>4. CASE NpmFails(p)
    BY <2>4 DEF NpmFails
  <2>5. CASE NpmWorks(p)
    BY <2>5 DEF NpmWorks
  <2>6. CASE Promote(p)
    BY <2>6 DEF Promote
  <2>7. CASE Claim(p)
    BY <2>7 DEF Claim
  <2>8. CASE Point(p)
    BY <2>8 DEF Point, Commands
  <2>9. CASE InstallUnlocks(p)
    BY <2>9 DEF InstallUnlocks
  <2>10. CASE CheckInstalled(p)
    BY <2>10 DEF CheckInstalled
  <2>11. QED
    BY <1>2, <2>1, <2>2, <2>3, <2>4, <2>5, <2>6, <2>7, <2>8, <2>9, <2>10 DEF Install
<1>3. ASSUME NEW p \in Processes, Lock(p) PROVE RuntimeTypeOK'
  BY <1>3 DEF Lock, LockThen
<1>4. ASSUME NEW p \in Processes, Uninstall(p) PROVE RuntimeTypeOK'
  <2>1. CASE NothingToRemove(p)
    BY <2>1 DEF NothingToRemove
  <2>2. CASE RefuseForeign(p)
    BY <2>2 DEF RefuseForeign
  <2>3. CASE MayRemove(p)
    BY <2>3 DEF MayRemove
  <2>4. CASE RemoveMarker(p)
    BY <2>4 DEF RemoveMarker
  <2>5. ASSUME NEW q \in Processes, RemoveStaging(p, q) PROVE RuntimeTypeOK'
    BY <2>5 DEF RemoveStaging
  <2>6. ASSUME NEW v \in Versions, RemoveFiles(p, v) PROVE RuntimeTypeOK'
    BY <2>6 DEF RemoveFiles
  <2>7. CASE UninstallUnlocks(p)
    BY <2>7 DEF UninstallUnlocks
  <2>8. CASE RemoveRoot(p)
    BY <2>8 DEF RemoveRoot, Empty
  <2>9. QED
    BY <1>4, <2>1, <2>2, <2>3, <2>4, <2>5, <2>6, <2>7, <2>8 DEF Uninstall
<1>5. ASSUME NEW p \in Processes, CutShort(p),
             lock' \in {lock, Nobody}
      PROVE RuntimeTypeOK'
  BY <1>5, RuntimeAssumption DEF CutShort
<1>6. CASE BreakLock
  BY <1>6 DEF BreakLock
<1>7. CASE UNCHANGED runtimeVars
  BY <1>7 DEF runtimeVars
<1>8. QED
  BY <1>1, <1>2, <1>3, <1>4, <1>5, <1>6, <1>7 DEF RuntimeNext, Interrupt, Die

-----------------------------------------------------------------------------
\* What a step of one process does to where the others stand.
LEMMA LockStep == RuntimeTypeOK /\ LockInv /\ [RuntimeNext]_runtimeVars => LockInv'
<1> SUFFICES ASSUME RuntimeTypeOK, LockInv, [RuntimeNext]_runtimeVars,
                    NEW q \in Processes, Holding(q)'
             PROVE lock' = q
  BY DEF LockInv
<1> USE DEF Holding, LockInv
<1>0. DOMAIN pc = Processes
  BY DEF RuntimeTypeOK
<1>1. ASSUME NEW p \in Processes, NEW c \in Commands, Begin(p, c) PROVE lock' = q
  BY <1>0, <1>1 DEF Begin, Go
<1>2. ASSUME NEW p \in Processes, Install(p) PROVE lock' = q
  <2>1. CASE FindHealthy(p) \/ FindUnhealthy(p) \/ CheckInstalled(p)
    BY <1>0, <2>1 DEF FindHealthy, FindUnhealthy, CheckInstalled, Go, End
  <2>2. CASE Prepare(p) \/ NpmFails(p) \/ InstallUnlocks(p)
    BY <1>0, <2>2 DEF Prepare, NpmFails, InstallUnlocks, Go, End, Unlock
  <2>3. CASE NpmWorks(p) \/ Promote(p) \/ Claim(p) \/ Point(p)
    BY <1>0, <2>3 DEF NpmWorks, Promote, Claim, Point, Go
  <2>4. QED
    BY <1>2, <2>1, <2>2, <2>3 DEF Install
<1>3. ASSUME NEW p \in Processes, Lock(p) PROVE lock' = q
  BY <1>0, <1>3, RuntimeAssumption DEF Lock, LockThen, Go, End
<1>4. ASSUME NEW p \in Processes, Uninstall(p) PROVE lock' = q
  <2>1. CASE NothingToRemove(p) \/ RefuseForeign(p) \/ MayRemove(p) \/ RemoveRoot(p)
    BY <1>0, <2>1 DEF NothingToRemove, RefuseForeign, MayRemove, RemoveRoot, Go, End
  <2>2. CASE RemoveMarker(p) \/ (\E o \in Processes : RemoveStaging(p, o))
               \/ (\E v \in Versions : RemoveFiles(p, v))
    BY <2>2 DEF RemoveMarker, RemoveStaging, RemoveFiles
  <2>3. CASE UninstallUnlocks(p)
    BY <1>0, <2>3 DEF UninstallUnlocks, Go, Unlock
  <2>4. QED
    BY <1>4, <2>1, <2>2, <2>3 DEF Uninstall
<1>5. ASSUME NEW p \in Processes, Interrupt(p) PROVE lock' = q
  BY <1>0, <1>5 DEF Interrupt, CutShort, End, Go, Unlock
<1>6. ASSUME NEW p \in Processes, Die(p) PROVE lock' = q
  BY <1>0, <1>6 DEF Die, CutShort, End, Go
<1>7. CASE BreakLock
  BY <1>7 DEF BreakLock
<1>8. CASE UNCHANGED runtimeVars
  BY <1>8 DEF runtimeVars
<1>9. QED
  BY <1>1, <1>2, <1>3, <1>4, <1>5, <1>6, <1>7, <1>8 DEF RuntimeNext

-----------------------------------------------------------------------------
\* A step in a foreign root leaves it as it is, and brings nobody further.
LEMMA ForeignKept ==
  ASSUME RuntimeTypeOK, ForeignInv, [RuntimeNext]_runtimeVars, "foreign" \in entries
  PROVE  entries' = entries /\ \A q \in Processes : pc'[q] \notin Beyond
<1> USE DEF ForeignInv, Beyond
<1>0. DOMAIN pc = Processes
  BY DEF RuntimeTypeOK
<1>1. ~Empty /\ ~Owned
  BY DEF Empty, Owned
<1> DEFINE Kept == entries' = entries /\ \A q \in Processes : pc'[q] \notin Beyond
<1>2. ASSUME NEW p \in Processes, NEW c \in Commands, Begin(p, c) PROVE Kept
  BY <1>0, <1>2 DEF Begin, Go, files
<1>3. ASSUME NEW p \in Processes, Install(p) PROVE Kept
  <2>1. CASE FindHealthy(p) \/ FindUnhealthy(p) \/ CheckInstalled(p)
    BY <1>0, <2>1 DEF FindHealthy, FindUnhealthy, CheckInstalled, Go, End, files
  <2>2. CASE Prepare(p) \/ InstallUnlocks(p)
    BY <1>0, <1>1, <2>2 DEF Prepare, InstallUnlocks, Go, End, files
  <2>3. CASE NpmFails(p) \/ NpmWorks(p) \/ Promote(p) \/ Claim(p) \/ Point(p)
    BY <2>3 DEF NpmFails, NpmWorks, Promote, Claim, Point
  <2>4. QED
    BY <1>3, <2>1, <2>2, <2>3 DEF Install
<1>4. ASSUME NEW p \in Processes, Lock(p) PROVE Kept
  BY <1>0, <1>4 DEF Lock, LockThen, Go, End
<1>5. ASSUME NEW p \in Processes, Uninstall(p) PROVE Kept
  <2>1. CASE NothingToRemove(p) \/ RefuseForeign(p) \/ MayRemove(p) \/ RemoveRoot(p)
    BY <1>0, <1>1, <2>1
      DEF NothingToRemove, RefuseForeign, MayRemove, RemoveRoot, Go, End, files
  <2>2. CASE RemoveMarker(p) \/ (\E o \in Processes : RemoveStaging(p, o))
               \/ (\E v \in Versions : RemoveFiles(p, v)) \/ UninstallUnlocks(p)
    BY <2>2 DEF RemoveMarker, RemoveStaging, RemoveFiles, UninstallUnlocks
  <2>3. QED
    BY <1>5, <2>1, <2>2 DEF Uninstall
<1>6. ASSUME NEW p \in Processes, CutShort(p) PROVE Kept
  BY <1>0, <1>6 DEF CutShort, End, Go, files
<1>7. CASE BreakLock
  BY <1>7 DEF BreakLock, files
<1>8. CASE UNCHANGED runtimeVars
  BY <1>8 DEF runtimeVars
<1>9. QED
  BY <1>2, <1>3, <1>4, <1>5, <1>6, <1>7, <1>8 DEF RuntimeNext, Interrupt, Die

\* Nobody makes a file that is foreign.
LEMMA ForeignNew ==
  ASSUME RuntimeTypeOK, [RuntimeNext]_runtimeVars, "foreign" \in entries'
  PROVE  "foreign" \in entries
<1>1. ASSUME NEW p \in Processes, NEW c \in Commands, Begin(p, c) PROVE "foreign" \in entries
  BY <1>1 DEF Begin, files
<1>2. ASSUME NEW p \in Processes, Install(p) PROVE "foreign" \in entries
  BY <1>2 DEF Install, FindHealthy, FindUnhealthy, Prepare, NpmFails, NpmWorks,
              Promote, Claim, Point, InstallUnlocks, CheckInstalled, files
<1>3. ASSUME NEW p \in Processes, Lock(p) PROVE "foreign" \in entries
  BY <1>3 DEF Lock
<1>4. ASSUME NEW p \in Processes, Uninstall(p) PROVE "foreign" \in entries
  BY <1>4 DEF Uninstall, NothingToRemove, RefuseForeign, MayRemove, RemoveMarker,
              RemoveStaging, RemoveFiles, UninstallUnlocks, RemoveRoot, files
<1>5. ASSUME NEW p \in Processes, CutShort(p) PROVE "foreign" \in entries
  BY <1>5 DEF CutShort, files
<1>6. CASE BreakLock \/ UNCHANGED runtimeVars
  BY <1>6 DEF BreakLock, files, runtimeVars
<1>7. QED
  BY <1>1, <1>2, <1>3, <1>4, <1>5, <1>6 DEF RuntimeNext, Interrupt, Die

LEMMA ForeignStep == RuntimeTypeOK /\ ForeignInv /\ [RuntimeNext]_runtimeVars => ForeignInv'
  BY ForeignKept, ForeignNew DEF ForeignInv

-----------------------------------------------------------------------------
\* A step that is no removal neither takes files from a runtime nor sets torn,
\* and the last step of a removal finds none left.
LEMMA WholeStep == RuntimeTypeOK /\ WholeInv /\ [RuntimeNext]_runtimeVars => WholeInv'
<1> SUFFICES ASSUME RuntimeTypeOK, WholeInv, [RuntimeNext]_runtimeVars, ~torn',
                    \A p \in Processes : pc'[p] # "removing",
                    NEW v \in Versions
             PROVE versions'[v] # "part"
  BY DEF WholeInv
<1> USE DEF WholeInv
<1>0. DOMAIN pc = Processes /\ torn \in BOOLEAN
      /\ versions \in [Versions -> {"none", "part", "whole"}]
  BY DEF RuntimeTypeOK
<1> DEFINE Quiet == \A p \in Processes : pc[p] # "removing"
<1>1. ASSUME Quiet, torn' = torn, versions' = versions PROVE versions'[v] # "part"
  BY <1>1
<1>2. ASSUME NEW p \in Processes, NEW c \in Commands, Begin(p, c) PROVE versions'[v] # "part"
  <2>1. Quiet
    BY <1>0, <1>2 DEF Begin, Go
  <2>2. QED
    BY <1>1, <1>2, <2>1 DEF Begin, files
<1>3. ASSUME NEW p \in Processes, Install(p) PROVE versions'[v] # "part"
  <2>1. pc[p] # "removing" /\ torn' = torn
        /\ \A q \in Processes \ {p} : pc'[q] = pc[q]
    BY <1>0, <1>3 DEF Install, FindHealthy, FindUnhealthy, Prepare, NpmFails, NpmWorks,
              Promote, Claim, Point, InstallUnlocks, CheckInstalled, Go, End
  <2>2. Quiet
    BY <2>1
  <2>3. CASE Promote(p)
    BY <1>0, <2>1, <2>2, <2>3 DEF Promote
  <2>4. CASE ~Promote(p)
    <3>1. versions' = versions
      BY <1>3, <2>4 DEF Install, FindHealthy, FindUnhealthy, Prepare, NpmFails, NpmWorks,
              Claim, Point, InstallUnlocks, CheckInstalled, files
    <3>2. QED
      BY <1>1, <2>1, <2>2, <3>1
  <2>5. QED
    BY <2>3, <2>4
<1>4. ASSUME NEW p \in Processes, Lock(p) PROVE versions'[v] # "part"
  <2>1. Quiet
    BY <1>0, <1>4 DEF Lock, Go, End
  <2>2. QED
    BY <1>1, <1>4, <2>1 DEF Lock
<1>5. ASSUME NEW p \in Processes, Uninstall(p) PROVE versions'[v] # "part"
  <2>1. CASE UninstallUnlocks(p)
    BY <1>0, <2>1 DEF UninstallUnlocks, Empty, Installed, files
  <2>2. CASE RemoveMarker(p) \/ (\E o \in Processes : RemoveStaging(p, o))
               \/ (\E w \in Versions : RemoveFiles(p, w))
    BY <2>2 DEF RemoveMarker, RemoveStaging, RemoveFiles
  <2>3. CASE NothingToRemove(p) \/ RefuseForeign(p) \/ MayRemove(p) \/ RemoveRoot(p)
    <3>1. Quiet
      BY <1>0, <2>3 DEF NothingToRemove, RefuseForeign, MayRemove, RemoveRoot, Go, End
    <3>2. QED
      BY <1>1, <2>3, <3>1 DEF NothingToRemove, RefuseForeign, MayRemove, RemoveRoot, files
  <2>4. QED
    BY <1>5, <2>1, <2>2, <2>3 DEF Uninstall
<1>6. ASSUME NEW p \in Processes, CutShort(p) PROVE versions'[v] # "part"
  <2>1. Quiet /\ ~torn
    BY <1>0, <1>6 DEF CutShort, End, Go
  <2>2. QED
    BY <1>6, <2>1 DEF CutShort, files
<1>7. CASE BreakLock \/ UNCHANGED runtimeVars
  BY <1>1, <1>7 DEF BreakLock, files, runtimeVars
<1>8. QED
  BY <1>2, <1>3, <1>4, <1>5, <1>6, <1>7 DEF RuntimeNext, Interrupt, Die

-----------------------------------------------------------------------------
LEMMA RuntimeInvariant == RuntimeSpec => []RuntimeInv
<1>1. RuntimeInv /\ [RuntimeNext]_runtimeVars => RuntimeInv'
  BY RuntimeTypeStep, LockStep, ForeignStep, WholeStep DEF RuntimeInv
<1>2. QED
  BY <1>1, RuntimeInitial, PTL DEF RuntimeSpec

\* Every variable has its type, for any processes, builds and bounds.
THEOREM RuntimeTypeCorrect == RuntimeSpec => []RuntimeTypeOK
<1>1. RuntimeInv => RuntimeTypeOK
  BY DEF RuntimeInv
<1>2. QED
  BY <1>1, RuntimeInvariant, PTL

\* One process at a time changes the runtime, also over a lock that was left
\* behind and taken away by the user, for any number of processes.
THEOREM RuntimeOneAtATime == RuntimeSpec => []OneAtATime
<1>1. RuntimeInv => OneAtATime
  BY DEF RuntimeInv, LockInv, OneAtATime
<1>2. QED
  BY <1>1, RuntimeInvariant, PTL

\* What an Actor is handed is a whole runtime, unless a removal was cut short.
THEOREM RuntimeShownIsWhole == RuntimeSpec => []ShownRuntimeIsWhole
<1>1. RuntimeInv => ShownRuntimeIsWhole
  <2>1. RuntimeTypeOK /\ WholeInv => ShownRuntimeIsWhole
    BY DEF RuntimeTypeOK, WholeInv, ShownRuntimeIsWhole, MayBeHealthy
  <2>2. QED
    BY <2>1 DEF RuntimeInv
<1>2. QED
  BY <1>1, RuntimeInvariant, PTL

\* No command touches a file that was there before the runtime.
THEOREM RuntimeSparesForeignFiles == RuntimeSpec => ForeignFilesStay
<1>1. RuntimeInv /\ [RuntimeNext]_runtimeVars => [entries \cap {"foreign"} \subseteq entries']_runtimeVars
  BY ForeignKept DEF RuntimeInv
<1>2. QED
  BY <1>1, RuntimeInvariant, PTL DEF RuntimeSpec, ForeignFilesStay
=============================================================================
