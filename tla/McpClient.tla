------------------------------ MODULE McpClient ------------------------------
(***************************************************************************)
(* The tool provider that each Actor has for itself (core/mcp/client.py):  *)
(* local tools, which are always there, and the tools of MCP servers that  *)
(* are started with the Actor, may fail one by one, and are given up       *)
(* together after three failed calls in a row.                             *)
(*                                                                         *)
(* Abstractions: a tool is its name; how a server fails (not installed, no *)
(* process, no handshake) is left out.  No call is made before start has   *)
(* ended or after shutdown.                                                *)
(***************************************************************************)
EXTENDS Sequences, SequencesExt, FiniteSets, Naturals

CONSTANTS
  Actors,       \* Actors of the Run
  Tools,        \* names of tools
  LocalTools,   \* those a local adapter owns
  Servers,      \* the MCP servers, in the order they are started
  Lists,        \* Lists[s]: the tools server s offers
  None,         \* no server, no tool
  MaxConsecutiveFailures

ASSUME McpAssumption ==
  /\ Servers \in Seq(ToSet(Servers))
  /\ LocalTools \subseteq Tools
  /\ None \notin ToSet(Servers) \cup Tools
  /\ Lists \in [ToSet(Servers) -> SUBSET Tools]
  /\ MaxConsecutiveFailures \in Nat \ {0}

VARIABLE provider   \* the MCPToolProvider of each Actor

NoRoutes == [t \in Tools |-> None]

NoProvider(mode) ==
  [mode     |-> mode,        \* MCPMode
   phase    |-> "off",
   queue    |-> <<>>,        \* servers that are still to be started, or listed
   sessions |-> <<>>,        \* servers with a session, in the order of the dict
   routing  |-> NoRoutes,    \* _tool_routing
   offered  |-> {},          \* _tool_schemas
   failures |-> 0,           \* _failure_count
   open     |-> FALSE,       \* _circuit_open
   degraded |-> FALSE]       \* there is a diagnostic

McpInit == provider \in [Actors -> {NoProvider(m) : m \in {"off", "optional", "required"}}]

Put(a, p) == provider' = [provider EXCEPT ![a] = p]

-----------------------------------------------------------------------------
\* start: the local catalogue comes first, and is all there is in mode off.
StartLocal(a) ==
  LET p == provider[a]
  IN /\ p.phase = "off"
     /\ Put(a, [p EXCEPT !.offered = LocalTools,
                         !.queue = Servers,
                         !.phase = IF p.mode = "off" THEN "up" ELSE "spawning"])

\* The sandbox is not available: nothing is started.
NoSandbox(a) ==
  /\ provider[a].phase = "off"
  /\ Put(a, [provider[a] EXCEPT !.phase = "failed"])

Connect(a) ==
  LET p == provider[a]
  IN /\ p.phase = "spawning" /\ p.queue # <<>>
     /\ Put(a, [p EXCEPT !.sessions = Append(@, Head(p.queue)),
                         !.queue = Tail(@)])

\* One server that fails is a diagnostic.
FailToConnect(a) ==
  LET p == provider[a]
  IN /\ p.phase = "spawning" /\ p.queue # <<>>
     /\ Put(a, [p EXCEPT !.queue = Tail(@), !.degraded = TRUE])

AllSpawned(a) ==
  LET p == provider[a]
  IN /\ p.phase = "spawning" /\ p.queue = <<>>
     /\ Put(a, [p EXCEPT !.phase = "listing", !.queue = p.sessions])

\* Fault: a remote tool may take the place of a local one.
ListAll(a) ==
  LET p == provider[a]
      s == Head(p.queue)
      fresh == {t \in Lists[s] : p.routing[t] = None}
  IN /\ p.phase = "listing" /\ p.queue # <<>>
     /\ Put(a, [p EXCEPT !.queue = Tail(@),
                         !.routing = [t \in Tools |-> IF t \in fresh THEN s ELSE @[t]],
                         !.offered = (@ \ LocalTools) \cup Lists[s]])

\* _build_routing_table: a local tool owns its name, the first server its own.
List(a) ==
  LET p == provider[a]
      s == Head(p.queue)
      fresh == {t \in Lists[s] \ LocalTools : p.routing[t] = None}
  IN /\ p.phase = "listing" /\ p.queue # <<>>
     /\ Put(a, [p EXCEPT !.queue = Tail(@),
                         !.routing = [t \in Tools |-> IF t \in fresh THEN s ELSE @[t]],
                         !.offered = @ \cup fresh])

FailToList(a) ==
  LET p == provider[a]
  IN /\ p.phase = "listing" /\ p.queue # <<>>
     /\ Put(a, [p EXCEPT !.queue = Tail(@), !.degraded = TRUE])

\* A required provider without any session is refused.
StartEnds(a) ==
  LET p == provider[a]
  IN /\ p.phase = "listing" /\ p.queue = <<>>
     /\ Put(a, [p EXCEPT !.phase = IF p.mode = "required" /\ p.sessions = <<>>
                                   THEN "failed" ELSE "up"])

-----------------------------------------------------------------------------
\* _record_failure counts over all servers and never closes the circuit.
Failure(p) ==
  [p EXCEPT !.failures = @ + 1,
            !.open = @ \/ p.failures + 1 >= MaxConsecutiveFailures,
            !.degraded = TRUE]

Reaches(p, t) ==
  /\ t \notin LocalTools
  /\ ~p.open
  /\ p.routing[t] # None /\ p.routing[t] \in ToSet(p.sessions)

\* call_tool: what a call of t may do to the provider, and how it may end.
\* A server's own error is no failure to the provider.
CallTool(a, t, success) ==
  LET p == provider[a]
  IN IF Reaches(p, t)
     THEN Put(a, IF success THEN [p EXCEPT !.failures = 0] ELSE Failure(p))
     ELSE /\ success => t \in LocalTools
          /\ UNCHANGED provider

\* shutdown, from whatever point the Actor ended at; close errors are recorded
\* and a cancellation leaves everything as it was.
Shutdown(a) ==
  LET p == provider[a]
  IN /\ p.phase # "down"
     /\ \E clean \in BOOLEAN :
          Put(a, [NoProvider(p.mode) EXCEPT !.phase = "down",
                                            !.failures = p.failures,
                                            !.open = p.open,
                                            !.degraded = p.degraded \/ ~clean])

ShutdownCancelled(a) ==
  /\ provider[a].phase # "down"
  /\ Put(a, [provider[a] EXCEPT !.phase = "down"])

McpStep(a) ==
  \/ StartLocal(a) \/ NoSandbox(a) \/ Connect(a) \/ FailToConnect(a)
  \/ AllSpawned(a) \/ List(a) \/ FailToList(a) \/ StartEnds(a)

-----------------------------------------------------------------------------
Providers ==
  [mode : {"off", "optional", "required"},
   phase : {"off", "spawning", "listing", "up", "failed", "down"},
   queue : Seq(ToSet(Servers)), sessions : Seq(ToSet(Servers)),
   routing : [Tools -> ToSet(Servers) \cup {None}],
   offered : SUBSET Tools,
   failures : Nat, open : BOOLEAN, degraded : BOOLEAN]

\* While an Actor works, however its servers came up, the local tools are there
\* under their own names, every other tool it is offered has a server that it
\* is connected to and that lists the tool, and a required provider has one.
OfferedToolsAreServed ==
  \A a \in Actors :
    LET p == provider[a]
    IN p.phase = "up" =>
         /\ LocalTools \subseteq p.offered
         /\ \A t \in p.offered \cup {u \in Tools : p.routing[u] # None} :
              IF t \in LocalTools
              THEN p.routing[t] = None
              ELSE p.routing[t] \in ToSet(p.sessions) /\ t \in Lists[p.routing[t]]
         /\ p.mode = "required" => p.sessions # <<>>
=============================================================================
