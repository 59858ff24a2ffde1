----------------------------- MODULE ToolGateway -----------------------------
(***************************************************************************)
(* How a call that a model asks for comes to be made: the gateway every    *)
(* tool call goes through (core/tools/gateway.py), the SecurityManager     *)
(* with its local and external content guards (core/security/), single-use *)
(* approvals, and the provider that dispatches (McpClient).                *)
(*                                                                         *)
(* Each Actor has a SecurityManager of its own, and makes one call after   *)
(* the other.  Every await is a step; the Run's events may fail to be      *)
(* written at any of them, which denies a call that is not authorized yet  *)
(* and is not caught later.                                                *)
(*                                                                         *)
(* Abstractions: a tool stands for its call with its final arguments, of   *)
(* which only what the rules make of them is kept (Ruling, LocalView,      *)
(* Oversized); a grant is bound to call and risk, and risk has three       *)
(* levels; the content of results is left out, but not whether a guard     *)
(* lets them through.                                                      *)
(***************************************************************************)
EXTENDS McpClient

CONSTANTS
  Modes,             \* security modes to consider
  Ruling,            \* what the deterministic rules say of a call
  LocalView,         \* what the local guard says of a call's summary
  Oversized,         \* calls whose summary is too large to leave the host
  MaxCalls,          \* external inspections of a provider
  FailureThreshold,  \* consecutive failures that open its circuit
  MaxGrants,         \* approvals given (bounds the model)
  MaxRuns            \* tools run (bounds the model)

Outcomes == {"allow", "review", "error", "deny"}

ASSUME GatewayAssumption ==
  /\ Modes \subseteq {"off", "local", "hybrid", "strict"}
  /\ Ruling \in [Tools -> {"unregistered", "secret", "forbidden", "risky", "plain"}]
  /\ LocalView \in [Tools -> {"allow", "review", "deny"}]
  /\ Oversized \subseteq Tools
  /\ MaxCalls \in Nat /\ FailureThreshold \in Nat

VARIABLES
  security,   \* the mode, and whether there is an external guard
  guard,      \* the OpenAIGuardrailsProvider of each Actor
  call,       \* the call each Actor is making
  grants,     \* fingerprints with a grant in the Actor's ApprovalStore
  asked,      \* fingerprints whose approval was requested
  given,      \* history: grants given, per fingerprint
  used,       \* history: tools run that needed approval, per fingerprint
  runs        \* history: external inspections, tools run and grants given

vars == <<provider, security, guard, call, grants, asked, given, used, runs>>

Risks == {"low", "medium", "high"}

Fingerprints == [actor : Actors, tool : Tools, risk : Risks]

NoCall == [tool |-> None, step |-> "none", outside |-> "none", approved |-> FALSE,
           answer |-> "none"]

FreshGuard == [calls |-> 0, failures |-> 0, drained |-> FALSE]

Init ==
  /\ McpInit
  /\ security \in {s \in [mode : Modes, external : BOOLEAN] :
                     /\ s.mode = "strict" => s.external
                     /\ s.mode \in {"off", "local"} => ~s.external}
  /\ guard = [a \in Actors |-> FreshGuard]
  /\ call = [a \in Actors |-> NoCall]
  /\ grants = {}
  /\ asked = {}
  /\ given = [f \in Fingerprints |-> 0]
  /\ used = [f \in Fingerprints |-> 0]
  /\ runs = [outside |-> 0, tools |-> 0, grants |-> 0]

Call(a, record) == call' = [call EXCEPT ![a] = record]

\* execute returns: the observation goes back to the model.
Answer(a, answer) == Call(a, [NoCall EXCEPT !.answer = answer])

-----------------------------------------------------------------------------
\* An unknown tool, a wrong schema or a secret among the arguments is denied
\* before any guard is asked.
Propose(a, t) ==
  /\ provider[a].phase = "up" /\ call[a].step = "none" /\ runs.tools < MaxRuns
  /\ IF Ruling[t] \in {"unregistered", "secret"}
     THEN Answer(a, "denied")
     ELSE Call(a, [NoCall EXCEPT !.tool = t, !.step = "inspecting"])
  /\ UNCHANGED <<provider, security, guard, grants, asked, given, used, runs>>

\* The egress policy lets a summary of bounded size out, in two modes only.
EgressAllowed(t) == security.mode \in {"hybrid", "strict"} /\ t \notin Oversized

\* OpenAIGuardrailsProvider.inspect.
Spent(g) == g.calls >= MaxCalls \/ g.drained \/ g.failures >= FailureThreshold

\* Fault: a spent guard has nothing against a call.
InspectUnlessSpent(a) ==
  LET t == call[a].tool
      out == security.external /\ EgressAllowed(t)
  IN /\ call[a].step = "inspecting"
     /\ IF out /\ ~Spent(guard[a])
        THEN /\ guard' = [guard EXCEPT ![a].calls = @ + 1]
             /\ runs' = [runs EXCEPT !.outside = @ + 1]
             /\ Call(a, [call[a] EXCEPT !.step = "asking"])
        ELSE Call(a, [call[a] EXCEPT !.step = "deciding"]) /\ UNCHANGED <<guard, runs>>
     /\ UNCHANGED <<provider, security, grants, asked, given, used>>

\* SecurityManager.inspect: the local guard, and the external one after it.
Inspect(a) ==
  LET t == call[a].tool
      out == security.external /\ EgressAllowed(t)
  IN /\ call[a].step = "inspecting"
     /\ IF out /\ ~Spent(guard[a])
        THEN /\ guard' = [guard EXCEPT ![a].calls = @ + 1]
             /\ runs' = [runs EXCEPT !.outside = @ + 1]
             /\ Call(a, [call[a] EXCEPT !.step = "asking"])
        ELSE /\ Call(a, [call[a] EXCEPT !.step = "deciding",
                                     !.outside = IF out THEN "error" ELSE "none"])
             /\ UNCHANGED <<guard, runs>>
     /\ UNCHANGED <<provider, security, grants, asked, given, used>>

\* The service answers, and may use up the token budget, or fails or is late.
OutsideAnswers(a, outcome) ==
  /\ call[a].step = "asking"
  /\ IF outcome = "error"
     THEN guard' = [guard EXCEPT ![a].failures = @ + 1]
     ELSE \E d \in BOOLEAN :
            guard' = [guard EXCEPT ![a].failures = 0, ![a].drained = @ \/ d]
  /\ Call(a, [call[a] EXCEPT !.step = "deciding", !.outside = outcome])
  /\ UNCHANGED <<provider, security, grants, asked, given, used, runs>>

\* CompositeContentGuardProvider, and the strict rule on what may not go out.
Views(a) ==
  (IF security.mode = "off" THEN {} ELSE {LocalView[call[a].tool]})
    \cup ({call[a].outside} \ {"none"})

Outcome(a) ==
  IF \/ "deny" \in Views(a)
     \/ security.mode = "strict"
          /\ ("error" \in Views(a) \/ call[a].tool \in Oversized)
  THEN "deny"
  ELSE IF Views(a) \cap {"error", "review"} # {} THEN "review" ELSE "allow"

\* The risk of rules and guards together: it is part of the fingerprint.
RiskOf(a) ==
  IF Ruling[call[a].tool] = "risky" \/ Views(a) \cap {"error", "deny"} # {}
  THEN "high"
  ELSE IF "review" \in Views(a) THEN "medium" ELSE "low"

Fingerprint(a) == [actor |-> a, tool |-> call[a].tool, risk |-> RiskOf(a)]

NeedsApproval(a) == Ruling[call[a].tool] = "risky" \/ Outcome(a) = "review"

Denied(a) == Ruling[call[a].tool] = "forbidden" \/ Outcome(a) = "deny"

\* Fault: a grant is good for any number of calls.
AuthorizeKeeping(a) ==
  /\ call[a].step = "deciding"
  /\ ~Denied(a)
  /\ NeedsApproval(a) => Fingerprint(a) \in grants
  /\ Call(a, [call[a] EXCEPT !.step = "starting", !.approved = NeedsApproval(a)])
  /\ UNCHANGED <<provider, security, guard, grants, asked, given, used, runs>>

\* SecurityMiddleware.authorize_tool, the last word; a grant is consumed.
Authorize(a) ==
  /\ call[a].step = "deciding"
  /\ ~Denied(a)
  /\ NeedsApproval(a) => Fingerprint(a) \in grants
  /\ grants' = IF NeedsApproval(a) THEN grants \ {Fingerprint(a)} ELSE grants
  /\ Call(a, [call[a] EXCEPT !.step = "starting", !.approved = NeedsApproval(a)])
  /\ UNCHANGED <<provider, security, guard, asked, given, used, runs>>

Deny(a) ==
  /\ call[a].step = "deciding"
  /\ Denied(a)
  /\ Answer(a, "denied")
  /\ UNCHANGED <<provider, security, guard, grants, asked, given, used, runs>>

RequireApproval(a) ==
  /\ call[a].step = "deciding"
  /\ ~Denied(a) /\ NeedsApproval(a) /\ Fingerprint(a) \notin grants
  /\ asked' = asked \cup {Fingerprint(a)}
  /\ Answer(a, "approval")
  /\ UNCHANGED <<provider, security, guard, grants, given, used, runs>>

\* An event that cannot be written: before the authorization is complete the
\* call is denied, a grant that was consumed for it is gone.
EventLostBefore(a) ==
  /\ \/ call[a].step \in {"inspecting", "deciding"} /\ UNCHANGED grants
     \/ /\ call[a].step = "deciding"
        /\ ~Denied(a) /\ NeedsApproval(a) /\ Fingerprint(a) \in grants
        /\ grants' = grants \ {Fingerprint(a)}
  /\ Answer(a, "denied")
  /\ UNCHANGED <<provider, security, guard, asked, given, used, runs>>

\* tool_execution_started is on record before the tool is run.
Dispatch(a, success) ==
  LET c == call[a]
  IN /\ c.step = "starting"
     /\ CallTool(a, c.tool, success)
     /\ used' = IF c.approved THEN [used EXCEPT ![Fingerprint(a)] = @ + 1] ELSE used
     /\ runs' = [runs EXCEPT !.tools = @ + 1]
     /\ Call(a, [c EXCEPT !.step = "guarding"])
     /\ UNCHANGED <<security, guard, grants, asked, given>>

\* Output goes past the local guard only; what it denies is withheld.
Return(a, answer) ==
  /\ call[a].step = "guarding"
  /\ answer = "withheld" => security.mode # "off"
  /\ Answer(a, answer)
  /\ UNCHANGED <<provider, security, guard, grants, asked, given, used, runs>>

\* An event that cannot be written after the authorization, or a cancellation
\* at any await, ends the Actor: the result of a tool that ran is lost.
Break(a) ==
  /\ provider[a].phase = "up" /\ call[a].step # "none"
  /\ Call(a, NoCall)
  /\ ShutdownCancelled(a) \/ Shutdown(a)
  /\ UNCHANGED <<security, guard, grants, asked, given, used, runs>>

-----------------------------------------------------------------------------
\* A human answers a request; a grant expires.
Grant(f) ==
  /\ f \in asked /\ runs.grants < MaxGrants
  /\ grants' = grants \cup {f}
  /\ asked' = asked \ {f}
  /\ given' = [given EXCEPT ![f] = @ + 1]
  /\ runs' = [runs EXCEPT !.grants = @ + 1]
  /\ UNCHANGED <<provider, security, guard, call, used>>

Expire(f) ==
  /\ f \in grants
  /\ grants' = grants \ {f}
  /\ UNCHANGED <<provider, security, guard, call, asked, given, used, runs>>

StartProvider(a) ==
  /\ McpStep(a)
  /\ UNCHANGED <<security, guard, call, grants, asked, given, used, runs>>

EndActor(a) ==
  /\ call[a].step = "none"
  /\ Shutdown(a)
  /\ UNCHANGED <<security, guard, call, grants, asked, given, used, runs>>

Next ==
  \/ \E a \in Actors :
       \/ StartProvider(a) \/ EndActor(a)
       \/ \E t \in Tools : Propose(a, t)
       \/ Inspect(a)
       \/ \E o \in Outcomes : OutsideAnswers(a, o)
       \/ Authorize(a) \/ Deny(a) \/ RequireApproval(a) \/ EventLostBefore(a)
       \/ \E s \in BOOLEAN : Dispatch(a, s)
       \/ \E w \in {"result", "untrusted", "withheld"} : Return(a, w)
       \/ Break(a)
  \/ \E f \in asked : Grant(f)
  \/ \E f \in grants : Expire(f)

Spec == Init /\ [][Next]_vars

-----------------------------------------------------------------------------
Calls ==
  [tool : Tools \cup {None},
   step : {"none", "inspecting", "asking", "deciding", "starting", "guarding"},
   outside : {"none"} \cup Outcomes,
   approved : BOOLEAN,
   answer : {"none", "denied", "approval", "result", "untrusted", "withheld"}]

\* Every variable has its type; provider's is Providers.
TypeOK ==
  /\ provider \in [Actors -> Providers]
  /\ security \in [mode : Modes, external : BOOLEAN]
  /\ guard \in [Actors -> [calls : Nat, failures : Nat, drained : BOOLEAN]]
  /\ call \in [Actors -> Calls]
  /\ grants \subseteq Fingerprints
  /\ asked \subseteq Fingerprints
  /\ given \in [Fingerprints -> Nat] /\ used \in [Fingerprints -> Nat]
  /\ runs \in [outside : Nat, tools : Nat, grants : Nat]

\* docs/architecture/tool-gateway.md:28, "consumed once": for each fingerprint
\* no more tools are run than grants were given, whatever expired, was lost
\* with an event or granted again in between.
GrantsUsedOnce ==
  \A f \in Fingerprints : used[f] <= given[f]

\* Strict mode fails closed: a tool only runs when the external guard has
\* answered for that very call and did not deny it, also after its budget or
\* its circuit gave out, and never when the summary could not be sent; what
\* any guard or rule had doubts about runs with a grant only.
GuardedBeforeRun ==
  \A a \in Actors : call[a].step \in {"starting", "guarding"} =>
    /\ security.mode = "strict" => call[a].outside \in {"allow", "review"}
    /\ (\/ Ruling[call[a].tool] = "risky" \/ "review" \in Views(a)
        \/ "error" \in Views(a))
         => call[a].approved
=============================================================================
