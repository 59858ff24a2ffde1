----------------------------- MODULE MCDelegate -----------------------------
(* Instances of Delegate for TLC. *)
EXTENDS Delegate, TLC

CONSTANTS s, d, a, b, v

MCRoleOf ==
  [t \in Tasks |-> IF t \in {s, d} THEN "scout" ELSE IF t = v THEN "verifier" ELSE "coder"]

\* A chain of two Scouts, a Coder and a Verifier; and another Coder that waits
\* for nobody by name.
MCDependsOn == (s :> {} @@ d :> {s} @@ a :> {d} @@ v :> {a} @@ b :> {})
=============================================================================
