--------------------------- MODULE MCBudgetLedger ---------------------------
(* A small instance of BudgetLedger for TLC: a Planner and two Coders. *)
EXTENDS BudgetLedger, TLC

CONSTANTS p, a1, a2, coder

MCActors == {a1, a2}
MCRoles == {coder}
MCRoleOf == [a \in MCActors |-> coder]
Symmetry == Permutations(MCActors)
=============================================================================
