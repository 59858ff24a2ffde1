----------------------------- MODULE MCRunStore -----------------------------
(* Small instances of RunStore for TLC. *)
EXTENDS RunStore, TLC

Symmetry == Permutations(Processes) \cup Permutations(Facts)
=============================================================================
