--------------------------- MODULE MCManagedRuntime ---------------------------
(* A small instance of ManagedRuntime for TLC. *)
EXTENDS ManagedRuntime, TLC

Symmetry == Permutations(Processes) \cup Permutations(Versions)
=============================================================================
