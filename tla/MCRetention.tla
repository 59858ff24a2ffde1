---------------------------- MODULE MCRetention ----------------------------
EXTENDS Retention, TLC

Symmetry == Permutations(Runs)
=============================================================================
