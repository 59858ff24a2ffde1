---------------------------- MODULE MCModelLoop ----------------------------
(* ModelLoop with requests, calls and actions as TLC values. *)
EXTENDS ModelLoop

CONSTANTS r1, r2, f1, c1, c2

TwoRequests == <<r1, r2>>
OneFile == {f1}
TwoIds == {c1, c2}
IdSymmetry == Permutations(TwoIds)

MCActions ==
  {[tool |-> "read", file |-> f1], [tool |-> "read_outline", file |-> f1],
   [tool |-> "edit", file |-> f1], [tool |-> "delegate", file |-> "none"]}

OnlyReads == {[tool |-> "read", file |-> f1]}
=============================================================================
