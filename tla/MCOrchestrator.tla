--------------------------- MODULE MCOrchestrator ---------------------------
(* Instances of Orchestrator for TLC: a question, a small change, one that   *)
(* needs approval and one that is broad, in a workspace that may get a gates *)
(* file meanwhile.                                                           *)
EXTENDS Orchestrator

Short(terms) == [terms |-> terms, long |-> FALSE]
Question == Short({"read_only"})
Change == Short({"change"})
Migration == Short({"change", "high"})

Rewrite == Short({"change", "broad"})

AnyOfFour == {Question, Change, Migration, Rewrite}
AnyOfTwo == {Question, Change}
HereOrGated == {w \in Workspaces : w.paths = 0}
=============================================================================
