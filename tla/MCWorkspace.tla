---------------------------- MODULE MCWorkspace ----------------------------
(* Instances of Workspace for TLC. *)
EXTENDS Workspace, TLC

CONSTANTS a, b, f, g

\* The second Coder builds on the first, and is given a file of the workspace.
MCDependsOn == (a :> {} @@ b :> {a})
MCScope == (a :> {f, g} @@ b :> {f})
MCContextFiles == (a :> {} @@ b :> {f})
=============================================================================
