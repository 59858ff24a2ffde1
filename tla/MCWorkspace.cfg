\* Two Coders, the second on the first, one edit of the user and one death of the
\* program, in a repository and outside of one, patches by the graph or the Planner.
CONSTANTS
  a = a
  b = b
  f = f
  g = g
  Files = {f, g}
  Coders = {a, b}
  DependsOn <- MCDependsOn
  Scope <- MCScope
  ContextFiles <- MCContextFiles
  Callers = {"collect", "planner"}
  MaxUserEdits = 1
  MaxCrashes = 1
SPECIFICATION Spec
INVARIANTS
  ConflictMeansChange
  FlagMeansMerged
PROPERTIES
  UserEditsKept
CHECK_DEADLOCK FALSE
