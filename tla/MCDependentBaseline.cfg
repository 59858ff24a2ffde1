\* The second Coder is started on the diff of the first.
CONSTANTS
  a = a
  b = b
  f = f
  g = g
  Files = {f, g}
  Coders = {a, b}
  DependsOn <- MCDependsOn
  Scope <- MCScope
  ContextFiles <- MCContextFiles
  Callers = {"collect", "planner"}
  MaxUserEdits = 1
  MaxCrashes = 1
SPECIFICATION Spec
INVARIANTS
  DependentGetsBaseline
CHECK_DEADLOCK FALSE
