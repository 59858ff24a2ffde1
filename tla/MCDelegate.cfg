\* A chain of two Scouts, a Coder and a Verifier, and a Coder beside them: in two
\* calls, with gates, two repairs for the Run, failures everywhere and Ctrl-C.
CONSTANTS
  s = s
  d = d
  a = a
  b = b
  v = v
  Tasks = {s, d, a, b, v}
  RoleOf <- MCRoleOf
  DependsOn <- MCDependsOn
  Gates = TRUE
  GatesRequired = FALSE
  Fingerprints = {"red"}
  ConfigRepairs = 2
  MaxRepairs = 2
  Strategy = "scout_then_dag"
  MaxActors = 4
  MaxStartAttempts = 5
  MaxConcurrent = 2
  MaxCalls = 2
SPECIFICATION Spec
INVARIANTS
  GatesHaveLastWord
  RepairsBounded
  CleanUpNeverSkipped
  ScoutsFirst
  ReturnSettlesBatch
  WorkKeepsItsSlot
PROPERTIES
  ResultsStand
  CallAdvances
  CallsEnd
CHECK_DEADLOCK FALSE
