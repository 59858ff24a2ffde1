\* One Actor in every mode, with servers and guards that fail.
SPECIFICATION Spec
CONSTANTS
  Actors = {a}
  Tools <- MCTools
  LocalTools <- MCLocal
  Servers <- MCServers
  Lists <- MCLists
  None = None
  MaxConsecutiveFailures = 1
  Modes = {"off", "local", "hybrid", "strict"}
  Ruling <- MCRuling
  LocalView <- MCLocalView
  Oversized = {"drop"}
  MaxCalls = 2
  FailureThreshold = 2
  MaxGrants = 2
  MaxRuns = 2
INVARIANTS
  OfferedToolsAreServed
  GrantsUsedOnce
  GuardedBeforeRun
CHECK_DEADLOCK FALSE
