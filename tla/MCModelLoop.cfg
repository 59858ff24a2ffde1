\* Every kind of loop through two steps of up to two calls.
CONSTANTS
  r1 = r1
  r2 = r2
  f1 = f1
  c1 = c1
  c2 = c2
  Files <- OneFile
  ActorExplorationLimit = 1
  PlannerExplorationLimit = 1
  RecentActions = 3
  LoopRoles = {"planner", "root", "scout", "coder"}
  CallIds <- TwoIds
  Actions <- MCActions
  Requests <- TwoRequests
  MaxSteps = 2
  MaxBatch = 2
  KeepRecent = 1
  LongConversation = 4
  KeptTail = 2
  MaxRuns = 2
  MaxCalls = 3
  MaxCompactions = 1
  MaxStops = 1
  MayRefuse = TRUE
SYMMETRY IdSymmetry
SPECIFICATION Spec
INVARIANTS
  EveryCallAnswered
  SavedObservationsCached
  ExplorationBounded
  NoThirdRepetition
PROPERTIES
  NoReplay
CHECK_DEADLOCK FALSE
