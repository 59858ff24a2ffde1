\* The second turn of an interactive session, with the numbers of the code.
CONSTANTS
  r1 = r1
  r2 = r2
  f1 = f1
  c1 = c1
  c2 = c2
  Files <- OneFile
  ActorExplorationLimit = 8
  PlannerExplorationLimit = 5
  RecentActions = 10
  LoopRoles = {"planner"}
  CallIds <- TwoIds
  Actions <- OnlyReads
  Requests <- TwoRequests
  MaxSteps = 2
  MaxBatch = 1
  KeepRecent = 5
  LongConversation = 15
  KeptTail = 10
  MaxRuns = 2
  MaxCalls = 0
  MaxCompactions = 0
  MaxStops = 0
  MayRefuse = FALSE
SYMMETRY IdSymmetry
SPECIFICATION Spec
INVARIANTS
  RequestReachesModel
CHECK_DEADLOCK FALSE
