\* A Planner and two Coders of one role claim, charge, fail, reserve, release and
\* resume against limits that are all within reach.  Four answers of two tokens
\* would come to 8, past the 7 that a budget of one and three loops allow, did the
\* budget not stop the loops in between.
CONSTANTS
  p = p
  a1 = a1
  a2 = a2
  coder = coder
  Planner = p
  Actors <- MCActors
  Roles <- MCRoles
  RoleOf <- MCRoleOf
  MaxModelCalls = 4
  MaxTokens = 1
  MaxResponse = 2
  MaxFailedToolCalls = 0
  MaxRepairs = 1
  MaxActors = 2
  MaxStartAttempts = 3
  NeedsApproval = TRUE
  MaxSegments = 2
SPECIFICATION Spec
SYMMETRY Symmetry
INVARIANTS
  TokenOvershootBounded
  FailedCallsBounded
  NoCallBeforeApproval
  HardLimits
