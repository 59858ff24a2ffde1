\* Every invocation ends, whatever the ledger refuses and when the time is over:
\* the Planner alone or one Coder.
CONSTANTS
  Asked <- AnyOfTwo
  Places <- HereOrGated
  RecursionLimit = 20
  MaxInvocations = 2
  MaxMishaps = 1
  MayExpire = TRUE
SPECIFICATION FairSpec
PROPERTIES
  InvocationAdvances
  InvocationsEnd
CHECK_DEADLOCK FALSE
