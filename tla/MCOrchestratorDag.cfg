\* Any strategy the assessor chooses: two deaths, cancellations or exceptions
\* between any two steps.
CONSTANTS
  Asked <- AnyOfFour
  Places <- HereOrGated
  RecursionLimit = 20
  MaxInvocations = 3
  MaxMishaps = 2
  MayExpire = FALSE
SPECIFICATION Spec
INVARIANTS
  WorkNeedsDurableApproval
  WorkflowAdmitsNode
  CompletedMeansDone
  IdleRunIsSettled
PROPERTIES
  KeepsLifecycle
CHECK_DEADLOCK FALSE
