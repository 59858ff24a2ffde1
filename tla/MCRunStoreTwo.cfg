\* Two processes run, resume, cancel and lose the same Run.
CONSTANTS
  Processes = {p1, p2}
  Facts = {f1, f2, f3}
SPECIFICATION Spec
SYMMETRY Symmetry
INVARIANTS
  AcknowledgedSavesKept
  CurrentRecordIsTrue
  UpdatesFitTheRow
PROPERTIES
  DurableStepsLegal
CHECK_DEADLOCK FALSE
