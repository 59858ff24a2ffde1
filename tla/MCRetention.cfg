\* Two Runs over two days, where what is not of today is old; two deletions or
\* collections, and three mishaps: the workspace may go, a removal of its state
\* break off, and the workspace come back.
CONSTANTS
  r1 = r1
  r2 = r2
  Runs = {r1, r2}
  RetentionDays = 0
  RetainRuns = 1
  MaxArtifacts = 1
  MaxDays = 2
  MaxCommands = 2
  MaxMishaps = 3
SPECIFICATION Spec
SYMMETRY Symmetry
INVARIANTS
  RowsKeepTheirReports
PROPERTIES
  LeftoversCollected
CHECK_DEADLOCK FALSE
