\* Two processes give three commands with two builds of sca.
SPECIFICATION RuntimeSpec
CONSTANTS
  Processes = {p, q}
  Versions = {old, new}
  Nobody = Nobody
  MaxCommands = 3
  MaxFaults = 2
SYMMETRY Symmetry
INVARIANTS
  OneAtATime
  ShownRuntimeIsWhole
PROPERTIES
  ForeignFilesStay
CHECK_DEADLOCK FALSE
