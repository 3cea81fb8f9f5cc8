SPECIFICATION Spec
CONSTANTS
  f1 = f1
  f2 = f2
  Files = {f1, f2}
  MaxEntries = 3
  Kinds = {"assistant", "setting"}
  Forks = TRUE
  EmptyFiles = FALSE
  Faults = {"full", "torn"}
PROPERTY LastLineOnly
SYMMETRY Paths
CHECK_DEADLOCK FALSE
