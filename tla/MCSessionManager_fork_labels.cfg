SPECIFICATION Spec
CONSTANTS
  f1 = f1
  f2 = f2
  Files = {f1, f2}
  MaxEntries = 4
  Kinds = {"user", "assistant", "label"}
  Forks = TRUE
  EmptyFiles = FALSE
  Faults = {}
INVARIANT ContextIsHistory
CHECK_DEADLOCK FALSE
