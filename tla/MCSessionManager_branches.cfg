SPECIFICATION Spec
CONSTANTS
  f1 = f1
  f2 = f2
  Files = {f1}
  MaxEntries = 4
  Kinds = {"user", "assistant", "setting", "compaction", "branch_summary", "label"}
  Forks = FALSE
  EmptyFiles = FALSE
  Faults = {}
INVARIANT ReloadRestores
INVARIANT ContextIsHistory
CHECK_DEADLOCK FALSE
