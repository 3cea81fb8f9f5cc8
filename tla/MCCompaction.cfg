SPECIFICATION Spec
CONSTANTS
  Kinds = {"user", "bash", "assistant", "toolResult", "custom", "setting"}
  Sizes <- OneOrTwo
  KeepRecent = 3
  MaxCalls = 2
  MaxEntries = 6
  MaxCompactions = 2
INVARIANT NothingForgotten
INVARIANT ResultsFollowCalls
INVARIANT BudgetKept
CHECK_DEADLOCK FALSE
