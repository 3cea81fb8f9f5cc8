SPECIFICATION Spec
CONSTANTS
  f1 = f1
  f2 = f2
  Files = {f1, f2}
  MaxEntries = 4
  Kinds = {"user", "assistant"}
  Forks = TRUE
  EmptyFiles = TRUE
  Faults = {"kill"}
INVARIANT Durable
PROPERTY AppendOnly
PROPERTY ImplementsTree
SYMMETRY Paths
CHECK_DEADLOCK FALSE
