CONSTANTS
  MaxPrompts = 2
  Files = {"f1", "f2"}
  MaxTurns = 2
  MaxRetries = 1
  Outcomes = {"toolUse", "large", "error", "overflow", "throws", "fatal", "throwsRetryable"}
  Commands = {"new", "switch", "compact", "tree", "fork"}
SPECIFICATION Spec
INVARIANTS ContextMatchesLog  ResultsFollowCalls RecoveryBounded
PROPERTY PromptsReturnUnlessStuck
CHECK_DEADLOCK FALSE
