CONSTANTS
  MaxRuns = 2
  MaxMessages = 2
  MaxToolTurns = 1
  MaxCalls = 2
  ToolModes = {"sequential", "parallel"}
  QueueModes = {"one-at-a-time", "all"}
  Outcomes = {"ok"}
  CanAbort = TRUE
  HooksThrow = TRUE
  Reentrant = FALSE
  Housekeeping = TRUE
SPECIFICATION Spec
INVARIANTS RequestIsWellFormed RunRegistry EachMessageOnce PendingToolCallsExact
PROPERTIES FollowsTurnProtocol
CHECK_DEADLOCK FALSE
