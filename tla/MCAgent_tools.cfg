CONSTANTS
  MaxRuns = 1
  MaxMessages = 3
  MaxToolTurns = 2
  MaxCalls = 2
  ToolModes = {"sequential", "parallel"}
  QueueModes = {"one-at-a-time", "all"}
  Outcomes = {"ok", "error"}
  CanAbort = TRUE
  HooksThrow = FALSE
  Reentrant = FALSE
  Housekeeping = FALSE
SPECIFICATION Spec
INVARIANTS QueueOrder FollowUpsWait SequentialOrder
PROPERTIES AgentEndIsComplete RunsEnd SteeringArrives
CHECK_DEADLOCK FALSE
