CONSTANTS
  i1 = i1
  i2 = i2
  Instances = {i1, i2}
  Nobody = Nobody
  MaxIssued = 2
  MaxBreaks = 1
  Settings = {"theme", "model"}
  User = User
  MaxChanges = 3
  MaxFaults = 1
  EventFiles = {"a", "b"}
  Kinds = {"immediate", "oneShot", "far", "periodic"}
  MaxWrites = 2
  MaxRestarts = 1
  MaxCalls = 2
  QueueLimit = 1
SPECIFICATION MCSpec
INVARIANTS TokenUsedOnce NoLostUpdate  ScheduleMatchesDirectory
PROPERTY ImmediateEventsRun
SYMMETRY Interchangeable
CHECK_DEADLOCK FALSE
