CONSTANTS
  MaxPrompts = 1
  Files = {"f1", "f2"}
  MaxTurns = 2
  MaxRetries = 1
  Outcomes = {"error", "throws"}
  Commands = {}
SPECIFICATION Spec
PROPERTY PromptsReturn
CHECK_DEADLOCK FALSE
