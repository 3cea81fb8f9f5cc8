CONSTANTS
  MaxCalls = 3
  Names = {"f", "link"}
  FileOf <- LinkedTo
  Absent = Absent
  Texts = {a, b}
  Familiar = {a}
  MaxLostAcks = 1
  QueueLimit = 1
  MaxMessages = 2
  MaxCrashes = 1
SPECIFICATION MCSpec
INVARIANTS OneAtATime EditsSurvive EachMessageOnce NothingMissed
PROPERTY CallsReturn
CHECK_DEADLOCK FALSE
