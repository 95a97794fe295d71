SPECIFICATION LiveSpec
CHECK_DEADLOCK FALSE
CONSTANTS
  Modes <- BothModes
  Tables = 2
  SeedRows = 7
  MaxFaults = 1
  s1 = s1
  s2 = s2
  Slots = {s1, s2}
  Handlers <- AllHandlers
  Interval = 2
  MaxTime = 4
  MaxRetries = 2
  Limit = 2
  MaxMessages = 3
INVARIANTS
  TypeOK
  ServesSeeded
  RegisteredMeansServed
  PollsUnregistered
  AttemptsBounded
PROPERTIES
  DroppedAfterAnother
  OneInAnInterval
  LeavesNoWebhook
  StopsClean
  Recovers
