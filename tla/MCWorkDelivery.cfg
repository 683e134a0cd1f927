SPECIFICATION Spec
CONSTANTS
  Works = {k1}
  Workers = {w1, w2}
  Publishers = {p1}
  None = None
  MaxAttempts = 2
  MaxMsgs = 2
  MaxEntries = 2
  MaxFaults = 1
  MaxRequeues = 1
  RedisMayLose = FALSE
SYMMETRY Symmetry
CONSTRAINT TwoLeases
CHECK_DEADLOCK FALSE
INVARIANTS
  TypeOK
  NotificationInFlight
  AckedIsDurable
  ExecutionsBounded
PROPERTIES
  MessagesPublishOnce
