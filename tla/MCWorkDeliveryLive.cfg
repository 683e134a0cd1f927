SPECIFICATION FairSpec
CONSTANTS
  Works = {k1}
  Workers = {w1}
  Publishers = {p1}
  None = None
  MaxAttempts = 2
  MaxMsgs = 2
  MaxEntries = 2
  MaxFaults = 1
  MaxRequeues = 0
  RedisMayLose = TRUE
CHECK_DEADLOCK FALSE
PROPERTIES
  
  StreamDrains
