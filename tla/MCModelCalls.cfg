SPECIFICATION FairSpec
CONSTANTS
  cheap = cheap
  dear = dear
  far = far
  plain = plain
  other = other
  tools = tools
  k1 = k1
  k2 = k2
  none = none
  c1 = c1
  c2 = c2
  Models = {cheap, dear, far}
  Entry <- Catalog
  Requests = {plain, other, tools}
  Request <- Asks
  NoModel = none
  Policy <- EuropeOnly
  Environment = "test"
  Calls = {c1, c2}
  KeyOf <- KeyOfRequest
  Usages <- Reports
  Concurrency = 1
  FailureThreshold = 1
  MaxAttempts = 2
  MaxFailovers = 1
  MaxCompletes = 3
  TaskCancels = TRUE
INVARIANTS
  PermitsConserved
  BusyMeansProbing
  OneInFlight
  ReservationCovers
  FallbacksAllowed
PROPERTIES
  AnswersStay
  ImplementsRepository
  CallsEnd
CHECK_DEADLOCK FALSE
