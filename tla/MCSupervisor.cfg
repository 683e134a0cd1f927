SPECIFICATION FairSpec
CONSTANTS
  a = a
  b = b
  d1 = d1
  d2 = d2
  d3 = d3
  Poller = Poller
  Recoverer = Recoverer
  Tenants = {a, b}
  Deliveries <- ThreeDeliveries
  TenantOf <- TenantOfDelivery
  MaxConcurrency = 2
  BatchSize = 3
  MaxFaults = 1
  DrainMayStart = TRUE
INVARIANTS
  StartsCostFaults
  ConcurrencyBounded
  RoundRobin
  DrainedIsQuiet
PROPERTIES
  EntriesServed
CHECK_DEADLOCK FALSE
