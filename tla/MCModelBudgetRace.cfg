SPECIFICATION Spec
CONSTANTS
  r1 = r1
  r2 = r2
  q1 = q1
  q2 = q2
  q3 = q3
  None = None
  Runs <- TwoRuns
  Requests <- ThreeRequests
  RunOf <- RunOfRequest
  Limit <- LimitOfRequest
  MaxActual = 2
  TenantQuota = 2
  RunQuota = 3
  MaxGeneration = 2
  MaxLeases = 3
  MaxPeriods = 1
  MaxRebuilds = 1
  RebuildMayFail = FALSE
SYMMETRY Symmetry
INVARIANT AdmissionSeesUsage
CHECK_DEADLOCK FALSE
