SPECIFICATION Spec
CONSTANTS
  Works = {w1, w2}
  Callers = {c1, c2}
  Actors = {alice}
  Approvals = {}
  None = None
  MaxAttempts = 1
  Quota = 1
  StorageFaults = FALSE
SYMMETRY WorkSymmetry
INVARIANTS
  QuotaRespected
  LedgerReplays
