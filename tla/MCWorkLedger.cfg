SPECIFICATION Spec
CONSTANTS
  Works = {w1}
  Callers = {c1, c2}
  Actors = {alice, bob}
  Approvals = {a1}
  None = None
  MaxAttempts = 2
  Quota = 1
  StorageFaults = TRUE
SYMMETRY ActorSymmetry
CONSTRAINT TwoLeases
INVARIANTS
  HolderKnowsStatus
  CancelWins
  SoleHolder
  RequeuesApproved
PROPERTIES
  OnlyOwnerMoves
  ImplementsLifecycle
