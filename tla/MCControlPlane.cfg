SPECIFICATION PlaneSpec
CONSTANTS
  Threads = {t1, t2}
  Keys = {k1}
  None = None
  TTL = 1
  MaxTime = 2
  acme = acme
  platform = platform
  Tenants = {acme, platform}
  Platform = platform
  Provisioned = {acme}
  RoleOf <- Bound
  Expires = 2
  MaxChanges = 1
INVARIANTS
  AnswersFresh
  AuditedBeforeAnswer
  AnswersTrue
  RevocationHolds
  NeverStuck
SYMMETRY ThreadSymmetry
