\* A user who lost the ADMIN profile keeps it until the token expires.
CONSTANTS
  None = None
  Users = {u1}
  Perfis = {p1, p2}
  Tokens = {t1}
  Requests = {q1}
  Sub0 <- MCSub0
  Routes = {"admin"}
  AccessTTL = 3
  CacheTTL = 1
  PerfilTTL = 1
  CacheLimit = 0
  Latency = 0
  MaxTime = 3
SPECIFICATION Spec
SYMMETRY MCSymmetry
INVARIANT DemotionSeenWithinPerfilTTL
