\* Two requests with one token against every write of the database.
CONSTANTS
  None = None
  Users = {u1}
  Perfis = {p1}
  Tokens = {t1}
  Requests = {q1, q2}
  Sub0 <- MCSub0
  Routes = {"jwt", "admin"}
  AccessTTL = 2
  CacheTTL = 1
  PerfilTTL = 2
  CacheLimit = 0
  Latency = 1
  MaxTime = 3
SPECIFICATION Spec
SYMMETRY MCSymmetry
INVARIANTS
  TypeOK
  
  PerfilStaleness
  RevokedAdmittedOnlyAtExpiry
