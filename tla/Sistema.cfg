\* One user with an open session, two requests of AuthService and one visit.
CONSTANTS
  None = None
  Admin = Admin
  u1 = u1
  t0 = t0  t1 = t1
  r1 = r1  r2 = r2
  v1 = v1
  Users = {u1}
  Tokens = {t0, t1}
  Requests = {r1, r2}
  Sessions0 = {t0}
  Owner0 <- MCOwner0
  Visits = {v1}
  Routes = {"jwt", "admin"}
  AccessTTL = 1
  RefreshTTL = 1
  CacheTTL = 1
  PerfilTTL = 2
  CacheLimit = 0
  Latency = 1
  MaxTime = 2
SPECIFICATION SystemSpec
SYMMETRY MCSymmetry
INVARIANTS
  LogoutTakesEffect
  
 
CHECK_DEADLOCK FALSE
