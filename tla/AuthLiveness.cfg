\* Every request ends: two sessions of one user, so that a logout waits for
\* several rows.
CONSTANTS
  None = None
  u1 = u1  u2 = u2
  t0 = t0  t1 = t1  t2 = t2  t3 = t3
  r1 = r1  r2 = r2  r3 = r3
  Users = {u1}
  Tokens = {t0, t1, t2, t3}
  Requests = {r1, r2}
  Sessions0 = {t0, t1}
  Owner0 <- MCOwner0
  AccessTTL = 1
  RefreshTTL = 1
  MaxTime = 2
SPECIFICATION FairSpec
PROPERTY EveryRequestEnds
