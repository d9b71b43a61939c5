\* A logout is answered 200 although the revocation was not stored.
CONSTANTS
  None = None
  u1 = u1  u2 = u2
  t0 = t0  t1 = t1  t2 = t2  t3 = t3
  r1 = r1  r2 = r2  r3 = r3
  Users = {u1}
  Tokens = {t0, t1}
  Requests = {r1}
  Sessions0 = {t0}
  Owner0 <- MCOwner0
  AccessTTL = 1
  RefreshTTL = 1
  MaxTime = 0
SPECIFICATION Spec
SYMMETRY MCSymmetry
INVARIANT RevokeFailsClosed
