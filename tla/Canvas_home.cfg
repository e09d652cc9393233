SPECIFICATION Spec
CONSTANTS
  Thread = {t1, t2, t3}
  t1 = t1
  t2 = t2
  t3 = t3
  NoThread = NoThread
  Account = {a1, a2}
  NoAccount = NoAccount
  Origin = {o1, o2}
  OriginOf <- MCOriginOf
  Token = {k1, k2, k3}
  NoToken = NoToken
  OwnerOf <- MCOwnerOf
  CanvasCourse = {l1, l2}
  Course = {c1, c2}
  l1 = l1
  l2 = l2
  c1 = c1
  c2 = c2
  o1 = o1
  o2 = o2
  a1 = a1
  a2 = a2
  k1 = k1
  k2 = k2
  k3 = k3
SYMMETRY InstanceSymmetry
INVARIANTS
  TokenGoesHome
