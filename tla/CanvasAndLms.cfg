SPECIFICATION LmsSpec
CONSTANTS
  Thread = {t1, t2, t3}
  t1 = t1
  t2 = t2
  t3 = t3
  NoThread = NoThread
  Account = {a1, a2}
  NoAccount = NoAccount
  Origin = {o1, o2}
  OriginOf <- MCOriginOf
  Token = {k1, k2, k3}
  NoToken = NoToken
  OwnerOf <- MCOwnerOf
  CanvasCourse = {l1, l2}
  Course = {c1, c2}
  l1 = l1
  l2 = l2
  c1 = c1
  c2 = c2
  o1 = o1
  o2 = o2
  a1 = a1
  a2 = a2
  k1 = k1
  k2 = k2
  k3 = k3
  l3 = l3
  d1 = d1
  d2 = d2
  v1 = v1
  v2 = v2
  None = None
  Proc = {t1, t2, t3}
  Doc = {d1, d2}
  MaxRun = 3
  MaxEvidence = 1
  Absent = Absent
  Key = {k1}
  Value = {v1, v2}
  Notice = {l1, l2}
  MaxRows = 2
  MaxRuns = 3
  MaxEdits = 2
  MaxChanges = 1
  Semester <- MCSemester
  Resource <- MCResource
  Entry = {c1, c2, l3}
  Incomplete = {l3}
  PerPage = 1
  MaxPages = 2
  MaxItems = 2
  RunTicks = 1
  SemesterTicks = 2
  MaxTime = 2
  MaxTeaching = 2
  MaxOutput = 1
  MaxLines = 2
SYMMETRY LmsSymmetry
INVARIANTS
  KeychainFollowsRow
  LinksHold
  ReservationProtects
  AnswersAreWhole
  NothingIsTakenAway
PROPERTIES
  ConnectionIsNotSwapped
