SPECIFICATION MCSpec
CONSTANTS
  w1 = w1
  w2 = w2
  mcp = mcp
  worker = worker
  s1 = s1
  s2 = s2
  z1 = z1
  z2 = z2
  hand = hand
  Workspaces = {w1, w2}
  Roles = {mcp, worker}
  Zones = {z1}
  HandZone = hand
  Secrets = {s1, s2}
  Absent = Absent
  NoOp = NoOp
  MaxApply = 1
  MaxOp = 2
SYMMETRY Symmetry
INVARIANTS StoresAreSound RepairIsPossible
PROPERTIES WritesAreAllowed ImplementsAtomicCredential
CHECK_DEADLOCK FALSE
