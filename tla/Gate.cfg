SPECIFICATION MCSpec
CONSTANTS
  Window = {w1, w2}
  Session = {s1, s2, s3}
  MaterialId = {m1}
  None = None
  w1 = w1
  w2 = w2
  s1 = s1
  s2 = s2
  s3 = s3
  m1 = m1
  Ttl = 2
  Cooldown = 1
  Keep = 1
  MaxTime = 4
  MaxNonce = 2
  MaxReads = 2
  MaxRevision = 2
  MaxFaults = 1
SYMMETRY GateSymmetry
INVARIANTS
  RecordsAgree
  SessionsTakeTurns
PROPERTIES
  ProofsAreSeen
  ImplementsHumanProof
CHECK_DEADLOCK FALSE
