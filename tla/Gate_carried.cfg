SPECIFICATION MCSpec
CONSTANTS
  Window = {w1}
  Session = {s1}
  MaterialId = {m1}
  None = None
  w1 = w1
  s1 = s1
  m1 = m1
  Ttl = 2
  Cooldown = 1
  Keep = 1
  MaxTime = 1
  MaxNonce = 2
  MaxReads = 1
  MaxRevision = 2
  MaxFaults = 0
INVARIANTS
  VerificationIsNotCarried
CHECK_DEADLOCK FALSE
