SPECIFICATION ProjectionSpec
CONSTANTS
  k1 = k1
  v1 = v1
  n1 = n1
  n2 = n2
  Absent = Absent
  Key = {k1}
  Value = {v1}
  Notice = {n1, n2}
  MaxRows = 2
  MaxRuns = 3
  MaxEdits = 0
  MaxChanges = 2
INVARIANTS
  ChangesAreTold
CHECK_DEADLOCK FALSE
