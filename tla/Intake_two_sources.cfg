SPECIFICATION Spec
CONSTANTS
  Content = {a, b}
  NoContent = NoContent
  a = a
  b = b
  MaxFile = 2
  MaxVersion = 2
  MaxCandidate = 3
  MaxMaterial = 2
  MaxFaults = 1
SYMMETRY ContentSymmetry
INVARIANTS
  OneMaterialPerSource
  StatusSpeaksOfLatest
  NoWorkLost
