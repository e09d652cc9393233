SPECIFICATION FairSpec
CONSTANTS
  Content = {a, b}
  NoContent = NoContent
  a = a
  b = b
  MaxFile = 1
  MaxVersion = 2
  MaxCandidate = 2
  MaxMaterial = 1
  MaxFaults = 2
INVARIANTS
  RowsAgree
PROPERTIES
  SupersededNeverDecides
  ImplementsEvidence
  NothingWaitsForever
