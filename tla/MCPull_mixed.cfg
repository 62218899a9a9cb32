SPECIFICATION FairSpec
CONSTANTS
  Releases = {v1, v2}
  Roots = {d1}
  Root <- SameRoot
  NEntries = 2
  NConfigs = 2
  Known = v1
  MaxFaults = 3
INVARIANTS
  TypeOK
  PiecesInPlace
  ShaIsOfTheFile
PROPERTIES
  CommitsWholeBundle
  StepsHeal
  PullsHeal
