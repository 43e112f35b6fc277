SPECIFICATION Spec
CONSTANTS
  None = None
  Versions <- SixVersions
  Procs = {p1}
  Intervals = {0, 1, 2}
  MaxTime = 3
  Overlap = FALSE
INVARIANTS
  TypeOK
  VersionsAreOrdered
  NoReleaseSkipped
PROPERTIES
  NoDowngrade
  ChecksAreSpaced
  
