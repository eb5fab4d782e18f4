CONSTANTS
  Starts = {s1, s2, s3}
  Shutdowns = {d1, d2}
  None = None
  Foreign = Foreign
  Configs <- MCConfigs
SPECIFICATION Spec
SYMMETRY CallSymmetry
CHECK_DEADLOCK FALSE
INVARIANTS
  TypeOK
  NoOrphan
  SoleOwner
  RunningIntact
  NoStickyGlobal
  ShutdownComplete
PROPERTIES
  ForeignKept
  EpochFences
