CONSTANTS
  Starts = {s1, s2}
  Shutdowns = {d1}
  None = None
  Foreign = Foreign
  Configs <- MCConfigs
SPECIFICATION Spec
CHECK_DEADLOCK FALSE
PROPERTY
  TearsDownOnlyItsOwn
