CONSTANTS
  Configurers = {i1, i2}
  Package = Package
  Hostname = "web-1"
  HostService = "web_1"
  Worlds <- MCWorlds
  Assignments <- MCAssignments
  MaxSets = 1
SYMMETRY MCSymmetry
CHECK_DEADLOCK FALSE
SPECIFICATION SSpec
INVARIANTS
  LoggersAgree
  ConfigMeansEnvironment
  ReloadMeansEnvironment
  InitInstallsBoth
