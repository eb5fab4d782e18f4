CONSTANTS
  Starts = {s1, s2}
  Shutdowns = {d1, d2}
  Requests = {r1}
  None = None
  Foreign = Foreign
  Configs <- MonitorConfigs
SPECIFICATION MFairSpec
CHECK_DEADLOCK FALSE
INVARIANTS
  StatsOfOneGeneration
  QuietAfterShutdown
PROPERTIES
  CallsReturn
  AddressFreed
  RequestsAnswered
  ImplementsGenerations
