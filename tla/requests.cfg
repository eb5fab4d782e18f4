CONSTANTS
  r1 = r1
  Requests = {r1}
  Remote = Remote
  None = None
  Package = Package
  Configurers = {c1}
  Traces <- MCTraces
  TenthOf <- MCTenthOf
  Specs <- MCSpecs
CHECK_DEADLOCK FALSE
SPECIFICATION RSpec
INVARIANTS
  SpansSettled
  FailureReportedOnce
  LinesCorrelate
  TracesWhole
PROPERTY
  LinesFollowLogger
