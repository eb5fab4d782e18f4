CONSTANTS
  Callers = {c1, c2, c3}
  Starts = {s1, s2}
  a = a
  b = b
  Empty = Empty
  None = None
  Labels <- MCLabels
CHECK_DEADLOCK FALSE
SPECIFICATION Spec
SYMMETRY AllowSymmetry
INVARIANTS
  TypeOK
  QuietCallsHold
