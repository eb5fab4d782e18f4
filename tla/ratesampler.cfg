CONSTANTS
  Loggers = {l1, l2}
  debug = debug
  info = info
  fatal = fatal
  Global = Global
  MaxMessagesPerSecond = 3
  Invalid = Invalid
  Levels <- MCLevels
  Exempt <- MCExempt
  MaxLevelMessagesPerSecond <- MCParts
  Tick = 1
  MaxTime = 2
  MaxBack = 1
  Messages = 4
CHECK_DEADLOCK FALSE
SPECIFICATION Spec
SYMMETRY LoggerSymmetry
INVARIANTS
  TypeOK
  WindowsEnd
  WindowBounded
