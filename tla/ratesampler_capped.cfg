CONSTANTS
  Loggers = {l1, l2}
  debug = debug
  info = info
  fatal = fatal
  Global = Global
  MaxMessagesPerSecond = 0
  Invalid = Invalid
  Levels <- MCLevels
  Exempt <- MCExempt
  MaxLevelMessagesPerSecond <- MCParts
  Tick = 1
  MaxTime = 0
  MaxBack = 0
  Messages = 3
CHECK_DEADLOCK FALSE
SPECIFICATION Spec
SYMMETRY LoggerSymmetry
INVARIANT
  WindowCapped
