SPECIFICATION Spec
CONSTANTS
  MaxInfos = 2
  MaxLosses = 0
INVARIANT
  TerminalEventIsLast
CHECK_DEADLOCK FALSE
