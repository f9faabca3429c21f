SPECIFICATION Spec
CONSTANTS
  ReadSize = 2
  MaxOut = 6
INVARIANTS MonitorsSeeOutput BreakpointOutput
PROPERTIES EndsReaped
CHECK_DEADLOCK FALSE
