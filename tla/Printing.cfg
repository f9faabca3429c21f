SPECIFICATION PrintingSpec
CONSTANTS
  Chars <- MCChars
  Calls <- MCCalls
  IntBits = 6
  LongLongBits = 7
  error_string <- MCError
  CRT_ROWS = 2
  CRT_COLS = 3
  Printable <- MCPrintable
  MaxWait = 1
  MaxPut = 2
  BiosCursor = 4
INVARIANTS Bounded OutputRight PortsGotText ScreenShowsText NothingReordered
PROPERTIES Returns PutcReturns
CHECK_DEADLOCK FALSE
