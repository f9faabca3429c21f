SPECIFICATION BSpec
CONSTANTS
  Size = 5
  MaxValue = 5
  Gap = 2
  Tables <- MCTables
  Types <- MCTypes
  Addrs <- MCAddrs
  Kernels <- AllTables
  BadStrings <- BadTables
  Eips <- KAddrs
  ULIM = 9
  KernelTable <- MCKernel
  Symbols <- MCSymbols
  Ret <- MCRet
  Depth = 5
  StackTop = 60
  BootFrame = 1
  BootRet = 5
  MaxCommands = 2
  NameSize = 5
INVARIANTS Finds AnswersRight ReadsInTable TraceIsCalls NeverPanics
PROPERTIES Terminates
CHECK_DEADLOCK FALSE
