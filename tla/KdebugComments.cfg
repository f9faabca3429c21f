SPECIFICATION KSpec
CONSTANTS
  Tables = {}
  Addrs = {}
  Kernels <- CommentTables
  BadStrings = {}
  Types <- KTypes
  Eips <- CommentAddrs
  ULIM = 9
INVARIANTS AnswersAsCommented
CHECK_DEADLOCK FALSE
