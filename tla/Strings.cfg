CONSTANTS
  MemSize = 8
  WORD = 2
  LongBits = 10
  Calls <- MCCalls
SPECIFICATION Spec
INVARIANTS CopiesRight SearchesRight
CHECK_DEADLOCK FALSE
