SPECIFICATION Spec
CONSTANTS
  Chars <- MCChars
  Calls <- CommentCalls
  IntBits = 6
  LongLongBits = 7
  error_string <- MCError
INVARIANT OutputAsCommented
CHECK_DEADLOCK FALSE
