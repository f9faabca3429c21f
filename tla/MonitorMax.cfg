SPECIFICATION Spec
CONSTANTS
  BUFLEN = 7
  MAXARGS = 3
  Typed <- MCTyped
  Names <- MCNames
INVARIANTS TakesMaxArgs
