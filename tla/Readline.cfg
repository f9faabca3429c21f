SPECIFICATION Spec
CONSTANTS
  CRT_ROWS = 3
  CRT_COLS = 3
  BUFLEN = 7
  Prompts <- MCPrompts
  Typed <- MCTyped
INVARIANTS LineEchoed LineReturned
PROPERTIES RestUntouched
