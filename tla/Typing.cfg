SPECIFICATION TypingSpec
CONSTANTS
  Keys <- MCKeys
  WireSize = 2
  BUFLEN = 8
  MAXARGS = 3
  Typed <- MCTyped
  Names <- MCNames
INVARIANTS EscapeInStep ModifiersFollowEvents RebootIsChord CharOfItsKey
INVARIANTS TypeOK LineSplit ArgsAreWords RightCommand
