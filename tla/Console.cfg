SPECIFICATION FairSpec
CONSTANTS
  CONSBUFSIZE = 3
  SerialBytes <- MCSerialBytes
  KbdBytes <- MCChordBytes
  AuxBytes <- MCMouse
  KbcSize = 1
  MaxAhead = 2
INVARIANTS InputInv
PROPERTIES ImplementsQueue GetcReturns OldestIsTaken
