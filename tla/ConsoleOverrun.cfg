SPECIFICATION Spec
CONSTANTS
  CONSBUFSIZE = 3
  SerialBytes <- MCLineBytes
  KbdBytes <- MCNone
  AuxBytes <- MCNone
  KbcSize = 2
  MaxAhead = 3
PROPERTIES ImplementsQueue
