SPECIFICATION FairSpec
CONSTANTS
  NumPixels = 2
  ReturnTicks = 80
  ColourBits = 8
  BaseAddress = 16
  MaxWait = 66
  LatchTicks = 24
  MaxWrites = 1
  MaxResets = 0
  Words <- MCWords
INVARIANTS
  TypeOK
  FetchedInTime
PROPERTIES
  AnswerIsForAddress
  AddressHeld
  ImplementsFrameSender
