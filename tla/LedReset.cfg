SPECIFICATION FairSpec
CONSTANTS
  NumPixels = 2
  ReturnTicks = 30
  ColourBits = 1
  BaseAddress = 16
  MaxWait = 4
  LatchTicks = 24
  MaxWrites = 1
  MaxResets = 1
  Words <- MCWords
INVARIANTS
  ReadInBuffer
PROPERTIES
  Settles
