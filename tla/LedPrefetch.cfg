SPECIFICATION FairSpec
CONSTANTS
  NumPixels = 2
  ReturnTicks = 30
  ColourBits = 1
  BaseAddress = 16
  MaxWait = 3
  LatchTicks = 24
  MaxWrites = 0
  MaxResets = 0
  Words <- MCWords
INVARIANTS
  PrefetchAnswered
