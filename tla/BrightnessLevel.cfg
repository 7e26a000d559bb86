SPECIFICATION FairSpec
CONSTANTS
  MaxTicks = 3
  Levels = 4
  MaxResets = 1
INVARIANTS
  TypeOK
PROPERTIES
  ImplementsLevelCounter
  BouncesIgnored
  NoPressSticks
