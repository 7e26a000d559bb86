SPECIFICATION MCFairSpec
CONSTANTS
  NumBlocks = 2
  NumChannels = 2
  NumParts = 2
  Levels = {3, 15}
  Paces <- MCPaces
  MaxPictures = 3
  MaxLevels = 1
  MaxSwitches = 2
INVARIANTS TypeOK Fresh
PROPERTIES NeverBack Converges OverlayFollows
