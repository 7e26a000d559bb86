SPECIFICATION MCSpec
CONSTANTS
  NumBlocks = 2
  NumChannels = 1
  NumParts = 1
  Levels = {3, 15}
  Paces <- MCPaces
  MaxPictures = 2
  MaxLevels = 0
  MaxSwitches = 0
INVARIANT AveragesAreOfPixels
