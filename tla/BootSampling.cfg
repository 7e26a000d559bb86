SPECIFICATION MCSpec
CONSTANTS
  LEDSTOP = 4
  LEDSBOTTOM = 3
  LEDSLEFT = 4
  LEDSRIGHT = 3
  EDGEDEPTH = 2
  FRAMEWIDTH = 18
  FRAMEHEIGHT = 12
  Word = 32
  Pictures <- MCPictures
  PowerUpFrames <- MCWholeScreens
  SwitchPositions <- MCDown
  MaxChanges = 0
  MaxResets = 0
  XRes = 6
  YRes = 3
  WidthBits = 3
  HeightBits = 2
  Wrap = 1024
  Buffers = {"A", "B"}
  Devices <- MCDmaDevices
INVARIANTS
  SamplesOwnBlock
CHECK_DEADLOCK FALSE
