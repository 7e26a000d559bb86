SPECIFICATION MCFairSpec
CONSTANTS
  LEDSTOP = 4
  LEDSBOTTOM = 3
  LEDSLEFT = 4
  LEDSRIGHT = 3
  EDGEDEPTH = 2
  FRAMEWIDTH = 18
  FRAMEHEIGHT = 12
  Word = 32
  Pictures <- MCPictures
  PowerUpFrames <- MCPowerUpFrames
  SwitchPositions <- MCBooleans
  MaxChanges = 1
  MaxResets = 1
  XRes = 6
  YRes = 3
  WidthBits = 3
  HeightBits = 2
  Wrap = 1024
  Buffers = {"A", "B"}
  Devices <- MCDevices
INVARIANTS
  TypeOK
  CalibratedFrame
  SavedFrameSurvives
  OneBlockPerLed
  BlocksInFrame
  BlocksDisjoint
  ShapesDrawn
  LinesDrawn
  BackNotShown
PROPERTIES
  Starts
CHECK_DEADLOCK FALSE
