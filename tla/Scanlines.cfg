CONSTANTS
  \* The Famicom's picture unit: NTSC, scaled down to 2 visible lines of 6; resets,
  \* skipped frames, and states saved and loaded at any time.
  VisibleLines = 2
  VLines = 6
  None = None
  MaxDot = 400
  \* The Super Famicom's DMA: two channels, fields of 3 lines, of which 2 are visible;
  \* the lines are as short as HdmaFits allows, to multiples of 4.
  LineClocks = 180
  Scanlines = 3
  VisibleScanlines = 2
  HdmaPosition = 136
  CycleClocks = {8, 12}
  Channels = 2
  Length <- OneUnit
  Indirect = {2}
  Sizes = {2}
  DmaMasks = {{}, {1}}
  HdmaMasks = {{}, {1, 2}}
  CountTop = 2
  Counts = {0, 1}
SPECIFICATION ScanlinesSpec
INVARIANTS
  PhaseFollowsDot NmiLineFollowsFlag PictureIsWhole
  EveryLine SetUpFirst UnitsAligned
