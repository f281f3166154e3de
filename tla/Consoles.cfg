CONSTANTS
  \* The Mega Drive: accesses of up to two clocks between lines of three; the Z80 is
  \* reset once, which can leave its clock far ahead.
  Width = 24
  MaxWork = 1
  YmWork = 2
  Segment = 1
  BusDelay = 1
  Steal = 1
  Height = 1
  Lines = 1
  MaxSaves = 1
  MaxAccesses = 2
  MaxResets = 1
  \* The Super Famicom's interrupts: fields of 2 lines, of which one
  \* is blank; the vertical timer stays off the screen.
  LineTicks = 6
  FieldLines = 2
  VDisp = 1
  CycleTicks = {3}
  ResetTicks = 4
  HTimes = {2}
  VTimes = {511}
  Lockstep = {TRUE, FALSE}
  Group = 1
  Coprocessor = TRUE
  MaxOwed = 3
SPECIFICATION ConsolesSpec
INVARIANTS
  BusIsCaughtUp LoadsAreDone
  IrqHasLine NmiHasCause
PROPERTIES BusIsGranted WaitEnds
