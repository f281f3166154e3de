SPECIFICATION Spec
CONSTANTS
  Width = 24
  MaxWork = 1
  YmWork = 2
  Segment = 1
  BusDelay = 1
  Steal = 1
  Height = 1
  Lines = 1
  MaxSaves = 1
  MaxAccesses = 2
  MaxResets = 1
PROPERTY NoOverflow
