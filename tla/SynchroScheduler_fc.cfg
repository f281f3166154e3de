\* The Famicom: the CPU synchronizes everybody, and every entry into the scheduler returns.
SPECIFICATION FairSpec
CONSTANTS
  cpu = cpu
  smp = smp
  dsp = dsp
  ppu = ppu
  pad = pad
  card = card
  apu = apu
  cartridge = cartridge
  wild = wild
  Null = Null
  Thread <- FcThreads
  Primary = cpu
  Renderer = ppu
  Boot <- FcBoot
  Transient = {}
  Hotplug = {}
  Lists <- FcLists
  Broadcast = {cpu}
  Level <- FcLevel
  Garbage = {Null}
  MaxWork = 2
  MaxLag = 2
  Lines = 3
  MaxSaves = 1
PROPERTIES EnterReturns
