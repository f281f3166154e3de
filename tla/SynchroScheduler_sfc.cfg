\* The Super Famicom call graph, three levels deep.
SPECIFICATION Spec
CONSTANTS
  cpu = cpu
  smp = smp
  dsp = dsp
  ppu = ppu
  pad = pad
  card = card
  apu = apu
  cartridge = cartridge
  wild = wild
  Null = Null
  Thread <- SfcThreads
  Primary = cpu
  Renderer = ppu
  Boot <- SfcBoot
  Transient = {}
  Hotplug = {}
  Lists <- SfcLists
  Broadcast = {}
  Level <- SfcLevel
  Garbage = {wild}
  MaxWork = 2
  MaxLag = 2
  Lines = 2
  MaxSaves = 1
INVARIANTS NoReentry CaughtUp BoundedLead SavesRunAlone ParentsRestored
