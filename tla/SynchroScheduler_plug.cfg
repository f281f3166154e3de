\* Peripherals plugged and unplugged between frames.
SPECIFICATION Spec
CONSTANTS
  cpu = cpu
  smp = smp
  dsp = dsp
  ppu = ppu
  pad = pad
  card = card
  apu = apu
  cartridge = cartridge
  wild = wild
  Null = Null
  Thread <- PlugThreads
  Primary = cpu
  Renderer = ppu
  Boot <- PlugBoot
  Transient = {pad, card}
  Hotplug = {pad, card}
  Lists <- PlugLists
  Broadcast = {}
  Level <- PlugLevel
  Garbage = {wild}
  MaxWork = 1
  MaxLag = 1
  Lines = 2
  MaxSaves = 0
INVARIANTS UniqueIDs NoUnderflow
