SPECIFICATION FairSpec
CONSTANTS
  cpu = cpu
  smp = smp
  ppu = ppu
  program = program
  Thread <- McThreads
  Threads <- McOrder
  Primary = cpu
  Renderer = ppu
  Lists <- McLists
  Host = program
  MaxWork = 2
  MaxLag = 1
  MaxSaves = 1
  Lines = 2
INVARIANTS SafePoints StaysSafe CaughtUp
PROPERTY EnterReturns
