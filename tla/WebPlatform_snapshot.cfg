\* A save that waits while another game is loaded.
SPECIFICATION WebSpec
CONSTANTS
  sfc = sfc
  fc = fc
  zelda = zelda
  mario = mario
  Null = Null
  port1 = port1
  port2 = port2
  Unplugged = Unplugged
  Port = {port1, port2}
  FirstPort = port1
  Value = {0, 1}
  Emulator = {sfc, fc}
  Game = {zelda, mario}
  TaskCalls = {"setEmulator", "load", "unload", "start", "stop", "run", "stateSave"}
  FrameCalls = {}
  ResizeCalls = {}
  Throws = {}
  MaxSaves = 1
  MaxDepth = 1
  Rom = {r1}
  Cores = {{r1}}
  NoRom = NoRom
  MaxTasks = 1
INVARIANTS SnapshotOfGame
