\* Any order of API calls, from tasks and from listeners, and exceptions anywhere.
SPECIFICATION WebFairSpec
CONSTANTS
  sfc = sfc
  fc = fc
  zelda = zelda
  mario = mario
  Null = Null
  port1 = port1
  port2 = port2
  Unplugged = Unplugged
  Port = {port1, port2}
  FirstPort = port1
  Value = {0, 1}
  Emulator = {sfc, fc}
  Game = {zelda, mario}
  TaskCalls = {"setEmulator", "load", "unload", "start", "stop", "run", "stateSave"}
  FrameCalls = {"load", "unload", "start", "stop", "run", "stateSave"}
  ResizeCalls = {"start", "stop", "stateSave"}
  Throws = {"frameStart", "emulate", "frameEnd"}
  MaxSaves = 3
  MaxDepth = 2
  Rom = {r1, r2}
  Cores = {{r1}, {r2}}
  NoRom = NoRom
  MaxTasks = 2
INVARIANTS OneFrame StartedLoops BorrowedLoop AnsweredOnce
  PluggedIsShown NoHeldButton PageKnowsGame
PROPERTIES SavedBetweenFrames
  BorrowedLoopEnds
  FocusKeepsPause
