\* Starts that overtake each other, and a selection that stores what they left.
SPECIFICATION PageSpec
CONSTANTS
  Rom = {r1, r2, r3}
  Cores = {{r1, r2}, {r3}}
  NoRom = NoRom
  MaxTasks = 3
INVARIANTS FilesBelong
