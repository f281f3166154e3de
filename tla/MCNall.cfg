\* Windows of 2 bytes and files of up to 5: reads, writes and seeks across three
\* windows.  A node that owns another, held by two variables.  Sets of up to ten values.
\* Vectors of up to four elements in blocks of up to eight.
SPECIFICATION NallSpec
CONSTANTS
  Byte = {0, 1}
  Zero = 0
  W = 2
  IntHalf = 16
  MaxSize = 5
  None = None
  system = system
  port = port
  global = global
  local = local
  children = children
  parentThis = parentThis
  childThis = childThis
  backLink = backLink
  copy = copy
  Objects = {system, port}
  Strong = {global, local, children}
  Weak = {parentThis, childThis, backLink, copy}
  Owner <- NodeOwner
  This <- NodeThis
  Rank <- NodeRank
  Width = 8
  Null = Null
  Value = {1, 2, 3, 4, 5, 6, 7, 8, 9, 10}
  Element = {a, b}
  Nothing = Nothing
  Capacities = {1, 2, 4, 8}
  MaxLength = 4
  MaxRoom = 4
INVARIANTS Counted ObjectsAreOwned RedBlack IsSet IsList
PROPERTIES IsByteFile
