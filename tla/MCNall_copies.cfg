\* Weak handles that are returned by value.
SPECIFICATION CopiesSpec
CONSTANTS
  Byte = {0, 1}
  Zero = 0
  W = 2
  IntHalf = 16
  MaxSize = 5
  None = None
  system = system
  port = port
  global = global
  local = local
  children = children
  parentThis = parentThis
  childThis = childThis
  backLink = backLink
  copy = copy
  Objects = {system, port}
  Strong = {global, local, children}
  Weak = {parentThis, childThis, backLink, copy}
  Owner <- NodeOwner
  This <- NodeThis
  Rank <- NodeRank
  Width = 8
  Null = Null
  Value = {1, 2, 3, 4, 5, 6, 7, 8, 9, 10}
  Element = {a, b}
  Nothing = Nothing
  Capacities = {1, 2, 4, 8}
  MaxLength = 4
  MaxRoom = 4
INVARIANTS ManagerOutlivesHandles
