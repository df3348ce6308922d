SPECIFICATION Spec
CONSTANTS
  Proc = {p1, p2}
  Name = {"a", "b"}
  NINODES = 4
  Made = {"dir", "dev"}
  MaxCalls = 4
  Paths <- MCPaths
  None = None
SYMMETRY MCSymmetry
INVARIANT
  NoDeadlock
CHECK_DEADLOCK FALSE
