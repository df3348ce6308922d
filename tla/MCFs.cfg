SPECIFICATION Spec
CONSTANTS
  Proc = {p1, p2}
  Name = {"a", "b"}
  NINODES = 4
  Made = {"dir", "dev"}
  MaxCalls = 4
  Paths <- MCPaths
  None = None
SYMMETRY MCSymmetry
INVARIANTS
  NlinkExact
  RefExact
  InUseIsAllocated
CHECK_DEADLOCK FALSE
