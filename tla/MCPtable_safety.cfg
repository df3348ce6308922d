SPECIFICATION Spec
CONSTANTS
  CPU = {c1, c2}
  NoCPU = NoCPU
  NPROC = 3
  MaxPid = 4
  KillPids = {2, 3}
SYMMETRY CPUSymmetry
INVARIANTS
  KernelStackExclusive
  
  NoLostExit
  KstackOwned
  EmbryoOwned
  
PROPERTIES
  ImplementsTree
