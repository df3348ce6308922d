SPECIFICATION FairSpec
CONSTANTS
  CPU = {c1}
  NoCPU = NoCPU
  NPROC = 3
  MaxPid = 4
  KillPids = {3}
CHECK_DEADLOCK FALSE
PROPERTIES
  RunnableRuns
  KilledDies
  WaitReturns
