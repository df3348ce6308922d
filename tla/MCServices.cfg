SPECIFICATION MCSpec
CONSTANTS
  Thread <- MCThread
  Nobody <- MCNobody
INVARIANTS
  NoLostWakeup
  PipeSafe
  FilesExact
PROPERTIES
  ImplementsMutex
  ImplementsFifo
  NeverEarly
  SleepEnds
  
CHECK_DEADLOCK FALSE
