SPECIFICATION FairSpec
CONSTANTS
  Thread = {t1, t2}
  Block <- MCBlock
  NBUF = 3
  MaxPins = 1
  MaxErrors = 1
  None = None
INVARIANTS
  Coherent
  
PROPERTIES
  IoReturns
