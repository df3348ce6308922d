SPECIFICATION FairSpec
CONSTANTS
  Thread = {t1, t2, t3}
  Blocks = {a, b, c}
  Values = {x, y}
  MAXOPBLOCKS = 2
  LOGSIZE = 4
  nlog = 4
  OpBlocks = 1
  NoBlock = NoBlock
INVARIANTS
  NoPanic
  QuietIsDurable
PROPERTIES
  ImplementsAtomicDisk
  BeginWoken
