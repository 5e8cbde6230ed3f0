SPECIFICATION MCSpec
CONSTANTS
  Blocks = {b1, b2}
  Procs = {p1, p2}
  NULL = NULL
  LOGSIZE = 6
  MAXOPBLOCKS = 3
  nlog = 6
  OpBlocks = 2
  MaxOps = 2
  MaxCrashes = 2
  p1 = p1
  p2 = p2
  p3 = p3
  f1 = f1
  f2 = f2
  c1 = c1
  IO = IO
CHECK_DEADLOCK FALSE
INVARIANTS LogSafe ChunksAdjoin SleepRight BootRight
PROPERTIES ImplementsAtomicDisk WaitersGoOn ProcessesEnd
