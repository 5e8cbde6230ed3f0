SPECIFICATION Spec
CONSTANTS
  Procs = {p1, p2}
  Files = {p1, p2}
  NULL = NULL
  FileOf <- OwnFile
  Old = 0
  Wanted = 0
  Bytes = 6656
  BSIZE = 512
  NDIRECT = 12
  MAXFILE = 140
  LOGSIZE = 30
  MAXOPBLOCKS = 10
  nlog = 30
CHECK_DEADLOCK FALSE
INVARIANT FitsLog
