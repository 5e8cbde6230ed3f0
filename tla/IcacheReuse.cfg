SPECIFICATION MCSpec
CONSTANTS
  Parts = {"icache"}
  Procs = {p1, p2}
  Names = {n1, n2}
  NULL = NULL
  ninodes = 2
  NINODE = 3
  Inodes = {i1, i2}
  DiskBlocks = {k1, k2, k3}
CHECK_DEADLOCK FALSE
INVARIANT LinkedIsAllocated
