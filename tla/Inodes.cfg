SPECIFICATION MCSpec
CONSTANTS
  Parts = {"icache", "data", "tree", "bcache"}
  Procs = {p1, p2}
  Names = {n1, n2}
  NULL = NULL
  ninodes = 3
  NINODE = 2
  Inodes = {i1, i2}
  DiskBlocks = {k1, k2, k3}
CONSTRAINT UntilReuse
CHECK_DEADLOCK FALSE
SYMMETRY Symmetry
VIEW UpToFreeBlocks
INVARIANTS InodesSafe BlocksSafe TreeSafe NoCircularWait BuffersSafe
PROPERTY ImplementsByteFiles
