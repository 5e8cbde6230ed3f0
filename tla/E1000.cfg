SPECIFICATION MCFairSpec
CONSTANTS
  TX_RING_SIZE = 2
  RX_RING_SIZE = 2
  PageCount = 5
  Pages <- MCPages
  NULL = 0
  Callers = {c1, c2}
  Intr = Intr
  Payloads = {1,2}
  MaxSends = 3
  Budget = 3
  MaxFrames = 3
  BadFrames = {2}
ACTION_CONSTRAINTS LowestFirst WithinBudget
CHECK_DEADLOCK FALSE
INVARIANTS DriverSafe TxFaithful RxSafe
PROPERTY Progress
