SPECIFICATION MCSpec
CONSTANTS
  TX_RING_SIZE = 4
  RX_RING_SIZE = 2
  PageCount = 6
  Pages <- MCPages
  NULL = 0
  Callers = {c1}
  Intr = Intr
  Payloads = {}
  Budget = 9
  MaxSends = 4
  MaxFrames = 0
  BadFrames = {}
ACTION_CONSTRAINT LowestFirst
CHECK_DEADLOCK FALSE
INVARIANT NotDoneMeansInUse
