SPECIFICATION MCSpec
CONSTANTS
  TX_RING_SIZE = 2
  RX_RING_SIZE = 2
  PageCount = 7
  Pages <- MCPages
  RxPages <- MCRxPages
  NULL = 0
  Ports = {q1}
  Procs = {a}
  Senders = {a}
  Victims = {a}
  Intr = Intr
  MAX_QUEUED_PER_PORT = 2
  Frames <- MCFrames
  Payloads = {1}
  MaxSends = 2
  MaxFrames = 2
  BadFrames = {}
ACTION_CONSTRAINT LowestFirst
CHECK_DEADLOCK FALSE
INVARIANT EndToEndOrder
PROPERTIES Contracts ImplementsFifo
