SPECIFICATION FairSpec
CONSTANTS
  PageCount = 4
  Pages <- MCPages
  RxPages = {}
  NULL = 0
  Ports = {q1}
  Procs = {a, b}
  Senders = {a}
  Victims = {b}
  Intr = Intr
  MAX_QUEUED_PER_PORT = 1
  Frames = {1}
  Payloads = {2}
ACTION_CONSTRAINTS LowestFirst OnePageSent
CHECK_DEADLOCK FALSE
INVARIANT StackSafe
PROPERTY RecvProgress
