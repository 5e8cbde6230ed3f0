SPECIFICATION MCSpec
CONSTANTS
  Procs = {p1}
  NULL = NULL
  Keys = {"a", "nl", "eot", "tab", "bs", "kill", "up", "down"}
  Counts = {2}
  INPUT_BUF = 2
  HISTORY_SIZE = 2
  Mod = 4
  p1 = p1
  p2 = p2
  c1 = c1
  c2 = c2
INVARIANTS InputSafe KeysRight
PROPERTIES KeysAndLines CommittedIsTaken OutputRight
