SPECIFICATION Spec
CONSTANTS
  Procs = {p1}
  NULL = NULL
  Keys = {"a", "nl", "eot", "tab", "bs", "kill", "up", "down"}
  Counts = {2}
  INPUT_BUF = 4
  HISTORY_SIZE = 2
  Mod = 8
PROPERTY CommittedNotEdited
