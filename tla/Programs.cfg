SPECIFICATION MCSpec
CONSTANTS
  Commands <- MCCommands
  Tasks <- MCTasks
  Texts <- MCTexts
  Inputs <- MCInputs
  Procs = {1, 2}
  First = 1
  Victims = {2}
  NULL = 0
  Requests <- MCRequests
  MaxRead = 2
  PIPESIZE = 2
  Mod = 4
CHECK_DEADLOCK FALSE
INVARIANTS PipeSafe ShellRuns ParsesGrammar LineRight FiltersRight ImageRight HeapRight
PROPERTIES ImplementsBytePipe PipesRelease
