SPECIFICATION MCSpec
CONSTANTS
  CPUs = {c1, c2}
  NONE = NONE
  NLOCK = 2
  MaxLevel = 2
  IO = IO
  Spans <- MCSpans
  Deltas <- MCDeltas
  Images <- MCImages
VIEW UpToRenaming
SYMMETRY Symmetry
INVARIANTS LocksSafe ProcsSafe FilesSafe SpacesSafe
