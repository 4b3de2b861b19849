CONSTANTS
  MaxRuns = 3
  MaxMishaps = 1
  MaxEnds = 1
  EntryPrice <- SamePrices
SPECIFICATION Spec
INVARIANT LostStopIsFound
PROPERTY KeptIsProtectedOrTold FreedIsExitingOrTold
CHECK_DEADLOCK FALSE
