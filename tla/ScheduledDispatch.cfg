SPECIFICATION Spec
CONSTANTS
  Fires = {f1, f2}
  ActionStart = 1
  ActBy = 2
  MaxClock = 3
  MaxPresses = 1
INVARIANTS OneActiveHold NotifiedMeansDelivered
PROPERTY SkipStands
