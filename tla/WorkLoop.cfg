SPECIFICATION FairSpec
CONSTANTS
  Items = {good, bad, odd}
  Healthy = {good}
  Poison = {bad}
  Poll = 2
  Base = 2
  Multiplier = 2
  Ceiling = 3
  MaxAttempts = 3
  MaxLives = 2
  NoItem = NoItem
INVARIANTS AttemptBudget BackoffHonoured
PROPERTIES QuarantineEarned QuarantineIsFinal EveryItemSettles StopEnds
