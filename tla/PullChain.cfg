SPECIFICATION FairSpec
CONSTANTS
  Runs = {r1}
  Earlier = {r0}
  Children = {c1}
  ResumeFrom = {0, 2}
  MaxRequests = 1
  MaxCrashes = 1
  NoNode = NoNode
INVARIANT ComputedFromWhole
PROPERTY RunEnds OrdersReported ImplementsPipeline
CHECK_DEADLOCK FALSE
