CONSTANTS
  Orders = {b, s}
  Stops = {s}
  MaxRuns = 3
  MaxMishaps = 1
  MaxResolved = 1
  RunOf <- AllInRunOne
SPECIFICATION Spec
INVARIANT OneOpenFlag StopsSurviveSweeps DroppedIsOver NothingLeftWorking
CHECK_DEADLOCK FALSE
