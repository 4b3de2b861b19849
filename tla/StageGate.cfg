SPECIFICATION GateSpec
CONSTANTS
  Callers = {c1, c2}
  DefaultStage = "paper"
  MinRuns = 2
  MinRatePct = 60
  MaxSnapshots = 4
  MaxFaults = 1
SYMMETRY CallerSymmetry
INVARIANTS StageEarned NoAutopilot
