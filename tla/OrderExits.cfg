SPECIFICATION Spec
CONSTANTS
  r1 = r1
  r2 = r2
  held = held
  wanted = wanted
  Runs = {r1, r2}
  Tickers = {held}
  Approved <- ExitTwice
  Degraded = {}
  Posture = "advisory"
  ExitScope = ExitScope
  NoRun = NoRun
  Env = {"broker_fault", "crash", "graph_fault", "partial", "expire"}
  MaxMishaps = 1
SYMMETRY Sessions
CHECK_DEADLOCK FALSE
INVARIANTS NoOversell FilledMeansTraded
