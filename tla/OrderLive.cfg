SPECIFICATION FairSpec
CONSTANTS
  r1 = r1
  r2 = r2
  held = held
  wanted = wanted
  Runs = {r1, r2}
  Tickers = {held, wanted}
  Approved <- BuyThenExit
  Degraded = {}
  Posture = "advisory"
  ExitScope = ExitScope
  NoRun = NoRun
  Env = {"broker_fault"}
  MaxMishaps = 0
CHECK_DEADLOCK FALSE
PROPERTIES ExitsNeverWait BuysWaitBounded
