SPECIFICATION Spec
CONSTANTS
  r1 = r1
  r2 = r2
  held = held
  wanted = wanted
  Runs = {r1}
  Tickers = {held, wanted}
  Approved <- BuyAndExit
  Degraded = {}
  Posture = "binding"
  ExitScope = ExitScope
  NoRun = NoRun
  Env = {"broker_fault", "crash", "stage"}
  MaxMishaps = 2
CHECK_DEADLOCK FALSE
INVARIANTS BuyNeedsReview UnvetoedOrdersRecorded AllAccounted
PROPERTIES VetoedBuyStaysOut
