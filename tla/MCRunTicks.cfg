SPECIFICATION Spec
CONSTANTS
  w1 = w1
  w2 = w2
  w3 = w3
  NoWorker = NoWorker
  Workers = {w1, w2}
  Tickers = {w1, w2}
  Forcers = {}
  Advancers = {}
  Enabled = TRUE
  Requested = {"active", "paused", "reducing"}
  Timely = TRUE
  MaxCycle = 1
  MaxCrashes = 1
  MaxProposals = 3
SYMMETRY TickerSymmetry
INVARIANTS OneBuyPerCycle ConsumedCyclesSettled LeaseExclusive
CHECK_DEADLOCK FALSE
