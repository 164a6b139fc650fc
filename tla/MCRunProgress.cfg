SPECIFICATION FairSpec
CONSTANTS
  w1 = w1
  w2 = w2
  w3 = w3
  NoWorker = NoWorker
  Workers = {w1, w3}
  Tickers = {w1}
  Forcers = {w3}
  Advancers = {}
  Enabled = TRUE
  Requested = {"active", "paused"}
  Timely = TRUE
  MaxCycle = 1
  MaxCrashes = 2
  MaxProposals = 4
INVARIANTS FillsTraced OneBuyPerCycle
PROPERTIES DueCyclesConsumed
CHECK_DEADLOCK FALSE
