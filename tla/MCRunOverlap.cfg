SPECIFICATION Spec
CONSTANTS
  w1 = w1
  w2 = w2
  w3 = w3
  NoWorker = NoWorker
  Workers = {w1, w2}
  Tickers = {w1, w2}
  Forcers = {}
  Advancers = {w2}
  Enabled = TRUE
  Requested = {"active"}
  Timely = FALSE
  MaxCycle = 1
  MaxCrashes = 0
  MaxProposals = 2
SYMMETRY TickerSymmetry
INVARIANTS PaperReadyFilled
PROPERTIES NextMovesByOne
CHECK_DEADLOCK FALSE
