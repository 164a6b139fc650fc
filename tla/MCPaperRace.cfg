SPECIFICATION Spec
CONSTANTS
  b1 = b1
  b2 = b2
  c1 = c1
  s1 = s1
  Proposals = {b1, b2, c1, s1}
  Procs = {p1, p2}
  Reconcilers = {}
  Keys = {k1, k2}
  Side <- MCSide
  Notional <- MCNotional
  Cost <- MCCost
  Content <- MCContent
  InitCash = 10
  InitPosition = 3
  Requested = {"active"}
  Expiring = {}
  TxMayFail = FALSE
  MayCrash = TRUE
  MaxPlans = 2
SYMMETRY ProcSymmetry
INVARIANTS TypeOK SingleLivePlan SignedCustody AccountIsProjection EventsContinuous HoldsSettled NeverOverdrawn
PROPERTIES ImplementsLedger
CONSTRAINT RaceExplored
CHECK_DEADLOCK FALSE
