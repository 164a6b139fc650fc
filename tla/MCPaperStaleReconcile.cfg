SPECIFICATION Spec
CONSTANTS
  b1 = b1
  b2 = b2
  c1 = c1
  s1 = s1
  Proposals = {b1, s1}
  Procs = {p1, p2}
  Reconcilers = {p1, p2}
  Keys = {k1}
  Side <- MCSide
  Notional <- MCNotional
  Cost <- MCCost
  Content <- MCContent
  InitCash = 10
  InitPosition = 3
  Requested = {"active"}
  Expiring = {}
  TxMayFail = FALSE
  MayCrash = TRUE
  MaxPlans = 2
SYMMETRY ProcSymmetry
INVARIANTS AccountIsProjection
CHECK_DEADLOCK FALSE
