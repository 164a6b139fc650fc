SPECIFICATION Spec
CONSTANTS
  b1 = b1
  b2 = b2
  c1 = c1
  s1 = s1
  Proposals = {b1, s1}
  Procs = {p1, p2}
  Reconcilers = {}
  Keys = {k1}
  Side <- MCSide
  Notional <- MCNotional
  Cost <- MCCost
  Content <- MCContent
  InitCash = 10
  InitPosition = 5
  Requested = {"active"}
  Expiring = {}
  TxMayFail = TRUE
  MayCrash = FALSE
  MaxPlans = 2
SYMMETRY ProcSymmetry
INVARIANTS AppliedPlansStayLive
CHECK_DEADLOCK FALSE
