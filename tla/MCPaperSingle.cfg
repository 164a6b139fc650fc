SPECIFICATION Spec
CONSTANTS
  b1 = b1
  b2 = b2
  c1 = c1
  s1 = s1
  Proposals = {b1, s1}
  Procs = {p1}
  Reconcilers = {p1}
  Keys = {k1, k2}
  Side <- MCSide
  Notional <- MCNotional
  Cost <- MCCost
  Content <- MCContent
  InitCash = 10
  InitPosition = 3
  Requested = {"active", "reducing", "halted"}
  Expiring <- MCExpiring
  TxMayFail = TRUE
  MayCrash = TRUE
  MaxPlans = 3
SYMMETRY ProcSymmetry
INVARIANTS AppliedPlansStayLive
CHECK_DEADLOCK FALSE
