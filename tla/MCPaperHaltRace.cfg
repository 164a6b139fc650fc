SPECIFICATION Spec
CONSTANTS
  b1 = b1
  b2 = b2
  c1 = c1
  s1 = s1
  Proposals = {b1, s1}
  Procs = {p1}
  Reconcilers = {}
  Keys = {k1}
  Side <- MCSide
  Notional <- MCNotional
  Cost <- MCCost
  Content <- MCContent
  InitCash = 10
  InitPosition = 3
  Requested = {"active", "halted"}
  Expiring = {}
  TxMayFail = FALSE
  MayCrash = FALSE
  MaxPlans = 2
PROPERTIES FillObeysControl
CHECK_DEADLOCK FALSE
