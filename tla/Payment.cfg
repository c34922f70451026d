SPECIFICATION FairSpec
CONSTANTS
  u1 = u1
  p1 = p1
  p2 = p2
  t1 = t1
  t2 = t2
  h1 = h1
  i1 = i1
  NoPlan = NoPlan
  NoTx = NoTx
  NoOrder = NoOrder
  NoRunner = NoRunner
  User = {u1}
  Plan = {p1, p2}
  Tx = {t1, t2}
  Pays <- BothPlans
  Web = {h1}
  Runner = {i1}
  RequiredConfirmations = 2
  NumOrders = 2
  MaxFaults = 1
  MaxReorgs = 1
ACTION_CONSTRAINT OneTrouble
INVARIANTS PaidIsConfirmed RestoredAfterPayment
PROPERTIES RefinesLedger ConfirmingSettles
