SPECIFICATION Spec
CONSTANTS
  u1 = u1
  p1 = p1
  p2 = p2
  t1 = t1
  t2 = t2
  h1 = h1
  i1 = i1
  NoPlan = NoPlan
  NoTx = NoTx
  NoOrder = NoOrder
  NoRunner = NoRunner
  User = {u1}
  Plan = {p1}
  Tx = {t1}
  Pays <- FirstPlan
  Web = {h1}
  Runner = {i1}
  RequiredConfirmations = 3
  NumOrders = 1
  MaxFaults = 0
  MaxReorgs = 0
INVARIANTS MatchingPaymentNeverFails
