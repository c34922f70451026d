SPECIFICATION FairSpec
CONSTANTS
  w1 = w1  w2 = w2  m1 = m1  m2 = m2  c1 = c1  p1 = p1  p2 = p2  k1 = k1  x1 = x1
  a = a
  WatchRules = {w1, w2}
  MemberRules = {m1, m2}
  Combos = {c1}
  Projects = {p1, p2}
  MarketRules = {k1}
  MarketCombos = {x1}
  Members <- MembersDef
  Parts <- PartsDef
  ProjectOf <- ProjectOfDef
  Tier <- TierDef
  Wallet <- WalletDef
  CreationOrder <- OrderDef
  RuleLimit <- RuleLimitDef
  WalletLimit <- WalletLimitDef
  ProjectLimit <- ProjectLimitDef
  PermanentPlan = "standard"
  Callers = {a}
  MaxCalls = 1
  MaxPeriods = 2
  None = None
CHECK_DEADLOCK FALSE
INVARIANTS MembersFollowCombination
PROPERTIES ActivationsWithinPlan UserPausesSurvive PaidWorkStops
