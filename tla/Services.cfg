SPECIFICATION ServicesSpec
CONSTANTS
  Executor = {e1, e2}
  Group = {g1}
  GroupLimit = 1
  Parts = 2
  NumDays = 2
  MaxEvents = 1
  Process = {e1, e2}
  NumUpdates = 3
  MaxBotFaults = 2
  Challenge = {c1, c2}
  Request = {r1, r2}
  MaxSessions = 2
  User = {u1, u2}
  Token = {a1, b1, b2, d1}
  Chain <- MCChain
  Listing <- MCListing
  ProjectLimit = 2
  MaxProjects = 4
  Pool = {p1, p2, p3, p4}
  Deployment = {1, 2}
  Own = 1
  PoolOn <- MCPoolOn
  Supported = {p1, p2, p3}
  MaxChoices = 2
  RulePools <- MCRulePools
  CooldownScope = "project"
  Repeats = FALSE
  Cooldown = 1
  MaxNow = 2
  MaxSnapshots = 3
  MaxStops = 1
  Holder = {h1, h2}
  RankLimit = 1
  MaxHolding = 2
  MaxTrades = 4
  MaxCutShort = 1
  Monitored = {token1, token2}
  Bootstrap = {token0}
  MaxChanges = 2
  MaxDrifts = 1
  MaxOutages = 1
  t1 = t1
  t2 = t2
  e1 = e1
  e2 = e2
  g1 = g1
  r1 = r1
  r2 = r2
  c1 = c1
  c2 = c2
  u1 = u1
  u2 = u2
  a1 = a1
  b1 = b1
  b2 = b2
  d1 = d1
  G = G
  H = H
  p1 = p1
  p2 = p2
  p3 = p3
  p4 = p4
  h1 = h1
  h2 = h2
  token0 = token0
  token1 = token1
  token2 = token2
  Unlisted = Unlisted
  NoPool = NoPool
  Nobody = Nobody
  Nothing = Nothing
  Tx = {t1, t2}
  Index = {1}
  StartHeight = 3
  MaxHeight = 5
  ConfirmationDepth = 1
  InitialLookback = 1
  ScanBatchSize = 2
  ReorgLookback = 3
  MaxReorgs = 1
  ReorgDepth = 2
  MaxHooks = 1
  MaxFaults = 1
CHECK_DEADLOCK FALSE
INVARIANTS ConfirmedIsCanonical PassedIsRecorded OneSummaryPerPeriod ClosedPeriodsWereSent UpdatesAreHandled ChallengesAreUsedOnce AssetsAreVerified ProjectsKeepTheirTokens StandardWatchesOnePool MainPoolsAreWatched AlertsFollowCrossings RankEventsMatch
PROPERTIES ScannerCatchesUp PrivateChatIsServed WebhookSettles
