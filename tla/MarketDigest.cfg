SPECIFICATION FairSpec
CONSTANTS
  w1 = w1
  w2 = w2
  r1 = r1
  r2 = r2
  NoWorker = NoWorker
  Worker = {w1}
  RealtimeRule = {}
  StagedRule = {r1}
  CooldownRule = {}
  Threshold <- ThresholdTwo
  NumEvents = 3
  NumWindows = 2
  MaxAttempts = 2
  DigestLimit = 2
  MaxFaults = 1
  MaxReorgs = 1
  MaxExpiries = 1
ACTION_CONSTRAINT QuietThird
INVARIANTS PendingDigestReachedThreshold StagedAlertsAreCounted
PROPERTIES SettledStaysSettled DigestsRefineOutbox DeliveriesSettle
