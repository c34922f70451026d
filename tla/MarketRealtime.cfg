SPECIFICATION FairSpec
CONSTANTS
  w1 = w1
  w2 = w2
  r1 = r1
  r2 = r2
  NoWorker = NoWorker
  Worker = {w1, w2}
  RealtimeRule = {r1}
  StagedRule = {}
  CooldownRule = {}
  Threshold <- NoThreshold
  NumEvents = 1
  NumWindows = 1
  MaxAttempts = 2
  DigestLimit = 2
  MaxFaults = 2
  MaxReorgs = 1
  MaxExpiries = 1
ACTION_CONSTRAINT ThreeTroubles
INVARIANTS SentOnceWithoutFaults
PROPERTIES RefinesOutbox DeliveriesSettle
