SPECIFICATION Spec
CONSTANTS
  w1 = w1
  w2 = w2
  r1 = r1
  r2 = r2
  NoWorker = NoWorker
  Worker = {w1, w2}
  RealtimeRule = {r1}
  StagedRule = {}
  CooldownRule = {r1}
  Threshold <- NoThreshold
  NumEvents = 2
  NumWindows = 1
  MaxAttempts = 2
  DigestLimit = 2
  MaxFaults = 1
  MaxReorgs = 1
  MaxExpiries = 0
SYMMETRY Workers
INVARIANTS PassedEventsAreAnnounced
