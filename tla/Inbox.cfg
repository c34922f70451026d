SPECIFICATION FairSpec
CONSTANTS
  m1 = m1
  m2 = m2
  q1 = q1
  q2 = q2
  w1 = w1
  w2 = w2
  NoWorker = NoWorker
  Message = {m1, m2}
  Unusable = {m2}
  Request = {q1}
  Worker = {w1, w2}
  MaxAttempts = 2
  MaxDeliveries = 3
  MaxFaults = 1
INVARIANTS OneWorkerWithoutFaults GivenUpAfterAllAttempts
PROPERTIES ProcessedStaysProcessed MessagesSettle
