SPECIFICATION Spec
CONSTANTS
  m1 = m1
  m2 = m2
  q1 = q1
  q2 = q2
  w1 = w1
  w2 = w2
  NoWorker = NoWorker
  Message = {m1}
  Unusable = {}
  Request = {q1}
  Worker = {w1, w2}
  MaxAttempts = 2
  MaxDeliveries = 2
  MaxFaults = 0
INVARIANTS AcknowledgedCanBeProcessed
