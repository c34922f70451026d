SPECIFICATION Spec
CONSTANTS
  t1 = t1
  t2 = t2
  Tx = {t1, t2}
  Index = {1, 2}
  StartHeight = 3
  MaxHeight = 5
  ConfirmationDepth = 1
  InitialLookback = 1
  ScanBatchSize = 2
  ReorgLookback = 3
  MaxReorgs = 1
  ReorgDepth = 2
  MaxHooks = 1
  MaxFaults = 1
CHECK_DEADLOCK FALSE
INVARIANTS ReincludedIsRevived
