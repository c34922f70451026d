SPECIFICATION FairSpec
CONSTANTS
  t = t    m1 = m1  m2 = m2  b = b  c = c
  Realtime = {t, b}
  Staged = {}
  Combos = {c}
  Members <- MembersDef
  Type <- TypeDef
  Threshold <- ThresholdDef
  Need <- NeedDef
  FirstChecked = {t}
  Unreadable = {b}
  CycleLimit = 2
  DailyLimit = 1
  Instances = {i}
  i = i
  Page = Page
  MaxBalance = 1
  MaxMoves = 2
  MaxChanges = 1
  MaxFaults = 1
  None = None
CHECK_DEADLOCK FALSE
INVARIANTS NoRepeatedAlert DailyLimitKept NoticesEarned
PROPERTIES RulesAreChecked
