SPECIFICATION FairSpec
CONSTANTS
  t1 = t1
  t2 = t2
  w1 = w1
  Target = {t1, t2}
  Ws = {w1}
  Bounds <- MCBounds
CHECK_DEADLOCK FALSE
INVARIANTS
  ComesUpWithItsData
  PointInTime
  NothingDangles
PROPERTIES
  JobsSettle
