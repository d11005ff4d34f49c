SPECIFICATION FairSpec
CONSTANTS
  d1 = d1
  k1 = k1
  k2 = k2
  Db = {d1}
  Call = {k1, k2}
  None = None
  MaxFail = 2
  MaxBoot = 2
  MaxGone = 1
  MaxHand = 1
CHECK_DEADLOCK FALSE
INVARIANTS
  ActiveIsPublished
PROPERTIES
  ForeignUntouched
  LeavesNoRecord
  CallsReturn
