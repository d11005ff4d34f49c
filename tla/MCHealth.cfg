SPECIFICATION Spec
CONSTANTS
  d1 = d1
  Db = {d1}
  Lag = 1
  MaxAge = 3
  Grace = 1
  Never = Never
  Bounds <- MCBounds
CHECK_DEADLOCK FALSE
INVARIANTS
  GapIsShown
  ControlIsFresh
