SPECIFICATION Spec
CONSTANTS
  Db = {d1}
  Req = {r1, r2}
  Boot = Boot
  Pid = {p1, p2}
  NoPid = NoPid
  Foreign = Foreign
  Kinds = {"restore", "start"}
  MaxClock = 3
  MaxBoot = 1
SYMMETRY Symmetry
CHECK_DEADLOCK FALSE
INVARIANTS
  NeverServedEmpty
