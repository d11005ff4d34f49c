SPECIFICATION Spec
CONSTANTS
  Db = {d1}
  Req = {r1, r2, r3}
  Boot = Boot
  Pid = {p1, p2}
  NoPid = NoPid
  Foreign = Foreign
  Kinds = {"create", "start", "stop", "delete", "restore"}
  MaxClock = 3
  MaxBoot = 1
SYMMETRY Symmetry
CHECK_DEADLOCK FALSE
INVARIANTS
  EverySqldIsTracked
  OneWriterPerDatabase
  SettledMeansDead
  OnlyOwnProcessesSignalled
PROPERTIES
  OwnerSpec
