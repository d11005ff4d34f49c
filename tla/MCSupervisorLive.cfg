SPECIFICATION FairSpec
CONSTANTS
  Db = {d1}
  Req = {r1, r2}
  Boot = Boot
  Pid = {p1, p2}
  NoPid = NoPid
  Foreign = Foreign
  Kinds = {"create", "start", "stop", "delete", "restore"}
  MaxClock = 2
  MaxBoot = 1
CHECK_DEADLOCK FALSE
PROPERTIES
  RequestsFinish
  DeathIsRecorded
  BootCompletes
