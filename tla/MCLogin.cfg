SPECIFICATION Spec
CONSTANTS
  a1 = a1
  a2 = a2
  ip1 = ip1
  ip2 = ip2
  Ip = {ip1, ip2}
  Try = {a1, a2}
  None = None
  Bad = Bad
  PerIp = 2
  Global = 2
  MaxInFlight = 2
  Window = 2
  IdleFor = 3
  LiveFor = 4
  MaxClock = 2
  MaxLogin = 3
  MaxCli = 3
  MaxBoot = 1
SYMMETRY Symmetry
CHECK_DEADLOCK FALSE
INVARIANTS
  BurstsBounded
  CodesSingleUse
  SessionsFollowCredentials
