SPECIFICATION Spec
CONSTANTS
  d1 = d1
  d2 = d2
  d3 = d3
  r1 = r1
  r2 = r2
  r3 = r3
  Db = {d1, d2, d3}
  Req = {r1, r2, r3}
  Fwd = {f1}
  Tok = {t1, t2}
  Lo = 1
  Hi = 5
  Held = {2}
  None = None
  Torn = Torn
  Bounds <- ManyBounds
SYMMETRY Symmetry
CHECK_DEADLOCK FALSE
INVARIANTS
  PortsExclusive
  PortsReturn
  ServedAtHome
  TokensVerify
