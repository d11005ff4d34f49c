SPECIFICATION FairSpec
CONSTANTS
  d1 = d1
  p1 = p1
  p2 = p2
  p3 = p3
  Db = {d1}
  Proc = {p1, p2, p3}
  DbOf <- MCDbOf
  None = None
  MaxFailures = 2
  MaxBoot = 2
CHECK_DEADLOCK FALSE
INVARIANTS
  OneWriterPerReplica
PROPERTIES
  RemovesQuietDirs
  ExitsClean
  RunningIsReplicated
  StoppedIsReleased
