CONSTANTS
    d1 = d1
    d2 = d2
    c1 = c1
    c2 = c2
    Db = {d1, d2}
    Cmd = {c1, c2}
    MaxBoots = 2
    MaxCmds = 3
    MaxDeaths = 1
    MaxLost = 1
    MaxCopies = 1
    MaxFiles = 2
    MovesWal = TRUE
SPECIFICATION RebuildSpec
SYMMETRY Symmetry
CHECK_DEADLOCK FALSE
INVARIANTS
  NothingComesUpEmpty
  ParkedHasItsKey
PROPERTIES
  PlacedStays
