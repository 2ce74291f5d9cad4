SPECIFICATION BothSpec
CONSTANTS
  Requests = {r1, r2, r3, r4}
  Serial = TRUE
  Faults = {"crash", "read_fails", "write_fails"}
  Apps = {p1, p2}
  Unknown = unknown
  MaxAsks = 3
  MaxDay = 2
  None = None
INVARIANTS
  HistoryIsOfItsApp
  NothingLost
  MirrorKeepsUp
PROPERTIES
  DurableGrows
CHECK_DEADLOCK FALSE
