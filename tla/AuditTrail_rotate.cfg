SPECIFICATION TrailFairSpec
CONSTANTS
  Processes = {w1, w2}
  TurnLength = 3
  RingMax = 3
  LineMax = 2
  CheckEvery = 2
  Rotations = 1
  QueueMax = 2
  Batch = 2
  Sinks = {"up", "failing", "none"}
  MaxTurns = 2
  MaxCrashes = 1
  Absent = Absent
INVARIANTS
  EveryRecordOnce
  AnsweredIsShownDone
PROPERTY
  RecordsAreDrained
CHECK_DEADLOCK FALSE
