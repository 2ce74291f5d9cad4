SPECIFICATION BothFairSpec
CONSTANTS
  Processes = {w1, w2}
  Tasks = {t1, t2}
  ChainLength = 1
  MaxEnds = 2
  Faults = {}
  Absent = Absent
  w1 = w1
  t1 = t1
  t2 = t2
INVARIANTS
  NoOrphans
  EndIsRecorded
PROPERTIES
  EveryTaskSettles
  SoloMarksTheDead
CHECK_DEADLOCK FALSE
