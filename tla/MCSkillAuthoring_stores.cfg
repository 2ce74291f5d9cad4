SPECIFICATION Spec
CONSTANTS
  Workers = {w1, w2}
  Keys = {k1, k2}
  SeasonKey = k1
  Contents = {c1, c2}
  Stores = {"skill", "workflow", "balloon", "season", "config"}
  Shipped <- MCShipped
  TTL = 1
  Serial = TRUE
  Failures = {"none", "get_fails", "set_fails", "delete_fails", "file_fails"}
  MaxChanges = 3
  MaxCrashes = 1
  None = None
  Names <- MCNames
  Tools = {t1, t2}
  SkillFields = {f1}
  Required <- MCRequired
  MaxFlows = 2
  k1 = k1
  k2 = k2
  t1 = t1
  t2 = t2
  f1 = f1
  c1 = c1
  c2 = c2
INVARIANTS
  StoresAgree
PROPERTY
  LearnsWhatWasShown
CHECK_DEADLOCK FALSE
