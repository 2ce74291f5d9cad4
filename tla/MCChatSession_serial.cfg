SPECIFICATION FairSpec
CONSTANTS
  Requests = {r1, r2, r3, r4}
  Actions = {a1, a2}
  FlowNames = {"formulation_baseline", "entity_create"}
  Tools = {"bobBaseLineGenerate_put", "addMenu_post", "addApplicationRole_post", "other"}
  Kinds = {"turn", "approve", "decline", "clear", "delete"}
  Serial = TRUE
  Faults = {}
  MaxRounds = 1
  None = None
INVARIANTS
  AnswersAreTrue
CHECK_DEADLOCK FALSE
PROPERTIES
  ImplementsProtocol
  EveryRequestEnds
