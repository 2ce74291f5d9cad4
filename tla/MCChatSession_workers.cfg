SPECIFICATION Spec
CONSTANTS
  Requests = {r1, r2, r3}
  Actions = {a1, a2}
  FlowNames = {"formulation_baseline", "entity_create"}
  Tools = {"bobBaseLineGenerate_put", "other"}
  Kinds = {"turn", "approve", "decline", "approve_sync", "clear", "delete"}
  Serial = FALSE
  Faults = {"disconnect", "save_fails"}
  MaxRounds = 1
  None = None
SYMMETRY Symmetry
INVARIANTS
  CurrentIsPending

  
CHECK_DEADLOCK FALSE
