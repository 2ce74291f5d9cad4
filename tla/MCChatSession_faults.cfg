SPECIFICATION Spec
CONSTANTS
  Requests = {r1, r2, r3, r4}
  Actions = {a1, a2}
  FlowNames = {"create_user", "onboard", "data_call", "formulation_baseline", "entity_create", "remove_role"}
  Tools = {"createUser_post", "createUserApplicationAndRole_post", "createDataCalls_post", "saveDataCallDistributions_post", "saveDataCallReminder_post", "bobBaseLineGenerate_put", "addMenu_post", "addApplicationRole_post", "deleteApplicationRoleById_delete", "other"}
  Kinds = {"turn", "approve", "decline", "approve_sync", "decline_sync", "clear", "delete"}
  Serial = TRUE
  Faults = {"disconnect", "save_fails"}
  MaxRounds = 1
  None = None
SYMMETRY Symmetry
INVARIANTS
  NoVanishedCard
  NoLostTurn
PROPERTIES
  SettledNeverRuns
CHECK_DEADLOCK FALSE
