SPECIFICATION BothSpec
CONSTANTS
  Users = {u1, u2}
  Apps = {p1, p2}
  Roles = {m1}
  MaxCards = 3
  LookupFails = TRUE
  Names = {n1, n2}
  CodeOf <- MCCodeOf
  Seeded <- MCSeeded
  Disabled <- MCDisabled
  p1 = p1
  n1 = n1
  n2 = n2
  Entities = {"user", "role"}
  Workflows = {"w1", "w2"}
  MaxFeatures = 3
  None = None
SYMMETRY Symmetry
INVARIANTS
  IntakeInOrder
  CurrentCardIsTheFlows
  MessagesReachTheirFlow
  EntityCardHolds
CHECK_DEADLOCK FALSE
