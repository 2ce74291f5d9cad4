SPECIFICATION BothSpec
CONSTANTS
  u1 = u1
  u2 = u2
  p1 = p1
  p2 = p2
  Admin = Admin
  SuperAdmin = SuperAdmin
  Viewer = Viewer
  admin = admin
  viewer = viewer
  Users = {u1, u2}
  Apps = {p1, p2}
  Roles = {Admin, SuperAdmin, Viewer}
  Words = {admin, viewer}
  RoleNamed <- MCRoleNamed
  Covers <- MCCovers
  Ids = {1}
  Requests = {r1, r2}
  Granted <- MCGranted
  Locks = TRUE
  Faults = {"read_fails", "refused", "leaves"}
  Callers = {"a1", "a2"}
  Names = {"a1", "a2", "n1"}
  TypeWords = {"Local", "account"}
  Lists <- MCLists
  Within <- MCWithin
  MaxRuns = 2
  SkillFaults = {"read_fails", "refused", "lost"}
  None = None
INVARIANTS
  RemovalIsComplete
  ToldAndShownTruly
  CreatedAsConfirmed
PROPERTY
  OnlyWhatIsNamed
SYMMETRY RequestsAreAlike
CHECK_DEADLOCK FALSE
