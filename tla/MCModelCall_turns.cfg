SPECIFICATION FairSpec
CONSTANTS
  getUser = getUser
  saveFund = saveFund
  getFund = getFund
  Tools = {getUser, saveFund}
  Mutations = {saveFund}
  Risky = {saveFund}
  ModuleOf <- MCModuleOf
  Own = "fund"
  Platform = {"administration"}
  Pinned = {getUser}
  Listings <- MCListings
  ReadOnly = FALSE
  Failed = Failed
  Budget = 3
  Skills = {saveFund, getUser}
  Focused = {getUser}
  Asks <- MCAsks
  Results_ = {2}
  MaxRounds = 2
  MaxTurns = 2
  MaxEvents = 1
INVARIANTS
  OffersAreRight
  GivenWritesWait
  PromptIsWhole
PROPERTY
  TurnsFinish
CHECK_DEADLOCK FALSE
