SPECIFICATION FairSpec
CONSTANTS
  Workers = {w1, w2}
  Ids = {"grant_access", "pin_apps"}
  Graph <- MCGraph
  IdOf <- MCIdOf
  Shipped <- MCShipped
  Stored <- MCStored
  Drafts = {"edited"}
  Messages <- MCMessages
  InitialFacts <- MCInitialFacts
  Reply <- MCReply
  Written <- MCWritten
  EditAnywhere = FALSE
  Faults = {"fetch_fails", "rejected", "timeout", "phantom", "verify_fails", "interrupted"}
  Texts = {"u1"}
  MaxPicks = 1
  MaxRuns = 1
  MaxConfirms = 1
  MaxAdmin = 1
  MaxOthers = 1
  None = None
INVARIANTS
  WriteWasConfirmed
  WriteFitsAnswers
  NoFalseSuccess
PROPERTIES
  TurnsEnd
CHECK_DEADLOCK FALSE
