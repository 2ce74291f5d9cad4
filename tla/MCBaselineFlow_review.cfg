SPECIFICATION AllSpec
CONSTANTS
  g1 = g1
  g2 = g2
  o1 = o1
  o2 = o2
  y1 = y1
  v1 = v1
  Titles = {t1, t2}
  Years = {n1, n2}
  Rules = {b1}
  Funds = {g1}
  Offices = {o1, o2}
  Types = {y1}
  Vehicles = {v1}
  FundOf <- MCOneFund
  TypeOf <- MCTypeOf
  Faults = {"fetch_fails", "rejected"}
  d1 = d1
  d2 = d2
  p1 = p1
  p3 = p3
  Foreign = {t1, f1}
  Groups = {d1, d2}
  AppOf <- MCAppOf
  Apps = {p1, p2}
  AllFunds = {g1, g2}
  RetiredFunds = {g2}
  OwnFunds = {g1}
  ReadYears = {y1}
  Days = {w1}
  MaxCalls = 3
  CallCards = 3
  CallFaults = {"lists_fail", "lists_lag", "times_out"}
  MaxCards = 2
  Masters = {1, 2}
  MaxChanges = 2
  ReadsFail = TRUE
  None = None
INVARIANTS
  ReviewIsWhole
  CallIsFoundAndTold
  ReadsAreExact
CHECK_DEADLOCK FALSE
