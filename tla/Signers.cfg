SPECIFICATION Spec
CONSTANTS
  u1 = u1
  u2 = u2
  d1 = d1
  c1 = c1
  h1 = h1
  h2 = h2
  p1 = p1
  p2 = p2
  s1 = s1
  s2 = s2
  Nobody = Nobody
  NoSheet = NoSheet
  NoResult = NoResult
  NoDoc = NoDoc
  NoAccess = NoAccess
  Users = {u1, d1, c1, h1, h2}
  People = {p1}
  Records = {r1}
  Sheets = {NoSheet, s1}
  CompleteSheets = {s1}
  Bonuses = {0}
  InitRole <- Roster
  InitLink <- NoFiles
  AccessRows <- AllShapes
  NewRows <- None
  Grants <- None
  Relinks <- None
  Switchable = {}
  Leavers = {}
  Movers = {}
  Promotable = {}
  PeriodEnd = 0
  Until = {}
  MaxDay = 1
INVARIANTS
  SignersTookPart
CHECK_DEADLOCK FALSE
