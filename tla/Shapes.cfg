SPECIFICATION Spec
CONSTANTS
  u1 = u1
  u2 = u2
  d1 = d1
  c1 = c1
  h1 = h1
  h2 = h2
  p1 = p1
  p2 = p2
  s1 = s1
  s2 = s2
  Nobody = Nobody
  NoSheet = NoSheet
  NoResult = NoResult
  NoDoc = NoDoc
  NoAccess = NoAccess
  Users = {u1, d1, c1, h1, h2}
  People = {p1}
  Records = {r1, r2}
  Sheets = {NoSheet, s1, s2}
  CompleteSheets = {s1, s2}
  Bonuses = {0, 1}
  InitRole <- Roster
  InitLink <- HrIsSubject
  AccessRows <- AllShapes
  NewRows <- None
  Grants <- None
  Relinks <- None
  Switchable = {}
  Leavers = {}
  Movers = {}
  Promotable = {}
  PeriodEnd = 1
  Until = {}
  MaxDay = 2
INVARIANTS
  TypeOK
  ResultIsCurrent
  SealedDocumentIsComplete
  HrStaysOutOfItsUnit
  NoLimbo
  NoStageIsJumped
  HolderMovesItOn
PROPERTIES
  FinalizedIsSealed
  PromiseKept
CHECK_DEADLOCK FALSE
