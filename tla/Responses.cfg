SPECIFICATION ResponseSpec
CONSTANTS
  u1 = u1
  d1 = d1
  c1 = c1
  h1 = h1
  h2 = h2
  p1 = p1
  s1 = s1
  Nobody = Nobody
  NoSheet = NoSheet
  NoResult = NoResult
  NoDoc = NoDoc
  NoAccess = NoAccess
  Users = {u1, d1, c1, h1, h2}
  People = {p1}
  Records = {r1}
  Sheets = {NoSheet, s1}
  CompleteSheets = {s1}
  Bonuses = {0}
  InitRole <- Roster
  InitLink <- HrIsSubject
  AccessRows <- FullAndCeoOnly
  NewRows <- None
  Grants <- None
  Relinks <- SubjectMoves
  Switchable = {d1}
  Leavers = {}
  Movers = {}
  Promotable = {}
  PeriodEnd = 1
  Until = {2, 3}
  MaxDay = 4
  Switches = {"employee_evaluation_visibility", "employee_result_acknowledgement", "objections"}
  ObjectionDays = 1
PROPERTIES
  AnswerStaysWithItsObjection
  JudgeIsNotParty
CHECK_DEADLOCK FALSE
