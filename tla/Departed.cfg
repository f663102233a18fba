SPECIFICATION Spec
CONSTANTS
  create1 = create1
  bulk1 = bulk1
  bulk2 = bulk2
  depart1 = depart1
  finalize1 = finalize1
  disable = disable
  u1 = u1
  e1 = e1
  Requests = {create1, bulk1, bulk2, depart1, finalize1, disable}
  Old = Old
  Nothing = Nothing
  LastPerson = 2
  Users = {u1, e1}
  NoUser = NoUser
  KindOf <- RequestKinds
  PeopleOf <- RequestPeople
  UserOf <- RequestUser
  Scorer <- SameScorer
  Account <- FirstHasAccount
  Mixes = {{create1, bulk1, depart1, finalize1, disable}, {bulk1, bulk2, depart1, finalize1}}
  InitOpen = {1}
  MaxCrashes = 1
INVARIANTS
  DepartedHasNoOpenRecord
CHECK_DEADLOCK FALSE
