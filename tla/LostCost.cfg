SPECIFICATION OfficeSpec
CONSTANTS
  Workers = {"w1", "w2", "w3"}
  Indicators = {"a", "b", "c"}
  Installed = {"a", "b"}
  Forms = {"f"}
  People = {"u1", "u2"}
  MaxSchemes = 2
  Codes = {"p1", "p2"}
  Evaluators = {"mid", "boss"}
  Usernames = {"n1"}
  EvaluatorRole <- DeputyOrCeo
  File <- ThreeLines
  Sites = {"s"}
  Names = {"u"}
  MaxUnits = 2
  Turns = {"t1", "t2"}
  Fresh = {"t1"}
  Uploads = {"file"}
  Old = "old"
  Decider = "owner"
  Window = 2
  RefreshAfter = 1
  MaxIterations = 2
  MaxCalls = 1
  DailyLimit = 2
  Requests = {"q1", "q2"}
  Accounts = {"hr1", "hr2", "sup"}
  RoleOf <- SupervisorOrHr
  Records = {"r1"}
  LowScore = {"r1"}
  Shielded <- ShieldedFromHr2
  Goals = {"g1"}
  NoOwner = "nobody"
  Recipients = {"hr", "sup", "dep"}
  HrRecipients = {"hr"}
  Assistants = {"dep"}
  Person = "p"
  EmptySeat = "none"
  Starts <- SomeStarts
  Reviews = {2}
  MaxChanges = 2
  Patience = 1
  DedupWindow = 2
  ExpiryAlert = 1
  ReviewAlert = 1
  Questions = {"g1", "g2", "s1"}
  SectionOf <- Section
  RuleSets <- SevenRules
  Marks = {1, 5}
  Bonuses = {0, 225, 500}
  Words = {0, 3}
  ReasonMin = 10
  Writers = {"w1", "w2"}
  MaxRows = 4
  MaxChecks = 2
  MaxTampering = 1
  Visits = {"in1", "in2", "in3", "re1", "re2", "re3", "own1", "hr1", "out1", "sw1", "un1"}
  KindOf <- RequestKind
  Mixes <- SomeMixes
  Devices = 1
  MaxFailed = 2
  AttemptWindow = 1
  Lockout = 1
  Grace = 1
  SessionLife = 2
  Retention = 0
  MaxTime = 4
  NoGrantor = "nobody"
  UserAccounts = {"a1", "a2", "b1", "b2"}
  InstalledAccounts = {"a1", "a2"}
  BootNames = {"b1", "b2"}
  AdminRequests = {"r1", "r2"}
  ProcessStarts = {"p1", "p2"}
  Default = {"manage_users"}
  Capability = {"manage_users", "manage_capabilities"}
  Nobody = "nobody"
  Me = "me"
  Colleague = "colleague"
  ChainRows <- SomeRows
  Rights <- SomeRights
  Switches = {"periods"}
  NoRow = NoRow
  NoCard = NoCard
  NoRun = NoRun
INVARIANTS
  TheLedgerStays
CHECK_DEADLOCK FALSE
