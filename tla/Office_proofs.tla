--------------------------- MODULE Office_proofs ---------------------------
(***************************************************************************)
(* What holds of the parts around an evaluation, for any requests and any  *)
(* staff: a closed improvement plan keeps its status and its goals, no row *)
(* of a file is imported twice, the newest version of the framework lists  *)
(* the active indicators, and whoever has to act is reminded.              *)
(***************************************************************************)
EXTENDS ImprovementPlans, Directory, ScoringRules, Reminders, TLAPS

-----------------------------------------------------------------------------
(* Improvement plans.  The argument is about the lock that is taken with   *)
(* the read: the plan of whoever holds one is open and stays open until    *)
(* that request writes, because nobody else holds it.  Creation and the    *)
(* general edit take no lock, and never write a status or a goal of a plan *)
(* that is there.                                                          *)

Operations == {"none", "create", "update"} \cup Closings \cup GoalOps

Plan == [status : {"none", "open", "completed", "cancelled"}, owner : Accounts \cup {NoOwner},
         goals : [Goals -> {"none", "set", "done"}]]

Request == [pc : {"idle", "begun"}, op : Operations, of : Records \cup {NoOwner},
            goal : Goals \cup {NoOwner}, owner : Accounts \cup {NoOwner},
            previous : Accounts \cup {NoOwner}, holds : BOOLEAN]

PlanTypeOK ==
  /\ plan \in [Records -> Plan]
  /\ request \in [Requests -> Request]

\* Whoever is to close a plan or write a goal holds its lock, and a request
\* that was begun is about a record.
Prepared(q) ==
  /\ request[q].op \in Closings \cup GoalOps => request[q].holds
  /\ request[q].pc = "begun" => request[q].of \in Records
  /\ request[q].pc = "begun" /\ request[q].op \in GoalOps => request[q].goal \in Goals
  /\ request[q].holds => request[q].of \in Records /\ IsOpen(request[q].of)

LockInv ==
  /\ \A q \in Requests : Prepared(q)
  /\ \A p, q \in Requests : request[p].holds /\ request[q].holds
                              /\ request[p].of = request[q].of => p = q

PlanInv == PlanTypeOK /\ LockInv

LEMMA InitPlans == PlansInit => PlanInv
BY DEF PlansInit, PlanInv, PlanTypeOK, LockInv, Prepared, NoPlan, IdleRequest, Operations, Closings,
       GoalOps, Plan, Request

----------------------------------------------------------------------------
\* A request that ends holds nothing.
LEMMA EndKeepsLocks ==
  ASSUME PlanInv, NEW q \in Requests, End(q),
         \A r \in Records : (\E p \in Requests \ {q} : request[p].holds /\ request[p].of = r)
                              => plan'[r].status = plan[r].status
  PROVE  /\ LockInv'
         /\ request' \in [Requests -> Request]
<1> USE DEF PlanInv, PlanTypeOK
<1>1. IdleRequest \in Request
  BY DEF IdleRequest, Operations, Request
<1>2. request' = [request EXCEPT ![q] = IdleRequest]
  BY DEF End
<1>3. \A p \in Requests : Prepared(p)'
  <2>1. Prepared(q)'
    BY <1>2 DEF Prepared, IdleRequest, Closings, GoalOps
  <2>2. ASSUME NEW p \in Requests \ {q} PROVE Prepared(p)'
    BY <1>2 DEF LockInv, Prepared, IsOpen
  <2> QED BY <2>1, <2>2
<1>4. \A p, s \in Requests : request'[p].holds /\ request'[s].holds
                              /\ request'[p].of = request'[s].of => p = s
  BY <1>2 DEF LockInv, IdleRequest
<1> QED BY <1>1, <1>2, <1>3, <1>4 DEF LockInv

\* What a step leaves, and that it closes or changes no closed plan.
Keeps == PlanInv' /\ ClosedStaysAsItWas

LEMMA BeginsKeep ==
  ASSUME PlanAssumption, PlanInv, NEW q \in Requests, BeginCreate(q) \/ BeginUpdate(q) \/ BeginLocked(q)
  PROVE  Keeps
<1> USE DEF PlanInv
<1>1. UNCHANGED plan /\ ClosedStaysAsItWas
  BY DEF BeginCreate, BeginUpdate, BeginLocked, ClosedStaysAsItWas
<1>2. CASE BeginCreate(q) \/ BeginUpdate(q)
  <2>1. PICK rec : /\ request' = [request EXCEPT ![q] = rec]
                   /\ rec \in Request /\ rec.op \in {"create", "update"}
                   /\ rec.of \in Records /\ rec.holds = FALSE
    <3>1. CASE BeginCreate(q)
      <4>1. PICK r \in LowScore, o \in Accounts \cup {NoOwner} :
              request' = [request EXCEPT ![q] = [IdleRequest EXCEPT !.pc = "begun", !.op = "create",
                                                             !.of = r, !.owner = o]]
        BY <3>1 DEF BeginCreate
      <4> DEFINE rec == [IdleRequest EXCEPT !.pc = "begun", !.op = "create", !.of = r, !.owner = o]
      <4>2. rec \in Request /\ rec.op = "create" /\ rec.of \in Records /\ rec.holds = FALSE
        BY DEF PlanAssumption, IdleRequest, Operations, Request
      <4> HIDE DEF rec
      <4>3. request' = [request EXCEPT ![q] = rec]
        BY <4>1 DEF rec
      <4> QED BY <4>2, <4>3
    <3>2. CASE BeginUpdate(q)
      <4>1. PICK r \in Records, o \in Accounts \cup {NoOwner} :
              request' = [request EXCEPT ![q] = [IdleRequest EXCEPT !.pc = "begun", !.op = "update",
                                    !.of = r, !.owner = o, !.previous = plan[r].owner]]
        BY <3>2 DEF BeginUpdate
      <4> DEFINE rec == [IdleRequest EXCEPT !.pc = "begun", !.op = "update", !.of = r, !.owner = o,
                                     !.previous = plan[r].owner]
      <4>2. rec \in Request /\ rec.op = "update" /\ rec.of \in Records /\ rec.holds = FALSE
        BY DEF PlanTypeOK, Plan, IdleRequest, Operations, Request
      <4> HIDE DEF rec
      <4>3. request' = [request EXCEPT ![q] = rec]
        BY <4>1 DEF rec
      <4> QED BY <4>2, <4>3
    <3> QED BY <1>2, <3>1, <3>2
  <2>2. PlanTypeOK'
    BY <1>1, <2>1 DEF PlanTypeOK
  <2>3. LockInv'
    BY <1>1, <2>1 DEF PlanTypeOK, LockInv, Prepared, IsOpen, Closings, GoalOps
  <2> QED BY <1>1, <2>2, <2>3 DEF Keeps
<1>3. CASE BeginLocked(q)
  <2>1. PICK r \in Records, op \in Closings \cup GoalOps :
          /\ Free(r)
          /\ \/ End(q)
             \/ /\ IsOpen(r)
                /\ \E g \in Goals \cup {NoOwner} :
                     /\ op \in GoalOps => g \in Goals
                     /\ request' = [request EXCEPT ![q] = [IdleRequest EXCEPT !.pc = "begun", !.op = op,
                                      !.of = r, !.goal = g, !.holds = TRUE]]
    BY <1>3 DEF BeginLocked, Closings, GoalOps
  <2>2. CASE End(q)
    BY <1>1, <2>2, EndKeepsLocks DEF Keeps, PlanTypeOK
  <2>3. CASE ~End(q)
    <3>1. PICK g \in Goals \cup {NoOwner} :
            /\ op \in GoalOps => g \in Goals
            /\ request' = [request EXCEPT ![q] = [IdleRequest EXCEPT !.pc = "begun", !.op = op,
                                      !.of = r, !.goal = g, !.holds = TRUE]]
      BY <2>1, <2>3
    <3>2. PlanTypeOK'
      BY <1>1, <3>1 DEF PlanTypeOK, Request, IdleRequest, Operations
    <3>3. LockInv'
      BY <1>1, <2>1, <2>3, <3>1 DEF PlanTypeOK, LockInv, Prepared, IsOpen, Free, IdleRequest
    <3> QED BY <1>1, <3>2, <3>3 DEF Keeps
  <2> QED BY <2>2, <2>3
<1> QED BY <1>2, <1>3

LEMMA FinishesKeep ==
  ASSUME PlanInv, NEW q \in Requests,
         FinishCreate(q) \/ FinishUpdate(q) \/ FinishClosing(q) \/ FinishGoal(q)
  PROVE  Keeps
<1> USE DEF PlanInv
<1> DEFINE r == request[q].of
<1>1. r \in Records /\ plan[r] \in Plan /\ End(q)
  BY DEF FinishCreate, FinishUpdate, FinishClosing, FinishGoal, PlanTypeOK, LockInv, Prepared
<1>2. ASSUME NEW new \in Plan, plan' = [plan EXCEPT ![r] = new],
             new.status = plan[r].status \/ request[q].holds \/ ~Exists(r),
             ~Exists(r) \/ IsOpen(r) \/ (new.status = plan[r].status /\ new.goals = plan[r].goals)
      PROVE  Keeps
  <2>1. plan' \in [Records -> Plan] /\ plan'[r] = new
        /\ \A s \in Records \ {r} : plan'[s] = plan[s]
    BY <1>1, <1>2 DEF PlanTypeOK
  <2>2. \A s \in Records : (\E p \in Requests \ {q} : request[p].holds /\ request[p].of = s)
                              => plan'[s].status = plan[s].status
    BY <1>2, <2>1 DEF LockInv, Prepared, IsOpen, Exists
  <2>3. ClosedStaysAsItWas
    BY <1>2, <2>1 DEF ClosedStaysAsItWas
  <2> QED BY <1>1, <2>1, <2>2, <2>3, EndKeepsLocks DEF Keeps, PlanTypeOK
<1>3. CASE UNCHANGED plan
  BY <1>1, <1>3, EndKeepsLocks DEF Keeps, PlanTypeOK, ClosedStaysAsItWas
<1>4. CASE FinishCreate(q)
  <2>1. CASE Exists(r)
    BY <1>3, <1>4, <2>1 DEF FinishCreate
  <2>2. CASE ~Exists(r)
    <3>1. PICK gs \in SUBSET Goals :
            plan' = [plan EXCEPT ![r] = [status |-> "open", owner |-> request[q].owner,
                                  goals |-> [g \in Goals |-> IF g \in gs THEN "set" ELSE "none"]]]
      BY <1>4, <2>2 DEF FinishCreate
    <3> DEFINE new == [status |-> "open", owner |-> request[q].owner,
                       goals |-> [g \in Goals |-> IF g \in gs THEN "set" ELSE "none"]]
    <3>2. new \in Plan /\ plan' = [plan EXCEPT ![r] = new]
      BY <3>1 DEF PlanTypeOK, Plan, Request
    <3> HIDE DEF new
    <3> QED BY <1>2, <2>2, <3>2
  <2> QED BY <2>1, <2>2
<1>5. CASE FinishUpdate(q)
  <2>1. CASE request[q].owner = request[q].previous
    BY <1>3, <1>5, <2>1 DEF FinishUpdate
  <2>2. CASE request[q].owner # request[q].previous
    <3> DEFINE new == [plan[r] EXCEPT !.owner = request[q].owner]
    <3>1. plan' = [plan EXCEPT ![r] = new]
      BY <1>5, <2>2 DEF FinishUpdate
    <3>2. new \in Plan /\ new.status = plan[r].status /\ new.goals = plan[r].goals
      BY <1>1 DEF PlanTypeOK, Plan, Request
    <3> HIDE DEF new
    <3> QED BY <1>2, <3>1, <3>2
  <2> QED BY <2>1, <2>2
<1>6. CASE FinishClosing(q)
  <2> DEFINE new == [plan[r] EXCEPT !.status = AfterClosing(request[q].op)]
  <2>1. plan' = [plan EXCEPT ![r] = new]
    BY <1>6 DEF FinishClosing
  <2>2. new \in Plan
    BY <1>1 DEF AfterClosing, Plan
  <2>3. request[q].holds /\ IsOpen(r)
    BY <1>6 DEF FinishClosing, LockInv, Prepared
  <2> HIDE DEF new
  <2> QED BY <1>2, <2>1, <2>2, <2>3
<1>7. CASE FinishGoal(q)
  <2>1. request[q].holds /\ IsOpen(r) /\ request[q].goal \in Goals
    BY <1>7 DEF FinishGoal, LockInv, Prepared
  <2>2. PICK after \in AfterGoal(request[q].op, plan[r].goals[request[q].goal]) :
          plan' = [plan EXCEPT ![r].goals[request[q].goal] = after]
    BY <1>7 DEF FinishGoal
  <2>3. after \in {"none", "set", "done"}
    BY <1>1, <1>7, <2>1, <2>2 DEF FinishGoal, AfterGoal, GoalOps, Plan
  <2> DEFINE new == [plan[r] EXCEPT !.goals[request[q].goal] = after]
  <2>4. plan' = [plan EXCEPT ![r] = new]
    BY <2>2
  <2>5. new \in Plan /\ new.status = plan[r].status
    BY <1>1, <2>3 DEF Plan
  <2> HIDE DEF new
  <2> QED BY <1>2, <2>1, <2>4, <2>5
<1> QED BY <1>4, <1>5, <1>6, <1>7

LEMMA PlanStep ==
  ASSUME PlanAssumption, PlanInv, [PlansNext]_plansVars PROVE PlanInv' /\ [ClosedStaysAsItWas]_plansVars
<1>1. CASE UNCHANGED <<plan, request>>
  BY <1>1 DEF PlanInv, PlanTypeOK, LockInv, Prepared, IsOpen, ClosedStaysAsItWas
<1>2. ASSUME NEW q \in Requests, BeginCreate(q) \/ BeginUpdate(q) \/ BeginLocked(q)
      PROVE  Keeps
  BY <1>2, BeginsKeep
<1>3. ASSUME NEW q \in Requests,
             FinishCreate(q) \/ FinishUpdate(q) \/ FinishClosing(q) \/ FinishGoal(q)
      PROVE  Keeps
  BY <1>3, FinishesKeep
<1>4. CASE SwitchModule \/ (\E a \in Accounts : Deactivate(a)) \/ UNCHANGED plansVars
  BY <1>1, <1>4 DEF SwitchModule, Deactivate, plansVars
<1> QED BY <1>2, <1>3, <1>4 DEF PlansNext, Keeps

\* Of two requests that race on a plan, the second finds it closed: no goal is
\* ticked, added, reworded or deleted and no second closing is written once a
\* plan is completed or cancelled (_get_plan_or_404, _ensure_plan_open).
THEOREM ClosedPlansAreSettled ==
  ASSUME PlanAssumption PROVE PlansSpec => ClosedPlanKeepsItsGoals
<1>1. PlanInv /\ [PlansNext]_plansVars => PlanInv' /\ [ClosedStaysAsItWas]_plansVars
  BY PlanStep
<1> QED BY <1>1, InitPlans, PTL DEF PlansSpec, ClosedPlanKeepsItsGoals

-----------------------------------------------------------------------------
(* Persons and files.  The argument is about the unique codes: the rows a  *)
(* request is about to write have different ones, none of them on file     *)
(* when it writes them, and what another request has reported is on file.  *)

Person4 == {"here", "unit", "chain", "account"}
Import5 == {"at", "staged", "rows", "fixed", "seats"}

\* Where a request holds rows that it is to write or has written.
WithRows == {"insert", "mark", "imported"}

DirectoryShape ==
  /\ people = [c \in Codes |-> people[c]]
  /\ \A c \in Codes : people[c] = [f \in Person4 |-> people[c][f]]
  /\ serving = [w \in Workers |-> serving[w]]

\* The rows of an import are lines of the file, one for each code.
RowsDiffer(w) ==
  serving[w].at \in WithRows =>
    /\ serving[w] = [f \in Import5 |-> serving[w][f]]
    /\ serving[w].rows \subseteq RowsOf
    /\ \A q, r \in serving[w].rows : File[q].code = File[r].code => q = r

ImportInv == DirectoryShape /\ NobodyImportedTwice /\ \A w \in Workers : RowsDiffer(w)

LEMMA InitImports == DirectoryInit => ImportInv
<1> SUFFICES ASSUME DirectoryInit PROVE ImportInv
  OBVIOUS
<1>1. NoPerson = [f \in Person4 |-> NoPerson[f]]
  BY DEF NoPerson, Person4
<1>2. people = [c \in Codes |-> NoPerson] /\ serving = [w \in Workers |-> [at |-> "idle"]]
  BY DEF DirectoryInit, Unserved
<1>3. DirectoryShape
  BY <1>1, <1>2, Zenon DEF DirectoryShape
<1>4. \A w \in Workers : serving[w].at = "idle"
  BY <1>2
<1>5. \A w \in Workers : RowsDiffer(w) /\ Reported(w) = {}
  BY <1>4 DEF RowsDiffer, Reported, WithRows
<1> QED BY <1>3, <1>5 DEF ImportInv, NobodyImportedTwice

\* A file that is parsed yields rows with different codes.
LEMMA ValidRowsDiffer ==
  ASSUME DirectoryAssumption, NEW fixed
  PROVE  /\ ValidRows(fixed) \subseteq RowsOf
         /\ \A q, r \in ValidRows(fixed) : File[q].code = File[r].code => q = r
<1>1. ASSUME NEW q \in ValidRows(fixed), NEW r \in ValidRows(fixed), File[q].code = File[r].code, q # r
      PROVE  FALSE
  <2>1. q \in Nat /\ r \in Nat /\ q \in RowsOf /\ r \in RowsOf
    BY DEF ValidRows, RowsOf, DirectoryAssumption
  <2>2. q < r \/ r < q
    BY <1>1, <2>1
  <2>3. Repeated(q) \/ Repeated(r)
    BY <1>1, <2>1, <2>2 DEF Repeated
  <2>4. QED
    BY <2>3 DEF ValidRows
<1> QED BY <1>1 DEF ValidRows

\* Whoever is on file stays there with the account that was made with them.
StayOnFile ==
  /\ people' = [c \in Codes |-> people'[c]]
  /\ \A c \in Codes : people'[c] = [f \in Person4 |-> people'[c][f]]
  /\ \A c \in Codes : people[c].here => people'[c].here /\ people'[c].account = people[c].account

\* A step that reports nothing new keeps what was reported.
LEMMA NothingReported ==
  ASSUME DirectoryAssumption, ImportInv, StayOnFile,
         NEW w \in Workers, NEW rec, serving' = [serving EXCEPT ![w] = rec],
         \/ rec.at \notin WithRows
         \/ /\ rec.at = "insert" /\ rec = [f \in Import5 |-> rec[f]]
            /\ rec.rows \subseteq RowsOf
            /\ \A q, r \in rec.rows : File[q].code = File[r].code => q = r
         \/ /\ serving[w].at = "mark" /\ rec.at = "imported" /\ rec.rows = serving[w].rows
            /\ rec = [f \in Import5 |-> rec[f]]
  PROVE  ImportInv'
<1>1. DirectoryShape'
  BY DEF ImportInv, DirectoryShape, StayOnFile
<1>2. serving'[w] = rec /\ \A v \in Workers \ {w} : serving'[v] = serving[v]
  BY DEF ImportInv, DirectoryShape
<1>3. \A v \in Workers : RowsDiffer(v)'
  <2>1. \A v \in Workers : RowsDiffer(v)
    BY DEF ImportInv
  <2>2. \A v \in Workers \ {w} : RowsDiffer(v)'
    BY <1>2, <2>1 DEF RowsDiffer
  <2>3. CASE rec.at \notin WithRows
    BY <1>2, <2>2, <2>3 DEF RowsDiffer
  <2>4. CASE /\ rec.at = "insert" /\ rec = [f \in Import5 |-> rec[f]]
             /\ rec.rows \subseteq RowsOf
             /\ \A q, r \in rec.rows : File[q].code = File[r].code => q = r
    BY <1>2, <2>2, <2>4 DEF RowsDiffer
  <2>5. CASE /\ serving[w].at = "mark" /\ rec.at = "imported" /\ rec.rows = serving[w].rows
             /\ rec = [f \in Import5 |-> rec[f]]
    <3>1. /\ rec.rows \subseteq RowsOf
          /\ \A q, r \in rec.rows : File[q].code = File[r].code => q = r
      BY <2>1, <2>5 DEF RowsDiffer, WithRows
    <3> QED BY <1>2, <2>2, <2>5, <3>1 DEF RowsDiffer
  <2> QED BY <2>2, <2>3, <2>4, <2>5
<1>4. \A v \in Workers : Reported(v)' \subseteq Reported(v)
  BY <1>2 DEF Reported, WithRows
<1>5. ASSUME NEW v \in Workers, NEW r \in Reported(v)
      PROVE  File[r].code \in Codes
  BY <1>5 DEF Reported, ImportInv, RowsDiffer, WithRows, RowsOf, DirectoryAssumption
<1>6. NobodyImportedTwice'
  BY <1>4, <1>5 DEF ImportInv, NobodyImportedTwice, StayOnFile
<1> QED BY <1>1, <1>3, <1>6 DEF ImportInv

\* The rows that are inserted are those of nobody on file, hence of nobody
\* another request has reported.
LEMMA InsertReports ==
  ASSUME DirectoryAssumption, ImportInv, NEW w \in Workers, Insert(w)
  PROVE  ImportInv'
<1> DEFINE s == serving[w]
           of(c) == {r \in s.rows : File[r].code = c}
           made(r) == [here |-> TRUE, unit |-> File[r].unit, account |-> File[r].username,
                       chain |-> IF HasChain(s.seats[r]) THEN s.seats[r] ELSE NoChain]
<1>1. CASE Collides(s.rows)
  <2>1. people' = people /\ serving' = [serving EXCEPT ![w] = [at |-> "done"]]
    BY <1>1 DEF Insert, Done, Goto
  <2>2. StayOnFile
    BY <2>1 DEF StayOnFile, ImportInv, DirectoryShape
  <2>3. QED
    BY <2>1, <2>2, NothingReported DEF WithRows
<1>2. CASE ~Collides(s.rows)
  <2>1. /\ s.at = "insert"
        /\ people' = [c \in Codes |-> IF of(c) = {} THEN people[c]
                                      ELSE made(CHOOSE r \in of(c) : TRUE)]
        /\ serving' = [serving EXCEPT ![w] = [s EXCEPT !.at = IF s.staged THEN "mark" ELSE "imported"]]
    BY <1>2 DEF Insert, Goto
  <2>2. /\ s = [f \in Import5 |-> s[f]] /\ s.rows \subseteq RowsOf
        /\ \A q, r \in s.rows : File[q].code = File[r].code => q = r
    BY <2>1 DEF ImportInv, RowsDiffer, WithRows
  <2>3. \A r \in s.rows : File[r].code \in Codes /\ ~people[File[r].code].here
    BY <1>2, <2>2 DEF Collides, OnFile, RowsOf, DirectoryAssumption
  <2>4. ASSUME NEW r \in s.rows
        PROVE  people'[File[r].code] = made(r)
    <3>1. of(File[r].code) = {r}
      BY <2>2
    <3>2. (CHOOSE q \in of(File[r].code) : TRUE) = r
      BY <3>1
    <3>3. QED
      BY <2>1, <2>3, <3>1, <3>2
  <2>5. ASSUME NEW c \in Codes
        PROVE  /\ people'[c] = [f \in Person4 |-> people'[c][f]]
               /\ people[c].here => people'[c] = people[c]
    <3>1. CASE of(c) = {}
      BY <2>1, <3>1 DEF ImportInv, DirectoryShape
    <3>2. CASE of(c) # {}
      <4>1. PICK r \in s.rows : File[r].code = c
        BY <3>2
      <4>2. people'[c] = made(r) /\ ~people[c].here
        BY <4>1, <2>3, <2>4
      <4>3. QED
        BY <4>2 DEF Person4
    <3>3. QED
      BY <3>1, <3>2
  <2>6. people' = [c \in Codes |-> people'[c]]
    BY <2>1
  <2>7. /\ serving'[w] = [s EXCEPT !.at = IF s.staged THEN "mark" ELSE "imported"]
        /\ \A v \in Workers \ {w} : serving'[v] = serving[v]
        /\ serving' = [v \in Workers |-> serving'[v]]
    BY <2>1 DEF ImportInv, DirectoryShape
  <2>8. /\ serving'[w] = [f \in Import5 |-> serving'[w][f]]
        /\ serving'[w].rows = s.rows /\ serving'[w].at \in {"mark", "imported"}
    BY <2>2, <2>7 DEF Import5
  <2>9. DirectoryShape'
    BY <2>5, <2>6, <2>7 DEF DirectoryShape
  <2>10. \A v \in Workers : RowsDiffer(v)'
    <3>1. \A v \in Workers \ {w} : RowsDiffer(v)'
      BY <2>7 DEF ImportInv, RowsDiffer
    <3>2. RowsDiffer(w)'
      BY <2>2, <2>8 DEF RowsDiffer
    <3> QED BY <3>1, <3>2
  <2>11. Reported(w)' = s.rows /\ \A v \in Workers \ {w} : Reported(v)' = Reported(v)
    BY <2>7, <2>8 DEF Reported
  <2>12. ASSUME NEW v \in Workers \ {w}, NEW r \in Reported(v)
         PROVE  File[r].code \in Codes /\ people[File[r].code].here
    BY <2>12 DEF Reported, ImportInv, NobodyImportedTwice, RowsDiffer, WithRows, RowsOf,
                 DirectoryAssumption
  <2>13. NobodyImportedTwice'
    <3>1. \A r \in Reported(w)' : /\ people'[File[r].code].here
                                  /\ people'[File[r].code].account = File[r].username
      <4>1. \A r : made(r).here /\ made(r).account = File[r].username
        OBVIOUS
      <4> HIDE DEF made
      <4> QED BY <4>1, <2>4, <2>11
    <3>2. \A v \in Workers \ {w} : \A r \in Reported(v)' :
             /\ people'[File[r].code].here
             /\ people'[File[r].code].account = File[r].username
      BY <2>5, <2>11, <2>12 DEF ImportInv, NobodyImportedTwice
    <3>3. \A v \in Workers \ {w} : \A r \in Reported(v)', q \in Reported(w)' :
             File[q].code # File[r].code
      BY <2>3, <2>11, <2>12
    <3>4. QED
      BY <3>1, <3>2, <3>3, <2>11 DEF ImportInv, NobodyImportedTwice
  <2>14. QED
    BY <2>9, <2>10, <2>13 DEF ImportInv
<1> QED BY <1>1, <1>2

LEMMA ImportStep ==
  ASSUME DirectoryAssumption, ImportInv, [DirectoryNext]_directoryVars
  PROVE  ImportInv'
<1>1. people' = people => StayOnFile
  BY DEF StayOnFile, ImportInv, DirectoryShape
<1>2. ASSUME NEW w \in Workers, NEW staged \in BOOLEAN, Parse(w, staged)
      PROVE  ImportInv'
  <2> DEFINE rows == ValidRows(IF staged THEN upload.fixed ELSE {})
             rec == [at |-> "insert", staged |-> staged, rows |-> rows, fixed |-> upload.fixed,
                     seats |-> [r \in rows |-> SeatsOfRow(File[r])]]
  <2>1. people' = people /\ serving' = [serving EXCEPT ![w] = rec]
    BY <1>2 DEF Parse, Goto
  <2>2. /\ rec.at = "insert" /\ rec = [f \in Import5 |-> rec[f]] /\ rec.rows = rows
    BY DEF Import5
  <2>3. /\ rows \subseteq RowsOf
        /\ \A q, r \in rows : File[q].code = File[r].code => q = r
    BY ValidRowsDiffer
  <2> HIDE DEF rec
  <2>4. QED
    BY <1>1, <2>1, <2>2, <2>3, NothingReported
<1>3. ASSUME NEW w \in Workers, MarkCommitted(w) \/ Crash(w)
      PROVE  ImportInv'
  <2> DEFINE rec == [serving[w] EXCEPT !.at = "imported"]
  <2>1. /\ people' = people /\ serving' = [serving EXCEPT ![w] = rec]
        /\ serving[w].at = "mark"
    BY <1>3 DEF MarkCommitted, Crash, Goto
  <2>2. serving[w] = [f \in Import5 |-> serving[w][f]]
    BY <2>1 DEF ImportInv, RowsDiffer, WithRows
  <2>3. rec.at = "imported" /\ rec.rows = serving[w].rows /\ rec = [f \in Import5 |-> rec[f]]
    BY <2>2 DEF Import5
  <2>4. QED
    BY <1>1, <2>1, <2>3, NothingReported
<1>4. ASSUME NEW w \in Workers,
             \/ StageUpload(w) \/ ReadPatch(w) \/ WritePatch(w)
             \/ \E s \in Sites \cup {Blank}, n \in Names : CreateUnit(w, s, n)
             \/ \E i \in DOMAIN units : CountMembers(w, i)
             \/ DeleteUnit(w)
      PROVE  ImportInv'
  <2>1. /\ people' = people
        /\ \E rec : rec.at \notin WithRows /\ serving' = [serving EXCEPT ![w] = rec]
    BY <1>4 DEF StageUpload, ReadPatch, WritePatch, CreateUnit, CountMembers, DeleteUnit,
                Done, Goto, WithRows
  <2>2. QED
    BY <1>1, <2>1, NothingReported
<1>5. ASSUME NEW w \in Workers, NEW i \in DOMAIN units, NEW s \in Sites \cup {Blank},
             NEW n \in Names, NEW hr \in BOOLEAN, UpdateUnit(w, i, s, n, hr)
      PROVE  ImportInv'
  <2>1. serving' = [serving EXCEPT ![w] = [at |-> "done"]]
    BY <1>5 DEF UpdateUnit, Done, Goto
  <2>2. PICK full : people' = [c \in Codes |-> IF people[c].unit = FullName(units[i])
                                 THEN [people[c] EXCEPT !.unit = full] ELSE people[c]]
    BY <1>5 DEF UpdateUnit
  <2>3. \A c \in Codes : /\ people'[c] = [f \in Person4 |-> people'[c][f]]
                         /\ people'[c].here = people[c].here
                         /\ people'[c].account = people[c].account
    BY <2>2 DEF ImportInv, DirectoryShape, Person4
  <2>4. StayOnFile
    BY <2>2, <2>3 DEF StayOnFile
  <2>5. QED
    BY <2>1, <2>4, NothingReported DEF WithRows
<1>6. ASSUME NEW w \in Workers, NEW c \in Codes, NEW n \in Usernames \cup {Blank},
             NEW u \in Names, CreatePersonnel(w, c, n, <<u>>)
      PROVE  ImportInv'
  <2>1. /\ serving' = [serving EXCEPT ![w] = [at |-> "done"]] /\ ~people[c].here
        /\ people' = [people EXCEPT ![c] = [NoPerson EXCEPT !.here = TRUE, !.unit = <<u>>,
                                                            !.account = n]]
    BY <1>6 DEF CreatePersonnel, Done, Goto, OnFile
  <2>2. /\ people' = [d \in Codes |-> people'[d]]
        /\ \A d \in Codes \ {c} : people'[d] = people[d]
        /\ people'[c] = [here |-> TRUE, unit |-> <<u>>, chain |-> NoChain, account |-> n]
    BY <2>1 DEF ImportInv, DirectoryShape, NoPerson
  <2>3. StayOnFile
    BY <2>1, <2>2 DEF StayOnFile, ImportInv, DirectoryShape, Person4
  <2>4. QED
    BY <2>1, <2>3, NothingReported DEF WithRows
<1>7. CASE (\E u \in Evaluators : Disable(u)) \/ UNCHANGED directoryVars
  <2>1. UNCHANGED <<people, serving>>
    BY <1>7 DEF Disable, directoryVars
  <2>2. QED
    BY <2>1 DEF ImportInv, DirectoryShape, NobodyImportedTwice, Reported, RowsDiffer, RowsOf
<1> QED BY <1>2, <1>3, <1>4, <1>5, <1>6, <1>7, InsertReports
        DEF DirectoryNext, ImportNext, UnitNext

\* However many requests import the same file, in the conversation or by hand,
\* and create the same persons meanwhile, each row is reported as created once
\* and is on file (commit_import, the unique columns of personnel and users).
THEOREM ImportsOnce ==
  ASSUME DirectoryAssumption PROVE DirectorySpec => []NobodyImportedTwice
<1>1. ImportInv /\ [DirectoryNext]_directoryVars => ImportInv'
  BY ImportStep
<1>2. ImportInv => NobodyImportedTwice
  BY DEF ImportInv
<1> QED BY <1>1, <1>2, InitImports, PTL DEF DirectorySpec

-----------------------------------------------------------------------------
(* The framework of the indicators.  Publish fails when a version has been *)
(* written since the active indicators were read, and holds off every      *)
(* other insertion until its own commit: what is inserted is what was      *)
(* read, and what was read is still so.                                    *)

ActiveWith(edit) == {i \in Indicators : (edit @@ indicators)[i] = "active"}

\* The transaction has inserted a version that it has yet to commit.
Inserts(w) ==
  \/ serving[w].at = "rebind"
  \/ serving[w].at = "open" /\ serving[w].seed # {}

\* The members a request is to publish are right, unless its version is taken.
UpToDate(w) ==
  /\ serving[w].at = "publish" =>
       /\ serving[w].version \in Nat /\ serving[w].version <= Len(frameworks) + 1
       /\ serving[w].version = Len(frameworks) + 1 => serving[w].members = ActiveWith(serving[w].edit)
  /\ serving[w].at = "rebind" => serving[w].members = ActiveWith(serving[w].edit)
  /\ serving[w].at = "open" /\ serving[w].seed # {} => serving[w].seed = Active

RulesInv ==
  /\ frameworks \in Seq(SUBSET Indicators)
  /\ serving = [w \in Workers |-> serving[w]]
  /\ \A v, w \in Workers : Inserts(v) /\ Inserts(w) => v = w
  /\ \A w \in Workers : UpToDate(w)

LEMMA InitRules == ScoringRulesAssumption /\ RulesInit => RulesInv
<1> SUFFICES ASSUME ScoringRulesAssumption, RulesInit PROVE RulesInv
  OBVIOUS
<1>1. frameworks \in Seq(SUBSET Indicators)
  <2>1. Installed \in SUBSET Indicators /\ {} \in SUBSET Indicators
    BY DEF ScoringRulesAssumption
  <2>2. \A S \in SUBSET Indicators : <<S>> \in Seq(SUBSET Indicators)
    OBVIOUS
  <2> QED BY <2>1, <2>2 DEF RulesInit
<1>2. serving = [w \in Workers |-> [at |-> "idle"]]
  BY DEF RulesInit, Unserved
<1>3. \A w \in Workers : serving[w].at = "idle"
  BY <1>2
<1> QED BY <1>1, <1>2, <1>3 DEF RulesInv, Inserts, UpToDate

\* A step of one request that leaves the versions and the indicators alone.
LEMMA NothingInserted ==
  ASSUME RulesInv, UNCHANGED <<frameworks, indicators>>,
         NEW w \in Workers, NEW rec, serving' = [serving EXCEPT ![w] = rec],
         \/ rec.at \notin {"publish", "rebind", "open"}
         \/ /\ rec.at = "publish" /\ rec.version = Len(frameworks) + 1
            /\ rec.members = ActiveWith(rec.edit)
         \/ /\ rec.at = "rebind" /\ rec.members = ActiveWith(rec.edit)
            /\ ~ \E v \in Workers : Inserts(v)
         \/ rec.at = "open" /\ rec.seed = {}
         \/ /\ rec.at = "open" /\ rec.seed = Active
            /\ ~ \E v \in Workers : Inserts(v)
  PROVE  RulesInv'
<1>1. /\ serving'[w] = rec /\ \A v \in Workers \ {w} : serving'[v] = serving[v]
      /\ serving' = [v \in Workers |-> serving'[v]]
  BY DEF RulesInv
<1>2. Active' = Active /\ \A e : ActiveWith(e)' = ActiveWith(e)
  BY DEF Active, ActiveWith
<1>3. Len(frameworks) + 1 \in Nat
  BY DEF RulesInv
<1>4. \A v \in Workers \ {w} : Inserts(v)' = Inserts(v)
  BY <1>1 DEF Inserts
<1>5. Inserts(w)' => ~ \E v \in Workers : Inserts(v)
  BY <1>1 DEF Inserts
<1>6. \A u, v \in Workers : Inserts(u)' /\ Inserts(v)' => u = v
  BY <1>4, <1>5 DEF RulesInv
<1>7. ASSUME NEW v \in Workers \ {w}
      PROVE  UpToDate(v)'
  <2>1. UpToDate(v)
    BY DEF RulesInv
  <2> QED BY <1>1, <1>2, <2>1 DEF UpToDate
<1>8. UpToDate(w)'
  BY <1>1, <1>2, <1>3 DEF UpToDate
<1> QED BY <1>1, <1>6, <1>7, <1>8 DEF RulesInv

\* Whoever inserts a version leaves the members read by others out of date.
LEMMA VersionInserted ==
  ASSUME RulesInv, NEW w \in Workers, \A v \in Workers : Inserts(v) => v = w,
         serving' = [serving EXCEPT ![w] = [at |-> "done"]],
         NEW members \in SUBSET Indicators, frameworks' = Append(frameworks, members)
  PROVE  RulesInv' /\ NewestFramework' = members
<1>1. /\ serving'[w].at = "done" /\ \A v \in Workers \ {w} : serving'[v] = serving[v]
      /\ serving' = [v \in Workers |-> serving'[v]]
  BY DEF RulesInv
<1>2. /\ frameworks' \in Seq(SUBSET Indicators) /\ Len(frameworks) \in Nat
      /\ Len(frameworks') = Len(frameworks) + 1 /\ frameworks'[Len(frameworks')] = members
  BY DEF RulesInv
<1>3. \A v \in Workers : ~Inserts(v)'
  BY <1>1 DEF Inserts
<1>4. ASSUME NEW v \in Workers \ {w}
      PROVE  UpToDate(v)'
  <2>1. UpToDate(v) /\ ~Inserts(v)
    BY DEF RulesInv
  <2> QED BY <1>1, <1>2, <2>1 DEF UpToDate, Inserts
<1>5. UpToDate(w)'
  BY <1>1 DEF UpToDate
<1> QED BY <1>1, <1>2, <1>3, <1>4, <1>5 DEF RulesInv, NewestFramework

LEMMA RulesStep ==
  ASSUME RulesInv, [RulesNext]_rulesVars PROVE RulesInv' /\ [NewestFollows]_rulesVars
<1>1. UNCHANGED <<frameworks, indicators>> => [NewestFollows]_rulesVars
  BY DEF NewestFollows, Active
<1>2. Inserting <=> \E v \in Workers : Inserts(v)
  BY DEF Inserting, Inserts
<1>3. ASSUME NEW w \in Workers, SchemeNext(w)
      PROVE  RulesInv' /\ [NewestFollows]_rulesVars
  <2>1. /\ UNCHANGED <<frameworks, indicators>>
        /\ \E rec : rec.at \notin {"publish", "rebind", "open"} /\ serving' = [serving EXCEPT ![w] = rec]
    <3>1. CASE \E u \in People : CreateScheme(w, u)
      BY <3>1 DEF CreateScheme, Done, Goto
    <3>2. CASE \E u \in People, v \in Versions, then \in {"previous", "delete"} : ReadDraft(w, u, v, then)
      BY <3>2 DEF ReadDraft, Goto
    <3>3. CASE ReadPrevious(w)
      BY <3>3 DEF ReadPrevious, Goto
    <3>4. CASE Activate(w)
      BY <3>4 DEF Activate, Done, Goto
    <3>5. CASE DeleteDraft(w)
      BY <3>5 DEF DeleteDraft, Done, Goto
    <3> QED BY <1>3, <3>1, <3>2, <3>3, <3>4, <3>5 DEF SchemeNext
  <2> QED BY <1>1, <2>1, NothingInserted
<1>4. ASSUME NEW w \in Workers, EditIndicators(w)
      PROVE  RulesInv' /\ [NewestFollows]_rulesVars
  <2>1. UNCHANGED <<frameworks, indicators>>
    BY <1>4 DEF EditIndicators
  <2>2. PICK e : serving' = [serving EXCEPT ![w] = [at |-> "publish", edit |-> e,
                   version |-> Len(frameworks) + 1, members |-> ActiveWith(e)]]
    BY <1>4 DEF EditIndicators, Goto, ActiveWith
  <2>3. RulesInv'
    BY <2>1, <2>2, NothingInserted
  <2> QED BY <1>1, <2>1, <2>3
<1>5. ASSUME NEW w \in Workers, Publish(w)
      PROVE  RulesInv' /\ [NewestFollows]_rulesVars
  <2>1. /\ UNCHANGED <<frameworks, indicators>> /\ serving[w].at = "publish"
        /\ ~ \E v \in Workers : Inserts(v)
    BY <1>2, <1>5 DEF Publish
  <2>2. CASE FreshVersion(serving[w].version)
    <3> DEFINE rec == [at |-> "rebind", edit |-> serving[w].edit, members |-> serving[w].members,
                       moving |-> {f \in Forms : forms[f].open /\ Untouched(f)}]
    <3>1. serving' = [serving EXCEPT ![w] = rec]
      BY <1>5, <2>2 DEF Publish, Goto
    <3>2. rec.at = "rebind" /\ rec.members = ActiveWith(rec.edit)
      <4>1. UpToDate(w) /\ Len(frameworks) \in Nat
        BY DEF RulesInv
      <4>2. serving[w].version = Len(frameworks) + 1
        BY <2>1, <2>2, <4>1 DEF UpToDate, FreshVersion
      <4>3. serving[w].members = ActiveWith(serving[w].edit)
        BY <2>1, <4>1, <4>2 DEF UpToDate
      <4> QED BY <4>3
    <3> HIDE DEF rec
    <3>3. RulesInv'
      BY <2>1, <3>1, <3>2, NothingInserted
    <3> QED BY <1>1, <2>1, <3>3
  <2>3. CASE ~FreshVersion(serving[w].version)
    <3>1. serving' = [serving EXCEPT ![w] = [at |-> "done"]]
      BY <1>5, <2>3 DEF Publish, Done, Goto
    <3>2. RulesInv'
      BY <2>1, <3>1, NothingInserted
    <3> QED BY <1>1, <2>1, <3>2
  <2> QED BY <2>2, <2>3
<1>6. ASSUME NEW w \in Workers, Rebind(w)
      PROVE  RulesInv' /\ [NewestFollows]_rulesVars
  <2> DEFINE members == serving[w].members
  <2>1. /\ Inserts(w) /\ indicators' = serving[w].edit @@ indicators
        /\ frameworks' = Append(frameworks, members)
        /\ serving' = [serving EXCEPT ![w] = [at |-> "done"]]
    BY <1>6 DEF Rebind, Inserts, Done, Goto
  <2>2. members = ActiveWith(serving[w].edit)
    BY <1>6 DEF Rebind, RulesInv, UpToDate
  <2>3. members = Active' /\ members \in SUBSET Indicators
    BY <2>1, <2>2 DEF ActiveWith, Active
  <2>4. RulesInv' /\ NewestFramework' = members
    BY <2>1, <2>3, VersionInserted DEF RulesInv
  <2> QED BY <2>3, <2>4 DEF NewestFollows
<1>7. ASSUME NEW w \in Workers, SeedFramework(w)
      PROVE  RulesInv' /\ [NewestFollows]_rulesVars
  <2>1. /\ ~ \E v \in Workers : Inserts(v)
        /\ indicators' = indicators /\ frameworks' = Append(frameworks, Active)
        /\ serving' = [serving EXCEPT ![w] = [at |-> "done"]]
    BY <1>2, <1>7 DEF SeedFramework, Done, Goto
  <2>2. Active' = Active /\ Active \in SUBSET Indicators
    BY <2>1 DEF Active
  <2>3. RulesInv' /\ NewestFramework' = Active
    BY <2>1, <2>2, VersionInserted
  <2> QED BY <2>2, <2>3 DEF NewestFollows
<1>8. ASSUME NEW w \in Workers, NEW f \in Forms, ReadRules(w, f)
      PROVE  RulesInv' /\ [NewestFollows]_rulesVars
  <2> DEFINE behind == NewestFramework # Active
             rec == [at |-> "open", form |-> f, scheme |-> ActiveScheme,
                     framework |-> Len(frameworks) + (IF behind THEN 1 ELSE 0),
                     seed |-> IF behind THEN Active ELSE {}]
  <2>1. /\ UNCHANGED <<frameworks, indicators>> /\ serving' = [serving EXCEPT ![w] = rec]
        /\ behind => ~ \E v \in Workers : Inserts(v)
    BY <1>2, <1>8 DEF ReadRules, Goto
  <2>2. rec.at = "open" /\ rec.seed = IF behind THEN Active ELSE {}
    OBVIOUS
  <2> HIDE DEF rec
  <2>3. RulesInv'
    BY <2>1, <2>2, NothingInserted
  <2> QED BY <1>1, <2>1, <2>3
<1>9. ASSUME NEW w \in Workers, OpenForm(w)
      PROVE  RulesInv' /\ [NewestFollows]_rulesVars
  <2>1. /\ indicators' = indicators /\ serving[w].at = "open"
        /\ serving' = [serving EXCEPT ![w] = [at |-> "done"]]
        /\ \/ frameworks' = frameworks
           \/ serving[w].seed # {} /\ frameworks' = Append(frameworks, serving[w].seed)
    BY <1>9 DEF OpenForm, Done, Goto
  <2>2. CASE frameworks' = frameworks
    BY <1>1, <2>1, <2>2, NothingInserted
  <2>3. CASE serving[w].seed # {} /\ frameworks' = Append(frameworks, serving[w].seed)
    <3>1. Inserts(w) /\ serving[w].seed = Active
      BY <2>1, <2>3 DEF Inserts, RulesInv, UpToDate
    <3>2. Active' = Active /\ Active \in SUBSET Indicators
      BY <2>1 DEF Active
    <3>3. RulesInv' /\ NewestFramework' = Active
      BY <2>1, <2>3, <3>1, <3>2, VersionInserted DEF RulesInv
    <3> QED BY <3>2, <3>3 DEF NewestFollows
  <2> QED BY <2>1, <2>2, <2>3
<1>10. CASE \/ UNCHANGED rulesVars
            \/ \E f \in Forms : \/ \E S \in SUBSET Indicators : Score(f, S)
                               \/ SelfAssess(f) \/ Submit(f) \/ Return(f)
  <2>1. UNCHANGED <<frameworks, indicators, serving>>
    BY <1>10 DEF rulesVars, Score, SelfAssess, Submit, Return
  <2>2. Active' = Active /\ \A e : ActiveWith(e)' = ActiveWith(e)
    BY <2>1 DEF Active, ActiveWith
  <2>3. \A v \in Workers : Inserts(v)' = Inserts(v) /\ UpToDate(v)' = UpToDate(v)
    BY <2>1, <2>2 DEF Inserts, UpToDate
  <2>4. RulesInv'
    BY <2>1, <2>3 DEF RulesInv
  <2> QED BY <1>1, <2>1, <2>4
<1> QED BY <1>3, <1>4, <1>5, <1>6, <1>7, <1>8, <1>9, <1>10
        DEF RulesNext, FrameworkNext, FormNext

\* Whoever edits the indicators, and however many at once, each version that is
\* written lists exactly the indicators that are active when it is, and no
\* indicator changes without one (indicator_framework.bump, ensure_framework).
THEOREM NewestListsTheActive ==
  ASSUME ScoringRulesAssumption PROVE RulesSpec => NewestIsActiveSet
<1>1. RulesInv /\ [RulesNext]_rulesVars => RulesInv' /\ [NewestFollows]_rulesVars
  BY RulesStep
<1> QED BY <1>1, InitRules, PTL DEF RulesSpec, NewestIsActiveSet

-----------------------------------------------------------------------------
(* The reminders.  A stage that has stalled is as old as anybody asks, and *)
(* a reminder that silences a new one is no older: it is one of this visit.*)

RemindersInv ==
  /\ stage \in CourseStages
  /\ seat \in [ChainSeats -> Recipients \cup {EmptySeat}] /\ seat["ceo"] # EmptySeat
  /\ stageAge \in Nat
  /\ age \in [Recipients -> [Keys -> Nat]]

LEMMA YoungerIsNat ==
  ASSUME NEW n \in Nat, NEW limit \in Nat PROVE Older(n, limit) \in Nat
<1>1. PICK m \in {n + 1, limit} : \A y \in {n + 1, limit} : m <= y
  <2>1. n + 1 <= limit \/ limit <= n + 1
    OBVIOUS
  <2> QED BY <2>1
<1>2. Older(n, limit) \in {n + 1, limit}
  BY <1>1 DEF Older, Min
<1> QED BY <1>2

LEMMA ForgottenIsNat == ReminderAssumption => Forgotten \in Nat
<1> SUFFICES ASSUME ReminderAssumption PROVE Forgotten \in Nat
  OBVIOUS
<1>1. Patience \in Nat /\ DedupWindow \in Nat
  BY DEF ReminderAssumption
<1>2. PICK m \in {Patience, DedupWindow} : \A y \in {Patience, DedupWindow} : m >= y
  BY <1>1
<1>3. Max({Patience, DedupWindow}) \in {Patience, DedupWindow}
  BY <1>2 DEF Max
<1> QED BY <1>1, <1>3 DEF Forgotten

LEMMA InitReminders == ReminderAssumption /\ RemindersInit => RemindersInv
<1> SUFFICES ASSUME ReminderAssumption, RemindersInit PROVE RemindersInv
  OBVIOUS
<1>1. Forgotten \in Nat
  BY ForgottenIsNat
<1>2. age \in [Recipients -> [Keys -> Nat]]
  BY <1>1 DEF RemindersInit
<1>3. /\ stage \in CourseStages /\ seat \in [ChainSeats -> Recipients \cup {EmptySeat}]
      /\ seat["ceo"] # EmptySeat
  BY DEF RemindersInit, ReminderAssumption
<1> QED BY <1>2, <1>3 DEF RemindersInv, RemindersInit

\* Whoever has to act is an account.
LEMMA OwnersAreAccounts ==
  ASSUME ReminderAssumption, RemindersInv PROVE Owners \subseteq Recipients
<1>1. \A s \in ChainSeats : seat[s] # EmptySeat => seat[s] \in Recipients
  BY DEF RemindersInv
<1>2. /\ seat.supervisor # EmptySeat => seat.supervisor \in Recipients
      /\ seat.deputy # EmptySeat => seat.deputy \in Recipients
      /\ seat.ceo \in Recipients
  BY <1>1 DEF ChainSeats, RemindersInv
<1>3. Scorer \in Recipients /\ AfterHr \in Recipients
  BY <1>2 DEF Scorer, AfterHr
<1>4. ActiveHr \subseteq Recipients
  BY DEF ActiveHr, ReminderAssumption
<1> QED BY <1>2, <1>3, <1>4 DEF Owners, RemindersInv, CourseStages

LEMMA StallsAreHeard ==
  ASSUME ReminderAssumption, RemindersInv PROVE OwnersAreTold
<1> SUFFICES ASSUME Run, Stalled, NEW a \in Owners
             PROVE  \/ <<a, <<"sla", stage>>>> \in draft'
                    \/ age[a][<<"sla", stage>>] <= stageAge
  BY DEF OwnersAreTold
<1> DEFINE key == <<"sla", stage>>
<1>1. a \in Recipients /\ key \in Keys
  BY OwnersAreAccounts DEF Keys, Stalled, EvaluationOpen, RemindersInv
<1>2. age[a][key] \in Nat /\ stageAge \in Nat /\ Patience \in Nat /\ Patience <= stageAge
  BY <1>1 DEF RemindersInv, ReminderAssumption, Stalled
<1>3. AlreadyNotified(a, key) => age[a][key] <= Patience
  BY DEF AlreadyNotified, WindowOf
<1>4. ~AlreadyNotified(a, key) => <<a, key>> \in draft'
  BY DEF Run, StallSweep, Once
<1> QED BY <1>2, <1>3, <1>4

LEMMA RemindersStep ==
  ASSUME ReminderAssumption, RemindersInv, [RemindersNext]_remindersVars PROVE RemindersInv'
<1>1. ASSUME NEW told, age' = Told(told), UNCHANGED <<stage, seat, stageAge>>
      PROVE  RemindersInv'
  BY <1>1 DEF RemindersInv, Told
<1>2. CASE Run \/ CommitRun \/ RunFails
  BY <1>1, <1>2 DEF Run, CommitRun, RunFails, world, RemindersInv
<1>3. ASSUME NEW to \in CourseStages, Move(to)
      PROVE  RemindersInv'
  BY <1>3 DEF Move, RemindersInv
<1>4. ASSUME NEW role \in DOMAIN seat, NEW a \in Recipients, Reassign(role, a)
      PROVE  RemindersInv'
  <2>1. a # EmptySeat /\ role \in ChainSeats
    BY <1>4 DEF ReminderAssumption, RemindersInv
  <2> QED BY <1>4, <2>1 DEF Reassign, RemindersInv
<1>5. ASSUME NEW a \in Recipients, Leave(a)
      PROVE  RemindersInv'
  BY <1>1, <1>5 DEF Leave
<1>6. ASSUME NEW a \in Recipients, ReplyInDigest(a)
      PROVE  RemindersInv'
  BY <1>6 DEF ReplyInDigest, world, RemindersInv
<1>7. CASE (\E days \in Reviews : Postpone(days)) \/ ClosePlan \/ UNCHANGED remindersVars
  BY <1>7 DEF Postpone, ClosePlan, remindersVars, RemindersInv
<1>8. CASE NextDay
  <2>1. Patience \in Nat /\ Forgotten \in Nat
    BY ForgottenIsNat DEF ReminderAssumption
  <2>2. stageAge' \in Nat
    BY <1>8, <2>1, YoungerIsNat DEF NextDay, RemindersInv
  <2>3. \A a \in Recipients, k \in Keys : Older(age[a][k], Forgotten) \in Nat
    BY <2>1, YoungerIsNat DEF RemindersInv
  <2>4. age' \in [Recipients -> [Keys -> Nat]]
    BY <1>8, <2>3 DEF NextDay
  <2> QED BY <1>8, <2>2, <2>4 DEF NextDay, RemindersInv
<1> QED BY <1>2, <1>3, <1>4, <1>5, <1>6, <1>7, <1>8 DEF RemindersNext

\* However often a stage is sent back and comes again, whoever has to act on it
\* is reminded when it has stalled, and only a reminder of this visit stands in
\* for a new one (run_sla_sweep, already_notified).
THEOREM StallsAreNeverSilenced ==
  ASSUME ReminderAssumption PROVE RemindersSpec => EveryStallIsHeard
<1>1. RemindersInv /\ [RemindersNext]_remindersVars => RemindersInv' /\ [OwnersAreTold]_remindersVars
  BY RemindersStep, StallsAreHeard
<1> QED BY <1>1, InitReminders, PTL DEF RemindersSpec, EveryStallIsHeard

=============================================================================
