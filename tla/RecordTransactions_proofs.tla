--------------------- MODULE RecordTransactions_proofs ---------------------
(***************************************************************************)
(* Whatever requests race on the evaluation records, and whichever of them *)
(* die: a person has one open record, what is closed stays closed, the     *)
(* audit log is a chain, and a bulk request answers what it did.           *)
(*                                                                         *)
(* The argument has four parts, one for each guard of the database.  The   *)
(* index: what is inserted and not committed is the only row of its person *)
(* and shares it with no open one.  The row locks: what is held is open,   *)
(* and by one request.  The lock of the chain: who is between log_event    *)
(* and its commit holds it, and the log has not grown since.  The rollback:*)
(* a request has rows on disk only when it is over, and uncommitted ones   *)
(* only before.                                                            *)
(***************************************************************************)
EXTENDS RecordTransactions, TLAPS, FiniteSetTheorems

Statuses == {"none", "open", "finalized", "cancelled"}

Outcomes == {"none", "skipped", "blocked", "planned", "created", "conflict"}

\* Nothing of the request is left to commit.
Over == Finished \cup {"announce"}

Stages == Over \cup {"read", "plan", "insert", "log", "find", "lock", "check", "commit"}

TransactionsTypeOK ==
    /\ record \in [Rows -> Statuses]
    /\ pc \in [Requests -> Stages]
    /\ DOMAIN inserted = Requests
    /\ wants \in [Requests -> Rows \cup {Nothing}]
    /\ target \in [Requests -> Rows \cup {Nothing}]
    /\ prev \in [Requests -> Nat]
    /\ chainLock \in Requests \cup {Nothing}
    /\ log \in Seq([by : Requests, prev : Nat])
    /\ report \in [Requests -> [People -> Outcomes]]

\* The index: an open row, or one that may become open, is the only one of
\* its person.
KeyInv ==
    /\ \A row1, row2 \in Rows :
          record[row1] = "open" /\ record[row2] = "open" /\ Of(row1) = Of(row2) => row1 = row2
    /\ \A t \in Requests : \A row \in inserted[t] : row = <<t, Of(row)>> /\ OpenFor(Of(row)) = {}
    /\ \A s, t \in Requests :
          s # t => \A row1 \in inserted[s], row2 \in inserted[t] : Of(row1) # Of(row2)

\* The rollback: on disk when it is over, uncommitted only while it works.
OwnInv ==
    /\ \A t \in Requests, p \in People : record[<<t, p>>] # "none" => pc[t] \in Over
    /\ \A t \in Requests : inserted[t] # {} => pc[t] \notin Over \cup {"read", "plan"}

\* The row locks.
LockInv ==
    /\ \A t \in Requests : target[t] # Nothing => record[target[t]] = "open"
    /\ \A s, t \in Requests : s # t /\ target[s] # Nothing => target[s] # target[t]

\* Between log_event and the commit.
Holding(t) == pc[t] = "commit" \/ (KindOf[t] = "depart" /\ pc[t] \in {"find", "lock"})

ChainInv ==
    /\ \A t \in Requests : Holding(t) => chainLock = t /\ prev[t] = Len(log)
    /\ ChainIsLinear

ReportInv ==
    /\ \A t \in Requests : pc[t] \notin Over =>
          \A p \in People : report[t][p] = "created" <=> <<t, p>> \in inserted[t]
    /\ BulkReportIsTrue

TransactionsInv ==
    TransactionsTypeOK /\ KeyInv /\ OwnInv /\ LockInv /\ ChainInv /\ ReportInv

----------------------------------------------------------------------------
(* The steps, by what they do to the rows, the locks and the log.          *)

others == <<record, log, inserted, prev, chainLock, report>>

\* Refused, aborted or dead: everything it held is given back.
Abandons(t) ==
    \E how \in {"refused", "deadlock", "crashed"} : Rollback(t, how) /\ UNCHANGED report

\* It goes to its next statement.
Moves(t) ==
    \E stage \in Stages :
        /\ <<pc[t], stage>> \in {<<"read", "plan">>, <<"read", "log">>, <<"insert", "log">>,
                                 <<"check", "log">>, <<"find", "lock">>, <<"find", "commit">>,
                                 <<"announce", "done">>}
        /\ pc[t] = "find" => KindOf[t] = "depart"
        /\ stage = "plan" => KindOf[t] \in {"create", "bulk"}
        /\ Goto(t, stage)
        /\ \/ stage # "lock" /\ UNCHANGED wants
           \/ \E row \in Rows : wants' = [wants EXCEPT ![t] = row]
        /\ UNCHANGED <<others, target>>

\* It plans, without a record of its own yet.
Plans(t) ==
    /\ pc[t] = "plan" /\ Goto(t, "insert")
    /\ report' = [report EXCEPT ![t] = [p \in People |-> Planned(t, p)]]
    /\ UNCHANGED <<record, log, inserted, prev, chainLock, wants, target>>

\* It inserts a row for somebody whose record nobody else touches ...
Inserts(t, p) ==
    /\ pc[t] = "insert" /\ InsertWaitsFor(t, p) = {} /\ OpenFor(p) = {}
    /\ inserted' = [inserted EXCEPT ![t] = @ \cup {<<t, p>>}]
    /\ report' = [report EXCEPT ![t][p] = "created"]
    /\ UNCHANGED <<record, log, pc, prev, chainLock, wants, target>>

\* ... or finds an open one.
Conflicts(t, p) ==
    /\ pc[t] = "insert" /\ OpenFor(p) # {}
    /\ report' = [report EXCEPT ![t][p] = "conflict"]
    /\ UNCHANGED <<record, log, pc, inserted, prev, chainLock, wants, target>>

\* It locks a row nobody has locked.
LocksRow(t) ==
    /\ pc[t] = "lock" /\ LockedBy(wants[t]) = {}
    /\ target' = [target EXCEPT ![t] = IF record[wants[t]] = "open" THEN wants[t] ELSE Nothing]
    /\ \/ KindOf[t] = "depart" /\ Goto(t, "commit")
       \/ KindOf[t] = "finalize" /\ Goto(t, "log")
    /\ UNCHANGED <<others, wants>>

\* Every step of a request is one of these, a Log or a Commit.
LEMMA StepsOfRequests ==
    ASSUME TransactionsTypeOK, NEW t \in Requests, Statement(t) \/ Crash(t)
    PROVE  \/ Abandons(t) \/ Moves(t) \/ Plans(t) \/ LocksRow(t) \/ Log(t) \/ Commit(t)
           \/ \E p : Inserts(t, p) \/ Conflicts(t, p)
<1> USE DEF Goto, tables, others
<1>1. CASE ReadPeople(t)
  BY <1>1 DEF ReadPeople, Refuse, Abandons, Moves, TransactionsTypeOK, Stages
<1>2. CASE ReadOpen(t)
  BY <1>2 DEF ReadOpen, Refuse, Abandons, Plans
<1>3. CASE Insert(t)
  <2> DEFINE p == Head(todo[t])
  <2>1. pc[t] = "insert" /\ InsertWaitsFor(t, p) = {}
    BY <1>3 DEF Insert
  <2> HIDE DEF p
  <2>2. \/ Inserts(t, p) \/ Conflicts(t, p) \/ Refuse(t)
    BY <1>3, <2>1 DEF p, Insert, Inserts, Conflicts, Collides, AfterConflict
  <2> QED BY <2>2 DEF Refuse, Abandons
<1>4. CASE InsertedAll(t)
  BY <1>4 DEF InsertedAll, Moves, TransactionsTypeOK, Stages
<1>5. CASE Announce(t)
  BY <1>5 DEF Announce, Moves, TransactionsTypeOK, Stages, Over, Finished
<1>6. CASE ReadLeaver(t)
  BY <1>6 DEF ReadLeaver, Refuse, Abandons, Moves, TransactionsTypeOK, Stages
<1>7. CASE FindOpenRecord(t)
  <2>1. CASE OpenFor(Person(t)) = {}
    BY <1>7, <2>1 DEF FindOpenRecord, Moves, TransactionsTypeOK, Stages
  <2>2. CASE OpenFor(Person(t)) # {}
    BY <1>7, <2>2 DEF FindOpenRecord, Moves, OpenFor, Stages
  <2> QED BY <2>1, <2>2
<1>8. CASE LockToCancel(t)
  BY <1>8 DEF LockToCancel, LocksRow, StillOpen
<1>9. CASE LockToFinalize(t)
  BY <1>9 DEF LockToFinalize, LocksRow, StillOpen, Refuse, Abandons
<1>10. CASE CheckSeats(t)
  BY <1>10 DEF CheckSeats, Refuse, Abandons, Moves, TransactionsTypeOK, Stages
<1>11. CASE AbortDeadlock(t)
  BY <1>11 DEF AbortDeadlock, Abandons
<1>12. CASE Crash(t)
  BY <1>12 DEF Crash, Abandons
<1> QED
  BY <1>1, <1>2, <1>3, <1>4, <1>5, <1>6, <1>7, <1>8, <1>9, <1>10, <1>11, <1>12 DEF Statement

----------------------------------------------------------------------------
(* Types.                                                                  *)

\* The person a departure or a finalization is about.
LEMMA PersonIsOne ==
    ASSUME NEW t \in Requests, KindOf[t] \in {"create", "depart", "finalize"}
    PROVE  Person(t) \in People
<1>1. Cardinality(PeopleOf[t]) = 1 /\ PeopleOf[t] \subseteq People
  BY RequestsAssumption
<1>2. PeopleOf[t] # {}
  BY <1>1, FS_EmptySet
<1> QED BY <1>1, <1>2 DEF Person

LEMMA InitTransactions == Init => TransactionsInv
<1> SUFFICES ASSUME Init PROVE TransactionsInv
  OBVIOUS
<1> USE RequestsAssumption DEF Init
<1>1. PICK made \in Mixes :
        pc = [t \in Requests |-> IF t \in made THEN First(KindOf[t]) ELSE "unmade"]
  OBVIOUS
<1>2. \A t \in Requests : pc[t] \in {"unmade", "lock", "check", "read"}
                          /\ (pc[t] = "lock" => KindOf[t] = "finalize")
  BY <1>1 DEF First, Kinds
<1>3. TransactionsTypeOK
  <2>1. record \in [Rows -> Statuses]
    BY DEF Statuses
  <2>2. pc \in [Requests -> Stages]
    BY <1>1, <1>2 DEF Stages, Over, Finished
  <2>3. wants \in [Requests -> Rows \cup {Nothing}]
    BY PersonIsOne DEF Rows
  <2>4. log \in Seq([by : Requests, prev : Nat])
    OBVIOUS
  <2>5. report \in [Requests -> [People -> Outcomes]]
    BY DEF Outcomes
  <2> QED BY <2>1, <2>2, <2>3, <2>4, <2>5 DEF TransactionsTypeOK
<1>4. KeyInv
  <2>1. \A row \in Rows : record[row] = "open" => row = <<Old, Of(row)>>
    BY DEF Rows, Of
  <2> QED BY <2>1 DEF KeyInv
<1>5. OwnInv
  BY <1>2 DEF OwnInv, Rows, Over, Finished
<1>6. LockInv
  BY DEF LockInv
<1>7. ChainInv
  <2>1. \A t \in Requests : ~Holding(t)
    BY <1>2 DEF Holding
  <2>2. ChainIsLinear
    BY DEF ChainIsLinear
  <2> QED BY <2>1, <2>2 DEF ChainInv
<1>8. ReportInv
  BY <1>2 DEF ReportInv, BulkReportIsTrue
<1> QED BY <1>3, <1>4, <1>5, <1>6, <1>7, <1>8 DEF TransactionsInv

\* No statement leaves the types.
LEMMA TypesStep == TransactionsTypeOK /\ [Next]_vars => TransactionsTypeOK'
<1> SUFFICES ASSUME TransactionsTypeOK, [Next]_vars PROVE TransactionsTypeOK'
  OBVIOUS
<1> USE DEF TransactionsTypeOK
<1>1. CASE UNCHANGED vars
  BY <1>1 DEF vars
<1> SUFFICES ASSUME NEW t \in Requests, Statement(t) \/ Crash(t) PROVE TransactionsTypeOK'
  BY <1>1 DEF Next
<1>2. CASE Abandons(t)
  BY <1>2 DEF Abandons, Rollback, Release, ChainReleased, tables, Stages, Over, Finished
<1>3. CASE Moves(t)
  BY <1>3 DEF Moves, Goto, others
<1>4. CASE Plans(t)
  <2>1. \A p \in People : Planned(t, p) \in Outcomes
    BY DEF Planned, Outcomes
  <2> QED BY <1>4, <2>1 DEF Plans, Goto, Stages
<1>5. CASE LocksRow(t)
  BY <1>5 DEF LocksRow, Goto, Stages, others
<1>6. CASE Log(t)
  BY <1>6 DEF Log, Goto, AfterLog, Stages, tables
<1>7. CASE Commit(t)
  <2>1. record' \in [Rows -> Statuses]
    BY <1>7 DEF Commit, Closed, Statuses
  <2>2. log' \in Seq([by : Requests, prev : Nat])
    BY <1>7 DEF Commit
  <2> QED BY <1>7, <2>1, <2>2 DEF Commit, Goto, Release, ChainReleased, Stages, Over, Finished
<1>8. ASSUME NEW p, Inserts(t, p) PROVE TransactionsTypeOK'
  BY <1>8 DEF Inserts, Outcomes
<1>9. ASSUME NEW p, Conflicts(t, p) PROVE TransactionsTypeOK'
  BY <1>9 DEF Conflicts, Outcomes
<1> QED
  BY StepsOfRequests, <1>2, <1>3, <1>4, <1>5, <1>6, <1>7, <1>8, <1>9

----------------------------------------------------------------------------
(* The index and the rollback.                                             *)

LEMMA OwnStep ==
    ASSUME TransactionsInv, TransactionsTypeOK', [Next]_vars
    PROVE  OwnInv'
<1> USE DEF TransactionsInv, OwnInv, TransactionsTypeOK
<1>1. CASE UNCHANGED vars
  BY <1>1 DEF vars
<1> SUFFICES ASSUME NEW t \in Requests, Statement(t) \/ Crash(t) PROVE OwnInv'
  BY <1>1 DEF Next
<1>2. CASE Abandons(t)
  BY <1>2 DEF Abandons, Rollback, Release, tables, Over, Finished
<1>3. CASE Moves(t)
  BY <1>3 DEF Moves, Goto, others, Over, Finished
<1>4. CASE Plans(t)
  BY <1>4 DEF Plans, Goto, Over, Finished
<1>5. CASE LocksRow(t)
  BY <1>5 DEF LocksRow, Goto, others, Over, Finished
<1>6. CASE Log(t)
  BY <1>6 DEF Log, Goto, AfterLog, tables, Over, Finished
<1>7. CASE Commit(t)
  <2>1. \A s \in Requests, p \in People : s # t => <<s, p>> \notin inserted[t]
    BY DEF KeyInv, Of
  <2>2. \A row \in Closing(t) : record[row] # "none"
    BY DEF Closing, LockInv
  <2>3. \A s \in Requests, p \in People :
          s # t /\ record'[<<s, p>>] # "none" => record[<<s, p>>] # "none"
    BY <1>7, <2>1, <2>2 DEF Commit, Rows
  <2>4. /\ inserted' = [inserted EXCEPT ![t] = {}]
        /\ pc' = [pc EXCEPT ![t] = IF KindOf[t] = "bulk" THEN "announce" ELSE "done"]
    BY <1>7 DEF Commit, Goto, Release
  <2>5. pc'[t] \in Over
    BY <2>4 DEF Over, Finished
  <2> QED BY <2>3, <2>4, <2>5
<1>8. ASSUME NEW p, Inserts(t, p) PROVE OwnInv'
  BY <1>8 DEF Inserts, Over, Finished
<1>9. ASSUME NEW p, Conflicts(t, p) PROVE OwnInv'
  BY <1>9 DEF Conflicts
<1> QED
  BY StepsOfRequests, <1>2, <1>3, <1>4, <1>5, <1>6, <1>7, <1>8, <1>9

\* The insertion waited for everybody who touches a record of the person and
\* then found none open: the row it adds is the only one.
LEMMA KeyStep ==
    ASSUME TransactionsInv, TransactionsTypeOK', [Next]_vars
    PROVE  KeyInv'
<1> USE DEF TransactionsInv, KeyInv, TransactionsTypeOK
<1>1. CASE UNCHANGED vars
  BY <1>1 DEF vars, OpenFor
<1> SUFFICES ASSUME NEW t \in Requests, Statement(t) \/ Crash(t) PROVE KeyInv'
  BY <1>1 DEF Next
<1>2. ASSUME UNCHANGED record,
             \A s \in Requests : inserted'[s] \subseteq inserted[s]
      PROVE  KeyInv'
  BY <1>2 DEF OpenFor
<1>3. CASE Abandons(t)
  BY <1>2, <1>3 DEF Abandons, Rollback, Release, tables
<1>4. CASE Moves(t) \/ Plans(t) \/ LocksRow(t) \/ Log(t)
  BY <1>2, <1>4 DEF Moves, Plans, LocksRow, Log, others, tables
<1>5. CASE Commit(t)
  <2>1. /\ record' = [row \in Rows |-> IF row \in inserted[t] THEN "open"
                                       ELSE IF row \in Closing(t) THEN Closed(t)
                                       ELSE record[row]]
        /\ inserted' = [inserted EXCEPT ![t] = {}]
    BY <1>5 DEF Commit, Release
  <2>2. \A row \in Rows : record'[row] = "open" => row \in inserted[t] \/ record[row] = "open"
    BY <2>1 DEF Closed
  <2>3. \A row1, row2 \in Rows :
          record'[row1] = "open" /\ record'[row2] = "open" /\ Of(row1) = Of(row2) => row1 = row2
    <3> SUFFICES ASSUME NEW row1 \in Rows, NEW row2 \in Rows, record'[row1] = "open",
                        record'[row2] = "open", Of(row1) = Of(row2)
                 PROVE  row1 = row2
      OBVIOUS
    <3>1. CASE row1 \in inserted[t]
      <4>1. record[row2] # "open"
        BY <3>1 DEF OpenFor
      <4>2. row2 \in inserted[t]
        BY <2>2, <4>1
      <4>3. row1 = <<t, Of(row1)>> /\ row2 = <<t, Of(row2)>>
        BY <3>1, <4>2
      <4> QED BY <4>3
    <3>2. CASE row1 \notin inserted[t]
      <4>1. record[row1] = "open"
        BY <2>2, <3>2
      <4>2. row2 \notin inserted[t]
        BY <4>1 DEF OpenFor
      <4> QED BY <2>2, <4>1, <4>2
    <3> QED BY <3>1, <3>2
  <2>4. \A s \in Requests : \A row \in inserted'[s] : OpenFor(Of(row))' = {}
    <3> SUFFICES ASSUME NEW s \in Requests, NEW row \in inserted'[s],
                        NEW row1 \in Rows, record'[row1] = "open", Of(row1) = Of(row)
                 PROVE  FALSE
      BY DEF OpenFor
    <3>1. s # t /\ row \in inserted[s]
      BY <2>1
    <3>2. row1 \in inserted[t] \/ record[row1] = "open"
      BY <2>2
    <3> QED BY <3>1, <3>2 DEF OpenFor
  <2> QED BY <2>1, <2>3, <2>4
<1>6. ASSUME NEW p, Inserts(t, p) PROVE KeyInv'
  <2>1. \A s \in Requests \ {t} : \A row \in inserted[s] : Of(row) # p
    BY <1>6 DEF Inserts, InsertWaitsFor
  <2>2. Of(<<t, p>>) = p
    BY DEF Of
  <2>3. UNCHANGED record /\ inserted' = [inserted EXCEPT ![t] = @ \cup {<<t, p>>}] /\ OpenFor(p) = {}
    BY <1>6 DEF Inserts
  <2>4. \A q : OpenFor(q)' = OpenFor(q)
    BY <2>3 DEF OpenFor
  <2>5. \A s \in Requests : \A row \in inserted'[s] :
            row = <<s, Of(row)>> /\ (row \in inserted[s] \/ (s = t /\ Of(row) = p))
    BY <2>2, <2>3
  <2>6. \A s \in Requests : \A row \in inserted'[s] : OpenFor(Of(row))' = {}
    BY <2>3, <2>4, <2>5
  <2>7. \A s, u \in Requests :
          s # u => \A row1 \in inserted'[s], row2 \in inserted'[u] : Of(row1) # Of(row2)
    <3> SUFFICES ASSUME NEW s \in Requests, NEW u \in Requests, s # u,
                        NEW row1 \in inserted'[s], NEW row2 \in inserted'[u]
                 PROVE  Of(row1) # Of(row2)
      OBVIOUS
    <3>1. CASE row1 \in inserted[s] /\ row2 \in inserted[u]
      BY <3>1
    <3>2. CASE s = t /\ Of(row1) = p /\ row2 \in inserted[u]
      BY <2>1, <3>2
    <3>3. CASE u = t /\ Of(row2) = p /\ row1 \in inserted[s]
      BY <2>1, <3>3
    <3> QED BY <2>5, <3>1, <3>2, <3>3
  <2> QED BY <2>3, <2>5, <2>6, <2>7
<1>7. ASSUME NEW p, Conflicts(t, p) PROVE KeyInv'
  BY <1>2, <1>7 DEF Conflicts
<1> QED
  BY StepsOfRequests, <1>3, <1>4, <1>5, <1>6, <1>7

----------------------------------------------------------------------------
(* The row locks, the lock of the chain and the report.                    *)

LEMMA LockStep ==
    ASSUME TransactionsInv, TransactionsTypeOK', [Next]_vars
    PROVE  LockInv'
<1> USE DEF TransactionsInv, LockInv, TransactionsTypeOK
<1>1. CASE UNCHANGED vars
  BY <1>1 DEF vars
<1> SUFFICES ASSUME NEW t \in Requests, Statement(t) \/ Crash(t) PROVE LockInv'
  BY <1>1 DEF Next
<1>2. CASE Abandons(t)
  BY <1>2 DEF Abandons, Rollback, Release, tables
<1>3. CASE Moves(t) \/ Plans(t) \/ Log(t)
  BY <1>3 DEF Moves, Plans, Log, others, tables
<1>4. CASE LocksRow(t)
  <2>1. \A s \in Requests : target[s] # wants[t]
    BY <1>4 DEF LocksRow, LockedBy
  <2> QED BY <1>4, <2>1 DEF LocksRow, others
<1>5. CASE Commit(t)
  <2>1. target' = [target EXCEPT ![t] = Nothing]
    BY <1>5 DEF Commit, Release
  <2>2. \A s \in Requests : s # t /\ target[s] # Nothing =>
          target[s] \in Rows /\ target[s] \notin Closing(t)
    BY DEF Closing
  <2>3. \A s \in Requests : s # t /\ target[s] # Nothing => record'[target[s]] = "open"
    BY <1>5, <2>2 DEF Commit
  <2> QED BY <2>1, <2>3
<1>6. ASSUME NEW p, Inserts(t, p) \/ Conflicts(t, p) PROVE LockInv'
  BY <1>6 DEF Inserts, Conflicts
<1> QED
  BY StepsOfRequests, <1>2, <1>3, <1>4, <1>5, <1>6

\* The log only grows by the commit of the request that holds the lock, and
\* by the entry hashed over its last one.
LEMMA ChainStep ==
    ASSUME TransactionsInv, TransactionsTypeOK', [Next]_vars
    PROVE  ChainInv'
<1> USE DEF TransactionsInv, TransactionsTypeOK
<1>1. CASE UNCHANGED vars
  BY <1>1 DEF vars, ChainInv, ChainIsLinear, Holding
<1> SUFFICES ASSUME NEW t \in Requests, Statement(t) \/ Crash(t) PROVE ChainInv'
  BY <1>1 DEF Next
<1> USE DEF ChainInv
<1>2. ASSUME UNCHANGED log PROVE ChainIsLinear'
  BY <1>2 DEF ChainIsLinear
<1>3. ASSUME UNCHANGED <<log, chainLock, prev>>, \A s \in Requests : Holding(s)' => Holding(s)
      PROVE  ChainInv'
  BY <1>2, <1>3
<1>4. CASE Abandons(t)
  <2>1. \A s \in Requests : Holding(s)' => s # t /\ Holding(s)
    BY <1>4 DEF Abandons, Rollback, Holding
  <2>2. UNCHANGED log /\ prev' = [prev EXCEPT ![t] = 0]
        /\ chainLock' = IF chainLock = t THEN Nothing ELSE chainLock
    BY <1>4 DEF Abandons, Rollback, Release, ChainReleased, tables
  <2> QED BY <1>2, <2>1, <2>2
<1>5. CASE Moves(t)
  BY <1>3, <1>5 DEF Moves, Goto, others, Holding
<1>6. CASE Plans(t) \/ LocksRow(t)
  BY <1>3, <1>6 DEF Plans, LocksRow, Goto, others, Holding
<1>7. CASE Log(t)
  <2>1. chainLock = Nothing /\ chainLock' = t /\ UNCHANGED log
        /\ prev' = [prev EXCEPT ![t] = Len(log)]
        /\ pc' = [pc EXCEPT ![t] = AfterLog(t)]
    BY <1>7 DEF Log, ChainFree, Goto, tables
  <2>2. \A s \in Requests : Holding(s)' => s = t
    BY <2>1, RequestsAssumption DEF Holding
  <2> QED BY <1>2, <2>1, <2>2
<1>8. CASE Commit(t)
  <2>1. /\ log' = Append(log, [by |-> t, prev |-> prev[t]])
        /\ pc' = [pc EXCEPT ![t] = IF KindOf[t] = "bulk" THEN "announce" ELSE "done"]
        /\ chainLock = t /\ prev[t] = Len(log)
    BY <1>8 DEF Commit, Goto, Holding
  <2>2. \A s \in Requests : ~Holding(s)'
    BY <2>1 DEF Holding
  <2>3. ChainIsLinear'
    <3> DEFINE n == Len(log)
    <3>1. n \in Nat /\ DOMAIN log = 1 .. n /\ DOMAIN log' = 1 .. n + 1
          /\ log'[n + 1].prev = n /\ \A i \in 1 .. n : log'[i] = log[i]
      BY <2>1
    <3>2. \A i \in 1 .. n : log[i].prev = i - 1
      BY <3>1 DEF ChainIsLinear
    <3> HIDE DEF n
    <3>3. ASSUME NEW i \in 1 .. n + 1 PROVE log'[i].prev = i - 1
      <4>1. i \in 1 .. n \/ i = n + 1
        BY <3>1
      <4>2. CASE i \in 1 .. n
        BY <3>1, <3>2, <4>2
      <4>3. CASE i = n + 1
        <5>1. log'[i].prev = n
          BY <3>1, <4>3
        <5> QED BY <3>1, <4>3, <5>1
      <4> QED BY <4>1, <4>2, <4>3
    <3> QED BY <3>1, <3>3 DEF ChainIsLinear
  <2> QED BY <2>2, <2>3
<1>9. ASSUME NEW p, Inserts(t, p) \/ Conflicts(t, p) PROVE ChainInv'
  BY <1>3, <1>9 DEF Inserts, Conflicts, Holding
<1> QED
  BY StepsOfRequests, <1>4, <1>5, <1>6, <1>7, <1>8, <1>9

\* What is reported as created is inserted until the commit, on disk after it.
LEMMA ReportStep ==
    ASSUME TransactionsInv, TransactionsTypeOK', [Next]_vars
    PROVE  ReportInv'
<1> USE DEF TransactionsInv, TransactionsTypeOK
<1>1. CASE UNCHANGED vars
  BY <1>1 DEF vars, ReportInv, BulkReportIsTrue
<1> SUFFICES ASSUME NEW t \in Requests, Statement(t) \/ Crash(t) PROVE ReportInv'
  BY <1>1 DEF Next
<1> DEFINE Working(s) == pc[s] \notin Over =>
                           \A p \in People : report[s][p] = "created" <=> <<s, p>> \in inserted[s]
           Told(s) == pc[s] \in {"announce", "done"} /\ KindOf[s] = "bulk" =>
                           \A p \in PeopleOf[s] : report[s][p] = "created" <=> record[<<s, p>>] # "none"
<1>2. \A s \in Requests : Working(s) /\ Told(s)
  BY DEF ReportInv, BulkReportIsTrue
<1>3. ASSUME \A s \in Requests : (Working(s) /\ Told(s))' PROVE ReportInv'
  BY <1>3 DEF ReportInv, BulkReportIsTrue
<1>4. CASE Abandons(t)
  BY <1>2, <1>3, <1>4 DEF Abandons, Rollback, Release, tables, Over, Finished
<1>5. CASE Moves(t)
  <2>1. UNCHANGED <<record, inserted, report>> /\ DOMAIN pc' = Requests
        /\ \A s \in Requests : pc'[s] # pc[s] =>
              \/ pc[s] \notin Over /\ pc'[s] \notin Over
              \/ pc[s] = "announce" /\ pc'[s] = "done"
    BY <1>5 DEF Moves, Goto, others, Over, Finished
  <2>2. ASSUME NEW s \in Requests PROVE (Working(s) /\ Told(s))'
    BY <1>2, <2>1 DEF Over, Finished
  <2> QED BY <1>3, <2>2
<1>6. CASE Plans(t)
  <2>1. inserted[t] = {}
    BY <1>6 DEF Plans, OwnInv
  <2>2. \A p \in People : Planned(t, p) # "created"
    BY DEF Planned
  <2>3. (Working(t) /\ Told(t))'
    BY <1>6, <2>1, <2>2 DEF Plans, Goto
  <2>4. \A s \in Requests \ {t} : (Working(s) /\ Told(s))'
    BY <1>2, <1>6 DEF Plans, Goto
  <2> QED BY <1>3, <2>3, <2>4
<1>7. CASE LocksRow(t)
  <2>1. UNCHANGED <<record, inserted, report>> /\ DOMAIN pc' = Requests
        /\ \A s \in Requests : pc'[s] # pc[s] =>
              pc[s] = "lock" /\ pc'[s] \in {"log", "commit"}
    BY <1>7 DEF LocksRow, Goto, others
  <2>2. ASSUME NEW s \in Requests PROVE (Working(s) /\ Told(s))'
    BY <1>2, <2>1 DEF Over, Finished
  <2> QED BY <1>3, <2>2
<1>8. CASE Log(t)
  BY <1>2, <1>3, <1>8 DEF Log, Goto, AfterLog, tables, Over, Finished
<1>9. CASE Commit(t)
  <2>1. /\ record' = [row \in Rows |-> IF row \in inserted[t] THEN "open"
                                       ELSE IF row \in Closing(t) THEN Closed(t)
                                       ELSE record[row]]
        /\ inserted' = [inserted EXCEPT ![t] = {}]
        /\ pc[t] = "commit"
        /\ pc' = [pc EXCEPT ![t] = IF KindOf[t] = "bulk" THEN "announce" ELSE "done"]
        /\ UNCHANGED report
    BY <1>9 DEF Commit, Goto, Release
  <2>2. \A row \in Closing(t) : record[row] = "open"
    BY DEF Closing, LockInv
  <2>3. ASSUME NEW s \in Requests \ {t} PROVE (Working(s) /\ Told(s))'
    <3>1. \A p \in People : <<s, p>> \notin inserted[t]
      BY DEF KeyInv, Of
    <3>2. \A p \in People : record'[<<s, p>>] # "none" <=> record[<<s, p>>] # "none"
      BY <2>1, <2>2, <3>1 DEF Rows, Closed
    <3>3. PeopleOf[s] \subseteq People
      BY RequestsAssumption
    <3> QED BY <1>2, <2>1, <3>2, <3>3
  <2>4. (Working(t) /\ Told(t))'
    <3>1. pc[t] \notin Over /\ pc'[t] \in Over
      BY <2>1 DEF Over, Finished
    <3>2. \A p \in People : record[<<t, p>>] = "none"
      BY <3>1 DEF OwnInv
    <3>3. \A p \in People : record'[<<t, p>>] # "none" <=> <<t, p>> \in inserted[t]
      BY <2>1, <2>2, <3>2 DEF Rows
    <3>4. PeopleOf[t] \subseteq People
      BY RequestsAssumption
    <3> QED BY <1>2, <2>1, <3>1, <3>3, <3>4
  <2> QED BY <1>3, <2>3, <2>4
<1>10. ASSUME NEW p, Inserts(t, p) PROVE ReportInv'
  BY <1>2, <1>3, <1>10 DEF Inserts
<1>11. ASSUME NEW p, Conflicts(t, p) PROVE ReportInv'
  <2>1. <<t, p>> \notin inserted[t]
    BY <1>11 DEF Conflicts, KeyInv, Of
  <2> QED BY <1>2, <1>3, <1>11, <2>1 DEF Conflicts
<1> QED
  BY StepsOfRequests, <1>4, <1>5, <1>6, <1>7, <1>8, <1>9, <1>10, <1>11

----------------------------------------------------------------------------
(* The waits.                                                              *)

\* Which requests come to which statement.
KindsInv ==
    /\ \A t \in Requests :
          /\ pc[t] \in {"plan", "insert"} => KindOf[t] \in {"create", "bulk"}
          /\ pc[t] = "find" => KindOf[t] = "depart"
          /\ pc[t] = "lock" => KindOf[t] \in {"depart", "finalize"} /\ wants[t] \in Rows
          /\ target[t] # Nothing => \/ KindOf[t] = "depart" /\ pc[t] = "commit"
                                    \/ KindOf[t] = "finalize" /\ pc[t] \in {"log", "commit"}
    /\ chainLock # Nothing => Holding(chainLock)

\* People are left to insert in the order of their names, and come after those
\* that are inserted.
OrderInv ==
    /\ todo \in [Requests -> Seq(People)]
    /\ \A t \in Requests : pc[t] = "insert" =>
          /\ \A i, j \in DOMAIN todo[t] : i < j => todo[t][i] < todo[t][j]
          /\ \A row \in inserted[t], i \in DOMAIN todo[t] : Of(row) < todo[t][i]

WaitsInv == KindsInv /\ OrderInv

\* Some people in the order of their names.
LEMMA CohortsAreSorted ==
    ASSUME NEW S \in SUBSET People, NEW order \in CohortOrders(S)
    PROVE  /\ order \in Seq(People)
           /\ \A i, j \in DOMAIN order : i < j => order[i] < order[j]
<1>1. IsFiniteSet(S)
  <2>1. IsFiniteSet(1 .. LastPerson)
    BY RequestsAssumption, FS_Interval
  <2> QED BY <2>1, FS_Subset DEF People
<1>2. Cardinality(S) \in Nat
  BY <1>1, FS_CardinalityType
<1>3. order \in [1 .. Cardinality(S) -> S]
  BY DEF CohortOrders, SetToSeqs
<1>4. order \in Seq(People)
  BY <1>2, <1>3
<1> QED BY <1>4 DEF CohortOrders

LEMMA InitWaits == Init => WaitsInv
<1> SUFFICES ASSUME Init PROVE WaitsInv
  OBVIOUS
<1>1. PICK made \in Mixes :
        pc = [t \in Requests |-> IF t \in made THEN First(KindOf[t]) ELSE "unmade"]
  BY DEF Init
<1>2. \A t \in Requests : pc[t] \in {"unmade", "lock", "check", "read"}
                          /\ (pc[t] = "lock" => KindOf[t] = "finalize")
  BY <1>1, RequestsAssumption DEF First, Kinds
<1>3. \A t \in Requests : KindOf[t] = "finalize" => wants[t] \in Rows
  BY PersonIsOne DEF Init, Rows
<1> QED BY <1>2, <1>3 DEF Init, WaitsInv, KindsInv, OrderInv

LEMMA KindsStep ==
    ASSUME TransactionsInv, KindsInv, [Next]_vars
    PROVE  KindsInv'
<1> USE DEF KindsInv, TransactionsInv, TransactionsTypeOK
<1>1. CASE UNCHANGED vars
  BY <1>1 DEF vars, Holding
<1> SUFFICES ASSUME NEW t \in Requests, Statement(t) \/ Crash(t) PROVE KindsInv'
  BY <1>1 DEF Next
<1>2. CASE Abandons(t)
  BY <1>2 DEF Abandons, Rollback, Release, ChainReleased, Holding
<1>3. CASE Moves(t)
  BY <1>3 DEF Moves, Goto, others, Holding
<1>4. CASE Plans(t)
  BY <1>4 DEF Plans, Goto, Holding
<1>5. CASE LocksRow(t)
  BY <1>5 DEF LocksRow, Goto, others, Holding
<1>6. CASE Log(t)
  BY <1>6 DEF Log, ChainFree, Goto, AfterLog, Holding
<1>7. CASE Commit(t)
  <2>1. chainLock = t
    BY <1>7 DEF Commit, ChainInv, Holding
  <2> QED BY <1>7, <2>1 DEF Commit, Release, ChainReleased, Goto
<1>8. ASSUME NEW p, Inserts(t, p) \/ Conflicts(t, p) PROVE KindsInv'
  BY <1>8 DEF Inserts, Conflicts, Holding
<1> QED
  BY StepsOfRequests, <1>2, <1>3, <1>4, <1>5, <1>6, <1>7, <1>8

\* A cohort is planned in order, before anything is inserted; whoever is
\* inserted leaves the head of the order.
LEMMA OrderStep ==
    ASSUME TransactionsInv, WaitsInv, [Next]_vars
    PROVE  OrderInv'
<1> USE DEF OrderInv, WaitsInv, KindsInv, TransactionsInv, TransactionsTypeOK
<1>1. CASE UNCHANGED vars
  BY <1>1 DEF vars
<1> SUFFICES ASSUME NEW t \in Requests, Statement(t) \/ Crash(t) PROVE OrderInv'
  BY <1>1 DEF Next
<1>2. ASSUME UNCHANGED <<todo, inserted>>, \A s \in Requests : pc'[s] = "insert" => pc[s] = "insert"
      PROVE  OrderInv'
  BY <1>2
<1>3. ASSUME NEW how \in Finished, Rollback(t, how) PROVE OrderInv'
  BY <1>3 DEF Rollback, Release, Finished
<1>4. CASE ReadPeople(t)
  <2>1. CASE Refuse(t)
    BY <1>3, <2>1 DEF Refuse, Finished
  <2>2. CASE ~Refuse(t)
    <3>1. PICK order \in CohortOrders({p \in PeopleOf[t] : employed[p]}) :
            todo' = [todo EXCEPT ![t] = order]
      BY <1>4, <2>2 DEF ReadPeople
    <3>2. {p \in PeopleOf[t] : employed[p]} \in SUBSET People
      BY RequestsAssumption
    <3>3. order \in Seq(People)
      BY <3>1, <3>2, CohortsAreSorted
    <3>4. pc' = [pc EXCEPT ![t] = "plan"] /\ UNCHANGED inserted
      BY <1>4, <2>2 DEF ReadPeople, Goto
    <3> QED BY <3>1, <3>3, <3>4
  <2> QED BY <2>1, <2>2
<1>5. CASE ReadOpen(t)
  <2>1. CASE Refuse(t)
    BY <1>3, <2>1 DEF Refuse, Finished
  <2>2. CASE ~Refuse(t)
    <3>1. PICK order \in CohortOrders({p \in ToSet(todo[t]) : Openable(p)}) :
            todo' = [todo EXCEPT ![t] = order]
      BY <1>5, <2>2 DEF ReadOpen
    <3>2. {p \in ToSet(todo[t]) : Openable(p)} \in SUBSET People
      BY DEF ToSet
    <3>3. order \in Seq(People) /\ \A i, j \in DOMAIN order : i < j => order[i] < order[j]
      BY <3>1, <3>2, CohortsAreSorted
    <3>4. pc[t] = "plan" /\ pc' = [pc EXCEPT ![t] = "insert"] /\ UNCHANGED inserted
      BY <1>5, <2>2 DEF ReadOpen, Goto
    <3>5. inserted[t] = {}
      BY <3>4 DEF OwnInv
    <3> QED BY <3>1, <3>3, <3>4, <3>5
  <2> QED BY <2>1, <2>2
<1>6. CASE Insert(t)
  <2>1. CASE Refuse(t)
    BY <1>3, <2>1 DEF Refuse, Finished
  <2>2. CASE ~Refuse(t)
    <3> DEFINE p == Head(todo[t])
    <3>1. /\ pc[t] = "insert" /\ todo[t] # <<>> /\ UNCHANGED pc
          /\ todo' = [todo EXCEPT ![t] = Tail(@)]
          /\ \/ UNCHANGED inserted
             \/ inserted' = [inserted EXCEPT ![t] = @ \cup {<<t, p>>}]
      BY <1>6, <2>2 DEF Insert
    <3>2. todo[t] \in Seq(People)
      OBVIOUS
    <3>3. /\ Tail(todo[t]) \in Seq(People)
          /\ p = todo[t][1] /\ 1 \in DOMAIN todo[t]
          /\ \A i \in DOMAIN Tail(todo[t]) : /\ Tail(todo[t])[i] = todo[t][i + 1]
                                             /\ i \in Nat /\ i >= 1 /\ i + 1 \in DOMAIN todo[t]
      BY <3>1, <3>2
    <3>4. \A i, j \in DOMAIN Tail(todo[t]) : i < j => Tail(todo[t])[i] < Tail(todo[t])[j]
      BY <3>1, <3>3
    <3>5. ASSUME NEW row \in inserted'[t], NEW i \in DOMAIN Tail(todo[t])
          PROVE  Of(row) < Tail(todo[t])[i]
      <4>1. CASE row \in inserted[t]
        BY <3>1, <3>3, <4>1
      <4>2. CASE row = <<t, p>>
        BY <3>1, <3>3, <4>2 DEF Of
      <4> QED BY <3>1, <4>1, <4>2
    <3> HIDE DEF p
    <3>6. todo'[t] = Tail(todo[t])
      BY <3>1
    <3>7. \A s \in Requests \ {t} : todo'[s] = todo[s] /\ inserted'[s] = inserted[s] /\ pc'[s] = pc[s]
      BY <3>1
    <3>8. todo' \in [Requests -> Seq(People)]
      BY <3>1, <3>3
    <3> QED BY <3>4, <3>5, <3>6, <3>7, <3>8
  <2> QED BY <2>1, <2>2
<1>7. CASE InsertedAll(t) \/ Announce(t) \/ Log(t) \/ FindOpenRecord(t) \/ LockToCancel(t)
  BY <1>2, <1>7 DEF InsertedAll, Announce, Log, AfterLog, FindOpenRecord, LockToCancel, Goto
<1>8. CASE ReadLeaver(t) \/ LockToFinalize(t) \/ CheckSeats(t)
  BY <1>2, <1>3, <1>8 DEF ReadLeaver, LockToFinalize, CheckSeats, Refuse, Finished, Goto
<1>9. CASE Commit(t)
  BY <1>9 DEF Commit, Release, Goto
<1>10. CASE AbortDeadlock(t) \/ Crash(t)
  BY <1>3, <1>10 DEF AbortDeadlock, Crash, Finished
<1> QED BY <1>4, <1>5, <1>6, <1>7, <1>8, <1>9, <1>10 DEF Statement

\* Who inserts waits only for requests that are further in the order or are
\* inserting no more.  These wait only for requests of the same kind, so none
\* of them, however remote, waits for the first one: the set of those ahead of
\* it is closed and it is not in it.
LEMMA InsertersAreInNoCycle ==
    ASSUME TransactionsInv, WaitsInv, NEW t \in Requests, pc[t] = "insert"
    PROVE  ~InCycle(t)
<1> USE DEF TransactionsInv, TransactionsTypeOK, WaitsInv, KindsInv, OrderInv
<1> SUFFICES ASSUME InCycle(t) PROVE FALSE
  OBVIOUS
<1> DEFINE Inserts_(s) == pc[s] = "insert" /\ todo[s] # <<>>
           p == Head(todo[t])
           Ahead == {s \in Requests : Inserts_(s) => p < Head(todo[s])}
<1>1. Inserts_(t)
  BY DEF InCycle, WaitsFor
<1>2. \A s \in Requests : Inserts_(s) => Head(todo[s]) \in People
  <2> SUFFICES ASSUME NEW s \in Requests, Inserts_(s) PROVE Head(todo[s]) \in People
    OBVIOUS
  <2>1. todo[s] \in Seq(People) /\ todo[s] # <<>>
    OBVIOUS
  <2> QED BY <2>1
<1>3. t \notin Ahead
  BY <1>1, <1>2, RequestsAssumption DEF People
<1>4. ASSUME NEW s \in Requests, Inserts_(s), NEW u \in WaitsFor(s)
      PROVE  u \in Requests /\ (Inserts_(u) => Head(todo[s]) < Head(todo[u]))
  <2>1. u \in InsertWaitsFor(s, Head(todo[s]))
    BY <1>4 DEF WaitsFor
  <2>2. u \in Requests
    BY <2>1 DEF InsertWaitsFor
  <2>3. ASSUME Inserts_(u) PROVE Head(todo[s]) < Head(todo[u])
    <3>1. PICK row \in inserted[u] : Of(row) = Head(todo[s])
      BY <2>1, <2>3 DEF InsertWaitsFor, Closing
    <3>2. todo[u] \in Seq(People) /\ todo[u] # <<>>
      BY <2>2, <2>3
    <3>3. Head(todo[u]) = todo[u][1] /\ 1 \in DOMAIN todo[u]
      BY <3>2
    <3> QED BY <2>2, <2>3, <3>1, <3>3
  <2> QED BY <2>2, <2>3
<1>5. ASSUME NEW s \in Requests, ~Inserts_(s), NEW u \in WaitsFor(s)
      PROVE  u \in Requests /\ ~Inserts_(u)
  <2>1. CASE pc[s] = "log"
    <3>1. u = chainLock /\ u # Nothing
      BY <2>1, <1>5 DEF WaitsFor
    <3> QED BY <3>1 DEF Holding
  <2>2. CASE pc[s] = "lock"
    <3>1. u \in Requests /\ target[u] = wants[s]
      BY <2>2, <1>5 DEF WaitsFor, LockedBy
    <3>2. target[u] # Nothing
      BY <2>2, <3>1, RequestsAssumption
    <3> QED BY <3>1, <3>2
  <2> QED BY <1>5, <2>1, <2>2 DEF WaitsFor
<1> HIDE DEF Inserts_, p
<1>6. WaitsFor(t) \subseteq Ahead
  BY <1>1, <1>4 DEF p
<1>7. SelfContained(Ahead)
  <2> SUFFICES ASSUME NEW s \in Ahead, NEW u \in WaitsFor(s) PROVE u \in Ahead
    BY DEF SelfContained
  <2>1. CASE Inserts_(s)
    <3>1. u \in Requests /\ (Inserts_(u) => Head(todo[s]) < Head(todo[u]))
      BY <1>4, <2>1
    <3>2. p < Head(todo[s]) /\ p \in Int /\ Head(todo[s]) \in Int
      BY <1>1, <1>2, <2>1 DEF p, People
    <3>3. ASSUME Inserts_(u) PROVE p < Head(todo[u])
      <4>1. Head(todo[u]) \in Int
        BY <1>2, <3>1, <3>3 DEF People
      <4> QED BY <3>1, <3>2, <3>3, <4>1
    <3> QED BY <3>1, <3>3
  <2>2. CASE ~Inserts_(s)
    BY <1>5, <2>2
  <2> QED BY <2>1, <2>2
<1> QED BY <1>3, <1>6, <1>7 DEF InCycle

\* Who logs waits for the holder of the chain, which commits or is a departure;
\* from a departure or a finalization no wait leads to another kind of request.
LEMMA LoggersAreInNoCycle ==
    ASSUME TransactionsInv, WaitsInv, NEW t \in Requests, pc[t] = "log",
           KindOf[t] \notin {"depart", "finalize"}
    PROVE  ~InCycle(t)
<1> USE DEF TransactionsInv, TransactionsTypeOK, WaitsInv, KindsInv
<1> DEFINE Closers == {s \in Requests : KindOf[s] \in {"depart", "finalize"} \/ pc[s] = "commit"}
<1>1. t \notin Closers
  OBVIOUS
<1>2. chainLock # Nothing => chainLock \in Closers
  BY DEF Holding
<1>3. \A row \in Rows : LockedBy(row) \subseteq Closers
  BY RequestsAssumption DEF LockedBy
<1>4. WaitsFor(t) \subseteq Closers
  BY <1>2 DEF WaitsFor
<1>5. SelfContained(Closers)
  <2> SUFFICES ASSUME NEW s \in Closers PROVE WaitsFor(s) \subseteq Closers
    BY DEF SelfContained
  <2>1. CASE pc[s] = "log"
    BY <1>2, <2>1 DEF WaitsFor
  <2>2. CASE pc[s] = "lock"
    BY <1>3, <2>2 DEF WaitsFor
  <2>3. CASE pc[s] \notin {"log", "lock"}
    BY <2>3 DEF WaitsFor
  <2> QED BY <2>1, <2>2, <2>3
<1> QED BY <1>1, <1>4, <1>5 DEF InCycle

----------------------------------------------------------------------------
(* The theorems.                                                           *)

LEMMA TransactionsInvHolds == Spec => []TransactionsInv
<1>1. TransactionsInv /\ [Next]_vars => TransactionsInv'
  <2> SUFFICES ASSUME TransactionsInv, [Next]_vars PROVE TransactionsInv'
    OBVIOUS
  <2>1. TransactionsTypeOK'
    BY TypesStep DEF TransactionsInv
  <2> QED
    BY <2>1, KeyStep, OwnStep, LockStep, ChainStep, ReportStep DEF TransactionsInv
<1> QED BY <1>1, InitTransactions, PTL DEF Spec

\* Whatever requests race to open a record for the same person, and whatever
\* dies or is refused among them, at most one record of a person is open: the
\* index uq_open_evaluation_per_personnel behind the unlocked checks.
THEOREM OneRecordPerPerson == Spec => []OneOpenPerPerson
<1>1. TransactionsInv => OneOpenPerPerson
  <2> SUFFICES ASSUME TransactionsInv, NEW p \in People PROVE Cardinality(OpenFor(p)) <= 1
    BY DEF OneOpenPerPerson
  <2>1. CASE OpenFor(p) = {}
    BY <2>1, FS_EmptySet
  <2>2. CASE OpenFor(p) # {}
    <3>1. PICK row \in OpenFor(p) : TRUE
      BY <2>2
    <3>2. OpenFor(p) = {row}
      BY <3>1 DEF TransactionsInv, KeyInv, OpenFor
    <3>3. Cardinality({row}) = 1
      BY FS_Singleton
    <3> QED BY <3>2, <3>3
  <2> QED BY <2>1, <2>2
<1> QED BY <1>1, TransactionsInvHolds, PTL

\* Nothing closed is reopened or closed otherwise: the departure that read a
\* record open finds it finalized once it has the lock and lets it be
\* (_close_out_departure, _get_record_or_404_for_update).
THEOREM ClosedRecordsStayClosed == Spec => ClosedStaysClosed
<1> DEFINE Kept == \A row \in Rows : record[row] \in {"finalized", "cancelled"}
                                        => record'[row] = record[row]
<1>1. ASSUME TransactionsInv, [Next]_vars PROVE [Kept]_vars
  <2>1. CASE UNCHANGED vars
    BY <2>1
  <2> SUFFICES ASSUME NEW t \in Requests, Statement(t) \/ Crash(t) PROVE Kept
    BY <1>1, <2>1 DEF Next
  <2>2. CASE UNCHANGED record
    BY <2>2
  <2>3. CASE Commit(t)
    <3>1. \A row \in inserted[t] : row \notin Rows \/ record[row] = "none"
      <4> SUFFICES ASSUME NEW row \in inserted[t], row \in Rows PROVE record[row] = "none"
        OBVIOUS
      <4>1. row = <<t, Of(row)>> /\ Of(row) \in People
        BY <1>1 DEF TransactionsInv, KeyInv, Rows, Of
      <4>2. pc[t] \notin Over
        BY <2>3 DEF Commit, Over, Finished
      <4> QED BY <1>1, <4>1, <4>2 DEF TransactionsInv, OwnInv
    <3>2. \A row \in Closing(t) : record[row] = "open"
      BY <1>1 DEF TransactionsInv, LockInv, Closing
    <3> QED BY <2>3, <3>1, <3>2 DEF Commit
  <2>4. CASE ~Commit(t)
    <3>1. \/ Abandons(t) \/ Moves(t) \/ Plans(t) \/ LocksRow(t) \/ Log(t)
          \/ \E p : Inserts(t, p) \/ Conflicts(t, p)
      BY <1>1, <2>4, StepsOfRequests DEF TransactionsInv
    <3>2. UNCHANGED record
      BY <3>1 DEF Abandons, Rollback, Moves, Plans, LocksRow, Log, Inserts, Conflicts, others, tables
    <3> QED BY <3>2
  <2> QED BY <2>3, <2>4
<1> QED BY <1>1, TransactionsInvHolds, PTL DEF Spec, ClosedStaysClosed

\* Every entry of the audit log is hashed over the one before it: from the
\* moment log_event reads the last hash to its commit nobody else appends.
THEOREM AuditLogIsLinear == Spec => []ChainIsLinear
<1>1. TransactionsInv => ChainIsLinear
  BY DEF TransactionsInv, ChainInv
<1> QED BY <1>1, TransactionsInvHolds, PTL

\* A bulk request reports as created exactly the people whose record its
\* commit put on disk, whoever took some of them in between.
THEOREM BulkAnswersWhatItDid == Spec => []BulkReportIsTrue
<1>1. TransactionsInv => BulkReportIsTrue
  BY DEF TransactionsInv, ReportInv
<1> QED BY <1>1, TransactionsInvHolds, PTL

\* The victims of a deadlock are departures and finalizations, which take the
\* record and the chain in opposite orders: requests that open records go by
\* the order of the names and never wait for one another in a circle
\* (_load_cohort), and those that disable an account hold nothing when they wait.
THEOREM OpeningsAreNoVictims == Spec => []OpeningNeverDeadlocks
<1> DEFINE I == WaitsInv /\ OpeningNeverDeadlocks
<1>1. Init => I
  BY InitWaits, RequestsAssumption DEF Init, OpeningNeverDeadlocks, First, Kinds
<1>2. ASSUME TransactionsInv, I, [Next]_vars PROVE I'
  <2>1. WaitsInv'
    BY <1>2, KindsStep, OrderStep DEF WaitsInv
  <2>2. OpeningNeverDeadlocks'
    <3> USE DEF OpeningNeverDeadlocks, TransactionsInv, TransactionsTypeOK
    <3>1. CASE UNCHANGED vars
      BY <1>2, <3>1 DEF vars
    <3> SUFFICES ASSUME NEW t \in Requests, Statement(t) \/ Crash(t) PROVE OpeningNeverDeadlocks'
      BY <1>2, <3>1 DEF Next
    <3>2. CASE AbortDeadlock(t)
      <4>1. WaitsFor(t) # {} /\ InCycle(t)
        BY <3>2 DEF AbortDeadlock, InCycle
      <4>2. pc[t] \in {"insert", "log", "lock"}
        BY <4>1 DEF WaitsFor
      <4>3. KindOf[t] \in {"depart", "finalize"}
        BY <1>2, <4>1, <4>2, InsertersAreInNoCycle, LoggersAreInNoCycle DEF WaitsInv, KindsInv
      <4> QED BY <1>2, <3>2, <4>3 DEF AbortDeadlock, Rollback
    <3>3. CASE ~AbortDeadlock(t)
      <4>1. pc' = pc \/ \E stage : stage # "deadlock" /\ pc' = [pc EXCEPT ![t] = stage]
        BY <3>3 DEF Statement, ReadPeople, ReadOpen, Insert, InsertedAll, Announce, Log, AfterLog,
             ReadLeaver, FindOpenRecord, LockToCancel, LockToFinalize, CheckSeats, Commit, Crash,
             Refuse, Rollback, Goto
      <4> QED BY <1>2, <4>1
    <3> QED BY <3>2, <3>3
  <2> QED BY <2>1, <2>2
<1>3. I => OpeningNeverDeadlocks
  OBVIOUS
<1> QED BY <1>1, <1>2, <1>3, TransactionsInvHolds, PTL DEF Spec
=============================================================================
