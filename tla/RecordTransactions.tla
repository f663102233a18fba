------------------------- MODULE RecordTransactions -------------------------
(***************************************************************************)
(* The requests that open and close evaluation records, as transactions of *)
(* the database they share.                                                *)
(*                                                                         *)
(* EvaluationWorkflow takes every endpoint for one atomic step.  Opening a *)
(* record is not one: it reads the person, the seats and the open records  *)
(* without a lock, inserts, and then waits for the lock of the audit chain *)
(* (log_event), which every writing request takes.  Here each request is   *)
(* the sequence of its statements at READ COMMITTED: what it reads is      *)
(* committed, what it has written is its own until the commit.             *)
(***************************************************************************)
EXTENDS Naturals, Sequences, FiniteSets, SequencesExt

CONSTANTS
    Requests,     \* the requests that are made, each once
    Old,          \* the maker of the records open at the start
    Nothing,      \* no request holds a lock, no row is locked
    LastPerson,   \* people 1 .. LastPerson, in the order of their names
    Users,
    NoUser,       \* the person has no account
    KindOf,       \* the kind of each request
    PeopleOf,     \* the people it is about
    UserOf,       \* the account it disables
    Scorer,       \* the evaluator on each person's access row
    Account,      \* the account of each person
    Mixes,        \* the sets of requests that are made at the same time
    InitOpen,     \* the people with an open record at the start
    MaxCrashes    \* bound on the processes that die

People == 1 .. LastPerson
Kinds  == {"create", "bulk", "depart", "finalize", "disable"}

\* A record is named by who made it and for whom.
Rows == (Requests \cup {Old}) \X People

ASSUME RequestsAssumption ==
    /\ Old \notin Requests /\ Nothing \notin Requests \cup Rows
    /\ LastPerson \in Nat /\ MaxCrashes \in Nat
    /\ NoUser \notin Users
    /\ KindOf \in [Requests -> Kinds]
    /\ PeopleOf \in [Requests -> SUBSET People]
    /\ \A t \in Requests : KindOf[t] \in {"create", "depart", "finalize"}
                              => Cardinality(PeopleOf[t]) = 1
    /\ UserOf \in [Requests -> Users \cup {NoUser}]
    /\ Scorer \in [People -> Users]
    /\ Account \in [People -> Users \cup {NoUser}]
    /\ InitOpen \subseteq People
    /\ Mixes \subseteq SUBSET Requests

VARIABLES
    record,    \* evaluation_records: the committed status of each row
    employed,  \* personnel.status
    active,    \* users.is_active
    log,       \* audit_log: [by, prev], prev being the entry it was hashed over
    announced, \* bulk requests whose notifications are committed
    pc,        \* the next statement of each request
    todo,      \* people it has still to insert a record for
    inserted,  \* rows it has inserted and not committed
    wants,     \* the row it asks FOR UPDATE
    target,    \* the row it holds FOR UPDATE
    prev,      \* the last entry of the log when it took the chain lock
    chainLock, \* pg_advisory_xact_lock of log_event
    report,    \* what a bulk request will answer about each person
    crashes

vars == <<record, employed, active, log, announced, pc, todo, inserted,
          wants, target, prev, chainLock, report, crashes>>

tables == <<record, employed, active, log, announced>>

Of(row) == row[2]
Person(t) == CHOOSE p \in PeopleOf[t] : TRUE

Finished == {"unmade", "done", "refused", "deadlock", "crashed"}

First(kind) == CASE kind = "finalize" -> "lock"
                 [] kind = "disable"  -> "check"
                 [] OTHER             -> "read"

Init ==
    /\ record = [row \in Rows |-> IF row[1] = Old /\ row[2] \in InitOpen THEN "open" ELSE "none"]
    /\ employed = [p \in People |-> TRUE]
    /\ active = [u \in Users |-> TRUE]
    /\ log = <<>>
    /\ announced = {}
    /\ \E made \in Mixes :
          pc = [t \in Requests |-> IF t \in made THEN First(KindOf[t]) ELSE "unmade"]
    /\ todo = [t \in Requests |-> <<>>]
    /\ inserted = [t \in Requests |-> {}]
    /\ wants = [t \in Requests |-> IF KindOf[t] = "finalize" THEN <<Old, Person(t)>> ELSE Nothing]
    /\ target = [t \in Requests |-> Nothing]
    /\ prev = [t \in Requests |-> 0]
    /\ chainLock = Nothing
    /\ report = [t \in Requests |-> [p \in People |-> "none"]]
    /\ crashes = 0

----------------------------------------------------------------------------
(* What the database enforces.                                             *)

OpenFor(p) == {row \in Rows : record[row] = "open" /\ Of(row) = p}

\* The rows a request has updated but not committed: the flush of a new
\* status comes with its log_event.
Closing(t) == IF pc[t] = "commit" THEN {target[t]} \ {Nothing} ELSE {}

\* The index uq_open_evaluation_per_personnel: an insertion waits for the
\* transactions that are inserting or closing a record of the same person,
\* and fails on a committed open one.
InsertWaitsFor(t, p) ==
    {s \in Requests \ {t} : \E row \in inserted[s] \cup Closing(s) : Of(row) = p}

\* Fault: the index is not there.
Collides_Never(p) == FALSE

Collides(p) == OpenFor(p) # {}

LockedBy(row) == {s \in Requests : target[s] = row}

\* For whom each request is waiting now.
WaitsFor(t) ==
    CASE pc[t] = "insert" /\ todo[t] # <<>> -> InsertWaitsFor(t, Head(todo[t]))
      [] pc[t] = "log"                      -> {chainLock} \ {Nothing, t}
      [] pc[t] = "lock"                     -> LockedBy(wants[t])
      [] OTHER                              -> {}

\* Whoever one of them waits for is one of them.
SelfContained(S) == \A s \in S : WaitsFor(s) \subseteq S

\* t waits, directly or through others, for itself: whoever it waits for, and
\* they wait for, and so on, t is among them.
InCycle(t) ==
    /\ WaitsFor(t) # {}
    /\ \A S \in SUBSET (Requests \ {t}) : WaitsFor(t) \subseteq S => ~SelfContained(S)

\* Fault: a lock of the session, which the end of the transaction does not
\* release.
ChainReleased_Never(t) == UNCHANGED chainLock

\* Rollback and commit release the row and the chain lock.
ChainReleased(t) == chainLock' = IF chainLock = t THEN Nothing ELSE chainLock

Release(t) ==
    /\ ChainReleased(t)
    /\ target' = [target EXCEPT ![t] = Nothing]
    /\ wants' = [wants EXCEPT ![t] = Nothing]
    /\ inserted' = [inserted EXCEPT ![t] = {}]
    /\ todo' = [todo EXCEPT ![t] = <<>>]
    /\ prev' = [prev EXCEPT ![t] = 0]

Rollback(t, how) ==
    /\ pc' = [pc EXCEPT ![t] = how]
    /\ Release(t)
    /\ UNCHANGED tables

Goto(t, stage) == pc' = [pc EXCEPT ![t] = stage]

Refuse(t) == Rollback(t, "refused") /\ UNCHANGED <<report, crashes>>

----------------------------------------------------------------------------
(* create_evaluation and the bulk opening of a cycle.                      *)

\* Fault: the cohort is read without ORDER BY.
CohortOrders_Any(people) == SetToSeqs(people)

\* The order in which a bulk request goes through its cohort: by name.
CohortOrders(people) ==
    {order \in SetToSeqs(people) : \A i, j \in DOMAIN order : i < j => order[i] < order[j]}

\* The people in service, as far as was read.
ReadPeople(t) ==
    /\ KindOf[t] \in {"create", "bulk"}
    /\ pc[t] = "read"
    /\ IF KindOf[t] = "create" /\ ~employed[Person(t)] THEN Refuse(t)
       ELSE /\ \E order \in CohortOrders({p \in PeopleOf[t] : employed[p]}) :
                  todo' = [todo EXCEPT ![t] = order]
            /\ Goto(t, "plan")
            /\ UNCHANGED <<tables, inserted, wants, target, prev, chainLock, report, crashes>>

Openable(p) == active[Scorer[p]] /\ OpenFor(p) = {}

\* What the dry run says of each person: an open record comes first.
Planned(t, p) ==
    CASE p \notin PeopleOf[t]                             -> "none"
      [] OpenFor(p) # {}                                  -> "skipped"
      [] p \notin ToSet(todo[t]) \/ ~active[Scorer[p]]     -> "blocked"
      [] OTHER                                            -> "planned"

\* The open records, and whether the seats of the chain are alive.
ReadOpen(t) ==
    /\ pc[t] = "plan"
    /\ IF KindOf[t] = "create" /\ ~Openable(Person(t)) THEN Refuse(t)
       ELSE /\ \E order \in CohortOrders({p \in ToSet(todo[t]) : Openable(p)}) :
                  todo' = [todo EXCEPT ![t] = order]
            /\ report' = [report EXCEPT ![t] = [p \in People |-> Planned(t, p)]]
            /\ Goto(t, "insert")
            /\ UNCHANGED <<tables, inserted, wants, target, prev, chainLock, crashes>>

\* Fault: the outcome planned for the person is left as it was.
AfterConflict_Silent(t, p) == [report EXCEPT ![t][p] = "created"]

\* One insertion; a bulk request wraps each in a savepoint and reports the
\* person as a conflict, a single one gives up.
AfterConflict(t, p) == [report EXCEPT ![t][p] = "conflict"]

Insert(t) ==
    /\ pc[t] = "insert"
    /\ todo[t] # <<>>
    /\ LET p == Head(todo[t]) IN
        /\ InsertWaitsFor(t, p) = {}
        /\ \/ /\ ~Collides(p)
              /\ inserted' = [inserted EXCEPT ![t] = @ \cup {<<t, p>>}]
              /\ todo' = [todo EXCEPT ![t] = Tail(@)]
              /\ report' = [report EXCEPT ![t][p] = "created"]
              /\ UNCHANGED <<tables, pc, wants, target, prev, chainLock, crashes>>
           \/ /\ Collides(p) /\ KindOf[t] = "create"
              /\ Refuse(t)
           \/ /\ Collides(p) /\ KindOf[t] = "bulk"
              /\ todo' = [todo EXCEPT ![t] = Tail(@)]
              /\ report' = AfterConflict(t, p)
              /\ UNCHANGED <<tables, pc, inserted, wants, target, prev, chainLock, crashes>>

InsertedAll(t) ==
    /\ pc[t] = "insert" /\ todo[t] = <<>>
    /\ Goto(t, "log")
    /\ UNCHANGED <<tables, todo, inserted, wants, target, prev, chainLock, report, crashes>>

\* The second commit of a bulk request tells the evaluators.
Announce(t) ==
    /\ pc[t] = "announce"
    /\ announced' = announced \cup {t}
    /\ Goto(t, "done")
    /\ UNCHANGED <<record, employed, active, log, todo, inserted, wants, target, prev,
                   chainLock, report, crashes>>

----------------------------------------------------------------------------
(* log_event.                                                              *)

\* Fault: the last hash is read without the lock.
ChainFree_Always == TRUE

ChainFree == chainLock = Nothing

AfterLog(t) == IF KindOf[t] = "depart" THEN "find" ELSE "commit"

\* The lock of the chain is taken and the last hash read.
Log(t) ==
    /\ pc[t] = "log"
    /\ ChainFree
    /\ chainLock' = t
    /\ prev' = [prev EXCEPT ![t] = Len(log)]
    /\ Goto(t, AfterLog(t))
    /\ UNCHANGED <<tables, todo, inserted, wants, target, report, crashes>>

----------------------------------------------------------------------------
(* Departure, finalization and the disabling of an account.                *)

\* update_personnel reads the person and logs first; the personnel row is
\* written by the flush of that log_event.
ReadLeaver(t) ==
    /\ KindOf[t] = "depart" /\ pc[t] = "read"
    /\ IF employed[Person(t)]
       THEN Goto(t, "log") /\ UNCHANGED <<tables, todo, inserted, wants, target,
                                          prev, chainLock, report, crashes>>
       ELSE Refuse(t)

\* _close_out_departure looks for the open record of the person ...
FindOpenRecord(t) ==
    /\ KindOf[t] = "depart" /\ pc[t] = "find"
    /\ IF OpenFor(Person(t)) = {}
       THEN Goto(t, "commit") /\ UNCHANGED wants
       ELSE /\ \E row \in OpenFor(Person(t)) : wants' = [wants EXCEPT ![t] = row]
            /\ Goto(t, "lock")
    /\ UNCHANGED <<tables, todo, inserted, target, prev, chainLock, report, crashes>>

\* Fault: the record is not read again once it is locked.
StillOpen_AsRead(row) == TRUE

\* The WHERE clause and the guard of the transition are evaluated on the row
\* as it is once the lock is granted.
StillOpen(row) == record[row] = "open"

\* ... and locks it: no longer open, it is left alone.
LockToCancel(t) ==
    /\ KindOf[t] = "depart" /\ pc[t] = "lock"
    /\ LockedBy(wants[t]) = {}
    /\ target' = [target EXCEPT ![t] = IF StillOpen(wants[t]) THEN wants[t] ELSE Nothing]
    /\ Goto(t, "commit")
    /\ UNCHANGED <<tables, todo, inserted, wants, prev, chainLock, report, crashes>>

\* _get_record_or_404_for_update and the guards of the last approval.
LockToFinalize(t) ==
    /\ KindOf[t] = "finalize" /\ pc[t] = "lock"
    /\ LockedBy(wants[t]) = {}
    /\ IF StillOpen(wants[t])
       THEN /\ target' = [target EXCEPT ![t] = wants[t]]
            /\ Goto(t, "log")
            /\ UNCHANGED <<tables, todo, inserted, wants, prev, chainLock, report, crashes>>
       ELSE Refuse(t)

HoldsOpenSeat(u) == \E row \in Rows : record[row] = "open" /\ Scorer[Of(row)] = u

\* ensure_no_open_chain_seat reads without a lock.
CheckSeats(t) ==
    /\ pc[t] = "check"
    /\ IF HoldsOpenSeat(UserOf[t]) THEN Refuse(t)
       ELSE Goto(t, "log") /\ UNCHANGED <<tables, todo, inserted, wants, target,
                                          prev, chainLock, report, crashes>>

----------------------------------------------------------------------------
(* Commit and failure.                                                     *)

Closed(t) == IF KindOf[t] = "finalize" THEN "finalized" ELSE "cancelled"

\* Everything the request wrote becomes visible at once.
Commit(t) ==
    /\ pc[t] = "commit"
    /\ record' = [row \in Rows |-> IF row \in inserted[t] THEN "open"
                                   ELSE IF row \in Closing(t) THEN Closed(t)
                                   ELSE record[row]]
    /\ employed' = [p \in People |-> employed[p] /\ ~(KindOf[t] = "depart" /\ p = Person(t))]
    /\ active' = [u \in Users |-> /\ active[u]
                                  /\ ~(KindOf[t] = "disable" /\ u = UserOf[t])
                                  /\ ~(KindOf[t] = "depart" /\ u = Account[Person(t)])]
    /\ log' = Append(log, [by |-> t, prev |-> prev[t]])
    /\ Goto(t, IF KindOf[t] = "bulk" THEN "announce" ELSE "done")
    /\ Release(t)
    /\ UNCHANGED <<announced, report, crashes>>

\* The database finds a cycle of waits and aborts one of its members.
AbortDeadlock(t) ==
    /\ InCycle(t)
    /\ Rollback(t, "deadlock")
    /\ UNCHANGED <<report, crashes>>

Crash(t) ==
    /\ crashes < MaxCrashes
    /\ crashes' = crashes + 1
    /\ pc[t] \notin Finished
    /\ Rollback(t, "crashed")
    /\ UNCHANGED report

----------------------------------------------------------------------------
Statement(t) ==
    \/ ReadPeople(t) \/ ReadOpen(t) \/ Insert(t) \/ InsertedAll(t) \/ Announce(t)
    \/ Log(t)
    \/ ReadLeaver(t) \/ FindOpenRecord(t) \/ LockToCancel(t)
    \/ LockToFinalize(t)
    \/ CheckSeats(t)
    \/ Commit(t)
    \/ AbortDeadlock(t)

Next == \E t \in Requests : Statement(t) \/ Crash(t)

Spec == Init /\ [][Next]_vars

\* A request that has begun runs to its end, or the database ends it.
FairSpec == Spec /\ WF_vars(\E t \in Requests : Statement(t))

----------------------------------------------------------------------------
(* Properties.                                                             *)

\* Whatever requests race, a person never has two open records (the partial
\* unique index behind the unlocked checks of create_evaluation and execute).
OneOpenPerPerson == \A p \in People : Cardinality(OpenFor(p)) <= 1

\* A finalized record is never cancelled by a departure that read it open
\* (the lock of _close_out_departure), nor anything closed ever reopened.
ClosedStaysClosed ==
    [][\A row \in Rows : record[row] \in {"finalized", "cancelled"}
          => record'[row] = record[row]]_vars

\* Every entry of the audit log is hashed over the entry before it, although
\* each transaction reads the last hash long before it commits (log_event).
ChainIsLinear == \A i \in DOMAIN log : log[i].prev = i - 1

\* What a bulk request answers is what it did: it reports as created exactly
\* the people whose record its commit has put on disk.
BulkReportIsTrue ==
    \A t \in Requests : pc[t] \in {"announce", "done"} /\ KindOf[t] = "bulk" =>
        \A p \in PeopleOf[t] : report[t][p] = "created" <=> record[<<t, p>>] # "none"

\* Only a departure and a finalization can lock each other out: they take
\* the record and the chain in opposite orders.  Requests that open records
\* or disable accounts are never the victims.
OpeningNeverDeadlocks ==
    \A t \in Requests : pc[t] = "deadlock" => KindOf[t] \in {"depart", "finalize"}

\* Every request comes to an end: nobody waits for ever on a row, a key or
\* the chain, whoever has died or was refused while holding it.
EveryRequestEnds == \A t \in Requests : <>(pc[t] \in Finished)

\* personnel.py:562-566: the open record of somebody who leaves is cancelled
\* and does not stay pending in somebody's queue.
DepartedHasNoOpenRecord == \A p \in People : ~employed[p] => OpenFor(p) = {}
=============================================================================
