----------------------------- MODULE AuditTrail -----------------------------
(***************************************************************************)
(* The audit log as a chain of hashes: how a transaction appends to it,    *)
(* the full verification the scheduler runs once a day, the anchor that    *)
(* verification leaves, and the quick check of the audit page, which walks *)
(* only what came after the anchor.                                        *)
(*                                                                         *)
(* The log is a table: a set of rows, which every query orders by their    *)
(* ids.  A hash is taken to be injective: it is the pair of what was       *)
(* hashed.  All events are alike, as created_at is left out of the hash:   *)
(* what tells two rows apart is their place in the chain.  Rows can also   *)
(* be edited or removed behind the program's back.                         *)
(***************************************************************************)
EXTENDS Naturals, Sequences

CONSTANTS Writers,     \* transactions that log
          MaxRows,     \* bound on the ids the sequence gives out
          MaxChecks,   \* bound on the full verifications
          MaxTampering \* bound on the changes made outside the program

TrailAssumption ==
    MaxRows \in Nat /\ MaxChecks \in Nat /\ MaxTampering \in Nat

VARIABLES log,      \* the committed rows: [id, event, prev, hash], and, as
                    \* history, the row each was written after
          pending,  \* what each open transaction has inserted
          lastId,   \* the sequence of ids, which no rollback takes back
          checks,   \* the book of full verifications
          sweep,    \* the verification under way: the last row, as it has read it
          alarms,   \* where the audience was told the chain breaks
          tampered, \* bound: how often a row was edited or removed
          verdicts  \* history: what each walk said and what was true

trailVars == <<log, pending, lastId, checks, sweep, alarms, tampered, verdicts>>

Genesis == <<>>
HashOf(event, prev) == <<event, prev>>
NoHead == [id |-> 0, hash |-> Genesis]

TrailInit ==
        /\ log = {}
        /\ pending = [w \in Writers |-> {}]
        /\ lastId = 0
        /\ checks = <<>> /\ sweep = NoHead
        /\ alarms = {} /\ tampered = 0 /\ verdicts = {}

\* ---------------------------------------------------------------- appending

\* ORDER BY id DESC LIMIT 1.
Latest(rows) == CHOOSE row \in rows : \A other \in rows : other.id <= row.id

LastHash(rows) == IF rows = {} THEN Genesis ELSE Latest(rows).hash

\* Fault: a row is appended without the advisory lock.
MayAppend_Always(w) == TRUE

\* The advisory lock is held to the end of the transaction that took it.
MayAppend(w) == \A v \in Writers \ {w} : pending[v] = {}

\* The row a transaction appends: it sees the committed rows and its own.
Entry(rows) ==
    [id |-> lastId + 1, event |-> "written", prev |-> LastHash(rows),
     hash |-> HashOf("written", LastHash(rows)),
     after |-> IF rows = {} THEN 0 ELSE Latest(rows).id]

LogEvent(w) ==
    /\ MayAppend(w) /\ lastId < MaxRows
    /\ pending' = [pending EXCEPT ![w] = @ \union {Entry(log \union @)}]
    /\ lastId' = lastId + 1
    /\ UNCHANGED <<log, checks, sweep, alarms, tampered, verdicts>>

CommitRows(w) ==
    /\ pending[w] # {}
    /\ log' = log \union pending[w]
    /\ pending' = [pending EXCEPT ![w] = {}]
    /\ UNCHANGED <<lastId, checks, sweep, alarms, tampered, verdicts>>

RollbackRows(w) ==
    /\ pending[w] # {}
    /\ pending' = [pending EXCEPT ![w] = {}]
    /\ UNCHANGED <<log, lastId, checks, sweep, alarms, tampered, verdicts>>

\* ------------------------------------------------------------- verification

Earlier(rows, row) == {other \in rows : other.id < row.id}

\* The row follows from the one before it, the first one from where the walk
\* starts, and its hash was made of its content.
Follows(rows, row, expected) ==
    row.prev = IF Earlier(rows, row) = {} THEN expected ELSE Latest(Earlier(rows, row)).hash
Genuine(row) == row.hash = HashOf(row.event, row.prev)

\* The id of the first row that is wrong; 0 when there is none.
BrokenAt(rows, expected) ==
    LET wrong == {row \in rows : ~Follows(rows, row, expected) \/ ~Genuine(row)}
    IN IF wrong = {} THEN 0
       ELSE (CHOOSE row \in wrong : \A other \in wrong : row.id <= other.id).id

After(rows, id) == {row \in rows : row.id > id}

\* Something is wrong with the rows after the given one: one was edited, or
\* the row it was written after is gone.
Harmed(rows, id) ==
    \E row \in After(rows, id) :
        \/ row.event = "altered"
        \/ row.after # 0 /\ \A other \in rows : other.id # row.after

Judge(ok, rows, id) ==
    verdicts' = verdicts \union {[ok |-> ok, harmed |-> Harmed(rows, id)]}

\* Once a day.  The head is read first: what the anchor will vouch for.
ReadHead ==
    /\ sweep = NoHead /\ Len(checks) < MaxChecks
    /\ log # {}
    /\ sweep' = Latest(log)
    /\ UNCHANGED <<log, pending, lastId, checks, alarms, tampered, verdicts>>

\* The session goes on holding the head as it has read it.
AsRead == {IF row.id = sweep.id THEN sweep ELSE row : row \in log}

Verified(broken) == broken = 0

\* The whole chain is walked; only a walk that found nothing leaves an anchor.
\* A break is told once for each place.  The foreign key refuses the entry when
\* the head that was read is gone.
RecordFullVerification ==
    /\ sweep # NoHead
    /\ IF \A row \in log : row.id # sweep.id
         THEN UNCHANGED <<checks, alarms, verdicts>>
         ELSE LET broken == BrokenAt(AsRead, Genesis)
                  ok == Verified(broken)
              IN /\ checks' = Append(checks, [ok |-> ok, id |-> sweep.id,
                                              hash |-> IF ok THEN sweep.hash ELSE Genesis])
                 /\ alarms' = alarms \union ({broken} \ {0})
                 /\ Judge(ok, AsRead, 0)
    /\ sweep' = NoHead
    /\ UNCHANGED <<log, pending, lastId, tampered>>

Anchors == {i \in DOMAIN checks : checks[i].ok}
Anchor == checks[CHOOSE i \in Anchors : \A j \in Anchors : j <= i]

\* The row of the anchor still has the hash the anchor keeps.
AnchorAgrees == \E row \in log : row.id = Anchor.id /\ row.hash = Anchor.hash

\* The audit page: from the anchor on, if the anchor still agrees with the log;
\* without an anchor, or when asked, from the beginning.
QuickCheck(full) ==
    /\ log # {}
    /\ IF full \/ Anchors = {}
         THEN Judge(BrokenAt(log, Genesis) = 0, log, 0)
         ELSE LET later == After(log, Anchor.id)
              IN Judge(AnchorAgrees /\ BrokenAt(later, Anchor.hash) = 0, log, Anchor.id)
    /\ UNCHANGED <<log, pending, lastId, checks, sweep, alarms, tampered>>

\* ------------------------------------------------ behind the program's back

Tamper == tampered < MaxTampering /\ tampered' = tampered + 1

EditRow(row) ==
    /\ row.event = "written" /\ Tamper
    /\ log' = (log \ {row}) \union {[row EXCEPT !.event = "altered"]}
    /\ UNCHANGED <<pending, lastId, checks, sweep, alarms, verdicts>>

\* A row a verification refers to is kept by its foreign key.
RemoveRow(row) ==
    /\ \A c \in DOMAIN checks : checks[c].id # row.id
    /\ Tamper
    /\ log' = log \ {row}
    /\ UNCHANGED <<pending, lastId, checks, sweep, alarms, verdicts>>

TrailNext ==
    \/ \E w \in Writers : LogEvent(w) \/ CommitRows(w) \/ RollbackRows(w)
    \/ ReadHead \/ RecordFullVerification
    \/ \E full \in BOOLEAN : QuickCheck(full)
    \/ \E row \in log : EditRow(row) \/ RemoveRow(row)

TrailSpec == TrailInit /\ [][TrailNext]_trailVars

-----------------------------------------------------------------------------

\* A walk is believed: it reports a break exactly when one of the rows it read,
\* and was to vouch for, was edited, or removed from before another, and never on a log
\* nobody touched.  Concurrent transactions, rolled-back ones and the anchor
\* make neither a false alarm nor a green page over a changed row.
VerdictIsTrue == \A v \in verdicts : v.ok = ~v.harmed /\ (tampered = 0 => v.ok)

=============================================================================
