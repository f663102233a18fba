--------------------------- MODULE DeliverySweep ---------------------------
(***************************************************************************)
(* The outbox of outbound messages (services/delivery.py) and the leader   *)
(* lock its sweep runs under (services/scheduler_lock.py).                 *)
(*                                                                         *)
(* Every web process runs the scheduler; the one that takes the advisory   *)
(* lock reads the due rows, sends them one after the other, and commits    *)
(* what it found out about all of them at the end.  Between the first send *)
(* and that commit nothing is on disk, and the process, the connection     *)
(* that holds the lock, a settings page and the deletion of an account     *)
(* move on at their own pace.                                              *)
(***************************************************************************)
EXTENDS Naturals, FiniteSets

CONSTANTS
    Workers,      \* the web processes
    NoWorker,     \* the lock is free
    LastRow,      \* rows 1 .. LastRow, in the order of created_at
    Kinds,        \* the channels: e-mail and SMS
    Kind,         \* the channel of each row
    Batch,        \* delivery_batch_size
    MaxAttempts,  \* delivery_max_attempts
    Replies,      \* what the channel may answer to a row's message
    Settings,     \* sets of channels the settings page may leave configured
    MaxFailures   \* bound: crashes, lost locks, failed sweeps, deletions

Rows == 1 .. LastRow

ASSUME DeliveryAssumption ==
    /\ LastRow \in Nat /\ Batch \in Nat \ {0} /\ MaxAttempts \in Nat \ {0}
    /\ MaxFailures \in Nat
    /\ IsFiniteSet(Workers) /\ NoWorker \notin Workers
    /\ Kind \in [Rows -> Kinds]
    /\ Settings \subseteq SUBSET Kinds
    /\ Replies \in [Rows -> SUBSET {"ok", "transient", "permanent", "unexpected"}]

VARIABLES
    row,          \* the committed rows: [status, attempts]
    resting,      \* rows whose back-off has not elapsed (~_is_due)
    stored,       \* the channels configured in the settings table
    configured,   \* the channels each process believes configured
    holder,       \* who holds the leader lock
    at,           \* what each process does
    batch,        \* the rows its sweep has yet to handle, as it read them
    draft,        \* what its session will write at the commit
    acknowledged, \* external: sends the service has acknowledged, per row
    failures      \* bound on the events above

sweepVars == <<row, resting, stored, configured, holder, at, batch, draft,
               acknowledged, failures>>

Waiting  == {"pending", "failed"}
Settled  == {"sent", "abandoned"}
Statuses == Waiting \cup Settled \cup {"absent", "gone"}
NoRows   == [r \in {} |-> r]

\* The bound on the counter of a row nothing ever abandons.
Counted(n) == IF n > MaxAttempts THEN MaxAttempts + 1 ELSE n

SweepInit ==
    /\ row = [r \in Rows |-> [status |-> "absent", attempts |-> 0]]
    /\ resting = {}
    /\ stored = Kinds
    /\ configured = [w \in Workers |-> Kinds]
    /\ holder = NoWorker
    /\ at = [w \in Workers |-> "idle"]
    /\ batch = [w \in Workers |-> NoRows]
    /\ draft = [w \in Workers |-> NoRows]
    /\ acknowledged = [r \in Rows |-> 0]
    /\ failures = 0

Failure == failures < MaxFailures /\ failures' = failures + 1

----------------------------------------------------------------------------
(* Around the sweep.                                                       *)

\* A workflow transaction served by w queues a row, on a channel that w
\* believes configured.
Enqueue(w, r) ==
    /\ row[r].status = "absent"
    /\ \A q \in 1 .. r - 1 : row[q].status # "absent"
    /\ Kind[r] \in configured[w]
    /\ row' = [row EXCEPT ![r].status = "pending"]
    /\ UNCHANGED <<resting, stored, configured, holder, at, batch, draft,
                   acknowledged, failures>>

\* The settings page writes the table and refreshes the process that served
\* it; the others keep what they read when they started.
SaveSettings(w, kinds) ==
    /\ stored' = kinds
    /\ configured' = [configured EXCEPT ![w] = kinds]
    /\ UNCHANGED <<row, resting, holder, at, batch, draft, acknowledged, failures>>

\* Deleting an account deletes its notifications, and the rows with them.
Withdraw(r) ==
    /\ Failure
    /\ row[r].status \notin {"absent", "gone"}
    /\ row' = [row EXCEPT ![r].status = "gone"]
    /\ UNCHANGED <<resting, stored, configured, holder, at, batch, draft,
                   acknowledged>>

BackoffElapses(r) ==
    /\ r \in resting
    /\ resting' = resting \ {r}
    /\ UNCHANGED <<row, stored, configured, holder, at, batch, draft,
                   acknowledged, failures>>

----------------------------------------------------------------------------
(* The sweep.                                                              *)

\* Fault: the unlock runs on another connection than the lock.
Release_Leaks(w) == holder' = holder

Release(w) == holder' = IF holder = w THEN NoWorker ELSE holder

\* The session is rolled back or committed: nothing of it is left.
LeaveSweep(w) ==
    /\ at' = [at EXCEPT ![w] = "idle"]
    /\ batch' = [batch EXCEPT ![w] = NoRows]
    /\ draft' = [draft EXCEPT ![w] = NoRows]
    /\ Release(w)

\* Fault: every process sweeps.
LockFree_Always == TRUE

LockFree == holder = NoWorker

\* pg_try_advisory_lock; a process that does not get it records a skipped
\* run and does nothing.
AcquireLeaderLock(w) ==
    /\ at[w] = "idle"
    /\ LockFree
    /\ holder' = w
    /\ at' = [at EXCEPT ![w] = "sweeping"]
    /\ UNCHANGED <<row, resting, stored, configured, batch, draft, acknowledged, failures>>

\* One of the sweeps that run before the delivery raises: everything is
\* rolled back and the run is recorded as failed.
SweepFails(w) ==
    /\ Failure
    /\ at[w] = "sweeping"
    /\ LeaveSweep(w)
    /\ UNCHANGED <<row, resting, stored, configured, acknowledged>>

\* The oldest rows of S, at most n of them.
FirstOf(S, n) == {r \in S : Cardinality({q \in S : q < r}) < n}

\* Four times the batch is read, oldest first; the rows whose back-off has
\* not elapsed are dropped, and the batch is cut from the rest.
Candidates == FirstOf({r \in Rows : row[r].status \in Waiting}, Batch * 4)
DueBatch   == FirstOf(Candidates \ resting, Batch)

ReadQueue(w) ==
    /\ at[w] = "sweeping"
    /\ at' = [at EXCEPT ![w] = "delivering"]
    /\ batch' = [batch EXCEPT ![w] =
           [r \in IF configured[w] = {} THEN {} ELSE DueBatch |-> row[r]]]
    /\ UNCHANGED <<row, resting, stored, configured, holder, draft, acknowledged, failures>>

\* The rows w has yet to handle.
Left(w) == DOMAIN batch[w]

\* Row r is the next of them.
NextInBatch(w, r) ==
    /\ at[w] = "delivering"
    /\ r \in Left(w) /\ \A q \in Left(w) : r <= q
    /\ batch' = [batch EXCEPT ![w] = [q \in Left(w) \ {r} |-> @[q]]]
    /\ UNCHANGED <<row, resting, stored, configured, holder, at, failures>>

\* Its object ends up with these values.
Handle(w, r, status, attempts) ==
    draft' = [draft EXCEPT ![w] =
        [q \in DOMAIN @ \cup {r} |->
            IF q = r THEN [was |-> batch[w][r].status, status |-> status, attempts |-> attempts]
            ELSE @[q]]]

\* The channel is no longer configured: the row is left as it is.
SkipRow(w, r) ==
    /\ NextInBatch(w, r)
    /\ Kind[r] \notin configured[w]
    /\ UNCHANGED <<draft, acknowledged>>

\* Its notification is no longer there.
DropRow(w, r) ==
    /\ NextInBatch(w, r)
    /\ Kind[r] \in configured[w] /\ row[r].status = "gone"
    /\ Handle(w, r, "abandoned", batch[w][r].attempts)
    /\ UNCHANGED acknowledged

\* A transient failure is retried until the cap.
AfterTransient(attempts) == IF attempts >= MaxAttempts THEN "abandoned" ELSE "failed"

StatusAfter(reply, attempts) ==
    CASE reply = "ok"                     -> "sent"
      [] reply = "transient"              -> AfterTransient(attempts)
      [] reply = "permanent"              -> "abandoned"
      [] reply = "unexpected"             -> "failed"

\* The message goes out.  A "transient" reply is a retryable DeliveryError:
\* a refusal, or a message accepted whose acknowledgement was lost.
SendRow(w, r, reply) ==
    /\ NextInBatch(w, r)
    /\ Kind[r] \in configured[w] /\ row[r].status # "gone"
    /\ reply \in Replies[r]
    /\ LET n == batch[w][r].attempts + 1
       IN Handle(w, r, StatusAfter(reply, n), Counted(n))
    /\ acknowledged' = [acknowledged EXCEPT ![r] = @ + IF reply = "ok" THEN 1 ELSE 0]

\* An object is written by its key: a row deleted meanwhile fails the whole
\* commit, and a column that ends as it was read is not written.
Written(w, r) ==
    LET d == draft[w][r] IN
    [status   |-> IF d.status # d.was THEN d.status ELSE row[r].status,
     attempts |-> d.attempts]

Stale(w) == \E r \in DOMAIN draft[w] : row[r].status = "gone"

CommitSweep(w) ==
    /\ at[w] = "delivering" /\ Left(w) = {}
    /\ ~Stale(w)
    /\ row' = [r \in Rows |-> IF r \in DOMAIN draft[w] THEN Written(w, r) ELSE row[r]]
    /\ resting' = (resting \ DOMAIN draft[w])
                    \cup {r \in DOMAIN draft[w] : row'[r].status = "failed"}
    /\ LeaveSweep(w)
    /\ UNCHANGED <<stored, configured, acknowledged, failures>>

CommitFails(w) ==
    /\ at[w] = "delivering" /\ Left(w) = {}
    /\ Stale(w)
    /\ LeaveSweep(w)
    /\ UNCHANGED <<row, resting, stored, configured, acknowledged, failures>>

----------------------------------------------------------------------------
(* Failures.                                                               *)

\* The lock belongs to the session of a dedicated connection and dies with
\* the process; the next start reads the settings table.
ProcessDies(w) ==
    /\ Failure
    /\ LeaveSweep(w)
    /\ configured' = [configured EXCEPT ![w] = stored]
    /\ UNCHANGED <<row, resting, stored, acknowledged>>

\* The dedicated connection dies alone: the sweep goes on without the lock.
LoseLock(w) ==
    /\ Failure
    /\ holder = w
    /\ holder' = NoWorker
    /\ UNCHANGED <<row, resting, stored, configured, at, batch, draft, acknowledged>>

----------------------------------------------------------------------------
SweepNext ==
    \/ \E w \in Workers :
        \/ \E r \in Rows : Enqueue(w, r)
        \/ \E kinds \in Settings : SaveSettings(w, kinds)
        \/ AcquireLeaderLock(w)
        \/ SweepFails(w)
        \/ ReadQueue(w)
        \/ \E r \in Rows : SkipRow(w, r) \/ DropRow(w, r)
        \/ \E r \in Rows, reply \in {"ok", "transient", "permanent", "unexpected"} : SendRow(w, r, reply)
        \/ CommitSweep(w)
        \/ CommitFails(w)
        \/ ProcessDies(w)
        \/ LoseLock(w)
    \/ \E r \in Rows : Withdraw(r) \/ BackoffElapses(r)

SweepSpec == SweepInit /\ [][SweepNext]_sweepVars

\* The scheduler of some process always comes round again and a sweep that
\* has begun goes on; every back-off ends.  Requests owe nothing.
Sweeps(w) ==
    \/ ReadQueue(w)
    \/ \E r \in Rows : SkipRow(w, r) \/ DropRow(w, r)
    \/ \E r \in Rows, reply \in {"ok", "transient", "permanent", "unexpected"} : SendRow(w, r, reply)
    \/ CommitSweep(w) \/ CommitFails(w)

FairSweepSpec ==
    /\ SweepSpec
    /\ WF_sweepVars(\E w \in Workers : AcquireLeaderLock(w))
    /\ \A w \in Workers : WF_sweepVars(Sweeps(w))
    /\ \A r \in Rows : WF_sweepVars(BackoffElapses(r))
=============================================================================
