---------------------------- MODULE Once_proofs ----------------------------
(***************************************************************************)
(* What is done once is done once: the change of a proposal of the         *)
(* assistant, for any number of tabs, and the sending of a message, for    *)
(* any processes, rows and answers of the channels.                        *)
(***************************************************************************)
EXTENDS PendingAction, DeliveryProperties, FiniteSetTheorems, TLAPS

-----------------------------------------------------------------------------
(* The confirmation point: the change of a proposal is made at most once,  *)
(* the event log does not contradict it, and a failure leaves nothing      *)
(* behind.  Whoever finds the card pending and claims it is the only owner *)
(* there will ever be, and as long as there is an owner no event has been  *)
(* logged and, for a tool that does not commit by itself, nothing is on    *)
(* disk.                                                                   *)

\* A decision that has claimed the card and has not ended.
Owns(t) == pc[t] \in {"run", "finish", "refusal", "error"}

\* Nobody has an effect before the card is claimed.
Untouched == card = "pending" => effect = 0 /\ events = {} /\ \A t \in Requests : ~Owns(t)

OneOwner == \A s, t \in Requests : Owns(s) /\ Owns(t) => s = t

\* What the owner's session holds, and what of it is on disk.
Held ==
    /\ \A t \in unsaved : pc[t] \in {"finish", "refusal", "error"} /\ tool # "committing"
    /\ \A t \in Requests :
        /\ pc[t] = "run" => effect = 0
        /\ Owns(t) /\ tool # "committing" => effect = 0
        /\ pc[t] = "finish" => IF tool = "committing" THEN effect = 1 ELSE t \in unsaved

\* The log is written by those who end.
Logged ==
    /\ events # {} \/ card = "failed" => \A t \in Requests : ~Owns(t)
    /\ "rejected" \in events => effect = 0 /\ "confirmed" \notin events
    /\ "confirmed" \in events => effect = 1
    /\ ("failed" \in events \/ card = "failed") /\ tool # "committing" => effect = 0

Inv == CardTypeOK /\ Untouched /\ OneOwner /\ Held /\ effect <= 1 /\ Logged

LEMMA InitInv == Init => Inv
<1> SUFFICES ASSUME Init PROVE Inv
  OBVIOUS
<1> USE DEF Init
<1>1. CardTypeOK
  <2>1. mishaps \in 0 .. MaxMishaps
    BY CardAssumption DEF CardAssumption
  <2>2. pc \in [Requests -> {"start"}] /\ unsaved = {} /\ events = {}
    OBVIOUS
  <2> QED BY <2>1, <2>2 DEF CardTypeOK, Finished
<1>2. Untouched /\ OneOwner
  BY DEF Untouched, OneOwner, Owns
<1>3. Held /\ Logged /\ effect <= 1
  BY DEF Held, Logged, Owns
<1> QED BY <1>1, <1>2, <1>3 DEF Inv

\* A step that touches neither the card nor its effects, and that makes no
\* owner of anybody, keeps the invariant.
LEMMA PassInv ==
  ASSUME Inv, NEW t \in Requests, ~Owns(t),
         NEW stage \in {"expire", "claim", "reject", "refused"}, Onwards(t, stage)
  PROVE  Inv'
  BY DEF Inv, CardTypeOK, Finished, Untouched, OneOwner, Held, Logged, Owns, Onwards, Goto

LEMMA NextInv == Inv /\ [Next]_vars => Inv'
<1> SUFFICES ASSUME Inv, [Next]_vars PROVE Inv'
  OBVIOUS
<1> USE DEF Inv, CardTypeOK, Finished, Untouched, OneOwner, Held, Logged, Owns, Goto
<1>1. ASSUME NEW t \in Requests, Check(t) PROVE Inv'
  <2>1. Verdict \in {"expire", "claim", "refused"}
    BY DEF Verdict
  <2> QED BY <1>1, <2>1, PassInv DEF Check
<1>2. ASSUME NEW t \in Requests, ReadToReject(t) PROVE Inv'
  BY <1>2, PassInv DEF ReadToReject
<1>3. ASSUME NEW t \in Requests, Expire(t) PROVE Inv'
  <2>1. CASE Onwards(t, "refused")
    BY <1>3, <2>1, PassInv DEF Expire
  <2>2. CASE Save(t, "expired", "refused")
    BY <1>3, <2>2 DEF Expire, Save
  <2> QED BY <1>3, <2>1, <2>2 DEF Expire
<1>4. ASSUME NEW t \in Requests, Claim(t) PROVE Inv'
  <2>1. CASE ~Claimable
    BY <1>4, <2>1, PassInv DEF Claim
  <2>2. CASE Claimable
    BY <1>4, <2>2 DEF Claim, Claimable, Save
  <2> QED BY <2>1, <2>2
<1>5. ASSUME NEW t \in Requests, RunTool(t) PROVE Inv'
  BY <1>5 DEF RunTool
<1>6. ASSUME NEW t \in Requests, ToolFails(t) PROVE Inv'
  BY <1>6 DEF ToolFails, Onwards
<1>7. ASSUME NEW t \in Requests, Finish(t) PROVE Inv'
  BY <1>7 DEF Finish, Flushed, Deleted
<1>8. ASSUME NEW t \in Requests, Fail(t) PROVE Inv'
  BY <1>8 DEF Fail, FailedStatus, Kept, Deleted
<1>9. ASSUME NEW t \in Requests, Reject(t) PROVE Inv'
  <2>1. CASE ~Rejectable
    BY <1>9, <2>1, PassInv DEF Reject
  <2>2. CASE Rejectable
    <3>1. /\ card = "pending" /\ card' = "rejected" /\ events' = events \cup {"rejected"}
          /\ pc' = [pc EXCEPT ![t] = "done"]
          /\ UNCHANGED <<tool, stale, permitted, effect, unsaved, mishaps>>
      BY <1>9, <2>2 DEF Reject, Rejectable
    <3>2. events = {} /\ effect = 0 /\ unsaved = {} /\ \A s \in Requests : ~Owns(s) /\ ~Owns(s)'
      BY <3>1
    <3>3. CardTypeOK'
      BY <3>1
    <3>4. Held' /\ Logged' /\ Untouched' /\ OneOwner'
      BY <3>1, <3>2
    <3> QED BY <3>1, <3>2, <3>3, <3>4
  <2> QED BY <2>1, <2>2
<1>10. ASSUME NEW t \in Requests, Crash(t) PROVE Inv'
  BY <1>10, CardAssumption DEF Crash, Mishap, CardAssumption
<1>11. CASE Expires
  BY <1>11 DEF Expires
<1>12. CASE DeleteConversation
  BY <1>12, CardAssumption DEF DeleteConversation, Mishap, Deleted, CardAssumption
<1>13. CASE Purge
  BY <1>13 DEF Purge, Deleted
<1>14. CASE TogglePermission
  BY <1>14 DEF TogglePermission
<1>15. CASE UNCHANGED vars
  BY <1>15 DEF vars
<1> QED
  BY <1>1, <1>2, <1>3, <1>4, <1>5, <1>6, <1>7, <1>8, <1>9, <1>10, <1>11, <1>12, <1>13,
     <1>14, <1>15 DEF Next, Begin, Works

LEMMA Invariance == Spec => []Inv
  BY InitInv, NextInv, PTL DEF Spec

\* Type correctness of the card, the log and the decisions in flight.
THEOREM CardTypeCorrect == Spec => []CardTypeOK
<1>1. Inv => CardTypeOK
  BY DEF Inv
<1> QED BY <1>1, Invariance, PTL

\* The change of a proposal is made at most once, for any number of tabs
\* (_claim_for_execution).
THEOREM AtMostOnce == Spec => []ExecutedAtMostOnce
<1>1. Inv => ExecutedAtMostOnce
  BY DEF Inv, CardTypeOK, Held, Owns, ExecutedAtMostOnce
<1> QED BY <1>1, Invariance, PTL

\* A rejected change is on no disk, a confirmed one is, and no card is logged
\* as both (confirm and reject).
THEOREM EventsTrue == Spec => []EventsAreTrue
<1>1. Inv => EventsAreTrue
  BY DEF Inv, Logged, EventsAreTrue
<1> QED BY <1>1, Invariance, PTL

\* A failed change left nothing behind unless its tool had committed it
\* itself (H-3).
THEOREM FailureClean == Spec => []FailureLeavesNothing
<1>1. Inv => FailureLeavesNothing
  BY DEF Inv, Logged, FailureLeavesNothing
<1> QED BY <1>1, Invariance, PTL

-----------------------------------------------------------------------------
(* The outbox: a message is acknowledged once, and once more for each      *)
(* failure at most.  The argument keeps an account for each row: the sends *)
(* that were acknowledged, the sweeps that go on without the lock and may  *)
(* still send it or have it sent again, and what the row itself is good    *)
(* for, to the holder of the lock or to a sweep to come.  The sum grows    *)
(* only with a failure: who loses the lock, dies, or loses a row of the    *)
(* batch, pays for what nobody will remember.                              *)

RowFields == {"status", "attempts"}

\* The rows a sweep has read and not put back.
ReadBy(w) == Left(w) \cup DOMAIN draft[w]

SessionShape(w) ==
  /\ ReadBy(w) \subseteq Rows /\ Left(w) \cap DOMAIN draft[w] = {}
  /\ at[w] # "delivering" => ReadBy(w) = {}
  /\ \A r \in Left(w) : batch[w][r].status \in Waiting
  /\ \A r \in DOMAIN draft[w] :
       draft[w][r].was \in Waiting /\ draft[w][r].status \in Settled \cup {"failed"}

SweepShape ==
  /\ row = [r \in Rows |-> row[r]] /\ \A r \in Rows : row[r] = [f \in RowFields |-> row[r][f]]
  /\ acknowledged \in [Rows -> Nat] /\ failures \in Nat
  /\ at = [w \in Workers |-> at[w]] /\ batch = [w \in Workers |-> batch[w]]
  /\ draft = [w \in Workers |-> draft[w]]
  /\ holder \in Workers \cup {NoWorker} /\ (holder # NoWorker => at[holder] # "idle")
  /\ \A w \in Workers : SessionShape(w)

\* The sweep of w may send the row, or leave it to be sent again.
Live(w, r) ==
  \/ at[w] = "sweeping"
  \/ r \in Left(w)
  \/ r \in DOMAIN draft[w] /\ draft[w][r].status = "failed"

\* The sweeps that go on without the lock, as far as the row is concerned.
Lost(r) == {w \in Workers \ {holder} : Live(w, r)}

\* A sweep to come may send the row.
MaySend(r) == row[r].status \in Waiting \cup {"absent"}

\* The sweep of w has read a row that is gone: its commit may fail.
Doomed(w) == \E q \in ReadBy(w) : row[q].status = "gone"

Bit(b) == IF b THEN 1 ELSE 0

\* The sends the row is good for without a further failure, lost sweeps aside.
Due(r) ==
  IF holder # NoWorker /\ r \in ReadBy(holder)
    THEN Bit(Live(holder, r)) + Bit(Doomed(holder) /\ MaySend(r))
    ELSE Bit(MaySend(r))

Balance(r) == acknowledged[r] + Cardinality(Lost(r)) + Due(r) <= 1 + failures

DeliveryInv == SweepShape /\ \A r \in Rows : Balance(r)

-----------------------------------------------------------------------------
\* The sum has not grown by more than the failures.
LEMMA Balanced ==
  ASSUME DeliveryAssumption, SweepShape, SweepShape', NEW r \in Rows, Balance(r),
         LET before == acknowledged[r] + Due(r) + failures'
             after == (acknowledged[r])' + Due(r)' + failures
         IN \/ Lost(r)' \subseteq Lost(r) /\ after <= before
            \/ \E w \in Workers : Lost(r)' \subseteq Lost(r) \cup {w} /\ after + 1 <= before
            \/ \E w \in Lost(r) : Lost(r)' \subseteq Lost(r) \ {w} /\ after <= before + 1
  PROVE  Balance(r)'
<1> DEFINE L == Lost(r)  M == Lost(r)'  a == acknowledged[r]  b == acknowledged'[r]
<1>1. IsFiniteSet(L)
  <2>1. L \in SUBSET Workers
    BY DEF Lost
  <2> QED BY <2>1, FS_Subset DEF DeliveryAssumption
<1>2. Due(r) \in Nat /\ Due(r)' \in Nat
  BY DEF Due, Bit
<1>3. a \in Nat /\ b \in Nat /\ failures \in Nat /\ failures' \in Nat
  BY DEF SweepShape
<1>4. Cardinality(L) \in Nat
  BY <1>1, FS_CardinalityType
<1>5. a + Cardinality(L) + Due(r) <= 1 + failures
  BY DEF Balance
<1> HIDE DEF L, M, a, b
<1>6. CASE M \subseteq L /\ b + Due(r)' + failures <= a + Due(r) + failures'
  <2>1. IsFiniteSet(M) /\ Cardinality(M) <= Cardinality(L)
    BY <1>1, <1>6, FS_Subset
  <2>2. Cardinality(M) \in Nat
    BY <2>1, FS_CardinalityType
  <2>3. b + Cardinality(M) + Due(r)' <= 1 + failures'
    BY <1>2, <1>3, <1>4, <1>5, <1>6, <2>1, <2>2
  <2> QED BY <2>3 DEF Balance, M, b
<1>7. CASE \E w \in Workers : M \subseteq L \cup {w} /\ b + Due(r)' + failures + 1 <= a + Due(r) + failures'
  <2>1. PICK w \in Workers : M \subseteq L \cup {w}
    BY <1>7
  <2>2. /\ IsFiniteSet(L \cup {w}) /\ Cardinality(L \cup {w}) <= Cardinality(L) + 1
        /\ Cardinality(L \cup {w}) \in Nat
    <3>1. /\ IsFiniteSet(L \cup {w})
          /\ Cardinality(L \cup {w}) = IF w \in L THEN Cardinality(L) ELSE Cardinality(L) + 1
      BY <1>1, FS_AddElement
    <3> QED BY <1>4, <3>1
  <2>3. IsFiniteSet(M) /\ Cardinality(M) <= Cardinality(L \cup {w})
    BY <2>1, <2>2, FS_Subset
  <2>4. Cardinality(M) \in Nat
    BY <2>3, FS_CardinalityType
  <2>5. b + Cardinality(M) + Due(r)' <= 1 + failures'
    BY <1>2, <1>3, <1>4, <1>5, <1>7, <2>2, <2>3, <2>4
  <2> QED BY <2>5 DEF Balance, M, b
<1>8. CASE \E w \in L : M \subseteq L \ {w} /\ b + Due(r)' + failures <= a + Due(r) + failures' + 1
  <2>1. PICK w \in L : M \subseteq L \ {w}
    BY <1>8
  <2>2. IsFiniteSet(L \ {w}) /\ Cardinality(L \ {w}) = Cardinality(L) - 1
    BY <1>1, <2>1, FS_RemoveElement
  <2>3. IsFiniteSet(M) /\ Cardinality(M) <= Cardinality(L \ {w})
    BY <2>1, <2>2, FS_Subset
  <2>4. Cardinality(M) \in Nat
    BY <2>3, FS_CardinalityType
  <2>5. b + Cardinality(M) + Due(r)' <= 1 + failures'
    BY <1>2, <1>3, <1>4, <1>5, <1>8, <2>2, <2>3, <2>4
  <2> QED BY <2>5 DEF Balance, M, b
<1> QED BY <1>6, <1>7, <1>8 DEF L, M, a, b

\* The steps of one process leave the sessions of the others alone.
OthersRest(w) ==
  /\ at' = [at EXCEPT ![w] = at'[w]]
  /\ batch' = [batch EXCEPT ![w] = batch'[w]]
  /\ draft' = [draft EXCEPT ![w] = draft'[w]]

\* What it leaves alone, for each of the others.
Same(v) == /\ at'[v] = at[v] /\ batch'[v] = batch[v] /\ draft'[v] = draft[v]
           /\ Left(v)' = Left(v) /\ ReadBy(v)' = ReadBy(v)
           /\ \A r : Live(v, r)' = Live(v, r)

LEMMA OthersAreTheSame ==
  ASSUME SweepShape, NEW w \in Workers, OthersRest(w)
  PROVE  /\ \A v \in Workers \ {w} : Same(v)
         /\ at' = [v \in Workers |-> at'[v]] /\ batch' = [v \in Workers |-> batch'[v]]
         /\ draft' = [v \in Workers |-> draft'[v]]
<1>1. /\ at' = [v \in Workers |-> at'[v]] /\ batch' = [v \in Workers |-> batch'[v]]
      /\ draft' = [v \in Workers |-> draft'[v]]
  BY DEF SweepShape, OthersRest
<1>2. \A v \in Workers \ {w} : at'[v] = at[v] /\ batch'[v] = batch[v] /\ draft'[v] = draft[v]
  BY DEF SweepShape, OthersRest
<1> QED BY <1>1, <1>2 DEF Same, Left, ReadBy, Live

LEMMA InitDelivery == DeliveryAssumption /\ SweepInit => DeliveryInv
<1> SUFFICES ASSUME DeliveryAssumption, SweepInit PROVE DeliveryInv
  OBVIOUS
<1>1. \A w \in Workers : ReadBy(w) = {} /\ Left(w) = {} /\ DOMAIN draft[w] = {} /\ at[w] = "idle"
  BY DEF SweepInit, NoRows, ReadBy, Left
<1>2. \A r \in Rows : row[r] = [f \in RowFields |-> row[r][f]] /\ row[r].status = "absent"
  BY DEF SweepInit, RowFields
<1>3. SweepShape
  BY <1>1, <1>2 DEF SweepInit, SweepShape, SessionShape
<1>4. ASSUME NEW r \in Rows
      PROVE  Balance(r)
  <2>1. Lost(r) = {}
    BY <1>1 DEF Lost, Live
  <2>2. Due(r) = 1 /\ acknowledged[r] = 0 /\ failures = 0
    BY <1>2 DEF Due, Bit, MaySend, SweepInit
  <2> QED BY <2>1, <2>2, FS_EmptySet DEF Balance
<1> QED BY <1>3, <1>4 DEF DeliveryInv

-----------------------------------------------------------------------------
\* The rows have their shape, and none is gone that was not.
RowsStayWell ==
  /\ row' = [r \in Rows |-> row'[r]]
  /\ \A r \in Rows : row'[r] = [f \in RowFields |-> row'[r][f]]
  /\ \A r \in Rows : row'[r].status = "gone" => row[r].status = "gone"

\* What a row is good for, when the holder of the lock does nothing.
LEMMA DueAsBefore ==
  ASSUME SweepShape, DeliveryAssumption, RowsStayWell, NEW r \in Rows, holder' = holder,
         holder # NoWorker => Same(holder)
  PROVE  /\ Due(r) \in Nat /\ Due(r)' \in Nat /\ Due(r)' <= Due(r) + 1
         /\ (MaySend(r)' => MaySend(r)) => Due(r)' <= Due(r)
<1>1. CASE holder = NoWorker
  BY <1>1 DEF Due, Bit
<1>2. CASE holder # NoWorker
  <2>1. holder \in Workers /\ ReadBy(holder) \subseteq Rows
    BY <1>2 DEF SweepShape, SessionShape
  <2>2. ReadBy(holder)' = ReadBy(holder) /\ Live(holder, r)' = Live(holder, r)
    BY <1>2 DEF Same, ReadBy, Left, Live
  <2>3. Doomed(holder)' => Doomed(holder)
    BY <2>1, <2>2 DEF Doomed, RowsStayWell
  <2> QED BY <1>2, <2>2, <2>3 DEF Due, Bit
<1> QED BY <1>1, <1>2

\* A process that leaves its sweep: it is not lost any more, and if it held the
\* lock the row is good for what it is on disk.
LEMMA Leaving ==
  ASSUME DeliveryAssumption, SweepShape, NEW w \in Workers, LeaveSweep(w), RowsStayWell,
         acknowledged' = acknowledged, failures' \in Nat
  PROVE  /\ SweepShape'
         /\ \A r \in Rows : Lost(r)' \subseteq Lost(r) \ {w}
         /\ \A r \in Rows : holder = w => Due(r)' = Bit(MaySend(r)')
         /\ holder # w => holder' = holder /\ (holder # NoWorker => Same(holder))
<1>1. /\ at' = [at EXCEPT ![w] = "idle"] /\ batch' = [batch EXCEPT ![w] = NoRows]
      /\ draft' = [draft EXCEPT ![w] = NoRows]
      /\ holder' = IF holder = w THEN NoWorker ELSE holder
  BY DEF LeaveSweep, Release
<1>2. at'[w] = "idle" /\ batch'[w] = NoRows /\ draft'[w] = NoRows
  BY <1>1 DEF SweepShape
<1>3. OthersRest(w)
  BY <1>1, <1>2 DEF OthersRest
<1>4. /\ \A v \in Workers \ {w} : Same(v)
      /\ at' = [v \in Workers |-> at'[v]] /\ batch' = [v \in Workers |-> batch'[v]]
      /\ draft' = [v \in Workers |-> draft'[v]]
  BY <1>3, OthersAreTheSame
<1>5. ReadBy(w)' = {} /\ Left(w)' = {} /\ DOMAIN draft'[w] = {} /\ \A r : ~Live(w, r)'
  BY <1>2 DEF ReadBy, Left, Live, NoRows
<1>6. SessionShape(w)'
  BY <1>5 DEF SessionShape
<1>7. \A v \in Workers \ {w} : SessionShape(v)'
  BY <1>4 DEF SweepShape, SessionShape, Same
<1>8. holder' \in Workers \cup {NoWorker} /\ (holder' # NoWorker => at'[holder'] # "idle")
  BY <1>1, <1>4 DEF SweepShape, Same
<1>9. SweepShape'
  BY <1>4, <1>6, <1>7, <1>8 DEF SweepShape, RowsStayWell
<1>10. ASSUME NEW r \in Rows
       PROVE  Lost(r)' \subseteq Lost(r) \ {w}
  BY <1>1, <1>4, <1>5 DEF Lost, Same
<1>11. ASSUME NEW r \in Rows, holder = w
       PROVE  Due(r)' = Bit(MaySend(r)')
  BY <1>1, <1>11 DEF Due, Bit
<1>12. holder # w => holder' = holder /\ (holder # NoWorker => Same(holder))
  BY <1>1, <1>4 DEF SweepShape
<1> QED BY <1>9, <1>10, <1>11, <1>12

\* What a failed sweep has done is forgotten, at the price of the failure.
LEMMA FailedSweeps ==
  ASSUME DeliveryAssumption, DeliveryInv, NEW w \in Workers,
         SweepFails(w) \/ ProcessDies(w) \/ CommitFails(w)
  PROVE  DeliveryInv'
<1>1. LeaveSweep(w) /\ row' = row /\ acknowledged' = acknowledged
  BY DEF SweepFails, ProcessDies, CommitFails
<1>2. /\ failures \in Nat /\ failures' \in Nat
      /\ failures' = failures + 1 \/ (failures' = failures /\ CommitFails(w))
  BY DEF SweepFails, ProcessDies, CommitFails, Failure, DeliveryInv, SweepShape
<1>3. RowsStayWell
  BY <1>1 DEF RowsStayWell, DeliveryInv, SweepShape
<1>4. /\ SweepShape' /\ \A r \in Rows : Lost(r)' \subseteq Lost(r)
      /\ \A r \in Rows : holder = w => Due(r)' = Bit(MaySend(r)')
      /\ holder # w => holder' = holder /\ (holder # NoWorker => Same(holder))
  BY <1>1, <1>2, <1>3, Leaving DEF DeliveryInv
<1>5. ASSUME NEW r \in Rows
      PROVE  Balance(r)'
  <2>1. MaySend(r)' = MaySend(r)
    BY <1>1 DEF MaySend
  <2>2. Due(r) \in Nat /\ Due(r)' \in Nat
    BY DEF Due, Bit
  <2>3. Due(r)' + failures <= Due(r) + failures'
    <3>1. CASE holder # w
      <4>1. Due(r)' <= Due(r)
        BY <1>3, <1>4, <2>1, <3>1, DueAsBefore DEF DeliveryInv
      <4> QED BY <1>2, <2>2, <4>1
    <3>2. CASE holder = w /\ failures' = failures + 1
      <4>1. Due(r)' <= 1
        BY <1>4, <3>2 DEF Bit
      <4> QED BY <1>2, <2>2, <3>2, <4>1
    <3>3. CASE holder = w /\ CommitFails(w)
      <4>1. Doomed(w)
        BY <3>3 DEF CommitFails, Stale, Doomed, ReadBy
      <4>2. Due(r)' <= Due(r)
        BY <1>4, <2>1, <3>3, <4>1 DEF Due, Bit, DeliveryAssumption
      <4> QED BY <1>2, <2>2, <4>2
    <3> QED BY <1>2, <3>1, <3>2, <3>3
  <2>4. acknowledged[r] \in Nat /\ acknowledged'[r] = acknowledged[r]
    BY <1>1 DEF DeliveryInv, SweepShape
  <2>5. acknowledged'[r] + Due(r)' + failures <= acknowledged[r] + Due(r) + failures'
    BY <1>2, <2>2, <2>3, <2>4
  <2> QED BY <1>4, <2>5, Balanced DEF DeliveryInv
<1> QED BY <1>4, <1>5 DEF DeliveryInv

\* What a finished sweep writes: a row that was settled is settled, and a lost
\* sweep that leaves a failed one to be sent again is lost no more.
LEMMA CommittedSweeps ==
  ASSUME DeliveryAssumption, DeliveryInv, NEW w \in Workers, CommitSweep(w)
  PROVE  DeliveryInv'
<1> DEFINE Mine == DOMAIN draft[w]
<1>1. /\ LeaveSweep(w) /\ acknowledged' = acknowledged /\ failures' = failures
      /\ row' = [r \in Rows |-> IF r \in Mine THEN Written(w, r) ELSE row[r]]
      /\ \A r \in Mine : row[r].status # "gone"
      /\ at[w] = "delivering" /\ Left(w) = {}
  BY DEF CommitSweep, Stale
<1>2. SessionShape(w) /\ failures \in Nat /\ Mine \subseteq Rows
  BY DEF DeliveryInv, SweepShape, SessionShape, ReadBy
<1>3. ASSUME NEW r \in Mine
      PROVE  /\ row'[r] = [f \in RowFields |-> row'[r][f]]
             /\ row'[r].status = IF draft[w][r].status # draft[w][r].was THEN draft[w][r].status
                                ELSE row[r].status
  BY <1>1, <1>2 DEF Written, RowFields
<1>4. \A r \in Mine : /\ draft[w][r].was \in Waiting
                      /\ draft[w][r].status \in Settled \cup {"failed"}
  BY <1>2 DEF SessionShape
<1>5. \A r \in Mine : draft[w][r].status # "failed" => row'[r].status \in Settled
  BY <1>3, <1>4 DEF Waiting, Settled
<1>6. RowsStayWell
  <2>1. \A r \in Rows \ Mine : row'[r] = row[r]
    BY <1>1
  <2>2. ASSUME NEW r \in Mine
        PROVE  row'[r].status # "gone"
    <3>1. draft[w][r].status # "gone" /\ row[r].status # "gone"
      BY <1>1, <1>4 DEF Settled
    <3>2. row'[r].status = draft[w][r].status \/ row'[r].status = row[r].status
      BY <1>3
    <3> QED BY <3>1, <3>2
  <2>3. row' = [r \in Rows |-> row'[r]]
    BY <1>1
  <2> QED BY <1>3, <2>1, <2>2, <2>3 DEF RowsStayWell, DeliveryInv, SweepShape
<1>7. /\ SweepShape' /\ \A r \in Rows : Lost(r)' \subseteq Lost(r) \ {w}
      /\ \A r \in Rows : holder = w => Due(r)' = Bit(MaySend(r)')
      /\ holder # w => holder' = holder /\ (holder # NoWorker => Same(holder))
  BY <1>1, <1>2, <1>6, Leaving DEF DeliveryInv
<1>8. ASSUME NEW r \in Rows
      PROVE  Balance(r)'
  <2>1. Due(r) \in Nat /\ Due(r)' \in Nat
    BY DEF Due, Bit
  <2>2. acknowledged[r] \in Nat /\ acknowledged'[r] = acknowledged[r]
    BY <1>1 DEF DeliveryInv, SweepShape
  <2>3. CASE r \notin Mine \/ draft[w][r].status # "failed"
    <3>1. MaySend(r)' => MaySend(r) /\ r \notin Mine
      BY <1>1, <1>5, <2>3 DEF MaySend, Settled, Waiting
    <3>2. Due(r)' <= Due(r)
      <4>1. CASE holder # w
        BY <1>6, <1>7, <3>1, <4>1, DueAsBefore DEF DeliveryInv
      <4>2. CASE holder = w
        <5>1. r \notin Mine => Due(r) = Bit(MaySend(r))
          BY <1>1, <4>2 DEF Due, ReadBy
        <5> QED BY <1>7, <2>1, <3>1, <4>2, <5>1 DEF Bit
      <4> QED BY <4>1, <4>2
    <3>3. acknowledged'[r] + Due(r)' + failures <= acknowledged[r] + Due(r) + failures'
      BY <1>1, <1>2, <2>1, <2>2, <3>2
    <3> QED BY <1>7, <3>3, Balanced DEF DeliveryInv
  <2>4. CASE r \in Mine /\ draft[w][r].status = "failed"
    <3>1. Live(w, r)
      BY <2>4 DEF Live
    <3>2. CASE holder = w
      <4>1. Due(r) >= 1 /\ Due(r)' <= 1
        BY <1>7, <2>1, <2>4, <3>1, <3>2 DEF Due, Bit, ReadBy, DeliveryAssumption
      <4>2. acknowledged'[r] + Due(r)' + failures <= acknowledged[r] + Due(r) + failures'
        BY <1>1, <1>2, <2>1, <2>2, <4>1
      <4> QED BY <1>7, <4>2, Balanced DEF DeliveryInv
    <3>3. CASE holder # w
      <4>1. w \in Lost(r)
        BY <3>1, <3>3 DEF Lost
      <4>2. Due(r)' <= Due(r) + 1
        BY <1>6, <1>7, <3>3, DueAsBefore DEF DeliveryInv
      <4>3. acknowledged'[r] + Due(r)' + failures <= acknowledged[r] + Due(r) + failures' + 1
        BY <1>1, <1>2, <2>1, <2>2, <4>2
      <4> QED BY <1>7, <4>1, <4>3, Balanced DEF DeliveryInv
    <3> QED BY <3>2, <3>3
  <2> QED BY <2>3, <2>4
<1> QED BY <1>7, <1>8 DEF DeliveryInv

\* The settings, a queued row, an elapsed back-off, a row withdrawn.
LEMMA AroundTheSweep ==
  ASSUME DeliveryAssumption, DeliveryInv,
         \/ \E w \in Workers : \/ \E r \in Rows : Enqueue(w, r)
                              \/ \E kinds \in Settings : SaveSettings(w, kinds)
         \/ \E r \in Rows : Withdraw(r) \/ BackoffElapses(r)
         \/ UNCHANGED sweepVars
  PROVE  DeliveryInv'
<1>1. UNCHANGED <<holder, at, batch, draft, acknowledged>>
  BY DEF Enqueue, SaveSettings, Withdraw, BackoffElapses, sweepVars
<1>2. \/ failures' = failures /\ row' = row
      \/ failures' = failures /\ \E q \in Rows :
           row[q].status = "absent" /\ row' = [row EXCEPT ![q].status = "pending"]
      \/ failures' = failures + 1 /\ \E q \in Rows : row' = [row EXCEPT ![q].status = "gone"]
  BY DEF Enqueue, SaveSettings, Withdraw, BackoffElapses, Failure, sweepVars
<1>3. /\ row' = [r \in Rows |-> row'[r]]
      /\ \A r \in Rows : row'[r] = [f \in RowFields |-> row'[r][f]]
  BY <1>2 DEF DeliveryInv, SweepShape, RowFields
<1>4. \A r \in Rows : MaySend(r)' => MaySend(r)
  BY <1>2 DEF DeliveryInv, SweepShape, RowFields, MaySend, Waiting
<1>5. failures \in Nat /\ failures' \in Nat /\ failures <= failures'
  BY <1>2 DEF DeliveryInv, SweepShape
<1>6. \A w : Left(w)' = Left(w) /\ ReadBy(w)' = ReadBy(w) /\ \A r : Live(w, r)' = Live(w, r)
  BY <1>1 DEF Left, ReadBy, Live
<1>7. \A w \in Workers : SessionShape(w)'
  BY <1>1, <1>6 DEF DeliveryInv, SweepShape, SessionShape
<1>8. SweepShape'
  BY <1>1, <1>3, <1>5, <1>7 DEF DeliveryInv, SweepShape
<1>9. ASSUME NEW r \in Rows
      PROVE  Balance(r)'
  <2>1. Lost(r)' \subseteq Lost(r)
    BY <1>1, <1>6 DEF Lost
  <2>2. Due(r) \in Nat /\ Due(r)' \in Nat
    BY DEF Due, Bit
  <2>3. Due(r)' + failures <= Due(r) + failures'
    <3>1. CASE failures' = failures
      <4>1. \A q \in Rows : row'[q].status = "gone" => row[q].status = "gone"
        <5>1. CASE row' = row
          BY <5>1
        <5>2. ASSUME NEW q \in Rows, row' = [row EXCEPT ![q].status = "pending"], NEW p \in Rows
              PROVE  row'[p].status = "gone" => row[p].status = "gone"
          BY <5>2 DEF DeliveryInv, SweepShape, RowFields
        <5> QED BY <1>2, <1>5, <3>1, <5>1, <5>2
      <4>2. \A w : Same(w)
        BY <1>1, <1>6 DEF Same
      <4>3. Due(r)' <= Due(r)
        BY <1>1, <1>3, <1>4, <4>1, <4>2, DueAsBefore DEF DeliveryInv, RowsStayWell
      <4> QED BY <1>5, <2>2, <3>1, <4>3
    <3>2. CASE failures' = failures + 1
      <4>1. Due(r)' <= Due(r) + 1
        BY <1>1, <1>4, <1>6 DEF Due, Bit
      <4> QED BY <1>5, <2>2, <3>2, <4>1
    <3> QED BY <1>2, <3>1, <3>2
  <2>4. acknowledged[r] \in Nat /\ acknowledged'[r] = acknowledged[r]
    BY <1>1 DEF DeliveryInv, SweepShape
  <2>5. acknowledged'[r] + Due(r)' + failures <= acknowledged[r] + Due(r) + failures'
    BY <1>5, <2>2, <2>3, <2>4
  <2> QED BY <1>8, <2>1, <2>5, Balanced DEF DeliveryInv
<1> QED BY <1>8, <1>9 DEF DeliveryInv

\* Whoever takes the lock was in no sweep; whoever loses it may still send what
\* it has read, which the failure pays for.
LEMMA TheLock ==
  ASSUME DeliveryAssumption, DeliveryInv, NEW w \in Workers,
         AcquireLeaderLock(w) \/ LoseLock(w)
  PROVE  DeliveryInv'
<1>1. /\ UNCHANGED <<row, batch, draft, acknowledged>> /\ failures \in Nat /\ failures' \in Nat
      /\ SessionShape(w) /\ w # NoWorker
  BY DEF AcquireLeaderLock, LoseLock, Failure, DeliveryInv, SweepShape, DeliveryAssumption
<1>2. \A v : Left(v)' = Left(v) /\ ReadBy(v)' = ReadBy(v)
  BY <1>1 DEF Left, ReadBy
<1>3. \A r : MaySend(r)' = MaySend(r)
  BY <1>1 DEF MaySend
<1>4. ASSUME NEW r \in Rows
      PROVE  Due(r) \in Nat /\ Due(r)' \in Nat /\ acknowledged[r] \in Nat
  BY DEF Due, Bit, DeliveryInv, SweepShape
<1>5. CASE AcquireLeaderLock(w)
  <2>1. /\ holder = NoWorker /\ holder' = w /\ at[w] = "idle" /\ failures' = failures
        /\ at' = [at EXCEPT ![w] = "sweeping"] /\ at'[w] = "sweeping"
        /\ \A v \in Workers \ {w} : at'[v] = at[v]
    BY <1>5 DEF AcquireLeaderLock, LockFree, DeliveryInv, SweepShape
  <2>2. ReadBy(w) = {} /\ \A r : ~Live(w, r)
    BY <1>1, <2>1 DEF SessionShape, Live, ReadBy
  <2>3. \A v \in Workers : SessionShape(v)'
    BY <1>1, <1>2, <2>1, <2>2 DEF DeliveryInv, SweepShape, SessionShape, ReadBy, Left
  <2>4. SweepShape'
    BY <1>1, <2>1, <2>3 DEF DeliveryInv, SweepShape
  <2>5. ASSUME NEW r \in Rows
        PROVE  Balance(r)'
    <3>1. Lost(r)' \subseteq Lost(r)
      BY <1>1, <1>2, <1>5, <2>1 DEF Lost, Live, DeliveryAssumption
    <3>2. Due(r)' = Due(r)
      BY <1>2, <1>3, <2>1, <2>2 DEF Due
    <3>3. acknowledged'[r] + Due(r)' + failures <= acknowledged[r] + Due(r) + failures'
      BY <1>1, <1>4, <2>1, <3>2
    <3> QED BY <2>4, <3>1, <3>3, Balanced DEF DeliveryInv
  <2> QED BY <2>4, <2>5 DEF DeliveryInv
<1>6. CASE LoseLock(w)
  <2>1. holder = w /\ holder' = NoWorker /\ at' = at /\ failures' = failures + 1
    BY <1>6 DEF LoseLock, Failure
  <2>2. \A v, r : Live(v, r)' = Live(v, r)
    BY <1>1, <1>2, <2>1 DEF Live
  <2>3. \A v \in Workers : SessionShape(v)'
    BY <1>1, <1>2, <2>1 DEF DeliveryInv, SweepShape, SessionShape
  <2>4. SweepShape'
    BY <1>1, <2>1, <2>3 DEF DeliveryInv, SweepShape
  <2>5. ASSUME NEW r \in Rows
        PROVE  Balance(r)'
    <3>1. Due(r)' = Bit(MaySend(r)) /\ Due(r)' <= 1
      BY <1>3, <2>1 DEF Due, Bit
    <3>2. CASE Live(w, r)
      <4>1. Lost(r)' \subseteq Lost(r) \cup {w}
        BY <2>1, <2>2 DEF Lost
      <4>2. Due(r)' <= Due(r)
        BY <1>1, <2>1, <3>1, <3>2 DEF Due, Bit
      <4>3. acknowledged'[r] + Due(r)' + failures + 1 <= acknowledged[r] + Due(r) + failures'
        BY <1>1, <1>4, <2>1, <4>2
      <4> QED BY <2>4, <4>1, <4>3, Balanced DEF DeliveryInv
    <3>3. CASE ~Live(w, r)
      <4>1. Lost(r)' \subseteq Lost(r)
        BY <2>1, <2>2, <3>3 DEF Lost
      <4>2. acknowledged'[r] + Due(r)' + failures <= acknowledged[r] + Due(r) + failures'
        BY <1>1, <1>4, <2>1, <3>1
      <4> QED BY <2>4, <4>1, <4>2, Balanced DEF DeliveryInv
    <3> QED BY <3>2, <3>3
  <2> QED BY <2>4, <2>5 DEF DeliveryInv
<1> QED BY <1>5, <1>6

\* A sweep reads rows that wait, so what it read is still good for one send.
LEMMA ReadingTheQueue ==
  ASSUME DeliveryAssumption, DeliveryInv, NEW w \in Workers, ReadQueue(w)
  PROVE  DeliveryInv'
<1>1. /\ UNCHANGED <<row, holder, draft, acknowledged, failures>> /\ at[w] = "sweeping"
      /\ at' = [at EXCEPT ![w] = "delivering"] /\ failures \in Nat /\ SessionShape(w)
  BY DEF ReadQueue, DeliveryInv, SweepShape
<1>2. PICK S : /\ S \subseteq {r \in Rows : row[r].status \in Waiting}
               /\ batch' = [batch EXCEPT ![w] = [r \in S |-> row[r]]]
  <2>1. DueBatch \subseteq {r \in Rows : row[r].status \in Waiting}
    BY DEF DueBatch, Candidates, FirstOf
  <2>2. (IF configured[w] = {} THEN {} ELSE DueBatch) \subseteq {r \in Rows : row[r].status \in Waiting}
    BY <2>1
  <2> QED BY <2>2 DEF ReadQueue
<1>3. at'[w] = "delivering" /\ batch'[w] = [r \in S |-> row[r]]
  BY <1>1, <1>2 DEF DeliveryInv, SweepShape
<1>4. OthersRest(w)
  BY <1>1, <1>2, <1>3 DEF OthersRest, DeliveryInv, SweepShape
<1>5. /\ \A v \in Workers \ {w} : Same(v)
      /\ at' = [v \in Workers |-> at'[v]] /\ batch' = [v \in Workers |-> batch'[v]]
      /\ draft' = [v \in Workers |-> draft'[v]]
  BY <1>4, OthersAreTheSame DEF DeliveryInv
<1>6. /\ Left(w)' = S /\ ReadBy(w)' = S /\ ReadBy(w) = {} /\ DOMAIN draft[w] = {}
      /\ \A r \in S : batch'[w][r].status \in Waiting
  BY <1>1, <1>2, <1>3 DEF Left, ReadBy, SessionShape
<1>7. SessionShape(w)'
  BY <1>1, <1>2, <1>3, <1>6 DEF SessionShape
<1>8. \A v \in Workers \ {w} : SessionShape(v)'
  BY <1>5 DEF DeliveryInv, SweepShape, SessionShape, Same
<1>9. SweepShape'
  BY <1>1, <1>3, <1>5, <1>7, <1>8 DEF DeliveryInv, SweepShape, Same
<1>10. RowsStayWell
  BY <1>1 DEF RowsStayWell, DeliveryInv, SweepShape
<1>11. ASSUME NEW r \in Rows
       PROVE  Balance(r)'
  <2>1. Live(w, r)
    BY <1>1 DEF Live
  <2>2. Lost(r)' \subseteq Lost(r)
    BY <1>1, <1>5, <2>1 DEF Lost, Same
  <2>3. Due(r) \in Nat /\ Due(r)' \in Nat /\ acknowledged[r] \in Nat
    BY DEF Due, Bit, DeliveryInv, SweepShape
  <2>4. MaySend(r)' = MaySend(r)
    BY <1>1 DEF MaySend
  <2>5. Due(r)' <= Due(r)
    <3>1. CASE holder # w
      <4>1. holder # NoWorker => Same(holder)
        BY <1>5, <3>1 DEF DeliveryInv, SweepShape
      <4> QED BY <1>1, <1>10, <2>4, <4>1, DueAsBefore DEF DeliveryInv
    <3>2. CASE holder = w
      <4>1. Due(r) = Bit(MaySend(r))
        BY <1>6, <3>2 DEF Due
      <4>2. ~Doomed(w)'
        BY <1>1, <1>2, <1>6 DEF Doomed, Waiting
      <4>3. r \in S => MaySend(r)
        BY <1>2 DEF MaySend
      <4> QED BY <1>1, <1>6, <2>4, <3>2, <4>1, <4>2, <4>3 DEF Due, Bit
    <3> QED BY <3>1, <3>2
  <2>6. acknowledged'[r] + Due(r)' + failures <= acknowledged[r] + Due(r) + failures'
    BY <1>1, <2>3, <2>5
  <2> QED BY <1>9, <2>2, <2>6, Balanced DEF DeliveryInv
<1> QED BY <1>9, <1>11 DEF DeliveryInv

\* A row that is handled is in the draft: sent, given up, or to be sent again;
\* a row that is skipped is in neither.
LEMMA HandlingARow ==
  ASSUME DeliveryAssumption, DeliveryInv, NEW w \in Workers, NEW q \in Rows,
         \/ SkipRow(w, q) \/ DropRow(w, q)
         \/ \E reply \in {"ok", "transient", "permanent", "unexpected"} : SendRow(w, q, reply)
  PROVE  DeliveryInv'
<1>1. /\ UNCHANGED <<row, holder, at, failures>> /\ at[w] = "delivering" /\ q \in Left(w)
      /\ batch' = [batch EXCEPT ![w] = [r \in Left(w) \ {q} |-> batch[w][r]]]
      /\ failures \in Nat /\ SessionShape(w)
  BY DEF SkipRow, DropRow, SendRow, NextInBatch, DeliveryInv, SweepShape
<1>2. batch'[w] = [r \in Left(w) \ {q} |-> batch[w][r]] /\ Left(w)' = Left(w) \ {q}
  BY <1>1 DEF Left, DeliveryInv, SweepShape
<1>3. \/ draft' = draft /\ acknowledged' = acknowledged
      \/ \E status \in Settled \cup {"failed"} : \E attempts :
           /\ Handle(w, q, status, attempts)
           /\ \/ acknowledged' = acknowledged
              \/ status = "sent" /\ acknowledged' = [acknowledged EXCEPT ![q] = @ + 1]
  <2>1. CASE SkipRow(w, q)
    BY <2>1 DEF SkipRow
  <2>2. CASE DropRow(w, q)
    BY <2>2 DEF DropRow, Settled
  <2>3. ASSUME NEW reply \in {"ok", "transient", "permanent", "unexpected"}, SendRow(w, q, reply)
        PROVE  \E status \in Settled \cup {"failed"} : \E attempts :
                 /\ Handle(w, q, status, attempts)
                 /\ \/ acknowledged' = acknowledged
                    \/ status = "sent" /\ acknowledged' = [acknowledged EXCEPT ![q] = @ + 1]
    <3> DEFINE n == batch[w][q].attempts + 1
    <3>1. Handle(w, q, StatusAfter(reply, n), Counted(n))
      BY <2>3 DEF SendRow
    <3>2. StatusAfter(reply, n) \in Settled \cup {"failed"}
      BY DEF StatusAfter, AfterTransient, Settled
    <3>3. \/ acknowledged' = acknowledged
          \/ StatusAfter(reply, n) = "sent" /\ acknowledged' = [acknowledged EXCEPT ![q] = @ + 1]
      <4>1. CASE reply = "ok"
        BY <2>3, <4>1 DEF SendRow, StatusAfter
      <4>2. CASE reply # "ok"
        BY <2>3, <4>2 DEF SendRow, DeliveryInv, SweepShape
      <4> QED BY <4>1, <4>2
    <3> QED BY <3>1, <3>2, <3>3
  <2> QED BY <2>1, <2>2, <2>3
<1>4. \/ draft' = draft /\ acknowledged' = acknowledged
      \/ \E status \in Settled \cup {"failed"} :
           /\ draft' = [draft EXCEPT ![w] = draft'[w]]
           /\ DOMAIN draft'[w] = DOMAIN draft[w] \cup {q}
           /\ draft'[w][q].was = batch[w][q].status /\ draft'[w][q].status = status
           /\ \A r \in DOMAIN draft[w] \ {q} : draft'[w][r] = draft[w][r]
           /\ \/ acknowledged' = acknowledged
              \/ status = "sent" /\ acknowledged' = [acknowledged EXCEPT ![q] = @ + 1]
  <2>1. ASSUME NEW status, NEW attempts, Handle(w, q, status, attempts)
        PROVE  /\ draft' = [draft EXCEPT ![w] = draft'[w]]
               /\ DOMAIN draft'[w] = DOMAIN draft[w] \cup {q}
               /\ draft'[w][q].was = batch[w][q].status /\ draft'[w][q].status = status
               /\ \A r \in DOMAIN draft[w] \ {q} : draft'[w][r] = draft[w][r]
    <3> DEFINE new == [r \in DOMAIN draft[w] \cup {q} |->
                 IF r = q THEN [was |-> batch[w][q].status, status |-> status, attempts |-> attempts]
                 ELSE draft[w][r]]
    <3>1. draft' = [draft EXCEPT ![w] = new]
      BY <2>1 DEF Handle
    <3>2. draft'[w] = new
      BY <3>1 DEF DeliveryInv, SweepShape
    <3>3. /\ DOMAIN new = DOMAIN draft[w] \cup {q}
          /\ new[q].was = batch[w][q].status /\ new[q].status = status
          /\ \A r \in DOMAIN draft[w] \ {q} : new[r] = draft[w][r]
      OBVIOUS
    <3> HIDE DEF new
    <3> QED BY <3>1, <3>2, <3>3
  <2> QED BY <1>3, <2>1
<1>5. OthersRest(w)
  BY <1>1, <1>2, <1>4 DEF OthersRest, DeliveryInv, SweepShape
<1>6. /\ \A v \in Workers \ {w} : Same(v)
      /\ at' = [v \in Workers |-> at'[v]] /\ batch' = [v \in Workers |-> batch'[v]]
      /\ draft' = [v \in Workers |-> draft'[v]]
  BY <1>5, OthersAreTheSame DEF DeliveryInv
<1>7. ReadBy(w)' \subseteq ReadBy(w)
  BY <1>1, <1>2, <1>4 DEF ReadBy, Left
<1>8. SessionShape(w)'
  <2>1. \A r \in Left(w)' : batch'[w][r].status \in Waiting
    BY <1>1, <1>2 DEF SessionShape
  <2>2. \A r \in DOMAIN draft'[w] : /\ draft'[w][r].was \in Waiting
                                    /\ draft'[w][r].status \in Settled \cup {"failed"}
    BY <1>1, <1>4 DEF SessionShape
  <2>3. Left(w)' \cap DOMAIN draft'[w] = {}
    BY <1>1, <1>2, <1>4 DEF SessionShape
  <2> QED BY <1>1, <1>7, <2>1, <2>2, <2>3 DEF SessionShape
<1>9. \A v \in Workers \ {w} : SessionShape(v)'
  BY <1>6 DEF DeliveryInv, SweepShape, SessionShape, Same
<1>10. acknowledged' \in [Rows -> Nat]
  BY <1>3 DEF DeliveryInv, SweepShape
<1>11. SweepShape'
  BY <1>1, <1>6, <1>8, <1>9, <1>10 DEF DeliveryInv, SweepShape
<1>12. RowsStayWell
  BY <1>1 DEF RowsStayWell, DeliveryInv, SweepShape
<1>13. Doomed(w)' => Doomed(w)
  BY <1>1, <1>7 DEF Doomed
<1>14. w # NoWorker /\ (holder # w /\ holder # NoWorker => Same(holder))
  BY <1>6 DEF DeliveryInv, SweepShape, DeliveryAssumption
<1>15. ASSUME NEW r \in Rows
       PROVE  Balance(r)'
  <2>1. /\ Due(r) \in Nat /\ Due(r)' \in Nat
        /\ acknowledged[r] \in Nat /\ acknowledged'[r] \in Nat
    BY <1>10 DEF Due, Bit, DeliveryInv, SweepShape
  <2>2. MaySend(r)' = MaySend(r)
    BY <1>1 DEF MaySend
  <2>3. /\ Live(w, r)' => Live(w, r)
        /\ r # q => (r \in ReadBy(w)' <=> r \in ReadBy(w))
    <3>1. CASE r = q
      BY <1>1, <3>1 DEF Live
    <3>2. CASE r # q
      BY <1>1, <1>2, <1>4, <3>2 DEF Live, ReadBy
    <3> QED BY <3>1, <3>2
  <2>4. Lost(r)' \subseteq Lost(r)
    BY <1>1, <1>6, <2>3 DEF Lost, Same
  <2>5. holder # w => Due(r)' <= Due(r)
    BY <1>1, <1>12, <1>14, <2>2, DueAsBefore DEF DeliveryInv
  <2>6. CASE acknowledged'[r] = acknowledged[r]
    <3>1. CASE holder = w
      <4>1. r # q => Due(r)' <= Due(r)
        <5>1. /\ Due(r) = IF r \in ReadBy(w) THEN Bit(Live(w, r)) + Bit(Doomed(w) /\ MaySend(r))
                          ELSE Bit(MaySend(r))
              /\ Due(r)' = IF r \in ReadBy(w)' THEN Bit(Live(w, r)') + Bit(Doomed(w)' /\ MaySend(r)')
                           ELSE Bit(MaySend(r)')
          BY <1>1, <1>14, <3>1 DEF Due
        <5> QED BY <1>13, <2>2, <2>3, <5>1 DEF Bit
      <4>2. r = q => Live(w, r) /\ r \in ReadBy(w)
        BY <1>1 DEF Live, ReadBy
      <4>3. r = q => Due(r)' <= Due(r)
        BY <1>1, <1>13, <1>14, <2>2, <3>1, <4>2 DEF Due, Bit
      <4> QED BY <1>1, <2>1, <2>4, <2>6, <4>1, <4>3, <1>11, Balanced DEF DeliveryInv
    <3> QED BY <1>1, <2>1, <2>4, <2>5, <2>6, <3>1, <1>11, Balanced DEF DeliveryInv
  <2>7. CASE acknowledged'[r] # acknowledged[r]
    <3>1. /\ r = q /\ acknowledged'[r] = acknowledged[r] + 1
          /\ q \in DOMAIN draft'[w] /\ draft'[w][q].status = "sent"
      BY <1>4, <2>7 DEF DeliveryInv, SweepShape
    <3>2. Live(w, r) /\ r \in ReadBy(w) /\ ~Live(w, r)' /\ r \in ReadBy(w)'
      BY <1>1, <1>2, <3>1 DEF Live, ReadBy
    <3>3. CASE holder = w
      <4>1. Due(r)' + 1 <= Due(r)
        BY <1>1, <1>13, <1>14, <2>2, <3>2, <3>3 DEF Due, Bit
      <4>2. acknowledged'[r] + Due(r)' + failures <= acknowledged[r] + Due(r) + failures'
        BY <1>1, <2>1, <3>1, <4>1
      <4> QED BY <1>11, <2>4, <4>2, Balanced DEF DeliveryInv
    <3>4. CASE holder # w
      <4>1. w \in Lost(r) /\ Lost(r)' \subseteq Lost(r) \ {w}
        BY <2>4, <3>2, <3>4 DEF Lost
      <4>2. acknowledged'[r] + Due(r)' + failures <= acknowledged[r] + Due(r) + failures' + 1
        BY <1>1, <2>1, <2>5, <3>1, <3>4
      <4> QED BY <1>11, <4>1, <4>2, Balanced DEF DeliveryInv
    <3> QED BY <3>3, <3>4
  <2> QED BY <2>6, <2>7
<1> QED BY <1>11, <1>15 DEF DeliveryInv

LEMMA DeliveryStep ==
  ASSUME DeliveryAssumption, DeliveryInv, [SweepNext]_sweepVars PROVE DeliveryInv'
BY AroundTheSweep, TheLock, FailedSweeps, ReadingTheQueue, HandlingARow, CommittedSweeps
   DEF SweepNext

\* However many processes sweep, crash and lose the lock, in any order, and
\* whatever the channels answer: each acknowledgement of a message after the
\* first is paid for by a failure of its own (run_sweeps_once, run_delivery_sweep).
THEOREM EachCopyHasItsFailure ==
  ASSUME DeliveryAssumption PROVE SweepSpec => []DuplicateHasACause
<1>1. DeliveryInv /\ [SweepNext]_sweepVars => DeliveryInv'
  BY DeliveryStep
<1>2. ASSUME DeliveryInv, NEW r \in Rows
      PROVE  acknowledged[r] <= 1 + failures
  <2>1. Lost(r) \in SUBSET Workers
    BY DEF Lost
  <2>2. Cardinality(Lost(r)) \in Nat
    BY <2>1, FS_Subset, FS_CardinalityType DEF DeliveryAssumption
  <2>3. Due(r) \in Nat
    BY DEF Due, Bit
  <2> QED BY <1>2, <2>2, <2>3 DEF DeliveryInv, SweepShape, Balance
<1>3. DeliveryInv => DuplicateHasACause
  BY <1>2 DEF DuplicateHasACause
<1> QED BY <1>1, <1>3, InitDelivery, PTL DEF SweepSpec
=============================================================================
