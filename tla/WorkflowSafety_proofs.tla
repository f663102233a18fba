------------------------- MODULE WorkflowSafety_proofs -------------------------
(***************************************************************************)
(* Types and safety of the evaluation workflow for every set of users,     *)
(* people, records, sheets and access rows: every column keeps its type, a *)
(* closed record never changes, HR stays out of the records of its own     *)
(* unit, and nobody takes the second side of their own evaluation.         *)
(***************************************************************************)
EXTENDS WorkflowProperties, TLAPS

-----------------------------------------------------------------------------
(* Facts about the table of transitions *)

\* Every transition of the table ends in a status of the enumeration.
LEMMA TransitionTo ==
  ASSUME NEW a \in Actions
  PROVE  Transition(a).to \in Statuses
<1> USE DEF SubmitActions, HrActions, ApprovalActions, ReturnActions, ReturnOrder, CancelActions
<1>1. CASE a \in SubmitActions
  BY <1>1 DEF Transition, SubmitTransition, T, Statuses, OpenStatuses
<1>2. CASE a \in HrActions
  BY <1>2 DEF Transition, HrTransition, T, Statuses, OpenStatuses
<1>3. CASE a \in ApprovalActions
  BY <1>3 DEF Transition, ApprovalTransition, T, Statuses, OpenStatuses
<1>4. CASE a \in ReturnActions
  <2>1. Transition(a) = ReturnTransition(a)
    BY <1>4 DEF Transition
  <2>2. QED
  BY <1>4, <2>1 DEF ReturnTransition, DeputyReturnTo, T, Statuses, OpenStatuses
<1>5. CASE a \in CancelActions
  BY <1>5 DEF Transition, CancelTransition, T, Statuses, OpenStatuses
<1> QED BY <1>1, <1>2, <1>3, <1>4, <1>5 DEF Actions

\* Every transition of the table starts from an open status.
LEMMA TransitionFrom ==
  ASSUME NEW a \in Actions
  PROVE  Transition(a).from \subseteq OpenStatuses
<1> USE DEF SubmitActions, HrActions, ApprovalActions, ReturnActions, ReturnOrder, CancelActions
<1>1. CASE a \in SubmitActions
  BY <1>1 DEF Transition, SubmitTransition, T, OpenStatuses
<1>2. CASE a \in HrActions
  BY <1>2 DEF Transition, HrTransition, T, OpenStatuses
<1>3. CASE a \in ApprovalActions
  BY <1>3 DEF Transition, ApprovalTransition, T, OpenStatuses
<1>4. CASE a \in ReturnActions
  <2>1. Transition(a) = ReturnTransition(a)
    BY <1>4 DEF Transition
  <2>2. QED
    BY <1>4, <2>1 DEF ReturnTransition, T, OpenStatuses
<1>5. CASE a \in CancelActions
  BY <1>5 DEF Transition, CancelTransition, T, OpenStatuses
<1> QED BY <1>1, <1>2, <1>3, <1>4, <1>5 DEF Actions

\* The submit endpoint picks one of the submit transitions.
LEMMA SubmitActionIsOne == \A c : SubmitActionFor(c) \in SubmitActions
  BY DEF SubmitActionFor, SubmitActions

\* The HR endpoint picks one of the three HR approvals.
LEMMA HrActionIsOne == \A c : HrActionFor(c) \in HrActions
  BY DEF HrActionFor, HrActions

\* The groups of transitions make up the table.
LEMMA ActionGroups ==
  /\ SubmitActions \subseteq Actions
  /\ HrActions \subseteq Actions
  /\ ApprovalActions \subseteq Actions
  /\ CancelActions \subseteq Actions
  /\ \A i \in DOMAIN ReturnOrder : ReturnOrder[i] \in Actions
<1>1. \A i \in DOMAIN ReturnOrder : ReturnOrder[i] \in ReturnActions
  <2>1. DOMAIN ReturnOrder = 1 .. 9
    BY DEF ReturnOrder
  <2>2. QED
    BY <2>1 DEF ReturnActions
<1>2. QED
  BY <1>1 DEF Actions

-----------------------------------------------------------------------------
(* Type correctness *)

\* What a transition writes keeps the types of the two columns it writes.
LEMMA MoveType ==
  ASSUME TypeOK, NEW a \in Actions, NEW u \in Users, NEW r \in Records, Move(r, a, u)
  PROVE  /\ status' \in [Records -> Statuses \cup {"none"}]
         /\ hr' \in [Records -> Users \cup {Nobody}]
  BY TransitionTo DEF TypeOK, RecordsOK, Move, Claimed

\* The final document has the type of a document, whatever the chain.
LEMMA SnapshotType ==
  ASSUME TypeOK, NEW r \in Records, NEW h \in Users \cup {Nobody}
  PROVE  Snapshot(r, h) \in Documents
<1>1. chain[r] \in ChainType /\ result[r] \in (CompleteSheets \X Bonuses) \cup {NoResult}
  BY DEF TypeOK, RecordsOK
<1>2. SingleDecider(chain[r], h) \in BOOLEAN
  BY DEF SingleDecider
<1>3. \A f \in Seats : chain[r][f] \in Users \cup {Nobody}
  BY <1>1 DEF ChainType, Seats
<1>4. ASSUME NEW v \in {chain[r][f] : f \in Seats} \ {Nobody}
      PROVE  [user |-> v, seats |-> {f \in Seats : chain[r][f] = v}] \in SignerRows
  BY <1>3 DEF SignerRows
<1>5. [user |-> h, seats |-> {"hr"}] \in SignerRows
  BY DEF SignerRows
<1>6. Signatories(chain[r], h) \subseteq SignerRows
  BY <1>4, <1>5 DEF Signatories
<1>7. QED
  BY <1>1, <1>2, <1>6 DEF Snapshot, Documents

\* Opening a record takes over the chain that was written and nothing else.
LEMMA CreateType ==
  ASSUME TypeOK, NEW p \in People, NEW r \in Records, Create(p, r)
  PROVE  TypeOK'
<1>1. inserted[p] \in ChainType /\ NoChain \in ChainType
  BY DEF TypeOK, StaffOK, NoChain, ChainType
<1>2. StaffOK'
  BY <1>1 DEF TypeOK, StaffOK, Create, accounts, personnel
<1>4. chain' \in [Records -> ChainType]
  BY <1>1 DEF TypeOK, RecordsOK, Create
<1>5. status' \in [Records -> Statuses \cup {"none"}]
  BY DEF TypeOK, RecordsOK, Create, Statuses, OpenStatuses
<1>6. subject' \in [Records -> People \cup {Nobody}]
  BY DEF TypeOK, RecordsOK, Create
<1>7. UNCHANGED <<hr, sheet, bonus, result, doc, extended, done, today>>
  BY DEF Create, scoring
<1>8. QED
  BY <1>2, <1>4, <1>5, <1>6, <1>7 DEF TypeOK, RecordsOK

\* What is written and not yet committed, and its commit, copy rows of the types
\* of the two tables.
LEMMA PendingType ==
  ASSUME TypeOK, PendingStep \/ \E p \in People, row \in NewRows : CommitAccess(p, row)
  PROVE  TypeOK'
<1>1. ASSUME NEW u \in Users, NEW p \in People, InsertRecord(u, p)
      PROVE  TypeOK'
  <2>1. access[p] \in Rows /\ inHrUnit[p] \in BOOLEAN
    BY <1>1 DEF TypeOK, StaffOK, InsertRecord
  <2>2. [us |-> access[p].us, dep |-> access[p].dep, ceo |-> access[p].ceo,
         skip |-> inHrUnit[p]] \in ChainType
    BY <2>1 DEF Rows, ChainType
  <2>3. inserted' \in [People -> ChainType]
    BY <1>1, <2>2 DEF TypeOK, StaffOK, InsertRecord
  <2>4. UNCHANGED <<accounts, personnel, access, flushed, records, today>>
    BY <1>1 DEF InsertRecord
  <2>5. QED
    BY <2>3, <2>4 DEF TypeOK, StaffOK, RecordsOK, accounts, personnel, records
<1>2. ASSUME NEW p \in People, NEW row \in NewRows, UpsertAccess(p, row)
      PROVE  TypeOK'
  BY <1>2, ConstantsAssumption
     DEF TypeOK, StaffOK, RecordsOK, UpsertAccess, accounts, personnel, records
<1>3. ASSUME NEW p \in People, GiveUp(p)
      PROVE  TypeOK'
  <2>1. NoChain \in ChainType
    BY DEF NoChain, ChainType
  <2>2. flushed' \in [People -> Rows \cup {NoAccess}] /\ inserted' \in [People -> ChainType]
    BY <1>3, <2>1 DEF TypeOK, StaffOK, GiveUp
  <2>3. UNCHANGED <<accounts, personnel, access, records, today>>
    BY <1>3 DEF GiveUp
  <2>4. QED
    BY <2>2, <2>3 DEF TypeOK, StaffOK, RecordsOK, accounts, personnel, records
<1>4. ASSUME NEW p \in People, NEW row \in NewRows, CommitAccess(p, row)
      PROVE  TypeOK'
  BY <1>4, ConstantsAssumption
     DEF TypeOK, StaffOK, RecordsOK, CommitAccess, accounts, personnel, records
<1>5. QED
  BY <1>1, <1>2, <1>3, <1>4 DEF PendingStep

\* The steps of the scorer on a draft, and submitting it.
LEMMA ScorerType ==
  ASSUME TypeOK, NEW u \in Users, NEW r \in Records,
         \/ \E s \in Sheets : UpsertScores(u, r, s)
         \/ \E b \in Bonuses : SetSpecialScore(u, r, b)
         \/ Submit(u, r)
  PROVE  TypeOK'
<1>1. CASE \E s \in Sheets : UpsertScores(u, r, s)
  BY <1>1 DEF TypeOK, StaffOK, RecordsOK, UpsertScores, staff, shape
<1>2. CASE \E b \in Bonuses : SetSpecialScore(u, r, b)
  BY <1>2 DEF TypeOK, StaffOK, RecordsOK, SetSpecialScore, staff, shape
<1>3. CASE Submit(u, r)
  <2> DEFINE a == SubmitActionFor(chain[r])
  <2>1. a \in Actions /\ Move(r, a, u)
    BY <1>3, SubmitActionIsOne, ActionGroups DEF Submit
  <2>2. /\ status' \in [Records -> Statuses \cup {"none"}]
        /\ hr' \in [Records -> Users \cup {Nobody}]
    <3> HIDE DEF a
    <3> QED BY <2>1, MoveType
  <2>3. result' \in [Records -> (CompleteSheets \X Bonuses) \cup {NoResult}]
    BY <1>3 DEF TypeOK, RecordsOK, Submit
  <2>4. done' \in [Records -> DoneType]
    BY <1>3 DEF TypeOK, RecordsOK, Submit, DoneType, NobodyDid
  <2>5. UNCHANGED <<staff, subject, chain, sheet, bonus, doc, extended, today>>
    BY <1>3 DEF Submit, shape
  <2>6. QED
    BY <2>2, <2>3, <2>4, <2>5 DEF TypeOK, StaffOK, RecordsOK, staff
<1>4. QED
  BY <1>1, <1>2, <1>3

\* The three approvals.
LEMMA ApprovalType ==
  ASSUME TypeOK, NEW u \in Users, NEW r \in Records,
         HrApprove(u, r) \/ DeputyApprove(u, r) \/ CeoFinalize(u, r)
  PROVE  TypeOK'
<1>1. CASE HrApprove(u, r)
  <2> DEFINE a == HrActionFor(chain[r])
  <2>1. a \in Actions /\ Move(r, a, u)
    BY <1>1, HrActionIsOne, ActionGroups DEF HrApprove
  <2>2. /\ status' \in [Records -> Statuses \cup {"none"}]
        /\ hr' \in [Records -> Users \cup {Nobody}]
    <3> HIDE DEF a
    <3> QED BY <2>1, MoveType
  <2>3. Claimed(hr[r], a, u) \in Users \cup {Nobody}
    BY DEF Claimed, TypeOK, RecordsOK
  <2>4. doc' \in [Records -> Documents \cup {NoDoc}]
    BY <1>1, <2>3, SnapshotType DEF TypeOK, RecordsOK, HrApprove
  <2>5. done' \in [Records -> DoneType]
    <3>1. done[r] \in DoneType /\ done \in [Records -> DoneType]
      BY DEF TypeOK, RecordsOK
    <3> DEFINE f == IF a = "hr_finalize_direct_ceo" THEN u ELSE Nobody
    <3>2. [done[r] EXCEPT !.hr = u, !.final = f] \in DoneType
      BY <3>1 DEF DoneType
    <3>3. done' = [done EXCEPT ![r] = [done[r] EXCEPT !.hr = u, !.final = f]]
      BY <1>1 DEF HrApprove
    <3>4. QED
      BY <3>1, <3>2, <3>3
  <2>6. UNCHANGED <<staff, subject, chain, sheet, bonus, result, extended, today>>
    BY <1>1 DEF HrApprove, shape, scoring
  <2>7. QED
    BY <2>2, <2>4, <2>5, <2>6 DEF TypeOK, StaffOK, RecordsOK, staff
<1>2. CASE DeputyApprove(u, r)
  <2>1. "deputy_approve" \in Actions /\ Move(r, "deputy_approve", u)
    BY <1>2, ActionGroups DEF DeputyApprove, ApprovalActions
  <2>2. /\ status' \in [Records -> Statuses \cup {"none"}]
        /\ hr' \in [Records -> Users \cup {Nobody}]
    BY <2>1, MoveType
  <2>3. done' \in [Records -> DoneType]
    BY <1>2 DEF TypeOK, RecordsOK, DeputyApprove, DoneType
  <2>4. UNCHANGED <<staff, subject, chain, sheet, bonus, result, doc, extended, today>>
    BY <1>2 DEF DeputyApprove, shape, scoring
  <2>5. QED
    BY <2>2, <2>3, <2>4 DEF TypeOK, StaffOK, RecordsOK, staff
<1>3. CASE CeoFinalize(u, r)
  <2>1. "ceo_finalize" \in Actions /\ Move(r, "ceo_finalize", u)
    BY <1>3, ActionGroups DEF CeoFinalize, ApprovalActions
  <2>2. /\ status' \in [Records -> Statuses \cup {"none"}]
        /\ hr' \in [Records -> Users \cup {Nobody}]
    BY <2>1, MoveType
  <2>3. hr[r] \in Users \cup {Nobody}
    BY DEF TypeOK, RecordsOK
  <2>4. doc' \in [Records -> Documents \cup {NoDoc}]
    BY <1>3, <2>3, SnapshotType DEF TypeOK, RecordsOK, CeoFinalize
  <2>5. done' \in [Records -> DoneType]
    <3>1. done[r] \in DoneType /\ done \in [Records -> DoneType]
      BY DEF TypeOK, RecordsOK
    <3>2. [done[r] EXCEPT !.final = u] \in DoneType
      BY <3>1 DEF DoneType
    <3>3. done' = [done EXCEPT ![r] = [done[r] EXCEPT !.final = u]]
      BY <1>3 DEF CeoFinalize
    <3>4. QED
      BY <3>1, <3>2, <3>3
  <2>6. UNCHANGED <<staff, subject, chain, sheet, bonus, result, extended, today>>
    BY <1>3 DEF CeoFinalize, shape, scoring
  <2>7. QED
    BY <2>2, <2>4, <2>5, <2>6 DEF TypeOK, StaffOK, RecordsOK, staff
<1>4. QED
  BY <1>1, <1>2, <1>3

\* Going back, and giving up.
LEMMA ReturnCancelType ==
  ASSUME TypeOK, NEW u \in Users, NEW r \in Records,
         ReturnRecord(u, r) \/ Cancel(u, r)
  PROVE  TypeOK'
<1>1. CASE ReturnRecord(u, r)
  <2>1. PICK i \in DOMAIN ReturnOrder :
           /\ Move(r, ReturnOrder[i], u)
           /\ done' = [done EXCEPT ![r] = Rewound(@, Transition(ReturnOrder[i]).to)]
    BY <1>1 DEF ReturnRecord
  <2>2. ReturnOrder[i] \in Actions
    BY ActionGroups
  <2>3. /\ status' \in [Records -> Statuses \cup {"none"}]
        /\ hr' \in [Records -> Users \cup {Nobody}]
    BY <2>1, <2>2, MoveType
  <2>4. done' \in [Records -> DoneType]
    <3>1. ASSUME NEW s PROVE Rewound(done[r], s) \in DoneType
      <4>1. done[r] \in DoneType
        BY DEF TypeOK, RecordsOK
      <4>2. NobodyDid \in DoneType
        BY DEF NobodyDid, DoneType
      <4>3. /\ [done[r] EXCEPT !.hr = Nobody, !.dep = Nobody] \in DoneType
            /\ [done[r] EXCEPT !.dep = Nobody] \in DoneType
        BY <4>1 DEF DoneType
      <4>4. QED
        BY <4>1, <4>2, <4>3 DEF Rewound
    <3>2. QED
      BY <2>1, <3>1 DEF TypeOK, RecordsOK
  <2>5. UNCHANGED <<staff, subject, chain, sheet, bonus, result, doc, extended, today>>
    BY <1>1 DEF ReturnRecord, shape, scoring
  <2>6. QED
    BY <2>3, <2>4, <2>5 DEF TypeOK, StaffOK, RecordsOK, staff
<1>2. CASE Cancel(u, r)
  <2>1. CancelActionOf(u) \in Actions /\ Move(r, CancelActionOf(u), u)
    BY <1>2, ActionGroups DEF Cancel, CancelActionOf, CancelActions
  <2>2. /\ status' \in [Records -> Statuses \cup {"none"}]
        /\ hr' \in [Records -> Users \cup {Nobody}]
    BY <2>1, MoveType
  <2>3. UNCHANGED <<staff, subject, chain, sheet, bonus, result, doc, extended, done, today>>
    BY <1>2 DEF Cancel, shape, scoring
  <2>4. QED
    BY <2>2, <2>3 DEF TypeOK, StaffOK, RecordsOK, staff
<1>3. QED
  BY <1>1, <1>2

\* The tools that move no status: the window, the owner of the HR stage, a seat.
LEMMA ToolType ==
  ASSUME TypeOK, NEW u \in Users, NEW r \in Records,
         \/ \E d \in Until : ExtendWindow(u, r, d)
         \/ HrClaim(u, r)
         \/ \E v \in Users : HrHandover(u, r, v)
         \/ HrComment(u, r)
         \/ \E f \in Seats, v \in Users : Reassign(u, r, f, v)
  PROVE  TypeOK'
<1>1. CASE \E d \in Until : ExtendWindow(u, r, d)
  BY <1>1, ConstantsAssumption
     DEF TypeOK, StaffOK, RecordsOK, ExtendWindow, staff, shape, scoring
<1>2. CASE HrClaim(u, r)
  BY <1>2 DEF TypeOK, StaffOK, RecordsOK, HrClaim, staff, shape, scoring
<1>3. CASE \E v \in Users : HrHandover(u, r, v)
  BY <1>3 DEF TypeOK, StaffOK, RecordsOK, HrHandover, staff, shape, scoring
<1>4. CASE HrComment(u, r)
  BY <1>4 DEF TypeOK, StaffOK, RecordsOK, HrComment, staff, shape, scoring
<1>5. ASSUME NEW f \in Seats, NEW v \in Users, Reassign(u, r, f, v)
      PROVE  TypeOK'
  <2>1. chain[r] \in ChainType
    BY DEF TypeOK, RecordsOK
  <2>2. [chain[r] EXCEPT ![f] = v] \in ChainType
    BY <2>1 DEF ChainType, Seats
  <2>3. chain' \in [Records -> ChainType]
    BY <1>5, <2>2 DEF TypeOK, RecordsOK, Reassign
  <2>4. UNCHANGED <<staff, status, subject, hr, sheet, bonus, result, doc, extended,
                    done, today>>
    BY <1>5 DEF Reassign, scoring
  <2>5. QED
    BY <2>3, <2>4 DEF TypeOK, StaffOK, RecordsOK, staff
<1>6. QED
  BY <1>1, <1>2, <1>3, <1>4, <1>5

\* A step of the administration.
LEMMA StaffType ==
  ASSUME TypeOK, StaffStep
  PROVE  TypeOK'
<1>1. CASE \E p \in People, row \in NewRows : CommitAccess(p, row)
  BY <1>1, PendingType
<1>2. ASSUME NEW g \in Grants, ChangeRole(g[1], g[2])
      PROVE  TypeOK'
  <2>1. g[1] \in Users /\ g[2] \in Roles
    BY ConstantsAssumption
  <2>2. QED
    BY <1>2, <2>1 DEF TypeOK, StaffOK, RecordsOK, ChangeRole, personnel, pending, records
<1>3. ASSUME NEW u \in Switchable, Disable(u) \/ Enable(u)
      PROVE  TypeOK'
  BY <1>3 DEF TypeOK, StaffOK, RecordsOK, Disable, Enable, personnel, pending, records
<1>4. ASSUME NEW l \in Relinks, LinkAccount(l[1], l[2])
      PROVE  TypeOK'
  <2>1. l[1] \in Users /\ l[2] \in People \cup {Nobody}
    BY ConstantsAssumption
  <2>2. QED
    BY <1>4, <2>1 DEF TypeOK, StaffOK, RecordsOK, LinkAccount, personnel, pending, records
<1>5. ASSUME NEW u \in Users, NEW p \in Leavers, Depart(u, p)
      PROVE  TypeOK'
  <2>1. status' \in [Records -> Statuses \cup {"none"}]
    BY <1>5 DEF TypeOK, RecordsOK, Depart, ClosedOut, Statuses
  <2>2. active' \in [Users -> BOOLEAN] /\ employed' \in [People -> BOOLEAN]
    BY <1>5 DEF TypeOK, StaffOK, Depart
  <2>3. UNCHANGED <<role, link, inHrUnit, manager, access, pending, subject, chain, hr,
                    sheet, bonus, result, doc, extended, done, today>>
    BY <1>5 DEF Depart, shape, scoring
  <2>4. QED
    BY <2>1, <2>2, <2>3 DEF TypeOK, StaffOK, RecordsOK, pending
<1>6. ASSUME NEW p \in Leavers, Rejoin(p)
      PROVE  TypeOK'
  BY <1>6 DEF TypeOK, StaffOK, RecordsOK, Rejoin, accounts, pending, records
<1>7. ASSUME NEW p \in Movers, MoveUnit(p)
      PROVE  TypeOK'
  BY <1>7 DEF TypeOK, StaffOK, RecordsOK, MoveUnit, accounts, pending, records
<1>8. ASSUME NEW p \in Promotable, ToggleManager(p)
      PROVE  TypeOK'
  <2>1. ASSUME access[p] \in Rows
        PROVE  [access[p] EXCEPT !.us = Nobody] \in Rows
    BY <2>1 DEF Rows
  <2>2. access' \in [People -> Rows \cup {NoAccess}]
    BY <1>8, <2>1 DEF TypeOK, StaffOK, ToggleManager
  <2>3. manager' \in [People -> BOOLEAN]
    BY <1>8 DEF TypeOK, StaffOK, ToggleManager
  <2>4. UNCHANGED <<accounts, employed, inHrUnit, pending, records, today>>
    BY <1>8 DEF ToggleManager
  <2>5. QED
    BY <2>2, <2>3, <2>4 DEF TypeOK, StaffOK, RecordsOK, accounts, pending, records
<1>9. QED
  BY <1>1, <1>2, <1>3, <1>4, <1>5, <1>6, <1>7, <1>8 DEF StaffStep

\* Bridge: every step of the specification is one of the groups above.
LEMMA NextType ==
  ASSUME TypeOK, [Next]_vars
  PROVE  TypeOK'
<1>1. ASSUME NEW u \in Users, NEW r \in Records, ChainStep(u, r)
      PROVE  TypeOK'
  BY <1>1, CreateType, ScorerType, ApprovalType, ReturnCancelType, ToolType DEF ChainStep
<1>2. CASE StaffStep
  BY <1>2, StaffType
<1>3. CASE PendingStep
  BY <1>3, PendingType
<1>4. CASE NextDay
  BY <1>4 DEF TypeOK, StaffOK, RecordsOK, NextDay, staff, records
<1>5. CASE UNCHANGED vars
  BY <1>5 DEF TypeOK, StaffOK, RecordsOK, vars
<1>6. QED
  BY <1>1, <1>2, <1>3, <1>4, <1>5 DEF Next

\* Every column of the accounts, personnel, access and evaluation tables keeps
\* its declared type (TypeOK), whatever the endpoints do and in whatever order.
THEOREM TypeCorrect == Spec => []TypeOK
<1>1. Init => TypeOK
  BY ConstantsAssumption
     DEF Init, TypeOK, StaffOK, RecordsOK, NoChain, ChainType, NobodyDid, DoneType, Rows,
         Statuses, OpenStatuses
<1>2. TypeOK /\ [Next]_vars => TypeOK'
  BY NextType
<1>3. QED
  BY <1>1, <1>2, PTL DEF Spec

-----------------------------------------------------------------------------
(* Facts about the guards and the steps *)

\* No transition bound to the HR seat is open to a record of the HR unit.
LEMMA HrSeatNeedsHrStage ==
  ASSUME NEW a \in Actions, NEW c, NEW s, Transition(a).seat = "hr", Guard(a, c, s)
  PROVE  ~c.skip
<1> USE DEF SubmitActions, HrActions, ApprovalActions, ReturnActions, ReturnOrder, CancelActions
<1>1. CASE a \in SubmitActions
  BY <1>1 DEF Transition, SubmitTransition, T
<1>2. CASE a \in HrActions
  <2>1. Guard(a, c, s) = HrGuard(a, c)
    BY <1>2 DEF Guard
  <2>2. HrGuard(a, c)
    BY <2>1
  <2>3. a = "hr_approve" \/ a = "hr_finalize_direct_ceo" \/ a = "hr_approve_manager"
    BY <1>2
  <2>4. QED
    BY <2>2, <2>3 DEF HrGuard, HrFinalizes
<1>3. CASE a \in ApprovalActions
  BY <1>3 DEF Transition, ApprovalTransition, T
<1>4. CASE a \in ReturnActions
  <2>1. Transition(a) = ReturnTransition(a) /\ Guard(a, c, s) = ReturnGuard(a, c)
    BY <1>4 DEF Transition, Guard
  <2>2. a = "hr_return"
    BY <1>4, <2>1 DEF ReturnTransition, T
  <2>3. QED
    BY <2>1, <2>2 DEF ReturnGuard
<1>5. CASE a \in CancelActions
  BY <1>5 DEF Transition, CancelTransition, T
<1> QED BY <1>1, <1>2, <1>3, <1>4, <1>5 DEF Actions

\* What a user may do, they do to an open record.
LEMMA PermittedIsOpen ==
  ASSUME NEW a \in Actions, NEW u, NEW r, Permitted(r, a, u)
  PROVE  Open(r)
  BY TransitionFrom DEF Permitted, CanDo, Available, Open

-----------------------------------------------------------------------------
(* A closed record never changes *)

Closed(r) == status[r] \in {"finalized", "cancelled"}

Untouched(r) ==
  /\ status'[r] = status[r] /\ chain'[r] = chain[r] /\ hr'[r] = hr[r]
  /\ sheet'[r] = sheet[r] /\ bonus'[r] = bonus[r] /\ result'[r] = result[r]
  /\ doc'[r] = doc[r]

\* Every step that writes a record writes one that is open, or not yet made.
LEMMA ChainStepActsOnOpen ==
  ASSUME NEW u \in Users, NEW r \in Records, ChainStep(u, r)
  PROVE  status[r] = "none" \/ Open(r)
<1>1. CASE \E p \in People : Create(p, r)
  BY <1>1 DEF Create
<1>2. CASE \/ \E s \in Sheets : UpsertScores(u, r, s)
           \/ \E b \in Bonuses : SetSpecialScore(u, r, b)
  BY <1>2 DEF UpsertScores, SetSpecialScore, IsTheScorer, Open, OpenStatuses
<1>3. CASE Submit(u, r)
  <2>1. SubmitActionFor(chain[r]) \in Actions
    BY SubmitActionIsOne, ActionGroups
  <2>2. QED
    BY <1>3, <2>1, PermittedIsOpen DEF Submit
<1>4. CASE HrApprove(u, r)
  <2>1. HrActionFor(chain[r]) \in Actions
    BY HrActionIsOne, ActionGroups
  <2>2. QED
    BY <1>4, <2>1, PermittedIsOpen DEF HrApprove
<1>5. CASE DeputyApprove(u, r) \/ CeoFinalize(u, r)
  <2>1. "deputy_approve" \in Actions /\ "ceo_finalize" \in Actions
    BY ActionGroups DEF ApprovalActions
  <2>2. QED
    BY <1>5, <2>1, PermittedIsOpen DEF DeputyApprove, CeoFinalize
<1>6. CASE ReturnRecord(u, r)
  <2>1. PICK i \in DOMAIN ReturnOrder : Permitted(r, ReturnOrder[i], u)
    BY <1>6 DEF ReturnRecord
  <2>2. QED
    BY <2>1, ActionGroups, PermittedIsOpen
<1>7. CASE Cancel(u, r)
  <2>1. CancelActionOf(u) \in Actions
    BY ActionGroups DEF CancelActionOf, CancelActions
  <2>2. QED
    BY <1>7, <2>1, PermittedIsOpen DEF Cancel, MayCancel
<1>8. CASE \E d \in Until : ExtendWindow(u, r, d)
  BY <1>8 DEF ExtendWindow, Open, OpenStatuses
<1>9. CASE \/ HrClaim(u, r)
           \/ \E v \in Users : HrHandover(u, r, v)
           \/ HrComment(u, r)
           \/ \E f \in Seats, v \in Users : Reassign(u, r, f, v)
  BY <1>9 DEF HrClaim, HrHandover, HrComment, Reassign, Open, OpenStatuses
<1> QED BY <1>1, <1>2, <1>3, <1>4, <1>5, <1>6, <1>7, <1>8, <1>9 DEF ChainStep

\* And it writes that record only.
LEMMA ChainStepActsOnOne ==
  ASSUME TypeOK, NEW u \in Users, NEW r \in Records, ChainStep(u, r),
         NEW q \in Records, q # r
  PROVE  /\ Untouched(q)
         /\ subject'[q] = subject[q] /\ done'[q] = done[q]
<1> USE DEF Untouched, TypeOK, RecordsOK, shape, scoring
<1>1. CASE \E p \in People : Create(p, r)
  BY <1>1 DEF Create
<1>2. CASE \E s \in Sheets : UpsertScores(u, r, s)
  BY <1>2 DEF UpsertScores
<1>3. CASE \E b \in Bonuses : SetSpecialScore(u, r, b)
  BY <1>3 DEF SetSpecialScore
<1>4. CASE Submit(u, r)
  BY <1>4 DEF Submit, Move
<1>5. CASE HrApprove(u, r)
  BY <1>5 DEF HrApprove, Move
<1>6. CASE DeputyApprove(u, r)
  BY <1>6 DEF DeputyApprove, Move
<1>7. CASE CeoFinalize(u, r)
  BY <1>7 DEF CeoFinalize, Move
<1>8. CASE ReturnRecord(u, r)
  <2>1. PICK i \in DOMAIN ReturnOrder :
           /\ Move(r, ReturnOrder[i], u)
           /\ done' = [done EXCEPT ![r] = Rewound(@, Transition(ReturnOrder[i]).to)]
    BY <1>8 DEF ReturnRecord
  <2>2. UNCHANGED <<subject, chain, sheet, bonus, result, doc>>
    BY <1>8 DEF ReturnRecord
  <2>3. QED
    BY <2>1, <2>2 DEF Move
<1>9. CASE Cancel(u, r)
  BY <1>9 DEF Cancel, Move
<1>10. CASE \E d \in Until : ExtendWindow(u, r, d)
  BY <1>10 DEF ExtendWindow
<1>11. CASE HrClaim(u, r) \/ (\E v \in Users : HrHandover(u, r, v)) \/ HrComment(u, r)
  BY <1>11 DEF HrClaim, HrHandover, HrComment
<1>12. CASE \E f \in Seats, v \in Users : Reassign(u, r, f, v)
  BY <1>12 DEF Reassign
<1> QED BY <1>1, <1>2, <1>3, <1>4, <1>5, <1>6, <1>7, <1>8, <1>9, <1>10, <1>11, <1>12
        DEF ChainStep

\* The administration writes no column of a record but its status, and that
\* only on the open records of a person who leaves.
LEMMA StaffStepOnRecords ==
  ASSUME TypeOK, StaffStep
  PROVE  /\ UNCHANGED <<subject, chain, hr, sheet, bonus, result, doc, extended, done>>
         /\ \A r \in Records : status'[r] # status[r] => Open(r) /\ status'[r] = "cancelled"
<1>1. CASE \E u \in Users, p \in Leavers : Depart(u, p)
  <2>1. PICK p \in Leavers : /\ status' = ClosedOut(p)
                             /\ UNCHANGED <<shape, hr, scoring, doc, extended, done>>
    BY <1>1 DEF Depart
  <2>2. QED
    BY <2>1 DEF ClosedOut, OpenRecordsOf, shape, scoring
<1>2. ASSUME ~ \E u \in Users, p \in Leavers : Depart(u, p)
      PROVE  UNCHANGED records
  BY <1>2 DEF StaffStep, CommitAccess, ChangeRole, Disable, Enable, LinkAccount, Rejoin,
              MoveUnit, ToggleManager
<1>3. QED
  BY <1>1, <1>2 DEF records

\* What is not yet committed changes no record.
LEMMA PendingStepOnRecords ==
  ASSUME PendingStep
  PROVE  UNCHANGED <<accounts, personnel, access, records, today>>
  BY DEF PendingStep, InsertRecord, UpsertAccess, GiveUp

\* One step leaves a closed record as it was.
LEMMA ClosedStays ==
  ASSUME TypeOK, [Next]_vars, NEW q \in Records, Closed(q)
  PROVE  Untouched(q)
<1>1. ~Open(q) /\ status[q] # "none"
  BY DEF Closed, Open, OpenStatuses
<1>2. ASSUME NEW u \in Users, NEW r \in Records, ChainStep(u, r)
      PROVE  Untouched(q)
  <2>1. q # r
    BY <1>1, <1>2, ChainStepActsOnOpen
  <2>2. QED
    BY <1>2, <2>1, ChainStepActsOnOne
<1>3. CASE StaffStep
  BY <1>1, <1>3, StaffStepOnRecords DEF Untouched
<1>4. CASE PendingStep
  BY <1>4, PendingStepOnRecords DEF records, Untouched
<1>5. CASE NextDay
  BY <1>5 DEF NextDay, records, Untouched
<1>6. CASE UNCHANGED vars
  BY <1>6 DEF vars, Untouched
<1> QED BY <1>2, <1>3, <1>4, <1>5, <1>6 DEF Next

\* A finalized or cancelled record keeps its status, chain, scores, result and
\* document through every later endpoint, the departure of its subject included.
THEOREM SealedForever == Spec => FinalizedIsSealed
<1>1. TypeOK /\ [Next]_vars =>
        [\A r \in Records : status[r] \in {"finalized", "cancelled"} =>
           /\ status'[r] = status[r] /\ chain'[r] = chain[r] /\ hr'[r] = hr[r]
           /\ sheet'[r] = sheet[r] /\ bonus'[r] = bonus[r] /\ result'[r] = result[r]
           /\ doc'[r] = doc[r]]_vars
  BY ClosedStays DEF Closed, Untouched
<1>2. QED
  BY <1>1, TypeCorrect, PTL DEF Spec, FinalizedIsSealed

-----------------------------------------------------------------------------
(* HR stays out of the records of its own unit *)

\* The strengthening: before a record is opened nobody owns or performed
\* anything on it, so the stamp of a new record finds both columns empty.
HrInv ==
  /\ HrStaysOutOfItsUnit
  /\ \A r \in Records : status[r] = "none" => hr[r] = Nobody /\ done[r].hr = Nobody

\* What HrInv says of one record.
HrInvAt(r) ==
  /\ chain[r].skip => hr[r] = Nobody /\ done[r].hr = Nobody
  /\ status[r] = "none" => hr[r] = Nobody /\ done[r].hr = Nobody

\* A transition takes a record to a status of its life, and gives no record of
\* the HR unit an owner of the HR stage.
LEMMA MoveKeepsHr ==
  ASSUME TypeOK, HrInv, NEW a \in Actions, NEW u \in Users, NEW r \in Records,
         Permitted(r, a, u), Move(r, a, u)
  PROVE  /\ status'[r] # "none"
         /\ chain[r].skip => hr'[r] = Nobody
<1>1. status'[r] = Transition(a).to /\ hr'[r] = Claimed(hr[r], a, u)
  BY DEF Move, TypeOK, RecordsOK
<1>2. status'[r] # "none"
  BY <1>1, TransitionTo DEF Statuses, OpenStatuses
<1>3. ASSUME chain[r].skip
      PROVE  hr'[r] = Nobody
  <2>1. Guard(a, chain[r], status[r])
    BY DEF Permitted, CanDo, Available
  <2>2. Transition(a).seat # "hr"
    BY <1>3, <2>1, HrSeatNeedsHrStage
  <2>3. hr[r] = Nobody
    BY <1>3 DEF HrInv, HrStaysOutOfItsUnit
  <2>4. QED
    BY <1>1, <2>2, <2>3 DEF Claimed
<1> QED BY <1>2, <1>3

\* The review of HR is closed to the records of the HR unit.
LEMMA NoReviewOfHrUnit ==
  ASSUME NEW u, NEW r, HrApprove(u, r)
  PROVE  ~chain[r].skip
<1> DEFINE a == HrActionFor(chain[r])
<1>1. a \in HrActions /\ a \in Actions
  BY HrActionIsOne, ActionGroups
<1>2. Transition(a).seat = "hr"
  <2> HIDE DEF a
  <2>1. Transition(a) = HrTransition(a)
    BY <1>1 DEF Transition, SubmitActions, HrActions, ApprovalActions, ReturnActions,
                ReturnOrder, CancelActions
  <2>2. a = "hr_approve" \/ a = "hr_finalize_direct_ceo" \/ a = "hr_approve_manager"
    BY <1>1 DEF HrActions
  <2>3. QED
    BY <2>1, <2>2 DEF HrTransition, T
<1>3. Guard(a, chain[r], status[r])
  <2>1. Permitted(r, a, u)
    BY DEF HrApprove
  <2> HIDE DEF a
  <2>2. QED
    BY <2>1 DEF Permitted, CanDo, Available
<1>4. QED
  BY <1>1, <1>2, <1>3, HrSeatNeedsHrStage

\* An HR user who may handle an open record handles one of another unit.
LEMMA HrHandlesOthers ==
  ASSUME NEW u, NEW r, role[u] = "hr", HrMayHandle(r, u), Open(r)
  PROVE  ~chain[r].skip
  BY DEF HrMayHandle, Shielded

\* Every endpoint of the chain, on the record it writes.
LEMMA ChainStepKeepsHr ==
  ASSUME TypeOK, HrInv, NEW u \in Users, NEW r \in Records, ChainStep(u, r)
  PROVE  HrInvAt(r)'
<1>0. /\ HrInvAt(r)
      /\ done \in [Records -> DoneType] /\ hr \in [Records -> Users \cup {Nobody}]
      /\ done[r] \in DoneType
  BY DEF HrInv, HrStaysOutOfItsUnit, HrInvAt, TypeOK, RecordsOK
<1>1. CASE \E p \in People : Create(p, r)
  <2>1. status[r] = "none" /\ hr'[r] = hr[r] /\ done'[r] = done[r]
    BY <1>1 DEF Create
  <2>2. QED
    BY <1>0, <2>1 DEF HrInvAt
<1>2. CASE \/ \E s \in Sheets : UpsertScores(u, r, s)
           \/ \E b \in Bonuses : SetSpecialScore(u, r, b)
           \/ \E d \in Until : ExtendWindow(u, r, d)
  BY <1>0, <1>2 DEF UpsertScores, SetSpecialScore, ExtendWindow, shape, HrInvAt
<1>3. CASE Submit(u, r)
  <2>1. SubmitActionFor(chain[r]) \in Actions
    BY SubmitActionIsOne, ActionGroups
  <2>2. /\ status'[r] # "none"
        /\ chain[r].skip => hr'[r] = Nobody
    BY <1>3, <2>1, MoveKeepsHr DEF Submit
  <2>3. chain'[r] = chain[r] /\ done'[r].hr = Nobody
    BY <1>0, <1>3 DEF Submit, shape, NobodyDid
  <2>4. QED
    BY <2>2, <2>3 DEF HrInvAt
<1>4. CASE HrApprove(u, r)
  <2>1. HrActionFor(chain[r]) \in Actions
    BY HrActionIsOne, ActionGroups
  <2>2. status'[r] # "none"
    BY <1>4, <2>1, MoveKeepsHr DEF HrApprove
  <2>3. chain'[r] = chain[r]
    BY <1>4 DEF HrApprove, shape
  <2>4. QED
    BY <1>4, <2>2, <2>3, NoReviewOfHrUnit DEF HrInvAt
<1>5. CASE DeputyApprove(u, r)
  <2>1. "deputy_approve" \in Actions
    BY ActionGroups DEF ApprovalActions
  <2>2. /\ status'[r] # "none"
        /\ chain[r].skip => hr'[r] = Nobody
    BY <1>5, <2>1, MoveKeepsHr DEF DeputyApprove
  <2>3. chain'[r] = chain[r]
    BY <1>5 DEF DeputyApprove, shape
  <2>4. done'[r].hr = done[r].hr
    <3>1. done'[r] = [done[r] EXCEPT !.dep = u]
      BY <1>0, <1>5 DEF DeputyApprove
    <3>2. QED
      BY <1>0, <3>1 DEF DoneType
  <2>5. QED
    BY <1>0, <2>2, <2>3, <2>4 DEF HrInvAt
<1>6. CASE CeoFinalize(u, r)
  <2>1. "ceo_finalize" \in Actions
    BY ActionGroups DEF ApprovalActions
  <2>2. /\ status'[r] # "none"
        /\ chain[r].skip => hr'[r] = Nobody
    BY <1>6, <2>1, MoveKeepsHr DEF CeoFinalize
  <2>3. chain'[r] = chain[r]
    BY <1>6 DEF CeoFinalize, shape
  <2>4. done'[r].hr = done[r].hr
    <3>1. done'[r] = [done[r] EXCEPT !.final = u]
      BY <1>0, <1>6 DEF CeoFinalize
    <3>2. QED
      BY <1>0, <3>1 DEF DoneType
  <2>5. QED
    BY <1>0, <2>2, <2>3, <2>4 DEF HrInvAt
<1>7. CASE ReturnRecord(u, r)
  <2>1. PICK i \in DOMAIN ReturnOrder :
           /\ Permitted(r, ReturnOrder[i], u)
           /\ Move(r, ReturnOrder[i], u)
           /\ done' = [done EXCEPT ![r] = Rewound(@, Transition(ReturnOrder[i]).to)]
    BY <1>7 DEF ReturnRecord
  <2>2. /\ status'[r] # "none"
        /\ chain[r].skip => hr'[r] = Nobody
    BY <2>1, ActionGroups, MoveKeepsHr
  <2>3. chain'[r] = chain[r]
    BY <1>7 DEF ReturnRecord, shape
  <2>4. done'[r].hr \in {done[r].hr, Nobody}
    <3>1. ASSUME NEW s
          PROVE  Rewound(done[r], s).hr \in {done[r].hr, Nobody}
      <4>1. /\ [done[r] EXCEPT !.hr = Nobody, !.dep = Nobody].hr = Nobody
            /\ [done[r] EXCEPT !.dep = Nobody].hr = done[r].hr
            /\ NobodyDid.hr = Nobody
        BY <1>0 DEF DoneType, NobodyDid
      <4>2. QED
        BY <4>1 DEF Rewound
    <3>2. done'[r] = Rewound(done[r], Transition(ReturnOrder[i]).to)
      BY <1>0, <2>1
    <3>3. QED
      BY <3>1, <3>2
  <2>5. QED
    BY <1>0, <2>2, <2>3, <2>4 DEF HrInvAt
<1>8. CASE Cancel(u, r)
  <2>1. CancelActionOf(u) \in Actions
    BY ActionGroups DEF CancelActionOf, CancelActions
  <2>2. /\ status'[r] # "none"
        /\ chain[r].skip => hr'[r] = Nobody
    BY <1>8, <2>1, MoveKeepsHr DEF Cancel, MayCancel
  <2>3. chain'[r] = chain[r] /\ done'[r] = done[r]
    BY <1>8 DEF Cancel, shape
  <2>4. QED
    BY <1>0, <2>2, <2>3 DEF HrInvAt
<1>9. CASE HrClaim(u, r) \/ (\E v \in Users : HrHandover(u, r, v)) \/ HrComment(u, r)
  <2>1. Open(r) /\ ~chain[r].skip
    <3>1. Open(r) /\ role[u] = "hr" /\ HrMayHandle(r, u)
      BY <1>9 DEF HrClaim, HrHandover, HrComment, Open, OpenStatuses
    <3>2. QED
      BY <3>1, HrHandlesOthers
  <2>2. chain'[r] = chain[r] /\ status'[r] = status[r]
    BY <1>9 DEF HrClaim, HrHandover, HrComment, shape
  <2>3. QED
    BY <2>1, <2>2 DEF HrInvAt, Open, OpenStatuses
<1>10. CASE \E f \in Seats, v \in Users : Reassign(u, r, f, v)
  <2>1. PICK f \in Seats, v \in Users :
           /\ chain' = [chain EXCEPT ![r] = [@ EXCEPT ![f] = v]]
           /\ UNCHANGED <<status, hr, done>>
    BY <1>10 DEF Reassign
  <2>2. chain \in [Records -> ChainType] /\ chain[r] \in ChainType
    BY DEF TypeOK, RecordsOK
  <2>3. chain'[r] = [chain[r] EXCEPT ![f] = v]
    BY <2>1, <2>2
  <2>4. chain'[r].skip = chain[r].skip
    BY <2>2, <2>3 DEF ChainType, Seats
  <2>5. QED
    BY <1>0, <2>1, <2>4 DEF HrInvAt
<1> QED BY <1>1, <1>2, <1>3, <1>4, <1>5, <1>6, <1>7, <1>8, <1>9, <1>10 DEF ChainStep

LEMMA HrInvStep ==
  ASSUME TypeOK, HrInv, [Next]_vars
  PROVE  HrInv'
<1>1. SUFFICES ASSUME NEW q \in Records PROVE HrInvAt(q)'
  BY DEF HrInv, HrStaysOutOfItsUnit, HrInvAt
<1>2. HrInvAt(q)
  BY DEF HrInv, HrStaysOutOfItsUnit, HrInvAt
<1>3. ASSUME NEW u \in Users, NEW r \in Records, ChainStep(u, r)
      PROVE  HrInvAt(q)'
  <2>1. CASE q = r
    BY <1>3, <2>1, ChainStepKeepsHr
  <2>2. CASE q # r
    BY <1>2, <1>3, <2>2, ChainStepActsOnOne DEF HrInvAt, Untouched
  <2>3. QED
    BY <2>1, <2>2
<1>4. CASE StaffStep
  BY <1>2, <1>4, StaffStepOnRecords DEF HrInvAt, Open, OpenStatuses
<1>5. CASE PendingStep
  BY <1>2, <1>5, PendingStepOnRecords DEF records, HrInvAt
<1>6. CASE NextDay
  BY <1>2, <1>6 DEF NextDay, records, HrInvAt
<1>7. CASE UNCHANGED vars
  BY <1>2, <1>7 DEF vars, HrInvAt
<1> QED BY <1>3, <1>4, <1>5, <1>6, <1>7 DEF Next

\* HR never owns and never passes a record of its own unit, however owners are
\* claimed, handed over and seats reassigned (hr_review_skipped).
THEOREM HrOutOfItsUnit == Spec => []HrStaysOutOfItsUnit
<1>1. Init => HrInv
  BY DEF Init, HrInv, HrStaysOutOfItsUnit, NobodyDid
<1>2. TypeOK /\ HrInv /\ [Next]_vars => HrInv'
  BY HrInvStep
<1>3. HrInv => HrStaysOutOfItsUnit
  BY DEF HrInv
<1>4. QED
  BY <1>1, <1>2, <1>3, TypeCorrect, PTL DEF Spec

-----------------------------------------------------------------------------
(* Records are about people *)

\* A record that was opened is about a person, so that an account linked to
\* nobody is never taken for its subject.
SubjectInv == \A r \in Records : status[r] # "none" => subject[r] \in People

\* Apart from the opening and the replacing of a seat, an endpoint of the chain
\* takes a record that exists and leaves its subject and its seats alone.
LEMMA OtherStepsKeepTheShape ==
  ASSUME NEW u \in Users, NEW r \in Records, ChainStep(u, r),
         ~ \E p \in People : Create(p, r),
         ~ \E f \in Seats, v \in Users : Reassign(u, r, f, v)
  PROVE  UNCHANGED <<staff, subject, chain>> /\ status[r] # "none"
<1>1. status[r] # "none"
  <2>1. CASE \/ \E s \in Sheets : UpsertScores(u, r, s)
             \/ \E b \in Bonuses : SetSpecialScore(u, r, b)
             \/ \E d \in Until : ExtendWindow(u, r, d)
    BY <2>1 DEF UpsertScores, SetSpecialScore, ExtendWindow, IsTheScorer
  <2>2. CASE HrClaim(u, r) \/ (\E v \in Users : HrHandover(u, r, v)) \/ HrComment(u, r)
    BY <2>2 DEF HrClaim, HrHandover, HrComment, Open, OpenStatuses
  <2>3. CASE \/ Submit(u, r) \/ HrApprove(u, r) \/ DeputyApprove(u, r)
             \/ CeoFinalize(u, r) \/ ReturnRecord(u, r) \/ Cancel(u, r)
    <3>1. /\ SubmitActionFor(chain[r]) \in Actions /\ HrActionFor(chain[r]) \in Actions
          /\ "deputy_approve" \in Actions /\ "ceo_finalize" \in Actions
          /\ CancelActionOf(u) \in Actions
          /\ \A i \in DOMAIN ReturnOrder : ReturnOrder[i] \in Actions
      BY SubmitActionIsOne, HrActionIsOne, ActionGroups
         DEF ApprovalActions, CancelActionOf, CancelActions
    <3>2. PICK a \in Actions : Permitted(r, a, u)
      BY <2>3, <3>1 DEF Submit, HrApprove, DeputyApprove, CeoFinalize, ReturnRecord,
                        Cancel, MayCancel
    <3>3. QED
      BY <3>2, PermittedIsOpen DEF Open, OpenStatuses
  <2>4. QED
    BY <2>1, <2>2, <2>3 DEF ChainStep
<1>2. UNCHANGED <<staff, subject, chain>>
  BY DEF ChainStep, UpsertScores, SetSpecialScore, ExtendWindow, Submit, HrApprove,
         DeputyApprove, CeoFinalize, ReturnRecord, Cancel, HrClaim, HrHandover,
         HrComment, shape
<1>3. QED
  BY <1>1, <1>2

LEMMA SubjectInvStep ==
  ASSUME TypeOK, SubjectInv, [Next]_vars
  PROVE  SubjectInv'
<1>1. ASSUME NEW u \in Users, NEW r \in Records, ChainStep(u, r), NEW q \in Records,
             status'[q] # "none"
      PROVE  subject'[q] \in People
  <2>1. CASE q # r
    BY <1>1, <2>1, ChainStepActsOnOne DEF SubjectInv, Untouched
  <2>2. CASE q = r /\ \E p \in People : Create(p, r)
    BY <2>2 DEF Create, TypeOK, RecordsOK
  <2>3. CASE q = r /\ \E f \in Seats, v \in Users : Reassign(u, r, f, v)
    BY <1>1, <2>3 DEF Reassign, SubjectInv
  <2>4. CASE /\ q = r /\ ~ \E p \in People : Create(p, r)
             /\ ~ \E f \in Seats, v \in Users : Reassign(u, r, f, v)
    BY <1>1, <2>4, OtherStepsKeepTheShape DEF SubjectInv
  <2>5. QED
    BY <2>1, <2>2, <2>3, <2>4
<1>2. CASE StaffStep
  BY <1>2, StaffStepOnRecords DEF SubjectInv, Open, OpenStatuses
<1>3. CASE PendingStep \/ NextDay \/ UNCHANGED vars
  BY <1>3, PendingStepOnRecords DEF SubjectInv, NextDay, vars, records
<1> QED BY <1>1, <1>2, <1>3 DEF Next, SubjectInv

\* Every opened record has its subject, through the whole life of the workflow.
LEMMA SubjectInvAlways == Spec => []SubjectInv
<1>1. Init => SubjectInv
  BY DEF Init, SubjectInv
<1>2. TypeOK /\ SubjectInv /\ [Next]_vars => SubjectInv'
  BY SubjectInvStep
<1>3. QED
  BY <1>1, <1>2, TypeCorrect, PTL DEF Spec

-----------------------------------------------------------------------------
(* Nobody takes the second side of their own evaluation *)

\* What SidesStayApart says of one account and one person.
Apart(u, p) ==
  /\ link[u] # p /\ link'[u] = p => ~Seated(u, p)'
  /\ link[u] = p => /\ Waiting(u, p)' => Waiting(u, p)
                    /\ Seated(u, p)' => Seated(u, p) \/ Waiting(u, p)

\* The two places of a seat are looked at one by one.
LEMMA ApartByParts ==
  ASSUME NEW u \in Users, NEW p \in People, link' = link,
         link[u] = p =>
           /\ Waiting(u, p)' => Waiting(u, p)
           /\ access'[p] # NoAccess /\ SitsOn(u, access'[p]) => Seated(u, p) \/ Waiting(u, p)
           /\ \A r \in Records :
                status'[r] # "none" /\ subject'[r] = p /\ SitsOn(u, chain'[r])
                  => Seated(u, p) \/ Waiting(u, p)
  PROVE  Apart(u, p)
  BY DEF Apart, Seated, SitsOn

\* Whoever is linked to p is in no chain that was found to exclude p.
LEMMA ExcludedIsOut ==
  ASSUME NEW u \in Users, NEW p \in People, NEW c, SeatsExclude(c, p), link[u] = p
  PROVE  ~SitsOn(u, c)
  BY ConstantsAssumption DEF SeatsExclude, NotTheSubject, SitsOn

\* The endpoints of the chain: an opening commits the seats it had written, and a
\* replaced seat is compared with the subject together with the others.
LEMMA ChainStepApart ==
  ASSUME TypeOK, NEW w \in Users, NEW q \in Records, ChainStep(w, q),
         NEW u \in Users, NEW p \in People
  PROVE  Apart(u, p)
<1>1. ASSUME NEW x \in People, Create(x, q)
      PROVE  Apart(u, p)
  <2>1. /\ link' = link /\ access' = access /\ flushed' = flushed
        /\ inserted[x] # NoChain
        /\ inserted' = [inserted EXCEPT ![x] = NoChain]
        /\ subject' = [subject EXCEPT ![q] = x]
        /\ chain' = [chain EXCEPT ![q] = inserted[x]]
    BY <1>1 DEF Create, accounts
  <2>2. Waiting(u, p)' => Waiting(u, p)
    BY <2>1 DEF Waiting, SitsOn, TypeOK, StaffOK
  <2>3. ASSUME NEW r \in Records, status'[r] # "none", subject'[r] = p, SitsOn(u, chain'[r])
        PROVE  Seated(u, p) \/ Waiting(u, p)
    <3>1. CASE r = q
      <4>1. x = p /\ chain'[r] = inserted[x]
        BY <2>1, <2>3, <3>1 DEF TypeOK, RecordsOK
      <4>2. QED
        BY <2>1, <2>3, <4>1 DEF Waiting
    <3>2. CASE r # q
      <4>1. status'[r] = status[r] /\ chain'[r] = chain[r] /\ subject'[r] = subject[r]
        BY <3>2, ChainStepActsOnOne DEF Untouched
      <4>2. QED
        BY <2>3, <4>1 DEF Seated
    <3>3. QED
      BY <3>1, <3>2
  <2>4. QED
    BY <2>1, <2>2, <2>3, ApartByParts DEF Seated
<1>2. ASSUME NEW f \in Seats, NEW v \in Users, Reassign(w, q, f, v)
      PROVE  Apart(u, p)
  <2>1. /\ UNCHANGED <<link, access, flushed, inserted, status, subject>>
        /\ SeatsExclude([chain[q] EXCEPT ![f] = v], subject[q])
        /\ chain' = [chain EXCEPT ![q] = [chain[q] EXCEPT ![f] = v]]
    BY <1>2 DEF Reassign, staff
  <2>2. ASSUME NEW r \in Records, link[u] = p, status'[r] # "none", subject'[r] = p,
               SitsOn(u, chain'[r])
        PROVE  Seated(u, p)
    <3>1. CASE r = q
      BY <2>1, <2>2, <3>1, ExcludedIsOut DEF TypeOK, RecordsOK
    <3>2. CASE r # q
      BY <2>1, <2>2, <3>2 DEF Seated, TypeOK, RecordsOK
    <3>3. QED
      BY <3>1, <3>2
  <2>3. QED
    BY <2>1, <2>2, ApartByParts DEF Seated, Waiting
<1>3. ASSUME ~ \E x \in People : Create(x, q),
             ~ \E f \in Seats, v \in Users : Reassign(w, q, f, v)
      PROVE  Apart(u, p)
  <2>1. UNCHANGED <<staff, subject, chain>> /\ status[q] # "none"
    BY <1>3, OtherStepsKeepTheShape
  <2>2. \A r \in Records : status'[r] # "none" => status[r] # "none"
    BY <2>1, ChainStepActsOnOne DEF Untouched
  <2>3. QED
    BY <2>1, <2>2, ApartByParts DEF staff, Seated, Waiting
<1> QED BY <1>1, <1>2, <1>3

\* The administration: a link is compared with the access row and with every
\* record, and a row that is committed was waiting.
LEMMA StaffStepApart ==
  ASSUME TypeOK, StaffStep, NEW u \in Users, NEW p \in People
  PROVE  Apart(u, p)
<1>1. /\ subject' = subject /\ chain' = chain
      /\ \A r \in Records : status'[r] # "none" => status[r] # "none"
  BY StaffStepOnRecords DEF Open, OpenStatuses
<1>2. ASSUME NEW l \in Relinks, LinkAccount(l[1], l[2])
      PROVE  Apart(u, p)
  <2> DEFINE w == l[1]
             q == l[2]
  <2>1. /\ w \in Users /\ q \in People \cup {Nobody}
        /\ link' = [link EXCEPT ![w] = q]
        /\ UNCHANGED <<access, flushed, inserted, status, subject, chain>>
        /\ q # Nobody => LinkAllowed(w, q)
        /\ link \in [Users -> People \cup {Nobody}] /\ Nobody \notin People
    BY <1>2, ConstantsAssumption DEF LinkAccount, TypeOK, StaffOK, pending, records
  <2> HIDE DEF w, q
  <2>2. link'[u] = IF u = w THEN q ELSE link[u]
    BY <2>1
  <2>3. ASSUME link[u] # p, link'[u] = p
        PROVE  ~Seated(u, p)'
    <3>1. u = w /\ q = p /\ LinkAllowed(u, p)
      BY <2>1, <2>2, <2>3
    <3>2. QED
      BY <2>1, <3>1 DEF LinkAllowed, Seated, SitsOn
  <2>4. QED
    BY <2>1, <2>3 DEF Apart, Seated, Waiting
<1>3. ASSUME NEW x \in People, NEW row \in NewRows, CommitAccess(x, row)
      PROVE  Apart(u, p)
  <2>1. /\ UNCHANGED <<link, inserted, status, subject, chain>>
        /\ flushed[x] # NoAccess
        /\ access' = [access EXCEPT ![x] = flushed[x]]
        /\ flushed' = [flushed EXCEPT ![x] = NoAccess]
    BY <1>3, ConstantsAssumption DEF CommitAccess, accounts, records
  <2>2. /\ access'[p] = IF p = x THEN flushed[x] ELSE access[p]
        /\ flushed'[p] = IF p = x THEN NoAccess ELSE flushed[p]
    BY <2>1 DEF TypeOK, StaffOK
  <2>3. QED
    BY <2>1, <2>2, ApartByParts DEF Seated, Waiting
<1>4. ASSUME NEW x \in Promotable, ToggleManager(x)
      PROVE  Apart(u, p)
  <2>1. UNCHANGED <<link, flushed, inserted, status, subject, chain>>
    BY <1>4 DEF ToggleManager, accounts, pending, records
  <2>2. ASSUME access'[p] # NoAccess, SitsOn(u, access'[p])
        PROVE  access[p] # NoAccess /\ SitsOn(u, access[p])
    <3>1. CASE access'[p] = access[p]
      BY <2>2, <3>1
    <3>2. CASE access'[p] # access[p]
      <4>1. access[p] # NoAccess /\ access'[p] = [access[p] EXCEPT !.us = Nobody]
        BY <1>4, <3>2 DEF ToggleManager, TypeOK, StaffOK
      <4>2. access[p] \in Rows
        BY <4>1 DEF TypeOK, StaffOK
      <4>3. \A f \in Seats : access'[p][f] \in {access[p][f], Nobody}
        BY <4>1, <4>2 DEF Rows, Seats
      <4>4. QED
        BY <2>2, <4>1, <4>3, ConstantsAssumption DEF SitsOn
    <3>3. QED
      BY <3>1, <3>2
  <2>3. QED
    BY <2>1, <2>2, ApartByParts DEF Seated, Waiting
<1>5. CASE \/ \E g \in Grants : ChangeRole(g[1], g[2])
           \/ \E v \in Switchable : Disable(v) \/ Enable(v)
           \/ \E v \in Users, x \in Leavers : Depart(v, x)
           \/ \E x \in Leavers : Rejoin(x)
           \/ \E x \in Movers : MoveUnit(x)
  <2>1. UNCHANGED <<link, access, flushed, inserted>>
    BY <1>5 DEF ChangeRole, Disable, Enable, Depart, Rejoin, MoveUnit, accounts, pending
  <2>2. QED
    BY <1>1, <2>1, ApartByParts DEF Seated, Waiting
<1> QED BY <1>2, <1>3, <1>4, <1>5 DEF StaffStep

\* What is written passes the checks of the endpoint and the trigger of its table.
LEMMA PendingStepApart ==
  ASSUME TypeOK, PendingStep, NEW u \in Users, NEW p \in People
  PROVE  Apart(u, p)
<1>1. UNCHANGED <<link, access, status, subject, chain>>
  BY PendingStepOnRecords DEF accounts, records
<1>2. ASSUME NEW w \in Users, NEW x \in People, InsertRecord(w, x), link[u] = p
      PROVE  Waiting(u, p)' => Waiting(u, p)
  <2> DEFINE c == [us |-> access[x].us, dep |-> access[x].dep, ceo |-> access[x].ceo,
                   skip |-> inHrUnit[x]]
  <2>1. /\ flushed' = flushed /\ SeatsExclude(access[x], x)
        /\ inserted' = [inserted EXCEPT ![x] = c]
        /\ access[x] \in Rows
    BY <1>2 DEF InsertRecord, TypeOK, StaffOK
  <2>2. \A f \in Seats : c[f] = access[x][f]
    BY <2>1 DEF Seats, Rows
  <2> HIDE DEF c
  <2>3. SeatsExclude(c, x)
    BY <2>1, <2>2 DEF SeatsExclude
  <2>4. inserted'[p] = IF p = x THEN c ELSE inserted[p]
    BY <2>1 DEF TypeOK, StaffOK
  <2>5. QED
    BY <1>2, <2>1, <2>3, <2>4, ExcludedIsOut DEF Waiting
<1>3. ASSUME NEW x \in People, NEW row \in NewRows, UpsertAccess(x, row), link[u] = p
      PROVE  Waiting(u, p)' => Waiting(u, p)
  <2>1. /\ inserted' = inserted /\ SeatsExclude(row, x)
        /\ flushed'[p] = IF p = x THEN row ELSE flushed[p]
    BY <1>3 DEF UpsertAccess, RowAllowed, TypeOK, StaffOK
  <2>2. QED
    BY <1>3, <2>1, ExcludedIsOut DEF Waiting
<1>4. ASSUME NEW x \in People, GiveUp(x)
      PROVE  Waiting(u, p)' => Waiting(u, p)
  <2>1. flushed'[p] \in {flushed[p], NoAccess} /\ inserted'[p] \in {inserted[p], NoChain}
    BY <1>4 DEF GiveUp, TypeOK, StaffOK
  <2>2. QED
    BY <2>1 DEF Waiting
<1>5. link[u] = p => (Waiting(u, p)' => Waiting(u, p))
  BY <1>2, <1>3, <1>4 DEF PendingStep
<1>6. QED
  BY <1>1, <1>5, ApartByParts DEF Seated

\* Nobody takes the second side of an evaluation: an account is never linked to
\* a person in whose chain it sits, and once linked it is written into none,
\* through every relinking, reassignment and rewriting (the two guards of
\* self_evaluation.py with the triggers behind them).  Only a row that was
\* written before the link comes in after it.
THEOREM NobodyTakesBothSides == Spec => SidesStayApart
<1>1. ASSUME TypeOK, [Next]_vars, NEW u \in Users, NEW p \in People
      PROVE  Apart(u, p)
  <2>1. CASE NextDay \/ UNCHANGED vars
    BY <2>1 DEF NextDay, vars, staff, records, Apart, Seated, Waiting
  <2>2. QED
    BY <1>1, <2>1, ChainStepApart, StaffStepApart, PendingStepApart DEF Next
<1>2. TypeOK /\ [Next]_vars =>
        [\A u \in Users, p \in People :
           /\ link[u] # p /\ link'[u] = p => ~Seated(u, p)'
           /\ link[u] = p => /\ Waiting(u, p)' => Waiting(u, p)
                             /\ Seated(u, p)' => Seated(u, p) \/ Waiting(u, p)]_vars
  BY <1>1 DEF Apart
<1>3. QED
  BY <1>2, TypeCorrect, PTL DEF Spec, SidesStayApart

-----------------------------------------------------------------------------
(* Who came to judge themselves decides nothing *)

\* A step of the chain writes the stage, the owner or the result of a record only
\* when the trigger of its table lets the row stand.
LEMMA ChainStepAsksTheTrigger ==
  ASSUME NEW u \in Users, NEW r \in Records, ChainStep(u, r),
         status[r] # "none", ~RowStands(r)
  PROVE  UNCHANGED <<status, hr, result>>
<1>1. CASE \/ \E p \in People : Create(p, r)
           \/ \E b \in Bonuses : SetSpecialScore(u, r, b)
           \/ Submit(u, r) \/ HrApprove(u, r) \/ DeputyApprove(u, r) \/ CeoFinalize(u, r)
           \/ ReturnRecord(u, r) \/ Cancel(u, r)
           \/ \E d \in Until : ExtendWindow(u, r, d)
           \/ HrClaim(u, r) \/ (\E v \in Users : HrHandover(u, r, v)) \/ HrComment(u, r)
  BY <1>1 DEF Create, SetSpecialScore, Submit, HrApprove, DeputyApprove, CeoFinalize,
              ReturnRecord, Cancel, MayCancel, ExtendWindow, HrClaim, HrHandover, HrComment,
              Permitted
<1>2. CASE \/ \E s \in Sheets : UpsertScores(u, r, s)
           \/ \E f \in Seats, v \in Users : Reassign(u, r, f, v)
  BY <1>2 DEF UpsertScores, Reassign, scoring
<1> QED BY <1>1, <1>2 DEF ChainStep

\* While a seat of a record is held by its subject, its stage, its HR owner and
\* its result stay as they are, whoever acts: the trigger of evaluation_records
\* refuses every UPDATE of the row but the one that gives the seat away.
THEOREM SeatedSubjectDecidesNothing == Spec => SeatedSubjectStopsTheRecord
<1>1. ASSUME TypeOK, [Next]_vars, NEW r \in Records, status[r] # "none", ~RowStands(r)
      PROVE  status'[r] = status[r] /\ hr'[r] = hr[r] /\ result'[r] = result[r]
  <2>1. ASSUME NEW u \in Users, NEW q \in Records, ChainStep(u, q)
        PROVE  status'[r] = status[r] /\ hr'[r] = hr[r] /\ result'[r] = result[r]
    <3>1. CASE q = r
      BY <1>1, <2>1, <3>1, ChainStepAsksTheTrigger
    <3>2. CASE q # r
      BY <1>1, <2>1, <3>2, ChainStepActsOnOne DEF Untouched
    <3>3. QED
      BY <3>1, <3>2
  <2>2. CASE StaffStep
    <3>1. hr' = hr /\ result' = result
      BY <1>1, <2>2, StaffStepOnRecords
    <3>2. CASE \E u \in Users, p \in Leavers : Depart(u, p)
      <4>1. PICK u \in Users, p \in Leavers : Depart(u, p)
        BY <3>2
      <4>2. r \notin OpenRecordsOf(p)
        BY <1>1, <4>1 DEF Depart, Permitted
      <4>3. QED
        BY <3>1, <4>1, <4>2 DEF Depart, ClosedOut
    <3>3. CASE ~ \E u \in Users, p \in Leavers : Depart(u, p)
      BY <2>2, <3>1, <3>3
         DEF StaffStep, CommitAccess, ChangeRole, Disable, Enable, LinkAccount, Rejoin,
             MoveUnit, ToggleManager, records
    <3>4. QED
      BY <3>2, <3>3
  <2>3. CASE PendingStep \/ NextDay \/ UNCHANGED vars
    BY <2>3, PendingStepOnRecords DEF NextDay, vars, records
  <2>4. QED
    BY <1>1, <2>1, <2>2, <2>3 DEF Next
<1>2. TypeOK /\ [Next]_vars =>
        [\A r \in Records : status[r] # "none" /\ ~SeatsExclude(chain[r], subject[r]) =>
           status'[r] = status[r] /\ hr'[r] = hr[r] /\ result'[r] = result[r]]_vars
  BY <1>1 DEF RowStands
<1>3. QED
  BY <1>2, TypeCorrect, PTL DEF Spec, SeatedSubjectStopsTheRecord
=============================================================================
