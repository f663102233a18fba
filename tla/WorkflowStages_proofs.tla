------------------------- MODULE WorkflowStages_proofs -------------------------
(***************************************************************************)
(* The course of an evaluation record, for every set of users, people and  *)
(* records and every shape of chain: what its status says of its scores,   *)
(* of the stages it passed, of the owner of its HR stage and of its        *)
(* document.  The endpoints are summed up first, each by the statuses it   *)
(* joins and what its guards say of the chain; the invariant follows from  *)
(* the summaries.                                                          *)
(*                                                                         *)
(* The second part shows from it that the workflow implements the promise  *)
(* of EvaluationPromise: each endpoint opens, submits, sends back, seals or*)
(* drops one evaluation, or changes nothing that the promise can see.      *)
(*                                                                         *)
(* The last part is about the objections that run beside it: an answered   *)
(* one is never replaced, and nobody answers one on their own evaluation   *)
(* or on that of their own unit.                                           *)
(***************************************************************************)
EXTENDS WorkflowSafety_proofs, WorkQueues, ResultResponse

-----------------------------------------------------------------------------
(* The invariant *)

\* A chain has a CEO from the day the record is opened, and only a record that
\* HR reviews waits in the HR queue.
ShapeAt(r) ==
  /\ status[r] # "none" => chain[r].ceo # Nobody
  /\ status[r] = "submitted" => ~chain[r].skip

\* What was approved is what stands on the record.
ResultAt(r) ==
  status[r] \in Reviewed =>
    sheet[r] \in CompleteSheets /\ result[r] = <<sheet[r], bonus[r]>>

PastHr == {"hr_approved", "deputy_approved", "finalized"}

\* The stages behind a status were performed by somebody, and HR's has an owner.
StagesAt(r) ==
  /\ status[r] \in Reviewed => done[r].scorer # Nobody
  /\ status[r] \in PastHr /\ ~chain[r].skip => done[r].hr # Nobody /\ hr[r] # Nobody
  /\ status[r] \in {"deputy_approved", "finalized"} /\ chain[r].us # Nobody
       /\ chain[r].dep # Nobody => done[r].dep # Nobody
  /\ status[r] = "finalized" => done[r].final # Nobody

\* A document there is exactly when the record is finalized, and it is whole.
DocumentAt(r) ==
  /\ (status[r] = "finalized") <=> (doc[r] # NoDoc)
  /\ doc[r] # NoDoc => /\ doc[r].result = result[r]
                       /\ \A row \in doc[r].signers : row.user # Nobody

CourseAt(r) == ShapeAt(r) /\ ResultAt(r) /\ StagesAt(r) /\ DocumentAt(r)

CourseInv == \A r \in Records : CourseAt(r)

-----------------------------------------------------------------------------
(* The endpoints, each by the statuses it joins                            *)

\* The groups of the table do not overlap.
LEMMA TransitionOf ==
  /\ \A a \in SubmitActions :
        /\ Transition(a) = SubmitTransition(a)
        /\ \A c, s : Guard(a, c, s) = SubmitGuard(a, c)
  /\ \A a \in HrActions :
        /\ Transition(a) = HrTransition(a)
        /\ \A c, s : Guard(a, c, s) = HrGuard(a, c)
  /\ \A a \in ApprovalActions :
        /\ Transition(a) = ApprovalTransition(a)
        /\ \A c, s : Guard(a, c, s) = ApprovalGuard(a, c, s)
  /\ \A a \in ReturnActions :
        /\ Transition(a) = ReturnTransition(a)
        /\ \A c, s : Guard(a, c, s) = ReturnGuard(a, c)
  /\ \A a \in CancelActions :
        /\ Transition(a) = CancelTransition(a)
        /\ \A c, s : Guard(a, c, s) = CancelGuard(a, c)
<1> USE DEF SubmitActions, HrActions, ApprovalActions, ReturnActions, ReturnOrder, CancelActions
<1>1. ASSUME NEW a \in SubmitActions
      PROVE  /\ Transition(a) = SubmitTransition(a)
             /\ \A c, s : Guard(a, c, s) = SubmitGuard(a, c)
  BY <1>1 DEF Transition, Guard
<1>2. ASSUME NEW a \in HrActions
      PROVE  /\ Transition(a) = HrTransition(a)
             /\ \A c, s : Guard(a, c, s) = HrGuard(a, c)
  BY <1>2 DEF Transition, Guard
<1>3. ASSUME NEW a \in ApprovalActions
      PROVE  /\ Transition(a) = ApprovalTransition(a)
             /\ \A c, s : Guard(a, c, s) = ApprovalGuard(a, c, s)
  BY <1>3 DEF Transition, Guard
<1>4. ASSUME NEW a \in ReturnActions
      PROVE  /\ Transition(a) = ReturnTransition(a)
             /\ \A c, s : Guard(a, c, s) = ReturnGuard(a, c)
  BY <1>4 DEF Transition, Guard
<1>5. ASSUME NEW a \in CancelActions
      PROVE  /\ Transition(a) = CancelTransition(a)
             /\ \A c, s : Guard(a, c, s) = CancelGuard(a, c)
  BY <1>5 DEF Transition, Guard
<1> QED BY <1>1, <1>2, <1>3, <1>4, <1>5

\* Submitting: whoever holds the seat that scores sends a draft to HR, or past
\* it when the record belongs to the HR unit.
LEMMA SubmitMoves ==
  ASSUME TypeOK, NEW u \in Users, NEW r \in Records, Submit(u, r)
  PROVE  /\ status[r] = "draft" /\ chain[r][ScorerSeat(chain[r])] = u
         /\ status'[r] \in {"submitted", "hr_approved", "deputy_approved"}
         /\ status'[r] = "submitted" <=> ~chain[r].skip
         /\ status'[r] = "deputy_approved" => chain[r].us = Nobody
         /\ hr'[r] = hr[r]
<1> DEFINE a == SubmitActionFor(chain[r])
<1>1. Permitted(r, a, u) /\ Move(r, a, u)
  BY DEF Submit
<1>2. a \in SubmitActions
  BY SubmitActionIsOne
<1>3. Transition(a) = SubmitTransition(a)
  BY <1>2, TransitionOf
<1>4. /\ Transition(a).from = {"draft"}
      /\ Transition(a).seat = ScorerSeat(chain[r])
      /\ Transition(a).to \in {"submitted", "hr_approved", "deputy_approved"}
      /\ Transition(a).to = "submitted" <=> ~chain[r].skip
      /\ Transition(a).to = "deputy_approved" => chain[r].us = Nobody
  BY <1>3 DEF SubmitTransition, SubmitActionFor, T, IsCeoOnlyPath, IsManagerPath, ScorerSeat
<1>5. ScorerSeat(chain[r]) \in Seats
  BY DEF ScorerSeat, Seats
<1> HIDE DEF a
<1>6. status[r] = "draft" /\ chain[r][ScorerSeat(chain[r])] = u
  BY <1>1, <1>4, <1>5 DEF Permitted, CanDo, Available, HoldsSeat, Seats
<1>7. status'[r] = Transition(a).to /\ hr'[r] = hr[r]
  BY <1>1, <1>4, <1>5 DEF Move, Claimed, Seats, TypeOK, RecordsOK
<1> QED BY <1>4, <1>6, <1>7

\* HR's review: a record of the HR queue goes where the shape of its chain
\* sends it, and HR's stage has an owner from then on.
LEMMA HrApproveMoves ==
  ASSUME TypeOK, NEW u \in Users, NEW r \in Records, HrApprove(u, r)
  PROVE  /\ status[r] = "submitted" /\ ~chain[r].skip
         /\ status'[r] = CASE HrFinalizes(chain[r]) -> "finalized"
                           [] IsManagerPath(chain[r]) /\ ~HrFinalizes(chain[r])
                                -> "deputy_approved"
                           [] OTHER -> "hr_approved"
         /\ hr[r] \in {u, Nobody} /\ hr'[r] = u
<1> DEFINE a == HrActionFor(chain[r])
<1>1. Permitted(r, a, u) /\ Move(r, a, u)
  BY DEF HrApprove
<1>2. a \in HrActions
  BY HrActionIsOne
<1>3. Transition(a) = HrTransition(a)
  BY <1>2, TransitionOf
<1>4. /\ Transition(a).from = {"submitted"}
      /\ Transition(a).seat = "hr"
      /\ Transition(a).to = CASE HrFinalizes(chain[r]) -> "finalized"
                              [] IsManagerPath(chain[r]) /\ ~HrFinalizes(chain[r])
                                   -> "deputy_approved"
                              [] OTHER -> "hr_approved"
  BY <1>3 DEF HrTransition, HrActionFor, T
<1> HIDE DEF a
<1>5. status[r] = "submitted" /\ hr[r] \in {u, Nobody}
  BY <1>1, <1>4 DEF Permitted, CanDo, Available, HoldsSeat
<1>6. status'[r] = Transition(a).to /\ hr'[r] = u
  BY <1>1, <1>4, <1>5 DEF Move, Claimed, TypeOK, RecordsOK
<1> QED BY <1>4, <1>5, <1>6, NoReviewOfHrUnit

\* The deputy of the chain passes what HR, or the HR unit's own path, sent on.
LEMMA DeputyApproveMoves ==
  ASSUME TypeOK, NEW u \in Users, NEW r \in Records, DeputyApprove(u, r)
  PROVE  /\ status[r] = "hr_approved" /\ chain[r].dep = u
         /\ status'[r] = "deputy_approved" /\ hr'[r] = hr[r]
<1>1. Transition("deputy_approve") = T({"hr_approved"}, "deputy_approved", "deputy", "dep")
  BY TransitionOf DEF ApprovalTransition, ApprovalActions
<1>2. Permitted(r, "deputy_approve", u) /\ Move(r, "deputy_approve", u)
  BY DEF DeputyApprove
<1>3. status[r] = "hr_approved" /\ chain[r].dep = u
  BY <1>1, <1>2 DEF Permitted, CanDo, Available, HoldsSeat, T
<1>4. status'[r] = "deputy_approved" /\ hr'[r] = hr[r]
  BY <1>1, <1>2 DEF Move, Claimed, T, TypeOK, RecordsOK
<1> QED BY <1>3, <1>4

\* The CEO's decision: past the deputy, or past HR when there is no deputy.
LEMMA CeoFinalizeMoves ==
  ASSUME TypeOK, NEW u \in Users, NEW r \in Records, CeoFinalize(u, r)
  PROVE  /\ \/ status[r] = "deputy_approved"
            \/ status[r] = "hr_approved" /\ chain[r].dep = Nobody
         /\ chain[r].ceo = u
         /\ status'[r] = "finalized" /\ hr'[r] = hr[r]
<1>1. Transition("ceo_finalize") =
        T({"deputy_approved", "hr_approved"}, "finalized", "ceo", "ceo")
  BY TransitionOf DEF ApprovalTransition, ApprovalActions
<1>2. Permitted(r, "ceo_finalize", u) /\ Move(r, "ceo_finalize", u)
  BY DEF CeoFinalize
<1>3. status[r] \in {"deputy_approved", "hr_approved"} /\ chain[r].ceo = u
  BY <1>1, <1>2 DEF Permitted, CanDo, Available, HoldsSeat, T
<1>4. status[r] # "hr_approved" \/ chain[r].dep = Nobody
  <2>1. Guard("ceo_finalize", chain[r], status[r])
    BY <1>2 DEF Permitted, CanDo, Available
  <2>2. ApprovalGuard("ceo_finalize", chain[r], status[r])
    BY <2>1, TransitionOf DEF ApprovalActions
  <2>3. QED
    BY <2>2 DEF ApprovalGuard, CeoFinalizeGuard
<1>5. status'[r] = "finalized" /\ hr'[r] = hr[r]
  BY <1>1, <1>2 DEF Move, Claimed, T, TypeOK, RecordsOK
<1> QED BY <1>3, <1>4, <1>5

\* Giving a record up.
LEMMA CancelMoves ==
  ASSUME TypeOK, NEW u \in Users, NEW r \in Records, Cancel(u, r)
  PROVE  Open(r) /\ status'[r] = "cancelled" /\ hr'[r] = hr[r]
<1> DEFINE a == CancelActionOf(u)
<1>1. a \in CancelActions /\ a \in Actions
  BY ActionGroups DEF CancelActionOf, CancelActions
<1>2. Transition(a) = CancelTransition(a)
  BY <1>1, TransitionOf
<1>3. Transition(a).to = "cancelled" /\ Transition(a).seat = "none"
  BY <1>1, <1>2 DEF CancelTransition, CancelActions, T
<1>4. Permitted(r, a, u) /\ Move(r, a, u)
  BY DEF Cancel, MayCancel
<1> HIDE DEF a
<1>5. QED
  BY <1>1, <1>3, <1>4, PermittedIsOpen DEF Move, Claimed, TypeOK, RecordsOK

\* A return goes back over at least one stage, to one that the chain has, and
\* takes back the stages it goes over.
LEMMA ReturnMoves ==
  ASSUME TypeOK, NEW u \in Users, NEW r \in Records, ReturnRecord(u, r)
  PROVE  /\ status[r] \in {"submitted", "hr_approved", "deputy_approved"}
         /\ status'[r] \in {"draft", "submitted", "hr_approved"}
         /\ status'[r] = "submitted" => ~chain[r].skip
         /\ status'[r] = "hr_approved" => status[r] = "deputy_approved"
         /\ hr[r] # Nobody => hr'[r] = hr[r]
         /\ done'[r] = Rewound(done[r], status'[r])
<1>1. PICK i \in DOMAIN ReturnOrder :
         /\ Permitted(r, ReturnOrder[i], u)
         /\ Move(r, ReturnOrder[i], u)
         /\ done' = [done EXCEPT ![r] = Rewound(@, Transition(ReturnOrder[i]).to)]
  BY DEF ReturnRecord
<1> DEFINE a == ReturnOrder[i]
<1>2. a \in ReturnActions
  BY DEF ReturnActions, ReturnOrder
<1> HIDE DEF a
<1>3. Transition(a) = ReturnTransition(a) /\ ReturnGuard(a, chain[r])
  <2>1. Guard(a, chain[r], status[r])
    BY <1>1 DEF Permitted, CanDo, Available, a
  <2>2. QED
    BY <1>2, <2>1, TransitionOf
<1>4. status[r] \in Transition(a).from /\ status'[r] = Transition(a).to
  BY <1>1 DEF Permitted, CanDo, Available, Move, TypeOK, RecordsOK, a
<1>5. a \in {"hr_return", "deputy_return", "deputy_return_hr_subject", "ceo_return",
             "ceo_return_manager", "ceo_return_manager_hr_subject", "ceo_return_ceo_only",
             "ceo_return_no_deputy", "ceo_return_no_deputy_hr_subject"}
  BY <1>2 DEF ReturnActions, ReturnOrder
<1>6. /\ status[r] \in {"submitted", "hr_approved", "deputy_approved"}
      /\ status'[r] \in {"draft", "submitted", "hr_approved"}
      /\ status'[r] = "hr_approved" => status[r] = "deputy_approved"
  BY <1>3, <1>4, <1>5 DEF ReturnTransition, DeputyReturnTo, T
<1>7. status'[r] = "submitted" =>
        a \in {"deputy_return", "ceo_return_manager", "ceo_return_no_deputy"}
  BY <1>3, <1>4, <1>5 DEF ReturnTransition, DeputyReturnTo, T
<1>8. status'[r] = "submitted" => ~chain[r].skip
  BY <1>3, <1>7 DEF ReturnGuard
<1>9. hr[r] # Nobody => hr'[r] = hr[r]
  BY <1>1 DEF Move, Claimed, TypeOK, RecordsOK
<1>10. done'[r] = Rewound(done[r], status'[r])
  BY <1>1, <1>4 DEF TypeOK, RecordsOK, a
<1> QED BY <1>6, <1>8, <1>9, <1>10

-----------------------------------------------------------------------------
(* One evaluation of a person is under way                                 *)

\* A person has one open record at most, the one that is being inserted counted
\* (the index of open records): a departure would close several evaluations in
\* one step otherwise.  And every chain that is inserted has a CEO.
OneUnderWay ==
  /\ \A q, r \in Records : Open(q) /\ Open(r) /\ subject[q] = subject[r] => q = r
  /\ \A p \in People : inserted[p] # NoChain =>
        OpenRecordsOf(p) = {} /\ inserted[p].ceo # Nobody

\* Only opening a record writes whom it is about, and only an open record is
\* worked on.
LEMMA OnlyCreateOpens ==
  ASSUME NEW u \in Users, NEW r \in Records, ChainStep(u, r),
         ~ \E p \in People : Create(p, r)
  PROVE  Open(r) /\ subject' = subject /\ inserted' = inserted
<1>1. CASE \E f \in Seats, v \in Users : Reassign(u, r, f, v)
  BY <1>1 DEF Reassign, staff
<1>2. CASE ~ \E f \in Seats, v \in Users : Reassign(u, r, f, v)
  BY <1>2, OtherStepsKeepTheShape, ChainStepActsOnOpen DEF staff
<1> QED BY <1>1, <1>2

LEMMA OneUnderWayStep ==
  ASSUME TypeOK, OneUnderWay, [Next]_vars
  PROVE  OneUnderWay'
<1>1. ASSUME NEW u \in Users, NEW r \in Records, ChainStep(u, r)
      PROVE  OneUnderWay'
  <2>1. \A q \in Records : q # r => /\ Open(q)' <=> Open(q)
                                    /\ subject'[q] = subject[q]
    BY <1>1, ChainStepActsOnOne DEF Untouched, Open
  <2>2. ASSUME NEW p \in People, Create(p, r)
        PROVE  OneUnderWay'
    <3>1. /\ subject'[r] = p /\ \A q \in Records : Open(q) => subject[q] # p
          /\ inserted' = [inserted EXCEPT ![p] = NoChain]
      BY <2>2 DEF Create, OneUnderWay, OpenRecordsOf, TypeOK, RecordsOK
    <3>2. \A x \in People : inserted'[x] # NoChain => x # p /\ inserted'[x] = inserted[x]
      BY <3>1 DEF TypeOK, StaffOK
    <3>3. QED
      BY <2>1, <3>1, <3>2 DEF OneUnderWay, OpenRecordsOf
  <2>3. CASE ~ \E p \in People : Create(p, r)
    <3>1. Open(r) /\ subject' = subject /\ inserted' = inserted
      BY <1>1, <2>3, OnlyCreateOpens
    <3>2. QED
      BY <2>1, <3>1 DEF OneUnderWay, OpenRecordsOf
  <2>4. QED
    BY <2>2, <2>3
<1>2. CASE StaffStep
  <2>1. subject' = subject /\ \A q \in Records : Open(q)' => Open(q)
    BY <1>2, StaffStepOnRecords DEF Open, OpenStatuses
  <2>2. inserted' = inserted
    BY <1>2 DEF StaffStep, CommitAccess, ChangeRole, Disable, Enable, LinkAccount, Depart,
                Rejoin, MoveUnit, ToggleManager, pending
  <2>3. QED
    BY <2>1, <2>2 DEF OneUnderWay, OpenRecordsOf
<1>3. CASE PendingStep
  <2>1. UNCHANGED <<status, subject>>
    BY <1>3, PendingStepOnRecords DEF records
  <2>2. ASSUME NEW p \in People, inserted'[p] # NoChain, inserted'[p] # inserted[p]
        PROVE  OpenRecordsOf(p) = {} /\ inserted'[p].ceo # Nobody
    <3>1. PICK u \in Users, x \in People : InsertRecord(u, x)
      BY <1>3, <2>2 DEF PendingStep, UpsertAccess, GiveUp, TypeOK, StaffOK
    <3>2. /\ x = p /\ OpenRecordsOf(x) = {} /\ access[x] \in Rows
          /\ inserted'[x].ceo = access[x].ceo
      BY <2>2, <3>1 DEF InsertRecord, TypeOK, StaffOK
    <3>3. QED
      BY <3>2, ConstantsAssumption DEF Rows
  <2>3. QED
    BY <2>1, <2>2 DEF OneUnderWay, OpenRecordsOf, Open
<1>4. CASE NextDay \/ UNCHANGED vars
  BY <1>4 DEF NextDay, staff, records, vars, OneUnderWay, OpenRecordsOf, Open
<1> QED BY <1>1, <1>2, <1>3, <1>4 DEF Next

\* create_evaluation refuses a second record while one is open or being opened,
\* and nothing else opens one.
LEMMA OneUnderWayHolds == Spec => []OneUnderWay
<1>1. Init => OneUnderWay
  BY DEF Init, OneUnderWay, Open, OpenStatuses
<1>2. TypeOK /\ OneUnderWay /\ [Next]_vars => OneUnderWay'
  BY OneUnderWayStep
<1>3. QED
  BY <1>1, <1>2, TypeCorrect, PTL DEF Spec

-----------------------------------------------------------------------------
(* Every endpoint keeps the course of the record it writes                 *)

\* A seat that is given to somebody else is no emptier, and no empty seat is
\* given to anybody.
LEMMA ReassignKeepsShape ==
  ASSUME TypeOK, NEW u \in Users, NEW r \in Records, NEW f \in Seats, NEW v \in Users,
         Reassign(u, r, f, v)
  PROVE  /\ Open(r)
         /\ chain'[r].skip = chain[r].skip
         /\ \A g \in Seats : chain'[r][g] = Nobody <=> chain[r][g] = Nobody
<1>1. chain[r] \in ChainType
  BY DEF TypeOK, RecordsOK
<1>2. chain'[r] = [chain[r] EXCEPT ![f] = v] /\ chain[r][f] # Nobody /\ Open(r)
  BY DEF Reassign, TypeOK, RecordsOK
<1>3. v # Nobody
  BY ConstantsAssumption
<1> QED BY <1>1, <1>2, <1>3 DEF ChainType, Seats

\* Opening a record: it stands in draft, on a chain that has a CEO.
LEMMA CreateKeepsCourse ==
  ASSUME TypeOK, OneUnderWay, NEW p \in People, NEW r \in Records,
         CourseAt(r), Create(p, r)
  PROVE  CourseAt(r)'
<1>1. status[r] = "none" /\ status'[r] = "draft" /\ doc'[r] = doc[r]
  BY DEF Create, TypeOK, RecordsOK
<1>2. chain'[r].ceo # Nobody
  BY DEF Create, OneUnderWay, TypeOK, RecordsOK
<1>3. doc[r] = NoDoc
  BY <1>1 DEF CourseAt, DocumentAt
<1> QED
  BY <1>1, <1>2, <1>3 DEF CourseAt, ShapeAt, ResultAt, StagesAt, DocumentAt, Reviewed, PastHr

\* The steps that move no status: scoring, which is for drafts, and the tools.
LEMMA ToolsKeepCourse ==
  ASSUME TypeOK, NEW u \in Users, NEW r \in Records, CourseAt(r),
         \/ \E s \in Sheets : UpsertScores(u, r, s)
         \/ \E b \in Bonuses : SetSpecialScore(u, r, b)
         \/ \E d \in Until : ExtendWindow(u, r, d)
         \/ HrClaim(u, r)
         \/ \E v \in Users : HrHandover(u, r, v)
         \/ HrComment(u, r)
         \/ \E f \in Seats, v \in Users : Reassign(u, r, f, v)
  PROVE  CourseAt(r)'
<1>1. CASE \/ \E s \in Sheets : UpsertScores(u, r, s)
           \/ \E b \in Bonuses : SetSpecialScore(u, r, b)
  <2>1. /\ status[r] = "draft"
        /\ UNCHANGED <<status, chain, hr, result, doc, done>>
    BY <1>1 DEF UpsertScores, SetSpecialScore, IsTheScorer, shape
  <2>2. QED
    BY <2>1 DEF CourseAt, ShapeAt, ResultAt, StagesAt, DocumentAt, Reviewed, PastHr
<1>2. CASE \E d \in Until : ExtendWindow(u, r, d)
  <2>1. UNCHANGED <<status, chain, hr, sheet, bonus, result, doc, done>>
    BY <1>2 DEF ExtendWindow, shape, scoring
  <2>2. QED
    BY <2>1 DEF CourseAt, ShapeAt, ResultAt, StagesAt, DocumentAt
<1>3. CASE HrClaim(u, r) \/ (\E v \in Users : HrHandover(u, r, v)) \/ HrComment(u, r)
  <2>1. UNCHANGED <<status, chain, sheet, bonus, result, doc, done>>
    BY <1>3 DEF HrClaim, HrHandover, HrComment, shape, scoring
  <2>2. hr'[r] # Nobody
    BY <1>3, ConstantsAssumption DEF HrClaim, HrHandover, HrComment, TypeOK, RecordsOK
  <2>3. QED
    BY <2>1, <2>2 DEF CourseAt, ShapeAt, ResultAt, StagesAt, DocumentAt
<1>4. ASSUME NEW f \in Seats, NEW v \in Users, Reassign(u, r, f, v)
      PROVE  CourseAt(r)'
  <2>1. UNCHANGED <<status, hr, sheet, bonus, result, doc, done>>
    BY <1>4 DEF Reassign, scoring
  <2>2. /\ chain'[r].skip = chain[r].skip
        /\ chain'[r].us = Nobody <=> chain[r].us = Nobody
        /\ chain'[r].dep = Nobody <=> chain[r].dep = Nobody
        /\ chain'[r].ceo = Nobody <=> chain[r].ceo = Nobody
    BY <1>4, ReassignKeepsShape DEF Seats
  <2>3. QED
    BY <2>1, <2>2 DEF CourseAt, ShapeAt, ResultAt, StagesAt, DocumentAt
<1> QED BY <1>1, <1>2, <1>3, <1>4

\* The signature blocks of a document: nobody's seat has none, and HR's has an
\* owner when the stage has one.
LEMMA SnapshotIsWhole ==
  ASSUME TypeOK, NEW r \in Records, NEW h \in Users \cup {Nobody},
         ~chain[r].skip => h # Nobody
  PROVE  /\ Snapshot(r, h) # NoDoc
         /\ Snapshot(r, h).result = result[r]
         /\ \A row \in Snapshot(r, h).signers : row.user # Nobody
<1>1. Snapshot(r, h) # NoDoc
  BY SnapshotType, ConstantsAssumption
<1>2. Snapshot(r, h).result = result[r] /\ Snapshot(r, h).signers = Signatories(chain[r], h)
  BY DEF Snapshot
<1>3. \A row \in Signatories(chain[r], h) : row.user # Nobody
  BY DEF Signatories
<1> QED BY <1>1, <1>2, <1>3

\* Submitting computes the result afresh and names the scorer.
LEMMA SubmitKeepsCourse ==
  ASSUME TypeOK, NEW u \in Users, NEW r \in Records, CourseAt(r), Submit(u, r)
  PROVE  CourseAt(r)'
<1>1. /\ status[r] = "draft"
      /\ status'[r] \in {"submitted", "hr_approved", "deputy_approved"}
      /\ status'[r] = "submitted" <=> ~chain[r].skip
      /\ status'[r] = "deputy_approved" => chain[r].us = Nobody
  BY SubmitMoves
<1>2. /\ UNCHANGED <<chain, sheet, bonus, doc>>
      /\ sheet[r] \in CompleteSheets
      /\ result'[r] = <<sheet[r], bonus[r]>>
      /\ done'[r] = [NobodyDid EXCEPT !.scorer = u]
  BY DEF Submit, shape, TypeOK, RecordsOK
<1>3. done'[r].scorer # Nobody
  BY <1>2, ConstantsAssumption DEF NobodyDid
<1>4. ShapeAt(r)' /\ ResultAt(r)' /\ DocumentAt(r)'
  BY <1>1, <1>2 DEF CourseAt, ShapeAt, ResultAt, DocumentAt
<1>5. StagesAt(r)'
  BY <1>1, <1>2, <1>3 DEF StagesAt, PastHr
<1> QED BY <1>4, <1>5 DEF CourseAt

\* HR's review names HR, and seals a record whose CEO scored it.
LEMMA HrApproveKeepsCourse ==
  ASSUME TypeOK, NEW u \in Users, NEW r \in Records, CourseAt(r), HrApprove(u, r)
  PROVE  CourseAt(r)'
<1> DEFINE direct == HrFinalizes(chain[r])
<1>1. /\ status[r] = "submitted" /\ ~chain[r].skip
      /\ hr[r] \in {u, Nobody} /\ hr'[r] = u
      /\ status'[r] = CASE direct -> "finalized"
                        [] IsManagerPath(chain[r]) /\ ~direct -> "deputy_approved"
                        [] OTHER -> "hr_approved"
  BY HrApproveMoves
<1>2. u # Nobody
  BY ConstantsAssumption
<1>3. UNCHANGED <<chain, sheet, bonus, result>>
  BY DEF HrApprove, shape, scoring
<1>4. HrActionFor(chain[r]) = "hr_finalize_direct_ceo" <=> direct
  BY DEF HrActionFor
<1>5. doc'[r] = IF direct THEN Snapshot(r, hr'[r]) ELSE doc[r]
  BY <1>4 DEF HrApprove, Move, TypeOK, RecordsOK
<1>6. /\ done'[r].scorer = done[r].scorer /\ done'[r].dep = done[r].dep
      /\ done'[r].hr = u
      /\ direct => done'[r].final = u
  <2>1. done'[r] = [done[r] EXCEPT !.hr = u, !.final = IF direct THEN u ELSE Nobody]
    BY <1>4 DEF HrApprove, TypeOK, RecordsOK
  <2>2. done[r] \in DoneType
    BY DEF TypeOK, RecordsOK
  <2>3. QED
    BY <2>1, <2>2 DEF DoneType
<1>7. ShapeAt(r)' /\ ResultAt(r)'
  <2>1. status'[r] \in {"finalized", "deputy_approved", "hr_approved"}
    BY <1>1
  <2>2. QED
    BY <1>1, <1>3, <2>1 DEF CourseAt, ShapeAt, ResultAt, Reviewed
<1>8. StagesAt(r)'
  BY <1>1, <1>2, <1>3, <1>6
     DEF CourseAt, StagesAt, PastHr, Reviewed, HrFinalizes, IsManagerPath
<1>9. DocumentAt(r)'
  <2>1. CASE direct
    <3>1. status'[r] = "finalized" /\ doc'[r] = Snapshot(r, u)
      BY <1>1, <1>5, <2>1
    <3>2. QED
      BY <1>2, <1>3, <3>1, SnapshotIsWhole DEF DocumentAt
  <2>2. CASE ~direct
    <3>1. status'[r] # "finalized" /\ doc'[r] = doc[r] /\ doc[r] = NoDoc
      BY <1>1, <1>5, <2>2 DEF CourseAt, DocumentAt
    <3>2. QED
      BY <3>1 DEF DocumentAt
  <2>3. QED
    BY <2>1, <2>2
<1> QED BY <1>7, <1>8, <1>9 DEF CourseAt

\* The deputy's approval names the deputy.
LEMMA DeputyApproveKeepsCourse ==
  ASSUME TypeOK, NEW u \in Users, NEW r \in Records, CourseAt(r), DeputyApprove(u, r)
  PROVE  CourseAt(r)'
<1>1. /\ status[r] = "hr_approved" /\ status'[r] = "deputy_approved"
      /\ hr'[r] = hr[r]
  BY DeputyApproveMoves
<1>2. UNCHANGED <<chain, sheet, bonus, result, doc>>
  BY DEF DeputyApprove, shape, scoring
<1>3. done'[r].scorer = done[r].scorer /\ done'[r].hr = done[r].hr /\ done'[r].dep = u
  BY DEF DeputyApprove, TypeOK, RecordsOK, DoneType
<1>4. u # Nobody
  BY ConstantsAssumption
<1> QED
  BY <1>1, <1>2, <1>3, <1>4
     DEF CourseAt, ShapeAt, ResultAt, StagesAt, DocumentAt, Reviewed, PastHr

\* The CEO's decision names the CEO and seals the record.
LEMMA CeoFinalizeKeepsCourse ==
  ASSUME TypeOK, NEW u \in Users, NEW r \in Records, CourseAt(r), CeoFinalize(u, r)
  PROVE  CourseAt(r)'
<1>1. /\ \/ status[r] = "deputy_approved"
         \/ status[r] = "hr_approved" /\ chain[r].dep = Nobody
      /\ status'[r] = "finalized" /\ hr'[r] = hr[r]
  BY CeoFinalizeMoves
<1>2. UNCHANGED <<chain, sheet, bonus, result>> /\ doc'[r] = Snapshot(r, hr[r])
  BY DEF CeoFinalize, shape, scoring, TypeOK, RecordsOK
<1>3. /\ done'[r].scorer = done[r].scorer /\ done'[r].hr = done[r].hr
      /\ done'[r].dep = done[r].dep /\ done'[r].final = u
  BY DEF CeoFinalize, TypeOK, RecordsOK, DoneType
<1>4. u # Nobody
  BY ConstantsAssumption
<1>5. ShapeAt(r)' /\ ResultAt(r)' /\ StagesAt(r)'
  BY <1>1, <1>2, <1>3, <1>4 DEF CourseAt, ShapeAt, ResultAt, StagesAt, Reviewed, PastHr
<1>6. DocumentAt(r)'
  <2>1. hr[r] \in Users \cup {Nobody} /\ (~chain[r].skip => hr[r] # Nobody)
    BY <1>1 DEF CourseAt, StagesAt, PastHr, TypeOK, RecordsOK
  <2>2. QED
    BY <1>1, <1>2, <2>1, SnapshotIsWhole DEF DocumentAt
<1> QED BY <1>5, <1>6 DEF CourseAt

\* A return takes back what it goes over and leaves the rest performed.
LEMMA ReturnKeepsCourse ==
  ASSUME TypeOK, NEW u \in Users, NEW r \in Records, CourseAt(r), ReturnRecord(u, r)
  PROVE  CourseAt(r)'
<1>1. /\ status[r] \in {"submitted", "hr_approved", "deputy_approved"}
      /\ status'[r] \in {"draft", "submitted", "hr_approved"}
      /\ status'[r] = "submitted" => ~chain[r].skip
      /\ status'[r] = "hr_approved" => status[r] = "deputy_approved"
      /\ hr[r] # Nobody => hr'[r] = hr[r]
      /\ done'[r] = Rewound(done[r], status'[r])
  BY ReturnMoves
<1>2. UNCHANGED <<chain, sheet, bonus, result, doc>>
  BY DEF ReturnRecord, shape, scoring
<1>3. /\ status'[r] = "submitted" => done'[r].scorer = done[r].scorer
      /\ status'[r] = "hr_approved" => /\ done'[r].scorer = done[r].scorer
                                       /\ done'[r].hr = done[r].hr
  <2>1. done[r] \in DoneType
    BY DEF TypeOK, RecordsOK
  <2>2. QED
    BY <1>1, <2>1 DEF Rewound, DoneType
<1>4. ShapeAt(r)' /\ ResultAt(r)' /\ DocumentAt(r)'
  BY <1>1, <1>2 DEF CourseAt, ShapeAt, ResultAt, DocumentAt, Reviewed
<1>5. StagesAt(r)'
  BY <1>1, <1>2, <1>3 DEF CourseAt, StagesAt, Reviewed, PastHr
<1> QED BY <1>4, <1>5 DEF CourseAt

\* A cancelled record has no stage to account for, and no document.
LEMMA CancelKeepsCourse ==
  ASSUME TypeOK, NEW u \in Users, NEW r \in Records, CourseAt(r), Cancel(u, r)
  PROVE  CourseAt(r)'
<1>1. Open(r) /\ status'[r] = "cancelled"
  BY CancelMoves
<1>2. UNCHANGED <<chain, doc>>
  BY DEF Cancel, shape
<1> QED
  BY <1>1, <1>2 DEF CourseAt, ShapeAt, ResultAt, StagesAt, DocumentAt, Reviewed, PastHr,
                    Open, OpenStatuses

LEMMA ChainStepKeepsCourse ==
  ASSUME TypeOK, OneUnderWay, NEW u \in Users, NEW r \in Records, CourseAt(r), ChainStep(u, r)
  PROVE  CourseAt(r)'
  BY CreateKeepsCourse, ToolsKeepCourse, SubmitKeepsCourse, HrApproveKeepsCourse,
     DeputyApproveKeepsCourse, CeoFinalizeKeepsCourse, ReturnKeepsCourse, CancelKeepsCourse
     DEF ChainStep

-----------------------------------------------------------------------------
(* The theorems *)

LEMMA CourseInvStep ==
  ASSUME TypeOK, OneUnderWay, CourseInv, [Next]_vars
  PROVE  CourseInv'
<1>1. SUFFICES ASSUME NEW q \in Records
               PROVE  CourseAt(q)'
  BY DEF CourseInv
<1>2. CourseAt(q)
  BY DEF CourseInv
<1> USE DEF CourseAt, ShapeAt, ResultAt, StagesAt, DocumentAt
<1>3. ASSUME NEW u \in Users, NEW r \in Records, ChainStep(u, r)
      PROVE  CourseAt(q)'
  <2>1. CASE q = r
    BY <1>2, <1>3, <2>1, ChainStepKeepsCourse
  <2>2. CASE q # r
    BY <1>2, <1>3, <2>2, ChainStepActsOnOne DEF Untouched
  <2>3. QED
    BY <2>1, <2>2
<1>4. CASE StaffStep
  <2>1. /\ UNCHANGED <<chain, hr, sheet, bonus, result, doc, done>>
        /\ status'[q] # status[q] => Open(q) /\ status'[q] = "cancelled"
    BY <1>4, StaffStepOnRecords
  <2>2. CASE status'[q] = status[q]
    BY <1>2, <2>1, <2>2
  <2>3. CASE status'[q] # status[q]
    BY <1>2, <2>1, <2>3 DEF Open, OpenStatuses, Reviewed, PastHr
  <2>4. QED
    BY <2>2, <2>3
<1>5. CASE PendingStep \/ NextDay \/ UNCHANGED vars
  BY <1>2, <1>5, PendingStepOnRecords DEF NextDay, records, vars
<1> QED BY <1>3, <1>4, <1>5 DEF Next

LEMMA CourseIsInvariant == Spec => []CourseInv
<1>1. Init => CourseInv
  BY DEF Init, CourseInv, CourseAt, ShapeAt, ResultAt, StagesAt, DocumentAt, Reviewed,
         PastHr, NoChain
<1>2. TypeOK /\ OneUnderWay /\ CourseInv /\ [Next]_vars => CourseInv'
  BY CourseInvStep
<1>3. QED
  BY <1>1, <1>2, TypeCorrect, OneUnderWayHolds, PTL DEF Spec

\* The result that is reviewed, approved and sealed is the one of the scores and
\* the bonus that stand on the record (finalize_scoring, the scorer guards).
THEOREM ResultStaysCurrent == Spec => []ResultIsCurrent
<1>1. CourseInv => ResultIsCurrent
  BY DEF CourseInv, CourseAt, ResultAt, ResultIsCurrent
<1>2. QED
  BY <1>1, CourseIsInvariant, PTL

\* A record is finalized exactly when it has its document, which shows the
\* stored result and no empty signature block (_stamp_finalization and the two
\* endpoints that call it).
THEOREM SealedDocumentComplete == Spec => []SealedDocumentIsComplete
<1>1. CourseInv => SealedDocumentIsComplete
  BY DEF CourseInv, CourseAt, DocumentAt, SealedDocumentIsComplete
<1>2. QED
  BY <1>1, CourseIsInvariant, PTL

\* No stage that a chain has is jumped, through every return and every change
\* of a seat on the way (the guards of the transition table).
THEOREM StagesAllPassed == Spec => []NoStageIsJumped
<1>1. CourseInv => NoStageIsJumped
  BY DEF CourseInv, CourseAt, StagesAt, NoStageIsJumped, Reviewed, PastHr
<1>2. QED
  BY <1>1, CourseIsInvariant, PTL

-----------------------------------------------------------------------------
(* On somebody's desk *)

\* What each group of forward transitions starts from, and the seat it is for.
LEMMA ForwardTable ==
  /\ \A a \in SubmitActions : \A c : SubmitGuard(a, c) =>
       /\ Transition(a).from = {"draft"} /\ Transition(a).seat = ScorerSeat(c)
       /\ Transition(a).role = SeatRole[ScorerSeat(c)]
  /\ \A a \in HrActions :
       /\ Transition(a).from = {"submitted"}
       /\ Transition(a).seat = "hr" /\ Transition(a).role = "hr"
  /\ Transition("deputy_approve") = T({"hr_approved"}, "deputy_approved", "deputy", "dep")
  /\ Transition("ceo_finalize") =
       T({"deputy_approved", "hr_approved"}, "finalized", "ceo", "ceo")
<1>1. ASSUME NEW a \in SubmitActions, NEW c, SubmitGuard(a, c)
      PROVE  /\ Transition(a).from = {"draft"} /\ Transition(a).seat = ScorerSeat(c)
             /\ Transition(a).role = SeatRole[ScorerSeat(c)]
  <2>1. Transition(a) = SubmitTransition(a)
    BY TransitionOf
  <2>2. /\ SeatRole["us"] = "unit_supervisor" /\ SeatRole["dep"] = "deputy"
        /\ SeatRole["ceo"] = "ceo"
    BY DEF SeatRole
  <2>3. CASE a \in {"submit", "submit_hr_subject"}
    <3>1. ScorerSeat(c) = "us"
      BY <1>1, <2>3 DEF SubmitGuard, ScorerSeat, IsManagerPath
    <3>2. QED
      BY <2>1, <2>2, <2>3, <3>1 DEF SubmitTransition, T
  <2>4. CASE a \in {"manager_submit", "manager_submit_hr_subject"}
    <3>1. ScorerSeat(c) = "dep"
      BY <1>1, <2>4 DEF SubmitGuard, ScorerSeat, IsManagerPath, IsCeoOnlyPath
    <3>2. QED
      BY <2>1, <2>2, <2>4, <3>1 DEF SubmitTransition, T
  <2>5. CASE a \in {"ceo_submit", "ceo_submit_hr_subject"}
    <3>1. ScorerSeat(c) = "ceo"
      BY <1>1, <2>5 DEF SubmitGuard, ScorerSeat, IsCeoOnlyPath
    <3>2. QED
      BY <2>1, <2>2, <2>5, <3>1 DEF SubmitTransition, T
  <2>6. QED
    BY <2>3, <2>4, <2>5 DEF SubmitActions
<1>2. ASSUME NEW a \in HrActions
      PROVE  /\ Transition(a).from = {"submitted"}
             /\ Transition(a).seat = "hr" /\ Transition(a).role = "hr"
  <2>1. Transition(a) = HrTransition(a)
    BY TransitionOf
  <2>2. QED
    BY <1>2, <2>1 DEF HrActions, HrTransition, T
<1>3. /\ Transition("deputy_approve") = T({"hr_approved"}, "deputy_approved", "deputy", "dep")
      /\ Transition("ceo_finalize") =
           T({"deputy_approved", "hr_approved"}, "finalized", "ceo", "ceo")
  BY TransitionOf DEF ApprovalTransition, ApprovalActions
<1> QED BY <1>1, <1>2, <1>3

\* Some forward transition accepts every open record: there is no status that a
\* chain of its shape cannot leave (services/workflow.py, the whole table).
THEOREM NobodyWaitsInLimbo == Spec => []NoLimbo
<1>1. ASSUME CourseInv, NEW r \in Records, Open(r)
      PROVE  \E a \in SubmitActions \cup HrActions \cup ApprovalActions :
               LET seat == Transition(a).seat
               IN  /\ status[r] \in Transition(a).from
                   /\ Guard(a, chain[r], status[r])
                   /\ seat \in Seats => chain[r][seat] # Nobody
  <2>1. /\ chain[r].ceo # Nobody
        /\ status[r] = "submitted" => ~chain[r].skip
    BY <1>1 DEF CourseInv, CourseAt, ShapeAt, Open, OpenStatuses
  <2>2. CASE status[r] = "draft"
    <3> DEFINE a == SubmitActionFor(chain[r])
    <3>1. a \in SubmitActions
      BY SubmitActionIsOne
    <3>2. SubmitGuard(a, chain[r])
      BY DEF SubmitGuard, SubmitActionFor, IsCeoOnlyPath, IsManagerPath
    <3>3. chain[r][ScorerSeat(chain[r])] # Nobody
      BY <2>1 DEF ScorerSeat
    <3> HIDE DEF a
    <3>4. Guard(a, chain[r], status[r])
      BY <3>1, <3>2, TransitionOf
    <3>5. Transition(a).from = {"draft"} /\ Transition(a).seat = ScorerSeat(chain[r])
      BY <3>1, <3>2, ForwardTable
    <3> QED BY <2>2, <3>1, <3>3, <3>4, <3>5
  <2>3. CASE status[r] = "submitted"
    <3> DEFINE a == HrActionFor(chain[r])
    <3>1. a \in HrActions
      BY HrActionIsOne
    <3>2. HrGuard(a, chain[r])
      BY <2>1, <2>3 DEF HrGuard, HrActionFor, HrFinalizes, IsManagerPath
    <3> HIDE DEF a
    <3>3. Guard(a, chain[r], status[r])
      BY <3>1, <3>2, TransitionOf
    <3>4. Transition(a).from = {"submitted"} /\ Transition(a).seat = "hr"
      BY <3>1, ForwardTable
    <3> QED BY <2>3, <3>1, <3>3, <3>4 DEF Seats
  <2>4. CASE status[r] = "hr_approved" /\ chain[r].dep # Nobody
    <3>1. "deputy_approve" \in ApprovalActions
      BY DEF ApprovalActions
    <3>2. Guard("deputy_approve", chain[r], status[r])
      BY <3>1, TransitionOf DEF ApprovalGuard
    <3>3. /\ Transition("deputy_approve").from = {"hr_approved"}
          /\ Transition("deputy_approve").seat = "dep"
      BY ForwardTable DEF T
    <3> QED BY <2>4, <3>1, <3>2, <3>3
  <2>5. CASE \/ status[r] = "hr_approved" /\ chain[r].dep = Nobody
             \/ status[r] = "deputy_approved"
    <3>1. "ceo_finalize" \in ApprovalActions
      BY DEF ApprovalActions
    <3>2. Guard("ceo_finalize", chain[r], status[r])
      <4>1. CeoFinalizeGuard(chain[r], status[r])
        BY <2>5 DEF CeoFinalizeGuard
      <4>2. ApprovalGuard("ceo_finalize", chain[r], status[r])
        BY <4>1 DEF ApprovalGuard
      <4>3. QED
        BY <3>1, <4>2, TransitionOf
    <3>3. /\ Transition("ceo_finalize").from = {"deputy_approved", "hr_approved"}
          /\ Transition("ceo_finalize").seat = "ceo"
      BY ForwardTable DEF T
    <3> QED BY <2>1, <2>5, <3>1, <3>2, <3>3
  <2> QED BY <1>1, <2>2, <2>3, <2>4, <2>5 DEF Open, OpenStatuses
<1>2. CourseInv => NoLimbo
  BY <1>1 DEF NoLimbo
<1>3. QED
  BY <1>2, CourseIsInvariant, PTL

\* Whoever may move a record forward holds the seat of its status; HR's stage is
\* for whoever of HR may handle the record, and its owner when it has one.
LEMMA ForwardNeedsTheSeat ==
  ASSUME NEW u \in Users, NEW r \in Records, MovesOn(u, r)
  PROVE  \/ status[r] = "submitted" /\ hr[r] \in {u, Nobody}
              /\ role[u] = "hr" /\ HrMayHandle(r, u)
         \/ /\ role[u] # "hr"
            /\ \/ status[r] = "draft" /\ chain[r][ScorerSeat(chain[r])] = u
               \/ status[r] = "hr_approved" /\ chain[r].dep = u
               \/ status[r] = "hr_approved" /\ chain[r].dep = Nobody /\ chain[r].ceo = u
               \/ status[r] = "deputy_approved" /\ chain[r].ceo = u
<1>1. PICK a \in SubmitActions \cup HrActions \cup ApprovalActions : Permitted(r, a, u)
  BY DEF MovesOn
<1>2. /\ status[r] \in Transition(a).from
      /\ MayActAt(role[u], Transition(a).role)
      /\ Guard(a, chain[r], status[r])
      /\ HoldsSeat(a, chain[r], hr[r], u)
  BY <1>1 DEF Permitted, CanDo, Available
<1>3. CASE a \in SubmitActions
  <2>1. SubmitGuard(a, chain[r])
    BY <1>2, <1>3, TransitionOf
  <2>2. /\ Transition(a).from = {"draft"} /\ Transition(a).seat = ScorerSeat(chain[r])
        /\ Transition(a).role = SeatRole[ScorerSeat(chain[r])]
    BY <1>3, <2>1, ForwardTable
  <2>3. ScorerSeat(chain[r]) \in {"us", "dep", "ceo"}
    BY DEF ScorerSeat
  <2>4. Transition(a).role \in {"unit_supervisor", "deputy", "ceo"}
    BY <2>2, <2>3 DEF SeatRole
  <2>5. role[u] # "hr"
    BY <1>2, <2>4 DEF MayActAt, Rank
  <2>6. chain[r][ScorerSeat(chain[r])] = u
    BY <1>2, <2>2, <2>3 DEF HoldsSeat
  <2>7. QED
    BY <1>2, <2>2, <2>5, <2>6
<1>4. CASE a \in HrActions
  <2>1. /\ Transition(a).from = {"submitted"}
        /\ Transition(a).seat = "hr" /\ Transition(a).role = "hr"
    BY <1>4, ForwardTable
  <2>2. a # "cancel_on_separation"
    BY <1>4 DEF HrActions
  <2>3. role[u] = "hr" /\ HrMayHandle(r, u) /\ hr[r] \in {u, Nobody}
    BY <1>1, <1>2, <2>1, <2>2 DEF MayActAt, HoldsSeat, Permitted
  <2>4. QED
    BY <1>2, <2>1, <2>3
<1>5. CASE a = "deputy_approve"
  <2>1. /\ Transition(a).from = {"hr_approved"} /\ Transition(a).seat = "dep"
        /\ Transition(a).role = "deputy"
    BY <1>5, ForwardTable DEF T
  <2>2. role[u] # "hr" /\ chain[r].dep = u
    BY <1>2, <2>1 DEF MayActAt, Rank, HoldsSeat
  <2>3. QED
    BY <1>2, <2>1, <2>2
<1>6. CASE a = "ceo_finalize"
  <2>1. /\ Transition(a).from = {"deputy_approved", "hr_approved"}
        /\ Transition(a).seat = "ceo" /\ Transition(a).role = "ceo"
    BY <1>6, ForwardTable DEF T
  <2>2. role[u] # "hr" /\ chain[r].ceo = u
    BY <1>2, <2>1 DEF MayActAt, Rank, HoldsSeat
  <2>3. status[r] = "hr_approved" => chain[r].dep = Nobody
    <3>1. ApprovalGuard(a, chain[r], status[r])
      BY <1>2, <1>6, TransitionOf DEF ApprovalActions
    <3>2. QED
      BY <1>6, <3>1 DEF ApprovalGuard, CeoFinalizeGuard
  <2>4. QED
    BY <1>2, <2>1, <2>2, <2>3
<1> QED BY <1>3, <1>4, <1>5, <1>6 DEF ApprovalActions

\* The statistics name the holder of every open record outside the HR queue, and
\* nobody else can move it on (stage_stats._owner_field_for).
THEOREM HolderIsNamed == Spec => []HolderMovesItOn
<1>1. ASSUME CourseInv, NEW r \in Records, Open(r)
      PROVE  /\ StageHolder(r) = Nobody => status[r] = "submitted"
             /\ \A u \in Users : MovesOn(u, r) => StageHolder(r) \in {u, Nobody}
  <2>1. chain[r].ceo # Nobody
    BY <1>1 DEF CourseInv, CourseAt, ShapeAt, Open, OpenStatuses
  <2>2. StageHolder(r) = Nobody => status[r] = "submitted"
    BY <1>1, <2>1 DEF StageHolder, ScorerSeat, Open, OpenStatuses
  <2>3. ASSUME NEW u \in Users, MovesOn(u, r)
        PROVE  StageHolder(r) \in {u, Nobody}
    <3>1. u # Nobody
      BY ConstantsAssumption
    <3>2. QED
      BY <2>3, <3>1, ForwardNeedsTheSeat DEF StageHolder
  <2>4. QED
    BY <2>2, <2>3
<1>2. CourseInv => HolderMovesItOn
  BY <1>1 DEF HolderMovesItOn, Stored
<1>3. QED
  BY <1>2, CourseIsInvariant, PTL

\* Whatever list, search or stage shows a record to an account, the page of the
\* record opens for it: it is HR's outside its own unit, or an evaluator's who
\* is not the subject (ensure_can_view and the scopes of the queries).  Only a
\* subject who came to sit in their own chain is shown what does not open.
THEOREM WhatIsShownOpens == Spec => []ShownCanBeOpened
<1>1. ASSUME NEW u \in Users, NEW r \in Stored,
             IsSubject(u, r) => SeatsExclude(chain[r], subject[r])
      PROVE  \/ r \in Listed(u, Stored)
             \/ r \in Told(u, TRUE) /\ role[u] # "employee"
             \/ MayComment(u, r)
             \/ MovesOn(u, r)
             => CanView(u, r)
  <2>1. r \in Records /\ status[r] # "none"
    BY DEF Stored
  <2>2. ASSUME role[u] # "hr", NEW f \in Seats, chain[r][f] = u
        PROVE  CanView(u, r)
    <3>1. u # Nobody
      BY ConstantsAssumption
    <3>2. ~IsSubject(u, r)
      BY <1>1, <2>2, <3>1 DEF SeatsExclude, NotTheSubject, IsSubject
    <3>3. QED
      BY <2>2, <3>2 DEF CanView, HrMayHandle
  <2>3. ASSUME role[u] # "employee", NEW shown, InScope(u, r, shown)
        PROVE  CanView(u, r)
    <3>1. /\ DOMAIN SeatOfRole = {"unit_supervisor", "deputy", "ceo"}
          /\ \A d \in DOMAIN SeatOfRole : SeatOfRole[d] \in Seats
      BY DEF SeatOfRole, Seats
    <3>2. CASE role[u] = "hr"
      <4>1. ~Shielded(r) /\ ~IsSubject(u, r)
        BY <2>3, <3>1, <3>2 DEF InScope
      <4>2. QED
        BY <3>2, <4>1 DEF CanView, HrMayHandle
    <3>3. CASE role[u] # "hr"
      <4>1. role[u] \in DOMAIN SeatOfRole /\ chain[r][SeatOfRole[role[u]]] = u
        BY <2>3, <3>1, <3>3 DEF InScope
      <4>2. QED
        BY <2>2, <3>1, <3>3, <4>1
    <3>4. QED
      BY <3>2, <3>3
  <2>4. CASE r \in Listed(u, Stored)
    BY <2>3, <2>4 DEF Listed
  <2>5. CASE r \in Told(u, TRUE) /\ role[u] # "employee"
    BY <2>3, <2>5 DEF Told, Searched
  <2>6. CASE MayComment(u, r)
    <3>1. HrMayHandle(r, u) /\ role[u] \in {"hr", "deputy", "ceo"}
      BY <2>6 DEF MayComment
    <3>2. role[u] # "hr" => chain[r].dep = u \/ chain[r].ceo = u
      BY <2>6 DEF MayComment
    <3>3. QED
      BY <2>2, <3>1, <3>2 DEF CanView, Seats
  <2>7. CASE MovesOn(u, r)
    <3>1. ScorerSeat(chain[r]) \in Seats /\ "dep" \in Seats /\ "ceo" \in Seats
      BY DEF ScorerSeat, Seats
    <3>2. QED
      BY <2>1, <2>2, <2>7, <3>1, ForwardNeedsTheSeat DEF CanView
  <2>8. QED
    BY <2>4, <2>5, <2>6, <2>7
<1>2. ShownCanBeOpened
  BY <1>1 DEF ShownCanBeOpened
<1>3. QED
  BY <1>2, PTL

-----------------------------------------------------------------------------
(* The two ways out of a draft, and the way out for everybody              *)

\* A draft leaves scoring through submit alone.
LEMMA OnlySubmitReviews ==
  ASSUME TypeOK, [Next]_vars, NEW q \in Records, status[q] = "draft", status'[q] \in Reviewed
  PROVE  \E u \in Users : Submit(u, q)
<1>1. ASSUME NEW u \in Users, NEW r \in Records, ChainStep(u, r)
      PROVE  Submit(u, q)
  <2>1. q = r
    BY <1>1, ChainStepActsOnOne DEF Untouched, Reviewed
  <2>2. ~HrApprove(u, r) /\ ~DeputyApprove(u, r) /\ ~CeoFinalize(u, r) /\ ~ReturnRecord(u, r)
    BY <2>1, HrApproveMoves, DeputyApproveMoves, CeoFinalizeMoves, ReturnMoves
  <2>3. ~Cancel(u, r)
    BY <2>1, CancelMoves DEF Reviewed
  <2>4. ~ \E p \in People : Create(p, r)
    BY <2>1 DEF Create
  <2>5. ASSUME status' = status
        PROVE  FALSE
    BY <2>5 DEF Reviewed
  <2>6. QED
    BY <1>1, <2>1, <2>2, <2>3, <2>4, <2>5
       DEF ChainStep, UpsertScores, SetSpecialScore, ExtendWindow, HrClaim, HrHandover,
           HrComment, Reassign
<1>2. CASE StaffStep
  BY <1>2, StaffStepOnRecords DEF Reviewed
<1>3. CASE PendingStep \/ NextDay \/ UNCHANGED vars
  BY <1>3, PendingStepOnRecords DEF NextDay, records, vars, Reviewed
<1> QED BY <1>1, <1>2, <1>3 DEF Next

\* A record that goes to review after the end of its period does so on a day an
\* extension of its own covers (evaluation_window.ensure_open).
THEOREM LateOnlyByExtension == Spec => LateSubmissionWasExtended
<1>1. ASSUME TypeOK, [Next]_vars, NEW r \in Records,
             status[r] = "draft", status'[r] \in Reviewed, PeriodEnd # 0
      PROVE  today <= PeriodEnd \/ today <= extended[r]
  <2>1. PICK u \in Users : Submit(u, r)
    BY <1>1, OnlySubmitReviews
  <2>2. WindowOpen(r)
    BY <2>1 DEF Submit
  <2>3. PeriodEnd \in Nat /\ extended[r] \in Nat /\ today \in Nat
    BY <1>1, ConstantsAssumption DEF TypeOK, RecordsOK
  <2>4. QED
    BY <1>1, <2>2, <2>3 DEF WindowOpen, ClosesOn
<1>2. TypeOK /\ [Next]_vars =>
        [\A r \in Records : status[r] = "draft" /\ status'[r] \in Reviewed /\ PeriodEnd # 0
           => today <= PeriodEnd \/ today <= extended[r]]_vars
  BY <1>1
<1>3. QED
  BY <1>2, TypeCorrect, PTL DEF Spec, LateSubmissionWasExtended

\* Whatever state the staff is in, somebody of the unit that may close a record
\* can, unless its subject sits in its chain and the trigger stops every hand:
\* HR, or for a record of the HR unit the CEO (ensure_may_administer).
THEOREM SomebodyCanClose == Spec => []RescueExists
<1>1. ASSUME NEW r \in Records, NEW u \in Users, Open(r), SeatsExclude(chain[r], subject[r]),
             active[u], ~IsSubject(u, r),
             role[u] = IF chain[r].skip THEN "ceo" ELSE "hr"
      PROVE  MayCancel(u, r)
  <2> DEFINE a == CancelActionOf(u)
  <2>1. a = IF chain[r].skip THEN "cancel_hr_subject" ELSE "cancel"
    BY <1>1 DEF CancelActionOf
  <2>2. MayAdminister(r, u) /\ (role[u] = "hr" => HrMayHandle(r, u))
    BY <1>1 DEF MayAdminister, HrMayHandle, Shielded
  <2>3. a \in CancelActions
    BY DEF CancelActionOf, CancelActions
  <2>4. Transition(a) = T(OpenStatuses, "cancelled",
                          IF chain[r].skip THEN "deputy" ELSE "hr", "none")
    BY <2>1, <2>3, TransitionOf DEF CancelTransition
  <2>5. Guard(a, chain[r], status[r])
    <3>1. CancelGuard(a, chain[r])
      BY <2>1 DEF CancelGuard
    <3>2. QED
      BY <2>3, <3>1, TransitionOf
  <2> HIDE DEF a
  <2>6. MayActAt(role[u], Transition(a).role)
    BY <1>1, <2>4 DEF MayActAt, Rank, T
  <2>7. CanDo(r, a, u)
    BY <1>1, <2>4, <2>5, <2>6 DEF CanDo, Available, HoldsSeat, T, Open
  <2>8. Permitted(r, a, u)
    BY <1>1, <2>1, <2>2, <2>4, <2>7 DEF Permitted, RowStands, T
  <2>9. QED
    BY <2>2, <2>8 DEF MayCancel, a
<1>2. RescueExists
  BY <1>1 DEF RescueExists
<1>3. QED
  BY <1>2, PTL

-----------------------------------------------------------------------------
(* What the promise sees of a record                                       *)

VerdictAt(r) == IF status[r] \in Reviewed THEN result[r] ELSE NoResult

SealAt(r) == IF doc[r] = NoDoc THEN NoResult ELSE doc[r].result

\* The promise sees no difference.
Unseen(r) ==
  /\ PhaseOf(status'[r]) = PhaseOf(status[r])
  /\ VerdictAt(r)' = VerdictAt(r)
  /\ SealAt(r)' = SealAt(r)

\* A step that the promise cannot see on any record is a stutter of it.
LEMMA UnseenStutters ==
  ASSUME subject' = subject, \A r \in Records : Unseen(r)
  PROVE  UNCHANGED Promise!pvars
  BY DEF Promise!pvars, Unseen, VerdictAt, SealAt

\* A record that a step leaves alone looks the same.
LEMMA UntouchedIsUnseen ==
  ASSUME NEW q \in Records, Untouched(q)
  PROVE  Unseen(q)
  BY DEF Untouched, Unseen, VerdictAt, SealAt

-----------------------------------------------------------------------------
(* Each endpoint, as the promise sees it                                   *)

\* create_evaluation opens an evaluation of a person who has none under way.
LEMMA CreateOpens ==
  ASSUME TypeOK, OneUnderWay, NEW p \in People, NEW r \in Records, Create(p, r)
  PROVE  Promise!Open(r, p)
<1>1. /\ status[r] = "none"
      /\ status' = [status EXCEPT ![r] = "draft"]
      /\ subject' = [subject EXCEPT ![r] = p]
      /\ UNCHANGED <<result, doc>>
  BY DEF Create, scoring
<1>2. \A q \in Records : Open(q) => subject[q] # p
  BY DEF Create, OneUnderWay, OpenRecordsOf
<1>3. \A q \in Records : PhaseOf(status[q]) \in {"scoring", "review"} => Open(q)
  BY DEF PhaseOf, Open, OpenStatuses, TypeOK, RecordsOK, Statuses
<1>4. \A q \in Records : status'[q] = IF q = r THEN "draft" ELSE status[q]
  BY <1>1 DEF TypeOK, RecordsOK
<1>5. \A q \in Records : VerdictAt(q)' = VerdictAt(q)
  BY <1>1, <1>4 DEF VerdictAt, Reviewed
<1>6. PhaseOf(status[r]) = "none" /\ PhaseOf("draft") = "scoring"
  BY <1>1 DEF PhaseOf
<1>7. \A q \in Records : SealAt(q)' = SealAt(q)
  BY <1>1 DEF SealAt
<1>8. [q \in Records |-> PhaseOf(status'[q])]
        = [[q \in Records |-> PhaseOf(status[q])] EXCEPT ![r] = "scoring"]
  BY <1>4, <1>6
<1> QED
  BY <1>1, <1>2, <1>3, <1>5, <1>6, <1>7, <1>8
     DEF Promise!Open, Promise!Live, VerdictAt, SealAt

\* Submitting puts the result of the scores and the bonus under review.
LEMMA SubmitSubmits ==
  ASSUME TypeOK, NEW u \in Users, NEW r \in Records, Submit(u, r),
         \A q \in Records \ {r} : Unseen(q),
         NEW v \in CompleteSheets \X Bonuses, v = <<sheet[r], bonus[r]>>
  PROVE  Promise!Submit(r, v)
<1>1. /\ status[r] = "draft"
      /\ status'[r] \in {"submitted", "hr_approved", "deputy_approved"}
  BY SubmitMoves
<1>2. result'[r] = v /\ UNCHANGED <<subject, doc>>
  BY DEF Submit, shape, TypeOK, RecordsOK
<1>3. /\ PhaseOf(status[r]) = "scoring" /\ PhaseOf(status'[r]) = "review"
      /\ VerdictAt(r)' = v
  BY <1>1, <1>2 DEF PhaseOf, VerdictAt, Reviewed
<1> QED
  BY <1>2, <1>3 DEF Promise!Submit, Unseen, VerdictAt, SealAt

\* Sealing puts the verdict under review on the document.
LEMMA SealSeals ==
  ASSUME TypeOK, NEW r \in Records,
         status[r] \in {"submitted", "hr_approved", "deputy_approved"},
         status'[r] = "finalized", UNCHANGED <<subject, result>>,
         doc'[r] # NoDoc, doc'[r].result = result[r],
         \A q \in Records \ {r} : Unseen(q)
  PROVE  Promise!Seal(r)
<1>1. /\ PhaseOf(status[r]) = "review" /\ PhaseOf(status'[r]) = "sealed"
      /\ VerdictAt(r) = result[r] /\ VerdictAt(r)' = result[r]
      /\ SealAt(r)' = result[r]
  BY DEF PhaseOf, VerdictAt, SealAt, Reviewed
<1> QED BY <1>1 DEF Promise!Seal, Unseen, VerdictAt, SealAt

\* The reviews: HR's last one and the CEO's seal the record, the others are
\* out of the promise's sight.
LEMMA ReviewSealsOrStutters ==
  ASSUME TypeOK, CourseInv, NEW u \in Users, NEW r \in Records,
         HrApprove(u, r) \/ DeputyApprove(u, r) \/ CeoFinalize(u, r),
         \A q \in Records \ {r} : Unseen(q)
  PROVE  Promise!Seal(r) \/ UNCHANGED Promise!pvars
<1>1. CourseAt(r)'
  BY HrApproveKeepsCourse, DeputyApproveKeepsCourse, CeoFinalizeKeepsCourse DEF CourseInv
<1>2. /\ status[r] \in {"submitted", "hr_approved", "deputy_approved"}
      /\ status'[r] \in {"hr_approved", "deputy_approved", "finalized"}
  BY HrApproveMoves, DeputyApproveMoves, CeoFinalizeMoves
<1>3. UNCHANGED <<subject, result>>
  BY DEF HrApprove, DeputyApprove, CeoFinalize, shape, scoring
<1>4. CASE status'[r] = "finalized"
  <2>1. doc'[r] # NoDoc /\ doc'[r].result = result[r]
    BY <1>1, <1>3, <1>4 DEF CourseAt, DocumentAt
  <2>2. QED
    BY <1>2, <1>3, <1>4, <2>1, SealSeals
<1>5. CASE status'[r] # "finalized"
  <2>1. doc[r] = NoDoc /\ doc'[r] = NoDoc
    BY <1>1, <1>2, <1>5 DEF CourseInv, CourseAt, DocumentAt
  <2>2. Unseen(r)
    BY <1>2, <1>3, <1>5, <2>1 DEF Unseen, PhaseOf, VerdictAt, SealAt, Reviewed
  <2>3. QED
    BY <1>3, <2>2, UnseenStutters
<1> QED BY <1>4, <1>5

\* A return to draft sends the evaluation back; one to an earlier reviewer is
\* out of sight.
LEMMA ReturnSendsBackOrStutters ==
  ASSUME TypeOK, NEW u \in Users, NEW r \in Records, ReturnRecord(u, r),
         \A q \in Records \ {r} : Unseen(q)
  PROVE  Promise!SendBack(r) \/ UNCHANGED Promise!pvars
<1>1. /\ status[r] \in {"submitted", "hr_approved", "deputy_approved"}
      /\ status'[r] \in {"draft", "submitted", "hr_approved"}
  BY ReturnMoves
<1>2. UNCHANGED <<subject, result, doc>>
  BY DEF ReturnRecord, shape, scoring
<1>3. CASE status'[r] = "draft"
  <2>1. /\ PhaseOf(status[r]) = "review" /\ PhaseOf(status'[r]) = "scoring"
        /\ VerdictAt(r)' = NoResult /\ SealAt(r)' = SealAt(r)
    BY <1>1, <1>2, <1>3 DEF PhaseOf, VerdictAt, SealAt, Reviewed
  <2>2. Promise!SendBack(r)
    BY <1>2, <2>1 DEF Promise!SendBack, Unseen, VerdictAt, SealAt
  <2>3. QED
    BY <2>2
<1>4. CASE status'[r] # "draft"
  <2>1. Unseen(r)
    BY <1>1, <1>2, <1>4 DEF Unseen, PhaseOf, VerdictAt, SealAt, Reviewed
  <2>2. QED
    BY <1>2, <2>1, UnseenStutters
<1> QED BY <1>3, <1>4

\* Cancelling a record, by whoever may or because its subject leaves, drops the
\* evaluation.
LEMMA CancelDrops ==
  ASSUME TypeOK, NEW r \in Records, Open(r), status'[r] = "cancelled",
         UNCHANGED <<subject, doc>>,
         \A q \in Records \ {r} : Unseen(q)
  PROVE  Promise!Drop(r)
<1>1. /\ PhaseOf(status[r]) \in {"scoring", "review"} /\ PhaseOf(status'[r]) = "dropped"
      /\ VerdictAt(r)' = NoResult /\ SealAt(r)' = SealAt(r)
  BY DEF Open, OpenStatuses, PhaseOf, VerdictAt, SealAt, Reviewed
<1> QED BY <1>1 DEF Promise!Drop, Promise!Live, Unseen, VerdictAt, SealAt

\* Scoring, and the tools that move no status, are out of sight.
LEMMA ToolsStutter ==
  ASSUME TypeOK, NEW u \in Users, NEW r \in Records,
         \/ \E s \in Sheets : UpsertScores(u, r, s)
         \/ \E b \in Bonuses : SetSpecialScore(u, r, b)
         \/ \E d \in Until : ExtendWindow(u, r, d)
         \/ HrClaim(u, r)
         \/ \E v \in Users : HrHandover(u, r, v)
         \/ HrComment(u, r)
         \/ \E f \in Seats, v \in Users : Reassign(u, r, f, v)
  PROVE  UNCHANGED Promise!pvars
<1>1. UNCHANGED <<status, subject, result, doc>>
  BY DEF UpsertScores, SetSpecialScore, ExtendWindow, HrClaim, HrHandover, HrComment,
         Reassign, shape, scoring
<1>2. \A q \in Records : Unseen(q)
  BY <1>1 DEF Unseen, VerdictAt, SealAt
<1> QED BY <1>1, <1>2, UnseenStutters

\* The administration drops the one open record of a person who leaves, and does
\* nothing else that the promise sees.
LEMMA StaffDropsOneOrStutters ==
  ASSUME TypeOK, OneUnderWay, StaffStep
  PROVE  (\E r \in Records : Promise!Drop(r)) \/ UNCHANGED Promise!pvars
<1>1. UNCHANGED <<subject, result, doc>>
  BY StaffStepOnRecords
<1>2. CASE \A q \in Records : status'[q] = status[q]
  <2>1. \A q \in Records : Unseen(q)
    BY <1>1, <1>2 DEF Unseen, VerdictAt, SealAt
  <2>2. QED
    BY <1>1, <2>1, UnseenStutters
<1>3. ASSUME NEW r \in Records, status'[r] # status[r]
      PROVE  Promise!Drop(r)
  <2>1. Open(r) /\ status'[r] = "cancelled"
    BY <1>3, StaffStepOnRecords
  <2>2. PICK p \in Leavers : status' = ClosedOut(p)
    <3>1. status' # status
      BY <1>3
    <3>2. QED
      BY <3>1 DEF StaffStep, CommitAccess, ChangeRole, Disable, Enable, LinkAccount, Depart,
                  Rejoin, MoveUnit, ToggleManager, records
  <2>3. subject[r] = p
    BY <1>3, <2>2 DEF ClosedOut, OpenRecordsOf
  <2>4. ASSUME NEW q \in Records \ {r}
        PROVE  Unseen(q)
    <3>1. q \notin OpenRecordsOf(p)
      BY <2>1, <2>3 DEF OpenRecordsOf, OneUnderWay
    <3>2. status'[q] = status[q]
      BY <2>2, <3>1 DEF ClosedOut
    <3>3. QED
      BY <1>1, <3>2 DEF Unseen, VerdictAt, SealAt
  <2>5. QED
    BY <1>1, <2>1, <2>4, CancelDrops
<1> QED BY <1>2, <1>3

-----------------------------------------------------------------------------
(* The refinement                                                          *)

LEMMA StepOfThePromise ==
  ASSUME TypeOK, CourseInv, OneUnderWay, [Next]_vars
  PROVE  [Promise!Next]_(Promise!pvars)
<1>1. ASSUME NEW u \in Users, NEW r \in Records, ChainStep(u, r)
      PROVE  [Promise!Next]_(Promise!pvars)
  <2>1. \A q \in Records \ {r} : Unseen(q)
    BY <1>1, ChainStepActsOnOne, UntouchedIsUnseen
  <2>2. ASSUME NEW p \in People, Create(p, r)
        PROVE  Promise!Next
    BY <2>2, CreateOpens DEF Promise!Next
  <2>3. CASE Submit(u, r)
    <3>1. PICK v \in CompleteSheets \X Bonuses : v = <<sheet[r], bonus[r]>>
      BY <2>3 DEF Submit, TypeOK, RecordsOK
    <3>2. Promise!Submit(r, v)
      BY <2>1, <2>3, <3>1, SubmitSubmits
    <3>3. QED
      BY <3>2 DEF Promise!Next
  <2>4. CASE HrApprove(u, r) \/ DeputyApprove(u, r) \/ CeoFinalize(u, r)
    BY <2>1, <2>4, ReviewSealsOrStutters DEF Promise!Next
  <2>5. CASE ReturnRecord(u, r)
    BY <2>1, <2>5, ReturnSendsBackOrStutters DEF Promise!Next
  <2>6. CASE Cancel(u, r)
    <3>1. Open(r) /\ status'[r] = "cancelled" /\ UNCHANGED <<subject, doc>>
      BY <2>6, CancelMoves DEF Cancel, shape
    <3>2. QED
      BY <2>1, <3>1, CancelDrops DEF Promise!Next
  <2>7. CASE \/ \E s \in Sheets : UpsertScores(u, r, s)
             \/ \E b \in Bonuses : SetSpecialScore(u, r, b)
             \/ \E d \in Until : ExtendWindow(u, r, d)
             \/ HrClaim(u, r)
             \/ \E v \in Users : HrHandover(u, r, v)
             \/ HrComment(u, r)
             \/ \E f \in Seats, v \in Users : Reassign(u, r, f, v)
    BY <2>7, ToolsStutter
  <2>8. QED
    BY <1>1, <2>2, <2>3, <2>4, <2>5, <2>6, <2>7 DEF ChainStep
<1>2. CASE StaffStep
  BY <1>2, StaffDropsOneOrStutters DEF Promise!Next
<1>3. CASE PendingStep \/ NextDay \/ UNCHANGED vars
  <2>1. UNCHANGED <<status, subject, result, doc>>
    BY <1>3, PendingStepOnRecords DEF NextDay, records, vars
  <2>2. \A q \in Records : Unseen(q)
    BY <2>1 DEF Unseen, VerdictAt, SealAt
  <2>3. QED
    BY <2>1, <2>2, UnseenStutters
<1> QED BY <1>1, <1>2, <1>3 DEF Next

\* Through every interleaving of the seats, HR and the administration, a person
\* has one evaluation under way, the document shows the verdict that was under
\* review, and what is sealed or dropped stays so.
THEOREM WorkflowKeepsItsPromise == Spec => PromiseKept
<1>1. Init => Promise!Init
  BY DEF Init, Promise!Init, PhaseOf, Reviewed
<1>2. TypeOK /\ CourseInv /\ OneUnderWay /\ [Next]_vars => [Promise!Next]_(Promise!pvars)
  BY StepOfThePromise
<1>3. QED
  BY <1>1, <1>2, TypeCorrect, CourseIsInvariant, OneUnderWayHolds, PTL
     DEF Spec, PromiseKept, Promise!Spec

-----------------------------------------------------------------------------
(* The voice of the person evaluated, beside the workflow: it changes        *)
(* nothing of it, so everything proved of the workflow holds of the two      *)
(* together.                                                                 *)

\* The four requests of the person evaluated and of whoever answers them.
Request(u, r) == \/ SubmitSelfAssessment(u, r)
                 \/ Acknowledge(u, r)
                 \/ FileObjection(u, r)
                 \/ ResolveObjection(u, r)

\* Every step of the composition is a step of the workflow, or leaves it alone.
LEMMA StepOfTheWorkflow ==
  ASSUME [ResponseNext]_allVars
  PROVE  [Next]_vars
<1>1. CASE \E u \in Users, r \in Records : Request(u, r)
  BY <1>1 DEF Request, SubmitSelfAssessment, Acknowledge, FileObjection, ResolveObjection
<1>2. CASE \E m \in Switches : ToggleModule(m)
  BY <1>2 DEF ToggleModule
<1>3. CASE UNCHANGED allVars
  BY <1>3 DEF allVars
<1> QED BY <1>1, <1>2, <1>3 DEF ResponseNext, Request

\* Self-assessment, acknowledgement and objection, and the switches that turn
\* them on and off, change no evaluation: the composition implements the
\* workflow, and everything proved of the workflow holds of the two together
\* (api/routers/me.py writes its own columns and tables only).
THEOREM ResponsesKeepTheWorkflow == ResponseSpec => Spec
<1>1. ResponseInit => Init
  BY DEF ResponseInit
<1>2. [ResponseNext]_allVars => [Next]_vars
  BY StepOfTheWorkflow
<1>3. QED
  BY <1>1, <1>2, PTL DEF ResponseSpec, Spec

\* Self-assessment is tied to the same window as submission: opening it,
\* assessing oneself and objecting give nobody a late submission that no
\* extension covers (evaluation_window.ensure_open).
THEOREM LateOnlyByExtensionThroughout == ResponseSpec => LateSubmissionWasExtended
  BY ResponsesKeepTheWorkflow, LateOnlyByExtension, PTL

-----------------------------------------------------------------------------
(* What an objection and its answer rest on *)

VoiceTypeOK ==
  /\ objected \in [Records -> Nat]
  /\ resolvedBy \in [Records -> Users \cup {Nobody}]

\* An answer answers an objection, and an objection is about a closed record.
VoiceAt(r) ==
  /\ resolvedBy[r] # Nobody => objected[r] # 0
  /\ objected[r] # 0 => Closed(r)

VoiceInv == VoiceTypeOK /\ \A r \in Records : VoiceAt(r)

\* A step that writes neither column, and lets no closed record go, keeps it.
LEMMA VoiceUntouched ==
  ASSUME VoiceInv, TypeOK, [Next]_vars, UNCHANGED <<objected, resolvedBy>>
  PROVE  VoiceInv'
<1>1. ASSUME NEW r \in Records, Closed(r)
      PROVE  Closed(r)'
  BY <1>1, ClosedStays DEF Closed, Untouched
<1>2. QED
  BY <1>1 DEF VoiceInv, VoiceTypeOK, VoiceAt

\* What filing does: the day, on a finalized record that had no objection.
LEMMA FilingStep ==
  ASSUME VoiceInv, TypeOK, NEW u \in Users, NEW r \in Records, FileObjection(u, r)
  PROVE  /\ VoiceInv'
         /\ objected[r] = 0
         /\ \A q \in Records : q # r => objected'[q] = objected[q]
         /\ resolvedBy' = resolvedBy
<1>1. /\ objected[r] = 0 /\ status[r] = "finalized"
      /\ objected' = [objected EXCEPT ![r] = today]
      /\ resolvedBy' = resolvedBy /\ status' = status
  BY DEF FileObjection, MayObject, vars
<1>2. today \in Nat /\ objected \in [Records -> Nat]
  BY DEF TypeOK, RecordsOK, VoiceInv, VoiceTypeOK
<1>3. \A q \in Records : q # r => objected'[q] = objected[q]
  BY <1>1, <1>2
<1>4. VoiceTypeOK'
  BY <1>1, <1>2 DEF VoiceInv, VoiceTypeOK
<1>5. ASSUME NEW q \in Records
      PROVE  VoiceAt(q)'
  BY <1>1, <1>3 DEF VoiceInv, VoiceAt, Closed
<1>6. QED
  BY <1>1, <1>3, <1>4, <1>5 DEF VoiceInv

\* What answering does: the name of who answers, on an objection without one.
LEMMA AnsweringStep ==
  ASSUME VoiceInv, NEW u \in Users, NEW r \in Records, ResolveObjection(u, r)
  PROVE  /\ VoiceInv'
         /\ objected' = objected
         /\ resolvedBy[r] = Nobody /\ objected[r] # 0
         /\ resolvedBy'[r] = u
         /\ \A q \in Records : q # r => resolvedBy'[q] = resolvedBy[q]
<1>1. /\ objected[r] # 0 /\ resolvedBy[r] = Nobody
      /\ resolvedBy' = [resolvedBy EXCEPT ![r] = u]
      /\ objected' = objected /\ status' = status
  BY DEF ResolveObjection, vars
<1>2. resolvedBy \in [Records -> Users \cup {Nobody}]
  BY DEF VoiceInv, VoiceTypeOK
<1>3. resolvedBy'[r] = u /\ \A q \in Records : q # r => resolvedBy'[q] = resolvedBy[q]
  BY <1>1, <1>2
<1>4. VoiceTypeOK'
  BY <1>1, <1>2 DEF VoiceInv, VoiceTypeOK
<1>5. ASSUME NEW q \in Records
      PROVE  VoiceAt(q)'
  BY <1>1, <1>3 DEF VoiceInv, VoiceAt, Closed
<1>6. QED
  BY <1>1, <1>3, <1>4, <1>5 DEF VoiceInv

\* Everything else leaves the objections and the answers where they are.
LEMMA StepsOnTheVoice ==
  ASSUME [ResponseNext]_allVars
  PROVE  \/ \E u \in Users, r \in Records : FileObjection(u, r) \/ ResolveObjection(u, r)
         \/ UNCHANGED <<objected, resolvedBy>>
<1>1. CASE \E u \in Users, r \in Records : SubmitSelfAssessment(u, r) \/ Acknowledge(u, r)
  BY <1>1 DEF SubmitSelfAssessment, Acknowledge
<1>2. CASE \/ Next /\ UNCHANGED <<modules, responses>>
           \/ \E m \in Switches : ToggleModule(m)
           \/ UNCHANGED allVars
  BY <1>2 DEF ToggleModule, responses, allVars
<1> QED BY <1>1, <1>2 DEF ResponseNext

LEMMA VoiceInvStep ==
  ASSUME VoiceInv, TypeOK, [ResponseNext]_allVars
  PROVE  VoiceInv'
<1>1. ASSUME NEW u \in Users, NEW r \in Records, FileObjection(u, r)
      PROVE  VoiceInv'
  BY <1>1, FilingStep
<1>2. ASSUME NEW u \in Users, NEW r \in Records, ResolveObjection(u, r)
      PROVE  VoiceInv'
  BY <1>2, AnsweringStep
<1>3. CASE UNCHANGED <<objected, resolvedBy>>
  BY <1>3, StepOfTheWorkflow, VoiceUntouched
<1> QED BY <1>1, <1>2, <1>3, StepsOnTheVoice

LEMMA VoiceInvAlways == ResponseSpec => [](TypeOK /\ VoiceInv)
<1>1. ResponseInit => VoiceInv
  BY DEF ResponseInit, VoiceInv, VoiceTypeOK, VoiceAt
<1>2. VoiceInv /\ TypeOK /\ [ResponseNext]_allVars => VoiceInv'
  BY VoiceInvStep
<1>3. ResponseSpec => []TypeOK
  BY ResponsesKeepTheWorkflow, TypeCorrect, PTL
<1>4. QED
  BY <1>1, <1>2, <1>3, PTL DEF ResponseSpec

\* What was said on the record is not replaced: once an objection is answered
\* neither the objection nor the answer changes, whatever switch is turned and
\* whatever becomes of the accounts (file_objection, resolve_objection).
THEOREM AnswersAreFinal == ResponseSpec => AnswerStaysWithItsObjection
<1>1. ASSUME VoiceInv, TypeOK, [ResponseNext]_allVars,
             NEW r \in Records, resolvedBy[r] # Nobody
      PROVE  objected'[r] = objected[r] /\ resolvedBy'[r] = resolvedBy[r]
  <2>1. objected[r] # 0
    BY <1>1 DEF VoiceInv, VoiceAt
  <2>2. ASSUME NEW u \in Users, NEW q \in Records, FileObjection(u, q)
        PROVE  objected'[r] = objected[r] /\ resolvedBy'[r] = resolvedBy[r]
    <3>1. q # r
      BY <1>1, <2>1, <2>2, FilingStep
    <3>2. QED
      BY <1>1, <2>2, <3>1, FilingStep
  <2>3. ASSUME NEW u \in Users, NEW q \in Records, ResolveObjection(u, q)
        PROVE  objected'[r] = objected[r] /\ resolvedBy'[r] = resolvedBy[r]
    <3>1. q # r
      BY <1>1, <2>3, AnsweringStep
    <3>2. QED
      BY <1>1, <2>3, <3>1, AnsweringStep
  <2>4. QED
    BY <1>1, <2>2, <2>3, StepsOnTheVoice
<1>2. TypeOK /\ VoiceInv /\ [ResponseNext]_allVars =>
        [\A r \in Records : resolvedBy[r] # Nobody =>
            objected'[r] = objected[r] /\ resolvedBy'[r] = resolvedBy[r]]_allVars
  BY <1>1
<1>3. QED
  BY <1>2, VoiceInvAlways, PTL DEF ResponseSpec, AnswerStaysWithItsObjection

-----------------------------------------------------------------------------
(* Who answers *)

\* The seats that answer for the HR unit are rungs of the ladder, which HR is
\* not, however an account changed its role since it took the seat.
LEMMA HrHoldsNoSeatAboveItself ==
  ASSUME NEW c, c.skip, NEW x, MayActAt(x, SeatRole[ObjectionResolver(c)])
  PROVE  ObjectionResolver(c) # "hr" /\ x # "hr"
<1>1. ObjectionResolver(c) = "ceo" \/ ObjectionResolver(c) = "dep"
  BY DEF ObjectionResolver
<1>2. SeatRole[ObjectionResolver(c)] # "hr"
  BY <1>1 DEF SeatRole
<1>3. Rank(x) > 0
  BY <1>2 DEF MayActAt
<1>4. x # "hr"
  BY <1>3 DEF Rank
<1>5. QED
  BY <1>1, <1>4

\* The answer comes from an account that is not the subject's, and for a record
\* of the HR unit not from HR.
LEMMA AnsweredByAnother ==
  ASSUME VoiceInv, SubjectInv, NEW u \in Users, NEW r \in Records, ResolveObjection(u, r)
  PROVE  /\ link[u] # subject[r]
         /\ chain[r].skip => role[u] # "hr"
<1>1. objected[r] # 0 /\ MayResolve(u, r)
  BY DEF ResolveObjection
<1>2. subject[r] \in People
  <2>1. Closed(r)
    BY <1>1 DEF VoiceInv, VoiceAt
  <2>2. QED
    BY <2>1 DEF Closed, SubjectInv
<1>3. link[u] # subject[r]
  BY <1>1, <1>2, ConstantsAssumption DEF MayResolve, HrMayHandle, IsSubject
<1>4. ASSUME chain[r].skip
      PROVE  role[u] # "hr"
  <2>1. ObjectionResolver(chain[r]) # "hr"
    BY <1>4 DEF ObjectionResolver
  <2>2. MayActAt(role[u], SeatRole[ObjectionResolver(chain[r])])
    BY <1>1, <2>1 DEF MayResolve
  <2>3. QED
    BY <1>4, <2>2, HrHoldsNoSeatAboveItself
<1>5. QED
  BY <1>3, <1>4

\* Nobody judges an objection against their own file or that of their own unit,
\* although accounts are relinked and seats change hands between the objection
\* and its answer (_ensure_can_resolve_objection).
THEOREM JudgesAreNotParty == ResponseSpec => JudgeIsNotParty
<1>1. ASSUME VoiceInv, TypeOK, SubjectInv, [ResponseNext]_allVars,
             NEW r \in Records, NEW u \in Users, resolvedBy[r] = Nobody, resolvedBy'[r] = u
      PROVE  link[u] # subject[r] /\ (chain[r].skip => role[u] # "hr")
  <2>1. resolvedBy'[r] # resolvedBy[r]
    BY <1>1, ConstantsAssumption
  <2>2. PICK v \in Users, q \in Records : ResolveObjection(v, q)
    BY <1>1, <2>1, StepsOnTheVoice, FilingStep
  <2>3. q = r
    BY <1>1, <2>1, <2>2, AnsweringStep
  <2>4. v = u
    BY <1>1, <2>2, <2>3, AnsweringStep
  <2>5. QED
    BY <1>1, <2>2, <2>3, <2>4, AnsweredByAnother
<1>2. TypeOK /\ VoiceInv /\ SubjectInv /\ [ResponseNext]_allVars =>
        [\A r \in Records, u \in Users : resolvedBy[r] = Nobody /\ resolvedBy'[r] = u =>
            /\ link[u] # subject[r]
            /\ chain[r].skip => role[u] # "hr"]_allVars
  BY <1>1
<1>3. ResponseSpec => []SubjectInv
  BY ResponsesKeepTheWorkflow, SubjectInvAlways, PTL
<1>4. QED
  BY <1>2, <1>3, VoiceInvAlways, PTL DEF ResponseSpec, JudgeIsNotParty
=============================================================================
