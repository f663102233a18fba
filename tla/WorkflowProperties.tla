------------------------- MODULE WorkflowProperties -------------------------
(***************************************************************************)
(* What the evaluation workflow promises, and two things its documents say *)
(* of it that the code does not keep.                                      *)
(***************************************************************************)
EXTENDS EvaluationWorkflow

Reviewed == {"submitted", "hr_approved", "deputy_approved", "finalized"}

ChainType == [us : Users \cup {Nobody}, dep : Users \cup {Nobody},
              ceo : Users \cup {Nobody}, skip : BOOLEAN]

DoneType == [scorer : Users \cup {Nobody}, hr : Users \cup {Nobody},
             dep : Users \cup {Nobody}, final : Users \cup {Nobody}]

\* The types of the accounts and personnel tables.
StaffOK ==
  /\ role \in [Users -> Roles]
  /\ active \in [Users -> BOOLEAN]
  /\ link \in [Users -> People \cup {Nobody}]
  /\ employed \in [People -> BOOLEAN]
  /\ inHrUnit \in [People -> BOOLEAN]
  /\ manager \in [People -> BOOLEAN]
  /\ access \in [People -> Rows \cup {NoAccess}]
  /\ flushed \in [People -> Rows \cup {NoAccess}]
  /\ inserted \in [People -> ChainType]

\* The types of the columns of evaluation_records.
RecordsOK ==
  /\ status \in [Records -> Statuses \cup {"none"}]
  /\ subject \in [Records -> People \cup {Nobody}]
  /\ chain \in [Records -> ChainType]
  /\ hr \in [Records -> Users \cup {Nobody}]
  /\ sheet \in [Records -> Sheets]
  /\ bonus \in [Records -> Bonuses]
  /\ result \in [Records -> (CompleteSheets \X Bonuses) \cup {NoResult}]
  /\ doc \in [Records -> Documents \cup {NoDoc}]
  /\ extended \in [Records -> Nat]
  /\ done \in [Records -> DoneType]
  /\ today \in Nat

\* Type correctness: every column keeps the type the models declare for it.
TypeOK == StaffOK /\ RecordsOK

-----------------------------------------------------------------------------

\* Who sits on a chain: of p's records and access row, or of a row for p that is
\* written and waits for its commit.
SitsOn(u, c) == \E f \in Seats : c[f] = u

Seated(u, p) ==
  \/ access[p] # NoAccess /\ SitsOn(u, access[p])
  \/ \E r \in Records : status[r] # "none" /\ subject[r] = p /\ SitsOn(u, chain[r])

Waiting(u, p) ==
  \/ flushed[p] # NoAccess /\ SitsOn(u, flushed[p])
  \/ inserted[p] # NoChain /\ SitsOn(u, inserted[p])

\* Nobody takes the second side of an evaluation of which they hold the first
\* (P0-10): an account is never linked to a person in whose chain it sits, and
\* once linked is never written into one, however accounts are relinked, seats
\* reassigned and access rows rewritten in between.  The one way left is a row
\* that had been written before the link and is committed after it: neither
\* self_evaluation.py nor its triggers lock what they read.
SidesStayApart ==
  [][\A u \in Users, p \in People :
       /\ link[u] # p /\ link'[u] = p => ~Seated(u, p)'
       /\ link[u] = p => /\ Waiting(u, p)' => Waiting(u, p)
                         /\ Seated(u, p)' => Seated(u, p) \/ Waiting(u, p)]_vars

\* Whoever comes to sit in judgement of themselves that way decides nothing: the
\* record keeps its stage, its HR owner and its result until the seat is given to
\* somebody else or the link is taken away, whoever acts and from whatever
\* screen, a departure that closes records included (the trigger of
\* evaluation_records reads the accounts again at every UPDATE of the row).
SeatedSubjectStopsTheRecord ==
  [][\A r \in Records : status[r] # "none" /\ ~SeatsExclude(chain[r], subject[r]) =>
       status'[r] = status[r] /\ hr'[r] = hr[r] /\ result'[r] = result[r]]_vars

\* The stored result is always the one of the scores and the bonus that stand
\* on the record: nothing is approved that is no longer there (finalize_scoring
\* on submit, the scorer guards on the three draft endpoints, the returns).
ResultIsCurrent ==
  \A r \in Records : status[r] \in Reviewed =>
     sheet[r] \in CompleteSheets /\ result[r] = <<sheet[r], bonus[r]>>

\* A record is finalized exactly when it has its document, the document shows
\* the stored result, and no signature block of it is empty: the HR row of
\* document_signatories has an owner because every way to finalized claims it.
SealedDocumentIsComplete ==
  \A r \in Records :
     /\ (status[r] = "finalized") <=> (doc[r] # NoDoc)
     /\ doc[r] # NoDoc => /\ doc[r].result = result[r]
                          /\ \A row \in doc[r].signers : row.user # Nobody

\* Nothing that happens later, on the record or in the staff tables, touches a
\* record once it is finalized or cancelled (no transition leaves either, and
\* every administrative tool asks for an open record).
FinalizedIsSealed ==
  [][\A r \in Records : status[r] \in {"finalized", "cancelled"} =>
       /\ status'[r] = status[r] /\ chain'[r] = chain[r] /\ hr'[r] = hr[r]
       /\ sheet'[r] = sheet[r] /\ bonus'[r] = bonus[r] /\ result'[r] = result[r]
       /\ doc'[r] = doc[r]]_vars

\* HR takes no part in a record of its own unit: it never owns it and never
\* passes it, through approval, claim, handover or comment (hr_review_skipped,
\* hr_panel_is_shielded, and the guards of the HR transitions).
HrStaysOutOfItsUnit ==
  \A r \in Records : chain[r].skip => hr[r] = Nobody /\ done[r].hr = Nobody

\* Every open record stands on somebody's desk: some forward transition accepts
\* its status and the shape of its chain, and the seat it needs exists.  A
\* return to a stage that the chain does not have would break this.
NoLimbo ==
  \A r \in Records : Open(r) =>
     \E a \in SubmitActions \cup HrActions \cup ApprovalActions :
        LET seat == Transition(a).seat
        IN  /\ status[r] \in Transition(a).from
            /\ Guard(a, chain[r], status[r])
            /\ seat \in Seats => chain[r][seat] # Nobody

\* No stage the chain has is jumped: a finalized record was scored, was passed
\* by HR unless it belongs to the HR unit, and by the deputy when the chain has
\* a deputy above a unit supervisor, each after the last return that undid it.
NoStageIsJumped ==
  \A r \in Records : status[r] = "finalized" =>
     /\ done[r].scorer # Nobody /\ done[r].final # Nobody
     /\ ~chain[r].skip => done[r].hr # Nobody
     /\ (chain[r].us # Nobody /\ chain[r].dep # Nobody) => done[r].dep # Nobody

\* No record is stuck for good: while somebody with the standing to close it is
\* left (an active HR user who is not its subject or, for a record of the HR
\* unit, an active CEO who is not), somebody can cancel it, whoever has left
\* its seats (ensure_may_administer, cancel_hr_subject).  A record whose subject
\* was seated by an overtaken row needs the seat replaced first.
RescueExists ==
  \A r \in Records :
     /\ Open(r) /\ SeatsExclude(chain[r], subject[r])
     /\ \E u \in Users : /\ active[u] /\ ~IsSubject(u, r)
                          /\ role[u] = IF chain[r].skip THEN "ceo" ELSE "hr"
     => \E u \in Users : MayCancel(u, r)

\* After the period's end a record leaves draft forwards only on a day that an
\* extension covers (evaluation_window.ensure_open on submit).
LateSubmissionWasExtended ==
  [][\A r \in Records : status[r] = "draft" /\ status'[r] \in Reviewed /\ PeriodEnd # 0
        => today <= PeriodEnd \/ today <= extended[r]]_vars

-----------------------------------------------------------------------------
(* The workflow implements the promise of EvaluationPromise *)

PhaseOf(s) == CASE s = "none" -> "none"
                [] s = "draft" -> "scoring"
                [] s = "finalized" -> "sealed"
                [] s = "cancelled" -> "dropped"
                [] OTHER -> "review"

Promise == INSTANCE EvaluationPromise WITH
  Verdicts <- CompleteSheets \X Bonuses,
  NoVerdict <- NoResult,
  phase <- [r \in Records |-> PhaseOf(status[r])],
  owner <- subject,
  verdict <- [r \in Records |-> IF status[r] \in Reviewed THEN result[r] ELSE NoResult],
  seal <- [r \in Records |-> IF doc[r] = NoDoc THEN NoResult ELSE doc[r].result]

\* Through every interleaving of the seats, HR and the administration, a person
\* has one evaluation under way, and what the final document shows is the
\* verdict that was under review (submit, return, cancel, _stamp_finalization).
PromiseKept == Promise!Spec

-----------------------------------------------------------------------------
(* Said by the documents, not kept by the code: violating runs *)

\* self_evaluation.py:1-16 and the migration that adds the triggers: no seat of a
\* record or of an access row is held by an account linked to the person
\* evaluated, because the database refuses what the endpoints let through.
SubjectHoldsNoSeat ==
  /\ \A r \in Records : status[r] # "none" => SeatsExclude(chain[r], subject[r])
  /\ \A p \in People : access[p] # NoAccess => SeatsExclude(access[p], p)

\* workflow.py:771-772, "no signature is forged": whoever signs the final
\* document did perform a stage of the record.
SignersTookPart ==
  \A r \in Records : status[r] = "finalized" =>
     \A row \in doc[r].signers :
        row.user \in {done[r].scorer, done[r].hr, done[r].dep, done[r].final}

============================================================================
