------------------------- MODULE EvaluationWorkflow -------------------------
(***************************************************************************)
(* The life of evaluation records under everyone who can touch them: the   *)
(* seats of the chain, the HR panel, and the administration that changes   *)
(* accounts, personnel and access rows while records are in flight.        *)
(*                                                                         *)
(* An endpoint of the chain locks the record it changes (SELECT ... FOR    *)
(* UPDATE) and commits once: a single action.  Opening a record and        *)
(* writing an access row lock nothing that the linking of an account       *)
(* reads; each writes its row, waits for the lock of the audit chain and   *)
(* commits, so these are two actions each, and links are made in between.  *)
(* The linking itself, and the replacing of a seat, write their row while  *)
(* they hold that lock, and the triggers look again there: one action.     *)
(***************************************************************************)
EXTENDS Chain, FiniteSets

CONSTANTS
  Users, People, Records,
  Sheets,          \* what may stand in the score form of a record
  CompleteSheets,  \* the sheets that score every indicator of the framework
  NoSheet,         \* the empty form of a new record
  Bonuses,         \* the special scores (0 is none)
  NoResult, NoDoc, NoAccess,
  InitRole, InitLink,     \* the accounts as first set up
  AccessRows,      \* the chains HR may have written for a person at the start
  NewRows,         \* the chains HR may still write later
  Grants,          \* <<user, role>>: the role changes an administrator may make
  Relinks,         \* <<user, person>>: the personnel links an administrator may set
  Switchable,      \* the accounts an administrator may disable or enable
  Leavers,         \* the people who may leave the organisation
  Movers,          \* the people who may change organisational unit
  Promotable,      \* the people whose manager flag may change
  PeriodEnd,       \* last day of the evaluation period; 0 when there is none
  Until,           \* the dates an extension may name
  MaxDay           \* bound on the calendar

Rows == [us : Users \cup {Nobody}, dep : Users \cup {Nobody}, ceo : Users]

\* A signature block of the final document, and what final_snapshot may hold.
SignerRows == [user : Users \cup {Nobody}, seats : SUBSET (Seats \cup {"hr"})]

Documents == [result : (CompleteSheets \X Bonuses) \cup {NoResult},
              single : BOOLEAN, signers : SUBSET SignerRows]

ASSUME ConstantsAssumption ==
  /\ Nobody \notin Users \cup People
  /\ NoSheet \in Sheets /\ CompleteSheets \subseteq Sheets /\ NoSheet \notin CompleteSheets
  /\ 0 \in Bonuses
  /\ NoResult \notin CompleteSheets \X Bonuses
  /\ InitRole \in [Users -> Roles]
  /\ InitLink \in [Users -> People \cup {Nobody}]
  /\ NoAccess \notin Rows /\ NoDoc \notin Documents
  /\ AccessRows \subseteq Rows /\ NewRows \subseteq Rows
  /\ Grants \subseteq Users \X Roles
  /\ Relinks \subseteq Users \X (People \cup {Nobody})
  /\ PeriodEnd \in Nat /\ Until \subseteq Nat /\ MaxDay \in Nat

VARIABLES
  role, active, link,                 \* accounts: users.role, is_active, personnel_id
  employed, inHrUnit, manager,        \* personnel
  access,                             \* evaluation_access, one row per person
  flushed,                            \* the row of it that is written, not committed
  inserted,                           \* the chain of a record written, not committed
  status, subject, chain, hr,         \* evaluation_records
  sheet, bonus, result,               \* its scores and what was computed from them
  doc,                                \* final_snapshot
  extended,                           \* submission_extended_until, 0 when NULL
  done,                               \* who performed the stages that still count
  today

accounts == <<role, active, link>>
personnel == <<employed, inHrUnit, manager>>
pending == <<flushed, inserted>>
staff == <<role, active, link, employed, inHrUnit, manager, access, flushed, inserted>>
shape == <<subject, chain>>
scoring == <<sheet, bonus, result>>
records == <<status, subject, chain, hr, sheet, bonus, result, doc, extended, done>>
vars == <<role, active, link, employed, inHrUnit, manager, access, flushed, inserted,
          status, subject, chain, hr, sheet, bonus, result, doc, extended, done, today>>

-----------------------------------------------------------------------------
(* Guards shared by the endpoints *)

Open(r) == status[r] \in OpenStatuses

\* The user's own evaluation (ensure_not_deciding_about_oneself).
IsSubject(u, r) == link[u] # Nobody /\ link[u] = subject[r]

\* While it is open, HR does not see a record of its own unit.
Shielded(r) == chain[r].skip /\ Open(r)

\* Fault: HR is kept from its own evaluation only, not from its colleagues'.
HrMayHandle_NoShield(r, u) == ~IsSubject(u, r)

HrMayHandle(r, u) == /\ ~IsSubject(u, r)
                     /\ role[u] = "hr" => ~Shielded(r)

\* Fault: the administrative tools are HR's alone.
MayAdminister_HrOnly(r, u) == role[u] = "hr" /\ HrMayHandle(r, u)

\* Cancel, replace a seat, extend the window.
MayAdminister(r, u) ==
  IF role[u] = "hr" THEN HrMayHandle(r, u)
  ELSE /\ ~IsSubject(u, r)
       /\ role[u] \in {"deputy", "ceo"}
       /\ Shielded(r)
       /\ role[u] = "ceo" \/ chain[r].dep = u

\* Fault: the scorer keeps the pen after submitting.
IsTheScorer_AnyStatus(r, u) ==
  LET seat == ScorerSeat(chain[r])
  IN  chain[r][seat] = u /\ MayActAt(role[u], SeatRole[seat]) /\ Open(r)

\* The one who scores this record now.
IsTheScorer(r, u) ==
  LET seat == ScorerSeat(chain[r])
  IN  /\ status[r] = "draft"
      /\ chain[r][seat] = u
      /\ MayActAt(role[u], SeatRole[seat])

CanDo(r, a, u) == Available(a, chain[r], hr[r], status[r], u, role[u])

NotTheSubject(u, p) == link[u] # p

\* What ensure_evaluators_are_not_the_subject asks of a whole chain.
SeatsExclude(c, p) == \A f \in Seats : c[f] # Nobody => NotTheSubject(c[f], p)

\* The trigger of evaluation_records asks it again on every UPDATE of the row.
RowStands(r) == SeatsExclude(chain[r], subject[r])

NoChain == [us |-> Nobody, dep |-> Nobody, ceo |-> Nobody, skip |-> FALSE]

\* A chain that HR may write for p (upsert_access).
RowAllowed(row, p) ==
  /\ manager[p] => row.us = Nobody
  /\ \A f \in Seats : row[f] # Nobody => active[row[f]] /\ MayActAt(role[row[f]], SeatRole[f])
  /\ SeatsExclude(row, p)
  /\ ~Redundant(row)

\* A seat, or the HR ownership, on an open record.
HoldsOpenSeat(u) ==
  \E r \in Records : Open(r) /\ (hr[r] = u \/ \E f \in Seats : chain[r][f] = u)

OpenRecordsOf(p) == {r \in Records : Open(r) /\ subject[r] = p}

-----------------------------------------------------------------------------
(* The submission window *)

\* Last day on which the record may be submitted; 0 when there is no limit.
\* An extension counts only when it is later than the period's end.
ClosesOn(r) == IF PeriodEnd = 0 THEN 0
               ELSE IF extended[r] > PeriodEnd THEN extended[r] ELSE PeriodEnd

WindowOpen(r) == ClosesOn(r) = 0 \/ today <= ClosesOn(r)

-----------------------------------------------------------------------------
(* What one transition does to the record *)

NobodyDid == [scorer |-> Nobody, hr |-> Nobody, dep |-> Nobody, final |-> Nobody]

\* The stages that still count once the record stands in status s: a return
\* undoes the approvals it goes back over.  Kept in the audit log.
Rewound(t, s) ==
  CASE s = "draft" -> NobodyDid
    [] s = "submitted" -> [t EXCEPT !.hr = Nobody, !.dep = Nobody]
    [] s = "hr_approved" -> [t EXCEPT !.dep = Nobody]
    [] OTHER -> t

\* Fault: acting on an unowned HR stage leaves it unowned.
Claimed_Never(h, a, u) == h

\* An action on an unowned HR stage makes its actor the owner.
Claimed(h, a, u) == IF Transition(a).seat = "hr" /\ h = Nobody THEN u ELSE h

\* Fault: the trigger looks at the chain when it is written and never again.
Permitted_NoTrigger(r, a, u) ==
  /\ active[u]
  /\ CanDo(r, a, u)
  /\ Transition(a).role = "hr" =>
       IF a = "cancel_on_separation" THEN ~IsSubject(u, r) ELSE HrMayHandle(r, u)
  /\ Transition(a).to = "finalized" => result[r] # NoResult /\ sheet[r] # NoSheet

\* What a transition may not do: HR guards, no finalization without scores, and
\* nothing that the trigger refuses.
Permitted(r, a, u) ==
  /\ active[u] /\ RowStands(r)
  /\ CanDo(r, a, u)
  /\ Transition(a).role = "hr" =>
       IF a = "cancel_on_separation" THEN ~IsSubject(u, r) ELSE HrMayHandle(r, u)
  /\ Transition(a).to = "finalized" => result[r] # NoResult /\ sheet[r] # NoSheet

\* Fault: the document is given the score sheet in place of the result.
Snapshot_Sheet(r, h) == [result |-> sheet[r],
                         single |-> SingleDecider(chain[r], h),
                         signers |-> Signatories(chain[r], h)]

Snapshot(r, h) == [result |-> result[r],
                   single |-> SingleDecider(chain[r], h),
                   signers |-> Signatories(chain[r], h)]

Move(r, a, u) ==
  /\ status' = [status EXCEPT ![r] = Transition(a).to]
  /\ hr' = [hr EXCEPT ![r] = Claimed(hr[r], a, u)]

-----------------------------------------------------------------------------
(* The endpoints of the chain *)

\* Opening a record: the checks, and the INSERT, which holds the place of p in
\* the index of open records and passes the trigger of the table.
InsertRecord(u, p) ==
  LET row == access[p]
      seat == ScorerSeat(row)
  IN  /\ active[u] /\ employed[p]
      /\ row # NoAccess
      /\ \A f \in Seats : row[f] # Nobody => active[row[f]]
      /\ row[seat] = u /\ MayActAt(role[u], SeatRole[seat])
      /\ OpenRecordsOf(p) = {} /\ inserted[p] = NoChain
      /\ SeatsExclude(row, p)
      /\ inserted' = [inserted EXCEPT ![p] = [us |-> row.us, dep |-> row.dep, ceo |-> row.ceo,
                                              skip |-> inHrUnit[p]]]
      /\ UNCHANGED <<accounts, personnel, access, flushed, records, today>>

\* Its commit, once the lock of the audit chain is had: nothing is asked again.
Create(p, r) ==
  /\ inserted[p] # NoChain /\ status[r] = "none"
  /\ status' = [status EXCEPT ![r] = "draft"]
  /\ subject' = [subject EXCEPT ![r] = p]
  /\ chain' = [chain EXCEPT ![r] = inserted[p]]
  /\ inserted' = [inserted EXCEPT ![p] = NoChain]
  /\ UNCHANGED <<accounts, personnel, access, flushed, hr, scoring, doc, extended, done, today>>

UpsertScores(u, r, s) ==
  /\ active[u] /\ IsTheScorer(r, u)
  /\ sheet' = [sheet EXCEPT ![r] = s]
  /\ UNCHANGED <<staff, status, shape, hr, bonus, result, doc, extended, done, today>>

SetSpecialScore(u, r, b) ==
  /\ active[u] /\ IsTheScorer(r, u) /\ RowStands(r)
  /\ bonus' = [bonus EXCEPT ![r] = b]
  /\ UNCHANGED <<staff, status, shape, hr, sheet, result, doc, extended, done, today>>

\* Submitting computes the result afresh from the sheet and the bonus.
Submit(u, r) ==
  LET a == SubmitActionFor(chain[r])
  IN  /\ WindowOpen(r)
      /\ Permitted(r, a, u)
      /\ sheet[r] \in CompleteSheets
      /\ Move(r, a, u)
      /\ result' = [result EXCEPT ![r] = <<sheet[r], bonus[r]>>]
      /\ done' = [done EXCEPT ![r] = [NobodyDid EXCEPT !.scorer = u]]
      /\ UNCHANGED <<staff, shape, sheet, bonus, doc, extended, today>>

\* HR's review; for a chain that is the CEO alone it is the final approval.
HrApprove(u, r) ==
  LET a == HrActionFor(chain[r])
  IN  /\ HrMayHandle(r, u)
      /\ Permitted(r, a, u)
      /\ Move(r, a, u)
      /\ doc' = IF a = "hr_finalize_direct_ceo"
                THEN [doc EXCEPT ![r] = Snapshot(r, Claimed(hr[r], a, u))] ELSE doc
      /\ done' = [done EXCEPT ![r] =
                    [@ EXCEPT !.hr = u,
                              !.final = IF a = "hr_finalize_direct_ceo" THEN u ELSE Nobody]]
      /\ UNCHANGED <<staff, shape, scoring, extended, today>>

DeputyApprove(u, r) ==
  /\ Permitted(r, "deputy_approve", u)
  /\ Move(r, "deputy_approve", u)
  /\ done' = [done EXCEPT ![r] = [@ EXCEPT !.dep = u]]
  /\ UNCHANGED <<staff, shape, scoring, doc, extended, today>>

CeoFinalize(u, r) ==
  /\ Permitted(r, "ceo_finalize", u)
  /\ Move(r, "ceo_finalize", u)
  /\ doc' = [doc EXCEPT ![r] = Snapshot(r, hr[r])]
  /\ done' = [done EXCEPT ![r] = [@ EXCEPT !.final = u]]
  /\ UNCHANGED <<staff, shape, scoring, extended, today>>

\* The first return of the list that this user's seat makes possible.
ReturnRecord(u, r) ==
  /\ role[u] \in {"hr", "deputy", "ceo"}
  /\ HrMayHandle(r, u)
  /\ \E i \in DOMAIN ReturnOrder :
       LET a == ReturnOrder[i]
       IN  /\ \A j \in 1 .. i - 1 : ~CanDo(r, ReturnOrder[j], u)
           /\ Permitted(r, a, u)
           /\ Move(r, a, u)
           /\ done' = [done EXCEPT ![r] = Rewound(@, Transition(a).to)]
  /\ UNCHANGED <<staff, shape, scoring, doc, extended, today>>

CancelActionOf(u) == IF role[u] = "hr" THEN "cancel" ELSE "cancel_hr_subject"

MayCancel(u, r) == MayAdminister(r, u) /\ Permitted(r, CancelActionOf(u), u)

Cancel(u, r) ==
  /\ MayCancel(u, r)
  /\ Move(r, CancelActionOf(u), u)
  /\ UNCHANGED <<staff, shape, scoring, doc, extended, done, today>>

\* Any date is accepted, an earlier one than before included.
ExtendWindow(u, r, d) ==
  /\ active[u] /\ MayAdminister(r, u)
  /\ status[r] = "draft" /\ RowStands(r)
  /\ ClosesOn(r) # 0
  /\ extended' = [extended EXCEPT ![r] = d]
  /\ UNCHANGED <<staff, status, shape, hr, scoring, doc, done, today>>

HrClaim(u, r) ==
  /\ active[u] /\ role[u] = "hr"
  /\ HrMayHandle(r, u) /\ Open(r) /\ RowStands(r)
  /\ hr[r] = Nobody
  /\ hr' = [hr EXCEPT ![r] = u]
  /\ UNCHANGED <<staff, status, shape, scoring, doc, extended, done, today>>

HrHandover(u, r, v) ==
  /\ active[u] /\ role[u] = "hr"
  /\ HrMayHandle(r, u) /\ Open(r) /\ RowStands(r)
  /\ active[v] /\ role[v] = "hr"
  /\ v # hr[r] /\ ~IsSubject(v, r)
  /\ hr' = [hr EXCEPT ![r] = v]
  /\ UNCHANGED <<staff, status, shape, scoring, doc, extended, done, today>>

\* HR's top-level comment on an unowned record claims it; the comments of the
\* other stages change nothing that is modelled.
HrComment(u, r) ==
  /\ active[u] /\ role[u] = "hr"
  /\ HrMayHandle(r, u) /\ RowStands(r)
  /\ status[r] = "submitted"
  /\ hr[r] = Nobody
  /\ hr' = [hr EXCEPT ![r] = u]
  /\ UNCHANGED <<staff, status, shape, scoring, doc, extended, done, today>>

\* Replace the holder of a seat on an open record.  The endpoint asks of the new
\* holder, and the trigger of the whole new chain, that they are not the subject.
Reassign(u, r, f, v) ==
  /\ active[u] /\ MayAdminister(r, u) /\ Open(r)
  /\ chain[r][f] # Nobody
  /\ active[v] /\ role[v] = SeatRole[f]
  /\ SeatsExclude([chain[r] EXCEPT ![f] = v], subject[r])
  /\ ~Redundant([chain[r] EXCEPT ![f] = v])
  /\ chain' = [chain EXCEPT ![r] = [@ EXCEPT ![f] = v]]
  /\ UNCHANGED <<staff, status, subject, hr, scoring, doc, extended, done, today>>

-----------------------------------------------------------------------------
(* Administration of accounts, personnel and access *)

\* HR writes a chain: the checks and the flush, which passes the trigger of the
\* table.  A second writer of the row waits for the first, and then gets 409 or
\* writes over it.
UpsertAccess(p, row) ==
  /\ flushed[p] = NoAccess
  /\ RowAllowed(row, p)
  /\ flushed' = [flushed EXCEPT ![p] = row]
  /\ UNCHANGED <<accounts, personnel, access, inserted, records, today>>

\* Its commit, once the lock of the audit chain is had: nothing is asked again.
CommitAccess(p, row) ==
  /\ flushed[p] = row
  /\ access' = [access EXCEPT ![p] = row]
  /\ flushed' = [flushed EXCEPT ![p] = NoAccess]
  /\ UNCHANGED <<accounts, personnel, inserted, records, today>>

\* A request that ends before its commit takes back what it wrote.
GiveUp(p) ==
  /\ \/ flushed[p] # NoAccess /\ flushed' = [flushed EXCEPT ![p] = NoAccess] /\ UNCHANGED inserted
     \/ inserted[p] # NoChain /\ inserted' = [inserted EXCEPT ![p] = NoChain] /\ UNCHANGED flushed
  /\ UNCHANGED <<accounts, personnel, access, records, today>>

ChangeRole(u, newRole) ==
  /\ role[u] # newRole
  /\ ~HoldsOpenSeat(u)
  /\ newRole = "employee" => link[u] # Nobody
  /\ role' = [role EXCEPT ![u] = newRole]
  /\ UNCHANGED <<active, link, personnel, access, pending, records, today>>

Disable(u) ==
  /\ active[u]
  /\ ~HoldsOpenSeat(u)
  /\ active' = [active EXCEPT ![u] = FALSE]
  /\ UNCHANGED <<role, link, personnel, access, pending, records, today>>

\* Enabling an account is checked against nothing.
Enable(u) ==
  /\ ~active[u]
  /\ active' = [active EXCEPT ![u] = TRUE]
  /\ UNCHANGED <<role, link, personnel, access, pending, records, today>>

\* Fault: the link is checked against the access row, not against records.
LinkAllowed_AccessOnly(u, p) ==
  /\ \A v \in Users \ {u} : link[v] = p => ~active[v]
  /\ access[p] # NoAccess => \A f \in Seats : access[p][f] # u

\* Linking is refused while the user is an evaluator of that person, on the
\* access row or on a record of any status; unlinking is always accepted.
LinkAllowed(u, p) ==
  /\ \A v \in Users \ {u} : link[v] = p => ~active[v]
  /\ access[p] # NoAccess => \A f \in Seats : access[p][f] # u
  /\ \A r \in Records : subject[r] = p => \A f \in Seats : chain[r][f] # u

LinkAccount(u, p) ==
  /\ link[u] # p
  /\ p # Nobody => LinkAllowed(u, p)
  /\ role[u] = "employee" => p # Nobody
  /\ link' = [link EXCEPT ![u] = p]
  /\ UNCHANGED <<role, active, personnel, access, pending, records, today>>

ClosedOut(p) == [r \in Records |-> IF r \in OpenRecordsOf(p) THEN "cancelled" ELSE status[r]]

\* Leaving the organisation: the open record is cancelled by the acting HR
\* user, and one of the accounts linked to the person is disabled.  A support
\* account that manages personnel gets here too, but may cancel nothing.
Depart(u, p) ==
  /\ employed[p]
  /\ active[u] /\ role[u] \in {"hr", "support"}
  /\ \A r \in OpenRecordsOf(p) : Permitted(r, "cancel_on_separation", u)
  /\ employed' = [employed EXCEPT ![p] = FALSE]
  /\ status' = ClosedOut(p)
  /\ LET linked == {v \in Users : link[v] = p}
     IN  IF linked = {} THEN active' = active
         ELSE \E v \in linked : active' = [active EXCEPT ![v] = FALSE]
  /\ UNCHANGED <<role, link, inHrUnit, manager, access, pending, shape, hr, scoring, doc,
                 extended, done, today>>

\* Coming back touches the personnel row only.
Rejoin(p) ==
  /\ ~employed[p]
  /\ employed' = [employed EXCEPT ![p] = TRUE]
  /\ UNCHANGED <<accounts, inHrUnit, manager, access, pending, records, today>>

MoveUnit(p) ==
  /\ inHrUnit' = [inHrUnit EXCEPT ![p] = ~@]
  /\ UNCHANGED <<accounts, employed, manager, access, pending, records, today>>

\* The manager flag is frozen while a record is open; setting it empties the
\* unit supervisor's seat on the access row, which passes the trigger once more.
\* While that row is being written it cannot: each of the two requests holds the
\* lock the other waits for, until the database gives one of them up.
ToggleManager(p) ==
  LET empties == ~manager[p] /\ access[p] # NoAccess /\ access[p].us # Nobody
      row == [access[p] EXCEPT !.us = Nobody]
  IN  /\ OpenRecordsOf(p) = {}
      /\ manager' = [manager EXCEPT ![p] = ~@]
      /\ empties => flushed[p] = NoAccess /\ SeatsExclude(row, p)
      /\ access' = IF empties THEN [access EXCEPT ![p] = row] ELSE access
      /\ UNCHANGED <<accounts, employed, inHrUnit, pending, records, today>>

NextDay == /\ today < MaxDay
           /\ today' = today + 1
           /\ UNCHANGED <<staff, records>>

-----------------------------------------------------------------------------

Init ==
  /\ role = InitRole /\ link = InitLink
  /\ active = [u \in Users |-> TRUE]
  /\ employed = [p \in People |-> TRUE]
  /\ inHrUnit \in [People -> BOOLEAN]
  /\ manager = [p \in People |-> FALSE]
  /\ access \in [People -> AccessRows \cup {NoAccess}]
  /\ \A p \in People : access[p] # NoAccess => RowAllowed(access[p], p)
  /\ flushed = [p \in People |-> NoAccess]
  /\ inserted = [p \in People |-> NoChain]
  /\ status = [r \in Records |-> "none"]
  /\ subject = [r \in Records |-> Nobody]
  /\ chain = [r \in Records |-> NoChain]
  /\ hr = [r \in Records |-> Nobody]
  /\ sheet = [r \in Records |-> NoSheet]
  /\ bonus = [r \in Records |-> 0]
  /\ result = [r \in Records |-> NoResult]
  /\ doc = [r \in Records |-> NoDoc]
  /\ extended = [r \in Records |-> 0]
  /\ done = [r \in Records |-> NobodyDid]
  /\ today = 1

ChainStep(u, r) ==
  \/ \E p \in People : Create(p, r)
  \/ \E s \in Sheets : UpsertScores(u, r, s)
  \/ \E b \in Bonuses : SetSpecialScore(u, r, b)
  \/ Submit(u, r)
  \/ HrApprove(u, r)
  \/ DeputyApprove(u, r)
  \/ CeoFinalize(u, r)
  \/ ReturnRecord(u, r)
  \/ Cancel(u, r)
  \/ \E d \in Until : ExtendWindow(u, r, d)
  \/ HrClaim(u, r)
  \/ \E v \in Users : HrHandover(u, r, v)
  \/ HrComment(u, r)
  \/ \E f \in Seats, v \in Users : Reassign(u, r, f, v)

StaffStep ==
  \/ \E p \in People, row \in NewRows : CommitAccess(p, row)
  \/ \E g \in Grants : ChangeRole(g[1], g[2])
  \/ \E u \in Switchable : Disable(u) \/ Enable(u)
  \/ \E l \in Relinks : LinkAccount(l[1], l[2])
  \/ \E u \in Users, p \in Leavers : Depart(u, p)
  \/ \E p \in Leavers : Rejoin(p)
  \/ \E p \in Movers : MoveUnit(p)
  \/ \E p \in Promotable : ToggleManager(p)

\* What is written and not yet committed.
PendingStep ==
  \/ \E u \in Users, p \in People : InsertRecord(u, p)
  \/ \E p \in People, row \in NewRows : UpsertAccess(p, row)
  \/ \E p \in People : GiveUp(p)

Next == \/ \E u \in Users, r \in Records : ChainStep(u, r)
        \/ StaffStep
        \/ PendingStep
        \/ NextDay

Spec == Init /\ [][Next]_vars
=============================================================================
