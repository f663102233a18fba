------------------------------- MODULE Chain -------------------------------
(***************************************************************************)
(* The shape of an evaluation chain and the table of legal status          *)
(* transitions (models/chain.py and services/workflow.py).  Nothing here   *)
(* has state: a chain is a record                                          *)
(*                                                                         *)
(*    [us |-> ..., dep |-> ..., ceo |-> ..., skip |-> ...]                 *)
(*                                                                         *)
(* with the three seats of an evaluation record (unit supervisor, deputy,  *)
(* CEO; Nobody is SQL NULL) and the stamp hr_review_skipped.  The owner of *)
(* the HR stage is passed beside it, because that seat starts empty.       *)
(***************************************************************************)
EXTENDS Naturals

CONSTANT Nobody   \* a seat that is NULL, an account linked to no personnel

Roles == {"employee", "support", "unit_supervisor", "deputy", "ceo", "hr"}

Seats == {"us", "dep", "ceo"}

\* Fault: "open" read as "not finalized", which counts cancelled records in.
OpenStatuses_NotFinalized == {"draft", "submitted", "hr_approved", "deputy_approved", "cancelled"}

OpenStatuses == {"draft", "submitted", "hr_approved", "deputy_approved"}

Statuses == OpenStatuses \cup {"finalized", "cancelled"}

SeatRole == [us |-> "unit_supervisor", dep |-> "deputy", ceo |-> "ceo"]

Rank(role) == CASE role = "unit_supervisor" -> 1
                [] role = "deputy" -> 2
                [] role = "ceo" -> 3
                [] OTHER -> 0

\* A superior may do the work of a lower stage; HR is no rung of the ladder.
MayActAt(userRole, stageRole) ==
  IF stageRole = "hr" THEN userRole = "hr"
  ELSE /\ Rank(userRole) > 0
       /\ Rank(stageRole) > 0
       /\ Rank(userRole) >= Rank(stageRole)

-----------------------------------------------------------------------------
(* Shapes of a chain *)

IsManagerPath(c) == c.us = Nobody

IsCeoOnlyPath(c) == c.us = Nobody /\ c.dep = Nobody

SkipsDeputy(c) == c.dep = Nobody

HrFinalizes(c) == c.us = Nobody /\ c.dep = Nobody /\ ~c.skip

\* The chain empties from below: the first filled seat scores.
ScorerSeat(c) == IF c.us # Nobody THEN "us"
                 ELSE IF c.dep # Nobody THEN "dep" ELSE "ceo"

\* One person in two seats that could be expressed by leaving one empty.
Redundant(c) == \/ c.us # Nobody /\ c.us = c.dep
                \/ c.dep # Nobody /\ c.dep = c.ceo

-----------------------------------------------------------------------------
(* The transition table: from, to, the role of the stage and the seat that *)
(* must be held ("none" when any user with the role may act).              *)

T(from, to, role, seat) == [from |-> from, to |-> to, role |-> role, seat |-> seat]

SubmitActions == {"submit", "submit_hr_subject", "manager_submit",
                  "manager_submit_hr_subject", "ceo_submit", "ceo_submit_hr_subject"}

SubmitTransition(a) ==
  CASE a = "submit" -> T({"draft"}, "submitted", "unit_supervisor", "us")
    [] a = "submit_hr_subject" -> T({"draft"}, "hr_approved", "unit_supervisor", "us")
    [] a = "manager_submit" -> T({"draft"}, "submitted", "deputy", "dep")
    [] a = "manager_submit_hr_subject" -> T({"draft"}, "deputy_approved", "deputy", "dep")
    [] a = "ceo_submit" -> T({"draft"}, "submitted", "ceo", "ceo")
    [] a = "ceo_submit_hr_subject" -> T({"draft"}, "deputy_approved", "ceo", "ceo")

SubmitGuard(a, c) ==
  CASE a = "submit" -> ~IsManagerPath(c) /\ ~c.skip
    [] a = "submit_hr_subject" -> ~IsManagerPath(c) /\ c.skip
    [] a = "manager_submit" -> IsManagerPath(c) /\ ~IsCeoOnlyPath(c) /\ ~c.skip
    [] a = "manager_submit_hr_subject" -> IsManagerPath(c) /\ ~IsCeoOnlyPath(c) /\ c.skip
    [] a = "ceo_submit" -> IsCeoOnlyPath(c) /\ ~c.skip
    [] a = "ceo_submit_hr_subject" -> IsCeoOnlyPath(c) /\ c.skip

HrActions == {"hr_approve", "hr_finalize_direct_ceo", "hr_approve_manager"}

HrTransition(a) ==
  CASE a = "hr_approve" -> T({"submitted"}, "hr_approved", "hr", "hr")
    [] a = "hr_finalize_direct_ceo" -> T({"submitted"}, "finalized", "hr", "hr")
    [] a = "hr_approve_manager" -> T({"submitted"}, "deputy_approved", "hr", "hr")

HrGuard(a, c) ==
  CASE a = "hr_approve" -> ~IsManagerPath(c) /\ ~c.skip
    [] a = "hr_finalize_direct_ceo" -> HrFinalizes(c)
    [] a = "hr_approve_manager" -> IsManagerPath(c) /\ ~c.skip /\ ~HrFinalizes(c)

ApprovalActions == {"deputy_approve", "ceo_finalize"}

ApprovalTransition(a) ==
  CASE a = "deputy_approve" -> T({"hr_approved"}, "deputy_approved", "deputy", "dep")
    [] a = "ceo_finalize" -> T({"deputy_approved", "hr_approved"}, "finalized", "ceo", "ceo")

\* Fault: the CEO takes a record from hr_approved past a deputy.
CeoFinalizeGuard_PastDeputy(c, s) == TRUE

\* The CEO may take a record from hr_approved only when no deputy sits between.
CeoFinalizeGuard(c, s) == s # "hr_approved" \/ c.dep = Nobody

ApprovalGuard(a, c, s) ==
  CASE a = "deputy_approve" -> TRUE
    [] a = "ceo_finalize" -> CeoFinalizeGuard(c, s)

ReturnOrder ==
  << "hr_return", "deputy_return", "deputy_return_hr_subject", "ceo_return",
     "ceo_return_manager", "ceo_return_manager_hr_subject", "ceo_return_ceo_only",
     "ceo_return_no_deputy", "ceo_return_no_deputy_hr_subject" >>

ReturnActions == {ReturnOrder[i] : i \in 1 .. 9}

\* Fault: the deputy returns a record of the HR unit to the HR queue too.
DeputyReturnTo_Queue(a) == "submitted"

DeputyReturnTo(a) == IF a = "deputy_return_hr_subject" THEN "draft" ELSE "submitted"

ReturnTransition(a) ==
  CASE a = "hr_return" -> T({"submitted"}, "draft", "hr", "hr")
    [] a = "deputy_return" -> T({"hr_approved"}, DeputyReturnTo(a), "deputy", "dep")
    [] a = "deputy_return_hr_subject" -> T({"hr_approved"}, DeputyReturnTo(a), "deputy", "dep")
    [] a = "ceo_return" -> T({"deputy_approved"}, "hr_approved", "ceo", "ceo")
    [] a = "ceo_return_manager" -> T({"deputy_approved"}, "submitted", "ceo", "ceo")
    [] a = "ceo_return_manager_hr_subject" -> T({"deputy_approved"}, "draft", "ceo", "ceo")
    [] a = "ceo_return_ceo_only" -> T({"deputy_approved", "submitted"}, "draft", "ceo", "ceo")
    [] a = "ceo_return_no_deputy" -> T({"hr_approved"}, "submitted", "ceo", "ceo")
    [] a = "ceo_return_no_deputy_hr_subject" -> T({"hr_approved"}, "draft", "ceo", "ceo")

\* The manager path proper: the deputy scores.
DeputyScores(c) == IsManagerPath(c) /\ ~IsCeoOnlyPath(c)

ReturnGuard(a, c) ==
  CASE a = "hr_return" -> ~c.skip
    [] a = "deputy_return" -> ~c.skip
    [] a = "deputy_return_hr_subject" -> c.skip
    [] a = "ceo_return" -> ~IsManagerPath(c)
    [] a = "ceo_return_manager" -> DeputyScores(c) /\ ~c.skip
    [] a = "ceo_return_manager_hr_subject" -> DeputyScores(c) /\ c.skip
    [] a = "ceo_return_ceo_only" -> IsCeoOnlyPath(c)
    [] a = "ceo_return_no_deputy" -> SkipsDeputy(c) /\ ~IsManagerPath(c) /\ ~c.skip
    [] a = "ceo_return_no_deputy_hr_subject" -> SkipsDeputy(c) /\ ~IsManagerPath(c) /\ c.skip

CancelActions == {"cancel", "cancel_on_separation", "cancel_hr_subject"}

\* Fault: cancelling is possible from every status but its own.
CancelTransition_AnyStatus(a) ==
  T(Statuses \ {"cancelled"}, "cancelled",
    IF a = "cancel_hr_subject" THEN "deputy" ELSE "hr", "none")

CancelTransition(a) ==
  CASE a = "cancel" -> T(OpenStatuses, "cancelled", "hr", "none")
    [] a = "cancel_on_separation" -> T(OpenStatuses, "cancelled", "hr", "none")
    [] a = "cancel_hr_subject" -> T(OpenStatuses, "cancelled", "deputy", "none")

CancelGuard(a, c) == a = "cancel_hr_subject" => c.skip

Actions == SubmitActions \cup HrActions \cup ApprovalActions
             \cup ReturnActions \cup CancelActions

Transition(a) == CASE a \in SubmitActions -> SubmitTransition(a)
                   [] a \in HrActions -> HrTransition(a)
                   [] a \in ApprovalActions -> ApprovalTransition(a)
                   [] a \in ReturnActions -> ReturnTransition(a)
                   [] a \in CancelActions -> CancelTransition(a)

Guard(a, c, s) == CASE a \in SubmitActions -> SubmitGuard(a, c)
                    [] a \in HrActions -> HrGuard(a, c)
                    [] a \in ApprovalActions -> ApprovalGuard(a, c, s)
                    [] a \in ReturnActions -> ReturnGuard(a, c)
                    [] a \in CancelActions -> CancelGuard(a, c)

-----------------------------------------------------------------------------
(* Is transition a possible now, for user u acting in userRole, on a record *)
(* in status s with chain c and HR owner h?                                 *)

\* Who holds the seat a transition is bound to; the HR stage starts unowned
\* and any HR user may then act.
HoldsSeat(a, c, h, u) ==
  LET seat == Transition(a).seat
  IN  CASE seat = "none" -> TRUE
        [] seat = "hr" -> h = Nobody \/ h = u
        [] OTHER -> c[seat] = u

Available(a, c, h, s, u, userRole) ==
  /\ s \in Transition(a).from
  /\ MayActAt(userRole, Transition(a).role)
  /\ Guard(a, c, s)
  /\ HoldsSeat(a, c, h, u)

SubmitActionFor(c) ==
  IF IsCeoOnlyPath(c) THEN IF c.skip THEN "ceo_submit_hr_subject" ELSE "ceo_submit"
  ELSE IF IsManagerPath(c) THEN IF c.skip THEN "manager_submit_hr_subject" ELSE "manager_submit"
  ELSE IF c.skip THEN "submit_hr_subject" ELSE "submit"

HrActionFor(c) == IF HrFinalizes(c) THEN "hr_finalize_direct_ceo"
                  ELSE IF IsManagerPath(c) THEN "hr_approve_manager" ELSE "hr_approve"

-----------------------------------------------------------------------------
(* The final document *)

FinalApprover(c, h) == IF HrFinalizes(c) THEN h ELSE c.ceo

SingleDecider(c, h) == c[ScorerSeat(c)] # Nobody /\ c[ScorerSeat(c)] = FinalApprover(c, h)

\* One row per person in a seat, naming all the seats held, and a row for HR
\* unless the record has no HR stage.  The order of the rows is left out.
Signatories(c, h) ==
  {[user |-> u, seats |-> {f \in Seats : c[f] = u}] :
      u \in {c[f] : f \in Seats} \ {Nobody}}
  \cup (IF c.skip THEN {} ELSE {[user |-> h, seats |-> {"hr"}]})

\* Who must answer an objection: the seat, or "hr" for the HR unit as a whole.
ObjectionResolver(c) == IF ~c.skip THEN "hr"
                        ELSE IF IsManagerPath(c) \/ SkipsDeputy(c) THEN "ceo" ELSE "dep"
=============================================================================
