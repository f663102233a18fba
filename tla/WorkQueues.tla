----------------------------- MODULE WorkQueues -----------------------------
(***************************************************************************)
(* Who is shown which evaluation, and where: the list with its filters,    *)
(* the page, the export and the document of a record, the cards of the     *)
(* dashboard, the searches of the assistant, the subject's own pages, and  *)
(* the statistics that name the holder of a stage.  Each is a query of its *)
(* own over the tables of the workflow, and none changes anything: what    *)
(* matters is that they say the same of a record that is under way.        *)
(***************************************************************************)
EXTENDS WorkflowProperties

Stored == {r \in Records : status[r] # "none"}

SeatOfRole == [unit_supervisor |-> "us", deputy |-> "dep", ceo |-> "ceo"]

-----------------------------------------------------------------------------
(* The list and the page                                                   *)

\* Fault: HR's list shows everything but one's own.
InScope_Unshielded(u, r, shown) ==
  CASE role[u] = "hr" -> ~IsSubject(u, r)
    [] role[u] \in DOMAIN SeatOfRole -> chain[r][SeatOfRole[role[u]]] = u
    [] role[u] = "employee" -> shown /\ status[r] = "finalized" /\ IsSubject(u, r)
    [] OTHER -> FALSE

\* What a query of records is narrowed to.  An evaluator finds the records of
\* the seat named like their role; shown is the organisation's switch for
\* letting people read their own result.
InScope(u, r, shown) ==
  CASE role[u] = "hr" -> ~Shielded(r) /\ ~IsSubject(u, r)
    [] role[u] \in DOMAIN SeatOfRole -> chain[r][SeatOfRole[role[u]]] = u
    [] role[u] = "employee" -> shown /\ status[r] = "finalized" /\ IsSubject(u, r)
    [] OTHER -> FALSE

\* The filters of the list that are about the course of a record.
OnCeoDesk == {r \in Stored : \/ status[r] = "deputy_approved"
                             \/ status[r] = "hr_approved" /\ chain[r].dep = Nobody}

HeldBy(v) == {r \in Stored : hr[r] = v \/ \E f \in Seats : chain[r][f] = v}

\* An employee's list is empty whatever the switch says.
Listed(u, wanted) ==
  IF role[u] = "employee" THEN {} ELSE {r \in Stored \cap wanted : InScope(u, r, FALSE)}

Exported(u, wanted) == IF role[u] = "hr" THEN Listed(u, wanted) ELSE {}

CanView(u, r) == HrMayHandle(r, u) /\ (role[u] = "hr" \/ \E f \in Seats : chain[r][f] = u)

\* Replying to a comment asks for no more than seeing it.
MayReply(u, r) == CanView(u, r)

MayComment(u, r) ==
  /\ HrMayHandle(r, u)
  /\ CASE role[u] = "hr" -> status[r] = "submitted" /\ hr[r] \in {u, Nobody}
       [] role[u] = "deputy" -> status[r] = "hr_approved" /\ chain[r].dep = u
       [] role[u] = "ceo" -> status[r] = "deputy_approved" /\ chain[r].ceo = u
       [] OTHER -> FALSE

MayDownload(u, r, shown) ==
  /\ IF IsSubject(u, r) THEN shown ELSE CanView(u, r) /\ role[u] = "hr"
  /\ status[r] = "finalized" /\ doc[r] # NoDoc

-----------------------------------------------------------------------------
(* The subject's own pages and the profile of a person                     *)

OwnResults(u, shown) == {r \in Stored : shown /\ IsSubject(u, r) /\ status[r] = "finalized"}

OwnOpen(u) == {r \in Stored : IsSubject(u, r) /\ Open(r)}

\* wide: the account may manage personnel.
CanViewPersonnel(u, p, wide) ==
  \/ role[u] = "hr" \/ wide
  \/ access[p] # NoAccess /\ \E f \in Seats : access[p][f] = u
  \/ \E r \in Stored : subject[r] = p /\ \E f \in Seats : chain[r][f] = u

InProgress(u, p, wide) == {r \in OpenRecordsOf(p) : CanViewPersonnel(u, p, wide)}

-----------------------------------------------------------------------------
(* What awaits somebody                                                    *)

\* The cards "awaiting" of the dashboard, by role.
Awaiting(u) ==
  {r \in Stored :
    CASE role[u] = "unit_supervisor" -> chain[r].us = u /\ status[r] = "draft"
      [] role[u] = "deputy" -> chain[r].dep = u /\ status[r] = "hr_approved"
      [] role[u] = "ceo" -> chain[r].ceo = u /\ status[r] = "deputy_approved"
      [] role[u] = "hr" -> status[r] = "submitted"
      [] OTHER -> FALSE}

\* The assistant's answer to what is on one's desk.
OpenCases(u) ==
  {r \in Stored :
    CASE role[u] = "unit_supervisor" -> chain[r].us = u /\ status[r] = "draft"
      [] role[u] = "hr" -> status[r] = "submitted"
      [] role[u] = "deputy" -> chain[r].dep = u /\ status[r] \in {"hr_approved", "draft"}
      [] role[u] = "ceo" -> chain[r].ceo = u /\ status[r] = "deputy_approved"
      [] role[u] = "employee" -> status[r] = "finalized" /\ IsSubject(u, r)
      [] OTHER -> FALSE}

\* What the assistant finds, and what it is told before anybody asks.
Searched(u, shown) == {r \in Stored : InScope(u, r, shown)}

Told(u, shown) == {r \in Searched(u, shown) : status[r] # "cancelled"}

\* Fault: every draft is the supervisor's and every reviewed record the deputy's.
StageHolder_ByStatus(r) == CASE status[r] = "draft" -> chain[r].us
                             [] status[r] = "submitted" -> hr[r]
                             [] status[r] = "hr_approved" -> chain[r].dep
                             [] status[r] = "deputy_approved" -> chain[r].ceo
                             [] OTHER -> Nobody

\* On whose desk the statistics count a record.
StageHolder(r) ==
  CASE status[r] = "draft" -> chain[r][ScorerSeat(chain[r])]
    [] status[r] = "submitted" -> hr[r]
    [] status[r] = "hr_approved" -> IF chain[r].dep # Nobody THEN chain[r].dep ELSE chain[r].ceo
    [] status[r] = "deputy_approved" -> chain[r].ceo
    [] OTHER -> Nobody

-----------------------------------------------------------------------------

MovesOn(u, r) ==
  \E a \in SubmitActions \cup HrActions \cup ApprovalActions : Permitted(r, a, u)

\* Whatever an account is shown in a list, an export or by the assistant, and
\* whatever it may comment on or move forward, it may open: the conditions of
\* the queries and the guards of the pages never part, whoever was relinked,
\* promoted, moved or seated since (workflow.py:172-175; they parted once, and
\* the list showed a result its page refused).  The one exception is the subject
\* whom an overtaken row has seated: the lists go by the seat, the pages do not.
ShownCanBeOpened ==
  \A u \in Users, r \in Stored :
    /\ active[u]
    /\ IsSubject(u, r) => SeatsExclude(chain[r], subject[r])
    /\ \/ r \in Listed(u, Stored)
       \/ r \in Told(u, TRUE) /\ role[u] # "employee"
       \/ MayComment(u, r)
       \/ MovesOn(u, r)
    => CanView(u, r)

\* Whoever may move an open record forward is who the statistics say holds it,
\* and they name somebody on every chain, the HR queue excepted, which is
\* everybody's until one of HR takes the record (stage_stats._owner_field_for;
\* two shapes of chain had no holder once).
HolderMovesItOn ==
  \A r \in Stored : Open(r) =>
    /\ StageHolder(r) = Nobody => status[r] = "submitted"
    /\ \A u \in Users : MovesOn(u, r) => StageHolder(r) \in {u, Nobody}
=============================================================================
