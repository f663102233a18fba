--------------------------- MODULE AssistantTools ---------------------------
(***************************************************************************)
(* The tools of the assistant (services/ai/tools): for one signed-in       *)
(* person, what a tool of the registry asks before it runs, against what   *)
(* the router of the same operation asks.  A tool calls the function of    *)
(* the endpoint and not HTTP, so the Depends of the route is skipped and   *)
(* the tool's own declaration and body stand in for it.                    *)
(*                                                                         *)
(* The tools work on one person of the staff: the chain HR wrote for them  *)
(* and their latest evaluation.  What an endpoint does besides is the      *)
(* matter of EvaluationWorkflow, Administration, ScoringRules,             *)
(* ImprovementPlans, Directory and RecordTransactions, and the statements  *)
(* of a confirmation are the matter of PendingAction.                      *)
(***************************************************************************)
EXTENDS Chain

CONSTANTS
    Me,        \* the account the assistant works for
    Colleague, \* another user of HR
    ChainRows, \* the chains upsert_access accepts for the person
    Rights,    \* [role, caps]: what an administrator may make of Me
    Switches,  \* the modules somebody may switch
    NoRow, NoCard, NoRun

VARIABLES
    me,        \* users.role and user_capabilities of Me
    own,       \* Me is linked to the person
    writes,    \* allow_write_actions, of the settings and of the access of Me
    off,       \* module_settings that are switched off
    employed,  \* personnel.status
    access,    \* evaluation_access of the person
    record,    \* their latest evaluation: status, chain and owner of the HR stage
    card,      \* the pending proposal of the conversation
    ran        \* what the last step executed, if it executed a card

toolsVars == <<me, own, writes, off, employed, access, record, card, ran>>

NoSeats == [us |-> Nobody, dep |-> Nobody, ceo |-> Nobody]
NoRecord == [status |-> "none", hr |-> Nobody, chain |-> NoSeats, skip |-> FALSE]

ToolsInit ==
    /\ me \in Rights
    /\ own \in BOOLEAN
    /\ writes = TRUE
    /\ off = {}
    /\ employed = TRUE
    /\ access \in ChainRows \cup {NoRow}
    /\ record = NoRecord
    /\ card = NoCard
    /\ ran = NoRun

\* The record as the operators of Chain want it.
ChainOf(r) == [us |-> r.chain.us, dep |-> r.chain.dep, ceo |-> r.chain.ceo, skip |-> r.skip]
HasOpenRecord == record.status \in OpenStatuses

----------------------------------------------------------------------------
(* The registry: every tool that changes something, and what it declares   *)

PersonnelTools == {"create_personnel", "update_personnel", "separate_personnel"}
UploadTools == {"patch_upload_rows", "import_personnel"}
UnitTools == {"create_org_unit"}
ChainTools == {"set_evaluation_access"}
InviteTools == {"invite_self_assessment"}
AccountTools == {"create_user", "update_user"}
RightsTools == {"grant_capabilities"}
IndicatorTools == {"create_indicator", "update_indicator"}
SchemeTools == {"create_scoring_scheme_draft", "activate_scoring_scheme"}
PeriodTools == {"create_period", "run_bulk_evaluations"}
PlanTools == {"create_improvement_plan"}
GoalTools == {"update_improvement_plan_goal"}

\* advance_evaluation, one per value of its action.
AdvanceTools == {"submit", "hr_approve", "deputy_approve", "ceo_finalize",
                 "return", "cancel", "hr_claim"}

\* Declared as guarded by their own bodies.
InlineTools == AdvanceTools \cup {"create_evaluation", "add_evaluation_comment"}

StaffTools == PersonnelTools \cup UploadTools \cup UnitTools \cup ChainTools \cup InviteTools

Tools == InlineTools \cup StaffTools \cup AccountTools \cup RightsTools \cup IndicatorTools
           \cup SchemeTools \cup PeriodTools \cup PlanTools \cup GoalTools

Capabilities(t) ==
    CASE t \in StaffTools -> {"manage_personnel"}
      [] t \in AccountTools -> {"manage_users"}
      [] t \in RightsTools -> {"manage_capabilities"}
      [] t \in IndicatorTools \cup SchemeTools -> {"manage_scoring"}
      [] OTHER -> {}

RolesOf(t) ==
    CASE t \in StaffTools \cup PeriodTools \cup PlanTools -> {"hr"}
      [] t \in GoalTools -> {"hr", "unit_supervisor", "deputy", "ceo"}
      [] OTHER -> {}

\* Any of the capabilities or any of the roles; a tool that declares neither
\* and is not marked as guarded by its body is nobody's.
IsAllowed(t) ==
    \/ t \in InlineTools
    \/ Capabilities(t) \cap me.caps # {}
    \/ me.role \in RolesOf(t)

\* Fault: nobody asks who takes a record out of the HR queue.
MayAdvance_NoClaim(t) ==
    CASE t = "submit" -> MayActAt(me.role, "unit_supervisor")
      [] t = "deputy_approve" -> MayActAt(me.role, "deputy")
      [] t = "ceo_finalize" -> MayActAt(me.role, "ceo")
      [] t = "hr_approve" -> me.role = "hr"
      [] t = "hr_claim" -> TRUE
      [] t \in {"return", "cancel"} -> me.role \in {"hr", "deputy", "ceo"}

\* The table of advance_evaluation: the role guard of each endpoint again.
MayAdvance(t) ==
    CASE t = "submit" -> MayActAt(me.role, "unit_supervisor")
      [] t = "deputy_approve" -> MayActAt(me.role, "deputy")
      [] t = "ceo_finalize" -> MayActAt(me.role, "ceo")
      [] t \in {"hr_approve", "hr_claim"} -> me.role = "hr"
      [] t \in {"return", "cancel"} -> me.role \in {"hr", "deputy", "ceo"}

\* The module whose switch the body of the endpoint asks for.
ModuleOf(t) == CASE t \in PeriodTools -> {"periods"}
                 [] t \in PlanTools -> {"improvement_plans"}
                 [] t \in InviteTools -> {"self_assessment"}
                 [] OTHER -> {}

ModuleOn(t) == ModuleOf(t) \cap off = {}

\* HR reads no open record of its own unit, and nobody decides on their own.
MayHandle == ~own /\ (me.role = "hr" => ~(record.skip /\ HasOpenRecord))

\* The one who scores the person opens the evaluation.
MayOpen ==
    /\ employed /\ access # NoRow /\ ~HasOpenRecord
    /\ LET seat == ScorerSeat(access)
       IN  MayActAt(me.role, SeatRole[seat]) /\ access[seat] = Me

\* What the route of the screen asks of the user before its body is entered.
RouteAdmits(t) ==
    CASE t \in StaffTools -> me.role = "hr" \/ "manage_personnel" \in me.caps
      [] t \in AccountTools -> "manage_users" \in me.caps
      [] t \in RightsTools -> "manage_capabilities" \in me.caps
      [] t \in IndicatorTools \cup SchemeTools -> "manage_scoring" \in me.caps
      [] t \in PeriodTools \cup PlanTools -> me.role = "hr"
      [] t \in GoalTools -> me.role \in {"hr", "unit_supervisor", "deputy", "ceo"}
      [] t \in {"submit", "create_evaluation"} -> MayActAt(me.role, "unit_supervisor")
      [] t = "deputy_approve" -> MayActAt(me.role, "deputy")
      [] t = "ceo_finalize" -> MayActAt(me.role, "ceo")
      [] t \in {"hr_approve", "hr_claim"} -> me.role = "hr"
      [] t \in {"return", "cancel"} -> me.role \in {"hr", "deputy", "ceo"}
      [] t = "add_evaluation_comment" -> TRUE

----------------------------------------------------------------------------
(* A change is proposed as a card and runs when its owner confirms it      *)

NothingNamed == [us |-> Nobody, dep |-> Nobody, ceo |-> Nobody]

\* What the model may ask for: a whole chain, or only some of its seats.
ChainRequests ==
    {NothingNamed} \cup ChainRows \cup
        {[row EXCEPT ![f] = Nobody] : row \in ChainRows, f \in Seats}

\* The model calls a tool that changes something: it is not run, a card is made.
ProposeCard(t) ==
    /\ card = NoCard /\ writes /\ IsAllowed(t)
    /\ \E asked \in IF t \in ChainTools THEN ChainRequests ELSE {NothingNamed} :
         card' = [tool |-> t, asked |-> asked]
    /\ ran' = NoRun
    /\ UNCHANGED <<me, own, writes, off, employed, access, record>>

Advancing(t) ==
    CASE t = "submit" -> {SubmitActionFor(ChainOf(record))}
      [] t = "hr_approve" -> {HrActionFor(ChainOf(record))}
      [] t \in ApprovalActions -> {t}
      [] t = "return" -> ReturnActions
      [] t = "cancel" -> IF me.role = "hr" THEN {"cancel"}
                         ELSE IF me.role = "ceo" \/ record.chain.dep = Me THEN {"cancel_hr_subject"} ELSE {}

\* An action of the HR stage claims the record.
Moved(a, owner) ==
    [record EXCEPT !.status = Transition(a).to,
                   !.hr = IF a \in HrActions \cup {"hr_return"} THEN owner ELSE @]

\* The endpoint moves the record.
AdvanceRecord(t) ==
    \E a \in Advancing(t) :
      /\ Available(a, ChainOf(record), record.hr, record.status, Me, me.role)
      /\ record' = Moved(a, Me)

SetChain ==
    /\ card.asked \in ChainRows
    /\ access' = card.asked
    /\ UNCHANGED <<employed, record>>

\* The open record of somebody who leaves is cancelled with them.
Separate ==
    /\ HasOpenRecord =>
         /\ ~own
         /\ Available("cancel_on_separation", ChainOf(record), record.hr, record.status, Me, me.role)
    /\ employed' = FALSE
    /\ record' = IF HasOpenRecord THEN [record EXCEPT !.status = "cancelled"] ELSE record
    /\ UNCHANGED access

NewRecord(skip) == [status |-> "draft", hr |-> Nobody, chain |-> access, skip |-> skip]

OpenEvaluation ==
    /\ MayOpen
    /\ \E skip \in BOOLEAN : record' = NewRecord(skip)
    /\ UNCHANGED <<employed, access>>

ClaimStage ==
    /\ MayHandle /\ HasOpenRecord /\ record.hr = Nobody
    /\ record' = [record EXCEPT !.hr = Me]
    /\ UNCHANGED <<employed, access>>

\* What the call of the endpoint's function writes.
Runs(t) ==
    CASE t \in ChainTools -> SetChain
      [] t = "separate_personnel" -> Separate
      [] t = "create_evaluation" -> OpenEvaluation
      [] t = "hr_claim" -> ClaimStage
      [] t \in AdvanceTools \ {"hr_claim"} ->
           MayHandle /\ AdvanceRecord(t) /\ UNCHANGED <<employed, access>>
      [] OTHER -> UNCHANGED <<employed, access, record>>

\* confirm and execute_tool: the switch and the declaration are asked again,
\* the body asks what it asks, and the endpoint does the rest.
Confirm ==
    /\ card # NoCard /\ writes /\ IsAllowed(card.tool)
    /\ card.tool \in AdvanceTools => MayAdvance(card.tool)
    /\ ModuleOn(card.tool)
    /\ Runs(card.tool)
    /\ ran' = card
    /\ card' = NoCard
    /\ UNCHANGED <<me, own, writes, off>>

\* The card is refused, fails or expires, and nothing is written.
Discard ==
    /\ card # NoCard
    /\ card' = NoCard /\ ran' = NoRun
    /\ UNCHANGED <<me, own, writes, off, employed, access, record>>

----------------------------------------------------------------------------
(* What the screens do meanwhile                                           *)

Elsewhere(changed) == card' = card /\ ran' = NoRun /\ own' = own /\ changed

GiveRights ==
    Elsewhere(/\ me' \in Rights
              /\ UNCHANGED <<writes, off, employed, access, record>>)

SwitchWrites ==
    Elsewhere(/\ writes' = ~writes
              /\ UNCHANGED <<me, off, employed, access, record>>)

ToggleModule ==
    Elsewhere(/\ \E m \in Switches : off' = IF m \in off THEN off \ {m} ELSE off \cup {m}
              /\ UNCHANGED <<me, writes, employed, access, record>>)

\* HR writes the chain, or the person returns to work.
EditPerson ==
    Elsewhere(/\ \/ access' \in ChainRows /\ UNCHANGED employed
                 \/ ~employed /\ employed' = TRUE /\ UNCHANGED access
              /\ UNCHANGED <<me, writes, off, record>>)

\* Somebody opens the evaluation, or passes, returns or cancels it.
MoveRecord ==
    Elsewhere(/\ \/ /\ employed /\ access # NoRow /\ ~HasOpenRecord
                    /\ \E skip \in BOOLEAN : record' = NewRecord(skip)
                 \/ \E a \in Actions :
                      /\ record.status \in Transition(a).from
                      /\ Guard(a, ChainOf(record), record.status)
                      /\ record' = Moved(a, Colleague)
              /\ UNCHANGED <<me, writes, off, employed, access>>)

ToolsNext ==
    \/ \E t \in Tools : ProposeCard(t)
    \/ Confirm \/ Discard
    \/ GiveRights \/ SwitchWrites \/ ToggleModule
    \/ EditPerson \/ MoveRecord

ToolsSpec == ToolsInit /\ [][ToolsNext]_toolsVars

----------------------------------------------------------------------------

\* A tool never does for a user what the screen would have refused them
\* (people.py:3-7): whatever became of their role, their capabilities and the
\* modules between the proposal and the confirmation, a card that ran is one
\* whose route admits the user at that moment (is_allowed, execute_tool, the
\* table of advance_evaluation and the guards inside the endpoints).
NoWiderThanTheScreen ==
    ran # NoRun => RouteAdmits(ran.tool) /\ ModuleOn(ran.tool)
=============================================================================
