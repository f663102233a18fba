--------------------------- MODULE ResultResponse ---------------------------
(***************************************************************************)
(* The voice of the person evaluated, composed with the workflow: the      *)
(* self-assessment before scoring is settled, the acknowledgement of the   *)
(* result, the objection to it and its answer (api/routers/me.py and       *)
(* resolve_objection).  All of it runs beside the workflow and changes     *)
(* nothing in it, while the administration goes on changing accounts,      *)
(* seats and the switches of the optional modules.                         *)
(***************************************************************************)
EXTENDS EvaluationWorkflow

CONSTANTS Switches,       \* the modules an administrator may turn on and off
          ObjectionDays   \* settings.objection_window_days

ASSUME ResponseAssumption == ObjectionDays \in Nat

Modules == {"self_assessment", "employee_evaluation_visibility",
            "employee_result_acknowledgement", "objections"}

VARIABLES modules,        \* the switches that are on
          selfAssessed,   \* per record: has the subject assessed themselves
          acknowledged,   \* day the result was acknowledged, 0 if not yet
          objected,       \* day of the objection, 0 if none
          resolvedBy      \* who answered it

responses == <<selfAssessed, acknowledged, objected, resolvedBy>>
allVars == <<vars, modules, responses>>

\* The two channels about a result are pointless while results are hidden.
Requires(m) == IF m \in {"employee_result_acknowledgement", "objections"}
               THEN {"employee_evaluation_visibility"} ELSE {}

ModuleOn(m) == m \in modules /\ Requires(m) \subseteq modules

\* u asks about their own evaluation; support staff have none.
OwnRecord(u, r) == active[u] /\ role[u] # "support" /\ IsSubject(u, r)

SelfAssessmentOpen(r) == status[r] = "draft" /\ WindowOpen(r)

SubmitSelfAssessment(u, r) ==
  /\ ModuleOn("self_assessment")
  /\ OwnRecord(u, r)
  /\ role[u] \notin {"ceo", "deputy"}
  /\ SelfAssessmentOpen(r)
  /\ ~selfAssessed[r]
  /\ selfAssessed' = [selfAssessed EXCEPT ![r] = TRUE]
  /\ UNCHANGED <<vars, modules, acknowledged, objected, resolvedBy>>

SeenOn(u) == today

Acknowledge(u, r) ==
  /\ ModuleOn("employee_result_acknowledgement")
  /\ OwnRecord(u, r)
  /\ status[r] = "finalized" /\ RowStands(r)
  /\ acknowledged[r] = 0
  /\ acknowledged' = [acknowledged EXCEPT ![r] = SeenOn(u)]
  /\ UNCHANGED <<vars, modules, selfAssessed, objected, resolvedBy>>

\* Fault: an objection may be filed again, over the one that was answered.
MayObject_Again(r) == acknowledged[r] # 0 /\ today <= acknowledged[r] + ObjectionDays

MayObject(r) == /\ acknowledged[r] # 0
                /\ objected[r] = 0
                /\ today <= acknowledged[r] + ObjectionDays

FileObjection(u, r) ==
  /\ ModuleOn("objections")
  /\ OwnRecord(u, r)
  /\ status[r] = "finalized" /\ RowStands(r)
  /\ MayObject(r)
  /\ objected' = [objected EXCEPT ![r] = today]
  /\ UNCHANGED <<vars, modules, selfAssessed, acknowledged, resolvedBy>>

\* Fault: the answer always falls to HR.
MayResolve_HrAlways(u, r) == active[u] /\ role[u] = "hr" /\ HrMayHandle(r, u)

\* Who may answer: HR, or the seat above the scorer for a record of the HR unit.
MayResolve(u, r) ==
  LET seat == ObjectionResolver(chain[r])
  IN  /\ active[u]
      /\ HrMayHandle(r, u)
      /\ IF seat = "hr" THEN role[u] = "hr"
         ELSE chain[r][seat] = u /\ MayActAt(role[u], SeatRole[seat])

ResolveObjection(u, r) ==
  /\ ModuleOn("objections")
  /\ MayResolve(u, r) /\ RowStands(r)
  /\ objected[r] # 0 /\ resolvedBy[r] = Nobody
  /\ resolvedBy' = [resolvedBy EXCEPT ![r] = u]
  /\ UNCHANGED <<vars, modules, selfAssessed, acknowledged, objected>>

\* A switch stays where it is put, whatever the modules it depends on.
ToggleModule(m) ==
  /\ modules' = IF m \in modules THEN modules \ {m} ELSE modules \cup {m}
  /\ UNCHANGED <<vars, responses>>

ResponseInit ==
  /\ Init
  /\ modules = {"self_assessment"}
  /\ selfAssessed = [r \in Records |-> FALSE]
  /\ acknowledged = [r \in Records |-> 0]
  /\ objected = [r \in Records |-> 0]
  /\ resolvedBy = [r \in Records |-> Nobody]

ResponseNext ==
  \/ Next /\ UNCHANGED <<modules, responses>>
  \/ \E u \in Users, r \in Records : \/ SubmitSelfAssessment(u, r)
                                     \/ Acknowledge(u, r)
                                     \/ FileObjection(u, r)
                                     \/ ResolveObjection(u, r)
  \/ \E m \in Switches : ToggleModule(m)

ResponseSpec == ResponseInit /\ [][ResponseNext]_allVars

-----------------------------------------------------------------------------

\* What was said on the record is not replaced: an answered objection stays the
\* objection that was answered (file_objection refuses a second one).
AnswerStaysWithItsObjection ==
  [][\A r \in Records : resolvedBy[r] # Nobody =>
        objected'[r] = objected[r] /\ resolvedBy'[r] = resolvedBy[r]]_allVars

\* Nobody judges an objection against their own file or that of their own unit:
\* the answer on a record of the HR unit never comes from HR, nor any answer
\* from an account linked to the subject (_ensure_can_resolve_objection).
JudgeIsNotParty ==
  [][\A r \in Records, u \in Users : resolvedBy[r] = Nobody /\ resolvedBy'[r] = u =>
        /\ link[u] # subject[r]
        /\ chain[r].skip => role[u] # "hr"]_allVars
============================================================================
