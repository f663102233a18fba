-------------------------- MODULE ImprovementPlans --------------------------
(***************************************************************************)
(* The improvement plans that follow a finalized evaluation: who may open  *)
(* one, the goals and their ticks, the follow-up owner, and the two ways a *)
(* plan is closed.  (Its reminders are in Reminders.)                      *)
(*                                                                         *)
(* A request is two steps: it reads (and, for the requests that close a    *)
(* plan or change its goals, takes the lock of the row), then it writes    *)
(* and commits.  The general edit takes no lock.                           *)
(***************************************************************************)
EXTENDS Naturals, FiniteSets

CONSTANTS Requests,
          Accounts, RoleOf(_),  \* hr, unit_supervisor, deputy, ceo, employee
          Records,              \* finalized evaluations
          LowScore,             \* those below the ceiling of their own rules
          Shielded(_, _),       \* an hr account the record is shielded from
          Goals,                \* goals a plan may get
          NoOwner

PlanAssumption == NoOwner \notin Accounts /\ LowScore \subseteq Records

Hr == {a \in Accounts : RoleOf(a) = "hr"}
PlanRoles == {"hr", "unit_supervisor", "deputy", "ceo"}

VARIABLES plan,     \* record -> its plan, or NoPlan
          activeAccounts,   \* the accounts that are active
          enabled,  \* the switch of the module
          request   \* what each request is at

plansVars == <<plan, activeAccounts, enabled, request>>

NoPlan == [status |-> "none", owner |-> NoOwner, goals |-> [g \in Goals |-> "none"]]
IdleRequest == [pc |-> "idle", op |-> "none", of |-> NoOwner, goal |-> NoOwner,
         owner |-> NoOwner, previous |-> NoOwner, holds |-> FALSE]

PlansInit ==
        /\ plan = [r \in Records |-> NoPlan]
        /\ activeAccounts = Accounts
        /\ enabled \in BOOLEAN
        /\ request = [q \in Requests |-> IdleRequest]

Exists(r) == plan[r].status # "none"
IsOpen(r) == plan[r].status = "open"

\* Fault: the plan is read without its lock.
Free_Always(r) == TRUE

\* The lock of the plan's row is free.
Free(r) == \A q \in Requests : ~(request[q].holds /\ request[q].of = r)

\* ------------------------------------------------------------------ guards

\* The owner a payload names must be an active account; its role is not asked.
OwnerIsValid(o) == o \in activeAccounts \union {NoOwner}

\* The hr people see every plan, the others the plans they follow up.
MayView(a, r) == RoleOf(a) \in PlanRoles /\ (a \in Hr \/ plan[r].owner = a)

End(q) == request' = [request EXCEPT ![q] = IdleRequest]

\* ---------------------------------------------------------------- creation

BeginCreate(q) ==
    /\ enabled
    /\ \E a \in Hr, r \in LowScore, o \in Accounts \union {NoOwner} :
        /\ ~Shielded(a, r) /\ OwnerIsValid(o)
        /\ request[q].pc = "idle" /\ a \in activeAccounts
        /\ request' = [request EXCEPT ![q] = [IdleRequest EXCEPT !.pc = "begun", !.op = "create",
                                              !.of = r, !.owner = o]]
    /\ UNCHANGED <<plan, activeAccounts, enabled>>

\* The unique index lets one plan in; the other request is answered 409.
FinishCreate(q) ==
    /\ request[q].pc = "begun" /\ request[q].op = "create"
    /\ LET r == request[q].of
           o == request[q].owner
       IN IF Exists(r)
            THEN UNCHANGED plan
            ELSE \E gs \in SUBSET Goals :
                    plan' = [plan EXCEPT ![r] =
                                 [status |-> "open", owner |-> o,
                                  goals |-> [g \in Goals |-> IF g \in gs THEN "set" ELSE "none"]]]
    /\ End(q)
    /\ UNCHANGED <<activeAccounts, enabled>>

\* ---------------------------------------------------------------- the edit

\* Title, dates, summary, follow-up and owner (only the last is kept here): no
\* lock, and no question whether the plan is still open.
BeginUpdate(q) ==
    /\ \E a \in Hr, r \in Records, o \in Accounts \union {NoOwner} :
        /\ Exists(r) /\ OwnerIsValid(o)
        /\ request[q].pc = "idle" /\ a \in activeAccounts
        /\ request' = [request EXCEPT ![q] = [IdleRequest EXCEPT !.pc = "begun", !.op = "update",
                         !.of = r, !.owner = o, !.previous = plan[r].owner]]
    /\ UNCHANGED <<plan, activeAccounts, enabled>>

\* A column is written when it differs from what was read.
FinishUpdate(q) ==
    /\ request[q].pc = "begun" /\ request[q].op = "update" /\ Free(request[q].of)
    /\ plan' = IF request[q].owner = request[q].previous THEN plan
               ELSE [plan EXCEPT ![request[q].of].owner = request[q].owner]
    /\ End(q)
    /\ UNCHANGED <<activeAccounts, enabled>>

\* ------------------------------------------------- closing, and the goals

Closings == {"complete", "cancel"}
GoalOps == {"add", "tick", "reword", "delete"}

\* complete and cancel, add and delete are for hr; the owner may tick.
MayAsk(a, op, r) == IF op = "tick" THEN MayView(a, r) ELSE a \in Hr

\* The lock is taken with the read; the goal was looked up just before it.
BeginLocked(q) ==
    /\ \E a \in Accounts, r \in Records, op \in Closings \union GoalOps :
        /\ Exists(r) /\ Free(r) /\ MayAsk(a, op, r)
        /\ request[q].pc = "idle" /\ a \in activeAccounts
        /\ IF IsOpen(r)
             THEN \E g \in IF op \in Closings THEN {NoOwner}
                           ELSE IF op = "add" THEN {x \in Goals : plan[r].goals[x] = "none"}
                           ELSE {x \in Goals : plan[r].goals[x] # "none"} :
                    request' = [request EXCEPT ![q] = [IdleRequest EXCEPT !.pc = "begun", !.op = op,
                                  !.of = r, !.goal = g, !.holds = TRUE]]
             ELSE End(q)  \* "this plan is no longer open"
    /\ UNCHANGED <<plan, activeAccounts, enabled>>

AfterClosing(op) == IF op = "complete" THEN "completed" ELSE "cancelled"

FinishClosing(q) ==
    /\ request[q].pc = "begun" /\ request[q].op \in Closings
    /\ plan' = [plan EXCEPT ![request[q].of].status = AfterClosing(request[q].op)]
    /\ End(q)
    /\ UNCHANGED <<activeAccounts, enabled>>

\* What a goal may be after the operation.  A tick carries its own value.
AfterGoal(op, state) ==
    CASE op = "add" -> {"set"}
      [] op = "tick" -> {"set", "done"}
      [] op = "reword" -> {state}
      [] op = "delete" -> {"none"}

FinishGoal(q) ==
    /\ request[q].pc = "begun" /\ request[q].op \in GoalOps
    /\ LET r == request[q].of
           g == request[q].goal
       IN \E after \in AfterGoal(request[q].op, plan[r].goals[g]) :
            plan' = [plan EXCEPT ![r].goals[g] = after]
    /\ End(q)
    /\ UNCHANGED <<activeAccounts, enabled>>

\* --------------------------------------------------- what else can happen

SwitchModule == /\ enabled' = ~enabled
                /\ UNCHANGED <<plan, activeAccounts, request>>

Deactivate(a) == /\ a \in activeAccounts
                 /\ activeAccounts' = activeAccounts \ {a}
                 /\ UNCHANGED <<plan, enabled, request>>

PlansNext ==
        \/ \E q \in Requests :
              \/ BeginCreate(q) \/ FinishCreate(q)
              \/ BeginUpdate(q) \/ FinishUpdate(q)
              \/ BeginLocked(q) \/ FinishClosing(q) \/ FinishGoal(q)
        \/ SwitchModule
        \/ \E a \in Accounts : Deactivate(a)

PlansSpec == PlansInit /\ [][PlansNext]_plansVars

-----------------------------------------------------------------------------

\* A closed plan is settled: of two racing requests, neither a second closing
\* nor a change of a goal lands on a plan the other has closed.
ClosedStaysAsItWas ==
    \A r \in Records : Exists(r) /\ ~IsOpen(r) =>
        /\ plan'[r].status = plan[r].status
        /\ plan'[r].goals = plan[r].goals
ClosedPlanKeepsItsGoals == [][ClosedStaysAsItWas]_plansVars

=============================================================================
