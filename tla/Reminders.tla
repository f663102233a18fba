------------------------------ MODULE Reminders ------------------------------
(***************************************************************************)
(* The reminders of the scheduler: contracts that end, evaluations that    *)
(* have stood in one stage for too long or whose stage belongs to nobody   *)
(* any more, improvement plans to review, and the daily line in the        *)
(* assistant; and the notice of the seats a departure leaves empty.        *)
(*                                                                         *)
(* A reminder carries a key, and the same key is not told twice to one     *)
(* account within a window.  A run reads for all its sweeps and commits     *)
(* them together; what the evaluation does in between is not held up.      *)
(* Time is kept as ages in days: of the stage, and of the last notice of   *)
(* each key, both only as far as somebody asks.                            *)
(***************************************************************************)
EXTENDS Naturals, FiniteSets, FiniteSetsExt

CONSTANTS Recipients, HrRecipients,       \* accounts, and the hr ones among them
          Assistants,         \* accounts the assistant is open to
          Person, EmptySeat,     \* the subject of the evaluation; an empty seat
          Starts,             \* how the evaluation, its plan and contract begin
          Reviews,            \* dates a review may be moved to, in days
          MaxChanges,         \* bound on reassignments and departures
          Patience,           \* sla_reminder_days
          DedupWindow,        \* notification_dedup_days
          ExpiryAlert,        \* contract_expiry_alert_days
          ReviewAlert         \* improvement_review_alert_days

CourseStages == {"draft", "submitted", "hr_approved", "deputy_approved", "closed"}
ChainSeats == {"supervisor", "deputy", "ceo"}

ReminderAssumption ==
    /\ EmptySeat \notin Recipients /\ HrRecipients \subseteq Recipients /\ Assistants \subseteq Recipients
    /\ MaxChanges \in Nat /\ Patience \in Nat /\ DedupWindow \in Nat
    /\ ExpiryAlert \in Nat /\ ReviewAlert \in Nat
    /\ \A s \in Starts :
        /\ s.stage \in CourseStages
        /\ s.seat \in [ChainSeats -> Recipients \union {EmptySeat}] /\ s.seat["ceo"] # EmptySeat

\* The age at which no window reaches a notice any more.
Forgotten == Max({Patience, DedupWindow}) + 1

Keys == {<<kind, stage>> : kind \in {"sla", "orphan"}, stage \in CourseStages \ {"closed"}}
        \union {<<"expiry", Person>>}
        \union {<<"review", id>> : id \in {0, 1}}
        \union {<<"vacated", a>> : a \in Recipients}

VARIABLES route,              \* the stages of the evaluation's chain, in order
          stage, stageAge,    \* where the evaluation is, and for how long
          seat,               \* who sits where: supervisor, deputy, ceo, or EmptySeat
          activeRecipients,   \* active accounts
          left,               \* days the contract still runs
          openPlan,           \* the open plan: [open, id of its date, days, owner]
          age,                \* of the last notice, by account and key
          digested,           \* who has the assistant's line of today
          changes,            \* the bound's counter
          running, draft      \* a run is open, and what it has added so far

remindersVars == <<route, stage, stageAge, seat, activeRecipients, changes, left, openPlan, age, digested, running, draft>>

world == <<route, stage, stageAge, seat, activeRecipients, changes, left, openPlan>>

RemindersInit ==
        /\ \E s \in Starts : /\ route = s.route /\ stage = s.stage /\ seat = s.seat
                            /\ left = s.left /\ openPlan = s.plan
        /\ stageAge = 0
        /\ activeRecipients = Recipients
        /\ age = [a \in Recipients |-> [k \in Keys |-> Forgotten]]
        /\ digested = {}
        /\ changes = 0 /\ running = FALSE /\ draft = {}

EvaluationOpen == stage # "closed"
ActiveHr == HrRecipients \intersect activeRecipients

\* The first seat of the chain scores; after hr comes the deputy, if there is one.
Scorer == IF seat.supervisor # EmptySeat THEN seat.supervisor
          ELSE IF seat.deputy # EmptySeat THEN seat.deputy ELSE seat.ceo
AfterHr == IF seat.deputy # EmptySeat THEN seat.deputy ELSE seat.ceo

\* Whoever has to act on the evaluation now.
Owners == CASE stage = "draft" -> {Scorer}
            [] stage = "submitted" -> ActiveHr
            [] stage = "hr_approved" -> {AfterHr}
            [] stage = "deputy_approved" -> {seat.ceo}
            [] stage = "closed" -> {}

Stalled == EvaluationOpen /\ stageAge >= Patience

\* Fault: one window for every kind of reminder.
WindowOf_Same(kind) == DedupWindow

WindowOf(kind) == IF kind = "sla" THEN Patience ELSE DedupWindow

\* already_notified: told within the window of its kind.
AlreadyNotified(a, key) == age[a][key] <= WindowOf(key[1])

\* notify_once, for each of the audience.
Once(audience, key) == {<<a, key>> : a \in {x \in audience : ~AlreadyNotified(x, key)}}

ContractSweep ==
    IF left <= ExpiryAlert /\ ~EvaluationOpen THEN Once(ActiveHr, <<"expiry", Person>>) ELSE {}

StallSweep == IF Stalled THEN Once(Owners, <<"sla", stage>>) ELSE {}

\* The hr queue belongs to whoever of hr comes, so it is never without an owner.
OrphanSweep ==
    IF EvaluationOpen /\ stage # "submitted" /\ Owners \intersect activeRecipients = {}
      THEN Once(ActiveHr, <<"orphan", stage>>) ELSE {}

ReviewSweep ==
    IF openPlan.open /\ openPlan.days <= ReviewAlert
      THEN Once(ActiveHr \union {openPlan.owner}, <<"review", openPlan.id>>) ELSE {}

\* One message a day, unless the assistant has spoken there today.
DigestSweep ==
    IF Stalled
      THEN {<<a, <<"digest", stage>>>> : a \in (Owners \intersect Assistants \intersect activeRecipients) \ digested}
      ELSE {}

Run ==
    /\ ~running /\ running' = TRUE
    /\ draft' = ContractSweep \union StallSweep \union OrphanSweep \union ReviewSweep \union DigestSweep
    /\ UNCHANGED <<world, age, digested>>

Told(told) == [a \in Recipients |-> [k \in Keys |-> IF <<a, k>> \in told THEN 0 ELSE age[a][k]]]

CommitRun ==
    /\ running /\ running' = FALSE
    /\ age' = Told(draft)
    /\ digested' = digested \union {d[1] : d \in {x \in draft : x[2][1] = "digest"}}
    /\ draft' = {}
    /\ UNCHANGED world

\* Any sweep raises, or the delivery after them: nothing of the run is kept.
RunFails ==
    /\ running /\ running' = FALSE
    /\ draft' = {}
    /\ UNCHANGED <<world, age, digested>>

\* ----------------------------------------------------- what happens meanwhile

\* The evaluation takes the next step of its chain, is sent back one, or ends.
Move(to) ==
    /\ EvaluationOpen
    /\ \E i, j \in DOMAIN route :
        /\ stage = route[i] /\ to = route[j]
        /\ j \in {i - 1, i + 1} \/ to = "closed"
    /\ stage' = to /\ stageAge' = 0
    /\ UNCHANGED <<route, seat, activeRecipients, changes, left, openPlan, age, digested, running, draft>>

Change == changes < MaxChanges /\ changes' = changes + 1

\* hr seats somebody else; the stage keeps its age.
Reassign(role, a) ==
    /\ Change /\ EvaluationOpen /\ a \in activeRecipients \ HrRecipients /\ seat[role] \notin {a, EmptySeat}
    /\ seat' = [seat EXCEPT ![role] = a]
    /\ UNCHANGED <<route, stage, stageAge, activeRecipients, left, openPlan, age, digested, running, draft>>

SeatsOf(a) == {role \in DOMAIN seat : seat[role] = a}

\* A person leaves: the account goes, and hr is told in the same transaction
\* of the seats it leaves empty, once for this set of evaluations.
Leave(a) ==
    /\ Change /\ a \in activeRecipients \ HrRecipients
    /\ activeRecipients' = activeRecipients \ {a}
    /\ LET told == IF EvaluationOpen /\ SeatsOf(a) # {} THEN Once(ActiveHr, <<"vacated", a>>) ELSE {}
       IN age' = Told(told)
    /\ UNCHANGED <<route, stage, stageAge, seat, left, openPlan, digested, running, draft>>

Postpone(days) ==
    /\ openPlan.open /\ openPlan.id = 0
    /\ openPlan' = [openPlan EXCEPT !.id = 1, !.days = days]
    /\ UNCHANGED <<route, stage, stageAge, seat, activeRecipients, changes, left, age, digested, running, draft>>

ClosePlan ==
    /\ openPlan.open
    /\ openPlan' = [openPlan EXCEPT !.open = FALSE]
    /\ UNCHANGED <<route, stage, stageAge, seat, activeRecipients, changes, left, age, digested, running, draft>>

\* A reply in the digest's own conversation is an assistant's message of today.
ReplyInDigest(a) ==
    /\ a \in Assistants /\ a \notin digested
    /\ digested' = digested \union {a}
    /\ UNCHANGED <<world, age, running, draft>>

Older(n, limit) == Min({n + 1, limit})
Sooner(days) == IF days = 0 THEN 0 ELSE days - 1

\* A day passes; a run takes less than that.
NextDay ==
    /\ ~running
    /\ stageAge' = Older(stageAge, Patience)
    /\ left' = Sooner(left)
    /\ openPlan' = [openPlan EXCEPT !.days = Sooner(@)]
    /\ age' = [a \in Recipients |-> [k \in Keys |-> Older(age[a][k], Forgotten)]]
    /\ digested' = {}
    /\ UNCHANGED <<route, stage, seat, activeRecipients, changes, running, draft>>

RemindersNext ==
        \/ Run \/ CommitRun \/ RunFails
        \/ \E to \in CourseStages : Move(to)
        \/ \E role \in DOMAIN seat, a \in Recipients : Reassign(role, a)
        \/ \E a \in Recipients : Leave(a) \/ ReplyInDigest(a)
        \/ \E days \in Reviews : Postpone(days)
        \/ ClosePlan \/ NextDay

RemindersSpec == RemindersInit /\ [][RemindersNext]_remindersVars

-----------------------------------------------------------------------------

\* Whoever has to act is reminded of every stage that stalls: the sweep that
\* finds it adds a reminder, or the account had one since this visit of the
\* stage began.  A reminder of an earlier visit of the same stage (it was sent
\* back and came again) never silences it.
OwnersAreTold ==
    Run /\ Stalled => \A a \in Owners :
        \/ <<a, <<"sla", stage>>>> \in draft'
        \/ age[a][<<"sla", stage>>] <= stageAge
EveryStallIsHeard == [][OwnersAreTold]_remindersVars

=============================================================================
