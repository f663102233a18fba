------------------------------ MODULE MCOffice ------------------------------
(***************************************************************************)
(* Seven parts around the evaluations and the three of MCAccess, each      *)
(* checked on its own: every behaviour is of one part, the others stay as  *)
(* they began.                                                             *)
(***************************************************************************)
EXTENDS ScoringRules, Directory, Conversation, ImprovementPlans, Reminders, ScoreResult,
        AuditTrail, MCAccess

VARIABLE part

everywhere == <<part, rulesVars, directoryVars, conversationVars, plansVars, remindersVars,
                scoreVars, trailVars, accessVars>>

ASSUME ScoringRulesAssumption
ASSUME DirectoryAssumption
ASSUME TurnAssumption
ASSUME PlanAssumption
ASSUME ReminderAssumption
ASSUME ScoreResultAssumption
ASSUME TrailAssumption

----------------------------------------------------------------------------
\* A file with a username twice, a code twice, a broken row and a chain that
\* names somebody who is not there.
DeputyOrCeo(u) == IF u = "boss" THEN "ceo" ELSE "deputy"
ChainCells(s, d, c) == [unit_supervisor |-> s, deputy |-> d, ceo |-> c]
Line(code, username, manager, broken, chain) ==
    [code |-> code, username |-> username, unit |-> <<"u">>, manager |-> manager,
     broken |-> broken, chain |-> chain]
ThreeLines ==
    <<Line("p1", "n1", FALSE, FALSE, ChainCells("mid", "blank", "blank")),
      Line("p2", "blank", TRUE, TRUE, ChainCells("blank", "mid", "boss")),
      Line("p2", "n1", FALSE, FALSE, ChainCells("unknown", "blank", "blank"))>>

SupervisorOrHr(a) == IF a = "sup" THEN "unit_supervisor" ELSE "hr"
ShieldedFromHr2(a, r) == a = "hr2"

\* Evaluations of three shapes under way, and a contract that ends beside a plan.
SeatsOfChain(s, d, c) == [supervisor |-> s, deputy |-> d, ceo |-> c]
NoReview == [open |-> FALSE, id |-> 0, days |-> 0, owner |-> "sup"]
Case(course, at, days, seats, review) ==
    [route |-> course, stage |-> at, left |-> days, seat |-> seats, plan |-> review]
SomeStarts ==
    {Case(<<"draft", "submitted", "closed">>, "draft", 0, SeatsOfChain("none", "none", "sup"), NoReview),
     Case(<<"draft", "deputy_approved", "closed">>, "draft", 0, SeatsOfChain("none", "sup", "dep"), NoReview),
     Case(<<"draft", "hr_approved", "closed">>, "hr_approved", 0, SeatsOfChain("none", "none", "dep"), NoReview),
     Case(<<"draft", "closed">>, "closed", 3, SeatsOfChain("none", "none", "sup"),
          [NoReview EXCEPT !.open = TRUE, !.days = 2])}

----------------------------------------------------------------------------
\* Rules with uneven weights, with a section that weighs nothing, without a
\* bonus, whose section weights are kept as 0.334 and 0.667, and three that the
\* schema refuses.
Rule(g, s, weights, steps, cap) ==
    [wGeneral |-> g, wSpecialized |-> s, weights |-> weights, upper |-> steps,
     bonusMax |-> cap, needed |-> {1, 5}, minWords |-> 3, maxWords |-> 40]
Even == [i \in {"g1", "g2", "s1"} |-> 1]
Uneven == [Even EXCEPT !["g1"] = 12, !["s1"] = 2]
Steps == <<600, 750, 900, 1010>>
Section(i) == IF i = "s1" THEN "specialized" ELSE "general"

SevenRules ==
    {Rule(600000, 400000, Uneven, Steps, 500), Rule(0, One, Even, Steps, 300),
     Rule(600000, 400000, Even, Steps, 0), Rule(333500, 666500, Even, Steps, 225),
     Rule(600000, 300000, Even, Steps, 500),
     Rule(600000, 400000, Even, <<750, 600, 1010>>, 500),
     Rule(600000, 400000, Even, <<600, 1000>>, 500)}

----------------------------------------------------------------------------
OfficeInit ==
    /\ part \in {"rules", "staff", "chat", "cards", "plans", "sweeps", "result", "trail",
                "signin", "administration", "assistant"}
    /\ RulesInit /\ (part # "rules" => frameworks = <<Installed>>)
    /\ PlansInit /\ (part # "plans" => enabled)
    /\ RemindersInit /\ (part # "sweeps" => openPlan.open)
    /\ ScoreInit
    /\ part # "result" => rules = Stored(Rule(600000, 400000, Uneven, Steps, 500)) /\ asked = Questions
    /\ SignInInit /\ (part # "signin" => SignInRests)
    /\ ToolsInit /\ (part # "assistant" => ToolsRest)
    /\ DirectoryInit /\ ConversationInit /\ TrailInit /\ AdminInit

directoryOnly == <<people, activeEvaluators, taken, units, upload>>
rulesOnly == <<schemes, indicators, frameworks, forms>>
elsewhere == <<part, conversationVars, plansVars, remindersVars, scoreVars, trailVars, accessVars>>

RulesPart == part = "rules" /\ RulesNext /\ UNCHANGED <<elsewhere, directoryOnly>>
StaffPart == part = "staff" /\ DirectoryNext /\ UNCHANGED <<elsewhere, rulesOnly>>

others == <<part, rulesVars, directoryVars, accessVars>>

\* The notice of an uploaded file and the message of a decided card come into a
\* conversation alike: one of them at a time.  The substitute protocol, which
\* neither knows of, is tried beside the files.
ChatPart ==
    /\ part \in {"chat", "cards"} /\ ConversationNext
    /\ part = "chat" => \A k \in cards' : ~k.decided
    /\ part = "cards" => staged' = staged /\ \A t \in Turns : turn'[t].native
    /\ UNCHANGED <<others, plansVars, remindersVars, scoreVars, trailVars>>
PlansPart ==
    /\ part = "plans" /\ PlansNext
    /\ UNCHANGED <<others, conversationVars, remindersVars, scoreVars, trailVars>>
SweepsPart ==
    /\ part = "sweeps" /\ RemindersNext
    /\ UNCHANGED <<others, conversationVars, plansVars, scoreVars, trailVars>>
ResultPart ==
    /\ part = "result" /\ ScoreResultNext
    /\ UNCHANGED <<others, conversationVars, plansVars, remindersVars, trailVars>>
TrailPart ==
    /\ part = "trail" /\ TrailNext
    /\ UNCHANGED <<others, conversationVars, plansVars, remindersVars, scoreVars>>

offices == <<part, rulesVars, directoryVars, conversationVars, plansVars, remindersVars,
             scoreVars, trailVars>>

SignInPart == part = "signin" /\ SignInNext /\ UNCHANGED <<offices, adminVars, toolsVars>>
AdminPart == part = "administration" /\ AdminNext /\ UNCHANGED <<offices, signInVars, toolsVars>>
ToolsPart == part = "assistant" /\ ToolsNext /\ UNCHANGED <<offices, signInVars, adminVars>>

OfficeNext ==
    \/ RulesPart \/ StaffPart \/ ChatPart \/ PlansPart \/ SweepsPart
    \/ ResultPart \/ TrailPart \/ SignInPart \/ AdminPart \/ ToolsPart

OfficeSpec == OfficeInit /\ [][OfficeNext]_everywhere
=============================================================================
