------------------------------ MODULE MCAccess ------------------------------
(***************************************************************************)
(* Three parts that decide who may do what, on small instances: sign-ins   *)
(* and sessions, the permissions of accounts, and the tools of the         *)
(* assistant.  MCOffice runs them beside the rest.                         *)
(***************************************************************************)
EXTENDS SignIn, Administration, AssistantTools

ASSUME SignInAssumption
ASSUME AdministrationAssumption

----------------------------------------------------------------------------
\* Sign-ins beside an unlock, refreshes of one token, and mixes of all kinds.
Logins == {"in1", "in2", "in3"}
Refreshes == {"re1", "re2", "re3"}
SomeMixes == {Logins \cup {"un1"}, Refreshes, {"in1", "re1", "own1"}, {"own1", "hr1", "re1"},
              {"in1", "sw1", "re1", "out1"}}
RequestKind(w) ==
    CASE w \in Logins -> "login"
      [] w \in Refreshes -> "refresh"
      [] w = "own1" -> "change"
      [] w = "hr1" -> "reset"
      [] w = "out1" -> "logout"
      [] w = "sw1" -> "switch"
      [] w = "un1" -> "unlock"

\* The person has a chain whose supervisor, or one whose deputy, is Me.
ChainRow(us, dep, ceo) == [us |-> us, dep |-> dep, ceo |-> ceo]
SomeRows == {ChainRow("me", "d", "c"), ChainRow("nobody", "me", "c")}

Right(held, caps) == [role |-> held, caps |-> caps]
SomeRights == {Right("employee", {}), Right("hr", {}), Right("ceo", {}),
               Right("unit_supervisor", {"manage_personnel"}), Right("deputy", {"manage_scoring"}),
               Right("support", {"manage_users", "manage_capabilities"})}

----------------------------------------------------------------------------
accessVars == <<signInVars, adminVars, toolsVars>>

\* Where an instance that is not looked at stands still.
SignInRests == \A w \in Refreshes : At(w, {"idle"})
ToolsRest == access = NoRow /\ own /\ me = Right("hr", {})
=============================================================================
