------------------------------ MODULE MCStaff ------------------------------
(***************************************************************************)
(* Three settings of the workflow in which the staff changes under records *)
(* that are under way: in the first, accounts are relinked, promoted and   *)
(* seated while a record of p1 runs; in the second, p1 changes unit and    *)
(* becomes a manager while their chain is rewritten and u1 is linked to    *)
(* them; in the third, p1 and an evaluator with a personnel file, p2,      *)
(* leave and return.  Every behaviour is of one setting; the constants of  *)
(* the cfg are those of the first.                                         *)
(***************************************************************************)
EXTENDS MCWorkflow

VARIABLE setting

\* The workflow with nothing but two people who may come and go.
Leaving == INSTANCE WorkflowProperties WITH
    People <- {p1, p2}, InitLink <- EvaluatorHasAFile,
    AccessRows <- FullChain, NewRows <- None, Grants <- None, Relinks <- None,
    Switchable <- {}, Leavers <- {p1, p2}, Movers <- {}, Promotable <- {}, MaxDay <- 1

\* The workflow with one person who changes places.
Moving == INSTANCE WorkflowProperties WITH
    AccessRows <- FullChain, Grants <- None, Relinks <- {<<u1, p1>>, <<h1, Nobody>>},
    Movers <- {p1}, Promotable <- {p1}

StaffInit == \/ setting = "accounts" /\ Init
             \/ setting = "moving" /\ Moving!Init
             \/ setting = "leaving" /\ Leaving!Init

AccountsNext == setting = "accounts" /\ Next /\ UNCHANGED setting
MovingNext == setting = "moving" /\ Moving!Next /\ UNCHANGED setting
LeavingNext == setting = "leaving" /\ Leaving!Next /\ UNCHANGED setting

StaffSpec == StaffInit /\ [][AccountsNext \/ MovingNext \/ LeavingNext]_<<vars, setting>>
=============================================================================
