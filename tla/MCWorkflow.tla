----------------------------- MODULE MCWorkflow -----------------------------
(***************************************************************************)
(* Small instances of the evaluation workflow: one person p1 (and p2, an   *)
(* evaluator's own personnel file), one account per role and the spare     *)
(* accounts a question needs.                                              *)
(***************************************************************************)
EXTENDS WorkQueues

CONSTANTS u1, u2, d1, c1, h1, h2, p1, p2, s1, s2

RoleOf == [u \in {u1, u2, d1, c1, h1, h2} |->
             CASE u \in {u1, u2} -> "unit_supervisor"
               [] u = d1 -> "deputy"
               [] u = c1 -> "ceo"
               [] u \in {h1, h2} -> "hr"]

Roster == [u \in Users |-> RoleOf[u]]

Row(us, dep, ceo) == [us |-> us, dep |-> dep, ceo |-> ceo]

None == {}

\* The four shapes a chain of three different people can have.
AllShapes == {Row(u1, d1, c1), Row(Nobody, d1, c1), Row(u1, Nobody, c1), Row(Nobody, Nobody, c1)}

\* p1's own account is h1: the HR user who is evaluated.
HrIsSubject == [u \in Users |-> IF u = h1 THEN p1 ELSE Nobody]

FullChain == {Row(u1, d1, c1)}

NoFiles == [u \in Users |-> Nobody]

\* u1 evaluates p1 and has a personnel file of their own, p2.
EvaluatorHasAFile == [u \in Users |-> CASE u = u1 -> p2 [] u = h1 -> p1 [] OTHER -> Nobody]

\* A promotion, a move into HR, and an HR user put into the deputy's job.
Promotions == {<<u1, "deputy">>, <<u1, "hr">>, <<h2, "deputy">>}

\* Accounts tied to the person they evaluate, or cut loose from their own file.
Relinkings == {<<u1, p1>>, <<h2, p1>>, <<h1, Nobody>>, <<u2, p1>>}

TwoShapes == {Row(u1, d1, c1), Row(Nobody, Nobody, c1)}

SpareChain == {Row(u2, d1, c1)}
=============================================================================
