----------------------------- MODULE MCResponse -----------------------------
(***************************************************************************)
(* Small instances of the composition: the person evaluated is h1, of the  *)
(* HR unit.                                                                *)
(***************************************************************************)
EXTENDS ResultResponse, WorkflowProperties

CONSTANTS u1, d1, c1, h1, h2, p1, s1

RoleOf == [u \in {u1, d1, c1, h1, h2} |->
             CASE u = u1 -> "unit_supervisor"
               [] u = d1 -> "deputy"
               [] u = c1 -> "ceo"
               [] u \in {h1, h2} -> "hr"]

Roster == [u \in Users |-> RoleOf[u]]

Row(us, dep, ceo) == [us |-> us, dep |-> dep, ceo |-> ceo]

None == {}

FullAndCeoOnly == {Row(u1, d1, c1), Row(Nobody, Nobody, c1)}

HrIsSubject == [u \in Users |-> IF u = h1 THEN p1 ELSE Nobody]

\* The subject's account may be cut loose, and another one tied to them.
SubjectMoves == {<<h1, Nobody>>, <<h2, p1>>}
=============================================================================
