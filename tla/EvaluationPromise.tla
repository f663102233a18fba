------------------------- MODULE EvaluationPromise -------------------------
(***************************************************************************)
(* What an evaluation promises the person evaluated, with no seat, role or *)
(* stage in sight: at most one evaluation of a person is under way, the    *)
(* verdict that is sealed is the one that was under review, and what is    *)
(* sealed or dropped stays so.                                             *)
(***************************************************************************)
CONSTANTS People, Records, Verdicts, Nobody, NoVerdict

VARIABLES phase,    \* none, scoring, review, sealed, dropped
          owner,    \* the person evaluated
          verdict,  \* what is under review, or was when the record closed
          seal      \* the verdict of the final document

pvars == <<phase, owner, verdict, seal>>

Live(r) == phase[r] \in {"scoring", "review"}

Open(r, p) ==
  /\ phase[r] = "none"
  /\ \A q \in Records : Live(q) => owner[q] # p
  /\ phase' = [phase EXCEPT ![r] = "scoring"]
  /\ owner' = [owner EXCEPT ![r] = p]
  /\ UNCHANGED <<verdict, seal>>

Submit(r, v) ==
  /\ phase[r] = "scoring"
  /\ phase' = [phase EXCEPT ![r] = "review"]
  /\ verdict' = [verdict EXCEPT ![r] = v]
  /\ UNCHANGED <<owner, seal>>

SendBack(r) ==
  /\ phase[r] = "review"
  /\ phase' = [phase EXCEPT ![r] = "scoring"]
  /\ verdict' = [verdict EXCEPT ![r] = NoVerdict]
  /\ UNCHANGED <<owner, seal>>

Seal(r) ==
  /\ phase[r] = "review"
  /\ phase' = [phase EXCEPT ![r] = "sealed"]
  /\ seal' = [seal EXCEPT ![r] = verdict[r]]
  /\ UNCHANGED <<owner, verdict>>

Drop(r) ==
  /\ Live(r)
  /\ phase' = [phase EXCEPT ![r] = "dropped"]
  /\ verdict' = [verdict EXCEPT ![r] = NoVerdict]
  /\ UNCHANGED <<owner, seal>>

Init == /\ phase = [r \in Records |-> "none"]
        /\ owner = [r \in Records |-> Nobody]
        /\ verdict = [r \in Records |-> NoVerdict]
        /\ seal = [r \in Records |-> NoVerdict]

Next == \E r \in Records : \/ \E p \in People : Open(r, p)
                           \/ \E v \in Verdicts : Submit(r, v)
                           \/ SendBack(r) \/ Seal(r) \/ Drop(r)

Spec == Init /\ [][Next]_pvars
=============================================================================
