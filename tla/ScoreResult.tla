---------------------------- MODULE ScoreResult ----------------------------
(***************************************************************************)
(* What a form is worth: validate_evidence, validate_bonus, applied_bonus  *)
(* and compute_result of services/evaluation.py, Rules of                  *)
(* services/scoring_scheme.py and the checks of SchemeInput.               *)
(*                                                                         *)
(* Percentages are whole tenths and bonuses whole hundredths of a point,   *)
(* the decimals the columns keep.  The weights of the sections are         *)
(* submitted in millionths, as far as the check of their sum looks, and    *)
(* kept in thousandths (Numeric(4, 3)), so that the kept ones may miss one *)
(* by a thousandth.  The weights of the questions are in any common unit;  *)
(* a step between two tenths is the tenth above it.  Rounding is to the    *)
(* nearest with ties to even, as round() does on the exact value; a binary *)
(* fraction may fall on the other side of a tie.                           *)
(***************************************************************************)
EXTENDS Integers, FiniteSets, FiniteSetsExt, SequencesExt

CONSTANTS Questions, SectionOf(_),    \* "general" or "specialized"
          RuleSets,     \* rules submitted: wGeneral, wSpecialized, weights, upper, bonusMax, needed, minWords, maxWords
          Marks,        \* the scores a form may give, of 1..5
          Bonuses,      \* bonus points submitted, in hundredths
          Words,        \* numbers of words a text may have
          ReasonMin     \* BONUS_REASON_MIN

ScoreResultAssumption ==
  /\ IsFiniteSet(Questions) /\ \A i \in Questions : SectionOf(i) \in {"general", "specialized"}
  /\ Marks \subseteq 1..5 /\ Bonuses \subseteq Int /\ Words \subseteq Nat
  /\ \A r \in RuleSets :
        /\ {r.wGeneral, r.wSpecialized, r.bonusMax} \subseteq Nat
        /\ r.weights \in [Questions -> Int]
        /\ r.upper \in Seq(Nat) \ {<<>>}

VARIABLES rules,   \* of the scheme the record is stamped with
          asked,   \* the questions of the record
          scores,  \* evaluation_scores: what is marked so far
          words,   \* length of the evidence of each
          bonus    \* record.bonus_points

scoreVars == <<rules, asked, scores, words, bonus>>

Full == 1000      \* one hundred percent
One == 1000000    \* the sum of the section weights, in millionths
RoundDiv(a, b) ==
  LET q == a \div b  r == 2 * (a % b)
  IN IF r > b \/ (r = b /\ q % 2 = 1) THEN q + 1 ELSE q
Min2(a, b) == IF a < b THEN a ELSE b
Max2(a, b) == IF a > b THEN a ELSE b

\* SchemeInput._check: weights that make one, rising steps, the last above 100.
Valid(r) ==
  /\ r.wGeneral + r.wSpecialized = One
  /\ r.minWords <= r.maxWords /\ r.needed \subseteq 1..5
  /\ \A j, k \in DOMAIN r.upper : j < k => r.upper[j] < r.upper[k]
  /\ r.upper[Len(r.upper)] > Full
  /\ \A i \in Questions : r.weights[i] > 0

\* The weight as the column keeps it: thousandths, halves up.
Thousandths(w) == (w + 500) \div 1000

\* What a record reads of the rules that were accepted.
Stored(r) == [wGeneral |-> Thousandths(r.wGeneral), wSpecialized |-> Thousandths(r.wSpecialized),
              weights |-> r.weights, upper |-> r.upper, bonusMax |-> r.bonusMax,
              needed |-> r.needed, minWords |-> r.minWords, maxWords |-> r.maxWords]
StoredRules == {Stored(r) : r \in {q \in RuleSets : Valid(q)}}

\* rules.recommendation_for: the first step above the result.
Recommendation(r, pct) ==
  LET above == {k \in DOMAIN r.upper : pct < r.upper[k]}
  IN IF above = {} THEN Len(r.upper) ELSE Min(above)

InSection(S, section) == {i \in S : SectionOf(i) = section}
Total(f, S) == MapThenSumSet(LAMBDA i : f[i], S)

\* The share of the marks a section could have had.
SectionPct(r, sc, S) ==
  IF S = {} THEN 0
  ELSE RoundDiv(Full * Total([i \in S |-> sc[i] * r.weights[i]], S), 5 * Total(r.weights, S))

\* The weight of an absent section goes to the one that is there; sections all
\* weighted zero count alike.
BasePct(r, sc) ==
  LET g == InSection(DOMAIN sc, "general")
      s == InSection(DOMAIN sc, "specialized")
      pg == SectionPct(r, sc, g)
      ps == SectionPct(r, sc, s)
      wg == IF g = {} THEN 0 ELSE r.wGeneral
      ws == IF s = {} THEN 0 ELSE r.wSpecialized
      present == (IF g = {} THEN 0 ELSE 1) + (IF s = {} THEN 0 ELSE 1)
  IN IF present = 0 THEN 0
     ELSE IF wg + ws > 0 THEN RoundDiv(pg * wg + ps * ws, wg + ws)
     ELSE RoundDiv(pg + ps, present)

\* Fault: a bonus that would pass 100 is dropped instead of cut.
AppliedBonus_Drop(r, raw, base) ==
  IF Min2(raw, r.bonusMax) > 10 * (Full - base) THEN 0 ELSE Max2(0, Min2(raw, r.bonusMax))

\* applied_bonus: within the cap of the rules and the room up to 100.
AppliedBonus(r, raw, base) == Max2(0, Min2(Min2(raw, r.bonusMax), 10 * (Full - base)))

FinalPct(r, sc, b) ==
  LET base == BasePct(r, sc)
  IN RoundDiv(10 * base + AppliedBonus(r, b, base), 10)

\* validate_evidence: the marks that need a text have a long enough one, and
\* no text is too long.
EvidenceOk(r, sc, ws) ==
  \A i \in DOMAIN sc : (sc[i] \in r.needed => ws[i] >= r.minWords) /\ ws[i] <= r.maxWords

\* validate_bonus, behind the range of SpecialScoreUpdate.
BonusOk(r, b, reason) ==
  /\ b \in 0..10000
  /\ b > 0 => r.bonusMax > 0 /\ reason >= ReasonMin
  /\ b <= r.bonusMax

(***************************************************************************)
(* A form being filled in.                                                 *)
(***************************************************************************)
ScoreInit ==
  /\ rules \in StoredRules
  /\ asked \in SUBSET Questions \ {{}}
  /\ scores = <<>> /\ words = <<>> /\ bonus = 0

Mark(i, m, n) ==
  /\ scores' = [j \in DOMAIN scores \cup {i} |-> IF j = i THEN m ELSE scores[j]]
  /\ words' = [j \in DOMAIN words \cup {i} |-> IF j = i THEN n ELSE words[j]]
  /\ UNCHANGED <<rules, asked, bonus>>

SetSpecialScore(b, reason) ==
  /\ BonusOk(rules, b, reason)
  /\ bonus' = b
  /\ UNCHANGED <<rules, asked, scores, words>>

\* finalize_scoring takes the form: every question, and the evidence.
Accepted == DOMAIN scores = asked /\ EvidenceOk(rules, scores, words)

ScoreResultNext ==
  \/ \E i \in asked, m \in Marks, n \in Words : Mark(i, m, n)
  \/ \E b \in Bonuses, reason \in {0, ReasonMin} : SetSpecialScore(b, reason)

ScoreResultSpec == ScoreInit /\ [][ScoreResultNext]_scoreVars

Result == FinalPct(rules, scores, bonus)

(***************************************************************************)
(* Properties.                                                             *)
(***************************************************************************)
\* A better mark, or more bonus, never makes the result or the step worse, and
\* no result passes 100, whichever cap holds the bonus back.
NotWorse ==
  (Accepted /\ Accepted' /\ bonus' >= bonus /\ \A i \in asked : scores'[i] >= scores[i]) =>
    LET before == Result  after == Result'
    IN /\ after \in before..Full
       /\ Recommendation(rules, after) >= Recommendation(rules, before)
BetterIsNeverWorse == [][NotWorse]_scoreVars

=============================================================================
