------------------------ MODULE ResultAndTrail_proofs ------------------------
(***************************************************************************)
(* What a form is worth and what the audit log proves, for any rules, any  *)
(* questions and marks, any number of writers, rows and walks: a better    *)
(* form never gets a worse result, and a walk over the log says of its     *)
(* rows what is true of them.                                              *)
(***************************************************************************)
EXTENDS ScoreResult, AuditTrail, FiniteSetTheorems, WellFoundedInduction, TLAPS

-----------------------------------------------------------------------------
(* Induction, in the form of a least counterexample.                       *)

\* A set of numbers has a least one.
LEMMA LeastNumber ==
  ASSUME NEW T \in SUBSET Nat, T # {}
  PROVE  \E n \in T : \A m \in T : n <= m
<1> DEFINE R == OpToRel(<, Nat)
<1>1. IsWellFoundedOn(R, Nat)
  BY NatLessThanWellFounded
<1>2. \A m, n \in Nat : <<m, n>> \in R <=> m < n
  BY DEF OpToRel
<1> HIDE DEF R
<1>3. PICK n \in T : \A m \in T : ~ (<<m, n>> \in R)
  BY <1>1, WFMin
<1>4. ASSUME NEW m \in T PROVE n <= m
  <2>1. m \in Nat /\ n \in Nat
    OBVIOUS
  <2>2. ~(m < n)
    BY <1>2, <1>3, <2>1
  <2> QED BY <2>1, <2>2
<1> QED BY <1>4

\* A bounded one has a greatest one.
LEMMA GreatestNumber ==
  ASSUME NEW k \in Nat, NEW T \in SUBSET (0 .. k), T # {}
  PROVE  \E n \in T : \A m \in T : m <= n
<1> DEFINE U == {k - n : n \in T}
<1>1. U \in SUBSET Nat /\ U # {}
  <2>1. \A n \in T : k - n \in Nat
    OBVIOUS
  <2> QED BY <2>1
<1>2. PICK u \in U : \A v \in U : u <= v
  BY <1>1, LeastNumber
<1>3. PICK n \in T : u = k - n
  BY <1>2
<1>4. ASSUME NEW m \in T PROVE m <= n
  <2>1. k - n <= k - m
    BY <1>2, <1>3
  <2> QED BY <2>1
<1> QED BY <1>4

\* A family of finite sets has a smallest one.
LEMMA SmallestSet ==
  ASSUME NEW S, IsFiniteSet(S), NEW F \in SUBSET (SUBSET S), F # {}
  PROVE  \E A \in F : \A B \in F : B \subseteq A => B = A
<1>1. IsWellFoundedOn(StrictSubsetOrdering(S), FiniteSubsetsOf(S))
  BY FS_StrictSubsetOrderingWellFounded
<1>2. FiniteSubsetsOf(S) = SUBSET S
  BY FS_FiniteSubsetsOfFinite
<1>3. \E A \in F : \A B \in F : ~ (<<B, A>> \in StrictSubsetOrdering(S))
  BY <1>1, <1>2, WFMin
<1> QED BY <1>3 DEF StrictSubsetOrdering

-----------------------------------------------------------------------------
(* The sum of the weights of a section.                                    *)

Some(t) == CHOOSE i \in t : TRUE

\* f adds up w over every subset of S, an element at a time.
Adds(f, w, S) ==
  \A t \in SUBSET S : f[t] = IF t = {} THEN 0 ELSE w[Some(t)] + f[t \ {Some(t)}]

\* What a fold takes next leaves less.
LEMMA SmallerSet ==
  ASSUME NEW t, t # {}
  PROVE  /\ Some(t) \in t
         /\ t \ {Some(t)} \subseteq t /\ t \ {Some(t)} # t
BY DEF Some

\* A sum is one number, whatever function computes it.
LEMMA AddsOneWay ==
  ASSUME NEW S, IsFiniteSet(S), NEW w, NEW f, NEW g, Adds(f, w, S), Adds(g, w, S)
  PROVE  \A t \in SUBSET S : f[t] = g[t]
<1> DEFINE F == {t \in SUBSET S : f[t] # g[t]}
<1> SUFFICES ASSUME F # {} PROVE FALSE
  OBVIOUS
<1>0. F \in SUBSET (SUBSET S)
  OBVIOUS
<1> HIDE DEF F
<1>1. PICK t \in F : \A u \in F : u \subseteq t => u = t
  BY <1>0, SmallestSet
<1> USE DEF F
<1>2. f[t] = (IF t = {} THEN 0 ELSE w[Some(t)] + f[t \ {Some(t)}])
  BY DEF Adds
<1>3. g[t] = (IF t = {} THEN 0 ELSE w[Some(t)] + g[t \ {Some(t)}])
  BY DEF Adds
<1>4. t # {}
  BY <1>2, <1>3
<1>5. t \ {Some(t)} \in SUBSET S /\ t \ {Some(t)} \notin F
  BY <1>1, <1>4, SmallerSet
<1> QED BY <1>2, <1>3, <1>4, <1>5

\* Who adds up a set adds up its subsets.
LEMMA AddsBelow ==
  ASSUME NEW S, NEW t \in SUBSET S, NEW w, NEW f, Adds(f, w, S)
  PROVE  Adds(f, w, t)
BY DEF Adds

\* There is a function that adds up: of the smallest set without one, the
\* functions of its subsets make one.
LEMMA AddsExists ==
  ASSUME NEW S, IsFiniteSet(S), NEW w
  PROVE  \E f : Adds(f, w, S)
<1> DEFINE F == {t \in SUBSET S : ~ \E f : Adds(f, w, t)}
<1> SUFFICES ASSUME F # {} PROVE FALSE
  OBVIOUS
<1>0. F \in SUBSET (SUBSET S)
  OBVIOUS
<1> HIDE DEF F
<1>1. PICK t \in F : \A u \in F : u \subseteq t => u = t
  BY <1>0, SmallestSet
<1> USE DEF F
<1>t. t \in SUBSET S /\ IsFiniteSet(t) /\ ~ \E f : Adds(f, w, t)
  BY FS_Subset
<1>2. \A u \in SUBSET t : u # t => \E f : Adds(f, w, u)
  BY <1>1
<1> DEFINE sub(u) == CHOOSE f : Adds(f, w, u)
<1>3. \A u \in SUBSET t : u # t => Adds(sub(u), w, u)
  BY <1>2
<1> DEFINE low == [u \in SUBSET t |-> sub(u)[u]]
           all == [u \in SUBSET t |->
                     IF u = {} THEN 0
                     ELSE IF u = t THEN w[Some(t)] + low[t \ {Some(t)}] ELSE low[u]]
<1> HIDE DEF sub, F
<1>4. ASSUME NEW u \in SUBSET t, u # {}, u # t
      PROVE  low[u] = w[Some(u)] + all[u \ {Some(u)}]
  <2> DEFINE v == u \ {Some(u)}
  <2>1. v \in SUBSET t /\ v \subseteq u /\ v # t
    BY <1>4, SmallerSet
  <2> HIDE DEF v
  <2>2. Adds(sub(u), w, u) /\ Adds(sub(v), w, v)
    BY <1>3, <1>4, <2>1
  <2>3. sub(u)[u] = w[Some(u)] + sub(u)[v]
    BY <1>4, <2>2 DEF Adds, v
  <2>4. sub(u)[v] = sub(v)[v]
    <3>1. IsFiniteSet(v) /\ Adds(sub(u), w, v)
      BY <1>t, <2>1, <2>2, AddsBelow, FS_Subset
    <3> QED BY <2>2, <3>1, AddsOneWay
  <2>5. all[v] = sub(v)[v]
    <3>1. v = {} => sub(v)[v] = 0
      BY <2>2 DEF Adds
    <3> QED BY <2>1, <3>1
  <2> QED BY <2>3, <2>4, <2>5 DEF v
<1>5. ASSUME t # {} PROVE all[t] = w[Some(t)] + all[t \ {Some(t)}]
  <2> DEFINE v == t \ {Some(t)}
  <2>1. v \in SUBSET t /\ v # t
    BY <1>5, SmallerSet
  <2>2. Adds(sub(v), w, v)
    BY <1>3, <2>1
  <2>3. v = {} => sub(v)[v] = 0
    BY <2>2 DEF Adds
  <2>4. all[v] = low[v]
    BY <2>1, <2>3
  <2>5. all[t] = w[Some(t)] + low[v]
    BY <1>5
  <2> QED BY <2>4, <2>5
<1>6. \A u \in SUBSET t : u # {} /\ u # t => all[u] = low[u]
  OBVIOUS
<1>7. all[{}] = 0
  OBVIOUS
<1> HIDE DEF low, all
<1>8. Adds(all, w, t)
  BY <1>4, <1>5, <1>6, <1>7 DEF Adds
<1> QED BY <1>8, <1>t

\* The fold of the rules is such a function.
LEMMA TotalAdds ==
  ASSUME NEW S, IsFiniteSet(S), NEW w
  PROVE  \E f : Adds(f, w, S) /\ Total(w, S) = f[S]
<1> DEFINE Is(f) == f = [t \in SUBSET S |-> IF t = {} THEN 0
                                             ELSE w[CHOOSE i \in t : TRUE] + f[t \ {CHOOSE i \in t : TRUE}]]
           iter == CHOOSE f : Is(f)
<1>1. Total(w, S) = iter[S]
  BY DEF Total, MapThenSumSet, MapThenFoldSet
<1>2. PICK f : Adds(f, w, S)
  BY AddsExists
<1> DEFINE g == [t \in SUBSET S |-> f[t]]
<1>3. Is(g)
  <2>1. \A t \in SUBSET S : t \ {CHOOSE i \in t : TRUE} \in SUBSET S
    OBVIOUS
  <2> QED BY <1>2, <2>1 DEF Adds, Some
<1>4. Is(iter)
  BY <1>3
<1> HIDE DEF iter
<1>5. Adds(iter, w, S)
  BY <1>4 DEF Adds, Some
<1> QED BY <1>1, <1>5

\* Terms bounded one by one have sums that are.
LEMMA TotalBounds ==
  ASSUME NEW S, IsFiniteSet(S), NEW w, NEW v, NEW k \in {1, 5},
         \A i \in S : w[i] \in Nat /\ v[i] \in Nat /\ v[i] <= k * w[i]
  PROVE  /\ Total(w, S) \in Nat /\ Total(v, S) \in Nat
         /\ Total(v, S) <= k * Total(w, S)
<1>1. PICK f : Adds(f, w, S) /\ Total(w, S) = f[S]
  BY TotalAdds
<1>2. PICK g : Adds(g, v, S) /\ Total(v, S) = g[S]
  BY TotalAdds
<1> DEFINE Good(t) == f[t] \in Nat /\ g[t] \in Nat /\ g[t] <= k * f[t]
           F == {t \in SUBSET S : ~ Good(t)}
<1>3. ASSUME F # {} PROVE FALSE
  <2>0. F \in SUBSET (SUBSET S)
    OBVIOUS
  <2> HIDE DEF F
  <2>1. PICK t \in F : \A u \in F : u \subseteq t => u = t
    BY <1>3, <2>0, SmallestSet
  <2> USE DEF F
  <2>2. CASE t = {}
    <3>1. f[t] = 0 /\ g[t] = 0
      BY <1>1, <1>2, <2>2 DEF Adds
    <3>2. Good(t)
      BY <3>1
    <3> QED BY <2>1, <3>2
  <2>3. CASE t # {}
    <3> DEFINE u == t \ {Some(t)}
    <3>1. u \in SUBSET S /\ u \notin F /\ Some(t) \in S
      BY <2>1, <2>3, SmallerSet
    <3>2. f[t] = w[Some(t)] + f[u] /\ g[t] = v[Some(t)] + g[u]
      BY <1>1, <1>2, <2>3 DEF Adds
    <3>3. Good(u)
      BY <3>1
    <3> HIDE DEF u
    <3>4. CASE k = 1
      BY <2>1, <3>1, <3>2, <3>3, <3>4
    <3>5. CASE k = 5
      BY <2>1, <3>1, <3>2, <3>3, <3>5
    <3> QED BY <3>4, <3>5
  <2> QED BY <2>2, <2>3
<1>4. Good(S)
  BY <1>3
<1> QED BY <1>1, <1>2, <1>4

\* Positive weights have a positive sum: no section divides by zero.
LEMMA TotalPositive ==
  ASSUME NEW S, IsFiniteSet(S), S # {}, NEW w, \A i \in S : w[i] \in Nat /\ w[i] > 0
  PROVE  Total(w, S) > 0
<1>1. PICK f : Adds(f, w, S) /\ Total(w, S) = f[S]
  BY TotalAdds
<1> DEFINE u == S \ {Some(S)}
<1>2. Some(S) \in S /\ IsFiniteSet(u)
  BY SmallerSet, FS_Subset
<1>3. f[S] = w[Some(S)] + f[u]
  BY <1>1 DEF Adds
<1>4. PICK g : Adds(g, w, u) /\ Total(w, u) = g[u]
  BY <1>2, TotalAdds
<1>5. f[u] = g[u]
  <2>1. Adds(f, w, u)
    BY <1>1, AddsBelow
  <2> QED BY <1>2, <1>4, <2>1, AddsOneWay
<1>6. Total(w, u) \in Nat
  BY <1>2, TotalBounds
<1> QED BY <1>1, <1>2, <1>3, <1>4, <1>5, <1>6

----------------------------------------------------------------------------
\* Products rise with a factor.
LEMMA Times ==
  ASSUME NEW a \in Nat, NEW b \in Nat, NEW c \in Nat, a <= b
  PROVE  a * c \in Nat /\ b * c \in Nat /\ a * c <= b * c
<1>1. PICK d \in Nat : b = a + d
  <2>1. b - a \in Nat /\ b = a + (b - a)
    OBVIOUS
  <2> QED BY <2>1
<1>2. b * c = a * c + d * c
  BY <1>1
<1>3. d * c \in Nat /\ a * c \in Nat
  OBVIOUS
<1> QED BY <1>2, <1>3

\* What a division leaves.
LEMMA Quotient ==
  ASSUME NEW a \in Nat, NEW b \in Nat \ {0}
  PROVE  /\ a \div b \in Nat /\ a % b \in 0 .. (b - 1)
         /\ a = (a \div b) * b + (a % b)
OBVIOUS

\* A larger dividend has a larger quotient, or the same and more left over.
LEMMA QuotientRises ==
  ASSUME NEW a \in Nat, NEW c \in Nat, a <= c, NEW b \in Nat \ {0}
  PROVE  \/ a \div b < c \div b
         \/ (a \div b = c \div b) /\ (a % b <= c % b)
<1> DEFINE p == a \div b  q == c \div b  r == a % b  s == c % b
<1>1. p \in Nat /\ q \in Nat /\ r \in 0 .. (b - 1) /\ s \in 0 .. (b - 1)
      /\ a = p * b + r /\ c = q * b + s
  BY Quotient
<1> HIDE DEF p, q, r, s
<1>2. CASE p = q
  <2>1. p * b = q * b /\ p * b \in Nat
    BY <1>1, <1>2
  <2> QED BY <1>1, <1>2, <2>1 DEF p, q, r, s
<1>3. CASE p > q
  <2>1. q + 1 \in Nat /\ q + 1 <= p
    BY <1>1, <1>3
  <2>2. (q + 1) * b <= p * b /\ p * b \in Nat /\ (q + 1) * b \in Nat
    BY <1>1, <2>1, Times
  <2>3. (q + 1) * b = q * b + b /\ q * b \in Nat
    BY <1>1
  <2> QED BY <1>1, <2>2, <2>3
<1>4. CASE p < q
  BY <1>4 DEF p, q
<1> QED BY <1>1, <1>2, <1>3, <1>4

\* Rounding to the nearest, ties to even, keeps the order.
LEMMA RoundDivRises ==
  ASSUME NEW a \in Nat, NEW c \in Nat, a <= c, NEW b \in Nat \ {0}
  PROVE  RoundDiv(a, b) \in Nat /\ RoundDiv(a, b) <= RoundDiv(c, b)
<1> DEFINE p == a \div b  q == c \div b  r == a % b  s == c % b
<1>1. p \in Nat /\ q \in Nat /\ r \in 0 .. (b - 1) /\ s \in 0 .. (b - 1)
  BY Quotient
<1>2. p < q \/ (p = q /\ r <= s)
  BY QuotientRises
<1>3. RoundDiv(a, b) = IF 2 * r > b \/ (2 * r = b /\ p % 2 = 1) THEN p + 1 ELSE p
  BY DEF RoundDiv
<1>4. RoundDiv(c, b) = IF 2 * s > b \/ (2 * s = b /\ q % 2 = 1) THEN q + 1 ELSE q
  BY DEF RoundDiv
<1> HIDE DEF p, q, r, s
<1> QED BY <1>1, <1>2, <1>3, <1>4

\* A part of the whole is rounded to at most the whole.
LEMMA RoundDivCap ==
  ASSUME NEW a \in Nat, NEW b \in Nat \ {0}, a <= Full * b
  PROVE  RoundDiv(a, b) \in 0 .. Full
<1> DEFINE p == a \div b  r == a % b
<1>1. p \in Nat /\ r \in 0 .. (b - 1) /\ a = p * b + r
  BY Quotient
<1>2. RoundDiv(a, b) = IF 2 * r > b \/ (2 * r = b /\ p % 2 = 1) THEN p + 1 ELSE p
  BY DEF RoundDiv
<1> HIDE DEF p, r
<1>3. p < Full \/ (p = Full /\ r = 0)
  <2>1. CASE p >= Full
    <3>1. PICK d \in Nat : p = Full + d
      <4>1. p - Full \in Nat /\ p = Full + (p - Full)
        BY <1>1, <2>1 DEF Full
      <4> QED BY <4>1
    <3>2. p * b = Full * b + d * b /\ d * b \in Nat
      BY <3>1 DEF Full
    <3>3. d * b = 0 /\ r = 0
      BY <1>1, <3>2 DEF Full
    <3>4. d = 0
      <4>1. CASE d >= 1
        <5>1. 1 * b <= d * b
          BY <4>1, Times
        <5> QED BY <3>3, <5>1
      <4> QED BY <4>1
    <3> QED BY <3>1, <3>3, <3>4 DEF Full
  <2> QED BY <1>1, <2>1 DEF Full
<1> QED BY <1>1, <1>2, <1>3 DEF Full

----------------------------------------------------------------------------
\* Min of numbers is the least of them.
LEMMA LeastOf ==
  ASSUME NEW T \in SUBSET Nat, T # {}
  PROVE  Min(T) \in T /\ \A n \in T : Min(T) <= n
<1>1. \E n \in T : \A m \in T : n <= m
  BY LeastNumber
<1> QED BY <1>1 DEF Min

\* Marks on the questions of a form, and rules that were accepted.
MarksOf(S) == [S -> 1 .. 5]

\* What the checks leave of the rules, when the columns have rounded the weights.
LEMMA RulesKept ==
  ASSUME ScoreResultAssumption, NEW r \in StoredRules
  PROVE  /\ r.wGeneral \in Nat /\ r.wSpecialized \in Nat /\ r.bonusMax \in Nat
         /\ r.weights \in [Questions -> Int] /\ \A i \in Questions : r.weights[i] > 0
         /\ r.upper \in Seq(Nat) \ {<<>>} /\ r.upper[Len(r.upper)] > Full
<1>1. PICK q \in RuleSets : Valid(q) /\ r = Stored(q)
  BY DEF StoredRules
<1>2. \A n \in Nat : Thousandths(n) \in Nat
  BY DEF Thousandths
<1>3. q.wGeneral \in Nat /\ q.wSpecialized \in Nat
  BY DEF ScoreResultAssumption
<1>4. /\ r.weights = q.weights /\ r.upper = q.upper /\ r.bonusMax = q.bonusMax
  BY <1>1 DEF Stored
<1>5. r.wGeneral = Thousandths(q.wGeneral) /\ r.wSpecialized = Thousandths(q.wSpecialized)
  BY <1>1 DEF Stored
<1> QED BY <1>1, <1>2, <1>3, <1>4, <1>5 DEF ScoreResultAssumption, Valid

\* The share of a section is within 100 and rises with its marks.
LEMMA SectionRises ==
  ASSUME ScoreResultAssumption, NEW r \in StoredRules,
         NEW A \in SUBSET Questions, NEW sc \in MarksOf(A), NEW tc \in MarksOf(A),
         \A i \in A : sc[i] <= tc[i], NEW S \in SUBSET A
  PROVE  /\ SectionPct(r, sc, S) \in 0 .. Full
         /\ SectionPct(r, tc, S) \in 0 .. Full
         /\ SectionPct(r, sc, S) <= SectionPct(r, tc, S)
<1>1. CASE S = {}
  BY <1>1 DEF SectionPct, Full
<1>2. CASE S # {}
  <2>1. IsFiniteSet(S)
    BY FS_Subset DEF ScoreResultAssumption
  <2> DEFINE w == r.weights
             v == [i \in S |-> sc[i] * w[i]]
             u == [i \in S |-> tc[i] * w[i]]
             b == 5 * Total(w, S)
  <2>2. ASSUME NEW i \in S
        PROVE  /\ w[i] \in Nat /\ w[i] > 0 /\ v[i] \in Nat /\ u[i] \in Nat
               /\ v[i] <= 5 * w[i] /\ u[i] <= 5 * w[i] /\ v[i] <= u[i]
    <3>1. w[i] \in Nat /\ w[i] > 0
      BY RulesKept
    <3>2. sc[i] \in 1 .. 5 /\ tc[i] \in 1 .. 5 /\ sc[i] <= tc[i]
      BY DEF MarksOf
    <3>3. v[i] = sc[i] * w[i] /\ u[i] = tc[i] * w[i]
      OBVIOUS
    <3> DEFINE wi == w[i]  a == sc[i]  c == tc[i]
    <3> HIDE DEF w, u, v
    <3>4. a * wi \in Nat /\ c * wi \in Nat /\ a * wi <= c * wi /\ a * wi <= 5 * wi /\ c * wi <= 5 * wi
      BY <3>1, <3>2, Times
    <3> QED BY <3>1, <3>3, <3>4
  <2> HIDE DEF w, v, u
  <2>3. /\ Total(w, S) \in Nat /\ Total(v, S) \in Nat /\ Total(u, S) \in Nat
        /\ Total(v, S) <= 5 * Total(w, S) /\ Total(u, S) <= 5 * Total(w, S)
    BY <2>1, <2>2, TotalBounds
  <2>4. Total(v, S) <= Total(u, S)
    <3>1. \A i \in S : v[i] \in Nat /\ u[i] \in Nat /\ v[i] <= 1 * u[i]
      BY <2>2
    <3>2. Total(v, S) <= 1 * Total(u, S)
      BY <2>1, <3>1, TotalBounds
    <3> QED BY <2>3, <3>2
  <2>5. Total(w, S) > 0
    BY <1>2, <2>1, <2>2, TotalPositive
  <2>6. b \in Nat \ {0}
    BY <2>3, <2>5
  <2>7. SectionPct(r, sc, S) = RoundDiv(Full * Total(v, S), b)
    BY <1>2 DEF SectionPct, v, w
  <2>8. SectionPct(r, tc, S) = RoundDiv(Full * Total(u, S), b)
    BY <1>2 DEF SectionPct, u, w
  <2> DEFINE x == Full * Total(v, S)  y == Full * Total(u, S)
  <2>9. x \in Nat /\ y \in Nat /\ x <= y /\ x <= Full * b /\ y <= Full * b
    BY <2>3, <2>4 DEF Full
  <2> HIDE DEF x, y, b
  <2>10. RoundDiv(x, b) \in 0 .. Full /\ RoundDiv(y, b) \in 0 .. Full
    BY <2>6, <2>9, RoundDivCap
  <2>11. RoundDiv(x, b) <= RoundDiv(y, b)
    BY <2>6, <2>9, RoundDivRises
  <2> QED BY <2>7, <2>8, <2>10, <2>11 DEF x, y
<1> QED BY <1>1, <1>2

\* So does the mean of the sections, also when one is absent or weighs nothing.
LEMMA BaseRises ==
  ASSUME ScoreResultAssumption, NEW r \in StoredRules,
         NEW A \in SUBSET Questions, NEW sc \in MarksOf(A), NEW tc \in MarksOf(A),
         \A i \in A : sc[i] <= tc[i]
  PROVE  /\ BasePct(r, sc) \in 0 .. Full /\ BasePct(r, tc) \in 0 .. Full
         /\ BasePct(r, sc) <= BasePct(r, tc)
<1> DEFINE g == InSection(A, "general")
           s == InSection(A, "specialized")
           p == SectionPct(r, sc, g)  q == SectionPct(r, sc, s)
           pp == SectionPct(r, tc, g)  qq == SectionPct(r, tc, s)
           wg == IF g = {} THEN 0 ELSE r.wGeneral
           ws == IF s = {} THEN 0 ELSE r.wSpecialized
           present == (IF g = {} THEN 0 ELSE 1) + (IF s = {} THEN 0 ELSE 1)
<1>1. DOMAIN sc = A /\ DOMAIN tc = A /\ g \in SUBSET A /\ s \in SUBSET A
  BY DEF MarksOf, InSection
<1>2. BasePct(r, sc) = IF present = 0 THEN 0
                       ELSE IF wg + ws > 0 THEN RoundDiv(p * wg + q * ws, wg + ws)
                       ELSE RoundDiv(p + q, present)
  BY <1>1 DEF BasePct
<1>3. BasePct(r, tc) = IF present = 0 THEN 0
                       ELSE IF wg + ws > 0 THEN RoundDiv(pp * wg + qq * ws, wg + ws)
                       ELSE RoundDiv(pp + qq, present)
  BY <1>1 DEF BasePct
<1>4. p \in 0 .. Full /\ pp \in 0 .. Full /\ p <= pp
  BY <1>1, SectionRises
<1>5. q \in 0 .. Full /\ qq \in 0 .. Full /\ q <= qq
  BY <1>1, SectionRises
<1>6. wg \in Nat /\ ws \in Nat
  BY RulesKept
<1>7. present \in 0 .. 2
  OBVIOUS
<1>8. present = 0 \/ present = 1 \/ present = 2
  OBVIOUS
<1>9. present = 1 => p + q <= Full /\ pp + qq <= Full
  BY <1>4, <1>5 DEF SectionPct
<1> HIDE DEF g, s, p, q, pp, qq, wg, ws, present
<1>10. CASE present = 0
  BY <1>2, <1>3, <1>10 DEF Full
<1>11. CASE present # 0 /\ wg + ws > 0
  <2>1. /\ p * wg \in Nat /\ pp * wg \in Nat /\ p * wg <= pp * wg /\ pp * wg <= Full * wg
        /\ q * ws \in Nat /\ qq * ws \in Nat /\ q * ws <= qq * ws /\ qq * ws <= Full * ws
    BY <1>4, <1>5, <1>6, Times DEF Full
  <2> DEFINE x == p * wg + q * ws  y == pp * wg + qq * ws  b == wg + ws
  <2>2. x \in Nat /\ y \in Nat /\ x <= y /\ y <= Full * b /\ x <= Full * b
        /\ b \in Nat \ {0}
    BY <1>6, <1>11, <2>1 DEF Full
  <2>3. BasePct(r, sc) = RoundDiv(x, b) /\ BasePct(r, tc) = RoundDiv(y, b)
    BY <1>2, <1>3, <1>11
  <2> HIDE DEF x, y, b
  <2> QED BY <2>2, <2>3, RoundDivRises, RoundDivCap
<1>12. CASE present # 0 /\ ~(wg + ws > 0)
  <2> DEFINE x == p + q  y == pp + qq
  <2>1. x \in Nat /\ y \in Nat /\ x <= y /\ y <= Full * present /\ x <= Full * present
        /\ present \in Nat \ {0}
    BY <1>4, <1>5, <1>7, <1>8, <1>9, <1>12 DEF Full
  <2>2. BasePct(r, sc) = RoundDiv(x, present) /\ BasePct(r, tc) = RoundDiv(y, present)
    BY <1>2, <1>3, <1>12
  <2> HIDE DEF x, y
  <2> QED BY <2>1, <2>2, RoundDivRises, RoundDivCap
<1> QED BY <1>10, <1>11, <1>12

\* The bonus on top keeps the order, whichever cap cuts it.
LEMMA FinalRises ==
  ASSUME ScoreResultAssumption, NEW r \in StoredRules,
         NEW A \in SUBSET Questions, NEW sc \in MarksOf(A), NEW tc \in MarksOf(A),
         \A i \in A : sc[i] <= tc[i], NEW b \in Nat, NEW c \in Nat, b <= c
  PROVE  /\ FinalPct(r, sc, b) \in 0 .. Full /\ FinalPct(r, tc, c) \in 0 .. Full
         /\ FinalPct(r, sc, b) <= FinalPct(r, tc, c)
<1> DEFINE p == BasePct(r, sc)  q == BasePct(r, tc)
           x == 10 * p + AppliedBonus(r, b, p)
           y == 10 * q + AppliedBonus(r, c, q)
<1>1. p \in 0 .. Full /\ q \in 0 .. Full /\ p <= q
  BY BaseRises
<1>2. r.bonusMax \in Nat
  BY RulesKept
<1> HIDE DEF p, q
<1>3. x \in Nat /\ y \in Nat /\ x <= y /\ x <= Full * 10 /\ y <= Full * 10
  BY <1>1, <1>2 DEF AppliedBonus, Min2, Max2, Full
<1>4. FinalPct(r, sc, b) = RoundDiv(x, 10) /\ FinalPct(r, tc, c) = RoundDiv(y, 10)
  BY DEF FinalPct, p, q
<1> HIDE DEF x, y
<1> QED BY <1>3, <1>4, RoundDivRises, RoundDivCap

\* A higher percentage is on the same step or a higher one.
LEMMA StepRises ==
  ASSUME ScoreResultAssumption, NEW r \in StoredRules,
         NEW p \in 0 .. Full, NEW q \in 0 .. Full, p <= q
  PROVE  Recommendation(r, p) <= Recommendation(r, q)
<1> DEFINE T == {k \in DOMAIN r.upper : p < r.upper[k]}
           U == {k \in DOMAIN r.upper : q < r.upper[k]}
<1>1. r.upper \in Seq(Nat) /\ Len(r.upper) \in DOMAIN r.upper /\ DOMAIN r.upper \subseteq Nat
  BY RulesKept
<1>2. Len(r.upper) \in U
  <2> DEFINE u == r.upper[Len(r.upper)]
  <2>1. u > Full
    BY RulesKept
  <2>2. u \in Nat
    BY <1>1
  <2> HIDE DEF u
  <2>3. q < u
    <3>1. u > 1000 /\ q \in 0 .. 1000
      BY <2>1 DEF Full
    <3> QED BY <2>2, <3>1
  <2> QED BY <1>1, <2>3 DEF u
<1>3. U \subseteq T /\ T \in SUBSET Nat
  BY <1>1 DEF Full
<1>4. Recommendation(r, p) = Min(T) /\ Recommendation(r, q) = Min(U)
  BY <1>2, <1>3 DEF Recommendation
<1> HIDE DEF T, U
<1>5. U # {} /\ T # {} /\ U \in SUBSET Nat
  BY <1>2, <1>3
<1>6. Min(U) \in U
  BY <1>5, LeastOf
<1>7. \A n \in T : Min(T) <= n
  BY <1>3, <1>5, LeastOf
<1> QED BY <1>3, <1>4, <1>6, <1>7

\* The steps are numbered.
LEMMA RecommendationIsAStep ==
  ASSUME ScoreResultAssumption, NEW r \in StoredRules, NEW p \in 0 .. Full
  PROVE  Recommendation(r, p) \in Nat
<1> DEFINE T == {k \in DOMAIN r.upper : p < r.upper[k]}
<1>1. Len(r.upper) \in Nat /\ DOMAIN r.upper \subseteq Nat
  BY RulesKept
<1>2. T # {} => Min(T) \in Nat
  BY <1>1, LeastOf
<1> QED BY <1>1, <1>2 DEF Recommendation

----------------------------------------------------------------------------
\* The form in hand: accepted rules, marks on questions of its own, a bonus.
ScoreInv ==
  /\ rules \in StoredRules
  /\ asked \in SUBSET Questions
  /\ DOMAIN scores \in SUBSET asked /\ scores \in MarksOf(DOMAIN scores)
  /\ bonus \in Nat

\* An empty form is well made.
LEMMA InitScore == ScoreInit => ScoreInv
BY DEF ScoreInit, ScoreInv, MarksOf

\* Marks and bonus keep the form well made, its rules and its questions.
LEMMA ScoreStep ==
  ASSUME ScoreResultAssumption, ScoreInv, [ScoreResultNext]_scoreVars
  PROVE  ScoreInv' /\ UNCHANGED <<rules, asked>>
<1> USE DEF ScoreInv
<1>1. ASSUME NEW i \in asked, NEW m \in Marks, NEW n \in Words, Mark(i, m, n)
      PROVE  ScoreInv' /\ UNCHANGED <<rules, asked>>
  <2>1. m \in 1 .. 5
    BY DEF ScoreResultAssumption
  <2>2. DOMAIN scores' = DOMAIN scores \cup {i} /\ scores' \in MarksOf(DOMAIN scores \cup {i})
    BY <1>1, <2>1 DEF Mark, MarksOf
  <2> QED BY <1>1, <2>2 DEF Mark
<1>2. ASSUME NEW b \in Bonuses, NEW reason \in {0, ReasonMin}, SetSpecialScore(b, reason)
      PROVE  ScoreInv' /\ UNCHANGED <<rules, asked>>
  BY <1>2 DEF SetSpecialScore, BonusOk
<1>3. CASE UNCHANGED scoreVars
  BY <1>3 DEF scoreVars
<1> QED BY <1>1, <1>2, <1>3 DEF ScoreResultNext

\* compute_result: better marks or more bonus never make the result or the
\* recommendation worse, and no result passes 100.
THEOREM ResultsRise ==
  ASSUME ScoreResultAssumption
  PROVE  ScoreResultSpec => BetterIsNeverWorse
<1>1. ScoreInv /\ [ScoreResultNext]_scoreVars => ScoreInv' /\ [NotWorse]_scoreVars
  <2> SUFFICES ASSUME ScoreInv, [ScoreResultNext]_scoreVars
               PROVE  ScoreInv' /\ NotWorse
    OBVIOUS
  <2>1. ScoreInv' /\ UNCHANGED <<rules, asked>>
    BY ScoreStep
  <2>2. ASSUME Accepted, Accepted', bonus' >= bonus, \A i \in asked : scores'[i] >= scores[i]
        PROVE  /\ Result' \in Result .. Full
               /\ Recommendation(rules, Result') >= Recommendation(rules, Result)
    <3>1. scores \in MarksOf(asked) /\ scores' \in MarksOf(asked)
      BY <2>1, <2>2 DEF Accepted, ScoreInv
    <3>2. \A i \in asked : scores[i] <= scores'[i]
      BY <2>2, <3>1 DEF MarksOf
    <3>3. /\ Result \in 0 .. Full /\ FinalPct(rules, scores', bonus') \in 0 .. Full
          /\ Result <= FinalPct(rules, scores', bonus')
      BY <2>1, <2>2, <3>1, <3>2, FinalRises DEF ScoreInv, Result
    <3>4. Result' = FinalPct(rules, scores', bonus')
      BY <2>1 DEF Result
    <3>5. Recommendation(rules, Result) <= Recommendation(rules, Result')
      BY <3>3, <3>4, StepRises DEF ScoreInv
    <3>6. \A p \in 0 .. Full : Recommendation(rules, p) \in Nat
      BY RecommendationIsAStep DEF ScoreInv
    <3> QED BY <3>3, <3>4, <3>5, <3>6 DEF Full
  <2> QED BY <2>1, <2>2 DEF NotWorse
<1> QED BY <1>1, InitScore, PTL DEF ScoreResultSpec, BetterIsNeverWorse

-----------------------------------------------------------------------------
(* The chain of hashes.                                                    *)

\* The hash of a row is not where the chain begins.
LEMMA HashIsNotGenesis == \A e, p : HashOf(e, p) # Genesis
BY DEF HashOf, Genesis

\* h is the hash of the n-th row of a chain.
IsDepth(h, n) ==
    \E f : /\ f[0] = Genesis
           /\ \A i \in 1 .. n : f[i] = HashOf("written", f[i - 1])
           /\ f[n] = h

\* The chain begins at depth 0.
LEMMA DepthOfGenesis == IsDepth(Genesis, 0)
<1> DEFINE f == [i \in {0} |-> Genesis]
<1>1. f[0] = Genesis /\ \A i \in 1 .. 0 : f[i] = HashOf("written", f[i - 1])
  OBVIOUS
<1> QED BY <1>1 DEF IsDepth

\* The hash made from another is one deeper.
LEMMA DepthOfHash ==
  ASSUME NEW h, NEW n \in Nat, IsDepth(h, n)
  PROVE  IsDepth(HashOf("written", h), n + 1)
<1>1. PICK f : /\ f[0] = Genesis
               /\ \A i \in 1 .. n : f[i] = HashOf("written", f[i - 1])
               /\ f[n] = h
  BY DEF IsDepth
<1> DEFINE x == HashOf("written", h)
           g == [i \in 0 .. n + 1 |-> IF i = n + 1 THEN x ELSE f[i]]
<1> HIDE DEF x
<1>2. g[0] = Genesis /\ g[n + 1] = x
  BY <1>1
<1>3. ASSUME NEW i \in 1 .. n + 1 PROVE g[i] = HashOf("written", g[i - 1])
  <2>1. CASE i = n + 1
    <3>1. g[i] = x /\ g[i - 1] = h
      BY <1>1, <2>1
    <3> QED BY <3>1 DEF x
  <2>2. CASE i # n + 1
    <3>1. i \in 1 .. n /\ g[i] = f[i] /\ g[i - 1] = f[i - 1]
      BY <2>2
    <3> QED BY <1>1, <3>1
  <2> QED BY <2>1, <2>2
<1> HIDE DEF g
<1>4. IsDepth(x, n + 1)
  BY <1>2, <1>3 DEF IsDepth
<1> QED BY <1>4 DEF x

\* A hash that is not the beginning was made from another.
LEMMA DepthBelow ==
  ASSUME NEW h, NEW n \in Nat \ {0}, IsDepth(h, n)
  PROVE  \E g : h = HashOf("written", g) /\ IsDepth(g, n - 1)
<1>1. PICK f : /\ f[0] = Genesis
               /\ \A i \in 1 .. n : f[i] = HashOf("written", f[i - 1])
               /\ f[n] = h
  BY DEF IsDepth
<1>2. h = HashOf("written", f[n - 1])
  BY <1>1
<1>3. \A i \in 1 .. n - 1 : f[i] = HashOf("written", f[i - 1])
  BY <1>1
<1>4. IsDepth(f[n - 1], n - 1)
  BY <1>1, <1>3 DEF IsDepth
<1> QED BY <1>2, <1>4

\* A hash is in one place of the chain.
LEMMA DepthIsOne ==
  ASSUME NEW h, NEW m \in Nat, NEW n \in Nat, IsDepth(h, m), IsDepth(h, n)
  PROVE  m = n
<1> DEFINE Two(k) == \E g : \E l \in Nat : l # k /\ IsDepth(g, k) /\ IsDepth(g, l)
           T == {k \in Nat : Two(k)}
<1> SUFFICES ASSUME m # n PROVE FALSE
  OBVIOUS
<1>1. T \in SUBSET Nat /\ T # {}
  OBVIOUS
<1>2. PICK k \in T : \A l \in T : k <= l
  BY <1>1, LeastNumber
<1>k. k \in Nat /\ Two(k)
  OBVIOUS
<1> HIDE DEF T
<1>g. PICK g : \E l \in Nat : l # k /\ IsDepth(g, k) /\ IsDepth(g, l)
  BY <1>k
<1>3. PICK l \in Nat : l # k /\ IsDepth(g, k) /\ IsDepth(g, l)
  BY <1>g
<1> HIDE DEF Two
<1>4. ASSUME NEW x \in Nat, IsDepth(g, x), x # 0 PROVE g # Genesis
  <2>1. PICK a : g = HashOf("written", a)
    BY <1>4, DepthBelow
  <2> QED BY <2>1 DEF HashOf, Genesis
<1>5. IsDepth(g, 0) => g = Genesis
  BY DEF IsDepth
<1>6. k # 0 /\ l # 0
  BY <1>k, <1>3, <1>4, <1>5
<1>7. PICK a : g = HashOf("written", a) /\ IsDepth(a, k - 1)
  BY <1>k, <1>3, <1>6, DepthBelow
<1>8. PICK b : g = HashOf("written", b) /\ IsDepth(b, l - 1)
  BY <1>3, <1>6, DepthBelow
<1>9. a = b
  BY <1>7, <1>8 DEF HashOf
<1>10. k - 1 \in Nat /\ l - 1 \in Nat /\ l - 1 # k - 1
  BY <1>k, <1>3, <1>6
<1>11. k - 1 \in T
  BY <1>k, <1>7, <1>8, <1>9, <1>10 DEF T, Two
<1>12. k <= k - 1
  BY <1>2, <1>11
<1> QED BY <1>k, <1>12

----------------------------------------------------------------------------
\* Every row there is, committed or not.
Written == log \cup UNION {pending[w] : w \in Writers}

IsRow(r) ==
  /\ r = [id |-> r.id, event |-> r.event, prev |-> r.prev, hash |-> r.hash, after |-> r.after]
  /\ r.id \in 1 .. lastId /\ r.after \in Nat /\ r.after < r.id
  /\ r.event \in {"written", "altered"}
  /\ r.hash = HashOf("written", r.prev)
  /\ r.after = 0 <=> r.prev = Genesis

\* Two readings of a row, which may differ in its event.
SameRow(q, r) ==
  /\ q.id = r.id /\ q.prev = r.prev /\ q.hash = r.hash /\ q.after = r.after

\* An earlier row is the one a row was written after, or one before that: then
\* its hash is further down in the chain.
Chained(q, r) ==
  /\ q.id <= r.after
  /\ q.id = r.after => r.prev = q.hash
  /\ \A m, n \in Nat : IsDepth(q.prev, m) /\ IsDepth(r.prev, n) =>
        m < n /\ (q.id # r.after => m + 1 < n)

RowsInv ==
  /\ lastId \in Nat
  /\ \A r \in Written : IsRow(r) /\ \E n \in Nat : IsDepth(r.prev, n)
  /\ \A q, r \in Written : /\ q.id < r.id => Chained(q, r)
                           /\ q.id = r.id => SameRow(q, r)

\* While nobody has touched the log, no row has lost the one before it.
UntouchedInv ==
  /\ tampered \in Nat
  /\ tampered = 0 =>
       /\ \A r \in Written : r.event = "written"
       /\ sweep # NoHead => sweep.event = "written"
       /\ \A r \in log : r.after = 0 \/ \E q \in log : q.id = r.after
       /\ \A w \in Writers : \A r \in pending[w] :
             r.after = 0 \/ \E q \in log \cup pending[w] : q.id = r.after

\* The head a verification has read and the row of an anchor keep their hash.
VouchedInv ==
  /\ sweep.id \in Nat /\ sweep.id <= lastId
  /\ sweep # NoHead => IsRow(sweep)
  /\ \A r \in Written : r.id = sweep.id => SameRow(r, sweep)
  /\ \E S : checks \in Seq(S)
  /\ \A i \in Anchors : \E r \in log : r.id = checks[i].id /\ r.hash = checks[i].hash

TrailInv ==
  /\ pending = [w \in Writers |-> pending[w]]
  /\ RowsInv /\ UntouchedInv /\ VouchedInv /\ VerdictIsTrue

----------------------------------------------------------------------------
\* The query for the latest row finds it.
LEMMA LatestIsLast ==
  ASSUME NEW k \in Nat, NEW rows, rows # {}, \A r \in rows : r.id \in 1 .. k
  PROVE  Latest(rows) \in rows /\ \A r \in rows : r.id <= Latest(rows).id
<1> DEFINE T == {r.id : r \in rows}
<1>1. T \in SUBSET (0 .. k) /\ T # {}
  OBVIOUS
<1>2. PICK n \in T : \A m \in T : m <= n
  BY <1>1, GreatestNumber
<1>3. PICK r \in rows : r.id = n
  BY <1>2
<1>4. \E row \in rows : \A other \in rows : other.id <= row.id
  BY <1>2, <1>3
<1> QED BY <1>4 DEF Latest

\* The walk is green when every row follows and is genuine.
LEMMA NothingBroken ==
  ASSUME NEW rows, \A r \in rows : r.id \in Nat \ {0}, NEW e
  PROVE  BrokenAt(rows, e) = 0 <=> \A r \in rows : Follows(rows, r, e) /\ Genuine(r)
<1> DEFINE wrong == {row \in rows : ~Follows(rows, row, e) \/ ~Genuine(row)}
<1>1. CASE wrong = {}
  BY <1>1 DEF BrokenAt
<1>2. CASE wrong # {}
  <2> DEFINE T == {r.id : r \in wrong}
  <2>1. T \in SUBSET Nat /\ T # {}
    BY <1>2
  <2>2. PICK n \in T : \A m \in T : n <= m
    BY <2>1, LeastNumber
  <2>3. PICK r \in wrong : r.id = n
    BY <2>2
  <2>4. \E row \in wrong : \A other \in wrong : row.id <= other.id
    BY <2>2, <2>3
  <2> DEFINE first == CHOOSE row \in wrong : \A other \in wrong : row.id <= other.id
  <2>5. first \in wrong
    BY <2>4
  <2>6. BrokenAt(rows, e) = first.id
    BY <1>2 DEF BrokenAt
  <2> QED BY <2>5, <2>6, <1>2
<1> QED BY <1>1, <1>2

\* A row names the hash of the row it was written after, and of no other.
LEMMA SecondToLast ==
  ASSUME RowsInv, NEW q \in Written, NEW r \in Written, q.id < r.id
  PROVE  r.prev = q.hash <=> q.id = r.after
<1>1. Chained(q, r) /\ IsRow(q) /\ IsRow(r)
  BY DEF RowsInv
<1>2. CASE q.id = r.after
  BY <1>1, <1>2 DEF Chained
<1>3. CASE q.id # r.after
  <2>1. PICK m \in Nat : IsDepth(q.prev, m)
    BY DEF RowsInv
  <2>2. PICK n \in Nat : IsDepth(r.prev, n)
    BY DEF RowsInv
  <2>3. IsDepth(q.hash, m + 1)
    BY <1>1, <2>1, DepthOfHash DEF IsRow
  <2>4. m + 1 < n
    BY <1>1, <1>3, <2>1, <2>2 DEF Chained
  <2>5. ASSUME r.prev = q.hash PROVE m + 1 = n
    BY <2>2, <2>3, <2>5, DepthIsOne
  <2> QED BY <1>3, <2>4, <2>5
<1> QED BY <1>2, <1>3

\* A walk over rows as they were read, from the beginning or after one of them.
LEMMA WalkTellsTheTruth ==
  ASSUME TrailInv, NEW read, \A c \in read : IsRow(c) /\ \E r \in Written : SameRow(r, c),
         NEW id \in Nat, NEW h,
         (id = 0 /\ h = Genesis) \/ \E a \in read : a.id = id /\ a.hash = h
  PROVE  BrokenAt(After(read, id), h) = 0 <=> ~Harmed(read, id)
<1> DEFINE rows == After(read, id)
<1>1. \A r \in read : IsRow(r)
  OBVIOUS
<1>0. ASSUME NEW q \in read, NEW r \in read, q.id < r.id
      PROVE  q.id <= r.after /\ (r.prev = q.hash <=> q.id = r.after)
  <2>1. PICK q0 \in Written : SameRow(q0, q)
    OBVIOUS
  <2>2. PICK r0 \in Written : SameRow(r0, r)
    OBVIOUS
  <2>3. q0.id < r0.id
    BY <1>0, <2>1, <2>2 DEF SameRow
  <2>4. q0.id <= r0.after
    BY <2>3 DEF TrailInv, RowsInv, Chained
  <2>5. r0.prev = q0.hash <=> q0.id = r0.after
    BY <2>3, SecondToLast DEF TrailInv
  <2> QED BY <2>1, <2>2, <2>4, <2>5 DEF SameRow
<1>2. \A r \in rows : r \in read /\ r.id > id /\ r.id \in Nat \ {0} /\ r.id \in 1 .. lastId
  BY <1>1 DEF After, IsRow
<1>l. lastId \in Nat
  BY DEF TrailInv, RowsInv
<1>3. ASSUME NEW r \in rows
      PROVE  Genuine(r) <=> r.event # "altered"
  BY <1>1, <1>2 DEF Genuine, HashOf, IsRow
<1>4. ASSUME NEW r \in rows
      PROVE  Follows(rows, r, h) <=> r.after = 0 \/ \E q \in read : q.id = r.after
  <2> DEFINE before == Earlier(rows, r)
  <2>1. IsRow(r) /\ r \in read /\ r.id > id /\ r.after \in Nat /\ r.id \in Nat
    BY <1>1, <1>2 DEF IsRow
  <2>2. \A q \in read : q.id < r.id => q.id <= r.after /\ (r.prev = q.hash <=> q.id = r.after)
    BY <1>0, <2>1
  <2>3. \A q \in read : q.id = r.after => q.id < r.id
    BY <2>1 DEF IsRow
  <2>4. CASE before = {}
    <3>1. Follows(rows, r, h) <=> r.prev = h
      BY <2>4 DEF Follows
    <3>2. \A q \in read : q.id < r.id => q.id <= id
      BY <1>1, <2>4 DEF Earlier, After, IsRow
    <3>3. CASE id = 0 /\ h = Genesis
      <4>1. \A q \in read : q.id # r.after
        BY <1>1, <2>3, <3>2, <3>3 DEF IsRow
      <4> QED BY <2>1, <3>1, <3>3, <4>1 DEF IsRow
    <3>4. CASE \E a \in read : a.id = id /\ a.hash = h
      <4>1. PICK a \in read : a.id = id /\ a.hash = h
        BY <3>4
      <4>2. id <= r.after /\ id # 0 /\ (r.prev = h <=> id = r.after)
        BY <1>1, <2>1, <2>2, <4>1 DEF IsRow
      <4>3. \A q \in read : q.id = r.after => r.after <= id
        BY <2>3, <3>2
      <4> QED BY <2>1, <3>1, <4>1, <4>2, <4>3
    <3> QED BY <3>3, <3>4
  <2>5. CASE before # {}
    <3> DEFINE last == Latest(before)
    <3>1. \A q \in before : q \in rows /\ q \in read /\ q.id < r.id /\ q.id \in 1 .. lastId
      BY <1>2 DEF Earlier
    <3>2. last \in before /\ \A q \in before : q.id <= last.id
      BY <1>l, <2>5, <3>1, LatestIsLast
    <3>3. Follows(rows, r, h) <=> r.prev = last.hash
      BY <2>5 DEF Follows
    <3>4. last.id <= r.after /\ (r.prev = last.hash <=> last.id = r.after) /\ last.id > id
      BY <1>2, <2>2, <3>1, <3>2
    <3>5. ASSUME NEW q \in read, q.id = r.after PROVE last.id = r.after
      <4>1. q.id < r.id /\ q.id > id
        BY <1>2, <2>1, <2>3, <3>1, <3>2, <3>4, <3>5
      <4>2. q \in before
        BY <4>1 DEF Earlier, After
      <4> QED BY <1>2, <2>1, <3>1, <3>2, <3>4, <3>5, <4>2
    <3>6. r.after # 0
      BY <1>2, <2>1, <3>1, <3>2, <3>4
    <3> QED BY <3>1, <3>2, <3>3, <3>4, <3>5, <3>6
  <2> QED BY <2>4, <2>5
<1>5. BrokenAt(rows, h) = 0 <=> \A r \in rows : Follows(rows, r, h) /\ Genuine(r)
  BY <1>2, NothingBroken
<1> HIDE DEF rows
<1>6. Harmed(read, id) <=> \E r \in rows : \/ r.event = "altered"
                                     \/ ~(r.after = 0 \/ \E q \in read : q.id = r.after)
  BY DEF Harmed, rows
<1> QED BY <1>3, <1>4, <1>5, <1>6 DEF rows

\* A step that writes no row keeps what is known of the rows.
LEMMA NothingNewKeepsRows ==
  ASSUME RowsInv, UNCHANGED lastId,
         \A r \in Written' : \E q \in Written : q = r \/ r = [q EXCEPT !.event = "altered"]
  PROVE  /\ RowsInv'
         /\ \A r \in Written' : \E q \in Written : SameRow(q, r)
<1>1. ASSUME NEW r \in Written', NEW q \in Written, q = r \/ r = [q EXCEPT !.event = "altered"]
      PROVE  SameRow(q, r) /\ IsRow(r)'
  <2>1. IsRow(q)
    BY DEF RowsInv
  <2>2. CASE q = r
    BY <2>1, <2>2 DEF SameRow, IsRow
  <2>3. CASE r = [q EXCEPT !.event = "altered"]
    <3> DEFINE i == q.id  e == q.event  p == q.prev  h == q.hash  a == q.after
    <3>1. q = [id |-> i, event |-> e, prev |-> p, hash |-> h, after |-> a]
      BY <2>1 DEF IsRow
    <3> HIDE DEF i, e, p, h, a
    <3>2. r = [id |-> i, event |-> "altered", prev |-> p, hash |-> h, after |-> a]
      BY <2>3, <3>1
    <3>3. SameRow(q, r) /\ r.event = "altered"
      BY <3>1, <3>2 DEF SameRow
    <3>4. r = [id |-> r.id, event |-> r.event, prev |-> r.prev, hash |-> r.hash, after |-> r.after]
      BY <3>2
    <3> QED BY <2>1, <3>3, <3>4 DEF SameRow, IsRow
  <2> QED BY <1>1, <2>2, <2>3
<1>2. \A r \in Written' : IsRow(r)' /\ \E q \in Written : SameRow(q, r)
  BY <1>1
<1>3. \A r \in Written' : \E n \in Nat : IsDepth(r.prev, n)
  BY <1>2 DEF RowsInv, SameRow
<1>4. ASSUME NEW q \in Written', NEW r \in Written'
      PROVE  /\ q.id < r.id => Chained(q, r)
             /\ q.id = r.id => SameRow(q, r)
  <2>1. PICK q0 \in Written : SameRow(q0, q)
    BY <1>2
  <2>2. PICK r0 \in Written : SameRow(r0, r)
    BY <1>2
  <2>3. /\ q0.id < r0.id => Chained(q0, r0)
        /\ q0.id = r0.id => SameRow(q0, r0)
    BY DEF RowsInv
  <2> QED BY <2>1, <2>2, <2>3 DEF SameRow, Chained
<1> QED BY <1>2, <1>3, <1>4 DEF RowsInv

\* So does the row log_event appends, behind all the others.
LEMMA AppendKeepsRows ==
  ASSUME TrailInv, NEW w \in Writers, LogEvent(w)
  PROVE  LET new == Entry(log \cup pending[w])
         IN  /\ RowsInv'
             /\ Written' = Written \cup {new}
             /\ new.event = "written" /\ new.id = lastId + 1
             /\ new.after = 0 \/ \E q \in log \cup pending[w] : q.id = new.after
<1> DEFINE rows == log \cup pending[w]
<1>0. PICK new : new = Entry(rows)
  OBVIOUS
<1>1. Written = rows /\ Written' = Written \cup {new}
  <2>1. pending = [v \in Writers |-> pending[v]]
    BY DEF TrailInv
  <2>2. \A v \in Writers : v # w => pending[v] = {}
    BY DEF LogEvent, MayAppend
  <2>3. \A v \in Writers : pending'[v] = IF v = w THEN pending[w] \cup {new} ELSE pending[v]
    BY <1>0, <2>1 DEF LogEvent
  <2>4. log' = log
    BY DEF LogEvent
  <2> QED BY <2>2, <2>3, <2>4 DEF Written
<1>2. lastId \in Nat /\ lastId' = lastId + 1 /\ \A r \in rows : IsRow(r)
  BY <1>1 DEF TrailInv, RowsInv, LogEvent
<1> DEFINE p == LastHash(rows)
           a == IF rows = {} THEN 0 ELSE Latest(rows).id
<1>3. new = [id |-> lastId + 1, event |-> "written", prev |-> p,
             hash |-> HashOf("written", p), after |-> a]
  BY <1>0 DEF Entry
<1>4. /\ rows = {} => p = Genesis /\ a = 0
      /\ rows # {} => /\ Latest(rows) \in rows
                      /\ \A r \in rows : r.id <= Latest(rows).id
                      /\ p = Latest(rows).hash /\ a = Latest(rows).id
  <2>1. CASE rows = {}
    BY <2>1 DEF LastHash
  <2>2. CASE rows # {}
    <3>1. \A r \in rows : r.id \in 1 .. lastId
      BY <1>2 DEF IsRow
    <3>2. Latest(rows) \in rows /\ \A r \in rows : r.id <= Latest(rows).id
      BY <1>2, <2>2, <3>1, LatestIsLast
    <3> QED BY <2>2, <3>2 DEF LastHash
  <2> QED BY <2>1, <2>2
<1> HIDE DEF p, a
<1>5. \E n \in Nat : IsDepth(p, n)
  <2>1. CASE rows = {}
    BY <1>4, <2>1, DepthOfGenesis
  <2>2. CASE rows # {}
    <3>1. PICK n \in Nat : IsDepth(Latest(rows).prev, n)
      BY <1>1, <1>4, <2>2 DEF TrailInv, RowsInv
    <3>2. IsDepth(p, n + 1)
      BY <1>2, <1>4, <2>2, <3>1, DepthOfHash DEF IsRow
    <3> QED BY <3>1, <3>2
  <2> QED BY <2>1, <2>2
<1>6. a \in 0 .. lastId /\ (a = 0 <=> p = Genesis)
  <2>1. CASE rows = {}
    BY <1>2, <1>4, <2>1
  <2>2. CASE rows # {}
    <3>1. IsRow(Latest(rows))
      BY <1>2, <1>4, <2>2
    <3>2. a \in 1 .. lastId
      BY <1>4, <2>2, <3>1 DEF IsRow
    <3>3. p # Genesis
      BY <1>4, <2>2, <3>1, HashIsNotGenesis DEF IsRow
    <3> QED BY <1>2, <3>2, <3>3
  <2> QED BY <2>1, <2>2
<1>7. new.id = lastId + 1 /\ new.event = "written" /\ new.prev = p
      /\ new.hash = HashOf("written", p) /\ new.after = a
  BY <1>3
<1>8. IsRow(new)'
  <2>1. new = [id |-> new.id, event |-> new.event, prev |-> new.prev,
               hash |-> new.hash, after |-> new.after]
    BY <1>3
  <2>2. new.id \in 1 .. lastId' /\ new.after \in Nat /\ new.after < new.id
    BY <1>2, <1>6, <1>7
  <2> QED BY <1>6, <1>7, <2>1, <2>2 DEF IsRow
<1>9. ASSUME NEW q \in rows
      PROVE  q.id < new.id /\ Chained(q, new)
  <2> DEFINE last == Latest(rows)
  <2>1. last \in rows /\ q.id <= last.id /\ p = last.hash /\ a = last.id
    BY <1>4
  <2> HIDE DEF last
  <2>2. IsRow(q) /\ IsRow(last) /\ q \in Written /\ last \in Written
    BY <1>1, <1>2, <2>1
  <2>3. q.id \in Nat /\ last.id \in Nat
    BY <1>2, <2>2 DEF IsRow
  <2>4. q.id = a => p = q.hash /\ q.prev = last.prev
    BY <2>1, <2>2 DEF TrailInv, RowsInv, IsRow, SameRow
  <2>5. ASSUME NEW m \in Nat, NEW n \in Nat, IsDepth(q.prev, m), IsDepth(p, n)
        PROVE  m < n /\ (q.id # a => m + 1 < n)
    <3>1. PICK k \in Nat : IsDepth(last.prev, k)
      BY <2>2 DEF TrailInv, RowsInv
    <3>2. IsDepth(p, k + 1)
      BY <2>1, <2>2, <3>1, DepthOfHash DEF IsRow
    <3>3. n = k + 1
      BY <2>5, <3>2, DepthIsOne
    <3>4. CASE q.id = a
      <4>1. m = k
        BY <2>4, <2>5, <3>1, <3>4, DepthIsOne
      <4> QED BY <3>3, <3>4, <4>1
    <3>5. CASE q.id # a
      <4>1. Chained(q, last)
        BY <2>1, <2>2, <2>3, <3>5 DEF TrailInv, RowsInv
      <4>2. m < k
        BY <2>5, <3>1, <4>1 DEF Chained
      <4> QED BY <3>3, <4>2
    <3> QED BY <3>4, <3>5
  <2>6. q.id < new.id
    BY <1>2, <1>7, <2>2 DEF IsRow
  <2> QED BY <1>7, <2>1, <2>4, <2>5, <2>6 DEF Chained
<1>10. \A r \in rows : IsRow(r)'
  BY <1>2 DEF IsRow
<1>11. RowsInv'
  <2>1. \A r \in Written' : IsRow(r)' /\ \E n \in Nat : IsDepth(r.prev, n)
    <3>1. \A r \in rows : \E n \in Nat : IsDepth(r.prev, n)
      BY <1>1 DEF TrailInv, RowsInv
    <3> QED BY <1>1, <1>5, <1>7, <1>8, <1>10, <3>1
  <2>2. ASSUME NEW q \in Written', NEW r \in Written'
        PROVE  /\ q.id < r.id => Chained(q, r)
               /\ q.id = r.id => SameRow(q, r)
    <3>1. CASE q \in rows /\ r \in rows
      BY <1>1, <3>1 DEF TrailInv, RowsInv
    <3>2. CASE q \in rows /\ r = new
      BY <1>2, <1>7, <1>9, <3>2 DEF IsRow
    <3>3. CASE q = new /\ r \in rows
      BY <1>2, <1>7, <1>9, <3>3 DEF IsRow
    <3>4. CASE q = new /\ r = new
      BY <1>2, <1>7, <3>4 DEF SameRow
    <3> QED BY <1>1, <3>1, <3>2, <3>3, <3>4
  <2>3. lastId' \in Nat
    BY <1>2
  <2> QED BY <2>1, <2>2, <2>3 DEF RowsInv
<1>12. new.after = 0 \/ \E q \in rows : q.id = new.after
  BY <1>4, <1>7
<1> QED BY <1>0, <1>1, <1>7, <1>11, <1>12

\* A walk adds a verdict that is true.
LEMMA JudgedRight ==
  ASSUME VerdictIsTrue, UNCHANGED tampered,
         NEW read, NEW id, NEW ok \in BOOLEAN, Judge(ok, read, id), ok <=> ~Harmed(read, id),
         tampered = 0 => ~Harmed(read, id)
  PROVE  VerdictIsTrue'
<1>1. PICK new : new = [ok |-> ok, harmed |-> Harmed(read, id)]
  OBVIOUS
<1>2. Harmed(read, id) \in BOOLEAN
  BY DEF Harmed
<1>3. verdicts' = verdicts \cup {new}
  BY <1>1 DEF Judge
<1>4. new.ok = ~new.harmed /\ (tampered = 0 => new.ok)
  BY <1>1, <1>2
<1> QED BY <1>3, <1>4 DEF VerdictIsTrue

\* On a log nobody touched every row has the one before it.
LEMMA UntouchedIsUnharmed ==
  ASSUME UntouchedInv, tampered = 0, NEW id PROVE ~Harmed(log, id)
BY DEF UntouchedInv, Harmed, After, Written

\* The rows with the head as it was read are the rows, perhaps with another
\* event of the head.
LEMMA ReadIsLog ==
  ASSUME TrailInv
  PROVE  /\ \A c \in AsRead : IsRow(c) /\ \E r \in log : SameRow(r, c)
         /\ \A r \in log : \E c \in AsRead : SameRow(r, c)
         /\ tampered = 0 => \A c \in AsRead : c.event = "written"
<1>1. \A r \in log : r \in Written /\ IsRow(r)
  BY DEF TrailInv, RowsInv, Written
<1>2. ASSUME NEW r \in log
      PROVE  LET c == IF r.id = sweep.id THEN sweep ELSE r
             IN  IsRow(c) /\ SameRow(r, c) /\ (tampered = 0 => c.event = "written")
  <2>1. CASE r.id = sweep.id
    <3>1. sweep # NoHead
      BY <1>1, <2>1 DEF IsRow, NoHead
    <3> QED BY <1>1, <2>1, <3>1 DEF TrailInv, VouchedInv, UntouchedInv
  <2>2. CASE r.id # sweep.id
    BY <1>1, <2>2 DEF SameRow, TrailInv, UntouchedInv
  <2> QED BY <2>1, <2>2
<1> QED BY <1>2 DEF AsRead

LEMMA InitTrail == TrailInit => TrailInv
<1> SUFFICES ASSUME TrailInit PROVE TrailInv
  OBVIOUS
<1>1. Written = {} /\ lastId = 0 /\ tampered = 0 /\ sweep.id = 0 /\ Anchors = {}
  BY DEF TrailInit, Written, NoHead, Anchors
<1>2. checks \in Seq({})
  BY DEF TrailInit
<1> QED BY <1>1, <1>2 DEF TrailInit, TrailInv, RowsInv, UntouchedInv, VouchedInv, VerdictIsTrue, Written

\* Every step of the writers, the sweep, the page and of whoever changes rows
\* from outside.
LEMMA TrailStep == TrailInv /\ [TrailNext]_trailVars => TrailInv'
<1> SUFFICES ASSUME TrailInv, [TrailNext]_trailVars PROVE TrailInv'
  OBVIOUS
<1> USE DEF TrailInv
<1>1. ASSUME NEW w \in Writers, LogEvent(w) PROVE TrailInv'
  <2>0. PICK new : new = Entry(log \cup pending[w])
    OBVIOUS
  <2>1. /\ RowsInv'
        /\ Written' = Written \cup {new}
        /\ new.event = "written" /\ new.id = lastId + 1
        /\ new.after = 0 \/ \E q \in log \cup pending[w] : q.id = new.after
    BY <1>1, <2>0, AppendKeepsRows
  <2>2. pending' = [pending EXCEPT ![w] = @ \cup {new}]
    BY <1>1, <2>0 DEF LogEvent
  <2>3. UNCHANGED <<log, checks, sweep, tampered, verdicts>> /\ lastId' = lastId + 1
    BY <1>1 DEF LogEvent
  <2>8. IsRow(sweep) => IsRow(sweep)'
    BY <2>3 DEF IsRow, RowsInv
  <2>4. pending' = [v \in Writers |-> pending'[v]]
    BY <2>2
  <2>5. UntouchedInv'
    <3>1. \A v \in Writers : pending'[v] = IF v = w THEN pending[w] \cup {new} ELSE pending[v]
      BY <2>2
    <3> QED BY <2>1, <2>3, <3>1 DEF UntouchedInv
  <2>6. VouchedInv'
    BY <2>1, <2>3, <2>8 DEF VouchedInv, RowsInv, Anchors
  <2>7. VerdictIsTrue'
    BY <2>3 DEF VerdictIsTrue
  <2> QED BY <2>1, <2>4, <2>5, <2>6, <2>7
<1>2. ASSUME NEW w \in Writers, CommitRows(w) PROVE TrailInv'
  <2>1. \A v \in Writers : pending'[v] = IF v = w THEN {} ELSE pending[v]
    BY <1>2 DEF CommitRows
  <2>2. log' = log \cup pending[w] /\ UNCHANGED <<lastId, checks, sweep, tampered, verdicts>>
    BY <1>2 DEF CommitRows
  <2>3. \A r \in Written' : r \in Written
    BY <2>1, <2>2 DEF Written
  <2>4. RowsInv'
    BY <2>2, <2>3, NothingNewKeepsRows
  <2>5. UntouchedInv'
    BY <2>1, <2>2, <2>3 DEF UntouchedInv
  <2>6. VouchedInv'
    BY <2>2, <2>3 DEF VouchedInv, Anchors, IsRow
  <2>7. pending' = [v \in Writers |-> pending'[v]]
    BY <1>2 DEF CommitRows
  <2> QED BY <2>2, <2>4, <2>5, <2>6, <2>7 DEF VerdictIsTrue
<1>3. ASSUME NEW w \in Writers, RollbackRows(w) PROVE TrailInv'
  <2>1. \A v \in Writers : pending'[v] = IF v = w THEN {} ELSE pending[v]
    BY <1>3 DEF RollbackRows
  <2>2. UNCHANGED <<log, lastId, checks, sweep, tampered, verdicts>>
    BY <1>3 DEF RollbackRows
  <2>3. \A r \in Written' : r \in Written
    BY <2>1, <2>2 DEF Written
  <2>4. RowsInv'
    BY <2>2, <2>3, NothingNewKeepsRows
  <2>5. UntouchedInv'
    BY <2>1, <2>2, <2>3 DEF UntouchedInv
  <2>6. VouchedInv'
    BY <2>2, <2>3 DEF VouchedInv, Anchors, IsRow
  <2>7. pending' = [v \in Writers |-> pending'[v]]
    BY <1>3 DEF RollbackRows
  <2> QED BY <2>2, <2>4, <2>5, <2>6, <2>7 DEF VerdictIsTrue
<1>4. ASSUME ReadHead PROVE TrailInv'
  <2>1. UNCHANGED <<log, pending, lastId, checks, tampered, verdicts>> /\ log # {}
    BY <1>4 DEF ReadHead
  <2>2. \A r \in log : r \in Written /\ IsRow(r) /\ r.id \in 1 .. lastId
    BY DEF RowsInv, Written, IsRow
  <2>3. Latest(log) \in log
    BY <2>1, <2>2, LatestIsLast DEF RowsInv
  <2>4. sweep' = Latest(log)
    BY <1>4 DEF ReadHead
  <2>5. \A r \in Written : r.id = sweep'.id => SameRow(r, sweep')
    BY <2>2, <2>3, <2>4 DEF RowsInv
  <2>6. sweep'.id \in Nat /\ sweep'.id <= lastId
    BY <2>2, <2>3, <2>4 DEF RowsInv
  <2>7. Written' = Written /\ Anchors' = Anchors
    BY <2>1 DEF Written, Anchors
  <2>10. IsRow(sweep)'
    BY <2>1, <2>2, <2>3, <2>4 DEF IsRow
  <2>8. VouchedInv'
    BY <2>1, <2>5, <2>6, <2>7, <2>10 DEF VouchedInv
  <2>9. RowsInv'
    BY <2>1, <2>7 DEF RowsInv, IsRow
  <2>11. UntouchedInv'
    BY <2>1, <2>2, <2>3, <2>4, <2>7 DEF UntouchedInv
  <2> QED BY <2>1, <2>8, <2>9, <2>11 DEF VerdictIsTrue
<1>5. ASSUME RecordFullVerification PROVE TrailInv'
  <2>1. UNCHANGED <<log, pending, lastId, tampered>> /\ sweep' = NoHead
    BY <1>5 DEF RecordFullVerification
  <2>2. Written' = Written
    BY <2>1 DEF Written
  <2>3. RowsInv' /\ UntouchedInv'
    BY <2>1, <2>2 DEF RowsInv, IsRow, UntouchedInv
  <2>4. \A r \in Written : r.id # 0
    BY DEF RowsInv, IsRow
  <2>5. CASE UNCHANGED <<checks, verdicts>>
    <3>1. VouchedInv'
      BY <2>1, <2>2, <2>4, <2>5 DEF VouchedInv, NoHead, RowsInv, Anchors
    <3> QED BY <2>1, <2>3, <2>5, <3>1 DEF VerdictIsTrue
  <2>6. CASE \E row \in log : row.id = sweep.id
    <3> DEFINE ok == BrokenAt(AsRead, Genesis) = 0
    <3>1. PICK entry : entry = [ok |-> ok, id |-> sweep.id, hash |-> IF ok THEN sweep.hash ELSE Genesis]
      OBVIOUS
    <3>2. checks' = Append(checks, entry) /\ Judge(ok, AsRead, 0)
      BY <1>5, <2>6, <3>1 DEF RecordFullVerification, Verified
    <3>r. \A c \in AsRead : IsRow(c) /\ \E r \in Written : SameRow(r, c)
      BY ReadIsLog DEF Written
    <3>3. After(AsRead, 0) = AsRead
      BY <3>r DEF After, IsRow
    <3>4. ok <=> ~Harmed(AsRead, 0)
      BY <3>r, <3>3, WalkTellsTheTruth
    <3>h. tampered = 0 => ~Harmed(AsRead, 0)
      <4>1. ASSUME tampered = 0, NEW c \in AsRead
            PROVE  c.event = "written" /\ (c.after = 0 \/ \E d \in AsRead : d.id = c.after)
        <5>1. PICK r \in log : SameRow(r, c)
          BY ReadIsLog
        <5>2. r.after = 0 \/ \E q \in log : q.id = r.after
          BY <4>1 DEF UntouchedInv
        <5> QED BY <4>1, <5>1, <5>2, ReadIsLog DEF SameRow
      <4> QED BY <3>3, <4>1 DEF Harmed
    <3>5. VerdictIsTrue'
      <4>1. ok \in BOOLEAN
        OBVIOUS
      <4> HIDE DEF ok
      <4> QED BY <2>1, <3>2, <3>4, <3>h, <4>1, JudgedRight
    <3> HIDE DEF ok
    <3>6. PICK S : checks \in Seq(S)
      BY DEF VouchedInv
    <3>7. checks \in Seq(S \cup {entry}) /\ entry \in S \cup {entry}
      BY <3>6
    <3>8. checks' \in Seq(S \cup {entry})
      BY <3>2, <3>7
    <3>9. \A i \in DOMAIN checks' : \/ i \in DOMAIN checks /\ checks'[i] = checks[i]
                                   \/ checks'[i] = entry
      BY <3>2, <3>7
    <3>10. \E row \in log : entry.ok => row.id = entry.id /\ row.hash = entry.hash
      BY <2>6, <3>1 DEF VouchedInv, Written, SameRow
    <3>11. VouchedInv'
      BY <2>1, <2>2, <2>4, <3>8, <3>9, <3>10 DEF VouchedInv, NoHead, RowsInv, Anchors
    <3> QED BY <2>1, <2>3, <3>5, <3>11
  <2> QED BY <1>5, <2>5, <2>6 DEF RecordFullVerification
<1>6. ASSUME NEW full \in BOOLEAN, QuickCheck(full) PROVE TrailInv'
  <2>1. UNCHANGED <<log, pending, lastId, checks, sweep, tampered>>
    BY <1>6 DEF QuickCheck
  <2>2. Written' = Written /\ Anchors' = Anchors
    BY <2>1 DEF Written, Anchors
  <2>3. RowsInv' /\ UntouchedInv' /\ VouchedInv'
    BY <2>1, <2>2 DEF RowsInv, IsRow, UntouchedInv, VouchedInv
  <2>4. VerdictIsTrue'
    <3>l. \A c \in log : IsRow(c) /\ \E r \in Written : SameRow(r, c)
      BY DEF RowsInv, Written, SameRow
    <3>1. CASE full \/ Anchors = {}
      <4>1. After(log, 0) = log
        BY <3>l DEF After, IsRow
      <4> DEFINE ok == BrokenAt(log, Genesis) = 0
      <4>2. ok \in BOOLEAN /\ (ok <=> ~Harmed(log, 0))
        BY <3>l, <4>1, WalkTellsTheTruth
      <4>3. Judge(ok, log, 0)
        BY <1>6, <3>1 DEF QuickCheck
      <4> HIDE DEF ok
      <4> QED BY <2>1, <4>2, <4>3, JudgedRight, UntouchedIsUnharmed
    <3>2. CASE ~full /\ Anchors # {}
      <4>1. \E i \in Anchors : \A j \in Anchors : j <= i
        <5>1. Anchors \in SUBSET (0 .. Len(checks)) /\ Len(checks) \in Nat
          BY DEF Anchors, VouchedInv
        <5> QED BY <3>2, <5>1, GreatestNumber
      <4>2. PICK i \in Anchors : Anchor = checks[i]
        BY <4>1 DEF Anchor
      <4>3. PICK a \in log : a.id = Anchor.id /\ a.hash = Anchor.hash
        BY <4>2 DEF VouchedInv
      <4>4. AnchorAgrees
        BY <4>3 DEF AnchorAgrees
      <4>5. Anchor.id \in Nat
        BY <4>3 DEF RowsInv, IsRow, Written
      <4> DEFINE ok == AnchorAgrees /\ BrokenAt(After(log, Anchor.id), Anchor.hash) = 0
      <4>6. ok \in BOOLEAN /\ (ok <=> ~Harmed(log, Anchor.id))
        BY <3>l, <4>3, <4>4, <4>5, WalkTellsTheTruth
      <4>7. Judge(ok, log, Anchor.id)
        BY <1>6, <3>2 DEF QuickCheck
      <4> HIDE DEF ok
      <4> QED BY <2>1, <4>6, <4>7, JudgedRight, UntouchedIsUnharmed
    <3> QED BY <3>1, <3>2
  <2> QED BY <2>1, <2>3, <2>4
<1>7. ASSUME NEW row \in log, EditRow(row) PROVE TrailInv'
  <2>1. PICK new : new = [row EXCEPT !.event = "altered"]
    OBVIOUS
  <2>2. log' = (log \ {row}) \cup {new} /\ UNCHANGED <<pending, lastId, checks, sweep, verdicts>>
    BY <1>7, <2>1 DEF EditRow
  <2>3. tampered' = tampered + 1
    BY <1>7 DEF EditRow, Tamper
  <2>4. \A r \in Written' : \E q \in Written : q = r \/ r = [q EXCEPT !.event = "altered"]
    BY <2>1, <2>2 DEF Written
  <2>5. RowsInv' /\ \A r \in Written' : \E q \in Written : SameRow(q, r)
    BY <2>2, <2>4, NothingNewKeepsRows
  <2>6. UntouchedInv'
    BY <2>3 DEF UntouchedInv
  <2>7. new.id = row.id /\ new.hash = row.hash
    BY <2>1 DEF RowsInv, IsRow, Written
  <2>8. VouchedInv'
    <3>1. \A r \in Written' : r.id = sweep.id => SameRow(r, sweep)
      BY <2>5 DEF SameRow, VouchedInv
    <3>2. \A i \in Anchors : \E r \in log' : r.id = checks[i].id /\ r.hash = checks[i].hash
      BY <2>2, <2>7 DEF VouchedInv
    <3> QED BY <2>2, <3>1, <3>2 DEF VouchedInv, Anchors, IsRow
  <2>9. VerdictIsTrue'
    BY <2>2, <2>3 DEF VerdictIsTrue, UntouchedInv
  <2> QED BY <2>2, <2>5, <2>6, <2>8, <2>9
<1>8. ASSUME NEW row \in log, RemoveRow(row) PROVE TrailInv'
  <2>1. log' = log \ {row} /\ UNCHANGED <<pending, lastId, checks, sweep, verdicts>>
    BY <1>8 DEF RemoveRow
  <2>2. tampered' = tampered + 1
    BY <1>8 DEF RemoveRow, Tamper
  <2>3. \A r \in Written' : r \in Written
    BY <2>1 DEF Written
  <2>4. RowsInv'
    BY <2>1, <2>3, NothingNewKeepsRows
  <2>5. UntouchedInv'
    BY <2>2 DEF UntouchedInv
  <2>6. VouchedInv'
    <3>1. \A i \in Anchors : \E r \in log' : r.id = checks[i].id /\ r.hash = checks[i].hash
      BY <1>8, <2>1 DEF RemoveRow, VouchedInv, Anchors
    <3> QED BY <2>1, <2>3, <3>1 DEF VouchedInv, Anchors, IsRow
  <2>7. VerdictIsTrue'
    BY <2>1, <2>2 DEF VerdictIsTrue, UntouchedInv
  <2> QED BY <2>1, <2>4, <2>5, <2>6, <2>7
<1>9. CASE UNCHANGED trailVars
  <2>1. Written' = Written /\ Anchors' = Anchors
    BY <1>9 DEF trailVars, Written, Anchors
  <2> QED BY <1>9, <2>1 DEF trailVars, RowsInv, IsRow, UntouchedInv, VouchedInv, VerdictIsTrue
<1> QED BY <1>1, <1>2, <1>3, <1>4, <1>5, <1>6, <1>7, <1>8, <1>9 DEF TrailNext

\* verify_chain and the quick check: a walk reports a break exactly when a row
\* it was to vouch for was changed or lost the one before it, and never on a
\* log nobody touched.
THEOREM WalksAreBelieved == TrailSpec => []VerdictIsTrue
<1>1. TrailInv => VerdictIsTrue
  BY DEF TrailInv
<1> QED BY <1>1, InitTrail, TrailStep, PTL DEF TrailSpec
=============================================================================
