-------------------------- MODULE ConsensusProofs --------------------------
(***************************************************************************)
(* Theorems about the two modules in which the answers of several models   *)
(* are merged.  ClaimAudit, for any models, answers, readers and number of *)
(* crashes: the merge says what the answers say, the ledger says what the  *)
(* merge said, and every reader has the whole trace.  Deal, for any        *)
(* providers, intents, ballots, fees and deliveries: who is chosen, and    *)
(* that the money adds up.  AuditsEnd is liveness and stays with TLC.      *)
(***************************************************************************)
EXTENDS ClaimAudit, Deal, FiniteSetTheorems, SequenceTheorems, WellFoundedInduction,
        TLAPS

(***************************************************************************)
(* Sums of scores.  The library defines a sum by a function that adds the  *)
(* elements of a set in an arbitrary order; that the function exists is    *)
(* shown here by induction on the subsets of the set.                      *)
(***************************************************************************)

\* The recursive function by which the library defines a sum over S.
Pick(s) == CHOOSE x \in s : TRUE
Adds(h, a, S) ==
    h = [s \in SUBSET S |-> IF s = {} THEN 0
                            ELSE a[CHOOSE x \in s : TRUE].score + h[s \ {CHOOSE x \in s : TRUE}]]

\* The library's sum is that function at the whole set.
LEMMA SumUnfold ==
    ASSUME NEW a, NEW S
    PROVE  Total(a, S) = (CHOOSE h : Adds(h, a, S))[S]
BY DEF Total, MapThenSumSet, MapThenFoldSet, Adds

\* The equation of that function at one subset.
LEMMA AddsAt ==
    ASSUME NEW a, NEW S, NEW h, Adds(h, a, S), NEW s \in SUBSET S
    PROVE  h[s] = IF s = {} THEN 0 ELSE a[Pick(s)].score + h[s \ {Pick(s)}]
BY DEF Adds, Pick

\* Induction on the subsets of a finite set: if a subset is good (in G) as soon
\* as all its strict subsets are, the whole set is good.
LEMMA SubsetInduction ==
    ASSUME NEW S, IsFiniteSet(S), NEW G,
           \A T \in SUBSET S : (\A U \in SUBSET T : U # T => U \in G) => T \in G
    PROVE  \A T \in SUBSET S : T \in G
<1> DEFINE Bad == {T \in SUBSET S : T \notin G}
<1>1. SUFFICES ASSUME Bad # {} PROVE FALSE
  OBVIOUS
<1>2. Bad \subseteq FiniteSubsetsOf(S)
  BY FS_Subset DEF FiniteSubsetsOf
<1>3. IsWellFoundedOn(StrictSubsetOrdering(S), FiniteSubsetsOf(S))
  BY FS_StrictSubsetOrderingWellFounded
<1>4. \E T \in Bad : \A U \in Bad : <<U, T>> \notin StrictSubsetOrdering(S)
  <2> HIDE DEF Bad
  <2> QED
    BY <1>1, <1>2, <1>3, WFMin
<1>5. PICK T \in Bad : \A U \in Bad : <<U, T>> \notin StrictSubsetOrdering(S)
  BY <1>4
<1>6. ASSUME NEW U \in SUBSET T, U # T
      PROVE  U \in G
  BY <1>5, <1>6 DEF StrictSubsetOrdering
<1> QED
  BY <1>5, <1>6

Unfolds(a, T) ==
    Total(a, T) = IF T = {} THEN 0 ELSE a[Pick(T)].score + Total(a, T \ {Pick(T)})

\* The picked element is in the set, and what is left is a smaller set.
LEMMA PickIn == ASSUME NEW T, T # {} PROVE Pick(T) \in T /\ T \ {Pick(T)} \in SUBSET T /\ T \ {Pick(T)} # T
BY DEF Pick

\* If the sums of all smaller subsets unfold, the sum of the set does.
LEMMA SumStep ==
    ASSUME NEW a, NEW T, IsFiniteSet(T),
           \A U \in SUBSET T : U # T => Unfolds(a, U)
    PROVE  Unfolds(a, T)
<1> DEFINE v == IF T = {} THEN 0 ELSE a[Pick(T)].score + Total(a, T \ {Pick(T)})
            k == [s \in SUBSET T |-> IF s = T THEN v ELSE Total(a, s)]
<1>1. Adds(k, a, T)
  <2>1. ASSUME NEW s \in SUBSET T
        PROVE  k[s] = IF s = {} THEN 0 ELSE a[Pick(s)].score + k[s \ {Pick(s)}]
    <3>1. CASE s = T /\ T # {}
      <4>1. T \ {Pick(T)} \in SUBSET T /\ T \ {Pick(T)} # T
        BY <3>1, PickIn
      <4> HIDE DEF v
      <4>2. k[T] = v /\ k[T \ {Pick(T)}] = Total(a, T \ {Pick(T)})
        BY <4>1
      <4> QED
        BY <3>1, <4>2 DEF v
    <3>2. CASE s = T /\ T = {}
      BY <3>2
    <3>3. CASE s # T /\ s = {}
      BY <3>3 DEF Unfolds
    <3>4. CASE s # T /\ s # {}
      <4>1. s \ {Pick(s)} \in SUBSET T /\ s \ {Pick(s)} # T
        BY <3>4, PickIn
      <4> HIDE DEF v
      <4>2. k[s] = Total(a, s) /\ k[s \ {Pick(s)}] = Total(a, s \ {Pick(s)})
        BY <3>4, <4>1
      <4>3. Unfolds(a, s)
        BY <3>4
      <4> QED
        BY <3>4, <4>2, <4>3 DEF Unfolds
    <3> QED
      BY <3>1, <3>2, <3>3, <3>4
  <2> HIDE DEF v
  <2>2. k = [s \in SUBSET T |-> k[s]]
    OBVIOUS
  <2> HIDE DEF k
  <2>3. k = [s \in SUBSET T |-> IF s = {} THEN 0 ELSE a[Pick(s)].score + k[s \ {Pick(s)}]]
    BY <2>1, <2>2
  <2> QED
    BY <2>3 DEF Adds, Pick
<1> DEFINE h == CHOOSE f : Adds(f, a, T)
<1>2. Adds(h, a, T)
  BY <1>1
<1> HIDE DEF h, k
<1>3. ASSUME NEW s \in SUBSET T
      PROVE  h[s] = IF s = {} THEN 0 ELSE a[Pick(s)].score + h[s \ {Pick(s)}]
  BY <1>2, AddsAt
<1>4. \A s \in SUBSET T : s # T => h[s] = Total(a, s)
  <2> DEFINE G == {s \in SUBSET T : s # T => h[s] = Total(a, s)}
  <2>1. ASSUME NEW s \in SUBSET T, \A U \in SUBSET s : U # s => U \in G
        PROVE  s \in G
    <3>1. SUFFICES ASSUME s # T PROVE h[s] = Total(a, s)
      OBVIOUS
    <3>2. Unfolds(a, s)
      BY <3>1
    <3>3. CASE s = {}
      BY <1>3, <3>2, <3>3 DEF Unfolds
    <3>4. CASE s # {}
      <4>1. s \ {Pick(s)} \in SUBSET s /\ s \ {Pick(s)} # s /\ s \ {Pick(s)} # T
        BY <3>1, <3>4, PickIn
      <4>2. h[s \ {Pick(s)}] = Total(a, s \ {Pick(s)})
        BY <2>1, <4>1
      <4> QED
        BY <1>3, <3>2, <3>4, <4>2 DEF Unfolds
    <3> QED
      BY <3>3, <3>4
  <2>2. \A s \in SUBSET T : s \in G
    <3> HIDE DEF G
    <3> QED
      BY <2>1, SubsetInduction
  <2> QED
    BY <2>2
<1>5. Total(a, T) = h[T]
  BY SumUnfold DEF h
<1>6. CASE T = {}
  BY <1>3, <1>5, <1>6 DEF Unfolds
<1>7. CASE T # {}
  <2>1. h[T \ {Pick(T)}] = Total(a, T \ {Pick(T)})
    BY <1>4, <1>7, PickIn
  <2> QED
    BY <1>3, <1>5, <1>7, <2>1 DEF Unfolds
<1> QED
  BY <1>6, <1>7

\* A sum is the picked element plus the sum of the rest.
LEMMA SumUnfolds ==
    ASSUME NEW a, NEW S, IsFiniteSet(S)
    PROVE  Unfolds(a, S)
<1> DEFINE G == {T \in SUBSET S : Unfolds(a, T)}
<1>1. ASSUME NEW T \in SUBSET S, \A U \in SUBSET T : U # T => U \in G
      PROVE  T \in G
  <2>1. IsFiniteSet(T) /\ \A U \in SUBSET T : U # T => Unfolds(a, U)
    BY <1>1, FS_Subset
  <2> QED
    BY <2>1, SumStep
<1>2. S \in G
  <2> HIDE DEF G
  <2> QED
    BY <1>1, SubsetInduction
<1> QED
  BY <1>2

\* A sum of nothing is zero.
LEMMA SumEmpty == ASSUME NEW a PROVE Total(a, {}) = 0
BY SumUnfolds, FS_EmptySet DEF Unfolds

\* The equation of a non-empty sum, for the subsets of a finite set.
LEMMA SumPick ==
    ASSUME NEW S, IsFiniteSet(S), NEW T \in SUBSET S, T # {}, NEW a
    PROVE  /\ Total(a, T) = a[Pick(T)].score + Total(a, T \ {Pick(T)})
           /\ Pick(T) \in T
           /\ T \ {Pick(T)} \in SUBSET T
           /\ T \ {Pick(T)} # T
BY FS_Subset, SumUnfolds, PickIn DEF Unfolds

\* A sum of as many scores lies between as many times any bounds of the scores.
LEMMA TotalBounds ==
    ASSUME NEW S, IsFiniteSet(S), NEW a, NEW lo \in Int, NEW hi \in Int,
           \A m \in S : a[m].score \in lo .. hi
    PROVE  /\ Total(a, S) \in Int
           /\ Cardinality(S) * lo <= Total(a, S)
           /\ Total(a, S) <= Cardinality(S) * hi
<1> DEFINE Bounded(T) == /\ Total(a, T) \in Int
                         /\ Cardinality(T) * lo <= Total(a, T)
                         /\ Total(a, T) <= Cardinality(T) * hi
           G == {T \in SUBSET S : Bounded(T)}
<1>1. ASSUME NEW T \in SUBSET S, \A U \in SUBSET T : U # T => U \in G
      PROVE  T \in G
  <2>1. CASE T = {}
    <3>1. Total(a, T) = 0 /\ Cardinality(T) = 0
      BY <2>1, SumEmpty, FS_EmptySet
    <3>2. QED
      BY <3>1
  <2>2. CASE T # {}
    <3> DEFINE c == Pick(T)
               R == T \ {c}
               k == Cardinality(R)
    <3>1. /\ Total(a, T) = a[c].score + Total(a, R)
          /\ c \in T /\ R \in SUBSET T /\ R # T
      BY <2>2, SumPick
    <3>2. IsFiniteSet(T)
      BY FS_Subset
    <3>3. k \in Nat /\ Cardinality(T) = k + 1
      <4>1. Cardinality(T) \in Nat /\ k = Cardinality(T) - 1
        BY <3>1, <3>2, FS_RemoveElement, FS_CardinalityType
      <4>2. IsFiniteSet(R)
        BY <3>1, <3>2, FS_Subset
      <4>3. k \in Nat
        BY <4>2, FS_CardinalityType
      <4>4. QED
        BY <4>1, <4>3
    <3>4. Bounded(R)
      BY <1>1, <3>1
    <3>5. a[c].score \in lo .. hi
      BY <3>1
    <3> DEFINE u == a[c].score
               t == Total(a, R)
    <3>6. /\ t \in Int /\ k * lo <= t /\ t <= k * hi /\ u \in Int /\ lo <= u /\ u <= hi
          /\ Total(a, T) = u + t
      BY <3>1, <3>4, <3>5
    <3> HIDE DEF c, R, k, u, t
    <3>7. /\ (k + 1) * lo = k * lo + lo /\ (k + 1) * hi = k * hi + hi
          /\ k * lo \in Int /\ k * hi \in Int
      BY <3>3
    <3>8. /\ Total(a, T) \in Int
          /\ (k + 1) * lo <= Total(a, T) /\ Total(a, T) <= (k + 1) * hi
      BY <3>6, <3>7
    <3>9. Bounded(T)
      BY <3>3, <3>8
    <3> HIDE DEF Bounded
    <3>10. QED
      BY <3>9
  <2>3. QED
    BY <2>1, <2>2
<1>2. S \in G
  <2> HIDE DEF G
  <2>1. QED
    BY <1>1, SubsetInduction
<1>3. QED
  BY <1>2

\* Among finitely many things with a number each, one has the largest.
LEMMA Topmost ==
    ASSUME NEW S, IsFiniteSet(S), S # {}, NEW v \in [S -> Int]
    PROVE  \E x \in S : \A y \in S : v[x] >= v[y]
<1> DEFINE G == {T \in SUBSET S : T # {} => \E x \in T : \A y \in T : v[x] >= v[y]}
<1>1. ASSUME NEW T \in SUBSET S, \A U \in SUBSET T : U # T => U \in G
      PROVE  T \in G
  <2>1. SUFFICES ASSUME T # {} PROVE \E x \in T : \A y \in T : v[x] >= v[y]
    OBVIOUS
  <2> DEFINE c == Pick(T)
             R == T \ {c}
  <2>2. c \in T /\ R \in SUBSET T /\ R # T
    BY <2>1, PickIn
  <2>3. R # {} => \E x \in R : \A y \in R : v[x] >= v[y]
    BY <1>1, <2>2
  <2>4. T = R \cup {c}
    BY <2>2
  <2> HIDE DEF c, R
  <2>5. CASE R = {}
    <3>1. v[c] \in Int
      BY <2>2
    <3>2. \A y \in T : v[c] >= v[y]
      BY <2>4, <2>5, <3>1
    <3>3. QED
      BY <2>2, <3>2
  <2>6. CASE R # {}
    <3>1. PICK x \in R : \A y \in R : v[x] >= v[y]
      BY <2>3, <2>6
    <3>2. x \in T /\ v[x] \in Int /\ v[c] \in Int /\ \A y \in R : v[y] \in Int
      BY <2>2, <3>1
    <3>3. CASE v[x] >= v[c]
      <4>1. \A y \in T : v[x] >= v[y]
        BY <2>4, <3>1, <3>3
      <4>2. QED
        BY <3>2, <4>1
    <3>4. CASE ~(v[x] >= v[c])
      <4>1. \A y \in R : v[c] >= v[y]
        BY <3>1, <3>2, <3>4
      <4>2. \A y \in T : v[c] >= v[y]
        BY <2>4, <3>2, <4>1
      <4>3. QED
        BY <2>2, <4>2
    <3>5. QED
      BY <3>3, <3>4
  <2>7. QED
    BY <2>5, <2>6
<1>2. S \in G
  <2> HIDE DEF G
  <2>1. QED
    BY <1>1, SubsetInduction
<1>3. QED
  BY <1>2

\* The library's Max and Min of a finite set of integers are in it, at its ends.
LEMMA Ends ==
    ASSUME NEW S \in SUBSET Int, IsFiniteSet(S), S # {}
    PROVE  /\ Max(S) \in S /\ \A y \in S : Max(S) >= y
           /\ Min(S) \in S /\ \A y \in S : Min(S) <= y
<1>1. \E x \in S : \A y \in S : x >= y
  <2> DEFINE v == [x \in S |-> x]
  <2>1. v \in [S -> Int]
    OBVIOUS
  <2> HIDE DEF v
  <2>2. PICK x \in S : \A y \in S : v[x] >= v[y]
    BY <2>1, Topmost
  <2>3. QED
    BY <2>2 DEF v
<1>2. \E x \in S : \A y \in S : x <= y
  <2> DEFINE v == [x \in S |-> -x]
  <2>1. v \in [S -> Int]
    OBVIOUS
  <2> HIDE DEF v
  <2>2. PICK x \in S : \A y \in S : v[x] >= v[y]
    BY <2>1, Topmost
  <2>3. ASSUME NEW y \in S PROVE x <= y
    <3>1. v[x] = -x /\ v[y] = -y /\ x \in Int /\ y \in Int
      BY DEF v
    <3>2. QED
      BY <2>2, <3>1
  <2>4. QED
    BY <2>3
<1>3. Max(S) \in S /\ \A y \in S : Max(S) >= y
  BY <1>1 DEF Max
<1>4. Min(S) \in S /\ \A y \in S : Min(S) <= y
  BY <1>2 DEF Min
<1>5. QED
  BY <1>3, <1>4

\* A quotient keeps to the multiples of the divisor that its dividend keeps to.
LEMMA Quotient ==
    ASSUME NEW x \in Int, NEW d \in Nat \ {0}, NEW lo \in Int
    PROVE  /\ x \div d \in Int
           /\ d * (x \div d) <= x /\ x < d * ((x \div d) + 1)
           /\ d * lo <= x => lo <= x \div d
           /\ x < d * (lo + 1) => x \div d <= lo
<1> DEFINE q == x \div d
<1>1. q \in Int /\ d * q <= x /\ x < d * (q + 1)
  OBVIOUS
<1> HIDE DEF q
<1>2. d * lo <= x => lo <= q
  <2>1. SUFFICES ASSUME d * lo <= x, q < lo PROVE FALSE
    BY <1>1
  <2>2. q + 1 <= lo
    BY <1>1, <2>1
  <2>3. d * (q + 1) <= d * lo
    BY <1>1, <2>2
  <2>4. QED
    BY <1>1, <2>1, <2>3
<1>3. x < d * (lo + 1) => q <= lo
  <2>1. SUFFICES ASSUME x < d * (lo + 1), lo < q PROVE FALSE
    BY <1>1
  <2>2. lo + 1 <= q
    BY <1>1, <2>1
  <2>3. d * (lo + 1) <= d * q
    BY <1>1, <2>2
  <2>4. QED
    BY <1>1, <2>1, <2>3
<1>4. QED
  BY <1>1, <1>2, <1>3 DEF q

\* The mean of n scores from lo to hi, rounded, is such a score, and lies between
\* the ends of its band, however wide.
LEMMA MeanAndBand ==
    ASSUME NEW n \in Nat \ {0}, NEW sum \in Int, NEW lo \in Int, NEW hi \in Int,
           NEW spread \in Nat, n * lo <= sum, sum <= n * hi
    PROVE  /\ Rounded(sum, n) \in lo .. hi
           /\ Rounded(2 * sum - n * spread, 2 * n) \in Int
           /\ Rounded(2 * sum - n * spread, 2 * n) <= Rounded(sum, n)
           /\ Rounded(2 * sum + n * spread, 2 * n) \in Int
           /\ Rounded(sum, n) <= Rounded(2 * sum + n * spread, 2 * n)
<1> DEFINE x == 2 * sum + n
           d == 2 * n
           w == n * spread
           mean == x \div d
<1>1. /\ x \in Int /\ d \in Nat \ {0} /\ w \in Int /\ w >= 0 /\ 2 * d \in Nat \ {0}
      /\ n * hi \in Int /\ n * lo \in Int
  OBVIOUS
<1>2. Rounded(sum, n) = mean
  BY DEF Rounded
<1>3. mean \in Int /\ d * mean <= x /\ x < d * (mean + 1)
  <2> HIDE DEF x, d
  <2>1. QED
    BY <1>1, Quotient
<1>4. mean \in lo .. hi
  <2>1. d * lo <= x
    <3>1. d * lo = 2 * (n * lo)
      OBVIOUS
    <3>2. QED
      BY <1>1, <3>1
  <2>2. x < d * (hi + 1)
    <3>1. d * (hi + 1) = 2 * (n * hi) + 2 * n
      OBVIOUS
    <3>2. QED
      BY <1>1, <3>1
  <2> HIDE DEF x, d
  <2>3. lo <= mean /\ mean <= hi /\ mean \in Int
    BY <1>1, <2>1, <2>2, Quotient
  <2>4. QED
    BY <2>3
<1>5. 2 * d * mean = 2 * (d * mean) /\ 2 * d * (mean + 1) = 2 * (d * (mean + 1))
  BY <1>1, <1>3
<1> DEFINE below == 2 * x - 2 * w
           above == 2 * x + 2 * w
<1>6. /\ Rounded(2 * sum - w, 2 * n) = below \div (2 * d)
      /\ Rounded(2 * sum + w, 2 * n) = above \div (2 * d)
  <2>1. 2 * (2 * sum - w) + 2 * n = below /\ 2 * (2 * sum + w) + 2 * n = above
    BY <1>1
  <2>2. QED
    BY <2>1 DEF Rounded
<1> HIDE DEF x, d, w, mean
<1>7. below \in Int /\ above \in Int
  BY <1>1
<1>8. below < 2 * d * (mean + 1)
  BY <1>1, <1>3, <1>5
<1>9. 2 * d * mean <= above
  BY <1>1, <1>3, <1>5
<1> HIDE DEF below, above
<1>10. below \div (2 * d) \in Int /\ below \div (2 * d) <= mean
  BY <1>1, <1>3, <1>7, <1>8, Quotient
<1>11. above \div (2 * d) \in Int /\ mean <= above \div (2 * d)
  BY <1>1, <1>3, <1>7, <1>9, Quotient
<1>12. QED
  BY <1>2, <1>4, <1>6, <1>10, <1>11 DEF w

(***************************************************************************)
(* The merge.                                                              *)
(***************************************************************************)
AnyAnswer == {NoAnswer} \cup UNION {Answers(m) : m \in Model}

LEMMA ModelsFinite == Model = 1 .. Len(Models) /\ Len(Models) \in Nat /\ IsFiniteSet(Model)
<1>1. Model = 1 .. Len(Models) /\ Len(Models) \in Nat
  BY ModelsAssumption DEF Model
<1>2. QED
  BY <1>1, FS_Interval

\* A score is readable or is the mark that it is not.
LEMMA ScoreTyped ==
    ASSUME NEW a \in AnyAnswer
    PROVE  a.score \in 0 .. 100 \cup {Unreadable} /\ a.ok \in BOOLEAN
<1>1. CASE a = NoAnswer
  BY <1>1 DEF NoAnswer, Null, Unreadable
<1>2. CASE a # NoAnswer
  <2>1. PICK m \in Model : a \in Answers(m)
    BY <1>2 DEF AnyAnswer
  <2>2. PICK g \in Given[m] : a = [ok |-> TRUE, verdict |-> g[1], score |-> g[2]]
    BY <1>2, <2>1 DEF Answers
  <2>3. QED
    BY <2>1, <2>2, GivenAssumption DEF Model
<1>3. QED
  BY <1>1, <1>2

\* Whatever the models answer, the merge says what a reader of the answers would:
\* no model's vote outnumbers its verdict, and its score and band are theirs.
LEMMA MergeJustified ==
    ASSUME NEW answers \in [Model -> AnyAnswer]
    PROVE  Justified(mergeVerdicts(answers), answers)
<1> DEFINE ok == Okay(answers)
           n == Cardinality(ok)
           given(m) == Cardinality({o \in ok : answers[o].verdict = answers[m].verdict})
           most == {m \in ok : \A o \in ok : given(m) >= given(o)}
           scores == {answers[m].score : m \in ok}
           sum == Total(answers, ok)
           spread == Max(scores) - Min(scores)
           top == Min(most)
           merged == [verdict |-> answers[top].verdict,
              score |-> IF Unreadable \in scores THEN Null ELSE Rounded(sum, n),
              band |-> IF Unreadable \in scores THEN <<Null, Null>>
                       ELSE <<Max({0, Rounded(2 * sum - n * spread, 2 * n)}),
                              Min({100, Rounded(2 * sum + n * spread, 2 * n)})>>,
              agree |-> <<given(top), n>>]
<1>1. /\ ok = {m \in Model : answers[m].ok} /\ ok \subseteq Model /\ IsFiniteSet(ok)
      /\ Model \subseteq Int
  BY ModelsFinite, FS_Subset DEF Okay
<1>2. mergeVerdicts(answers) = IF ok = {} THEN [NoResult EXCEPT !.verdict = "UNVERIFIABLE"]
                               ELSE merged
  BY Zenon DEF mergeVerdicts
<1>3. CASE ok = {}
  <2>1. mergeVerdicts(answers) = [NoResult EXCEPT !.verdict = "UNVERIFIABLE"]
    BY <1>2, <1>3
  <2>2. /\ mergeVerdicts(answers).verdict = "UNVERIFIABLE"
        /\ mergeVerdicts(answers).score = Null
    BY <2>1 DEF NoResult
  <2>3. QED
    BY <1>1, <1>3, <2>2 DEF Justified
<1>4. CASE ok # {}
  <2> DEFINE vs(v) == Cardinality({m \in ok : answers[m].verdict = v})
  <2>1. mergeVerdicts(answers) = merged
    BY <1>2, <1>4
  <2>2. \A m \in ok : given(m) \in Nat
    <3>1. ASSUME NEW m \in ok PROVE given(m) \in Nat
      <4>1. IsFiniteSet({o \in ok : answers[o].verdict = answers[m].verdict})
        BY <1>1, FS_Subset
      <4>2. QED
        BY <4>1, FS_CardinalityType
    <3>2. QED
      BY <3>1
  <2>3. top \in ok /\ \A o \in ok : given(top) >= given(o)
    <3> DEFINE v == [m \in ok |-> given(m)]
    <3>1. v \in [ok -> Int]
      BY <2>2
    <3>2. \E m \in ok : \A o \in ok : v[m] >= v[o]
      <4> HIDE DEF v, ok
      <4>1. QED
        BY <1>1, <1>4, <3>1, Topmost
    <3> HIDE DEF ok
    <3>3. most # {} /\ most \subseteq ok
      BY <3>2
    <3>4. most \in SUBSET Int /\ IsFiniteSet(most)
      BY <1>1, <3>3, FS_Subset
    <3>5. top \in most
      <4> HIDE DEF most
      <4>1. QED
        BY <3>3, <3>4, Ends
    <3>6. QED
      BY <3>5
  <2>4. n \in Nat \ {0}
    BY <1>1, <1>4, FS_CardinalityType, FS_EmptySet
  <2>5. scores \subseteq 0 .. 100 \cup {Unreadable}
    <3>1. ASSUME NEW m \in ok PROVE answers[m].score \in 0 .. 100 \cup {Unreadable}
      BY <1>1, ScoreTyped
    <3>2. QED
      BY <3>1
  <2>6. scores # {} /\ IsFiniteSet(scores)
    <3>1. scores \subseteq -1 .. 100
      BY <2>5 DEF Unreadable
    <3>2. -1 \in Int /\ 100 \in Int
      OBVIOUS
    <3>3. IsFiniteSet(-1 .. 100)
      BY <3>2, FS_Interval
    <3>4. QED
      BY <1>4, <3>1, <3>3, FS_Subset
  <2>7. ASSUME Unreadable \notin scores
        PROVE  /\ merged.score \in Min(scores) .. Max(scores)
               /\ merged.score \in merged.band[1] .. merged.band[2]
               /\ merged.band[1] >= 0 /\ merged.band[2] <= 100
    <3> DEFINE lo == Min(scores)
               hi == Max(scores)
               below == Rounded(2 * sum - n * spread, 2 * n)
               above == Rounded(2 * sum + n * spread, 2 * n)
               mean == Rounded(sum, n)
    <3>1. scores \subseteq 0 .. 100 /\ scores \in SUBSET Int
      BY <2>5, <2>7
    <3>2. /\ lo \in scores /\ \A y \in scores : lo <= y
          /\ hi \in scores /\ \A y \in scores : hi >= y
      <4> HIDE DEF scores
      <4>1. QED
        BY <2>6, <3>1, Ends
    <3>3. /\ lo \in Int /\ hi \in Int /\ lo >= 0 /\ hi <= 100 /\ lo <= hi
          /\ spread \in Nat
      <4> HIDE DEF scores
      <4>1. lo \in 0 .. 100 /\ hi \in 0 .. 100 /\ lo <= hi
        BY <3>1, <3>2
      <4>2. QED
        BY <4>1
    <3>4. \A m \in ok : answers[m].score \in lo .. hi
      <4>1. ASSUME NEW m \in ok PROVE answers[m].score \in lo .. hi
        <5>1. answers[m].score \in scores
          OBVIOUS
        <5> HIDE DEF scores
        <5>2. /\ answers[m].score \in Int
              /\ lo <= answers[m].score /\ hi >= answers[m].score
          BY <3>1, <3>2, <5>1
        <5> HIDE DEF lo, hi
        <5>3. QED
          BY <3>3, <5>2
      <4>2. QED
        BY <4>1
    <3> HIDE DEF lo, hi, ok, spread
    <3>5. sum \in Int /\ n * lo <= sum /\ sum <= n * hi
      BY <1>1, <3>3, <3>4, TotalBounds
    <3> HIDE DEF sum, n
    <3>6. /\ mean \in lo .. hi /\ below \in Int /\ below <= mean
          /\ above \in Int /\ mean <= above
      BY <2>4, <3>3, <3>5, MeanAndBand
    <3> HIDE DEF below, above, mean
    <3>7. /\ Max({0, below}) \in {0, below} /\ Max({0, below}) >= 0
          /\ Min({100, above}) \in {100, above} /\ Min({100, above}) <= 100
      <4>1. /\ {0, below} \in SUBSET Int /\ IsFiniteSet({0, below}) /\ {0, below} # {}
            /\ {100, above} \in SUBSET Int /\ IsFiniteSet({100, above}) /\ {100, above} # {}
        <5>1. IsFiniteSet({0} \cup {below}) /\ IsFiniteSet({100} \cup {above})
          BY FS_Singleton, FS_Union
        <5>2. {0, below} = {0} \cup {below} /\ {100, above} = {100} \cup {above}
          OBVIOUS
        <5>3. QED
          BY <3>6, <5>1, <5>2
      <4>2. QED
        BY <4>1, Ends
    <3>8. mean \in Int /\ mean >= 0 /\ mean <= 100
      BY <3>3, <3>6
    <3>9. mean \in Max({0, below}) .. Min({100, above})
      BY <3>6, <3>7, <3>8
    <3>10. /\ merged.score = mean
           /\ merged.band[1] = Max({0, below}) /\ merged.band[2] = Min({100, above})
      BY <2>7 DEF below, above, mean
    <3> HIDE DEF merged
    <3>11. QED
      BY <3>6, <3>7, <3>9, <3>10 DEF lo, hi
  <2>8. Unreadable \in scores => merged.score = Null
    OBVIOUS
  <2>9. /\ \A m \in ok : vs(merged.verdict) >= vs(answers[m].verdict)
        /\ merged.agree = <<vs(merged.verdict), n>>
    BY <2>3
  <2> HIDE DEF merged
  <2>10. Justified(merged, answers)
    BY <1>1, <1>4, <2>7, <2>8, <2>9 DEF Justified
  <2>11. QED
    BY <2>1, <2>10
<1>5. QED
  BY <1>3, <1>4


(***************************************************************************)
(* The inductive invariant.  A record's consensus and end are written in   *)
(* one turn, with the last answer; a reader that is subscribed has what    *)
(* the record has, and one that is not read a record that is at its end.   *)
(***************************************************************************)
Label == Steps \cup Range(Models)

Results == {NoResult, Failure} \cup {mergeVerdicts(a) : a \in [Model -> AnyAnswer]}

Record == [phase : {"absent", "extract", "live", "verify", "done", "lost"},
           steps : Seq(Label), result : Results, answers : [Model -> AnyAnswer]]

RecordOK(record) ==
    /\ record \in Record
    /\ "consensus" \in Range(record.steps) => Range(Models) \subseteq Range(record.steps)
    /\ {"done", "error"} \cap Range(record.steps) # {} => record.phase = "done"
    /\ record.phase = "done" =>
          record.result = Failure \/ record.result = mergeVerdicts(record.answers)

Reading == [of : Claims \cup {"none"}, seen : Seq(Label), open : BOOLEAN]

ReadingOK(reading) ==
    /\ reading \in Reading
    /\ reading.of # "none" =>
          /\ reading.seen = IF reading.open THEN claim[reading.of].steps
                            ELSE Append(claim[reading.of].steps, "done")
          /\ ~reading.open => claim[reading.of].phase = "done"

LedgerRow == [of : Audits, status : {"COMPLETED", "FAILED", "TIMEOUT"},
              result : Results, models : [Model -> AnyAnswer]]

RowOK(row) == IF row.status = "COMPLETED" THEN Justified(row.result, row.models)
              ELSE row.result = NoResult

HonestRows == {row \in LedgerRow : RowOK(row)}

ClaimsOK == claim \in [Claims -> Record] /\ \A c \in Claims : RecordOK(claim[c])
StreamsOK == stream \in [Readers -> Reading] /\ \A r \in Readers : ReadingOK(stream[r])
RowsOK == rows \in Seq(HonestRows)

IInv == ClaimsOK /\ StreamsOK /\ RowsOK

-----------------------------------------------------------------------------
LEMMA LabelsTyped ==
    /\ Steps \subseteq Label /\ \A m \in Model : Models[m] \in Label
    /\ \A m \in Model : Models[m] \notin Steps
    /\ <<>> \in Seq(Label)
BY ModelsAssumption DEF Label, Model, Range

LEMMA UnpostedOK == RecordOK(Unposted) /\ RecordOK([Unposted EXCEPT !.phase = "lost"])
<1>1. [m \in Model |-> NoAnswer] \in [Model -> AnyAnswer]
  BY DEF AnyAnswer
<1>2. NoResult \in Results
  BY DEF Results
<1>3. Range(<<>>) = {}
  BY DEF Range
<1>4. Unposted \in Record /\ Unposted.phase = "absent" /\ Unposted.steps = <<>>
  BY <1>1, <1>2, LabelsTyped DEF Unposted, Record
<1>5. /\ [Unposted EXCEPT !.phase = "lost"] \in Record
      /\ [Unposted EXCEPT !.phase = "lost"].phase = "lost"
      /\ [Unposted EXCEPT !.phase = "lost"].steps = <<>>
  BY <1>4 DEF Record
<1>6. QED
  BY <1>3, <1>4, <1>5 DEF RecordOK

LEMMA UnreadOK == ReadingOK(Unread)
BY LabelsTyped DEF ReadingOK, Unread, Reading

\* What is pushed is kept and sent: if the record goes from one that is not at
\* its end to a sound one with those steps more, so do its readers.
LEMMA Pushed ==
    ASSUME IInv, NEW c \in Claims, claim[c].phase # "done", NEW new, RecordOK(new),
           NEW events \in Seq(Label), new.steps = claim[c].steps \o events,
           claim' = [claim EXCEPT ![c] = new], stream' = Sent(c, events)
    PROVE  ClaimsOK' /\ StreamsOK'
<1>1. /\ claim \in [Claims -> Record] /\ \A d \in Claims : RecordOK(claim[d])
      /\ stream \in [Readers -> Reading] /\ \A r \in Readers : ReadingOK(stream[r])
  BY DEF IInv, ClaimsOK, StreamsOK
<1>2. new \in Record
  BY DEF RecordOK
<1>3. /\ claim' \in [Claims -> Record] /\ claim'[c] = new
      /\ \A d \in Claims : d # c => claim'[d] = claim[d]
  BY <1>1, <1>2
<1>4. ClaimsOK'
  <2>1. ASSUME NEW d \in Claims PROVE RecordOK(claim'[d])
    BY <1>1, <1>3
  <2>2. \A d \in Claims : RecordOK(claim[d])'
    BY <2>1 DEF RecordOK, Record
  <2>3. QED
    BY <1>3, <2>2 DEF ClaimsOK, Record
<1>5. ASSUME NEW r \in Readers
      PROVE  stream'[r] \in Reading /\ ReadingOK(stream[r])'
  <2> DEFINE old == stream[r]
  <2>1. old \in Reading /\ ReadingOK(old)
    BY <1>1
  <2>2. claim[c] \in Record /\ claim[c].steps \in Seq(Label)
    BY <1>1 DEF Record
  <2>3. CASE old.of = c /\ old.open
    <3>1. stream'[r] = [old EXCEPT !.seen = @ \o events]
      BY <2>3 DEF Sent
    <3>2. old.seen = claim[c].steps /\ old.seen \in Seq(Label) /\ c # "none"
      BY <2>1, <2>2, <2>3 DEF ReadingOK, Claims, Audits
    <3>3. old.seen \o events \in Seq(Label)
      BY <3>2
    <3>4. /\ stream'[r] \in Reading /\ stream'[r].of = c /\ stream'[r].open
          /\ stream'[r].seen = old.seen \o events
      BY <2>1, <2>3, <3>1, <3>3 DEF Reading
    <3>5. stream'[r].seen = claim'[c].steps
      BY <1>3, <3>2, <3>4
    <3>6. QED
      BY <3>4, <3>5 DEF ReadingOK, Reading
  <2>4. CASE ~(old.of = c /\ old.open)
    <3>1. stream'[r] = old
      BY <2>4 DEF Sent
    <3>2. old.of # "none" => old.of \in Claims /\ claim'[old.of] = claim[old.of]
      BY <1>3, <2>1, <2>4 DEF ReadingOK, Reading
    <3>3. QED
      BY <2>1, <3>1, <3>2 DEF ReadingOK, Reading
  <2>5. QED
    BY <2>3, <2>4
<1>6. stream' \in [Readers -> Reading]
  <2>1. stream' = [r \in Readers |-> stream'[r]]
    BY DEF Sent
  <2>2. QED
    BY <1>5, <2>1
<1>7. StreamsOK'
  BY <1>5, <1>6 DEF StreamsOK, Reading
<1>8. QED
  BY <1>4, <1>7

Midway == Steps \ {"consensus", "done", "error"}

\* A step on the way, of a record that is on the way or begins.
LEMMA ToSafe ==
    ASSUME IInv, NEW c \in Claims, claim[c].phase # "done",
           NEW phase \in {"extract", "live", "verify"},
           NEW events \in Seq(Midway), To(c, phase, events)
    PROVE  ClaimsOK' /\ StreamsOK'
<1> DEFINE old == claim[c]
           new == [old EXCEPT !.phase = phase, !.steps = @ \o events]
<1>1. claim \in [Claims -> Record] /\ RecordOK(old) /\ old \in Record
  BY DEF IInv, ClaimsOK
<1>2. events \in Seq(Label) /\ Range(events) \subseteq Midway
  <2>1. Midway \subseteq Label
    BY LabelsTyped DEF Midway
  <2>2. QED
    BY <2>1, RangeOfSeq
<1>3. old.steps \in Seq(Label)
  BY <1>1 DEF Record
<1>4. old.steps \o events \in Seq(Label)
  BY <1>2, <1>3
<1>5. /\ new \in Record /\ new.phase = phase
      /\ new.steps = old.steps \o events /\ new.result = old.result
  BY <1>1, <1>4 DEF Record
<1>6. Range(new.steps) = Range(old.steps) \cup Range(events)
  BY <1>2, <1>3, <1>5, RangeConcatenation
<1>7. /\ claim' = [claim EXCEPT ![c] = new] /\ stream' = Sent(c, events)
  BY <1>1 DEF To
<1> HIDE DEF new
<1>8. RecordOK(new)
  BY <1>1, <1>2, <1>5, <1>6 DEF RecordOK, Midway
<1>9. QED
  BY <1>2, <1>5, <1>7, <1>8, Pushed

\* The record of a claim that is posted is new.
LEMMA PostedSafe ==
    ASSUME IInv, NEW c \in Claims, claim[c].phase = "absent", Posted(c)
    PROVE  ClaimsOK' /\ StreamsOK'
<1>1. CASE BringsEvidence(c)
  <2> DEFINE events == <<"received", "extracted", "live_data", "verifying">>
  <2>1. To(c, "verify", events)
    BY <1>1 DEF Posted
  <2>2. events \in Seq(Midway)
    BY DEF Midway, Steps
  <2> HIDE DEF events
  <2>3. QED
    BY <2>1, <2>2, ToSafe
<1>2. CASE ~BringsEvidence(c)
  <2> DEFINE events == <<"received", "extracting">>
  <2>1. To(c, "extract", events)
    BY <1>2 DEF Posted
  <2>2. events \in Seq(Midway)
    BY DEF Midway, Steps
  <2> HIDE DEF events
  <2>3. QED
    BY <2>1, <2>2, ToSafe
<1>3. QED
  BY <1>1, <1>2

LEMMA ExtractedSafe ==
    ASSUME IInv, Extracted \/ LiveData
    PROVE  ClaimsOK' /\ StreamsOK'
<1>1. "person" \in Claims
  BY DEF Claims
<1>2. <<"extracted", "fetching">> \in Seq(Midway) /\ <<"live_data", "verifying">> \in Seq(Midway)
  BY DEF Midway, Steps
<1>3. CASE Extracted
  <2>1. claim["person"].phase # "done" /\ To("person", "live", <<"extracted", "fetching">>)
    BY <1>3 DEF Extracted
  <2>2. QED
    BY <1>1, <1>2, <2>1, ToSafe
<1>4. CASE LiveData
  <2>1. claim["person"].phase # "done" /\ To("person", "verify", <<"live_data", "verifying">>)
    BY <1>4 DEF LiveData
  <2>2. QED
    BY <1>1, <1>2, <2>1, ToSafe
<1>5. QED
  BY <1>3, <1>4

LEMMA ExtractionThrowsSafe ==
    ASSUME IInv, ExtractionThrows
    PROVE  ClaimsOK' /\ StreamsOK'
<1> DEFINE old == claim["person"]
           events == <<"error">>
           new == [old EXCEPT !.phase = "done", !.result = Failure,
                              !.steps = Append(@, "error")]
<1>1. "person" \in Claims
  BY DEF Claims
<1>2. claim \in [Claims -> Record] /\ RecordOK(old) /\ old \in Record
  BY <1>1 DEF IInv, ClaimsOK
<1>3. /\ old.phase = "extract" /\ stream' = Sent("person", events)
      /\ claim' = [claim EXCEPT !["person"] = new]
  BY DEF ExtractionThrows
<1>4. old.steps \in Seq(Label)
  BY <1>2 DEF Record
<1>5. events \in Seq(Label) /\ Range(events) = {"error"}
  BY LabelsTyped DEF Steps, Range
<1>6. Append(old.steps, "error") = old.steps \o events
  BY <1>4, LabelsTyped, AppendIsConcat DEF Steps
<1>7. Append(old.steps, "error") \in Seq(Label)
  BY <1>4, <1>5, <1>6
<1>8. Failure \in Results
  BY DEF Results
<1>9. /\ new \in Record /\ new.phase = "done" /\ new.result = Failure
      /\ new.steps = old.steps \o events
  BY <1>2, <1>6, <1>7, <1>8 DEF Record
<1> HIDE DEF new, events
<1>10. Range(new.steps) = Range(old.steps) \cup {"error"}
  BY <1>4, <1>5, <1>9, RangeConcatenation
<1>11. RecordOK(new)
  BY <1>2, <1>9, <1>10 DEF RecordOK
<1>12. QED
  BY <1>1, <1>3, <1>5, <1>9, <1>11, Pushed

\* An answer is a step; the last one brings the consensus and the end, and by
\* then every model has its step.
LEMMA AnsweredSafe ==
    ASSUME IInv, NEW c \in Claims, NEW m \in Model, Answered(c, m)
    PROVE  ClaimsOK' /\ StreamsOK'
<1> DEFINE old == claim[c]
<1>1. claim \in [Claims -> Record] /\ RecordOK(old) /\ old \in Record
  BY DEF IInv, ClaimsOK
<1>2. /\ old.steps \in Seq(Label) /\ old.answers \in [Model -> AnyAnswer]
  BY <1>1 DEF Record
<1>3. old.phase = "verify" /\ Models[m] \in Label /\ Models[m] \notin Steps
  BY LabelsTyped DEF Answered, Asked
<1>4. PICK a \in Answers(m) :
         LET answers == [old.answers EXCEPT ![m] = a]
         IN  IF \E o \in Model \ {m} : Asked(c, o)
             THEN /\ claim' = [claim EXCEPT ![c] =
                        [claim[c] EXCEPT !.steps = Append(@, Models[m]),
                                         !.answers = answers]]
                  /\ stream' = Sent(c, <<Models[m]>>)
             ELSE Merged(c, answers, <<Models[m]>>)
  BY DEF Answered
<1> DEFINE answers == [old.answers EXCEPT ![m] = a]
<1>5. answers \in [Model -> AnyAnswer]
  <2>1. a \in AnyAnswer
    BY DEF AnyAnswer
  <2>2. QED
    BY <1>2, <2>1
<1>6. CASE \E o \in Model \ {m} : Asked(c, o)
  <2> DEFINE events == <<Models[m]>>
             new == [old EXCEPT !.steps = Append(@, Models[m]), !.answers = answers]
  <2>1. claim' = [claim EXCEPT ![c] = new] /\ stream' = Sent(c, events)
    BY <1>1, <1>4, <1>6
  <2>2. events \in Seq(Label) /\ Range(events) = {Models[m]}
    BY <1>3 DEF Range
  <2>3. Append(old.steps, Models[m]) = old.steps \o events
    BY <1>2, <1>3, AppendIsConcat
  <2> HIDE DEF events, answers
  <2>4. Append(old.steps, Models[m]) \in Seq(Label)
    BY <1>2, <2>2, <2>3
  <2>5. /\ new \in Record /\ new.phase = "verify" /\ new.steps = old.steps \o events
    BY <1>1, <1>3, <1>5, <2>3, <2>4 DEF Record
  <2> HIDE DEF new
  <2>6. Range(new.steps) = Range(old.steps) \cup {Models[m]}
    BY <1>2, <2>2, <2>5, RangeConcatenation
  <2>7. RecordOK(new)
    BY <1>1, <1>3, <2>5, <2>6 DEF RecordOK, Steps
  <2>8. QED
    BY <1>3, <2>1, <2>2, <2>5, <2>7, Pushed
<1>7. CASE ~\E o \in Model \ {m} : Asked(c, o)
  <2> DEFINE events == <<Models[m]>> \o <<"consensus", "done">>
             new == [phase |-> "done", steps |-> old.steps \o events,
                     result |-> mergeVerdicts(answers), answers |-> answers]
  <2>1. Merged(c, answers, <<Models[m]>>)
    BY <1>4, <1>7
  <2> HIDE DEF answers
  <2>2. claim' = [claim EXCEPT ![c] = new] /\ stream' = Sent(c, events)
    BY <1>1, <2>1 DEF Merged
  <2>3. "consensus" \in Label /\ "done" \in Label
    BY LabelsTyped DEF Steps
  <2>4. <<Models[m]>> \in Seq(Label) /\ <<"consensus", "done">> \in Seq(Label)
    BY <1>3, <2>3
  <2>5. events \in Seq(Label) /\ Models[m] \in Range(events)
    <3>1. Range(events) = Range(<<Models[m]>>) \cup Range(<<"consensus", "done">>)
      BY <2>4, RangeConcatenation, Zenon
    <3>2. Models[m] \in Range(<<Models[m]>>)
      BY DEF Range
    <3>3. events \in Seq(Label)
      BY <2>4
    <3>4. QED
      BY <3>1, <3>2, <3>3
  <2>6. mergeVerdicts(answers) \in Results
    BY <1>5 DEF Results
  <2> HIDE DEF events
  <2>7. old.steps \o events \in Seq(Label)
    BY <1>2, <2>5
  <2>8. /\ new \in Record /\ new.phase = "done" /\ new.steps = old.steps \o events
        /\ new.result = mergeVerdicts(answers) /\ new.answers = answers
    BY <1>5, <2>6, <2>7 DEF Record
  <2> HIDE DEF new
  <2>9. Range(new.steps) = Range(old.steps) \cup Range(events)
    BY <1>2, <2>5, <2>8, RangeConcatenation
  <2>10. Range(Models) \subseteq Range(new.steps)
    <3>1. ASSUME NEW o \in Model PROVE Models[o] \in Range(new.steps)
      <4>1. CASE o = m
        BY <2>5, <2>9, <4>1
      <4>2. CASE o # m
        BY <1>3, <1>7, <2>9, <4>2 DEF Asked
      <4>3. QED
        BY <4>1, <4>2
    <3>2. QED
      BY <3>1 DEF Range, Model
  <2>11. RecordOK(new)
    BY <2>8, <2>10 DEF RecordOK
  <2>12. QED
    BY <1>3, <2>2, <2>5, <2>8, <2>11, Pushed
<1>8. QED
  BY <1>6, <1>7

\* A reader of a record that is on the way gets what there is and the rest; one
\* of a record at its end gets the trace, with the end once more.
LEMMA SubscribeSafe ==
    ASSUME IInv, NEW r \in Readers, NEW c \in Claims, Subscribe(r, c)
    PROVE  ClaimsOK' /\ StreamsOK'
<1> DEFINE done == claim[c].phase = "done"
           new == [of |-> c, open |-> ~done,
                   seen |-> claim[c].steps \o IF done THEN <<"done">> ELSE <<>>]
<1>1. /\ ClaimsOK /\ stream \in [Readers -> Reading] /\ claim[c].steps \in Seq(Label)
      /\ \A q \in Readers : ReadingOK(stream[q])
  BY DEF IInv, ClaimsOK, StreamsOK, Record
<1>2. claim' = claim /\ stream' = [stream EXCEPT ![r] = new]
  BY DEF Subscribe
<1>3. /\ new.of = c /\ new.open = ~done /\ new.seen \in Seq(Label) /\ new \in Reading
      /\ new.seen = IF done THEN Append(claim[c].steps, "done") ELSE claim[c].steps
  <2>1. "done" \in Label
    BY LabelsTyped DEF Steps
  <2>2. CASE done
    <3>1. claim[c].steps \o <<"done">> \in Seq(Label)
      BY <1>1, <2>1
    <3>2. new.seen = Append(claim[c].steps, "done")
      BY <1>1, <2>2, AppendIsConcat
    <3>3. QED
      BY <1>1, <2>2, <3>1, <3>2 DEF Reading
  <2>3. CASE ~done
    <3>1. new.seen = claim[c].steps
      BY <1>1, <2>3
    <3>2. QED
      BY <1>1, <2>3, <3>1 DEF Reading
  <2>4. QED
    BY <2>2, <2>3
<1> HIDE DEF new
<1>4. ReadingOK(new)
  BY <1>3 DEF ReadingOK
<1>5. stream' \in [Readers -> Reading] /\ \A q \in Readers : ReadingOK(stream'[q])
  BY <1>1, <1>2, <1>3, <1>4
<1>6. StreamsOK'
  BY <1>2, <1>5 DEF StreamsOK, ReadingOK, Reading
<1>7. ClaimsOK'
  BY <1>1, <1>2 DEF ClaimsOK, RecordOK, Record
<1>8. QED
  BY <1>6, <1>7

LEMMA LeaveSafe ==
    ASSUME IInv, NEW r \in Readers, Leave(r)
    PROVE  ClaimsOK' /\ StreamsOK'
<1>1. /\ ClaimsOK /\ stream \in [Readers -> Reading]
      /\ \A q \in Readers : ReadingOK(stream[q])
  BY DEF IInv, StreamsOK
<1>2. claim' = claim /\ stream' = [stream EXCEPT ![r] = Unread]
  BY DEF Leave
<1>3. Unread \in Reading /\ ReadingOK(Unread)
  BY UnreadOK DEF ReadingOK
<1>4. stream' \in [Readers -> Reading] /\ \A q \in Readers : ReadingOK(stream'[q])
  BY <1>1, <1>2, <1>3
<1>5. StreamsOK'
  BY <1>2, <1>4 DEF StreamsOK, ReadingOK, Reading
<1>6. ClaimsOK'
  BY <1>1, <1>2 DEF ClaimsOK, RecordOK, Record
<1>7. QED
  BY <1>5, <1>6

\* A crash of the agent loses the records and cuts off their readers.
LEMMA AgentCrashSafe ==
    ASSUME IInv, AgentCrash
    PROVE  ClaimsOK' /\ StreamsOK'
<1> DEFINE lost == [Unposted EXCEPT !.phase = "lost"]
<1>1. /\ claim' = [c \in Claims |-> IF claim[c].phase = "absent" THEN Unposted ELSE lost]
      /\ stream' = [r \in Readers |-> Unread]
  BY DEF AgentCrash
<1>2. RecordOK(Unposted) /\ RecordOK(lost) /\ Unposted \in Record /\ lost \in Record
  BY UnpostedOK DEF RecordOK
<1> HIDE DEF lost
<1>3. claim' \in [Claims -> Record] /\ \A c \in Claims : RecordOK(claim'[c])
  BY <1>1, <1>2
<1>4. ClaimsOK'
  BY <1>3 DEF ClaimsOK, RecordOK, Record
<1>5. Unread \in Reading /\ Unread.of = "none"
  BY UnreadOK DEF ReadingOK, Unread
<1>6. StreamsOK'
  BY <1>1, <1>5 DEF StreamsOK, ReadingOK, Reading
<1>7. QED
  BY <1>4, <1>6

\* A row that is written is honest if the rows were.
LEMMA ReportedSafe ==
    ASSUME IInv, NEW a \in Audits, NEW row \in HonestRows, Reported(a, row)
    PROVE  RowsOK'
<1>1. rows \in Seq(HonestRows) /\ rows' = Append(rows, row)
  BY DEF IInv, RowsOK, Reported
<1>2. rows' \in Seq(HonestRows)
  BY <1>1
<1>3. QED
  BY <1>2 DEF RowsOK, HonestRows, LedgerRow, Results, RowOK, AnyAnswer

\* The row of an audit without an answer claims nothing.
LEMMA FailedHonest ==
    ASSUME NEW a \in Audits, NEW status \in {"FAILED", "TIMEOUT"}
    PROVE  Row(a, status) \in HonestRows
<1>1. NoResult \in Results /\ Unposted.answers \in [Model -> AnyAnswer]
  BY UnpostedOK DEF Results, RecordOK, Record
<1>2. /\ Row(a, status) \in LedgerRow
      /\ Row(a, status).status = status /\ Row(a, status).result = NoResult
  BY <1>1 DEF Row, LedgerRow
<1>3. QED
  BY <1>2 DEF HonestRows, RowOK

\* The row of a run that is done says what the answers it lists say.
LEMMA PollSafe ==
    ASSUME IInv, NEW a \in Audits, Poll(a)
    PROVE  RowsOK'
<1>1. CASE Reported(a, Row(a, "FAILED"))
  BY <1>1, FailedHonest, ReportedSafe
<1>2. CASE /\ claim[a].phase = "done" /\ claim[a].result # Failure
           /\ Reported(a, [Row(a, "COMPLETED") EXCEPT !.result = claim[a].result,
                                                     !.models = claim[a].answers])
  <2> DEFINE row == [Row(a, "COMPLETED") EXCEPT !.result = claim[a].result,
                                                !.models = claim[a].answers]
  <2>1. claim[a] \in Record /\ RecordOK(claim[a])
    BY DEF IInv, ClaimsOK, Claims
  <2>2. /\ claim[a].result \in Results /\ claim[a].answers \in [Model -> AnyAnswer]
        /\ claim[a].result = mergeVerdicts(claim[a].answers)
    BY <1>2, <2>1 DEF RecordOK, Record
  <2>3. Justified(claim[a].result, claim[a].answers)
    BY <2>2, MergeJustified
  <2>4. /\ row \in LedgerRow /\ row.status = "COMPLETED"
        /\ row.result = claim[a].result /\ row.models = claim[a].answers
    BY <2>2 DEF Row, LedgerRow
  <2> HIDE DEF row
  <2>5. row \in HonestRows
    BY <2>3, <2>4 DEF HonestRows, RowOK
  <2>6. Reported(a, row)
    BY <1>2 DEF row
  <2>7. QED
    BY <2>5, <2>6, ReportedSafe
<1>3. QED
  BY <1>1, <1>2 DEF Poll

LEMMA AgentKept ==
    ASSUME IInv, UNCHANGED <<claim, stream>>
    PROVE  ClaimsOK' /\ StreamsOK'
<1>1. ClaimsOK'
  BY DEF IInv, ClaimsOK, RecordOK, Record
<1>2. StreamsOK'
  BY DEF IInv, StreamsOK, ReadingOK, Reading
<1>3. QED
  BY <1>1, <1>2

LEMMA RowsKept ==
    ASSUME IInv, UNCHANGED rows
    PROVE  RowsOK'
BY DEF IInv, RowsOK, HonestRows, LedgerRow, Results, RowOK, AnyAnswer

-----------------------------------------------------------------------------
LEMMA InitSafe ==
    ASSUME Init
    PROVE  IInv
<1>1. /\ claim = [c \in Claims |-> Unposted] /\ rows = <<>>
      /\ stream = [r \in Readers |-> Unread]
  BY DEF Init
<1>2. Unposted \in Record /\ RecordOK(Unposted) /\ Unread \in Reading /\ ReadingOK(Unread)
  BY UnpostedOK, UnreadOK DEF RecordOK, ReadingOK
<1>3. ClaimsOK /\ StreamsOK
  BY <1>1, <1>2 DEF ClaimsOK, StreamsOK
<1>4. RowsOK
  BY <1>1 DEF RowsOK
<1>5. QED
  BY <1>3, <1>4 DEF IInv

LEMMA StepSafe ==
    ASSUME IInv, [Next]_vars
    PROVE  IInv'
<1>1. CASE Post
  <2>1. "person" \in Claims /\ claim["person"].phase = "absent" /\ Posted("person")
    BY <1>1 DEF Post, Claims
  <2>2. UNCHANGED rows
    BY <1>1 DEF Post
  <2>3. QED
    BY <2>1, <2>2, PostedSafe, RowsKept DEF IInv
<1>2. CASE Extracted \/ LiveData
  <2>1. UNCHANGED rows
    BY <1>2 DEF Extracted, LiveData
  <2>2. QED
    BY <1>2, <2>1, ExtractedSafe, RowsKept DEF IInv
<1>3. CASE ExtractionThrows
  <2>1. UNCHANGED rows
    BY <1>3 DEF ExtractionThrows
  <2>2. QED
    BY <1>3, <2>1, ExtractionThrowsSafe, RowsKept DEF IInv
<1>4. CASE \E c \in Claims, m \in Model : Answered(c, m)
  <2>1. PICK c \in Claims, m \in Model : Answered(c, m)
    BY <1>4
  <2>2. UNCHANGED rows
    BY <2>1 DEF Answered
  <2>3. QED
    BY <2>1, <2>2, AnsweredSafe, RowsKept DEF IInv
<1>5. CASE \E r \in Readers : Leave(r)
  <2>1. PICK r \in Readers : Leave(r)
    BY <1>5
  <2>2. UNCHANGED rows
    BY <2>1 DEF Leave
  <2>3. QED
    BY <2>1, <2>2, LeaveSafe, RowsKept DEF IInv
<1>6. CASE \E r \in Readers, c \in Claims : Subscribe(r, c)
  <2>1. PICK r \in Readers, c \in Claims : Subscribe(r, c)
    BY <1>6
  <2>2. UNCHANGED rows
    BY <2>1 DEF Subscribe
  <2>3. QED
    BY <2>1, <2>2, SubscribeSafe, RowsKept DEF IInv
<1>7. CASE AuditDelivery \/ Settle \/ AuditSettlement \/ TrustCrash
  <2>1. UNCHANGED <<claim, stream>> /\ UNCHANGED rows
    BY <1>7 DEF AuditDelivery, Settle, AuditSettlement, TrustCrash
  <2>2. QED
    BY <2>1, AgentKept, RowsKept DEF IInv
<1>8. ASSUME NEW a \in Audits, PostAnswered(a)
      PROVE  IInv'
  <2>1. a \in Claims /\ claim[a].phase = "absent" /\ Posted(a) /\ UNCHANGED rows
    BY <1>8 DEF PostAnswered, Claims
  <2>2. QED
    BY <2>1, PostedSafe, RowsKept DEF IInv
<1>9. ASSUME NEW a \in Audits, PostLost(a)
      PROVE  IInv'
  <2>1. a \in Claims /\ claim[a].phase = "absent" /\ Posted(a)
    BY <1>9 DEF PostLost, Claims
  <2>2. PICK status \in {"FAILED", "TIMEOUT"} : Reported(a, Row(a, status))
    BY <1>9 DEF PostLost
  <2>3. QED
    BY <2>1, <2>2, PostedSafe, FailedHonest, ReportedSafe DEF IInv
<1>10. ASSUME NEW a \in Audits, PostFails(a) \/ TimedOut(a)
       PROVE  IInv'
  <2>1. UNCHANGED <<claim, stream>>
    BY <1>10 DEF PostFails, TimedOut
  <2>2. \E status \in {"FAILED", "TIMEOUT"} : Reported(a, Row(a, status))
    BY <1>10 DEF PostFails, TimedOut
  <2>3. QED
    BY <2>1, <2>2, AgentKept, FailedHonest, ReportedSafe DEF IInv
<1>11. ASSUME NEW a \in Audits, Poll(a)
       PROVE  IInv'
  <2>1. UNCHANGED <<claim, stream>>
    BY <1>11 DEF Poll
  <2>2. QED
    BY <1>11, <2>1, AgentKept, PollSafe DEF IInv
<1>12. CASE AgentCrash
  <2>1. UNCHANGED rows
    BY <1>12 DEF AgentCrash
  <2>2. QED
    BY <1>12, <2>1, AgentCrashSafe, RowsKept DEF IInv
<1>13. CASE UNCHANGED vars
  <2>1. UNCHANGED <<claim, stream>> /\ UNCHANGED rows
    BY <1>13 DEF vars
  <2>2. QED
    BY <2>1, AgentKept, RowsKept DEF IInv
<1>14. QED
  BY <1>1, <1>2, <1>3, <1>4, <1>5, <1>6, <1>7, <1>8, <1>9, <1>10, <1>11, <1>12,
     <1>13 DEF Next

\* What a reader has follows from the record it reads.
LEMMA TracesAreWhole ==
    ASSUME IInv
    PROVE  TracesWhole
<1>1. SUFFICES ASSUME NEW r \in Readers, stream[r].of # "none"
      PROVE  LET seen == stream[r].seen
                 run == claim[stream[r].of]
             IN  /\ "consensus" \in Range(seen) => Range(Models) \subseteq Range(seen)
                 /\ seen = IF stream[r].open THEN run.steps ELSE Append(run.steps, "done")
                 /\ {"done", "error"} \cap Range(seen) # {} => run.phase = "done"
  BY Zenon DEF TracesWhole
<1> DEFINE seen == stream[r].seen
           run == claim[stream[r].of]
<1>2. /\ stream[r] \in Reading /\ ReadingOK(stream[r])
  BY DEF IInv, StreamsOK
<1>3. stream[r].of \in Claims
  BY <1>1, <1>2 DEF Reading
<1>4. RecordOK(run) /\ run.steps \in Seq(Label)
  BY <1>3 DEF IInv, ClaimsOK, Record
<1>5. /\ seen = IF stream[r].open THEN run.steps ELSE Append(run.steps, "done")
      /\ ~stream[r].open => run.phase = "done"
  BY <1>1, <1>2 DEF ReadingOK
<1> HIDE DEF run
<1>6. Range(Append(run.steps, "done")) = Range(run.steps) \cup {"done"}
  <2>1. Append(run.steps, "done") = run.steps \o <<"done">>
    BY <1>4, LabelsTyped, AppendIsConcat DEF Steps
  <2>2. <<"done">> \in Seq(Label) /\ Range(<<"done">>) = {"done"}
    BY LabelsTyped DEF Steps, Range
  <2>3. Range(run.steps \o <<"done">>) = Range(run.steps) \cup Range(<<"done">>)
    BY <1>4, <2>2, RangeConcatenation
  <2>4. QED
    BY <2>1, <2>2, <2>3
<1> HIDE DEF seen
<1>7. /\ "consensus" \in Range(seen) => Range(Models) \subseteq Range(seen)
      /\ {"done", "error"} \cap Range(seen) # {} => run.phase = "done"
  BY <1>4, <1>5, <1>6 DEF RecordOK
<1>8. QED
  BY <1>5, <1>7 DEF seen, run

\* What the ledger and the readers are told is what happened: a COMPLETED row
\* says what the models that it lists answered, whoever failed, no other row
\* claims a verdict, and every reader has the trace from its beginning, in order
\* and without a gap (mergeVerdicts, runSlaAudit, GET /claims/:id/events).
THEOREM HonestAlways == Spec => []Honest
<1>1. Init => IInv
  BY InitSafe
<1>2. IInv /\ [Next]_vars => IInv'
  BY StepSafe
<1>3. IInv => Honest
  <2>1. SUFFICES ASSUME IInv PROVE RowsHonest
    BY TracesAreWhole DEF Honest
  <2>2. ASSUME NEW k \in DOMAIN rows PROVE rows[k] \in HonestRows
    BY <2>1 DEF IInv, RowsOK
  <2>3. QED
    BY <2>2 DEF RowsHonest, HonestRows, RowOK
<1>4. QED
  BY <1>1, <1>2, <1>3, PTL DEF Spec

-----------------------------------------------------------------------------
(***************************************************************************)
(* Deal, the other place where answers of several models are merged: the   *)
(* votes on the offers.                                          *)
(***************************************************************************)

(***************************************************************************)
(* Sorting.  Each element of a finite set goes to the place given by the   *)
(* number of those before it; no two have one number, so each place is     *)
(* taken.                                                                  *)
(***************************************************************************)

StrictOrder(S, r) ==
    /\ \A p \in S : <<p, p>> \notin r
    /\ \A p, q, s \in S : <<p, q>> \in r /\ <<q, s>> \in r => <<p, s>> \in r
    /\ \A p, q \in S : p = q \/ <<p, q>> \in r \/ <<q, p>> \in r

Before(p, S, r) == {q \in S : <<q, p>> \in r}

\* The sequence has each element of the set once, in the order r.
Sorted(o, S, r) ==
    /\ o \in Seq(S) /\ Len(o) = Cardinality(S) /\ DOMAIN o = 1 .. Cardinality(S)
    /\ \A p \in S : \E k \in DOMAIN o : o[k] = p
    /\ \A j, k \in DOMAIN o : j < k => <<o[j], o[k]>> \in r
    /\ \A j, k \in DOMAIN o : o[j] = o[k] => j = k

\* Who stands before another has fewer before it.
LEMMA FewerBefore ==
    ASSUME NEW S, IsFiniteSet(S), NEW r, StrictOrder(S, r), NEW p \in S, NEW q \in S
    PROVE  /\ Cardinality(Before(p, S, r)) \in 0 .. Cardinality(S) - 1
           /\ <<p, q>> \in r => Cardinality(Before(p, S, r)) < Cardinality(Before(q, S, r))
<1> DEFINE P == Before(p, S, r)
           Q == Before(q, S, r)
<1>1. P \in SUBSET S /\ Q \in SUBSET S /\ p \notin P
  BY DEF Before, StrictOrder
<1>2. /\ IsFiniteSet(P) /\ Cardinality(P) <= Cardinality(S)
      /\ Cardinality(S) = Cardinality(P) => S = P
  BY <1>1, FS_Subset
<1>3. Cardinality(P) \in Nat /\ Cardinality(S) \in Nat
  BY <1>2, FS_CardinalityType
<1>4. Cardinality(P) # Cardinality(S)
  BY <1>1, <1>2
<1>5. ASSUME <<p, q>> \in r
      PROVE  Cardinality(P) < Cardinality(Q)
  <2>1. P \in SUBSET Q /\ p \in Q
    BY <1>5 DEF Before, StrictOrder
  <2>2. IsFiniteSet(Q)
    BY <1>1, FS_Subset
  <2>3. Cardinality(P) <= Cardinality(Q) /\ (Cardinality(Q) = Cardinality(P) => Q = P)
    BY <2>1, <2>2, FS_Subset
  <2>4. Cardinality(Q) \in Nat
    BY <2>2, FS_CardinalityType
  <2> HIDE DEF P, Q
  <2> QED
    BY <1>1, <1>3, <2>1, <2>3, <2>4
<1> HIDE DEF P
<1>6. Cardinality(P) \in 0 .. Cardinality(S) - 1
  BY <1>2, <1>3, <1>4
<1> QED
  BY <1>5, <1>6 DEF P

\* Each number below the size of the set is the number of those before one
\* element of it.
LEMMA EachPlaceIsTaken ==
    ASSUME NEW S, IsFiniteSet(S), NEW r, StrictOrder(S, r),
           NEW k \in 1 .. Cardinality(S)
    PROVE  \E p \in S : Cardinality(Before(p, S, r)) = k - 1
<1> DEFINE n == Cardinality(S)
           D == 0 .. n - 1
           rank == [p \in S |-> Cardinality(Before(p, S, r))]
<1>1. n \in Nat
  BY FS_CardinalityType
<1>2. rank \in [S -> D]
  BY FewerBefore
<1>3. ASSUME NEW p \in S, NEW q \in S, rank[p] = rank[q]
      PROVE  p = q
  <2>1. /\ Cardinality(Before(p, S, r)) \in Int /\ Cardinality(Before(q, S, r)) \in Int
        /\ <<p, q>> \in r => Cardinality(Before(p, S, r)) < Cardinality(Before(q, S, r))
        /\ <<q, p>> \in r => Cardinality(Before(q, S, r)) < Cardinality(Before(p, S, r))
    BY FewerBefore
  <2>2. Cardinality(Before(p, S, r)) = Cardinality(Before(q, S, r))
    BY <1>3
  <2>3. <<p, q>> \notin r /\ <<q, p>> \notin r
    BY <2>1, <2>2
  <2> QED
    BY <2>3 DEF StrictOrder
<1> HIDE DEF rank
<1>4. rank \in Injection(S, D)
  BY <1>2, <1>3 DEF Injection, IsInjective
<1>5. IsFiniteSet(D) /\ Cardinality(D) = n
  <2> HIDE DEF n
  <2>1. 0 \in Int /\ n - 1 \in Int
    BY <1>1
  <2>2. IsFiniteSet(D) /\ Cardinality(D) = IF 0 > n - 1 THEN 0 ELSE (n - 1) - 0 + 1
    BY ONLY <2>1, FS_Interval
  <2> HIDE DEF D
  <2> QED
    BY <1>1, <2>2
<1> HIDE DEF D
<1>6. rank \in Surjection(S, D)
  BY <1>4, <1>5, FS_Injection
<1>7. k - 1 \in D
  BY <1>1 DEF D
<1>8. PICK p \in S : rank[p] = k - 1
  BY <1>6, <1>7 DEF Surjection
<1> QED
  BY <1>8 DEF rank

LEMMA InOrderSorts ==
    ASSUME NEW S, IsFiniteSet(S), NEW r, StrictOrder(S, r)
    PROVE  Sorted(InOrder(S, r), S, r)
<1> DEFINE n == Cardinality(S)
           o == InOrder(S, r)
           number == [p \in S |-> Cardinality(Before(p, S, r))]
<1>0. o = [k \in 1 .. n |-> CHOOSE p \in S : Cardinality(Before(p, S, r)) = k - 1]
  BY Zenon DEF InOrder, Before
<1>1. n \in Nat
  BY FS_CardinalityType
<1>2. ASSUME NEW k \in 1 .. n
      PROVE  o[k] \in S /\ number[o[k]] = k - 1
  <2>1. o[k] = CHOOSE p \in S : Cardinality(Before(p, S, r)) = k - 1
    BY <1>0 DEF Before
  <2>2. \E p \in S : Cardinality(Before(p, S, r)) = k - 1
    BY EachPlaceIsTaken
  <2> HIDE DEF o
  <2>3. o[k] \in S /\ Cardinality(Before(o[k], S, r)) = k - 1
    BY <2>1, <2>2
  <2> QED
    BY <2>3
<1>3. DOMAIN o = 1 .. n
  BY <1>0
<1>4. o = [k \in 1 .. n |-> o[k]]
  BY <1>0
<1>5. o \in Seq(S) /\ Len(o) = n
  <2>1. \A k \in 1 .. n : o[k] \in S
    BY <1>2
  <2> HIDE DEF o, n
  <2>2. o \in [1 .. n -> S]
    BY <1>4, <2>1
  <2> QED
    BY <1>1, <2>2
<1>6. \A p \in S : number[p] \in 0 .. n - 1
  BY FewerBefore
<1>7. \A p, q \in S : <<p, q>> \in r => number[p] < number[q]
  BY FewerBefore
<1> HIDE DEF number, o, n
<1>8. ASSUME NEW p \in S PROVE \E k \in 1 .. n : o[k] = p
  <2>1. number[p] + 1 \in 1 .. n
    BY <1>1, <1>6
  <2>2. o[number[p] + 1] \in S /\ number[o[number[p] + 1]] = number[p]
    BY <1>1, <1>2, <1>6, <2>1
  <2> DEFINE q == o[number[p] + 1]
  <2> HIDE DEF q
  <2>3. q \in S /\ number[q] = number[p]
    BY <2>2 DEF q
  <2>4. number[p] \in Int /\ <<p, q>> \notin r /\ <<q, p>> \notin r
    BY <1>1, <1>6, <1>7, <2>3
  <2>5. q = p
    BY <2>3, <2>4 DEF StrictOrder
  <2> QED
    BY <2>1, <2>5 DEF q
<1>9. ASSUME NEW j \in 1 .. n, NEW k \in 1 .. n, j < k
      PROVE  <<o[j], o[k]>> \in r
  <2>1. /\ o[j] \in S /\ number[o[j]] = j - 1 /\ o[k] \in S /\ number[o[k]] = k - 1
    BY <1>2
  <2>2. o[j] # o[k] /\ <<o[k], o[j]>> \notin r
    BY <1>6, <1>7, <1>9, <2>1
  <2> QED
    BY <2>1, <2>2 DEF StrictOrder
<1>10. ASSUME NEW j \in 1 .. n, NEW k \in 1 .. n, o[j] = o[k]
      PROVE  j = k
  BY <1>2, <1>10
<1> QED
  BY <1>3, <1>5, <1>8, <1>9, <1>10 DEF Sorted, o, n

\* In a sorted sequence the place of an element is its position.
LEMMA PositionInSorted ==
    ASSUME NEW S, NEW r, NEW o, Sorted(o, S, r), NEW k \in DOMAIN o
    PROVE  Position(o[k], o) = k - 1
<1> DEFINE Q(j) == o[j] = o[k] /\ \A i \in DOMAIN o : o[i] = o[k] => j <= i
<1>1. \A j \in DOMAIN o : o[j] = o[k] => j = k
  BY DEF Sorted
<1>2. k \in Int
  BY DEF Sorted
<1>3. Q(k)
  BY <1>1, <1>2
<1>4. \A j \in DOMAIN o : Q(j) => j = k
  BY <1>1
<1> HIDE DEF Q
<1>5. (CHOOSE j \in DOMAIN o : Q(j)) = k
  BY <1>3, <1>4
<1> QED
  BY <1>5 DEF Position, Q

\* What a sequence holds has a first place in it.
LEMMA PositionTyped ==
    ASSUME NEW T, NEW s \in Seq(T), NEW p \in Range(s)
    PROVE  Position(p, s) \in Nat /\ Position(p, s) + 1 \in DOMAIN s /\ s[Position(p, s) + 1] = p
<1> DEFINE K == {k \in DOMAIN s : s[k] = p}
           Q(k) == s[k] = p /\ \A j \in DOMAIN s : s[j] = p => k <= j
           c == CHOOSE k \in DOMAIN s : Q(k)
<1>1. Len(s) \in Nat /\ DOMAIN s = 1 .. Len(s)
  OBVIOUS
<1>2. IsFiniteSet(DOMAIN s)
  BY <1>1, FS_Interval
<1>3. K \in SUBSET Int /\ IsFiniteSet(K) /\ K # {}
  BY <1>1, <1>2, FS_Subset DEF Range
<1>4. Min(K) \in K /\ \A y \in K : Min(K) <= y
  <2> HIDE DEF K
  <2> QED
    BY <1>3, Ends
<1>5. Min(K) \in DOMAIN s /\ Q(Min(K))
  BY <1>4
<1> HIDE DEF Q, K
<1>6. c \in DOMAIN s /\ Q(c)
  BY <1>5
<1>7. Position(p, s) = c - 1
  BY DEF Position, Q
<1> HIDE DEF c
<1> QED
  BY <1>1, <1>6, <1>7 DEF Q

\* Positions in one sequence order what is in it.
LEMMA ByPositionOrders ==
    ASSUME NEW T, NEW s \in Seq(T), NEW S \in SUBSET Range(s)
    PROVE  StrictOrder(S, ByPosition(S, s))
<1> DEFINE f == [p \in S |-> Position(p, s)]
<1>1. \A p \in S : f[p] \in Nat /\ s[f[p] + 1] = p
  BY PositionTyped
<1>2. \A p, q \in S : <<p, q>> \in ByPosition(S, s) <=> f[p] < f[q]
  BY DEF ByPosition
<1> HIDE DEF f
<1>3. \A p, q \in S : f[p] = f[q] => p = q
  BY <1>1
<1>4. \A p \in S : <<p, p>> \notin ByPosition(S, s)
  BY <1>1, <1>2
<1>5. ASSUME NEW p \in S, NEW q \in S, NEW t \in S,
             <<p, q>> \in ByPosition(S, s), <<q, t>> \in ByPosition(S, s)
      PROVE  <<p, t>> \in ByPosition(S, s)
  <2>1. f[p] \in Int /\ f[q] \in Int /\ f[t] \in Int /\ f[p] < f[q] /\ f[q] < f[t]
    BY <1>1, <1>2, <1>5
  <2> QED
    BY <1>2, <2>1
<1>6. ASSUME NEW p \in S, NEW q \in S, p # q
      PROVE  <<p, q>> \in ByPosition(S, s) \/ <<q, p>> \in ByPosition(S, s)
  <2>1. f[p] \in Int /\ f[q] \in Int /\ f[p] # f[q]
    BY <1>1, <1>3, <1>6
  <2> QED
    BY <1>2, <2>1
<1> QED
  BY <1>4, <1>5, <1>6 DEF StrictOrder

\* To compare a number first, and by an order among equals, is an order.
LEMMA Lexicographic ==
    ASSUME NEW S, NEW f, \A p \in S : f[p] \in Int, NEW t, StrictOrder(S, t), NEW r,
           \A p, q \in S : <<p, q>> \in r <=> f[p] < f[q] \/ (f[p] = f[q] /\ <<p, q>> \in t)
    PROVE  StrictOrder(S, r)
<1>1. ASSUME NEW p \in S PROVE <<p, p>> \notin r
  <2>1. f[p] \in Int /\ <<p, p>> \notin t
    BY DEF StrictOrder
  <2> QED
    BY <2>1
<1>2. ASSUME NEW p \in S, NEW q \in S, NEW s \in S, <<p, q>> \in r, <<q, s>> \in r
      PROVE  <<p, s>> \in r
  <2>1. f[p] \in Int /\ f[q] \in Int /\ f[s] \in Int
    OBVIOUS
  <2>2. <<p, q>> \in t /\ <<q, s>> \in t => <<p, s>> \in t
    BY DEF StrictOrder
  <2>3. /\ f[p] < f[q] \/ (f[p] = f[q] /\ <<p, q>> \in t)
        /\ f[q] < f[s] \/ (f[q] = f[s] /\ <<q, s>> \in t)
    BY <1>2
  <2>4. f[p] < f[s] \/ (f[p] = f[s] /\ <<p, s>> \in t)
    BY <2>1, <2>2, <2>3
  <2> QED
    BY <2>4
<1>3. ASSUME NEW p \in S, NEW q \in S PROVE p = q \/ <<p, q>> \in r \/ <<q, p>> \in r
  <2>1. f[p] \in Int /\ f[q] \in Int
    OBVIOUS
  <2>2. p = q \/ <<p, q>> \in t \/ <<q, p>> \in t
    BY DEF StrictOrder
  <2>3. p = q \/ f[p] < f[q] \/ (f[p] = f[q] /\ <<p, q>> \in t)
              \/ f[q] < f[p] \/ (f[q] = f[p] /\ <<q, p>> \in t)
    BY <2>1, <2>2
  <2> QED
    BY <2>3
<1> QED
  BY <1>1, <1>2, <1>3 DEF StrictOrder

(***************************************************************************)
(* Sums of positions, by way of the sums of scores above.                  *)
(***************************************************************************)

AddsPositions(h, p, vs, S) ==
    h = [s \in SUBSET S |-> IF s = {} THEN 0
            ELSE Position(p, vs[CHOOSE x \in s : TRUE]) + h[s \ {CHOOSE x \in s : TRUE}]]

Placed(p, vs) == [k \in Named(p, vs) |-> [score |-> Position(p, vs[k])]]

LEMMA SumIsTotal ==
    ASSUME NEW p, NEW vs
    PROVE  PositionSum(p, vs) = Total(Placed(p, vs), Named(p, vs))
<1> DEFINE S == Named(p, vs)
           a == Placed(p, vs)
<1>1. PositionSum(p, vs) = (CHOOSE h : AddsPositions(h, p, vs, S))[S]
  BY DEF PositionSum, MapThenSumSet, MapThenFoldSet, AddsPositions
<1>2. Total(a, S) = (CHOOSE h : Adds(h, a, S))[S]
  BY SumUnfold
<1>3. ASSUME NEW h
      PROVE  AddsPositions(h, p, vs, S) <=> Adds(h, a, S)
  <2> DEFINE F == [s \in SUBSET S |-> IF s = {} THEN 0
                    ELSE Position(p, vs[CHOOSE x \in s : TRUE]) + h[s \ {CHOOSE x \in s : TRUE}]]
             G == [s \in SUBSET S |-> IF s = {} THEN 0
                    ELSE a[CHOOSE x \in s : TRUE].score + h[s \ {CHOOSE x \in s : TRUE}]]
  <2>1. ASSUME NEW s \in SUBSET S PROVE F[s] = G[s]
    <3>1. CASE s = {}
      BY <3>1
    <3>2. CASE s # {}
      <4> DEFINE c == CHOOSE x \in s : TRUE
      <4>1. c \in S
        BY <3>2
      <4> HIDE DEF c
      <4>2. a[c].score = Position(p, vs[c])
        BY <4>1 DEF Placed
      <4>3. F[s] = Position(p, vs[c]) + h[s \ {c}] /\ G[s] = a[c].score + h[s \ {c}]
        BY <3>2 DEF c
      <4> QED
        BY <4>2, <4>3
    <3> QED
      BY <3>1, <3>2
  <2>2. F = [s \in SUBSET S |-> F[s]] /\ G = [s \in SUBSET S |-> G[s]]
    OBVIOUS
  <2>3. F = G
    <3> HIDE DEF F, G
    <3> QED
      BY <2>1, <2>2
  <2>4. (AddsPositions(h, p, vs, S) <=> h = F) /\ (Adds(h, a, S) <=> h = G)
    BY Zenon DEF AddsPositions, Adds
  <2> HIDE DEF F, G
  <2> QED
    BY <2>3, <2>4
<1> HIDE DEF a, S
<1>4. (CHOOSE h : AddsPositions(h, p, vs, S)) = (CHOOSE h : Adds(h, a, S))
  BY <1>3
<1> QED
  BY <1>1, <1>2, <1>4 DEF a, S

\* A sum of naturals is a natural, of zeros zero.
LEMMA PositionSumTyped ==
    ASSUME NEW p, NEW vs, IsFiniteSet(Named(p, vs)), NEW hi \in Nat,
           \A k \in Named(p, vs) : Position(p, vs[k]) \in 0 .. hi
    PROVE  PositionSum(p, vs) \in Nat /\ (hi = 0 => PositionSum(p, vs) = 0)
<1> DEFINE a == Placed(p, vs)
           S == Named(p, vs)
<1>1. \A k \in S : a[k].score \in 0 .. hi
  BY DEF Placed
<1>2. PositionSum(p, vs) = Total(a, S)
  BY SumIsTotal
<1> HIDE DEF a, S
<1>3. IsFiniteSet(S)
  BY DEF S
<1>4. Total(a, S) \in Int /\ Cardinality(S) * 0 <= Total(a, S) /\ Total(a, S) <= Cardinality(S) * hi
  BY <1>1, <1>3, TotalBounds
<1>5. Cardinality(S) \in Nat
  BY <1>3, FS_CardinalityType
<1>6. Cardinality(S) * 0 = 0 /\ (hi = 0 => Cardinality(S) * hi = 0)
  BY <1>5
<1> QED
  BY <1>2, <1>4, <1>6

\* If each of finitely many terms is less, the sum is.
LEMMA TotalLess ==
    ASSUME NEW S, IsFiniteSet(S), S # {}, NEW a, NEW b,
           \A m \in S : a[m].score \in Nat /\ b[m].score \in Nat /\ a[m].score < b[m].score
    PROVE  Total(a, S) < Total(b, S)
<1> DEFINE Less(T) == /\ Total(a, T) \in Int /\ Total(b, T) \in Int
                      /\ Total(a, T) <= Total(b, T)
                      /\ T # {} => Total(a, T) < Total(b, T)
           G == {T \in SUBSET S : Less(T)}
<1>1. ASSUME NEW T \in SUBSET S, \A U \in SUBSET T : U # T => U \in G
      PROVE  T \in G
  <2>1. CASE T = {}
    <3>1. Total(a, T) = 0 /\ Total(b, T) = 0
      BY <2>1, SumEmpty
    <3> QED
      BY <2>1, <3>1
  <2>2. CASE T # {}
    <3> DEFINE c == Pick(T)
               R == T \ {c}
    <3>1. /\ Total(a, T) = a[c].score + Total(a, R)
          /\ Total(b, T) = b[c].score + Total(b, R)
          /\ c \in T /\ R \in SUBSET T /\ R # T
      BY <2>2, SumPick
    <3>2. Less(R)
      BY <1>1, <3>1
    <3>3. a[c].score \in Nat /\ b[c].score \in Nat /\ a[c].score < b[c].score
      BY <3>1
    <3> HIDE DEF c, R
    <3>4. Total(a, T) \in Int /\ Total(b, T) \in Int /\ Total(a, T) < Total(b, T)
      BY <3>1, <3>2, <3>3
    <3> QED
      BY <3>4
  <2> QED
    BY <2>1, <2>2
<1>2. S \in G
  <2> HIDE DEF G
  <2> QED
    BY <1>1, SubsetInduction
<1> QED
  BY <1>2

(***************************************************************************)
(* The votes and their merge.                                              *)
(***************************************************************************)

\* What parseVote returns: known providers, each once.
Vote(v, S) == \E T \in SUBSET S : \E r : T # {} /\ Sorted(v, T, r)

LEMMA SortedRange ==
    ASSUME NEW o, NEW S, NEW r, Sorted(o, S, r)
    PROVE  Range(o) = S
BY DEF Sorted, Range

\* Who goes before another stands before it.
LEMMA SortedPosition ==
    ASSUME NEW S, NEW r, NEW o, StrictOrder(S, r), Sorted(o, S, r),
           NEW p \in S, NEW q \in S, <<p, q>> \in r
    PROVE  Position(p, o) < Position(q, o)
<1>1. PICK j \in DOMAIN o : o[j] = p
  BY DEF Sorted
<1>2. PICK k \in DOMAIN o : o[k] = q
  BY DEF Sorted
<1>3. Position(p, o) = j - 1 /\ Position(q, o) = k - 1
  BY <1>1, <1>2, PositionInSorted
<1>4. j \in Int /\ k \in Int
  BY DEF Sorted
<1>5. <<q, p>> \notin r /\ p # q
  BY DEF StrictOrder
<1>6. ~(k < j) /\ j # k
  BY <1>1, <1>2, <1>5 DEF Sorted
<1> QED
  BY <1>3, <1>4, <1>6

LEMMA VoteTyped ==
    ASSUME NEW S, IsFiniteSet(S), NEW v, Vote(v, S), NEW p \in Range(v)
    PROVE  Position(p, v) \in Nat /\ p \in S
<1>1. \E T \in SUBSET S : \E r : Sorted(v, T, r)
  BY DEF Vote
<1>2. PICK T \in SUBSET S : \E r : Sorted(v, T, r)
  BY <1>1
<1>3. PICK r : Sorted(v, T, r)
  BY <1>2
<1>4. Range(v) = T
  BY <1>3, SortedRange
<1>5. v \in Seq(T)
  BY <1>3 DEF Sorted
<1> QED
  BY <1>4, <1>5, PositionTyped

\* Finitely many votes give everybody a score.
LEMMA ScoresTyped ==
    ASSUME NEW S, IsFiniteSet(S), NEW vs, IsFiniteSet(DOMAIN vs),
           \A k \in DOMAIN vs : Vote(vs[k], S), NEW p, NEW ranked \in Seq(S)
    PROVE  Score(p, vs, ranked) \in Nat
<1>1. Named(p, vs) \in SUBSET DOMAIN vs
  BY DEF Named
<1>2. IsFiniteSet(Named(p, vs))
  BY <1>1, FS_Subset
<1>3. \A k \in Named(p, vs) : Position(p, vs[k]) \in Nat
  BY VoteTyped DEF Named
<1>4. PositionSum(p, vs) \in Nat
  <2> DEFINE P == {Position(p, vs[k]) : k \in Named(p, vs)}
             a == Placed(p, vs)
             N == Named(p, vs)
             f == [k \in N |-> Position(p, vs[k])]
  <2>1. CASE N = {}
    <3>1. \A k \in N : Position(p, vs[k]) \in 0 .. 0
      BY <2>1
    <3> QED
      BY <1>2, <3>1, PositionSumTyped
  <2>2. CASE N # {}
    <3>1. f \in [N -> Int]
      BY <1>3
    <3> HIDE DEF f
    <3>2. PICK x \in N : \A y \in N : f[x] >= f[y]
      BY <1>2, <2>2, <3>1, Topmost
    <3>3. f[x] \in Nat /\ \A y \in N : Position(p, vs[y]) \in 0 .. f[x]
      BY <1>3, <3>2 DEF f
    <3> QED
      BY <1>2, <3>3, PositionSumTyped
  <2> QED
    BY <2>1, <2>2
<1>5. Len(ranked) \in Nat
  OBVIOUS
<1> QED
  BY <1>4, <1>5 DEF Score

\* The order of the merge: by score, and as ranked among equals.
VoteOrder(vs, ranked) ==
    {e \in Range(ranked) \X Range(ranked) :
        \/ Score(e[1], vs, ranked) < Score(e[2], vs, ranked)
        \/ /\ Score(e[1], vs, ranked) = Score(e[2], vs, ranked)
           /\ Position(e[1], ranked) < Position(e[2], ranked)}

LEMMA MergeSorts ==
    ASSUME NEW S, IsFiniteSet(S), NEW vs, IsFiniteSet(DOMAIN vs),
           \A k \in DOMAIN vs : Vote(vs[k], S), NEW ranked, NEW t, Sorted(ranked, S, t)
    PROVE  /\ StrictOrder(S, VoteOrder(vs, ranked))
           /\ Sorted(mergeVotes(vs, ranked), S, VoteOrder(vs, ranked))
           /\ \A p, q \in S : Score(p, vs, ranked) < Score(q, vs, ranked)
                                 => <<p, q>> \in VoteOrder(vs, ranked)
<1>1. Range(ranked) = S
  BY SortedRange
<1>2. Range(ranked) = S /\ ranked \in Seq(S)
  BY <1>1 DEF Sorted
<1>3. StrictOrder(S, ByPosition(S, ranked))
  BY <1>2, ByPositionOrders
<1> DEFINE f == [p \in S |-> Score(p, vs, ranked)]
           m == VoteOrder(vs, ranked)
<1>4. \A p \in S : f[p] \in Int
  BY <1>2, ScoresTyped
<1>5. \A p, q \in S : <<p, q>> \in m <=>
          f[p] < f[q] \/ (f[p] = f[q] /\ <<p, q>> \in ByPosition(S, ranked))
  BY <1>2 DEF VoteOrder, ByPosition
<1>6. \A p, q \in S : Score(p, vs, ranked) < Score(q, vs, ranked) => <<p, q>> \in m
  BY <1>5
<1>7. mergeVotes(vs, ranked) = InOrder(S, m)
  BY <1>2 DEF mergeVotes, VoteOrder
<1> HIDE DEF f, m
<1>8. StrictOrder(S, m)
  BY <1>3, <1>4, <1>5, Lexicographic
<1>9. Sorted(InOrder(S, m), S, m)
  BY <1>8, InOrderSorts
<1> QED
  BY <1>6, <1>7, <1>8, <1>9 DEF m

\* If all votes put p before q, p has the lower score.
LEMMA AgreedScores ==
    ASSUME NEW S, IsFiniteSet(S), NEW vs, IsFiniteSet(DOMAIN vs), DOMAIN vs # {},
           \A k \in DOMAIN vs : Vote(vs[k], S), NEW ranked, Len(ranked) \in Nat \ {0},
           NEW p, NEW q,
           \A k \in DOMAIN vs :
              /\ p \in Range(vs[k])
              /\ IF q \in Range(vs[k]) THEN Position(p, vs[k]) < Position(q, vs[k])
                 ELSE Position(p, vs[k]) = 0 /\ Named(q, vs) = {}
    PROVE  Score(p, vs, ranked) < Score(q, vs, ranked)
<1>1. Named(p, vs) = DOMAIN vs
  BY DEF Named
<1>2. Score(p, vs, ranked) = PositionSum(p, vs)
  BY <1>1 DEF Score
<1>3. CASE Named(q, vs) = {}
  <2>1. \A k \in DOMAIN vs : q \notin Range(vs[k])
    BY <1>3 DEF Named
  <2>2. \A k \in Named(p, vs) : Position(p, vs[k]) \in 0 .. 0
    BY <1>1, <2>1
  <2>3. PositionSum(p, vs) = 0
    BY <1>1, <2>2, PositionSumTyped
  <2>4. Score(q, vs, ranked) = Len(ranked)
    BY <1>3 DEF Score
  <2> QED
    BY <1>2, <2>3, <2>4
<1>4. CASE Named(q, vs) # {}
  <2>1. Named(q, vs) = DOMAIN vs
    BY <1>4 DEF Named
  <2>2. \A k \in DOMAIN vs : /\ Position(p, vs[k]) \in Nat /\ Position(q, vs[k]) \in Nat
                             /\ Position(p, vs[k]) < Position(q, vs[k])
    <3>1. \A k \in DOMAIN vs : p \in Range(vs[k]) /\ q \in Range(vs[k])
      BY <1>1, <2>1 DEF Named
    <3> QED
      BY <3>1, VoteTyped
  <2> DEFINE a == Placed(p, vs)
             b == Placed(q, vs)
             D == DOMAIN vs
  <2>3. \A k \in D : a[k].score \in Nat /\ b[k].score \in Nat /\ a[k].score < b[k].score
    BY <1>1, <2>1, <2>2 DEF Placed
  <2>4. PositionSum(p, vs) = Total(a, D) /\ PositionSum(q, vs) = Total(b, D)
    BY <1>1, <2>1, SumIsTotal
  <2>5. Score(q, vs, ranked) = PositionSum(q, vs)
    BY <1>4 DEF Score
  <2>6. Total(a, D) < Total(b, D)
    <3> HIDE DEF a, b
    <3> QED
      BY <2>3, TotalLess
  <2> QED
    BY <1>2, <2>4, <2>5, <2>6
<1> QED
  BY <1>3, <1>4

(***************************************************************************)
(* The market.                                                             *)
(***************************************************************************)

\* What is known of every offer that the market can make: in an hour even the
\* dearest tier stays under 5 USDC.
OfferOK(o, minutes) ==
    /\ o.class \in Nat /\ o.price \in Nat /\ o.reliability \in Nat
    /\ o.capacity \in 200 .. 500
    /\ minutes <= 60 => o.price <= 500

\* The ends of the ranges of the three tiers.
LEMMA Personas ==
    ASSUME NEW t \in Range(Tiers), NEW e \in 1 .. 2
    PROVE  /\ Persona(t, e).reliability \in Nat
           /\ \/ /\ Persona(t, e).capacity = 380 /\ Persona(t, e).base = 40
                 /\ Persona(t, e).per100 = 50
              \/ /\ Persona(t, e).capacity = 500 /\ Persona(t, e).base = 80
                 /\ Persona(t, e).per100 = 70
              \/ /\ Persona(t, e).capacity = 220 /\ Persona(t, e).base = 30
                 /\ Persona(t, e).per100 = 50
              \/ /\ Persona(t, e).capacity = 340 /\ Persona(t, e).base = 70
                 /\ Persona(t, e).per100 = 90
              \/ /\ Persona(t, e).capacity = 200 /\ Persona(t, e).base = 20
                 /\ Persona(t, e).per100 = 40
              \/ /\ Persona(t, e).capacity = 320 /\ Persona(t, e).base = 50
                 /\ Persona(t, e).per100 = 70
<1>1. PICK i \in 1 .. 3 : t = Tiers[i]
  BY DEF Range, Tiers
<1>2. e = 1 \/ e = 2
  OBVIOUS
<1>3. i = 1 \/ i = 2 \/ i = 3
  OBVIOUS
<1>4. /\ Persona(t, e).reliability = 10 * Rounded(t.reliability[e], 100)
      /\ Persona(t, e).capacity = t.capacity[e] /\ Persona(t, e).base = t.base[e]
      /\ Persona(t, e).per100 = t.per100[e]
  BY DEF Persona
<1>5. t.reliability[e] \in Nat
  BY <1>1, <1>2, <1>3 DEF Tiers
<1>6. Rounded(t.reliability[e], 100) \in Nat
  BY <1>5 DEF Rounded
<1>7. CASE i = 1
  BY <1>1, <1>2, <1>4, <1>6, <1>7 DEF Tiers
<1>8. CASE i = 2
  BY <1>1, <1>2, <1>4, <1>6, <1>8 DEF Tiers
<1>9. CASE i = 3
  BY <1>1, <1>2, <1>4, <1>6, <1>9 DEF Tiers
<1> QED
  BY <1>3, <1>7, <1>8, <1>9

\* buildOfferDraft makes a sound offer of every persona.
LEMMA OffersOK ==
    ASSUME NEW t \in Range(Tiers), NEW e \in 1 .. 2, NEW p \in Range(Providers), NEW r,
           r.minutes \in Nat
    PROVE  OfferOK(Offer(p, Persona(t, e), r), r.minutes)
<1> DEFINE s == Persona(t, e)
           o == Offer(p, s, r)
           m == r.minutes
<1>1. /\ o.capacity = s.capacity /\ o.reliability = s.reliability
      /\ o.class = Classes[p][IF r.emergency THEN "fast" ELSE "standard"]
      /\ o.price = Rounded(6000 * s.base + s.per100 * s.capacity * m, 6000)
  BY DEF Offer
<1>2. o.class \in Nat
  BY <1>1, ConstantsAssumption DEF ConstantsTyped
<1> HIDE DEF m, o
<1> DEFINE c == s.capacity  b == s.base  g == s.per100
<1>3. /\ s.reliability \in Nat
      /\ \/ c = 380 /\ b = 40 /\ g = 50
         \/ c = 500 /\ b = 80 /\ g = 70
         \/ c = 220 /\ b = 30 /\ g = 50
         \/ c = 340 /\ b = 70 /\ g = 90
         \/ c = 200 /\ b = 20 /\ g = 40
         \/ c = 320 /\ b = 50 /\ g = 70
  BY Personas
<1>4. o.price = (2 * (6000 * b + g * c * m) + 6000) \div 12000
  BY <1>1 DEF Rounded
<1>5. m \in Nat
  BY DEF m
<1> HIDE DEF c, b, g, s
<1>6. o.price \in Nat /\ (m <= 60 => o.price <= 500)
  <2> DEFINE v == g * c
             n == 6000 * b + v * m
  <2>1. \/ b = 40 /\ v = 19000
        \/ b = 80 /\ v = 35000
        \/ b = 30 /\ v = 11000
        \/ b = 70 /\ v = 30600
        \/ b = 20 /\ v = 8000
        \/ b = 50 /\ v = 22400
    BY <1>3
  <2>2. o.price = (2 * n + 6000) \div 12000
    BY <1>4
  <2> HIDE DEF v
  <2>3. n \in Nat
    BY <1>5, <2>1
  <2>4. m <= 60 => n <= 2580000
    BY <1>5, <2>1
  <2> HIDE DEF n
  <2> QED
    BY <2>2, <2>3, <2>4
<1>7. c \in 200 .. 500
  BY <1>3
<1>8. o.capacity = c /\ o.reliability = s.reliability
  BY <1>1 DEF c
<1> QED
  BY <1>2, <1>3, <1>6, <1>7, <1>8 DEF OfferOK, m, o, s

\* A shuffle has tiers in all three places.
LEMMA ShuffledTiers ==
    ASSUME NEW tiers \in Shuffles, NEW i \in 1 .. 3
    PROVE  tiers[i] \in Range(Tiers)
<1> DEFINE T == Range(Tiers)
<1>1. Tiers \in [1 .. 3 -> T]
  <2>1. DOMAIN Tiers = 1 .. 3 /\ Tiers = [k \in 1 .. 3 |-> Tiers[k]]
    BY DEF Tiers
  <2> QED
    BY <2>1 DEF Range
<1>2. ASSUME NEW s \in [1 .. 3 -> T], NEW j \in 1 .. 3, NEW k \in 1 .. 3
      PROVE  Swapped(s, j, k) \in [1 .. 3 -> T]
  BY DEF Swapped
<1>3. PICK j \in 1 .. 3, k \in 1 .. 2 : tiers = Swapped(Swapped(Tiers, 3, j), 2, k)
  BY DEF Shuffles
<1> HIDE DEF T
<1>4. Swapped(Tiers, 3, j) \in [1 .. 3 -> T]
  BY <1>1, <1>2
<1>5. tiers \in [1 .. 3 -> T]
  BY <1>2, <1>3, <1>4
<1> QED
  BY <1>5 DEF T

\* There are finitely many providers.
LEMMA ProvidersFinite == IsFiniteSet(Range(Providers))
<1> DEFINE n == Len(Providers)
           P == Range(Providers)
<1>1. Providers \in Seq(P)
  BY ConstantsAssumption DEF ConstantsTyped
<1>2. n \in Nat /\ DOMAIN Providers = 1 .. n /\ Providers \in [1 .. n -> P]
  BY <1>1
<1>3. Providers \in Surjection(1 .. n, P)
  BY <1>2 DEF Surjection, Range
<1>4. IsFiniteSet(1 .. n)
  BY <1>2, FS_Interval
<1> QED
  BY <1>3, <1>4, FS_Surjection

\* Everybody who is asked arrives.
LEMMA EverybodyArrives ==
    ASSUME NEW s \in SetToSeqs(Range(Providers))
    PROVE  s \in Seq(Range(Providers)) /\ Range(s) = Range(Providers)
<1> DEFINE P == Range(Providers)
           n == Cardinality(P)
<1>1. IsFiniteSet(P) /\ n \in Nat
  BY ProvidersFinite, FS_CardinalityType
<1>2. s \in [1 .. n -> P] /\ \A i, j \in 1 .. n : i # j => s[i] # s[j]
  BY DEF SetToSeqs
<1> HIDE DEF P
<1>3. IsFiniteSet(1 .. n) /\ Cardinality(1 .. n) = n
  <2>1. Cardinality(1 .. n) = IF 1 > n THEN 0 ELSE n - 1 + 1
    BY <1>1, FS_Interval
  <2> HIDE DEF n
  <2> QED
    BY <1>1, <2>1, FS_Interval
<1>4. s \in Injection(1 .. n, P)
  BY <1>2 DEF Injection, IsInjective
<1>5. s \in Surjection(1 .. n, P)
  BY <1>1, <1>3, <1>4, FS_Injection
<1>6. Range(s) = P
  BY <1>2, <1>5 DEF Surjection, Range
<1>7. s \in Seq(P)
  <2> HIDE DEF n
  <2> QED
    BY <1>1, <1>2
<1> QED
  BY <1>6, <1>7 DEF P

(***************************************************************************)
(* What holds at each stage of a recovery.                                 *)
(***************************************************************************)

RequestOK == \E i \in Intents : request = buildProviderRequest(i)
BidsOK ==
    /\ DOMAIN offers = Range(Providers)
    /\ \A p \in Range(Providers) : OfferOK(offers[p], request.minutes)
    /\ arrivals \in SetToSeqs(Range(Providers))
RankOK ==
    /\ Viable # {}
    /\ IsFiniteSet(DOMAIN votes) /\ \A k \in DOMAIN votes : Vote(votes[k], Viable)
    /\ request.emergency => DOMAIN votes = {}
    /\ order = IF DOMAIN votes = {} THEN orderedViable ELSE mergeVotes(votes, orderedViable)
SignedOK ==
    \E o, percent : /\ o.price \in Nat /\ o.capacity \in 200 .. 500 /\ percent \in Percents
                    /\ signed = Agreement(o, percent)
VoucherOK == signed.price > 0 /\ voucher = buildVoucher(signed)
VerdictOK ==
    /\ verdict.penalty \in 0 .. voucher.provider
    /\ verdict.tolerance > 0 => stage = "verified"
    /\ verdict.net + verdict.penalty + voucher.fee = voucher.amount
    /\ verdict.penalty > 0 => 100 * verdict.average
           < (100 - verdict.tolerance) * signed.offer.capacity

Judged == {"verified", "verdict refused"}
Paid == {"committed"} \cup Judged

DealInv ==
    /\ stage \in {"market", "bids", "ranked"} => RequestOK
    /\ stage \in {"bids", "ranked"} => BidsOK
    /\ stage \in {"intent", "market", "bids"} => votes = <<>>
    /\ stage = "ranked" => RankOK
    /\ stage \in {"agreed"} \cup Paid => SignedOK
    /\ IF stage \in Paid THEN VoucherOK ELSE voucher = None
    /\ IF stage \in Judged THEN VerdictOK ELSE verdict = None

LEMMA RequestTyped ==
    ASSUME RequestOK
    PROVE  /\ request.minutes \in Nat /\ request.budget \in Nat /\ request.capacity \in Nat
           /\ request.capacity = Above(request.intent.required,
                                       request.intent.usable + request.intent.reduction)
<1>1. PICK i \in Intents : request = buildProviderRequest(i)
  BY DEF RequestOK
<1>2. /\ i.minutes \in Nat /\ i.budget \in Nat /\ i.required \in Nat
      /\ i.usable \in Nat /\ i.reduction \in Nat
  BY ConstantsAssumption DEF ConstantsTyped
<1>3. /\ request.minutes = i.minutes /\ request.budget = i.budget /\ request.intent = i
      /\ request.capacity = RecoveryNeeded(i)
  BY <1>1 DEF buildProviderRequest
<1>4. RecoveryNeeded(i) = Above(i.required, i.usable + i.reduction)
  BY DEF RecoveryNeeded
<1>5. Above(i.required, i.usable + i.reduction) \in Nat
  BY <1>2 DEF Above
<1> QED
  BY <1>2, <1>3, <1>4, <1>5

BestFirst == {e \in Viable \X Viable : Better(e[1], e[2])}
Ranking == IF request.emergency THEN ByPosition(Viable, arrivals) ELSE BestFirst

\* The viable offers can be put in order, by arrival and by what they offer.
LEMMA ViableOrdered ==
    ASSUME BidsOK
    PROVE  /\ IsFiniteSet(Viable) /\ Viable \subseteq Range(Providers)
           /\ StrictOrder(Viable, Ranking) /\ Sorted(orderedViable, Viable, Ranking)
<1>1. Viable \in SUBSET Range(Providers)
  BY DEF Viable, BidsOK
<1>2. IsFiniteSet(Viable)
  BY <1>1, ProvidersFinite, FS_Subset
<1>3. arrivals \in Seq(Range(Providers)) /\ Range(arrivals) = Range(Providers)
  BY EverybodyArrives DEF BidsOK
<1>4. StrictOrder(Viable, ByPosition(Viable, arrivals))
  BY <1>1, <1>3, ByPositionOrders
<1> DEFINE S == Viable
           class == [p \in S |-> offers[p].class]
           price == [p \in S |-> offers[p].price]
           reliable == [p \in S |-> -offers[p].reliability]
           r1 == ByPosition(S, arrivals)
           r2 == {e \in S \X S : \/ reliable[e[1]] < reliable[e[2]]
                                 \/ reliable[e[1]] = reliable[e[2]] /\ e \in r1}
           r3 == {e \in S \X S : \/ price[e[1]] < price[e[2]]
                                 \/ price[e[1]] = price[e[2]] /\ e \in r2}
           r4 == {e \in S \X S : \/ class[e[1]] < class[e[2]]
                                 \/ class[e[1]] = class[e[2]] /\ e \in r3}
<1>5. /\ \A p \in S : class[p] \in Int
      /\ \A p \in S : price[p] \in Int
      /\ \A p \in S : reliable[p] \in Int
  <2>1. \A p \in S : /\ offers[p].class \in Nat /\ offers[p].price \in Nat
                     /\ offers[p].reliability \in Nat
    BY <1>1 DEF BidsOK, OfferOK
  <2> QED
    BY <2>1
<1>6. \A p, q \in S : Better(p, q) <=> <<p, q>> \in r4
  <2> SUFFICES ASSUME NEW p \in S, NEW q \in S PROVE Better(p, q) <=> <<p, q>> \in r4
    OBVIOUS
  <2> DEFINE a == offers[p]
             b == offers[q]
  <2>1. <<p, q>> \in r1 <=> Arrived(p, q)
    BY DEF ByPosition, Arrived
  <2>2. a.reliability \in Nat /\ b.reliability \in Nat
    BY <1>1 DEF BidsOK, OfferOK
  <2> HIDE DEF r1
  <2>3. <<p, q>> \in r2 <=> \/ a.reliability > b.reliability
                            \/ a.reliability = b.reliability /\ Arrived(p, q)
    BY <2>1, <2>2
  <2> HIDE DEF r2
  <2>4. <<p, q>> \in r3 <=> a.price < b.price \/ (a.price = b.price /\ <<p, q>> \in r2)
    OBVIOUS
  <2> HIDE DEF r3
  <2>5. <<p, q>> \in r4 <=> a.class < b.class \/ (a.class = b.class /\ <<p, q>> \in r3)
    OBVIOUS
  <2> HIDE DEF r4
  <2>6. Better(p, q) <=>
          \/ a.class < b.class
          \/ a.class = b.class /\ a.price < b.price
          \/ a.class = b.class /\ a.price = b.price /\ a.reliability > b.reliability
          \/ /\ a.class = b.class /\ a.price = b.price /\ a.reliability = b.reliability
             /\ Arrived(p, q)
    BY DEF Better
  <2> HIDE DEF a, b
  <2> QED
    BY <2>3, <2>4, <2>5, <2>6
<1>7. BestFirst = r4
  <2>1. r4 \subseteq S \X S /\ BestFirst \subseteq S \X S
    BY DEF BestFirst
  <2>2. ASSUME NEW e \in S \X S PROVE e \in BestFirst <=> e \in r4
    <3>1. e = <<e[1], e[2]>> /\ e[1] \in S /\ e[2] \in S
      OBVIOUS
    <3>2. Better(e[1], e[2]) <=> <<e[1], e[2]>> \in r4
      BY <1>6, <3>1
    <3> HIDE DEF r4
    <3> QED
      BY <3>1, <3>2 DEF BestFirst
  <2> HIDE DEF r4
  <2> QED
    BY <2>1, <2>2
<1>8. /\ \A p, q \in S : <<p, q>> \in r2 <=> \/ reliable[p] < reliable[q]
                                             \/ reliable[p] = reliable[q] /\ <<p, q>> \in r1
      /\ \A p, q \in S : <<p, q>> \in r3 <=> \/ price[p] < price[q]
                                             \/ price[p] = price[q] /\ <<p, q>> \in r2
      /\ \A p, q \in S : <<p, q>> \in r4 <=> \/ class[p] < class[q]
                                             \/ class[p] = class[q] /\ <<p, q>> \in r3
  <2> HIDE DEF class, price, reliable, r1
  <2> QED
    OBVIOUS
<1> HIDE DEF class, price, reliable, r2, r3, r4
<1>9. StrictOrder(S, r2)
  BY <1>4, <1>5, <1>8, Lexicographic
<1>10. StrictOrder(S, r3)
  BY <1>5, <1>8, <1>9, Lexicographic
<1>11. StrictOrder(S, BestFirst)
  BY <1>5, <1>7, <1>8, <1>10, Lexicographic
<1>12. StrictOrder(S, Ranking)
  BY <1>4, <1>11 DEF Ranking
<1>13. orderedViable = InOrder(S, Ranking)
  BY DEF orderedViable, Ranking, BestFirst
<1> QED
  BY <1>1, <1>2, <1>12, <1>13, InOrderSorts

(***************************************************************************)
(* Who is chosen.                                                          *)
(***************************************************************************)

\* However it comes about, the order is one of the viable offers.
LEMMA OrderSorted ==
    ASSUME BidsOK, RankOK
    PROVE  \E r : StrictOrder(Viable, r) /\ Sorted(order, Viable, r)
<1>1. /\ IsFiniteSet(Viable) /\ StrictOrder(Viable, Ranking)
      /\ Sorted(orderedViable, Viable, Ranking)
  BY ViableOrdered
<1>2. CASE DOMAIN votes = {}
  <2>1. order = orderedViable
    BY <1>2 DEF RankOK
  <2> QED
    BY <1>1, <2>1
<1>3. CASE DOMAIN votes # {}
  <2>1. order = mergeVotes(votes, orderedViable)
    BY <1>3 DEF RankOK
  <2>2. IsFiniteSet(DOMAIN votes) /\ \A k \in DOMAIN votes : Vote(votes[k], Viable)
    BY DEF RankOK
  <2>3. /\ StrictOrder(Viable, VoteOrder(votes, orderedViable))
        /\ Sorted(order, Viable, VoteOrder(votes, orderedViable))
    BY <1>1, <2>1, <2>2, MergeSorts
  <2> QED
    BY <2>3
<1> QED
  BY <1>2, <1>3

\* The first of the order is a viable offer.
LEMMA FirstIsViable ==
    ASSUME BidsOK, RankOK
    PROVE  1 \in DOMAIN order /\ order[1] \in Viable
<1>1. PICK r : StrictOrder(Viable, r) /\ Sorted(order, Viable, r)
  BY OrderSorted
<1>2. IsFiniteSet(Viable) /\ Viable # {}
  BY ViableOrdered DEF RankOK
<1>3. Cardinality(Viable) \in Nat /\ Cardinality(Viable) # 0
  BY <1>2, FS_CardinalityType, FS_EmptySet
<1>4. DOMAIN order = 1 .. Cardinality(Viable) /\ order \in Seq(Viable)
  BY <1>1 DEF Sorted
<1> QED
  BY <1>3, <1>4

LEMMA WholeOrder ==
    ASSUME RequestOK, BidsOK, RankOK
    PROVE  OrderWhole
<1>1. PICK r : Sorted(order, Viable, r)
  BY OrderSorted
<1>2. Range(order) = Viable
  BY <1>1, SortedRange
<1>3. Len(order) = Cardinality(Viable)
  BY <1>1 DEF Sorted
<1>4. ASSUME NEW p \in Viable
      PROVE  offers[p].capacity >= Above(request.intent.required,
                                   request.intent.usable + request.intent.reduction)
  <2>1. p \in Range(Providers)
    BY ViableOrdered
  <2>2. offers[p].capacity \in Int
    BY <2>1 DEF BidsOK, OfferOK
  <2>3. "INSUFFICIENT_CAPACITY" \notin Reasons(offers[p])
    BY DEF Viable
  <2>4. ~(offers[p].capacity < request.capacity)
    BY <2>3 DEF Reasons
  <2> QED
    BY <2>2, <2>4, RequestTyped
<1> QED
  BY <1>2, <1>3, <1>4 DEF OrderWhole

\* Who is not first goes after who is.
LEMMA FirstBefore ==
    ASSUME BidsOK, RankOK, NEW r, Sorted(order, Viable, r), NEW p \in Viable
    PROVE  p = order[1] \/ <<order[1], p>> \in r
<1>1. PICK k \in DOMAIN order : order[k] = p
  BY DEF Sorted
<1>2. 1 \in DOMAIN order /\ k \in 1 .. Cardinality(Viable)
  BY FirstIsViable DEF Sorted
<1>3. k = 1 \/ 1 < k
  BY <1>2
<1> QED
  BY <1>1, <1>2, <1>3 DEF Sorted

LEMMA FirstCome ==
    ASSUME BidsOK, RankOK
    PROVE  FirstComeInEmergency
<1> SUFFICES ASSUME request.emergency
             PROVE  /\ DOMAIN votes = {}
                    /\ \A p \in Viable : p = order[1] \/ Arrived(order[1], p)
  BY DEF FirstComeInEmergency
<1>1. DOMAIN votes = {} /\ order = orderedViable
  BY DEF RankOK
<1>2. Sorted(order, Viable, ByPosition(Viable, arrivals))
  BY <1>1, ViableOrdered DEF Ranking
<1>3. ASSUME NEW p \in Viable PROVE p = order[1] \/ Arrived(order[1], p)
  <2>1. p = order[1] \/ <<order[1], p>> \in ByPosition(Viable, arrivals)
    BY <1>2, FirstBefore
  <2> QED
    BY <2>1 DEF ByPosition, Arrived
<1> QED
  BY <1>1, <1>3

LEMMA BestFirstChosen ==
    ASSUME BidsOK, RankOK
    PROVE  BestWithoutVotes
<1> SUFFICES ASSUME ~request.emergency, DOMAIN votes = {}, NEW p \in Viable
             PROVE  /\ offers[order[1]].class <= offers[p].class
                    /\ offers[order[1]].class = offers[p].class
                          => offers[order[1]].price <= offers[p].price
  BY DEF BestWithoutVotes
<1>1. order = orderedViable
  BY DEF RankOK
<1>2. Sorted(order, Viable, BestFirst)
  BY <1>1, ViableOrdered DEF Ranking
<1>3. p = order[1] \/ <<order[1], p>> \in BestFirst
  BY <1>2, FirstBefore
<1>4. p = order[1] \/ Better(order[1], p)
  BY <1>3 DEF BestFirst
<1>5. order[1] \in Range(Providers) /\ p \in Range(Providers)
  BY ViableOrdered, FirstIsViable
<1>6. /\ offers[p].class \in Int /\ offers[p].price \in Int
      /\ offers[order[1]].class \in Int /\ offers[order[1]].price \in Int
  BY <1>5 DEF BidsOK, OfferOK
<1>7. Better(order[1], p) => \/ offers[order[1]].class < offers[p].class
                             \/ /\ offers[order[1]].class = offers[p].class
                                /\ offers[order[1]].price <= offers[p].price
  BY <1>6 DEF Better
<1> QED
  BY <1>4, <1>6, <1>7

LEMMA VotesRespected ==
    ASSUME BidsOK, RankOK
    PROVE  Unanimous
<1> SUFFICES ASSUME NEW p \in Viable, NEW q \in Viable, DOMAIN votes # {},
                    \A k \in DOMAIN votes :
                       /\ p \in Range(votes[k])
                       /\ IF q \in Range(votes[k])
                          THEN Position(p, votes[k]) < Position(q, votes[k])
                          ELSE Position(p, votes[k]) = 0 /\ Named(q, votes) = {}
             PROVE  Position(p, order) < Position(q, order)
  BY DEF Unanimous
<1> DEFINE r == VoteOrder(votes, orderedViable)
<1>1. IsFiniteSet(Viable) /\ Sorted(orderedViable, Viable, Ranking)
  BY ViableOrdered
<1>2. /\ IsFiniteSet(DOMAIN votes) /\ \A k \in DOMAIN votes : Vote(votes[k], Viable)
      /\ order = mergeVotes(votes, orderedViable) /\ Viable # {}
  BY DEF RankOK
<1>3. Len(orderedViable) \in Nat \ {0}
  <2>1. Len(orderedViable) = Cardinality(Viable)
    BY <1>1 DEF Sorted
  <2> QED
    BY <1>1, <1>2, <2>1, FS_CardinalityType, FS_EmptySet
<1>4. Score(p, votes, orderedViable) < Score(q, votes, orderedViable)
  BY <1>1, <1>2, <1>3, AgreedScores
<1>5. StrictOrder(Viable, r) /\ Sorted(order, Viable, r) /\ <<p, q>> \in r
  BY <1>1, <1>2, <1>4, MergeSorts
<1> QED
  BY <1>5, SortedPosition

LEMMA OpenMarket ==
    ASSUME RequestOK, BidsOK
    PROVE  MarketOpen
<1> SUFFICES ASSUME request.capacity <= 200, request.minutes <= 60, request.budget >= 500,
                    NEW p \in DOMAIN offers
             PROVE  /\ "INSUFFICIENT_CAPACITY" \notin Reasons(offers[p])
                    /\ "BUDGET_EXCEEDED" \notin Reasons(offers[p])
  BY DEF MarketOpen
<1>1. OfferOK(offers[p], request.minutes)
  BY DEF BidsOK
<1>2. /\ offers[p].capacity \in 200 .. 500 /\ offers[p].price \in Nat
      /\ offers[p].price <= 500
  BY <1>1 DEF OfferOK
<1>3. request.capacity \in Nat /\ request.budget \in Nat
  BY RequestTyped
<1>4. ~(offers[p].capacity < request.capacity) /\ ~(offers[p].price > request.budget)
  BY <1>2, <1>3
<1> QED
  BY <1>4 DEF Reasons

\* All that is said of who is chosen.
LEMMA ChosenRight ==
    ASSUME RequestOK, BidsOK, RankOK
    PROVE  OrderWhole /\ FirstComeInEmergency /\ Unanimous /\ BestWithoutVotes /\ MarketOpen
BY WholeOrder, FirstCome, VotesRespected, BestFirstChosen, OpenMarket

(***************************************************************************)
(* The money.                                                              *)
(***************************************************************************)

\* A penalty is a part of the share, all of it only if nothing is tolerated,
\* and nothing unless less than tolerated was delivered.
LEMMA PenaltyBounds ==
    ASSUME NEW provider \in Nat \ {0}, NEW promised \in Nat \ {0}, NEW average \in Nat,
           NEW tolerance \in Nat
    PROVE  LET x == Penalty(provider, promised, average, tolerance)
           IN  /\ x \in 0 .. provider
               /\ tolerance > 0 => x < provider
               /\ x > 0 => 100 * average < (100 - tolerance) * promised
<1> DEFINE e == Excess(promised, average, tolerance)
           d == 100 * promised
           x == Penalty(provider, promised, average, tolerance)
           short == Above(promised, average)
           grace == tolerance * promised
<1>1. /\ d \in Nat \ {0} /\ grace \in Nat /\ (tolerance > 0 => grace > 0)
      /\ short \in 0 .. promised /\ (short > 0 => short = promised - average)
  BY DEF Above
<1>2. e = Above(100 * short, grace)
  BY DEF Excess
<1>3. (100 - tolerance) * promised = d - grace
  OBVIOUS
<1>4. x = (provider * e) \div d
  BY DEF Penalty
<1> HIDE DEF e, x, short, grace
<1>5. /\ e \in 0 .. d /\ (tolerance > 0 => e < d)
      /\ e > 0 => 100 * average < d - grace
  BY <1>1, <1>2 DEF Above
<1>6. d \in Nat \ {0}
  BY <1>1
<1> HIDE DEF d
<1>7. provider * e \in Nat /\ provider * d \in Nat /\ provider * e <= provider * d
  BY <1>5, <1>6
<1>8. provider * d = d * provider /\ d * provider < d * (provider + 1)
  BY <1>6
<1>9. x \in Int /\ (d * 0 <= provider * e => 0 <= x)
      /\ (provider * e < d * (provider + 1) => x <= provider)
  <2>1. provider * e \in Int /\ 0 \in Int /\ provider \in Int
    BY <1>7
  <2> QED
    BY <1>4, <1>6, <2>1, Quotient
<1>10. x \in 0 .. provider
  <2>1. d * 0 <= provider * e
    BY <1>6, <1>7
  <2> DEFINE a == provider * e  b == provider * d  c == d * (provider + 1)
  <2>2. a \in Nat /\ b \in Nat /\ a <= b /\ b < c /\ c \in Nat
    BY <1>6, <1>7, <1>8
  <2> HIDE DEF a, b, c
  <2>3. a < c
    BY <2>2
  <2>4. 0 <= x /\ x <= provider
    BY <1>9, <2>1, <2>3 DEF a, c
  <2> QED
    BY <1>9, <2>4
<1>11. ASSUME tolerance > 0 PROVE x < provider
  <2>1. e \in Nat /\ e < d
    BY <1>5, <1>6, <1>11
  <2>2. provider * e < provider * d
    BY <1>6, <2>1
  <2>3. provider - 1 \in Int /\ provider * e \in Int /\ (provider - 1) + 1 = provider
    BY <1>7
  <2>4. provider * e < d * ((provider - 1) + 1)
    BY <1>8, <2>2, <2>3
  <2>5. x <= provider - 1
    BY <1>4, <1>6, <2>3, <2>4, Quotient
  <2> QED
    BY <1>10, <2>5
<1>12. ASSUME x > 0 PROVE e > 0
  <2>1. SUFFICES ASSUME e = 0 PROVE FALSE
    BY <1>5, <1>6
  <2>2. provider * e = 0
    BY <2>1
  <2>3. x = 0
    BY <1>4, <1>6, <2>2
  <2> QED
    BY <1>12, <2>3
<1> QED
  BY <1>3, <1>5, <1>10, <1>11, <1>12 DEF x

\* The signed numbers, and what they make of the voucher.
LEMMA SignedTyped ==
    ASSUME SignedOK
    PROVE  /\ signed.price \in Nat /\ signed.price = signed.offer.price
           /\ signed.provider = signed.price /\ signed.percent \in 0 .. 100
           /\ signed.fee = Fee(signed.offer.price, signed.percent) /\ signed.fee \in Nat
           /\ signed.offer.capacity \in Nat \ {0}
<1>1. PICK o, percent : /\ o.price \in Nat /\ o.capacity \in 200 .. 500
                        /\ percent \in Percents /\ signed = Agreement(o, percent)
  BY DEF SignedOK
<1>2. /\ signed.offer = o /\ signed.price = o.price /\ signed.percent = percent
      /\ signed.fee = Fee(o.price, percent) /\ signed.provider = o.price
  BY <1>1 DEF Agreement
<1>3. percent \in 0 .. 100
  BY <1>1, ConstantsAssumption DEF ConstantsTyped
<1>4. Fee(o.price, percent) \in Nat
  <2>1. o.price * percent \in Nat
    BY <1>1, <1>3
  <2> DEFINE n == o.price * percent
  <2>2. Fee(o.price, percent) = (2 * n + 100) \div 200
    BY DEF Fee, Rounded
  <2> HIDE DEF n
  <2> QED
    BY <2>1, <2>2 DEF n
<1> QED
  BY <1>1, <1>2, <1>3, <1>4

LEMMA VoucherTyped ==
    ASSUME SignedOK, VoucherOK
    PROVE  /\ voucher.provider = signed.offer.price * Scale
           /\ voucher.fee = Fee(signed.offer.price, signed.percent) * Scale
           /\ voucher.amount = voucher.provider + voucher.fee
           /\ voucher.provider \in Nat \ {0} /\ voucher.fee \in Nat
<1>1. /\ voucher.provider = signed.provider * Scale /\ voucher.fee = signed.fee * Scale
      /\ voucher.amount = signed.price * Scale + signed.fee * Scale
  BY DEF VoucherOK, buildVoucher
<1>2. Scale \in Nat \ {0}
  BY ConstantsAssumption DEF ConstantsTyped
<1>3. /\ signed.price \in Nat \ {0} /\ signed.fee \in Nat
      /\ signed.price = signed.offer.price /\ signed.provider = signed.price
      /\ signed.fee = Fee(signed.offer.price, signed.percent)
  BY SignedTyped DEF VoucherOK
<1>4. signed.price * Scale \in Nat \ {0} /\ signed.fee * Scale \in Nat
  BY <1>2, <1>3
<1> QED
  BY <1>1, <1>3, <1>4

(***************************************************************************)
(* Every step keeps what holds at the stages.                              *)
(***************************************************************************)

LEMMA DealInitSafe == DealInit => DealInv
BY DEF DealInit, DealInv, Paid, Judged

LEMMA AskSafe ==
    ASSUME DealInv, Ask
    PROVE  DealInv'
<1>1. PICK i \in Intents :
        IF RecoveryNeeded(i) = 0 THEN stage' = "not needed" /\ UNCHANGED request
        ELSE stage' = "market" /\ request' = buildProviderRequest(i)
  BY DEF Ask
<1>2. /\ stage = "intent"
      /\ votes' = votes /\ signed' = signed /\ voucher' = voucher /\ verdict' = verdict
  BY DEF Ask
<1>3. stage' = "market" => RequestOK'
  BY <1>1 DEF RequestOK
<1>4. stage' \in {"market", "not needed"}
  BY <1>1
<1>5. votes = <<>> /\ voucher = None /\ verdict = None
  BY <1>2 DEF DealInv, Paid, Judged
<1> QED
  BY <1>2, <1>3, <1>4, <1>5 DEF DealInv, Paid, Judged

LEMMA BidSafe ==
    ASSUME DealInv, Bid
    PROVE  DealInv'
<1>1. PICK tiers \in Shuffles, ends \in [Range(Providers) -> 1..2],
           s \in SetToSeqs(Range(Providers)) :
        /\ offers' = [p \in Range(Providers) |->
               LET k == CHOOSE k \in DOMAIN Providers : Providers[k] = p
               IN  Offer(p, Persona(tiers[1 + ((k - 1) % 3)], ends[p]), request)]
        /\ arrivals' = s
  BY DEF Bid
<1>2. /\ stage = "market" /\ stage' = "bids" /\ request' = request /\ votes' = votes
      /\ signed' = signed /\ voucher' = voucher /\ verdict' = verdict
  BY DEF Bid
<1>3. RequestOK /\ votes = <<>> /\ voucher = None /\ verdict = None
  BY <1>2 DEF DealInv, Paid, Judged
<1>4. RequestOK'
  BY <1>2, <1>3 DEF RequestOK
<1>5. request.minutes \in Nat
  BY <1>3, RequestTyped
<1>6. ASSUME NEW p \in Range(Providers)
      PROVE  OfferOK(offers'[p], request.minutes)
  <2> DEFINE k == CHOOSE k \in DOMAIN Providers : Providers[k] = p
             i == 1 + ((k - 1) % 3)
  <2>1. Providers \in Seq(Range(Providers))
    BY ConstantsAssumption DEF ConstantsTyped
  <2>2. \E j \in DOMAIN Providers : Providers[j] = p
    BY DEF Range
  <2>3. k \in DOMAIN Providers
    BY <2>2
  <2>4. offers'[p] = Offer(p, Persona(tiers[i], ends[p]), request)
    BY <1>1
  <2> HIDE DEF k
  <2>5. k \in Nat /\ k >= 1
    BY <2>1, <2>3
  <2>6. (k - 1) % 3 \in 0 .. 2
    BY <2>5
  <2>7. i \in 1 .. 3
    BY <2>6
  <2> HIDE DEF i
  <2>8. tiers[i] \in Range(Tiers) /\ ends[p] \in 1 .. 2
    BY <2>7, ShuffledTiers
  <2> QED
    BY <1>5, <2>4, <2>8, OffersOK
<1>7. DOMAIN offers' = Range(Providers)
  BY <1>1
<1>8. BidsOK'
  BY <1>1, <1>2, <1>6, <1>7 DEF BidsOK
<1> QED
  BY <1>2, <1>3, <1>4, <1>8 DEF DealInv, Paid, Judged

\* A ballot that names somebody viable is a vote.
LEMMA BallotIsVote ==
    ASSUME NEW b \in queryModel, Range(b) \cap Viable # {}, IsFiniteSet(Viable)
    PROVE  Vote(parseVote(b), Viable)
<1> DEFINE known == Range(b) \cap Viable
<1>1. b # <<>>
  BY DEF Range
<1>2. b \in Seq(Range(b))
  BY <1>1, ConstantsAssumption DEF queryModel, ConstantsTyped
<1>3. IsFiniteSet(known) /\ known \in SUBSET Viable /\ known \in SUBSET Range(b)
  BY FS_Subset
<1>4. known # {}
  OBVIOUS
<1>5. parseVote(b) = InOrder(known, ByPosition(known, b))
  BY DEF parseVote
<1> HIDE DEF known
<1>6. StrictOrder(known, ByPosition(known, b))
  BY <1>2, <1>3, ByPositionOrders
<1>7. Sorted(parseVote(b), known, ByPosition(known, b))
  BY <1>3, <1>5, <1>6, InOrderSorts
<1> QED
  BY <1>3, <1>4, <1>7 DEF Vote

LEMMA RankSafe ==
    ASSUME DealInv, Rank
    PROVE  DealInv'
<1>1. /\ stage = "bids" /\ request' = request /\ offers' = offers /\ arrivals' = arrivals
      /\ signed' = signed /\ voucher' = voucher /\ verdict' = verdict
      /\ stage' = IF Viable = {} THEN "no viable offer" ELSE "ranked"
  BY DEF Rank
<1>2. RequestOK /\ BidsOK /\ votes = <<>> /\ voucher = None /\ verdict = None
  BY <1>1 DEF DealInv, Paid, Judged
<1>3. RequestOK'
  BY <1>1, <1>2 DEF RequestOK
<1>4. BidsOK'
  BY <1>1, <1>2 DEF BidsOK
<1>5. IsFiniteSet(Viable)
  BY <1>2, ViableOrdered
<1>6. Viable' = Viable
  BY <1>1 DEF Viable, Reasons
<1>7. orderedViable' = orderedViable
  BY <1>1, <1>6 DEF orderedViable, Better, Arrived
<1>8. /\ IsFiniteSet(DOMAIN votes') /\ \A k \in DOMAIN votes' : Vote(votes'[k], Viable)
      /\ request.emergency => DOMAIN votes' = {}
      /\ order' = IF DOMAIN votes' = {} THEN orderedViable
                  ELSE mergeVotes(votes', orderedViable)
  <2>1. CASE request.emergency \/ Cardinality(Viable) < 2
    <3>1. order' = orderedViable /\ votes' = votes
      BY <2>1 DEF Rank
    <3>2. DOMAIN votes' = {}
      BY <1>2, <3>1
    <3> QED
      BY <3>1, <3>2, FS_EmptySet
  <2>2. CASE ~(request.emergency \/ Cardinality(Viable) < 2)
    <3>1. PICK answers \in [1..Rankers -> queryModel] :
            LET read == {m \in 1..Rankers : Range(answers[m]) \cap Viable # {}}
            IN  /\ votes' = [m \in read |-> parseVote(answers[m])]
                /\ order' = IF read = {} THEN orderedViable
                            ELSE mergeVotes(votes', orderedViable)
      BY <2>2 DEF Rank
    <3> DEFINE read == {m \in 1..Rankers : Range(answers[m]) \cap Viable # {}}
    <3>2. /\ votes' = [m \in read |-> parseVote(answers[m])]
          /\ order' = IF read = {} THEN orderedViable ELSE mergeVotes(votes', orderedViable)
      BY <3>1
    <3>3. read \in SUBSET (1..Rankers)
      OBVIOUS
    <3>4. IsFiniteSet(1..Rankers)
      BY ConstantsAssumption, FS_Interval DEF ConstantsTyped
    <3>5. IsFiniteSet(read)
      BY <3>3, <3>4, FS_Subset
    <3>6. \A m \in read : Vote(parseVote(answers[m]), Viable)
      BY <1>5, BallotIsVote
    <3> HIDE DEF read
    <3>7. DOMAIN votes' = read /\ \A m \in read : votes'[m] = parseVote(answers[m])
      BY <3>2
    <3> QED
      BY <2>2, <3>2, <3>5, <3>6, <3>7
  <2> QED
    BY <2>1, <2>2
<1>9. stage' = "ranked" => RankOK'
  BY <1>1, <1>6, <1>7, <1>8 DEF RankOK
<1>10. stage' \in {"ranked", "no viable offer"}
  BY <1>1
<1> QED
  BY <1>1, <1>2, <1>3, <1>4, <1>9, <1>10 DEF DealInv, Paid, Judged

LEMMA AgreeSafe ==
    ASSUME DealInv, Agree
    PROVE  DealInv'
<1>1. /\ stage = "ranked" /\ stage' = "agreed" /\ voucher' = voucher /\ verdict' = verdict
      /\ \E percent \in Percents : signed' = Agreement(offers[order[1]], percent)
  BY DEF Agree
<1>2. BidsOK /\ RankOK /\ voucher = None /\ verdict = None
  BY <1>1 DEF DealInv, Paid, Judged
<1>3. order[1] \in Range(Providers)
  BY <1>2, FirstIsViable, ViableOrdered
<1>4. offers[order[1]].price \in Nat /\ offers[order[1]].capacity \in 200 .. 500
  BY <1>2, <1>3 DEF BidsOK, OfferOK
<1>5. SignedOK'
  BY <1>1, <1>4 DEF SignedOK
<1> QED
  BY <1>1, <1>2, <1>5 DEF DealInv, Paid, Judged

LEMMA CommitSafe ==
    ASSUME DealInv, Commit
    PROVE  DealInv'
<1>1. /\ stage = "agreed" /\ signed' = signed /\ verdict' = verdict
      /\ \E a \in Envelopes : \/ Accepts(a) /\ stage' = "committed" /\ voucher' = buildVoucher(a)
                              \/ stage' = "refused" /\ voucher' = voucher
  BY DEF Commit
<1>2. SignedOK /\ voucher = None /\ verdict = None
  BY <1>1 DEF DealInv, Paid, Judged
<1>3. SignedOK'
  BY <1>1, <1>2 DEF SignedOK
<1>4. \/ stage' = "committed" /\ VoucherOK'
      \/ stage' = "refused" /\ voucher' = None
  BY <1>1, <1>2 DEF Accepts, VoucherOK, buildVoucher
<1> QED
  BY <1>1, <1>2, <1>3, <1>4 DEF DealInv, Paid, Judged

LEMMA DeliverSafe ==
    ASSUME DealInv, Deliver
    PROVE  DealInv'
<1>1. /\ stage = "committed" /\ signed' = signed /\ voucher' = voucher
  BY DEF Deliver
<1>2. SignedOK /\ VoucherOK
  BY <1>1 DEF DealInv, Paid, Judged
<1> DEFINE promised == signed.offer.capacity
<1>3. PICK average \in Averages, tolerance \in Tolerances :
        LET penalty == Penalty(voucher.provider, promised, average, tolerance)
        IN  /\ verdict' = [average |-> average, tolerance |-> tolerance,
                           penalty |-> penalty, net |-> voucher.provider - penalty]
            /\ stage' = IF penalty < voucher.amount - voucher.fee THEN "verified"
                        ELSE "verdict refused"
  BY DEF Deliver
<1> DEFINE penalty == Penalty(voucher.provider, promised, average, tolerance)
<1>4. /\ verdict'.average = average /\ verdict'.tolerance = tolerance
      /\ verdict'.penalty = penalty /\ verdict'.net = voucher.provider - penalty
      /\ stage' = IF penalty < voucher.amount - voucher.fee THEN "verified"
                  ELSE "verdict refused"
  <2> HIDE DEF penalty, promised
  <2>1. /\ verdict' = [average |-> average, tolerance |-> tolerance,
                       penalty |-> penalty, net |-> voucher.provider - penalty]
        /\ stage' = IF penalty < voucher.amount - voucher.fee THEN "verified"
                    ELSE "verdict refused"
    BY <1>3 DEF penalty, promised
  <2> QED
    BY <2>1
<1>5. average \in Nat /\ tolerance \in Nat
  BY ConstantsAssumption DEF ConstantsTyped
<1>6. /\ voucher.provider \in Nat \ {0} /\ voucher.fee \in Nat
      /\ voucher.amount = voucher.provider + voucher.fee /\ promised \in Nat \ {0}
  BY <1>2, SignedTyped, VoucherTyped
<1>7. /\ penalty \in 0 .. voucher.provider
      /\ tolerance > 0 => penalty < voucher.provider
      /\ penalty > 0 => 100 * average < (100 - tolerance) * promised
  <2> HIDE DEF promised
  <2> QED
    BY <1>5, <1>6, PenaltyBounds
<1> HIDE DEF penalty
<1>8. VerdictOK'
  <2>1. voucher.amount - voucher.fee = voucher.provider
    BY <1>6
  <2>2. tolerance > 0 => stage' = "verified"
    BY <1>4, <1>7, <2>1
  <2>3. (voucher.provider - penalty) + penalty + voucher.fee = voucher.amount
    BY <1>6, <1>7
  <2> QED
    BY <1>1, <1>4, <1>7, <2>2, <2>3 DEF VerdictOK
<1>9. stage' \in Judged
  BY <1>4 DEF Judged
<1>10. SignedOK' /\ VoucherOK'
  BY <1>1, <1>2 DEF SignedOK, VoucherOK, buildVoucher
<1> QED
  BY <1>8, <1>9, <1>10 DEF DealInv, Paid, Judged

LEMMA DealStutterSafe ==
    ASSUME DealInv, UNCHANGED dealVars
    PROVE  DealInv'
<1>1. /\ stage' = stage /\ request' = request /\ offers' = offers /\ arrivals' = arrivals
      /\ votes' = votes /\ order' = order /\ signed' = signed /\ voucher' = voucher
      /\ verdict' = verdict
  BY DEF dealVars
<1>2. Viable' = Viable
  BY <1>1 DEF Viable, Reasons
<1>3. orderedViable' = orderedViable
  BY <1>1, <1>2 DEF orderedViable, Better, Arrived
<1>4. (RequestOK' <=> RequestOK) /\ (BidsOK' <=> BidsOK)
  BY <1>1 DEF RequestOK, BidsOK
<1>5. RankOK' <=> RankOK
  BY <1>1, <1>2, <1>3 DEF RankOK
<1>6. (SignedOK' <=> SignedOK) /\ (VoucherOK' <=> VoucherOK) /\ (VerdictOK' <=> VerdictOK)
  BY <1>1 DEF SignedOK, VoucherOK, buildVoucher, VerdictOK
<1> QED
  BY <1>1, <1>4, <1>5, <1>6 DEF DealInv

\* What holds at the stages holds always.
THEOREM StagesRight == DealSpec => []DealInv
<1>1. DealInv /\ [DealNext]_dealVars => DealInv'
  <2> SUFFICES ASSUME DealInv, [DealNext]_dealVars PROVE DealInv'
    OBVIOUS
  <2>1. CASE Ask
    BY <2>1, AskSafe
  <2>2. CASE Bid
    BY <2>2, BidSafe
  <2>3. CASE Rank
    BY <2>3, RankSafe
  <2>4. CASE Agree
    BY <2>4, AgreeSafe
  <2>5. CASE Commit
    BY <2>5, CommitSafe
  <2>6. CASE Deliver
    BY <2>6, DeliverSafe
  <2>7. CASE UNCHANGED dealVars
    BY <2>7, DealStutterSafe
  <2> QED
    BY <2>1, <2>2, <2>3, <2>4, <2>5, <2>6, <2>7 DEF DealNext
<1> QED
  BY DealInitSafe, <1>1, PTL DEF DealSpec

\* Chosen (orderedViable, mergeVotes): for any providers, intents, ballots and
\* number of models, the ranking has every offer that covers the need once, the
\* first come in an emergency, what all votes put first before what they do not,
\* and without votes nobody faster or cheaper than the first; the market is open.
THEOREM ChosenAlways == DealSpec => []Chosen
<1>1. DealInv => Chosen
  BY ChosenRight DEF DealInv, Chosen
<1> QED
  BY StagesRight, <1>1, PTL

\* MoneySound (computeFeeSplit, buildVoucher, verifyDelivery): for any prices,
\* fees, deliveries and tolerances, what is locked is what was signed, and what
\* the delivery takes and leaves adds up to it.
THEOREM MoneyAlways == DealSpec => []MoneySound
<1>1. ASSUME DealInv PROVE MoneySound
  <2>1. CASE stage \notin Paid
    <3>1. voucher = None /\ verdict = None
      BY <1>1, <2>1 DEF DealInv, Paid
    <3> QED
      BY <3>1 DEF MoneySound
  <2>2. CASE stage \in Paid
    <3>1. SignedOK /\ VoucherOK
      BY <1>1, <2>2 DEF DealInv
    <3>2. /\ voucher.provider = signed.offer.price * Scale
          /\ voucher.fee = Fee(signed.offer.price, signed.percent) * Scale
          /\ voucher.amount = voucher.provider + voucher.fee
      BY <3>1, VoucherTyped
    <3>3. verdict = None \/ VerdictOK
      BY <1>1 DEF DealInv
    <3> QED
      BY <3>2, <3>3 DEF MoneySound, VerdictOK
  <2> QED
    BY <2>1, <2>2
<1> QED
  BY StagesRight, <1>1, PTL
=============================================================================
