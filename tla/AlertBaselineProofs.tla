------------------------- MODULE AlertBaselineProofs -------------------------
(***************************************************************************)
(* What a verdict of AlertBaseline has to be based on, for all readings,   *)
(* windows and thresholds.  The first half is about sums over finite sets: *)
(* a sum is a fold, which the prover only knows as a chosen function, so   *)
(* that it has the value one expects is shown by induction over the        *)
(* subsets of the set: a nonempty collection of subsets of a finite set    *)
(* has a smallest member.                                                  *)
(***************************************************************************)
EXTENDS AlertBaseline, FiniteSetTheorems, WellFoundedInduction, TLAPS

\* A nonempty collection of subsets of a finite set has a smallest member.
LEMMA SmallestSubset ==
  ASSUME NEW S, IsFiniteSet(S), NEW T, T \in SUBSET (SUBSET S), T # {}
  PROVE  \E U \in T : \A V \in T : V \subseteq U => V = U
<1>1. IsWellFoundedOn(StrictSubsetOrdering(S), SUBSET S)
  BY FS_StrictSubsetOrderingWellFounded, FS_FiniteSubsetsOfFinite
<1>2. PICK U \in T : \A V \in T : <<V, U>> \notin StrictSubsetOrdering(S)
  BY <1>1, WFMin
<1>3. QED
  BY <1>2 DEF StrictSubsetOrdering

\* Induction over the subsets of a finite set.
LEMMA SubsetInduction ==
  ASSUME NEW S, IsFiniteSet(S), NEW Good,
         \A U \in SUBSET S : (\A V \in SUBSET U : V # U => V \in Good) => U \in Good
  PROVE  \A U \in SUBSET S : U \in Good
<1> DEFINE Bad == {U \in SUBSET S : U \notin Good}
<1>1. SUFFICES ASSUME Bad # {} PROVE FALSE
  OBVIOUS
<1>2. PICK U \in Bad : \A V \in Bad : V \subseteq U => V = U
  <2>1. Bad \in SUBSET (SUBSET S)
    OBVIOUS
  <2> HIDE DEF Bad
  <2>2. QED
    BY <1>1, <2>1, SmallestSubset
<1>3. \A V \in SUBSET U : V # U => V \in Good
  BY <1>2
<1>4. QED
  BY <1>2, <1>3

-----------------------------------------------------------------------------
(* Sums over finite sets. *)

Chosen(s) == CHOOSE x \in s : TRUE

\* f holds the partial sums of w over the subsets of S.
PartialSums(f, w, S) ==
  f = [s \in SUBSET S |-> IF s = {} THEN 0 ELSE w[Chosen(s)] + f[s \ {Chosen(s)}]]

ThePartialSums(w, S) == CHOOSE f : PartialSums(f, w, S)

LEMMA ChosenIn ==
  ASSUME NEW S, S # {}
  PROVE  Chosen(S) \in S
BY DEF Chosen

\* The sum is what the partial sums hold for the whole set.
LEMMA SumUnfolded ==
  ASSUME NEW w, NEW S
  PROVE  SumFunctionOnSet(w, S) = ThePartialSums(w, S)[S]
BY DEF SumFunctionOnSet, FoldFunctionOnSet, MapThenFoldSet, ThePartialSums,
       PartialSums, Chosen

LEMMA PartialSumsValue ==
  ASSUME NEW w, NEW S, NEW f, PartialSums(f, w, S), NEW s \in SUBSET S
  PROVE  /\ s = {} => f[s] = 0
         /\ s # {} => f[s] = w[Chosen(s)] + f[s \ {Chosen(s)}]
BY DEF PartialSums

\* Two functions of partial sums agree where both are defined.
LEMMA PartialSumsAgree ==
  ASSUME NEW w, NEW S, IsFiniteSet(S), NEW T, T \subseteq S,
         NEW f, PartialSums(f, w, S), NEW g, PartialSums(g, w, T)
  PROVE  \A s \in SUBSET T : f[s] = g[s]
<1> DEFINE Good == {s \in SUBSET T : f[s] = g[s]}
<1>1. IsFiniteSet(T)
  BY FS_Subset
<1>2. ASSUME NEW s \in SUBSET T, \A v \in SUBSET s : v # s => v \in Good
      PROVE  s \in Good
  <2>1. CASE s = {}
    BY <2>1, PartialSumsValue
  <2>2. CASE s # {}
    <3> DEFINE rest == s \ {Chosen(s)}
    <3>1. rest \in SUBSET s /\ rest # s
      BY <2>2, ChosenIn
    <3>2. f[rest] = g[rest]
      BY <1>2, <3>1
    <3>3. g[s] = w[Chosen(s)] + g[rest]
      BY <2>2, PartialSumsValue
    <3>4. f[s] = w[Chosen(s)] + f[rest]
      <4>1. s \in SUBSET S
        OBVIOUS
      <4> HIDE DEF Good
      <4>2. QED
        BY <2>2, <4>1, PartialSumsValue
    <3>5. QED
      BY <3>2, <3>3, <3>4
  <2>3. QED
    BY <2>1, <2>2
<1>3. \A s \in SUBSET T : s \in Good
  <2> HIDE DEF Good
  <2>1. QED
    BY <1>1, <1>2, SubsetInduction
<1>4. QED
  BY <1>3

\* A finite set has partial sums.
LEMMA PartialSumsExist ==
  ASSUME NEW w, NEW S, IsFiniteSet(S)
  PROVE  PartialSums(ThePartialSums(w, S), w, S)
<1> DEFINE Good == {U \in SUBSET S : PartialSums(ThePartialSums(w, U), w, U)}
<1>1. ASSUME NEW U \in SUBSET S, \A V \in SUBSET U : V # U => V \in Good
      PROVE  U \in Good
  <2> DEFINE sum(s) == ThePartialSums(w, s)[s]
             value(s) == IF s = {} THEN 0 ELSE w[Chosen(s)] + sum(s \ {Chosen(s)})
             f == [s \in SUBSET U |-> value(s)]
  <2>1. ASSUME NEW V \in SUBSET U, V # U
        PROVE  sum(V) = value(V)
    <3>0. PartialSums(ThePartialSums(w, V), w, V) /\ IsFiniteSet(V)
      BY <1>1, <2>1, FS_Subset
    <3>1. CASE V = {}
      BY <3>0, <3>1, PartialSumsValue
    <3>2. CASE V # {}
      <4> DEFINE rest == V \ {Chosen(V)}
      <4>1. rest \in SUBSET V /\ rest \in SUBSET U /\ rest # U
        BY <2>1, <3>2, ChosenIn
      <4>2. PartialSums(ThePartialSums(w, rest), w, rest)
        BY <1>1, <4>1
      <4>3. ThePartialSums(w, V)[rest] = ThePartialSums(w, rest)[rest]
        BY <3>0, <4>1, <4>2, PartialSumsAgree
      <4>4. ThePartialSums(w, V)[V] = w[Chosen(V)] + ThePartialSums(w, V)[rest]
        BY <3>0, <3>2, PartialSumsValue
      <4>5. QED
        BY <3>2, <4>3, <4>4
    <3>3. QED
      BY <3>1, <3>2
  <2>2. ASSUME NEW s \in SUBSET U, s # {}
        PROVE  f[s \ {Chosen(s)}] = sum(s \ {Chosen(s)})
    <3>1. s \ {Chosen(s)} \in SUBSET U /\ s \ {Chosen(s)} # U
      BY <2>2, ChosenIn
    <3> HIDE DEF sum, value
    <3>2. QED
      BY <2>1, <3>1
  <2>3. PartialSums(f, w, U)
    <3>1. f = [s \in SUBSET U |->
                 IF s = {} THEN 0 ELSE w[Chosen(s)] + f[s \ {Chosen(s)}]]
      <4>1. \A s \in SUBSET U :
              value(s) = IF s = {} THEN 0 ELSE w[Chosen(s)] + f[s \ {Chosen(s)}]
        <5> HIDE DEF f, sum
        <5>1. QED
          BY <2>2
      <4> HIDE DEF value
      <4>2. QED
        BY <4>1
    <3> HIDE DEF f
    <3>2. QED
      BY <3>1 DEF PartialSums
  <2>4. QED
    BY <2>3 DEF ThePartialSums
<1>2. \A U \in SUBSET S : U \in Good
  <2> HIDE DEF Good
  <2>1. QED
    BY <1>1, SubsetInduction
<1>3. QED
  BY <1>2

\* Nothing sums to zero.
LEMMA SumEmpty ==
  ASSUME NEW w
  PROVE  SumFunctionOnSet(w, {}) = 0
<1>1. IsFiniteSet({})
  BY FS_EmptySet
<1>2. PartialSums(ThePartialSums(w, {}), w, {})
  BY <1>1, PartialSumsExist
<1>3. ThePartialSums(w, {})[{}] = 0
  BY <1>2, PartialSumsValue
<1>4. QED
  BY <1>3, SumUnfolded

LEMMA SumChosen ==
  ASSUME NEW w, NEW S, IsFiniteSet(S), S # {}
  PROVE  SumFunctionOnSet(w, S) = w[Chosen(S)] + SumFunctionOnSet(w, S \ {Chosen(S)})
<1> DEFINE rest == S \ {Chosen(S)}
<1>1. rest \in SUBSET S /\ rest \subseteq S /\ IsFiniteSet(rest)
  BY FS_Subset
<1>2. /\ PartialSums(ThePartialSums(w, S), w, S)
      /\ PartialSums(ThePartialSums(w, rest), w, rest)
  BY <1>1, PartialSumsExist
<1>3. ThePartialSums(w, S)[rest] = ThePartialSums(w, rest)[rest]
  BY <1>1, <1>2, PartialSumsAgree
<1>4. ThePartialSums(w, S)[S] = w[Chosen(S)] + ThePartialSums(w, S)[rest]
  BY <1>2, PartialSumsValue
<1>5. QED
  BY <1>3, <1>4, SumUnfolded

\* A sum of integers is one.
LEMMA SumIsInt ==
  ASSUME NEW w, NEW S, IsFiniteSet(S), \A x \in S : w[x] \in Int
  PROVE  \A U \in SUBSET S : SumFunctionOnSet(w, U) \in Int
<1> DEFINE Good == {U \in SUBSET S : SumFunctionOnSet(w, U) \in Int}
<1>1. ASSUME NEW U \in SUBSET S, \A V \in SUBSET U : V # U => V \in Good
      PROVE  U \in Good
  <2>1. CASE U = {}
    BY <2>1, SumEmpty
  <2>2. CASE U # {}
    <3>1. Chosen(U) \in U /\ IsFiniteSet(U)
      BY <2>2, ChosenIn, FS_Subset
    <3>2. SumFunctionOnSet(w, U \ {Chosen(U)}) \in Int
      BY <1>1, <3>1
    <3>3. QED
      BY <2>2, <3>1, <3>2, SumChosen
  <2>3. QED
    BY <2>1, <2>2
<1>2. \A U \in SUBSET S : U \in Good
  <2> HIDE DEF Good
  <2>1. QED
    BY <1>1, SubsetInduction
<1>3. QED
  BY <1>2

\* Any element can be the one that is added last.
LEMMA SumRemove ==
  ASSUME NEW w, NEW S, IsFiniteSet(S), \A x \in S : w[x] \in Int
  PROVE  \A U \in SUBSET S : \A x \in U :
           SumFunctionOnSet(w, U) = w[x] + SumFunctionOnSet(w, U \ {x})
<1> DEFINE sum(U) == SumFunctionOnSet(w, U)
           Good == {U \in SUBSET S : \A x \in U : sum(U) = w[x] + sum(U \ {x})}
<1>0. \A U \in SUBSET S : sum(U) \in Int
  BY SumIsInt
<1>1. ASSUME NEW U \in SUBSET S, \A V \in SUBSET U : V # U => V \in Good
      PROVE  U \in Good
  <2>1. ASSUME NEW x \in U PROVE sum(U) = w[x] + sum(U \ {x})
    <3> DEFINE c == Chosen(U)
    <3>1. c \in U /\ IsFiniteSet(U) /\ IsFiniteSet(U \ {x})
      BY <2>1, ChosenIn, FS_Subset
    <3>2. sum(U) = w[c] + sum(U \ {c})
      BY <3>1, SumChosen
    <3>3. CASE x = c
      BY <3>2, <3>3
    <3>4. CASE x # c
      <4> HIDE DEF c, sum
      <4>1. U \ {c} \in Good /\ x \in U \ {c}
        <5> HIDE DEF Good
        <5>1. QED
          BY <1>1, <2>1, <3>1, <3>4
      <4>2. U \ {x} \in Good /\ c \in U \ {x}
        <5> HIDE DEF Good
        <5>1. QED
          BY <1>1, <2>1, <3>1, <3>4
      <4> DEFINE both == sum((U \ {c}) \ {x})
      <4>3. sum(U \ {c}) = w[x] + both
        BY <4>1
      <4>4. sum(U \ {x}) = w[c] + both
        <5>1. (U \ {c}) \ {x} = (U \ {x}) \ {c}
          OBVIOUS
        <5>2. QED
          BY <4>2, <5>1
      <4>5. both \in Int
        BY <1>0
      <4>6. w[x] \in Int /\ w[c] \in Int
        BY <2>1, <3>1
      <4> HIDE DEF both
      <4>7. w[c] + (w[x] + both) = w[x] + (w[c] + both)
        BY <4>5, <4>6
      <4>8. QED
        BY <3>2, <4>3, <4>4, <4>7
    <3>5. QED
      BY <3>3, <3>4
  <2>2. QED
    BY <2>1
<1>2. \A U \in SUBSET S : U \in Good
  <2> HIDE DEF Good
  <2>1. QED
    BY <1>1, SubsetInduction
<1>3. QED
  BY <1>2

\* Summing n * w - t over a set.
LEMMA SumAffine ==
  ASSUME NEW w, NEW S, IsFiniteSet(S), \A x \in S : w[x] \in Int,
         NEW n \in Int, NEW t \in Int,
         NEW d, d = [x \in S |-> n * w[x] - t]
  PROVE  \A U \in SUBSET S :
           SumFunctionOnSet(d, U) = n * SumFunctionOnSet(w, U) - Cardinality(U) * t
<1> DEFINE sumW(U) == SumFunctionOnSet(w, U)
           sumD(U) == SumFunctionOnSet(d, U)
           Good == {U \in SUBSET S : sumD(U) = n * sumW(U) - Cardinality(U) * t}
<1>0. \A x \in S : d[x] \in Int
  OBVIOUS
<1>1. ASSUME NEW U \in SUBSET S, \A V \in SUBSET U : V # U => V \in Good
      PROVE  U \in Good
  <2>1. CASE U = {}
    <3>1. sumD(U) = 0 /\ sumW(U) = 0
      BY <2>1, SumEmpty
    <3>2. Cardinality(U) = 0
      BY <2>1, FS_EmptySet
    <3> HIDE DEF sumD, sumW
    <3>3. QED
      BY <3>1, <3>2
  <2>2. ASSUME NEW x \in U PROVE U \in Good
    <3> DEFINE rest == U \ {x}
    <3>1. IsFiniteSet(U) /\ rest \in SUBSET U /\ rest # U /\ rest \in SUBSET S
      BY FS_Subset
    <3>2. sumD(U) = d[x] + sumD(rest)
      BY <1>0, <2>2, SumRemove
    <3>3. sumW(U) = w[x] + sumW(rest)
      BY <2>2, SumRemove
    <3>4. sumW(rest) \in Int
      BY <3>1, SumIsInt
    <3>5. Cardinality(U) = Cardinality(rest) + 1 /\ Cardinality(rest) \in Nat
      BY <2>2, <3>1, FS_RemoveElement, FS_CardinalityType, FS_Subset
    <3> HIDE DEF sumD, sumW, rest
    <3>6. sumD(rest) = n * sumW(rest) - Cardinality(rest) * t
      BY <1>1, <3>1
    <3>7. d[x] = n * w[x] - t /\ w[x] \in Int
      OBVIOUS
    <3>8. n * sumW(U) = n * w[x] + n * sumW(rest)
      BY <3>3, <3>4, <3>7
    <3>9. Cardinality(U) * t = Cardinality(rest) * t + t
      BY <3>5
    <3>10. sumD(U) = n * sumW(U) - Cardinality(U) * t
      <4> DEFINE a == n * w[x]
                 b == n * sumW(rest)
                 c == Cardinality(rest) * t
      <4>1. a \in Int /\ b \in Int /\ c \in Int
        BY <3>4, <3>5, <3>7
      <4>2. sumD(U) = (a - t) + (b - c)
        BY <3>2, <3>6, <3>7
      <4>3. n * sumW(U) = a + b /\ Cardinality(U) * t = c + t
        BY <3>8, <3>9
      <4> HIDE DEF a, b, c
      <4>4. QED
        BY <4>1, <4>2, <4>3
    <3>11. QED
      BY <3>10
  <2>3. QED
    BY <2>1, <2>2
<1>2. \A U \in SUBSET S : U \in Good
  <2> HIDE DEF Good
  <2>1. QED
    BY <1>1, SubsetInduction
<1>3. QED
  BY <1>2

\* The square of a sum of n integers is at most n times the sum of their
\* squares.  The step: with x one of k + 1 terms and a the sum of the others,
\* 2 * x * a <= k * x * x + b when a * a <= k * b.
LEMMA SquareStep ==
  ASSUME NEW k \in Nat, NEW x \in Int, NEW a \in Int, NEW b \in Int,
         b >= 0, a * a <= k * b
  PROVE  (x + a) * (x + a) <= (k + 1) * (x * x + b)
<1>1. CASE k = 0
  <2>1. a * a <= 0
    BY <1>1
  <2>2. a = 0
    BY <2>1
  <2>3. QED
    BY <1>1, <2>2
<1>2. CASE k > 0
  <2>1. (k * x - a) * (k * x - a) >= 0
    OBVIOUS
  <2>2. 2 * k * x * a <= k * k * x * x + k * b
    BY <2>1
  <2>3. k * (2 * x * a) <= k * (k * x * x + b)
    BY <2>2
  <2>4. 2 * x * a <= k * x * x + b
    BY <1>2, <2>3
  <2>5. QED
    BY <2>4
<1>3. QED
  BY <1>1, <1>2

LEMMA SquareOfSum ==
  ASSUME NEW d, NEW S, IsFiniteSet(S), \A x \in S : d[x] \in Int,
         NEW q, q = [x \in S |-> d[x] * d[x]]
  PROVE  \A U \in SUBSET S :
           /\ SumFunctionOnSet(q, U) >= 0
           /\ SumFunctionOnSet(d, U) * SumFunctionOnSet(d, U)
                <= Cardinality(U) * SumFunctionOnSet(q, U)
<1> DEFINE sum(U) == SumFunctionOnSet(d, U)
           squares(U) == SumFunctionOnSet(q, U)
           Good == {U \in SUBSET S : /\ squares(U) >= 0
                                     /\ sum(U) * sum(U) <= Cardinality(U) * squares(U)}
<1>0. /\ \A x \in S : q[x] \in Int /\ q[x] = d[x] * d[x]
      /\ \A U \in SUBSET S : squares(U) \in Int /\ sum(U) \in Int
  <2>1. \A x \in S : q[x] \in Int /\ q[x] = d[x] * d[x]
    OBVIOUS
  <2>2. QED
    BY <2>1, SumIsInt
<1>1. ASSUME NEW U \in SUBSET S, \A V \in SUBSET U : V # U => V \in Good
      PROVE  U \in Good
  <2>1. CASE U = {}
    <3>1. squares(U) = 0 /\ sum(U) = 0
      BY <2>1, SumEmpty
    <3>2. Cardinality(U) = 0
      BY <2>1, FS_EmptySet
    <3> HIDE DEF sum, squares
    <3>3. QED
      BY <3>1, <3>2
  <2>2. ASSUME NEW x \in U PROVE U \in Good
    <3> DEFINE rest == U \ {x}
    <3>1. IsFiniteSet(U) /\ rest \in SUBSET U /\ rest # U /\ rest \in SUBSET S
      BY FS_Subset
    <3>2. sum(U) = d[x] + sum(rest)
      BY <2>2, SumRemove
    <3>3. squares(U) = q[x] + squares(rest)
      BY <1>0, <2>2, SumRemove
    <3>4. squares(rest) \in Int /\ sum(rest) \in Int
      BY <1>0, <3>1
    <3>5. Cardinality(U) = Cardinality(rest) + 1 /\ Cardinality(rest) \in Nat
      BY <2>2, <3>1, FS_RemoveElement, FS_CardinalityType, FS_Subset
    <3> HIDE DEF sum, squares, rest
    <3>6. squares(rest) >= 0 /\ sum(rest) * sum(rest) <= Cardinality(rest) * squares(rest)
      BY <1>1, <3>1
    <3>7. d[x] \in Int /\ q[x] = d[x] * d[x]
      BY <1>0
    <3>8. (d[x] + sum(rest)) * (d[x] + sum(rest))
            <= (Cardinality(rest) + 1) * (d[x] * d[x] + squares(rest))
      BY <3>4, <3>5, <3>6, <3>7, SquareStep
    <3>9. sum(U) * sum(U) <= Cardinality(U) * squares(U)
      BY <3>2, <3>3, <3>5, <3>7, <3>8
    <3>10. squares(U) >= 0
      <4>1. d[x] * d[x] >= 0
        BY <3>7
      <4>2. QED
        BY <3>3, <3>4, <3>6, <3>7, <4>1
    <3>11. QED
      BY <3>9, <3>10
  <2>3. QED
    BY <2>1, <2>2
<1>2. \A U \in SUBSET S : U \in Good
  <2> HIDE DEF Good
  <2>1. QED
    BY <1>1, SubsetInduction
<1>3. QED
  BY <1>2

-----------------------------------------------------------------------------
(* The metric rules. *)

\* The deviation of a member, and what it is measured by, are integers, and a
\* member is no further from the mean than this.
LEMMA DeviationOfMember ==
  ASSUME NEW values, IsFiniteSet(DOMAIN values),
         \A x \in DOMAIN values : values[x] \in Int,
         NEW c \in DOMAIN values,
         NEW n, n = Cardinality(DOMAIN values),
         NEW distance, distance = n * values[c] - SumFunction(values)
  PROVE  /\ n \in Nat /\ n >= 1 /\ distance \in Int /\ Spread(values) \in Int
         /\ n * (distance * distance) <= (n - 1) * Spread(values)
<1> DEFINE S == DOMAIN values
           total == SumFunction(values)
           d == [x \in S |-> n * values[x] - total]
           q == [x \in S |-> d[x] * d[x]]
           rest == S \ {c}
<1>1. n \in Nat /\ n >= 1 /\ Cardinality(rest) = n - 1
  <2>1. Cardinality(S) \in Nat /\ Cardinality(rest) = Cardinality(S) - 1 /\ IsFiniteSet(rest)
    BY FS_RemoveElement, FS_CardinalityType
  <2>2. Cardinality(rest) \in Nat
    BY <2>1, FS_CardinalityType
  <2>3. QED
    BY <2>1, <2>2
<1>2. total \in Int /\ total = SumFunctionOnSet(values, S)
  <2>1. total = SumFunctionOnSet(values, S)
    BY DEF SumFunction
  <2>2. QED
    BY <2>1, SumIsInt
<1>3. d \in [S -> Int] /\ \A x \in S : d[x] = n * values[x] - total
  <2> HIDE DEF total
  <2>1. QED
    BY <1>1, <1>2
<1>4. q \in [S -> Int] /\ \A x \in S : q[x] = d[x] * d[x]
  <2> HIDE DEF d
  <2>1. QED
    BY <1>3
<1>5. Spread(values) = SumFunctionOnSet(q, S)
  <2>1. q = [x \in DOMAIN values |-> (n * values[x] - total) * (n * values[x] - total)]
    <3> HIDE DEF total
    <3>1. QED
      OBVIOUS
  <2>2. Spread(values) = SumFunction(q)
    BY <2>1 DEF Spread
  <2>3. QED
    BY <2>2 DEF SumFunction
<1>6. SumFunctionOnSet(d, S) = 0
  <2>1. d = [x \in S |-> n * values[x] - total]
    OBVIOUS
  <2> HIDE DEF d, total
  <2>2. SumFunctionOnSet(d, S) = n * SumFunctionOnSet(values, S) - Cardinality(S) * total
    BY <1>1, <1>2, <2>1, SumAffine
  <2>3. QED
    BY <1>1, <1>2, <2>2
<1> HIDE DEF d, q, total
<1>7. /\ SumFunctionOnSet(d, S) = d[c] + SumFunctionOnSet(d, rest)
      /\ SumFunctionOnSet(q, S) = d[c] * d[c] + SumFunctionOnSet(q, rest)
  BY <1>3, <1>4, SumRemove
<1>8. /\ SumFunctionOnSet(d, rest) \in Int
      /\ SumFunctionOnSet(q, rest) \in Int /\ SumFunctionOnSet(q, S) \in Int
  BY <1>3, <1>4, SumIsInt
<1>9. SumFunctionOnSet(d, rest) * SumFunctionOnSet(d, rest)
        <= (n - 1) * SumFunctionOnSet(q, rest)
  <2>1. q = [x \in S |-> d[x] * d[x]]
    BY DEF q
  <2>2. rest \in SUBSET S
    OBVIOUS
  <2> HIDE DEF rest
  <2>3. QED
    BY <1>1, <1>3, <2>1, <2>2, SquareOfSum
<1>10. distance = d[c] /\ d[c] \in Int
  BY <1>3 DEF total
<1>11. d[c] * d[c] <= (n - 1) * (SumFunctionOnSet(q, S) - d[c] * d[c])
  <2>1. SumFunctionOnSet(d, rest) = -d[c]
    BY <1>6, <1>7, <1>8, <1>10
  <2>2. SumFunctionOnSet(q, rest) = SumFunctionOnSet(q, S) - d[c] * d[c]
    BY <1>7, <1>8, <1>10
  <2>3. QED
    BY <1>9, <1>10, <2>1, <2>2
<1>12. n * (d[c] * d[c]) <= (n - 1) * SumFunctionOnSet(q, S)
  BY <1>1, <1>8, <1>10, <1>11
<1>13. QED
  BY <1>1, <1>5, <1>8, <1>10, <1>12

\* A member of the window is an outlier only among enough snapshots.
LEMMA OutlierBound ==
  ASSUME NEW values, IsFiniteSet(DOMAIN values),
         \A x \in DOMAIN values : values[x] \in Int,
         NEW c \in DOMAIN values, NEW sign \in {1, -1},
         Outlier(values[c], values, sign),
         NEW n, n = Cardinality(DOMAIN values)
  PROVE  (n - 1) * (n - 1) >= Sigmas * Sigmas * n
<1> DEFINE distance == n * values[c] - SumFunction(values)
           square == distance * distance
           spread == Spread(values)
<1>1. /\ n \in Nat /\ n >= 1 /\ distance \in Int /\ spread \in Int
      /\ n * square <= (n - 1) * spread
  BY DeviationOfMember
<1>2. spread > 0 /\ square * (n - 1) >= Sigmas * Sigmas * spread
  <2>1. /\ spread > 0
        /\ (sign * distance) * (sign * distance) * (n - 1) >= Sigmas * Sigmas * spread
    BY DEF Outlier
  <2> HIDE DEF distance, spread
  <2>2. (sign * distance) * (sign * distance) = distance * distance
    BY <1>1
  <2>3. QED
    BY <2>1, <2>2
<1>3. square \in Int
  <2> HIDE DEF distance
  <2>1. QED
    BY <1>1
<1> HIDE DEF square, spread
<1>4. Sigmas * Sigmas \in Nat
  BY BaselineAssumption
<1>5. (Sigmas * Sigmas * spread) * n <= (square * (n - 1)) * n
  BY <1>1, <1>2, <1>3, <1>4
<1>6. (square * (n - 1)) * n = (n - 1) * (n * square)
  BY <1>1, <1>3
<1>7. (n - 1) * (n * square) <= (n - 1) * ((n - 1) * spread)
  BY <1>1, <1>3
<1>8. (Sigmas * Sigmas * n) * spread <= ((n - 1) * (n - 1)) * spread
  BY <1>1, <1>3, <1>4, <1>5, <1>6, <1>7
<1>9. QED
  BY <1>1, <1>2, <1>4, <1>8

-----------------------------------------------------------------------------
(* The newest posts. *)

\* A nonempty set of naturals has a smallest member, and a largest one if it
\* is bounded.
LEMMA SmallestNat ==
  ASSUME NEW T, T \subseteq Nat, T # {}
  PROVE  \E m \in T : \A t \in T : m <= t
<1> DEFINE Less == OpToRel(<, Nat)
<1>1. \A x, y \in Nat : x < y => <<x, y>> \in Less
  BY DEF OpToRel
<1>2. IsWellFoundedOn(Less, Nat)
  BY NatLessThanWellFounded
<1> HIDE DEF Less
<1>3. PICK m \in T : \A t \in T : <<t, m>> \notin Less
  BY <1>2, WFMin
<1>4. \A t \in T : ~(t < m) /\ t \in Nat /\ m \in Nat
  BY <1>1, <1>3
<1>5. QED
  BY <1>4

LEMMA LargestNat ==
  ASSUME NEW bound \in Nat, NEW T, T \subseteq 0 .. bound, T # {}
  PROVE  \E m \in T : \A t \in T : t <= m
<1> DEFINE Below == {bound - t : t \in T}
<1>1. Below \subseteq Nat /\ Below # {}
  <2>1. \A t \in T : bound - t \in Nat
    OBVIOUS
  <2>2. QED
    BY <2>1
<1>2. PICK b \in Below : \A t \in Below : b <= t
  <2> HIDE DEF Below
  <2>1. QED
    BY <1>1, SmallestNat
<1>3. PICK m \in T : b = bound - m
  OBVIOUS
<1>4. \A t \in T : bound - m <= bound - t
  BY <1>2, <1>3
<1>5. QED
  BY <1>4

Later(at) == {later \in posts : later > at}

\* At most n posts are among the newest n, and there are n of them as soon as
\* one post is not.
LEMMA NewestCount ==
  ASSUME NEW last \in Nat, posts \subseteq 0 .. last, NEW n \in Nat
  PROVE  /\ IsFiniteSet(posts) /\ IsFiniteSet(Newest(n))
         /\ Cardinality(Newest(n)) \in 0 .. n
<1>1. IsFiniteSet(posts) /\ posts \subseteq Nat
  <2>1. IsFiniteSet(0 .. last)
    <3>1. 0 \in Int /\ last \in Int
      OBVIOUS
    <3>2. QED
      BY <3>1, FS_Interval
  <2>2. posts \in SUBSET (0 .. last) /\ posts \subseteq Nat
    OBVIOUS
  <2>3. QED
    BY <2>1, <2>2, FS_Subset
<1>2. Newest(n) \in SUBSET posts /\ IsFiniteSet(Newest(n)) /\ Cardinality(Newest(n)) \in Nat
  BY <1>1, FS_Subset, FS_CardinalityType DEF Newest
<1>3. CASE Newest(n) = {}
  BY <1>1, <1>2, <1>3, FS_EmptySet
<1>4. CASE Newest(n) # {}
  <2>0. Newest(n) \subseteq Nat
    BY <1>1, <1>2
  <2>1. PICK m \in Newest(n) : \A t \in Newest(n) : m <= t
    BY <1>4, <2>0, SmallestNat
  <2>2. Newest(n) \ {m} \in SUBSET Later(m) /\ Later(m) \in SUBSET posts
    BY <1>1, <1>2, <2>0, <2>1 DEF Later
  <2>3. Cardinality(Later(m)) < n
    BY <2>1 DEF Newest, Later
  <2>4. IsFiniteSet(Later(m)) /\ Cardinality(Later(m)) \in Nat
    BY <1>1, <2>2, FS_Subset, FS_CardinalityType
  <2>5. Cardinality(Newest(n) \ {m}) <= Cardinality(Later(m))
    BY <2>2, <2>4, FS_Subset
  <2>6. Cardinality(Newest(n) \ {m}) = Cardinality(Newest(n)) - 1
    BY <1>2, <2>1, FS_RemoveElement
  <2>7. QED
    BY <1>1, <1>2, <2>3, <2>4, <2>5, <2>6
<1>5. QED
  BY <1>3, <1>4

\* The posts of the thirty days before an instant.
PostsBefore(at) ==
  {post \in posts : post <= at /\ (at - post) * TickDays <= ActivityDays}

\* What a sync stores is an activity frequency.
LEMMA FrequencyRange ==
  ASSUME clock \in Nat, posts \subseteq 0 .. clock, NEW n \in Nat
  PROVE  /\ ActivityFrequency(Sample(n)) \in 0 .. n
         /\ ActivityFrequency(Sample(n)) = Cardinality(Newest(n) \cap PostsBefore(clock))
         /\ IsFiniteSet(Newest(n) \cap PostsBefore(clock))
<1>1. RecentPosts(Sample(n)) = Newest(n) \cap PostsBefore(clock)
  <2>1. Newest(n) \subseteq posts
    BY DEF Newest
  <2>2. ASSUME NEW at \in Newest(n)
        PROVE  Sample(n)[at] \in 0 .. ActivityDays <=> at \in PostsBefore(clock)
    <3>1. at \in 0 .. clock /\ at \in posts
      BY <2>1
    <3>2. (clock - at) * TickDays >= 0 /\ (clock - at) * TickDays \in Int
      BY <3>1, BaselineAssumption
    <3>3. QED
      BY <3>1, <3>2 DEF Sample, PostsBefore, ActivityDays
  <2>3. QED
    BY <2>2 DEF RecentPosts, Sample
<1>2. IsFiniteSet(Newest(n)) /\ Cardinality(Newest(n)) \in 0 .. n
  BY NewestCount
<1>3. /\ IsFiniteSet(Newest(n) \cap PostsBefore(clock))
      /\ Cardinality(Newest(n) \cap PostsBefore(clock)) <= Cardinality(Newest(n))
      /\ Cardinality(Newest(n) \cap PostsBefore(clock)) \in Nat
  BY <1>2, FS_Subset, FS_CardinalityType
<1>4. QED
  BY <1>1, <1>2, <1>3 DEF ActivityFrequency

\* A sample that shows fewer posts than it could hold shows all there are.
LEMMA SampleShowsAll ==
  ASSUME clock \in Nat, posts \subseteq 0 .. clock, NEW n \in Nat,
         ActivityFrequency(Sample(n)) < n
  PROVE  Cardinality(PostsBefore(clock)) = ActivityFrequency(Sample(n))
<1> DEFINE shown == Newest(n) \cap PostsBefore(clock)
           Hidden == posts \ Newest(n)
<1>1. /\ ActivityFrequency(Sample(n)) = Cardinality(shown)
      /\ IsFiniteSet(shown) /\ IsFiniteSet(posts)
  BY FrequencyRange, NewestCount
<1>2. SUFFICES ASSUME NEW w \in PostsBefore(clock), w \notin Newest(n)
      PROVE  FALSE
  BY <1>1
<1>3. w \in Hidden /\ Hidden \subseteq 0 .. clock
  BY <1>2 DEF PostsBefore
<1>4. PICK last \in Hidden : \A t \in Hidden : t <= last
  <2> HIDE DEF Hidden
  <2>1. QED
    BY <1>3, LargestNat
<1>5. Later(last) \subseteq shown
  <2>1. ASSUME NEW at \in Later(last)
        PROVE  at \in shown
    <3>1. at \in posts /\ at > last /\ at \in 0 .. clock /\ last \in 0 .. clock
      BY <1>3, <1>4, <2>1 DEF Later
    <3>2. at \in Newest(n)
      BY <1>4, <3>1
    <3>3. w <= last /\ w \in 0 .. clock /\ (clock - w) * TickDays <= ActivityDays
      BY <1>2, <1>3, <1>4 DEF PostsBefore
    <3>4. clock - at <= clock - w
      BY <3>1, <3>3
    <3>5. (clock - at) * TickDays <= (clock - w) * TickDays
      BY <3>1, <3>3, <3>4, BaselineAssumption
    <3>6. (clock - at) * TickDays <= ActivityDays
      BY <3>1, <3>3, <3>5, BaselineAssumption DEF ActivityDays
    <3>7. QED
      BY <3>1, <3>2, <3>6 DEF PostsBefore
  <2>2. QED
    BY <2>1
<1>6. Cardinality(Later(last)) <= Cardinality(shown)
  BY <1>1, <1>5, FS_Subset
<1>7. ~(Cardinality(Later(last)) < n)
  BY <1>4 DEF Newest, Later
<1>8. Cardinality(Later(last)) \in Nat /\ Cardinality(shown) \in Nat
  <2>1. IsFiniteSet(Later(last))
    BY <1>1, FS_Subset DEF Later
  <2>2. QED
    BY <1>1, <2>1, FS_CardinalityType
<1>9. QED
  BY <1>1, <1>6, <1>7, <1>8

-----------------------------------------------------------------------------
(* The invariant. *)

\* A verdict is about a stored reading and the snapshots of a window, and
\* holds no rule type that they do not fire.
VerdictGrounded ==
  \/ verdict = NoVerdict
  \/ \E current \in snapshots :
       /\ verdict.reading = {current}
       /\ verdict.fired \subseteq Fired(current, verdict.recent)

\* A snapshot with a low frequency is of a subject with as few posts, if its
\* sync got the list and the sample can hold them.
SnapshotsSampled ==
  \A sn \in snapshots :
    \/ sn.at \in cuts
    \/ SampleSize < Quiet \/ sn.frequency >= Quiet
    \/ Cardinality(PostsBefore(sn.at)) < Quiet

BaselineInv ==
  /\ TypeOK /\ IsFiniteSet(snapshots)
  /\ \A sn \in snapshots : sn.at <= clock
  /\ VerdictGrounded
  /\ SnapshotsSampled

LEMMA BaselineInit == Init => BaselineInv
<1> SUFFICES ASSUME Init PROVE BaselineInv
  OBVIOUS
<1>1. TypeOK
  BY BaselineAssumption DEF Init, TypeOK, NoVerdict
<1>2. IsFiniteSet({})
  BY FS_EmptySet
<1>3. QED
  BY <1>1, <1>2 DEF Init, BaselineInv, VerdictGrounded, SnapshotsSampled

\* A sync adds one snapshot, of the posts it was shown.
LEMMA SyncStep ==
  ASSUME BaselineInv, Sync
  PROVE  BaselineInv'
<1>1. PICK n \in Readings, size \in 0 .. SampleSize :
        /\ snapshots' = snapshots \cup {[at |-> clock, followers |-> n,
                                         frequency |-> ActivityFrequency(Sample(size))]}
        /\ cuts' = IF size = SampleSize THEN cuts ELSE cuts \cup {clock}
  BY DEF Sync
<1> DEFINE new == [at |-> clock, followers |-> n,
                   frequency |-> ActivityFrequency(Sample(size))]
<1>2. /\ verdict' = NoVerdict /\ clock' = clock /\ posts' = posts /\ loaded' = loaded
      /\ clock \in 0 .. MaxTime /\ MaxTime \in Nat /\ posts \subseteq 0 .. clock
      /\ SampleSize \in Nat /\ Quiet \in Nat
  BY BaselineAssumption DEF Sync, BaselineInv, TypeOK
<1>3. ActivityFrequency(Sample(size)) \in 0 .. size
  <2>1. clock \in Nat /\ size \in Nat
    BY <1>2
  <2>2. QED
    BY <1>2, <2>1, FrequencyRange
<1>4. new \in Snapshot /\ new.at = clock /\ new.frequency = ActivityFrequency(Sample(size))
  BY <1>2, <1>3 DEF Snapshot
<1> HIDE DEF new
<1>5. snapshots' = snapshots \cup {new}
  BY <1>1 DEF new
<1>6. TypeOK'
  BY <1>1, <1>2, <1>4, <1>5 DEF BaselineInv, TypeOK, NoVerdict
<1>7. IsFiniteSet(snapshots') /\ \A sn \in snapshots' : sn.at <= clock'
  BY <1>2, <1>4, <1>5, FS_AddElement DEF BaselineInv
<1>8. ASSUME NEW sn \in snapshots'
      PROVE  \/ sn.at \in cuts'
             \/ SampleSize < Quiet \/ sn.frequency >= Quiet
             \/ Cardinality(PostsBefore(sn.at)) < Quiet
  <2>1. CASE sn \in snapshots
    BY <1>1, <2>1 DEF BaselineInv, SnapshotsSampled
  <2>2. CASE sn = new
    <3>1. CASE size # SampleSize
      BY <1>1, <1>4, <2>2, <3>1
    <3>2. CASE size = SampleSize /\ SampleSize >= Quiet /\ sn.frequency < Quiet
      <4>1. ActivityFrequency(Sample(size)) < size
        BY <1>2, <1>3, <1>4, <2>2, <3>2
      <4>2. Cardinality(PostsBefore(clock)) = ActivityFrequency(Sample(size))
        BY <1>2, <4>1, SampleShowsAll
      <4>3. QED
        BY <1>4, <2>2, <3>2, <4>2
    <3>3. QED
      BY <1>2, <1>3, <1>4, <2>2, <3>1, <3>2
  <2>3. QED
    BY <1>5, <2>1, <2>2
<1>9. SnapshotsSampled'
  <2>1. \A at : PostsBefore(at)' = PostsBefore(at)
    BY <1>2 DEF PostsBefore
  <2>2. QED
    BY <1>8, <2>1 DEF SnapshotsSampled
<1>10. QED
  BY <1>2, <1>6, <1>7, <1>9 DEF BaselineInv, VerdictGrounded

\* An evaluation adds nothing to the history.
LEMMA LoadStep ==
  ASSUME BaselineInv, Load
  PROVE  BaselineInv'
<1>1. /\ UNCHANGED <<clock, posts, snapshots, cuts>> /\ verdict' = NoVerdict
      /\ loaded' \subseteq snapshots
  BY DEF Load, Latest
<1>2. TypeOK'
  BY <1>1 DEF BaselineInv, TypeOK, NoVerdict
<1>3. SnapshotsSampled'
  BY <1>1 DEF BaselineInv, SnapshotsSampled, PostsBefore
<1>4. QED
  BY <1>1, <1>2, <1>3 DEF BaselineInv, VerdictGrounded

LEMMA JudgeStep ==
  ASSUME BaselineInv, Judge
  PROVE  BaselineInv'
<1> DEFINE recent == {sn \in snapshots : sn.at >= clock - Window}
<1>1. PICK current \in loaded :
        verdict' = [fired |-> IF Cardinality(recent) < MinSnapshots THEN {}
                              ELSE Fired(current, recent),
                    reading |-> {current}, recent |-> recent]
  BY DEF Judge
<1>2. UNCHANGED <<clock, posts, snapshots, cuts>> /\ loaded' = {}
  BY DEF Judge
<1>3. current \in snapshots /\ recent \subseteq snapshots
  BY <1>1 DEF BaselineInv, TypeOK
<1> HIDE DEF recent
<1>4. /\ verdict'.reading = {current} /\ verdict'.recent = recent
      /\ verdict'.fired \subseteq Fired(current, recent)
  BY <1>1
<1>5. Fired(current, recent) \subseteq RuleTypes
  BY DEF Fired
<1>6. TypeOK'
  BY <1>2, <1>3, <1>4, <1>5 DEF BaselineInv, TypeOK
<1>7. VerdictGrounded'
  <2>1. /\ current \in snapshots' /\ verdict'.reading = {current}
        /\ verdict'.fired \subseteq Fired(current, verdict'.recent)
    BY <1>2, <1>3, <1>4
  <2>2. Fired(current, verdict.recent)' = Fired(current, verdict'.recent)
    BY DEF Fired, Outlier, Spread, Followers, Frequencies
  <2>3. QED
    BY <2>1, <2>2 DEF VerdictGrounded
<1>8. SnapshotsSampled'
  BY <1>2 DEF BaselineInv, SnapshotsSampled, PostsBefore
<1>9. QED
  BY <1>2, <1>6, <1>7, <1>8 DEF BaselineInv

\* A new post is later than every snapshot.
LEMMA TickStep ==
  ASSUME BaselineInv, Tick
  PROVE  BaselineInv'
<1>1. /\ clock' = clock + 1 /\ clock < MaxTime /\ verdict' = NoVerdict
      /\ UNCHANGED <<snapshots, loaded, cuts>>
      /\ posts \subseteq posts' /\ posts' \subseteq posts \cup {clock + 1}
  BY DEF Tick
<1>2. /\ clock \in 0 .. MaxTime /\ MaxTime \in Nat /\ posts \subseteq 0 .. clock
      /\ snapshots \subseteq Snapshot /\ \A sn \in snapshots : sn.at <= clock
  BY BaselineAssumption DEF BaselineInv, TypeOK
<1>3. TypeOK'
  BY <1>1, <1>2 DEF BaselineInv, TypeOK, NoVerdict
<1>4. ASSUME NEW sn \in snapshots
      PROVE  sn.at <= clock' /\ PostsBefore(sn.at)' = PostsBefore(sn.at)
  <2>1. sn.at \in Nat /\ sn.at < clock + 1
    BY <1>2 DEF Snapshot
  <2>2. \A post \in posts' : post <= sn.at => post \in posts
    BY <1>1, <1>2, <2>1
  <2>3. PostsBefore(sn.at)' =
          {post \in posts' : post <= sn.at /\ (sn.at - post) * TickDays <= ActivityDays}
    BY DEF PostsBefore
  <2>4. PostsBefore(sn.at)' = PostsBefore(sn.at)
    BY <1>1, <2>2, <2>3 DEF PostsBefore
  <2>5. QED
    BY <1>1, <1>2, <2>1, <2>4
<1>5. SnapshotsSampled'
  BY <1>1, <1>4 DEF BaselineInv, SnapshotsSampled
<1>6. QED
  BY <1>1, <1>3, <1>4, <1>5 DEF BaselineInv, VerdictGrounded

LEMMA BaselineStep == BaselineInv /\ [Next]_vars => BaselineInv'
<1> SUFFICES ASSUME BaselineInv, [Next]_vars PROVE BaselineInv'
  OBVIOUS
<1>1. CASE Sync
  BY <1>1, SyncStep
<1>2. CASE Load
  BY <1>2, LoadStep
<1>3. CASE Judge
  BY <1>3, JudgeStep
<1>4. CASE Tick
  BY <1>4, TickStep
<1>5. CASE UNCHANGED vars
  <2>1. UNCHANGED <<clock, posts, snapshots, loaded, verdict, cuts>>
    BY <1>5 DEF vars
  <2>2. TypeOK'
    BY <2>1 DEF BaselineInv, TypeOK
  <2>3. SnapshotsSampled'
    BY <2>1 DEF BaselineInv, SnapshotsSampled, PostsBefore
  <2>4. VerdictGrounded'
    <3>1. \A current : Fired(current, verdict.recent)' = Fired(current, verdict'.recent)
      BY DEF Fired, Outlier, Spread, Followers, Frequencies
    <3>2. \A current : Fired(current, verdict.recent)' = Fired(current, verdict.recent)
      BY <2>1, <3>1
    <3>3. QED
      BY <2>1, <3>2 DEF BaselineInv, VerdictGrounded
  <2>5. QED
    BY <2>1, <2>2, <2>3, <2>4 DEF BaselineInv
<1>6. QED
  BY <1>1, <1>2, <1>3, <1>4, <1>5 DEF Next

LEMMA BaselineAlways == Spec => []BaselineInv
BY BaselineInit, BaselineStep, PTL DEF Spec

-----------------------------------------------------------------------------
(* Theorems. *)

\* Every snapshot holds what a sync can store, and a verdict is about stored
\* snapshots.
THEOREM BaselineTypes == Spec => []TypeOK
<1>1. BaselineInv => TypeOK
  BY DEF BaselineInv
<1>2. QED
  BY <1>1, BaselineAlways, PTL

\* A spike or a drop of a reading in its own baseline needs
\* (n - 1)^2 >= Sigmas^2 * n snapshots, whatever the readings are: fewer than
\* six at two sigma.
THEOREM OutliersNeedHistory == Spec => []OutlierNeedsHistory
<1>1. ASSUME BaselineInv PROVE OutlierNeedsHistory
  <2> DEFINE n == Cardinality(verdict.recent)
  <2> SUFFICES ASSUME NEW type \in verdict.fired,
                      type \in {"follower_spike", "follower_drop", "activity_spike"},
                      verdict.reading \subseteq verdict.recent
               PROVE  (n - 1) * (n - 1) >= Sigmas * Sigmas * n
    BY DEF OutlierNeedsHistory
  <2>1. PICK current \in snapshots :
          /\ verdict.reading = {current}
          /\ verdict.fired \subseteq Fired(current, verdict.recent)
    BY <1>1 DEF BaselineInv, VerdictGrounded, NoVerdict
  <2>2. /\ current \in verdict.recent
        /\ IsFiniteSet(verdict.recent)
        /\ \A sn \in verdict.recent : sn.followers \in Int /\ sn.frequency \in Int
    <3>1. verdict.recent \in SUBSET snapshots /\ snapshots \subseteq Snapshot
      BY <1>1 DEF BaselineInv, TypeOK
    <3>2. \A sn \in Snapshot : sn.followers \in Int /\ sn.frequency \in Int
      <4>1. Readings \subseteq Int /\ 0 .. SampleSize \subseteq Int
        BY BaselineAssumption
      <4>2. QED
        BY <4>1 DEF Snapshot
    <3>3. QED
      BY <1>1, <2>1, <3>1, <3>2, FS_Subset DEF BaselineInv
  <2>3. PICK sign \in {1, -1} :
          \/ Outlier(current.followers, Followers(verdict.recent), sign)
          \/ Outlier(current.frequency, Frequencies(verdict.recent), sign)
    BY <2>1 DEF Fired
  <2>4. CASE Outlier(current.followers, Followers(verdict.recent), sign)
    <3> DEFINE values == Followers(verdict.recent)
    <3>1. /\ DOMAIN values = verdict.recent /\ values[current] = current.followers
          /\ \A x \in DOMAIN values : values[x] \in Int
      BY <2>2 DEF Followers
    <3> HIDE DEF values
    <3>2. Outlier(values[current], values, sign)
      BY <2>4, <3>1 DEF values
    <3>3. QED
      BY <2>2, <3>1, <3>2, OutlierBound
  <2>5. CASE Outlier(current.frequency, Frequencies(verdict.recent), sign)
    <3> DEFINE values == Frequencies(verdict.recent)
    <3>1. /\ DOMAIN values = verdict.recent /\ values[current] = current.frequency
          /\ \A x \in DOMAIN values : values[x] \in Int
      BY <2>2 DEF Frequencies
    <3> HIDE DEF values
    <3>2. Outlier(values[current], values, sign)
      BY <2>5, <3>1 DEF values
    <3>3. QED
      BY <2>2, <3>1, <3>2, OutlierBound
  <2>6. QED
    BY <2>3, <2>4, <2>5
<1>2. QED
  BY <1>1, BaselineAlways, PTL

\* A report of silence is about a subject with fewer posts than the threshold
\* in the thirty days before the judged sync, or about a sync that did not get
\* the list.
THEOREM SilenceHasCause == Spec => []SilenceForCause
<1>1. ASSUME BaselineInv PROVE SilenceForCause
  <2> SUFFICES ASSUME "activity_silence" \in verdict.fired, Quiet <= SampleSize,
                      NEW current \in verdict.reading, current.at \notin cuts
               PROVE  Cardinality(PostsBefore(current.at)) < Quiet
    BY DEF SilenceForCause, PostsBefore
  <2>1. /\ current \in snapshots
        /\ verdict.fired \subseteq Fired(current, verdict.recent)
    BY <1>1 DEF BaselineInv, VerdictGrounded, NoVerdict
  <2>2. current.frequency < Quiet
    BY <2>1 DEF Fired
  <2>3. current.frequency \in Nat /\ Quiet \in Nat /\ SampleSize \in Nat
    BY <1>1, <2>1, BaselineAssumption DEF BaselineInv, TypeOK, Snapshot
  <2>4. QED
    BY <1>1, <2>1, <2>2, <2>3 DEF BaselineInv, SnapshotsSampled
<1>2. QED
  BY <1>1, BaselineAlways, PTL
=============================================================================
