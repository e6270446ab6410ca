--------------------------- MODULE Answer_proofs ---------------------------
(***************************************************************************)
(* What the folds of the model compute: induction on the natural numbers   *)
(* and on finite sets, sums over a set, the judge's simulation and the loop *)
(* of Answer::optimize() move by move, and that optimize() keeps the play. *)
(***************************************************************************)
EXTENDS Answer, SequenceTheorems, FiniteSetTheorems, WellFoundedInduction, TLAPS

-----------------------------------------------------------------------------
(* Induction, from the well-foundedness of < on Nat.                       *)

\* A nonempty set of natural numbers has a least element.
LEMMA Least ==
  ASSUME NEW T \in SUBSET Nat, T # {}
  PROVE  \E n \in T : \A m \in T : n <= m
<1> DEFINE R == {pair \in Nat \X Nat : pair[1] < pair[2]}
<1>1. IsWellFoundedOn(R, Nat)
  BY NatLessThanWellFounded DEF OpToRel
<1>2. \A a, b \in Nat : <<a, b>> \in R <=> a < b
  OBVIOUS
<1> HIDE DEF R
<1>3. PICK x \in T : \A y \in T : ~(<<y, x>> \in R)
  BY <1>1, WFMin
<1>4. \A y \in T : ~(y < x)
  BY <1>2, <1>3
<1> QED
  BY <1>4

\* A set of natural numbers that holds 0 and every successor is Nat.
LEMMA SetInduction ==
  ASSUME NEW S \in SUBSET Nat, 0 \in S, \A n \in S : n + 1 \in S
  PROVE  S = Nat
<1>1. SUFFICES ASSUME Nat \ S # {} PROVE FALSE
  OBVIOUS
<1>2. PICK n \in Nat \ S : \A m \in Nat \ S : n <= m
  BY <1>1, Least
<1>3. n - 1 \in Nat /\ n - 1 \notin Nat \ S
  BY <1>2
<1> QED
  BY <1>2, <1>3

\* A family of subsets that holds a set when it holds all that are smaller
\* holds every subset.
LEMMA SubsetInduction ==
  ASSUME NEW S, IsFiniteSet(S), NEW P \in SUBSET (SUBSET S),
         \A s \in SUBSET S : (\A t \in SUBSET s : t # s => t \in P) => s \in P
  PROVE  P = SUBSET S
<1>1. SUFFICES ASSUME NEW q \in SUBSET S, q \notin P PROVE FALSE
  OBVIOUS
<1> DEFINE Rest == (SUBSET S) \ P
           T    == {Cardinality(s) : s \in Rest}
<1>2. \A s \in SUBSET S : IsFiniteSet(s) /\ Cardinality(s) \in Nat
  BY FS_Subset, FS_CardinalityType
<1>3. PICK n \in T : \A m \in T : n <= m
  <2>1. T \in SUBSET Nat
    BY <1>2
  <2>2. Cardinality(q) \in T
    BY <1>1
  <2> HIDE DEF T
  <2> QED
    BY <2>1, <2>2, Least
<1>4. PICK s \in Rest : n = Cardinality(s)
  OBVIOUS
<1>5. ASSUME NEW t \in SUBSET s, t # s PROVE t \in P
  <2>1. Cardinality(t) < Cardinality(s)
    <3>1. IsFiniteSet(s) /\ Cardinality(s) \in Nat /\ Cardinality(t) \in Nat
      BY <1>2
    <3>2. Cardinality(t) <= Cardinality(s) /\ Cardinality(t) # Cardinality(s)
      BY <3>1, <1>5, FS_Subset
    <3> QED
      BY <3>1, <3>2
  <2>2. CASE t \in Rest
    <3>1. Cardinality(t) \in T
      BY <2>2
    <3>2. n <= Cardinality(t)
      BY <3>1, <1>3
    <3> QED
      BY <3>2, <2>1, <1>2, <1>4
  <2> QED
    BY <2>2
<1> QED
  BY <1>4, <1>5

-----------------------------------------------------------------------------
(* Folds of a sequence, from the left.                                     *)

\* FoldLeft goes through the prefixes of its sequence by their greatest index.
LargestOf(s) == CHOOSE x \in s : \A y \in s : x >= y

\* A set of numbers up to n that is not empty has a greatest one.
LEMMA GreatestIs ==
  ASSUME NEW n \in Nat, NEW s \in SUBSET (1 .. n), s # {}
  PROVE  LargestOf(s) \in s /\ \A y \in s : LargestOf(s) >= y
<1> DEFINE T == {n - x : x \in s}
<1>1. T \in SUBSET Nat /\ T # {}
  <2>1. \A x \in s : n - x \in Nat
    OBVIOUS
  <2> QED
    BY <2>1
<1>2. PICK t \in T : \A u \in T : t <= u
  BY <1>1, Least
<1>3. PICK x \in s : t = n - x
  OBVIOUS
<1>4. ASSUME NEW y \in s PROVE x >= y
  <2>1. t <= n - y
    BY <1>2
  <2> QED
    BY <2>1, <1>3
<1> QED
  BY <1>4 DEF LargestOf

\* The greatest of the first i numbers is i.
LEMMA GreatestOfPrefix ==
  ASSUME NEW n \in Nat, NEW i \in 1 .. n
  PROVE  /\ 1 .. i \in SUBSET (1 .. n) /\ 1 .. i # {}
         /\ (1 .. i) \ {i} = 1 .. (i - 1)
         /\ LargestOf(1 .. i) = i
<1> DEFINE s == 1 .. i
<1>1. i \in Nat /\ i >= 1 /\ i <= n
  OBVIOUS
<1>2. s \in SUBSET (1 .. n) /\ i \in s /\ s \ {i} = 1 .. (i - 1) /\ \A y \in s : y <= i
  BY <1>1
<1>3. LargestOf(s) \in s /\ LargestOf(s) >= i
  <2> HIDE DEF s
  <2> QED
    BY <1>2, GreatestIs
<1> QED
  BY <1>1, <1>2, <1>3

\* The moves of an answer played from a state of the judge, as Problem::check() plays
\* them.
Simulated(base, s) == FoldLeft(CheckStep, base, s)

\* The function that FoldLeft(CheckStep, base, seq) defines by recursion.
CheckIterates(it, base, seq, n) ==
  it = [s \in SUBSET (1 .. n) |->
          IF s = {}
          THEN base
          ELSE CheckStep(it[s \ {LargestOf(s)}], seq[LargestOf(s)])]

\* The recursion behind the fold has a solution, by induction on the length.
LEMMA CheckIteratesExists ==
  ASSUME NEW base, NEW seq, NEW n \in Nat
  PROVE  \E it : CheckIterates(it, base, seq, n)
<1> DEFINE S == {k \in Nat : \E it : CheckIterates(it, base, seq, k)}
<1>1. 0 \in S
  <2>1. SUBSET (1 .. 0) = {{}}
    OBVIOUS
  <2>2. CheckIterates([s \in SUBSET (1 .. 0) |-> base], base, seq, 0)
    BY <2>1 DEF CheckIterates
  <2> QED
    BY <2>2
<1>2. ASSUME NEW k \in S PROVE k + 1 \in S
  <2>1. PICK it : CheckIterates(it, base, seq, k)
    OBVIOUS
  <2> DEFINE new == [s \in SUBSET (1 .. (k + 1)) |->
                       IF k + 1 \in s THEN CheckStep(it[s \ {k + 1}], seq[k + 1]) ELSE it[s]]
             rhs == [s \in SUBSET (1 .. (k + 1)) |->
                       IF s = {}
                       THEN base
                       ELSE CheckStep(new[s \ {LargestOf(s)}], seq[LargestOf(s)])]
  <2>2. ASSUME NEW s \in SUBSET (1 .. (k + 1)) PROVE new[s] = rhs[s]
    <3>1. CASE k + 1 \in s
      <4>1. LargestOf(s) = k + 1
        <5>1. LargestOf(s) \in s /\ LargestOf(s) >= k + 1
          BY <3>1, GreatestIs, k + 1 \in Nat
        <5>2. LargestOf(s) \in 1 .. (k + 1)
          BY <5>1
        <5> QED
          BY <5>1, <5>2
      <4>2. s \ {k + 1} \in SUBSET (1 .. (k + 1)) /\ k + 1 \notin s \ {k + 1}
        OBVIOUS
      <4> QED
        BY <3>1, <4>1, <4>2
    <3>2. CASE k + 1 \notin s
      <4>1. s \in SUBSET (1 .. k)
        BY <3>2
      <4>2. CASE s = {}
        BY <2>1, <4>1, <4>2 DEF CheckIterates
      <4>3. CASE s # {}
        <5>1. LargestOf(s) \in s
          BY <4>1, <4>3, GreatestIs
        <5>2. /\ s \ {LargestOf(s)} \in SUBSET (1 .. (k + 1))
              /\ k + 1 \notin s \ {LargestOf(s)}
          BY <3>2
        <5>3. it[s] = CheckStep(it[s \ {LargestOf(s)}], seq[LargestOf(s)])
          BY <2>1, <4>1, <4>3 DEF CheckIterates
        <5> QED
          BY <3>2, <4>3, <5>2, <5>3
      <4> QED
        BY <4>2, <4>3
    <3> QED
      BY <3>1, <3>2
  <2>3. new = rhs
    <3>1. /\ DOMAIN new = DOMAIN rhs
          /\ new = [s \in DOMAIN new |-> new[s]]
          /\ rhs = [s \in DOMAIN rhs |-> rhs[s]]
      OBVIOUS
    <3>2. \A s \in DOMAIN new : new[s] = rhs[s]
      BY <2>2
    <3> HIDE DEF new, rhs
    <3> QED
      BY <3>1, <3>2
  <2>4. CheckIterates(new, base, seq, k + 1)
    BY <2>3 DEF CheckIterates
  <2>5. \E i : CheckIterates(i, base, seq, k + 1)
    BY <2>4
  <2> QED
    BY <2>5
<1>3. S \in SUBSET Nat
  OBVIOUS
<1>4. S = Nat
  <2> HIDE DEF S
  <2> QED
    BY <1>1, <1>2, <1>3, SetInduction
<1> QED
  BY <1>4

\* The steps of a fold of CheckStep, one after the other.
CheckSteps(h, base, seq, n) ==
  h[0] = base /\ \A i \in 1 .. n : h[i] = CheckStep(h[i - 1], seq[i])

\* The fold is the last of its partial results.
LEMMA CheckFold ==
  ASSUME NEW base, NEW seq, NEW n \in Nat, DOMAIN seq = 1 .. n
  PROVE  \E h : CheckSteps(h, base, seq, n) /\ Simulated(base, seq) = h[n]
<1>1. Simulated(base, seq) = (CHOOSE it : CheckIterates(it, base, seq, n))[1 .. n]
  BY DEF Simulated, FoldLeft, MapThenFoldSet, Max, CheckIterates, LargestOf
<1>2. PICK it : CheckIterates(it, base, seq, n) /\ Simulated(base, seq) = it[1 .. n]
  BY <1>1, CheckIteratesExists
<1> DEFINE h == [i \in 0 .. n |-> it[1 .. i]]
<1>3. h[0] = base
  BY <1>2 DEF CheckIterates
<1>4. ASSUME NEW i \in 1 .. n PROVE h[i] = CheckStep(h[i - 1], seq[i])
  <2> DEFINE s == 1 .. i
  <2>1. s \in SUBSET (1 .. n) /\ s # {} /\ s \ {i} = 1 .. (i - 1) /\ LargestOf(s) = i
    BY GreatestOfPrefix
  <2>2. it[s] = CheckStep(it[s \ {i}], seq[i])
    <3> HIDE DEF s
    <3> QED
      BY <1>2, <2>1 DEF CheckIterates
  <2>3. h[i] = it[1 .. i] /\ h[i - 1] = it[1 .. (i - 1)]
    OBVIOUS
  <2> HIDE DEF h
  <2> QED
    BY <2>1, <2>2, <2>3
<1>5. h[n] = it[1 .. n]
  OBVIOUS
<1> HIDE DEF h
<1> QED
  BY <1>2, <1>3, <1>4, <1>5 DEF CheckSteps

\* The steps determine the result.
LEMMA CheckStepsUnique ==
  ASSUME NEW base, NEW s, NEW t, NEW n \in Nat, NEW g, NEW h,
         \A i \in 1 .. n : s[i] = t[i],
         CheckSteps(g, base, s, n), CheckSteps(h, base, t, n)
  PROVE  \A i \in 0 .. n : g[i] = h[i]
<1> DEFINE S == {i \in Nat : i <= n => g[i] = h[i]}
<1>1. 0 \in S
  BY DEF CheckSteps
<1>2. ASSUME NEW i \in S PROVE i + 1 \in S
  <2>1. SUFFICES ASSUME i + 1 <= n PROVE g[i + 1] = h[i + 1]
    OBVIOUS
  <2>2. i + 1 \in 1 .. n /\ (i + 1) - 1 = i
    BY <2>1
  <2>3. g[i + 1] = CheckStep(g[i], s[i + 1]) /\ h[i + 1] = CheckStep(h[i], t[i + 1])
    BY <2>2 DEF CheckSteps
  <2>4. g[i] = h[i]
    BY <2>1
  <2> QED
    BY <2>2, <2>3, <2>4
<1>3. S \in SUBSET Nat
  OBVIOUS
<1>4. S = Nat
  <2> HIDE DEF S
  <2> QED
    BY <1>1, <1>2, <1>3, SetInduction
<1> QED
  BY <1>4

\* The empty fold, and one more element.
LEMMA CheckFoldEmpty ==
  ASSUME NEW base
  PROVE  Simulated(base, <<>>) = base
<1>1. DOMAIN <<>> = 1 .. 0 /\ 0 \in Nat
  OBVIOUS
<1>2. PICK h : CheckSteps(h, base, <<>>, 0) /\ Simulated(base, <<>>) = h[0]
  BY <1>1, CheckFold
<1> QED
  BY <1>2 DEF CheckSteps

\* A move more is a step more.
LEMMA CheckFoldAppend ==
  ASSUME NEW base, NEW S, NEW s \in Seq(S), NEW m \in S
  PROVE  Simulated(base, Append(s, m)) = CheckStep(Simulated(base, s), m)
<1> DEFINE t == Append(s, m)
           n == Len(s)
<1>1. /\ n \in Nat /\ DOMAIN s = 1 .. n /\ DOMAIN t = 1 .. (n + 1) /\ n + 1 \in 1 .. (n + 1)
      /\ (\A i \in 1 .. n : i \in 1 .. (n + 1) /\ t[i] = s[i]) /\ t[n + 1] = m
      /\ (n + 1) - 1 = n
  BY AppendProperties, LenProperties
<1> HIDE DEF t, n
<1>2. PICK g : CheckSteps(g, base, s, n) /\ Simulated(base, s) = g[n]
  BY <1>1, CheckFold
<1>3. PICK h : CheckSteps(h, base, t, n + 1) /\ Simulated(base, t) = h[n + 1]
  BY <1>1, CheckFold, n + 1 \in Nat
<1>4. CheckSteps(h, base, t, n)
  BY <1>1, <1>3 DEF CheckSteps
<1>5. g[n] = h[n]
  <2>1. (\A i \in 1 .. n : s[i] = t[i]) /\ n \in 0 .. n /\ n \in Nat
    BY <1>1
  <2>2. \A i \in 0 .. n : g[i] = h[i]
    BY ONLY <2>1, <1>2, <1>4, CheckStepsUnique
  <2> QED
    BY <2>1, <2>2
<1>6. h[n + 1] = CheckStep(h[n], m)
  BY <1>1, <1>3 DEF CheckSteps
<1> QED
  BY <1>2, <1>3, <1>5, <1>6 DEF t

\* The loop of optimize() over the moves of an answer.
Optimized(base, s) == FoldLeft(OptimizeStep, base, s)

\* The function that FoldLeft(OptimizeStep, base, seq) defines by recursion.
OptimizeIterates(it, base, seq, n) ==
  it = [s \in SUBSET (1 .. n) |->
          IF s = {}
          THEN base
          ELSE OptimizeStep(it[s \ {LargestOf(s)}], seq[LargestOf(s)])]

\* The recursion behind the fold has a solution, by induction on the length.
LEMMA OptimizeIteratesExists ==
  ASSUME NEW base, NEW seq, NEW n \in Nat
  PROVE  \E it : OptimizeIterates(it, base, seq, n)
<1> DEFINE S == {k \in Nat : \E it : OptimizeIterates(it, base, seq, k)}
<1>1. 0 \in S
  <2>1. SUBSET (1 .. 0) = {{}}
    OBVIOUS
  <2>2. OptimizeIterates([s \in SUBSET (1 .. 0) |-> base], base, seq, 0)
    BY <2>1 DEF OptimizeIterates
  <2> QED
    BY <2>2
<1>2. ASSUME NEW k \in S PROVE k + 1 \in S
  <2>1. PICK it : OptimizeIterates(it, base, seq, k)
    OBVIOUS
  <2> DEFINE new == [s \in SUBSET (1 .. (k + 1)) |->
                       IF k + 1 \in s THEN OptimizeStep(it[s \ {k + 1}], seq[k + 1]) ELSE it[s]]
             rhs == [s \in SUBSET (1 .. (k + 1)) |->
                       IF s = {}
                       THEN base
                       ELSE OptimizeStep(new[s \ {LargestOf(s)}], seq[LargestOf(s)])]
  <2>2. ASSUME NEW s \in SUBSET (1 .. (k + 1)) PROVE new[s] = rhs[s]
    <3>1. CASE k + 1 \in s
      <4>1. LargestOf(s) = k + 1
        <5>1. LargestOf(s) \in s /\ LargestOf(s) >= k + 1
          BY <3>1, GreatestIs, k + 1 \in Nat
        <5>2. LargestOf(s) \in 1 .. (k + 1)
          BY <5>1
        <5> QED
          BY <5>1, <5>2
      <4>2. s \ {k + 1} \in SUBSET (1 .. (k + 1)) /\ k + 1 \notin s \ {k + 1}
        OBVIOUS
      <4> QED
        BY <3>1, <4>1, <4>2
    <3>2. CASE k + 1 \notin s
      <4>1. s \in SUBSET (1 .. k)
        BY <3>2
      <4>2. CASE s = {}
        BY <2>1, <4>1, <4>2 DEF OptimizeIterates
      <4>3. CASE s # {}
        <5>1. LargestOf(s) \in s
          BY <4>1, <4>3, GreatestIs
        <5>2. /\ s \ {LargestOf(s)} \in SUBSET (1 .. (k + 1))
              /\ k + 1 \notin s \ {LargestOf(s)}
          BY <3>2
        <5>3. it[s] = OptimizeStep(it[s \ {LargestOf(s)}], seq[LargestOf(s)])
          BY <2>1, <4>1, <4>3 DEF OptimizeIterates
        <5> QED
          BY <3>2, <4>3, <5>2, <5>3
      <4> QED
        BY <4>2, <4>3
    <3> QED
      BY <3>1, <3>2
  <2>3. new = rhs
    <3>1. /\ DOMAIN new = DOMAIN rhs
          /\ new = [s \in DOMAIN new |-> new[s]]
          /\ rhs = [s \in DOMAIN rhs |-> rhs[s]]
      OBVIOUS
    <3>2. \A s \in DOMAIN new : new[s] = rhs[s]
      BY <2>2
    <3> HIDE DEF new, rhs
    <3> QED
      BY <3>1, <3>2
  <2>4. OptimizeIterates(new, base, seq, k + 1)
    BY <2>3 DEF OptimizeIterates
  <2>5. \E i : OptimizeIterates(i, base, seq, k + 1)
    BY <2>4
  <2> QED
    BY <2>5
<1>3. S \in SUBSET Nat
  OBVIOUS
<1>4. S = Nat
  <2> HIDE DEF S
  <2> QED
    BY <1>1, <1>2, <1>3, SetInduction
<1> QED
  BY <1>4

\* The steps of a fold of OptimizeStep, one after the other.
OptimizeSteps(h, base, seq, n) ==
  h[0] = base /\ \A i \in 1 .. n : h[i] = OptimizeStep(h[i - 1], seq[i])

\* The fold is the last of its partial results.
LEMMA OptimizeFold ==
  ASSUME NEW base, NEW seq, NEW n \in Nat, DOMAIN seq = 1 .. n
  PROVE  \E h : OptimizeSteps(h, base, seq, n) /\ Optimized(base, seq) = h[n]
<1>1. Optimized(base, seq) = (CHOOSE it : OptimizeIterates(it, base, seq, n))[1 .. n]
  BY DEF Optimized, FoldLeft, MapThenFoldSet, Max, OptimizeIterates, LargestOf
<1>2. PICK it : OptimizeIterates(it, base, seq, n) /\ Optimized(base, seq) = it[1 .. n]
  BY <1>1, OptimizeIteratesExists
<1> DEFINE h == [i \in 0 .. n |-> it[1 .. i]]
<1>3. h[0] = base
  BY <1>2 DEF OptimizeIterates
<1>4. ASSUME NEW i \in 1 .. n PROVE h[i] = OptimizeStep(h[i - 1], seq[i])
  <2> DEFINE s == 1 .. i
  <2>1. s \in SUBSET (1 .. n) /\ s # {} /\ s \ {i} = 1 .. (i - 1) /\ LargestOf(s) = i
    BY GreatestOfPrefix
  <2>2. it[s] = OptimizeStep(it[s \ {i}], seq[i])
    <3> HIDE DEF s
    <3> QED
      BY <1>2, <2>1 DEF OptimizeIterates
  <2>3. h[i] = it[1 .. i] /\ h[i - 1] = it[1 .. (i - 1)]
    OBVIOUS
  <2> HIDE DEF h
  <2> QED
    BY <2>1, <2>2, <2>3
<1>5. h[n] = it[1 .. n]
  OBVIOUS
<1> HIDE DEF h
<1> QED
  BY <1>2, <1>3, <1>4, <1>5 DEF OptimizeSteps

\* The steps determine the result.
LEMMA OptimizeStepsUnique ==
  ASSUME NEW base, NEW s, NEW t, NEW n \in Nat, NEW g, NEW h,
         \A i \in 1 .. n : s[i] = t[i],
         OptimizeSteps(g, base, s, n), OptimizeSteps(h, base, t, n)
  PROVE  \A i \in 0 .. n : g[i] = h[i]
<1> DEFINE S == {i \in Nat : i <= n => g[i] = h[i]}
<1>1. 0 \in S
  BY DEF OptimizeSteps
<1>2. ASSUME NEW i \in S PROVE i + 1 \in S
  <2>1. SUFFICES ASSUME i + 1 <= n PROVE g[i + 1] = h[i + 1]
    OBVIOUS
  <2>2. i + 1 \in 1 .. n /\ (i + 1) - 1 = i
    BY <2>1
  <2>3. g[i + 1] = OptimizeStep(g[i], s[i + 1]) /\ h[i + 1] = OptimizeStep(h[i], t[i + 1])
    BY <2>2 DEF OptimizeSteps
  <2>4. g[i] = h[i]
    BY <2>1
  <2> QED
    BY <2>2, <2>3, <2>4
<1>3. S \in SUBSET Nat
  OBVIOUS
<1>4. S = Nat
  <2> HIDE DEF S
  <2> QED
    BY <1>1, <1>2, <1>3, SetInduction
<1> QED
  BY <1>4

\* The empty fold, and one more element.
LEMMA OptimizeFoldEmpty ==
  ASSUME NEW base
  PROVE  Optimized(base, <<>>) = base
<1>1. DOMAIN <<>> = 1 .. 0 /\ 0 \in Nat
  OBVIOUS
<1>2. PICK h : OptimizeSteps(h, base, <<>>, 0) /\ Optimized(base, <<>>) = h[0]
  BY <1>1, OptimizeFold
<1> QED
  BY <1>2 DEF OptimizeSteps

\* A move more is a step more.
LEMMA OptimizeFoldAppend ==
  ASSUME NEW base, NEW S, NEW s \in Seq(S), NEW m \in S
  PROVE  Optimized(base, Append(s, m)) = OptimizeStep(Optimized(base, s), m)
<1> DEFINE t == Append(s, m)
           n == Len(s)
<1>1. /\ n \in Nat /\ DOMAIN s = 1 .. n /\ DOMAIN t = 1 .. (n + 1) /\ n + 1 \in 1 .. (n + 1)
      /\ (\A i \in 1 .. n : i \in 1 .. (n + 1) /\ t[i] = s[i]) /\ t[n + 1] = m
      /\ (n + 1) - 1 = n
  BY AppendProperties, LenProperties
<1> HIDE DEF t, n
<1>2. PICK g : OptimizeSteps(g, base, s, n) /\ Optimized(base, s) = g[n]
  BY <1>1, OptimizeFold
<1>3. PICK h : OptimizeSteps(h, base, t, n + 1) /\ Optimized(base, t) = h[n + 1]
  BY <1>1, OptimizeFold, n + 1 \in Nat
<1>4. OptimizeSteps(h, base, t, n)
  BY <1>1, <1>3 DEF OptimizeSteps
<1>5. g[n] = h[n]
  <2>1. (\A i \in 1 .. n : s[i] = t[i]) /\ n \in 0 .. n /\ n \in Nat
    BY <1>1
  <2>2. \A i \in 0 .. n : g[i] = h[i]
    BY ONLY <2>1, <1>2, <1>4, OptimizeStepsUnique
  <2> QED
    BY <2>1, <2>2
<1>6. h[n + 1] = OptimizeStep(h[n], m)
  BY <1>1, <1>3 DEF OptimizeSteps
<1> QED
  BY <1>2, <1>3, <1>5, <1>6 DEF t

\* An answer may be played in two parts.
LEMMA CheckFoldConcat ==
  ASSUME NEW base, NEW S, NEW s \in Seq(S), NEW t \in Seq(S)
  PROVE  Simulated(base, s \o t) = Simulated(Simulated(base, s), t)
<1> DEFINE u == s \o t
           n == Len(s)
           k == Len(t)
           l == n + k
<1>1. /\ n \in Nat /\ k \in Nat /\ l \in Nat /\ l = n + k /\ DOMAIN s = 1 .. n /\ DOMAIN t = 1 .. k
      /\ DOMAIN u = 1 .. l
      /\ (\A i \in 1 .. n : i \in 1 .. l /\ u[i] = s[i])
      /\ (\A i \in 1 .. k : n + i \in 1 .. l /\ u[n + i] = t[i])
  BY ConcatProperties, LenProperties
<1> HIDE DEF u, n, k, l
<1>2. PICK h : CheckSteps(h, base, u, l) /\ Simulated(base, u) = h[l]
  BY <1>1, CheckFold
<1>3. PICK g : CheckSteps(g, base, s, n) /\ Simulated(base, s) = g[n]
  BY SMTT(30), <1>1, CheckFold
<1>4. g[n] = h[n]
  <2>1. CheckSteps(h, base, s, n)
    BY <1>1, <1>2 DEF CheckSteps
  <2> QED
    BY <1>1, <1>3, <2>1, CheckStepsUnique
<1> DEFINE mid == g[n]
<1> HIDE DEF mid
<1>5. PICK f : CheckSteps(f, mid, t, k) /\ Simulated(mid, t) = f[k]
  <2>1. k \in Nat /\ DOMAIN t = 1 .. k
    BY <1>1
  <2> QED
    BY ONLY <2>1, CheckFold
<1> DEFINE e == [i \in 0 .. k |-> h[n + i]]
<1>6. CheckSteps(e, mid, t, k)
  <2>1. e[0] = mid
    BY <1>1, <1>4 DEF mid
  <2>2. ASSUME NEW i \in 1 .. k PROVE e[i] = CheckStep(e[i - 1], t[i])
    <3>1. h[n + i] = CheckStep(h[(n + i) - 1], u[n + i])
      BY <1>1, <1>2 DEF CheckSteps
    <3>2. e[i] = h[n + i] /\ e[i - 1] = h[(n + i) - 1]
      BY <1>1
    <3> HIDE DEF e
    <3> QED
      BY <1>1, <3>1, <3>2
  <2> HIDE DEF e
  <2> QED
    BY <2>1, <2>2 DEF CheckSteps
<1>7. e[k] = f[k]
  <2> HIDE DEF e
  <2> QED
    BY <1>1, <1>5, <1>6, CheckStepsUnique
<1>8. e[k] = h[l]
  BY <1>1
<1> HIDE DEF e
<1> QED
  BY <1>2, <1>3, <1>5, <1>7, <1>8 DEF u, mid

-----------------------------------------------------------------------------

\* All arrangements, permutations or not.
Cells == [Points -> Points]

\* The moves of an answer.
Moves == Selections \cup Swaps

\* The states of the simulation.
PlayStates == [cell : Cells, selected : Points \cup {NoPoint},
               remain : Nat, valid : BOOLEAN]

\* A step of the judge leads to a state of the judge.
LEMMA CheckStepType ==
  ASSUME NEW sim \in PlayStates, NEW m \in Moves
  PROVE  CheckStep(sim, m) \in PlayStates
<1>1. CASE m \in Selections
  <2>1. PICK p \in Points : m = Selection(p)
    BY <1>1 DEF Selections
  <2>2. m.isSelection /\ m.selected = p
    BY <2>1 DEF Selection
  <2>3. sim.remain # 0 => sim.remain - 1 \in Nat
    BY DEF PlayStates
  <2> QED
    BY <2>2, <2>3 DEF CheckStep, PlayStates
<1>2. CASE m \in Swaps
  <2>1. PICK dir \in Directions : m = Swap(dir)
    BY <1>2 DEF Swaps
  <2>2. ~m.isSelection /\ m.direction = dir
    BY <2>1 DEF Swap
  <2>3. CASE ValidMove(sim.selected, dir)
    <3> DEFINE next == Neighbour(sim.selected, dir)
    <3>1. next \in Points /\ sim.selected \in Points
      BY <2>3 DEF ValidMove, IsSelected, PlayStates
    <3>2. Swapped(sim.cell, sim.selected, next) \in Cells
      <4> HIDE DEF next
      <4> QED
        BY <3>1 DEF Swapped, PlayStates, Cells
    <3> HIDE DEF next
    <3>3. CheckStep(sim, m) = IF sim.valid THEN [sim EXCEPT !.cell = Swapped(sim.cell, sim.selected, next), !.selected = next] ELSE sim
      BY <2>2, <2>3 DEF CheckStep, next
    <3> QED
      BY <3>1, <3>2, <3>3 DEF PlayStates
  <2>4. CASE ~ValidMove(sim.selected, dir)
    BY <2>2, <2>4 DEF CheckStep, PlayStates
  <2> QED
    BY <2>3, <2>4
<1> QED
  BY <1>1, <1>2 DEF Moves

\* So does a whole answer.
LEMMA SimulationType ==
  ASSUME NEW base \in PlayStates, NEW s \in Seq(Moves)
  PROVE  Simulated(base, s) \in PlayStates
<1> DEFINE n == Len(s)
<1>1. n \in Nat /\ DOMAIN s = 1 .. n /\ \A i \in 1 .. n : s[i] \in Moves
  BY LenProperties, ElementOfSeq
<1> HIDE DEF n
<1>2. PICK h : CheckSteps(h, base, s, n) /\ Simulated(base, s) = h[n]
  BY <1>1, CheckFold
<1> DEFINE T == {i \in Nat : i <= n => h[i] \in PlayStates}
<1>3. 0 \in T
  BY <1>2 DEF CheckSteps
<1>4. ASSUME NEW i \in T PROVE i + 1 \in T
  <2>1. SUFFICES ASSUME i + 1 <= n PROVE h[i + 1] \in PlayStates
    OBVIOUS
  <2>2. i + 1 \in 1 .. n /\ (i + 1) - 1 = i /\ h[i] \in PlayStates
    BY <1>1, <2>1
  <2>3. h[i + 1] = CheckStep(h[i], s[i + 1])
    BY <1>2, <2>2 DEF CheckSteps
  <2> QED
    BY <1>1, <2>2, <2>3, CheckStepType
<1>5. T = Nat
  <2>1. T \in SUBSET Nat
    OBVIOUS
  <2> HIDE DEF T
  <2> QED
    BY <1>3, <1>4, <2>1, SetInduction
<1> QED
  BY <1>1, <1>2, <1>5

\* An error stays: a simulation that ends valid was valid before its last move.
LEMMA ValidBefore ==
  ASSUME NEW sim \in PlayStates, NEW m \in Moves, CheckStep(sim, m).valid
  PROVE  sim.valid
BY DEF CheckStep, PlayStates

\* The two kinds of move, on a simulation that has met no error.
LEMMA SelectStep ==
  ASSUME NEW sim \in PlayStates, sim.valid, NEW p \in Points
  PROVE  CheckStep(sim, Selection(p)) =
           IF sim.remain # 0
           THEN [cell |-> sim.cell, selected |-> p, remain |-> sim.remain - 1, valid |-> TRUE]
           ELSE [cell |-> sim.cell, selected |-> sim.selected, remain |-> sim.remain,
                 valid |-> FALSE]
<1>1. Selection(p).isSelection /\ Selection(p).selected = p
  BY DEF Selection
<1>2. sim = [cell |-> sim.cell, selected |-> sim.selected, remain |-> sim.remain, valid |-> TRUE]
  BY DEF PlayStates
<1>3. CheckStep(sim, Selection(p)) = IF sim.remain # 0
         THEN [sim EXCEPT !.selected = p, !.remain = sim.remain - 1]
         ELSE [sim EXCEPT !.valid = FALSE]
  BY <1>1 DEF CheckStep
<1> QED
  BY <1>2, <1>3

\* A swap, by what the judge does: it exchanges two cells if it can.
LEMMA SwapStep ==
  ASSUME NEW sim \in PlayStates, sim.valid, NEW dir \in Directions
  PROVE  CheckStep(sim, Swap(dir)) =
           IF ValidMove(sim.selected, dir)
           THEN [cell |-> Swapped(sim.cell, sim.selected, Neighbour(sim.selected, dir)),
                 selected |-> Neighbour(sim.selected, dir),
                 remain |-> sim.remain, valid |-> TRUE]
           ELSE [cell |-> sim.cell, selected |-> sim.selected, remain |-> sim.remain,
                 valid |-> FALSE]
<1>1. ~Swap(dir).isSelection /\ Swap(dir).direction = dir
  BY DEF Swap
<1>2. sim = [cell |-> sim.cell, selected |-> sim.selected, remain |-> sim.remain, valid |-> TRUE]
  BY DEF PlayStates
<1> DEFINE next == Neighbour(sim.selected, dir)
<1>3. CheckStep(sim, Swap(dir)) = IF ValidMove(sim.selected, dir)
         THEN [sim EXCEPT !.cell = Swapped(sim.cell, sim.selected, next), !.selected = next]
         ELSE [sim EXCEPT !.valid = FALSE]
  BY <1>1 DEF CheckStep
<1> HIDE DEF next
<1>4. CASE ValidMove(sim.selected, dir)
  BY <1>2, <1>3, <1>4 DEF next
<1>5. CASE ~ValidMove(sim.selected, dir)
  BY <1>2, <1>3, <1>5
<1> QED
  BY <1>4, <1>5

\* A move is a selection or a swap, and is told by its fields.
LEMMA MoveTypes ==
  /\ \A p \in Points : Selection(p) \in Moves
  /\ \A dir \in Directions : Swap(dir) \in Moves
  /\ \A m \in Moves : \/ m.isSelection /\ m.selected \in Points /\ m = Selection(m.selected)
                      \/ ~m.isSelection /\ m.direction \in Directions /\ m = Swap(m.direction)
<1>1. ASSUME NEW m \in Selections PROVE m.isSelection /\ m.selected \in Points /\ m = Selection(m.selected)
  BY DEF Selections, Selection
<1>2. ASSUME NEW m \in Swaps PROVE ~m.isSelection /\ m.direction \in Directions /\ m = Swap(m.direction)
  BY DEF Swaps, Swap
<1> QED
  BY <1>1, <1>2 DEF Moves, Selections, Swaps

-----------------------------------------------------------------------------
(* Exchanges of cells.                                                     *)

\* An exchange, cell by cell.
LEMMA SwappedCells ==
  ASSUME NEW cell \in Cells, NEW p \in Points, NEW q \in Points
  PROVE  /\ Swapped(cell, p, q) \in Cells
         /\ \A x \in Points : Swapped(cell, p, q)[x] =
              IF x = q THEN cell[p] ELSE IF x = p THEN cell[q] ELSE cell[x]
BY DEF Swapped, Cells

\* Exchanging the same cells again undoes it.
LEMMA SwappedBack ==
  ASSUME NEW cell \in Cells, NEW p \in Points, NEW q \in Points
  PROVE  Swapped(Swapped(cell, p, q), q, p) = cell
<1> DEFINE b == Swapped(cell, p, q)
           c == Swapped(b, q, p)
<1>1. b \in Cells /\ \A x \in Points : b[x] =
        IF x = q THEN cell[p] ELSE IF x = p THEN cell[q] ELSE cell[x]
  BY SwappedCells
<1>2. c \in Cells /\ \A x \in Points : c[x] =
        IF x = p THEN b[q] ELSE IF x = q THEN b[p] ELSE b[x]
  <2> HIDE DEF b
  <2> QED
    BY <1>1, SwappedCells
<1> HIDE DEF b, c
<1>3. \A x \in Points : c[x] = cell[x]
  BY <1>1, <1>2
<1>4. c = cell
  BY <1>2, <1>3 DEF Cells
<1> QED
  BY <1>4 DEF b, c

\* A piece that goes three steps round a block a, b, c, d.
ThreeRound(cell, a, b, c, d) == Swapped(Swapped(Swapped(cell, a, b), b, c), c, d)

\* Three exchanges along a path, cell by cell.
LEMMA ThreeRoundCells ==
  ASSUME NEW cell \in Cells,
         NEW a \in Points, NEW b \in Points, NEW c \in Points, NEW d \in Points,
         a # b, a # c, a # d, b # c, b # d, c # d
  PROVE  /\ ThreeRound(cell, a, b, c, d) \in Cells
         /\ \A x \in Points : ThreeRound(cell, a, b, c, d)[x] =
              IF x = a THEN cell[b]
              ELSE IF x = b THEN cell[c]
              ELSE IF x = c THEN cell[d]
              ELSE IF x = d THEN cell[a] ELSE cell[x]
<1> DEFINE s1 == Swapped(cell, a, b)
           s2 == Swapped(s1, b, c)
           s3 == Swapped(s2, c, d)
<1>1. s1 \in Cells /\ \A x \in Points : s1[x] =
        IF x = b THEN cell[a] ELSE IF x = a THEN cell[b] ELSE cell[x]
  BY SwappedCells
<1>2. s2 \in Cells /\ \A x \in Points : s2[x] =
        IF x = c THEN s1[b] ELSE IF x = b THEN s1[c] ELSE s1[x]
  <2> HIDE DEF s1
  <2> QED  BY <1>1, SwappedCells
<1>3. s3 \in Cells /\ \A x \in Points : s3[x] =
        IF x = d THEN s2[c] ELSE IF x = c THEN s2[d] ELSE s2[x]
  <2> HIDE DEF s2
  <2> QED  BY <1>2, SwappedCells
<1> HIDE DEF s1, s2, s3
<1>4. \A x \in Points : s3[x] =
              IF x = a THEN cell[b]
              ELSE IF x = b THEN cell[c]
              ELSE IF x = c THEN cell[d]
              ELSE IF x = d THEN cell[a] ELSE cell[x]
  BY <1>1, <1>2, <1>3
<1> QED
  BY <1>3, <1>4 DEF s1, s2, s3, ThreeRound

\* Seven steps round a block in one sense are five in the other.
LEMMA SevenIsFive ==
  ASSUME NEW cell \in Cells,
         NEW a \in Points, NEW b \in Points, NEW c \in Points, NEW d \in Points,
         a # b, a # c, a # d, b # c, b # d, c # d
  PROVE  ThreeRound(Swapped(ThreeRound(cell, a, b, c, d), d, a), a, b, c, d)
           = Swapped(Swapped(ThreeRound(cell, a, d, c, b), b, a), a, d)
<1> DEFINE t1 == ThreeRound(cell, a, b, c, d)
           t2 == Swapped(t1, d, a)
           t3 == ThreeRound(t2, a, b, c, d)
           u1 == ThreeRound(cell, a, d, c, b)
           u2 == Swapped(u1, b, a)
           u3 == Swapped(u2, a, d)
<1>1. t1 \in Cells /\ \A x \in Points : t1[x] =
        IF x = a THEN cell[b] ELSE IF x = b THEN cell[c]
        ELSE IF x = c THEN cell[d] ELSE IF x = d THEN cell[a] ELSE cell[x]
  BY ThreeRoundCells
<1>2. t2 \in Cells /\ \A x \in Points : t2[x] =
        IF x = a THEN t1[d] ELSE IF x = d THEN t1[a] ELSE t1[x]
  <2> HIDE DEF t1
  <2> QED  BY <1>1, SwappedCells
<1>3. t3 \in Cells /\ \A x \in Points : t3[x] =
        IF x = a THEN t2[b] ELSE IF x = b THEN t2[c]
        ELSE IF x = c THEN t2[d] ELSE IF x = d THEN t2[a] ELSE t2[x]
  <2> HIDE DEF t2
  <2> QED  BY <1>2, ThreeRoundCells
<1>4. u1 \in Cells /\ \A x \in Points : u1[x] =
        IF x = a THEN cell[d] ELSE IF x = d THEN cell[c]
        ELSE IF x = c THEN cell[b] ELSE IF x = b THEN cell[a] ELSE cell[x]
  BY ThreeRoundCells
<1>5. u2 \in Cells /\ \A x \in Points : u2[x] =
        IF x = a THEN u1[b] ELSE IF x = b THEN u1[a] ELSE u1[x]
  <2> HIDE DEF u1
  <2> QED  BY <1>4, SwappedCells
<1>6. u3 \in Cells /\ \A x \in Points : u3[x] =
        IF x = d THEN u2[a] ELSE IF x = a THEN u2[d] ELSE u2[x]
  <2> HIDE DEF u2
  <2> QED  BY <1>5, SwappedCells
<1> HIDE DEF t1, t2, t3, u1, u2, u3
<1>7. \A x \in Points : t3[x] = u3[x]
  BY <1>1, <1>2, <1>3, <1>4, <1>5, <1>6
<1>8. t3 = u3
  BY <1>3, <1>6, <1>7 DEF Cells
<1> QED
  BY <1>8 DEF t1, t2, t3, u1, u2, u3

\* A move that turns off.
Perpendicular(e, f) == Turn(f, e) \in {Right, Left}

\* The four cells of a block: e and f lead from a to the opposite corner.
LEMMA Corners ==
  ASSUME NEW a \in Points, NEW e \in Directions, NEW f \in Directions, Perpendicular(e, f)
  PROVE  LET b == Neighbour(a, e)
             c == Neighbour(b, f)
             d == Neighbour(a, f)
         IN  /\ Opposite(e) \in Directions /\ Opposite(f) \in Directions
             /\ Opposite(Opposite(e)) = e /\ Opposite(Opposite(f)) = f
             /\ Neighbour(c, Opposite(e)) = d /\ Neighbour(d, Opposite(f)) = a
             /\ Neighbour(d, e) = c /\ Neighbour(c, Opposite(f)) = b
             /\ Neighbour(b, Opposite(e)) = a
             /\ a # b /\ a # c /\ a # d /\ b # c /\ b # d /\ c # d
<1>1. PICK y \in Int, x \in Int : a = <<y, x>>
  BY SizeAssumption DEF Points
<1> USE DEF Neighbour, Delta, Opposite, Up, Right, Down, Left, Directions, Perpendicular, Turn
<1>2. CASE e = 0
  BY <1>1, <1>2
<1>3. CASE e = 1
  BY <1>1, <1>3
<1>4. CASE e = 2
  BY <1>1, <1>4
<1>5. CASE e = 3
  BY <1>1, <1>5
<1> QED
  BY <1>2, <1>3, <1>4, <1>5 DEF Directions

\* A step and the opposite one lead back.
LEMMA BackAndForth ==
  ASSUME NEW a \in Points, NEW e \in Directions
  PROVE  /\ Opposite(e) \in Directions
         /\ Neighbour(Neighbour(a, e), Opposite(e)) = a
<1>1. PICK y \in Int, x \in Int : a = <<y, x>>
  BY SizeAssumption DEF Points
<1> QED
  BY <1>1 DEF Neighbour, Delta, Opposite, Up, Right, Down, Left, Directions

\* States of the judge are equal when their fields are.
LEMMA PlayEqual ==
  ASSUME NEW s \in PlayStates, NEW t \in PlayStates, s.cell = t.cell, s.selected = t.selected,
         s.remain = t.remain, s.valid = t.valid
  PROVE  s = t
BY DEF PlayStates

\* A play after a valid swap.
SimAfter(sim, q) ==
  [cell |-> Swapped(sim.cell, sim.selected, q), selected |-> q,
   remain |-> sim.remain, valid |-> TRUE]

\* A swap is valid where a neighbour is, and then exchanges with it.
LEMMA Swapping ==
  ASSUME NEW sim \in PlayStates, sim.valid, NEW dir \in Directions
  PROVE  /\ CheckStep(sim, Swap(dir)).valid <=>
              sim.selected \in Points /\ Neighbour(sim.selected, dir) \in Points
         /\ sim.selected \in Points /\ Neighbour(sim.selected, dir) \in Points =>
              /\ CheckStep(sim, Swap(dir)) = SimAfter(sim, Neighbour(sim.selected, dir))
              /\ SimAfter(sim, Neighbour(sim.selected, dir)) \in PlayStates
<1>1. NoPoint \notin Points
  BY SizeAssumption DEF NoPoint, Points
<1>2. ValidMove(sim.selected, dir) <=> sim.selected \in Points /\ Neighbour(sim.selected, dir) \in Points
  BY <1>1 DEF ValidMove, IsSelected, PlayStates
<1>3. Swap(dir) \in Moves
  BY MoveTypes
<1>4. CheckStep(sim, Swap(dir)) \in PlayStates
  BY <1>3, CheckStepType
<1> DEFINE next == Neighbour(sim.selected, dir)
<1>5. CASE sim.selected \in Points /\ next \in Points
  <2>1. CheckStep(sim, Swap(dir)) = SimAfter(sim, next)
    BY <1>2, <1>5, SwapStep DEF SimAfter
  <2>2. SimAfter(sim, next).valid
    BY DEF SimAfter
  <2> HIDE DEF next
  <2> QED
    BY <1>4, <1>5, <2>1, <2>2 DEF next
<1>6. CASE ~(sim.selected \in Points /\ next \in Points)
  <2>1. ~CheckStep(sim, Swap(dir)).valid
    BY <1>2, <1>6, SwapStep
  <2> QED
    BY <1>6, <2>1
<1> QED
  BY <1>5, <1>6

\* A move and its opposite leave nothing behind.
LEMMA SwapBack ==
  ASSUME NEW sim \in PlayStates, sim.valid, NEW dir \in Directions,
         CheckStep(sim, Swap(dir)).valid
  PROVE  CheckStep(CheckStep(sim, Swap(dir)), Swap(Opposite(dir))) = sim
<1> DEFINE p == sim.selected
           q == Neighbour(p, dir)
           s1 == CheckStep(sim, Swap(dir))
<1>1. p \in Points /\ q \in Points /\ s1 = SimAfter(sim, q) /\ s1 \in PlayStates
  BY Swapping
<1>2. Opposite(dir) \in Directions /\ Neighbour(q, Opposite(dir)) = p
  BY <1>1, BackAndForth
<1>3. s1.valid /\ s1.selected = q /\ s1.cell = Swapped(sim.cell, p, q) /\ s1.remain = sim.remain
  <2> HIDE DEF q
  <2> QED
    BY <1>1 DEF SimAfter
<1>4. CheckStep(s1, Swap(Opposite(dir))) = SimAfter(s1, p)
  <2> HIDE DEF s1, q, p
  <2> QED
    BY <1>1, <1>2, <1>3, Swapping
<1>5. sim.cell \in Cells
  BY DEF PlayStates
<1>6. Swapped(s1.cell, q, p) = sim.cell
  <2> HIDE DEF s1, q, p
  <2> QED
    BY <1>1, <1>3, <1>5, SwappedBack
<1>7. SimAfter(s1, p) = sim
  <2> HIDE DEF s1, q
  <2> QED
    BY <1>3, <1>6 DEF SimAfter, PlayStates
<1> QED
  BY <1>4, <1>7

\* Seven moves round a block end where five the other way do.
LEMMA Rewinding ==
  ASSUME NEW sim \in PlayStates, sim.valid,
         NEW e \in Directions, NEW f \in Directions, Perpendicular(e, f),
         NEW h, h[0] = sim, NEW g, g[0] = sim,
         h[1] = CheckStep(h[0], Swap(e)), h[2] = CheckStep(h[1], Swap(f)),
         h[3] = CheckStep(h[2], Swap(Opposite(e))), h[4] = CheckStep(h[3], Swap(Opposite(f))),
         h[5] = CheckStep(h[4], Swap(e)), h[6] = CheckStep(h[5], Swap(f)),
         h[7] = CheckStep(h[6], Swap(Opposite(e))),
         h[7].valid,
         g[1] = CheckStep(g[0], Swap(f)), g[2] = CheckStep(g[1], Swap(e)),
         g[3] = CheckStep(g[2], Swap(Opposite(f))), g[4] = CheckStep(g[3], Swap(Opposite(e))),
         g[5] = CheckStep(g[4], Swap(f))
  PROVE  g[5] = h[7]
<1> DEFINE a == sim.selected
           b == Neighbour(a, e)
           c == Neighbour(b, f)
           d == Neighbour(a, f)
           oe == Opposite(e)
           of == Opposite(f)
<1>0. \A x \in Directions : Swap(x) \in Moves
  BY MoveTypes
<1>1. oe \in Directions /\ of \in Directions
  BY DEF Opposite, Directions
<1> HIDE DEF oe, of
<1>2. /\ h[1] \in PlayStates /\ h[2] \in PlayStates /\ h[3] \in PlayStates /\ h[4] \in PlayStates
      /\ h[5] \in PlayStates /\ h[6] \in PlayStates /\ h[7] \in PlayStates
  BY <1>0, <1>1, CheckStepType DEF oe, of
<1>3. h[1].valid /\ h[2].valid /\ h[3].valid /\ h[4].valid /\ h[5].valid /\ h[6].valid
  BY <1>0, <1>1, <1>2, ValidBefore DEF oe, of
<1>4. a \in Points /\ b \in Points /\ h[1] = SimAfter(sim, b)
  BY <1>3, Swapping
<1>5. /\ Neighbour(c, oe) = d /\ Neighbour(d, of) = a
      /\ Neighbour(d, e) = c /\ Neighbour(c, of) = b
      /\ Neighbour(b, oe) = a
      /\ a # b /\ a # c /\ a # d /\ b # c /\ b # d /\ c # d
  BY <1>4, Corners DEF oe, of
<1>6. Neighbour(a, e) = b /\ Neighbour(b, f) = c /\ Neighbour(a, f) = d
  OBVIOUS
<1> HIDE DEF a, b, c, d
<1>7. h[1].selected = b
  BY <1>4 DEF SimAfter
<1>8. c \in Points /\ h[2] = SimAfter(h[1], c)
  BY <1>2, <1>3, <1>6, <1>7, Swapping
<1>9. h[2].selected = c
  BY <1>8 DEF SimAfter
<1>10. d \in Points /\ h[3] = SimAfter(h[2], d)
  BY <1>1, <1>2, <1>3, <1>5, <1>9, Swapping DEF oe
<1>11. h[3].selected = d
  BY <1>10 DEF SimAfter
<1>12. h[4] = SimAfter(h[3], a)
  BY <1>1, <1>2, <1>3, <1>5, <1>11, Swapping DEF of
<1>13. h[4].selected = a
  BY <1>12 DEF SimAfter
<1>14. h[5] = SimAfter(h[4], b)
  BY <1>2, <1>3, <1>6, <1>13, Swapping
<1>15. h[5].selected = b
  BY <1>14 DEF SimAfter
<1>16. h[6] = SimAfter(h[5], c)
  BY <1>2, <1>3, <1>6, <1>15, Swapping
<1>17. h[6].selected = c
  BY <1>16 DEF SimAfter
<1>18. h[7] = SimAfter(h[6], d)
  BY <1>1, <1>2, <1>3, <1>5, <1>17, Swapping DEF oe
<1>20. g[1] = SimAfter(sim, d) /\ g[1] \in PlayStates
  BY <1>4, <1>6, <1>10, Swapping DEF a
<1>21. g[1].valid /\ g[1].selected = d
  BY <1>20 DEF SimAfter
<1>22. g[2] = SimAfter(g[1], c) /\ g[2] \in PlayStates
  BY <1>5, <1>8, <1>10, <1>20, <1>21, Swapping
<1>23. g[2].valid /\ g[2].selected = c
  BY <1>22 DEF SimAfter
<1>24. g[3] = SimAfter(g[2], b) /\ g[3] \in PlayStates
  BY <1>1, <1>4, <1>5, <1>8, <1>22, <1>23, Swapping DEF of
<1>25. g[3].valid /\ g[3].selected = b
  BY <1>24 DEF SimAfter
<1>26. g[4] = SimAfter(g[3], a) /\ g[4] \in PlayStates
  BY <1>1, <1>4, <1>5, <1>24, <1>25, Swapping DEF oe
<1>27. g[4].valid /\ g[4].selected = a
  BY <1>26 DEF SimAfter
<1>28. g[5] = SimAfter(g[4], d)
  BY <1>4, <1>6, <1>10, <1>26, <1>27, Swapping
<1>30. h[7].cell = ThreeRound(Swapped(ThreeRound(sim.cell, a, b, c, d), d, a), a, b, c, d)
  BY <1>4, <1>7, <1>8, <1>9, <1>10, <1>11, <1>12, <1>13, <1>14, <1>15, <1>16, <1>17, <1>18
     DEF SimAfter, ThreeRound, a
<1>31. g[5].cell = Swapped(Swapped(ThreeRound(sim.cell, a, d, c, b), b, a), a, d)
  BY <1>20, <1>21, <1>22, <1>23, <1>24, <1>25, <1>26, <1>27, <1>28 DEF SimAfter, ThreeRound, a
<1>32. sim.cell \in Cells
  BY DEF PlayStates
<1>33. g[5].cell = h[7].cell
  BY <1>4, <1>5, <1>8, <1>10, <1>30, <1>31, <1>32, SevenIsFive
<1>34. h[7].remain = sim.remain /\ h[7].selected = d
  BY <1>4, <1>8, <1>10, <1>12, <1>14, <1>16, <1>18 DEF SimAfter
<1>35. g[5].remain = sim.remain /\ g[5].selected = d
  BY <1>20, <1>22, <1>24, <1>26, <1>28 DEF SimAfter
<1>36. h[7].valid /\ g[5].valid /\ g[5] \in PlayStates
  <2>1. g[5] \in PlayStates
    BY <1>4, <1>6, <1>10, <1>26, <1>27, <1>28, Swapping
  <2> QED
    BY <2>1, <1>18, <1>28 DEF SimAfter
<1>37. ASSUME NEW x \in PlayStates, NEW y \in PlayStates, x = g[5], y = h[7]
       PROVE  x = y
  <2>1. x.cell = y.cell /\ x.selected = y.selected /\ x.remain = y.remain /\ x.valid = y.valid
    BY <1>33, <1>34, <1>35, <1>36, <1>37
  <2> QED
    BY ONLY <2>1, x \in PlayStates, y \in PlayStates, PlayEqual
<1> QED
  BY <1>2, <1>36, <1>37

\* A sequence is its front and its last element.
LEMMA LastFront ==
  ASSUME NEW S, NEW s \in Seq(S), s # <<>>
  PROVE  /\ Len(s) \in Nat \ {0} /\ Last(s) = s[Len(s)] /\ Last(s) \in S
         /\ Front(s) \in Seq(S) /\ Len(Front(s)) = Len(s) - 1
         /\ \A i \in 1 .. Len(s) - 1 : Front(s)[i] = s[i]
         /\ s = Append(Front(s), Last(s))
<1>1. Len(s) \in Nat \ {0} /\ \A i \in 1 .. Len(s) : s[i] \in S
  BY LenProperties, ElementOfSeq, EmptySeq
<1>2. \A i \in 1 .. Len(s) - 1 : s[i] \in S
  BY <1>1
<1>3. /\ Front(s) \in Seq(S) /\ Len(Front(s)) = Len(s) - 1
      /\ \A i \in 1 .. Len(s) - 1 : Front(s)[i] = s[i]
  <2> DEFINE n == Len(s) - 1
  <2>1. n \in Int /\ n >= 0
    BY <1>1
  <2>2. /\ SubSeq(s, 1, n) \in Seq(S) /\ Len(SubSeq(s, 1, n)) = IF 1 <= n THEN n - 1 + 1 ELSE 0
        /\ \A i \in 1 .. n - 1 + 1 : SubSeq(s, 1, n)[i] = s[1 + i - 1]
    <3> HIDE DEF n
    <3> QED
      BY <1>2, <2>1, SubSeqProperties DEF n
  <2>3. Front(s) = SubSeq(s, 1, n)
    BY DEF Front
  <2> HIDE DEF n
  <2>4. n - 1 + 1 = n /\ (\A i \in 1 .. n : 1 + i - 1 = i) /\ (~(1 <= n) => n = 0)
    BY <2>1
  <2>5. Front(s) \in Seq(S) /\ Len(Front(s)) = n /\ \A i \in 1 .. n : Front(s)[i] = s[i]
    BY <2>2, <2>3, <2>4
  <2> QED
    BY <2>5 DEF n
<1>4. Last(s) = s[Len(s)] /\ Last(s) \in S
  BY <1>1 DEF Last
<1>5. s = Append(Front(s), Last(s))
  <2> DEFINE t == Append(Front(s), Last(s))
             f == Front(s)
             l == Last(s)
  <2>1. /\ t \in Seq(S) /\ Len(t) = Len(f) + 1 /\ \A i \in 1 .. Len(f) : t[i] = f[i]
        /\ t[Len(f) + 1] = l
    <3> HIDE DEF f, l
    <3>1. f \in Seq(S) /\ l \in S
      BY <1>3, <1>4 DEF f, l
    <3> QED
      BY <3>1, AppendProperties DEF f, l
  <2>2. Len(t) = Len(s) /\ \A i \in 1 .. Len(s) : t[i] = s[i]
    <3> HIDE DEF t
    <3> QED
      BY <1>1, <1>3, <1>4, <2>1
  <2> HIDE DEF t
  <2>3. t = s
    BY <2>1, <2>2, SeqEqual
  <2> QED
    BY <2>3 DEF t
<1> QED
  BY <1>1, <1>3, <1>4, <1>5

\* What rot says of the end of newans.
TurnsCounted(ans, rot) ==
  LET n     == Absolute(rot)
      sense == IF rot > 0 THEN Right ELSE Left
      last  == Len(ans)
  IN  rot # 0 =>
        /\ last > n + 1
        /\ \A i \in last - n .. last : ~ans[i].isSelection
        /\ \A i \in last - n .. last - 1 :
             Turn(ans[i + 1].direction, ans[i].direction) = sense

\* A turn in the same sense is one more to count.
LEMMA CountedAppend ==
  ASSUME NEW s \in Seq(Moves), s # <<>>, s[1].isSelection, ~Last(s).isSelection,
         NEW dir \in Directions, NEW rot \in -5 .. 5, TurnsCounted(s, rot)
  PROVE  /\ rot >= 0 /\ Turn(dir, Last(s).direction) = Right
              => TurnsCounted(Append(s, Swap(dir)), rot + 1)
         /\ rot <= 0 /\ Turn(dir, Last(s).direction) = Left
              => TurnsCounted(Append(s, Swap(dir)), rot - 1)
<1> DEFINE t == Append(s, Swap(dir))
           n == Len(s)
<1>1. Swap(dir) \in Moves /\ ~Swap(dir).isSelection /\ Swap(dir).direction = dir
  BY MoveTypes DEF Swap
<1>2. n \in Nat \ {0} /\ Last(s) = s[n] /\ n # 1
  <2>1. Len(s) \in Nat \ {0} /\ Last(s) = s[Len(s)]
    BY ONLY s \in Seq(Moves), s # <<>>, LastFront
  <2>2. Len(s) # 1
    BY ONLY <2>1, s[1].isSelection, ~Last(s).isSelection
  <2> QED
    BY ONLY <2>1, <2>2 DEF n
<1>3. Len(t) = n + 1 /\ (\A i \in 1 .. n : t[i] = s[i]) /\ t[n + 1] = Swap(dir)
  BY <1>1, AppendProperties
<1> HIDE DEF t, n
<1>4. ASSUME rot >= 0, Turn(dir, Last(s).direction) = Right
      PROVE  TurnsCounted(t, rot + 1)
  <2>1. rot + 1 > 0 /\ Absolute(rot + 1) = rot + 1 /\ rot + 1 # 0
    BY <1>4 DEF Absolute
  <2>2. CASE rot = 0
    BY <1>1, <1>2, <1>3, <1>4, <2>1, <2>2 DEF TurnsCounted
  <2>3. CASE rot > 0
    <3>1. /\ n > rot + 1 /\ \A i \in n - rot .. n : ~s[i].isSelection
          /\ \A i \in n - rot .. n - 1 : Turn(s[i + 1].direction, s[i].direction) = Right
      BY <2>3 DEF TurnsCounted, Absolute, n
    <3>2. \A i \in (n + 1) - (rot + 1) .. n + 1 : ~t[i].isSelection
      BY <1>1, <1>2, <1>3, <2>3, <3>1
    <3>3. ASSUME NEW i \in (n + 1) - (rot + 1) .. (n + 1) - 1
          PROVE  Turn(t[i + 1].direction, t[i].direction) = Right
      <4>1. i \in 1 .. n
        BY <1>2, <3>1
      <4>2. CASE i = n
        BY <1>1, <1>2, <1>3, <1>4, <4>1, <4>2
      <4>3. CASE i # n
        <5>1. i \in n - rot .. n - 1 /\ i + 1 \in 1 .. n
          BY <4>1, <4>3, <1>2
        <5> QED
          BY <1>3, <3>1, <4>1, <5>1
      <4> QED
        BY <4>2, <4>3
    <3> QED
      BY <1>2, <1>3, <2>1, <3>1, <3>2, <3>3 DEF TurnsCounted
  <2> QED
    BY <1>4, <2>2, <2>3
<1>5. ASSUME rot <= 0, Turn(dir, Last(s).direction) = Left
      PROVE  TurnsCounted(t, rot - 1)
  <2>1. ~(rot - 1 > 0) /\ Absolute(rot - 1) = 1 - rot /\ rot - 1 # 0
    BY <1>5 DEF Absolute
  <2>2. CASE rot = 0
    BY <1>1, <1>2, <1>3, <1>5, <2>1, <2>2 DEF TurnsCounted
  <2>3. CASE rot < 0
    <3>1. /\ n > 1 - rot /\ \A i \in n + rot .. n : ~s[i].isSelection
          /\ \A i \in n + rot .. n - 1 : Turn(s[i + 1].direction, s[i].direction) = Left
      BY <1>2, <2>3 DEF TurnsCounted, Absolute, n
    <3>2. \A i \in (n + 1) - (1 - rot) .. n + 1 : ~t[i].isSelection
      BY <1>1, <1>2, <1>3, <2>3, <3>1
    <3>3. ASSUME NEW i \in (n + 1) - (1 - rot) .. (n + 1) - 1
          PROVE  Turn(t[i + 1].direction, t[i].direction) = Left
      <4>1. i \in 1 .. n
        BY <1>2, <3>1
      <4>2. CASE i = n
        BY <1>1, <1>2, <1>3, <1>5, <4>1, <4>2
      <4>3. CASE i # n
        <5>1. i \in n + rot .. n - 1 /\ i + 1 \in 1 .. n
          BY <4>1, <4>3, <1>2
        <5> QED
          BY <1>3, <3>1, <4>1, <5>1
      <4> QED
        BY <4>2, <4>3
    <3> QED
      BY <1>2, <1>3, <2>1, <3>1, <3>2, <3>3 DEF TurnsCounted
  <2> QED
    BY <1>5, <2>2, <2>3
<1> QED
  BY <1>4, <1>5 DEF t

\* A move taken back leaves one turn less to count.
LEMMA CountedFront ==
  ASSUME NEW s \in Seq(Moves), s # <<>>, NEW rot \in -5 .. 5, TurnsCounted(s, rot)
  PROVE  TurnsCounted(Front(s), IF rot > 0 THEN rot - 1 ELSE IF rot < 0 THEN rot + 1 ELSE 0)
<1> DEFINE t == Front(s)
           n == Len(s)
<1>1. n \in Nat \ {0} /\ Len(t) = n - 1 /\ \A i \in 1 .. n - 1 : t[i] = s[i]
  BY LastFront
<1> HIDE DEF t, n
<1>2. CASE rot > 1
  <2>1. /\ n > rot + 1 /\ \A i \in n - rot .. n : ~s[i].isSelection
        /\ \A i \in n - rot .. n - 1 : Turn(s[i + 1].direction, s[i].direction) = Right
    BY <1>2 DEF TurnsCounted, Absolute, n
  <2>2. rot - 1 > 0 /\ Absolute(rot - 1) = rot - 1
    BY <1>2 DEF Absolute
  <2>3. \A i \in (n - 1) - (rot - 1) .. n - 1 : ~t[i].isSelection
    BY <1>1, <2>1
  <2>4. \A i \in (n - 1) - (rot - 1) .. (n - 1) - 1 : Turn(t[i + 1].direction, t[i].direction) = Right
    <3> TAKE i \in (n - 1) - (rot - 1) .. (n - 1) - 1
    <3>1. i \in 1 .. n - 1 /\ i + 1 \in 1 .. n - 1 /\ i \in n - rot .. n - 1
      BY <1>1, <2>1
    <3> QED
      BY <1>1, <2>1, <3>1
  <2>5. TurnsCounted(t, rot - 1)
    BY <1>1, <2>1, <2>2, <2>3, <2>4 DEF TurnsCounted
  <2> QED
    BY <1>2, <2>5 DEF t
<1>3. CASE rot < -1
  <2>1. /\ n > 1 - rot /\ \A i \in n + rot .. n : ~s[i].isSelection
        /\ \A i \in n + rot .. n - 1 : Turn(s[i + 1].direction, s[i].direction) = Left
    BY <1>1, <1>3 DEF TurnsCounted, Absolute, n
  <2>2. rot + 1 < 0 /\ Absolute(rot + 1) = -1 - rot
    BY <1>3 DEF Absolute
  <2>3. \A i \in (n - 1) - (-1 - rot) .. n - 1 : ~t[i].isSelection
    BY <1>1, <2>1
  <2>4. \A i \in (n - 1) - (-1 - rot) .. (n - 1) - 1 : Turn(t[i + 1].direction, t[i].direction) = Left
    <3> TAKE i \in (n - 1) - (-1 - rot) .. (n - 1) - 1
    <3>1. i \in 1 .. n - 1 /\ i + 1 \in 1 .. n - 1 /\ i \in n + rot .. n - 1
      BY <1>1, <2>1
    <3> QED
      BY <1>1, <2>1, <3>1
  <2>5. TurnsCounted(t, rot + 1)
    BY <1>1, <2>1, <2>2, <2>3, <2>4 DEF TurnsCounted
  <2> QED
    BY <1>3, <2>5 DEF t
<1>4. CASE rot \in -1 .. 1
  <2>1. TurnsCounted(Front(s), 0)
    BY DEF TurnsCounted
  <2>2. (IF rot > 0 THEN rot - 1 ELSE IF rot < 0 THEN rot + 1 ELSE 0) = 0
    BY <1>4
  <2> QED
    BY <2>1, <2>2
<1> QED
  BY <1>2, <1>3, <1>4

\* An answer that ends with six turns in one sense; sense is that of the five
\* moves which replace the seven.
SixTurns(t, sense) ==
  /\ Len(t) > 7
  /\ \A i \in Len(t) - 6 .. Len(t) : ~t[i].isSelection
  /\ \A i \in Len(t) - 6 .. Len(t) - 1 : Turn(t[i + 1].direction, t[i].direction) = 4 - sense

\* Six turns in one sense are seven swaps, each a turn from the one before.
LEMMA LastSeven ==
  ASSUME NEW t \in Seq(Moves), NEW sense \in {1, 3}, SixTurns(t, sense)
  PROVE  LET n    == Len(t) - 7
             d(i) == t[n + i].direction
         IN  /\ n \in Nat \ {0} /\ Len(t) = n + 7
             /\ \A i \in 1 .. 7 : d(i) \in Directions /\ t[n + i] = Swap(d(i))
             /\ \A i \in 1 .. 6 : Turn(d(i + 1), d(i)) = 4 - sense
<1> DEFINE n == Len(t) - 7
<1>1. Len(t) \in Nat
  BY LenProperties
<1>2. /\ Len(t) > 7 /\ \A i \in Len(t) - 6 .. Len(t) : ~t[i].isSelection
      /\ \A i \in Len(t) - 6 .. Len(t) - 1 : Turn(t[i + 1].direction, t[i].direction) = 4 - sense
  BY DEF SixTurns
<1>3. n \in Nat \ {0} /\ Len(t) = n + 7
  BY <1>1, <1>2
<1> HIDE DEF n
<1>4. ASSUME NEW i \in 1 .. 7
      PROVE  t[n + i].direction \in Directions /\ t[n + i] = Swap(t[n + i].direction)
  <2>1. n + i \in 1 .. Len(t) /\ n + i \in Len(t) - 6 .. Len(t)
    BY <1>3
  <2>2. t[n + i] \in Moves /\ ~t[n + i].isSelection
    BY <1>2, <2>1, ElementOfSeq
  <2> QED
    BY <2>2, MoveTypes
<1>5. ASSUME NEW i \in 1 .. 6
      PROVE  Turn(t[n + (i + 1)].direction, t[n + i].direction) = 4 - sense
  <2>1. n + i \in Len(t) - 6 .. Len(t) - 1 /\ (n + i) + 1 = n + (i + 1)
    BY <1>3
  <2> QED
    BY <1>2, <2>1
<1> QED
  BY <1>3, <1>4, <1>5 DEF n

\* Seven moves that turn six times in one sense, replaced by the five that turn
\* four times in the other: what comes before stays, the five are counted, and
\* they end where the seven do.
LEMMA RewoundKeeps ==
  ASSUME NEW t \in Seq(Moves), NEW sense \in {1, 3}, SixTurns(t, sense),
         NEW base \in PlayStates, Simulated(base, t).valid
  PROVE  LET u == Rewound(t, t[Len(t)].direction, sense)
         IN  /\ u \in Seq(Moves) /\ Len(u) = Len(t) - 2 /\ Len(t) > 7
             /\ \A i \in 1 .. Len(t) - 7 : u[i] = t[i]
             /\ \A i \in Len(t) - 6 .. Len(t) - 2 : ~u[i].isSelection
             /\ TurnsCounted(u, IF sense = 3 THEN -4 ELSE 4)
             /\ Simulated(base, u) = Simulated(base, t)
<1> DEFINE n    == Len(t) - 7
           dir  == t[Len(t)].direction
           u    == Rewound(t, dir, sense)
           head == SubSeq(t, 1, n)
           five == [i \in 1 .. 5 |-> Swap((dir + i * sense) % 4)]
           seven == SubSeq(t, n + 1, n + 7)
           d(i) == t[n + i].direction
           rot == IF sense = 3 THEN -4 ELSE 4
           mid == Simulated(base, head)
<1>1. /\ n \in Nat \ {0} /\ Len(t) = n + 7
      /\ \A i \in 1 .. 7 : d(i) \in Directions /\ t[n + i] = Swap(d(i))
      /\ \A i \in 1 .. 6 : Turn(d(i + 1), d(i)) = 4 - sense
  BY LastSeven
<1>2. dir = d(7) /\ dir \in Directions
  BY <1>1
<1>0. dir \in Directions
  BY <1>2
<1>3. u = head \o five
  BY DEF Rewound
<1> HIDE DEF n, dir
<1>4. head \in Seq(Moves) /\ Len(head) = n /\ \A i \in 1 .. n : head[i] = t[i]
  <2>1. \A i \in 1 .. n : t[i] \in Moves
    BY <1>1, ElementOfSeq
  <2>2. /\ head \in Seq(Moves) /\ Len(head) = IF 1 <= n THEN n - 1 + 1 ELSE 0
        /\ \A i \in 1 .. n - 1 + 1 : head[i] = t[1 + i - 1]
    BY <1>1, <2>1, SubSeqProperties
  <2>3. n - 1 + 1 = n /\ (\A i \in 1 .. n : 1 + i - 1 = i)
    BY <1>1
  <2>4. n \in Nat \ {0}
    BY <1>1
  <2> HIDE DEF head
  <2>5. Len(head) = n
    BY ONLY <2>2, <2>3, <2>4
  <2>6. \A i \in 1 .. n : head[i] = t[i]
    BY ONLY <2>2, <2>3
  <2> QED
    BY ONLY <2>2, <2>5, <2>6
<1>5. /\ five \in Seq(Moves) /\ Len(five) = 5
      /\ \A i \in 1 .. 5 : (dir + i * sense) % 4 \in Directions /\ five[i] = Swap((dir + i * sense) % 4)
  <2>1. \A i \in 1 .. 5 : (dir + i * sense) % 4 \in Directions
    <3>1. CASE sense = 1
      BY ONLY <1>0, <3>1 DEF Directions
    <3>2. CASE sense = 3
      BY ONLY <1>0, <3>2 DEF Directions
    <3> QED
      BY <3>1, <3>2
  <2>2. \A i \in 1 .. 5 : five[i] = Swap((dir + i * sense) % 4) /\ five[i] \in Moves
    BY <2>1, MoveTypes
  <2>3. five = [i \in 1 .. 5 |-> five[i]]
    OBVIOUS
  <2> HIDE DEF five
  <2>4. five \in Seq(Moves) /\ Len(five) = 5
    BY ONLY <2>2, <2>3, IsASeq
  <2> QED
    BY <2>1, <2>2, <2>4
<1>6. /\ u \in Seq(Moves) /\ Len(u) = n + 5
      /\ \A i \in 1 .. n + 5 : u[i] = IF i <= n THEN head[i] ELSE five[i - n]
  <2> HIDE DEF head, five, u
  <2>1. /\ head \o five \in Seq(Moves) /\ Len(head \o five) = Len(head) + Len(five)
        /\ \A i \in 1 .. Len(head) + Len(five) :
             (head \o five)[i] = IF i <= Len(head) THEN head[i] ELSE five[i - Len(head)]
    BY ONLY <1>4, <1>5, ConcatProperties
  <2> QED
    BY ONLY <1>4, <1>5, <1>3, <2>1
<1> HIDE DEF head, five, u
<1>7. \A i \in 1 .. n : u[i] = t[i]
  <2>1. n \in Nat
    BY <1>1
  <2>2. \A i \in 1 .. n : i \in 1 .. n + 5 /\ i <= n
    BY ONLY <2>1
  <2>3. \A i \in 1 .. n : head[i] = t[i]
    BY <1>4
  <2> QED
    BY ONLY <1>6, <2>2, <2>3
<1>8. ASSUME NEW i \in 1 .. 5 PROVE u[n + i] = Swap((dir + i * sense) % 4)
  <2>1. n + i \in 1 .. n + 5 /\ ~(n + i <= n) /\ (n + i) - n = i
    BY <1>1
  <2>2. u[n + i] = five[i]
    BY ONLY <1>6, <2>1
  <2> QED
    BY <1>5, <2>2
<1>9. ASSUME NEW j \in n + 1 .. n + 5 PROVE ~u[j].isSelection
  <2>1. PICK i \in 1 .. 5 : j = n + i
    <3>1. j - n \in 1 .. 5 /\ j = n + (j - n)
      BY <1>1
    <3> QED
      BY <3>1
  <2> QED
    BY <1>8, <2>1 DEF Swap
<1>10. ASSUME NEW j \in n + 1 .. n + 4 PROVE Turn(u[j + 1].direction, u[j].direction) = sense
  <2>1. PICK i \in 1 .. 4 : j = n + i
    <3>1. j - n \in 1 .. 4 /\ j = n + (j - n)
      BY <1>1
    <3> QED
      BY <3>1
  <2>2. j + 1 = n + (i + 1) /\ i \in 1 .. 5 /\ i + 1 \in 1 .. 5
    BY <1>1, <2>1
  <2>3. /\ u[j].direction = (dir + i * sense) % 4
        /\ u[j + 1].direction = (dir + (i + 1) * sense) % 4
    <3>1. u[n + i] = Swap((dir + i * sense) % 4) /\ u[n + (i + 1)] = Swap((dir + (i + 1) * sense) % 4)
      BY <1>8, <2>2
    <3>2. u[j] = Swap((dir + i * sense) % 4) /\ u[j + 1] = Swap((dir + (i + 1) * sense) % 4)
      BY <2>1, <2>2, <3>1
    <3> QED
      BY <3>2 DEF Swap
  <2>4. Turn((dir + (i + 1) * sense) % 4, (dir + i * sense) % 4) = sense
    <3>1. CASE sense = 1
      BY ONLY <1>0, <3>1, i \in 1 .. 4 DEF Turn, Directions
    <3>2. CASE sense = 3
      BY ONLY <1>0, <3>2, i \in 1 .. 4 DEF Turn, Directions
    <3> QED
      BY <3>1, <3>2
  <2> QED
    BY <2>3, <2>4
<1>11. Absolute(rot) = 4 /\ rot # 0 /\ (IF rot > 0 THEN Right ELSE Left) = sense
  <2>1. PICK r \in Int : r = rot /\ ((sense = 3 /\ r = -4) \/ (sense = 1 /\ r = 4))
    OBVIOUS
  <2> HIDE DEF rot
  <2>2. Absolute(r) = 4 /\ r # 0 /\ (IF r > 0 THEN Right ELSE Left) = sense
    BY <2>1 DEF Absolute, Right, Left
  <2> QED
    BY <2>1, <2>2
<1>12. Len(u) > 4 + 1 /\ Len(u) - 4 = n + 1 /\ Len(u) - 1 = n + 4 /\ Len(u) = n + 5
  BY <1>1, <1>6
<1> HIDE DEF rot
<1>13. TurnsCounted(u, rot)
  BY <1>9, <1>10, <1>11, <1>12 DEF TurnsCounted
<1>14. /\ seven \in Seq(Moves) /\ Len(seven) = 7
      /\ \A i \in 1 .. 7 : seven[i] = t[n + i]
  <2>1. \A i \in n + 1 .. n + 7 : t[i] \in Moves
    BY <1>1, ElementOfSeq
  <2>2. /\ seven \in Seq(Moves)
        /\ Len(seven) = IF n + 1 <= n + 7 THEN (n + 7) - (n + 1) + 1 ELSE 0
        /\ \A i \in 1 .. (n + 7) - (n + 1) + 1 : seven[i] = t[(n + 1) + i - 1]
    <3>1. n + 1 \in Int /\ n + 7 \in Int
      BY <1>1
    <3> QED
      BY <2>1, <3>1, SubSeqProperties
  <2>3. /\ n + 1 <= n + 7 /\ (n + 7) - (n + 1) + 1 = 7
        /\ \A i \in 1 .. 7 : (n + 1) + i - 1 = n + i
    BY <1>1
  <2> HIDE DEF seven
  <2> QED
    BY <2>2, <2>3
<1>15. t = head \o seven
  <2> DEFINE v == head \o seven
  <2> HIDE DEF seven
  <2>1. /\ v \in Seq(Moves) /\ Len(v) = Len(head) + Len(seven)
        /\ \A i \in 1 .. Len(head) + Len(seven) :
             v[i] = IF i <= Len(head) THEN head[i] ELSE seven[i - Len(head)]
    <3>1. head \in Seq(Moves) /\ seven \in Seq(Moves)
      BY ONLY <1>4, <1>14
    <3> QED
      BY ONLY <3>1, ConcatProperties
  <2> HIDE DEF v
  <2>2. ASSUME NEW i \in 1 .. Len(t) PROVE t[i] = v[i]
    <3>1. CASE i <= n
      BY <1>1, <1>3, <1>4, <1>5, <1>14, <2>1, <3>1
    <3>2. CASE ~(i <= n)
      <4>1. i - n \in 1 .. 7 /\ i = n + (i - n)
        BY <1>1, <3>2
      <4>2. v[i] = seven[i - n]
        BY SMTT(30), <1>1, <1>3, <1>4, <1>5, <1>14, <2>1, <3>2
      <4> QED
        BY <1>14, <4>1, <4>2
    <3> QED
      BY <3>1, <3>2
  <2>3. Len(v) = Len(t)
    BY <1>1, <1>3, <1>4, <1>5, <1>14, <2>1
  <2>4. t = v
    BY <2>1, <2>2, <2>3, SeqEqual
  <2> QED
    BY <2>4 DEF v
<1>16. mid \in PlayStates
  BY <1>3, <1>4, <1>5, SimulationType
<1>17. Simulated(base, t) = Simulated(mid, seven) /\ Simulated(base, u) = Simulated(mid, five)
  <2> HIDE DEF seven
  <2>1. /\ Simulated(base, head \o seven) = Simulated(Simulated(base, head), seven)
        /\ Simulated(base, head \o five) = Simulated(Simulated(base, head), five)
    <3>1. head \in Seq(Moves) /\ seven \in Seq(Moves) /\ five \in Seq(Moves)
      BY <1>3, <1>4, <1>5, <1>14
    <3> QED
      BY ONLY <3>1, CheckFoldConcat
  <2> QED
    BY <1>3, <1>4, <1>5, <1>15, <2>1 DEF mid
<1> HIDE DEF seven, mid
<1>18. /\ DOMAIN seven = 1 .. Len(seven) /\ DOMAIN five = 1 .. Len(five)
      /\ Len(seven) \in Nat /\ Len(five) \in Nat
  BY <1>3, <1>4, <1>5, <1>14, LenProperties
<1>19. PICK h : CheckSteps(h, mid, seven, 7) /\ Simulated(mid, seven) = h[7]
  <2>1. \E h : CheckSteps(h, mid, seven, Len(seven)) /\ Simulated(mid, seven) = h[Len(seven)]
    BY <1>18, CheckFold
  <2> QED
    BY <1>14, <2>1
<1>20. PICK g : CheckSteps(g, mid, five, 5) /\ Simulated(mid, five) = g[5]
  <2>1. \E g : CheckSteps(g, mid, five, Len(five)) /\ Simulated(mid, five) = g[Len(five)]
    BY <1>18, CheckFold
  <2> QED
    BY <1>3, <1>4, <1>5, <2>1
<1>21. /\ h[0] = mid
       /\ h[1] = CheckStep(h[0], Swap(d(1))) /\ h[2] = CheckStep(h[1], Swap(d(2)))
       /\ h[3] = CheckStep(h[2], Swap(d(3))) /\ h[4] = CheckStep(h[3], Swap(d(4)))
       /\ h[5] = CheckStep(h[4], Swap(d(5))) /\ h[6] = CheckStep(h[5], Swap(d(6)))
       /\ h[7] = CheckStep(h[6], Swap(d(7)))
  <2>1. \A i \in 1 .. 7 : h[i] = CheckStep(h[i - 1], Swap(d(i)))
    BY SMTT(30), <1>1, <1>14, <1>19 DEF CheckSteps
  <2>2. h[0] = mid
    BY <1>19 DEF CheckSteps
  <2> HIDE DEF d
  <2>3. /\ h[1] = CheckStep(h[1 - 1], Swap(d(1))) /\ h[2] = CheckStep(h[2 - 1], Swap(d(2)))
        /\ h[3] = CheckStep(h[3 - 1], Swap(d(3))) /\ h[4] = CheckStep(h[4 - 1], Swap(d(4)))
        /\ h[5] = CheckStep(h[5 - 1], Swap(d(5))) /\ h[6] = CheckStep(h[6 - 1], Swap(d(6)))
        /\ h[7] = CheckStep(h[7 - 1], Swap(d(7)))
    BY <2>1
  <2> QED
    BY <2>2, <2>3
<1>22. /\ d(1) \in Directions /\ d(2) \in Directions /\ d(3) \in Directions /\ d(4) \in Directions
       /\ d(5) \in Directions /\ d(6) \in Directions /\ d(7) \in Directions
       /\ Turn(d(2), d(1)) = 4 - sense /\ Turn(d(3), d(2)) = 4 - sense
       /\ Turn(d(4), d(3)) = 4 - sense /\ Turn(d(5), d(4)) = 4 - sense
       /\ Turn(d(6), d(5)) = 4 - sense /\ Turn(d(7), d(6)) = 4 - sense
  <2> HIDE DEF d
  <2>1. \A i \in 1 .. 6 : Turn(d(i + 1), d(i)) = 4 - sense
    BY <1>1
  <2>2. /\ Turn(d(1 + 1), d(1)) = 4 - sense /\ Turn(d(2 + 1), d(2)) = 4 - sense
        /\ Turn(d(3 + 1), d(3)) = 4 - sense /\ Turn(d(4 + 1), d(4)) = 4 - sense
        /\ Turn(d(5 + 1), d(5)) = 4 - sense /\ Turn(d(6 + 1), d(6)) = 4 - sense
    BY <2>1
  <2> QED
    BY <1>1, <2>2
<1> HIDE DEF d
<1>23. /\ d(3) = Opposite(d(1)) /\ d(4) = Opposite(d(2)) /\ d(5) = d(1) /\ d(6) = d(2)
       /\ d(7) = Opposite(d(1))
       /\ (dir + 1 * sense) % 4 = d(2) /\ (dir + 2 * sense) % 4 = d(1)
       /\ (dir + 3 * sense) % 4 = Opposite(d(2)) /\ (dir + 4 * sense) % 4 = Opposite(d(1))
       /\ (dir + 5 * sense) % 4 = d(2)
       /\ Perpendicular(d(1), d(2))
  <2>1. dir = d(7)
    BY <1>2
  <2>2. ASSUME NEW d1, NEW d2, NEW d3, NEW d4, NEW d5, NEW d6, NEW d7,
               d1 = d(1), d2 = d(2), d3 = d(3), d4 = d(4), d5 = d(5), d6 = d(6), d7 = d(7)
        PROVE  /\ d3 = Opposite(d1) /\ d4 = Opposite(d2) /\ d5 = d1 /\ d6 = d2 /\ d7 = Opposite(d1)
               /\ (d7 + 1 * sense) % 4 = d2 /\ (d7 + 2 * sense) % 4 = d1
               /\ (d7 + 3 * sense) % 4 = Opposite(d2) /\ (d7 + 4 * sense) % 4 = Opposite(d1)
               /\ (d7 + 5 * sense) % 4 = d2
               /\ Perpendicular(d1, d2)
    <3>1. /\ d1 \in Directions /\ d2 \in Directions /\ d3 \in Directions /\ d4 \in Directions
          /\ d5 \in Directions /\ d6 \in Directions /\ d7 \in Directions
          /\ Turn(d2, d1) = 4 - sense /\ Turn(d3, d2) = 4 - sense
          /\ Turn(d4, d3) = 4 - sense /\ Turn(d5, d4) = 4 - sense
          /\ Turn(d6, d5) = 4 - sense /\ Turn(d7, d6) = 4 - sense
      BY <1>22, <2>2
    <3>2. CASE sense = 1
      BY ONLY <3>1, <3>2 DEF Turn, Opposite, Directions, Perpendicular, Right, Left
    <3>3. CASE sense = 3
      BY ONLY <3>1, <3>3 DEF Turn, Opposite, Directions, Perpendicular, Right, Left
    <3> QED
      BY <3>2, <3>3
  <2> QED
    BY <2>1, <2>2
<1>24. /\ g[0] = mid
       /\ g[1] = CheckStep(g[0], Swap(d(2))) /\ g[2] = CheckStep(g[1], Swap(d(1)))
       /\ g[3] = CheckStep(g[2], Swap(Opposite(d(2)))) /\ g[4] = CheckStep(g[3], Swap(Opposite(d(1))))
       /\ g[5] = CheckStep(g[4], Swap(d(2)))
  <2>1. \A i \in 1 .. 5 : g[i] = CheckStep(g[i - 1], five[i])
    BY <1>20 DEF CheckSteps
  <2>2. g[0] = mid
    BY <1>20 DEF CheckSteps
  <2>3. /\ g[1] = CheckStep(g[1 - 1], five[1]) /\ g[2] = CheckStep(g[2 - 1], five[2])
        /\ g[3] = CheckStep(g[3 - 1], five[3]) /\ g[4] = CheckStep(g[4 - 1], five[4])
        /\ g[5] = CheckStep(g[5 - 1], five[5])
    BY <2>1
  <2>4. /\ five[1] = Swap((dir + 1 * sense) % 4) /\ five[2] = Swap((dir + 2 * sense) % 4)
        /\ five[3] = Swap((dir + 3 * sense) % 4) /\ five[4] = Swap((dir + 4 * sense) % 4)
        /\ five[5] = Swap((dir + 5 * sense) % 4)
    BY <1>3, <1>4, <1>5
  <2> QED
    BY <2>2, <2>3, <2>4, <1>23
<1>25. h[7].valid
  BY <1>17, <1>19
<1>26. mid.valid
  <2>1. \A i \in 1 .. 7 : Swap(d(i)) \in Moves
    BY <1>1, MoveTypes DEF d
  <2>2. /\ h[1] \in PlayStates /\ h[2] \in PlayStates /\ h[3] \in PlayStates /\ h[4] \in PlayStates
        /\ h[5] \in PlayStates /\ h[6] \in PlayStates
    BY <1>16, <1>21, <2>1, CheckStepType
  <2> QED
    BY <1>16, <1>21, <1>25, <2>1, <2>2, ValidBefore
<1>27. g[5] = h[7]
  BY SMTT(30), <1>16, <1>21, <1>22, <1>23, <1>24, <1>25, <1>26, Rewinding
<1>28. Simulated(base, u) = Simulated(base, t)
  BY <1>17, <1>19, <1>20, <1>27
<1>29. \A i \in Len(t) - 6 .. Len(t) - 2 : ~u[i].isSelection
  BY <1>1, <1>9
<1>30. Len(u) = Len(t) - 2 /\ Len(t) > 7 /\ Len(t) - 7 = n
  BY <1>1, <1>6
<1> QED
  BY <1>6, <1>7, <1>13, <1>28, <1>29, <1>30 DEF u, dir, rot

\* No selection is followed by another one.
NoneInARow(ans) ==
  \A i \in 1 .. Len(ans) - 1 : ~(ans[i].isSelection /\ ans[i + 1].isSelection)

\* What the loop of optimize() keeps of its local variables.
LoopInv(opt) ==
  /\ opt \in [ans : Seq(Moves), sel : Points, rot : -5 .. 5]
  /\ opt.ans # <<>> /\ opt.ans[1].isSelection
  /\ NoneInARow(opt.ans)
  /\ TurnsCounted(opt.ans, opt.rot)

\* newans, played from base, is valid and ends as sim does; it selects no more.
SameEnd(base, ans, sim) ==
  LET kept == Simulated(base, ans)
  IN  /\ kept.valid /\ kept.cell = sim.cell /\ kept.selected = sim.selected
      /\ kept.remain >= sim.remain

Keeps(base, opt, sim) ==
  /\ LoopInv(opt) /\ opt.sel = sim.selected /\ SameEnd(base, opt.ans, sim)

\* A swap, or a selection after a swap, may be appended.
LEMMA AppendedMove ==
  ASSUME NEW s \in Seq(Moves), s # <<>>, s[1].isSelection, NoneInARow(s), NEW m \in Moves,
         ~m.isSelection \/ ~Last(s).isSelection
  PROVE  /\ Append(s, m) \in Seq(Moves) /\ Append(s, m) # <<>> /\ Append(s, m)[1].isSelection
         /\ NoneInARow(Append(s, m)) /\ Len(Append(s, m)) = Len(s) + 1
         /\ Last(Append(s, m)) = m /\ Append(s, m)[Len(Append(s, m))] = m
<1> DEFINE t == Append(s, m)
           n == Len(s)
<1>1. n \in Nat \ {0} /\ Last(s) = s[n]
  BY LastFront
<1>2. t \in Seq(Moves) /\ t # <<>> /\ Len(t) = n + 1 /\ (\A i \in 1 .. n : t[i] = s[i]) /\ t[n + 1] = m
  BY AppendProperties
<1> HIDE DEF t, n
<1>3. t[1].isSelection
  BY <1>1, <1>2
<1>4. ASSUME NEW i \in 1 .. Len(t) - 1 PROVE ~(t[i].isSelection /\ t[i + 1].isSelection)
  <2>1. CASE i = n
    BY <1>1, <1>2, <2>1
  <2>2. CASE i # n
    <3>1. i \in 1 .. n - 1 /\ i \in 1 .. n /\ i + 1 \in 1 .. n
      BY <1>1, <1>2, <2>2
    <3>2. ~(s[i].isSelection /\ s[i + 1].isSelection)
      BY <3>1 DEF NoneInARow, n
    <3> QED
      BY <1>2, <3>1, <3>2
  <2> QED
    BY <2>1, <2>2
<1>5. NoneInARow(t)
  BY <1>4 DEF NoneInARow
<1>6. Last(t) = m /\ t[Len(t)] = m
  BY <1>2 DEF Last
<1> QED
  BY <1>2, <1>3, <1>5, <1>6 DEF t, n

\* What is left when the last move is taken back.
LEMMA FrontMoves ==
  ASSUME NEW s \in Seq(Moves), s # <<>>, s[1].isSelection, NoneInARow(s)
  PROVE  /\ Front(s) \in Seq(Moves) /\ NoneInARow(Front(s))
         /\ Front(s) # <<>> => Front(s)[1].isSelection
         /\ Front(s) = <<>> => Last(s).isSelection
         /\ Last(s).isSelection /\ Front(s) # <<>> => ~Last(Front(s)).isSelection
<1> DEFINE t == Front(s)
           n == Len(s)
<1>1. /\ n \in Nat \ {0} /\ Last(s) = s[n] /\ t \in Seq(Moves) /\ Len(t) = n - 1
      /\ \A i \in 1 .. n - 1 : t[i] = s[i]
  BY LastFront
<1>2. t = <<>> => n = 1
  BY <1>1
<1>3. t # <<>> => n - 1 >= 1 /\ Last(t) = s[n - 1]
  <2> HIDE DEF t, n
  <2>1. SUFFICES ASSUME t # <<>> PROVE n - 1 >= 1 /\ Last(t) = s[n - 1]
    OBVIOUS
  <2>2. Len(t) # 0
    BY <1>1, <2>1, EmptySeq
  <2> QED
    BY <1>1, <2>2 DEF Last
<1> HIDE DEF t, n
<1>4. NoneInARow(t)
  <2> SUFFICES ASSUME NEW i \in 1 .. Len(t) - 1 PROVE ~(t[i].isSelection /\ t[i + 1].isSelection)
    BY DEF NoneInARow
  <2>1. i \in 1 .. n - 1 /\ i + 1 \in 1 .. n - 1
    BY <1>1
  <2>2. ~(s[i].isSelection /\ s[i + 1].isSelection)
    BY <2>1 DEF NoneInARow, n
  <2> QED
    BY <1>1, <2>1, <2>2
<1>5. t # <<>> => t[1].isSelection
  BY <1>1, <1>3
<1>6. t = <<>> => Last(s).isSelection
  BY <1>1, <1>2
<1>7. Last(s).isSelection /\ t # <<>> => ~Last(t).isSelection
  <2>1. SUFFICES ASSUME Last(s).isSelection, t # <<>> PROVE ~Last(t).isSelection
    OBVIOUS
  <2>2. n - 1 \in 1 .. n - 1 /\ (n - 1) + 1 = n
    BY <1>1, <1>3, <2>1
  <2>3. ~(s[n - 1].isSelection /\ s[(n - 1) + 1].isSelection)
    BY <2>2 DEF NoneInARow, n
  <2> QED
    BY <1>1, <1>3, <2>1, <2>2, <2>3
<1> QED
  BY <1>1, <1>4, <1>5, <1>6, <1>7 DEF t

\* A selection.
LEMMA KeepsSelection ==
  ASSUME NEW base \in PlayStates, NEW sim \in PlayStates, sim.valid, NEW opt, Keeps(base, opt, sim),
         NEW p \in Points, CheckStep(sim, Selection(p)).valid
  PROVE  LET o == OptimizeStep(opt, Selection(p))
         IN  /\ Keeps(base, o, CheckStep(sim, Selection(p)))
             /\ Len(o.ans) + Simulated(base, o.ans).remain
                  <= Len(opt.ans) + Simulated(base, opt.ans).remain
<1> DEFINE m    == Selection(p)
           s    == CheckStep(sim, m)
           kept == Simulated(base, opt.ans)
<1>1. m \in Moves /\ m.isSelection /\ m.selected = p
  BY MoveTypes DEF Selection
<1>2. /\ opt \in [ans : Seq(Moves), sel : Points, rot : -5 .. 5] /\ opt.ans \in Seq(Moves)
      /\ opt.ans # <<>> /\ opt.ans[1].isSelection /\ NoneInARow(opt.ans)
      /\ opt.sel = sim.selected
      /\ kept.valid /\ kept.cell = sim.cell /\ kept.selected = sim.selected
      /\ kept.remain >= sim.remain
  BY DEF Keeps, LoopInv, SameEnd
<1>3. kept \in PlayStates /\ kept.remain \in Nat /\ sim.remain \in Nat
  <2>1. kept \in PlayStates
    BY <1>2, SimulationType
  <2> QED
    BY <2>1 DEF PlayStates
<1>4. /\ sim.remain # 0 /\ s.cell = sim.cell /\ s.selected = p /\ s.remain = sim.remain - 1
      /\ s.valid
  <2>1. s = IF sim.remain # 0
            THEN [cell |-> sim.cell, selected |-> p, remain |-> sim.remain - 1, valid |-> TRUE]
            ELSE [cell |-> sim.cell, selected |-> sim.selected, remain |-> sim.remain, valid |-> FALSE]
    BY SelectStep
  <2> QED
    BY <2>1
<1> HIDE DEF m, s, kept
<1>5. OptimizeStep(opt, m) =
        IF p = opt.sel THEN opt
        ELSE [ans |-> Append(IF Last(opt.ans).isSelection THEN Front(opt.ans) ELSE opt.ans, m),
              sel |-> p, rot |-> 0]
  BY <1>1 DEF OptimizeStep, OptimizeSelection
<1>6. CASE p = opt.sel
  <2>1. SameEnd(base, opt.ans, s)
    BY <1>2, <1>3, <1>4, <1>6 DEF SameEnd, kept
  <2>2. Len(opt.ans) \in Nat
    BY <1>2, LenProperties
  <2> QED
    BY <1>2, <1>3, <1>4, <1>5, <1>6, <2>1, <2>2 DEF Keeps, m, s, kept
<1>7. ASSUME NEW ans \in Seq(Moves), NoneInARow(ans), ans # <<>>, ans[1].isSelection,
             OptimizeStep(opt, m) = [ans |-> ans, sel |-> p, rot |-> 0],
             NEW k, k = Simulated(base, ans), k.valid, k.cell = kept.cell, k.selected = p,
             k.remain \in Nat, k.remain >= kept.remain - 1, Len(ans) + k.remain <= Len(opt.ans) + kept.remain
      PROVE  LET o == OptimizeStep(opt, m)
             IN  /\ Keeps(base, o, s)
                 /\ Len(o.ans) + Simulated(base, o.ans).remain <= Len(opt.ans) + kept.remain
  <2>1. TurnsCounted(ans, 0)
    BY DEF TurnsCounted
  <2>2. LoopInv(OptimizeStep(opt, m))
    BY <1>7, <2>1 DEF LoopInv
  <2>3. k.remain >= s.remain
    BY <1>2, <1>3, <1>4, <1>7
  <2>4. SameEnd(base, ans, s)
    BY <1>2, <1>4, <1>7, <2>3 DEF SameEnd
  <2> QED
    BY <1>4, <1>7, <2>2, <2>4 DEF Keeps
<1>8. CASE p # opt.sel /\ ~Last(opt.ans).isSelection
  <2> DEFINE ans == Append(opt.ans, m)
             k   == Simulated(base, ans)
  <2>1. /\ ans \in Seq(Moves) /\ NoneInARow(ans) /\ ans # <<>> /\ ans[1].isSelection
        /\ Len(ans) = Len(opt.ans) + 1
    BY <1>1, <1>2, <1>8, AppendedMove
  <2>2. k = CheckStep(kept, m)
    BY <1>1, <1>2, CheckFoldAppend DEF kept
  <2>3. kept.remain # 0
    BY <1>2, <1>3, <1>4
  <2>4. k = [cell |-> kept.cell, selected |-> p, remain |-> kept.remain - 1, valid |-> TRUE]
    BY <1>2, <1>3, <2>2, <2>3, SelectStep DEF m
  <2>5. k.valid /\ k.cell = kept.cell /\ k.selected = p /\ k.remain = kept.remain - 1
    BY <2>4
  <2>6. Len(opt.ans) \in Nat /\ kept.remain - 1 \in Nat
    BY <1>2, <1>3, <2>3, LenProperties
  <2>7. OptimizeStep(opt, m) = [ans |-> ans, sel |-> p, rot |-> 0]
    BY <1>5, <1>8
  <2>8. Len(ans) + k.remain <= Len(opt.ans) + kept.remain
    BY <1>3, <2>1, <2>5, <2>6
  <2> HIDE DEF ans
  <2> QED
    BY <1>3, <1>7, <2>1, <2>5, <2>6, <2>7, <2>8 DEF m, s, kept
<1>9. CASE p # opt.sel /\ Last(opt.ans).isSelection
  <2> DEFINE f   == Front(opt.ans)
             l   == Last(opt.ans)
             k0  == Simulated(base, f)
             ans == Append(f, m)
             k   == Simulated(base, ans)
  <2>1. /\ f \in Seq(Moves) /\ l \in Moves /\ opt.ans = Append(f, l) /\ Len(f) = Len(opt.ans) - 1
        /\ Len(opt.ans) \in Nat \ {0}
    BY <1>2, LastFront
  <2>2. /\ NoneInARow(f) /\ (f # <<>> => f[1].isSelection)
        /\ (f # <<>> => ~Last(f).isSelection)
    BY <1>2, <1>9, FrontMoves
  <2>3. l.isSelection /\ l.selected \in Points /\ l = Selection(l.selected)
    BY <1>9, <2>1, MoveTypes
  <2> HIDE DEF f, l
  <2>4. kept = CheckStep(k0, l) /\ k = CheckStep(k0, m)
    BY <1>1, <2>1, CheckFoldAppend DEF kept
  <2>5. k0 \in PlayStates /\ k0.remain \in Nat
    <3>1. k0 \in PlayStates
      BY <2>1, SimulationType
    <3> QED
      BY <3>1 DEF PlayStates
  <2>6. k0.valid
    BY <1>2, <2>1, <2>4, <2>5, ValidBefore
  <2>7. k0.remain # 0 /\ kept.cell = k0.cell /\ kept.remain = k0.remain - 1
    <3>1. CheckStep(k0, Selection(l.selected)) = IF k0.remain # 0
            THEN [cell |-> k0.cell, selected |-> l.selected, remain |-> k0.remain - 1, valid |-> TRUE]
            ELSE [cell |-> k0.cell, selected |-> k0.selected, remain |-> k0.remain, valid |-> FALSE]
      BY <2>3, <2>5, <2>6, SelectStep
    <3>2. kept = CheckStep(k0, Selection(l.selected))
      BY <2>3, <2>4
    <3> QED
      BY <1>2, <3>1, <3>2
  <2>8. k = [cell |-> k0.cell, selected |-> p, remain |-> k0.remain - 1, valid |-> TRUE]
    BY <2>4, <2>5, <2>6, <2>7, SelectStep DEF m
  <2>9. k.valid /\ k.cell = kept.cell /\ k.selected = p /\ k.remain = kept.remain
    BY <2>7, <2>8
  <2>10. /\ ans \in Seq(Moves) /\ NoneInARow(ans) /\ ans # <<>> /\ ans[1].isSelection
         /\ Len(ans) = Len(opt.ans)
    <3>1. CASE f = <<>>
      <4>1. ans = <<m>>
        BY <3>1
      <4>2. Len(f) = 0
        BY <3>1
      <4>3. /\ ans \in Seq(Moves) /\ ans # <<>> /\ Len(ans) = Len(f) + 1 /\ ans[Len(f) + 1] = m
        BY <1>1, <2>1, AppendProperties
      <4> HIDE DEF ans
      <4>4. NoneInARow(ans)
        BY <4>2, <4>3 DEF NoneInARow
      <4> QED
        BY <1>1, <2>1, <4>2, <4>3, <4>4
    <3>2. CASE f # <<>>
      <4>1. Len(ans) = Len(f) + 1
        BY <1>1, <2>1, <2>2, <3>2, AppendedMove
      <4> QED
        BY <1>1, <2>1, <2>2, <3>2, <4>1, AppendedMove
    <3> QED
      BY <3>1, <3>2
  <2>11. OptimizeStep(opt, m) = [ans |-> ans, sel |-> p, rot |-> 0]
    BY <1>5, <1>9 DEF f
  <2>12. kept.remain - 1 <= kept.remain
    BY <1>3
  <2>13. Len(ans) + k.remain <= Len(opt.ans) + kept.remain
    BY <1>3, <2>1, <2>9, <2>10
  <2> HIDE DEF ans
  <2> QED
    BY <1>3, <1>7, <2>9, <2>10, <2>11, <2>12, <2>13 DEF m, s, kept
<1> QED
  BY <1>6, <1>8, <1>9 DEF m, s, kept
\* One more turn in the sense of the six.
LEMMA SixthTurn ==
  ASSUME NEW s \in Seq(Moves), s # <<>>, s[1].isSelection, ~Last(s).isSelection,
         NEW dir \in Directions, NEW sense \in {1, 3},
         TurnsCounted(s, IF sense = 3 THEN 5 ELSE -5), Turn(dir, Last(s).direction) = 4 - sense
  PROVE  SixTurns(Append(s, Swap(dir)), sense)
<1> DEFINE t == Append(s, Swap(dir))
<1>1. PICK r \in -5 .. 5 : r = IF sense = 3 THEN 5 ELSE -5
  OBVIOUS
<1>2. TurnsCounted(s, r)
  BY <1>1
<1>3. Len(t) \in Nat
  <2>1. Swap(dir) \in Moves
    BY MoveTypes
  <2> QED
    BY <2>1, AppendProperties, LenProperties
<1>4. CASE sense = 3
  <2>1. r >= 0 /\ Turn(dir, Last(s).direction) = Right
    BY <1>1, <1>4 DEF Right
  <2>2. TurnsCounted(t, r + 1) /\ r + 1 = 6
    BY <1>1, <1>2, <1>4, <2>1, CountedAppend
  <2>3. Absolute(6) = 6
    BY DEF Absolute
  <2> HIDE DEF t
  <2> QED
    BY <1>3, <1>4, <2>2, <2>3 DEF TurnsCounted, SixTurns, Right, t
<1>5. CASE sense = 1
  <2>1. r <= 0 /\ Turn(dir, Last(s).direction) = Left
    BY <1>1, <1>5 DEF Left
  <2>2. TurnsCounted(t, r - 1)
    BY <1>2, <2>1, CountedAppend
  <2>3. Absolute(r - 1) = 6 /\ r - 1 # 0 /\ ~(r - 1 > 0)
    <3>1. \A x \in Int : x < 0 => Absolute(x) = 0 - x
      BY DEF Absolute
    <3>2. r = 0 - 5
      BY <1>1, <1>5
    <3> HIDE <1>1
    <3>3. r - 1 \in Int /\ r - 1 < 0 /\ 0 - (r - 1) = 6
      BY ONLY <3>2
    <3> QED
      BY ONLY <3>1, <3>3
  <2> HIDE DEF t
  <2> QED
    BY SMTT(30), <1>3, <1>5, <2>2, <2>3 DEF TurnsCounted, SixTurns, Left, t
<1> QED
  BY <1>4, <1>5

\* A move.
LEMMA KeepsSwap ==
  ASSUME NEW base \in PlayStates, NEW sim \in PlayStates, sim.valid, NEW opt, Keeps(base, opt, sim),
         NEW dir \in Directions, CheckStep(sim, Swap(dir)).valid
  PROVE  LET o == OptimizeStep(opt, Swap(dir))
         IN  /\ Keeps(base, o, CheckStep(sim, Swap(dir)))
             /\ Len(o.ans) + Simulated(base, o.ans).remain
                  <= Len(opt.ans) + Simulated(base, opt.ans).remain + 1
<1> DEFINE m    == Swap(dir)
           s    == CheckStep(sim, m)
           kept == Simulated(base, opt.ans)
           n    == Len(opt.ans)
           q    == Neighbour(sim.selected, dir)
           next == CheckStep(kept, m)
<1>1. m \in Moves /\ ~m.isSelection /\ m.direction = dir
  BY MoveTypes DEF Swap
<1>2. /\ opt \in [ans : Seq(Moves), sel : Points, rot : -5 .. 5] /\ opt.ans \in Seq(Moves)
      /\ opt.ans # <<>> /\ opt.ans[1].isSelection /\ NoneInARow(opt.ans)
      /\ TurnsCounted(opt.ans, opt.rot) /\ opt.rot \in -5 .. 5
      /\ opt.sel = sim.selected
      /\ kept.valid /\ kept.cell = sim.cell /\ kept.selected = sim.selected
      /\ kept.remain >= sim.remain
  BY DEF Keeps, LoopInv, SameEnd
<1>3. kept \in PlayStates /\ kept.remain \in Nat /\ sim.remain \in Nat /\ n \in Nat
  <2>1. kept \in PlayStates
    BY <1>2, SimulationType
  <2> QED
    BY <2>1, <1>2, LenProperties DEF PlayStates
<1>4. sim.selected \in Points /\ q \in Points /\ s = SimAfter(sim, q)
  BY Swapping
<1>5. s.cell = Swapped(sim.cell, sim.selected, q) /\ s.selected = q /\ s.remain = sim.remain /\ s.valid
  <2> HIDE DEF q, s
  <2> QED
    BY <1>4 DEF SimAfter
<1>6. next = SimAfter(kept, q) /\ next \in PlayStates
  BY <1>2, <1>3, <1>4, Swapping
<1>7. /\ next.valid /\ next.cell = s.cell /\ next.selected = q /\ next.remain = kept.remain
  <2> HIDE DEF q, s, next
  <2> QED
    BY <1>2, <1>5, <1>6 DEF SimAfter
<1> HIDE DEF m, s, kept, n, q, next
<1>8. ASSUME NEW ans \in Seq(Moves), NoneInARow(ans), ans # <<>>, ans[1].isSelection,
             NEW rot \in -5 .. 5, TurnsCounted(ans, rot),
             OptimizeStep(opt, m) = [ans |-> ans, sel |-> q, rot |-> rot],
             Simulated(base, ans) = next, Len(ans) <= n + 1
      PROVE  LET o == OptimizeStep(opt, m)
             IN  /\ Keeps(base, o, s)
                 /\ Len(o.ans) + Simulated(base, o.ans).remain <= n + kept.remain + 1
  <2>1. LoopInv(OptimizeStep(opt, m))
    BY <1>4, <1>8 DEF LoopInv
  <2>2. SameEnd(base, ans, s)
    BY <1>2, <1>5, <1>7, <1>8 DEF SameEnd
  <2>3. Len(ans) \in Nat
    BY LenProperties
  <2>4. Len(ans) + next.remain <= n + kept.remain + 1
    BY <1>3, <1>7, <1>8, <2>3
  <2> QED
    BY <1>5, <1>8, <2>1, <2>2, <2>4 DEF Keeps
<1> DEFINE longer == Append(opt.ans, m)
<1>9. /\ longer \in Seq(Moves) /\ longer # <<>> /\ longer[1].isSelection /\ NoneInARow(longer)
      /\ Len(longer) = n + 1 /\ longer[Len(longer)] = m
      /\ Simulated(base, longer) = next
  BY <1>1, <1>2, AppendedMove, CheckFoldAppend DEF next, kept, n
<1>14. ASSUME NEW rot \in -5 .. 5, TurnsCounted(longer, rot),
              OptimizeStep(opt, m) = [ans |-> longer, sel |-> q, rot |-> rot]
       PROVE  LET o == OptimizeStep(opt, m)
              IN  /\ Keeps(base, o, s)
                  /\ Len(o.ans) + Simulated(base, o.ans).remain <= n + kept.remain + 1
  <2> HIDE DEF longer
  <2>1. Len(longer) <= n + 1
    BY <1>3, <1>9
  <2> QED
    BY ONLY <1>8, <1>9, <1>14, <2>1, rot \in -5 .. 5
<1>10. opt = [ans |-> opt.ans, sel |-> opt.sel, rot |-> opt.rot]
  BY <1>2
<1>11. q = Neighbour(opt.sel, dir)
  BY <1>2 DEF q
<1>12. CASE Last(opt.ans).isSelection
  <2>1. OptimizeStep(opt, m) = [ans |-> longer, sel |-> q, rot |-> opt.rot]
    <3>1. OptimizeStep(opt, m) = [[opt EXCEPT !.ans = longer] EXCEPT !.sel = q]
      BY <1>1, <1>11, <1>12 DEF OptimizeStep, OptimizeSwap, m
    <3> HIDE DEF longer
    <3> QED
      BY <1>10, <3>1
  <2>2. opt.rot = 0
    <3>1. opt.rot # 0 => ~opt.ans[n].isSelection
      <4>1. Absolute(opt.rot) \in Nat
        BY <1>2 DEF Absolute
      <4>2. n \in n - Absolute(opt.rot) .. n
        BY <1>3, <4>1
      <4> QED
        BY <1>2, <4>2 DEF TurnsCounted, n
    <3> QED
      BY <1>2, <1>12, <3>1, LastFront DEF n
  <2>3. TurnsCounted(longer, opt.rot)
    BY <2>2 DEF TurnsCounted
  <2> HIDE DEF longer
  <2> QED
    BY <1>2, <1>14, <2>1, <2>3 DEF m, s, kept, n
<1>13. CASE ~Last(opt.ans).isSelection
  <2> DEFINE l    == Last(opt.ans).direction
             turn == Turn(dir, l)
  <2>1. Last(opt.ans) \in Moves /\ l \in Directions /\ Last(opt.ans) = Swap(l)
    BY <1>2, <1>13, LastFront, MoveTypes
  <2> HIDE DEF l
  <2>2. turn \in 0 .. 3 /\ (turn = 2 => dir = Opposite(l))
    BY <2>1 DEF Turn, Opposite, Directions
  <2>3. OptimizeStep(opt, m) = [OptimizeTurn(opt, dir) EXCEPT !.sel = q]
    BY <1>1, <1>11, <1>13 DEF OptimizeStep, OptimizeSwap, m
  <2>4. ASSUME NEW ans, NEW rot, OptimizeTurn(opt, dir) = [opt EXCEPT !.ans = ans, !.rot = rot]
        PROVE  OptimizeStep(opt, m) = [ans |-> ans, sel |-> q, rot |-> rot]
    BY <1>10, <2>3, <2>4
  <2> USE DEF Down, Right, Left, Up
  <2>5. CASE turn = 2
    <3> DEFINE f   == Front(opt.ans)
               rot == IF opt.rot > 0 THEN opt.rot - 1 ELSE IF opt.rot < 0 THEN opt.rot + 1 ELSE 0
               k0  == Simulated(base, f)
    <3>1. OptimizeTurn(opt, dir) = [opt EXCEPT !.ans = f, !.rot = rot]
      BY <2>5 DEF OptimizeTurn, m, l
    <3>2. OptimizeStep(opt, m) = [ans |-> f, sel |-> q, rot |-> rot]
      <4> HIDE DEF f, rot
      <4> QED
        BY <2>4, <3>1
    <3>3. TurnsCounted(f, rot) /\ rot \in -5 .. 5
      BY <1>2, CountedFront
    <3>4. /\ f \in Seq(Moves) /\ NoneInARow(f) /\ f # <<>> /\ f[1].isSelection
      BY <1>2, <1>13, FrontMoves
    <3>5. Len(f) = n - 1 /\ opt.ans = Append(f, Swap(l))
      BY <1>2, <2>1, LastFront DEF n
    <3> HIDE DEF f
    <3>6. kept = CheckStep(k0, Swap(l)) /\ k0 \in PlayStates /\ Swap(l) \in Moves
      <4>1. Swap(l) \in Moves
        BY <2>1, MoveTypes
      <4> QED
        BY <3>4, <3>5, <4>1, CheckFoldAppend, SimulationType DEF kept
    <3>7. k0.valid
      BY <1>2, <3>6, ValidBefore
    <3>8. CheckStep(kept, m) = k0
      BY <1>2, <2>1, <2>2, <2>5, <3>6, <3>7, SwapBack DEF m
    <3>9. Simulated(base, f) = next /\ Len(f) <= n + 1
      BY <1>3, <3>5, <3>8 DEF next
    <3> HIDE DEF rot
    <3> QED
      BY <1>8, <3>2, <3>3, <3>4, <3>9 DEF m, s, kept, n
  <2>6. CASE turn = 1 /\ opt.rot \in 0 .. 4
    <3>1. OptimizeTurn(opt, dir) = [opt EXCEPT !.ans = longer, !.rot = opt.rot + 1]
      BY <2>6 DEF OptimizeTurn, m, l
    <3>2. OptimizeStep(opt, m) = [ans |-> longer, sel |-> q, rot |-> opt.rot + 1]
      <4> HIDE DEF longer
      <4> QED
        BY <2>4, <3>1
    <3>3. TurnsCounted(longer, opt.rot + 1) /\ opt.rot + 1 \in -5 .. 5
      <4>1. opt.rot >= 0 /\ opt.rot + 1 \in -5 .. 5
        BY <2>6
      <4> QED
        BY <1>2, <1>13, <2>6, <4>1, CountedAppend DEF m, l
    <3> HIDE DEF longer
    <3> QED
      BY <1>14, <3>2, <3>3 DEF m, s, kept, n
  <2>7. CASE turn = 3 /\ opt.rot \in -4 .. 0
    <3>1. OptimizeTurn(opt, dir) = [opt EXCEPT !.ans = longer, !.rot = opt.rot - 1]
      BY <2>7 DEF OptimizeTurn, m, l
    <3>2. OptimizeStep(opt, m) = [ans |-> longer, sel |-> q, rot |-> opt.rot - 1]
      <4> HIDE DEF longer
      <4> QED
        BY <2>4, <3>1
    <3>3. TurnsCounted(longer, opt.rot - 1) /\ opt.rot - 1 \in -5 .. 5
      <4>1. opt.rot <= 0 /\ opt.rot - 1 \in -5 .. 5
        BY <2>7
      <4> QED
        BY <1>2, <1>13, <2>7, <4>1, CountedAppend DEF m, l
    <3> HIDE DEF longer
    <3> QED
      BY <1>14, <3>2, <3>3 DEF m, s, kept, n
  <2>8. ASSUME NEW sense \in {1, 3}, NEW rot, rot = IF sense = 3 THEN -4 ELSE 4,
               OptimizeTurn(opt, dir) = [opt EXCEPT !.ans = Rewound(longer, dir, sense), !.rot = rot],
               SixTurns(longer, sense)
        PROVE  LET o == OptimizeStep(opt, m)
               IN  /\ Keeps(base, o, s)
                   /\ Len(o.ans) + Simulated(base, o.ans).remain <= n + kept.remain + 1
    <3> DEFINE u == Rewound(longer, dir, sense)
    <3>1. OptimizeStep(opt, m) = [ans |-> u, sel |-> q, rot |-> rot]
      <4> HIDE DEF longer, u
      <4> QED
        BY <2>4, <2>8 DEF u
    <3>2. rot \in -5 .. 5
      BY <2>8
    <3>3. longer[Len(longer)].direction = dir /\ next.valid
      BY <1>1, <1>7, <1>9
    <3> HIDE DEF longer
    <3>4. /\ u \in Seq(Moves) /\ Len(u) = Len(longer) - 2 /\ Len(longer) > 7
          /\ \A i \in 1 .. Len(longer) - 7 : u[i] = longer[i]
          /\ \A i \in Len(longer) - 6 .. Len(longer) - 2 : ~u[i].isSelection
          /\ TurnsCounted(u, IF sense = 3 THEN -4 ELSE 4)
          /\ Simulated(base, u) = Simulated(base, longer)
      <4>1. longer \in Seq(Moves) /\ SixTurns(longer, sense) /\ base \in PlayStates
            /\ Simulated(base, longer).valid /\ sense \in {1, 3}
        BY <1>9, <2>8, <3>3
      <4>2. u = Rewound(longer, longer[Len(longer)].direction, sense)
        BY <3>3
      <4> HIDE DEF u
      <4> QED
        BY ONLY <4>1, <4>2, RewoundKeeps
    <3> HIDE DEF u
    <3>5. u # <<>> /\ u[1].isSelection
      BY <1>3, <1>9, <3>4
    <3>6. NoneInARow(u)
      <4> SUFFICES ASSUME NEW i \in 1 .. Len(u) - 1 PROVE ~(u[i].isSelection /\ u[i + 1].isSelection)
        BY DEF NoneInARow
      <4>1. CASE i + 1 <= Len(longer) - 7
        <5>1. i \in 1 .. Len(longer) - 7 /\ i + 1 \in 1 .. Len(longer) - 7 /\ i \in 1 .. Len(longer) - 1
          BY <1>3, <1>9, <4>1
        <5> QED
          BY <1>9, <3>4, <5>1 DEF NoneInARow
      <4>2. CASE i + 1 > Len(longer) - 7
        <5>1. i + 1 \in Len(longer) - 6 .. Len(longer) - 2
          BY <1>3, <1>9, <3>4, <4>2
        <5> QED
          BY <3>4, <5>1
      <4> QED
        BY <1>3, <1>9, <4>1, <4>2
    <3>7. TurnsCounted(u, rot) /\ Simulated(base, u) = next /\ Len(u) <= n + 1
      BY <1>3, <1>9, <2>8, <3>4
    <3> QED
      BY <1>8, <3>1, <3>2, <3>4, <3>5, <3>6, <3>7
  <2>9. CASE turn = 1 /\ opt.rot = 5
    <3>1. OptimizeTurn(opt, dir) = [opt EXCEPT !.ans = Rewound(longer, dir, 3), !.rot = -4]
      BY <2>9 DEF OptimizeTurn, m, l
    <3>2. SixTurns(longer, 3)
      BY <1>2, <1>13, <2>9, SixthTurn DEF m, l
    <3>3. -4 = IF 3 = 3 THEN -4 ELSE 4
      OBVIOUS
    <3> HIDE DEF longer
    <3> QED
      BY <2>8, <3>1, <3>2, <3>3 DEF m, s, kept, n
  <2>10. CASE turn = 3 /\ opt.rot = -5
    <3>1. OptimizeTurn(opt, dir) = [opt EXCEPT !.ans = Rewound(longer, dir, 1), !.rot = 4]
      BY <2>10 DEF OptimizeTurn, m, l
    <3>2. SixTurns(longer, 1)
      BY <1>2, <1>13, <2>10, SixthTurn DEF m, l
    <3>3. 1 \in {1, 3} /\ 4 = IF 1 = 3 THEN -4 ELSE 4
      OBVIOUS
    <3>4. ASSUME NEW sense \in {1, 3}, sense = 1, NEW rot, rot = 4
          PROVE  LET o == OptimizeStep(opt, m)
                 IN  /\ Keeps(base, o, s)
                     /\ Len(o.ans) + Simulated(base, o.ans).remain <= n + kept.remain + 1
      <4>1. rot = IF sense = 3 THEN -4 ELSE 4
        BY <3>4
      <4>2. /\ OptimizeTurn(opt, dir) = [opt EXCEPT !.ans = Rewound(longer, dir, sense), !.rot = rot]
            /\ SixTurns(longer, sense)
        <5> HIDE DEF longer
        <5> QED
          BY <3>1, <3>2, <3>4
      <4> HIDE DEF longer
      <4> QED
        BY ONLY <2>8, <4>1, <4>2, sense \in {1, 3}
    <3> HIDE DEF longer
    <3> QED
      BY <3>3, <3>4 DEF m, s, kept, n
  <2>11. CASE \/ turn = 0
              \/ turn = 1 /\ opt.rot < 0
              \/ turn = 3 /\ opt.rot > 0
    <3> DEFINE rot == IF turn = 0 THEN 0 ELSE IF turn = 1 THEN 1 ELSE -1
    <3>1. OptimizeTurn(opt, dir) = [opt EXCEPT !.ans = longer, !.rot = rot]
      BY <1>2, <2>11 DEF OptimizeTurn, m, l
    <3>2. OptimizeStep(opt, m) = [ans |-> longer, sel |-> q, rot |-> rot]
      <4> HIDE DEF longer, rot
      <4> QED
        BY <2>4, <3>1
    <3>3. rot \in -5 .. 5
      OBVIOUS
    <3>4. TurnsCounted(longer, rot)
      <4>1. TurnsCounted(opt.ans, 0) /\ 0 \in -5 .. 5 /\ 0 >= 0 /\ 0 <= 0 /\ 0 + 1 = 1 /\ 0 - 1 = -1
        BY DEF TurnsCounted
      <4>2. turn = 1 => TurnsCounted(longer, 0 + 1)
        BY <1>2, <1>13, <4>1, CountedAppend DEF m, l
      <4>3. turn = 3 => TurnsCounted(longer, 0 - 1)
        BY <1>2, <1>13, <4>1, CountedAppend DEF m, l
      <4>4. TurnsCounted(longer, 0)
        BY DEF TurnsCounted
      <4> HIDE DEF longer
      <4> QED
        BY <2>11, <4>1, <4>2, <4>3, <4>4
    <3> HIDE DEF longer, rot
    <3> QED
      BY <1>14, <3>2, <3>3, <3>4 DEF m, s, kept, n
  <2>12. \/ turn = 0 \/ turn = 1 \/ turn = 2 \/ turn = 3
    BY <2>2
  <2>13. opt.rot \in -4 .. 0 \/ opt.rot \in 0 .. 4 \/ opt.rot = 5 \/ opt.rot = -5
    BY <1>2
  <2> HIDE DEF turn
  <2> QED
    BY <2>5, <2>6, <2>7, <2>9, <2>10, <2>11, <2>12, <2>13
<1> QED
  BY <1>12, <1>13

-----------------------------------------------------------------------------
(* Counting the moves of an answer.                                        *)

\* Two sets have as many elements if each of two functions takes back the other.
LEMMA SameSize ==
  ASSUME NEW S, NEW T, IsFiniteSet(S), NEW f \in [S -> T], NEW g \in [T -> S],
         \A s \in S : g[f[s]] = s, \A t \in T : f[g[t]] = t
  PROVE  IsFiniteSet(T) /\ Cardinality(T) = Cardinality(S)
<1>1. f \in Bijection(S, T)
  BY DEF Bijection, Injection, Surjection, IsInjective
<1>2. ExistsBijection(S, T)
  BY <1>1 DEF ExistsBijection
<1> QED
  BY <1>2, FS_Bijection

\* The selections among the first k moves.
SelectionsIn(ans, k) == {i \in 1 .. k : ans[i].isSelection}

\* Every selection of a valid play takes one of the selections that remain.
LEMMA SelectionsCounted ==
  ASSUME NEW base \in PlayStates, NEW ans \in Seq(Moves), Simulated(base, ans).valid
  PROVE  /\ SelectionCount(ans) \in Nat
         /\ SelectionCount(ans) = base.remain - Simulated(base, ans).remain
<1> DEFINE n    == Len(ans)
<1>1. n \in Nat /\ DOMAIN ans = 1 .. n /\ \A i \in 1 .. n : ans[i] \in Moves
  BY LenProperties, ElementOfSeq
<1> HIDE DEF n
<1>2. PICK h : CheckSteps(h, base, ans, n) /\ Simulated(base, ans) = h[n]
  BY <1>1, CheckFold
<1> DEFINE T == {k \in Nat : k <= n =>
                   /\ h[k] \in PlayStates
                   /\ IsFiniteSet(SelectionsIn(ans, k)) /\ Cardinality(SelectionsIn(ans, k)) \in Nat
                   /\ h[k].valid => Cardinality(SelectionsIn(ans, k)) = base.remain - h[k].remain}
<1>3. 0 \in T
  <2>1. SelectionsIn(ans, 0) = {}
    BY DEF SelectionsIn
  <2>2. h[0] = base
    BY <1>2 DEF CheckSteps
  <2>3. base.remain \in Nat
    BY DEF PlayStates
  <2>4. Cardinality(SelectionsIn(ans, 0)) = 0 /\ IsFiniteSet(SelectionsIn(ans, 0))
    BY <2>1, FS_EmptySet
  <2>5. base.remain - base.remain = 0
    BY <2>3
  <2> QED
    BY <2>2, <2>4, <2>5
<1>4. ASSUME NEW k \in T PROVE k + 1 \in T
  <2> DEFINE c == SelectionsIn(ans, k)
             d == SelectionsIn(ans, k + 1)
  <2>1. SUFFICES ASSUME k + 1 <= n
                 PROVE  /\ h[k + 1] \in PlayStates
                        /\ IsFiniteSet(d) /\ Cardinality(d) \in Nat
                        /\ h[k + 1].valid => Cardinality(d) = base.remain - h[k + 1].remain
    OBVIOUS
  <2>2. /\ h[k] \in PlayStates /\ IsFiniteSet(c) /\ Cardinality(c) \in Nat
        /\ h[k].valid => Cardinality(c) = base.remain - h[k].remain
    BY <1>1, <2>1
  <2>3. k + 1 \in 1 .. n /\ (k + 1) - 1 = k /\ ans[k + 1] \in Moves
    BY <1>1, <2>1
  <2> DEFINE m == ans[k + 1]
             s == h[k]
  <2>4. h[k + 1] = CheckStep(s, m)
    BY <1>2, <2>3 DEF CheckSteps
  <2>5. CheckStep(s, m) \in PlayStates
    BY <2>2, <2>3, CheckStepType
  <2>6. CASE m.isSelection
    <3>1. d = c \cup {k + 1} /\ k + 1 \notin c
      BY <2>3, <2>6 DEF SelectionsIn
    <3> HIDE DEF c, d
    <3>2. IsFiniteSet(d) /\ Cardinality(d) = Cardinality(c) + 1
      BY <2>2, <3>1, FS_AddElement
    <3>3. CheckStep(s, m).valid => s.valid /\ CheckStep(s, m).remain = s.remain - 1
      <4>1. m.selected \in Points /\ m = Selection(m.selected)
        BY <2>3, <2>6, MoveTypes
      <4>2. CheckStep(s, m).valid => s.valid
        BY <2>2, <2>3, ValidBefore
      <4> HIDE DEF m, s
      <4>3. ASSUME NEW p \in Points, s.valid, CheckStep(s, Selection(p)).valid
            PROVE  CheckStep(s, Selection(p)).remain = s.remain - 1
        BY <2>2, <4>3, SelectStep DEF s
      <4> QED
        BY <4>1, <4>2, <4>3
    <3> HIDE DEF m, s
    <3>4. s.remain \in Nat /\ base.remain \in Nat
      BY <2>2 DEF PlayStates, s
    <3> QED
      BY <2>2, <2>4, <2>5, <3>2, <3>3, <3>4 DEF s
  <2>7. CASE ~m.isSelection
    <3>1. d = c
      BY <2>3, <2>7 DEF SelectionsIn
    <3>2. CheckStep(s, m).valid => s.valid /\ CheckStep(s, m).remain = s.remain
      <4>1. m.direction \in Directions /\ m = Swap(m.direction)
        BY <2>3, <2>7, MoveTypes
      <4>2. CheckStep(s, m).valid => s.valid
        BY <2>2, <2>3, ValidBefore
      <4> HIDE DEF m, s
      <4>3. ASSUME NEW e \in Directions, s.valid, CheckStep(s, Swap(e)).valid
            PROVE  CheckStep(s, Swap(e)).remain = s.remain
        BY <2>2, <4>3, SwapStep DEF s
      <4> QED
        BY <4>1, <4>2, <4>3
    <3> HIDE DEF m, s, c, d
    <3> QED
      BY <2>2, <2>4, <2>5, <3>1, <3>2 DEF s
  <2> QED
    BY <2>6, <2>7
<1>5. T = Nat
  <2>1. T \in SUBSET Nat
    OBVIOUS
  <2> HIDE DEF T
  <2> QED
    BY <1>3, <1>4, <2>1, SetInduction
<1>6. SelectionCount(ans) = Cardinality(SelectionsIn(ans, n))
  BY <1>1 DEF SelectionCount, IsSelectionMove, SelectionsIn
<1>7. n \in T
  BY <1>1, <1>5
<1> QED
  BY <1>1, <1>2, <1>6, <1>7

\* A move is a selection or a swap.
LEMMA MovesCounted ==
  ASSUME NEW ans \in Seq(Moves)
  PROVE  SelectionCount(ans) \in Nat /\ SwapCount(ans) = Len(ans) - SelectionCount(ans)
<1> DEFINE n == Len(ans)
           D == 1 .. n
           S == {i \in D : ans[i].isSelection}
           W == {i \in D : ~ans[i].isSelection}
<1>1. n \in Nat /\ DOMAIN ans = D
  BY LenProperties
<1> HIDE DEF n
<1>2. IsFiniteSet(D) /\ Cardinality(D) = n
  BY <1>1, FS_Interval
<1>3. W = D \ S /\ D \cap S = S /\ S \in SUBSET D
  OBVIOUS
<1>4. SelectionCount(ans) = Cardinality(S) /\ SwapCount(ans) = Cardinality(W)
  BY <1>1 DEF SelectionCount, SwapCount, IsSelectionMove, IsSwapMove
<1> HIDE DEF D, S, W
<1>5. Cardinality(W) = Cardinality(D) - Cardinality(S)
  <2>1. Cardinality(D \ S) = Cardinality(D) - Cardinality(D \cap S)
    BY ONLY <1>2, FS_Difference
  <2> QED
    BY ONLY <1>3, <2>1
<1>6. Cardinality(S) \in Nat
  BY <1>2, <1>3, FS_Subset, FS_CardinalityType
<1> QED
  BY <1>2, <1>4, <1>5, <1>6 DEF n

\* OptimizeEnd empties an answer that is one selection.
LEMMA EndKeeps ==
  ASSUME NEW base \in PlayStates, base.valid, NEW opt, LoopInv(opt), Simulated(base, opt.ans).valid
  PROVE  LET end == OptimizeEnd(opt)
         IN  /\ end \in Seq(Moves) /\ Simulated(base, end).valid
             /\ Simulated(base, end).cell = Simulated(base, opt.ans).cell
             /\ Len(end) + Simulated(base, end).remain
                  <= Len(opt.ans) + Simulated(base, opt.ans).remain
             /\ Simulated(base, end).remain >= Simulated(base, opt.ans).remain
<1> DEFINE ans == opt.ans
<1>1. ans \in Seq(Moves) /\ ans # <<>> /\ ans[1].isSelection /\ NoneInARow(ans)
  BY DEF LoopInv
<1>2. Len(ans) \in Nat \ {0} /\ DOMAIN ans = 1 .. Len(ans)
  BY <1>1, LenProperties, EmptySeq
<1>3. Simulated(base, ans) \in PlayStates
  BY <1>1, SimulationType
<1>4. CASE \A i \in DOMAIN ans : ans[i].isSelection
  <2>1. Len(ans) = 1
    <3>1. SUFFICES ASSUME Len(ans) # 1 PROVE FALSE
      OBVIOUS
    <3> HIDE DEF ans
    <3>2. 1 \in 1 .. Len(ans) - 1 /\ 1 \in DOMAIN ans /\ 1 + 1 \in DOMAIN ans
      BY <1>2, <3>1
    <3> QED
      BY <1>1, <1>4, <3>2 DEF NoneInARow
  <2> DEFINE m == ans[1]
  <2>2. m \in Moves
    BY <1>1, <1>2, ElementOfSeq
  <2>3. m.selected \in Points /\ m = Selection(m.selected)
    BY <1>1, <2>2, MoveTypes
  <2>4. ans = Append(<<>>, m)
    <3>1. /\ <<>> \in Seq(Moves) /\ Len(<<>>) = 0
      BY EmptySeq
    <3>2. /\ Append(<<>>, m) \in Seq(Moves) /\ Len(Append(<<>>, m)) = Len(<<>>) + 1
          /\ Append(<<>>, m)[Len(<<>>) + 1] = m
      BY <2>2, <3>1, AppendProperties
    <3>3. Len(Append(<<>>, m)) = Len(ans) /\ Append(<<>>, m)[1] = ans[1]
      BY <2>1, <3>1, <3>2
    <3>4. \A i \in 1 .. Len(ans) : Append(<<>>, m)[i] = ans[i]
      BY <2>1, <3>3
    <3> HIDE DEF m
    <3> QED
      BY <1>1, <3>2, <3>3, <3>4, SeqEqual
  <2>5. Simulated(base, ans) = CheckStep(base, m)
    <3>1. <<>> \in Seq(Moves)
      BY EmptySeq
    <3> HIDE DEF m, ans
    <3>2. Simulated(base, Append(<<>>, m)) = CheckStep(Simulated(base, <<>>), m)
      BY ONLY <2>2, <3>1, CheckFoldAppend
    <3>3. Simulated(base, <<>>) = base
      BY ONLY CheckFoldEmpty
    <3> QED
      BY ONLY <2>4, <3>2, <3>3
  <2>6. ASSUME NEW p \in Points, m = Selection(p)
        PROVE  /\ Simulated(base, ans).cell = base.cell
               /\ Simulated(base, ans).remain = base.remain - 1
    BY <2>5, <2>6, SelectStep
  <2>7. OptimizeEnd(opt) = <<>>
    BY <1>4 DEF OptimizeEnd
  <2>8. <<>> \in Seq(Moves) /\ Len(<<>>) = 0
    BY EmptySeq
  <2>9. base.remain \in Nat
    BY DEF PlayStates
  <2>10. Simulated(base, <<>>) = base
    BY CheckFoldEmpty
  <2> HIDE DEF m, ans
  <2> QED
    BY <2>1, <2>3, <2>6, <2>7, <2>8, <2>9, <2>10 DEF ans
<1>5. CASE ~\A i \in DOMAIN ans : ans[i].isSelection
  <2>1. OptimizeEnd(opt) = ans
    BY <1>5 DEF OptimizeEnd
  <2>2. Simulated(base, ans).remain \in Nat
    BY <1>3 DEF PlayStates
  <2> HIDE DEF ans
  <2> QED
    BY <1>1, <1>2, <2>1, <2>2 DEF ans
<1> QED
  BY <1>4, <1>5

\* The first move of an answer is a selection, newans begins with it.
LEMMA BeginKeeps ==
  ASSUME NEW base \in PlayStates, base.valid, NEW p \in Points,
         CheckStep(base, Selection(p)).valid
  PROVE  LET opt == OptimizeBegin(Selection(p))
         IN  /\ Keeps(base, opt, CheckStep(base, Selection(p)))
             /\ Len(opt.ans) = 1
             /\ Simulated(base, opt.ans) = CheckStep(base, Selection(p))
<1> DEFINE m   == Selection(p)
           ans == <<m>>
           s   == CheckStep(base, m)
<1>1. m \in Moves /\ m.isSelection /\ m.selected = p
  BY MoveTypes DEF Selection
<1>2. OptimizeBegin(m) = [ans |-> ans, sel |-> p, rot |-> 0]
  BY <1>1 DEF OptimizeBegin
<1>3. ans \in Seq(Moves) /\ ans # <<>> /\ Len(ans) = 1 /\ ans[1] = m
  <2> HIDE DEF m
  <2> QED
    BY <1>1
<1>4. Simulated(base, ans) = s
  <2>1. ans = Append(<<>>, m)
    <3> HIDE DEF m
    <3> QED
      OBVIOUS
  <2>2. <<>> \in Seq(Moves)
    BY EmptySeq
  <2> HIDE DEF m, ans
  <2>3. Simulated(base, Append(<<>>, m)) = CheckStep(Simulated(base, <<>>), m)
    BY ONLY <1>1, <2>2, CheckFoldAppend
  <2>4. Simulated(base, <<>>) = base
    BY ONLY CheckFoldEmpty
  <2> QED
    BY <2>1, <2>3, <2>4 DEF m
<1>5. s.selected = p /\ s.remain \in Nat
  <2>1. s \in PlayStates
    BY <1>1, CheckStepType
  <2>2. s.remain \in Nat
    BY <2>1 DEF PlayStates
  <2> QED
    BY <2>2, SelectStep
<1> HIDE DEF m, s, ans
<1>6. NoneInARow(ans)
  <2>1. 1 .. Len(ans) - 1 = {}
    BY <1>3
  <2> QED
    BY <2>1 DEF NoneInARow
<1>7. TurnsCounted(ans, 0)
  BY DEF TurnsCounted
<1>8. LoopInv(OptimizeBegin(m))
  BY <1>1, <1>2, <1>3, <1>6, <1>7 DEF LoopInv
<1>9. SameEnd(base, ans, s)
  BY <1>4, <1>5 DEF SameEnd, s, m
<1> QED
  BY <1>2, <1>3, <1>4, <1>5, <1>8, <1>9 DEF Keeps, m, s

\* In a play without errors, every part of it is without errors.
LEMMA ValidPrefix ==
  ASSUME NEW base \in PlayStates, NEW ans \in Seq(Moves), NEW h,
         CheckSteps(h, base, ans, Len(ans)), h[Len(ans)].valid
  PROVE  \A k \in 0 .. Len(ans) : h[k] \in PlayStates /\ h[k].valid
<1> DEFINE n == Len(ans)
<1>1. n \in Nat /\ \A i \in 1 .. n : ans[i] \in Moves
  BY LenProperties, ElementOfSeq
<1>2. h[0] = base /\ \A i \in 1 .. n : h[i] = CheckStep(h[i - 1], ans[i])
  BY DEF CheckSteps
<1>3. h[n].valid
  OBVIOUS
<1> HIDE DEF n
<1> DEFINE T == {k \in Nat : k <= n => h[k] \in PlayStates}
           V == {k \in Nat : k <= n => h[n - k].valid}
<1>4. T = Nat
  <2>1. 0 \in T
    BY <1>2
  <2>2. ASSUME NEW k \in T PROVE k + 1 \in T
    <3>1. SUFFICES ASSUME k + 1 <= n PROVE h[k + 1] \in PlayStates
      OBVIOUS
    <3>2. k + 1 \in 1 .. n /\ (k + 1) - 1 = k /\ h[k] \in PlayStates
      BY <1>1, <3>1
    <3> QED
      BY <1>1, <1>2, <3>2, CheckStepType
  <2>3. T \in SUBSET Nat
    OBVIOUS
  <2> HIDE DEF T
  <2> QED
    BY <2>1, <2>2, <2>3, SetInduction
<1>5. V = Nat
  <2>1. 0 \in V
    BY <1>1, <1>3
  <2>2. ASSUME NEW k \in V PROVE k + 1 \in V
    <3>1. SUFFICES ASSUME k + 1 <= n PROVE h[n - (k + 1)].valid
      OBVIOUS
    <3>2. PICK i \in 1 .. n : i = n - k
      BY <1>1, <3>1
    <3>3. n - (k + 1) = i - 1 /\ i - 1 \in Nat /\ i - 1 <= n
      BY <1>1, <3>2
    <3>4. h[i].valid
      BY <1>1, <3>1, <3>2
    <3>5. h[i - 1] \in PlayStates
      BY <1>4, <3>3
    <3>6. h[i] = CheckStep(h[i - 1], ans[i]) /\ ans[i] \in Moves
      BY <1>1, <1>2
    <3>7. h[i - 1].valid
      BY <3>4, <3>5, <3>6, ValidBefore
    <3> QED
      BY <3>3, <3>7
  <2>3. V \in SUBSET Nat
    OBVIOUS
  <2> HIDE DEF V
  <2> QED
    BY <2>1, <2>2, <2>3, SetInduction
<1> SUFFICES ASSUME NEW k \in 0 .. n PROVE h[k] \in PlayStates /\ h[k].valid
  BY DEF n
<1>6. PICK j \in Nat : j = n - k
  BY <1>1
<1>7. k \in Nat /\ k <= n /\ j <= n /\ n - j = k
  BY <1>1, <1>6
<1>8. k \in T /\ j \in V
  <2> HIDE DEF T, V
  <2> QED
    BY <1>4, <1>5, <1>6, <1>7
<1> QED
  BY <1>7, <1>8

\* One more move, whatever it is: what the loop keeps, it keeps.
LEMMA KeepsMove ==
  ASSUME NEW base \in PlayStates, NEW sim \in PlayStates, sim.valid, NEW opt, Keeps(base, opt, sim),
         NEW m \in Moves, CheckStep(sim, m).valid
  PROVE  LET o == OptimizeStep(opt, m)
             s == CheckStep(sim, m)
         IN  /\ Keeps(base, o, s)
             /\ Len(o.ans) + Simulated(base, o.ans).remain + sim.remain
                  <= Len(opt.ans) + Simulated(base, opt.ans).remain + s.remain + 1
<1>1. /\ opt.ans \in Seq(Moves) /\ Len(opt.ans) \in Nat /\ Simulated(base, opt.ans) \in PlayStates
      /\ Simulated(base, opt.ans).remain \in Nat /\ sim.remain \in Nat
  <2>1. opt.ans \in Seq(Moves)
    BY DEF Keeps, LoopInv
  <2>2. Simulated(base, opt.ans) \in PlayStates
    BY <2>1, SimulationType
  <2> QED
    BY <2>1, <2>2, LenProperties DEF PlayStates
<1> DEFINE o == OptimizeStep(opt, m)
<1>2. Keeps(base, o, CheckStep(sim, m)) =>
        Len(o.ans) \in Nat /\ Simulated(base, o.ans).remain \in Nat
  <2> HIDE DEF o
  <2>1. SUFFICES ASSUME Keeps(base, o, CheckStep(sim, m))
                 PROVE  Len(o.ans) \in Nat /\ Simulated(base, o.ans).remain \in Nat
    OBVIOUS
  <2>2. o.ans \in Seq(Moves)
    BY <2>1 DEF Keeps, LoopInv
  <2>3. Simulated(base, o.ans) \in PlayStates
    BY <2>2, SimulationType
  <2> QED
    BY <2>2, <2>3, LenProperties DEF PlayStates
<1>3. CASE m.isSelection
  <2>1. PICK p \in Points : m = Selection(p)
    BY <1>3, MoveTypes
  <2>2. CheckStep(sim, m).remain = sim.remain - 1
    BY <2>1, SelectStep
  <2>3. /\ Keeps(base, o, CheckStep(sim, m))
        /\ Len(o.ans) + Simulated(base, o.ans).remain
             <= Len(opt.ans) + Simulated(base, opt.ans).remain
    BY <2>1, KeepsSelection
  <2> HIDE DEF o
  <2>4. Len(o.ans) + Simulated(base, o.ans).remain + sim.remain
          <= Len(opt.ans) + Simulated(base, opt.ans).remain + CheckStep(sim, m).remain + 1
    BY SMTT(30), <1>1, <1>2, <2>2, <2>3
  <2> QED
    BY <2>3, <2>4 DEF o
<1>4. CASE ~m.isSelection
  <2>1. PICK dir \in Directions : m = Swap(dir)
    BY <1>4, MoveTypes
  <2>2. CheckStep(sim, m).remain = sim.remain
    BY <2>1, SwapStep
  <2>3. /\ Keeps(base, o, CheckStep(sim, m))
        /\ Len(o.ans) + Simulated(base, o.ans).remain
             <= Len(opt.ans) + Simulated(base, opt.ans).remain + 1
    BY <2>1, KeepsSwap
  <2> HIDE DEF o
  <2>4. Len(o.ans) + Simulated(base, o.ans).remain + sim.remain
          <= Len(opt.ans) + Simulated(base, opt.ans).remain + CheckStep(sim, m).remain + 1
    BY <1>1, <1>2, <2>2, <2>3
  <2> QED
    BY <2>3, <2>4 DEF o
<1> QED
  BY <1>3, <1>4

\* optimize() of any answer: a play without errors stays one and ends on the
\* same board, and it has neither more selections nor more swaps.
THEOREM OptimizeSound ==
  ASSUME NEW base \in PlayStates, base.valid, base.selected = NoPoint,
         NEW ans \in Seq(Moves), Simulated(base, ans).valid
  PROVE  /\ Optimize(ans) \in Seq(Moves)
         /\ Simulated(base, Optimize(ans)).valid
         /\ Simulated(base, Optimize(ans)).cell = Simulated(base, ans).cell
         /\ SelectionCount(Optimize(ans)) <= SelectionCount(ans)
         /\ SwapCount(Optimize(ans)) <= SwapCount(ans)
<1>1. CASE ans = <<>>
  <2>1. Optimize(ans) = ans
    BY <1>1 DEF Optimize
  <2>2. SelectionCount(ans) \in Nat /\ Len(ans) \in Nat
        /\ SwapCount(ans) = Len(ans) - SelectionCount(ans)
    BY MovesCounted, LenProperties
  <2> QED
    BY <2>1, <2>2
<1>2. CASE ans # <<>>
  <2> DEFINE n     == Len(ans)
             first == Head(ans)
             tail  == Tail(ans)
  <2>1. /\ n \in Nat \ {0} /\ DOMAIN ans = 1 .. n /\ \A i \in 1 .. n : ans[i] \in Moves
    BY <1>2, LenProperties, ElementOfSeq, EmptySeq
  <2>2. /\ first = ans[1] /\ tail \in Seq(Moves) /\ Len(tail) = n - 1
        /\ \A i \in 1 .. n - 1 : tail[i] = ans[i + 1]
    BY <1>2, HeadTailProperties
  <2>3. Optimize(ans) = OptimizeEnd(Optimized(OptimizeBegin(first), tail))
    BY <1>2 DEF Optimize, Optimized
  <2> HIDE DEF n, first, tail
  <2>4. PICK h : CheckSteps(h, base, ans, n) /\ Simulated(base, ans) = h[n]
    BY <2>1, CheckFold
  <2>5. \A k \in 0 .. n : h[k] \in PlayStates /\ h[k].valid
    BY <2>4, ValidPrefix DEF n
  <2>6. DOMAIN tail = 1 .. n - 1 /\ n - 1 \in Nat
    BY <2>1, <2>2, LenProperties
  <2>7. PICK g : /\ OptimizeSteps(g, OptimizeBegin(first), tail, n - 1)
                 /\ Optimized(OptimizeBegin(first), tail) = g[n - 1]
    BY <2>6, OptimizeFold
  <2>8. h[0] = base /\ \A i \in 1 .. n : h[i] = CheckStep(h[i - 1], ans[i])
    BY <2>4 DEF CheckSteps
  <2>9. g[0] = OptimizeBegin(first) /\ \A i \in 1 .. n - 1 : g[i] = OptimizeStep(g[i - 1], tail[i])
    BY <2>7 DEF OptimizeSteps
  <2>10. h[1] = CheckStep(base, first) /\ h[1].valid /\ first \in Moves
    <3>1. 1 \in 1 .. n /\ 1 - 1 = 0 /\ 1 \in 0 .. n
      BY <2>1
    <3> QED
      BY <2>1, <2>2, <2>5, <2>8, <3>1
  <2>11. PICK p \in Points : first = Selection(p)
    <3>1. SUFFICES ASSUME ~first.isSelection PROVE FALSE
      BY <2>10, MoveTypes
    <3>2. PICK dir \in Directions : first = Swap(dir)
      BY <2>10, <3>1, MoveTypes
    <3>3. NoPoint \notin Points
      BY SizeAssumption DEF NoPoint, Points
    <3> QED
      BY <2>10, <3>2, <3>3, Swapping
  <2> DEFINE Good(k) ==
               /\ Keeps(base, g[k], h[k + 1])
               /\ Len(g[k].ans) + Simulated(base, g[k].ans).remain <= (k + 1) + h[k + 1].remain
             T == {k \in Nat : k <= n - 1 => Good(k)}
  <2>12. 0 \in T
    <3>1. /\ Keeps(base, g[0], h[1]) /\ Len(g[0].ans) = 1
          /\ Simulated(base, g[0].ans) = h[1]
      BY <2>9, <2>10, <2>11, BeginKeeps
    <3>2. h[1].remain \in Nat
      BY <2>1, <2>5 DEF PlayStates
    <3>3. 0 + 1 = 1
      OBVIOUS
    <3>4. Len(g[0].ans) + Simulated(base, g[0].ans).remain <= 1 + h[1].remain
      BY <3>1, <3>2
    <3> QED
      BY <3>1, <3>3, <3>4
  <2>13. ASSUME NEW k \in T PROVE k + 1 \in T
    <3> DEFINE opt == g[k]
               o   == g[k + 1]
               sim == h[k + 1]
               s   == h[(k + 1) + 1]
               m   == ans[(k + 1) + 1]
    <3>1. SUFFICES ASSUME k + 1 <= n - 1 PROVE Good(k + 1)
      OBVIOUS
    <3>2. k \in Nat /\ Good(k)
      BY <2>1, <3>1
    <3>3. /\ k + 1 \in 1 .. n - 1 /\ (k + 1) - 1 = k /\ k + 1 \in 0 .. n
          /\ (k + 1) + 1 \in 1 .. n /\ (k + 1) + 1 \in 0 .. n /\ ((k + 1) + 1) - 1 = k + 1
      BY <2>1, <3>1, <3>2
    <3>4. o = OptimizeStep(opt, m) /\ s = CheckStep(sim, m) /\ m \in Moves
      <4>1. g[k + 1] = OptimizeStep(g[(k + 1) - 1], tail[k + 1]) /\ tail[k + 1] = m
        BY <2>2, <2>9, <3>3
      <4>2. s = CheckStep(h[((k + 1) + 1) - 1], m) /\ m \in Moves
        BY <2>1, <2>8, <3>3
      <4> QED
        BY <3>3, <4>1, <4>2
    <3>5. sim \in PlayStates /\ sim.valid /\ s \in PlayStates /\ s.valid
      BY <2>5, <3>3
    <3>6. /\ Keeps(base, opt, sim)
          /\ Len(opt.ans) + Simulated(base, opt.ans).remain <= (k + 1) + sim.remain
      BY <3>2
    <3> HIDE DEF T, opt, o, sim, s, m
    <3>7. /\ Keeps(base, o, s)
          /\ Len(o.ans) + Simulated(base, o.ans).remain + sim.remain
               <= Len(opt.ans) + Simulated(base, opt.ans).remain + s.remain + 1
      BY <3>4, <3>5, <3>6, KeepsMove
    <3>8. /\ Len(opt.ans) \in Nat /\ Simulated(base, opt.ans).remain \in Nat
          /\ Len(o.ans) \in Nat /\ Simulated(base, o.ans).remain \in Nat
          /\ sim.remain \in Nat /\ s.remain \in Nat
      <4>1. opt.ans \in Seq(Moves) /\ o.ans \in Seq(Moves)
        BY <3>6, <3>7 DEF Keeps, LoopInv
      <4>2. Simulated(base, opt.ans) \in PlayStates /\ Simulated(base, o.ans) \in PlayStates
        BY <4>1, SimulationType
      <4> QED
        BY <3>5, <4>1, <4>2, LenProperties DEF PlayStates
    <3>9. Len(o.ans) + Simulated(base, o.ans).remain <= ((k + 1) + 1) + s.remain
      <4>1. k \in Nat
        BY <3>2
      <4>2. ASSUME NEW a \in Nat, NEW b \in Nat, NEW c \in Nat, NEW d \in Nat, NEW e \in Nat,
                   NEW f \in Nat, a + b + c <= d + e + f + 1, d + e <= (k + 1) + c
            PROVE  a + b <= ((k + 1) + 1) + f
        BY ONLY <4>1, <4>2
      <4> QED
        BY ONLY <3>6, <3>7, <3>8, <4>2
    <3> QED
      BY <3>7, <3>9 DEF o, s
  <2>14. T = Nat
    <3>1. T \in SUBSET Nat
      OBVIOUS
    <3> HIDE DEF T
    <3> QED
      BY <2>12, <2>13, <3>1, SetInduction
  <2> DEFINE last == g[n - 1]
  <2>15. Keeps(base, last, h[n]) /\ Len(last.ans) + Simulated(base, last.ans).remain <= n + h[n].remain
    <3>1. n - 1 \in T /\ n - 1 <= n - 1 /\ (n - 1) + 1 = n
      <4> HIDE DEF T
      <4> QED
        BY <2>1, <2>6, <2>14
    <3>2. Good(n - 1)
      BY <3>1
    <3> QED
      BY <3>1, <3>2
  <2> HIDE DEF last
  <2> DEFINE end == Optimize(ans)
  <2>16. LoopInv(last) /\ SameEnd(base, last.ans, h[n]) /\ last.ans \in Seq(Moves)
    BY <2>15 DEF Keeps, LoopInv
  <2>17. /\ Simulated(base, last.ans).valid /\ Simulated(base, last.ans).cell = h[n].cell
         /\ Simulated(base, last.ans).remain >= h[n].remain
    BY <2>16 DEF SameEnd
  <2>18. end = OptimizeEnd(last)
    BY <2>3, <2>7 DEF last
  <2> HIDE DEF end
  <2>19. /\ end \in Seq(Moves) /\ Simulated(base, end).valid
         /\ Simulated(base, end).cell = Simulated(base, last.ans).cell
         /\ Len(end) + Simulated(base, end).remain <= Len(last.ans) + Simulated(base, last.ans).remain
         /\ Simulated(base, end).remain >= Simulated(base, last.ans).remain
    BY <2>16, <2>17, <2>18, EndKeeps
  <2>20. /\ SelectionCount(end) = base.remain - Simulated(base, end).remain
         /\ SelectionCount(ans) = base.remain - Simulated(base, ans).remain
         /\ SwapCount(end) = Len(end) - SelectionCount(end)
         /\ SwapCount(ans) = Len(ans) - SelectionCount(ans)
    BY <2>19, SelectionsCounted, MovesCounted
  <2>21. /\ base.remain \in Nat /\ Len(end) \in Nat /\ Simulated(base, end).remain \in Nat
         /\ Len(last.ans) \in Nat /\ Simulated(base, last.ans).remain \in Nat
         /\ h[n].remain \in Nat
    <3>1. Simulated(base, end) \in PlayStates /\ Simulated(base, last.ans) \in PlayStates /\ h[n] \in PlayStates
      BY <2>1, <2>5, <2>16, <2>19, SimulationType
    <3> QED
      BY <2>16, <2>19, <3>1, LenProperties DEF PlayStates
  <2>22. Simulated(base, end).cell = Simulated(base, ans).cell
    BY <2>4, <2>17, <2>19
  <2>23. Len(ans) = n /\ Simulated(base, ans).remain = h[n].remain
    BY <2>4 DEF n
  <2>24. SelectionCount(end) <= SelectionCount(ans)
    BY <2>17, <2>19, <2>20, <2>21, <2>23
  <2>25. SwapCount(end) <= SwapCount(ans)
    <3>1. n \in Nat
      BY <2>1
    <3>2. ASSUME NEW b \in Nat, NEW e \in Nat, NEW re \in Nat, NEW l \in Nat, NEW rl \in Nat,
                 NEW rn \in Nat, e + re <= l + rl, l + rl <= n + rn
          PROVE  e - (b - re) <= n - (b - rn)
      BY ONLY <3>1, <3>2
    <3>3. Len(end) - (base.remain - Simulated(base, end).remain) <= n - (base.remain - h[n].remain)
      BY ONLY <3>2, <2>15, <2>19, <2>21
    <3> QED
      BY ONLY <3>3, <2>20, <2>23
  <2> QED
    BY <2>19, <2>22, <2>24, <2>25 DEF end
<1> QED
  BY <1>1, <1>2

\* What check() accepts, it accepts after optimize(), too.
THEOREM OptimizeCorrect ==
  ASSUME NEW cell \in Cells, NEW limit \in Nat, NEW ans \in Seq(Moves), Correct(cell, limit, ans)
  PROVE  /\ Correct(cell, limit, Optimize(ans))
         /\ SelectionCount(Optimize(ans)) <= SelectionCount(ans)
         /\ SwapCount(Optimize(ans)) <= SwapCount(ans)
<1> DEFINE base == CheckBegin(cell, limit)
<1>1. base \in PlayStates /\ base.valid /\ base.selected = NoPoint
  BY DEF CheckBegin, PlayStates
<1> HIDE DEF base
<1>2. \A a : Correct(cell, limit, a) <=> Simulated(base, a).valid /\ Aligned(Simulated(base, a).cell)
  BY DEF Correct, Simulate, Simulated, base
<1> QED
  BY <1>1, <1>2, OptimizeSound

-----------------------------------------------------------------------------
(* Sums over a finite set.                                                 *)

\* The element that the fold of a set takes first.
AnyOf(s) == CHOOSE x \in s : TRUE

\* The function that the fold defines by recursion, for the sum of f.
Summing(it, f, S) ==
  it = [s \in SUBSET S |-> IF s = {} THEN 0 ELSE f[AnyOf(s)] + it[s \ {AnyOf(s)}]]

\* The recursion behind a sum over a finite set has a solution, by induction on its
\* size.
LEMMA SummingExists ==
  ASSUME NEW S, IsFiniteSet(S), NEW f
  PROVE  \E it : Summing(it, f, S)
<1> DEFINE Upto(k) == {s \in SUBSET S : Cardinality(s) <= k}
           Part(it, k) == it = [s \in Upto(k) |->
                                  IF s = {} THEN 0 ELSE f[AnyOf(s)] + it[s \ {AnyOf(s)}]]
           K == {k \in Nat : \E it : Part(it, k)}
<1>1. \A s \in SUBSET S :
        /\ IsFiniteSet(s) /\ Cardinality(s) \in Nat /\ (Cardinality(s) = 0 <=> s = {})
        /\ s # {} => /\ s \ {AnyOf(s)} \in SUBSET S
                     /\ Cardinality(s \ {AnyOf(s)}) = Cardinality(s) - 1
  <2> TAKE s \in SUBSET S
  <2>1. IsFiniteSet(s) /\ Cardinality(s) \in Nat /\ (Cardinality(s) = 0 <=> s = {})
    BY FS_Subset, FS_CardinalityType, FS_EmptySet
  <2>2. s # {} => AnyOf(s) \in s
    BY DEF AnyOf
  <2>3. s # {} => Cardinality(s \ {AnyOf(s)}) = Cardinality(s) - 1
    BY <2>1, <2>2, FS_RemoveElement
  <2> QED
    BY <2>1, <2>3
<1>2. 0 \in K
  <2>1. Upto(0) = {{}}
    <3>1. {} \in Upto(0)
      BY FS_EmptySet
    <3>2. ASSUME NEW s \in Upto(0) PROVE s = {}
      <4>1. s \in SUBSET S /\ Cardinality(s) <= 0
        OBVIOUS
      <4> HIDE DEF Upto
      <4>2. Cardinality(s) \in Nat /\ (Cardinality(s) = 0 <=> s = {})
        BY <1>1, <4>1
      <4>3. Cardinality(s) = 0
        BY ONLY <4>1, <4>2
      <4> QED
        BY ONLY <4>2, <4>3
    <3> HIDE DEF Upto
    <3> QED
      BY <3>1, <3>2
  <2>2. Part([s \in Upto(0) |-> 0], 0)
    <3> HIDE DEF Upto
    <3> QED
      BY <2>1
  <2> QED
    BY <2>2
<1>3. ASSUME NEW k \in K PROVE k + 1 \in K
  <2>1. k \in Nat
    OBVIOUS
  <2>2. PICK it : Part(it, k)
    OBVIOUS
  <2> DEFINE new == [s \in Upto(k + 1) |->
                       IF s \in Upto(k) THEN it[s] ELSE f[AnyOf(s)] + it[s \ {AnyOf(s)}]]
             rhs == [s \in Upto(k + 1) |->
                       IF s = {} THEN 0 ELSE f[AnyOf(s)] + new[s \ {AnyOf(s)}]]
  <2>3. {} \in Upto(k) /\ \A s \in Upto(k) : s \in Upto(k + 1)
    <3>1. ASSUME NEW s \in SUBSET S, Cardinality(s) <= k PROVE Cardinality(s) <= k + 1
      <4> HIDE DEF Upto
      <4>1. Cardinality(s) \in Nat
        BY <1>1
      <4> QED
        BY <2>1, <3>1, <4>1
    <3>2. {} \in SUBSET S /\ Cardinality({}) <= k
      BY <2>1, FS_EmptySet
    <3> QED
      BY <3>1, <3>2
  <2>4. \A s \in Upto(k + 1) : s # {} => s \ {AnyOf(s)} \in Upto(k)
    BY <1>1, <2>1
  <2> HIDE DEF Upto
  <2>5. ASSUME NEW s \in Upto(k + 1) PROVE new[s] = rhs[s]
    <3>1. CASE s = {}
      BY <2>2, <2>3, <3>1
    <3>2. CASE s # {}
      <4> DEFINE t == s \ {AnyOf(s)}
      <4>1. t \in Upto(k) /\ t \in Upto(k + 1)
        BY <2>3, <2>4, <3>2
      <4> HIDE DEF t
      <4>2. new[t] = it[t]
        BY <4>1
      <4>3. s \in Upto(k) => it[s] = f[AnyOf(s)] + it[t]
        BY <2>2, <3>2 DEF t
      <4>4. s \notin Upto(k) => new[s] = f[AnyOf(s)] + it[t]
        BY DEF t
      <4>5. rhs[s] = f[AnyOf(s)] + new[t]
        BY <3>2 DEF t
      <4>6. s \in Upto(k) => new[s] = it[s]
        OBVIOUS
      <4> HIDE DEF new, rhs
      <4> QED
        BY <4>2, <4>3, <4>4, <4>5, <4>6
    <3> QED
      BY <3>1, <3>2
  <2>6. new = rhs
    <3>1. /\ DOMAIN new = DOMAIN rhs
          /\ new = [s \in DOMAIN new |-> new[s]]
          /\ rhs = [s \in DOMAIN rhs |-> rhs[s]]
      OBVIOUS
    <3>2. \A s \in DOMAIN new : new[s] = rhs[s]
      BY <2>5
    <3> HIDE DEF new, rhs
    <3> QED
      BY <3>1, <3>2
  <2>7. \E i : Part(i, k + 1)
    BY <2>6
  <2> QED
    BY <2>1, <2>7
<1>4. K = Nat
  <2>1. K \in SUBSET Nat
    OBVIOUS
  <2> HIDE DEF K
  <2> QED
    BY <1>2, <1>3, <2>1, SetInduction
<1> DEFINE n == Cardinality(S)
<1>5. n \in Nat
  BY FS_CardinalityType
<1>6. Upto(n) = SUBSET S
  <2>1. \A s \in SUBSET S : Cardinality(s) <= n
    BY FS_Subset
  <2> QED
    BY <2>1
<1> HIDE DEF n
<1>7. PICK it : Part(it, n)
  BY <1>4, <1>5
<1> HIDE DEF Upto
<1> QED
  BY <1>6, <1>7 DEF Summing

\* A sum does not depend on the order of its elements.
Sums(it, f, S) ==
  /\ it[{}] = 0
  /\ \A s \in SUBSET S : it[s] \in Int
  /\ \A s \in SUBSET S : \A x \in s : it[s] = f[x] + it[s \ {x}]

\* The order in which a sum takes its elements does not matter.
LEMMA SummingSums ==
  ASSUME NEW S, IsFiniteSet(S), NEW f, \A x \in S : f[x] \in Int, NEW it, Summing(it, f, S)
  PROVE  Sums(it, f, S)
<1>1. it[{}] = 0
  BY DEF Summing
<1>2. \A s \in SUBSET S : s # {} => /\ AnyOf(s) \in s
                                    /\ it[s] = f[AnyOf(s)] + it[s \ {AnyOf(s)}]
  BY DEF Summing, AnyOf
<1> DEFINE P == {s \in SUBSET S : it[s] \in Int /\ \A x \in s : it[s] = f[x] + it[s \ {x}]}
<1>3. ASSUME NEW s \in SUBSET S, \A t \in SUBSET s : t # s => t \in P
      PROVE  s \in P
  <2>1. CASE s = {}
    BY <1>1, <2>1
  <2>2. CASE s # {}
    <3> DEFINE p == AnyOf(s)
    <3>1. p \in s /\ it[s] = f[p] + it[s \ {p}]
      BY <1>2, <2>2
    <3> HIDE DEF p
    <3>2. \A x \in s : s \ {x} \in P
      BY <1>3
    <3>3. it[s] \in Int
      <4>1. f[p] \in Int /\ it[s \ {p}] \in Int
        BY <3>1, <3>2
      <4> QED
        BY ONLY <3>1, <4>1
    <3>4. ASSUME NEW x \in s, x # p PROVE it[s] = f[x] + it[s \ {x}]
      <4> DEFINE r == (s \ {p}) \ {x}
      <4>1. r = (s \ {x}) \ {p} /\ x \in s \ {p} /\ p \in s \ {x} /\ r \in SUBSET s /\ r # s
        BY <3>1, <3>4
      <4> HIDE DEF r
      <4>2. it[s \ {p}] = f[x] + it[r]
        BY <3>1, <3>2, <4>1 DEF r
      <4>3. it[s \ {x}] = f[p] + it[r]
        BY <3>2, <4>1
      <4>4. it[r] \in Int /\ f[x] \in Int /\ f[p] \in Int
        BY <1>3, <3>1, <4>1
      <4> QED
        BY <3>1, <4>2, <4>3, <4>4
    <3> QED
      BY <3>1, <3>3, <3>4
  <2> QED
    BY <2>1, <2>2
<1>4. P = SUBSET S
  <2>1. P \in SUBSET (SUBSET S)
    OBVIOUS
  <2> HIDE DEF P
  <2> QED
    BY <1>3, <2>1, SubsetInduction
<1> QED
  BY <1>1, <1>4 DEF Sums

\* Sums of what is the same are the same.
LEMMA SumsAgree ==
  ASSUME NEW S, NEW T, NEW U, IsFiniteSet(U), U \subseteq S, U \subseteq T,
         NEW f, NEW g, \A x \in U : f[x] = g[x],
         NEW it, Sums(it, f, S), NEW jt, Sums(jt, g, T)
  PROVE  it[U] = jt[U]
<1> DEFINE P == {s \in SUBSET U : it[s] = jt[s]}
<1>1. ASSUME NEW s \in SUBSET U, \A t \in SUBSET s : t # s => t \in P
      PROVE  s \in P
  <2>1. CASE s = {}
    BY <2>1 DEF Sums
  <2>2. CASE s # {}
    <3>1. PICK x \in s : TRUE
      BY <2>2
    <3>2. s \ {x} \in P
      BY <1>1
    <3>3. it[s] = f[x] + it[s \ {x}] /\ jt[s] = g[x] + jt[s \ {x}] /\ f[x] = g[x]
      BY DEF Sums
    <3> QED
      BY <3>2, <3>3
  <2> QED
    BY <2>1, <2>2
<1>2. P = SUBSET U
  <2>1. P \in SUBSET (SUBSET U)
    OBVIOUS
  <2> HIDE DEF P
  <2> QED
    BY <1>1, <2>1, SubsetInduction
<1> QED
  BY <1>2

-----------------------------------------------------------------------------
(* Distances.                                                              *)

\* The way the pieces in S have to go.
DistanceSum(cell, S) == MapThenSumSet(LAMBDA p : Distance(p, cell[p]), S)

\* The distance of every piece, at the cell where it is.
Distances(cell) == [p \in Points |-> Distance(p, cell[p])]

\* The cells are finitely many.
LEMMA PointsFinite == IsFiniteSet(Points) /\ \A S \in SUBSET Points : IsFiniteSet(S)
<1>1. IsFiniteSet(0 .. Height - 1) /\ IsFiniteSet(0 .. Width - 1)
  BY SizeAssumption, FS_Interval
<1>2. IsFiniteSet(Points)
  BY <1>1, FS_Product DEF Points
<1> QED
  BY <1>2, FS_Subset

\* An injective function from the points to the points reaches them all.
LEMMA BoardFacts ==
  ASSUME NEW cell \in Boards
  PROVE  /\ cell \in Cells /\ cell \in [Points -> Points]
         /\ \A p, q \in Points : cell[p] = cell[q] => p = q
         /\ \A p \in Points : \E q \in Points : cell[q] = p
<1>1. cell \in [Points -> Points] /\ \A p, q \in Points : cell[p] = cell[q] => p = q
  BY DEF Boards, IsInjective
<1>2. cell \in Injection(Points, Points)
  BY <1>1 DEF IsInjective, Injection
<1>3. cell \in Surjection(Points, Points)
  BY <1>2, PointsFinite, FS_Injection
<1> QED
  BY <1>1, <1>3 DEF Surjection, Cells

\* A swap keeps the board a permutation.
LEMMA SwappedBoards ==
  ASSUME NEW cell \in Boards, NEW p \in Points, NEW q \in Points
  PROVE  Swapped(cell, p, q) \in Boards /\ Swapped(cell, p, q)[q] = cell[p]
<1>1. cell \in Cells /\ \A x, y \in Points : cell[x] = cell[y] => x = y
  BY BoardFacts
<1> DEFINE new == Swapped(cell, p, q)
<1>2. /\ new \in Cells
      /\ \A x \in Points : new[x] = IF x = q THEN cell[p] ELSE IF x = p THEN cell[q] ELSE cell[x]
  BY <1>1, SwappedCells
<1> HIDE DEF new
<1>3. \A x, y \in Points : new[x] = new[y] => x = y
  BY <1>1, <1>2
<1>4. new \in Boards
  BY <1>2, <1>3 DEF Boards, IsInjective, Cells
<1> QED
  BY <1>2, <1>4 DEF new

\* The distance of two cells.
LEMMA DistanceType ==
  ASSUME NEW p \in Points, NEW q \in Points
  PROVE  Distance(p, q) \in Nat /\ (Distance(p, q) = 0 <=> p = q)
<1>1. /\ p[1] \in Int /\ p[2] \in Int /\ q[1] \in Int /\ q[2] \in Int
      /\ p = <<p[1], p[2]>> /\ q = <<q[1], q[2]>>
  BY SizeAssumption DEF Points
<1>2. \A i \in Int : Absolute(i) \in Nat /\ (Absolute(i) = 0 <=> i = 0)
  BY DEF Absolute
<1> DEFINE a == p[1] - q[1]
           b == p[2] - q[2]
<1>3. a \in Int /\ b \in Int /\ (a = 0 /\ b = 0 <=> p = q)
  <2>1. a \in Int /\ b \in Int /\ (a = 0 <=> p[1] = q[1]) /\ (b = 0 <=> p[2] = q[2])
    BY <1>1
  <2>2. p[1] = q[1] /\ p[2] = q[2] <=> p = q
    BY <1>1, Zenon
  <2> QED
    BY <2>1, <2>2
<1> HIDE DEF a, b
<1>4. Distance(p, q) = Absolute(a) + Absolute(b)
  BY DEF Distance, a, b
<1> QED
  BY <1>2, <1>3, <1>4

\* What DistanceSum is: a sum of the distances.
LEMMA DistanceSumIs ==
  ASSUME NEW cell \in Cells, NEW S \in SUBSET Points
  PROVE  \E it : Sums(it, Distances(cell), S) /\ DistanceSum(cell, S) = it[S]
<1> DEFINE Iterating(it) ==
             it = [s \in SUBSET S |->
                     IF s = {} THEN 0
                     ELSE Distance(AnyOf(s), cell[AnyOf(s)]) + it[s \ {AnyOf(s)}]]
<1>1. DistanceSum(cell, S) = (CHOOSE it : Iterating(it))[S]
  BY DEF DistanceSum, MapThenSumSet, MapThenFoldSet, AnyOf
<1>2. \A it : Iterating(it) <=> Summing(it, Distances(cell), S)
  <2> SUFFICES ASSUME NEW it PROVE Iterating(it) <=> Summing(it, Distances(cell), S)
    OBVIOUS
  <2>1. \A s \in SUBSET S : s # {} =>
           Distances(cell)[AnyOf(s)] = Distance(AnyOf(s), cell[AnyOf(s)])
    BY DEF Distances, AnyOf
  <2> QED
    BY <2>1 DEF Summing
<1>3. IsFiniteSet(S)
  BY PointsFinite
<1> HIDE DEF Iterating
<1>4. PICK it : Summing(it, Distances(cell), S) /\ DistanceSum(cell, S) = it[S]
  BY <1>1, <1>2, <1>3, SummingExists
<1>5. \A x \in S : Distances(cell)[x] \in Int
  BY DistanceType DEF Distances, Cells
<1> QED
  BY <1>3, <1>4, <1>5, SummingSums

\* One piece less.
LEMMA DistanceSumLess ==
  ASSUME NEW cell \in Cells, NEW S \in SUBSET Points, NEW p \in S
  PROVE  DistanceSum(cell, S) = Distance(p, cell[p]) + DistanceSum(cell, S \ {p})
<1> DEFINE R == S \ {p}
           f == Distances(cell)
<1>1. PICK it : Sums(it, f, S) /\ DistanceSum(cell, S) = it[S]
  BY DistanceSumIs
<1>2. PICK jt : Sums(jt, f, R) /\ DistanceSum(cell, R) = jt[R]
  BY DistanceSumIs
<1>3. it[S] = f[p] + it[R]
  BY <1>1 DEF Sums
<1>4. IsFiniteSet(R) /\ R \subseteq S
  BY PointsFinite
<1>5. f[p] = Distance(p, cell[p])
  BY DEF Distances
<1> HIDE DEF R, f
<1>6. it[R] = jt[R]
  BY <1>1, <1>2, <1>4, SumsAgree
<1> QED
  BY <1>1, <1>2, <1>3, <1>5, <1>6 DEF R

\* Where the pieces are the same, the sums are.
LEMMA DistanceSumSame ==
  ASSUME NEW cell \in Cells, NEW cells \in Cells, NEW S \in SUBSET Points,
         \A p \in S : cell[p] = cells[p]
  PROVE  DistanceSum(cell, S) = DistanceSum(cells, S)
<1> DEFINE f == Distances(cell)
           g == Distances(cells)
<1>1. PICK it : Sums(it, f, S) /\ DistanceSum(cell, S) = it[S]
  BY DistanceSumIs
<1>2. PICK jt : Sums(jt, g, S) /\ DistanceSum(cells, S) = jt[S]
  BY DistanceSumIs
<1>3. \A x \in S : f[x] = g[x]
  BY DEF Distances
<1>4. IsFiniteSet(S)
  BY PointsFinite
<1> HIDE DEF f, g
<1>5. it[S] = jt[S]
  BY <1>1, <1>2, <1>3, <1>4, SumsAgree
<1> QED
  BY <1>1, <1>2, <1>5

\* A sum of distances is a natural number.
LEMMA DistanceSumType ==
  ASSUME NEW cell \in Cells, NEW S \in SUBSET Points
  PROVE  DistanceSum(cell, S) \in Nat
<1> DEFINE P == {s \in SUBSET S : DistanceSum(cell, s) \in Nat}
<1>1. ASSUME NEW s \in SUBSET S, \A t \in SUBSET s : t # s => t \in P
      PROVE  s \in P
  <2>1. CASE s = {}
    <3>1. PICK it : Sums(it, Distances(cell), {}) /\ DistanceSum(cell, {}) = it[{}]
      BY DistanceSumIs
    <3> QED
      BY <2>1, <3>1 DEF Sums
  <2>2. CASE s # {}
    <3>1. PICK x \in s : TRUE
      BY <2>2
    <3>2. DistanceSum(cell, s \ {x}) \in Nat
      BY <1>1
    <3>3. DistanceSum(cell, s) = Distance(x, cell[x]) + DistanceSum(cell, s \ {x})
      BY DistanceSumLess
    <3>4. Distance(x, cell[x]) \in Nat
      BY DistanceType DEF Cells
    <3> QED
      BY <3>2, <3>3, <3>4
  <2> QED
    BY <2>1, <2>2
<1>2. P = SUBSET S
  <2>1. P \in SUBSET (SUBSET S) /\ IsFiniteSet(S)
    BY PointsFinite
  <2> HIDE DEF P
  <2> QED
    BY <1>1, <2>1, SubsetInduction
<1> QED
  BY <1>2

\* Nothing is left to go only when every piece is at home.
LEMMA DistanceSumZero ==
  ASSUME NEW cell \in Cells, NEW S \in SUBSET Points
  PROVE  DistanceSum(cell, S) = 0 => \A p \in S : cell[p] = p
<1> SUFFICES ASSUME DistanceSum(cell, S) = 0, NEW p \in S PROVE cell[p] = p
  OBVIOUS
<1>1. 0 = Distance(p, cell[p]) + DistanceSum(cell, S \ {p})
  BY DistanceSumLess
<1>2. Distance(p, cell[p]) \in Nat /\ DistanceSum(cell, S \ {p}) \in Nat /\ cell[p] \in Points
  BY DistanceType, DistanceSumType DEF Cells
<1>3. Distance(p, cell[p]) = 0
  BY <1>1, <1>2
<1> QED
  BY <1>2, <1>3, DistanceType

=============================================================================
