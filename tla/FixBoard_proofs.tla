-------------------------- MODULE FixBoard_proofs ---------------------------
(***************************************************************************)
(* Proofs about FixBoard for boards of any size: walks lead where they are *)
(* said to lead, the searches for a way end and find the shortest ones (on *)
(* boards where their distances fit into a char), and a piece that is      *)
(* carried arrives, wherever there is a way for it, without a move of a    *)
(* fixed piece.                                                            *)
(***************************************************************************)
EXTENDS FixBoardMoves, Answer_proofs

-----------------------------------------------------------------------------
(* Loops: what a recursive function on the natural numbers is.             *)

\* g holds the first n steps of the iteration that begins with s.
StepsFrom(g, F, s, n) == g[0] = s /\ \A k \in 0 .. n - 1 : g[k + 1] = F[k][g[k]]

\* However many steps, there is one that takes them.
LEMMA PrefixExists ==
  ASSUME NEW S, NEW F \in [Nat -> [S -> S]], NEW s \in S
  PROVE  \A n \in Nat : \E g \in [0 .. n -> S] : StepsFrom(g, F, s, n)
<1> DEFINE P == {n \in Nat : \E g \in [0 .. n -> S] : StepsFrom(g, F, s, n)}
<1>1. 0 \in P
  <2>1. [k \in 0 .. 0 |-> s] \in [0 .. 0 -> S] /\ StepsFrom([k \in 0 .. 0 |-> s], F, s, 0)
    BY DEF StepsFrom
  <2> QED
    BY <2>1
<1>2. ASSUME NEW n \in P PROVE n + 1 \in P
  <2>1. PICK g \in [0 .. n -> S] : StepsFrom(g, F, s, n)
    OBVIOUS
  <2> DEFINE h == [k \in 0 .. n + 1 |-> IF k = n + 1 THEN F[n][g[n]] ELSE g[k]]
  <2>2. n \in Nat /\ g[n] \in S /\ F[n][g[n]] \in S
    OBVIOUS
  <2>3. h \in [0 .. n + 1 -> S]
    BY <2>2
  <2>4. StepsFrom(h, F, s, n + 1)
    <3>1. h[0] = s
      BY <2>1, <2>2 DEF StepsFrom
    <3>2. ASSUME NEW k \in 0 .. n PROVE h[k + 1] = F[k][h[k]]
      <4>1. CASE k = n
        BY <2>2, <4>1
      <4>2. CASE k # n
        <5>1. k \in 0 .. n - 1 /\ h[k] = g[k] /\ h[k + 1] = g[k + 1]
          BY <2>2, <4>2
        <5> QED
          BY <2>1, <5>1 DEF StepsFrom
      <4> QED
        BY <4>1, <4>2
    <3> HIDE DEF h
    <3>3. (n + 1) - 1 = n
      BY <2>2
    <3> QED
      BY <3>1, <3>2, <3>3 DEF StepsFrom
  <2> HIDE DEF h
  <2> QED
    BY <2>2, <2>3, <2>4
<1>3. P = Nat
  <2> HIDE DEF P
  <2>1. P \in SUBSET Nat
    BY DEF P
  <2> QED
    BY <1>1, <1>2, <2>1, SetInduction
<1> QED
  BY <1>3

\* They all agree.
LEMMA PrefixesAgree ==
  ASSUME NEW F, NEW s, NEW m \in Nat, NEW n \in Nat, NEW g, NEW h,
         StepsFrom(g, F, s, m), StepsFrom(h, F, s, n)
  PROVE  \A k \in Nat : k <= m /\ k <= n => g[k] = h[k]
<1> DEFINE P == {k \in Nat : k <= m /\ k <= n => g[k] = h[k]}
<1>1. 0 \in P
  BY DEF StepsFrom
<1>2. ASSUME NEW k \in P PROVE k + 1 \in P
  <2> SUFFICES ASSUME k + 1 <= m, k + 1 <= n PROVE g[k + 1] = h[k + 1]
    OBVIOUS
  <2>1. k \in 0 .. m - 1 /\ k \in 0 .. n - 1
    OBVIOUS
  <2>2. g[k] = h[k]
    OBVIOUS
  <2> QED
    BY <2>1, <2>2 DEF StepsFrom
<1>3. P = Nat
  <2> HIDE DEF P
  <2>1. P \in SUBSET Nat
    BY DEF P
  <2> QED
    BY <1>1, <1>2, <2>1, SetInduction
<1> QED
  BY <1>3

\* An iteration without end.
IsIteration(it, S, F, s) ==
  it \in [Nat -> S] /\ it[0] = s /\ \A k \in Nat : it[k + 1] = F[k][it[k]]

\* However many steps a loop takes, there is a sequence of its states.
LEMMA Iteration ==
  ASSUME NEW S, NEW F \in [Nat -> [S -> S]], NEW s \in S
  PROVE  \E it : IsIteration(it, S, F, s)
<1> DEFINE G(n) == CHOOSE g \in [0 .. n -> S] : StepsFrom(g, F, s, n)
           it   == [n \in Nat |-> G(n)[n]]
<1>1. ASSUME NEW n \in Nat PROVE G(n) \in [0 .. n -> S] /\ StepsFrom(G(n), F, s, n)
  BY PrefixExists
<1> HIDE DEF G
<1>2. \A n \in Nat : it[n] = G(n)[n]
  OBVIOUS
<1>3. ASSUME NEW n \in Nat PROVE it[n] \in S
  <2>1. G(n) \in [0 .. n -> S] /\ n \in 0 .. n
    BY <1>1
  <2> QED
    BY <2>1
<1>4. it \in [Nat -> S]
  BY <1>3
<1>5. it[0] = s
  BY <1>1, <1>2 DEF StepsFrom
<1>6. ASSUME NEW k \in Nat PROVE it[k + 1] = F[k][it[k]]
  <2>1. StepsFrom(G(k), F, s, k) /\ StepsFrom(G(k + 1), F, s, k + 1)
    BY <1>1
  <2>2. G(k)[k] = G(k + 1)[k]
    BY <2>1, PrefixesAgree
  <2>3. G(k + 1)[k + 1] = F[k][G(k + 1)[k]]
    BY <2>1 DEF StepsFrom
  <2> QED
    BY <1>2, <2>2, <2>3
<1> HIDE DEF it
<1>7. IsIteration(it, S, F, s)
  BY <1>4, <1>5, <1>6 DEF IsIteration
<1> QED
  BY <1>7

\* One whose steps are all alike, and stay in a set S.
Preserves(f, S) == S \subseteq DOMAIN f /\ \A t \in S : f[t] \in S
IsLoop(it, S, f, s) == it \in [Nat -> S] /\ it[0] = s /\ \A k \in Nat : it[k + 1] = f[it[k]]

\* The same for a loop whose steps are all alike and stay in S.
LEMMA IterationOf ==
  ASSUME NEW S, NEW f, Preserves(f, S), NEW s \in S
  PROVE  \E it : IsLoop(it, S, f, s)
<1> DEFINE g == [t \in S |-> f[t]]
           F == [k \in Nat |-> g]
<1>0. g \in [S -> S] /\ \A t \in S : g[t] = f[t]
  BY DEF Preserves
<1> HIDE DEF g
<1>1. F \in [Nat -> [S -> S]] /\ \A k \in Nat : F[k] = g
  BY <1>0
<1> HIDE DEF F
<1>2. PICK it : IsIteration(it, S, F, s)
  BY <1>1, Iteration
<1>3. IsLoop(it, S, f, s)
  <2>1. it \in [Nat -> S] /\ it[0] = s /\ \A k \in Nat : it[k + 1] = g[it[k]]
    BY <1>1, <1>2 DEF IsIteration
  <2>2. \A k \in Nat : it[k] \in S
    BY <2>1
  <2> QED
    BY <1>0, <2>1, <2>2 DEF IsLoop
<1> QED
  BY <1>3

\* A loop whose rounds are all alike.
LEMMA TimesIs ==
  ASSUME NEW S, NEW f, Preserves(f, S), NEW s \in S
  PROVE  /\ Times(f, s, 0) = s
         /\ \A n \in Nat : Times(f, s, n) \in S /\ Times(f, s, n + 1) = f[Times(f, s, n)]
<1> DEFINE Is(at) == at = [k \in Nat |-> IF k = 0 THEN s ELSE f[at[k - 1]]]
           at     == CHOOSE x : Is(x)
<1>0. PICK it : IsLoop(it, S, f, s)
  BY IterationOf
<1>1. it \in [Nat -> S] /\ it[0] = s /\ \A k \in Nat : it[k + 1] = f[it[k]]
  BY <1>0 DEF IsLoop
<1>2. Is(it)
  <2>1. ASSUME NEW k \in Nat PROVE it[k] = IF k = 0 THEN s ELSE f[it[k - 1]]
    <3>1. CASE k # 0
      <4>1. k - 1 \in Nat /\ (k - 1) + 1 = k
        BY <3>1
      <4> QED
        BY <1>1, <3>1, <4>1
    <3> QED
      BY <1>1, <3>1
  <2>2. it = [k \in Nat |-> it[k]]
    BY <1>1
  <2> QED
    BY <2>1, <2>2
<1>3. Is(at)
  BY <1>2
<1>4. \A n : Times(f, s, n) = at[n]
  BY DEF Times
<1> HIDE DEF at
<1>5. at[0] = s
  BY <1>3
<1>6. ASSUME NEW n \in Nat PROVE at[n + 1] = f[at[n]]
  <2>1. n + 1 \in Nat /\ n + 1 # 0 /\ (n + 1) - 1 = n
    OBVIOUS
  <2> QED
    BY <1>3, <2>1
<1>7. \A n \in Nat : at[n] \in S
  <2> DEFINE P == {n \in Nat : at[n] \in S}
  <2>1. P \in SUBSET Nat /\ 0 \in P /\ \A n \in P : n + 1 \in P
    BY <1>5, <1>6 DEF Preserves
  <2> HIDE DEF P
  <2>2. P = Nat
    BY <2>1, SetInduction
  <2> QED
    BY <2>2 DEF P
<1> QED
  BY <1>4, <1>5, <1>6, <1>7

\* First m rounds, then n more.
LEMMA TimesAdd ==
  ASSUME NEW S, NEW f, Preserves(f, S), NEW s \in S, NEW m \in Nat
  PROVE  \A n \in Nat : Times(f, Times(f, s, m), n) = Times(f, s, m + n)
<1> DEFINE P == {n \in Nat : Times(f, Times(f, s, m), n) = Times(f, s, m + n)}
           t == Times(f, s, m)
<1>1. t \in S
  BY TimesIs
<1> HIDE DEF t
<1>6. /\ Times(f, t, 0) = t /\ \A n \in Nat : Times(f, t, n + 1) = f[Times(f, t, n)]
      /\ \A n \in Nat : Times(f, s, n + 1) = f[Times(f, s, n)]
  BY <1>1, TimesIs
<1> USE DEF t
<1>2. 0 \in P
  BY <1>6
<1>3. ASSUME NEW n \in P PROVE n + 1 \in P
  <2>1. n \in Nat /\ m + n \in Nat /\ m + (n + 1) = (m + n) + 1
    OBVIOUS
  <2>2. Times(f, t, n + 1) = f[Times(f, t, n)] /\ Times(f, s, (m + n) + 1) = f[Times(f, s, m + n)]
    BY <1>6, <2>1
  <2> QED
    BY <2>1, <2>2
<1>4. P \in SUBSET Nat
  OBVIOUS
<1> HIDE DEF P
<1>5. P = Nat
  BY <1>2, <1>3, <1>4, SetInduction
<1> QED
  BY <1>5 DEF P

\* The batches make no difference.
LEMMA RoundsAre ==
  ASSUME NEW S, NEW f, Preserves(f, S), NEW s \in S, NEW n \in Nat
  PROVE  Rounds(f, s, n) = Times(f, s, n)
<1> DEFINE batch == [t \in DOMAIN f |-> Times(f, t, 16)]
<1>0. \A t \in S : batch[t] = Times(f, t, 16)
  BY DEF Preserves
<1>1. Preserves(batch, S)
  <2>1. \A t \in S : Times(f, t, 16) \in S
    BY TimesIs
  <2> QED
    BY <1>0, <2>1 DEF Preserves
<1>2. Rounds(f, s, n) = Times(f, Times(batch, s, n \div 16), n % 16)
  BY DEF Rounds
<1> HIDE DEF batch
<1> DEFINE P == {k \in Nat : Times(batch, s, k) = Times(f, s, 16 * k)}
<1>3. 0 \in P
  <2>1. Times(batch, s, 0) = s /\ Times(f, s, 16 * 0) = s
    BY <1>1, TimesIs
  <2> QED
    BY <2>1
<1>4. ASSUME NEW k \in P PROVE k + 1 \in P
  <2>1. k \in Nat /\ 16 * k \in Nat /\ 16 * (k + 1) = 16 * k + 16 /\ 16 \in Nat
    OBVIOUS
  <2>2. Times(batch, s, k + 1) = batch[Times(batch, s, k)]
    BY ONLY <1>1, <2>1, s \in S, TimesIs
  <2>3. Times(f, s, 16 * k) \in S
    BY <2>1, TimesIs
  <2>4. Times(f, Times(f, s, 16 * k), 16) = Times(f, s, 16 * k + 16)
    BY <2>1, TimesAdd
  <2> QED
    BY <1>0, <2>1, <2>2, <2>3, <2>4
<1>5. P \in SUBSET Nat
  OBVIOUS
<1> HIDE DEF P
<1>6. P = Nat
  BY <1>3, <1>4, <1>5, SetInduction
<1>7. n \div 16 \in Nat /\ n % 16 \in Nat /\ 16 * (n \div 16) + (n % 16) = n
  OBVIOUS
<1> DEFINE d == n \div 16
           r == n % 16
<1>8. d \in Nat /\ r \in Nat /\ 16 * d \in Nat /\ 16 * d + r = n
  BY <1>7
<1>9. Rounds(f, s, n) = Times(f, Times(batch, s, d), r)
  BY <1>2
<1> HIDE DEF d, r
<1>10. Times(batch, s, d) = Times(f, s, 16 * d)
  BY <1>6, <1>8 DEF P
<1>11. Times(f, Times(f, s, 16 * d), r) = Times(f, s, 16 * d + r)
  BY ONLY <1>8, TimesAdd, Preserves(f, S), s \in S
<1> QED
  BY <1>8, <1>9, <1>10, <1>11

\* Round after round.
LEMMA RoundsStep ==
  ASSUME NEW S, NEW f, Preserves(f, S), NEW s \in S
  PROVE  /\ Rounds(f, s, 0) = s
         /\ \A n \in Nat : Rounds(f, s, n) \in S /\ Rounds(f, s, n + 1) = f[Rounds(f, s, n)]
BY RoundsAre, TimesIs

-----------------------------------------------------------------------------
(* Ways.                                                                   *)

\* A neighbour is a pair of integers.
LEMMA NeighbourType ==
  ASSUME NEW p \in Int \X Int, NEW dir
  PROVE  Neighbour(p, dir) \in Int \X Int
BY DEF Neighbour, Delta

\* So is every point of the board.
LEMMA PointsType == Points \subseteq Int \X Int
BY DEF Points

\* The points of a way, one after the other.
LEMMA AfterIs ==
  ASSUME NEW p \in Int \X Int, NEW way
  PROVE  /\ After(p, way, 0) = p
         /\ \A n \in Nat : /\ After(p, way, n) \in Int \X Int
                           /\ After(p, way, n + 1) = Neighbour(After(p, way, n), way[n + 1])
<1> DEFINE Is(at) == at = [j \in Nat |-> IF j = 0 THEN p ELSE Neighbour(at[j - 1], way[j])]
           at     == CHOOSE x : Is(x)
           S      == Int \X Int
           F      == [k \in Nat |-> [q \in S |-> Neighbour(q, way[k + 1])]]
<1>0. F \in [Nat -> [S -> S]] /\ \A k \in Nat : \A q \in S : F[k][q] = Neighbour(q, way[k + 1])
  BY NeighbourType
<1>1. p \in S
  OBVIOUS
<1> HIDE DEF F, S
<1>2. PICK it : IsIteration(it, S, F, p)
  BY <1>0, <1>1, Iteration
<1>3. it \in [Nat -> S] /\ it[0] = p /\ \A k \in Nat : it[k + 1] = Neighbour(it[k], way[k + 1])
  BY <1>0, <1>2 DEF IsIteration
<1>4. Is(it)
  <2>1. ASSUME NEW k \in Nat PROVE it[k] = IF k = 0 THEN p ELSE Neighbour(it[k - 1], way[k])
    <3>1. CASE k # 0
      <4>1. k - 1 \in Nat /\ (k - 1) + 1 = k
        BY <3>1
      <4> QED
        BY <1>3, <3>1, <4>1
    <3> QED
      BY <1>3, <3>1
  <2>2. it = [k \in Nat |-> it[k]]
    BY <1>3
  <2> QED
    BY <2>1, <2>2
<1>5. Is(at)
  BY <1>4
<1>6. \A n : After(p, way, n) = at[n]
  BY DEF After
<1> HIDE DEF at
<1>7. at[0] = p
  BY <1>5
<1>8. ASSUME NEW n \in Nat PROVE at[n + 1] = Neighbour(at[n], way[n + 1])
  <2>1. n + 1 \in Nat /\ n + 1 # 0 /\ (n + 1) - 1 = n
    OBVIOUS
  <2> QED
    BY <1>5, <2>1
<1>9. \A n \in Nat : at[n] \in S
  <2> DEFINE P == {n \in Nat : at[n] \in S}
  <2>1. P \in SUBSET Nat /\ 0 \in P /\ \A n \in P : n + 1 \in P
    BY <1>1, <1>7, <1>8, NeighbourType DEF S
  <2> HIDE DEF P
  <2>2. P = Nat
    BY <2>1, SetInduction
  <2> QED
    BY <2>2 DEF P
<1> QED
  BY <1>6, <1>7, <1>8, <1>9 DEF S

\* Ways that begin alike.
LEMMA AfterSame ==
  ASSUME NEW p \in Int \X Int, NEW way, NEW longer, NEW n \in Nat,
         \A i \in 1 .. n : way[i] = longer[i]
  PROVE  \A i \in 0 .. n : After(p, way, i) = After(p, longer, i)
<1> DEFINE P == {i \in Nat : i <= n => After(p, way, i) = After(p, longer, i)}
<1>1. 0 \in P
  BY AfterIs
<1>2. ASSUME NEW i \in P PROVE i + 1 \in P
  <2> SUFFICES ASSUME i + 1 <= n PROVE After(p, way, i + 1) = After(p, longer, i + 1)
    OBVIOUS
  <2>1. i \in Nat /\ i <= n /\ i + 1 \in 1 .. n
    OBVIOUS
  <2> QED
    BY <2>1, AfterIs
<1>3. P \in SUBSET Nat
  OBVIOUS
<1> HIDE DEF P
<1>4. P = Nat
  BY <1>1, <1>2, <1>3, SetInduction
<1> QED
  BY <1>4 DEF P

\* A way goes from p to q past none of the fixed cells.
Leads(fixed, p, way, q) ==
  /\ way \in Seq(Directions)
  /\ \A i \in 1 .. Len(way) : After(p, way, i) \in Points \ fixed
  /\ After(p, way, Len(way)) = q

\* The empty way leads to where it begins.
LEMMA LeadsNowhere ==
  ASSUME NEW fixed, NEW p \in Points
  PROVE  Leads(fixed, p, <<>>, p)
BY AfterIs, PointsType DEF Leads

\* A way can be made longer by one step to a free cell.
LEMMA LeadsOn ==
  ASSUME NEW fixed, NEW p \in Points, NEW way, NEW q, Leads(fixed, p, way, q),
         NEW dir \in Directions, Neighbour(q, dir) \in Points \ fixed
  PROVE  Leads(fixed, p, Append(way, dir), Neighbour(q, dir))
<1> DEFINE longer == Append(way, dir)
<1>1. p \in Int \X Int /\ way \in Seq(Directions)
  BY PointsType DEF Leads
<1>2. /\ longer \in Seq(Directions) /\ Len(longer) = Len(way) + 1 /\ Len(way) \in Nat
      /\ \A i \in 1 .. Len(way) : way[i] = longer[i]
      /\ longer[Len(way) + 1] = dir
  BY <1>1
<1> HIDE DEF longer
<1>3. \A i \in 0 .. Len(way) : After(p, way, i) = After(p, longer, i)
  BY <1>1, <1>2, AfterSame
<1>4. After(p, longer, Len(way) + 1) = Neighbour(q, dir)
  <2>1. After(p, longer, Len(way)) = q
    BY <1>2, <1>3 DEF Leads
  <2>2. After(p, longer, Len(way) + 1) = Neighbour(After(p, longer, Len(way)), longer[Len(way) + 1])
    <3> DEFINE n == Len(way)
    <3>1. n \in Nat
      BY <1>2
    <3> HIDE DEF n
    <3>2. After(p, longer, n + 1) = Neighbour(After(p, longer, n), longer[n + 1])
      BY ONLY <1>1, <3>1, AfterIs
    <3> QED
      BY <3>2 DEF n
  <2> QED
    BY <1>2, <2>1, <2>2
<1>5. ASSUME NEW i \in 1 .. Len(longer) PROVE After(p, longer, i) \in Points \ fixed
  <2>1. CASE i <= Len(way)
    BY <1>2, <1>3, <2>1 DEF Leads
  <2>2. CASE i = Len(way) + 1
    BY <1>4, <2>2
  <2> QED
    BY <1>2, <2>1, <2>2
<1>6. Leads(fixed, p, longer, Neighbour(q, dir))
  BY <1>2, <1>4, <1>5 DEF Leads
<1> QED
  BY <1>6 DEF longer

\* What is closed under free neighbours is not left by a way.
ClosedSet(fixed, S) == \A q \in S : OpenNeighbours(fixed, q) \subseteq S

\* No way leads out of a closed set.
LEMMA WayStays ==
  ASSUME NEW fixed, NEW p \in Points, NEW way, NEW q, Leads(fixed, p, way, q),
         NEW S, p \in S, ClosedSet(fixed, S)
  PROVE  q \in S
<1>1. p \in Int \X Int /\ Len(way) \in Nat
  BY PointsType DEF Leads
<1> DEFINE P == {i \in Nat : i <= Len(way) => After(p, way, i) \in S}
<1>2. 0 \in P
  BY <1>1, AfterIs
<1>3. ASSUME NEW i \in P PROVE i + 1 \in P
  <2> SUFFICES ASSUME i + 1 <= Len(way) PROVE After(p, way, i + 1) \in S
    OBVIOUS
  <2>1. i \in Nat /\ i <= Len(way) /\ i + 1 \in 1 .. Len(way)
    BY <1>1
  <2>2. way[i + 1] \in Directions
    BY <2>1 DEF Leads
  <2>3. After(p, way, i + 1) = Neighbour(After(p, way, i), way[i + 1])
    BY <1>1, <2>1, AfterIs
  <2>4. After(p, way, i + 1) \in Points \ fixed
    BY <2>1 DEF Leads
  <2>5. After(p, way, i) \in S
    BY <1>1, <2>1
  <2> QED
    BY <2>2, <2>3, <2>4, <2>5 DEF ClosedSet, OpenNeighbours
<1>4. P \in SUBSET Nat
  OBVIOUS
<1> HIDE DEF P
<1>5. P = Nat
  BY <1>2, <1>3, <1>4, SetInduction
<1>6. After(p, way, Len(way)) \in S
  BY <1>1, <1>5 DEF P
<1> QED
  BY <1>6 DEF Leads

\* One can be reached from the other.
Reachable(fixed, p, q) == \E way : Leads(fixed, p, way, q)

\* What is reached is a point, and free if the beginning is.
LEMMA ReachableType ==
  ASSUME NEW fixed, NEW p \in Points, NEW q, Reachable(fixed, p, q)
  PROVE  q \in Points /\ (p \notin fixed => q \notin fixed)
<1>1. PICK way : Leads(fixed, p, way, q)
  BY DEF Reachable
<1>2. p \in Int \X Int /\ Len(way) \in Nat
  BY <1>1, PointsType DEF Leads
<1>3. CASE Len(way) = 0
  BY <1>1, <1>2, <1>3, AfterIs DEF Leads
<1>4. CASE Len(way) # 0
  BY <1>1, <1>2, <1>4 DEF Leads
<1> QED
  BY <1>3, <1>4

\* What is reached reaches its free neighbours.
LEMMA ReachableOn ==
  ASSUME NEW fixed, NEW p \in Points, NEW q, Reachable(fixed, p, q),
         NEW dir \in Directions, Neighbour(q, dir) \in Points \ fixed
  PROVE  Reachable(fixed, p, Neighbour(q, dir))
BY LeadsOn DEF Reachable

\* Every point reaches itself.
LEMMA ReachableSelf ==
  ASSUME NEW fixed, NEW p \in Points
  PROVE  Reachable(fixed, p, p)
BY LeadsNowhere DEF Reachable

\* Reachability is transitive.
LEMMA ReachableFrom ==
  ASSUME NEW fixed, NEW p \in Points, NEW q, Reachable(fixed, p, q),
         NEW r, Reachable(fixed, q, r)
  PROVE  Reachable(fixed, p, r)
<1> DEFINE S == {x \in Points : Reachable(fixed, p, x)}
<1>1. q \in S
  BY ReachableType
<1>2. ClosedSet(fixed, S)
  BY ReachableOn DEF ClosedSet, OpenNeighbours
<1> HIDE DEF S
<1>3. PICK way : Leads(fixed, q, way, r)
  BY DEF Reachable
<1>4. q \in Points
  BY ReachableType
<1>5. r \in S
  BY <1>1, <1>2, <1>3, <1>4, WayStays
<1> QED
  BY <1>5 DEF S

\* A move can be taken back.
LEMMA NeighbourBack ==
  ASSUME NEW p \in Int \X Int, NEW dir \in Directions
  PROVE  Opposite(dir) \in Directions /\ Neighbour(Neighbour(p, dir), Opposite(dir)) = p
<1>1. Opposite(dir) \in Directions
  BY DEF Directions, Opposite
<1>2. CASE dir = 0
  BY <1>2 DEF Directions, Opposite, Neighbour, Delta, Up, Right, Down, Left
<1>3. CASE dir = 1
  BY <1>3 DEF Directions, Opposite, Neighbour, Delta, Up, Right, Down, Left
<1>4. CASE dir = 2
  BY <1>4 DEF Directions, Opposite, Neighbour, Delta, Up, Right, Down, Left
<1>5. CASE dir = 3
  BY <1>5 DEF Directions, Opposite, Neighbour, Delta, Up, Right, Down, Left
<1> QED
  BY <1>1, <1>2, <1>3, <1>4, <1>5 DEF Directions

\* It is symmetric among free points: a way can be gone back.
LEMMA ReachableBack ==
  ASSUME NEW fixed, NEW p \in Points \ fixed, NEW q, Reachable(fixed, p, q)
  PROVE  Reachable(fixed, q, p)
<1> DEFINE S == {x \in Points \ fixed : Reachable(fixed, x, p)}
<1>1. p \in S
  BY ReachableSelf
<1>2. ASSUME NEW x \in S, NEW dir \in Directions, Neighbour(x, dir) \in Points \ fixed
      PROVE  Neighbour(x, dir) \in S
  <2> DEFINE y == Neighbour(x, dir)
  <2>1. Reachable(fixed, y, y)
    BY <1>2, ReachableSelf
  <2>2. Opposite(dir) \in Directions /\ Neighbour(y, Opposite(dir)) = x
    BY NeighbourBack, PointsType
  <2>3. y \in Points \ fixed /\ x \in Points \ fixed /\ Reachable(fixed, x, p)
    BY <1>2
  <2> HIDE DEF y, S
  <2>4. Reachable(fixed, y, x)
    BY <2>1, <2>2, <2>3, ReachableOn
  <2>5. Reachable(fixed, y, p)
    BY <2>3, <2>4, ReachableFrom
  <2> USE DEF y, S
  <2> QED
    BY <2>3, <2>5
<1>3. ClosedSet(fixed, S)
  BY <1>2 DEF ClosedSet, OpenNeighbours
<1> HIDE DEF S
<1>4. PICK way : Leads(fixed, p, way, q)
  BY DEF Reachable
<1>5. q \in S
  BY <1>1, <1>3, <1>4, WayStays
<1> QED
  BY <1>5 DEF S

-----------------------------------------------------------------------------
(* Distances around the fixed cells.                                       *)

\* A set and its neighbours are points.
LEMMA WiderPoints ==
  ASSUME NEW fixed, NEW S \in SUBSET Points
  PROVE  Wider(fixed, S) \in SUBSET Points /\ S \subseteq Wider(fixed, S)
BY DEF Wider, OpenNeighbours

\* The ball of no steps, and of one step more.
BallStep(fixed, p, n) ==
  /\ Ball(fixed, p, 0) = {p}
  /\ Ball(fixed, p, n) \in SUBSET Points
  /\ Ball(fixed, p, n + 1) = Wider(fixed, Ball(fixed, p, n))
  /\ Ball(fixed, p, n) \subseteq Ball(fixed, p, n + 1)

\* Every ball is made from the one before.
LEMMA BallSteps ==
  ASSUME NEW fixed, NEW p \in Points, NEW n \in Nat
  PROVE  BallStep(fixed, p, n)
<1> DEFINE f == [points \in SUBSET Points |-> Wider(fixed, points)]
           S == SUBSET Points
           s == {p}
<1>1. Preserves(f, S) /\ s \in S /\ \A t \in S : f[t] = Wider(fixed, t)
  BY WiderPoints DEF Preserves
<1>2. \A k : Ball(fixed, p, k) = Rounds(f, s, k)
  BY DEF Ball
<1> HIDE DEF f, S, s
<1>3. /\ Rounds(f, s, 0) = s
      /\ \A k \in Nat : Rounds(f, s, k) \in S /\ Rounds(f, s, k + 1) = f[Rounds(f, s, k)]
  BY <1>1, RoundsStep
<1>4. Ball(fixed, p, 0) = {p}
  BY <1>2, <1>3 DEF s
<1>5. Ball(fixed, p, n) \in S /\ Ball(fixed, p, n + 1) = f[Ball(fixed, p, n)]
  BY <1>2, <1>3
<1>6. Ball(fixed, p, n + 1) = Wider(fixed, Ball(fixed, p, n))
  BY <1>1, <1>5
<1>7. Ball(fixed, p, n) \in SUBSET Points
  BY <1>5 DEF S
<1> QED
  BY <1>4, <1>6, <1>7, WiderPoints DEF BallStep

\* The balls are sets of points, one inside the next.
LEMMA BallIs ==
  ASSUME NEW fixed, NEW p \in Points, NEW n \in Nat
  PROVE  /\ Ball(fixed, p, 0) = {p}
         /\ Ball(fixed, p, n) \in SUBSET Points
         /\ Ball(fixed, p, n) \subseteq Ball(fixed, p, n + 1)
BY BallSteps DEF BallStep

\* The next ball.
LEMMA BallNext ==
  ASSUME NEW fixed, NEW p \in Points, NEW n \in Nat
  PROVE  Ball(fixed, p, n + 1) = Wider(fixed, Ball(fixed, p, n))
BY BallSteps DEF BallStep

\* More steps make no smaller ball.
LEMMA BallGrows ==
  ASSUME NEW fixed, NEW p \in Points, NEW m \in Nat
  PROVE  \A n \in Nat : Ball(fixed, p, m) \subseteq Ball(fixed, p, m + n)
<1> DEFINE P == {n \in Nat : Ball(fixed, p, m) \subseteq Ball(fixed, p, m + n)}
<1>1. 0 \in P
  OBVIOUS
<1>2. ASSUME NEW n \in P PROVE n + 1 \in P
  <2>1. m + n \in Nat /\ m + (n + 1) = (m + n) + 1
    OBVIOUS
  <2>2. Ball(fixed, p, m + n) \subseteq Ball(fixed, p, (m + n) + 1)
    BY <2>1, BallIs
  <2> QED
    BY <2>1, <2>2
<1>3. P \in SUBSET Nat
  OBVIOUS
<1> HIDE DEF P
<1>4. P = Nat
  BY <1>1, <1>2, <1>3, SetInduction
<1> QED
  BY <1>4 DEF P

\* The same for any two numbers of steps.
LEMMA BallWithin ==
  ASSUME NEW fixed, NEW p \in Points, NEW m \in Nat, NEW n \in Nat, m <= n
  PROVE  Ball(fixed, p, m) \subseteq Ball(fixed, p, n)
<1>1. n - m \in Nat /\ m + (n - m) = n
  OBVIOUS
<1> QED
  BY <1>1, BallGrows

\* The points of a way of n moves are within n moves.
LEMMA LeadsInBall ==
  ASSUME NEW fixed, NEW p \in Points, NEW way, NEW q, Leads(fixed, p, way, q)
  PROVE  q \in Ball(fixed, p, Len(way))
<1>1. p \in Int \X Int /\ Len(way) \in Nat
  BY PointsType DEF Leads
<1> DEFINE P == {i \in Nat : i <= Len(way) => After(p, way, i) \in Ball(fixed, p, i)}
<1>2. 0 \in P
  BY <1>1, AfterIs, BallIs
<1>3. ASSUME NEW i \in P PROVE i + 1 \in P
  <2> SUFFICES ASSUME i + 1 <= Len(way)
               PROVE  After(p, way, i + 1) \in Ball(fixed, p, i + 1)
    OBVIOUS
  <2>1. i \in Nat /\ i <= Len(way) /\ i + 1 \in 1 .. Len(way)
    BY <1>1
  <2>2. way[i + 1] \in Directions
    BY <2>1 DEF Leads
  <2>3. After(p, way, i + 1) = Neighbour(After(p, way, i), way[i + 1])
    BY <1>1, <2>1, AfterIs
  <2>4. After(p, way, i + 1) \in Points \ fixed
    BY <2>1 DEF Leads
  <2>5. After(p, way, i) \in Ball(fixed, p, i)
    BY <1>1, <2>1
  <2>6. Ball(fixed, p, i + 1) = Wider(fixed, Ball(fixed, p, i))
    BY ONLY <2>1, p \in Points, BallNext
  <2> QED
    BY <2>2, <2>3, <2>4, <2>5, <2>6 DEF Wider, OpenNeighbours
<1>4. P \in SUBSET Nat
  OBVIOUS
<1> HIDE DEF P
<1>5. P = Nat
  BY <1>2, <1>3, <1>4, SetInduction
<1>6. After(p, way, Len(way)) \in Ball(fixed, p, Len(way))
  BY <1>1, <1>5 DEF P
<1> QED
  BY <1>6 DEF Leads

\* What is within n moves is reached.
LEMMA BallReachable ==
  ASSUME NEW fixed, NEW p \in Points
  PROVE  \A n \in Nat : \A q \in Ball(fixed, p, n) : Reachable(fixed, p, q)
<1> DEFINE P == {n \in Nat : \A q \in Ball(fixed, p, n) : Reachable(fixed, p, q)}
<1>1. 0 \in P
  BY BallIs, ReachableSelf
<1>2. ASSUME NEW n \in P, NEW q \in Ball(fixed, p, n + 1) PROVE Reachable(fixed, p, q)
  <2>0. n \in Nat
    OBVIOUS
  <2>1. n \in Nat /\ Ball(fixed, p, n + 1) = Wider(fixed, Ball(fixed, p, n))
    BY ONLY <2>0, p \in Points, BallNext
  <2>2. CASE q \in Ball(fixed, p, n)
    BY <2>2
  <2>3. CASE q \notin Ball(fixed, p, n)
    <3>1. PICK r \in Ball(fixed, p, n) : q \in OpenNeighbours(fixed, r)
      BY <2>1, <2>3 DEF Wider
    <3>2. PICK dir \in Directions : q = Neighbour(r, dir)
      BY <3>1 DEF OpenNeighbours
    <3>3. Reachable(fixed, p, r) /\ Neighbour(r, dir) \in Points \ fixed
      BY <3>1, <3>2 DEF OpenNeighbours
    <3> QED
      BY <3>2, <3>3, ReachableOn
  <2> QED
    BY <2>2, <2>3
<1>3. P \in SUBSET Nat /\ \A n \in P : n + 1 \in P
  BY <1>2
<1> HIDE DEF P
<1>4. P = Nat
  BY <1>1, <1>3, SetInduction
<1> QED
  BY <1>4 DEF P

\* Every move changes the sum of the coordinates by one.
Sum2(p) == p[1] + p[2]

\* A step changes the sum of the coordinates by one.
LEMMA NeighbourSum ==
  ASSUME NEW p \in Int \X Int, NEW dir
  PROVE  /\ Sum2(p) \in Int
         /\ Sum2(Neighbour(p, dir)) = Sum2(p) + 1 \/ Sum2(Neighbour(p, dir)) = Sum2(p) - 1
BY DEF Sum2, Neighbour, Delta

\* The points that are n moves away have the colour that n says.
LEMMA BallColour ==
  ASSUME NEW fixed, NEW p \in Points
  PROVE  \A n \in Nat : \A q \in Ball(fixed, p, n) :
           (n = 0 \/ q \notin Ball(fixed, p, n - 1)) => (Sum2(q) - (Sum2(p) + n)) % 2 = 0
<1> DEFINE New(n, q) == n = 0 \/ q \notin Ball(fixed, p, n - 1)
           P == {n \in Nat : \A q \in Ball(fixed, p, n) :
                    New(n, q) => (Sum2(q) - (Sum2(p) + n)) % 2 = 0}
<1>1. 0 \in P
  <2>1. Sum2(p) \in Int
    BY PointsType, NeighbourSum
  <2> QED
    BY <2>1, BallIs
<1>2. ASSUME NEW n \in P, NEW q \in Ball(fixed, p, n + 1), New(n + 1, q)
      PROVE  (Sum2(q) - (Sum2(p) + (n + 1))) % 2 = 0
  <2>0. n \in Nat
    OBVIOUS
  <2>1. n \in Nat /\ Ball(fixed, p, n + 1) = Wider(fixed, Ball(fixed, p, n))
    BY ONLY <2>0, p \in Points, BallNext
  <2>2. q \notin Ball(fixed, p, n)
    BY <1>2, <2>1
  <2>3. PICK r \in Ball(fixed, p, n) : q \in OpenNeighbours(fixed, r)
    BY <2>1, <2>2 DEF Wider
  <2>4. PICK dir \in Directions : q = Neighbour(r, dir)
    BY <2>3 DEF OpenNeighbours
  <2>5. r \in Points /\ q \in Points \ fixed
    BY <2>1, <2>3, BallIs DEF OpenNeighbours
  <2>6. New(n, r)
    <3> SUFFICES ASSUME n # 0, r \in Ball(fixed, p, n - 1) PROVE FALSE
      OBVIOUS
    <3>1. n - 1 \in Nat /\ (n - 1) + 1 = n
      BY <2>1
    <3>2. Ball(fixed, p, (n - 1) + 1) = Wider(fixed, Ball(fixed, p, n - 1))
      BY ONLY <3>1, p \in Points, BallNext
    <3> QED
      BY <2>2, <2>3, <3>1, <3>2 DEF Wider
  <2>7. (Sum2(r) - (Sum2(p) + n)) % 2 = 0
    BY <2>6
  <2>8. Sum2(p) \in Int /\ Sum2(r) \in Int /\ (Sum2(q) = Sum2(r) + 1 \/ Sum2(q) = Sum2(r) - 1)
    BY <2>4, <2>5, PointsType, NeighbourSum
  <2> QED
    BY ONLY <2>1, <2>7, <2>8
<1>3. P \in SUBSET Nat /\ \A n \in P : n + 1 \in P
  BY <1>2
<1> HIDE DEF P
<1>4. P = Nat
  BY <1>1, <1>3, SetInduction
<1> QED
  BY <1>4 DEF P

\* There is none shorter.
Shortest(fixed, p, way, q) ==
  /\ Leads(fixed, p, way, q)
  /\ Len(way) = 0 \/ q \notin Ball(fixed, p, Len(way) - 1)

\* All shortest ways are of the same length.
LEMMA ShortestLength ==
  ASSUME NEW fixed, NEW p \in Points, NEW q, NEW way, Shortest(fixed, p, way, q),
         NEW other, Shortest(fixed, p, other, q)
  PROVE  Len(way) = Len(other)
<1>1. ASSUME NEW w, Shortest(fixed, p, w, q), NEW v, Shortest(fixed, p, v, q), Len(w) < Len(v)
      PROVE  FALSE
  <2>1. Len(w) \in Nat /\ Len(v) \in Nat /\ Len(v) # 0
    BY <1>1 DEF Shortest, Leads
  <2>2. q \in Ball(fixed, p, Len(w))
    BY <1>1, LeadsInBall DEF Shortest
  <2>3. Len(v) - 1 \in Nat /\ Len(w) <= Len(v) - 1
    BY <1>1, <2>1
  <2>4. Ball(fixed, p, Len(w)) \subseteq Ball(fixed, p, Len(v) - 1)
    BY <2>1, <2>3, BallWithin
  <2> QED
    BY <1>1, <2>1, <2>2, <2>4 DEF Shortest
<1>2. Len(way) \in Nat /\ Len(other) \in Nat
  BY DEF Shortest, Leads
<1>3. ~ (Len(way) < Len(other)) /\ ~ (Len(other) < Len(way))
  BY <1>1
<1> QED
  BY <1>2, <1>3

-----------------------------------------------------------------------------
(* Queues.                                                                 *)

\* A sequence holds the elements of a set, each once.
Enumerates(seq, S) ==
  /\ seq \in Seq(S)
  /\ \A x \in S : \E i \in 1 .. Len(seq) : seq[i] = x
  /\ \A i, j \in 1 .. Len(seq) : seq[i] = seq[j] => i = j

\* The empty sequence enumerates the empty set.
LEMMA EnumerateNone == ASSUME NEW S, S = {} PROVE Enumerates(<<>>, S)
BY DEF Enumerates

\* A sequence of one enumerates a set of one.
LEMMA EnumerateOne == ASSUME NEW x, NEW S, S = {x} PROVE Enumerates(<<x>>, S)
BY DEF Enumerates

\* The tail enumerates what remains without the head.
LEMMA EnumerateTail ==
  ASSUME NEW S, NEW seq, Enumerates(seq, S), seq # <<>>
  PROVE  /\ Head(seq) \in S /\ Head(seq) = seq[1] /\ Len(seq) \in Nat /\ Len(seq) >= 1
         /\ Enumerates(Tail(seq), S \ {Head(seq)})
         /\ Len(Tail(seq)) = Len(seq) - 1
         /\ \A i \in 1 .. Len(seq) - 1 : Tail(seq)[i] = seq[i + 1]
<1> DEFINE tail == Tail(seq)
           T    == S \ {Head(seq)}
<1>1. seq \in Seq(S) /\ Len(seq) \in Nat /\ Len(seq) >= 1
  BY DEF Enumerates
<1>2. /\ Head(seq) = seq[1] /\ seq[1] \in S
      /\ tail \in Seq(S) /\ Len(tail) = Len(seq) - 1
      /\ \A i \in 1 .. Len(seq) - 1 : tail[i] = seq[i + 1]
  BY <1>1
<1> HIDE DEF tail
<1>3. \A i, j \in 1 .. Len(seq) : seq[i] = seq[j] => i = j
  BY DEF Enumerates
<1>4. ASSUME NEW i \in 1 .. Len(tail) PROVE tail[i] \in T
  <2>1. i + 1 \in 1 .. Len(seq) /\ tail[i] = seq[i + 1] /\ 1 \in 1 .. Len(seq) /\ i + 1 # 1
    BY <1>1, <1>2
  <2>2. seq[i + 1] # seq[1]
    BY <1>3, <2>1
  <2>3. seq[i + 1] \in S
    BY <1>1, <2>1
  <2> QED
    BY <1>2, <2>1, <2>2, <2>3
<1>5. tail \in Seq(T)
  <2>1. Len(tail) \in Nat /\ tail = [i \in 1 .. Len(tail) |-> tail[i]]
    BY <1>1, <1>2
  <2>2. tail \in [1 .. Len(tail) -> T]
    BY <1>4, <2>1
  <2> QED
    BY <2>1, <2>2
<1>6. ASSUME NEW x \in T PROVE \E i \in 1 .. Len(tail) : tail[i] = x
  <2>1. PICK i \in 1 .. Len(seq) : seq[i] = x
    BY DEF Enumerates
  <2>2. i # 1
    BY <1>2, <2>1
  <2>3. i - 1 \in 1 .. Len(tail) /\ i - 1 \in 1 .. Len(seq) - 1 /\ (i - 1) + 1 = i
    BY <1>1, <1>2, <2>2
  <2>4. tail[i - 1] = seq[(i - 1) + 1]
    BY <1>2, <2>3
  <2>5. tail[i - 1] = x
    BY <2>1, <2>3, <2>4
  <2> QED
    BY <2>3, <2>5
<1>7. ASSUME NEW i \in 1 .. Len(tail), NEW j \in 1 .. Len(tail), tail[i] = tail[j] PROVE i = j
  <2>1. /\ i + 1 \in 1 .. Len(seq) /\ j + 1 \in 1 .. Len(seq)
        /\ seq[i + 1] = seq[j + 1]
    BY <1>1, <1>2, <1>7
  <2>2. i + 1 = j + 1
    BY <1>3, <2>1
  <2> QED
    BY <1>1, <1>2, <2>2
<1>8. Enumerates(tail, T)
  <2> HIDE DEF T
  <2> QED
    BY <1>5, <1>6, <1>7 DEF Enumerates
<1> QED
  BY <1>1, <1>2, <1>8 DEF tail

\* Sequences of disjoint sets, one after the other, enumerate the union.
LEMMA EnumerateMore ==
  ASSUME NEW S, NEW T, NEW U, NEW s, NEW t, Enumerates(s, S), Enumerates(t, T),
         S \cap T = {}, U = S \cup T
  PROVE  Enumerates(s \o t, U)
<1> DEFINE st == s \o t
<1>1. /\ s \in Seq(S) /\ t \in Seq(T) /\ Len(s) \in Nat /\ Len(t) \in Nat
      /\ s \in Seq(U) /\ t \in Seq(U)
  <2>1. s \in Seq(S) /\ t \in Seq(T)
    BY DEF Enumerates
  <2> QED
    BY <2>1
<1>2. /\ st \in Seq(U) /\ Len(st) = Len(s) + Len(t)
      /\ \A i \in 1 .. Len(s) : st[i] = s[i] /\ st[i] \in S
      /\ \A i \in 1 .. Len(t) : st[Len(s) + i] = t[i] /\ st[Len(s) + i] \in T
  <2>1. st \in Seq(U) /\ Len(st) = Len(s) + Len(t)
    BY <1>1
  <2>2. ASSUME NEW i \in 1 .. Len(s) PROVE st[i] = s[i] /\ st[i] \in S
    BY <1>1
  <2>3. ASSUME NEW i \in 1 .. Len(t) PROVE st[Len(s) + i] = t[i] /\ st[Len(s) + i] \in T
    BY <1>1
  <2> QED
    BY <2>1, <2>2, <2>3
<1> HIDE DEF st
<1>3. ASSUME NEW x \in U PROVE \E i \in 1 .. Len(st) : st[i] = x
  <2>1. CASE x \in S
    <3>1. PICK i \in 1 .. Len(s) : s[i] = x
      BY <2>1 DEF Enumerates
    <3>2. i \in 1 .. Len(st) /\ st[i] = x
      BY <1>1, <1>2, <3>1
    <3> QED
      BY <3>2
  <2>2. CASE x \in T
    <3>1. PICK i \in 1 .. Len(t) : t[i] = x
      BY <2>2 DEF Enumerates
    <3>2. Len(s) + i \in 1 .. Len(st) /\ st[Len(s) + i] = x
      BY <1>1, <1>2, <3>1
    <3> QED
      BY <3>2
  <2> QED
    BY <2>1, <2>2
<1>4. ASSUME NEW i \in 1 .. Len(st)
      PROVE  \/ i \in 1 .. Len(s) /\ st[i] = s[i] /\ st[i] \in S
             \/ \E k \in 1 .. Len(t) : i = Len(s) + k /\ st[i] = t[k] /\ st[i] \in T
  <2>1. CASE i <= Len(s)
    <3>1. i \in 1 .. Len(s)
      BY <1>1, <1>2, <2>1
    <3> QED
      BY <1>2, <3>1
  <2>2. CASE ~(i <= Len(s))
    <3> DEFINE k == i - Len(s)
    <3>1. k \in 1 .. Len(t) /\ i = Len(s) + k
      BY <1>1, <1>2, <2>2
    <3> HIDE DEF k
    <3>2. st[Len(s) + k] = t[k] /\ st[Len(s) + k] \in T
      BY <1>2, <3>1
    <3> QED
      BY <3>1, <3>2
  <2> QED
    BY <2>1, <2>2
<1>5. ASSUME NEW i \in 1 .. Len(st), NEW j \in 1 .. Len(st), st[i] = st[j] PROVE i = j
  <2>1. CASE st[i] \in S
    <3>1. i \in 1 .. Len(s) /\ st[i] = s[i] /\ j \in 1 .. Len(s) /\ st[j] = s[j]
      BY <1>4, <1>5, <2>1
    <3> QED
      BY <1>5, <3>1 DEF Enumerates
  <2>2. CASE st[i] \notin S
    <3>1. PICK k \in 1 .. Len(t) : i = Len(s) + k /\ st[i] = t[k]
      BY <1>4, <2>2
    <3>2. PICK m \in 1 .. Len(t) : j = Len(s) + m /\ st[j] = t[m]
      BY <1>4, <1>5, <2>2
    <3>3. k = m
      BY <1>5, <3>1, <3>2 DEF Enumerates
    <3> QED
      BY <3>1, <3>2, <3>3
  <2> QED
    BY <2>1, <2>2
<1>6. Enumerates(st, U)
  BY <1>2, <1>3, <1>5 DEF Enumerates
<1> QED
  BY <1>6 DEF st

-----------------------------------------------------------------------------
(* Loops that end.                                                         *)

\* If a round that does not end the loop puts something in a finite set, n rounds end
\* it or put n things there.
LEMMA GrowingEnds ==
  ASSUME NEW I, NEW f, Preserves(f, I), NEW s \in I,
         NEW U, IsFiniteSet(U), NEW g \in [I -> SUBSET U], NEW E \in SUBSET I,
         \A t \in E : f[t] = t,
         \A t \in I \ E : g[t] \subseteq g[f[t]] /\ g[t] # g[f[t]]
  PROVE  \A n \in Nat : \/ Rounds(f, s, n) \in E
                        \/ Cardinality(g[Rounds(f, s, n)]) >= n
<1> DEFINE P == {n \in Nat : \/ Rounds(f, s, n) \in E
                             \/ Cardinality(g[Rounds(f, s, n)]) >= n}
<1>1. \A t \in I : g[t] \in SUBSET U /\ IsFiniteSet(g[t]) /\ Cardinality(g[t]) \in Nat
  BY FS_Subset, FS_CardinalityType
<1>2. 0 \in P
  <2>1. Rounds(f, s, 0) \in I
    BY RoundsStep
  <2> QED
    BY <1>1, <2>1
<1>3. ASSUME NEW n \in P PROVE n + 1 \in P
  <2> DEFINE t == Rounds(f, s, n)
             u == Rounds(f, s, n + 1)
  <2>1. n \in Nat
    OBVIOUS
  <2>2. t \in I /\ u \in I /\ u = f[t]
    BY <2>1, RoundsStep
  <2>3. t \in E \/ Cardinality(g[t]) >= n
    OBVIOUS
  <2> HIDE DEF t, u
  <2>4. CASE t \in E
    <3>1. u \in E
      BY <2>2, <2>4
    <3> QED
      BY <3>1 DEF u
  <2>5. CASE t \notin E
    <3>1. g[t] \subseteq g[u] /\ g[t] # g[u]
      BY <2>2, <2>5
    <3>2. Cardinality(g[t]) <= Cardinality(g[u]) /\ Cardinality(g[t]) # Cardinality(g[u])
      <4>1. IsFiniteSet(g[u]) /\ g[t] \in SUBSET g[u]
        BY <1>1, <2>2, <3>1
      <4> QED
        BY <3>1, <4>1, FS_Subset
    <3>3. Cardinality(g[u]) >= n + 1
      BY <1>1, <2>1, <2>2, <2>3, <2>5, <3>2
    <3> QED
      BY <2>1, <3>3 DEF u
  <2> QED
    BY <2>4, <2>5
<1>4. P \in SUBSET Nat
  OBVIOUS
<1> HIDE DEF P
<1>5. P = Nat
  BY <1>2, <1>3, <1>4, SetInduction
<1> QED
  BY <1>5 DEF P

\* As many points as the board has.
LEMMA PointsCounted ==
  /\ Cardinality(Points) = Height * Width
  /\ Height * Width \in Nat
  /\ \A p \in Points : Cardinality(Points \ {p}) = Height * Width - 1
<1>1. Height \in Nat /\ Width \in Nat
  BY SizeAssumption
<1>2. IsFiniteSet(0 .. Height - 1) /\ Cardinality(0 .. Height - 1) = Height
  BY <1>1, SizeAssumption, FS_Interval
<1>3. IsFiniteSet(0 .. Width - 1) /\ Cardinality(0 .. Width - 1) = Width
  BY <1>1, SizeAssumption, FS_Interval
<1>4. Cardinality(Points) = Height * Width /\ IsFiniteSet(Points)
  <2> DEFINE A == 0 .. Height - 1
             B == 0 .. Width - 1
  <2>1. Points = A \X B
    BY DEF Points
  <2>2. IsFiniteSet(A) /\ IsFiniteSet(B) /\ Cardinality(A) = Height /\ Cardinality(B) = Width
    BY <1>2, <1>3
  <2> HIDE DEF A, B
  <2>3. Cardinality(A \X B) = Cardinality(A) * Cardinality(B) /\ IsFiniteSet(A \X B)
    BY <2>2, FS_Product
  <2> QED
    BY <2>1, <2>2, <2>3, Zenon
<1>5. Height * Width \in Nat
  BY <1>4, FS_CardinalityType
<1> QED
  BY <1>4, <1>5, FS_RemoveElement

-----------------------------------------------------------------------------
(* The breadth-first searches.                                             *)

Reached(s)     == {q \in Points : s.manhattan[q] # NotReached}
TakenPoints(s) == {q \in Points : s.manhattan[q] = Taken}
Queued(s)      == Reached(s) \ TakenPoints(s)
Level(s, q)    == Len(s.way[q])

\* No point is further away than the marks among the distances allow.
Fits(fixed, p) == \A n \in Nat : Ball(fixed, p, n) \subseteq Ball(fixed, p, 126)

\* A search that may be asked for; the one that counts distances only where they fit.
SearchCall(b, src, dst, optimally) ==
  /\ src \in Points \ b.fixed /\ dst \in Points \ b.fixed
  /\ optimally \in BOOLEAN
  /\ optimally => Fits(b.fixed, src)

\* The points in the queue are as far away as the first or one move further, the
\* nearer first.
QueueSorted(s) ==
  /\ \A i, j \in 1 .. Len(s.queue) : i <= j => Level(s, s.queue[i]) <= Level(s, s.queue[j])
  /\ \A j \in 1 .. Len(s.queue) : Level(s, s.queue[j]) <= Level(s, s.queue[1]) + 1

\* The distance of the piece has not changed by more than the moves.
InLevel(m, level, optimally) == IF optimally THEN m \in -level .. level ELSE m = 0

\* So for every point in the queue.
ManhattanFits(s, optimally) ==
  \A q \in Queued(s) : InLevel(s.manhattan[q], Level(s, q), optimally)

\* The neighbours of a point that was taken are reached.
TakenClosed(fixed, s) == \A q \in TakenPoints(s) : OpenNeighbours(fixed, q) \subseteq Reached(s)

\* The way to every point reached is a shortest one.
WaysShortest(fixed, src, s) == \A q \in Reached(s) : Shortest(fixed, src, s.way[q], q)

\* The invariant of the searches.
SearchInv(b, src, dst, optimally, s) ==
  /\ s \in SearchStates
  /\ Enumerates(s.queue, Queued(s))
  /\ QueueSorted(s)
  /\ ManhattanFits(s, optimally)
  /\ TakenClosed(b.fixed, s)
  /\ WaysShortest(b.fixed, src, s)
  /\ src \in Reached(s)
  /\ dst \notin TakenPoints(s)

\* A shortest way is no longer than the number of a ball that has its end.
LEMMA ShortestWithin ==
  ASSUME NEW fixed, NEW p \in Points, NEW q, NEW way, Shortest(fixed, p, way, q),
         NEW n \in Nat, q \in Ball(fixed, p, n)
  PROVE  Len(way) \in Nat /\ Len(way) <= n
<1>1. Len(way) \in Nat
  BY DEF Shortest, Leads
<1>2. ASSUME Len(way) > n PROVE FALSE
  <2>1. Len(way) - 1 \in Nat /\ n <= Len(way) - 1 /\ Len(way) # 0
    BY <1>1, <1>2
  <2>2. q \in Ball(fixed, p, Len(way) - 1)
    BY <2>1, BallWithin
  <2> QED
    BY <2>1, <2>2 DEF Shortest
<1> QED
  BY <1>1, <1>2

\* Everything nearer than the head of the queue is reached.
LEMMA LevelsReached ==
  ASSUME NEW b, NEW src, NEW dst, NEW optimally, SearchCall(b, src, dst, optimally),
         NEW s, SearchInv(b, src, dst, optimally, s), s.queue # <<>>
  PROVE  Ball(b.fixed, src, Level(s, Head(s.queue))) \subseteq Reached(s)
<1> DEFINE fixed == b.fixed
           k     == Level(s, Head(s.queue))
<1>0. src \in Points
  BY DEF SearchCall
<1>1. /\ Enumerates(s.queue, Queued(s)) /\ QueueSorted(s) /\ TakenClosed(fixed, s)
      /\ WaysShortest(fixed, src, s) /\ src \in Reached(s)
  BY DEF SearchInv
<1>2. Head(s.queue) \in Queued(s) /\ Head(s.queue) = s.queue[1] /\ Len(s.queue) \in Nat /\ Len(s.queue) >= 1
  BY <1>1, EnumerateTail
<1>3. \A q \in Reached(s) : Level(s, q) \in Nat /\ Shortest(fixed, src, s.way[q], q)
  BY <1>1 DEF WaysShortest, Level, Shortest, Leads
<1>4. k \in Nat
  BY <1>2, <1>3 DEF Queued
<1>5. ASSUME NEW q \in Queued(s) PROVE k <= Level(s, q)
  <2>1. PICK i \in 1 .. Len(s.queue) : s.queue[i] = q
    BY <1>1 DEF Enumerates
  <2>2. 1 \in 1 .. Len(s.queue) /\ 1 <= i
    BY <1>2
  <2> QED
    BY <1>1, <1>2, <2>1, <2>2 DEF QueueSorted
<1> HIDE DEF fixed, k
<1> DEFINE P == {n \in Nat : n <= k => Ball(fixed, src, n) \subseteq Reached(s)}
<1>6. 0 \in P
  BY <1>0, <1>1, BallIs
<1>7. ASSUME NEW n \in P PROVE n + 1 \in P
  <2> SUFFICES ASSUME n + 1 <= k, NEW q \in Ball(fixed, src, n + 1) PROVE q \in Reached(s)
    OBVIOUS
  <2>1. n \in Nat /\ n < k /\ Ball(fixed, src, n) \subseteq Reached(s)
    BY <1>4
  <2>2. Ball(fixed, src, n + 1) = Wider(fixed, Ball(fixed, src, n))
    BY ONLY <1>0, <2>1, BallNext
  <2>3. CASE q \in Ball(fixed, src, n)
    BY <2>1, <2>3
  <2>4. CASE q \notin Ball(fixed, src, n)
    <3>1. PICK r \in Ball(fixed, src, n) : q \in OpenNeighbours(fixed, r)
      BY <2>2, <2>4 DEF Wider
    <3>2. r \in Reached(s) /\ Shortest(fixed, src, s.way[r], r)
      BY <1>3, <2>1, <3>1
    <3>3. Level(s, r) \in Nat /\ Level(s, r) <= n
      BY <1>0, <2>1, <3>1, <3>2, ShortestWithin DEF Level
    <3>4. r \in TakenPoints(s)
      BY <1>4, <1>5, <2>1, <3>2, <3>3 DEF Queued
    <3> QED
      BY <1>1, <3>1, <3>4 DEF TakenClosed
  <2> QED
    BY <2>3, <2>4
<1>8. P \in SUBSET Nat
  OBVIOUS
<1> HIDE DEF P
<1>9. P = Nat
  BY <1>6, <1>7, <1>8, SetInduction
<1>10. Ball(fixed, src, k) \subseteq Reached(s)
  BY <1>4, <1>9 DEF P
<1> QED
  BY <1>10 DEF fixed, k

\* Numbers that fit into a char are not changed by it.
LEMMA CharIs == \A i \in -128 .. 127 : Char(i) = i
<1>1. ASSUME NEW i \in -128 .. 127 PROVE Char(i) = i
  <2>1. i + 128 \in 0 .. 255
    OBVIOUS
  <2>2. (i + 128) % 256 = i + 128
    BY <2>1
  <2> QED
    BY <2>2 DEF Char
<1> QED
  BY <1>1

\* A free neighbour of the head of the queue.
NextIs(b, src, p, dir, s, optimally) ==
  LET next  == Neighbour(p, dir)
      level == Level(s, p) + 1
      m     == NextManhattan(b, p, dir, s, optimally)
  IN  /\ next # p
      /\ Shortest(b.fixed, src, Append(s.way[p], dir), next)
      /\ Len(Append(s.way[p], dir)) = level
      /\ next \in Reached(s) => Level(s, next) = level
      /\ m \in Taken + 1 .. NotReached - 1
      /\ InLevel(m, level, optimally)

\* Of two neighbouring numbers one is odd.
LEMMA OneIsOdd ==
  ASSUME NEW i \in Int, NEW j \in Int, NEW c \in Int, j = i + 1 \/ j = i - 1,
         (i - c) % 2 = 0
  PROVE  (j - c) % 2 # 0
<1> DEFINE x == i - c
           y == j - c
<1>1. x \in Int /\ y \in Int /\ (y = x + 1 \/ y = x - 1) /\ x % 2 = 0
  OBVIOUS
<1> HIDE DEF x, y
<1>2. y % 2 # 0
  BY ONLY <1>1
<1> QED
  BY <1>2 DEF y

\* A step from the head of the queue to a point that was not taken.
LEMMA NextMoves ==
  ASSUME NEW b, NEW src, NEW dst, NEW optimally, SearchCall(b, src, dst, optimally),
         NEW s, SearchInv(b, src, dst, optimally, s), s.queue # <<>>,
         NEW dir \in Directions, Neighbour(Head(s.queue), dir) \in Points \ b.fixed,
         Neighbour(Head(s.queue), dir) \notin TakenPoints(s)
  PROVE  NextIs(b, src, Head(s.queue), dir, s, optimally)
<1> DEFINE fixed == b.fixed
           p     == Head(s.queue)
           next  == Neighbour(p, dir)
           k     == Level(s, p)
           m     == NextManhattan(b, p, dir, s, optimally)
<1>0. src \in Points /\ optimally \in BOOLEAN
  BY DEF SearchCall
<1>1. /\ Enumerates(s.queue, Queued(s)) /\ QueueSorted(s) /\ ManhattanFits(s, optimally)
      /\ WaysShortest(fixed, src, s) /\ s \in SearchStates
  BY DEF SearchInv
<1>2. p \in Queued(s) /\ p = s.queue[1] /\ Len(s.queue) \in Nat /\ Len(s.queue) >= 1
  BY <1>1, EnumerateTail
<1>3. p \in Points /\ p \in Reached(s) /\ p \in Int \X Int
  BY <1>2, PointsType DEF Queued, Reached
<1>4. Shortest(fixed, src, s.way[p], p) /\ Leads(fixed, src, s.way[p], p) /\ s.way[p] \in Seq(Directions)
  BY <1>1, <1>3 DEF WaysShortest, Shortest, Leads
<1>5. k \in Nat /\ Len(Append(s.way[p], dir)) = k + 1
  BY <1>4 DEF Level
<1>6. next \in Points \ fixed /\ next \notin TakenPoints(s)
  OBVIOUS
<1>7. /\ Sum2(p) \in Int /\ Sum2(next) \in Int
      /\ (Sum2(next) = Sum2(p) + 1 \/ Sum2(next) = Sum2(p) - 1)
  BY <1>3, <1>6, PointsType, NeighbourSum
<1>8. next # p
  BY <1>7
<1>9. Leads(fixed, src, Append(s.way[p], dir), next)
  BY <1>0, <1>4, <1>6, LeadsOn
<1>10. Ball(fixed, src, k) \subseteq Reached(s)
  BY LevelsReached
<1> HIDE DEF fixed, k, p, next
<1>11. ASSUME next \in Reached(s) PROVE Level(s, next) \in Nat /\ Level(s, next) >= k + 1
  <2>1. Shortest(fixed, src, s.way[next], next) /\ Leads(fixed, src, s.way[next], next)
        /\ Level(s, next) \in Nat
    BY <1>1, <1>11 DEF WaysShortest, Shortest, Leads, Level
  <2>2. next \in Queued(s)
    BY <1>6, <1>11 DEF Queued
  <2>3. k <= Level(s, next)
    <3>1. PICK i \in 1 .. Len(s.queue) : s.queue[i] = next
      BY <1>1, <2>2 DEF Enumerates
    <3>2. 1 \in 1 .. Len(s.queue) /\ 1 <= i
      BY <1>2
    <3> QED
      BY <1>1, <1>2, <3>1, <3>2 DEF QueueSorted, k
  <2>4. (Sum2(next) - (Sum2(src) + Level(s, next))) % 2 = 0
    <3>1. next \in Ball(fixed, src, Level(s, next))
      BY <1>0, <2>1, LeadsInBall DEF Level
    <3>2. Level(s, next) = 0 \/ next \notin Ball(fixed, src, Level(s, next) - 1)
      BY <2>1 DEF Shortest, Level
    <3> QED
      BY <1>0, <2>1, <3>1, <3>2, BallColour
  <2>5. (Sum2(p) - (Sum2(src) + k)) % 2 = 0
    <3>1. p \in Ball(fixed, src, k)
      BY <1>0, <1>4, LeadsInBall DEF Level, k
    <3>2. k = 0 \/ p \notin Ball(fixed, src, k - 1)
      BY <1>4 DEF Shortest, Level, k
    <3> QED
      BY <1>0, <1>5, <3>1, <3>2, BallColour
  <2>6. Sum2(src) \in Int
    BY <1>0, PointsType, NeighbourSum
  <2>7. Level(s, next) # k
    <3> DEFINE l == Level(s, next)
    <3> HIDE DEF l
    <3>1. l \in Nat /\ (Sum2(next) - (Sum2(src) + l)) % 2 = 0
      BY <2>1, <2>4 DEF l
    <3>2. Sum2(src) + k \in Int
      BY ONLY <2>6, <1>5
    <3>3. (Sum2(next) - (Sum2(src) + k)) % 2 # 0
      <4> DEFINE c == Sum2(src) + k
                 i == Sum2(p)
                 j == Sum2(next)
      <4>1. c \in Int /\ i \in Int /\ j \in Int /\ (j = i + 1 \/ j = i - 1) /\ (i - c) % 2 = 0
        BY <3>2, <2>5, <1>7
      <4> HIDE DEF c, i, j
      <4>2. (j - c) % 2 # 0
        BY ONLY <4>1, OneIsOdd
      <4> QED
        BY ONLY <4>2 DEF c, j
    <3>4. l # k
      BY ONLY <3>1, <3>3
    <3> QED
      BY <3>4 DEF l
  <2> QED
    BY <1>5, <2>1, <2>3, <2>7
<1>12. next \notin Ball(fixed, src, k)
  <2>1. CASE next \in Reached(s)
    <3> SUFFICES ASSUME next \in Ball(fixed, src, k) PROVE FALSE
      OBVIOUS
    <3>1. Shortest(fixed, src, s.way[next], next)
      BY <1>1, <2>1 DEF WaysShortest
    <3>2. Len(s.way[next]) <= k
      BY <1>0, <1>5, <3>1, ShortestWithin
    <3> QED
      BY <1>5, <1>11, <2>1, <3>2 DEF Level
  <2>2. CASE next \notin Reached(s)
    BY <1>10, <2>2
  <2> QED
    BY <2>1, <2>2
<1>13. Shortest(fixed, src, Append(s.way[p], dir), next)
  <2>1. Len(Append(s.way[p], dir)) - 1 = k
    BY <1>5
  <2> QED
    BY <1>9, <1>12, <2>1 DEF Shortest
<1>14. next \in Ball(fixed, src, k + 1)
  BY <1>0, <1>5, <1>9, LeadsInBall
<1>15. ASSUME next \in Reached(s) PROVE Level(s, next) = k + 1
  <2>1. Shortest(fixed, src, s.way[next], next)
    BY <1>1, <1>15 DEF WaysShortest
  <2>2. Len(s.way[next]) <= k + 1
    BY <1>0, <1>5, <1>14, <2>1, ShortestWithin
  <2> QED
    BY <1>5, <1>11, <1>15, <2>2 DEF Level
<1>16. m \in Taken + 1 .. NotReached - 1 /\ InLevel(m, k + 1, optimally)
  <2>1. InLevel(s.manhattan[p], k, optimally)
    BY <1>1, <1>2 DEF ManhattanFits, k
  <2>2. CASE optimally
    <3>1. k + 1 <= 126
      <4>1. Ball(fixed, src, k + 1) \subseteq Ball(fixed, src, 126)
        BY <1>5, <2>2 DEF SearchCall, Fits, fixed
      <4>2. Len(Append(s.way[p], dir)) <= 126
        BY <1>0, <1>13, <1>14, <4>1, ShortestWithin
      <4> QED
        BY <1>5, <4>2
    <3>2. s.manhattan[p] \in -k .. k
      BY <2>1, <2>2 DEF InLevel
    <3> DEFINE d == DeltaManhattan(b, p, dir)
               e == s.manhattan[p]
    <3>3. d = 1 \/ d = -1
      BY DEF DeltaManhattan
    <3>4. m = Char(e + d)
      BY <2>2 DEF NextManhattan
    <3>5. e \in -k .. k
      BY <3>2
    <3> HIDE DEF d, m, e
    <3>6. e \in Int /\ -k <= e /\ e <= k
      BY <1>5, <3>5
    <3>7. /\ e + d \in Int /\ -(k + 1) <= e + d /\ e + d <= k + 1
          /\ e + d \in -127 .. 126
      <4>1. k \in Nat /\ k <= 125
        BY ONLY <1>5, <3>1
      <4>2. CASE d = 1
        BY ONLY <3>6, <4>1, <4>2
      <4>3. CASE d = -1
        BY ONLY <3>6, <4>1, <4>3
      <4> QED
        BY ONLY <3>3, <4>2, <4>3
    <3>8. e + d \in -128 .. 127
      BY <3>7
    <3>9. m = e + d
      BY <3>4, <3>8, CharIs
    <3>10. m \in Int /\ -(k + 1) <= m /\ m <= k + 1 /\ m \in -127 .. 126
      BY <3>7, <3>9
    <3>11. m \in -(k + 1) .. k + 1
      BY ONLY <1>5, <3>10
    <3>12. Taken + 1 = -127 /\ NotReached - 1 = 126
      BY DEF Taken, NotReached
    <3> QED
      BY <2>2, <3>10, <3>11, <3>12 DEF InLevel
  <2>3. CASE ~optimally
    <3>1. s.manhattan[p] = 0
      BY <2>1, <2>3 DEF InLevel
    <3>2. m = Char(0)
      BY <2>3, <3>1 DEF NextManhattan
    <3>3. m = 0
      BY <3>2, CharIs
    <3> QED
      BY <2>3, <3>3 DEF InLevel, Taken, NotReached
  <2> QED
    BY <2>2, <2>3
<1>17. NextIs(b, src, p, dir, s, optimally)
  BY <1>5, <1>8, <1>13, <1>15, <1>16 DEF NextIs, k, next, fixed
<1> QED
  BY <1>17 DEF p

\* Different directions lead to different neighbours.
LEMMA NeighboursDiffer ==
  ASSUME NEW p \in Int \X Int, NEW dir \in Directions, NEW other \in Directions,
         Neighbour(p, dir) = Neighbour(p, other)
  PROVE  dir = other
<1>1. p[1] \in Int /\ p[2] \in Int
  OBVIOUS
<1>2. /\ Delta(0) = <<-1, 0>> /\ Delta(1) = <<0, 1>> /\ Delta(2) = <<1, 0>> /\ Delta(3) = <<0, -1>>
  BY DEF Delta, Up, Right, Down, Left
<1>3. dir \in {0, 1, 2, 3} /\ other \in {0, 1, 2, 3}
  BY DEF Directions
<1>4. p[1] + Delta(dir)[1] = p[1] + Delta(other)[1] /\ p[2] + Delta(dir)[2] = p[2] + Delta(other)[2]
  BY DEF Neighbour
<1> QED
  BY ONLY <1>1, <1>2, <1>3, <1>4

\* Step finds the direction to a neighbour.
LEMMA StepIs ==
  ASSUME NEW p \in Int \X Int, NEW dir \in Directions
  PROVE  Step(p, Neighbour(p, dir)) = dir
<1>1. Step(p, Neighbour(p, dir)) \in Directions /\ Neighbour(p, Step(p, Neighbour(p, dir))) = Neighbour(p, dir)
  BY DEF Step
<1> QED
  BY <1>1, NeighboursDiffer

\* The neighbours that are reached for the first time.
Nexts(p, better) == {Neighbour(p, dir) : dir \in better}

\* Fresh enumerates the neighbours that are reached for the first time.
LEMMA FreshIs ==
  ASSUME NEW p \in Points, NEW s, NEW better \in SUBSET Directions,
         Nexts(p, better) \subseteq Points
  PROVE  Enumerates(Fresh(p, s, better), Nexts(p, better) \ Reached(s))
<1> DEFINE is(dir)  == dir \in better /\ s.manhattan[Neighbour(p, dir)] = NotReached
           seq(dir) == IF is(dir) THEN <<Neighbour(p, dir)>> ELSE <<>>
           set(dir) == IF is(dir) THEN {Neighbour(p, dir)} ELSE {}
<1>1. ASSUME NEW dir PROVE Enumerates(seq(dir), set(dir))
  <2>1. CASE is(dir)
    BY <2>1, EnumerateOne
  <2>2. CASE ~is(dir)
    BY <2>2, EnumerateNone
  <2> QED
    BY <2>1, <2>2
<1>2. Fresh(p, s, better) = ((seq(0) \o seq(1)) \o seq(2)) \o seq(3)
  BY DEF Fresh, Up, Right, Down, Left
<1>3. ASSUME NEW x \in Directions, NEW y \in Directions, x # y PROVE set(x) \cap set(y) = {}
  BY <1>3, NeighboursDiffer, PointsType
<1>4. 0 \in Directions /\ 1 \in Directions /\ 2 \in Directions /\ 3 \in Directions
  BY DEF Directions
<1>5. Nexts(p, better) \ Reached(s) = UNION {set(dir) : dir \in Directions}
  BY DEF Nexts, Reached
<1>6. UNION {set(dir) : dir \in Directions} = ((set(0) \cup set(1)) \cup set(2)) \cup set(3)
  <2> HIDE DEF set
  <2>1. Directions = {0, 1, 2, 3}
    BY DEF Directions
  <2> QED
    BY <2>1
<1> HIDE DEF is, seq, set
<1>7. set(0) \cap set(1) = {} /\ Enumerates(seq(0), set(0)) /\ Enumerates(seq(1), set(1))
  BY <1>1, <1>3, <1>4
<1>8. Enumerates(seq(0) \o seq(1), set(0) \cup set(1))
  BY <1>7, EnumerateMore
<1>9. (set(0) \cup set(1)) \cap set(2) = {} /\ Enumerates(seq(2), set(2))
  <2>1. set(0) \cap set(2) = {} /\ set(1) \cap set(2) = {}
    BY <1>3, <1>4
  <2> QED
    BY <1>1, <2>1
<1>10. Enumerates((seq(0) \o seq(1)) \o seq(2), (set(0) \cup set(1)) \cup set(2))
  BY <1>8, <1>9, EnumerateMore
<1>11. ((set(0) \cup set(1)) \cup set(2)) \cap set(3) = {} /\ Enumerates(seq(3), set(3))
  <2>1. set(0) \cap set(3) = {} /\ set(1) \cap set(3) = {} /\ set(2) \cap set(3) = {}
    BY <1>3, <1>4
  <2> QED
    BY <1>1, <2>1
<1>12. Enumerates(((seq(0) \o seq(1)) \o seq(2)) \o seq(3), ((set(0) \cup set(1)) \cup set(2)) \cup set(3))
  BY <1>10, <1>11, EnumerateMore
<1> QED
  BY <1>2, <1>5, <1>6, <1>12

\* The state after the body of the loop, point by point.
SearchedAs(t, b, p, s, better, optimally) ==
  /\ t.queue = Tail(s.queue) \o Fresh(p, s, better)
  /\ t = [queue |-> t.queue, manhattan |-> t.manhattan, way |-> t.way]
  /\ t.manhattan = [q \in Points |-> t.manhattan[q]]
  /\ t.way = [q \in Points |-> t.way[q]]
  /\ t.manhattan[p] = Taken /\ t.way[p] = s.way[p]
  /\ \A dir \in better :
       /\ t.manhattan[Neighbour(p, dir)] = NextManhattan(b, p, dir, s, optimally)
       /\ t.way[Neighbour(p, dir)] = Append(s.way[p], dir)
  /\ \A q \in Points \ (Nexts(p, better) \cup {p}) :
       t.manhattan[q] = s.manhattan[q] /\ t.way[q] = s.way[q]

\* One round of the search changes just the head of the queue and these neighbours.
LEMMA SearchedFromIs ==
  ASSUME NEW b, NEW p \in Points, NEW s, NEW better \in SUBSET Directions, NEW optimally,
         Nexts(p, better) \subseteq Points, p \notin Nexts(p, better),
         NEW t, t = SearchedFrom(b, p, s, better, optimally)
  PROVE  SearchedAs(t, b, p, s, better, optimally)
<1> DEFINE found(q) == \E dir \in better : Neighbour(p, dir) = q
           m(q) == IF q = p THEN Taken
                   ELSE IF found(q) THEN NextManhattan(b, p, Step(p, q), s, optimally) ELSE s.manhattan[q]
           w(q) == IF found(q) THEN Append(s.way[p], Step(p, q)) ELSE s.way[q]
<1>1. t = [queue |-> Tail(s.queue) \o Fresh(p, s, better),
           manhattan |-> [q \in Points |-> m(q)], way |-> [q \in Points |-> w(q)]]
  BY DEF SearchedFrom
<1>2. \A q : found(q) <=> q \in Nexts(p, better)
  BY DEF Nexts
<1>3. ASSUME NEW dir \in better
      PROVE  Neighbour(p, dir) \in Points /\ Neighbour(p, dir) # p /\ found(Neighbour(p, dir))
             /\ Step(p, Neighbour(p, dir)) = dir
  BY StepIs, PointsType DEF Nexts
<1> HIDE DEF found
<1>4. t.queue = Tail(s.queue) \o Fresh(p, s, better) /\ t.manhattan = [q \in Points |-> m(q)]
      /\ t.way = [q \in Points |-> w(q)]
  BY <1>1
<1>5. t = [queue |-> t.queue, manhattan |-> t.manhattan, way |-> t.way]
  BY <1>1, <1>4
<1>6. \A q \in Points : t.manhattan[q] = m(q) /\ t.way[q] = w(q)
  BY <1>4
<1>7. t.manhattan[p] = Taken /\ t.way[p] = s.way[p]
  BY <1>2, <1>6
<1>8. ASSUME NEW dir \in better
      PROVE  /\ t.manhattan[Neighbour(p, dir)] = NextManhattan(b, p, dir, s, optimally)
             /\ t.way[Neighbour(p, dir)] = Append(s.way[p], dir)
  <2>1. /\ m(Neighbour(p, dir)) = NextManhattan(b, p, dir, s, optimally)
        /\ w(Neighbour(p, dir)) = Append(s.way[p], dir)
    BY <1>3
  <2> QED
    BY <1>3, <1>6, <2>1
<1>9. ASSUME NEW q \in Points \ (Nexts(p, better) \cup {p})
      PROVE  t.manhattan[q] = s.manhattan[q] /\ t.way[q] = s.way[q]
  BY <1>2, <1>6
<1>10. t.manhattan = [q \in Points |-> t.manhattan[q]] /\ t.way = [q \in Points |-> t.way[q]]
  BY <1>4
<1> QED
  BY <1>4, <1>5, <1>7, <1>8, <1>9, <1>10 DEF SearchedAs

\* A round of the search keeps its invariant and takes one more point.
LEMMA SearchedKeeps ==
  ASSUME NEW b, NEW src, NEW dst, NEW optimally, SearchCall(b, src, dst, optimally),
         NEW s, SearchInv(b, src, dst, optimally, s), s.queue # <<>>, Head(s.queue) # dst
  PROVE  /\ SearchInv(b, src, dst, optimally, Searched(b, dst, optimally, s))
         /\ TakenPoints(Searched(b, dst, optimally, s)) = TakenPoints(s) \cup {Head(s.queue)}
         /\ Head(s.queue) \notin TakenPoints(s)
<1> DEFINE fixed  == b.fixed
           p      == Head(s.queue)
           better == Better(b, p, s, optimally)
           nexts  == Nexts(p, better)
           fresh  == nexts \ Reached(s)
           F      == Fresh(p, s, better)
           k      == Level(s, p)
           M(dir) == NextManhattan(b, p, dir, s, optimally)
           t      == SearchedFrom(b, p, s, better, optimally)
<1>0. Searched(b, dst, optimally, s) = t
  BY DEF Searched
<1>1. /\ s \in SearchStates
      /\ Enumerates(s.queue, Queued(s))
      /\ QueueSorted(s)
      /\ ManhattanFits(s, optimally)
      /\ TakenClosed(fixed, s)
      /\ WaysShortest(fixed, src, s)
      /\ src \in Reached(s)
      /\ dst \notin TakenPoints(s)
  BY DEF SearchInv
<1>2. /\ p \in Queued(s) /\ p = s.queue[1] /\ Len(s.queue) \in Nat /\ Len(s.queue) >= 1
      /\ Enumerates(Tail(s.queue), Queued(s) \ {p})
      /\ Len(Tail(s.queue)) = Len(s.queue) - 1
      /\ \A i \in 1 .. Len(s.queue) - 1 : Tail(s.queue)[i] = s.queue[i + 1]
  BY <1>1, EnumerateTail
<1>3. p \in Points /\ p \in Reached(s) /\ p \notin TakenPoints(s)
  BY <1>2 DEF Queued, Reached
<1>4. ASSUME NEW dir \in Directions, Neighbour(p, dir) \in Points \ fixed,
             Neighbour(p, dir) \notin TakenPoints(s)
      PROVE  NextIs(b, src, p, dir, s, optimally)
  BY <1>4, NextMoves
<1>5. better \in SUBSET Directions
  BY DEF Better
<1>6. ASSUME NEW dir \in better
      PROVE  /\ dir \in Directions /\ Neighbour(p, dir) \in Points \ fixed
             /\ Neighbour(p, dir) \notin TakenPoints(s) /\ Neighbour(p, dir) # p
             /\ NextIs(b, src, p, dir, s, optimally)
  <2>1. dir \in Directions /\ Neighbour(p, dir) \in Points \ fixed /\ Neighbour(p, dir) \notin TakenPoints(s)
    BY DEF Better, Free, TakenPoints
  <2>2. NextIs(b, src, p, dir, s, optimally)
    BY <1>4, <2>1
  <2> QED
    BY <2>1, <2>2 DEF NextIs
<1>7. ASSUME NEW dir \in Directions, Neighbour(p, dir) \in Points \ fixed,
             Neighbour(p, dir) \notin TakenPoints(s), dir \notin better
      PROVE  Neighbour(p, dir) \in Reached(s)
  <2>1. ~ (s.manhattan[Neighbour(p, dir)] > M(dir))
    BY <1>7 DEF Better, Free, TakenPoints
  <2>2. M(dir) \in -127 .. 126
    BY <1>4, <1>7 DEF NextIs, Taken, NotReached
  <2>3. s.manhattan[Neighbour(p, dir)] \in Taken .. NotReached
    BY <1>1, <1>7 DEF SearchStates
  <2> HIDE DEF M, p
  <2> DEFINE m == s.manhattan[Neighbour(p, dir)]
  <2>5. m \in -128 .. 127
    BY <2>3 DEF Taken, NotReached
  <2>6. ~ (m > M(dir))
    BY <2>1
  <2> HIDE DEF m
  <2>7. m # 127
    BY ONLY <2>2, <2>5, <2>6
  <2>4. s.manhattan[Neighbour(p, dir)] # NotReached
    BY <2>7 DEF NotReached, m
  <2> QED
    BY <1>7, <2>4 DEF Reached
<1>8. /\ nexts \subseteq Points \ fixed /\ p \notin nexts /\ nexts \cap TakenPoints(s) = {}
      /\ \A q \in nexts : \E dir \in better : q = Neighbour(p, dir)
      /\ \A dir \in better : Neighbour(p, dir) \in nexts
  BY <1>6 DEF Nexts
<1> HIDE DEF better
<1>9a. /\ nexts = Nexts(p, better) /\ t = SearchedFrom(b, p, s, better, optimally)
       /\ fresh = Nexts(p, better) \ Reached(s)
  OBVIOUS
<1> HIDE DEF nexts, t, p, fresh
<1>9. /\ t.queue = Tail(s.queue) \o F
      /\ t = [queue |-> t.queue, manhattan |-> t.manhattan, way |-> t.way]
      /\ t.manhattan = [q \in Points |-> t.manhattan[q]]
      /\ t.way = [q \in Points |-> t.way[q]]
      /\ t.manhattan[p] = Taken /\ t.way[p] = s.way[p]
      /\ \A dir \in better : /\ t.manhattan[Neighbour(p, dir)] = M(dir)
                             /\ t.way[Neighbour(p, dir)] = Append(s.way[p], dir)
      /\ \A q \in Points \ (nexts \cup {p}) : t.manhattan[q] = s.manhattan[q] /\ t.way[q] = s.way[q]
  <2>1. Nexts(p, better) \subseteq Points /\ p \notin Nexts(p, better)
    BY <1>8, <1>9a
  <2>2. SearchedAs(t, b, p, s, better, optimally)
    BY ONLY <1>3, <1>5, <1>9a, <2>1, SearchedFromIs
  <2> QED
    BY ONLY <1>9a, <2>2 DEF SearchedAs, F, M
<1>10. Enumerates(F, fresh)
  BY <1>3, <1>5, <1>8, <1>9a, FreshIs
<1>11. Taken = -128 /\ NotReached = 127
  BY DEF Taken, NotReached
<1>12. ASSUME NEW dir \in better
       PROVE  /\ M(dir) \in -127 .. 126 /\ InLevel(M(dir), k + 1, optimally)
              /\ Shortest(fixed, src, Append(s.way[p], dir), Neighbour(p, dir))
              /\ Len(Append(s.way[p], dir)) = k + 1
              /\ Neighbour(p, dir) \in Reached(s) => Level(s, Neighbour(p, dir)) = k + 1
  BY <1>6, <1>11 DEF NextIs
<1> HIDE DEF better, nexts, fresh, F, k, M, t, p, fixed
<1>13. ASSUME NEW q \in nexts
       PROVE  /\ t.manhattan[q] \in -127 .. 126
              /\ InLevel(t.manhattan[q], k + 1, optimally)
              /\ Shortest(fixed, src, t.way[q], q)
              /\ Level(t, q) = k + 1
              /\ q \in Reached(s) => Level(s, q) = k + 1
  <2>1. PICK dir \in better : q = Neighbour(p, dir)
    BY <1>8
  <2>2. t.manhattan[q] = M(dir) /\ t.way[q] = Append(s.way[p], dir)
    BY <1>9, <2>1
  <2>3. /\ M(dir) \in -127 .. 126 /\ InLevel(M(dir), k + 1, optimally)
        /\ Shortest(fixed, src, Append(s.way[p], dir), q)
        /\ Len(Append(s.way[p], dir)) = k + 1
        /\ q \in Reached(s) => Level(s, q) = k + 1
    BY <1>12, <2>1
  <2> QED
    BY <2>2, <2>3 DEF Level
<1>14. Reached(t) = Reached(s) \cup nexts
  <2>1. ASSUME NEW q \in Points PROVE q \in Reached(t) <=> q \in Reached(s) \cup nexts
    <3>1. CASE q \in nexts
      <4>0. t.manhattan[q] \in -127 .. 126
        BY <1>13, <3>1
      <4>1. t.manhattan[q] # NotReached
        BY ONLY <1>11, <4>0
      <4> QED
        BY <3>1, <4>1 DEF Reached
    <3>2. CASE q = p
      BY <1>3, <1>9, <1>11, <3>2 DEF Reached
    <3>3. CASE q \notin nexts /\ q # p
      BY <1>9, <3>3 DEF Reached
    <3> QED
      BY <3>1, <3>2, <3>3
  <2>2. Reached(t) \subseteq Points /\ Reached(s) \cup nexts \subseteq Points
    BY <1>8 DEF Reached
  <2> QED
    BY <2>1, <2>2
<1>15. TakenPoints(t) = TakenPoints(s) \cup {p}
  <2>1. ASSUME NEW q \in Points PROVE q \in TakenPoints(t) <=> q \in TakenPoints(s) \cup {p}
    <3>1. CASE q \in nexts
      <4>0. t.manhattan[q] \in -127 .. 126
        BY <1>13, <3>1
      <4>1. t.manhattan[q] # Taken
        BY ONLY <1>11, <4>0
      <4> QED
        BY <1>8, <3>1, <4>1 DEF TakenPoints
    <3>2. CASE q = p
      BY <1>9, <3>2 DEF TakenPoints
    <3>3. CASE q \notin nexts /\ q # p
      BY <1>9, <3>3 DEF TakenPoints
    <3> QED
      BY <3>1, <3>2, <3>3
  <2>2. TakenPoints(t) \subseteq Points /\ TakenPoints(s) \cup {p} \subseteq Points
    BY <1>3 DEF TakenPoints
  <2> QED
    BY <2>1, <2>2
<1>16. Queued(t) = (Queued(s) \ {p}) \cup fresh /\ (Queued(s) \ {p}) \cap fresh = {}
  BY <1>8, <1>14, <1>15 DEF Queued, fresh
<1>17. Enumerates(t.queue, Queued(t))
  BY <1>2, <1>9, <1>10, <1>16, EnumerateMore
<1>18. \A q \in Reached(s) : Level(t, q) = Level(s, q)
  <2>1. ASSUME NEW q \in Reached(s), q \notin nexts PROVE Level(t, q) = Level(s, q)
    BY <1>9, <2>1 DEF Level, Reached
  <2> QED
    BY <1>13, <2>1
<1>19. WaysShortest(fixed, src, t)
  <2>1. ASSUME NEW q \in Reached(s), q \notin nexts PROVE Shortest(fixed, src, t.way[q], q)
    <3>1. t.way[q] = s.way[q]
      BY <1>9, <2>1 DEF Reached
    <3> QED
      BY <1>1, <3>1 DEF WaysShortest
  <2> QED
    BY <1>13, <1>14, <2>1 DEF WaysShortest
<1>20. TakenClosed(fixed, t)
  <2>1. ASSUME NEW q \in TakenPoints(s) PROVE OpenNeighbours(fixed, q) \subseteq Reached(t)
    BY <1>1, <1>14 DEF TakenClosed
  <2>2. ASSUME NEW q \in OpenNeighbours(fixed, p) PROVE q \in Reached(t)
    <3>1. PICK dir \in Directions : q = Neighbour(p, dir)
      BY <2>2 DEF OpenNeighbours
    <3>2. Neighbour(p, dir) \in Points \ fixed
      BY <2>2, <3>1 DEF OpenNeighbours
    <3>3. CASE q \in TakenPoints(s)
      BY <1>11, <1>14, <3>3 DEF Reached, TakenPoints
    <3>4. CASE dir \in better
      BY <1>8, <1>14, <3>1, <3>4
    <3>5. CASE q \notin TakenPoints(s) /\ dir \notin better
      <4>1. q \in Reached(s)
        BY <1>7, <3>1, <3>2, <3>5 DEF p, fixed, better
      <4> QED
        BY <1>14, <4>1
    <3> QED
      BY <3>3, <3>4, <3>5
  <2> QED
    BY <1>15, <2>1, <2>2 DEF TakenClosed
<1>21. ManhattanFits(t, optimally)
  <2>1. ASSUME NEW q \in Queued(t) PROVE InLevel(t.manhattan[q], Level(t, q), optimally)
    <3>1. CASE q \in nexts
      BY <1>13, <3>1
    <3>2. CASE q \notin nexts
      <4>1. q \in Queued(s) /\ q # p /\ q \in Reached(s) /\ q \in Points
        BY <1>16, <3>2 DEF fresh, Queued, Reached
      <4>2. t.manhattan[q] = s.manhattan[q] /\ Level(t, q) = Level(s, q)
        BY <1>9, <1>18, <3>2, <4>1
      <4> QED
        BY <1>1, <4>1, <4>2 DEF ManhattanFits
    <3> QED
      BY <3>1, <3>2
  <2> QED
    BY <2>1 DEF ManhattanFits
<1>22. t \in SearchStates
  <2>1. t.queue \in Seq(Points)
    <3>1. t.queue \in Seq(Queued(t)) /\ Queued(t) \subseteq Points
      BY <1>17 DEF Enumerates, Queued, Reached
    <3> QED
      BY <3>1
  <2>2. ASSUME NEW q \in Points PROVE t.manhattan[q] \in Taken .. NotReached
    <3>1. CASE q \in nexts
      BY <1>11, <1>13, <3>1
    <3>2. CASE q = p
      BY <1>9, <1>11, <3>2
    <3>3. CASE q \notin nexts /\ q # p
      <4>1. t.manhattan[q] = s.manhattan[q]
        BY <1>9, <3>3
      <4>2. s.manhattan[q] \in Taken .. NotReached
        BY <1>1 DEF SearchStates
      <4> QED
        BY <4>1, <4>2
    <3> QED
      BY <3>1, <3>2, <3>3
  <2>3. ASSUME NEW q \in Points PROVE t.way[q] \in Seq(Directions)
    <3>1. CASE q \in nexts
      BY <1>13, <3>1 DEF Shortest, Leads
    <3>2. CASE q \notin nexts
      <4>1. t.way[q] = s.way[q]
        BY <1>9, <3>2
      <4>2. s.way[q] \in Seq(Directions)
        BY <1>1 DEF SearchStates
      <4> QED
        BY <4>1, <4>2
    <3> QED
      BY <3>1, <3>2
  <2>4. t.manhattan \in [Points -> Taken .. NotReached] /\ t.way \in [Points -> Seq(Directions)]
    BY <1>9, <2>2, <2>3
  <2> QED
    BY <1>9, <2>1, <2>4 DEF SearchStates
<1>23. ASSUME NEW q \in Queued(s) PROVE Level(s, q) \in Nat /\ k <= Level(s, q) /\ Level(s, q) <= k + 1
  <2>1. PICK i \in 1 .. Len(s.queue) : s.queue[i] = q
    BY <1>1 DEF Enumerates
  <2>2. 1 \in 1 .. Len(s.queue) /\ 1 <= i
    BY <1>2
  <2>3. Level(s, q) \in Nat
    BY <1>1 DEF WaysShortest, Shortest, Leads, Level, Queued
  <2> QED
    BY <1>1, <1>2, <2>1, <2>2, <2>3 DEF QueueSorted, k
<1>24. k \in Nat
  BY <1>2, <1>23 DEF k
<1> DEFINE n == Len(s.queue) - 1
<1>25. n \in Nat /\ Len(Tail(s.queue)) = n
  BY <1>2
<1>26. ASSUME NEW i \in 1 .. Len(t.queue)
       PROVE  \/ /\ i <= n /\ i + 1 \in 1 .. Len(s.queue) /\ t.queue[i] = s.queue[i + 1]
                 /\ Level(t, t.queue[i]) = Level(s, s.queue[i + 1])
                 /\ k <= Level(t, t.queue[i]) /\ Level(t, t.queue[i]) <= k + 1
              \/ i > n /\ Level(t, t.queue[i]) = k + 1
  <2>1. Tail(s.queue) \in Seq(Queued(s) \ {p}) /\ F \in Seq(fresh)
    BY <1>2, <1>10 DEF Enumerates
  <2>2. CASE i <= n
    <3>1. i \in 1 .. Len(s.queue) - 1 /\ i + 1 \in 1 .. Len(s.queue)
      BY <1>2, <2>2
    <3>2. t.queue[i] = Tail(s.queue)[i] /\ Tail(s.queue)[i] = s.queue[i + 1]
      BY <1>2, <1>9, <1>25, <2>1, <2>2
    <3>3. s.queue[i + 1] \in Queued(s)
      BY <1>1, <3>1 DEF Enumerates
    <3>4. Level(t, s.queue[i + 1]) = Level(s, s.queue[i + 1])
      BY <1>18, <3>3 DEF Queued
    <3> QED
      BY <1>23, <2>2, <3>1, <3>2, <3>3, <3>4
  <2>3. CASE ~(i <= n)
    <3>1. Len(t.queue) = n + Len(F) /\ Len(F) \in Nat
      BY <1>9, <1>25, <2>1
    <3>2. i - n \in 1 .. Len(F) /\ i \in Nat
      BY <1>25, <2>3, <3>1
    <3>3. t.queue[i] = F[i - n]
      BY <1>9, <1>25, <2>1, <2>3, <3>1
    <3>4. F[i - n] \in fresh
      BY <2>1, <3>2
    <3>5. Level(t, t.queue[i]) = k + 1
      BY <1>13, <3>3, <3>4 DEF fresh
    <3> QED
      BY <1>25, <2>3, <3>2, <3>5
  <2> QED
    BY <2>2, <2>3
<1>27. QueueSorted(t)
  <2>0. Len(t.queue) \in Nat
    BY <1>17 DEF Enumerates
  <2> HIDE DEF n
  <2>1. ASSUME NEW i \in 1 .. Len(t.queue), NEW j \in 1 .. Len(t.queue), i <= j
        PROVE  Level(t, t.queue[i]) <= Level(t, t.queue[j])
    <3>1. CASE j <= n
      <4>1. i <= n
        BY <1>25, <2>0, <2>1, <3>1
      <4>2. /\ i + 1 \in 1 .. Len(s.queue) /\ Level(t, t.queue[i]) = Level(s, s.queue[i + 1])
            /\ j + 1 \in 1 .. Len(s.queue) /\ Level(t, t.queue[j]) = Level(s, s.queue[j + 1])
        <5>1. ~(i > n) /\ ~(j > n)
          BY <1>25, <2>0, <3>1, <4>1
        <5> QED
          BY ONLY <1>26, <5>1, i \in 1 .. Len(t.queue), j \in 1 .. Len(t.queue)
      <4>3. i + 1 <= j + 1
        BY <2>0, <2>1
      <4> QED
        BY <1>1, <4>2, <4>3 DEF QueueSorted
    <3>2. CASE ~(j <= n)
      <4>1. Level(t, t.queue[j]) = k + 1
        BY <1>26, <3>2
      <4>2. Level(t, t.queue[i]) <= k + 1
        BY <1>24, <1>26
      <4> QED
        BY <4>1, <4>2
    <3> QED
      BY <3>1, <3>2
  <2>2. ASSUME NEW j \in 1 .. Len(t.queue)
        PROVE  Level(t, t.queue[j]) <= Level(t, t.queue[1]) + 1
    <3>1. 1 \in 1 .. Len(t.queue)
      BY <2>0
    <3>2. ASSUME NEW i \in 1 .. Len(t.queue)
          PROVE  /\ Level(t, t.queue[i]) \in Int
                 /\ k <= Level(t, t.queue[i]) /\ Level(t, t.queue[i]) <= k + 1
      <4>1. t.queue[i] \in Reached(t)
        BY <1>17 DEF Enumerates, Queued
      <4>2. Level(t, t.queue[i]) \in Int
        BY <1>19, <4>1 DEF WaysShortest, Shortest, Leads, Level
      <4> QED
        BY <1>24, <1>26, <4>2
    <3> QED
      BY <1>24, <3>1, <3>2
  <2> QED
    BY <2>1, <2>2 DEF QueueSorted
<1>28. src \in Reached(t) /\ dst \notin TakenPoints(t)
  <2>1. dst # p
    BY DEF p
  <2> QED
    BY <1>1, <1>14, <1>15, <2>1
<1>29. SearchInv(b, src, dst, optimally, t)
  BY <1>17, <1>19, <1>20, <1>21, <1>22, <1>27, <1>28 DEF SearchInv, fixed
<1> QED
  BY <1>0, <1>3, <1>15, <1>29 DEF p, t, better

\* NoWay is no way.
LEMMA NoWayIs == NoWay \notin Seq(Directions)
<1>1. ASSUME NoWay \in Seq(Directions) PROVE FALSE
  <2>1. Len(NoWay) = 1 /\ NoWay[1] = -1
    BY DEF NoWay
  <2>2. NoWay[1] \in Directions
    BY <1>1, <2>1
  <2> QED
    BY <2>1, <2>2 DEF Directions
<1> QED
  BY <1>1

\* The search begins with the invariant.
LEMMA BeginIs ==
  ASSUME NEW b, NEW src, NEW dst, NEW optimally, SearchCall(b, src, dst, optimally)
  PROVE  SearchInv(b, src, dst, optimally, SearchBegin(src))
<1> DEFINE s == SearchBegin(src)
<1>1. src \in Points /\ dst \in Points
  BY DEF SearchCall
<1>2. /\ s.queue = <<src>> /\ Len(s.queue) = 1
      /\ s.manhattan = [q \in Points |-> IF q = src THEN 0 ELSE NotReached]
      /\ s.way = [q \in Points |-> <<>>]
      /\ s = [queue |-> s.queue, manhattan |-> s.manhattan, way |-> s.way]
  BY DEF SearchBegin
<1> HIDE DEF s
<1>3. /\ \A q \in Points : s.way[q] = <<>>
      /\ \A q \in Points : s.manhattan[q] = IF q = src THEN 0 ELSE 127
      /\ Taken = -128 /\ NotReached = 127
  BY <1>2 DEF NotReached, Taken
<1>4. s \in SearchStates
  <2>1. s.queue \in Seq(Points)
    BY <1>1, <1>2
  <2>2. s.manhattan \in [Points -> Taken .. NotReached]
    BY <1>2, <1>3
  <2>3. s.way \in [Points -> Seq(Directions)]
    BY <1>2
  <2> QED
    BY <1>2, <2>1, <2>2, <2>3 DEF SearchStates
<1>5. Reached(s) = {src}
  BY <1>1, <1>3 DEF Reached
<1>6. TakenPoints(s) = {}
  BY <1>1, <1>3 DEF TakenPoints
<1>7. Queued(s) = {src}
  BY <1>5, <1>6 DEF Queued
<1>8. Enumerates(s.queue, Queued(s))
  BY <1>2, <1>7, EnumerateOne
<1>9. Level(s, src) = 0 /\ s.queue[1] = src /\ s.manhattan[src] = 0
  BY <1>1, <1>2, <1>3 DEF Level
<1>10. QueueSorted(s)
  <2>1. \A i \in 1 .. Len(s.queue) : i = 1
    BY <1>2
  <2>2. \A i \in 1 .. Len(s.queue) : Level(s, s.queue[i]) = 0
    BY <1>9, <2>1
  <2> QED
    BY <1>9, <2>2 DEF QueueSorted
<1>11. ManhattanFits(s, optimally)
  <2>1. InLevel(0, 0, optimally)
    BY DEF InLevel
  <2> QED
    BY <1>7, <1>9, <2>1 DEF ManhattanFits
<1>12. TakenClosed(b.fixed, s)
  BY <1>6 DEF TakenClosed
<1>13. WaysShortest(b.fixed, src, s)
  <2>1. s.way[src] = <<>> /\ Len(<<>>) = 0
    BY <1>1, <1>3
  <2> QED
    BY <1>1, <1>5, <2>1, LeadsNowhere DEF WaysShortest, Shortest
<1>14. src \in Reached(s) /\ dst \notin TakenPoints(s)
  BY <1>5, <1>6
<1>15. SearchInv(b, src, dst, optimally, s)
  BY <1>4, <1>8, <1>10, <1>11, <1>12, <1>13, <1>14 DEF SearchInv
<1> QED
  BY <1>15 DEF s

\* What a function that looks for a way finds.
Finds(fixed, src, dst, way) ==
  IF way = NoWay THEN ~Reachable(fixed, src, dst) ELSE Shortest(fixed, src, way, dst)

\* The search finds a shortest way, or there is none.
LEMMA SearchMoveIs ==
  ASSUME NEW b, NEW src, NEW dst, NEW optimally, SearchCall(b, src, dst, optimally)
  PROVE  Finds(b.fixed, src, dst, SearchMove(b, src, dst, optimally))
<1> DEFINE round == [s \in SearchStates |-> Searched(b, dst, optimally, s)]
           begin == SearchBegin(src)
           I     == {s \in SearchStates : SearchInv(b, src, dst, optimally, s)}
           E     == {s \in I : s.queue = <<>> \/ Head(s.queue) = dst}
           U     == Points \ {dst}
           g     == [s \in I |-> TakenPoints(s)]
           N     == Height * Width
           end   == Rounds(round, begin, N)
<1>1. SearchMove(b, src, dst, optimally) = IF end.queue = <<>> THEN NoWay ELSE end.way[dst]
  BY DEF SearchMove
<1>2. \A s \in I : s \in SearchStates /\ SearchInv(b, src, dst, optimally, s)
                   /\ round[s] = Searched(b, dst, optimally, s)
  OBVIOUS
<1>3. \A s \in E : s \in I /\ round[s] = s
  BY DEF Searched
<1>4. ASSUME NEW s \in I \ E
      PROVE  round[s] \in I /\ g[s] \subseteq g[round[s]] /\ g[s] # g[round[s]]
  <2>1. SearchInv(b, src, dst, optimally, s) /\ s.queue # <<>> /\ Head(s.queue) # dst
        /\ round[s] = Searched(b, dst, optimally, s)
    OBVIOUS
  <2> DEFINE u == Searched(b, dst, optimally, s)
  <2>2. /\ SearchInv(b, src, dst, optimally, u) /\ TakenPoints(u) = TakenPoints(s) \cup {Head(s.queue)}
        /\ Head(s.queue) \notin TakenPoints(s)
    BY <2>1, SearchedKeeps
  <2> HIDE DEF u
  <2>3. u \in I
    BY <2>2 DEF SearchInv
  <2>4. round[s] = u
    BY <2>1 DEF u
  <2> HIDE DEF round, I
  <2>5. g[s] = TakenPoints(s) /\ g[u] = TakenPoints(u)
    BY <2>3
  <2> QED
    BY <2>2, <2>3, <2>4, <2>5
<1>5. begin \in I
  <2>1. SearchInv(b, src, dst, optimally, begin)
    BY BeginIs
  <2> QED
    BY <2>1 DEF SearchInv
<1>6. Preserves(round, I)
  <2>1. I \subseteq DOMAIN round
    OBVIOUS
  <2>2. \A s \in I : round[s] \in I
    BY <1>3, <1>4
  <2> QED
    BY <2>1, <2>2 DEF Preserves
<1>7. g \in [I -> SUBSET U]
  <2>1. \A s \in I : TakenPoints(s) \in SUBSET U
    BY DEF SearchInv, TakenPoints
  <2> QED
    BY <2>1
<1>8. N \in Nat /\ Cardinality(U) = N - 1 /\ IsFiniteSet(U)
  <2>1. dst \in Points
    BY DEF SearchCall
  <2> QED
    BY <2>1, PointsCounted, PointsFinite
<1>9. E \in SUBSET I
  OBVIOUS
<1>10. \A s \in I : g[s] \in SUBSET U /\ IsFiniteSet(g[s]) /\ Cardinality(g[s]) \in Nat /\ Cardinality(g[s]) <= N - 1
  <2>1. \A s \in I : g[s] \in SUBSET U
    BY <1>7
  <2> HIDE DEF g, U
  <2> QED
    BY <1>8, <2>1, FS_Subset, FS_CardinalityType
<1> HIDE DEF round, begin, E, U, g, N, I
<1>11. end \in I
  BY <1>5, <1>6, <1>8, RoundsStep
<1>12. end \in E
  <2>1. \/ Rounds(round, begin, N) \in E \/ Cardinality(g[Rounds(round, begin, N)]) >= N
    BY <1>3, <1>4, <1>5, <1>6, <1>7, <1>8, <1>9, GrowingEnds
  <2>2. Cardinality(g[end]) \in Nat /\ Cardinality(g[end]) <= N - 1
    BY <1>10, <1>11
  <2> QED
    BY <1>8, <2>1, <2>2
<1> HIDE DEF end
<1>13. SearchInv(b, src, dst, optimally, end) /\ (end.queue = <<>> \/ Head(end.queue) = dst)
  BY <1>11, <1>12 DEF E, I
<1>14. CASE end.queue = <<>>
  <2>1. Queued(end) = {}
    BY <1>13, <1>14 DEF SearchInv, Enumerates
  <2>2. Reached(end) \subseteq TakenPoints(end)
    BY <2>1 DEF Queued
  <2>3. ClosedSet(b.fixed, Reached(end))
    BY <1>13, <2>2 DEF SearchInv, TakenClosed, ClosedSet
  <2>4. src \in Reached(end) /\ dst \notin Reached(end) /\ src \in Points
    BY <1>13, <2>2 DEF SearchInv, SearchCall
  <2>5. ~Reachable(b.fixed, src, dst)
    BY <2>3, <2>4, WayStays DEF Reachable
  <2> QED
    BY <1>1, <1>14, <2>5 DEF Finds
<1>15. CASE end.queue # <<>>
  <2>1. Head(end.queue) = dst /\ Head(end.queue) \in Queued(end)
    BY <1>13, <1>15, EnumerateTail DEF SearchInv
  <2>2. Shortest(b.fixed, src, end.way[dst], dst)
    BY <1>13, <2>1 DEF SearchInv, WaysShortest, Queued
  <2>3. end.way[dst] # NoWay
    BY <2>2, NoWayIs DEF Shortest, Leads
  <2> QED
    BY <1>1, <1>15, <2>2, <2>3 DEF Finds
<1> QED
  BY <1>14, <1>15

-----------------------------------------------------------------------------
(* Near destinations.                                                      *)

\* The least number of a set is in the set.
LEMMA MinIs ==
  ASSUME NEW T \in SUBSET Nat, T # {}
  PROVE  Min(T) \in T
<1>1. PICK n \in T : \A m \in T : n <= m
  BY Least
<1> QED
  BY <1>1 DEF Min

\* The first points of a way.
LEMMA FirstSteps ==
  ASSUME NEW p \in Int \X Int, NEW way
  PROVE  /\ After(p, way, 0) = p
         /\ After(p, way, 1) = Neighbour(p, way[1])
         /\ After(p, way, 2) = Neighbour(After(p, way, 1), way[2])
         /\ After(p, way, 3) = Neighbour(After(p, way, 2), way[3])
         /\ After(p, way, 4) = Neighbour(After(p, way, 3), way[4])
         /\ After(p, way, 5) = Neighbour(After(p, way, 4), way[5])
         /\ After(p, way, 6) = Neighbour(After(p, way, 5), way[6])
<1>1. /\ After(p, way, 0) = p
      /\ \A n \in Nat : After(p, way, n + 1) = Neighbour(After(p, way, n), way[n + 1])
  BY AfterIs
<1>2. /\ After(p, way, 0 + 1) = Neighbour(After(p, way, 0), way[0 + 1])
      /\ After(p, way, 1 + 1) = Neighbour(After(p, way, 1), way[1 + 1])
      /\ After(p, way, 2 + 1) = Neighbour(After(p, way, 2), way[2 + 1])
      /\ After(p, way, 3 + 1) = Neighbour(After(p, way, 3), way[3 + 1])
      /\ After(p, way, 4 + 1) = Neighbour(After(p, way, 4), way[4 + 1])
      /\ After(p, way, 5 + 1) = Neighbour(After(p, way, 5), way[5 + 1])
  BY ONLY <1>1
<1> QED
  BY <1>1, <1>2

\* Lines of up to two steps.
LEMMA ShortLines ==
  ASSUME NEW d
  PROVE  /\ [i \in 1 .. 0 |-> d] = <<>>
         /\ [i \in 1 .. 1 |-> d] = <<d>>
         /\ [i \in 1 .. 2 |-> d] = <<d, d>>
OBVIOUS

\* The four neighbours of a point.
LEMMA Neighbours ==
  ASSUME NEW p \in Int \X Int
  PROVE  /\ p[1] \in Int /\ p[2] \in Int /\ p = <<p[1], p[2]>>
         /\ Neighbour(p, Up) = <<p[1] - 1, p[2]>>
         /\ Neighbour(p, Right) = <<p[1], p[2] + 1>>
         /\ Neighbour(p, Down) = <<p[1] + 1, p[2]>>
         /\ Neighbour(p, Left) = <<p[1], p[2] - 1>>
BY DEF Neighbour, Delta, Up, Right, Down, Left

\* Two steps in one direction.
LEMMA TwoSteps ==
  ASSUME NEW p \in Int \X Int
  PROVE  /\ Neighbour(Neighbour(p, Up), Up) = <<p[1] - 2, p[2]>>
         /\ Neighbour(Neighbour(p, Right), Right) = <<p[1], p[2] + 2>>
         /\ Neighbour(Neighbour(p, Down), Down) = <<p[1] + 2, p[2]>>
         /\ Neighbour(Neighbour(p, Left), Left) = <<p[1], p[2] - 2>>
BY DEF Neighbour, Delta, Up, Right, Down, Left

\* Two ways of one step make a way of two.
LEMMA WaysOfTwo ==
  ASSUME NEW d, NEW e
  PROVE  <<d>> \o <<e>> = <<d, e>> /\ Head(<<d, e>>) = d
<1> DEFINE S == {d, e}
           s == <<d>> \o <<e>>
           t == <<d, e>>
<1>1. <<d>> \in Seq(S) /\ <<e>> \in Seq(S) /\ Len(<<d>>) = 1 /\ Len(<<e>>) = 1
      /\ <<d>>[1] = d /\ <<e>>[1] = e
  OBVIOUS
<1>2. t \in Seq(S) /\ Len(t) = 2 /\ t[1] = d /\ t[2] = e /\ Head(t) = d
  OBVIOUS
<1>3. /\ s \in Seq(S) /\ Len(s) = 2
      /\ \A i \in 1 .. 2 : s[i] = IF i <= 1 THEN <<d>>[i] ELSE <<e>>[i - 1]
  <2> HIDE DEF S
  <2> QED
    BY <1>1, ConcatProperties
<1>4. \A i \in 1 .. Len(s) : s[i] = t[i]
  <2>1. 1 \in 1 .. 2 /\ 2 \in 1 .. 2 /\ 2 - 1 = 1
    OBVIOUS
  <2>2. s[1] = d /\ s[2] = e
    BY <1>1, <1>3, <2>1
  <2> QED
    BY <1>2, <1>3, <2>2
<1> HIDE DEF S, s, t
<1>5. s = t
  BY <1>2, <1>3, <1>4, SeqEqual
<1> QED
  BY <1>2, <1>5 DEF s, t

\* Where a line of moves leads.
LEMMA LineIs ==
  ASSUME NEW p \in Int \X Int, NEW q \in Int \X Int
  PROVE  /\ Absolute(p[1] - q[1]) \in Nat /\ Absolute(p[2] - q[2]) \in Nat
         /\ Absolute(p[2] - q[2]) = 0 => q[2] = p[2] /\ Horizontally(p, q[2]) = <<>>
         /\ Absolute(p[1] - q[1]) = 0 => q[1] = p[1] /\ Vertically(p, q[1]) = <<>>
         /\ Absolute(p[2] - q[2]) = 1 =>
              \/ q[2] = p[2] - 1 /\ Horizontally(p, q[2]) = <<Left>>
              \/ q[2] = p[2] + 1 /\ Horizontally(p, q[2]) = <<Right>>
         /\ Absolute(p[1] - q[1]) = 1 =>
              \/ q[1] = p[1] - 1 /\ Vertically(p, q[1]) = <<Up>>
              \/ q[1] = p[1] + 1 /\ Vertically(p, q[1]) = <<Down>>
         /\ Absolute(p[2] - q[2]) = 2 =>
              \/ q[2] = p[2] - 2 /\ Horizontally(p, q[2]) = <<Left, Left>>
              \/ q[2] = p[2] + 2 /\ Horizontally(p, q[2]) = <<Right, Right>>
         /\ Absolute(p[1] - q[1]) = 2 =>
              \/ q[1] = p[1] - 2 /\ Vertically(p, q[1]) = <<Up, Up>>
              \/ q[1] = p[1] + 2 /\ Vertically(p, q[1]) = <<Down, Down>>
<1>1. p[1] \in Int /\ p[2] \in Int /\ q[1] \in Int /\ q[2] \in Int
  OBVIOUS
<1> DEFINE x == p[2] - q[2]
           y == p[1] - q[1]
           h == IF q[2] < p[2] THEN Left ELSE Right
           v == IF q[1] < p[1] THEN Up ELSE Down
<1>2. /\ Horizontally(p, q[2]) = [i \in 1 .. Absolute(x) |-> h]
      /\ Vertically(p, q[1]) = [i \in 1 .. Absolute(y) |-> v]
  BY DEF Horizontally, Vertically
<1>3. /\ Absolute(x) \in Nat /\ Absolute(y) \in Nat
      /\ Absolute(x) = 0 => q[2] = p[2]
      /\ Absolute(y) = 0 => q[1] = p[1]
      /\ Absolute(x) = 1 => (q[2] = p[2] - 1 /\ h = Left) \/ (q[2] = p[2] + 1 /\ h = Right)
      /\ Absolute(y) = 1 => (q[1] = p[1] - 1 /\ v = Up) \/ (q[1] = p[1] + 1 /\ v = Down)
      /\ Absolute(x) = 2 => (q[2] = p[2] - 2 /\ h = Left) \/ (q[2] = p[2] + 2 /\ h = Right)
      /\ Absolute(y) = 2 => (q[1] = p[1] - 2 /\ v = Up) \/ (q[1] = p[1] + 2 /\ v = Down)
  BY <1>1 DEF Absolute
<1> HIDE DEF h, v
<1>4. /\ Absolute(x) = 0 => Horizontally(p, q[2]) = <<>>
      /\ Absolute(x) = 1 => Horizontally(p, q[2]) = <<h>>
      /\ Absolute(x) = 2 => Horizontally(p, q[2]) = <<h, h>>
      /\ Absolute(y) = 0 => Vertically(p, q[1]) = <<>>
      /\ Absolute(y) = 1 => Vertically(p, q[1]) = <<v>>
      /\ Absolute(y) = 2 => Vertically(p, q[1]) = <<v, v>>
  <2> HIDE DEF x, y
  <2> QED
    BY <1>2, ShortLines
<1> QED
  BY <1>3, <1>4

\* Two directions lead to a point at distance two, in either order; the ways that are
\* tried there.
TwoAway(p, q, d, e) ==
  /\ d \in Directions /\ e \in Directions
  /\ q = Neighbour(Neighbour(p, d), e) /\ q = Neighbour(Neighbour(p, e), d)
  /\ d = Head(Horizontally(p, q[2]) \o Vertically(p, q[1]))
  /\ \/ /\ d = e
        /\ \A sides : NearWays(p, q, sides) =
             <<<<d, d>>>> \o [i \in 1 .. 2 |-> Detour(sides[d][i], d)]
     \/ /\ d # e
        /\ \A sides : NearWays(p, q, sides) = <<<<d, e>>, <<e, d>>>>

\* Every point at distance two is two steps away, straight or round a corner.
LEMMA TwoAwayExists ==
  ASSUME NEW p \in Int \X Int, NEW q \in Int \X Int, Distance(p, q) = 2
  PROVE  \E d, e \in Directions : TwoAway(p, q, d, e)
<1> DEFINE h == Horizontally(p, q[2])
           v == Vertically(p, q[1])
           a == Absolute(p[2] - q[2])
           c == Absolute(p[1] - q[1])
<1>1. p[1] \in Int /\ p[2] \in Int /\ q[1] \in Int /\ q[2] \in Int /\ q = <<q[1], q[2]>>
  BY Neighbours
<1>2. a \in Nat /\ c \in Nat /\ a + c = 2
  BY LineIs DEF Distance
<1>3. (a = 0 /\ c = 2) \/ (a = 1 /\ c = 1) \/ (a = 2 /\ c = 0)
  <2> HIDE DEF a, c
  <2> QED
    BY <1>2
<1>4. /\ Up \in Directions /\ Right \in Directions /\ Down \in Directions /\ Left \in Directions
      /\ Up # Right /\ Up # Left /\ Down # Right /\ Down # Left
  BY DEF Directions, Up, Right, Down, Left
<1>5. \A d \in Directions : Neighbour(p, d) \in Int \X Int
  BY NeighbourType
<1>6. \A sides : NearWays(p, q, sides) =
        IF h = <<>> \/ v = <<>>
        THEN <<h \o v>> \o [i \in 1 .. 2 |-> Detour(sides[Head(h \o v)][i], Head(h \o v))]
        ELSE <<h \o v, v \o h>>
  BY DEF NearWays
<1>7. ASSUME NEW d \in Directions, h \o v = <<d, d>>, h = <<>> \/ v = <<>>,
             q = Neighbour(Neighbour(p, d), d)
      PROVE  TwoAway(p, q, d, d)
  <2>1. Head(<<d, d>>) = d
    OBVIOUS
  <2> HIDE DEF h, v
  <2>2. \A sides : NearWays(p, q, sides) = <<<<d, d>>>> \o [i \in 1 .. 2 |-> Detour(sides[d][i], d)]
    BY <1>6, <1>7, <2>1, Zenon
  <2>3. d = Head(h \o v)
    BY <1>7, <2>1
  <2> QED
    BY <1>7, <2>2, <2>3, Zenon DEF TwoAway, h, v
<1>8. ASSUME NEW d \in Directions, NEW e \in Directions, h = <<d>>, v = <<e>>, d # e,
             q = Neighbour(Neighbour(p, d), e), q = Neighbour(Neighbour(p, e), d)
      PROVE  TwoAway(p, q, d, e)
  <2>1. h \o v = <<d, e>> /\ v \o h = <<e, d>> /\ Head(<<d, e>>) = d
    BY <1>8, WaysOfTwo
  <2>2. h # <<>> /\ v # <<>>
    BY <1>8
  <2> HIDE DEF h, v
  <2>3. \A sides : NearWays(p, q, sides) = <<<<d, e>>, <<e, d>>>>
    BY <1>6, <2>1, <2>2
  <2>4. d = Head(h \o v)
    BY <2>1
  <2> QED
    BY <1>8, <2>3, <2>4, Zenon DEF TwoAway, h, v
<1>9. CASE a = 0 /\ c = 2
  <2>1. q[2] = p[2] /\ h = <<>>
    BY <1>9, LineIs
  <2>2. CASE q[1] = p[1] - 2 /\ v = <<Up, Up>>
    <3>1. q = Neighbour(Neighbour(p, Up), Up)
      BY <1>1, <2>1, <2>2, TwoSteps
    <3>2. h \o v = <<Up, Up>>
      BY <2>1, <2>2
    <3> QED
      BY <1>4, <1>7, <2>1, <3>1, <3>2
  <2>3. CASE q[1] = p[1] + 2 /\ v = <<Down, Down>>
    <3>1. q = Neighbour(Neighbour(p, Down), Down)
      BY <1>1, <2>1, <2>3, TwoSteps
    <3>2. h \o v = <<Down, Down>>
      BY <2>1, <2>3
    <3> QED
      BY <1>4, <1>7, <2>1, <3>1, <3>2
  <2> QED
    BY <1>9, <2>2, <2>3, LineIs
<1>10. CASE a = 2 /\ c = 0
  <2>1. q[1] = p[1] /\ v = <<>>
    BY <1>10, LineIs
  <2>2. CASE q[2] = p[2] - 2 /\ h = <<Left, Left>>
    <3>1. q = Neighbour(Neighbour(p, Left), Left)
      BY <1>1, <2>1, <2>2, TwoSteps
    <3>2. h \o v = <<Left, Left>>
      BY <2>1, <2>2
    <3> QED
      BY <1>4, <1>7, <2>1, <3>1, <3>2
  <2>3. CASE q[2] = p[2] + 2 /\ h = <<Right, Right>>
    <3>1. q = Neighbour(Neighbour(p, Right), Right)
      BY <1>1, <2>1, <2>3, TwoSteps
    <3>2. h \o v = <<Right, Right>>
      BY <2>1, <2>3
    <3> QED
      BY <1>4, <1>7, <2>1, <3>1, <3>2
  <2> QED
    BY <1>10, <2>2, <2>3, LineIs
<1>11. CASE a = 1 /\ c = 1
  <2>1. PICK d \in Directions : h = <<d>> /\ ((d = Left /\ q[2] = p[2] - 1) \/ (d = Right /\ q[2] = p[2] + 1))
    BY <1>4, <1>11, LineIs
  <2>2. PICK e \in Directions : v = <<e>> /\ ((e = Up /\ q[1] = p[1] - 1) \/ (e = Down /\ q[1] = p[1] + 1))
    BY <1>4, <1>11, LineIs
  <2>3. d # e
    BY <1>4, <2>1, <2>2
  <2>4. q = Neighbour(Neighbour(p, d), e) /\ q = Neighbour(Neighbour(p, e), d)
    <3> HIDE DEF h, v
    <3>1. /\ Neighbour(p, d) = <<p[1], q[2]>>
          /\ Neighbour(p, e) = <<q[1], p[2]>>
      BY <1>1, <2>1, <2>2, Neighbours
    <3>2. /\ Neighbour(<<p[1], q[2]>>, e) = <<q[1], q[2]>>
          /\ Neighbour(<<q[1], p[2]>>, d) = <<q[1], q[2]>>
      <4>1. <<p[1], q[2]>> \in Int \X Int /\ <<q[1], p[2]>> \in Int \X Int
        BY <1>1
      <4> QED
        BY <1>1, <2>1, <2>2, <4>1, Neighbours
    <3> QED
      BY <1>1, <3>1, <3>2
  <2> QED
    BY <1>8, <2>1, <2>2, <2>3, <2>4
<1> QED
  BY <1>3, <1>9, <1>10, <1>11

\* Two steps may be made in either order.
LEMMA NeighboursCommute ==
  ASSUME NEW p \in Int \X Int, NEW d, NEW e
  PROVE  Neighbour(Neighbour(p, d), e) = Neighbour(Neighbour(p, e), d)
<1>1. \A x : Delta(x)[1] \in Int /\ Delta(x)[2] \in Int
  BY DEF Delta
<1>2. p[1] \in Int /\ p[2] \in Int
  OBVIOUS
<1>3. /\ (p[1] + Delta(d)[1]) + Delta(e)[1] = (p[1] + Delta(e)[1]) + Delta(d)[1]
      /\ (p[2] + Delta(d)[2]) + Delta(e)[2] = (p[2] + Delta(e)[2]) + Delta(d)[2]
  BY <1>1, <1>2
<1> QED
  BY <1>3 DEF Neighbour

\* Two steps straight on are the only way of two to their end.
LEMMA StraightOn ==
  ASSUME NEW p \in Int \X Int, NEW d \in Directions, NEW e \in Directions, NEW f \in Directions,
         Neighbour(Neighbour(p, d), d) = Neighbour(Neighbour(p, e), f)
  PROVE  d = e
<1>1. p[1] \in Int /\ p[2] \in Int
  OBVIOUS
<1>2. /\ Delta(0) = <<-1, 0>> /\ Delta(1) = <<0, 1>> /\ Delta(2) = <<1, 0>> /\ Delta(3) = <<0, -1>>
  BY DEF Delta, Up, Right, Down, Left
<1>3. d \in {0, 1, 2, 3} /\ e \in {0, 1, 2, 3} /\ f \in {0, 1, 2, 3}
  BY DEF Directions
<1>4. /\ (p[1] + Delta(d)[1]) + Delta(d)[1] = (p[1] + Delta(e)[1]) + Delta(f)[1]
      /\ (p[2] + Delta(d)[2]) + Delta(d)[2] = (p[2] + Delta(e)[2]) + Delta(f)[2]
  BY DEF Neighbour
<1> QED
  BY ONLY <1>1, <1>2, <1>3, <1>4

\* A neighbour is at distance one.
LEMMA NeighbourAway ==
  ASSUME NEW p \in Int \X Int, NEW dir \in Directions
  PROVE  Distance(p, Neighbour(p, dir)) = 1
<1>1. p[1] \in Int /\ p[2] \in Int
  OBVIOUS
<1>2. dir = Up \/ dir = Right \/ dir = Down \/ dir = Left
  BY DEF Directions, Up, Right, Down, Left
<1>3. Neighbour(p, dir) \in {<<p[1] - 1, p[2]>>, <<p[1], p[2] + 1>>, <<p[1] + 1, p[2]>>, <<p[1], p[2] - 1>>}
  BY <1>2, Neighbours
<1> QED
  BY <1>1, <1>3 DEF Distance, Absolute

\* A way whose points are open leads to a free point.
LEMMA OpenLeads ==
  ASSUME NEW b, NEW p \in Points, NEW way \in Seq(Directions), way # <<>>, IsOpen(b, p, way),
         NEW q \in Points \ b.fixed, After(p, way, Len(way)) = q
  PROVE  Leads(b.fixed, p, way, q)
<1>1. Len(way) \in Nat /\ Len(way) >= 1
  OBVIOUS
<1>2. ASSUME NEW i \in 1 .. Len(way) PROVE After(p, way, i) \in Points \ b.fixed
  <2>1. CASE i = Len(way)
    BY <2>1
  <2>2. CASE i # Len(way)
    <3>1. i \in 1 .. Len(way) - 1
      BY <1>1, <2>2
    <3> QED
      BY <3>1 DEF IsOpen, Free
  <2> QED
    BY <2>1, <2>2
<1> QED
  BY <1>2 DEF Leads

\* Two steps that are open lead to their end.
LEMMA TwoLeads ==
  ASSUME NEW b, NEW p \in Points, NEW d \in Directions, NEW e \in Directions,
         Neighbour(Neighbour(p, d), e) \in Points \ b.fixed, IsOpen(b, p, <<d, e>>)
  PROVE  Leads(b.fixed, p, <<d, e>>, Neighbour(Neighbour(p, d), e))
<1> DEFINE way == <<d, e>>
<1>1. way \in Seq(Directions) /\ Len(way) = 2 /\ way[1] = d /\ way[2] = e /\ way # <<>>
  OBVIOUS
<1> HIDE DEF way
<1>2. After(p, way, 2) = Neighbour(Neighbour(p, d), e)
  BY <1>1, PointsType, FirstSteps
<1> QED
  BY <1>1, <1>2, OpenLeads DEF way

\* A detour that is open leads two steps on.
LEMMA DetourLeads ==
  ASSUME NEW b, NEW p \in Points, NEW side \in Directions, NEW d \in Directions,
         Neighbour(Neighbour(p, d), d) \in Points \ b.fixed, IsOpen(b, p, Detour(side, d))
  PROVE  Leads(b.fixed, p, Detour(side, d), Neighbour(Neighbour(p, d), d)) /\ Len(Detour(side, d)) = 4
<1> DEFINE way == Detour(side, d)
           o   == Opposite(side)
           q   == Neighbour(Neighbour(p, d), d)
<1>1. p \in Int \X Int /\ q \in Int \X Int /\ Neighbour(p, side) \in Int \X Int /\ Neighbour(p, d) \in Int \X Int
  BY PointsType, NeighbourType
<1>2. o \in Directions
  BY DEF Directions, Opposite
<1>3. /\ way \in Seq(Directions) /\ Len(way) = 4 /\ way # <<>>
      /\ way[1] = side /\ way[2] = d /\ way[3] = d /\ way[4] = o
  BY <1>2 DEF Detour
<1>4. Neighbour(Neighbour(Neighbour(p, side), d), d) = Neighbour(q, side)
  <2>1. Neighbour(Neighbour(p, side), d) = Neighbour(Neighbour(p, d), side)
    BY <1>1, NeighboursCommute
  <2>2. Neighbour(Neighbour(Neighbour(p, d), side), d) = Neighbour(Neighbour(Neighbour(p, d), d), side)
    BY <1>1, NeighboursCommute
  <2> QED
    BY <2>1, <2>2
<1>5. Neighbour(Neighbour(q, side), o) = q
  BY <1>1, NeighbourBack
<1> HIDE DEF way, o, q
<1>6. After(p, way, 4) = q
  BY <1>1, <1>3, <1>4, <1>5, FirstSteps
<1>7. q \in Points \ b.fixed /\ IsOpen(b, p, way)
  BY DEF q, way
<1>8. Leads(b.fixed, p, way, q)
  BY <1>3, <1>6, <1>7, OpenLeads
<1> QED
  BY <1>3, <1>8 DEF way, q

\* The points at distance two that can be reached in two or three steps.
LEMMA TwoStepsAway ==
  ASSUME NEW fixed, NEW p \in Points, NEW q \in Points, Distance(p, q) = 2
  PROVE  /\ q \notin Ball(fixed, p, 1)
         /\ q \in Ball(fixed, p, 3) =>
              \E d, e \in Directions : /\ Neighbour(p, d) \in Points \ fixed
                                       /\ q = Neighbour(Neighbour(p, d), e)
<1>1. p \in Int \X Int /\ q \in Int \X Int
  BY PointsType
<1>2. q # p
  BY DistanceType
<1>3. ASSUME NEW dir \in Directions PROVE q # Neighbour(p, dir)
  BY <1>1, NeighbourAway
<1>4. Ball(fixed, p, 0) = {p} /\ Ball(fixed, p, 0 + 1) = Wider(fixed, Ball(fixed, p, 0))
      /\ Ball(fixed, p, 1 + 1) = Wider(fixed, Ball(fixed, p, 1))
  <2>1. 0 \in Nat /\ 1 \in Nat
    OBVIOUS
  <2>2. Ball(fixed, p, 0 + 1) = Wider(fixed, Ball(fixed, p, 0))
    BY ONLY p \in Points, <2>1, BallNext
  <2>3. Ball(fixed, p, 1 + 1) = Wider(fixed, Ball(fixed, p, 1))
    BY ONLY p \in Points, <2>1, BallNext
  <2> QED
    BY <2>2, <2>3, BallIs
<1>5. 0 + 1 = 1 /\ 1 + 1 = 2
  OBVIOUS
<1>6. Ball(fixed, p, 1) = {p} \cup OpenNeighbours(fixed, p) /\ Ball(fixed, p, 2) = Wider(fixed, Ball(fixed, p, 1))
  <2>1. Ball(fixed, p, 1) = Wider(fixed, {p})
    BY <1>4, <1>5
  <2>2. Wider(fixed, {p}) = {p} \cup OpenNeighbours(fixed, p)
    BY DEF Wider
  <2> QED
    BY <1>4, <1>5, <2>1, <2>2
<1>7. q \notin Ball(fixed, p, 1)
  BY <1>2, <1>3, <1>6 DEF OpenNeighbours
<1>8. ASSUME q \in Ball(fixed, p, 3) PROVE q \in Ball(fixed, p, 2)
  <2> SUFFICES ASSUME q \notin Ball(fixed, p, 2) PROVE FALSE
    OBVIOUS
  <2>1. 3 - 1 = 2 /\ 3 \in Nat
    OBVIOUS
  <2>2. (Sum2(q) - (Sum2(p) + 3)) % 2 = 0
    BY <1>8, <2>1, BallColour
  <2>3. PICK d, e \in Directions : q = Neighbour(Neighbour(p, d), e)
    <3>1. PICK d, e \in Directions : TwoAway(p, q, d, e)
      BY <1>1, TwoAwayExists
    <3> QED
      BY <3>1, Zenon DEF TwoAway
  <2> DEFINE r == Neighbour(p, d)
  <2>4. r \in Int \X Int /\ q = Neighbour(r, e)
    BY <1>1, <2>3, NeighbourType
  <2>5. /\ Sum2(p) \in Int /\ Sum2(r) \in Int
        /\ (Sum2(r) = Sum2(p) + 1 \/ Sum2(r) = Sum2(p) - 1)
    BY <1>1, <2>4, NeighbourSum
  <2> HIDE DEF r
  <2>6. Sum2(q) = Sum2(r) + 1 \/ Sum2(q) = Sum2(r) - 1
    BY <2>4, NeighbourSum
  <2> QED
    BY ONLY <2>2, <2>5, <2>6
<1>9. ASSUME q \in Ball(fixed, p, 2)
      PROVE  \E d, e \in Directions : /\ Neighbour(p, d) \in Points \ fixed
                                      /\ q = Neighbour(Neighbour(p, d), e)
  <2>1. PICK r \in Ball(fixed, p, 1) : q \in OpenNeighbours(fixed, r)
    BY <1>6, <1>7, <1>9 DEF Wider
  <2>2. PICK e \in Directions : q = Neighbour(r, e)
    BY <2>1 DEF OpenNeighbours
  <2>3. r # p
    BY <1>3, <2>2
  <2>4. r \in OpenNeighbours(fixed, p)
    BY <1>6, <2>1, <2>3
  <2>5. PICK d \in Directions : r = Neighbour(p, d) /\ r \in Points \ fixed
    BY <2>4 DEF OpenNeighbours
  <2> QED
    BY <2>2, <2>5
<1> QED
  BY <1>7, <1>8, <1>9

\* The ways tried at distance two are shortest, if one of them is open.
SidesOf(sides) == \A d \in Directions : \A i \in 1 .. 2 : sides[d][i] \in Directions

\* A near way that is found is a shortest one, of two steps or four.
LEMMA NearWayIs ==
  ASSUME NEW b, NEW p \in Points \ b.fixed, NEW q \in Points \ b.fixed, NEW sides, SidesOf(sides),
         NearWay(b, p, q, sides) # NoWay
  PROVE  /\ Distance(p, q) = 2
         /\ Shortest(b.fixed, p, NearWay(b, p, q, sides), q)
         /\ Len(NearWay(b, p, q, sides)) \in {2, 4}
<1> DEFINE fixed == b.fixed
           ways  == NearWays(p, q, sides)
           open  == {i \in DOMAIN ways : IsOpen(b, p, ways[i])}
           way   == NearWay(b, p, q, sides)
<1>1. Distance(p, q) = 2 /\ way = FirstOpen(b, p, ways)
  BY DEF NearWay
<1>2. p \in Int \X Int /\ q \in Int \X Int /\ p \in Points /\ q \in Points \ fixed
  BY PointsType
<1>3. PICK d, e \in Directions : TwoAway(p, q, d, e)
  BY <1>1, <1>2, TwoAwayExists
<1>4. q = Neighbour(Neighbour(p, d), e) /\ q = Neighbour(Neighbour(p, e), d)
  BY <1>3, Zenon DEF TwoAway
<1>5. open # {} /\ way = ways[Min(open)]
  BY <1>1 DEF FirstOpen
<1>6. q \notin Ball(fixed, p, 1)
  BY <1>1, <1>2, TwoStepsAway
<1>7. ASSUME NEW x \in Directions, NEW y \in Directions, q = Neighbour(Neighbour(p, x), y),
             IsOpen(b, p, <<x, y>>), way = <<x, y>>
      PROVE  Shortest(fixed, p, way, q) /\ Len(way) = 2
  <2>1. Leads(fixed, p, way, q)
    BY <1>2, <1>7, TwoLeads
  <2>2. Len(way) = 2 /\ 2 - 1 = 1
    BY <1>7
  <2> QED
    BY <1>6, <2>1, <2>2 DEF Shortest
<1>8. CASE d # e
  <2>1. ways = <<<<d, e>>, <<e, d>>>>
    BY <1>3, <1>8, Zenon DEF TwoAway
  <2>2. DOMAIN ways = {1, 2} /\ ways[1] = <<d, e>> /\ ways[2] = <<e, d>>
    BY <2>1
  <2>3. Min(open) \in open
    BY <1>5, <2>2, MinIs
  <2>4. (way = <<d, e>> /\ IsOpen(b, p, <<d, e>>)) \/ (way = <<e, d>> /\ IsOpen(b, p, <<e, d>>))
    BY <1>5, <2>2, <2>3
  <2> HIDE DEF way, ways
  <2> QED
    BY <1>1, <1>4, <1>7, <2>4, Zenon DEF way
<1>9. CASE d = e
  <2> DEFINE detours == [i \in 1 .. 2 |-> Detour(sides[d][i], d)]
             D(i)    == Detour(sides[d][i], d)
  <2>1. ways = <<<<d, d>>>> \o detours
    BY <1>3, <1>9, Zenon DEF TwoAway
  <2>2. DOMAIN ways = {1, 2, 3} /\ ways[1] = <<d, d>> /\ ways[2] = D(1) /\ ways[3] = D(2)
    <3> DEFINE S == {<<d, d>>, D(1), D(2)}
    <3>1. <<<<d, d>>>> \in Seq(S) /\ Len(<<<<d, d>>>>) = 1 /\ <<<<d, d>>>>[1] = <<d, d>>
      OBVIOUS
    <3>2. detours \in Seq(S) /\ Len(detours) = 2 /\ detours[1] = D(1) /\ detours[2] = D(2)
      OBVIOUS
    <3> HIDE DEF S, detours, ways, D
    <3>3. /\ ways \in Seq(S) /\ Len(ways) = 3
          /\ \A i \in 1 .. 3 : ways[i] = IF i <= 1 THEN <<<<d, d>>>>[i] ELSE detours[i - 1]
      <4> DEFINE first == <<<<d, d>>>>
      <4> HIDE DEF first
      <4>1. first \in Seq(S) /\ Len(first) = 1 /\ ways = first \o detours /\ detours \in Seq(S) /\ Len(detours) = 2
        BY <2>1, <3>1, <3>2 DEF first
      <4>2. ways \in Seq(S) /\ Len(ways) = 3
            /\ \A i \in 1 .. 3 : ways[i] = IF i <= 1 THEN first[i] ELSE detours[i - 1]
        <5>1. /\ first \o detours \in Seq(S) /\ Len(first \o detours) = Len(first) + Len(detours)
              /\ \A i \in 1 .. Len(first) + Len(detours) : (first \o detours)[i] =
                   IF i <= Len(first) THEN first[i] ELSE detours[i - Len(first)]
          BY ONLY <4>1, ConcatProperties
        <5>2. Len(first) + Len(detours) = 3
          BY <4>1
        <5> QED
          BY ONLY <4>1, <5>1, <5>2
      <4> QED
        BY <4>2 DEF first
    <3>4. DOMAIN ways = 1 .. 3
      BY <3>3
    <3>5. 1 .. 3 = {1, 2, 3}
      OBVIOUS
    <3>6. ways[1] = <<d, d>>
      BY <3>1, <3>3
    <3>7. ways[2] = D(1)
      <4>1. 2 \in 1 .. 3 /\ ~(2 <= 1) /\ 2 - 1 = 1
        OBVIOUS
      <4> QED
        BY <3>2, <3>3, <4>1
    <3>8. ways[3] = D(2)
      <4>1. 3 \in 1 .. 3 /\ ~(3 <= 1) /\ 3 - 1 = 2
        OBVIOUS
      <4> QED
        BY <3>2, <3>3, <4>1
    <3> QED
      BY <3>4, <3>5, <3>6, <3>7, <3>8
  <2>3. Min(open) \in open /\ \A i \in open : Min(open) <= i
    <3>1. open \in SUBSET Nat
      BY <2>2
    <3>2. \E n \in open : \A m \in open : n <= m
      BY <1>5, <3>1, Least
    <3> HIDE DEF open
    <3> QED
      BY <3>2 DEF Min
  <2> HIDE DEF D, ways
  <2>4. CASE Min(open) = 1
    <3>1. way = <<d, d>> /\ IsOpen(b, p, <<d, d>>) /\ q = Neighbour(Neighbour(p, d), d)
      BY <1>4, <1>5, <1>9, <2>2, <2>3, <2>4
    <3> QED
      BY <1>1, <1>7, <3>1 DEF way
  <2>5. CASE Min(open) # 1
    <3>1. PICK i \in 1 .. 2 : way = D(i) /\ IsOpen(b, p, D(i))
      BY <1>5, <2>2, <2>3, <2>5
    <3>2. sides[d][i] \in Directions
      BY DEF SidesOf
    <3>3. q = Neighbour(Neighbour(p, d), d)
      BY <1>4, <1>9
    <3>4. Leads(fixed, p, way, q) /\ Len(way) = 4
      BY <1>2, <3>1, <3>2, <3>3, DetourLeads DEF D
    <3>5. ~ IsOpen(b, p, <<d, d>>)
      <4>1. 1 \notin open
        <5>1. Min(open) \in {1, 2, 3}
          BY <2>2, <2>3
        <5> QED
          BY <2>3, <2>5, <5>1
      <4> QED
        BY <2>2, <4>1
    <3>6. Neighbour(p, d) \notin Points \ fixed
      <4> SUFFICES ASSUME Neighbour(p, d) \in Points \ fixed PROVE FALSE
        OBVIOUS
      <4> DEFINE w == <<d, d>>
      <4>1. Len(w) = 2 /\ w[1] = d
        OBVIOUS
      <4> HIDE DEF w
      <4>2. After(p, w, 1) = Neighbour(p, d)
        BY <1>2, <4>1, FirstSteps
      <4>3. \A j \in 1 .. Len(w) - 1 : j = 1
        BY <4>1
      <4>4. IsOpen(b, p, w)
        BY <4>2, <4>3 DEF IsOpen, Free
      <4> QED
        BY <3>5, <4>4 DEF w
    <3>7. q \notin Ball(fixed, p, 3)
      <4> SUFFICES ASSUME q \in Ball(fixed, p, 3) PROVE FALSE
        OBVIOUS
      <4>1. PICK x, y \in Directions : /\ Neighbour(p, x) \in Points \ fixed
                                       /\ q = Neighbour(Neighbour(p, x), y)
        BY <1>1, <1>2, TwoStepsAway
      <4>2. d = x
        BY <1>2, <3>3, <4>1, StraightOn
      <4> QED
        BY <3>6, <4>1, <4>2
    <3>8. Len(way) - 1 = 3
      BY <3>4
    <3> QED
      BY <1>1, <3>4, <3>7, <3>8 DEF Shortest
  <2> QED
    BY <2>4, <2>5
<1> QED
  BY <1>8, <1>9

-----------------------------------------------------------------------------
(* The ways of moveTo and moveToOptimally, and their number of moves.      *)

\* Both orders in which detours are tried have directions only.
LEMMA SidesAre == SidesOf(BothSides) /\ \A b : SidesOf(SidesByManhattan(b))
<1>1. \A d \in Directions : Side(d) \in Directions /\ OtherSide(d) \in Directions
  BY DEF Directions, Side, OtherSide, Opposite, Up, Right, Down, Left
<1>2. \A d \in Directions : BothSides[d] = <<Side(d), OtherSide(d)>>
  BY DEF BothSides
<1>3. \A d \in Directions : \A i \in 1 .. 2 : BothSides[d][i] \in Directions
  BY <1>1, <1>2
<1>4. ASSUME NEW d \in Directions, NEW i \in 1 .. 2 PROVE Reverse(BothSides[d])[i] \in Directions
  <2>1. Len(BothSides[d]) = 2
    BY <1>2
  <2>2. Reverse(BothSides[d])[i] = BothSides[d][(2 - i) + 1] /\ (2 - i) + 1 \in 1 .. 2
    BY <2>1 DEF Reverse
  <2> QED
    BY <1>3, <2>2
<1>5. ASSUME NEW b, NEW d \in Directions
      PROVE  SidesByManhattan(b)[d] = BothSides[d] \/ SidesByManhattan(b)[d] = Reverse(BothSides[d])
  BY DEF SidesByManhattan
<1>6. ASSUME NEW b PROVE SidesOf(SidesByManhattan(b))
  <2> DEFINE sides == SidesByManhattan(b)
  <2>1. ASSUME NEW d \in Directions, NEW i \in 1 .. 2 PROVE sides[d][i] \in Directions
    BY <1>3, <1>4, <1>5
  <2> HIDE DEF sides
  <2>2. SidesOf(sides)
    BY <2>1 DEF SidesOf
  <2> QED
    BY <2>2 DEF sides
<1> QED
  BY <1>3, <1>6 DEF SidesOf

\* To where the piece is and to its neighbours.
LEMMA OneStep ==
  ASSUME NEW fixed, NEW p \in Points \ fixed, NEW q \in Points \ fixed, Distance(p, q) = 1
  PROVE  Shortest(fixed, p, <<Step(p, q)>>, q) /\ Len(<<Step(p, q)>>) = 1
<1>1. p \in Int \X Int /\ q \in Int \X Int /\ q[1] \in Int /\ q[2] \in Int /\ q = <<q[1], q[2]>>
  BY PointsType, Neighbours
<1>2. PICK dir \in Directions : q = Neighbour(p, dir)
  <2> DEFINE a == Absolute(p[2] - q[2])
             c == Absolute(p[1] - q[1])
  <2>1. a \in Nat /\ c \in Nat /\ a + c = 1
    BY <1>1, LineIs DEF Distance
  <2>2. (a = 0 /\ c = 1) \/ (a = 1 /\ c = 0)
    <3> HIDE DEF a, c
    <3> QED
      BY <2>1
  <2>3. /\ Up \in Directions /\ Right \in Directions /\ Down \in Directions /\ Left \in Directions
    BY DEF Directions, Up, Right, Down, Left
  <2>4. CASE a = 0 /\ c = 1
    <3>1. q[2] = p[2] /\ (q[1] = p[1] - 1 \/ q[1] = p[1] + 1)
      BY <1>1, <2>4, LineIs
    <3>2. q = Neighbour(p, Up) \/ q = Neighbour(p, Down)
      BY <1>1, <3>1, Neighbours
    <3> QED
      BY <2>3, <3>2
  <2>5. CASE a = 1 /\ c = 0
    <3>1. q[1] = p[1] /\ (q[2] = p[2] - 1 \/ q[2] = p[2] + 1)
      BY <1>1, <2>5, LineIs
    <3>2. q = Neighbour(p, Left) \/ q = Neighbour(p, Right)
      BY <1>1, <3>1, Neighbours
    <3> QED
      BY <2>3, <3>2
  <2> QED
    BY <2>2, <2>4, <2>5
<1>3. Step(p, q) = dir
  BY <1>1, <1>2, StepIs
<1>4. Leads(fixed, p, Append(<<>>, dir), q)
  <2>1. Leads(fixed, p, <<>>, p)
    BY LeadsNowhere
  <2> QED
    BY <1>2, <2>1, LeadsOn
<1>5. Append(<<>>, dir) = <<dir>> /\ Len(<<dir>>) = 1
  OBVIOUS
<1>6. q \notin Ball(fixed, p, 0)
  <2>1. q # p
    BY DistanceType
  <2> QED
    BY <2>1, BallIs
<1>7. 1 - 1 = 0
  OBVIOUS
<1> QED
  BY <1>3, <1>4, <1>5, <1>6, <1>7 DEF Shortest

\* The ways tried first and the search together find a shortest way if there is one.
LEMMA WayOrSearchIs ==
  ASSUME NEW b, NEW dst, NEW optimally, SearchCall(b, b.selected, dst, optimally),
         NEW near, near # NoWay => Shortest(b.fixed, b.selected, near, dst)
  PROVE  Finds(b.fixed, b.selected, dst, WayOrSearch(b, dst, near, optimally))
<1> DEFINE src == b.selected
           way == WayOrSearch(b, dst, near, optimally)
<1>1. src \in Points \ b.fixed /\ dst \in Points \ b.fixed
  BY DEF SearchCall
<1>2. CASE Distance(src, dst) = 0
  <2>1. src = dst /\ way = <<>>
    BY <1>1, <1>2, DistanceType DEF WayOrSearch
  <2>2. <<>> # NoWay
    BY DEF NoWay
  <2>3. Leads(b.fixed, src, <<>>, dst) /\ Len(<<>>) = 0
    BY <1>1, <2>1, LeadsNowhere
  <2> QED
    BY <2>1, <2>2, <2>3 DEF Finds, Shortest
<1>3. CASE Distance(src, dst) = 1
  <2>1. way = <<Step(src, dst)>>
    BY <1>3 DEF WayOrSearch
  <2>2. Shortest(b.fixed, src, way, dst)
    BY <1>1, <1>3, <2>1, OneStep
  <2>3. way # NoWay
    BY <2>2, NoWayIs DEF Shortest, Leads
  <2> QED
    BY <2>2, <2>3 DEF Finds
<1>4. CASE Distance(src, dst) # 0 /\ Distance(src, dst) # 1
  <2>1. way = IF near = NoWay THEN SearchMove(b, src, dst, optimally) ELSE near
    BY <1>4 DEF WayOrSearch
  <2>2. CASE near = NoWay
    BY <2>1, <2>2, SearchMoveIs
  <2>3. CASE near # NoWay
    BY <2>1, <2>3 DEF Finds
  <2> QED
    BY <2>2, <2>3
<1> QED
  BY <1>2, <1>3, <1>4

\* moveTo finds a shortest way if there is one.
LEMMA WayToIs ==
  ASSUME NEW b, NEW dst, b.selected \in Points \ b.fixed, dst \in Points \ b.fixed
  PROVE  Finds(b.fixed, b.selected, dst, WayTo(b, dst))
<1> DEFINE near == NearWay(b, b.selected, dst, BothSides)
<1>1. near # NoWay => Shortest(b.fixed, b.selected, near, dst)
  BY SidesAre, NearWayIs
<1>2. SearchCall(b, b.selected, dst, FALSE)
  BY DEF SearchCall
<1>3. WayTo(b, dst) = WayOrSearch(b, dst, near, FALSE)
  BY DEF WayTo
<1> HIDE DEF near
<1> QED
  BY <1>1, <1>2, <1>3, WayOrSearchIs

\* So does moveToOptimally where the distances fit.
LEMMA OptimalWayToIs ==
  ASSUME NEW b, NEW dst, b.selected \in Points \ b.fixed, dst \in Points \ b.fixed,
         Fits(b.fixed, b.selected)
  PROVE  Finds(b.fixed, b.selected, dst, OptimalWayTo(b, dst))
<1> DEFINE near == NearWay(b, b.selected, dst, SidesByManhattan(b))
<1>1. near # NoWay => Shortest(b.fixed, b.selected, near, dst)
  BY SidesAre, NearWayIs
<1>2. SearchCall(b, b.selected, dst, TRUE)
  BY DEF SearchCall
<1>3. OptimalWayTo(b, dst) = WayOrSearch(b, dst, near, TRUE)
  BY DEF OptimalWayTo
<1> HIDE DEF near
<1> QED
  BY <1>1, <1>2, <1>3, WayOrSearchIs

\* A way that is found makes the destination one that can be reached.
LEMMA FindsReachable ==
  ASSUME NEW fixed, NEW p, NEW q, NEW way, Finds(fixed, p, q, way)
  PROVE  Reachable(fixed, p, q) <=> way # NoWay
BY DEF Finds, Shortest, Reachable

\* What countMoveTo says of a way.
Counts(fixed, p, q, n) ==
  IF n = -1 THEN ~Reachable(fixed, p, q)
  ELSE \E way : Shortest(fixed, p, way, q) /\ (n = Len(way) \/ (Len(way) = 4 /\ n = 5))

\* countMoveTo counts the steps of a shortest way, and says five for four at times.
LEMMA CountMoveToIs ==
  ASSUME NEW b, NEW src \in Points \ b.fixed, NEW dst \in Points \ b.fixed
  PROVE  /\ CountMoveTo(b, src, dst) \in Nat \cup {-1}
         /\ Counts(b.fixed, src, dst, CountMoveTo(b, src, dst))
<1> DEFINE n    == CountMoveTo(b, src, dst)
           near == NearWay(b, src, dst, BothSides)
           way  == SearchMove(b, src, dst, FALSE)
<1>1. near # NoWay => /\ Shortest(b.fixed, src, near, dst) /\ (Len(near) = 2 \/ Len(near) = 4)
  <2>1. near # NoWay => Shortest(b.fixed, src, near, dst) /\ Len(near) \in {2, 4}
    BY SidesAre, NearWayIs
  <2> QED
    BY <2>1
<1>2. Finds(b.fixed, src, dst, way)
  <2>1. SearchCall(b, src, dst, FALSE)
    BY DEF SearchCall
  <2> QED
    BY <2>1, SearchMoveIs
<1>3. n = IF Distance(src, dst) <= 1 THEN Distance(src, dst)
          ELSE IF near = NoWay THEN LengthOf(way)
          ELSE IF Len(near) = 2 THEN 2 ELSE 5
  BY DEF CountMoveTo, CountMoveToNear, CountBySearch
<1>4. Distance(src, dst) \in Nat /\ (Distance(src, dst) = 0 <=> src = dst)
  BY DistanceType
<1> HIDE DEF n, near, way
<1>5. ASSUME NEW w, Shortest(b.fixed, src, w, dst), n = Len(w) \/ (Len(w) = 4 /\ n = 5)
      PROVE  n \in Nat \cup {-1} /\ Counts(b.fixed, src, dst, n)
  <2>1. Len(w) \in Nat
    BY <1>5 DEF Shortest, Leads
  <2>2. n # -1
    BY <1>5, <2>1
  <2> QED
    BY <1>5, <2>1, <2>2 DEF Counts
<1>6. CASE Distance(src, dst) = 0
  <2>1. n = 0 /\ src = dst
    BY <1>3, <1>4, <1>6
  <2>2. Shortest(b.fixed, src, <<>>, dst) /\ Len(<<>>) = 0
    BY <2>1, LeadsNowhere DEF Shortest
  <2>3. n \in Nat \cup {-1} /\ Counts(b.fixed, src, dst, n)
    BY <1>5, <2>1, <2>2
  <2> QED
    BY <2>3 DEF n
<1>7. CASE Distance(src, dst) = 1
  <2>1. n = 1
    BY <1>3, <1>7
  <2>2. n \in Nat \cup {-1} /\ Counts(b.fixed, src, dst, n)
    BY <1>5, <1>7, <2>1, OneStep
  <2> QED
    BY <2>2 DEF n
<1>8. CASE Distance(src, dst) > 1
  <2>1. n = IF near = NoWay THEN LengthOf(way) ELSE IF Len(near) = 2 THEN 2 ELSE 5
    BY <1>3, <1>4, <1>8
  <2>2. CASE near # NoWay
    <3>1. n \in Nat \cup {-1} /\ Counts(b.fixed, src, dst, n)
      BY <1>1, <1>5, <2>1, <2>2
    <3> QED
      BY <3>1 DEF n
  <2>3. CASE near = NoWay /\ way # NoWay
    <3>1. n = Len(way) /\ Shortest(b.fixed, src, way, dst)
      BY <1>2, <2>1, <2>3 DEF LengthOf, Finds
    <3>2. n \in Nat \cup {-1} /\ Counts(b.fixed, src, dst, n)
      BY <1>5, <3>1
    <3> QED
      BY <3>2 DEF n
  <2>4. CASE near = NoWay /\ way = NoWay
    <3>1. n = -1 /\ ~Reachable(b.fixed, src, dst)
      BY <1>2, <2>1, <2>4 DEF LengthOf, Finds
    <3> QED
      BY <3>1 DEF n, Counts
  <2> QED
    BY <2>2, <2>3, <2>4
<1> QED
  BY <1>4, <1>6, <1>7, <1>8

-----------------------------------------------------------------------------
(* When the marks of searchMoveOptimally are out of reach.                 *)

\* Around at most 126 free cells no shortest way has more than 126 moves.
LEMMA FitsFew ==
  ASSUME NEW fixed, NEW p \in Points \ fixed, Cardinality(Points \ fixed) <= 126
  PROVE  Fits(fixed, p)
<1> DEFINE U == Points \ fixed
           I == SUBSET U
           f == [points \in SUBSET Points |-> Wider(fixed, points)]
           g == [t \in I |-> t]
           E == {t \in I : f[t] = t}
           B == Ball(fixed, p, 126)
<1>1. IsFiniteSet(U) /\ Cardinality(U) \in Nat
  <2>1. IsFiniteSet(U)
    BY PointsFinite, FS_Subset
  <2> QED
    BY <2>1, FS_CardinalityType
<1>2. \A t \in I : f[t] = Wider(fixed, t) /\ f[t] \in I /\ t \subseteq f[t]
  BY WiderPoints DEF Wider, OpenNeighbours
<1>3. Preserves(f, I) /\ {p} \in I
  BY <1>2 DEF Preserves
<1>4. \A t \in I : g[t] = t
  OBVIOUS
<1>5. g \in [I -> SUBSET U] /\ E \in SUBSET I
  OBVIOUS
<1>6. \A n \in Nat : Ball(fixed, p, n) = Rounds(f, {p}, n)
  BY DEF Ball
<1>7. (\A t \in E : f[t] = t) /\ (\A t \in I \ E : t # f[t])
  OBVIOUS
<1> HIDE DEF f, g, E, I
<1>8. \A t \in I \ E : g[t] \subseteq g[f[t]] /\ g[t] # g[f[t]]
  BY <1>2, <1>4, <1>7
<1>9. Rounds(f, {p}, 126) \in E \/ Cardinality(g[Rounds(f, {p}, 126)]) >= 126
  <2> DEFINE s == {p}
  <2> HIDE DEF U, s
  <2>1. \A n \in Nat : \/ Rounds(f, s, n) \in E
                       \/ Cardinality(g[Rounds(f, s, n)]) >= n
    <3>1. s \in I
      BY <1>3 DEF s
    <3> QED
      BY ONLY <1>1, <1>3, <1>5, <1>7, <1>8, <3>1, GrowingEnds
  <2> QED
    BY <2>1 DEF s
<1>10. B = Rounds(f, {p}, 126) /\ B \in I /\ g[B] = B
  <2>1. Rounds(f, {p}, 126) \in I
    BY <1>3, RoundsStep
  <2> QED
    BY <1>4, <1>6, <2>1
<1>11. \A q \in Points : q \in U => {q} \in I
  BY DEF I
<1> HIDE DEF B
<1>12. OpenNeighbours(fixed, p) \subseteq U
  BY DEF OpenNeighbours
<1>13. CASE B \in E
  <2>1. Wider(fixed, B) = B
    BY <1>2, <1>7, <1>10, <1>13
  <2>2. ClosedSet(fixed, B)
    BY <2>1 DEF Wider, ClosedSet
  <2>3. p \in B
    <3>1. Ball(fixed, p, 0) \subseteq Ball(fixed, p, 126)
      BY BallWithin
    <3>2. 0 \in Nat
      OBVIOUS
    <3>3. Ball(fixed, p, 0) = {p}
      BY <3>2, BallIs
    <3> QED
      BY <3>1, <3>3 DEF B
  <2>4. ASSUME NEW n \in Nat, NEW q \in Ball(fixed, p, n) PROVE q \in B
    <3>1. PICK way : Leads(fixed, p, way, q)
      BY BallReachable DEF Reachable
    <3> QED
      BY <2>2, <2>3, <3>1, WayStays
  <2> QED
    BY <2>4 DEF Fits, B
<1>14. CASE Cardinality(B) >= 126
  <2>1. B \in SUBSET U
    BY <1>10 DEF I
  <2>2. Cardinality(B) \in Nat /\ Cardinality(B) <= Cardinality(U) /\ (Cardinality(B) = Cardinality(U) => B = U)
    <3>1. IsFiniteSet(B)
      BY <1>1, <2>1, FS_Subset
    <3> QED
      BY <1>1, <2>1, <3>1, FS_Subset, FS_CardinalityType
  <2>3. B = U
    BY <1>1, <1>14, <2>2
  <2>4. ASSUME NEW n \in Nat PROVE Ball(fixed, p, n) \subseteq U
    <3>1. Rounds(f, {p}, n) \in I
      BY <1>3, RoundsStep
    <3> QED
      BY <1>6, <3>1 DEF I
  <2> QED
    BY <2>3, <2>4 DEF Fits, B
<1> QED
  BY <1>9, <1>10, <1>13, <1>14

-----------------------------------------------------------------------------
(* One call: what it begins with, and the shortest moves.                  *)

\* The board before the call, which is that of the program as long as none is made.
Starting(b) ==
  /\ b.fixed \in FixedShapes /\ b.fixed \in SUBSET Points
  /\ b.selected \in Points \ b.fixed
  /\ b = [cell |-> Shuffle, selected |-> b.selected, fixed |-> b.fixed]

\* What holds before the call and until it.
FixStart == Starting(before) /\ (call = NoCall => board = before)

\* The board before the call stays one that the program begins with, and is the
\* board itself as long as no function was called.
THEOREM StartKept == FixSpec => []FixStart
<1>1. FixInit => FixStart
  <2> SUFFICES ASSUME FixInit PROVE FixStart
    OBVIOUS
  <2>1. PICK fixed \in FixedShapes : \E selected \in Starts \ fixed :
          board = [cell |-> Shuffle, selected |-> selected, fixed |-> fixed]
    BY DEF FixInit
  <2>2. before = board
    BY DEF FixInit
  <2>3. PICK selected \in Starts \ fixed :
          board = [cell |-> Shuffle, selected |-> selected, fixed |-> fixed]
    BY <2>1
  <2> QED
    BY <2>2, <2>3, FixBoardAssumption DEF FixStart, Starting
<1>2. FixStart /\ [FixNext]_callVars => FixStart'
  <2> SUFFICES ASSUME FixStart, [FixNext]_callVars PROVE FixStart'
    OBVIOUS
  <2>1. before' = before /\ (call' = NoCall => board' = board /\ call = NoCall)
    <3>1. CASE UNCHANGED callVars
      BY <3>1 DEF callVars
    <3>2. ASSUME NEW op \in {"moveTo", "moveToOptimally", "moveToTwoNeighborMoreOptimally"},
                 NEW dst, NEW way, Called(op, dst, way)
          PROVE  before' = before /\ call' # NoCall
      <4>1. before' = before /\ call'.op = op
        BY <3>2 DEF Called
      <4>2. NoCall.op = "none"
        BY DEF NoCall
      <4> QED
        BY <4>1, <4>2
    <3>3. CASE TrajectPieceCall
      <4>1. before' = before /\ call'.op = "trajectPiece"
        BY <3>3 DEF TrajectPieceCall
      <4>2. NoCall.op = "none"
        BY DEF NoCall
      <4> QED
        BY <4>1, <4>2
    <3> QED
      BY <3>1, <3>2, <3>3
         DEF FixNext, MoveTo, MoveToOptimally, MoveToTwoNeighborMoreOptimally
  <2> QED
    BY <2>1 DEF FixStart
<1> QED
  BY <1>1, <1>2, PTL DEF FixSpec

\* The distances that searchMoveOptimally counts in a char stay off its marks: the
\* selected piece comes to every cell that it reaches in at most 126 moves.
SelectedFits == \A fixed \in FixedShapes : \A p \in Points \ fixed : Fits(fixed, p)

\* A way that is found by a call.
LEMMA MoveShortest ==
  ASSUME FixStart, NEW op, NEW dst \in Points \ board.fixed, NEW way,
         Finds(board.fixed, board.selected, dst, way), Called(op, dst, way)
  PROVE  ShortestMoves'
<1> DEFINE fixed == before.fixed
           p     == before.selected
           count == CountMoveTo(before, p, dst)
           moves == IF way = NoWay THEN -1 ELSE Len(way)
<1>1. board = before /\ before' = before /\ p \in Points \ fixed /\ p \in Points
  BY DEF Called, FixStart, Starting
<1>2. call' = [op |-> op, src |-> board.selected, dst |-> dst, moves |-> moves,
               count |-> CountMoveTo(board, board.selected, dst), ok |-> way # NoWay]
  BY DEF Called
<1>3. call'.dst = dst /\ call'.moves = moves /\ call'.count = count /\ (call'.ok <=> way # NoWay)
  BY <1>1, <1>2
<1>4. Finds(fixed, p, dst, way) /\ dst \in Points \ fixed
  BY <1>1
<1>5. Counts(fixed, p, dst, count)
  BY <1>1, <1>4, CountMoveToIs
<1>6. Reachable(fixed, p, dst) <=> way # NoWay
  BY <1>4, FindsReachable
<1> HIDE DEF count, fixed, p
<1>7. CASE way # NoWay
  <2>1. Shortest(fixed, p, way, dst) /\ moves = Len(way)
    BY <1>4, <1>7 DEF Finds
  <2>2. PICK other : /\ Shortest(fixed, p, other, dst)
                     /\ count = Len(other) \/ (Len(other) = 4 /\ count = 5)
    BY <1>5, <1>6, <1>7 DEF Counts
  <2>3. Len(other) = Len(way)
    BY <1>1, <2>1, <2>2, ShortestLength
  <2>4. dst \in Ball(fixed, p, Len(way))
    BY <1>1, <2>1, LeadsInBall DEF Shortest
  <2>5. Len(way) = 0 \/ dst \notin Ball(fixed, p, Len(way) - 1)
    BY <2>1 DEF Shortest
  <2> QED
    BY <1>1, <1>3, <1>7, <2>1, <2>2, <2>3, <2>4, <2>5 DEF ShortestMoves, fixed, p
<1>8. CASE way = NoWay
  <2>1. count = -1 /\ moves = -1
    <3>1. ASSUME NEW other PROVE ~Shortest(fixed, p, other, dst)
      BY <1>6, <1>8 DEF Shortest, Reachable
    <3> QED
      BY <1>5, <1>8, <3>1 DEF Counts
  <2>2. dst \notin Ball(fixed, p, Height * Width)
    BY <1>1, <1>6, <1>8, BallReachable, PointsCounted
  <2> QED
    BY <1>1, <1>3, <1>8, <2>1, <2>2 DEF ShortestMoves, fixed, p
<1> QED
  BY <1>7, <1>8

\* moveTo and moveToOptimally make the least number of moves there is, and countMoveTo
\* knows it, on boards of any size where no free cell is further from the selected piece
\* than the char of the search can count.
THEOREM ShortestMovesCorrect == ASSUME SelectedFits PROVE FixSpec => []ShortestMoves
<1>1. FixInit => ShortestMoves
  BY DEF FixInit, ShortestMoves, NoCall
<1>2. FixStart /\ [FixNext]_callVars /\ ShortestMoves => ShortestMoves'
  <2> SUFFICES ASSUME FixStart, [FixNext]_callVars, ShortestMoves PROVE ShortestMoves'
    OBVIOUS
  <2>1. CASE UNCHANGED callVars
    BY <2>1 DEF callVars, ShortestMoves
  <2>2. CASE MoveTo
    <3>1. PICK dst \in Points \ board.fixed : Called("moveTo", dst, WayTo(board, dst))
      BY <2>2 DEF MoveTo
    <3>2. board.selected \in Points \ board.fixed
      BY <3>1 DEF FixStart, Starting, Called
    <3>3. Finds(board.fixed, board.selected, dst, WayTo(board, dst))
      BY <3>2, WayToIs
    <3> QED
      BY <3>1, <3>3, MoveShortest
  <2>3. CASE MoveToOptimally
    <3>1. PICK dst \in Points \ board.fixed :
            Called("moveToOptimally", dst, OptimalWayTo(board, dst))
      BY <2>3 DEF MoveToOptimally
    <3>2. board.selected \in Points \ board.fixed /\ Fits(board.fixed, board.selected)
      BY <3>1 DEF FixStart, Starting, Called, SelectedFits
    <3>3. Finds(board.fixed, board.selected, dst, OptimalWayTo(board, dst))
      BY <3>2, OptimalWayToIs
    <3> QED
      BY <3>1, <3>3, MoveShortest
  <2>4. CASE MoveToTwoNeighborMoreOptimally
    <3>1. call'.op = "moveToTwoNeighborMoreOptimally"
      BY <2>4 DEF MoveToTwoNeighborMoreOptimally, Called
    <3> QED
      BY <3>1 DEF ShortestMoves
  <2>5. CASE TrajectPieceCall
    <3>1. call'.op = "trajectPiece"
      BY <2>5 DEF TrajectPieceCall
    <3> QED
      BY <3>1 DEF ShortestMoves
  <2> QED
    BY <2>1, <2>2, <2>3, <2>4, <2>5 DEF FixNext
<1> QED
  BY <1>1, <1>2, StartKept, PTL DEF FixSpec

\* At most 126 free cells, as on any board of up to eleven rows and columns.
FewFreeCells == \A fixed \in FixedShapes : Cardinality(Points \ fixed) <= 126

\* Where only so many cells are free the distances fit: moveTo and moveToOptimally make
\* the least number of moves.
THEOREM ShortestMovesOfFew == ASSUME FewFreeCells PROVE FixSpec => []ShortestMoves
<1>1. SelectedFits
  BY FitsFew DEF FewFreeCells, SelectedFits
<1> QED
  BY <1>1, ShortestMovesCorrect

-----------------------------------------------------------------------------
(* Walking along a way.                                                    *)

\* The boards.
FixBoards == [cell : Boards, selected : Points, fixed : SUBSET Points]

\* One move.
LEMMA MovedIs ==
  ASSUME NEW b \in FixBoards, NEW dir, Neighbour(b.selected, dir) \in Points
  PROVE  /\ Moved(b, dir) \in FixBoards
         /\ Moved(b, dir).fixed = b.fixed
         /\ Moved(b, dir).selected = Neighbour(b.selected, dir)
         /\ \A x \in Points : Moved(b, dir).cell[x] =
              IF x = Neighbour(b.selected, dir) THEN b.cell[b.selected]
              ELSE IF x = b.selected THEN b.cell[Neighbour(b.selected, dir)] ELSE b.cell[x]
<1> DEFINE q == Neighbour(b.selected, dir)
           m == Moved(b, dir)
           c == Swapped(b.cell, b.selected, q)
<1>1. b.cell \in Boards /\ b.selected \in Points /\ b.fixed \in SUBSET Points
      /\ b = [cell |-> b.cell, selected |-> b.selected, fixed |-> b.fixed]
  BY DEF FixBoards
<1>2. m = [cell |-> c, selected |-> q, fixed |-> b.fixed]
  <2>1. ASSUME NEW cell, NEW selected, NEW fixed, NEW cells, NEW next,
               NEW r, r = [cell |-> cell, selected |-> selected, fixed |-> fixed]
        PROVE  [r EXCEPT !.cell = cells, !.selected = next]
                 = [cell |-> cells, selected |-> next, fixed |-> fixed]
    <3>1. [r EXCEPT !.cell = cells] = [cell |-> cells, selected |-> selected, fixed |-> fixed]
      BY <2>1
    <3>2. ASSUME NEW t, t = [cell |-> cells, selected |-> selected, fixed |-> fixed]
          PROVE  [t EXCEPT !.selected = next] = [cell |-> cells, selected |-> next, fixed |-> fixed]
      BY ONLY <3>2
    <3> QED
      BY <3>1, <3>2
  <2>2. m = [b EXCEPT !.cell = c, !.selected = q]
    BY DEF Moved
  <2> HIDE DEF q, c, m
  <2>3. b = [cell |-> b.cell, selected |-> b.selected, fixed |-> b.fixed]
    BY <1>1
  <2> QED
    BY ONLY <2>1, <2>2, <2>3, Zenon
<1>3. c \in Boards
  BY <1>1, SwappedBoards
<1>4. b.cell \in Cells
  BY <1>1, BoardFacts
<1>5. \A x \in Points : c[x] = IF x = q THEN b.cell[b.selected]
                               ELSE IF x = b.selected THEN b.cell[q] ELSE b.cell[x]
  BY <1>1, <1>4, SwappedCells
<1> HIDE DEF c, m, q
<1>6. m \in FixBoards /\ m.fixed = b.fixed /\ m.selected = q /\ m.cell = c
  BY <1>1, <1>2, <1>3 DEF FixBoards, q
<1> QED
  BY <1>5, <1>6 DEF m, q

\* The boards along a way.
IsWalk(g, b, way, n) == g[0] = b /\ \A j \in 1 .. n : g[j] = Moved(g[j - 1], way[j])

\* The same as a function.
WalkFrom(g, b, way, n) == g = [j \in 0 .. n |-> IF j = 0 THEN b ELSE Moved(g[j - 1], way[j])]

\* It exists for any number of moves.
LEMMA WalkExists ==
  ASSUME NEW b, NEW way
  PROVE  \A n \in Nat : \E g : WalkFrom(g, b, way, n)
<1> DEFINE P == {n \in Nat : \E g : WalkFrom(g, b, way, n)}
<1>1. 0 \in P
  <2> DEFINE g == [j \in 0 .. 0 |-> b]
  <2>1. WalkFrom(g, b, way, 0)
    BY DEF WalkFrom
  <2> QED
    BY <2>1
<1>2. ASSUME NEW n \in P PROVE n + 1 \in P
  <2>1. PICK g : WalkFrom(g, b, way, n)
    OBVIOUS
  <2> DEFINE h == [j \in 0 .. n + 1 |-> IF j = n + 1 THEN Moved(g[n], way[n + 1]) ELSE g[j]]
             k == [j \in 0 .. n + 1 |-> IF j = 0 THEN b ELSE Moved(h[j - 1], way[j])]
  <2>2. n \in Nat
    OBVIOUS
  <2>3. /\ g[0] = b
        /\ \A j \in 1 .. n : g[j] = Moved(g[j - 1], way[j])
    BY <2>1, <2>2 DEF WalkFrom
  <2>4. ASSUME NEW j \in 0 .. n + 1 PROVE h[j] = k[j]
    <3>1. CASE j = 0
      BY <2>2, <2>3, <3>1
    <3>2. CASE j \in 1 .. n
      <4>1. j - 1 \in 0 .. n /\ j - 1 # n + 1 /\ j # n + 1 /\ j # 0
        BY <2>2, <3>2
      <4>2. h[j - 1] = g[j - 1] /\ h[j] = g[j]
        BY <2>2, <4>1
      <4>3. k[j] = Moved(h[j - 1], way[j])
        BY <4>1
      <4> QED
        BY <2>3, <3>2, <4>2, <4>3
    <3>3. CASE j = n + 1
      <4>1. n \in 0 .. n + 1 /\ n # n + 1 /\ (n + 1) - 1 = n /\ n + 1 # 0
        BY <2>2
      <4>2. h[n] = g[n] /\ h[n + 1] = Moved(g[n], way[n + 1])
        BY <2>2, <4>1
      <4>3. k[n + 1] = Moved(h[n], way[n + 1])
        BY <3>3, <4>1
      <4> QED
        BY <3>3, <4>2, <4>3
    <3> QED
      BY <2>2, <3>1, <3>2, <3>3
  <2>5. h = k
    BY <2>4
  <2>6. WalkFrom(h, b, way, n + 1)
    BY <2>5 DEF WalkFrom
  <2> QED
    BY <2>2, <2>6
<1>3. P \in SUBSET Nat
  OBVIOUS
<1> HIDE DEF P
<1>4. P = Nat
  BY <1>1, <1>2, <1>3, SetInduction
<1> QED
  BY <1>4 DEF P

\* Walked is the last of the boards.
LEMMA WalkedIs ==
  ASSUME NEW b, NEW way, NEW n \in Nat
  PROVE  \E g : IsWalk(g, b, way, n) /\ Walked(b, way, n) = g[n]
<1> DEFINE at == CHOOSE g : g = [j \in 0 .. n |-> IF j = 0 THEN b ELSE Moved(g[j - 1], way[j])]
<1>1. \E g : WalkFrom(g, b, way, n)
  BY WalkExists
<1>2. at = [j \in 0 .. n |-> IF j = 0 THEN b ELSE Moved(at[j - 1], way[j])]
  BY <1>1 DEF WalkFrom
<1>3. Walked(b, way, n) = at[n]
  BY DEF Walked
<1> HIDE DEF at
<1>4. IsWalk(at, b, way, n)
  <2>1. at[0] = b
    BY <1>2
  <2>2. ASSUME NEW j \in 1 .. n PROVE at[j] = Moved(at[j - 1], way[j])
    BY <1>2
  <2> QED
    BY <2>1, <2>2 DEF IsWalk
<1> QED
  BY <1>3, <1>4

\* Where a walk that avoids some cells leads: they are as before, and the selected piece
\* has gone to q.
Walks(b, w, avoided, q) ==
  /\ w \in FixBoards
  /\ w.fixed = b.fixed
  /\ w.selected = q
  /\ w.cell[q] = b.cell[b.selected]
  /\ \A x \in avoided \cap Points : w.cell[x] = b.cell[x]

\* A walk brings the selected piece to its end and moves nothing that the way avoids.
LEMMA WalkIs ==
  ASSUME NEW b \in FixBoards, NEW avoided, b.selected \notin avoided,
         NEW way, NEW q, Leads(avoided, b.selected, way, q)
  PROVE  Walks(b, Walk(b, way), avoided, q)
<1> DEFINE p == b.selected
           n == Len(way)
<1>1. way \in Seq(Directions) /\ n \in Nat /\ way # NoWay
  BY NoWayIs DEF Leads
<1>2. PICK g : IsWalk(g, b, way, n) /\ Walked(b, way, n) = g[n]
  BY <1>1, WalkedIs
<1>3. p \in Points /\ p \in Int \X Int
  BY PointsType DEF FixBoards
<1> DEFINE P == {j \in Nat : j <= n => Walks(b, g[j], avoided, After(p, way, j))}
<1>4. 0 \in P
  <2>1. g[0] = b /\ After(p, way, 0) = p
    BY <1>2, <1>3, AfterIs DEF IsWalk
  <2> QED
    BY <2>1 DEF Walks
<1>5. ASSUME NEW j \in P PROVE j + 1 \in P
  <2> SUFFICES ASSUME j + 1 <= n PROVE Walks(b, g[j + 1], avoided, After(p, way, j + 1))
    OBVIOUS
  <2> DEFINE a == After(p, way, j)
             z == After(p, way, j + 1)
  <2>1. j \in Nat /\ j <= n /\ j + 1 \in 1 .. n /\ (j + 1) - 1 = j
    BY <1>1
  <2>2. Walks(b, g[j], avoided, a)
    BY <2>1
  <2>3. g[j + 1] = Moved(g[j], way[j + 1])
    BY <1>2, <2>1 DEF IsWalk
  <2>4. z = Neighbour(a, way[j + 1])
    BY <1>3, <2>1, AfterIs
  <2>5. z \in Points \ avoided
    BY <2>1 DEF Leads
  <2>6. a \notin avoided
    <3>1. CASE j = 0
      BY <1>3, <3>1, AfterIs
    <3>2. CASE j # 0
      <4>1. j \in 1 .. n
        BY <1>1, <2>1, <3>2
      <4> QED
        BY <4>1 DEF Leads
    <3> QED
      BY <3>1, <3>2
  <2> HIDE DEF P, a, z
  <2>7. /\ Moved(g[j], way[j + 1]) \in FixBoards
        /\ Moved(g[j], way[j + 1]).fixed = g[j].fixed
        /\ Moved(g[j], way[j + 1]).selected = z
        /\ \A x \in Points : Moved(g[j], way[j + 1]).cell[x] =
             IF x = z THEN g[j].cell[a]
             ELSE IF x = a THEN g[j].cell[z] ELSE g[j].cell[x]
    <3>1. g[j] \in FixBoards /\ g[j].selected = a
      BY <2>2 DEF Walks
    <3> QED
      BY <2>4, <2>5, <3>1, MovedIs
  <2> QED
    BY <2>2, <2>3, <2>5, <2>6, <2>7 DEF Walks, z
<1>6. P \in SUBSET Nat
  OBVIOUS
<1>7. P = Nat
  <2> HIDE DEF P
  <2> QED
    BY <1>4, <1>5, <1>6, SetInduction
<1>8. Walks(b, g[n], avoided, After(p, way, n))
  BY <1>1, <1>7
<1>9. Walk(b, way) = g[n]
  BY <1>1, <1>2 DEF Walk
<1> QED
  BY <1>8, <1>9 DEF Leads

-----------------------------------------------------------------------------
(* The ways of moveToLinearTwoNeighborMoreOptimally.                       *)

\* The moves of a way of four or six.
FourMoves(w, a, b, c, d) == Len(w) = 4 /\ w[1] = a /\ w[2] = b /\ w[3] = c /\ w[4] = d
SixMoves(w, a, b, c, d, e, f) ==
  Len(w) = 6 /\ w[1] = a /\ w[2] = b /\ w[3] = c /\ w[4] = d /\ w[5] = e /\ w[6] = f

\* The five methods: two steps in the direction r, around on the side a.
IsMethod(w, a, r) ==
  \/ FourMoves(w, a, r, r, Opposite(a))
  \/ SixMoves(w, Opposite(r), a, r, r, r, Opposite(a))
  \/ SixMoves(w, a, r, r, r, Opposite(a), Opposite(r))
  \/ SixMoves(w, a, a, r, Opposite(a), r, Opposite(a))
  \/ SixMoves(w, a, r, a, r, Opposite(a), Opposite(a))

\* The opposite direction turns the step round.
LEMMA DeltaOpposite ==
  ASSUME NEW a \in Directions
  PROVE  /\ Opposite(a) \in Directions
         /\ Delta(a)[1] \in Int /\ Delta(a)[2] \in Int
         /\ Delta(Opposite(a))[1] = 0 - Delta(a)[1] /\ Delta(Opposite(a))[2] = 0 - Delta(a)[2]
<1>1. /\ Delta(0) = <<-1, 0>> /\ Delta(1) = <<0, 1>> /\ Delta(2) = <<1, 0>> /\ Delta(3) = <<0, -1>>
  BY DEF Delta, Up, Right, Down, Left
<1>2. a \in {0, 1, 2, 3}
  BY DEF Directions
<1>3. Opposite(0) = 2 /\ Opposite(1) = 3 /\ Opposite(2) = 0 /\ Opposite(3) = 1
  BY DEF Opposite
<1>4. Opposite(a) \in Directions
  BY DEF Opposite, Directions
<1> QED
  BY ONLY <1>1, <1>2, <1>3, <1>4

\* The ways of four and six moves lead two steps on.
LEMMA MethodLeads ==
  ASSUME NEW p \in Int \X Int, NEW a \in Directions, NEW r \in Directions,
         NEW w, IsMethod(w, a, r)
  PROVE  After(p, w, Len(w)) = Neighbour(Neighbour(p, r), r)
<1> DEFINE A(n) == After(p, w, n)
           x == Delta(a)[1]
           y == Delta(a)[2]
           u == Delta(r)[1]
           v == Delta(r)[2]
           o == Opposite(a)
           l == Opposite(r)
<1>1. /\ p[1] \in Int /\ p[2] \in Int /\ x \in Int /\ y \in Int /\ u \in Int /\ v \in Int
      /\ Delta(o)[1] = 0 - x /\ Delta(o)[2] = 0 - y /\ Delta(l)[1] = 0 - u /\ Delta(l)[2] = 0 - v
  BY DeltaOpposite
<1>2. \A q, d : Neighbour(q, d) = <<q[1] + Delta(d)[1], q[2] + Delta(d)[2]>>
  BY DEF Neighbour
<1>3. Neighbour(Neighbour(p, r), r) = <<(p[1] + u) + u, (p[2] + v) + v>>
  BY <1>2
<1>4. /\ A(0) = p
      /\ A(1) = Neighbour(A(0), w[1]) /\ A(2) = Neighbour(A(1), w[2])
      /\ A(3) = Neighbour(A(2), w[3]) /\ A(4) = Neighbour(A(3), w[4])
      /\ A(5) = Neighbour(A(4), w[5]) /\ A(6) = Neighbour(A(5), w[6])
  BY FirstSteps
<1>5. \A n \in 1 .. 6 : /\ A(n)[1] = A(n - 1)[1] + Delta(w[n])[1]
                        /\ A(n)[2] = A(n - 1)[2] + Delta(w[n])[2]
  <2>1. 1 - 1 = 0 /\ 2 - 1 = 1 /\ 3 - 1 = 2 /\ 4 - 1 = 3 /\ 5 - 1 = 4 /\ 6 - 1 = 5
    OBVIOUS
  <2>2. \A n \in 1 .. 6 : n = 1 \/ n = 2 \/ n = 3 \/ n = 4 \/ n = 5 \/ n = 6
    OBVIOUS
  <2> HIDE DEF A
  <2> QED
    BY ONLY <1>2, <1>4, <2>1, <2>2
<1>6. A(4) = <<A(4)[1], A(4)[2]>> /\ A(6) = <<A(6)[1], A(6)[2]>>
  BY <1>2, <1>4
<1> DEFINE z == Neighbour(Neighbour(p, r), r)
<1>7. z = <<(p[1] + u) + u, (p[2] + v) + v>>
  BY <1>3
<1> HIDE DEF A, x, y, u, v, o, l, z
<1>8. CASE FourMoves(w, a, r, r, o)
  <2>1. A(4) = z
    <3>1. A(1)[1] = p[1] + x /\ A(1)[2] = p[2] + y
      BY <1>2, <1>4, <1>8 DEF FourMoves, x, y
    <3>2. A(2)[1] = A(1)[1] + u /\ A(2)[2] = A(1)[2] + v
      BY <1>2, <1>4, <1>8 DEF FourMoves, u, v
    <3>3. A(3)[1] = A(2)[1] + u /\ A(3)[2] = A(2)[2] + v
      BY <1>2, <1>4, <1>8 DEF FourMoves, u, v
    <3>4. A(4)[1] = A(3)[1] + (0 - x) /\ A(4)[2] = A(3)[2] + (0 - y)
      BY <1>1, <1>2, <1>4, <1>8 DEF FourMoves
    <3> QED
      BY ONLY <1>1, <1>6, <1>7, <3>1, <3>2, <3>3, <3>4
  <2> QED
    BY <1>8, <2>1 DEF FourMoves, A, z
<1>9. ASSUME NEW d1, NEW d2, NEW d3, NEW d4, NEW d5, NEW d6, SixMoves(w, d1, d2, d3, d4, d5, d6)
      PROVE  /\ Len(w) = 6
             /\ A(1)[1] = p[1] + Delta(d1)[1] /\ A(1)[2] = p[2] + Delta(d1)[2]
             /\ A(2)[1] = A(1)[1] + Delta(d2)[1] /\ A(2)[2] = A(1)[2] + Delta(d2)[2]
             /\ A(3)[1] = A(2)[1] + Delta(d3)[1] /\ A(3)[2] = A(2)[2] + Delta(d3)[2]
             /\ A(4)[1] = A(3)[1] + Delta(d4)[1] /\ A(4)[2] = A(3)[2] + Delta(d4)[2]
             /\ A(5)[1] = A(4)[1] + Delta(d5)[1] /\ A(5)[2] = A(4)[2] + Delta(d5)[2]
             /\ A(6)[1] = A(5)[1] + Delta(d6)[1] /\ A(6)[2] = A(5)[2] + Delta(d6)[2]
  BY ONLY <1>2, <1>4, <1>9 DEF SixMoves
<1>10. /\ Delta(a)[1] = x /\ Delta(a)[2] = y /\ Delta(r)[1] = u /\ Delta(r)[2] = v
  BY DEF x, y, u, v
<1>11. CASE SixMoves(w, l, a, r, r, r, o)
  <2>1. A(6) = z /\ Len(w) = 6
    BY ONLY <1>1, <1>6, <1>7, <1>9, <1>10, <1>11
  <2> QED
    BY <2>1 DEF A, z
<1>12. CASE SixMoves(w, a, r, r, r, o, l)
  <2>1. A(6) = z /\ Len(w) = 6
    BY ONLY <1>1, <1>6, <1>7, <1>9, <1>10, <1>12
  <2> QED
    BY <2>1 DEF A, z
<1>13. CASE SixMoves(w, a, a, r, o, r, o)
  <2>1. A(6) = z /\ Len(w) = 6
    BY ONLY <1>1, <1>6, <1>7, <1>9, <1>10, <1>13
  <2> QED
    BY <2>1 DEF A, z
<1>14. CASE SixMoves(w, a, r, a, r, o, o)
  <2>1. A(6) = z /\ Len(w) = 6
    BY ONLY <1>1, <1>6, <1>7, <1>9, <1>10, <1>14
  <2> QED
    BY <2>1 DEF A, z
<1> QED
  BY <1>8, <1>11, <1>12, <1>13, <1>14 DEF IsMethod, o, l

\* A way turned by up, and one mirrored.
Turned(v, up) == [j \in DOMAIN v |-> (v[j] + up) % 4]
Mirrored(v) == [j \in DOMAIN v |-> IF v[j] \in {Up, Down} THEN Opposite(v[j]) ELSE v[j]]

\* A way that is turned has the same length.
LEMMA TurnedIs ==
  ASSUME NEW v \in Seq(Directions), NEW up \in Directions
  PROVE  /\ Turned(v, up) \in Seq(Directions) /\ Len(Turned(v, up)) = Len(v)
         /\ \A j \in 1 .. Len(v) : Turned(v, up)[j] = (v[j] + up) % 4
<1>1. DOMAIN v = 1 .. Len(v) /\ Len(v) \in Nat /\ \A j \in 1 .. Len(v) : v[j] \in Directions
  OBVIOUS
<1>2. \A x \in Directions : (x + up) % 4 \in Directions
  BY DEF Directions
<1>3. Turned(v, up) = [j \in 1 .. Len(v) |-> (v[j] + up) % 4]
  BY <1>1 DEF Turned
<1> QED
  BY <1>1, <1>2, <1>3

\* So has one that is mirrored.
LEMMA MirroredIs ==
  ASSUME NEW v \in Seq(Directions)
  PROVE  /\ Mirrored(v) \in Seq(Directions) /\ Len(Mirrored(v)) = Len(v)
         /\ \A j \in 1 .. Len(v) : Mirrored(v)[j] = IF v[j] \in {Up, Down} THEN Opposite(v[j]) ELSE v[j]
<1>1. DOMAIN v = 1 .. Len(v) /\ Len(v) \in Nat /\ \A j \in 1 .. Len(v) : v[j] \in Directions
  OBVIOUS
<1>2. \A x \in Directions : Opposite(x) \in Directions
  BY DEF Directions, Opposite
<1>3. Mirrored(v) = [j \in 1 .. Len(v) |-> IF v[j] \in {Up, Down} THEN Opposite(v[j]) ELSE v[j]]
  BY <1>1 DEF Mirrored
<1> QED
  BY <1>1, <1>2, <1>3

\* Those of the code: the five methods turned, then on the other side.
LEMMA MethodTurned ==
  ASSUME NEW v \in Seq(Directions), NEW up \in Directions, IsMethod(v, Up, Right)
  PROVE  /\ IsMethod(Turned(v, up), up, (up + 1) % 4)
         /\ IsMethod(Turned(Mirrored(v), up), Opposite(up), (up + 1) % 4)
<1> DEFINE m == Mirrored(v)
           w == Turned(v, up)
           z == Turned(m, up)
           r == (up + 1) % 4
<1>1. /\ Up = 0 /\ Right = 1 /\ Down = 2 /\ Left = 3 /\ Opposite(0) = 2 /\ Opposite(1) = 3 /\ Opposite(2) = 0
  BY DEF Up, Right, Down, Left, Opposite
<1>2. /\ (0 + up) % 4 = up /\ (1 + up) % 4 = r /\ (2 + up) % 4 = Opposite(up)
      /\ (3 + up) % 4 = Opposite(r) /\ Opposite(Opposite(up)) = up
  BY DEF Directions, Opposite
<1>3. Len(w) = Len(v) /\ Len(m) = Len(v) /\ Len(z) = Len(v) /\ m \in Seq(Directions)
  BY TurnedIs, MirroredIs
<1>4. \A j \in 1 .. Len(v) : w[j] = (v[j] + up) % 4
  BY TurnedIs
<1>5. \A j \in 1 .. Len(v) : m[j] = IF v[j] \in {0, 2} THEN Opposite(v[j]) ELSE v[j]
  BY MirroredIs, <1>1
<1>6. \A j \in 1 .. Len(v) : z[j] = (m[j] + up) % 4
  BY <1>3, TurnedIs
<1> HIDE DEF m, w, z, r
<1>7. \A j \in 1 .. Len(v) : /\ v[j] = 0 => w[j] = up /\ z[j] = Opposite(up)
                             /\ v[j] = 1 => w[j] = r /\ z[j] = r
                             /\ v[j] = 2 => w[j] = Opposite(up) /\ z[j] = up
                             /\ v[j] = 3 => w[j] = Opposite(r) /\ z[j] = Opposite(r)
  BY ONLY <1>1, <1>2, <1>4, <1>5, <1>6
<1>8. CASE FourMoves(v, 0, 1, 1, 2)
  <2>1. FourMoves(w, up, r, r, Opposite(up)) /\ FourMoves(z, Opposite(up), r, r, up)
    BY ONLY <1>3, <1>7, <1>8 DEF FourMoves
  <2> QED
    BY <1>2, <2>1 DEF IsMethod, w, z, r, m
<1>10. CASE SixMoves(v, 3, 0, 1, 1, 1, 2)
  <2>1. SixMoves(w, Opposite(r), up, r, r, r, Opposite(up)) /\ SixMoves(z, Opposite(r), Opposite(up), r, r, r, up)
    BY ONLY <1>3, <1>7, <1>10 DEF SixMoves
  <2> QED
    BY <1>2, <2>1 DEF IsMethod, w, z, r, m
<1>11. CASE SixMoves(v, 0, 1, 1, 1, 2, 3)
  <2>1. SixMoves(w, up, r, r, r, Opposite(up), Opposite(r)) /\ SixMoves(z, Opposite(up), r, r, r, up, Opposite(r))
    BY ONLY <1>3, <1>7, <1>11 DEF SixMoves
  <2> QED
    BY <1>2, <2>1 DEF IsMethod, w, z, r, m
<1>12. CASE SixMoves(v, 0, 0, 1, 2, 1, 2)
  <2>1. SixMoves(w, up, up, r, Opposite(up), r, Opposite(up)) /\ SixMoves(z, Opposite(up), Opposite(up), r, up, r, up)
    BY ONLY <1>3, <1>7, <1>12 DEF SixMoves
  <2> QED
    BY <1>2, <2>1 DEF IsMethod, w, z, r, m
<1>13. CASE SixMoves(v, 0, 1, 0, 1, 2, 2)
  <2>1. SixMoves(w, up, r, up, r, Opposite(up), Opposite(up)) /\ SixMoves(z, Opposite(up), r, Opposite(up), r, up, up)
    BY ONLY <1>3, <1>7, <1>13 DEF SixMoves
  <2> QED
    BY <1>2, <2>1 DEF IsMethod, w, z, r, m
<1> QED
  BY <1>1, <1>8, <1>10, <1>11, <1>12, <1>13 DEF IsMethod

\* The ten ways of moveToLinearTwoNeighborMoreOptimally are of that kind.
LEMMA LinearWayIs ==
  ASSUME NEW up \in Directions, NEW i \in 1 .. 10
  PROVE  /\ LinearWays(up)[i] \in Seq(Directions)
         /\ \E a \in Directions : IsMethod(LinearWays(up)[i], a, (up + 1) % 4)
<1> DEFINE above == <<Detour(0, 1), <<3, 0, 1, 1, 1, 2>>, <<0, 1, 1, 1, 2, 3>>,
                      <<0, 0, 1, 2, 1, 2>>, <<0, 1, 0, 1, 2, 2>>>>
           way   == IF i % 2 = 1 THEN above[(i + 1) \div 2] ELSE Mirrored(above[i \div 2])
<1>1. /\ 0 \in Directions /\ 1 \in Directions /\ 2 \in Directions /\ 3 \in Directions
      /\ Up = 0 /\ Right = 1 /\ Opposite(0) = 2 /\ Opposite(1) = 3 /\ Opposite(up) \in Directions
  BY DEF Directions, Up, Right, Opposite
<1>2. ASSUME NEW k \in 1 .. 5
      PROVE  above[k] \in Seq(Directions) /\ IsMethod(above[k], Up, Right)
  <2>1. above[1] = <<0, 1, 1, 2>>
    BY <1>1 DEF Detour
  <2>2. /\ above[2] = <<3, 0, 1, 1, 1, 2>> /\ above[3] = <<0, 1, 1, 1, 2, 3>>
        /\ above[4] = <<0, 0, 1, 2, 1, 2>> /\ above[5] = <<0, 1, 0, 1, 2, 2>>
    OBVIOUS
  <2> HIDE DEF above
  <2>3. CASE k = 1
    <3>1. FourMoves(above[1], 0, 1, 1, 2) /\ above[1] \in Seq(Directions)
      BY <1>1, <2>1 DEF FourMoves
    <3> QED
      BY <1>1, <2>3, <3>1 DEF IsMethod
  <2>4. CASE k = 2
    <3>1. SixMoves(above[2], 3, 0, 1, 1, 1, 2) /\ above[2] \in Seq(Directions)
      BY <1>1, <2>2 DEF SixMoves
    <3> QED
      BY <1>1, <2>4, <3>1 DEF IsMethod
  <2>5. CASE k = 3
    <3>1. SixMoves(above[3], 0, 1, 1, 1, 2, 3) /\ above[3] \in Seq(Directions)
      BY <1>1, <2>2 DEF SixMoves
    <3> QED
      BY <1>1, <2>5, <3>1 DEF IsMethod
  <2>6. CASE k = 4
    <3>1. SixMoves(above[4], 0, 0, 1, 2, 1, 2) /\ above[4] \in Seq(Directions)
      BY <1>1, <2>2 DEF SixMoves
    <3> QED
      BY <1>1, <2>6, <3>1 DEF IsMethod
  <2>7. CASE k = 5
    <3>1. SixMoves(above[5], 0, 1, 0, 1, 2, 2) /\ above[5] \in Seq(Directions)
      BY <1>1, <2>2 DEF SixMoves
    <3> QED
      BY <1>1, <2>7, <3>1 DEF IsMethod
  <2> QED
    BY <2>3, <2>4, <2>5, <2>6, <2>7
<1>3. LinearWays(up)[i] = Turned(way, up)
  <2> DEFINE below == [k \in 1 .. 5 |-> [j \in DOMAIN above[k] |->
                         IF above[k][j] \in {Up, Down} THEN Opposite(above[k][j]) ELSE above[k][j]]]
             v(k) == IF k % 2 = 1 THEN above[(k + 1) \div 2] ELSE below[k \div 2]
  <2>1. LinearWays(up) = [k \in 1 .. 10 |-> [j \in DOMAIN v(k) |-> (v(k)[j] + up) % 4]]
    BY DEF LinearWays
  <2>2. LinearWays(up)[i] = [j \in DOMAIN v(i) |-> (v(i)[j] + up) % 4]
    <3> HIDE DEF v
    <3> QED
      BY <2>1
  <2>3. v(i) = way
    <3>1. CASE i % 2 = 1
      BY <3>1
    <3>2. CASE i % 2 # 1
      <4>1. i \div 2 \in 1 .. 5
        BY <3>2
      <4>2. \A k \in 1 .. 5 : below[k] = Mirrored(above[k])
        BY DEF Mirrored
      <4> HIDE DEF below
      <4>3. below[i \div 2] = Mirrored(above[i \div 2])
        BY <4>1, <4>2
      <4> HIDE DEF above
      <4> QED
        BY <3>2, <4>3
    <3> QED
      BY <3>1, <3>2
  <2> HIDE DEF way, v
  <2> QED
    BY <2>2, <2>3 DEF Turned
<1> HIDE DEF above
<1>4. CASE i % 2 = 1
  <2> DEFINE w == above[(i + 1) \div 2]
  <2>1. (i + 1) \div 2 \in 1 .. 5
    BY <1>4
  <2>2. w \in Seq(Directions) /\ IsMethod(w, Up, Right)
    BY <1>2, <2>1
  <2>3. LinearWays(up)[i] = Turned(w, up)
    BY <1>3, <1>4
  <2> HIDE DEF w
  <2>4. IsMethod(Turned(w, up), up, (up + 1) % 4)
    BY <2>2, MethodTurned
  <2>5. Turned(w, up) \in Seq(Directions)
    BY <2>2, TurnedIs
  <2> QED
    BY <2>3, <2>4, <2>5
<1>5. CASE i % 2 # 1
  <2> DEFINE w == above[i \div 2]
  <2>1. i \div 2 \in 1 .. 5
    BY <1>5
  <2>2. w \in Seq(Directions) /\ IsMethod(w, Up, Right)
    BY <1>2, <2>1
  <2>3. LinearWays(up)[i] = Turned(Mirrored(w), up)
    BY <1>3, <1>5
  <2> HIDE DEF w
  <2>4. IsMethod(Turned(Mirrored(w), up), Opposite(up), (up + 1) % 4)
    BY <2>2, MethodTurned
  <2>5. Turned(Mirrored(w), up) \in Seq(Directions)
    BY <2>2, MirroredIs, TurnedIs
  <2> QED
    BY <1>1, <2>3, <2>4, <2>5
<1> QED
  BY <1>4, <1>5

\* What moveToTwoNeighborMoreOptimally walks, though not always the shortest way.
LEMMA MoreOptimalWayIs ==
  ASSUME NEW b, NEW dst, b.selected \in Points \ b.fixed, dst \in Points \ b.fixed,
         Distance(b.selected, dst) = 2, Fits(b.fixed, b.selected),
         MoreOptimalWay(b, dst) # NoWay
  PROVE  Leads(b.fixed, b.selected, MoreOptimalWay(b, dst), dst)
<1> DEFINE p    == b.selected
           dir  == Head(Horizontally(p, dst[2]) \o Vertically(p, dst[1]))
           ways == LinearWays((dir + 3) % 4)
           open == {i \in DOMAIN ways : IsOpen(b, p, ways[i])}
           best == {i \in open : \A j \in open : LinearEval(b, ways[i]) <= LinearEval(b, ways[j])}
           way  == MoreOptimalWay(b, dst)
<1>1. p \in Int \X Int /\ dst \in Int \X Int /\ p \in Points
  BY PointsType
<1>2. way = IF best = {} \/ (p[1] # dst[1] /\ p[2] # dst[2])
            THEN OptimalWayTo(b, dst) ELSE ways[Min(best)]
  BY Zenon DEF MoreOptimalWay
<1>3. PICK d, e \in Directions : TwoAway(p, dst, d, e)
  BY <1>1, TwoAwayExists
<1>4. dir = d /\ dst = Neighbour(Neighbour(p, d), e)
  BY <1>3, Zenon DEF TwoAway
<1>8. ASSUME p[1] = dst[1] \/ p[2] = dst[2] PROVE d = e
  <2>1. /\ Delta(0) = <<-1, 0>> /\ Delta(1) = <<0, 1>> /\ Delta(2) = <<1, 0>> /\ Delta(3) = <<0, -1>>
    BY DEF Delta, Up, Right, Down, Left
  <2>2. d \in {0, 1, 2, 3} /\ e \in {0, 1, 2, 3}
    BY DEF Directions
  <2>3. /\ dst[1] = (p[1] + Delta(d)[1]) + Delta(e)[1]
        /\ dst[2] = (p[2] + Delta(d)[2]) + Delta(e)[2]
    BY <1>4 DEF Neighbour
  <2>4. p[1] \in Int /\ p[2] \in Int /\ dst # p
        /\ (p[1] # dst[1] \/ p[2] # dst[2])
    <3>1. dst # p
      BY DistanceType
    <3>2. p = <<p[1], p[2]>> /\ dst = <<dst[1], dst[2]>> /\ p[1] \in Int /\ p[2] \in Int
      BY <1>1, Neighbours
    <3> QED
      BY <3>1, <3>2
  <2> HIDE DEF p
  <2> QED
    BY ONLY <1>8, <2>1, <2>2, <2>3, <2>4
<1>5. DOMAIN ways = 1 .. 10
  BY DEF LinearWays
<1>6. CASE way = OptimalWayTo(b, dst)
  <2>1. Finds(b.fixed, p, dst, way)
    BY <1>6, OptimalWayToIs
  <2> QED
    BY <2>1 DEF Finds, Shortest
<1>7. CASE way # OptimalWayTo(b, dst)
  <2> DEFINE up == (d + 3) % 4
             i  == Min(best)
  <2>1. d = e /\ best # {} /\ way = ways[i]
    BY <1>2, <1>4, <1>7, <1>8, Zenon
  <2>2. i \in best
    <3>1. best \in SUBSET Nat
      <4> HIDE DEF ways
      <4>1. open \in SUBSET (1 .. 10)
        BY <1>5
      <4>2. best \in SUBSET open
        OBVIOUS
      <4> HIDE DEF open, best
      <4> QED
        BY <4>1, <4>2
    <3> QED
      BY <2>1, <3>1, MinIs, Zenon
  <2>3. i \in 1 .. 10 /\ IsOpen(b, p, way)
    BY <1>5, <2>1, <2>2, Zenon
  <2>4. up \in Directions /\ (up + 1) % 4 = d
    BY DEF Directions
  <2>5. way = LinearWays(up)[i]
    BY <1>4, <2>1, Zenon
  <2> HIDE DEF way, i, up
  <2>6. way \in Seq(Directions) /\ \E a \in Directions : IsMethod(way, a, d)
    BY <2>3, <2>4, <2>5, LinearWayIs, Zenon
  <2>7. After(p, way, Len(way)) = dst
    <3>1. PICK a \in Directions : IsMethod(way, a, d)
      BY <2>6
    <3>2. After(p, way, Len(way)) = Neighbour(Neighbour(p, d), d)
      BY ONLY <1>1, <3>1, d \in Directions, MethodLeads
    <3> QED
      BY <1>4, <2>1, <3>2, Zenon
  <2>8. way # <<>>
    <3>1. Len(way) # 0
      BY <2>6 DEF IsMethod, FourMoves, SixMoves
    <3> QED
      BY <3>1
  <2>9. Leads(b.fixed, p, way, dst)
    BY <1>1, <2>3, <2>6, <2>7, <2>8, OpenLeads
  <2> QED
    BY <2>9 DEF way
<1> QED
  BY <1>6, <1>7

-----------------------------------------------------------------------------
(* Carrying a piece along a way.                                           *)

\* The states of the steps of a way.
IsCarry(g, c, way, n) == g[0] = c /\ \A j \in 1 .. n : g[j] = CarryStep(g[j - 1], way[j])

\* The same as a function.
CarryFrom(g, c, way, n) ==
  g = [j \in 0 .. n |-> IF j = 0 THEN c ELSE CarryStep(g[j - 1], way[j])]

\* It exists for any number of steps.
LEMMA CarryExists ==
  ASSUME NEW c, NEW way
  PROVE  \A n \in Nat : \E g : CarryFrom(g, c, way, n)
<1> DEFINE P == {n \in Nat : \E g : CarryFrom(g, c, way, n)}
<1>1. 0 \in P
  <2> DEFINE g == [j \in 0 .. 0 |-> c]
  <2>1. CarryFrom(g, c, way, 0)
    BY DEF CarryFrom
  <2> QED
    BY <2>1
<1>2. ASSUME NEW n \in P PROVE n + 1 \in P
  <2>1. PICK g : CarryFrom(g, c, way, n)
    OBVIOUS
  <2> DEFINE h == [j \in 0 .. n + 1 |-> IF j = n + 1 THEN CarryStep(g[n], way[n + 1]) ELSE g[j]]
             k == [j \in 0 .. n + 1 |-> IF j = 0 THEN c ELSE CarryStep(h[j - 1], way[j])]
  <2>2. n \in Nat
    OBVIOUS
  <2>3. /\ g[0] = c
        /\ \A j \in 1 .. n : g[j] = CarryStep(g[j - 1], way[j])
    BY <2>1, <2>2 DEF CarryFrom
  <2>4. ASSUME NEW j \in 0 .. n + 1 PROVE h[j] = k[j]
    <3>1. CASE j = 0
      BY <2>2, <2>3, <3>1
    <3>2. CASE j \in 1 .. n
      <4>1. j - 1 \in 0 .. n /\ j - 1 # n + 1 /\ j # n + 1 /\ j # 0
        BY <2>2, <3>2
      <4>2. h[j - 1] = g[j - 1] /\ h[j] = g[j]
        BY <2>2, <4>1
      <4>3. k[j] = CarryStep(h[j - 1], way[j])
        BY <4>1
      <4> QED
        BY <2>3, <3>2, <4>2, <4>3
    <3>3. CASE j = n + 1
      <4>1. n \in 0 .. n + 1 /\ n # n + 1 /\ (n + 1) - 1 = n /\ n + 1 # 0
        BY <2>2
      <4>2. h[n] = g[n] /\ h[n + 1] = CarryStep(g[n], way[n + 1])
        BY <2>2, <4>1
      <4>3. k[n + 1] = CarryStep(h[n], way[n + 1])
        BY <3>3, <4>1
      <4> QED
        BY <3>3, <4>2, <4>3
    <3> QED
      BY <2>2, <3>1, <3>2, <3>3
  <2>5. h = k
    BY <2>4
  <2>6. CarryFrom(h, c, way, n + 1)
    BY <2>5 DEF CarryFrom
  <2> QED
    BY <2>2, <2>6
<1>3. P \in SUBSET Nat
  OBVIOUS
<1> HIDE DEF P
<1>4. P = Nat
  BY <1>1, <1>2, <1>3, SetInduction
<1> QED
  BY <1>4 DEF P

\* CarrySteps is the last of the states.
LEMMA CarryStepsAre ==
  ASSUME NEW c, NEW way, NEW n \in Nat
  PROVE  \E g : IsCarry(g, c, way, n) /\ CarrySteps(c, way, n) = g[n]
<1> DEFINE at == CHOOSE g : g = [j \in 0 .. n |-> IF j = 0 THEN c ELSE CarryStep(g[j - 1], way[j])]
<1>1. \E g : CarryFrom(g, c, way, n)
  BY CarryExists
<1>2. at = [j \in 0 .. n |-> IF j = 0 THEN c ELSE CarryStep(at[j - 1], way[j])]
  BY <1>1 DEF CarryFrom
<1>3. CarrySteps(c, way, n) = at[n]
  BY DEF CarrySteps
<1> HIDE DEF at
<1>4. IsCarry(at, c, way, n)
  <2>1. at[0] = c
    BY <1>2
  <2>2. ASSUME NEW j \in 1 .. n PROVE at[j] = CarryStep(at[j - 1], way[j])
    BY <1>2
  <2> QED
    BY <2>1, <2>2 DEF IsCarry
<1> QED
  BY <1>3, <1>4

\* A way of the piece from src to q along which the selected one can always go
\* around it to where it is pushed next.
Plan(b, src, way, q) ==
  /\ way # <<>> /\ Leads(b.fixed, src, way, q)
  /\ Reachable(b.fixed \cup {src}, b.selected, After(src, way, 1))
  /\ \A i \in 1 .. Len(way) - 1 :
       Reachable(b.fixed \cup {After(src, way, i)}, After(src, way, i - 1), After(src, way, i + 1))

\* The board of a call of trajectPiece, and its arguments.
CarryCall(b, src, dst) ==
  /\ b \in FixBoards /\ b.selected \notin b.fixed
  /\ src \in Points \ b.fixed /\ src # b.selected
  /\ dst \in Points \ b.fixed

\* Around the cells that are fixed and one more, the marks are out of reach.
FitsAround(fixed) ==
  \A r \in Points \ fixed : \A p \in Points \ (fixed \cup {r}) : Fits(fixed \cup {r}, p)

\* The piece is at q and the selected one at s.
CarryAt(b, src, c, q, s) ==
  /\ c.board \in FixBoards
  /\ c.board.fixed = b.fixed
  /\ c.piece = q
  /\ c.board.cell[q] = b.cell[src]
  /\ c.board.selected = s
  /\ c.board.cell[s] = b.cell[b.selected]
  /\ \A x \in b.fixed : c.board.cell[x] = b.cell[x]

\* One step: the selected one goes around the piece and pushes it.
LEMMA CarryStepIs ==
  ASSUME NEW b, NEW src, NEW c, NEW q \in Points \ b.fixed, NEW s \in Points \ b.fixed, s # q,
         CarryAt(b, src, c, q, s), FitsAround(b.fixed),
         NEW dir \in Directions, Neighbour(q, dir) \in Points \ b.fixed,
         Reachable(b.fixed \cup {q}, s, Neighbour(q, dir))
  PROVE  CarryAt(b, src, CarryStep(c, dir), Neighbour(q, dir), q)
<1> DEFINE next  == Neighbour(q, dir)
           fixed == b.fixed \cup {q}
           f     == Fix(c.board, q)
           way   == OptimalWayTo(f, next)
           w     == Walk(c.board, way)
           m     == Moved(w, Opposite(dir))
<1>1. q \in Int \X Int /\ next # q /\ Opposite(dir) \in Directions /\ Neighbour(next, Opposite(dir)) = q
  <2>1. q \in Int \X Int
    BY PointsType
  <2>2. Distance(q, next) = 1
    BY <2>1, NeighbourAway
  <2>3. next # q
    BY <2>2, DistanceType
  <2> QED
    BY <2>1, <2>3, NeighbourBack
<1>2. f.fixed = fixed /\ f.selected = s
  <2>1. c.board = [cell |-> c.board.cell, selected |-> s, fixed |-> b.fixed]
    BY DEF CarryAt, FixBoards
  <2>2. f = [cell |-> c.board.cell, selected |-> s, fixed |-> b.fixed \cup {q}]
    <3>1. ASSUME NEW r, NEW cell, r = [cell |-> cell, selected |-> s, fixed |-> b.fixed]
          PROVE  [r EXCEPT !.fixed = r.fixed \cup {q}]
                   = [cell |-> cell, selected |-> s, fixed |-> b.fixed \cup {q}]
      BY <3>1
    <3>2. f = [c.board EXCEPT !.fixed = c.board.fixed \cup {q}]
      BY DEF Fix
    <3> QED
      BY <2>1, <3>1, <3>2
  <2> QED
    BY <2>2
<1>3. s \in Points \ fixed /\ next \in Points \ fixed /\ Fits(fixed, s)
  BY <1>1 DEF FitsAround
<1>4. Leads(fixed, s, way, next)
  <2>1. Finds(fixed, s, next, way)
    BY <1>2, <1>3, OptimalWayToIs
  <2>2. Reachable(fixed, s, next)
    OBVIOUS
  <2>3. way # NoWay
    BY <2>1, <2>2, FindsReachable
  <2> QED
    BY <2>1, <2>3 DEF Finds, Shortest
<1> HIDE DEF way, f
<1>5. Walks(c.board, w, fixed, next)
  <2>1. c.board \in FixBoards /\ c.board.selected = s
    BY DEF CarryAt
  <2> QED
    BY <1>3, <1>4, <2>1, WalkIs
<1>6. CarryStep(c, dir) = [board |-> m, piece |-> next]
  BY DEF CarryStep, CarryAt, f, way
<1> HIDE DEF w, next, fixed
<1>7. w \in FixBoards /\ w.selected = next /\ w.fixed = b.fixed
  BY <1>5 DEF Walks, CarryAt
<1>8. /\ m \in FixBoards /\ m.fixed = b.fixed /\ m.selected = q
      /\ \A x \in Points : m.cell[x] = IF x = q THEN w.cell[next]
                                       ELSE IF x = next THEN w.cell[q] ELSE w.cell[x]
  BY <1>1, <1>7, MovedIs
<1> HIDE DEF m
<1>9. w.cell[next] = b.cell[b.selected] /\ w.cell[q] = b.cell[src]
  BY <1>5 DEF Walks, CarryAt, fixed
<1>10. m.cell[next] = b.cell[src] /\ m.cell[q] = b.cell[b.selected]
  BY <1>1, <1>3, <1>8, <1>9
<1>11. ASSUME NEW x \in b.fixed PROVE m.cell[x] = b.cell[x]
  <2>1. x \in Points /\ b.fixed \in SUBSET Points
    BY DEF CarryAt, FixBoards
  <2>2. x # q /\ x # next
    BY <1>3 DEF fixed
  <2>3. w.cell[x] = c.board.cell[x] /\ c.board.cell[x] = b.cell[x]
    BY <1>5, <2>1 DEF Walks, CarryAt, fixed
  <2> QED
    BY <1>8, <2>1, <2>2, <2>3
<1> QED
  BY <1>6, <1>8, <1>10, <1>11 DEF CarryAt, next

\* All of them.
LEMMA CarryStepsCarry ==
  ASSUME NEW b, NEW src, NEW dst, CarryCall(b, src, dst), FitsAround(b.fixed),
         NEW way, Plan(b, src, way, dst)
  PROVE  \E s \in Points :
           CarryAt(b, src, CarrySteps([board |-> b, piece |-> src], way, Len(way)), dst, s)
<1> DEFINE c == [board |-> b, piece |-> src]
           n == Len(way)
           a(j) == After(src, way, j)
           s(j) == IF j = 0 THEN b.selected ELSE a(j - 1)
<1>1. /\ src \in Points /\ src \in Int \X Int /\ b.selected \in Points \ b.fixed
      /\ src \notin b.fixed /\ src # b.selected /\ b \in FixBoards
  BY PointsType DEF CarryCall, FixBoards
<1>2. /\ way \in Seq(Directions) /\ n \in Nat /\ \A j \in 1 .. n : way[j] \in Directions
      /\ a(n) = dst /\ \A j \in 1 .. n : a(j) \in Points \ b.fixed
  BY DEF Plan, Leads
<1>3. a(0) = src
  BY <1>1, AfterIs
<1>4. PICK g : IsCarry(g, c, way, n) /\ CarrySteps(c, way, n) = g[n]
  BY <1>2, CarryStepsAre
<1> DEFINE P == {j \in Nat : j <= n => CarryAt(b, src, g[j], a(j), s(j))}
<1>5. 0 \in P
  <2>1. g[0] = c
    BY <1>4 DEF IsCarry
  <2>2. CarryAt(b, src, c, src, b.selected)
    BY <1>1 DEF CarryAt
  <2> QED
    BY <1>3, <2>1, <2>2
<1>6. ASSUME NEW j \in P PROVE j + 1 \in P
  <2> SUFFICES ASSUME j + 1 <= n PROVE CarryAt(b, src, g[j + 1], a(j + 1), s(j + 1))
    OBVIOUS
  <2>1. j \in Nat /\ j <= n /\ j + 1 \in 1 .. n /\ (j + 1) - 1 = j /\ j + 1 # 0
    BY <1>2
  <2>2. CarryAt(b, src, g[j], a(j), s(j))
    BY <2>1
  <2>3. g[j + 1] = CarryStep(g[j], way[j + 1])
    BY <1>4, <2>1 DEF IsCarry
  <2>4. a(j + 1) = Neighbour(a(j), way[j + 1]) /\ way[j + 1] \in Directions
    BY <1>1, <1>2, <2>1, AfterIs
  <2>5. s(j + 1) = a(j)
    BY <2>1
  <2>6. a(j) \in Points \ b.fixed /\ a(j + 1) \in Points \ b.fixed
    <3>1. CASE j = 0
      BY <1>1, <1>2, <1>3, <2>1, <3>1
    <3>2. CASE j # 0
      <4>1. j \in 1 .. n
        BY <1>2, <2>1, <3>2
      <4> QED
        BY <1>2, <2>1, <4>1
    <3> QED
      BY <3>1, <3>2
  <2>7. Reachable(b.fixed \cup {a(j)}, s(j), a(j + 1)) /\ s(j) \in Points \ b.fixed /\ s(j) # a(j)
    <3>1. CASE j = 0
      <4>1. s(j) = b.selected /\ a(j) = src /\ a(j + 1) = a(1)
        BY <1>3, <3>1
      <4>2. Reachable(b.fixed \cup {src}, b.selected, a(1))
        BY DEF Plan
      <4> HIDE DEF a, s
      <4> QED
        BY <1>1, <4>1, <4>2
    <3>2. CASE j # 0
      <4>1. j \in 1 .. Len(way) - 1 /\ s(j) = a(j - 1) /\ j - 1 \in Nat /\ (j - 1) + 1 = j /\ j \in 1 .. n
        BY <1>2, <2>1, <3>2
      <4>2. Reachable(b.fixed \cup {a(j)}, a(j - 1), a(j + 1))
        BY <4>1 DEF Plan
      <4>3. a(j - 1) \in Points \ b.fixed
        <5>1. CASE j - 1 = 0
          BY <1>1, <1>3, <5>1
        <5>2. CASE j - 1 # 0
          <6>1. j - 1 \in 1 .. n
            BY <1>2, <4>1, <5>2
          <6> QED
            BY <1>2, <6>1
        <5> QED
          BY <5>1, <5>2
      <4>4. a(j - 1) # a(j)
        <5>1. a((j - 1) + 1) = Neighbour(a(j - 1), way[(j - 1) + 1])
          BY <1>1, <4>1, AfterIs
        <5>2. a(j) = Neighbour(a(j - 1), way[j]) /\ way[j] \in Directions
          BY <1>2, <4>1, <5>1
        <5>3. Distance(a(j - 1), a(j)) = 1
          BY <4>3, <5>2, PointsType, NeighbourAway
        <5> QED
          BY <4>3, <5>3, DistanceType
      <4> HIDE DEF a, s
      <4> QED
        BY <4>1, <4>2, <4>3, <4>4
    <3> QED
      BY <3>1, <3>2
  <2> HIDE DEF P, a, s
  <2>8. CarryAt(b, src, CarryStep(g[j], way[j + 1]), Neighbour(a(j), way[j + 1]), a(j))
    BY <2>2, <2>4, <2>6, <2>7, CarryStepIs
  <2> QED
    BY <2>3, <2>4, <2>5, <2>8
<1>7. P \in SUBSET Nat
  OBVIOUS
<1>8. P = Nat
  <2> HIDE DEF P
  <2> QED
    BY <1>5, <1>6, <1>7, SetInduction
<1>9. CarryAt(b, src, g[n], a(n), s(n))
  BY <1>2, <1>8
<1>10. s(n) \in Points
  BY <1>9 DEF CarryAt, FixBoards
<1> HIDE DEF s
<1> QED
  BY <1>2, <1>4, <1>9, <1>10

-----------------------------------------------------------------------------
(* The way from the last visit of src.                                     *)

\* The greatest number of a finite set is in the set.
LEMMA MaxIs ==
  ASSUME NEW n \in Nat, NEW T \in SUBSET (0 .. n), T # {}
  PROVE  Max(T) \in T
<1> DEFINE S == {n - i : i \in T}
<1>1. S \in SUBSET Nat /\ S # {}
  <2>1. ASSUME NEW i \in T PROVE n - i \in Nat
    OBVIOUS
  <2> QED
    BY <2>1
<1>2. PICK k \in S : \A m \in S : k <= m
  BY <1>1, Least
<1>3. PICK x \in T : k = n - x
  OBVIOUS
<1>4. \A y \in T : x >= y
  <2> TAKE y \in T
  <2>1. k <= n - y
    BY <1>2
  <2> QED
    BY <1>3, <2>1
<1> QED
  BY <1>4 DEF Max

\* The rest of a way that comes back to where it began after k moves.
LEMMA RestOfWay ==
  ASSUME NEW src \in Int \X Int, NEW way \in Seq(Directions), NEW k \in 0 .. Len(way) - 1,
         After(src, way, k) = src
  PROVE  LET rest == SubSeq(way, 1 + k, Len(way))
         IN  /\ rest \in Seq(Directions) /\ Len(rest) = Len(way) - k
             /\ \A j \in 0 .. Len(way) - k : After(src, rest, j) = After(src, way, k + j)
<1> DEFINE n    == Len(way)
           rest == SubSeq(way, 1 + k, n)
           P    == {j \in Nat : j <= n - k => After(src, rest, j) = After(src, way, k + j)}
<1>1. n \in Nat /\ k \in Nat /\ 1 + k \in 1 .. n + 1 /\ k < n
  OBVIOUS
<1>2. rest \in Seq(Directions) /\ Len(rest) = n - k /\ \A j \in 1 .. n - k : rest[j] = way[k + j]
  <2>1. /\ SubSeq(way, 1 + k, n) \in Seq(Directions)
        /\ Len(SubSeq(way, 1 + k, n)) = IF 1 + k <= n THEN (n - (1 + k)) + 1 ELSE 0
        /\ \A j \in 1 .. (n - (1 + k)) + 1 : SubSeq(way, 1 + k, n)[j] = way[((1 + k) + j) - 1]
    <3>1. 1 + k \in Int /\ n \in Int /\ \A j \in 1 + k .. n : way[j] \in Directions
      BY <1>1
    <3> HIDE DEF n
    <3> QED
      BY ONLY <3>1, SubSeqProperties
  <2> HIDE DEF rest, n
  <2>2. 1 + k <= n /\ (n - (1 + k)) + 1 = n - k
    BY <1>1
  <2>3. \A j \in 1 .. n - k : ((1 + k) + j) - 1 = k + j
    BY <1>1
  <2>4. /\ SubSeq(way, 1 + k, n) \in Seq(Directions)
        /\ Len(SubSeq(way, 1 + k, n)) = n - k
        /\ \A j \in 1 .. n - k : SubSeq(way, 1 + k, n)[j] = way[k + j]
    BY ONLY <2>1, <2>2, <2>3
  <2> QED
    BY <2>4 DEF rest
<1>3. 0 \in P
  <2>1. k + 0 = k
    OBVIOUS
  <2>2. After(src, rest, 0) = src
    BY AfterIs
  <2> QED
    BY <2>1, <2>2
<1>4. ASSUME NEW j \in P PROVE j + 1 \in P
  <2> SUFFICES ASSUME j + 1 <= n - k PROVE After(src, rest, j + 1) = After(src, way, k + (j + 1))
    OBVIOUS
  <2>1. j \in Nat /\ j <= n - k /\ j + 1 \in 1 .. n - k /\ k + j \in Nat /\ (k + j) + 1 = k + (j + 1)
    BY <1>1
  <2>2. After(src, rest, j) = After(src, way, k + j)
    BY <2>1
  <2> HIDE DEF rest, P
  <2>3. After(src, rest, j + 1) = Neighbour(After(src, rest, j), rest[j + 1])
    BY <2>1, AfterIs
  <2>4. After(src, way, (k + j) + 1) = Neighbour(After(src, way, k + j), way[(k + j) + 1])
    BY <2>1, AfterIs
  <2>5. rest[j + 1] = way[k + (j + 1)]
    BY <1>2, <2>1
  <2> QED
    BY <2>1, <2>2, <2>3, <2>4, <2>5
<1>5. P \in SUBSET Nat
  OBVIOUS
<1>6. P = Nat
  <2> HIDE DEF P
  <2> QED
    BY <1>3, <1>4, <1>5, SetInduction
<1>7. \A j \in 0 .. n - k : After(src, rest, j) = After(src, way, k + j)
  BY <1>1, <1>6
<1> QED
  BY <1>2, <1>7

\* Wherever the piece is on its way, the selected one can come there around src.
LEMMA PlanAroundSource ==
  ASSUME NEW b, NEW src, NEW dst, CarryCall(b, src, dst), NEW way, Plan(b, src, way, dst)
  PROVE  \A i \in 0 .. Len(way) : \/ After(src, way, i) = src
                                  \/ Reachable(b.fixed \cup {src}, b.selected, After(src, way, i))
<1> DEFINE n == Len(way)
           a(i) == After(src, way, i)
           fixed == b.fixed \cup {src}
           Good(i) == a(i) = src \/ Reachable(fixed, b.selected, a(i))
           P == {i \in Nat : i + 1 <= n => Good(i) /\ Good(i + 1)}
<1>1. /\ src \in Points /\ src \in Int \X Int /\ b.selected \in Points
  BY PointsType DEF CarryCall, FixBoards
<1>2. /\ way \in Seq(Directions) /\ n \in Nat /\ \A j \in 1 .. n : way[j] \in Directions
      /\ \A j \in 1 .. n : a(j) \in Points \ b.fixed
  BY DEF Plan, Leads
<1>3. a(0) = src
  BY <1>1, AfterIs
<1>4. Good(0) /\ Good(1)
  BY <1>3 DEF Plan
<1>5. ASSUME NEW i \in P PROVE i + 1 \in P
  <2> SUFFICES ASSUME (i + 1) + 1 <= n PROVE Good(i + 1) /\ Good((i + 1) + 1)
    OBVIOUS
  <2>1. i \in Nat /\ i + 1 <= n
    BY <1>2
  <2> DEFINE k == i + 1
  <2>2. k \in Nat /\ k \in 1 .. Len(way) - 1 /\ k + 1 \in 1 .. n /\ k - 1 = i /\ k \in 1 .. n
    BY <1>2, <2>1
  <2>3. Good(i) /\ Good(k)
    BY <2>1
  <2>4. a(k + 1) = Neighbour(a(k), way[k + 1]) /\ way[k + 1] \in Directions
    BY <1>1, <1>2, <2>2, AfterIs
  <2>5. a(k + 1) \in Points \ b.fixed
    BY <1>2, <2>2
  <2>6. Good(k + 1)
    <3>1. CASE a(k + 1) = src
      BY <3>1
    <3>2. CASE a(k + 1) # src /\ a(k) # src
      <4>1. Reachable(fixed, b.selected, a(k)) /\ Neighbour(a(k), way[k + 1]) \in Points \ fixed
        BY <2>3, <2>4, <2>5, <3>2
      <4>2. Reachable(fixed, b.selected, Neighbour(a(k), way[k + 1]))
        BY <1>1, <2>4, <4>1, ReachableOn
      <4> QED
        BY <2>4, <4>2
    <3>3. CASE a(k + 1) # src /\ a(k) = src
      <4>1. Reachable(b.fixed \cup {a(k)}, a(k - 1), a(k + 1))
        BY <2>2 DEF Plan
      <4>2. Reachable(fixed, a(i), a(k + 1))
        BY <2>2, <3>3, <4>1
      <4>3. a(i) # src
        <5>1. a(i + 1) = Neighbour(a(i), way[i + 1]) /\ way[i + 1] \in Directions
          BY <1>1, <1>2, <2>1, <2>2, AfterIs
        <5>2. a(k) = Neighbour(a(i), way[i + 1]) /\ a(k) = src
          BY <3>3, <5>1
        <5>3. a(i) = src => Distance(src, a(k)) = 1
          BY <1>1, <5>1, <5>2, NeighbourAway
        <5>4. Distance(src, src) = 0
          BY <1>1, DistanceType
        <5> QED
          BY <5>2, <5>3, <5>4
      <4>4. Reachable(fixed, b.selected, a(i))
        BY <2>3, <4>3
      <4> HIDE DEF a, fixed
      <4>5. Reachable(fixed, b.selected, a(k + 1))
        BY <1>1, <4>2, <4>4, ReachableFrom
      <4> QED
        BY <4>5
    <3> QED
      BY <3>1, <3>2, <3>3
  <2> QED
    BY <2>3, <2>6
<1>6. P \in SUBSET Nat /\ 0 \in P
  BY <1>4
<1>7. P = Nat
  <2> HIDE DEF P
  <2> QED
    BY <1>5, <1>6, SetInduction
<1>8. ASSUME NEW i \in 0 .. n PROVE Good(i)
  <2>1. CASE i = 0
    BY <1>4, <2>1
  <2>2. CASE i # 0
    <3> DEFINE j == i - 1
    <3>1. j \in Nat /\ j + 1 = i /\ j + 1 <= n
      BY <1>2, <2>2
    <3> HIDE DEF j
    <3>2. j \in P
      BY <1>7, <3>1
    <3> HIDE DEF Good
    <3> QED
      BY <3>1, <3>2
  <2> QED
    BY <2>1, <2>2
<1> QED
  BY <1>8

\* A plan that visits src again may begin with the last visit.
LEMMA FromLastVisitIs ==
  ASSUME NEW b, NEW src, NEW dst, CarryCall(b, src, dst), NEW way, Plan(b, src, way, dst)
  PROVE  FromLastVisit(src, way) # NoWay /\ Plan(b, src, FromLastVisit(src, way), dst)
<1> DEFINE n == Len(way)
           T == {i \in 0 .. n - 1 : After(src, way, i) = src}
           k == Max(T)
           rest == SubSeq(way, 1 + k, n)
           fixed == b.fixed \cup {src}
<1>1. /\ src \in Points /\ src \in Int \X Int /\ b.selected \in Points /\ b.selected \notin fixed
  BY PointsType DEF CarryCall, FixBoards
<1>2. /\ way \in Seq(Directions) /\ n \in Nat /\ n - 1 \in Nat /\ way # NoWay
      /\ After(src, way, n) = dst
      /\ \A j \in 1 .. n : way[j] \in Directions
      /\ \A j \in 1 .. n : After(src, way, j) \in Points \ b.fixed
  <2>1. way \in Seq(Directions) /\ way # <<>>
    BY DEF Plan, Leads
  <2>2. n \in Nat /\ n # 0
    BY <2>1
  <2> QED
    BY <2>1, <2>2, NoWayIs DEF Plan, Leads
<1>3. k \in T
  <2>1. 0 \in T
    BY <1>1, <1>2, AfterIs
  <2>2. T \in SUBSET (0 .. n - 1)
    OBVIOUS
  <2> HIDE DEF T, n
  <2> QED
    BY <1>2, <2>1, <2>2, MaxIs
<1>4. FromLastVisit(src, way) = rest
  BY <1>2 DEF FromLastVisit
<1> HIDE DEF k
<1>5. k \in 0 .. Len(way) - 1 /\ After(src, way, k) = src
  BY <1>3
<1>6. /\ rest \in Seq(Directions) /\ Len(rest) = n - k
      /\ \A j \in 0 .. n - k : After(src, rest, j) = After(src, way, k + j)
  BY <1>1, <1>2, <1>5, RestOfWay
<1> HIDE DEF T, rest
<1>7. rest # <<>> /\ k \in Nat /\ n - k \in Nat /\ n - k >= 1 /\ k + 1 \in 1 .. n
  <2>1. n - k \in Nat /\ n - k >= 1 /\ k \in Nat /\ k + 1 \in 1 .. n
    BY <1>2, <1>5
  <2> QED
    BY <1>6, <2>1
<1>8. Leads(b.fixed, src, rest, dst)
  <2>1. ASSUME NEW j \in 1 .. Len(rest) PROVE After(src, rest, j) \in Points \ b.fixed
    <3>1. j \in 0 .. n - k /\ k + j \in 1 .. n
      BY <1>2, <1>6, <1>7
    <3> QED
      BY <1>2, <1>6, <3>1
  <2>2. After(src, rest, Len(rest)) = dst
    <3>1. n - k \in 0 .. n - k /\ k + (n - k) = n
      BY <1>2, <1>7
    <3> QED
      BY <1>2, <1>6, <3>1
  <2> QED
    BY <1>6, <2>1, <2>2 DEF Leads
<1>9. ASSUME NEW i \in 1 .. n - 1
      PROVE  Reachable(b.fixed \cup {After(src, way, i)}, After(src, way, i - 1), After(src, way, i + 1))
  BY <1>9 DEF Plan
<1>10. Reachable(fixed, b.selected, After(src, rest, 1))
  <2>1. After(src, rest, 1) = After(src, way, k + 1)
    BY <1>6, <1>7
  <2>2. CASE k = 0
    <3>1. Reachable(fixed, b.selected, After(src, way, 1)) /\ 0 + 1 = 1
      BY DEF Plan
    <3> QED
      BY <2>1, <2>2, <3>1
  <2>3. CASE k # 0
    <3>1. k \in 1 .. n - 1 /\ k - 1 \in 0 .. Len(way) /\ (k - 1) + 1 = k /\ k - 1 \in Nat /\ k \in 1 .. n
      BY <1>2, <1>5, <2>3
    <3>2. Reachable(fixed, After(src, way, k - 1), After(src, way, k + 1))
      BY <1>5, <1>9, <3>1
    <3>3. After(src, way, k - 1) # src
      <4>1. After(src, way, (k - 1) + 1) = Neighbour(After(src, way, k - 1), way[(k - 1) + 1])
        BY <1>1, <3>1, AfterIs
      <4>2. src = Neighbour(After(src, way, k - 1), way[k]) /\ way[k] \in Directions
        BY <1>2, <1>5, <3>1, <4>1
      <4>3. After(src, way, k - 1) = src => Distance(src, src) = 1
        BY <1>1, <4>2, NeighbourAway
      <4>4. Distance(src, src) = 0
        BY <1>1, DistanceType
      <4> QED
        BY <4>3, <4>4
    <3>4. Reachable(fixed, b.selected, After(src, way, k - 1))
      BY <3>1, <3>3, PlanAroundSource
    <3> HIDE DEF fixed
    <3>5. Reachable(fixed, b.selected, After(src, way, k + 1))
      BY <1>1, <3>2, <3>4, ReachableFrom
    <3> QED
      BY <2>1, <3>5
  <2> QED
    BY <2>2, <2>3
<1>11. ASSUME NEW i \in 1 .. Len(rest) - 1
       PROVE  Reachable(b.fixed \cup {After(src, rest, i)}, After(src, rest, i - 1), After(src, rest, i + 1))
  <2>1. /\ i - 1 \in 0 .. n - k /\ i \in 0 .. n - k /\ i + 1 \in 0 .. n - k
        /\ k + i \in 1 .. n - 1 /\ k + (i - 1) = (k + i) - 1 /\ k + (i + 1) = (k + i) + 1
    BY <1>2, <1>6, <1>7
  <2>2. /\ After(src, rest, i - 1) = After(src, way, (k + i) - 1)
        /\ After(src, rest, i) = After(src, way, k + i)
        /\ After(src, rest, i + 1) = After(src, way, (k + i) + 1)
    BY <1>6, <2>1
  <2> DEFINE j == k + i
  <2>3. j \in 1 .. n - 1
    BY <2>1
  <2> HIDE DEF j
  <2>4. Reachable(b.fixed \cup {After(src, way, j)}, After(src, way, j - 1), After(src, way, j + 1))
    BY <1>9, <2>3
  <2> QED
    BY <2>2, <2>4 DEF j
<1>12. Plan(b, src, rest, dst)
  BY <1>7, <1>8, <1>10, <1>11 DEF Plan
<1> QED
  BY <1>4, <1>6, <1>12, NoWayIs

-----------------------------------------------------------------------------
(* The priority queue of trajectPiece.                                     *)

\* A finite set has an element at which a function is greatest.
LEMMA GreatestValue ==
  ASSUME NEW S, IsFiniteSet(S), S # {}, NEW f, \A x \in S : f[x] \in Int
  PROVE  \E x \in S : \A y \in S : f[y] <= f[x]
<1> DEFINE Top(s) == \E x \in s : \A y \in s : f[y] <= f[x]
           P == {s \in SUBSET S : s = {} \/ Top(s)}
<1>1. ASSUME NEW s \in SUBSET S, \A t \in SUBSET s : t # s => t \in P PROVE s \in P
  <2> SUFFICES ASSUME s # {} PROVE Top(s)
    OBVIOUS
  <2>1. PICK x \in s : TRUE
    OBVIOUS
  <2> DEFINE t == s \ {x}
  <2>2. t = {} \/ Top(t)
    <3>1. t \in SUBSET s /\ t # s
      BY <2>1
    <3> QED
      BY <1>1, <3>1
  <2>3. f[x] \in Int /\ \A y \in s : f[y] \in Int /\ (y = x \/ y \in t)
    BY <2>1
  <2>4. CASE t = {}
    <3>1. \A y \in s : f[y] <= f[x]
      BY <2>3, <2>4
    <3> QED
      BY <2>1, <3>1
  <2>5. CASE Top(t)
    <3>1. PICK z \in t : \A y \in t : f[y] <= f[z]
      BY <2>5
    <3>2. CASE f[z] >= f[x]
      <4>1. \A y \in s : f[y] <= f[z]
        BY <2>3, <3>1, <3>2
      <4> QED
        BY <3>1, <4>1
    <3>3. CASE ~(f[z] >= f[x])
      <4>1. f[z] \in Int /\ f[z] <= f[x]
        BY <2>3, <3>1, <3>3
      <4>2. \A y \in s : f[y] <= f[x]
        BY <2>3, <3>1, <4>1
      <4> QED
        BY <2>1, <4>2
    <3> QED
      BY <3>2, <3>3
  <2> QED
    BY <2>2, <2>4, <2>5
<1>2. P \in SUBSET (SUBSET S)
  OBVIOUS
<1>3. P = SUBSET S
  <2> HIDE DEF P
  <2> QED
    BY <1>1, <1>2, SubsetInduction
<1>4. S \in P
  BY <1>3
<1> QED
  BY <1>4

\* What the priority queue holds.
CarryData == [pos : Points, way : Seq(Directions), cost : Int, estimate : Int]

\* The keys of the order are integers.
LEMMA PriorityType ==
  ASSUME NEW d \in CarryData, d.way # <<>>
  PROVE  \A k \in 1 .. 6 : Priority(d)[k] \in Int
<1>1. /\ d.pos \in Points /\ d.way \in Seq(Directions) /\ d.cost \in Int /\ d.estimate \in Int
  BY DEF CarryData
<1>2. d.pos[1] \in Int /\ d.pos[2] \in Int
  BY <1>1, PointsType
<1>3. Last(d.way) \in Directions /\ Front(d.way) \in Seq(Directions) /\ Len(Front(d.way)) = Len(d.way) - 1
      /\ Len(d.way) \in Nat \ {0}
  BY <1>1, LastFront
<1>4. LastMove2(d) \in Directions
  <2>1. CASE Len(d.way) = 1
    BY <1>3, <2>1 DEF LastMove2
  <2>2. CASE Len(d.way) # 1
    <3>1. Front(d.way) # <<>>
      <4>1. Len(Front(d.way)) # 0
        BY <1>3, <2>2
      <4>2. Len(<<>>) = 0
        OBVIOUS
      <4> QED
        BY <4>1, <4>2
    <3>2. Last(Front(d.way)) \in Directions
      BY <1>3, <3>1, LastFront
    <3> QED
      BY <2>2, <3>2 DEF LastMove2
  <2> QED
    BY <2>1, <2>2
<1>5. Last(d.way) \in Int /\ LastMove2(d) \in Int
  BY <1>3, <1>4 DEF Directions
<1> DEFINE a == -d.estimate
           c == -d.cost
           l == Last(d.way)
           m == LastMove2(d)
           y == d.pos[1]
           x == d.pos[2]
<1>6. a \in Int /\ c \in Int /\ l \in Int /\ m \in Int /\ y \in Int /\ x \in Int
  BY <1>1, <1>2, <1>5
<1>7. Priority(d) = <<a, c, l, m, y, x>>
  BY DEF Priority
<1> HIDE DEF a, c, l, m, x, y
<1>8. \A k \in 1 .. 6 : k = 1 \/ k = 2 \/ k = 3 \/ k = 4 \/ k = 5 \/ k = 6
  OBVIOUS
<1> QED
  BY ONLY <1>6, <1>7, <1>8

\* Those whose k-th key is greatest.
Tops(S, k) == {d \in S : \A e \in S : Priority(e)[k] <= Priority(d)[k]}

\* In a finite set some datum has the greatest key.
LEMMA TopsExist ==
  ASSUME NEW S, IsFiniteSet(S), S # {}, NEW k, \A d \in S : Priority(d)[k] \in Int
  PROVE  IsFiniteSet(Tops(S, k)) /\ Tops(S, k) # {} /\ Tops(S, k) \subseteq S
<1> DEFINE f == [d \in S |-> Priority(d)[k]]
<1>1. \A d \in S : f[d] \in Int /\ f[d] = Priority(d)[k]
  OBVIOUS
<1> HIDE DEF f
<1>2. PICK x \in S : \A y \in S : f[y] <= f[x]
  BY <1>1, GreatestValue
<1>3. x \in Tops(S, k)
  BY <1>1, <1>2 DEF Tops
<1>4. Tops(S, k) \in SUBSET S
  BY DEF Tops
<1> QED
  BY <1>3, <1>4, FS_Subset

\* The queue gives one of its data, which no other precedes.
LEMMA GreatestData ==
  ASSUME NEW Q \in SUBSET CarryData, IsFiniteSet(Q), Q # {}, \A d \in Q : d.way # <<>>
  PROVE  Greatest(Q) \in Q
<1>1. \A d \in Q : \A k \in 1 .. 6 : Priority(d)[k] \in Int
  BY PriorityType
<1> DEFINE A == Tops(Q, 1)
           B == Tops(A, 2)
           C == Tops(B, 3)
           D == Tops(C, 4)
           E == Tops(D, 5)
           F == Tops(E, 6)
<1>2. IsFiniteSet(A) /\ A # {} /\ A \subseteq Q
  BY <1>1, TopsExist
<1> HIDE DEF A
<1>3. IsFiniteSet(B) /\ B # {} /\ B \subseteq A
  <2>1. IsFiniteSet(A) /\ A # {} /\ \A d \in A : Priority(d)[2] \in Int
    <3>1. 2 \in 1 .. 6
      OBVIOUS
    <3> QED
      BY <1>1, <1>2, <3>1
  <2> QED
    BY <2>1, TopsExist
<1> HIDE DEF B
<1>4. IsFiniteSet(C) /\ C # {} /\ C \subseteq B
  <2>1. IsFiniteSet(B) /\ B # {} /\ \A d \in B : Priority(d)[3] \in Int
    <3>1. 3 \in 1 .. 6
      OBVIOUS
    <3> QED
      BY <1>1, <1>2, <1>3, <3>1
  <2> QED
    BY <2>1, TopsExist
<1> HIDE DEF C
<1>5. IsFiniteSet(D) /\ D # {} /\ D \subseteq C
  <2>1. IsFiniteSet(C) /\ C # {} /\ \A d \in C : Priority(d)[4] \in Int
    <3>1. 4 \in 1 .. 6
      OBVIOUS
    <3> QED
      BY <1>1, <1>2, <1>3, <1>4, <3>1
  <2> QED
    BY <2>1, TopsExist
<1> HIDE DEF D
<1>6. IsFiniteSet(E) /\ E # {} /\ E \subseteq D
  <2>1. IsFiniteSet(D) /\ D # {} /\ \A d \in D : Priority(d)[5] \in Int
    <3>1. 5 \in 1 .. 6
      OBVIOUS
    <3> QED
      BY <1>1, <1>2, <1>3, <1>4, <1>5, <3>1
  <2> QED
    BY <2>1, TopsExist
<1> HIDE DEF E
<1>7. F # {} /\ F \subseteq E
  <2>1. IsFiniteSet(E) /\ E # {} /\ \A d \in E : Priority(d)[6] \in Int
    <3>1. 6 \in 1 .. 6
      OBVIOUS
    <3> QED
      BY <1>1, <1>2, <1>3, <1>4, <1>5, <1>6, <3>1
  <2> QED
    BY <2>1, TopsExist
<1> HIDE DEF F
<1>8. PICK d \in F : TRUE
  BY <1>7
<1>9. d \in Q /\ d \in A /\ d \in B /\ d \in C /\ d \in D /\ d \in E
  BY <1>2, <1>3, <1>4, <1>5, <1>6, <1>7
<1>10. ASSUME NEW e \in Q, Less(d, e) PROVE FALSE
  <2>1. PICK k \in 1 .. 6 : /\ Priority(d)[k] < Priority(e)[k]
                            /\ \A j \in 1 .. k - 1 : Priority(d)[j] = Priority(e)[j]
    BY <1>10 DEF Less
  <2>2. \A j \in 1 .. 6 : Priority(d)[j] \in Int /\ Priority(e)[j] \in Int
    BY <1>1, <1>9
  <2>3. ~(Priority(e)[k] <= Priority(d)[k])
    <3>1. Priority(d)[k] \in Int /\ Priority(e)[k] \in Int /\ Priority(d)[k] < Priority(e)[k]
      BY <2>1, <2>2
    <3> QED
      BY <3>1
  <2> DEFINE Same(j) == Priority(d)[j] = Priority(e)[j]
  <2>4. \A j \in 1 .. k - 1 : Same(j)
    BY <2>1
  <2> HIDE DEF Same
  <2>6. Same(1) => e \in A
    BY <1>9 DEF A, Tops, Same
  <2>7. Same(2) /\ e \in A => e \in B
    BY <1>9 DEF B, Tops, Same
  <2>8. Same(3) /\ e \in B => e \in C
    BY <1>9 DEF C, Tops, Same
  <2>9. Same(4) /\ e \in C => e \in D
    BY <1>9 DEF D, Tops, Same
  <2>10. Same(5) /\ e \in D => e \in E
    BY <1>9 DEF E, Tops, Same
  <2>11. k # 1
    BY <1>9, <2>3 DEF A, Tops
  <2>12. k # 2
    <3>1. k = 2 => Same(1)
      BY <2>4
    <3> QED
      BY <1>9, <2>3, <2>6, <3>1 DEF B, Tops
  <2>13. k # 3
    <3>1. k = 3 => Same(1) /\ Same(2)
      BY <2>4
    <3> QED
      BY <1>9, <2>3, <2>6, <2>7, <3>1 DEF C, Tops
  <2>14. k # 4
    <3>1. k = 4 => Same(1) /\ Same(2) /\ Same(3)
      BY <2>4
    <3> QED
      BY <1>9, <2>3, <2>6, <2>7, <2>8, <3>1 DEF D, Tops
  <2>15. k # 5
    <3>1. k = 5 => Same(1) /\ Same(2) /\ Same(3) /\ Same(4)
      BY <2>4
    <3> QED
      BY <1>9, <2>3, <2>6, <2>7, <2>8, <2>9, <3>1 DEF E, Tops
  <2>16. k # 6
    <3>1. k = 6 => Same(1) /\ Same(2) /\ Same(3) /\ Same(4) /\ Same(5)
      BY <2>4
    <3> QED
      BY <1>8, <2>3, <2>6, <2>7, <2>8, <2>9, <2>10, <3>1 DEF F, Tops
  <2> QED
    BY <2>11, <2>12, <2>13, <2>14, <2>15, <2>16
<1> QED
  BY <1>9, <1>10 DEF Greatest

-----------------------------------------------------------------------------
(* What is pushed into the queue.                                          *)

\* The estimate is an integer.
LEMMA HeuristicType ==
  ASSUME NEW p \in Points, NEW q \in Points
  PROVE  Heuristic(p, q) \in Int
<1> DEFINE dy == Absolute(p[1] - q[1])
           dx == Absolute(p[2] - q[2])
           m  == Min({dy, dx})
<1>1. dy \in Nat /\ dx \in Nat
  BY PointsType, LineIs
<1>2. m \in Nat
  <2> HIDE DEF dy, dx
  <2>1. {dy, dx} \in SUBSET Nat /\ {dy, dx} # {}
    BY <1>1
  <2> QED
    BY <2>1, MinIs
<1>3. Absolute(dy - dx) \in Int
  <2> HIDE DEF dy, dx
  <2> QED
    BY <1>1 DEF Absolute
<1>4. Heuristic(p, q) = (m * 6 + Absolute(dy - dx) * 5) * 2
  BY DEF Heuristic
<1> HIDE DEF m, dy, dx
<1>5. m * 6 \in Int /\ Absolute(dy - dx) * 5 \in Int
  BY <1>2, <1>3
<1> QED
  BY <1>4, <1>5

\* Fix adds one cell to those that are fixed.
LEMMA FixIs ==
  ASSUME NEW b \in FixBoards, NEW p
  PROVE  Fix(b, p).fixed = b.fixed \cup {p} /\ Fix(b, p).selected = b.selected
<1>1. ASSUME NEW r, NEW cell, NEW selected, NEW fixed, NEW more,
             r = [cell |-> cell, selected |-> selected, fixed |-> fixed]
      PROVE  [r EXCEPT !.fixed = more] = [cell |-> cell, selected |-> selected, fixed |-> more]
  BY <1>1
<1>2. b = [cell |-> b.cell, selected |-> b.selected, fixed |-> b.fixed]
  BY DEF FixBoards
<1>3. Fix(b, p) = [b EXCEPT !.fixed = b.fixed \cup {p}]
  BY DEF Fix
<1>4. Fix(b, p) = [cell |-> b.cell, selected |-> b.selected, fixed |-> b.fixed \cup {p}]
  BY <1>1, <1>2, <1>3
<1> QED
  BY <1>4

\* The directions in which a piece at pos can be pushed when the selected one is at from.
Turns(b, pos, from) ==
  {dir \in Directions : /\ Neighbour(pos, dir) \in Points \ b.fixed
                        /\ Reachable(b.fixed \cup {pos}, from, Neighbour(pos, dir))}

\* Q has the data of these directions, and no other.
IsPushed(Q, pos, way, dirs) ==
  /\ Q \in SUBSET CarryData /\ IsFiniteSet(Q)
  /\ \A d \in Q : \E dir \in dirs : d.pos = Neighbour(pos, dir) /\ d.way = Append(way, dir)
  /\ \A dir \in dirs : \E d \in Q : d.pos = Neighbour(pos, dir) /\ d.way = Append(way, dir)

\* Pushed has just the pushes that are possible: countMoveTo knows when there is no way.
LEMMA PushedIs ==
  ASSUME NEW b \in FixBoards, NEW pos \in Points \ b.fixed,
         NEW from \in Points \ (b.fixed \cup {pos}),
         NEW way \in Seq(Directions), NEW cost \in Int, NEW dst \in Points
  PROVE  IsPushed(Pushed(b, pos, from, way, cost, dst), pos, way,
                  {dir \in Turns(b, pos, from) : way = <<>> \/ dir # Opposite(Last(way))})
<1> DEFINE next(dir)  == Neighbour(pos, dir)
           moves(dir) == CountMoveTo(Fix(b, pos), from, next(dir))
           may   == {dir \in Directions : /\ Free(b, next(dir))
                                          /\ way = <<>> \/ dir # Opposite(Last(way))}
           X(dir) == Data(next(dir), Append(way, dir), (cost + moves(dir)) + 1, dst)
           dirs  == {dir \in may : moves(dir) # -1}
           Q     == Pushed(b, pos, from, way, cost, dst)
<1>1. Q = {X(dir) : dir \in dirs}
  <2>1. Pushes(b, pos, from, way) = {[dir |-> dir, moves |-> moves(dir)] : dir \in may}
    BY DEF Pushes
  <2> DEFINE Y(push) == Data(next(push.dir), Append(way, push.dir), (cost + push.moves) + 1, dst)
  <2>2. Q = {Y(push) : push \in {push \in Pushes(b, pos, from, way) : push.moves # -1}}
    BY DEF Pushed
  <2> DEFINE R(dir) == [dir |-> dir, moves |-> moves(dir)]
  <2>3. \A dir : Y(R(dir)) = X(dir) /\ R(dir).moves = moves(dir)
    OBVIOUS
  <2>4. Pushes(b, pos, from, way) = {R(dir) : dir \in may}
    BY <2>1
  <2>5. \A dir : dir \in dirs <=> dir \in may /\ moves(dir) # -1
    OBVIOUS
  <2> HIDE DEF Q, X, Y, R, moves, may, dirs
  <2>6. \A d : d \in Q <=> \E dir \in may : moves(dir) # -1 /\ d = Y(R(dir))
    BY ONLY <2>2, <2>3, <2>4
  <2> QED
    BY ONLY <2>3, <2>5, <2>6
<1>2. Fix(b, pos).fixed = b.fixed \cup {pos}
  BY FixIs
<1>3. ASSUME NEW dir \in Directions, Free(b, next(dir))
      PROVE  /\ next(dir) \in Points \ (b.fixed \cup {pos})
             /\ moves(dir) \in Int
             /\ moves(dir) # -1 <=> Reachable(b.fixed \cup {pos}, from, next(dir))
  <2>1. next(dir) \in Points \ b.fixed
    BY <1>3 DEF Free
  <2>2. Distance(pos, next(dir)) = 1
    BY PointsType, NeighbourAway
  <2>3. next(dir) # pos
    BY <2>1, <2>2, DistanceType
  <2> DEFINE n == moves(dir)
             fixed == b.fixed \cup {pos}
             q == next(dir)
  <2>4. q \in Points \ fixed
    BY <2>1, <2>3
  <2>5. n \in Nat \cup {-1} /\ Counts(fixed, from, q, n)
    BY <1>2, <2>4, CountMoveToIs
  <2> HIDE DEF n, q, fixed
  <2>6. n # -1 <=> Reachable(fixed, from, q)
    <3>1. CASE n = -1
      BY <2>5, <3>1 DEF Counts
    <3>2. CASE n # -1
      <4>1. PICK w : Shortest(fixed, from, w, q)
        BY <2>5, <3>2 DEF Counts
      <4> QED
        BY <3>2, <4>1 DEF Shortest, Reachable
    <3> QED
      BY <3>1, <3>2
  <2> QED
    BY <2>4, <2>5, <2>6 DEF n, q, fixed
<1>4. dirs = {dir \in Turns(b, pos, from) : way = <<>> \/ dir # Opposite(Last(way))}
  <2>1. ASSUME NEW dir \in Directions
        PROVE  dir \in dirs <=> dir \in Turns(b, pos, from) /\ (way = <<>> \/ dir # Opposite(Last(way)))
    <3>1. Free(b, next(dir)) <=> next(dir) \in Points \ b.fixed
      BY DEF Free
    <3>2. dir \in dirs <=> Free(b, next(dir)) /\ (way = <<>> \/ dir # Opposite(Last(way))) /\ moves(dir) # -1
      OBVIOUS
    <3> HIDE DEF dirs, may, moves
    <3> QED
      BY <1>3, <3>1, <3>2 DEF Turns
  <2>2. \A dir \in dirs : dir \in Directions
    OBVIOUS
  <2>3. \A dir \in Turns(b, pos, from) : dir \in Directions
    BY DEF Turns
  <2> HIDE DEF dirs
  <2> QED
    BY <2>1, <2>2, <2>3
<1>5. ASSUME NEW dir \in dirs
      PROVE  X(dir) \in CarryData /\ X(dir).pos = next(dir) /\ X(dir).way = Append(way, dir)
  <2>1. dir \in Directions /\ Free(b, next(dir))
    OBVIOUS
  <2>2. next(dir) \in Points /\ moves(dir) \in Int
    BY <1>3, <2>1
  <2> DEFINE z == (cost + moves(dir)) + 1
             w == Append(way, dir)
             q == next(dir)
  <2>3. z \in Int
    <3> HIDE DEF moves
    <3> QED
      BY <2>2
  <2>4. z + Heuristic(q, dst) \in Int
    <3>1. Heuristic(q, dst) \in Int
      BY <2>2, HeuristicType
    <3> HIDE DEF z, q
    <3> QED
      BY <2>3, <3>1
  <2>5. w \in Seq(Directions)
    BY <2>1
  <2>6. X(dir) = [pos |-> q, way |-> w, cost |-> z, estimate |-> z + Heuristic(q, dst)]
    BY DEF Data
  <2> HIDE DEF z, w, q, X
  <2> DEFINE Y == X(dir)
  <2>7. Y = [pos |-> q, way |-> w, cost |-> z, estimate |-> z + Heuristic(q, dst)]
    BY <2>6
  <2>8. q \in Points
    BY <2>2 DEF q
  <2> HIDE DEF Y
  <2>9. Y \in CarryData /\ Y.pos = q /\ Y.way = w
    BY <2>3, <2>4, <2>5, <2>7, <2>8 DEF CarryData
  <2> QED
    BY <2>9 DEF Y, q, w
<1>6. IsFiniteSet(Q)
  <2>1. IsFiniteSet({X(0)} \cup {X(1)} \cup {X(2)} \cup {X(3)})
    <3> HIDE DEF X
    <3>1. IsFiniteSet({X(0)})
      BY FS_Singleton
    <3>2. IsFiniteSet({X(0)} \cup {X(1)})
      BY <3>1, FS_AddElement
    <3>3. IsFiniteSet({X(0)} \cup {X(1)} \cup {X(2)})
      BY <3>2, FS_AddElement
    <3> QED
      BY <3>3, FS_AddElement
  <2>2. \A dir \in dirs : dir \in {0, 1, 2, 3}
    BY DEF Directions
  <2> HIDE DEF X, Q, dirs
  <2>3. Q \subseteq {X(0)} \cup {X(1)} \cup {X(2)} \cup {X(3)}
    BY <1>1, <2>2
  <2> QED
    BY <2>1, <2>3, FS_Subset
<1> HIDE DEF Q, X, dirs
<1>7. Q \in SUBSET CarryData
  BY <1>1, <1>5
<1>8. \A d \in Q : \E dir \in dirs : d.pos = Neighbour(pos, dir) /\ d.way = Append(way, dir)
  BY <1>1, <1>5
<1>9. \A dir \in dirs : \E d \in Q : d.pos = Neighbour(pos, dir) /\ d.way = Append(way, dir)
  BY <1>1, <1>5
<1>10. IsPushed(Q, pos, way, dirs)
  BY <1>6, <1>7, <1>8, <1>9 DEF IsPushed
<1> QED
  BY <1>4, <1>10 DEF Q

-----------------------------------------------------------------------------
(* The invariant of the search of trajectPiece.                            *)

\* The first push, and one more.
LEMMA PlanFirst ==
  ASSUME NEW b, NEW src, NEW dst, CarryCall(b, src, dst), NEW dir \in Turns(b, src, b.selected)
  PROVE  Plan(b, src, Append(<<>>, dir), Neighbour(src, dir))
<1>1. /\ dir \in Directions /\ Neighbour(src, dir) \in Points \ b.fixed
      /\ Reachable(b.fixed \cup {src}, b.selected, Neighbour(src, dir))
      /\ src \in Points /\ src \in Int \X Int
  BY PointsType DEF Turns, CarryCall
<1> DEFINE way == Append(<<>>, dir)
<1>2. Len(way) = 1 /\ way[1] = dir /\ way # <<>>
  BY <1>1
<1>3. Leads(b.fixed, src, way, Neighbour(src, dir))
  BY <1>1, LeadsNowhere, LeadsOn
<1> HIDE DEF way
<1>4. After(src, way, 1) = Neighbour(src, dir)
  BY <1>1, <1>2, FirstSteps
<1>5. \A i \in 1 .. Len(way) - 1 : FALSE
  BY <1>2
<1>6. Plan(b, src, way, Neighbour(src, dir))
  BY <1>1, <1>2, <1>3, <1>4, <1>5 DEF Plan
<1> QED
  BY <1>6 DEF way

\* Where the piece came from.
LEMMA PlanBefore ==
  ASSUME NEW b, NEW src, NEW dst, CarryCall(b, src, dst), NEW way, NEW q, Plan(b, src, way, q)
  PROVE  LET from == Neighbour(q, Opposite(Last(way)))
         IN  /\ way \in Seq(Directions) /\ way # <<>> /\ Len(way) \in Nat \ {0}
             /\ Last(way) \in Directions /\ Last(way) = way[Len(way)]
             /\ q \in Points \ b.fixed
             /\ from = After(src, way, Len(way) - 1) /\ Neighbour(from, Last(way)) = q
             /\ from \in Points \ (b.fixed \cup {q})
<1> DEFINE n == Len(way)
           a == After(src, way, n - 1)
           l == Last(way)
<1>1. src \in Points \ b.fixed /\ src \in Int \X Int
  BY PointsType DEF CarryCall
<1>2. /\ way \in Seq(Directions) /\ way # <<>>
      /\ \A i \in 1 .. n : After(src, way, i) \in Points \ b.fixed
      /\ After(src, way, n) = q
  BY DEF Plan, Leads
<1>3. n \in Nat \ {0} /\ l \in Directions /\ l = way[n]
  BY <1>2, LastFront
<1>4. n - 1 \in Nat /\ (n - 1) + 1 = n /\ n \in 1 .. n
  BY <1>3
<1>5. q = Neighbour(a, l) /\ q \in Points \ b.fixed
  <2> DEFINE k == n - 1
  <2>1. k \in Nat /\ k + 1 = n /\ a = After(src, way, k)
    BY <1>4
  <2> HIDE DEF k, n, a
  <2>2. After(src, way, k + 1) = Neighbour(After(src, way, k), way[k + 1])
    BY ONLY <1>1, <2>1, AfterIs
  <2> QED
    BY ONLY <1>2, <1>3, <1>4, <2>1, <2>2
<1>6. a \in Points \ b.fixed
  <2>1. CASE n - 1 = 0
    BY <1>1, <2>1, AfterIs
  <2>2. CASE n - 1 # 0
    <3> HIDE DEF n
    <3>1. n - 1 \in 1 .. n
      BY ONLY <1>3, <2>2
    <3> QED
      BY <1>2, <3>1
  <2> QED
    BY <2>1, <2>2
<1>7. a \in Int \X Int
  BY <1>6, PointsType
<1> HIDE DEF a, l, n
<1>8. Neighbour(q, Opposite(l)) = a
  BY <1>3, <1>5, <1>7, NeighbourBack
<1>9. a # q
  <2>1. Distance(a, q) = 1
    BY <1>3, <1>5, <1>7, NeighbourAway
  <2> QED
    BY <1>6, <2>1, DistanceType
<1> QED
  BY <1>2, <1>3, <1>5, <1>6, <1>8, <1>9 DEF a, l, n

\* A plan can be made longer by any push that is possible after it.
LEMMA PlanOn ==
  ASSUME NEW b, NEW src, NEW dst, CarryCall(b, src, dst), NEW way, NEW q, Plan(b, src, way, q),
         NEW dir \in Turns(b, q, Neighbour(q, Opposite(Last(way))))
  PROVE  Plan(b, src, Append(way, dir), Neighbour(q, dir))
<1> DEFINE n    == Len(way)
           more == Append(way, dir)
           next == Neighbour(q, dir)
           from == Neighbour(q, Opposite(Last(way)))
<1>1. /\ dir \in Directions /\ next \in Points \ b.fixed
      /\ Reachable(b.fixed \cup {q}, from, next)
  BY DEF Turns
<1>2. src \in Points /\ src \in Int \X Int
  BY PointsType DEF CarryCall
<1>3. /\ way \in Seq(Directions) /\ n \in Nat \ {0} /\ from = After(src, way, n - 1)
  BY PlanBefore
<1>4. Leads(b.fixed, src, way, q) /\ q = After(src, way, n)
  BY DEF Plan, Leads
<1>5. Leads(b.fixed, src, more, next)
  BY <1>1, <1>2, <1>4, LeadsOn
<1>6. Len(more) = n + 1 /\ more # <<>> /\ \A i \in 1 .. n : way[i] = more[i]
  BY <1>1, <1>3
<1> HIDE DEF more, next, from
<1>7. \A i \in 0 .. n : After(src, way, i) = After(src, more, i)
  <2>1. n \in Nat
    BY <1>3
  <2> HIDE DEF n
  <2> QED
    BY <1>2, <1>6, <2>1, AfterSame
<1>8. After(src, more, n + 1) = next
  BY <1>5, <1>6 DEF Leads
<1>9. Reachable(b.fixed \cup {src}, b.selected, After(src, more, 1))
  <2>1. 1 \in 0 .. n
    BY <1>3
  <2>2. Reachable(b.fixed \cup {src}, b.selected, After(src, way, 1))
    BY DEF Plan
  <2> QED
    BY <1>7, <2>1, <2>2
<1>10. ASSUME NEW i \in 1 .. Len(more) - 1
       PROVE  Reachable(b.fixed \cup {After(src, more, i)}, After(src, more, i - 1), After(src, more, i + 1))
  <2>1. i \in 1 .. n /\ i \in 0 .. n /\ i - 1 \in 0 .. n
    BY <1>3, <1>6
  <2>2. CASE i = n
    <3>1. /\ After(src, more, i) = q /\ After(src, more, i - 1) = from
          /\ After(src, more, i + 1) = next
      BY <1>3, <1>4, <1>7, <1>8, <2>1, <2>2
    <3> QED
      BY <1>1, <3>1
  <2>3. CASE i # n
    <3>1. i \in 1 .. Len(way) - 1 /\ i + 1 \in 0 .. n
      BY <1>3, <2>1, <2>3
    <3>2. Reachable(b.fixed \cup {After(src, way, i)}, After(src, way, i - 1), After(src, way, i + 1))
      BY <3>1 DEF Plan
    <3> QED
      BY <1>7, <2>1, <3>1, <3>2
  <2> QED
    BY <2>2, <2>3
<1>11. Plan(b, src, more, next)
  BY <1>5, <1>6, <1>9, <1>10 DEF Plan
<1> QED
  BY <1>11 DEF more, next

\* The places and directions to which a piece that was pushed to key can be pushed on.
NextTurns(b, key) ==
  {dir \in Turns(b, key[1], Neighbour(key[1], Opposite(key[2]))) : dir # Opposite(key[2])}

\* With the selected piece at s and the other at q: those done tell a way to that pair.
Met(b, src, done, s, q) ==
  \/ q = src /\ Reachable(b.fixed \cup {src}, b.selected, s)
  \/ \E key \in done : /\ key[1] = q
                       /\ Reachable(b.fixed \cup {q}, Neighbour(q, Opposite(key[2])), s)

\* The key was put into the queue.
Listed(c, key) == \E d \in c.queue : Key(d) = key

\* The invariant of the search of trajectPiece: what is in the queue can be done, and what
\* can be done after what is done is in the queue.
CarryInv(b, src, dst, c) ==
  /\ c \in CarryStates /\ c.queue \in SUBSET CarryData /\ IsFiniteSet(c.queue)
  /\ \A d \in c.queue : /\ Plan(b, src, d.way, d.pos)
                        /\ Met(b, src, c.done, d.pos, Neighbour(d.pos, Opposite(Last(d.way))))
  /\ c.way # NoWay => Plan(b, src, c.way, dst)
  /\ \A dir \in Turns(b, src, b.selected) : Listed(c, <<Neighbour(src, dir), dir>>)
  /\ \A key \in c.done : /\ key[1] # dst /\ Listed(c, key)
                         /\ \A dir \in NextTurns(b, key) : Listed(c, <<Neighbour(key[1], dir), dir>>)

\* What the search begins with.
CarryBegin(b, src, dst) ==
  [queue |-> Pushed(b, src, b.selected, <<>>, 0, dst), done |-> {}, way |-> NoWay]

\* It begins with the invariant.
LEMMA CarryBeginIs ==
  ASSUME NEW b, NEW src, NEW dst, CarryCall(b, src, dst)
  PROVE  CarryInv(b, src, dst, CarryBegin(b, src, dst))
<1> DEFINE Q == Pushed(b, src, b.selected, <<>>, 0, dst)
           c == CarryBegin(b, src, dst)
           turns == Turns(b, src, b.selected)
<1>1. /\ b \in FixBoards /\ src \in Points \ b.fixed /\ b.selected \in Points \ (b.fixed \cup {src})
      /\ dst \in Points /\ src \in Int \X Int
  BY PointsType DEF CarryCall, FixBoards
<1>2. IsPushed(Q, src, <<>>, turns)
  <2>1. <<>> \in Seq(Directions) /\ 0 \in Int
    OBVIOUS
  <2>2. IsPushed(Q, src, <<>>, {dir \in turns : <<>> = <<>> \/ dir # Opposite(Last(<<>>))})
    BY <1>1, <2>1, PushedIs
  <2>3. {dir \in turns : <<>> = <<>> \/ dir # Opposite(Last(<<>>))} = turns
    OBVIOUS
  <2> QED
    BY <2>2, <2>3
<1>3. c.queue = Q /\ c.done = {} /\ c.way = NoWay /\ c = [queue |-> Q, done |-> {}, way |-> NoWay]
  BY DEF CarryBegin
<1> HIDE DEF Q, c, turns
<1>4. Q \in SUBSET CarryData /\ IsFiniteSet(Q)
  BY <1>2 DEF IsPushed
<1>5. c \in CarryStates
  BY <1>3, <1>4 DEF CarryStates, CarryData
<1>6. ASSUME NEW dir \in turns
      PROVE  /\ dir \in Directions /\ Last(Append(<<>>, dir)) = dir
             /\ Neighbour(Neighbour(src, dir), Opposite(dir)) = src
             /\ Reachable(b.fixed \cup {src}, b.selected, Neighbour(src, dir))
  <2>1. dir \in Directions /\ Reachable(b.fixed \cup {src}, b.selected, Neighbour(src, dir))
    BY DEF turns, Turns
  <2>2. Append(<<>>, dir) = <<dir>> /\ Len(<<dir>>) = 1
    OBVIOUS
  <2> QED
    BY <1>1, <2>1, <2>2, NeighbourBack DEF Last
<1>7. ASSUME NEW d \in Q
      PROVE  /\ Plan(b, src, d.way, d.pos)
             /\ Met(b, src, c.done, d.pos, Neighbour(d.pos, Opposite(Last(d.way))))
  <2>1. PICK dir \in turns : d.pos = Neighbour(src, dir) /\ d.way = Append(<<>>, dir)
    BY <1>2 DEF IsPushed
  <2>2. Plan(b, src, d.way, d.pos)
    BY <2>1, PlanFirst DEF turns
  <2>3. Neighbour(d.pos, Opposite(Last(d.way))) = src
    BY <1>6, <2>1
  <2> QED
    BY <1>6, <2>1, <2>2, <2>3 DEF Met
<1>8. ASSUME NEW dir \in turns PROVE Listed(c, <<Neighbour(src, dir), dir>>)
  <2>1. PICK d \in Q : d.pos = Neighbour(src, dir) /\ d.way = Append(<<>>, dir)
    BY <1>2 DEF IsPushed
  <2>2. Key(d) = <<Neighbour(src, dir), dir>>
    BY <1>6, <2>1 DEF Key
  <2> QED
    BY <1>3, <2>2 DEF Listed
<1> QED
  BY <1>3, <1>4, <1>5, <1>7, <1>8 DEF CarryInv, c, turns

\* A round keeps it: either the way is found or one more place and direction is done.
Progress(c, t) ==
  \/ t.way # NoWay /\ t.done = c.done
  \/ t.way = NoWay /\ \E key \in Points \X Directions : key \notin c.done /\ t.done = c.done \cup {key}

\* What is done stays done.
LEMMA MetMore ==
  ASSUME NEW b, NEW src, NEW done, NEW more, done \subseteq more, NEW s, NEW q,
         Met(b, src, done, s, q)
  PROVE  Met(b, src, more, s, q)
BY DEF Met

\* One round of the search keeps the invariant, and gets on.
LEMMA CarriedKeeps ==
  ASSUME NEW b, NEW src, NEW dst, CarryCall(b, src, dst), NEW c, CarryInv(b, src, dst, c),
         Open(c) # {}, c.way = NoWay
  PROVE  /\ CarryInv(b, src, dst, Carried(b, dst, c))
         /\ Progress(c, Carried(b, dst, c))
<1> DEFINE top  == Greatest(Open(c))
           from == Neighbour(top.pos, Opposite(Last(top.way)))
           Q    == Pushed(b, top.pos, from, top.way, top.cost, dst)
           t    == Carried(b, dst, c)
           turns == {dir \in Turns(b, top.pos, from) : dir # Opposite(Last(top.way))}
<1>1. /\ c \in CarryStates /\ c.queue \in SUBSET CarryData /\ IsFiniteSet(c.queue)
      /\ c = [queue |-> c.queue, done |-> c.done, way |-> c.way]
      /\ c.done \in SUBSET (Points \X Directions)
  BY DEF CarryInv, CarryStates
<1>2. \A d \in c.queue : /\ Plan(b, src, d.way, d.pos)
                         /\ Met(b, src, c.done, d.pos, Neighbour(d.pos, Opposite(Last(d.way))))
  BY DEF CarryInv
<1>3. top \in Open(c)
  <2>1. Open(c) \in SUBSET CarryData /\ Open(c) \in SUBSET c.queue
    BY <1>1 DEF Open
  <2>2. IsFiniteSet(Open(c))
    BY <1>1, <2>1, FS_Subset
  <2>3. \A d \in Open(c) : d.way # <<>>
    BY <1>2, <2>1 DEF Plan
  <2> QED
    BY <2>1, <2>2, <2>3, GreatestData
<1>4. t = CarriedFrom(b, dst, c, top)
  BY DEF Carried
<1> HIDE DEF t, top
<1>5. /\ top \in c.queue /\ Key(top) \notin c.done /\ Plan(b, src, top.way, top.pos)
      /\ Met(b, src, c.done, top.pos, from)
      /\ top.cost \in Int
  BY <1>1, <1>2, <1>3 DEF Open, CarryData
<1>6. /\ top.way \in Seq(Directions) /\ top.way # <<>> /\ Last(top.way) \in Directions
      /\ top.pos \in Points \ b.fixed /\ from \in Points \ (b.fixed \cup {top.pos})
      /\ Neighbour(from, Last(top.way)) = top.pos
  BY <1>5, PlanBefore
<1>7. Key(top) = <<top.pos, Last(top.way)>> /\ Key(top) \in Points \X Directions
  BY <1>6 DEF Key
<1>8. CASE top.pos = dst
  <2>1. t = [queue |-> c.queue, done |-> c.done, way |-> top.way]
    <3>1. ASSUME NEW r, NEW queue, NEW done, NEW way, NEW next,
                 r = [queue |-> queue, done |-> done, way |-> way]
          PROVE  [r EXCEPT !.way = next] = [queue |-> queue, done |-> done, way |-> next]
      BY <3>1
    <3>2. t = [c EXCEPT !.way = top.way]
      BY <1>4, <1>8 DEF CarriedFrom
    <3> QED
      BY <1>1, <3>1, <3>2
  <2>2. t.queue = c.queue /\ t.done = c.done /\ t.way = top.way
    BY <2>1
  <2>3. t \in CarryStates
    BY <1>1, <1>6, <2>1 DEF CarryStates
  <2>4. t.way # NoWay
    BY <1>6, <2>2, NoWayIs
  <2>5. Plan(b, src, t.way, dst)
    BY <1>5, <1>8, <2>2
  <2>6. \A key : Listed(c, key) <=> Listed(t, key)
    BY <2>2 DEF Listed
  <2>7. t.queue \in SUBSET CarryData /\ IsFiniteSet(t.queue)
    BY <1>1, <2>2
  <2>8. \A d \in t.queue : /\ Plan(b, src, d.way, d.pos)
                           /\ Met(b, src, t.done, d.pos, Neighbour(d.pos, Opposite(Last(d.way))))
    BY <1>2, <2>2
  <2>9. \A dir \in Turns(b, src, b.selected) : Listed(t, <<Neighbour(src, dir), dir>>)
    BY <2>6 DEF CarryInv
  <2>10. \A key \in t.done :
           /\ key[1] # dst /\ Listed(t, key)
           /\ \A dir \in NextTurns(b, key) : Listed(t, <<Neighbour(key[1], dir), dir>>)
    BY <2>2, <2>6 DEF CarryInv
  <2>11. CarryInv(b, src, dst, t)
    BY <2>3, <2>5, <2>7, <2>8, <2>9, <2>10 DEF CarryInv
  <2>12. Progress(c, t)
    BY <2>2, <2>4 DEF Progress
  <2> QED
    BY <2>11, <2>12 DEF t
<1>9. CASE top.pos # dst
  <2> DEFINE more == c.done \cup {Key(top)}
  <2>1. t = [queue |-> c.queue \cup Q, done |-> more, way |-> c.way]
    <3>1. ASSUME NEW r, NEW queue, NEW done, NEW way, NEW u, NEW v,
                 r = [queue |-> queue, done |-> done, way |-> way]
          PROVE  [r EXCEPT !.queue = u, !.done = v] = [queue |-> u, done |-> v, way |-> way]
      <4>1. [r EXCEPT !.queue = u] = [queue |-> u, done |-> done, way |-> way]
        BY <3>1
      <4>2. ASSUME NEW z, z = [queue |-> u, done |-> done, way |-> way]
            PROVE  [z EXCEPT !.done = v] = [queue |-> u, done |-> v, way |-> way]
        BY ONLY <4>2
      <4> QED
        BY <4>1, <4>2
    <3>2. t = [c EXCEPT !.queue = c.queue \cup Q, !.done = c.done \cup {Key(top)}]
      BY <1>4, <1>9 DEF CarriedFrom
    <3> HIDE DEF Q, from
    <3> QED
      BY <1>1, <3>1, <3>2, Zenon
  <2>2. IsPushed(Q, top.pos, top.way, turns)
    <3>1. b \in FixBoards /\ dst \in Points
      BY DEF CarryCall
    <3>2. IsPushed(Q, top.pos, top.way,
                   {dir \in Turns(b, top.pos, from) : top.way = <<>> \/ dir # Opposite(Last(top.way))})
      <4> HIDE DEF from
      <4> QED
        BY <1>5, <1>6, <3>1, PushedIs
    <3>3. {dir \in Turns(b, top.pos, from) : top.way = <<>> \/ dir # Opposite(Last(top.way))} = turns
      BY <1>6
    <3> QED
      BY <3>2, <3>3
  <2>3. NextTurns(b, Key(top)) = turns
    <3>1. Key(top)[1] = top.pos /\ Key(top)[2] = Last(top.way)
      BY <1>7
    <3> QED
      BY <3>1 DEF NextTurns
  <2> HIDE DEF Q, turns
  <2>4. /\ t.queue = c.queue \cup Q /\ t.done = more /\ t.way = NoWay
        /\ c.done \subseteq more /\ c.queue \subseteq t.queue
    BY <2>1
  <2>5. Q \in SUBSET CarryData /\ IsFiniteSet(Q)
    BY <2>2 DEF IsPushed
  <2>6. t.queue \in SUBSET CarryData /\ IsFiniteSet(t.queue)
    <3>1. IsFiniteSet(c.queue \cup Q)
      BY <1>1, <2>5, FS_Union
    <3> QED
      BY <1>1, <2>4, <2>5, <3>1
  <2>7. more \in SUBSET (Points \X Directions)
    BY <1>1, <1>7
  <2>8. t \in CarryStates
    <3>1. t.queue \in SUBSET [pos : Points, way : Seq(Directions), cost : Int, estimate : Int]
      BY <2>6 DEF CarryData
    <3>2. t = [queue |-> t.queue, done |-> t.done, way |-> t.way]
      BY <2>1
    <3> QED
      BY <2>4, <2>7, <3>1, <3>2 DEF CarryStates
  <2>9. ASSUME NEW dir \in turns
        PROVE  /\ dir \in Directions /\ Last(Append(top.way, dir)) = dir
               /\ Neighbour(Neighbour(top.pos, dir), Opposite(dir)) = top.pos
               /\ dir \in Turns(b, top.pos, from)
               /\ Reachable(b.fixed \cup {top.pos}, from, Neighbour(top.pos, dir))
    <3>1. /\ dir \in Directions /\ dir \in Turns(b, top.pos, from)
          /\ Reachable(b.fixed \cup {top.pos}, from, Neighbour(top.pos, dir))
      BY DEF turns, Turns
    <3>2. Last(Append(top.way, dir)) = dir
      <4>1. /\ Append(top.way, dir) \in Seq(Directions) /\ Append(top.way, dir) # <<>>
            /\ Len(Append(top.way, dir)) = Len(top.way) + 1
            /\ Append(top.way, dir)[Len(top.way) + 1] = dir
        BY <1>6, <3>1
      <4>2. Last(Append(top.way, dir)) = Append(top.way, dir)[Len(Append(top.way, dir))]
        BY <4>1, LastFront
      <4> QED
        BY <4>1, <4>2
    <3>3. Neighbour(Neighbour(top.pos, dir), Opposite(dir)) = top.pos
      BY <1>6, <3>1, PointsType, NeighbourBack
    <3> QED
      BY <3>1, <3>2, <3>3
  <2>10. ASSUME NEW d \in t.queue
         PROVE  /\ Plan(b, src, d.way, d.pos)
                /\ Met(b, src, more, d.pos, Neighbour(d.pos, Opposite(Last(d.way))))
    <3>1. CASE d \in c.queue
      <4>1. Plan(b, src, d.way, d.pos)
            /\ Met(b, src, c.done, d.pos, Neighbour(d.pos, Opposite(Last(d.way))))
        BY <1>2, <3>1
      <4> HIDE DEF more
      <4> QED
        BY <2>4, <4>1, MetMore
    <3>2. CASE d \in Q
      <4>1. PICK dir \in turns : d.pos = Neighbour(top.pos, dir) /\ d.way = Append(top.way, dir)
        BY <2>2, <3>2 DEF IsPushed
      <4>2. Plan(b, src, d.way, d.pos)
        BY <1>5, <2>9, <4>1, PlanOn
      <4>3. Neighbour(d.pos, Opposite(Last(d.way))) = top.pos
        BY <2>9, <4>1
      <4>4. Key(top) \in more /\ Key(top)[1] = top.pos /\ Key(top)[2] = Last(top.way)
        BY <1>7
      <4>5. Reachable(b.fixed \cup {top.pos}, Neighbour(top.pos, Opposite(Key(top)[2])), d.pos)
        BY <2>9, <4>1, <4>4
      <4> HIDE DEF more
      <4>6. Met(b, src, more, d.pos, top.pos)
        BY <4>4, <4>5 DEF Met
      <4> QED
        BY <4>2, <4>3, <4>6
    <3> QED
      BY <2>4, <3>1, <3>2
  <2>11. \A key : Listed(c, key) => Listed(t, key)
    BY <2>4 DEF Listed
  <2>12. ASSUME NEW dir \in NextTurns(b, Key(top))
         PROVE  Listed(t, <<Neighbour(top.pos, dir), dir>>)
    <3>1. PICK d \in Q : d.pos = Neighbour(top.pos, dir) /\ d.way = Append(top.way, dir)
      BY <2>2, <2>3 DEF IsPushed
    <3>2. Key(d) = <<Neighbour(top.pos, dir), dir>>
      BY <2>3, <2>9, <3>1 DEF Key
    <3> QED
      BY <2>4, <3>2 DEF Listed
  <2>13. ASSUME NEW key \in more
         PROVE  /\ key[1] # dst /\ Listed(t, key)
                /\ \A dir \in NextTurns(b, key) : Listed(t, <<Neighbour(key[1], dir), dir>>)
    <3>1. CASE key \in c.done
      BY <2>11, <3>1 DEF CarryInv
    <3>2. CASE key = Key(top)
      <4>1. key[1] = top.pos
        BY <1>7, <3>2
      <4>2. Listed(t, key)
        BY <1>5, <2>4, <3>2 DEF Listed
      <4> QED
        BY <1>9, <2>12, <3>2, <4>1, <4>2
    <3> QED
      BY <3>1, <3>2
  <2>14. \A dir \in Turns(b, src, b.selected) : Listed(t, <<Neighbour(src, dir), dir>>)
    BY <2>11 DEF CarryInv
  <2>15. Progress(c, t)
    BY <1>5, <1>7, <2>4 DEF Progress
  <2> HIDE DEF more
  <2>16. CarryInv(b, src, dst, t)
    BY <2>4, <2>6, <2>8, <2>10, <2>13, <2>14 DEF CarryInv
  <2> QED
    BY <2>15, <2>16 DEF t
<1> QED
  BY <1>8, <1>9 DEF t

\* The search ends: with a way, or when no data of the queue are left.
LEMMA PlacesCounted ==
  /\ IsFiniteSet((Points \X Directions) \cup {NoWay})
  /\ Cardinality((Points \X Directions) \cup {NoWay}) = 4 * Height * Width + 1
  /\ 4 * Height * Width + 1 \in Nat
  /\ NoWay \notin Points \X Directions
<1> DEFINE S == Points \X Directions
           hw == Height * Width
<1>1. IsFiniteSet(Points) /\ Cardinality(Points) = hw /\ hw \in Nat
  BY PointsFinite, PointsCounted
<1>2. IsFiniteSet(Directions) /\ Cardinality(Directions) = 4
  <2>1. Directions = 0 .. 3
    BY DEF Directions
  <2> DEFINE lo == 0
             hi == 3
  <2>2. lo \in Int /\ hi \in Int /\ lo .. hi = Directions /\ ~(lo > hi) /\ (hi - lo) + 1 = 4
    BY <2>1
  <2> HIDE DEF lo, hi
  <2>3. IsFiniteSet(lo .. hi) /\ Cardinality(lo .. hi) = IF lo > hi THEN 0 ELSE (hi - lo) + 1
    BY <2>2, FS_Interval
  <2> QED
    BY <2>2, <2>3
<1>3. IsFiniteSet(S) /\ Cardinality(S) = hw * 4
  <2>1. IsFiniteSet(S) /\ Cardinality(S) = Cardinality(Points) * Cardinality(Directions)
    BY <1>1, <1>2, FS_Product
  <2> QED
    BY <1>1, <1>2, <2>1
<1>4. NoWay \notin S
  <2>1. DOMAIN NoWay = 1 .. 1
    BY DEF NoWay
  <2>2. \A e \in S : DOMAIN e = 1 .. 2
    OBVIOUS
  <2>3. 2 \in 1 .. 2 /\ 2 \notin 1 .. 1
    OBVIOUS
  <2> QED
    BY <2>1, <2>2, <2>3
<1>5. 4 * Height * Width = hw * 4
  <2>1. Height \in Nat /\ Width \in Nat
    BY SizeAssumption
  <2> QED
    BY <2>1
<1> HIDE DEF S, hw
<1>6. IsFiniteSet(S \cup {NoWay}) /\ Cardinality(S \cup {NoWay}) = hw * 4 + 1
  BY <1>3, <1>4, FS_AddElement
<1> QED
  BY <1>1, <1>4, <1>5, <1>6 DEF S

\* The search ends: with a plan, or when nothing is open.
LEMMA CarrySearchIs ==
  ASSUME NEW b, NEW src, NEW dst, CarryCall(b, src, dst)
  PROVE  \E c : /\ CarryInv(b, src, dst, c) /\ (Open(c) = {} \/ c.way # NoWay)
                /\ CarrySearch(b, src, dst) = c.way
<1> DEFINE I == {c \in CarryStates : CarryInv(b, src, dst, c)}
           f == [c \in CarryStates |-> Carried(b, dst, c)]
           s == CarryBegin(b, src, dst)
           N == 4 * Height * Width + 1
           U == (Points \X Directions) \cup {NoWay}
           E == {c \in I : Open(c) = {} \/ c.way # NoWay}
           g == [c \in I |-> c.done \cup (IF c.way = NoWay THEN {} ELSE {NoWay})]
           end == Rounds(f, s, N)
<1>1. \A c \in E : f[c] = c
  <2>1. \A c \in E : Carried(b, dst, c) = c
    BY DEF Carried
  <2> QED
    BY <2>1
<1>2. \A c \in I \ E : CarryInv(b, src, dst, f[c]) /\ Progress(c, f[c]) /\ c.way = NoWay
  <2>1. ASSUME NEW c \in I \ E
        PROVE  CarryInv(b, src, dst, Carried(b, dst, c)) /\ Progress(c, Carried(b, dst, c)) /\ c.way = NoWay
    <3>1. CarryInv(b, src, dst, c) /\ Open(c) # {} /\ c.way = NoWay
      OBVIOUS
    <3> QED
      BY <3>1, CarriedKeeps
  <2> QED
    BY <2>1
<1>3. \A t : CarryInv(b, src, dst, t) => t \in I
  BY DEF CarryInv
<1>4. E \in SUBSET I /\ I \subseteq DOMAIN f
  OBVIOUS
<1>5. \A c \in I : g[c] = c.done \cup (IF c.way = NoWay THEN {} ELSE {NoWay})
                   /\ c.done \in SUBSET (Points \X Directions)
  BY DEF CarryStates
<1>6. g \in [I -> SUBSET U]
  <2>1. \A c \in I : c.done \cup (IF c.way = NoWay THEN {} ELSE {NoWay}) \in SUBSET U
    BY <1>5
  <2> QED
    BY <2>1
<1>7. CarrySearch(b, src, dst) = end.way
  BY DEF CarrySearch, CarryBegin
<1>8. s \in I
  BY <1>3, CarryBeginIs
<1>9. \A c \in E : CarryInv(b, src, dst, c) /\ (Open(c) = {} \/ c.way # NoWay)
  OBVIOUS
<1>10. \A c \in I : c \notin E => c.way = NoWay
  OBVIOUS
<1>11. \A c \in I : c.way # NoWay => c \in E
  OBVIOUS
<1> HIDE DEF f, g, s, I, E, N, end
<1>12. Preserves(f, I)
  BY <1>1, <1>2, <1>3, <1>4 DEF Preserves
<1>13. IsFiniteSet(U) /\ Cardinality(U) = N /\ N \in Nat /\ NoWay \notin Points \X Directions
  BY PlacesCounted DEF N
<1>14. \A c \in I \ E : g[c] \subseteq g[f[c]] /\ g[c] # g[f[c]]
  <2> TAKE c \in I \ E
  <2> DEFINE t == f[c]
  <2>1. t \in I /\ Progress(c, t) /\ c.way = NoWay
    BY <1>2, <1>3
  <2> HIDE DEF t
  <2>2. g[c] = c.done /\ c.done \in SUBSET (Points \X Directions)
    BY <1>5, <2>1
  <2>3. g[t] = t.done \cup (IF t.way = NoWay THEN {} ELSE {NoWay})
    BY <1>5, <2>1
  <2>4. g[c] \subseteq g[t] /\ g[c] # g[t]
    BY <1>13, <2>1, <2>2, <2>3 DEF Progress
  <2> QED
    BY <2>4 DEF t
<1> HIDE DEF U
<1>15. \A n \in Nat : \/ Rounds(f, s, n) \in E
                      \/ Cardinality(g[Rounds(f, s, n)]) >= n
  BY ONLY <1>1, <1>4, <1>6, <1>8, <1>12, <1>13, <1>14, GrowingEnds
<1>16. end \in I
  BY <1>8, <1>12, <1>13, RoundsStep DEF end
<1>17. end \in E
  <2>1. end \in E \/ Cardinality(g[end]) >= N
    BY <1>13, <1>15 DEF end
  <2>2. ASSUME Cardinality(g[end]) >= N PROVE end \in E
    <3>1. g[end] \in SUBSET U
      BY <1>6, <1>16
    <3>2. /\ Cardinality(g[end]) <= Cardinality(U)
          /\ Cardinality(U) = Cardinality(g[end]) => U = g[end]
      BY <1>13, <3>1, FS_Subset
    <3>3. Cardinality(g[end]) \in Nat
      BY <1>13, <3>1, FS_Subset, FS_CardinalityType
    <3>4. U = g[end]
      BY <1>13, <2>2, <3>2, <3>3
    <3>5. NoWay \in g[end]
      BY <3>4 DEF U
    <3>6. end.way # NoWay
      BY <1>5, <1>13, <1>16, <3>5
    <3> QED
      BY <1>11, <1>16, <3>6
  <2> QED
    BY <2>1, <2>2
<1> QED
  BY <1>7, <1>9, <1>17

-----------------------------------------------------------------------------
(* What trajectPiece does.                                                 *)

\* Either nothing happens, or the piece comes to dst and the fixed cells are as before.
Carries(b, src, dst, r) ==
  IF r.ok THEN \E c, s : CarryAt(b, src, c, dst, s) /\ c.board = r.board
          ELSE r.board = b

\* What trajectPiece returns is what its search found.
LEMMA TrajectPieceIs ==
  ASSUME NEW b, NEW src, NEW dst, CarryCall(b, src, dst), FitsAround(b.fixed)
  PROVE  /\ Carries(b, src, dst, TrajectPiece(b, src, dst))
         /\ TrajectPiece(b, src, dst).ok <=> src = dst \/ CarrySearch(b, src, dst) # NoWay
<1> DEFINE way == IF src = dst THEN <<>> ELSE CarryWay(b, src, dst)
           r   == TrajectPiece(b, src, dst)
           c0  == [board |-> b, piece |-> src]
<1>1. r = IF way = NoWay THEN [board |-> b, ok |-> FALSE]
          ELSE [board |-> CarrySteps(c0, way, Len(way)).board, ok |-> TRUE]
  BY DEF TrajectPiece, CarriedAlong
<1> HIDE DEF r
<1>2. CASE src = dst
  <2>1. way = <<>> /\ way # NoWay
    BY <1>2 DEF NoWay
  <2>2. Len(way) = 0 /\ 0 \in Nat
    BY <2>1
  <2>3. PICK g : IsCarry(g, c0, way, 0) /\ CarrySteps(c0, way, 0) = g[0]
    BY <2>2, CarryStepsAre
  <2>4. CarrySteps(c0, way, Len(way)) = c0
    BY <2>2, <2>3 DEF IsCarry
  <2>5. r = [board |-> b, ok |-> TRUE]
    <3>1. c0.board = b
      OBVIOUS
    <3> HIDE DEF way, c0
    <3>2. r = [board |-> CarrySteps(c0, way, Len(way)).board, ok |-> TRUE]
      BY <1>1, <2>1
    <3> QED
      BY <2>4, <3>1, <3>2
  <2>6. CarryAt(b, src, c0, dst, b.selected)
    BY <1>2 DEF CarryAt, CarryCall
  <2>7. Carries(b, src, dst, r)
    BY <2>5, <2>6 DEF Carries
  <2> QED
    BY <1>2, <2>5, <2>7 DEF r
<1>3. CASE src # dst
  <2> DEFINE found == CarrySearch(b, src, dst)
  <2>1. PICK c : CarryInv(b, src, dst, c) /\ found = c.way
    BY CarrySearchIs
  <2>2. way = FromLastVisit(src, found)
    BY <1>3 DEF CarryWay
  <2>3. CASE found = NoWay
    <3>1. way = NoWay
      BY <2>2, <2>3 DEF FromLastVisit
    <3>2. r = [board |-> b, ok |-> FALSE]
      BY <1>1, <3>1
    <3>3. Carries(b, src, dst, r)
      BY <3>2 DEF Carries
    <3> QED
      BY <1>3, <2>3, <3>2, <3>3 DEF r
  <2>4. CASE found # NoWay
    <3>1. Plan(b, src, found, dst)
      BY <2>1, <2>4 DEF CarryInv
    <3> HIDE DEF found
    <3>2. way # NoWay /\ Plan(b, src, way, dst)
      BY <2>2, <3>1, FromLastVisitIs
    <3> HIDE DEF way
    <3>3. PICK s \in Points : CarryAt(b, src, CarrySteps(c0, way, Len(way)), dst, s)
      BY <3>2, CarryStepsCarry
    <3>4. r = [board |-> CarrySteps(c0, way, Len(way)).board, ok |-> TRUE]
      BY <1>1, <3>2
    <3>5. Carries(b, src, dst, r)
      BY <3>3, <3>4 DEF Carries
    <3> QED
      BY <2>4, <3>4, <3>5 DEF r, found
  <2> QED
    BY <2>3, <2>4
<1> QED
  BY <1>2, <1>3

-----------------------------------------------------------------------------
(* PromiseKept.                                                            *)

\* The same around the fixed cells and a piece.
CarryFits == \A fixed \in FixedShapes : FitsAround(fixed)

\* Such a board is a FixBoard.
LEMMA StartingType ==
  ASSUME NEW b, Starting(b)
  PROVE  b \in FixBoards /\ b.selected \in Points \ b.fixed /\ b.fixed \in FixedShapes
<1>1. b.fixed \in SUBSET Points /\ b.selected \in Points \ b.fixed /\ b.fixed \in FixedShapes
      /\ b = [cell |-> Shuffle, selected |-> b.selected, fixed |-> b.fixed]
  BY DEF Starting
<1>2. Shuffle \in Boards
  BY FixBoardAssumption
<1> QED
  BY <1>1, <1>2 DEF FixBoards

\* A way that is walked keeps the promise, and so does none.
LEMMA MoveKeepsPromise ==
  ASSUME FixStart, NEW op \in {"moveTo", "moveToOptimally", "moveToTwoNeighborMoreOptimally"},
         NEW dst, NEW way,
         way # NoWay => Leads(board.fixed, board.selected, way, dst), Called(op, dst, way)
  PROVE  PromiseKept'
<1> DEFINE w == Walk(before, way)
<1>1. board = before /\ before' = before /\ Starting(before)
  BY DEF Called, FixStart
<1>2. /\ board' = w /\ call'.op = op /\ call'.dst = dst /\ (call'.ok <=> way # NoWay)
  BY <1>1 DEF Called
<1>3. before \in FixBoards /\ before.selected \notin before.fixed /\ before.fixed \in SUBSET Points
  BY <1>1, StartingType DEF FixBoards
<1>4. op # "trajectPiece"
  OBVIOUS
<1>5. CASE way = NoWay
  <2>1. board' = before
    BY <1>2, <1>5 DEF Walk
  <2> QED
    BY <1>1, <1>2, <1>5, <2>1 DEF PromiseKept
<1>6. CASE way # NoWay
  <2>1. Walks(before, w, before.fixed, dst)
    BY <1>1, <1>3, <1>6, WalkIs
  <2> HIDE DEF w
  <2>2. /\ w.fixed = before.fixed /\ w.selected = dst
        /\ w.cell[dst] = before.cell[before.selected]
        /\ \A p \in before.fixed : w.cell[p] = before.cell[p]
    BY <1>3, <2>1 DEF Walks
  <2> QED
    BY <1>1, <1>2, <1>4, <1>6, <2>2 DEF PromiseKept
<1> QED
  BY <1>5, <1>6

\* trajectPiece keeps the promise.
LEMMA CarryKeepsPromise ==
  ASSUME CarryFits, FixStart, TrajectPieceCall
  PROVE  PromiseKept'
<1>1. /\ call = NoCall /\ board = before /\ before' = before /\ Starting(before)
      /\ before \in FixBoards /\ before.selected \in Points \ before.fixed
      /\ before.fixed \in FixedShapes
  BY StartingType DEF TrajectPieceCall, FixStart
<1>2. PICK src \in Starts \ (board.fixed \cup {board.selected}), dst \in Points \ board.fixed :
        /\ board' = TrajectPiece(board, src, dst).board
        /\ call' = [op |-> "trajectPiece", src |-> src, dst |-> dst,
                    moves |-> 0, count |-> 0, ok |-> TrajectPiece(board, src, dst).ok]
  BY DEF TrajectPieceCall
<1> DEFINE r == TrajectPiece(before, src, dst)
<1>3. /\ board' = r.board /\ call'.op = "trajectPiece" /\ call'.src = src /\ call'.dst = dst
      /\ call'.ok = r.ok
  BY <1>1, <1>2
<1>4. CarryCall(before, src, dst) /\ FitsAround(before.fixed)
  BY <1>1, <1>2, FixBoardAssumption DEF CarryCall, CarryFits
<1>5. Carries(before, src, dst, r)
  BY <1>4, TrajectPieceIs
<1> HIDE DEF r
<1>6. CASE r.ok
  <2>1. PICK c, s : CarryAt(before, src, c, dst, s) /\ c.board = r.board
    BY <1>5, <1>6 DEF Carries
  <2>2. /\ board'.fixed = before.fixed
        /\ board'.cell[dst] = before.cell[src]
        /\ board'.cell[board'.selected] = before.cell[before.selected]
        /\ \A x \in before.fixed : board'.cell[x] = before.cell[x]
    BY <1>3, <2>1 DEF CarryAt
  <2> QED
    BY <1>1, <1>3, <1>6, <2>2 DEF PromiseKept
<1>7. CASE ~r.ok
  <2>1. board' = before
    BY <1>3, <1>5, <1>7 DEF Carries
  <2> QED
    BY <1>1, <1>3, <1>7, <2>1 DEF PromiseKept
<1> QED
  BY <1>6, <1>7

\* Every function of FixBoard keeps its promise, on boards of any size where no free cell
\* is further away than the char of the search can count, around the fixed cells and
\* around them and a piece.
THEOREM PromiseKeptCorrect == ASSUME SelectedFits, CarryFits PROVE FixSpec => []PromiseKept
<1>1. FixInit => PromiseKept
  BY DEF FixInit, PromiseKept
<1>2. FixStart /\ [FixNext]_callVars /\ PromiseKept => PromiseKept'
  <2> SUFFICES ASSUME FixStart, [FixNext]_callVars, PromiseKept PROVE PromiseKept'
    OBVIOUS
  <2>1. CASE UNCHANGED callVars
    BY <2>1 DEF callVars, PromiseKept
  <2>2. ASSUME NEW op, NEW dst, NEW way, Called(op, dst, way)
        PROVE  /\ board.selected \in Points \ board.fixed /\ Fits(board.fixed, board.selected)
    BY <2>2, StartingType DEF FixStart, Called, SelectedFits
  <2>3. CASE MoveTo
    <3>1. PICK dst \in Points \ board.fixed : Called("moveTo", dst, WayTo(board, dst))
      BY <2>3 DEF MoveTo
    <3>2. Finds(board.fixed, board.selected, dst, WayTo(board, dst))
      BY <2>2, <3>1, WayToIs
    <3>3. WayTo(board, dst) # NoWay => Leads(board.fixed, board.selected, WayTo(board, dst), dst)
      BY <3>2 DEF Finds, Shortest
    <3> QED
      BY <3>1, <3>3, MoveKeepsPromise
  <2>4. CASE MoveToOptimally
    <3>1. PICK dst \in Points \ board.fixed :
            Called("moveToOptimally", dst, OptimalWayTo(board, dst))
      BY <2>4 DEF MoveToOptimally
    <3>2. Finds(board.fixed, board.selected, dst, OptimalWayTo(board, dst))
      BY <2>2, <3>1, OptimalWayToIs
    <3>3. OptimalWayTo(board, dst) # NoWay
            => Leads(board.fixed, board.selected, OptimalWayTo(board, dst), dst)
      BY <3>2 DEF Finds, Shortest
    <3> QED
      BY <3>1, <3>3, MoveKeepsPromise
  <2>5. CASE MoveToTwoNeighborMoreOptimally
    <3>1. PICK dst \in Points \ board.fixed :
            /\ Distance(board.selected, dst) = 2
            /\ Called("moveToTwoNeighborMoreOptimally", dst, MoreOptimalWay(board, dst))
      BY <2>5 DEF MoveToTwoNeighborMoreOptimally
    <3>2. MoreOptimalWay(board, dst) # NoWay
            => Leads(board.fixed, board.selected, MoreOptimalWay(board, dst), dst)
      BY <2>2, <3>1, MoreOptimalWayIs
    <3> QED
      BY <3>1, <3>2, MoveKeepsPromise
  <2>6. CASE TrajectPieceCall
    BY <2>6, CarryKeepsPromise
  <2> QED
    BY <2>1, <2>3, <2>4, <2>5, <2>6 DEF FixNext
<1> QED
  BY <1>1, <1>2, StartKept, PTL DEF FixSpec

\* Around few free cells no way has more moves than a mark can count.
LEMMA CarryFitsFew ==
  ASSUME FewFreeCells
  PROVE  CarryFits
<1>1. ASSUME NEW fixed \in FixedShapes PROVE FitsAround(fixed)
  <2> SUFFICES ASSUME NEW r \in Points \ fixed, NEW p \in Points \ (fixed \cup {r})
               PROVE  Fits(fixed \cup {r}, p)
    BY DEF FitsAround
  <2> DEFINE more == fixed \cup {r}
  <2>1. IsFiniteSet(Points \ fixed) /\ Points \ more \in SUBSET (Points \ fixed)
    BY PointsFinite
  <2>2. Cardinality(Points \ more) <= Cardinality(Points \ fixed) /\ Cardinality(Points \ fixed) <= 126
    BY <2>1, FS_Subset DEF FewFreeCells
  <2>3. Cardinality(Points \ more) \in Nat /\ Cardinality(Points \ fixed) \in Nat
    BY <2>1, FS_Subset, FS_CardinalityType
  <2>4. Cardinality(Points \ more) <= 126 /\ p \in Points \ more
    BY <2>2, <2>3
  <2> HIDE DEF more
  <2>5. Fits(more, p)
    BY <2>4, FitsFew
  <2> QED
    BY <2>5 DEF more
<1> QED
  BY <1>1 DEF CarryFits

\* Where at most 126 cells are free every function of FixBoard keeps its promise.
THEOREM PromiseKeptOfFew == ASSUME FewFreeCells PROVE FixSpec => []PromiseKept
<1>1. SelectedFits
  BY FitsFew DEF FewFreeCells, SelectedFits
<1> QED
  BY <1>1, CarryFitsFew, PromiseKeptCorrect

-----------------------------------------------------------------------------
(* The pairs that a pair reaches.                                          *)

\* No move leads out of the set.
PairsClosed(fixed, Z) == \A x \in Z : NextPairs(fixed, x) \subseteq Z

\* R is the least closed set that has s.
LeastClosed(fixed, s, R) ==
  /\ R \in SUBSET (Points \X Points) /\ s \in R /\ PairsClosed(fixed, R)
  /\ \A Z : s \in Z /\ PairsClosed(fixed, Z) => R \subseteq Z

\* The pairs after a pair are pairs.
LEMMA NextPairsType ==
  ASSUME NEW fixed, NEW x \in Points \X Points
  PROVE  NextPairs(fixed, x) \in SUBSET (Points \X Points)
<1>1. x[1] \in Points /\ x[2] \in Points
  OBVIOUS
<1>2. \A q \in OpenNeighbours(fixed, x[1]) : q \in Points
  BY DEF OpenNeighbours
<1> QED
  BY <1>1, <1>2 DEF NextPairs

\* What holds between two rounds.
SpreadInv(fixed, s, r) ==
  /\ r.seen \in SUBSET (Points \X Points) /\ r.next \in SUBSET (Points \X Points)
  /\ r.seen \cap r.next = {}
  /\ s \in r.seen \cup r.next
  /\ \A x \in r.seen : NextPairs(fixed, x) \subseteq r.seen \cup r.next
  /\ \A Z : s \in Z /\ PairsClosed(fixed, Z) => r.seen \cup r.next \subseteq Z

\* What comes one move after some pairs.
Onward(fixed, pairs) == UNION {NextPairs(fixed, s) : s \in pairs}

\* One round.
LEMMA SpreadIs ==
  ASSUME NEW fixed, NEW r
  PROVE  /\ Spread(fixed, r).seen = r.seen \cup r.next
         /\ Spread(fixed, r).next = Onward(fixed, r.next) \ (r.seen \cup r.next)
<1> DEFINE both == r.seen \cup r.next
           far  == Onward(fixed, r.next) \ both
<1>1. Spread(fixed, r) = [seen |-> both, next |-> far]
  BY DEF Spread, Onward
<1> HIDE DEF far, both
<1>2. Spread(fixed, r).seen = both /\ Spread(fixed, r).next = far
  BY <1>1
<1> QED
  BY <1>2 DEF both, far

\* A round keeps it.
LEMMA SpreadKeeps ==
  ASSUME NEW fixed, NEW s, NEW r, SpreadInv(fixed, s, r)
  PROVE  SpreadInv(fixed, s, Spread(fixed, r))
<1> DEFINE t   == Spread(fixed, r)
           far == Onward(fixed, r.next)
<1>1. t.seen = r.seen \cup r.next /\ t.next = far \ (r.seen \cup r.next)
  BY SpreadIs
<1>2. far \in SUBSET (Points \X Points)
  BY NextPairsType DEF SpreadInv, Onward
<1>3. \A x \in r.next : NextPairs(fixed, x) \subseteq far
  BY DEF Onward
<1>4. ASSUME NEW Z, s \in Z, PairsClosed(fixed, Z) PROVE far \subseteq Z
  <2>1. r.next \subseteq Z
    BY <1>4 DEF SpreadInv
  <2>2. \A x \in r.next : NextPairs(fixed, x) \subseteq Z
    BY <1>4, <2>1 DEF PairsClosed
  <2> QED
    BY <2>2 DEF Onward
<1> HIDE DEF t, far
<1>5. t.seen \cup t.next = (r.seen \cup r.next) \cup far
  BY <1>1
<1>6. \A x \in t.seen : NextPairs(fixed, x) \subseteq t.seen \cup t.next
  BY <1>1, <1>3, <1>5 DEF SpreadInv
<1>7. \A Z : s \in Z /\ PairsClosed(fixed, Z) => t.seen \cup t.next \subseteq Z
  BY <1>4, <1>5 DEF SpreadInv
<1>8. /\ t.seen \in SUBSET (Points \X Points) /\ t.next \in SUBSET (Points \X Points)
      /\ t.seen \cap t.next = {} /\ s \in t.seen \cup t.next
  BY <1>1, <1>2 DEF SpreadInv
<1>9. SpreadInv(fixed, s, t)
  BY <1>6, <1>7, <1>8 DEF SpreadInv
<1> QED
  BY <1>9 DEF t

\* There are as many rounds as pairs, which is enough.
LEMMA ReachIs ==
  ASSUME NEW fixed, NEW s \in Points \X Points
  PROVE  LeastClosed(fixed, s, Reach(fixed, s))
<1> DEFINE PP    == Points \X Points
           S     == [seen : SUBSET PP, next : SUBSET PP]
           f     == [r \in S |-> Spread(fixed, r)]
           begin == [seen |-> {}, next |-> {s}]
           I     == {r \in S : SpreadInv(fixed, s, r)}
           E     == {r \in I : r.next = {}}
           g     == [r \in I |-> r.seen]
           N     == (Height * Width) * (Height * Width)
           end   == Rounds(f, begin, N)
<1>1. Reach(fixed, s) = end.seen
  BY DEF Reach, ReachWithin
<1>2. begin \in I
  <2>1. begin \in S
    OBVIOUS
  <2>2. SpreadInv(fixed, s, begin)
    BY DEF SpreadInv
  <2> QED
    BY <2>1, <2>2
<1>3. \A r \in I : f[r] = Spread(fixed, r) /\ f[r] \in I
  <2> TAKE r \in I
  <2>1. f[r] = Spread(fixed, r)
    OBVIOUS
  <2>2. SpreadInv(fixed, s, Spread(fixed, r))
    BY SpreadKeeps
  <2>3. Spread(fixed, r) \in S
    BY <2>2 DEF Spread, SpreadInv
  <2> QED
    BY <2>1, <2>2, <2>3
<1>4. \A r \in I : /\ r = [seen |-> r.seen, next |-> r.next] /\ SpreadInv(fixed, s, r)
                   /\ r.seen \in SUBSET PP
  OBVIOUS
<1>5. I \subseteq DOMAIN f /\ E \in SUBSET I
  OBVIOUS
<1>6. \A r \in E : f[r] = r
  <2> TAKE r \in E
  <2>1. r.next = {} /\ r \in I
    OBVIOUS
  <2>2. Spread(fixed, r) = [seen |-> r.seen, next |-> {}]
    BY <2>1 DEF Spread
  <2>3. r = [seen |-> r.seen, next |-> {}]
    BY <1>4, <2>1
  <2> QED
    BY <1>3, <2>1, <2>2, <2>3
<1>7. g \in [I -> SUBSET PP] /\ \A r \in I : g[r] = r.seen
  BY <1>4
<1>8. \A r \in I \ E : r.next # {}
  OBVIOUS
<1>9. \A r \in I : r.next = {} => r \in E
  OBVIOUS
<1>10. \A r \in E : r.next = {} /\ r \in I
  OBVIOUS
<1> HIDE DEF f, I, E, g, N, begin, end
<1>11. \A r \in I \ E : g[r] \subseteq g[f[r]] /\ g[r] # g[f[r]]
  <2> TAKE r \in I \ E
  <2>1. g[r] = r.seen /\ g[f[r]] = f[r].seen /\ f[r].seen = r.seen \cup r.next
    BY <1>3, <1>7, SpreadIs
  <2>2. r.seen \cap r.next = {} /\ r.next # {}
    BY <1>4, <1>8 DEF SpreadInv
  <2> QED
    BY <2>1, <2>2
<1>12. Preserves(f, I)
  BY <1>3, <1>5 DEF Preserves
<1>13. IsFiniteSet(PP) /\ Cardinality(PP) = N /\ N \in Nat
  <2>1. IsFiniteSet(PP) /\ Cardinality(PP) = Cardinality(Points) * Cardinality(Points)
    BY PointsFinite, FS_Product
  <2>2. Cardinality(Points) = Height * Width
    BY PointsCounted
  <2>3. Cardinality(PP) \in Nat
    BY <2>1, FS_CardinalityType
  <2> QED
    BY <2>1, <2>2, <2>3 DEF N
<1>14. end \in I
  BY <1>2, <1>12, <1>13, RoundsStep DEF end
<1>15. end \in E \/ Cardinality(g[end]) >= N
  <2> HIDE DEF PP
  <2>1. \A n \in Nat : \/ Rounds(f, begin, n) \in E
                       \/ Cardinality(g[Rounds(f, begin, n)]) >= n
    BY ONLY <1>2, <1>5, <1>6, <1>7, <1>11, <1>12, <1>13, GrowingEnds
  <2> QED
    BY <1>13, <2>1 DEF end
<1>16. end.next = {}
  <2>1. CASE Cardinality(g[end]) >= N
    <3>1. g[end] = end.seen /\ g[end] \in SUBSET PP
      BY <1>7, <1>14
    <3> HIDE DEF PP
    <3>2. /\ Cardinality(g[end]) <= Cardinality(PP)
          /\ Cardinality(PP) = Cardinality(g[end]) => PP = g[end]
          /\ IsFiniteSet(g[end])
      BY <1>13, <3>1, FS_Subset
    <3>3. Cardinality(g[end]) \in Nat
      BY <3>2, FS_CardinalityType
    <3>4. PP = end.seen
      BY <1>13, <2>1, <3>1, <3>2, <3>3
    <3>5. end.next \in SUBSET PP /\ end.seen \cap end.next = {}
      BY <1>4, <1>14 DEF SpreadInv, PP
    <3> QED
      BY <3>4, <3>5
  <2> QED
    BY <1>10, <1>15, <2>1
<1>17. SpreadInv(fixed, s, end)
  BY <1>4, <1>14
<1>18. LeastClosed(fixed, s, end.seen)
  BY <1>16, <1>17 DEF SpreadInv, LeastClosed, PairsClosed
<1> QED
  BY <1>1, <1>18

\* The selected piece goes around the other one.
LEMMA AroundStays ==
  ASSUME NEW fixed, NEW Z, PairsClosed(fixed, Z),
         NEW q, NEW s \in Points, NEW t, Reachable(fixed \cup {q}, s, t), <<s, q>> \in Z
  PROVE  <<t, q>> \in Z
<1> DEFINE S == {x \in Points : <<x, q>> \in Z}
           around == fixed \cup {q}
<1>1. ASSUME NEW x \in S, NEW dir \in Directions, Neighbour(x, dir) \in Points \ around
      PROVE  Neighbour(x, dir) \in S
  <2> DEFINE y == Neighbour(x, dir)
             pair == <<x, q>>
  <2>1. y \in Points \ fixed /\ y # q
    BY <1>1
  <2>2. pair \in Z /\ pair[1] = x /\ pair[2] = q
    BY <1>1
  <2>3. y \in OpenNeighbours(fixed, x)
    BY <2>1 DEF OpenNeighbours
  <2> HIDE DEF y, pair
  <2>4. <<y, q>> \in NextPairs(fixed, pair)
    BY <2>1, <2>2, <2>3 DEF NextPairs
  <2>5. <<y, q>> \in Z
    BY <2>2, <2>4 DEF PairsClosed
  <2> QED
    BY <2>1, <2>5 DEF y
<1>2. ClosedSet(around, S)
  BY <1>1 DEF ClosedSet, OpenNeighbours
<1>3. s \in S
  OBVIOUS
<1>4. PICK way : Leads(around, s, way, t)
  BY DEF Reachable
<1> HIDE DEF S, around
<1>5. t \in S
  BY <1>2, <1>3, <1>4, WayStays
<1> QED
  BY <1>5 DEF S

\* It changes places with the other one.
LEMMA SwapStays ==
  ASSUME NEW fixed, NEW Z, PairsClosed(fixed, Z),
         NEW t, NEW dir \in Directions, NEW q, q = Neighbour(t, dir), q \in Points \ fixed,
         <<t, q>> \in Z
  PROVE  <<q, t>> \in Z
<1> DEFINE pair == <<t, q>>
<1>1. pair \in Z /\ pair[1] = t /\ pair[2] = q
  OBVIOUS
<1>2. q \in OpenNeighbours(fixed, t)
  BY DEF OpenNeighbours
<1> HIDE DEF pair
<1>3. <<q, t>> \in NextPairs(fixed, pair)
  BY <1>1, <1>2 DEF NextPairs
<1> QED
  BY <1>1, <1>3 DEF PairsClosed

\* Every step of a plan is made of such moves.
LEMMA PlanStays ==
  ASSUME NEW b, NEW src, NEW dst, CarryCall(b, src, dst), NEW way, Plan(b, src, way, dst),
         NEW Z, PairsClosed(b.fixed, Z), <<b.selected, src>> \in Z
  PROVE  \E s : <<s, dst>> \in Z
<1> DEFINE n == Len(way)
           a(i) == After(src, way, i)
<1>1. src \in Points \ b.fixed /\ src \in Int \X Int /\ b.selected \in Points
  BY PointsType DEF CarryCall, FixBoards
<1>2. /\ way \in Seq(Directions) /\ way # <<>> /\ n \in Nat \ {0}
      /\ \A i \in 1 .. n : a(i) \in Points \ b.fixed
      /\ a(n) = dst /\ a(0) = src
  BY <1>1, AfterIs DEF Plan, Leads
<1>3. \A i \in 0 .. n - 1 : a(i + 1) = Neighbour(a(i), way[i + 1]) /\ way[i + 1] \in Directions
  <2> TAKE i \in 0 .. n - 1
  <2>1. i \in Nat /\ i + 1 \in 1 .. Len(way)
    BY <1>2
  <2>2. way[i + 1] \in Directions
    BY <1>2, <2>1
  <2>3. a(i + 1) = Neighbour(a(i), way[i + 1])
    BY <1>1, <2>1, AfterIs
  <2> QED
    BY <2>2, <2>3
<1>4. \A i \in 0 .. n : a(i) \in Points \ b.fixed /\ a(i) \in Int \X Int
  BY <1>1, <1>2, PointsType
<1>5. Reachable(b.fixed \cup {a(0)}, b.selected, a(1))
  BY <1>2 DEF Plan
<1>6. \A i \in 1 .. n - 1 : Reachable(b.fixed \cup {a(i)}, a(i - 1), a(i + 1))
  BY DEF Plan
<1> HIDE DEF a, n
\* The selected one is where the piece goes next.
<1>7. ASSUME NEW i \in 0 .. n - 1, <<a(i + 1), a(i)>> \in Z
      PROVE  <<a(i), a(i + 1)>> \in Z
  <2>1. /\ a(i + 1) = Neighbour(a(i), way[i + 1]) /\ way[i + 1] \in Directions
        /\ a(i) \in Points \ b.fixed /\ a(i) \in Int \X Int
    <3>1. i \in 0 .. n
      BY <1>2
    <3> QED
      BY <1>3, <1>4, <3>1
  <2> DEFINE p == a(i)
             q == a(i + 1)
             dir == way[i + 1]
  <2>2. Opposite(dir) \in Directions /\ Neighbour(q, Opposite(dir)) = p
    BY <2>1, NeighbourBack
  <2>3. <<q, p>> \in Z /\ p \in Points \ b.fixed
    BY <1>7, <2>1
  <2> HIDE DEF p, q, dir
  <2>4. <<p, q>> \in Z
    BY <2>2, <2>3, SwapStays
  <2> QED
    BY <2>4 DEF p, q
<1> DEFINE P == {i \in Nat : i + 1 <= n => <<a(i), a(i + 1)>> \in Z}
<1>8. 0 \in P
  <2>1. 0 \in 0 .. n - 1 /\ 0 + 1 = 1
    BY <1>2
  <2>2. <<b.selected, a(0)>> \in Z
    BY <1>2
  <2>3. <<a(1), a(0)>> \in Z
    BY <1>1, <1>5, <2>2, AroundStays
  <2>4. <<a(0), a(1)>> \in Z
    BY <1>7, <2>1, <2>3
  <2> QED
    BY <2>1, <2>4
<1>9. \A i \in P : i + 1 \in P
  <2> SUFFICES ASSUME NEW i \in P, (i + 1) + 1 <= n
               PROVE  <<a(i + 1), a((i + 1) + 1)>> \in Z
    OBVIOUS
  <2> DEFINE j == i + 1
  <2>1. /\ i \in Nat /\ i + 1 <= n /\ j \in 1 .. n - 1 /\ j \in 0 .. n - 1 /\ i \in 0 .. n
        /\ j - 1 = i
    BY <1>2
  <2>2. <<a(i), a(j)>> \in Z
    BY <2>1
  <2> HIDE DEF j
  <2>3. Reachable(b.fixed \cup {a(j)}, a(i), a(j + 1)) /\ a(i) \in Points
    BY <1>4, <1>6, <2>1
  <2>4. <<a(j + 1), a(j)>> \in Z
    BY <2>2, <2>3, AroundStays
  <2>5. <<a(j), a(j + 1)>> \in Z
    BY <1>7, <2>1, <2>4
  <2> QED
    BY <2>5 DEF j
<1> HIDE DEF P
<1>10. P \in SUBSET Nat
  BY DEF P
<1>11. \A i \in Nat : i \in P
  BY <1>8, <1>9, <1>10, SetInduction
<1>12. <<a(n - 1), a((n - 1) + 1)>> \in Z
  <2>1. n - 1 \in Nat /\ (n - 1) + 1 = n /\ (n - 1) + 1 <= n
    BY <1>2
  <2>2. n - 1 \in P
    BY <1>11, <2>1
  <2> QED
    BY <2>1, <2>2 DEF P
<1>13. (n - 1) + 1 = n
  BY <1>2
<1> QED
  BY <1>2, <1>12, <1>13

\* When the search has ended without a way, the pairs that those done tell of.
Pairs(b, src, done) ==
  {x \in (Points \ b.fixed) \X (Points \ b.fixed) :
     x[1] # x[2] /\ Met(b, src, done, x[1], x[2])}

\* No move leads out of them: a push that goes back comes to a pair that was met before,
\* and every other is done.
LEMMA PairsAreClosed ==
  ASSUME NEW b, NEW src, NEW dst, CarryCall(b, src, dst), NEW c, CarryInv(b, src, dst, c),
         Open(c) = {}
  PROVE  PairsClosed(b.fixed, Pairs(b, src, c.done))
<1> DEFINE Z == Pairs(b, src, c.done)
<1>1. src \in Points \ b.fixed /\ b.selected \in Points \ b.fixed
  BY DEF CarryCall, FixBoards
<1>2. c.done \in SUBSET (Points \X Directions)
  BY DEF CarryInv, CarryStates
\* A place and direction that are listed are done.
<1>3. \A key : Listed(c, key) => key \in c.done
  BY DEF Listed, Open
<1>4. ASSUME NEW q \in Points \ b.fixed, NEW dir \in Directions, Neighbour(q, dir) \in Points \ b.fixed,
             <<Neighbour(q, dir), dir>> \in c.done
      PROVE  Met(b, src, c.done, q, Neighbour(q, dir))
  <2> DEFINE s == Neighbour(q, dir)
             key == <<s, dir>>
  <2>1. key \in c.done /\ key[1] = s /\ key[2] = dir
    BY <1>4
  <2>2. Neighbour(s, Opposite(dir)) = q
    BY PointsType, NeighbourBack
  <2>3. Reachable(b.fixed \cup {s}, q, q)
    BY ReachableSelf
  <2> HIDE DEF s, key
  <2>4. Met(b, src, c.done, q, s)
    BY <2>1, <2>2, <2>3 DEF Met
  <2> QED
    BY <2>4 DEF s
\* The selected one goes on, or pushes the piece.
<1>5. ASSUME NEW s \in Points \ b.fixed, NEW q \in Points \ b.fixed, s # q,
             Met(b, src, c.done, s, q),
             NEW y \in OpenNeighbours(b.fixed, s), y # q
      PROVE  y \in Points \ b.fixed /\ Met(b, src, c.done, y, q)
  <2>1. PICK dir \in Directions : y = Neighbour(s, dir) /\ y \in Points \ b.fixed
    BY DEF OpenNeighbours
  <2>2. Neighbour(s, dir) \in Points \ (b.fixed \cup {q})
    BY <1>5, <2>1
  <2>3. CASE q = src /\ Reachable(b.fixed \cup {src}, b.selected, s)
    <3>1. Reachable(b.fixed \cup {src}, b.selected, y)
      BY <1>1, <2>1, <2>2, <2>3, ReachableOn
    <3> QED
      BY <2>1, <2>3, <3>1 DEF Met
  <2>4. ASSUME NEW key \in c.done, key[1] = q,
               Reachable(b.fixed \cup {q}, Neighbour(q, Opposite(key[2])), s)
        PROVE  y \in Points \ b.fixed /\ Met(b, src, c.done, y, q)
    <3>1. Neighbour(q, Opposite(key[2])) \in Points
      <4>1. PICK d \in c.queue : Key(d) = key
        BY <2>4 DEF CarryInv, Listed
      <4>2. Plan(b, src, d.way, d.pos)
        BY <4>1 DEF CarryInv
      <4>3. d.pos = q /\ Last(d.way) = key[2]
        BY <2>4, <4>1 DEF Key
      <4> QED
        BY <4>2, <4>3, PlanBefore
    <3>2. Reachable(b.fixed \cup {q}, Neighbour(q, Opposite(key[2])), y)
      BY <2>1, <2>2, <2>4, <3>1, ReachableOn
    <3> QED
      BY <2>1, <2>4, <3>2 DEF Met
  <2> QED
    BY <1>5, <2>3, <2>4 DEF Met
<1>6. ASSUME NEW s \in Points \ b.fixed, NEW q \in Points \ b.fixed, s # q,
             Met(b, src, c.done, s, q),
             q \in OpenNeighbours(b.fixed, s)
      PROVE  Met(b, src, c.done, q, s)
  <2>1. PICK away \in Directions : q = Neighbour(s, away)
    BY <1>6 DEF OpenNeighbours
  <2> DEFINE dir == Opposite(away)
  <2>2. dir \in Directions /\ Neighbour(q, dir) = s
    BY <2>1, PointsType, NeighbourBack
  <2> HIDE DEF dir
  <2>3. <<s, dir>> \in c.done => Met(b, src, c.done, q, s)
    BY <1>4, <2>2
  <2>4. CASE q = src /\ Reachable(b.fixed \cup {src}, b.selected, s)
    <3>1. dir \in Turns(b, src, b.selected)
      BY <2>2, <2>4 DEF Turns
    <3>2. Listed(c, <<Neighbour(src, dir), dir>>)
      BY <3>1 DEF CarryInv
    <3> QED
      BY <1>3, <2>2, <2>3, <2>4, <3>2
  <2>5. ASSUME NEW key \in c.done, key[1] = q,
               Reachable(b.fixed \cup {q}, Neighbour(q, Opposite(key[2])), s)
        PROVE  Met(b, src, c.done, q, s)
    <3>1. CASE dir # Opposite(key[2])
      <4>1. dir \in NextTurns(b, key)
        BY <2>2, <2>5, <3>1 DEF NextTurns, Turns
      <4>2. Listed(c, <<Neighbour(q, dir), dir>>)
        BY <2>5, <4>1 DEF CarryInv
      <4> QED
        BY <1>3, <2>2, <2>3, <4>2
    <3>2. CASE dir = Opposite(key[2])
      <4>1. PICK d \in c.queue : Key(d) = key
        BY <2>5 DEF CarryInv, Listed
      <4>2. Met(b, src, c.done, d.pos, Neighbour(d.pos, Opposite(Last(d.way))))
        BY <4>1 DEF CarryInv
      <4>3. d.pos = q /\ Last(d.way) = key[2]
        BY <2>5, <4>1 DEF Key
      <4> QED
        BY <2>2, <3>2, <4>2, <4>3
    <3> QED
      BY <3>1, <3>2
  <2> QED
    BY <1>6, <2>4, <2>5 DEF Met
<1>7. ASSUME NEW x \in Z, NEW t \in NextPairs(b.fixed, x) PROVE t \in Z
  <2>1. /\ x[1] \in Points \ b.fixed /\ x[2] \in Points \ b.fixed /\ x[1] # x[2]
        /\ Met(b, src, c.done, x[1], x[2])
    BY DEF Pairs
  <2>2. PICK y \in OpenNeighbours(b.fixed, x[1]) : t = <<y, IF y = x[2] THEN x[1] ELSE x[2]>>
    BY DEF NextPairs
  <2> DEFINE s == x[1]
             q == x[2]
  <2>3. s \in Points \ b.fixed /\ q \in Points \ b.fixed /\ s # q /\ Met(b, src, c.done, s, q)
        /\ y \in OpenNeighbours(b.fixed, s) /\ t = <<y, IF y = q THEN s ELSE q>>
    BY <2>1, <2>2
  <2> HIDE DEF s, q
  <2>4. CASE y = q
    <3>1. Met(b, src, c.done, q, s)
      BY <1>6, <2>3, <2>4
    <3>2. t = <<q, s>>
      BY <2>3, <2>4
    <3> QED
      BY <2>3, <3>1, <3>2 DEF Pairs
  <2>5. CASE y # q
    <3>1. y \in Points \ b.fixed /\ Met(b, src, c.done, y, q)
      BY <1>5, <2>3, <2>5
    <3>2. t = <<y, q>>
      BY <2>3, <2>5
    <3> QED
      BY <2>3, <2>5, <3>1, <3>2 DEF Pairs
  <2> QED
    BY <2>4, <2>5
<1> QED
  BY <1>7 DEF PairsClosed

\* The search finds a way whenever some moves bring the piece to dst.
LEMMA SearchedWay ==
  ASSUME NEW b, NEW src, NEW dst, CarryCall(b, src, dst), src # dst
  PROVE  CarrySearch(b, src, dst) # NoWay
           <=> \E x \in Reach(b.fixed, <<b.selected, src>>) : x[2] = dst
<1> DEFINE s == <<b.selected, src>>
           R == Reach(b.fixed, s)
<1>1. /\ src \in Points \ b.fixed /\ b.selected \in Points \ b.fixed /\ src # b.selected
      /\ s \in Points \X Points /\ s[1] = b.selected /\ s[2] = src
  BY DEF CarryCall, FixBoards
<1>2. PICK c : /\ CarryInv(b, src, dst, c) /\ (Open(c) = {} \/ c.way # NoWay)
               /\ CarrySearch(b, src, dst) = c.way
  BY CarrySearchIs
<1>3. LeastClosed(b.fixed, s, R)
  BY <1>1, ReachIs
<1> HIDE DEF R, s
<1>4. CASE c.way # NoWay
  <2>1. Plan(b, src, c.way, dst)
    BY <1>2, <1>4 DEF CarryInv
  <2>2. PairsClosed(b.fixed, R) /\ <<b.selected, src>> \in R
    BY <1>3 DEF LeastClosed, s
  <2>3. PICK t : <<t, dst>> \in R
    BY <2>1, <2>2, PlanStays
  <2> DEFINE pair == <<t, dst>>
  <2>4. pair \in R /\ pair[2] = dst
    BY <2>3
  <2> QED
    BY <1>2, <1>4, <2>4 DEF R, s
<1>5. CASE c.way = NoWay
  <2> DEFINE Z == Pairs(b, src, c.done)
  <2>1. PairsClosed(b.fixed, Z)
    BY <1>2, <1>5, PairsAreClosed
  <2>2. Met(b, src, c.done, b.selected, src)
    BY <1>1, ReachableSelf DEF Met
  <2>3. s \in Z
    BY <1>1, <2>2 DEF Pairs, s
  <2>4. ASSUME NEW x \in Z PROVE x[2] # dst
    <3>1. Met(b, src, c.done, x[1], x[2])
      BY DEF Pairs
    <3>2. \A key \in c.done : key[1] # dst
      BY <1>2 DEF CarryInv
    <3> QED
      BY <3>1, <3>2 DEF Met
  <2> HIDE DEF Z
  <2>5. R \subseteq Z
    BY <1>3, <2>1, <2>3 DEF LeastClosed
  <2>6. \A x \in R : x[2] # dst
    BY <2>4, <2>5
  <2> QED
    BY <1>2, <1>5, <2>6 DEF R, s
<1> QED
  BY <1>4, <1>5

-----------------------------------------------------------------------------
(* CarriesIfPossible.                                                      *)

\* The call starts with the selected piece at one of Starts.
SelectedStarts == before.selected \in Starts

\* No step changes the board before the call.
LEMMA SelectedStartsKept == FixSpec => []SelectedStarts
<1>1. FixInit => SelectedStarts
  <2> SUFFICES ASSUME FixInit PROVE SelectedStarts
    OBVIOUS
  <2>1. PICK fixed \in FixedShapes : \E selected \in Starts \ fixed :
          board = [cell |-> Shuffle, selected |-> selected, fixed |-> fixed]
    BY DEF FixInit
  <2>2. PICK selected \in Starts \ fixed :
          board = [cell |-> Shuffle, selected |-> selected, fixed |-> fixed]
    BY <2>1
  <2>3. board.selected = selected /\ before = board
    BY <2>2 DEF FixInit
  <2> QED
    BY <2>3 DEF SelectedStarts
<1>2. SelectedStarts /\ [FixNext]_callVars => SelectedStarts'
  BY DEF SelectedStarts, callVars, FixNext, MoveTo, MoveToOptimally,
         MoveToTwoNeighborMoreOptimally, TrajectPieceCall, Called
<1> QED
  BY <1>1, <1>2, PTL DEF FixSpec

\* A call succeeds when the pairs that can be reached have one with the piece at dst.
LEMMA CarriesWhatItCan ==
  ASSUME CarryFits, FixStart, SelectedStarts, TrajectPieceCall
  PROVE  CarriesIfPossible'
<1>1. /\ call = NoCall /\ board = before /\ before' = before /\ Starting(before)
      /\ before \in FixBoards /\ before.selected \in Points \ before.fixed
      /\ before.fixed \in FixedShapes
  BY StartingType DEF TrajectPieceCall, FixStart
<1>2. PICK src \in Starts \ (board.fixed \cup {board.selected}), dst \in Points \ board.fixed :
        /\ board' = TrajectPiece(board, src, dst).board
        /\ call' = [op |-> "trajectPiece", src |-> src, dst |-> dst,
                    moves |-> 0, count |-> 0, ok |-> TrajectPiece(board, src, dst).ok]
  BY DEF TrajectPieceCall
<1> DEFINE ok == TrajectPiece(before, src, dst).ok
           fixed == before.fixed
           s == <<before.selected, src>>
<1>3. call'.src = src /\ call'.dst = dst /\ call'.ok = ok
  BY <1>1, <1>2
<1>4. CarryCall(before, src, dst) /\ FitsAround(fixed)
  BY <1>1, <1>2, FixBoardAssumption DEF CarryCall, CarryFits
<1>5. ok <=> src = dst \/ CarrySearch(before, src, dst) # NoWay
  BY <1>4, TrajectPieceIs
<1>6. s \in (Starts \ fixed) \X (Starts \ fixed) /\ s \in Points \X Points /\ s[2] = src
  BY <1>1, <1>2, FixBoardAssumption DEF SelectedStarts
<1>7. Reaches[fixed][s] = Reach(fixed, s)
  BY <1>1, <1>6 DEF Reaches
<1>8. ok <=> \E x \in Reach(fixed, s) : x[2] = dst
  <2>1. CASE src = dst
    <3>1. s \in Reach(fixed, s)
      BY <1>6, ReachIs DEF LeastClosed
    <3> QED
      BY <1>5, <1>6, <2>1, <3>1
  <2>2. CASE src # dst
    BY <1>4, <1>5, <2>2, SearchedWay
  <2> QED
    BY <2>1, <2>2
<1> HIDE DEF ok
<1>9. ok <=> \E x \in Reaches[fixed][s] : x[2] = dst
  BY <1>7, <1>8
<1> QED
  BY <1>1, <1>3, <1>9 DEF CarriesIfPossible

\* trajectPiece (details/FixBoard.hpp 981-1134) succeeds if and only if some sequence of moves
\* around the fixed cells brings the piece to dst: to search over (place, last direction)
\* loses no way, and neither does it to leave out the push that goes back.
THEOREM CarriesIfPossibleCorrect == ASSUME CarryFits PROVE FixSpec => []CarriesIfPossible
<1>1. FixInit => CarriesIfPossible
  BY DEF FixInit, CarriesIfPossible, NoCall
<1>2. FixStart /\ SelectedStarts /\ [FixNext]_callVars /\ CarriesIfPossible => CarriesIfPossible'
  <2> SUFFICES ASSUME FixStart, SelectedStarts, [FixNext]_callVars, CarriesIfPossible
               PROVE  CarriesIfPossible'
    OBVIOUS
  <2>1. CASE UNCHANGED callVars
    BY <2>1 DEF callVars, CarriesIfPossible
  <2>2. ASSUME NEW op, NEW dst, NEW way, Called(op, dst, way), op # "trajectPiece"
        PROVE  CarriesIfPossible'
    BY <2>2 DEF Called, CarriesIfPossible
  <2>3. CASE MoveTo
    BY <2>2, <2>3 DEF MoveTo
  <2>4. CASE MoveToOptimally
    BY <2>2, <2>4 DEF MoveToOptimally
  <2>5. CASE MoveToTwoNeighborMoreOptimally
    BY <2>2, <2>5 DEF MoveToTwoNeighborMoreOptimally
  <2>6. CASE TrajectPieceCall
    BY <2>6, CarriesWhatItCan
  <2> QED
    BY <2>1, <2>3, <2>4, <2>5, <2>6 DEF FixNext
<1> QED
  BY <1>1, <1>2, StartKept, SelectedStartsKept, PTL DEF FixSpec

\* trajectPiece does so on every board of up to eleven rows and columns.
THEOREM CarriesIfPossibleOfFew == ASSUME FewFreeCells PROVE FixSpec => []CarriesIfPossible
BY CarryFitsFew, CarriesIfPossibleCorrect
=============================================================================
