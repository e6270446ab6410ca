---------------------------- MODULE Desktop_proofs ----------------------------
(***************************************************************************)
(* Proofs about the desktop program, for boards of any size and any        *)
(* problems and answers.                                                   *)
(*                                                                         *)
(* SlideWindow: as long as nothing is replaced or cancelled while it is in *)
(* use, the buttons tell what is under way, an answer that can be played   *)
(* fits the saved board, and a play is at every moment the rest of its     *)
(* answer.                                                                 *)
(*                                                                         *)
(* PostService: the posting of answers implements ProblemFeed, for any     *)
(* number of answers: what send_answer() takes reaches the callback of the *)
(* server in order, each answer once, whatever breaks, closes or stops.    *)
(***************************************************************************)
EXTENDS SlideWindow, PostService, Answer_proofs

-----------------------------------------------------------------------------
(* Replaying.  The judge that counts down from -1 never runs out of        *)
(* selections; a play depends on the board it starts from in its cells     *)
(* only.                                                                   *)

\* The states of a judge that may have counted below nothing.
Sims == [cell : Cells, selected : Points \cup {NoPoint}, remain : Int, valid : BOOLEAN]

\* The judge with a board, a selected cell, and selections without end.
From(cell, p) == [cell |-> cell, selected |-> p, remain |-> 0 - 1, valid |-> TRUE]

\* How a play of the answer goes from a board.
LEMMA ReplayFrom ==
  ASSUME NEW cell, NEW p, NEW moves
  PROVE  Replay(cell, p, moves) = Simulated(From(cell, p), moves).cell
<1> DEFINE one == -1
           b == CheckBegin(cell, one)
           f == [b EXCEPT !.selected = p]
<1>1. Replay(cell, p, moves) = Simulated(f, moves).cell
  BY DEF Replay, Simulated
<1>2. b = [cell |-> cell, selected |-> NoPoint, remain |-> one, valid |-> TRUE]
  BY DEF CheckBegin
<1>3. one = 0 - 1
  OBVIOUS
<1>4. f = [b EXCEPT !.selected = p]
  OBVIOUS
<1> HIDE DEF one, b, f
<1>5. f = [cell |-> cell, selected |-> p, remain |-> one, valid |-> TRUE]
  BY ONLY <1>2, <1>4
<1> QED
  BY <1>1, <1>3, <1>5 DEF From

\* A valid answer whose first move is played goes on from there.
LEMMA SimStep ==
  ASSUME NEW s \in Sims, NEW m \in Moves
  PROVE  /\ CheckStep(s, m) \in Sims
         /\ CheckStep(s, m).valid => s.valid
         /\ s.remain < 0 => CheckStep(s, m).remain < 0
         /\ m.isSelection /\ CheckStep(s, m).valid
              => /\ CheckStep(s, m).cell = s.cell /\ CheckStep(s, m).selected = m.selected
         /\ m.isSelection /\ s.valid /\ s.remain < 0 => CheckStep(s, m).valid
         /\ ~m.isSelection /\ s.valid => (CheckStep(s, m).valid <=> ValidMove(s.selected, m.direction))
         /\ ~m.isSelection /\ CheckStep(s, m).valid
              => /\ CheckStep(s, m).cell
                      = Swapped(s.cell, s.selected, Neighbour(s.selected, m.direction))
                 /\ CheckStep(s, m).selected = Neighbour(s.selected, m.direction)
                 /\ s.selected \in Points /\ Neighbour(s.selected, m.direction) \in Points
<1>1. CASE m.isSelection
  <2>1. m.selected \in Points
    BY <1>1, MoveTypes
  <2>2. CASE s.valid /\ s.remain # 0
    <3> DEFINE p == m.selected
               l == s.remain - 1
               t == CheckStep(s, m)
               cell == s.cell
               q == s.selected
               k == s.remain
               v == s.valid
    <3>1. t = [s EXCEPT !.selected = p, !.remain = l]
      BY <1>1, <2>1, <2>2 DEF CheckStep
    <3>2. /\ s = [cell |-> cell, selected |-> q, remain |-> k, valid |-> v]
          /\ l \in Int /\ cell \in Cells /\ v \in BOOLEAN /\ (s.remain < 0 => l < 0)
      BY DEF Sims
    <3> HIDE DEF p, l, t, cell, q, k, v
    <3>3. t = [cell |-> cell, selected |-> p, remain |-> l, valid |-> v]
      BY ONLY <3>1, <3>2
    <3>4. t \in Sims /\ t.cell = cell /\ t.selected = p /\ t.remain = l
      BY <2>1, <3>2, <3>3 DEF Sims, p
    <3>5. t.valid = v
      BY ONLY <3>3
    <3>6. t.valid
      BY <2>2, <3>5 DEF v
    <3> QED
      BY <1>1, <2>2, <3>2, <3>4, <3>6 DEF t, p, cell
  <2>3. CASE ~s.valid
    <3>1. CheckStep(s, m) = s
      BY <2>3 DEF CheckStep
    <3> QED
      BY <1>1, <2>3, <3>1
  <2>4. CASE s.valid /\ s.remain = 0
    <3> DEFINE t == CheckStep(s, m)
    <3>1. t = [s EXCEPT !.valid = FALSE]
      BY <1>1, <2>4 DEF CheckStep
    <3> HIDE DEF t
    <3>2. t \in Sims /\ ~t.valid /\ t.remain = s.remain
      BY <3>1 DEF Sims
    <3> QED
      BY <1>1, <2>4, <3>2 DEF t
  <2> QED
    BY <2>2, <2>3, <2>4
<1>2. CASE ~m.isSelection
  <2>1. m.direction \in Directions
    BY <1>2, MoveTypes
  <2> DEFINE q == Neighbour(s.selected, m.direction)
  <2>2. CASE s.valid /\ ValidMove(s.selected, m.direction)
    <3>1. s.selected \in Points /\ q \in Points /\ s.cell \in Cells
      BY <2>2 DEF ValidMove, IsSelected, Sims
    <3> HIDE DEF q
    <3>2. Swapped(s.cell, s.selected, q) \in Cells
      BY <3>1, SwappedCells
    <3>3. CheckStep(s, m) = [s EXCEPT !.cell = Swapped(s.cell, s.selected, q), !.selected = q]
      BY <1>2, <2>2 DEF CheckStep, q
    <3> DEFINE c == Swapped(s.cell, s.selected, q)
    <3> HIDE DEF c
    <3>4. [s EXCEPT !.cell = c, !.selected = q] \in Sims
      BY <3>1, <3>2 DEF Sims, c
    <3>5. /\ CheckStep(s, m).cell = c /\ CheckStep(s, m).selected = q
          /\ CheckStep(s, m).valid /\ CheckStep(s, m).remain = s.remain
      BY <2>2, <3>3 DEF c, Sims
    <3> QED
      BY <1>2, <2>2, <3>1, <3>3, <3>4, <3>5 DEF q, c
  <2>3. CASE ~(s.valid /\ ValidMove(s.selected, m.direction))
    BY <1>2, <2>3 DEF CheckStep, Sims
  <2> QED
    BY <2>2, <2>3
<1> QED
  BY <1>1, <1>2

\* A sequence of moves that the judge accepts from one state it accepts from every
\* other one with the same piece selected, and it changes equal boards equally.
LEMMA SamePath ==
  ASSUME NEW s \in Sims, NEW t \in Sims, s.valid, t.valid, t.remain < 0,
         s.selected = t.selected, NEW ans \in Seq(Moves), Simulated(s, ans).valid
  PROVE  /\ Simulated(s, ans) \in Sims /\ Simulated(t, ans) \in Sims
         /\ Simulated(t, ans).valid
         /\ Simulated(t, ans).selected = Simulated(s, ans).selected
         /\ s.cell = t.cell => Simulated(t, ans).cell = Simulated(s, ans).cell
<1> DEFINE n == Len(ans)
<1>1. n \in Nat /\ DOMAIN ans = 1 .. n /\ \A i \in 1 .. n : ans[i] \in Moves
  BY LenProperties, ElementOfSeq
<1>2. PICK g : CheckSteps(g, s, ans, n) /\ Simulated(s, ans) = g[n]
  BY <1>1, CheckFold
<1>3. PICK h : CheckSteps(h, t, ans, n) /\ Simulated(t, ans) = h[n]
  BY <1>1, CheckFold
<1> HIDE DEF n
<1>4. /\ g[0] = s /\ h[0] = t
      /\ \A i \in 1 .. n : g[i] = CheckStep(g[i - 1], ans[i]) /\ h[i] = CheckStep(h[i - 1], ans[i])
  BY <1>2, <1>3 DEF CheckSteps
<1> DEFINE Same(a, b) == /\ a \in Sims /\ b \in Sims /\ b.remain < 0
                         /\ a.valid => /\ b.valid /\ a.selected = b.selected
                                       /\ s.cell = t.cell => a.cell = b.cell
           S == {i \in Nat : i <= n => Same(g[i], h[i])}
<1>5. ASSUME NEW a, NEW b, NEW m \in Moves, Same(a, b)
      PROVE  Same(CheckStep(a, m), CheckStep(b, m))
  <2>1. a \in Sims /\ b \in Sims /\ b.remain < 0
    BY <1>5
  <2> DEFINE x == CheckStep(a, m)
             y == CheckStep(b, m)
  <2>2. x \in Sims /\ y \in Sims /\ y.remain < 0
    BY <2>1, SimStep
  <2>3. ASSUME x.valid
        PROVE  /\ y.valid /\ x.selected = y.selected /\ (s.cell = t.cell => x.cell = y.cell)
    <3>1. a.valid /\ b.valid /\ a.selected = b.selected /\ (s.cell = t.cell => a.cell = b.cell)
      BY <1>5, <2>1, <2>3, SimStep
    <3>2. CASE m.isSelection
      <4>1. y.valid
        BY <2>1, <3>1, <3>2, SimStep
      <4>2. x.cell = a.cell /\ x.selected = m.selected /\ y.cell = b.cell /\ y.selected = m.selected
        BY <2>1, <2>3, <3>2, <4>1, SimStep
      <4> QED
        BY <3>1, <4>1, <4>2
    <3>3. CASE ~m.isSelection
      <4>1. ValidMove(a.selected, m.direction)
        BY <2>1, <2>3, <3>1, <3>3, SimStep
      <4>2. y.valid
        BY <2>1, <3>1, <3>3, <4>1, SimStep
      <4>3. /\ x.cell = Swapped(a.cell, a.selected, Neighbour(a.selected, m.direction))
            /\ x.selected = Neighbour(a.selected, m.direction)
        BY <2>1, <2>3, <3>3, SimStep
      <4>4. /\ y.cell = Swapped(b.cell, b.selected, Neighbour(b.selected, m.direction))
            /\ y.selected = Neighbour(b.selected, m.direction)
        BY <2>1, <3>3, <4>2, SimStep
      <4> QED
        BY <3>1, <4>2, <4>3, <4>4
    <3> QED
      BY <3>2, <3>3
  <2> QED
    BY <2>2, <2>3
<1>6. Same(g[0], h[0])
  BY <1>4
<1>7. ASSUME NEW i \in S PROVE i + 1 \in S
  <2>1. SUFFICES ASSUME i + 1 <= n PROVE Same(g[i + 1], h[i + 1])
    OBVIOUS
  <2>2. i + 1 \in 1 .. n /\ (i + 1) - 1 = i /\ i <= n
    BY <1>1, <2>1
  <2>3. g[i + 1] = CheckStep(g[i], ans[i + 1]) /\ h[i + 1] = CheckStep(h[i], ans[i + 1])
    BY <1>4, <2>2
  <2>4. ans[i + 1] \in Moves /\ Same(g[i], h[i])
    BY <1>1, <2>2
  <2> HIDE DEF Same
  <2> QED
    BY <1>5, <2>3, <2>4
<1>8. S = Nat
  <2>1. 0 \in S /\ S \in SUBSET Nat
    BY <1>6
  <2> HIDE DEF S
  <2> QED
    BY <1>7, <2>1, SetInduction
<1>9. Same(g[n], h[n])
  BY <1>1, <1>8
<1> QED
  BY <1>2, <1>3, <1>9

\* The first move of a play, and the rest.
LEMMA FirstMove ==
  ASSUME NEW base, NEW ans \in Seq(Moves), ans # <<>>
  PROVE  /\ Simulated(base, ans) = Simulated(CheckStep(base, ans[1]), Tail(ans))
         /\ ans[1] \in Moves /\ Tail(ans) \in Seq(Moves) /\ Len(Tail(ans)) = Len(ans) - 1
         /\ Len(ans) \in Nat \ {0}
         /\ \A i \in 1 .. Len(ans) - 1 : Tail(ans)[i] = ans[i + 1]
<1> DEFINE m == ans[1]
           rest == Tail(ans)
           one == <<m>>
<1>1. m \in Moves /\ rest \in Seq(Moves) /\ Len(rest) = Len(ans) - 1 /\ Len(ans) \in Nat \ {0}
      /\ \A i \in 1 .. Len(ans) - 1 : rest[i] = ans[i + 1]
  OBVIOUS
<1>2. one \in Seq(Moves) /\ one = Append(<<>>, m) /\ <<>> \in Seq(Moves)
  BY <1>1
<1>3. ans = one \o rest
  BY <1>1, <1>2
<1> HIDE DEF m, rest, one
<1> DEFINE s == <<>>
           S == Moves
<1>4. Simulated(base, one) = CheckStep(base, m)
  <2>1. Simulated(base, s) = base
    BY CheckFoldEmpty
  <2>2. s \in Seq(S) /\ m \in S /\ one = Append(s, m)
    BY <1>1, <1>2
  <2> HIDE DEF s, S
  <2>3. Simulated(base, Append(s, m)) = CheckStep(Simulated(base, s), m)
    BY ONLY <2>2, CheckFoldAppend
  <2> QED
    BY <2>1, <2>2, <2>3
<1>5. Simulated(base, ans) = Simulated(Simulated(base, one), rest)
  <2>1. one \in Seq(S) /\ rest \in Seq(S)
    BY <1>1, <1>2
  <2> HIDE DEF S
  <2>2. Simulated(base, one \o rest) = Simulated(Simulated(base, one), rest)
    BY ONLY <2>1, CheckFoldConcat
  <2> QED
    BY <1>3, <2>2
<1> QED
  BY <1>1, <1>4, <1>5 DEF m, rest

\* A judge that has refused a move has refused the answer.
LEMMA ValidBase ==
  ASSUME NEW s \in Sims, NEW ans \in Seq(Moves), Simulated(s, ans).valid
  PROVE  s.valid
<1> DEFINE n == Len(ans)
<1>1. n \in Nat /\ DOMAIN ans = 1 .. n
  BY LenProperties
<1>2. PICK h : CheckSteps(h, s, ans, n) /\ Simulated(s, ans) = h[n]
  BY <1>1, CheckFold
<1> HIDE DEF n
<1> SUFFICES ASSUME ~s.valid PROVE FALSE
  OBVIOUS
<1> DEFINE T == {i \in Nat : i <= n => h[i] = s}
<1>3. 0 \in T /\ T \in SUBSET Nat
  BY <1>2 DEF CheckSteps
<1>4. ASSUME NEW i \in T PROVE i + 1 \in T
  <2>1. SUFFICES ASSUME i + 1 <= n PROVE h[i + 1] = s
    OBVIOUS
  <2>2. i + 1 \in 1 .. n /\ (i + 1) - 1 = i /\ i <= n
    BY <1>1, <2>1
  <2>3. h[i + 1] = CheckStep(h[i], ans[i + 1])
    BY <1>2, <2>2 DEF CheckSteps
  <2> QED
    BY <2>2, <2>3 DEF CheckStep
<1>5. T = Nat
  <2> HIDE DEF T
  <2> QED
    BY <1>3, <1>4, SetInduction
<1>6. h[n] = s
  BY <1>1, <1>5
<1> QED
  BY <1>2, <1>6

-----------------------------------------------------------------------------
(* What the board reads of an answer: the swaps before the next selection, *)
(* and the selections that are left.                                       *)

\* Where Answer::optimize() leaves an answer: a swap follows every selection.
WellFormed(ans) ==
  /\ ans \in Seq(Moves)
  /\ \A i \in DOMAIN ans : ans[i].isSelection => i < Len(ans) /\ ~ans[i + 1].isSelection

\* The first k moves of ans are the swaps before the next selection.
SwapsFirst(ans, k) ==
  /\ k \in 0 .. Len(ans)
  /\ \A i \in 1 .. k : ~ans[i].isSelection
  /\ k < Len(ans) => ans[k + 1].isSelection

\* swap_max counts the swaps before the next selection.
LEMMA SwapMaxIs ==
  ASSUME NEW ans \in Seq(Moves)
  PROVE  SwapsFirst(ans, SwapMax(ans))
<1> DEFINE I == {i \in 1 .. Len(ans) : ans[i].isSelection}
<1>1. Len(ans) \in Nat
  OBVIOUS
<1>2. SwapMax(ans) = LET next == IF I # {} THEN Min(I) ELSE 0
                     IN  IF next = 0 THEN Len(ans) ELSE next - 1
  BY DEF SwapMax, SelectInSeq, IsSelectionMove
<1>3. CASE I = {}
  BY <1>1, <1>2, <1>3 DEF SwapsFirst
<1>4. CASE I # {}
  <2>1. I \in SUBSET Nat
    BY <1>1
  <2>2. PICK n \in I : \A m \in I : n <= m
    <3> HIDE DEF I
    <3> QED
      BY <1>4, <2>1, Least
  <2>3. Min(I) = n
    <3>1. Min(I) = CHOOSE x \in I : \A y \in I : x <= y
      BY DEF Min
    <3>2. \A x \in I : (\A y \in I : x <= y) => x = n
      BY <2>1, <2>2
    <3> QED
      BY <2>2, <3>1, <3>2
  <2>4. n \in 1 .. Len(ans) /\ ans[n].isSelection /\ SwapMax(ans) = n - 1
    BY <1>2, <1>4, <2>2, <2>3
  <2>5. \A i \in 1 .. n - 1 : ~ans[i].isSelection
    BY <1>1, <2>2, <2>4
  <2> QED
    BY <1>1, <2>4, <2>5 DEF SwapsFirst
<1> QED
  BY <1>3, <1>4

\* Nothing else does.
LEMMA SwapMaxUnique ==
  ASSUME NEW ans \in Seq(Moves), NEW k, SwapsFirst(ans, k)
  PROVE  SwapMax(ans) = k
<1> DEFINE j == SwapMax(ans)
<1>1. SwapsFirst(ans, j) /\ Len(ans) \in Nat
  BY SwapMaxIs
<1> HIDE DEF j
<1>2. j \in Nat /\ k \in Nat /\ j <= Len(ans) /\ k <= Len(ans)
  BY <1>1 DEF SwapsFirst
<1>3. ~(j < k)
  <2>1. SUFFICES ASSUME j < k PROVE FALSE
    OBVIOUS
  <2>2. j + 1 \in 1 .. k /\ j < Len(ans)
    BY <1>1, <1>2, <2>1
  <2> QED
    BY <1>1, <2>2 DEF SwapsFirst
<1>4. ~(k < j)
  <2>1. SUFFICES ASSUME k < j PROVE FALSE
    OBVIOUS
  <2>2. k + 1 \in 1 .. j /\ k < Len(ans)
    BY <1>1, <1>2, <2>1
  <2> QED
    BY <1>1, <2>2 DEF SwapsFirst
<1> QED
  BY <1>2, <1>3, <1>4 DEF j

\* After a swap is read there is one swap fewer to come.
LEMMA SwapMaxTail ==
  ASSUME NEW ans \in Seq(Moves), ans # <<>>, ~ans[1].isSelection
  PROVE  SwapMax(Tail(ans)) = SwapMax(ans) - 1 /\ SwapMax(ans) \in Nat \ {0}
<1> DEFINE k == SwapMax(ans)
           n == Len(ans)
           rest == Tail(ans)
<1>1. SwapsFirst(ans, k)
  BY SwapMaxIs
<1>2. /\ rest \in Seq(Moves) /\ n \in Nat \ {0} /\ Len(rest) = n - 1
      /\ \A i \in 1 .. n - 1 : rest[i] = ans[i + 1]
  OBVIOUS
<1> HIDE DEF k, rest
<1>3. k \in Nat \ {0}
  BY <1>1, <1>2 DEF SwapsFirst
<1>4. SwapsFirst(rest, k - 1)
  <2>1. k - 1 \in 0 .. Len(rest)
    BY <1>1, <1>2, <1>3 DEF SwapsFirst
  <2>2. ASSUME NEW i \in 1 .. k - 1 PROVE ~rest[i].isSelection
    <3>1. i \in 1 .. n - 1 /\ i + 1 \in 1 .. k
      BY <1>1, <1>2, <1>3 DEF SwapsFirst
    <3> QED
      BY <1>1, <1>2, <3>1 DEF SwapsFirst
  <2>3. ASSUME k - 1 < Len(rest) PROVE rest[(k - 1) + 1].isSelection
    <3>1. (k - 1) + 1 = k /\ k \in 1 .. n - 1 /\ k < n
      BY <1>2, <1>3, <2>3
    <3> QED
      BY <1>1, <1>2, <3>1 DEF SwapsFirst
  <2> QED
    BY <2>1, <2>2, <2>3 DEF SwapsFirst
<1> QED
  BY <1>2, <1>3, <1>4, SwapMaxUnique DEF k, rest

\* Sets of numbers that differ by a shift have as many elements.
LEMMA ShiftedSize ==
  ASSUME NEW now, IsFiniteSet(now), NEW later, now \in SUBSET Int, later \in SUBSET Int,
         \A i \in now : i + 1 \in later, \A i \in later : i - 1 \in now
  PROVE  Cardinality(later) = Cardinality(now)
<1> DEFINE forth == [i \in now |-> i + 1]
           back == [i \in later |-> i - 1]
<1>1. forth \in [now -> later] /\ back \in [later -> now]
  OBVIOUS
<1>2. (\A i \in now : back[forth[i]] = i) /\ (\A i \in later : forth[back[i]] = i)
  BY <1>1
<1>3. IsFiniteSet(now)
  OBVIOUS
<1>4. forth \in [now -> later]
  BY <1>1
<1>5. back \in [later -> now]
  BY <1>1
<1>6. \A i \in now : back[forth[i]] = i
  BY <1>2
<1>7. \A i \in later : forth[back[i]] = i
  BY <1>2
<1> HIDE DEF forth, back
<1> QED
  BY ONLY <1>3, <1>4, <1>5, <1>6, <1>7, SameSize

\* The selections of an answer are those of its first move and of the rest.
LEMMA SelectionCountTail ==
  ASSUME NEW ans \in Seq(Moves), ans # <<>>
  PROVE  SelectionCount(ans) = SelectionCount(Tail(ans)) + (IF ans[1].isSelection THEN 1 ELSE 0)
<1> DEFINE n == Len(ans)
           rest == Tail(ans)
           all == {i \in DOMAIN ans : ans[i].isSelection}
           tail == {i \in DOMAIN rest : rest[i].isSelection}
           later == all \ {1}
<1>1. /\ rest \in Seq(Moves) /\ n \in Nat \ {0} /\ Len(rest) = n - 1
      /\ DOMAIN ans = 1 .. n /\ DOMAIN rest = 1 .. n - 1
      /\ \A i \in 1 .. n - 1 : rest[i] = ans[i + 1]
  OBVIOUS
<1>2. SelectionCount(ans) = Cardinality(all) /\ SelectionCount(rest) = Cardinality(tail)
  BY DEF SelectionCount, IsSelectionMove
<1> HIDE DEF n, rest
<1>3. IsFiniteSet(tail) /\ IsFiniteSet(all)
  <2>1. IsFiniteSet(1 .. n) /\ IsFiniteSet(1 .. n - 1)
    BY <1>1, FS_Interval
  <2> QED
    BY <1>1, <2>1, FS_Subset
<1>4. Cardinality(later) = Cardinality(tail)
  <2>1. \A i \in tail : i + 1 \in later
    BY <1>1
  <2>2. ASSUME NEW i \in later PROVE i - 1 \in tail
    <3>1. i \in 1 .. n /\ i # 1 /\ ans[i].isSelection
      BY <1>1
    <3>2. i - 1 \in 1 .. n - 1 /\ (i - 1) + 1 = i
      BY <1>1, <3>1
    <3> QED
      BY <1>1, <3>1, <3>2
  <2>3. tail \in SUBSET Int /\ later \in SUBSET Int
    BY <1>1
  <2> HIDE DEF all, tail, later
  <2> QED
    BY ONLY <1>3, <2>1, <2>2, <2>3, ShiftedSize
<1>5. Cardinality(later) = IF 1 \in all THEN Cardinality(all) - 1 ELSE Cardinality(all)
  <2> HIDE DEF all
  <2> QED
    BY <1>3, FS_RemoveElement
<1>6. 1 \in all <=> ans[1].isSelection
  BY <1>1
<1>7. Cardinality(all) \in Nat
  BY <1>3, FS_CardinalityType
<1> HIDE DEF all, tail, later
<1> QED
  BY <1>2, <1>4, <1>5, <1>6, <1>7 DEF rest

\* An answer has no selections when it counts none.
LEMMA NoSelectionsLeft ==
  ASSUME NEW ans \in Seq(Moves)
  PROVE  /\ SelectionCount(ans) \in Nat
         /\ SelectionCount(ans) = 0 <=> \A i \in DOMAIN ans : ~ans[i].isSelection
<1> DEFINE S == {i \in DOMAIN ans : ans[i].isSelection}
<1>1. SelectionCount(ans) = Cardinality(S)
  BY DEF SelectionCount, IsSelectionMove
<1>2. IsFiniteSet(S)
  <2>1. DOMAIN ans = 1 .. Len(ans) /\ Len(ans) \in Nat
    OBVIOUS
  <2>2. IsFiniteSet(DOMAIN ans)
    BY <2>1, FS_Interval
  <2> QED
    BY <2>2, FS_Subset
<1>3. Cardinality(S) \in Nat /\ (Cardinality(S) = 0 <=> S = {})
  <2> HIDE DEF S
  <2> QED
    BY <1>2, FS_CardinalityType, FS_EmptySet
<1>4. S = {} <=> \A i \in DOMAIN ans : ~ans[i].isSelection
  OBVIOUS
<1> HIDE DEF S
<1> QED
  BY <1>1, <1>3, <1>4

-----------------------------------------------------------------------------
(* The board and the piece that is selected.                               *)

\* The fields of the animated board.
BoardType ==
  [blocks : Boards, selected : Points, is_shuffling : BOOLEAN, is_moving : BOOLEAN,
   is_selecting : BOOLEAN, is_solving : BOOLEAN, is_clicking : BOOLEAN, shuffle_count : Nat,
   prev_shuffle_dir : Directions, ss : Seq(Moves), selection_cnt : Int, selection_max : Int,
   swap_cnt : Int, swap_max : Int]

\* The selected piece is where it is found.
LEMMA PlaceIs ==
  ASSUME NEW b, b.blocks \in Boards, NEW p \in Points, b.selected = b.blocks[p]
  PROVE  SelectedPlace(b) = p
BY BoardFacts DEF SelectedPlace, PlaceOf

\* It is somewhere.
LEMMA PlaceType ==
  ASSUME NEW b \in BoardType
  PROVE  SelectedPlace(b) \in Points /\ b.blocks[SelectedPlace(b)] = b.selected
<1>1. b.blocks \in Boards /\ b.selected \in Points
  BY DEF BoardType
<1>2. \E p \in Points : b.blocks[p] = b.selected
  BY <1>1, BoardFacts
<1> QED
  BY <1>2 DEF SelectedPlace, PlaceOf

\* A step of the play reads a move and swaps.
LEMMA MoveStepIs ==
  ASSUME NEW b
  PROVE  LET r == ReadMove(b)
             p == SelectedPlace(r)
         IN  MoveStep(b) = SwapBlocks(r, p, Neighbour(p, NextSwap(b)))
<1> DEFINE After1(r) == LET p == SelectedPlace(r) IN SwapBlocks(r, p, Neighbour(p, NextSwap(b)))
           r0 == ReadMove(b)
<1>1. MoveStep(b) = TheOne({After1(r) : r \in {r0}})
  BY DEF MoveStep
<1>2. {After1(r) : r \in {r0}} = {After1(r0)}
  OBVIOUS
<1> HIDE DEF After1, r0
<1>3. MoveStep(b) = After1(r0)
  BY <1>1, <1>2 DEF TheOne
<1> QED
  BY <1>3 DEF After1, r0

\* What a step of a play leaves alone.
SameFlags(b, c) ==
  /\ c.is_shuffling = b.is_shuffling /\ c.is_moving = b.is_moving
  /\ c.is_selecting = b.is_selecting /\ c.selection_max = b.selection_max

\* The two ways of ReadMove, and the swap after it.
ReadSelection(b, p, rest) ==
  [Select(b, p) EXCEPT !.swap_max = SwapMax(rest), !.swap_cnt = 1,
     !.selection_cnt = b.selection_cnt + 1, !.ss = Tail(rest)]

\* What a selection that is read changes.
LEMMA AfterSelection ==
  ASSUME NEW b \in BoardType, NEW p \in Points, NEW rest \in Seq(Moves), rest # <<>>
  PROVE  LET r == ReadSelection(b, p, rest)
         IN  /\ r \in BoardType /\ SameFlags(b, r) /\ r.blocks = b.blocks
             /\ r.selected = b.blocks[p] /\ r.ss = Tail(rest) /\ r.swap_cnt = 1
             /\ r.selection_cnt = b.selection_cnt + 1 /\ r.swap_max = SwapMax(rest)
<1> DEFINE k == SwapMax(rest)
           c == b.selection_cnt + 1
           s == Tail(rest)
           block == b.blocks[p]
           a == [b EXCEPT !.selected = block]
           r == [a EXCEPT !.swap_max = k, !.swap_cnt = 1, !.selection_cnt = c, !.ss = s]
<1> SUFFICES /\ r \in BoardType /\ SameFlags(b, r) /\ r.blocks = b.blocks
             /\ r.selected = block /\ r.ss = s /\ r.swap_cnt = 1
             /\ r.selection_cnt = c /\ r.swap_max = k
  BY DEF Select, ReadSelection
<1>1. k \in Int
  BY SwapMaxIs DEF SwapsFirst
<1>2. c \in Int /\ s \in Seq(Moves) /\ block \in Points
  BY BoardFacts DEF BoardType
<1> HIDE DEF k, c, s, block
<1>3. /\ a \in BoardType /\ SameFlags(b, a) /\ a.blocks = b.blocks /\ a.selected = block
  BY <1>2 DEF BoardType, SameFlags
<1> HIDE DEF a
<1>4. r \in BoardType
  <2> DEFINE a1 == a.blocks
             a2 == a.selected
             a3 == a.is_shuffling
             a4 == a.is_moving
             a5 == a.is_selecting
             a6 == a.is_solving
             a7 == a.is_clicking
             a8 == a.shuffle_count
             a9 == a.prev_shuffle_dir
             a10 == a.ss
             a11 == a.selection_cnt
             a12 == a.selection_max
             a13 == a.swap_cnt
             a14 == a.swap_max
             one == 1
  <2>1. /\ a1 \in Boards /\ a2 \in Points /\ a3 \in BOOLEAN /\ a4 \in BOOLEAN /\ a5 \in BOOLEAN
        /\ a6 \in BOOLEAN /\ a7 \in BOOLEAN /\ a8 \in Nat /\ a9 \in Directions /\ a12 \in Int
        /\ one \in Int
    BY <1>3 DEF BoardType
  <2>2. a = [blocks |-> a1, selected |-> a2, is_shuffling |-> a3, is_moving |-> a4,
             is_selecting |-> a5, is_solving |-> a6, is_clicking |-> a7, shuffle_count |-> a8,
             prev_shuffle_dir |-> a9, ss |-> a10, selection_cnt |-> a11, selection_max |-> a12,
             swap_cnt |-> a13, swap_max |-> a14]
    BY <1>3 DEF BoardType
  <2>3. r = [a EXCEPT !.swap_max = k, !.swap_cnt = one, !.selection_cnt = c, !.ss = s]
    OBVIOUS
  <2> HIDE DEF r, one, a1, a2, a3, a4, a5, a6, a7, a8, a9, a10, a11, a12, a13, a14
  <2>4. r = [blocks |-> a1, selected |-> a2, is_shuffling |-> a3, is_moving |-> a4,
             is_selecting |-> a5, is_solving |-> a6, is_clicking |-> a7, shuffle_count |-> a8,
             prev_shuffle_dir |-> a9, ss |-> s, selection_cnt |-> c, selection_max |-> a12,
             swap_cnt |-> one, swap_max |-> k]
    BY ONLY <2>2, <2>3
  <2> QED
    BY ONLY <1>1, <1>2, <2>1, <2>4 DEF BoardType
<1>5. /\ SameFlags(a, r) /\ r.blocks = a.blocks /\ r.selected = a.selected
      /\ r.ss = s /\ r.swap_cnt = 1 /\ r.selection_cnt = c /\ r.swap_max = k
  BY ONLY <1>3 DEF BoardType, SameFlags
<1> QED
  BY ONLY <1>3, <1>4, <1>5 DEF SameFlags

\* What a swap that is read changes.
LEMMA AfterSwap ==
  ASSUME NEW b \in BoardType, b.ss # <<>>
  PROVE  LET r == [b EXCEPT !.swap_cnt = b.swap_cnt + 1, !.ss = Tail(b.ss)]
         IN  /\ r \in BoardType /\ SameFlags(b, r) /\ r.blocks = b.blocks
             /\ r.selected = b.selected /\ r.ss = Tail(b.ss) /\ r.swap_cnt = b.swap_cnt + 1
             /\ r.selection_cnt = b.selection_cnt /\ r.swap_max = b.swap_max
<1> DEFINE c == b.swap_cnt + 1
           s == Tail(b.ss)
<1>1. c \in Int /\ s \in Seq(Moves)
  BY DEF BoardType
<1> HIDE DEF c, s
<1> QED
  BY <1>1 DEF BoardType, SameFlags, c, s

\* What a swap on the board changes.
LEMMA AfterBlocks ==
  ASSUME NEW b \in BoardType, NEW p \in Points, NEW q \in Points
  PROVE  LET r == SwapBlocks(b, p, q)
         IN  /\ r \in BoardType /\ SameFlags(b, r) /\ r.blocks = Swapped(b.blocks, p, q)
             /\ r.selected = b.selected /\ r.ss = b.ss /\ r.swap_cnt = b.swap_cnt
             /\ r.selection_cnt = b.selection_cnt /\ r.swap_max = b.swap_max
             /\ r.blocks[q] = b.blocks[p]
<1> DEFINE s == Swapped(b.blocks, p, q)
<1>1. s \in Boards /\ s[q] = b.blocks[p]
  BY SwappedBoards DEF BoardType
<1> HIDE DEF s
<1> QED
  BY <1>1 DEF BoardType, SameFlags, SwapBlocks, s

-----------------------------------------------------------------------------
(* A play.  Before the first step nothing is selected for the judge.       *)

\* The cell selected by the play, before the first selection none.
At(b) == IF b.swap_max < 0 THEN NoPoint ELSE SelectedPlace(b)

\* The rest of the play: the counters agree with what ss still holds, and it leads
\* to the cells g.
PlayInv(b, g) ==
  /\ WellFormed(b.ss)
  /\ b.selection_cnt \in Nat
  /\ b.selection_cnt + SelectionCount(b.ss) = b.selection_max
  /\ IF b.swap_max < 0
     THEN b.ss # <<>> /\ b.ss[1].isSelection
     ELSE SwapMax(b.ss) = b.swap_max - b.swap_cnt
  /\ Simulated(From(b.blocks, At(b)), b.ss).valid
  /\ Simulated(From(b.blocks, At(b)), b.ss).cell = g

\* It is a state of the judge.
LEMMA FromType ==
  ASSUME NEW cell \in Cells, NEW p \in Points \cup {NoPoint}
  PROVE  /\ From(cell, p) \in Sims /\ From(cell, p).valid /\ From(cell, p).remain < 0
         /\ From(cell, p).cell = cell /\ From(cell, p).selected = p
BY DEF From, Sims

\* It is a cell or none.
LEMMA AtType ==
  ASSUME NEW b \in BoardType
  PROVE  /\ From(b.blocks, At(b)) \in Sims /\ From(b.blocks, At(b)).valid
         /\ From(b.blocks, At(b)).remain < 0 /\ From(b.blocks, At(b)).cell = b.blocks
         /\ From(b.blocks, At(b)).selected = At(b)
         /\ b.blocks \in Cells /\ b.blocks \in Boards
<1>1. b.blocks \in Boards
  BY DEF BoardType
<1>2. b.blocks \in Cells
  BY <1>1, BoardFacts
<1>3. At(b) \in Points \cup {NoPoint}
  BY PlaceType DEF At
<1> QED
  BY <1>1, <1>2, <1>3, FromType

\* The play is over when, and only when, nothing is left to be read.
LEMMA OverIffRead ==
  ASSUME NEW b \in BoardType, NEW g, PlayInv(b, g)
  PROVE  MoveOver(b) <=> b.ss = <<>>
<1> DEFINE s == b.ss
           k == SwapMax(s)
           c == SelectionCount(s)
<1>1. /\ s \in Seq(Moves) /\ b.swap_max \in Int /\ b.swap_cnt \in Int /\ b.selection_cnt \in Nat
      /\ b.selection_max \in Int
  BY DEF BoardType, PlayInv
<1>2. SwapsFirst(s, k) /\ c \in Nat /\ (c = 0 <=> \A i \in DOMAIN s : ~s[i].isSelection)
  <2> HIDE DEF s
  <2> QED
    BY <1>1, SwapMaxIs, NoSelectionsLeft
<1>3. Len(s) \in Nat /\ DOMAIN s = 1 .. Len(s) /\ (Len(s) = 0 <=> s = <<>>)
  <2> HIDE DEF s
  <2> QED
    BY <1>1
<1>4. /\ b.selection_cnt + c = b.selection_max
      /\ b.swap_max < 0 => s # <<>> /\ s[1].isSelection
      /\ b.swap_max >= 0 => k = b.swap_max - b.swap_cnt
  BY <1>1 DEF PlayInv
<1> HIDE DEF s, k, c
<1>5. ASSUME s = <<>> PROVE MoveOver(b)
  <2>1. c = 0 /\ k = 0
    BY <1>2, <1>3, <1>5 DEF SwapsFirst
  <2> QED
    BY <1>1, <1>4, <1>5, <2>1 DEF MoveOver
<1>6. ASSUME MoveOver(b), s # <<>> PROVE FALSE
  <2>1. c = 0
    BY <1>1, <1>2, <1>4, <1>6 DEF MoveOver
  <2>2. Len(s) > 0 /\ 1 \in DOMAIN s
    BY <1>3, <1>6
  <2>3. ~s[1].isSelection
    BY <1>2, <2>1, <2>2
  <2>4. k <= 0 /\ k \in Int
    BY <1>1, <1>2, <1>4, <1>6, <2>3 DEF MoveOver, SwapsFirst
  <2>5. k + 1 = 1 /\ k < Len(s)
    BY <1>2, <1>3, <2>2, <2>4 DEF SwapsFirst
  <2>6. s[k + 1].isSelection
    BY <1>2, <2>5 DEF SwapsFirst
  <2> QED
    BY <2>3, <2>5, <2>6
<1> QED
  BY <1>5, <1>6 DEF s

\* The judge at the board of a play is the judge of the answer: from the same cells
\* with the same piece selected it sees the same end.
LEMMA SameEndFromBoard ==
  ASSUME NEW s \in Sims, NEW ans \in Seq(Moves), Simulated(s, ans).valid,
         NEW p \in Points, s.selected = p, NEW cell \in Cells, s.cell = cell
  PROVE  Simulated(From(cell, p), ans).valid
         /\ Simulated(From(cell, p), ans).cell = Simulated(s, ans).cell
<1> DEFINE t == From(cell, p)
<1>1. t \in Sims /\ t.valid /\ t.remain < 0 /\ t.cell = cell /\ t.selected = p
  BY FromType
<1>2. s.valid
  BY ValidBase
<1> HIDE DEF t
<1>3. Simulated(t, ans).valid /\ Simulated(t, ans).cell = Simulated(s, ans).cell
  BY <1>1, <1>2, SamePath
<1> QED
  BY <1>3 DEF t

\* The rest of a well-formed answer is one; after a selection comes a swap.
LEMMA WellFormedTail ==
  ASSUME NEW ans, WellFormed(ans), ans # <<>>
  PROVE  /\ WellFormed(Tail(ans))
         /\ ans[1].isSelection => Tail(ans) # <<>> /\ ~Tail(ans)[1].isSelection /\ Len(ans) > 1
<1> DEFINE n == Len(ans)
           rest == Tail(ans)
<1>1. ans \in Seq(Moves) /\ \A i \in DOMAIN ans : ans[i].isSelection => i < n /\ ~ans[i + 1].isSelection
  BY DEF WellFormed
<1>2. /\ rest \in Seq(Moves) /\ n \in Nat \ {0} /\ Len(rest) = n - 1
      /\ DOMAIN ans = 1 .. n /\ DOMAIN rest = 1 .. n - 1
      /\ \A i \in 1 .. n - 1 : rest[i] = ans[i + 1]
  BY <1>1
<1>3. Len(rest) # 0 => rest # <<>>
  <2>1. Len(<<>>) = 0
    OBVIOUS
  <2> HIDE DEF rest
  <2> QED
    BY <2>1
<1> HIDE DEF n, rest
<1>4. ASSUME NEW i \in 1 .. n - 1, rest[i].isSelection
      PROVE  i < n - 1 /\ ~rest[i + 1].isSelection
  <2>1. ans[i + 1].isSelection /\ i + 1 \in 1 .. n
    BY <1>2, <1>4
  <2>2. i + 1 < n /\ ~ans[(i + 1) + 1].isSelection
    BY <1>1, <1>2, <2>1
  <2>3. i + 1 \in 1 .. n - 1
    BY <1>2, <2>2
  <2> QED
    BY <1>2, <2>2, <2>3
<1>5. WellFormed(rest)
  BY <1>2, <1>4 DEF WellFormed
<1>6. ASSUME ans[1].isSelection PROVE rest # <<>> /\ ~rest[1].isSelection /\ n > 1
  <2> DEFINE one == 1
  <2>1. one \in DOMAIN ans /\ ans[one].isSelection
    BY <1>2, <1>6
  <2> HIDE DEF one
  <2>2. one < n /\ ~ans[one + 1].isSelection
    BY ONLY <1>1, <2>1
  <2>3. 1 < n /\ ~ans[1 + 1].isSelection
    BY <2>2 DEF one
  <2>4. 1 \in 1 .. n - 1
    BY <1>2, <2>3
  <2> QED
    BY <1>2, <1>3, <2>3, <2>4
<1> QED
  BY <1>5, <1>6 DEF n, rest

\* The swap of a step is that of the judge.
LEMMA SwapOfPlay ==
  ASSUME NEW r \in BoardType, NEW p \in Points, r.blocks[p] = r.selected, r.swap_max >= 0,
         NEW s \in Sims, s.cell = r.blocks, s.selected = p, NEW d \in Directions,
         Simulated(CheckStep(s, Swap(d)), r.ss).valid
  PROVE  LET c == SwapBlocks(r, p, Neighbour(p, d))
         IN  /\ c \in BoardType /\ SameFlags(r, c) /\ c.ss = r.ss
             /\ c.selection_cnt = r.selection_cnt /\ c.swap_max = r.swap_max
             /\ c.swap_cnt = r.swap_cnt
             /\ Simulated(From(c.blocks, At(c)), c.ss).valid
             /\ Simulated(From(c.blocks, At(c)), c.ss).cell
                  = Simulated(CheckStep(s, Swap(d)), r.ss).cell
<1> DEFINE m == Swap(d)
           q == Neighbour(p, d)
           t == CheckStep(s, m)
           c == SwapBlocks(r, p, q)
           ans == r.ss
<1>1. m \in Moves /\ ~m.isSelection /\ m.direction = d
  BY MoveTypes DEF Swap
<1>2. ans \in Seq(Moves) /\ Simulated(t, ans).valid
  BY DEF BoardType
<1> HIDE DEF m
<1>3. t \in Sims
  BY <1>1, SimStep
<1>4. t.valid
  <2> HIDE DEF t, ans
  <2> QED
    BY <1>2, <1>3, ValidBase
<1>5. t.cell = Swapped(s.cell, p, q) /\ t.selected = q /\ q \in Points
  BY <1>1, <1>4, SimStep
<1> HIDE DEF q, t, ans
<1>6. /\ c \in BoardType /\ SameFlags(r, c) /\ c.blocks = Swapped(r.blocks, p, q)
      /\ c.selected = r.selected /\ c.ss = r.ss /\ c.swap_cnt = r.swap_cnt
      /\ c.selection_cnt = r.selection_cnt /\ c.swap_max = r.swap_max
      /\ c.blocks[q] = r.blocks[p]
  BY <1>5, AfterBlocks
<1> HIDE DEF c
<1> DEFINE cells == c.blocks
<1>7. cells \in Boards /\ cells \in Cells /\ t.cell = cells
  BY <1>5, <1>6, AtType
<1>8. At(c) = q
  <2>1. SelectedPlace(c) = q
    BY <1>5, <1>6, <1>7, PlaceIs
  <2> QED
    BY <1>6, <2>1 DEF At, BoardType
<1> HIDE DEF cells
<1>9. Simulated(From(cells, q), ans).valid /\ Simulated(From(cells, q), ans).cell = Simulated(t, ans).cell
  BY <1>2, <1>3, <1>5, <1>7, SameEndFromBoard
<1> QED
  BY <1>6, <1>8, <1>9 DEF cells, c, ans, t, m, q

\* A step of a play keeps it, and reads at least one move.
LEMMA MoveStepKeeps ==
  ASSUME NEW b \in BoardType, NEW g, PlayInv(b, g), b.ss # <<>>
  PROVE  LET c == MoveStep(b)
         IN  /\ c \in BoardType /\ SameFlags(b, c) /\ PlayInv(c, g) /\ c.swap_max >= 0
             /\ Len(c.ss) < Len(b.ss)
<1> DEFINE s == b.ss
           m == s[1]
           rest == Tail(s)
           base == From(b.blocks, At(b))
           c == MoveStep(b)
           k == SwapMax(s)
           r == ReadMove(b)
           d == NextSwap(b)
<1>1. /\ s \in Seq(Moves) /\ s # <<>> /\ b.swap_max \in Int /\ b.swap_cnt \in Int
      /\ b.selection_cnt \in Nat /\ b.selection_max \in Int /\ WellFormed(s)
      /\ b.selection_cnt + SelectionCount(s) = b.selection_max
      /\ b.swap_max < 0 => s[1].isSelection
      /\ b.swap_max >= 0 => k = b.swap_max - b.swap_cnt
      /\ Simulated(base, s).valid /\ Simulated(base, s).cell = g
  BY DEF BoardType, PlayInv
<1>2. /\ base \in Sims /\ base.valid /\ base.remain < 0 /\ base.cell = b.blocks
      /\ base.selected = At(b) /\ b.blocks \in Boards /\ b.blocks \in Cells
  BY AtType
<1>3. c = SwapBlocks(r, SelectedPlace(r), Neighbour(SelectedPlace(r), d))
  BY MoveStepIs
<1> HIDE DEF base, c, r, d
<1>4. /\ Simulated(base, s) = Simulated(CheckStep(base, m), rest) /\ m \in Moves
      /\ rest \in Seq(Moves) /\ Len(rest) = Len(s) - 1 /\ Len(s) \in Nat \ {0}
      /\ \A i \in 1 .. Len(s) - 1 : rest[i] = s[i + 1]
  <2> HIDE DEF s
  <2> QED
    BY <1>1, FirstMove
<1>5. WellFormed(rest) /\ (m.isSelection => rest # <<>> /\ ~rest[1].isSelection /\ Len(s) > 1)
  <2> HIDE DEF s
  <2> QED
    BY <1>1, WellFormedTail
<1>6. SelectionCount(s) = SelectionCount(rest) + (IF m.isSelection THEN 1 ELSE 0)
      /\ SelectionCount(rest) \in Nat
  <2> HIDE DEF s
  <2>1. SelectionCount(s) = SelectionCount(rest) + (IF m.isSelection THEN 1 ELSE 0)
    BY <1>1, SelectionCountTail
  <2> QED
    BY <1>4, <2>1, NoSelectionsLeft
<1>7. SwapsFirst(s, k) /\ (~m.isSelection => SwapMax(rest) = k - 1 /\ k \in Nat \ {0})
  <2> HIDE DEF s
  <2> QED
    BY <1>1, SwapMaxIs, SwapMaxTail
<1>8. b.swap_max < 0 \/ b.swap_cnt >= b.swap_max <=> m.isSelection
  <2>1. ASSUME m.isSelection, b.swap_max >= 0 PROVE b.swap_cnt >= b.swap_max
    <3>1. k \in Nat /\ ~(1 \in 1 .. k)
      BY <1>7, <2>1 DEF SwapsFirst
    <3>2. k = 0
      BY <3>1
    <3> QED
      BY <1>1, <2>1, <3>2
  <2>2. ASSUME ~m.isSelection PROVE b.swap_max >= 0 /\ b.swap_cnt < b.swap_max
    <3>1. b.swap_max >= 0
      BY <1>1, <2>2
    <3>2. k = b.swap_max - b.swap_cnt /\ k >= 1
      BY <1>1, <1>7, <2>2, <3>1
    <3> QED
      BY <1>1, <3>1, <3>2
  <2> QED
    BY <1>1, <2>1, <2>2
<1>9. CASE m.isSelection
  <2> DEFINE p == m.selected
             s1 == CheckStep(base, m)
             n == rest[1]
             e == n.direction
             left == Tail(rest)
             x == b.blocks
  <2>1. p \in Points
    BY <1>4, <1>9, MoveTypes
  <2>2. r = ReadSelection(b, p, rest)
    BY <1>8, <1>9 DEF ReadMove, ReadSelection, r
  <2>3. d = e
    <3>1. d = s[2].direction
      BY <1>8, <1>9 DEF NextSwap, d
    <3>2. 1 \in 1 .. Len(s) - 1
      BY <1>4, <1>5, <1>9
    <3> QED
      BY <1>4, <3>1, <3>2
  <2> HIDE DEF p, s
  <2>4. /\ r \in BoardType /\ SameFlags(b, r) /\ r.blocks = x /\ r.selected = x[p]
        /\ r.ss = left /\ r.swap_cnt = 1 /\ r.selection_cnt = b.selection_cnt + 1
        /\ r.swap_max = SwapMax(rest)
    <3>1. rest \in Seq(Moves) /\ rest # <<>>
      BY <1>4, <1>5, <1>9
    <3> HIDE DEF rest
    <3>2. /\ r \in BoardType /\ SameFlags(b, r) /\ r.blocks = b.blocks
          /\ r.selected = b.blocks[p] /\ r.ss = left /\ r.swap_cnt = 1
          /\ r.selection_cnt = b.selection_cnt + 1 /\ r.swap_max = SwapMax(rest)
      BY ONLY <2>1, <2>2, <3>1, b \in BoardType, AfterSelection
    <3> QED
      BY <3>2
  <2>5. SelectedPlace(r) = p
    BY <1>2, <2>1, <2>4, PlaceIs
  <2>6. Simulated(s1, rest) = Simulated(CheckStep(s1, n), left) /\ n \in Moves /\ left \in Seq(Moves)
        /\ Len(left) = Len(rest) - 1
    BY <1>4, <1>5, <1>9, FirstMove
  <2>7. ~n.isSelection /\ e \in Directions /\ n = Swap(e)
    BY <1>5, <1>9, <2>6, MoveTypes
  <2>8. Simulated(s1, rest).valid /\ Simulated(s1, rest).cell = g
    BY <1>1, <1>4 DEF s
  <2>9. s1 \in Sims /\ s1.cell = x /\ s1.selected = p
    <3>1. CheckStep(base, m) \in Sims /\ CheckStep(base, m).valid
      BY <1>2, <1>4, <1>9, SimStep
    <3> QED
      BY <1>2, <1>4, <1>9, <3>1, SimStep DEF p
  <2>10. SwapMax(left) = SwapMax(rest) - 1 /\ SwapMax(rest) \in Nat \ {0}
    BY <1>4, <1>5, <1>9, SwapMaxTail
  <2>11. SelectionCount(rest) = SelectionCount(left)
    <3>1. SelectionCount(left) \in Nat
      BY <2>6, NoSelectionsLeft
    <3>2. rest \in Seq(Moves) /\ rest # <<>> /\ ~rest[1].isSelection
      BY <1>4, <1>5, <1>9
    <3> HIDE DEF rest
    <3>3. SelectionCount(rest) = SelectionCount(left) + (IF rest[1].isSelection THEN 1 ELSE 0)
      BY <3>2, SelectionCountTail
    <3> QED
      BY ONLY <3>1, <3>2, <3>3
  <2>12. WellFormed(left)
    BY <1>5, <1>9, WellFormedTail
  <2> HIDE DEF x, rest, n, e, s1, left
  <2>13. c = SwapBlocks(r, p, Neighbour(p, e))
    BY <1>3, <2>3, <2>5
  <2>14. Simulated(CheckStep(s1, Swap(e)), r.ss).valid /\ r.swap_max >= 0 /\ r.blocks[p] = r.selected
         /\ s1.cell = r.blocks
    BY <2>4, <2>6, <2>7, <2>8, <2>9, <2>10
  <2>15. /\ c \in BoardType /\ SameFlags(r, c) /\ c.ss = r.ss
         /\ c.selection_cnt = r.selection_cnt /\ c.swap_max = r.swap_max
         /\ c.swap_cnt = r.swap_cnt
         /\ Simulated(From(c.blocks, At(c)), c.ss).valid
         /\ Simulated(From(c.blocks, At(c)), c.ss).cell
              = Simulated(CheckStep(s1, Swap(e)), r.ss).cell
    BY <2>1, <2>4, <2>7, <2>9, <2>13, <2>14, SwapOfPlay
  <2>16. SameFlags(b, c)
    BY <2>4, <2>15 DEF SameFlags
  <2>17. PlayInv(c, g)
    <3>1. c.selection_cnt \in Nat /\ c.selection_cnt + SelectionCount(c.ss) = c.selection_max
      <4>1. c.selection_cnt = b.selection_cnt + 1 /\ c.selection_max = b.selection_max /\ c.ss = left
        BY <2>4, <2>15, <2>16 DEF SameFlags
      <4> DEFINE i == SelectionCount(left)
                 j == b.selection_cnt
                 l == b.selection_max
      <4>2. i \in Nat /\ j \in Nat /\ j + (i + 1) = l
        BY <1>1, <1>6, <1>9, <2>11 DEF s
      <4> HIDE DEF i, j, l
      <4>3. j + 1 \in Nat /\ (j + 1) + i = l
        BY <4>2
      <4> QED
        BY <4>1, <4>3 DEF i, j, l
    <3>2. ~(c.swap_max < 0) /\ SwapMax(c.ss) = c.swap_max - c.swap_cnt
      BY <2>4, <2>10, <2>15
    <3> QED
      BY <2>4, <2>6, <2>7, <2>8, <2>12, <2>15, <3>1, <3>2 DEF PlayInv
  <2> QED
    BY <1>4, <2>4, <2>6, <2>14, <2>15, <2>16, <2>17 DEF c, s
<1>10. CASE ~m.isSelection
  <2> DEFINE p == SelectedPlace(b)
             e == m.direction
  <2>1. p \in Points /\ b.blocks[p] = b.selected
    BY PlaceType
  <2>2. r = [b EXCEPT !.swap_cnt = b.swap_cnt + 1, !.ss = rest]
    BY <1>8, <1>10 DEF ReadMove, r
  <2>3. d = e
    BY <1>8, <1>10 DEF NextSwap, d
  <2>4. /\ r \in BoardType /\ SameFlags(b, r) /\ r.blocks = b.blocks /\ r.selected = b.selected
        /\ r.ss = rest /\ r.swap_cnt = b.swap_cnt + 1 /\ r.selection_cnt = b.selection_cnt
        /\ r.swap_max = b.swap_max
    BY <2>2, AfterSwap
  <2>5. b.swap_max >= 0
    BY <1>1, <1>10
  <2>6. At(b) = p
    BY <1>1, <2>5 DEF At
  <2>7. e \in Directions /\ m = Swap(e)
    BY <1>4, <1>10, MoveTypes
  <2> HIDE DEF p, rest, e, m, s
  <2>8. SelectedPlace(r) = p
    BY <1>2, <2>1, <2>4, PlaceIs
  <2>9. c = SwapBlocks(r, p, Neighbour(p, e))
    BY <1>3, <2>3, <2>8
  <2>10. Simulated(CheckStep(base, Swap(e)), r.ss).valid /\ r.swap_max >= 0
         /\ r.blocks[p] = r.selected /\ base.cell = r.blocks /\ base.selected = p
         /\ Simulated(CheckStep(base, Swap(e)), r.ss).cell = g
    BY <1>1, <1>2, <1>4, <2>1, <2>4, <2>5, <2>6, <2>7
  <2>11. /\ c \in BoardType /\ SameFlags(r, c) /\ c.ss = r.ss
         /\ c.selection_cnt = r.selection_cnt /\ c.swap_max = r.swap_max
         /\ c.swap_cnt = r.swap_cnt
         /\ Simulated(From(c.blocks, At(c)), c.ss).valid
         /\ Simulated(From(c.blocks, At(c)), c.ss).cell
              = Simulated(CheckStep(base, Swap(e)), r.ss).cell
    BY <1>2, <2>1, <2>4, <2>7, <2>9, <2>10, SwapOfPlay
  <2>12. SameFlags(b, c)
    BY <2>4, <2>11 DEF SameFlags
  <2>13. PlayInv(c, g)
    <3>1. c.selection_cnt \in Nat /\ c.selection_cnt + SelectionCount(c.ss) = c.selection_max
      <4>1. c.selection_cnt = b.selection_cnt /\ c.selection_max = b.selection_max /\ c.ss = rest
        BY <2>4, <2>11, <2>12 DEF SameFlags
      <4> QED
        BY <1>1, <1>6, <1>10, <4>1
    <3>2. ~(c.swap_max < 0) /\ SwapMax(c.ss) = c.swap_max - c.swap_cnt
      <4>1. c.swap_max = b.swap_max /\ c.swap_cnt = b.swap_cnt + 1 /\ c.ss = rest
        BY <2>4, <2>11
      <4> QED
        BY <1>1, <1>7, <1>10, <2>5, <4>1
    <3> QED
      BY <1>5, <2>4, <2>10, <2>11, <3>1, <3>2 DEF PlayInv
  <2> QED
    BY <1>4, <2>4, <2>10, <2>11, <2>12, <2>13 DEF c, s
<1> QED
  BY <1>9, <1>10 DEF c

-----------------------------------------------------------------------------
(* move_blocks_with_no_animation() plays the rest.                         *)

\* The function that FoldLeft(StepOn, base, seq) defines by recursion.
StepIterates(it, base, seq, n) ==
  it = [s \in SUBSET (1 .. n) |->
          IF s = {}
          THEN base
          ELSE StepOn(it[s \ {LargestOf(s)}], seq[LargestOf(s)])]

\* The recursion behind the fold has a solution, by induction on the length.
LEMMA StepIteratesExists ==
  ASSUME NEW base, NEW seq, NEW n \in Nat
  PROVE  \E it : StepIterates(it, base, seq, n)
<1> DEFINE S == {k \in Nat : \E it : StepIterates(it, base, seq, k)}
<1>1. 0 \in S
  <2>1. SUBSET (1 .. 0) = {{}}
    OBVIOUS
  <2>2. StepIterates([s \in SUBSET (1 .. 0) |-> base], base, seq, 0)
    BY <2>1 DEF StepIterates
  <2> QED
    BY <2>2
<1>2. ASSUME NEW k \in S PROVE k + 1 \in S
  <2>1. PICK it : StepIterates(it, base, seq, k)
    OBVIOUS
  <2> DEFINE new == [s \in SUBSET (1 .. (k + 1)) |->
                       IF k + 1 \in s THEN StepOn(it[s \ {k + 1}], seq[k + 1]) ELSE it[s]]
             rhs == [s \in SUBSET (1 .. (k + 1)) |->
                       IF s = {}
                       THEN base
                       ELSE StepOn(new[s \ {LargestOf(s)}], seq[LargestOf(s)])]
  <2>2. ASSUME NEW s \in SUBSET (1 .. (k + 1)) PROVE new[s] = rhs[s]
    <3>1. CASE k + 1 \in s
      <4>1. LargestOf(s) = k + 1
        <5>1. LargestOf(s) \in s /\ LargestOf(s) >= k + 1
          BY <3>1, GreatestIs, k + 1 \in Nat
        <5>2. LargestOf(s) \in 1 .. (k + 1)
          BY <5>1
        <5> QED
          BY <5>1, <5>2
      <4>2. s \ {k + 1} \in SUBSET (1 .. (k + 1)) /\ k + 1 \notin s \ {k + 1}
        OBVIOUS
      <4> QED
        BY <3>1, <4>1, <4>2
    <3>2. CASE k + 1 \notin s
      <4>1. s \in SUBSET (1 .. k)
        BY <3>2
      <4>2. CASE s = {}
        BY <2>1, <4>1, <4>2 DEF StepIterates
      <4>3. CASE s # {}
        <5>1. LargestOf(s) \in s
          BY <4>1, <4>3, GreatestIs
        <5>2. /\ s \ {LargestOf(s)} \in SUBSET (1 .. (k + 1))
              /\ k + 1 \notin s \ {LargestOf(s)}
          BY <3>2
        <5>3. it[s] = StepOn(it[s \ {LargestOf(s)}], seq[LargestOf(s)])
          BY <2>1, <4>1, <4>3 DEF StepIterates
        <5> QED
          BY <3>2, <4>3, <5>2, <5>3
      <4> QED
        BY <4>2, <4>3
    <3> QED
      BY <3>1, <3>2
  <2>3. new = rhs
    <3>1. /\ DOMAIN new = DOMAIN rhs
          /\ new = [s \in DOMAIN new |-> new[s]]
          /\ rhs = [s \in DOMAIN rhs |-> rhs[s]]
      OBVIOUS
    <3>2. \A s \in DOMAIN new : new[s] = rhs[s]
      BY <2>2
    <3> HIDE DEF new, rhs
    <3> QED
      BY <3>1, <3>2
  <2>4. StepIterates(new, base, seq, k + 1)
    BY <2>3 DEF StepIterates
  <2>5. \E i : StepIterates(i, base, seq, k + 1)
    BY <2>4
  <2> QED
    BY <2>5
<1>3. S \in SUBSET Nat
  OBVIOUS
<1>4. S = Nat
  <2> HIDE DEF S
  <2> QED
    BY <1>1, <1>2, <1>3, SetInduction
<1> QED
  BY <1>4

\* The steps of a fold of StepOn, one after the other.
StepSteps(h, base, seq, n) ==
  h[0] = base /\ \A i \in 1 .. n : h[i] = StepOn(h[i - 1], seq[i])

\* The fold is the last of its partial results.
LEMMA StepFold ==
  ASSUME NEW base, NEW seq, NEW n \in Nat, DOMAIN seq = 1 .. n
  PROVE  \E h : StepSteps(h, base, seq, n) /\ FoldLeft(StepOn, base, seq) = h[n]
<1>1. FoldLeft(StepOn, base, seq) = (CHOOSE it : StepIterates(it, base, seq, n))[1 .. n]
  BY DEF FoldLeft, MapThenFoldSet, Max, StepIterates, LargestOf
<1>2. PICK it : StepIterates(it, base, seq, n) /\ FoldLeft(StepOn, base, seq) = it[1 .. n]
  BY <1>1, StepIteratesExists
<1> DEFINE h == [i \in 0 .. n |-> it[1 .. i]]
<1>3. h[0] = base
  BY <1>2 DEF StepIterates
<1>4. ASSUME NEW i \in 1 .. n PROVE h[i] = StepOn(h[i - 1], seq[i])
  <2> DEFINE s == 1 .. i
  <2>1. s \in SUBSET (1 .. n) /\ s # {} /\ s \ {i} = 1 .. (i - 1) /\ LargestOf(s) = i
    BY GreatestOfPrefix
  <2>2. it[s] = StepOn(it[s \ {i}], seq[i])
    <3> HIDE DEF s
    <3> QED
      BY <1>2, <2>1 DEF StepIterates
  <2>3. h[i] = it[1 .. i] /\ h[i - 1] = it[1 .. (i - 1)]
    OBVIOUS
  <2> HIDE DEF h
  <2> QED
    BY <2>1, <2>2, <2>3
<1>5. h[n] = it[1 .. n]
  OBVIOUS
<1> HIDE DEF h
<1> QED
  BY <1>2, <1>3, <1>4, <1>5 DEF StepSteps

\* As many steps as there are moves left bring every play to its end.
LEMMA PlayedToItsEnd ==
  ASSUME NEW b \in BoardType, NEW g, PlayInv(b, g)
  PROVE  LET c == MovesLeft(b)
         IN  c \in BoardType /\ SameFlags(b, c) /\ PlayInv(c, g) /\ c.ss = <<>>
<1> DEFINE s == b.ss
           n == Len(s)
           c == MovesLeft(b)
<1>1. n \in Nat /\ DOMAIN s = 1 .. n
  <2>1. s \in Seq(Moves)
    BY DEF BoardType
  <2> QED
    BY <2>1, LenProperties
<1>2. c = FoldLeft(StepOn, b, s)
  BY DEF MovesLeft
<1> HIDE DEF s, n, c
<1>3. PICK h : StepSteps(h, b, s, n) /\ c = h[n]
  BY <1>1, <1>2, StepFold
<1>4. h[0] = b /\ \A i \in 1 .. n : h[i] = StepOn(h[i - 1], s[i])
  BY <1>3 DEF StepSteps
<1> DEFINE Good(x, i) == x \in BoardType /\ SameFlags(b, x) /\ PlayInv(x, g) /\ Len(x.ss) <= n - i
           S == {i \in Nat : i <= n => Good(h[i], i)}
<1>5. 0 \in S /\ S \in SUBSET Nat
  <2>1. Good(b, 0)
    BY <1>1 DEF SameFlags, n, s
  <2> HIDE DEF Good
  <2> QED
    BY <1>4, <2>1
<1>6. ASSUME NEW i \in S PROVE i + 1 \in S
  <2>1. SUFFICES ASSUME i + 1 <= n PROVE Good(h[i + 1], i + 1)
    OBVIOUS
  <2> DEFINE x == h[i]
             y == h[i + 1]
             e == s[i + 1]
  <2>2. i \in Nat /\ i + 1 \in 1 .. n /\ (i + 1) - 1 = i /\ i <= n
    BY <1>1, <2>1
  <2>3. y = StepOn(x, e)
    BY <1>4, <2>2
  <2>4. Good(x, i)
    BY <2>2
  <2> HIDE DEF x, y, e, Good
  <2>5. x \in BoardType /\ SameFlags(b, x) /\ PlayInv(x, g) /\ Len(x.ss) <= n - i
    BY <2>4 DEF Good
  <2>6. x.ss \in Seq(Moves)
    BY <2>5 DEF BoardType
  <2>7. CASE MoveOver(x)
    <3>1. x.ss = <<>>
      BY <2>5, <2>7, OverIffRead
    <3>2. y = x /\ Len(x.ss) = 0
      BY <2>3, <2>7, <3>1 DEF StepOn
    <3>3. 0 <= n - (i + 1)
      BY <1>1, <2>1, <2>2
    <3> QED
      BY <2>5, <3>2, <3>3 DEF Good, y
  <2>8. CASE ~MoveOver(x)
    <3>1. x.ss # <<>>
      BY <2>5, <2>8, OverIffRead
    <3> DEFINE z == MoveStep(x)
    <3>2. z \in BoardType /\ SameFlags(x, z) /\ PlayInv(z, g) /\ Len(z.ss) < Len(x.ss)
      BY <2>5, <3>1, MoveStepKeeps
    <3>3. y = z
      BY <2>3, <2>8 DEF StepOn
    <3> HIDE DEF z
    <3>4. Len(z.ss) \in Nat /\ Len(x.ss) \in Nat
      BY <2>5, <2>6, <3>2, LenProperties DEF BoardType
    <3>5. Len(z.ss) <= n - (i + 1)
      BY <1>1, <2>2, <2>5, <3>2, <3>4
    <3>6. SameFlags(b, z)
      BY <2>5, <3>2 DEF SameFlags
    <3> QED
      BY <3>2, <3>3, <3>5, <3>6 DEF Good, y
  <2> QED
    BY <2>7, <2>8
<1>7. S = Nat
  <2> HIDE DEF S
  <2> QED
    BY <1>5, <1>6, SetInduction
<1>8. Good(c, n)
  BY <1>1, <1>3, <1>7
<1>9. Len(c.ss) <= 0 /\ c.ss \in Seq(Moves)
  BY <1>1, <1>8 DEF BoardType
<1>10. c.ss = <<>>
  BY <1>9
<1> QED
  BY <1>8, <1>10 DEF c

-----------------------------------------------------------------------------
(* The invariant of the window.  It speaks of the states in which nothing  *)
(* was replaced or cancelled while it was in use.                          *)

\* Nothing was replaced, cancelled or enabled while it was in use.
Calm == ~lost /\ ~disturbed

\* A play is going on.
Moving == board.is_moving /\ board.selection_max > 0

\* An answer of a solver: it begins with a selection, and the judge accepts its
\* moves whatever the pieces are.
Playable(ans) ==
  /\ WellFormed(ans)
  /\ ans # <<>> => ans[1].isSelection
  /\ Simulated(From(FinishedState, NoPoint), ans).valid

\* The types of the members.
Typed ==
  /\ board \in BoardType
  /\ backup \in [cells : Boards, selected : Points, alive : BOOLEAN]
  /\ solvers \in Seq(Boards) /\ inbox \in Seq(Problems)
  /\ Playable(current_answer)

\* Solve is enabled whenever another of the buttons is.
Together == buttons \cap (AllButtons \cup {"restore"}) # {} => "solve" \in buttons

\* The answer solves the board of the backup.
Fits == backup.alive /\ Aligned(Replay(backup.cells, NoPoint, current_answer))

\* A solver, a play, a selection and a shuffling exclude each other and an answer
\* to be played; solvers work on the board of the backup.  A play of nothing is over
\* before any swap could end.
OneAtATime ==
  /\ Moving => solvers = <<>> /\ "play" \notin buttons /\ Fits
  /\ board.is_selecting =>
       solvers = <<>> /\ "play" \notin buttons /\ ~Moving /\ ~board.is_shuffling
  /\ board.is_shuffling => solvers = <<>> /\ "play" \notin buttons /\ ~Moving
  /\ \A i \in DOMAIN solvers : solvers[i] = backup.cells /\ backup.alive
  /\ board.is_moving /\ ~Moving => ~timer /\ ~(signals > 0)

\* A play under way is where its answer leads.
Playing ==
  /\ Moving => board.swap_max >= 0 /\ PlayInv(board, goal)
  /\ ~Moving => board.ss = <<>>

\* Solve and the other buttons are enabled only when nothing is under way.
Enabled ==
  /\ "solve" \in buttons => ~InUse
  /\ "solve" \notin buttons => InUse \/ worker

\* What may be played or restored is an answer to the board kept.
Answered == buttons \cap {"play", "restore"} # {} => Fits

\* The invariant of a window in which nothing was disturbed.
Core == Typed /\ Together /\ OneAtATime /\ Playing /\ Enabled /\ Answered

\* The inductive invariant: after a disturbance nothing is promised.
IInv == Calm => Core

\* Nothing is under way when a button is pressed.
LEMMA Idle ==
  ASSUME Core, ~InUse
  PROVE  /\ solvers = <<>> /\ ~Moving /\ ~board.is_selecting /\ ~board.is_shuffling
         /\ board.ss = <<>> /\ ("play" \in buttons => "solve" \in buttons)
BY DEF Core, InUse, UnderWay, Moving, Playing

\* A button that can be pressed shows that nothing is under way.
LEMMA Pressed ==
  ASSUME Core, NEW x \in AllButtons \cup {"restore"}, x \in buttons
  PROVE  "solve" \in buttons /\ ~InUse
BY DEF Core, Together, Enabled

\* Play finds a board at rest and an answer that fits.
LEMMA ReadyToPlay ==
  ASSUME Core, "play" \in buttons
  PROVE  Fits /\ ~Moving /\ ~board.is_selecting /\ ~board.is_shuffling /\ board.ss = <<>>
BY DEF Core, OneAtATime, Playing, Answered

\* A board that is made anew.
LEMMA NewBoardType ==
  ASSUME NEW cell \in Boards
  PROVE  LET b == NewBoard(cell)
         IN  /\ b \in BoardType /\ b.ss = <<>> /\ b.blocks = cell
             /\ ~b.is_moving /\ ~b.is_selecting /\ ~b.is_shuffling
<1>1. <<Height - 1, Width - 1>> \in Points
  BY SizeAssumption DEF Points
<1> DEFINE last == <<Height - 1, Width - 1>>
           home == cell[last]
           none == <<>>
           low == -1
<1>2. home \in Points /\ none \in Seq(Moves) /\ Up \in Directions /\ low \in Int
  BY <1>1, BoardFacts DEF Up, Directions
<1>3. NewBoard(cell) =
        [blocks |-> cell, selected |-> home,
         is_shuffling |-> FALSE, is_moving |-> FALSE, is_selecting |-> FALSE,
         is_solving |-> FALSE, is_clicking |-> FALSE, shuffle_count |-> 0,
         prev_shuffle_dir |-> Up, ss |-> none, selection_cnt |-> low, selection_max |-> low,
         swap_cnt |-> low, swap_max |-> low]
  BY DEF NewBoard
<1> HIDE DEF home, none, low
<1> QED
  BY <1>2, <1>3 DEF BoardType, none

\* The finished board is a board.
LEMMA FinishedType == FinishedState \in Boards /\ NoPoint \notin Points
BY DEF FinishedState, Boards, IsInjective, NoPoint, Points

\* The window starts calm: the finished board, no answer, nothing under way.
THEOREM WindowInitCore == WindowInit => Core
<1> SUFFICES ASSUME WindowInit PROVE Core
  OBVIOUS
<1>1. /\ board \in BoardType /\ board.ss = <<>>
      /\ ~board.is_moving /\ ~board.is_selecting /\ ~board.is_shuffling
  BY FinishedType, NewBoardType DEF WindowInit
<1>2. <<0, 0>> \in Points
  BY SizeAssumption DEF Points
<1>3. Playable(current_answer)
  <2>1. current_answer = <<>> /\ <<>> \in Seq(Moves) /\ DOMAIN <<>> = {}
    BY DEF WindowInit
  <2>2. Simulated(From(FinishedState, NoPoint), <<>>) = From(FinishedState, NoPoint)
    BY CheckFoldEmpty
  <2> QED
    BY <2>1, <2>2 DEF Playable, WellFormed, From
<1>4. Typed
  BY <1>1, <1>2, <1>3, FinishedType DEF Typed, WindowInit, NoBackup
<1>5. solvers = <<>> /\ ~Moving /\ "solve" \in buttons /\ "play" \notin buttons
      /\ "restore" \notin buttons /\ DOMAIN solvers = {}
  BY <1>1 DEF WindowInit, Moving, AllButtons
<1>6. ~InUse
  BY <1>1, <1>5 DEF InUse, UnderWay
<1> QED
  BY <1>1, <1>4, <1>5, <1>6 DEF Core, Together, OneAtATime, Playing, Enabled, Answered

-----------------------------------------------------------------------------
(* The slots keep the invariant.  They leave the window quiet, or busy, or *)
(* as it was.                                                              *)

\* A window in which nothing is left under way keeps the invariant.
LEMMA Quiet ==
  ASSUME Typed', Together', Answered', solvers' = <<>>, ~Moving', ~board'.is_selecting,
         ~board'.is_shuffling, board'.ss = <<>>,
         "play" \in buttons' => "solve" \in buttons',
         "solve" \in buttons' \/ worker',
         board'.is_moving => ~timer' /\ ~(signals' > 0)
  PROVE  Core'
<1>1. ~InUse'
  BY DEF InUse, UnderWay, Moving
<1>2. DOMAIN solvers' = {}
  OBVIOUS
<1>3. OneAtATime'
  BY <1>2 DEF OneAtATime
<1> QED
  BY <1>1, <1>3 DEF Core, Playing, Enabled

\* So does one in which one thing is under way and the buttons are disabled,
LEMMA Busy ==
  ASSUME Typed', OneAtATime', Playing', InUse',
         buttons' \cap (AllButtons \cup {"play", "restore"}) = {}
  PROVE  Core'
<1>1. "solve" \notin buttons' /\ "play" \notin buttons' /\ "restore" \notin buttons'
  BY DEF AllButtons
<1>2. buttons' \cap (AllButtons \cup {"restore"}) = {}
  OBVIOUS
<1> QED
  BY <1>1, <1>2 DEF Core, Together, Enabled, Answered

\* and one in which only the flags of a click or of a shuffle have changed.
LEMMA Same ==
  ASSUME Core, Typed', SameFlags(board, board'), board'.ss = board.ss,
         Moving => board' = board /\ goal' = goal,
         UNCHANGED <<buttons, solvers, backup, current_answer>>,
         worker => worker',
         board'.is_moving /\ ~Moving' => ~timer' /\ ~(signals' > 0)
  PROVE  Core'
<1>1. /\ Moving' <=> Moving
      /\ board'.is_moving = board.is_moving /\ board'.is_selecting = board.is_selecting
      /\ board'.is_shuffling = board.is_shuffling /\ board'.selection_max = board.selection_max
  BY DEF Moving, SameFlags
<1>2. InUse' <=> InUse
  BY <1>1 DEF InUse, UnderWay
<1>3. Fits' <=> Fits
  BY DEF Fits
<1>4. OneAtATime'
  BY <1>1, <1>3 DEF Core, OneAtATime
<1>5. Playing'
  BY <1>1 DEF Core, Playing
<1>6. Enabled' /\ Together' /\ Answered'
  BY <1>2, <1>3 DEF Core, Enabled, Together, Answered
<1> QED
  BY <1>4, <1>5, <1>6 DEF Core

\* setup_board(), by Reload or from a file.
LEMMA SetUpKeeps ==
  ASSUME Core, ~InUse, NEW cell \in Boards, SetUp(cell),
         buttons' = buttons \ {"play", "restore"},
         UNCHANGED <<current_answer, solvers, worker, inbox>>
  PROVE  Core'
<1>1. /\ board' \in BoardType /\ board'.ss = <<>>
      /\ ~board'.is_moving /\ ~board'.is_selecting /\ ~board'.is_shuffling
  BY NewBoardType DEF SetUp
<1>2. Typed'
  BY <1>1 DEF Core, Typed, SetUp
<1>3. solvers' = <<>>
  BY Idle
<1>4. "solve" \in buttons' \/ worker'
  BY DEF Core, Enabled
<1>5. Together' /\ Answered' /\ "play" \notin buttons'
  BY DEF Core, Together, Answered
<1> QED
  BY <1>1, <1>2, <1>3, <1>4, <1>5, Quiet DEF Moving

\* The slot of Reload: a new board.
LEMMA ReloadKeeps ==
  ASSUME Core, Reload \/ FileOpen, ~disturbed'
  PROVE  Core'
<1>1. ~InUse
  BY DEF Reload, FileOpen, Disturbing
<1>2. PICK cell \in Boards : SetUp(cell)
  BY FinishedType, SolversAssumption DEF Reload, FileOpen
<1> QED
  BY <1>1, <1>2, SetUpKeeps DEF Reload, FileOpen

\* next_shuffle() swaps two pieces and leaves everything about plays alone.
LEMMA NextShuffleKeeps ==
  ASSUME NEW b \in BoardType, NEW count \in Nat, NextShuffle(b, count)
  PROVE  board' \in BoardType /\ SameFlags(b, board') /\ board'.ss = b.ss
<1>1. PICK p \in Points, dir \in Directions :
        /\ Neighbour(p, dir) \in Points
        /\ board' = [SwapBlocks(Select(b, p), p, Neighbour(p, dir)) EXCEPT
                       !.shuffle_count = count, !.prev_shuffle_dir = dir]
  BY DEF NextShuffle
<1> DEFINE q == Neighbour(p, dir)
           block == b.blocks[p]
           a == Select(b, p)
           c == SwapBlocks(a, p, q)
<1>2. block \in Points
  BY BoardFacts DEF BoardType
<1>3. a = [b EXCEPT !.selected = block]
  BY DEF Select
<1> HIDE DEF block, a
<1>4. a \in BoardType /\ SameFlags(b, a) /\ a.ss = b.ss
  BY <1>2, <1>3 DEF BoardType, SameFlags
<1>5. q \in Points /\ board' = [c EXCEPT !.shuffle_count = count, !.prev_shuffle_dir = dir]
  BY <1>1 DEF a
<1> HIDE DEF q, c
<1>6. c \in BoardType /\ SameFlags(a, c) /\ c.ss = a.ss
  BY <1>4, <1>5, AfterBlocks DEF c
<1>7. board' \in BoardType /\ SameFlags(c, board') /\ board'.ss = c.ss
  BY ONLY <1>5, <1>6, count \in Nat, dir \in Directions DEF BoardType, SameFlags
<1> QED
  BY <1>4, <1>6, <1>7 DEF SameFlags

\* The slot of Shuffle starts a shuffle.
LEMMA ShuffleKeeps ==
  ASSUME Core, Shuffle
  PROVE  Core'
<1> DEFINE b == [board EXCEPT !.is_shuffling = TRUE, !.prev_shuffle_dir = Up]
<1>1. ~InUse
  BY Pressed DEF Shuffle, AllButtons
<1>2. /\ b \in BoardType /\ b.ss = board.ss /\ b.is_shuffling /\ b.is_moving = board.is_moving
      /\ b.is_selecting = board.is_selecting /\ b.selection_max = board.selection_max
  <2>1. board \in BoardType /\ Up \in Directions
    BY DEF Core, Typed, Up, Directions
  <2> QED
    BY <2>1 DEF BoardType
<1>3. NextShuffle(b, 0)
  BY DEF Shuffle
<1> HIDE DEF b
<1>4. board' \in BoardType /\ SameFlags(b, board') /\ board'.ss = b.ss
  BY <1>2, <1>3, NextShuffleKeeps
<1>5. /\ solvers' = <<>> /\ DOMAIN solvers' = {} /\ ~Moving' /\ ~board'.is_selecting
      /\ board'.is_shuffling /\ board'.ss = <<>> /\ board'.is_moving = board.is_moving
  BY <1>1, <1>2, <1>4, Idle DEF Shuffle, SameFlags, Moving
<1>6. buttons' \cap (AllButtons \cup {"play", "restore"}) = {}
  BY DEF Shuffle, DisableAll
<1>7. Typed'
  BY <1>4 DEF Core, Typed, Shuffle
<1>8. ~Moving /\ timer' = timer /\ signals' = signals
  BY <1>1, Idle DEF Shuffle
<1>9. OneAtATime'
  BY <1>5, <1>6, <1>8 DEF Core, OneAtATime
<1>10. Playing' /\ InUse'
  BY <1>5 DEF Playing, InUse, UnderWay
<1> QED
  BY <1>6, <1>7, <1>9, <1>10, Busy

\* A step of a shuffle.
LEMMA Shuffle2Keeps ==
  ASSUME Core, Shuffle2
  PROVE  Core'
<1>1. ~InUse
  BY Pressed DEF Shuffle2, AllButtons
<1>2. PICK cell \in Boards : board' = [board EXCEPT !.blocks = cell]
  BY SolversAssumption DEF Shuffle2
<1>3. board \in BoardType
  BY DEF Core, Typed
<1>4. board' \in BoardType /\ SameFlags(board, board') /\ board'.ss = board.ss
  BY <1>2, <1>3 DEF BoardType, SameFlags
<1>5. /\ solvers' = <<>> /\ ~Moving' /\ ~board'.is_selecting /\ ~board'.is_shuffling
      /\ board'.ss = <<>>
  BY <1>1, <1>4, Idle DEF Shuffle2, SameFlags, Moving
<1>6. "solve" \in buttons' /\ "play" \notin buttons' /\ "restore" \notin buttons'
  BY DEF Shuffle2, EnableAll, DisableAll, AllButtons
<1>7. Typed'
  BY <1>4 DEF Core, Typed, Shuffle2
<1>8. board'.is_moving => ~timer' /\ ~(signals' > 0)
  BY <1>1, <1>4, Idle DEF Core, OneAtATime, Shuffle2, SameFlags
<1>9. Together' /\ Answered'
  BY <1>6 DEF Together, Answered
<1> QED
  BY <1>5, <1>6, <1>7, <1>8, <1>9, Quiet

\* on_solveButton_clicked(), on the board shown or on one from the server.
LEMMA StartSolveKeeps ==
  ASSUME Core, ~InUse, NEW b \in BoardType, b.ss = <<>>, ~b.is_selecting, ~b.is_shuffling,
         ~(b.is_moving /\ b.selection_max > 0), StartSolve(b),
         b.is_moving => ~timer' /\ ~(signals' > 0),
         inbox' \in Seq(Problems), current_answer' = current_answer
  PROVE  Core'
<1> DEFINE cell == b.blocks
<1>1. board' = [b EXCEPT !.is_solving = TRUE] /\ cell \in Boards
  BY DEF StartSolve, BoardType
<1>2. board' \in BoardType /\ SameFlags(b, board') /\ board'.ss = b.ss
  BY <1>1 DEF BoardType, SameFlags
<1>3. solvers = <<>>
  BY Idle
<1> HIDE DEF cell
<1>4. solvers' = <<cell>> /\ solvers' \in Seq(Boards) /\ solvers' # <<>>
  <2>1. solvers' = Append(<<>>, cell)
    BY <1>3 DEF StartSolve, cell
  <2> QED
    BY <1>1, <2>1
<1>5. backup' = [cells |-> cell, selected |-> SelectedPlace(b), alive |-> TRUE]
  BY DEF StartSolve, cell
<1>6. Typed'
  BY <1>1, <1>2, <1>4, <1>5, PlaceType DEF Core, Typed
<1>7. ~Moving' /\ ~board'.is_selecting /\ ~board'.is_shuffling /\ board'.ss = <<>>
      /\ board'.is_moving = b.is_moving
  BY <1>2 DEF Moving, SameFlags
<1>8. \A i \in DOMAIN solvers' : solvers'[i] = backup'.cells /\ backup'.alive
  BY <1>4, <1>5
<1>9. buttons' \cap (AllButtons \cup {"play", "restore"}) = {}
  BY DEF StartSolve, DisableAll
<1>10. OneAtATime'
  BY <1>7, <1>8 DEF OneAtATime
<1>11. Playing' /\ InUse'
  BY <1>4, <1>7 DEF Playing, InUse, UnderWay
<1> QED
  BY <1>6, <1>9, <1>10, <1>11, Busy

\* The slot of Solve starts a solver.
LEMMA SolveKeeps ==
  ASSUME Core, Solve
  PROVE  Core'
<1>1. ~InUse
  BY DEF Solve, Core, Enabled
<1>2. board \in BoardType /\ board.ss = <<>> /\ ~board.is_selecting /\ ~board.is_shuffling
      /\ ~(board.is_moving /\ board.selection_max > 0) /\ ~Moving
  BY <1>1, Idle DEF Core, Typed, Moving
<1>3. board.is_moving => ~timer' /\ ~(signals' > 0)
  BY <1>2 DEF Core, OneAtATime, Solve
<1>4. inbox' \in Seq(Problems) /\ current_answer' = current_answer /\ StartSolve(board)
  BY DEF Core, Typed, Solve
<1> QED
  BY <1>1, <1>2, <1>3, <1>4, StartSolveKeeps

\* What the solvers answer can be played, and solves the board it was made for.
LEMMA AnswerPlays ==
  ASSUME NEW a \in Answers
  PROVE  a[1] \in Boards /\ Playable(a[2]) /\ Aligned(Replay(a[1], NoPoint, a[2]))
<1> DEFINE cell == a[1]
           ans == a[2]
           limit == Len(ans)
           s == CheckBegin(cell, limit)
           t == From(cell, NoPoint)
           u == From(FinishedState, NoPoint)
<1>1. /\ cell \in Boards /\ ans \in Seq(Moves) /\ limit \in Nat
      /\ Simulated(s, ans).valid /\ Aligned(Simulated(s, ans).cell)
      /\ \A i \in DOMAIN ans : ans[i].isSelection => i < limit /\ ~ans[i + 1].isSelection
  BY SolversAssumption DEF Correct, Simulate, Simulated, Moves
<1>2. cell \in Cells /\ FinishedState \in Cells
  BY <1>1, FinishedType, BoardFacts
<1>3. /\ t \in Sims /\ t.valid /\ t.remain < 0 /\ t.cell = cell /\ t.selected = NoPoint
      /\ u \in Sims /\ u.valid /\ u.remain < 0 /\ u.selected = NoPoint
  <2> HIDE DEF cell
  <2> QED
    BY <1>2, FromType
<1>4. s \in Sims /\ s.valid /\ s.cell = cell /\ s.selected = NoPoint
  <2> HIDE DEF cell, limit
  <2> QED
    BY <1>1, <1>2 DEF CheckBegin, Sims
<1>5. WellFormed(ans)
  BY <1>1 DEF WellFormed
<1> HIDE DEF cell, ans, limit, s, t, u
<1>6. Simulated(t, ans).valid /\ Simulated(t, ans).cell = Simulated(s, ans).cell
  BY <1>1, <1>3, <1>4, SamePath
<1>7. Simulated(u, ans).valid
  BY <1>1, <1>3, <1>4, SamePath
<1>8. ASSUME ans # <<>> PROVE ans[1].isSelection
  <2> DEFINE m == ans[1]
             rest == Tail(ans)
             one == CheckStep(u, m)
  <2>1. Simulated(u, ans) = Simulated(one, rest) /\ m \in Moves /\ rest \in Seq(Moves)
    BY <1>1, <1>8, FirstMove
  <2> HIDE DEF m, rest
  <2>2. one \in Sims
    BY <1>3, <2>1, SimStep
  <2> HIDE DEF one
  <2>3. one.valid
    BY <1>7, <2>1, <2>2, ValidBase
  <2>4. ~m.isSelection => u.selected \in Points
    BY <1>3, <2>1, <2>3, SimStep DEF one
  <2> QED
    BY <1>3, <2>4, FinishedType DEF m
<1>9. Playable(ans)
  BY <1>5, <1>7, <1>8 DEF Playable, u
<1>10. Aligned(Replay(cell, NoPoint, ans))
  BY <1>1, <1>6, ReplayFrom DEF t
<1> QED
  BY <1>1, <1>9, <1>10 DEF cell, ans

\* A solver's answer arrives: the board is kept, and the answer fits it.
LEMMA AnswerArrivesKeeps ==
  ASSUME Core, AnswerArrives
  PROVE  Core'
<1>1. PICK i \in DOMAIN solvers :
        /\ current_answer' \in SolverAnswers(solvers[i])
        /\ solvers' \in {solvers, RemoveAt(solvers, i)}
  BY DEF AnswerArrives
<1>2. PICK a \in Answers : a[1] = solvers[i] /\ current_answer' = a[2]
  BY <1>1 DEF SolverAnswers
<1>3. backup.alive /\ a[1] = backup.cells /\ solvers # <<>>
  BY <1>1, <1>2 DEF Core, OneAtATime
<1>4. Playable(current_answer') /\ Fits'
  <2>1. backup' = backup
    BY DEF AnswerArrives
  <2> QED
    BY <1>2, <1>3, <2>1, AnswerPlays DEF Fits
<1>5. solvers' \in Seq(Boards) /\ \A j \in DOMAIN solvers' : solvers'[j] = backup.cells /\ backup.alive
  <2>1. solvers \in Seq(Boards) /\ (\A j \in DOMAIN solvers : solvers[j] = backup.cells)
    BY DEF Core, Typed, OneAtATime
  <2> DEFINE x == backup.cells
             new == RemoveAt(solvers, i)
  <2>2. DOMAIN solvers = 1 .. Len(solvers) /\ Len(solvers) \in Nat
    BY <2>1
  <2>3. new \in Seq(Boards) /\ \A j \in DOMAIN new : new[j] = x
    <3> DEFINE s == SubSeq(solvers, 1, i - 1)
               t == SubSeq(solvers, i + 1, Len(solvers))
    <3>1. s \in Seq(Boards) /\ Len(s) = i - 1 /\ \A j \in 1 .. i - 1 : s[j] = x
      BY <2>1, <2>2
    <3>2. t \in Seq(Boards) /\ Len(t) = Len(solvers) - i /\ \A j \in 1 .. Len(solvers) - i : t[j] = x
      BY <2>1, <2>2
    <3>3. new = s \o t
      BY DEF RemoveAt
    <3> HIDE DEF s, t, x
    <3> QED
      BY <2>2, <3>1, <3>2, <3>3
  <2> QED
    BY <1>1, <1>3, <2>1, <2>3
<1>6. /\ board' = board /\ backup' = backup /\ buttons' = buttons \cup {"play"}
      /\ worker' = worker /\ inbox' = inbox /\ timer' = timer /\ signals' = signals
  BY DEF AnswerArrives
<1>7. Typed'
  BY <1>4, <1>5, <1>6 DEF Core, Typed
<1>8. ~Moving /\ ~board.is_selecting /\ ~board.is_shuffling /\ board.ss = <<>>
  BY <1>3 DEF Core, OneAtATime, Playing
<1>9. ~Moving'
  BY <1>6, <1>8 DEF Moving
<1>10. "solve" \notin buttons'
  BY <1>3, <1>6 DEF Core, Enabled, InUse, UnderWay
<1>11. InUse'
  BY <1>6, <1>10 DEF InUse, UnderWay
<1>12. OneAtATime'
  BY <1>5, <1>6, <1>8, <1>9 DEF Core, OneAtATime
<1>13. Playing'
  BY <1>6, <1>8, <1>9 DEF Playing
<1>14. Together'
  BY <1>6, <1>10 DEF Core, Together, AllButtons
<1> QED
  BY <1>4, <1>7, <1>10, <1>11, <1>12, <1>13, <1>14 DEF Core, Enabled, Answered

\* A play goes on by one step, or to its end.
LEMMA ProceedKeeps ==
  ASSUME NEW b \in BoardType, NEW bs, NEW running, NEW waiting, Proceed(b, bs, running, waiting),
         PlayInv(b, goal'), b.ss # <<>>, b.is_moving, b.selection_max > 0,
         ~b.is_selecting, ~b.is_shuffling,
         bs \cap (AllButtons \cup {"play", "restore"}) = {},
         solvers' = <<>>, Fits', Playable(current_answer'), inbox' \in Seq(Problems),
         backup' \in [cells : Boards, selected : Points, alive : BOOLEAN]
  PROVE  Core'
<1>1. solvers' \in Seq(Boards) /\ DOMAIN solvers' = {}
  OBVIOUS
<1>2. CASE animation # "none"
  <2>1. board' = MoveStep(b) /\ buttons' = bs
    BY <1>2 DEF Proceed
  <2>2. /\ board' \in BoardType /\ SameFlags(b, board') /\ PlayInv(board', goal')
        /\ board'.swap_max >= 0
    BY <2>1, MoveStepKeeps
  <2>3. Typed'
    BY <1>1, <2>2 DEF Typed
  <2>4. Moving' /\ ~board'.is_selecting /\ ~board'.is_shuffling
    BY <2>2 DEF Moving, SameFlags
  <2>5. OneAtATime'
    BY <1>1, <2>1, <2>4 DEF OneAtATime
  <2>6. Playing' /\ InUse'
    BY <2>2, <2>4 DEF Playing, InUse, UnderWay, Moving
  <2> QED
    BY <2>1, <2>3, <2>5, <2>6, Busy
<1>3. CASE animation = "none"
  <2> DEFINE c == MovesLeft(b)
  <2>1. board' = [c EXCEPT !.is_moving = FALSE] /\ buttons' = MoveFinished(bs)
    BY <1>3 DEF Proceed
  <2>2. c \in BoardType /\ SameFlags(b, c) /\ c.ss = <<>>
    BY PlayedToItsEnd
  <2> HIDE DEF c
  <2>3. /\ board' \in BoardType /\ ~board'.is_moving /\ board'.ss = <<>>
        /\ board'.is_selecting = c.is_selecting /\ board'.is_shuffling = c.is_shuffling
    BY <2>1, <2>2 DEF BoardType
  <2>4. Typed'
    BY <1>1, <2>3 DEF Typed
  <2>5. ~Moving' /\ ~board'.is_selecting /\ ~board'.is_shuffling
    BY <2>2, <2>3 DEF Moving, SameFlags
  <2>6. "solve" \in buttons'
    BY <2>1 DEF MoveFinished, EnableAll, AllButtons
  <2>7. Together' /\ Answered'
    BY <2>6 DEF Together, Answered
  <2> QED
    BY <2>3, <2>4, <2>5, <2>6, <2>7, Quiet
<1> QED
  BY <1>2, <1>3

\* The board at the beginning of a play.
Begun ==
  [[board EXCEPT !.is_solving = FALSE, !.is_moving = TRUE, !.ss = current_answer,
                 !.selection_max = SelectionCount(current_answer)]
     EXCEPT !.swap_cnt = 0, !.swap_max = -1, !.selection_cnt = 0]

\* The board when Play has loaded the answer into the stream.
Loaded ==
  [board EXCEPT !.is_solving = FALSE, !.is_moving = TRUE, !.ss = current_answer,
                !.selection_max = SelectionCount(current_answer)]

\* What Play has changed of the board.
LEMMA LoadedType ==
  ASSUME board \in BoardType, current_answer \in Seq(Moves)
  PROVE  /\ Loaded \in BoardType /\ Loaded.blocks = board.blocks
         /\ Loaded.is_shuffling = board.is_shuffling /\ Loaded.is_selecting = board.is_selecting
         /\ Loaded.is_moving /\ Loaded.ss = current_answer
         /\ Loaded.selection_max = SelectionCount(current_answer)
<1> DEFINE no == FALSE
           yes == TRUE
           ans == current_answer
           count == SelectionCount(ans)
           b == [board EXCEPT !.is_solving = no, !.is_moving = yes, !.ss = ans,
                              !.selection_max = count]
<1>1. board \in BoardType
  OBVIOUS
<1>2. no \in BOOLEAN /\ yes \in BOOLEAN /\ ans \in Seq(Moves) /\ count \in Int
  BY NoSelectionsLeft
<1>3. Loaded = b /\ yes
  BY DEF Loaded
<1> HIDE DEF no, yes, ans, count
<1>4. /\ b \in BoardType /\ b.blocks = board.blocks /\ b.is_shuffling = board.is_shuffling
      /\ b.is_selecting = board.is_selecting /\ b.is_moving = yes /\ b.ss = ans
      /\ b.selection_max = count
  <2> DEFINE a1 == board.blocks
             a2 == board.selected
             a3 == board.is_shuffling
             a4 == board.is_moving
             a5 == board.is_selecting
             a6 == board.is_solving
             a7 == board.is_clicking
             a8 == board.shuffle_count
             a9 == board.prev_shuffle_dir
             a10 == board.ss
             a11 == board.selection_cnt
             a12 == board.selection_max
             a13 == board.swap_cnt
             a14 == board.swap_max
  <2>1. /\ a1 \in Boards
        /\ a2 \in Points
        /\ a3 \in BOOLEAN
        /\ a5 \in BOOLEAN
        /\ a7 \in BOOLEAN
        /\ a8 \in Nat
        /\ a9 \in Directions
        /\ a11 \in Int
        /\ a13 \in Int
        /\ a14 \in Int
    BY <1>1 DEF BoardType
  <2>2. board = [blocks |-> a1, selected |-> a2, is_shuffling |-> a3, is_moving |-> a4,
         is_selecting |-> a5, is_solving |-> a6, is_clicking |-> a7,
         shuffle_count |-> a8, prev_shuffle_dir |-> a9, ss |-> a10,
         selection_cnt |-> a11, selection_max |-> a12, swap_cnt |-> a13,
         swap_max |-> a14]
    BY <1>1 DEF BoardType
  <2>3. b = [board EXCEPT !.is_solving = no, !.is_moving = yes, !.ss = ans,
                        !.selection_max = count]
    OBVIOUS
  <2> HIDE DEF b, a1, a2, a3, a4, a5, a6, a7, a8, a9, a10, a11, a12, a13, a14
  <2>4. b = [blocks |-> a1, selected |-> a2, is_shuffling |-> a3, is_moving |-> yes,
         is_selecting |-> a5, is_solving |-> no, is_clicking |-> a7,
         shuffle_count |-> a8, prev_shuffle_dir |-> a9, ss |-> ans,
         selection_cnt |-> a11, selection_max |-> count, swap_cnt |-> a13,
         swap_max |-> a14]
    BY ONLY <2>2, <2>3
  <2>5. b \in BoardType
    BY ONLY <1>2, <2>1, <2>4 DEF BoardType
  <2>6. /\ b.blocks = a1 /\ b.is_shuffling = a3 /\ b.is_moving = yes /\ b.is_selecting = a5
        /\ b.ss = ans /\ b.selection_max = count
    BY ONLY <2>4
  <2> QED
    BY ONLY <2>5, <2>6 DEF a1, a3, a5
<1> HIDE DEF b
<1> QED
  BY <1>3, <1>4 DEF ans, count

\* What Play has changed before the first step.
LEMMA BegunType ==
  ASSUME board \in BoardType, current_answer \in Seq(Moves)
  PROVE  /\ Begun \in BoardType /\ Begun.blocks = board.blocks
         /\ Begun.is_shuffling = board.is_shuffling /\ Begun.is_selecting = board.is_selecting
         /\ Begun.is_moving /\ Begun.ss = current_answer
         /\ Begun.selection_max = SelectionCount(current_answer)
         /\ Begun.selection_cnt = 0 /\ Begun.swap_max < 0
<1> DEFINE b == Loaded
           zero == 0
           low == -1
           begun == [b EXCEPT !.swap_cnt = zero, !.swap_max = low, !.selection_cnt = zero]
<1>1. Begun = begun /\ zero = 0 /\ low < 0
  BY DEF Begun, Loaded
<1>2. /\ b \in BoardType /\ b.blocks = board.blocks
      /\ b.is_shuffling = board.is_shuffling /\ b.is_selecting = board.is_selecting
      /\ b.is_moving /\ b.ss = current_answer
      /\ b.selection_max = SelectionCount(current_answer)
  BY LoadedType
<1>3. b \in BoardType
  BY <1>2
<1>4. zero \in Int /\ low \in Int
  OBVIOUS
<1> HIDE DEF zero, low, b
<1>5. /\ begun \in BoardType /\ begun.blocks = b.blocks /\ begun.is_shuffling = b.is_shuffling
      /\ begun.is_selecting = b.is_selecting /\ begun.is_moving = b.is_moving
      /\ begun.ss = b.ss /\ begun.selection_max = b.selection_max
      /\ begun.selection_cnt = zero /\ begun.swap_max = low
  <2> DEFINE a1 == b.blocks
             a2 == b.selected
             a3 == b.is_shuffling
             a4 == b.is_moving
             a5 == b.is_selecting
             a6 == b.is_solving
             a7 == b.is_clicking
             a8 == b.shuffle_count
             a9 == b.prev_shuffle_dir
             a10 == b.ss
             a11 == b.selection_cnt
             a12 == b.selection_max
             a13 == b.swap_cnt
             a14 == b.swap_max
  <2>1. /\ a1 \in Boards
        /\ a2 \in Points
        /\ a3 \in BOOLEAN
        /\ a4 \in BOOLEAN
        /\ a5 \in BOOLEAN
        /\ a6 \in BOOLEAN
        /\ a7 \in BOOLEAN
        /\ a8 \in Nat
        /\ a9 \in Directions
        /\ a10 \in Seq(Moves)
        /\ a12 \in Int
    BY <1>3 DEF BoardType
  <2>2. b = [blocks |-> a1, selected |-> a2, is_shuffling |-> a3, is_moving |-> a4,
         is_selecting |-> a5, is_solving |-> a6, is_clicking |-> a7,
         shuffle_count |-> a8, prev_shuffle_dir |-> a9, ss |-> a10,
         selection_cnt |-> a11, selection_max |-> a12, swap_cnt |-> a13,
         swap_max |-> a14]
    BY <1>3 DEF BoardType
  <2>3. begun = [b EXCEPT !.selection_cnt = zero, !.swap_cnt = zero, !.swap_max = low]
    OBVIOUS
  <2> HIDE DEF begun, a1, a2, a3, a4, a5, a6, a7, a8, a9, a10, a11, a12, a13, a14
  <2>4. begun = [blocks |-> a1, selected |-> a2, is_shuffling |-> a3, is_moving |-> a4,
         is_selecting |-> a5, is_solving |-> a6, is_clicking |-> a7,
         shuffle_count |-> a8, prev_shuffle_dir |-> a9, ss |-> a10,
         selection_cnt |-> zero, selection_max |-> a12, swap_cnt |-> zero,
         swap_max |-> low]
    BY ONLY <2>2, <2>3
  <2>5. begun \in BoardType
    BY ONLY <1>4, <2>1, <2>4 DEF BoardType
  <2>6. /\ begun.blocks = a1 /\ begun.is_shuffling = a3 /\ begun.is_moving = a4
        /\ begun.is_selecting = a5 /\ begun.ss = a10 /\ begun.selection_max = a12
        /\ begun.selection_cnt = zero /\ begun.swap_max = low
    BY ONLY <2>4
  <2> QED
    BY ONLY <2>5, <2>6 DEF a1, a3, a4, a5, a10, a12
<1> HIDE DEF begun
<1> QED
  BY <1>1, <1>2, <1>5

\* What is still to be read is the whole answer.
LEMMA BegunPlays ==
  ASSUME board \in BoardType, Playable(current_answer), current_answer # <<>>
  PROVE  PlayInv(Begun, Replay(board.blocks, NoPoint, current_answer))
<1> DEFINE b == Begun
           ans == current_answer
           t == From(board.blocks, NoPoint)
           u == From(FinishedState, NoPoint)
<1>1. /\ ans \in Seq(Moves) /\ WellFormed(ans) /\ ans # <<>> /\ ans[1].isSelection
      /\ Simulated(u, ans).valid
  BY DEF Playable, WellFormed
<1>2. /\ b.blocks = board.blocks /\ b.ss = ans /\ b.selection_max = SelectionCount(ans)
      /\ b.selection_cnt = 0 /\ b.swap_max < 0
  BY <1>1, BegunType
<1>3. board.blocks \in Cells /\ FinishedState \in Cells
  BY FinishedType, BoardFacts DEF BoardType
<1>4. /\ t \in Sims /\ t.valid /\ t.remain < 0 /\ t.selected = NoPoint
      /\ u \in Sims /\ u.valid /\ u.selected = NoPoint
  BY <1>3, FromType
<1> HIDE DEF b, ans, t, u
<1>5. Simulated(t, ans).valid
  BY <1>1, <1>4, SamePath
<1>6. Replay(board.blocks, NoPoint, ans) = Simulated(t, ans).cell
  BY ReplayFrom DEF t
<1>7. From(b.blocks, At(b)) = t
  BY <1>2 DEF At, t
<1>8. SelectionCount(ans) \in Nat
  BY <1>1, NoSelectionsLeft
<1>9. PlayInv(b, Replay(board.blocks, NoPoint, ans))
  BY <1>1, <1>2, <1>5, <1>6, <1>7, <1>8 DEF PlayInv
<1> QED
  BY <1>9 DEF b, ans

\* The slot of Play: the play has the whole answer before it.
LEMMA PlayKeeps ==
  ASSUME Core, Play, ~disturbed'
  PROVE  Core'
<1> DEFINE ans == current_answer
<1>1. /\ Fits /\ ~Moving /\ ~board.is_selecting /\ ~board.is_shuffling /\ board.ss = <<>>
      /\ board \in BoardType /\ Playable(ans) /\ ans \in Seq(Moves)
  BY ReadyToPlay DEF Play, Core, Typed, Playable, WellFormed
<1>2. solvers = <<>> /\ (ans = <<>> => ~timer /\ ~(signals > 0))
  <2>1. /\ ~disturbed'
        /\ disturbed' = (disturbed \/ solvers # <<>>
                          \/ (current_answer = <<>> /\ (timer \/ signals > 0)))
    BY DEF Play
  <2> QED
    BY ONLY <2>1
<1>3. /\ solvers' = <<>> /\ current_answer' = ans /\ backup' = backup /\ inbox' = inbox
      /\ worker' = worker /\ goal' = Replay(board.blocks, NoPoint, ans)
      /\ backup \in [cells : Boards, selected : Points, alive : BOOLEAN]
      /\ inbox \in Seq(Problems)
  BY <1>2 DEF Play, Core, Typed
<1>4. Fits'
  BY <1>1, <1>3 DEF Fits
<1>5. /\ Loaded.selection_max <= 0 =>
           /\ board' = Loaded /\ buttons' = MoveFinished(DisableAll(buttons))
           /\ timer' = timer /\ signals' = signals
      /\ ~(Loaded.selection_max <= 0) => Proceed(Begun, DisableAll(buttons), timer, signals)
  BY <1>1 DEF Play, MoveBlocks, Loaded, Begun
<1>6. /\ Loaded \in BoardType /\ Loaded.ss = ans /\ Loaded.selection_max = SelectionCount(ans)
      /\ Loaded.is_shuffling = board.is_shuffling /\ Loaded.is_selecting = board.is_selecting
  BY <1>1, LoadedType
<1>7. SelectionCount(ans) \in Nat
  BY <1>1, NoSelectionsLeft
<1>8. ans # <<>> => SelectionCount(ans) > 0
  <2>1. SUFFICES ASSUME ans # <<>>, SelectionCount(ans) = 0 PROVE FALSE
    BY <1>7
  <2>2. ans[1].isSelection /\ 1 \in DOMAIN ans
    BY <1>1, <2>1 DEF Playable
  <2> QED
    BY <1>1, <2>1, <2>2, NoSelectionsLeft
<1>9. CASE Loaded.selection_max <= 0
  <2>1. ans = <<>> /\ ~timer' /\ ~(signals' > 0) /\ board' = Loaded
    BY <1>2, <1>5, <1>6, <1>7, <1>8, <1>9
  <2>2. ~Moving' /\ ~board'.is_selecting /\ ~board'.is_shuffling /\ board'.ss = <<>>
    BY <1>1, <1>6, <1>7, <1>9, <2>1 DEF Moving
  <2>3. "solve" \in buttons'
    BY <1>5, <1>9 DEF MoveFinished, EnableAll, AllButtons
  <2>4. <<>> \in Seq(Boards)
    OBVIOUS
  <2>5. Typed'
    BY <1>1, <1>3, <1>6, <2>1, <2>4 DEF Typed
  <2>6. Together' /\ Answered'
    BY <1>4, <2>3 DEF Together, Answered
  <2> QED
    BY <1>3, <2>1, <2>2, <2>3, <2>5, <2>6, Quiet
<1>10. CASE ~(Loaded.selection_max <= 0)
  <2> DEFINE bs == DisableAll(buttons)
             b == Begun
  <2>1. SelectionCount(ans) > 0 /\ ans # <<>>
    <3>1. SelectionCount(ans) > 0
      BY <1>6, <1>7, <1>10
    <3>2. DOMAIN <<>> = {}
      OBVIOUS
    <3> QED
      BY <1>1, <1>7, <3>1, <3>2, NoSelectionsLeft
  <2>2. /\ b \in BoardType /\ b.is_shuffling = board.is_shuffling
        /\ b.is_selecting = board.is_selecting /\ b.is_moving /\ b.ss = ans
        /\ b.selection_max = SelectionCount(ans)
    BY <1>1, BegunType
  <2>3. PlayInv(b, goal')
    BY <1>1, <1>3, <2>1, BegunPlays
  <2>4. bs \cap (AllButtons \cup {"play", "restore"}) = {}
    BY DEF DisableAll
  <2>5. Proceed(b, bs, timer, signals)
    BY <1>5, <1>10
  <2> HIDE DEF b, bs
  <2>6. /\ Playable(current_answer') /\ inbox' \in Seq(Problems)
        /\ backup' \in [cells : Boards, selected : Points, alive : BOOLEAN]
        /\ b.ss # <<>> /\ b.selection_max > 0 /\ ~b.is_selecting /\ ~b.is_shuffling
    BY <1>1, <1>3, <2>1, <2>2
  <2> QED
    BY <1>3, <1>4, <2>2, <2>3, <2>4, <2>5, <2>6, ProceedKeeps
<1> QED
  BY <1>9, <1>10

\* slot_swap_finished().
LEMMA SwapFinishedKeeps ==
  ASSUME Core, NEW running, NEW waiting, SwapFinished(running, waiting),
         board.is_moving => Moving
  PROVE  Core'
<1>1. /\ board \in BoardType /\ Playable(current_answer) /\ inbox \in Seq(Problems)
      /\ backup \in [cells : Boards, selected : Points, alive : BOOLEAN]
      /\ solvers \in Seq(Boards)
  BY DEF Core, Typed
<1>2. /\ current_answer' = current_answer /\ inbox' = inbox /\ backup' = backup
      /\ solvers' = solvers /\ goal' = goal /\ worker' = worker
  BY DEF SwapFinished, history
<1>3. Fits' <=> Fits
  BY <1>2 DEF Fits
<1>4. CASE board.is_shuffling /\ board.shuffle_count < ShuffleMax
  <2>1. NextShuffle(board, board.shuffle_count + 1) /\ buttons' = buttons
    <3>1. board.shuffle_count \in Nat
      BY <1>1 DEF BoardType
    <3>2. ~(board.shuffle_count >= ShuffleMax)
      BY <1>4, <3>1, ShuffleMaxAssumption
    <3> QED
      BY <1>4, <3>2 DEF SwapFinished
  <2>2. board.shuffle_count + 1 \in Nat
    BY <1>1 DEF BoardType
  <2>3. board' \in BoardType /\ SameFlags(board, board') /\ board'.ss = board.ss
    BY <1>1, <2>1, <2>2, NextShuffleKeeps
  <2>4. ~Moving /\ ~board.is_moving
    BY <1>4 DEF Core, OneAtATime
  <2>5. Typed' /\ ~board'.is_moving
    BY <1>1, <1>2, <2>3, <2>4 DEF Typed, SameFlags
  <2> QED
    BY <1>2, <2>1, <2>3, <2>4, <2>5, Same
<1>5. CASE board.is_shuffling /\ board.shuffle_count >= ShuffleMax
  <2>1. board' = [board EXCEPT !.is_shuffling = FALSE] /\ buttons' = EnableAll(buttons)
    <3>1. board.shuffle_count \in Nat
      BY <1>1 DEF BoardType
    <3>2. ~(board.shuffle_count < ShuffleMax)
      BY <1>5, <3>1, ShuffleMaxAssumption
    <3> QED
      BY <1>5, <3>2 DEF SwapFinished
  <2>2. /\ board' \in BoardType /\ ~board'.is_shuffling /\ board'.ss = board.ss
        /\ board'.is_moving = board.is_moving /\ board'.is_selecting = board.is_selecting
        /\ board'.selection_max = board.selection_max
    BY <1>1, <2>1 DEF BoardType
  <2>3. solvers = <<>> /\ "play" \notin buttons /\ ~Moving /\ ~board.is_selecting
        /\ board.ss = <<>> /\ ~board.is_moving
    BY <1>5 DEF Core, OneAtATime, Playing
  <2>4. Typed'
    BY <1>1, <1>2, <2>2 DEF Typed
  <2>5. "solve" \in buttons' /\ "play" \notin buttons' /\ ("restore" \in buttons' => "restore" \in buttons)
    BY <2>1, <2>3 DEF EnableAll, AllButtons
  <2>6. Together' /\ Answered'
    BY <1>3, <2>5 DEF Together, Core, Answered
  <2>7. ~Moving'
    BY <2>2, <2>3 DEF Moving
  <2> QED
    BY <1>2, <2>2, <2>3, <2>4, <2>5, <2>6, <2>7, Quiet
<1>6. CASE ~board.is_shuffling /\ board.is_moving
  <2>1. /\ Moving /\ board.swap_max >= 0 /\ PlayInv(board, goal) /\ solvers = <<>>
        /\ "play" \notin buttons /\ Fits /\ ~board.is_selecting /\ board.selection_max > 0
    BY <1>6 DEF Core, OneAtATime, Playing, Moving
  <2>2. ~NeverPlayed(board)
    BY <2>1 DEF PlayInv, NeverPlayed
  <2>3. CASE MoveOver(board)
    <3>1. board' = [board EXCEPT !.is_moving = FALSE] /\ buttons' = MoveFinished(buttons)
      BY <1>6, <2>3 DEF SwapFinished
    <3>2. board.ss = <<>>
      BY <1>1, <2>1, <2>3, OverIffRead
    <3>3. /\ board' \in BoardType /\ ~board'.is_moving /\ board'.ss = board.ss
          /\ board'.is_shuffling = board.is_shuffling /\ board'.is_selecting = board.is_selecting
      BY <1>1, <3>1 DEF BoardType
    <3>4. Typed'
      BY <1>1, <1>2, <3>3 DEF Typed
    <3>5. "solve" \in buttons'
      BY <3>1 DEF MoveFinished, EnableAll, AllButtons
    <3>6. Together' /\ Answered'
      BY <1>3, <2>1, <3>5 DEF Together, Answered
    <3>7. ~Moving'
      BY <3>3 DEF Moving
    <3> QED
      BY <1>2, <1>6, <2>1, <3>2, <3>3, <3>4, <3>5, <3>6, <3>7, Quiet
  <2>4. CASE ~MoveOver(board)
    <3>1. Proceed(board, buttons, running, waiting)
      BY <1>6, <2>2, <2>4 DEF SwapFinished
    <3>2. board.ss # <<>>
      BY <1>1, <2>1, <2>4, OverIffRead
    <3>3. "solve" \notin buttons
      BY <1>6, <2>1 DEF Core, Enabled, InUse, UnderWay
    <3>4. buttons \cap (AllButtons \cup {"play", "restore"}) = {}
      BY <2>1, <3>3 DEF Core, Together
    <3>5. solvers' = <<>> /\ Fits' /\ Playable(current_answer') /\ inbox' \in Seq(Problems)
          /\ backup' \in [cells : Boards, selected : Points, alive : BOOLEAN]
          /\ PlayInv(board, goal')
      BY <1>1, <1>2, <1>3, <2>1
    <3> QED
      BY <1>1, <1>6, <2>1, <3>1, <3>2, <3>4, <3>5, ProceedKeeps
  <2> QED
    BY <2>3, <2>4
<1>7. CASE /\ ~(board.is_shuffling /\ board.shuffle_count < ShuffleMax)
           /\ ~(board.is_shuffling /\ board.shuffle_count >= ShuffleMax)
           /\ ~(~board.is_shuffling /\ board.is_moving)
  <2>1. board' = [board EXCEPT !.is_clicking = FALSE] /\ buttons' = buttons
    BY <1>7 DEF SwapFinished
  <2>2. board' \in BoardType /\ SameFlags(board, board') /\ board'.ss = board.ss
    BY <1>1, <2>1 DEF BoardType, SameFlags
  <2>3. ~Moving /\ ~board.is_moving
    BY <1>7 DEF Core, OneAtATime, Moving
  <2>4. Typed' /\ ~board'.is_moving
    BY <1>1, <1>2, <2>2, <2>3 DEF Typed, SameFlags
  <2> QED
    BY <1>2, <2>1, <2>2, <2>3, <2>4, Same
<1> QED
  BY <1>4, <1>5, <1>6, <1>7

\* A timer that runs out or a signal that arrives ends a swap.
LEMMA TimingKeeps ==
  ASSUME Core, TimerEnds \/ SignalArrives
  PROVE  Core'
<1>1. board.is_moving => Moving
  BY DEF Core, OneAtATime, TimerEnds, SignalArrives
<1>2. CASE TimerEnds
  BY <1>1, <1>2, SwapFinishedKeeps DEF TimerEnds
<1>3. CASE SignalArrives
  BY <1>1, <1>3, SwapFinishedKeeps DEF SignalArrives
<1> QED
  BY <1>2, <1>3

\* The slot of Restore: the board is the one that was kept.
LEMMA RestoreKeeps ==
  ASSUME Core, Restore
  PROVE  Core'
<1> DEFINE cell == backup.cells
           block == cell[backup.selected]
           a == [board EXCEPT !.blocks = cell]
<1>1. "solve" \in buttons /\ ~InUse
  BY Pressed DEF Restore
<1>2. /\ board \in BoardType /\ cell \in Boards /\ block \in Points
      /\ backup \in [cells : Boards, selected : Points, alive : BOOLEAN]
  BY BoardFacts DEF Core, Typed
<1> HIDE DEF cell
<1>3. a \in BoardType /\ SameFlags(board, a) /\ a.ss = board.ss /\ a.blocks = cell
  BY <1>2 DEF BoardType, SameFlags
<1> HIDE DEF a
<1>4. board' = [a EXCEPT !.selected = block]
  BY <1>3 DEF Restore, Select, a, cell
<1> HIDE DEF block
<1>5. board' \in BoardType /\ SameFlags(a, board') /\ board'.ss = a.ss
  BY <1>2, <1>3, <1>4 DEF BoardType, SameFlags
<1>6. /\ solvers' = <<>> /\ ~Moving' /\ ~board'.is_selecting /\ ~board'.is_shuffling
      /\ board'.ss = <<>> /\ ~Moving /\ board'.is_moving = board.is_moving
  BY <1>1, <1>3, <1>5, Idle DEF Restore, SameFlags, Moving
<1>7. Typed'
  BY <1>5 DEF Core, Typed, Restore
<1>8. "solve" \in buttons'
  BY <1>1 DEF Restore
<1>9. Fits'
  BY DEF Core, Answered, Restore, Fits
<1>10. board'.is_moving => ~timer' /\ ~(signals' > 0)
  BY <1>6 DEF Core, OneAtATime, Restore
<1>11. Together' /\ Answered'
  BY <1>8, <1>9 DEF Together, Answered
<1> QED
  BY <1>6, <1>7, <1>8, <1>10, <1>11, Quiet

\* A click selects the block, or swaps it with the selected one; no play goes on.
LEMMA ClickKeeps ==
  ASSUME Core, NEW p \in Points, Click(p)
  PROVE  Core'
<1>1. /\ board \in BoardType /\ ~board.is_moving /\ ~board.is_shuffling /\ ~Moving
      /\ board.ss = <<>>
  BY DEF Core, Typed, Click, Moving, Playing
<1>2. UNCHANGED <<backup, current_answer, solvers, worker, inbox, goal>>
  BY DEF Click, history
<1>3. CASE board.is_selecting
  <2> DEFINE block == board.blocks[p]
             a == [board EXCEPT !.selected = block]
  <2>1. block \in Points
    BY <1>1, BoardFacts DEF BoardType
  <2>2. board' = [a EXCEPT !.is_selecting = FALSE] /\ buttons' = EnableAll(buttons)
    BY <1>3 DEF Click, Select
  <2> HIDE DEF block
  <2>3. a \in BoardType /\ SameFlags(board, a) /\ a.ss = board.ss
    BY <1>1, <2>1 DEF BoardType, SameFlags
  <2> HIDE DEF a
  <2>4. /\ board' \in BoardType /\ ~board'.is_selecting /\ board'.ss = a.ss
        /\ board'.is_moving = a.is_moving /\ board'.is_shuffling = a.is_shuffling
    BY <2>2, <2>3 DEF BoardType
  <2>5. Typed'
    BY <1>2, <2>4 DEF Core, Typed
  <2>6. solvers = <<>> /\ "play" \notin buttons
    BY <1>3 DEF Core, OneAtATime
  <2>7. /\ solvers' = <<>> /\ ~Moving' /\ ~board'.is_moving /\ ~board'.is_selecting
        /\ ~board'.is_shuffling /\ board'.ss = <<>>
    BY <1>1, <1>2, <2>3, <2>4, <2>6 DEF SameFlags, Moving
  <2>8. "solve" \in buttons' /\ ("restore" \in buttons' => "restore" \in buttons)
        /\ "play" \notin buttons'
    BY <2>2, <2>6 DEF EnableAll, AllButtons
  <2>9. Together' /\ Answered'
    BY <1>2, <2>8 DEF Core, Together, Answered, Fits
  <2> QED
    BY <2>5, <2>7, <2>8, <2>9, Quiet
<1>4. CASE ~board.is_selecting
  <2> DEFINE q == SelectedPlace(board)
             a == SwapBlocks(board, p, q)
  <2>1. board' = [a EXCEPT !.is_clicking = TRUE] /\ buttons' = buttons
    BY <1>4 DEF Click
  <2>2. a \in BoardType /\ SameFlags(board, a) /\ a.ss = board.ss
    BY <1>1, PlaceType, AfterBlocks
  <2> HIDE DEF a
  <2>3. board' \in BoardType /\ SameFlags(a, board') /\ board'.ss = a.ss
    BY <2>1, <2>2 DEF BoardType, SameFlags
  <2>4. SameFlags(board, board') /\ board'.ss = board.ss /\ ~board'.is_moving
    BY <1>1, <2>2, <2>3 DEF SameFlags
  <2>5. Typed'
    BY <1>2, <2>3 DEF Core, Typed
  <2> QED
    BY <1>1, <1>2, <2>1, <2>4, <2>5, Same
<1> QED
  BY <1>3, <1>4

\* A click on a block selects it or moves towards it.
LEMMA ChangeSelectedKeeps ==
  ASSUME Core, ChangeSelected
  PROVE  Core'
<1>1. ~InUse
  BY Pressed DEF ChangeSelected, AllButtons
<1>2. board \in BoardType /\ board' = [board EXCEPT !.is_selecting = TRUE]
  BY DEF Core, Typed, ChangeSelected
<1>3. /\ board' \in BoardType /\ board'.is_selecting /\ board'.is_shuffling = board.is_shuffling
      /\ board'.is_moving = board.is_moving /\ board'.selection_max = board.selection_max
      /\ board'.ss = board.ss
  BY <1>2 DEF BoardType
<1>4. /\ solvers' = <<>> /\ DOMAIN solvers' = {} /\ ~Moving' /\ ~board'.is_shuffling
      /\ board'.ss = <<>> /\ ~Moving
  BY <1>1, <1>3, Idle DEF ChangeSelected, Moving
<1>5. buttons' \cap (AllButtons \cup {"play", "restore"}) = {}
  BY DEF ChangeSelected, DisableAll
<1>6. Typed'
  BY <1>3 DEF Core, Typed, ChangeSelected
<1>7. OneAtATime'
  BY <1>3, <1>4, <1>5 DEF Core, OneAtATime, ChangeSelected
<1>8. Playing' /\ InUse'
  BY <1>3, <1>4 DEF Playing, InUse, UnderWay
<1> QED
  BY <1>5, <1>6, <1>7, <1>8, Busy

\* The slots that touch none of this, the worker's signal, and a stutter.
LEMMA SettingsKeep ==
  ASSUME Core, SetAnimationTime \/ AutoSolve \/ ProblemReceived \/ UNCHANGED windowVars
  PROVE  Core'
<1>1. /\ UNCHANGED <<board, buttons, backup, current_answer, solvers, worker, timer, signals, goal>>
      /\ inbox' = inbox \/ \E cell \in Problems : inbox' = Append(inbox, cell)
  BY DEF SetAnimationTime, AutoSolve, ProblemReceived, windowVars, history
<1>2. inbox' \in Seq(Problems)
  BY <1>1 DEF Core, Typed
<1>3. Typed'
  BY <1>1, <1>2 DEF Core, Typed
<1>4. SameFlags(board, board') /\ board'.ss = board.ss
  BY <1>1 DEF SameFlags
<1>5. Moving' <=> Moving
  BY <1>1 DEF Moving
<1>6. board'.is_moving /\ ~Moving' => ~timer' /\ ~(signals' > 0)
  BY <1>1, <1>5 DEF Core, OneAtATime
<1> QED
  BY <1>1, <1>3, <1>4, <1>6, Same

\* The server may be asked for a problem while something is under way.
LEMMA GetProblemKeeps ==
  ASSUME Core, GetProblem
  PROVE  Core'
<1>1. /\ UNCHANGED <<board, backup, current_answer, solvers, inbox, timer, signals, goal>>
      /\ worker'
  BY DEF GetProblem, history
<1>2. buttons' \cap (AllButtons \cup {"play", "restore"}) = {}
  BY DEF GetProblem, DisableAll, AllButtons
<1>3. "solve" \notin buttons' /\ "play" \notin buttons' /\ "restore" \notin buttons'
      /\ buttons' \cap (AllButtons \cup {"restore"}) = {}
  BY <1>2 DEF AllButtons
<1>4. Typed'
  BY <1>1 DEF Core, Typed
<1>5. (Moving' <=> Moving) /\ (Fits' <=> Fits)
  BY <1>1 DEF Moving, Fits
<1>6. OneAtATime'
  BY <1>1, <1>3, <1>5 DEF Core, OneAtATime
<1>7. Playing'
  BY <1>1, <1>5 DEF Core, Playing
<1> QED
  BY <1>1, <1>3, <1>4, <1>6, <1>7 DEF Core, Enabled, Together, Answered

\* The slot of Cancel ends the worker for problems, or disturbs.
LEMMA GetCancelKeeps ==
  ASSUME Core, ~InUse, GetCancel
  PROVE  Core'
<1>1. UNCHANGED <<board, backup, current_answer, solvers, inbox, timer, signals>>
  BY DEF GetCancel
<1>2. "solve" \in buttons' /\ (\A x \in {"play", "restore"} : x \in buttons' => x \in buttons)
  BY DEF GetCancel, EnableAll, AllButtons
<1>3. Typed'
  BY <1>1 DEF Core, Typed
<1>4. /\ solvers' = <<>> /\ ~Moving' /\ ~board'.is_selecting /\ ~board'.is_shuffling
      /\ board'.ss = <<>> /\ ~Moving
  BY <1>1, Idle DEF Moving
<1>5. board'.is_moving => ~timer' /\ ~(signals' > 0)
  BY <1>1, <1>4 DEF Core, OneAtATime
<1>6. Together' /\ Answered'
  BY <1>1, <1>2 DEF Core, Together, Answered, Fits
<1> QED
  BY <1>2, <1>3, <1>4, <1>5, <1>6, Quiet

\* A problem from the server replaces the board.
LEMMA GotProblemKeeps ==
  ASSUME Core, ~InUse, GotProblem
  PROVE  Core'
<1> DEFINE cell == Head(inbox)
           b == NewBoard(cell)
<1>1. /\ inbox \in Seq(Problems) /\ inbox # <<>> /\ inbox' = Tail(inbox)
      /\ current_answer' = current_answer /\ worker' = worker
      /\ ~timer' /\ ~(signals' > 0)
  BY DEF Core, Typed, GotProblem
<1>2. cell \in Boards /\ inbox' \in Seq(Problems)
  BY <1>1, SolversAssumption
<1> HIDE DEF cell
<1>3. /\ b \in BoardType /\ b.ss = <<>> /\ ~b.is_moving /\ ~b.is_selecting /\ ~b.is_shuffling
  BY <1>2, NewBoardType
<1> HIDE DEF b
<1>4. CASE auto_solve
  <2>1. StartSolve(b)
    BY <1>4 DEF GotProblem, b, cell
  <2> QED
    BY <1>1, <1>2, <1>3, <2>1, StartSolveKeeps
<1>5. CASE ~auto_solve
  <2>1. /\ board' = b /\ buttons' = (buttons \ {"play", "restore"}) \cup {"solve"}
        /\ backup' = [backup EXCEPT !.alive = FALSE] /\ solvers' = solvers
    BY <1>5 DEF GotProblem, b, cell
  <2>2. Typed'
    BY <1>1, <1>2, <1>3, <2>1 DEF Core, Typed
  <2>3. solvers' = <<>> /\ ~Moving'
    BY <1>3, <2>1, Idle DEF Moving
  <2>4. "solve" \in buttons' /\ "play" \notin buttons' /\ "restore" \notin buttons'
    BY <2>1
  <2>5. Together' /\ Answered'
    BY <2>4 DEF Together, Answered
  <2> QED
    BY <1>1, <1>3, <2>1, <2>2, <2>3, <2>4, <2>5, Quiet
<1> QED
  BY <1>4, <1>5

-----------------------------------------------------------------------------
(* The theorems.                                                           *)

\* IInv is inductive.
THEOREM WindowStep == IInv /\ [WindowNext]_windowVars => IInv'
<1> SUFFICES ASSUME IInv, [WindowNext]_windowVars, Calm' PROVE Core'
  BY DEF IInv
<1>1. CASE UNCHANGED windowVars
  <2>1. Calm
    BY <1>1 DEF Calm, windowVars
  <2> QED
    BY <1>1, <2>1, SettingsKeep DEF IInv
<1>2. CASE WindowNext
  <2>1. ~lost /\ ~lost' /\ ~disturbed'
    BY <1>2 DEF WindowNext, Timing, Answering, Calm
  <2>2. disturbed' = disturbed \/ Disturbing \/ Play
    BY <1>2 DEF WindowNext, Input, Timing, Answering, Reload, FileOpen, ReadProblem, Shuffle,
                Shuffle2, Solve, Restore, Click, ChangeSelected, SetAnimationTime, AutoSolve,
                GetProblem, ProblemReceived, GetCancel, GotProblem, TimerEnds, SignalArrives,
                SwapFinished, AnswerArrives, history
  <2>3. ~disturbed
    BY <2>1, <2>2 DEF Disturbing, Play
  <2>4. Core
    BY <2>1, <2>3 DEF IInv, Calm
  <2>5. CASE Reload \/ FileOpen \/ ReadProblem
    BY <2>1, <2>4, <2>5, ReloadKeeps DEF ReadProblem
  <2>6. CASE Shuffle \/ Shuffle2
    BY <2>4, <2>6, ShuffleKeeps, Shuffle2Keeps
  <2>7. CASE Solve \/ Play \/ Restore
    BY <2>1, <2>4, <2>7, SolveKeeps, PlayKeeps, RestoreKeeps
  <2>8. CASE (\E p \in Points : Click(p)) \/ ChangeSelected
    BY <2>4, <2>8, ClickKeeps, ChangeSelectedKeeps
  <2>9. CASE SetAnimationTime \/ AutoSolve \/ ProblemReceived
    BY <2>4, <2>9, SettingsKeep
  <2>10. CASE GetProblem
    BY <2>4, <2>10, GetProblemKeeps
  <2>11. CASE GetCancel
    <3>1. ~InUse
      BY <2>1, <2>11 DEF GetCancel, Disturbing
    <3> QED
      BY <2>4, <2>11, <3>1, GetCancelKeeps
  <2>12. CASE GotProblem
    <3>1. ~InUse
      BY <2>1, <2>12 DEF GotProblem, Disturbing
    <3> QED
      BY <2>4, <2>12, <3>1, GotProblemKeeps
  <2>13. CASE TimerEnds \/ SignalArrives
    BY <2>4, <2>13, TimingKeeps
  <2>14. CASE AnswerArrives
    BY <2>4, <2>14, AnswerArrivesKeeps
  <2> QED
    BY <1>2, <2>5, <2>6, <2>7, <2>8, <2>9, <2>10, <2>11, <2>12, <2>13, <2>14
       DEF WindowNext, Input, Timing, Answering
<1> QED
  BY <1>1, <1>2

\* In every state the invariant holds.
THEOREM WindowInvariant == WindowSpec => []IInv
<1>1. WindowInit => IInv
  BY WindowInitCore DEF IInv
<1>2. IInv /\ [WindowNext]_windowVars => IInv'
  BY WindowStep
<1> QED
  BY <1>1, <1>2, PTL DEF WindowSpec

\* Solve can be pressed when and only when no solver, play or selection is under way, no
\* answer waits and the board does not shuffle, for any problems, answers and number of
\* inputs (enable_all_button() and disable_all_button()).  It does not say that what is
\* in use comes free again: a board that shuffles does not.
THEOREM SolveEnabledCorrect == WindowSpec => []SolveEnabledUnlessInUse
<1>1. IInv => SolveEnabledUnlessInUse
  BY DEF IInv, Calm, Core, Enabled, SolveEnabledUnlessInUse
<1> QED
  BY <1>1, WindowInvariant, PTL

\* Play and Restore are enabled only while the answer solves the saved board
\* (slot_solve_finished() and restore_state()).
THEOREM AnswerFitsCorrect == WindowSpec => []AnswerFitsBackup
<1>1. IInv => AnswerFitsBackup
  BY DEF IInv, Calm, Core, Answered, Fits, AnswerFitsBackup
<1> QED
  BY <1>1, WindowInvariant, PTL

\* At any moment of a play, animated or not, what is still to be read leads from the
\* cells shown to where the whole answer leads, and a play ends only when
\* everything is read (next_move_step() and slot_swap_finished()).
THEOREM PlayFollowsCorrect == WindowSpec => []PlayFollowsAnswer
<1>1. ASSUME IInv, Calm
      PROVE  /\ board.is_moving /\ board.selection_max > 0 =>
                  Replay(board.blocks, SelectedPlace(board), board.ss) = goal
             /\ ~board.is_moving => board.ss = <<>>
  <2>1. Core /\ board \in BoardType
    BY <1>1 DEF IInv, Core, Typed
  <2>2. ASSUME Moving PROVE Replay(board.blocks, SelectedPlace(board), board.ss) = goal
    <3>1. board.swap_max >= 0 /\ PlayInv(board, goal) /\ board.swap_max \in Int
      BY <2>1, <2>2 DEF Core, Playing, BoardType
    <3>2. At(board) = SelectedPlace(board)
      BY <3>1 DEF At
    <3>3. Simulated(From(board.blocks, SelectedPlace(board)), board.ss).cell = goal
      BY <3>1, <3>2 DEF PlayInv
    <3> QED
      BY <3>3, ReplayFrom
  <2> QED
    BY <2>1, <2>2 DEF Core, Playing, Moving
<1>2. IInv => PlayFollowsAnswer
  BY <1>1 DEF PlayFollowsAnswer, Calm
<1> QED
  BY <1>2, WindowInvariant, PTL

-----------------------------------------------------------------------------
(* The posting of answers.                                                 *)

\* The types that the proof needs.
PostTypeOK ==
  /\ taken \in Nat
  /\ posted \in Seq(Nat)
  /\ write_msgs \in Seq(Nat)
  /\ writing \in {NotWriting, 0, Header, Body}
  /\ wire \in Seq(Nat \X {Header, Body})
  /\ received \in Seq(Nat)

\* Nothing exists before the connection is made.
Life ==
  /\ phase = "connecting" => session = "none"
  /\ session = "none" => /\ ~connected /\ taken = 0 /\ phase # "open"
                         /\ wire = <<>> /\ received = <<>>

\* The answers that are posted follow the b that have been queued, up to the last
\* one taken, in order.  Tasks of close() may be anywhere between them.
Tasks(b) ==
  /\ \A i \in DOMAIN posted : posted[i] # CloseTask => posted[i] \in b + 1 .. taken
  /\ \A n \in b + 1 .. taken : \E i \in DOMAIN posted : posted[i] = n
  /\ \A i, j \in DOMAIN posted :
       i < j /\ posted[i] # CloseTask /\ posted[j] # CloseTask => posted[i] < posted[j]

\* The queue ends with the latest of the b, has no gap, and is what is written.
Queue(b) ==
  /\ Len(write_msgs) <= b
  /\ \A i \in DOMAIN write_msgs : write_msgs[i] = b - Len(write_msgs) + i
  /\ writing # NotWriting => write_msgs # <<>>

\* The number of parts the server has read, and the k-th part of the stream.
PartsRead == 2 * Len(received) + (IF session = "body" THEN 1 ELSE 0)

\* The k-th part of a stream: headers and bodies in turn.
PartAt(k) == <<(k + 1) \div 2, IF k % 2 = 1 THEN Header ELSE Body>>

\* How many parts the client has sent, when it has finished with the answers up to b.
PartsSent(b) ==
  2 * (b - Len(write_msgs)) + (IF writing = NotWriting THEN 0 ELSE writing)

\* The wire goes on where the server stands, never beyond the answers queued, and
\* while the connection works nothing is missing on it.
Stream(b) ==
  /\ PartsRead + Len(wire) <= 2 * b
  /\ session # "ended" => \A i \in DOMAIN wire : wire[i] = PartAt(PartsRead + i)
  /\ phase = "open" /\ ~broken /\ session # "ended" => PartsRead + Len(wire) = PartsSent(b)

\* The inductive invariant.
PostInv ==
  PostTypeOK /\ Life /\ \E b \in 0 .. taken : Tasks(b) /\ Queue(b) /\ Stream(b)

-----------------------------------------------------------------------------

\* The odd parts of a stream are headers, the even ones bodies.
LEMMA HeaderPart ==
  ASSUME NEW n \in Nat PROVE PartAt(2 * n + 1) = <<n + 1, Header>>
<1>1. (2 * n + 1 + 1) \div 2 = n + 1 /\ (2 * n + 1) % 2 = 1
  OBVIOUS
<1> QED
  BY <1>1 DEF PartAt

\* The even parts are bodies.
LEMMA BodyPart ==
  ASSUME NEW n \in Nat PROVE PartAt(2 * n + 2) = <<n + 1, Body>>
<1>1. (2 * n + 2 + 1) \div 2 = n + 1 /\ (2 * n + 2) % 2 = 0
  OBVIOUS
<1> QED
  BY <1>1 DEF PartAt

\* How many parts the server has read.
LEMMA PartsReadNat ==
  ASSUME PostTypeOK
  PROVE  /\ PartsRead \in Nat /\ Len(received) \in Nat
         /\ session = "body" => PartsRead = 2 * Len(received) + 1
         /\ session # "body" => PartsRead = 2 * Len(received)
<1>1. Len(received) \in Nat /\ 2 * Len(received) \in Nat
  BY LenProperties DEF PostTypeOK
<1>2. CASE session = "body"
  BY <1>1, <1>2 DEF PartsRead
<1>3. CASE session # "body"
  <2>1. PartsRead = 2 * Len(received) + 0
    BY <1>3 DEF PartsRead
  <2> QED
    BY <1>1, <1>3, <2>1
<1> QED
  BY <1>2, <1>3

\* A task that is posted and is no answer leaves the order of the answers.
LEMMA CloseTaskPosted ==
  ASSUME PostTypeOK, NEW b, Tasks(b), posted' = Append(posted, CloseTask), taken' = taken
  PROVE  posted' \in Seq(Nat) /\ Tasks(b)'
<1>1. CloseTask \in Nat
  BY DEF CloseTask
<1>2. /\ posted' \in Seq(Nat) /\ Len(posted) \in Nat
      /\ DOMAIN posted = 1 .. Len(posted) /\ DOMAIN posted' = 1 .. Len(posted) + 1
      /\ \A i \in DOMAIN posted : posted'[i] = posted[i]
      /\ posted'[Len(posted) + 1] = CloseTask
  BY <1>1, AppendProperties, LenProperties DEF PostTypeOK
<1>3. \A i \in DOMAIN posted' : posted'[i] # CloseTask =>
        i \in DOMAIN posted /\ posted'[i] = posted[i]
  BY <1>2
<1>4. \A i \in DOMAIN posted : i \in DOMAIN posted'
  BY <1>2
<1> QED
  BY <1>2, <1>3, <1>4 DEF Tasks

\* One part is taken from the wire.
LEMMA PartTaken ==
  ASSUME PostTypeOK, PostTypeOK', NEW b \in Nat, Stream(b), session # "ended", session' # "ended",
         wire # <<>>, wire' = Tail(wire), PartsRead' = PartsRead + 1,
         UNCHANGED <<phase, broken, write_msgs, writing>>
  PROVE  Stream(b)'
<1>1. /\ Len(wire) \in Nat \ {0} /\ Len(wire') = Len(wire) - 1
      /\ DOMAIN wire = 1 .. Len(wire) /\ DOMAIN wire' = 1 .. Len(wire')
      /\ \A i \in 1 .. Len(wire') : wire'[i] = wire[i + 1]
  BY HeadTailProperties, LenProperties, EmptySeq DEF PostTypeOK
<1>2. PartsRead \in Nat
  BY PartsReadNat
<1>3. PartsRead' + Len(wire') = PartsRead + Len(wire)
  BY <1>1, <1>2
<1>4. PartsSent(b)' = PartsSent(b)
  BY DEF PartsSent
<1>5. ASSUME NEW i \in DOMAIN wire' PROVE wire'[i] = PartAt(PartsRead' + i)
  <2>1. i + 1 \in DOMAIN wire /\ wire'[i] = wire[i + 1]
    BY <1>1
  <2>2. PartsRead + (i + 1) = PartsRead' + i
    BY <1>1, <1>2
  <2> QED
    BY <2>1, <2>2 DEF Stream
<1>6. \A i \in DOMAIN wire' : wire'[i] = PartAt(PartsRead + i)'
  BY <1>5 DEF PartAt
<1> QED
  BY <1>3, <1>4, <1>6 DEF Stream

\* The invariant speaks of these variables only.
LEMMA SameInv ==
  ASSUME PostInv, UNCHANGED <<taken, posted, write_msgs, writing, wire, received, session, phase,
                           broken, connected>>
  PROVE  PostInv'
<1>1. PICK b \in 0 .. taken : Tasks(b) /\ Queue(b) /\ Stream(b)
  BY DEF PostInv
<1>2. PostTypeOK' /\ Life'
  BY DEF PostInv, PostTypeOK, Life
<1>3. Tasks(b)' /\ Queue(b)'
  BY <1>1 DEF Tasks, Queue
<1>4. Stream(b)'
  <2>1. PartsRead' = PartsRead /\ PartsSent(b)' = PartsSent(b)
    BY DEF PartsRead, PartsSent
  <2> QED
    BY <1>1, <2>1 DEF Stream, PartAt
<1> QED
  BY <1>1, <1>2, <1>3, <1>4 DEF PostInv

-----------------------------------------------------------------------------

\* The invariant holds before anything is posted.
THEOREM PostInitInv == PostInit => PostInv
<1> SUFFICES ASSUME PostInit PROVE PostInv
  OBVIOUS
<1> USE DEF PostInit
<1>1. PostTypeOK
  <2>1. \A S : <<>> \in Seq(S)
    BY EmptySeq
  <2> QED
    BY <2>1 DEF PostTypeOK
<1>2. Life
  BY DEF Life
<1>3. Tasks(0) /\ Queue(0)
  BY EmptySeq DEF Tasks, Queue
<1>4. Stream(0)
  <2>1. Len(<<>>) = 0 /\ PartsRead = 0
    BY EmptySeq DEF PartsRead
  <2> QED
    BY <2>1 DEF Stream
<1>5. 0 \in 0 .. taken
  OBVIOUS
<1> QED
  BY <1>1, <1>2, <1>3, <1>4, <1>5 DEF PostInv

-----------------------------------------------------------------------------
(* The client.                                                             *)

\* A call of send_answer() extends the tasks.
LEMMA SendAnswerInv ==
  ASSUME PostInv, SendAnswer PROVE PostInv'
<1> USE DEF SendAnswer, netVars, serverVars
<1>1. CASE ~connected
  <2>1. UNCHANGED <<taken, posted, write_msgs, writing, wire, received, session, phase, broken,
                    connected>>
    BY <1>1
  <2> QED
    BY <2>1, SameInv
<1>2. CASE connected
  <2>1. /\ taken \in Nat /\ taken' = taken + 1
        /\ posted \in Seq(Nat) /\ posted' = Append(posted, taken + 1)
    BY <1>2 DEF PostInv, PostTypeOK
  <2>2. /\ posted' \in Seq(Nat) /\ Len(posted) \in Nat
        /\ DOMAIN posted = 1 .. Len(posted) /\ DOMAIN posted' = 1 .. Len(posted) + 1
        /\ \A i \in DOMAIN posted : posted'[i] = posted[i]
        /\ posted'[Len(posted) + 1] = taken + 1
    BY <2>1, AppendProperties, LenProperties
  <2>3. PostTypeOK' /\ Life'
    BY <1>2, <2>1, <2>2 DEF PostInv, PostTypeOK, Life
  <2>4. PICK b \in 0 .. taken : Tasks(b) /\ Queue(b) /\ Stream(b)
    BY DEF PostInv
  <2>5. Tasks(b)'
    <3>1. \A i \in DOMAIN posted' : posted'[i] # CloseTask => posted'[i] \in b + 1 .. taken'
      <4>1. taken \in Nat /\ b \in Nat /\ b <= taken
        BY <2>1, <2>4
      <4>2. \A k \in b + 1 .. taken : k \in b + 1 .. taken + 1
        BY <4>1
      <4>3. taken + 1 \in b + 1 .. taken + 1
        BY <4>1
      <4>4. ASSUME NEW i \in DOMAIN posted', posted'[i] # CloseTask
            PROVE  posted'[i] \in b + 1 .. taken + 1
        <5>1. CASE i \in DOMAIN posted
          BY <2>2, <2>4, <4>2, <4>4, <5>1 DEF Tasks
        <5>2. CASE i = Len(posted) + 1
          BY <2>2, <4>3, <5>2
        <5> QED
          BY <2>2, <5>1, <5>2
      <4> QED
        BY <2>1, <4>4
    <3>2. \A n \in b + 1 .. taken' : \E i \in DOMAIN posted' : posted'[i] = n
      <4>1. ASSUME NEW n \in b + 1 .. taken + 1
            PROVE  \E i \in DOMAIN posted' : posted'[i] = n
        <5>1. CASE n \in b + 1 .. taken
          <6>1. PICK i \in DOMAIN posted : posted[i] = n
            BY <2>4, <5>1 DEF Tasks
          <6> QED
            BY <2>2, <6>1
        <5>2. CASE n = taken + 1
          BY <2>2, <5>2
        <5> QED
          BY <2>1, <2>4, <4>1, <5>1, <5>2
      <4> QED
        BY <2>1, <4>1
    <3>3. ASSUME NEW i \in DOMAIN posted', NEW j \in DOMAIN posted', i < j,
                 posted'[i] # CloseTask, posted'[j] # CloseTask
          PROVE  posted'[i] < posted'[j]
      <4>1. i \in DOMAIN posted /\ posted'[i] = posted[i] /\ posted[i] \in b + 1 .. taken
        BY <2>2, <2>4, <3>3 DEF Tasks
      <4>2. CASE j \in DOMAIN posted
        BY <2>2, <2>4, <3>3, <4>1, <4>2 DEF Tasks
      <4>3. CASE j = Len(posted) + 1
        <5>1. posted'[j] = taken + 1
          BY <2>2, <4>3
        <5>2. posted[i] <= taken /\ posted[i] \in Int
          BY <2>1, <2>4, <4>1
        <5> QED
          BY <2>1, <4>1, <5>1, <5>2
      <4> QED
        BY <2>2, <4>2, <4>3
    <3> QED
      BY <3>1, <3>2, <3>3 DEF Tasks
  <2>6. Queue(b)' /\ Stream(b)'
    BY <2>4 DEF Queue, Stream, PartsRead, PartAt, PartsSent
  <2>7. b \in 0 .. taken'
    BY <2>1, <2>4
  <2> QED
    BY <2>3, <2>5, <2>6, <2>7 DEF PostInv
<1> QED
  BY <1>1, <1>2

\* A call of close() lies among the tasks.
LEMMA CloseInv ==
  ASSUME PostInv, Close \/ HandleConnectError PROVE PostInv'
<1> USE DEF Close, HandleConnectError, netVars, serverVars
<1>1. PICK b \in 0 .. taken : Tasks(b) /\ Queue(b) /\ Stream(b)
  BY DEF PostInv
<1>2. posted' = Append(posted, CloseTask) /\ taken' = taken
  OBVIOUS
<1>3. posted' \in Seq(Nat) /\ Tasks(b)'
  BY <1>1, <1>2, CloseTaskPosted DEF PostInv
<1>4. PostTypeOK' /\ Life'
  BY SMTT(30), <1>3 DEF PostInv, PostTypeOK, Life
<1>5. Queue(b)'
  BY <1>1 DEF Queue
<1>6. Stream(b)'
  <2>1. PartsRead' = PartsRead /\ PartsSent(b)' = PartsSent(b)
    BY DEF PartsRead, PartsSent
  <2>2. phase' = "open" => phase = "open"
    OBVIOUS
  <2> QED
    BY <1>1, <2>1, <2>2 DEF Stream, PartAt
<1> QED
  BY <1>1, <1>2, <1>3, <1>4, <1>5, <1>6 DEF PostInv

\* Only phase and connected change, and no step makes the phase "open" again.
LEMMA StopInv ==
  ASSUME PostInv, Stop PROVE PostInv'
BY DEF Stop, netVars, serverVars, PostInv, PostTypeOK, Life, Tasks, Queue, Stream, PartsRead,
       PartAt, PartsSent

\* A connection that is made starts the writing from the front of the queue.
LEMMA HandleConnectInv ==
  ASSUME PostInv, HandleConnect PROVE PostInv'
<1> USE DEF HandleConnect
<1>1. /\ taken = 0 /\ wire = <<>> /\ received = <<>> /\ session' = "backlog"
      /\ UNCHANGED <<taken, posted, write_msgs, writing, wire, received>>
  BY DEF PostInv, Life
<1>2. Tasks(0) /\ Queue(0)
  BY <1>1 DEF PostInv
<1>3. PostTypeOK' /\ Life'
  BY <1>1 DEF PostInv, PostTypeOK, Life
<1>4. Tasks(0)' /\ Queue(0)'
  BY <1>1, <1>2 DEF Tasks, Queue
<1>5. Stream(0)'
  <2>1. write_msgs \in Seq(Nat) /\ Len(write_msgs) \in Nat
    BY LenProperties DEF PostInv, PostTypeOK
  <2>2. Len(write_msgs) = 0 /\ writing = NotWriting
    BY <1>2, <2>1, EmptySeq DEF Queue
  <2>3. PartsRead' = 0 /\ Len(wire') = 0 /\ PartsSent(0)' = 0 /\ DOMAIN wire' = {}
    BY <1>1, <2>2, EmptySeq DEF PartsRead, PartsSent
  <2> QED
    BY <2>3 DEF Stream
<1> QED
  BY <1>1, <1>3, <1>4, <1>5 DEF PostInv

\* An answer taken from the tasks goes to the end of the queue.
LEMMA DoSendMessageInv ==
  ASSUME PostInv, DoSendMessage PROVE PostInv'
<1> DEFINE n == Head(posted)
<1> USE DEF netVars, serverVars
<1>1. /\ posted \in Seq(Nat) /\ posted # <<>> /\ posted' = Tail(posted) /\ n # CloseTask
      /\ write_msgs \in Seq(Nat) /\ write_msgs' = Append(write_msgs, n)
      /\ writing' = (IF write_msgs = <<>> THEN 0 ELSE writing)
      /\ taken \in Nat /\ UNCHANGED <<taken, connected, phase, netVars, serverVars>>
  BY DEF PostInv, PostTypeOK, DoSendMessage
<1>2. /\ Len(posted) \in Nat \ {0} /\ DOMAIN posted = 1 .. Len(posted)
      /\ posted' \in Seq(Nat) /\ Len(posted') = Len(posted) - 1
      /\ DOMAIN posted' = 1 .. Len(posted')
      /\ \A i \in 1 .. Len(posted') : posted'[i] = posted[i + 1]
      /\ n = posted[1] /\ n \in Nat
  BY <1>1, HeadTailProperties, LenProperties, EmptySeq
<1>3. PICK b \in 0 .. taken : Tasks(b) /\ Queue(b) /\ Stream(b)
  BY DEF PostInv
<1>4. n = b + 1 /\ b + 1 \in 0 .. taken
  <2>1. n \in b + 1 .. taken
    <3>1. 1 \in DOMAIN posted /\ posted[1] # CloseTask
      BY <1>1, <1>2
    <3>2. posted[1] \in b + 1 .. taken
      BY <1>3, <3>1 DEF Tasks
    <3> QED
      BY <1>2, <3>2
  <2>2. PICK i \in DOMAIN posted : posted[i] = b + 1
    BY <1>1, <1>3, <2>1 DEF Tasks
  <2>3. b + 1 # CloseTask
    BY <1>3 DEF CloseTask
  <2>4. CASE i # 1
    <3>1. 1 \in DOMAIN posted /\ 1 < i /\ posted[1] # CloseTask
      BY <1>1, <1>2, <2>4
    <3>2. n < b + 1
      BY <1>2, <1>3, <2>2, <2>3, <3>1 DEF Tasks
    <3> QED
      BY <1>2, <1>3, <2>1, <3>2
  <2>5. CASE i = 1
    BY <1>1, <1>2, <1>3, <2>1, <2>2, <2>5
  <2> QED
    BY <2>4, <2>5
<1>5. PostTypeOK' /\ Life'
  BY <1>1, <1>2, AppendProperties DEF PostInv, PostTypeOK, Life
<1>6. Tasks(b + 1)'
  <2>1. ASSUME NEW i \in DOMAIN posted'
        PROVE  /\ i + 1 \in DOMAIN posted /\ posted'[i] = posted[i + 1]
               /\ posted'[i] # CloseTask => posted'[i] \in b + 2 .. taken
    <3>1. i + 1 \in DOMAIN posted /\ posted'[i] = posted[i + 1] /\ 1 \in DOMAIN posted /\ 1 < i + 1
      BY <1>2
    <3>2. posted[i + 1] # CloseTask => posted[i + 1] \in b + 1 .. taken /\ posted[1] < posted[i + 1]
      BY <1>1, <1>2, <1>3, <3>1 DEF Tasks
    <3> QED
      BY <1>2, <1>3, <1>4, <3>1, <3>2
  <2>2. ASSUME NEW k \in b + 2 .. taken PROVE \E i \in DOMAIN posted' : posted'[i] = k
    <3>1. PICK i \in DOMAIN posted : posted[i] = k
      BY <1>3 DEF Tasks
    <3>2. i # 1
      BY <1>2, <1>3, <1>4, <3>1
    <3>3. i - 1 \in DOMAIN posted' /\ posted'[i - 1] = posted[i]
      BY SMTT(30), <1>2, <3>2
    <3> QED
      BY <3>1, <3>3
  <2>3. ASSUME NEW i \in DOMAIN posted', NEW j \in DOMAIN posted', i < j,
               posted'[i] # CloseTask, posted'[j] # CloseTask
        PROVE  posted'[i] < posted'[j]
    <3>1. i + 1 < j + 1
      BY <1>2, <2>3
    <3> QED
      BY <1>3, <2>1, <2>3, <3>1 DEF Tasks
  <2>4. (b + 1) + 1 = b + 2
    BY <1>3
  <2> QED
    BY <1>1, <2>1, <2>2, <2>3, <2>4 DEF Tasks
<1>7. /\ Len(write_msgs) \in Nat /\ Len(write_msgs') = Len(write_msgs) + 1
      /\ DOMAIN write_msgs = 1 .. Len(write_msgs)
      /\ DOMAIN write_msgs' = 1 .. Len(write_msgs) + 1
      /\ \A i \in 1 .. Len(write_msgs) : write_msgs'[i] = write_msgs[i]
      /\ write_msgs'[Len(write_msgs) + 1] = n /\ write_msgs' # <<>>
  BY <1>1, <1>2, AppendProperties, LenProperties
<1>8. Queue(b + 1)'
  <2>1. /\ Len(write_msgs) <= b
        /\ \A i \in 1 .. Len(write_msgs) : write_msgs[i] = b - Len(write_msgs) + i
    BY <1>3, <1>7 DEF Queue
  <2>2. Len(write_msgs') <= b + 1
    BY <1>3, <1>7, <2>1
  <2>3. ASSUME NEW i \in DOMAIN write_msgs'
        PROVE  write_msgs'[i] = (b + 1) - Len(write_msgs') + i
    <3>1. CASE i \in 1 .. Len(write_msgs)
      BY <1>3, <1>7, <2>1, <3>1
    <3>2. CASE i = Len(write_msgs) + 1
      BY <1>3, <1>4, <1>7, <3>2
    <3> QED
      BY <1>7, <3>1, <3>2
  <2> QED
    BY <1>7, <2>2, <2>3 DEF Queue
<1>9. Stream(b + 1)'
  <2>1. PartsRead' = PartsRead /\ PartsRead \in Nat /\ Len(wire) \in Nat
    BY <1>1, PartsReadNat, LenProperties DEF PostInv, PostTypeOK, PartsRead
  <2>2. PartsSent(b + 1)' = PartsSent(b)
    <3>1. b + 1 - Len(write_msgs') = b - Len(write_msgs)
      BY <1>3, <1>7
    <3>2. CASE write_msgs = <<>>
      <4>1. writing = NotWriting /\ writing' = 0
        BY <1>1, <1>3, <3>2 DEF Queue
      <4> QED
        BY <3>1, <4>1 DEF PartsSent
    <3>3. CASE write_msgs # <<>>
      BY <1>1, <3>1, <3>3 DEF PartsSent
    <3> QED
      BY <3>2, <3>3
  <2>3. PartsRead' + Len(wire') <= 2 * (b + 1)
    BY <1>1, <1>3, <2>1 DEF Stream
  <2> QED
    BY <1>1, <1>3, <2>1, <2>2, <2>3 DEF Stream, PartAt
<1> QED
  BY <1>1, <1>4, <1>5, <1>6, <1>8, <1>9 DEF PostInv

\* A close leaves the queue and ends the stream.
LEMMA DoCloseInv ==
  ASSUME PostInv, DoClose PROVE PostInv'
<1> USE DEF DoClose, netVars, serverVars
<1>1. /\ posted \in Seq(Nat) /\ posted # <<>> /\ posted' = Tail(posted)
      /\ Head(posted) = CloseTask /\ taken \in Nat
      /\ UNCHANGED <<taken, write_msgs, writing, netVars, serverVars>>
  BY DEF PostInv, PostTypeOK
<1>2. /\ Len(posted) \in Nat \ {0} /\ DOMAIN posted = 1 .. Len(posted)
      /\ posted' \in Seq(Nat) /\ Len(posted') = Len(posted) - 1
      /\ DOMAIN posted' = 1 .. Len(posted')
      /\ \A i \in 1 .. Len(posted') : posted'[i] = posted[i + 1]
      /\ posted[1] = CloseTask
  BY <1>1, HeadTailProperties, LenProperties, EmptySeq
<1>3. PICK b \in 0 .. taken : Tasks(b) /\ Queue(b) /\ Stream(b)
  BY DEF PostInv
<1>4. PostTypeOK' /\ Life'
  BY <1>1, <1>2 DEF PostInv, PostTypeOK, Life
<1>5. Tasks(b)'
  <2>1. \A i \in DOMAIN posted' : i + 1 \in DOMAIN posted /\ posted'[i] = posted[i + 1]
    BY <1>2
  <2>2. ASSUME NEW k \in b + 1 .. taken PROVE \E i \in DOMAIN posted' : posted'[i] = k
    <3>1. PICK i \in DOMAIN posted : posted[i] = k
      BY <1>3 DEF Tasks
    <3>2. i # 1
      BY <1>2, <1>3, <3>1 DEF CloseTask
    <3>3. i - 1 \in DOMAIN posted' /\ posted'[i - 1] = posted[i]
      BY <1>2, <3>2
    <3> QED
      BY <3>1, <3>3
  <2>3. ASSUME NEW i \in DOMAIN posted', NEW j \in DOMAIN posted', i < j,
               posted'[i] # CloseTask, posted'[j] # CloseTask
        PROVE  posted'[i] < posted'[j]
    <3>1. i + 1 < j + 1
      BY <1>2, <2>3
    <3> QED
      BY <1>3, <2>1, <2>3, <3>1 DEF Tasks
  <2> QED
    BY <1>1, <1>3, <2>1, <2>2, <2>3 DEF Tasks
<1>6. Queue(b)'
  BY <1>1, <1>3 DEF Queue
<1>7. Stream(b)'
  <2>1. PartsRead' = PartsRead /\ PartsSent(b)' = PartsSent(b)
    BY <1>1 DEF PartsRead, PartsSent
  <2> QED
    BY <1>1, <1>3, <2>1 DEF Stream, PartAt
<1> QED
  BY <1>1, <1>3, <1>4, <1>5, <1>6, <1>7 DEF PostInv

\* The part that is sent is the next one of the stream.
LEMMA TransmitInv ==
  ASSUME PostInv, Transmit PROVE PostInv'
<1> DEFINE part == <<Head(write_msgs), writing + 1>>
<1> USE DEF Transmit, serverVars
<1>1. PICK b \in 0 .. taken : Tasks(b) /\ Queue(b) /\ Stream(b)
  BY DEF PostInv
<1>2. /\ phase = "open" /\ writing \in {0, 1} /\ writing' = writing + 1
      /\ UNCHANGED <<taken, connected, posted, write_msgs, phase, broken, session, received>>
      /\ wire' = IF broken \/ session = "ended" THEN wire ELSE Append(wire, part)
  BY DEF Body
<1>3. /\ write_msgs \in Seq(Nat) /\ write_msgs # <<>> /\ Len(write_msgs) \in Nat \ {0}
      /\ 1 \in DOMAIN write_msgs /\ Head(write_msgs) = write_msgs[1]
      /\ write_msgs[1] = b - Len(write_msgs) + 1 /\ Len(write_msgs) <= b
  BY <1>1, <1>2, LenProperties, HeadTailProperties, EmptySeq
     DEF PostInv, PostTypeOK, Queue, NotWriting
<1>4. b - Len(write_msgs) \in Nat /\ 2 * (b - Len(write_msgs)) + 2 <= 2 * b
  BY <1>1, <1>3
<1>5. part \in Nat \X {Header, Body} /\ writing' \in {NotWriting, 0, Header, Body}
  BY <1>2, <1>3, <1>4 DEF Header, Body
<1>6. PostTypeOK' /\ Life'
  BY <1>2, <1>5, AppendProperties DEF PostInv, PostTypeOK, Life
<1>7. Tasks(b)'
  BY <1>1, <1>2 DEF Tasks
<1>8. Queue(b)'
  BY <1>1, <1>2, <1>3 DEF Queue
<1>9. PartsRead' = PartsRead /\ PartsRead \in Nat /\ Len(wire) \in Nat
  BY <1>2, PartsReadNat, LenProperties DEF PostInv, PostTypeOK, PartsRead
<1>10. Stream(b)'
  <2>1. CASE broken \/ session = "ended"
    <3>1. wire' = wire
      BY <1>2, <2>1
    <3> QED
      BY <1>1, <1>2, <1>9, <2>1, <3>1 DEF Stream, PartAt
  <2>2. CASE ~broken /\ session # "ended"
    <3>1. /\ Len(wire') = Len(wire) + 1 /\ DOMAIN wire' = 1 .. Len(wire) + 1
          /\ DOMAIN wire = 1 .. Len(wire)
          /\ \A i \in 1 .. Len(wire) : wire'[i] = wire[i]
          /\ wire'[Len(wire) + 1] = part
      BY <1>2, <1>5, <2>2, AppendProperties, LenProperties DEF PostInv, PostTypeOK
    <3>2. PartsRead + Len(wire) = 2 * (b - Len(write_msgs)) + writing
      BY <1>1, <1>2, <2>2 DEF Stream, PartsSent, NotWriting
    <3>3. PartsSent(b)' = 2 * (b - Len(write_msgs)) + (writing + 1)
      BY SMTT(30), <1>2 DEF PartsSent, NotWriting
    <3>4. PartsRead + Len(wire') = PartsSent(b)' /\ PartsRead + Len(wire') <= 2 * b
      BY <1>2, <1>4, <1>9, <3>1, <3>2, <3>3
    <3>5. part = PartAt(2 * (b - Len(write_msgs)) + (writing + 1))
      <4>1. CASE writing = 0
        <5>1. PartAt(2 * (b - Len(write_msgs)) + 1) = <<b - Len(write_msgs) + 1, Header>>
          BY <1>4, HeaderPart
        <5>2. part = <<b - Len(write_msgs) + 1, 0 + 1>> /\ Header = 0 + 1
          BY <1>3, <4>1 DEF Header
        <5> QED
          BY <4>1, <5>1, <5>2
      <4>2. CASE writing = 1
        <5>1. PartAt(2 * (b - Len(write_msgs)) + 2) = <<b - Len(write_msgs) + 1, Body>>
          BY <1>4, BodyPart
        <5>2. part = <<b - Len(write_msgs) + 1, 1 + 1>> /\ Body = 1 + 1
          BY <1>3, <4>2 DEF Body
        <5> QED
          BY <4>2, <5>1, <5>2
      <4> QED
        BY <1>2, <4>1, <4>2
    <3>6. PartsRead + (Len(wire) + 1) = 2 * (b - Len(write_msgs)) + (writing + 1)
      BY <1>2, <1>4, <1>9, <3>2
    <3>7. ASSUME NEW i \in DOMAIN wire' PROVE wire'[i] = PartAt(PartsRead + i)
      <4>1. CASE i \in 1 .. Len(wire)
        BY <1>1, <2>2, <3>1, <4>1 DEF Stream
      <4>2. CASE i = Len(wire) + 1
        BY <3>1, <3>5, <3>6, <4>2
      <4> QED
        BY <3>1, <4>1, <4>2
    <3> QED
      BY <1>2, <1>9, <3>4, <3>7 DEF Stream, PartAt
  <2> QED
    BY <2>1, <2>2
<1> QED
  BY <1>1, <1>2, <1>6, <1>7, <1>8, <1>10 DEF PostInv

\* An answer that is written leaves the queue.
LEMMA HandleWrittenInv ==
  ASSUME PostInv, HandleWritten PROVE PostInv'
<1> USE DEF HandleWritten, netVars, serverVars
<1>1. PICK b \in 0 .. taken : Tasks(b) /\ Queue(b) /\ Stream(b)
  BY DEF PostInv
<1>2. /\ writing = 2 /\ write_msgs' = Tail(write_msgs)
      /\ writing' = (IF Tail(write_msgs) = <<>> THEN NotWriting ELSE 0)
      /\ UNCHANGED <<taken, connected, posted, phase, netVars, serverVars>>
  BY DEF Body
<1>3. write_msgs \in Seq(Nat) /\ write_msgs # <<>>
  BY <1>1, <1>2 DEF PostInv, PostTypeOK, Queue, NotWriting
<1>4. /\ Len(write_msgs) \in Nat \ {0} /\ DOMAIN write_msgs = 1 .. Len(write_msgs)
      /\ write_msgs' \in Seq(Nat) /\ Len(write_msgs') = Len(write_msgs) - 1
      /\ DOMAIN write_msgs' = 1 .. Len(write_msgs')
      /\ \A i \in 1 .. Len(write_msgs') : write_msgs'[i] = write_msgs[i + 1]
  BY <1>2, <1>3, HeadTailProperties, LenProperties, EmptySeq
<1>5. PostTypeOK' /\ Life'
  BY <1>2, <1>4 DEF PostInv, PostTypeOK, Life
<1>6. Tasks(b)'
  BY <1>1, <1>2 DEF Tasks
<1>7. Queue(b)'
  <2>1. Len(write_msgs') <= b
    BY <1>1, <1>4 DEF Queue
  <2>2. ASSUME NEW i \in DOMAIN write_msgs'
        PROVE  write_msgs'[i] = b - Len(write_msgs') + i
    <3>1. i + 1 \in DOMAIN write_msgs /\ write_msgs'[i] = write_msgs[i + 1] /\ i \in Nat
      BY <1>4
    <3>2. write_msgs[i + 1] = b - Len(write_msgs) + (i + 1)
      BY <1>1, <3>1 DEF Queue
    <3> QED
      BY <1>1, <1>4, <3>1, <3>2
  <2> QED
    BY <1>2, <2>1, <2>2 DEF Queue
<1>8. Stream(b)'
  <2>1. PartsRead' = PartsRead
    BY <1>2 DEF PartsRead
  <2>2. PartsSent(b)' = PartsSent(b)
    <3>1. PartsSent(b) = 2 * (b - Len(write_msgs)) + 2
      BY <1>2 DEF PartsSent, NotWriting
    <3>2. PartsSent(b)' = 2 * (b - Len(write_msgs')) + 0
      BY <1>2 DEF PartsSent, NotWriting
    <3> QED
      BY <1>1, <1>4, <3>1, <3>2
  <2> QED
    BY <1>1, <1>2, <2>1, <2>2 DEF Stream, PartAt
<1> QED
  BY <1>1, <1>2, <1>5, <1>6, <1>7, <1>8 DEF PostInv

\* After an error the connection is useless already, so that nothing is promised
\* of the message that stays in the queue.
LEMMA HandleWriteErrorInv ==
  ASSUME PostInv, HandleWriteError PROVE PostInv'
<1> USE DEF HandleWriteError, netVars, serverVars
<1>1. PICK b \in 0 .. taken : Tasks(b) /\ Queue(b) /\ Stream(b)
  BY DEF PostInv
<1>2. posted' \in Seq(Nat) /\ Tasks(b)'
  BY <1>1, CloseTaskPosted DEF PostInv
<1>3. PostTypeOK' /\ Life'
  BY <1>2 DEF PostInv, PostTypeOK, Life
<1>4. Queue(b)'
  BY <1>1 DEF Queue
<1>5. Stream(b)'
  <2>1. PartsRead' = PartsRead /\ (phase = "closed" \/ broken \/ session = "ended")
    BY DEF PartsRead
  <2> QED
    BY <1>1, <2>1 DEF Stream, PartAt
<1> QED
  BY <1>1, <1>2, <1>3, <1>4, <1>5 DEF PostInv

-----------------------------------------------------------------------------
(* The network and the server.                                             *)

\* A connection that breaks loses parts at the end of the stream.
LEMMA BreakInv ==
  ASSUME PostInv, Break PROVE PostInv'
<1> USE DEF Break, clientVars, serverVars
<1>1. PICK b \in 0 .. taken : Tasks(b) /\ Queue(b) /\ Stream(b)
  BY DEF PostInv
<1>2. /\ UNCHANGED <<taken, connected, posted, write_msgs, writing, phase, session, received>>
      /\ session # "none" /\ broken'
  OBVIOUS
<1>3. PICK n \in 0 .. Len(wire) : wire' = SubSeq(wire, 1, n)
  OBVIOUS
<1>4. /\ wire \in Seq(Nat \X {Header, Body}) /\ Len(wire) \in Nat
      /\ DOMAIN wire = 1 .. Len(wire)
  BY LenProperties DEF PostInv, PostTypeOK
<1>5. /\ wire' \in Seq(Nat \X {Header, Body}) /\ Len(wire') = n /\ n \in Nat
      /\ DOMAIN wire' = 1 .. n /\ \A i \in 1 .. n : i \in DOMAIN wire /\ wire'[i] = wire[i]
  BY <1>3, <1>4
<1>6. PostTypeOK' /\ Life'
  BY <1>2, <1>5 DEF PostInv, PostTypeOK, Life
<1>7. Tasks(b)' /\ Queue(b)'
  BY <1>1, <1>2 DEF Tasks, Queue
<1>8. Stream(b)'
  <2>1. PartsRead' = PartsRead /\ PartsRead \in Nat
    BY <1>2, PartsReadNat DEF PostInv, PartsRead
  <2>2. PartsRead' + Len(wire') <= 2 * b
    BY <1>1, <1>3, <1>4, <1>5, <2>1 DEF Stream
  <2>3. session # "ended" => \A i \in DOMAIN wire' : wire'[i] = PartAt(PartsRead + i)
    BY <1>1, <1>5 DEF Stream
  <2> QED
    BY <1>2, <2>1, <2>2, <2>3 DEF Stream, PartAt
<1> QED
  BY <1>1, <1>2, <1>6, <1>7, <1>8 DEF PostInv

\* The server starts with a header.
LEMMA HandleAcceptInv ==
  ASSUME PostInv, HandleAccept PROVE PostInv'
<1> USE DEF HandleAccept, clientVars, netVars
<1>1. PICK b \in 0 .. taken : Tasks(b) /\ Queue(b) /\ Stream(b)
  BY DEF PostInv
<1>2. PostTypeOK' /\ Life' /\ Tasks(b)' /\ Queue(b)'
  BY <1>1 DEF PostInv, PostTypeOK, Life, Tasks, Queue
<1>3. Stream(b)'
  <2>1. PartsRead' = PartsRead /\ PartsSent(b)' = PartsSent(b) /\ session # "ended"
    BY DEF PartsRead, PartsSent
  <2> QED
    BY <1>1, <2>1 DEF Stream, PartAt
<1> QED
  BY <1>1, <1>2, <1>3 DEF PostInv

\* After a header the server reads a body.
LEMMA ReadHeaderInv ==
  ASSUME PostInv, ReadHeader PROVE PostInv'
<1> USE DEF ReadHeader, clientVars
<1>1. PICK b \in 0 .. taken : Tasks(b) /\ Queue(b) /\ Stream(b)
  BY DEF PostInv
<1>2. wire' \in Seq(Nat \X {Header, Body})
  BY HeadTailProperties DEF PostInv, PostTypeOK
<1>3. PostTypeOK' /\ Life' /\ Tasks(b)' /\ Queue(b)'
  BY <1>1, <1>2 DEF PostInv, PostTypeOK, Life, Tasks, Queue
<1>4. PartsRead' = PartsRead + 1
  <2>1. PartsRead = 2 * Len(received) + 0 /\ PartsRead' = 2 * Len(received) + 1
    BY DEF PartsRead
  <2>2. Len(received) \in Nat
    BY LenProperties DEF PostInv, PostTypeOK
  <2> QED
    BY <2>1, <2>2
<1>5. Stream(b)'
  BY <1>1, <1>3, <1>4, PartTaken DEF PostInv
<1> QED
  BY <1>1, <1>3, <1>5 DEF PostInv

\* After a body the server has one answer more, the next one.
LEMMA ReadBodyInv ==
  ASSUME PostInv, ReadBody PROVE PostInv'
<1> USE DEF ReadBody, clientVars
<1>1. PICK b \in 0 .. taken : Tasks(b) /\ Queue(b) /\ Stream(b)
  BY DEF PostInv
<1>2. wire \in Seq(Nat \X {Header, Body}) /\ wire # <<>> /\ received \in Seq(Nat)
  BY DEF PostInv, PostTypeOK
<1>3. /\ wire' \in Seq(Nat \X {Header, Body}) /\ Head(wire) \in Nat \X {Header, Body}
      /\ Head(wire)[1] \in Nat
  BY <1>2, HeadTailProperties
<1>4. /\ received' \in Seq(Nat) /\ Len(received') = Len(received) + 1
      /\ Len(received) \in Nat
  BY <1>2, <1>3, AppendProperties, LenProperties
<1>5. PostTypeOK' /\ Life' /\ Tasks(b)' /\ Queue(b)'
  BY <1>1, <1>3, <1>4 DEF PostInv, PostTypeOK, Life, Tasks, Queue
<1>6. PartsRead' = PartsRead + 1
  <2>1. PartsRead = 2 * Len(received) + 1 /\ PartsRead' = 2 * Len(received') + 0
    BY DEF PartsRead
  <2> QED
    BY <1>4, <2>1
<1>7. Stream(b)'
  BY <1>1, <1>5, <1>6, PartTaken DEF PostInv
<1> QED
  BY <1>1, <1>5, <1>7 DEF PostInv

\* A session that ends reads no more.
LEMMA ReadErrorInv ==
  ASSUME PostInv, ReadError PROVE PostInv'
<1> USE DEF ReadError, clientVars, netVars
<1>1. PICK b \in 0 .. taken : Tasks(b) /\ Queue(b) /\ Stream(b)
  BY DEF PostInv
<1>2. PostTypeOK' /\ Life' /\ Tasks(b)' /\ Queue(b)'
  BY <1>1 DEF PostInv, PostTypeOK, Life, Tasks, Queue
<1>3. Stream(b)'
  <2>1. PartsRead' \in Nat /\ PartsRead \in Nat /\ PartsRead' <= PartsRead
    <3>1. Len(received) \in Nat
      BY LenProperties DEF PostInv, PostTypeOK
    <3>2. PartsRead' = 2 * Len(received) + 0
      BY DEF PartsRead
    <3>3. PartsRead \in {2 * Len(received) + 0, 2 * Len(received) + 1}
      BY DEF PartsRead
    <3> QED
      BY <3>1, <3>2, <3>3
  <2>2. Len(wire) \in Nat
    BY LenProperties DEF PostInv, PostTypeOK
  <2> QED
    BY <1>1, <2>1, <2>2 DEF Stream
<1> QED
  BY <1>1, <1>2, <1>3 DEF PostInv

-----------------------------------------------------------------------------
(* The theorems.                                                           *)

\* No handler of the client, the server or the network disturbs the invariant.
THEOREM PostStepInv ==
  ASSUME PostInv, [PostNext]_postVars PROVE PostInv'
<1>1. CASE ClientHandler
  BY <1>1, HandleConnectInv, CloseInv, DoSendMessageInv, DoCloseInv, HandleWrittenInv,
     HandleWriteErrorInv DEF ClientHandler
<1>2. CASE ServerHandler
  <2>1. CASE ServerDoClose
    BY <2>1, SameInv DEF ServerDoClose, clientVars, netVars
  <2> QED
    BY <1>2, <2>1, HandleAcceptInv, ReadHeaderInv, ReadBodyInv, ReadErrorInv DEF ServerHandler
<1>3. CASE SendAnswer \/ Close \/ Stop \/ Transmit \/ Break
  BY <1>3, SendAnswerInv, CloseInv, StopInv, TransmitInv, BreakInv
<1>4. CASE ServerClose \/ UNCHANGED postVars
  BY <1>4, SameInv DEF ServerClose, postVars, clientVars, netVars, serverVars
<1> QED
  BY <1>1, <1>2, <1>3, <1>4 DEF PostNext

\* The invariant holds throughout the posting.
THEOREM PostInvariance == PostSpec => []PostInv
  BY PostInitInv, PostStepInv, PTL DEF PostSpec

\* The posting implements the abstract feed, with the server as its one client: an
\* answer that reaches the callback is the next one that send_answer() took, none
\* is missing before it and none comes twice, whatever breaks, closes or stops.
THEOREM PostFeedImplemented == PostSpec => AnswersInOrder
<1>1. PostInit => Feed!Init
  BY DEF PostInit, Feed!Init, Feed!NotJoined
<1>2. ASSUME PostInv, [PostNext]_postVars PROVE [Feed!Next]_(Feed!vars)
  <2> USE DEF clientVars, netVars, serverVars, Feed!vars
  <2>1. CASE SendAnswer
    <3>1. CASE connected
      BY <2>1, <3>1 DEF SendAnswer, Feed!Next, Feed!Broadcast
    <3>2. CASE ~connected
      BY <2>1, <3>2 DEF SendAnswer
    <3> QED
      BY <3>1, <3>2
  <2>2. CASE HandleConnect
    <3>1. session = "none" /\ taken = 0 /\ session' # "none" /\ UNCHANGED <<taken, received>>
      BY <1>2, <2>2 DEF PostInv, Life, HandleConnect
    <3>2. Feed!Join("server")
      BY <3>1 DEF Feed!Join, Feed!NotJoined
    <3> QED
      BY <3>2 DEF Feed!Next
  <2>3. CASE ReadBody
    <3>1. /\ session = "body" /\ wire # <<>> /\ session' = "header"
          /\ received' = Append(received, Head(wire)[1]) /\ UNCHANGED taken
      BY <2>3 DEF ReadBody
    <3>2. PICK b \in 0 .. taken : Stream(b)
      BY <1>2 DEF PostInv
    <3>3. /\ Len(received) \in Nat /\ Len(wire) \in Nat \ {0} /\ 1 \in DOMAIN wire
          /\ Head(wire) = wire[1] /\ taken \in Nat
      BY <1>2, <3>1, LenProperties, HeadTailProperties, EmptySeq DEF PostInv, PostTypeOK
    <3>4. PartsRead = 2 * Len(received) + 1
      BY <1>2, <3>1, PartsReadNat DEF PostInv
    <3>5. Head(wire)[1] = Len(received) + 1
      <4>1. wire[1] = PartAt(PartsRead + 1)
        BY <3>1, <3>2, <3>3 DEF Stream
      <4>2. PartsRead + 1 = 2 * Len(received) + 2
        BY <3>3, <3>4
      <4>3. wire[1] = <<Len(received) + 1, Body>>
        BY <3>3, <4>1, <4>2, BodyPart
      <4> QED
        BY <3>3, <4>3
    <3>6. 0 + Len(received) < taken
      BY <3>2, <3>3, <3>4 DEF Stream
    <3>7. Feed!Deliver("server")
      BY <3>1, <3>3, <3>5, <3>6 DEF Feed!Deliver, Feed!NotJoined
    <3> QED
      BY <3>7 DEF Feed!Next
  <2>4. CASE \/ Close \/ Stop \/ ServerClose \/ HandleConnectError \/ DoSendMessage \/ DoClose
             \/ HandleWritten \/ HandleWriteError \/ ServerDoClose \/ Transmit \/ Break
             \/ UNCHANGED postVars
    BY <2>4 DEF Close, Stop, ServerClose, HandleConnectError, DoSendMessage, DoClose,
           HandleWritten, HandleWriteError, ServerDoClose, Transmit, Break, postVars
  <2>5. CASE HandleAccept \/ ReadHeader \/ ReadError
    <3>1. session # "none" /\ session' # "none" /\ UNCHANGED <<taken, received>>
      BY <2>5 DEF HandleAccept, ReadHeader, ReadError
    <3> QED
      BY <3>1
  <2> QED
    BY <1>2, <2>1, <2>2, <2>3, <2>4, <2>5 DEF PostNext, ClientHandler, ServerHandler
<1> QED
  BY <1>1, <1>2, PostInvariance, PTL DEF PostSpec, AnswersInOrder, Feed!Spec

=============================================================================
