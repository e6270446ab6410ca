----------------------- MODULE AdmissibleBoard_proofs -----------------------
(***************************************************************************)
(* Proofs about AdmissibleBoard and BoardFeatures for boards of any size   *)
(* and any costs: the distances, the parity and all the other features     *)
(* that moves and selections carry along are those of the board, and a     *)
(* board that the parity condemns is lost.  The lemmas are about one board *)
(* record and one operation, so that they serve the boards of the exact    *)
(* solver too.                                                             *)
(***************************************************************************)
EXTENDS BoardFeatures, BackwardPlay, Answer_proofs

-----------------------------------------------------------------------------
(* Pairs of cells.  An inversion is a pair, its later cell first, in which *)
(* the pieces are in the wrong order.                                      *)

\* Pairs of cells, the later one first; those whose pieces are out of order are the
\* inversions.
Pairs == {pq \in Points \X Points : Before(pq[2], pq[1])}

\* The pairs of places whose pieces are out of order.
Inversions(cell) == {pq \in Pairs : Before(cell[pq[1]], cell[pq[2]])}

\* The pairs of cells that change their order when p and q change places: p and q
\* themselves, and with each of the cells between them both.
Exchange(p, q) == [r \in Points |-> IF r = p THEN q ELSE IF r = q THEN p ELSE r]

\* The pairs of cells whose order an exchange turns.
Turned(p, q) == {pq \in Pairs : Before(Exchange(p, q)[pq[1]], Exchange(p, q)[pq[2]])}

\* The reading order is a total order of the cells.
LEMMA BeforeOrder ==
  /\ \A a \in Points : ~Before(a, a)
  /\ \A a, b \in Points : a # b => Before(a, b) \/ Before(b, a)
  /\ \A a, b \in Points : ~(Before(a, b) /\ Before(b, a))
  /\ \A a, b, c \in Points : Before(a, b) /\ Before(b, c) => Before(a, c)
BY SizeAssumption DEF Before, Points

\* What is counted is finite.
LEMMA PairsFinite ==
  /\ IsFiniteSet(Points) /\ IsFiniteSet(Points \X Points) /\ IsFiniteSet(Pairs)
<1>1. IsFiniteSet(0 .. Height - 1) /\ IsFiniteSet(0 .. Width - 1)
  BY FS_Interval, SizeAssumption
<1>2. IsFiniteSet(Points)
  BY <1>1, FS_Product DEF Points
<1>3. IsFiniteSet(Points \X Points)
  BY <1>2, FS_Product
<1> QED
  BY <1>2, <1>3, FS_Subset DEF Pairs

\* Exchanging twice changes nothing; a board after a swap is the board read through
\* the exchange.
LEMMA ExchangeFacts ==
  ASSUME NEW p \in Points, NEW q \in Points
  PROVE  /\ Exchange(p, q) \in [Points -> Points]
         /\ \A r \in Points : Exchange(p, q)[Exchange(p, q)[r]] = r
         /\ \A cell \in [Points -> Points], r \in Points :
              Swapped(cell, p, q)[r] = cell[Exchange(p, q)[r]]
BY DEF Exchange, Swapped

\* The pairs that are turned are an odd number: the pair of p and q, and twice as
\* many as there are cells between them.
LEMMA TurnedOdd ==
  ASSUME NEW p \in Points, NEW q \in Points, Before(p, q)
  PROVE  IsFiniteSet(Turned(p, q)) /\ Odd(Cardinality(Turned(p, q)))
<1> DEFINE x == Exchange(p, q)
           between == {r \in Points : Before(p, r) /\ Before(r, q)}
           fromQ == {pq \in Pairs : pq[1] = q /\ Before(p, pq[2])}
           toP   == {pq \in Pairs : pq[2] = p /\ Before(pq[1], q)}
<1>1. p # q /\ <<q, p>> \in Pairs
  BY BeforeOrder DEF Pairs
<1>2. Turned(p, q) = (fromQ \cup toP) \cup {<<q, p>>}
  <2>1. ASSUME NEW pq \in Pairs
        PROVE  Before(x[pq[1]], x[pq[2]]) <=> pq \in fromQ \/ pq \in toP \/ pq = <<q, p>>
    <3> DEFINE a == pq[1]
               b == pq[2]
    <3>1. a \in Points /\ b \in Points /\ Before(b, a) /\ a # b /\ pq = <<a, b>>
      BY BeforeOrder DEF Pairs
    <3>2. x[a] = (IF a = p THEN q ELSE IF a = q THEN p ELSE a)
      BY <3>1 DEF Exchange
    <3>3. x[b] = (IF b = p THEN q ELSE IF b = q THEN p ELSE b)
      BY <3>1 DEF Exchange
    <3>4. CASE a = p
      BY <1>1, <3>1, <3>2, <3>3, <3>4, BeforeOrder
    <3>5. CASE a = q
      BY <1>1, <3>1, <3>2, <3>3, <3>5, BeforeOrder
    <3>6. CASE a # p /\ a # q
      BY <1>1, <3>1, <3>2, <3>3, <3>6, BeforeOrder
    <3> QED
      BY <3>4, <3>5, <3>6
  <2> QED
    BY <1>1, <2>1 DEF Turned
<1>3. IsFiniteSet(fromQ) /\ IsFiniteSet(toP)
  BY PairsFinite, FS_Subset
<1>4. Cardinality(toP) = Cardinality(fromQ)
  <2> DEFINE f == [pq \in fromQ |-> <<pq[2], p>>]
             g == [pq \in toP |-> <<q, pq[1]>>]
  <2>1. f \in [fromQ -> toP]
    BY DEF Pairs
  <2>2. g \in [toP -> fromQ]
    BY DEF Pairs
  <2>3. \A pq \in fromQ : g[f[pq]] = pq
    BY <2>1 DEF Pairs
  <2>4. \A pq \in toP : f[g[pq]] = pq
    BY <2>2 DEF Pairs
  <2> HIDE DEF f, g, fromQ, toP
  <2> QED
    BY <1>3, <2>1, <2>2, <2>3, <2>4, SameSize
<1>5. fromQ \cap toP = {} /\ <<q, p>> \notin fromQ \cup toP
  BY BeforeOrder DEF Pairs
<1> HIDE DEF fromQ, toP
<1>6. /\ IsFiniteSet(fromQ \cup toP)
      /\ Cardinality(fromQ \cup toP) = Cardinality(fromQ) + Cardinality(toP) - 0
  BY <1>3, <1>5, FS_Union, FS_EmptySet
<1>7. /\ IsFiniteSet(Turned(p, q))
      /\ Cardinality(Turned(p, q)) = Cardinality(fromQ) + Cardinality(toP) - 0 + 1
  BY <1>2, <1>5, <1>6, FS_AddElement
<1>8. Cardinality(fromQ) \in Nat
  BY <1>3, FS_CardinalityType
<1> QED
  BY <1>4, <1>7, <1>8 DEF Odd

\* The cells that change places keep their order with the other cells or turn it:
\* <<a, b>> is an inversion of the new board if its image is one of the old board,
\* or, where it is turned, if its image is none.
LEMMA ExchangeTurnsParity ==
  ASSUME NEW cell \in Boards, NEW p \in Points, NEW q \in Points, Before(p, q)
  PROVE  OddPermutation(Swapped(cell, p, q)) # OddPermutation(cell)
<1> DEFINE x == Exchange(p, q)
           new == Swapped(cell, p, q)
           R == Turned(p, q)
           kept == Inversions(cell) \ R
           lost == Inversions(cell) \cap R
           keptNew == Inversions(new) \ R
           won == Inversions(new) \cap R
<1>1. /\ cell \in [Points -> Points] /\ \A a, b \in Points : cell[a] = cell[b] => a = b
      /\ x \in [Points -> Points] /\ \A r \in Points : x[x[r]] = r
      /\ \A r \in Points : new[r] = cell[x[r]]
  <2>1. cell \in [Points -> Points] /\ \A a, b \in Points : cell[a] = cell[b] => a = b
    BY DEF Boards, IsInjective
  <2>2. x \in [Points -> Points] /\ \A r \in Points : x[x[r]] = r
    BY ExchangeFacts
  <2>3. \A r \in Points : new[r] = cell[x[r]]
    BY <2>1 DEF Exchange, Swapped
  <2> HIDE DEF x, new
  <2> QED
    BY <2>1, <2>2, <2>3
<1>2. /\ IsFiniteSet(R) /\ IsFiniteSet(kept) /\ IsFiniteSet(lost)
      /\ IsFiniteSet(keptNew) /\ IsFiniteSet(won) /\ IsFiniteSet(R \ lost)
      /\ IsFiniteSet(Inversions(cell)) /\ IsFiniteSet(Inversions(new))
  <2>1. /\ R \subseteq Pairs /\ kept \subseteq Pairs /\ lost \subseteq Pairs
        /\ keptNew \subseteq Pairs /\ won \subseteq Pairs /\ R \ lost \subseteq Pairs
        /\ Inversions(cell) \subseteq Pairs /\ Inversions(new) \subseteq Pairs
    BY DEF Turned, Inversions
  <2> HIDE DEF R, kept, lost, keptNew, won
  <2> QED
    BY <2>1, PairsFinite, FS_Subset
<1>3. \A pq \in Pairs : /\ pq[1] \in Points /\ pq[2] \in Points /\ Before(pq[2], pq[1])
                        /\ pq = <<pq[1], pq[2]>>
  BY DEF Pairs
<1>4. \A a, b \in Points : Before(b, a) => <<a, b>> \in Pairs
  BY DEF Pairs
<1>5. \A pq \in Pairs : /\ pq \in R <=> Before(x[pq[1]], x[pq[2]])
                        /\ pq \notin R <=> Before(x[pq[2]], x[pq[1]])
  <2>1. ASSUME NEW pq \in Pairs PROVE pq \notin R <=> Before(x[pq[2]], x[pq[1]])
    <3>1. x[pq[1]] \in Points /\ x[pq[2]] \in Points /\ x[pq[1]] # x[pq[2]]
      BY <1>1, <1>3, BeforeOrder
    <3> QED
      BY <3>1, BeforeOrder DEF Turned
  <2> QED
    BY <2>1 DEF Turned
<1>6. \A pq \in Pairs : /\ pq \in Inversions(cell) <=> Before(cell[pq[1]], cell[pq[2]])
                        /\ pq \notin Inversions(cell) <=> Before(cell[pq[2]], cell[pq[1]])
                        /\ pq \in Inversions(new) <=> Before(cell[x[pq[1]]], cell[x[pq[2]]])
  <2>1. ASSUME NEW pq \in Pairs
        PROVE  pq \notin Inversions(cell) <=> Before(cell[pq[2]], cell[pq[1]])
    <3>1. cell[pq[1]] \in Points /\ cell[pq[2]] \in Points /\ cell[pq[1]] # cell[pq[2]]
      BY <1>1, <1>3, BeforeOrder
    <3> QED
      BY <3>1, BeforeOrder DEF Inversions
  <2> QED
    BY <1>1, <1>3, <2>1 DEF Inversions
<1>7. Cardinality(keptNew) = Cardinality(kept)
  <2> DEFINE f == [pq \in kept |-> <<x[pq[1]], x[pq[2]]>>]
             g == [pq \in keptNew |-> <<x[pq[1]], x[pq[2]]>>]
  <2> HIDE DEF x, new, R
  <2>1. ASSUME NEW pq \in Pairs, pq \notin R
        PROVE  LET image == <<x[pq[1]], x[pq[2]]>>
               IN  /\ image \in Pairs /\ image \notin R
                   /\ x[image[1]] = pq[1] /\ x[image[2]] = pq[2]
    <3>1. /\ x[pq[1]] \in Points /\ x[pq[2]] \in Points /\ Before(x[pq[2]], x[pq[1]])
          /\ x[x[pq[1]]] = pq[1] /\ x[x[pq[2]]] = pq[2] /\ Before(pq[2], pq[1])
      BY <1>1, <1>3, <1>5, <2>1
    <3> QED
      BY <1>4, <1>5, <3>1
  <2>2. f \in [kept -> keptNew]
    BY <1>3, <1>6, <2>1 DEF Inversions
  <2>3. g \in [keptNew -> kept]
    BY <1>3, <1>6, <2>1 DEF Inversions
  <2>4. \A pq \in kept : g[f[pq]] = pq
    BY <1>3, <2>1, <2>2 DEF Inversions
  <2>5. \A pq \in keptNew : f[g[pq]] = pq
    BY <1>3, <2>1, <2>3 DEF Inversions
  <2> HIDE DEF f, g, kept, keptNew
  <2> QED
    BY <1>2, <2>2, <2>3, <2>4, <2>5, SameSize
<1>8. Cardinality(won) = Cardinality(R \ lost)
  <2> DEFINE f == [pq \in R \ lost |-> <<x[pq[2]], x[pq[1]]>>]
             g == [pq \in won |-> <<x[pq[2]], x[pq[1]]>>]
  <2>0. R \subseteq Pairs
    BY DEF Turned
  <2> HIDE DEF x, new, R
  <2>1. ASSUME NEW pq \in R
        PROVE  LET image == <<x[pq[2]], x[pq[1]]>>
               IN  /\ image \in R /\ x[image[2]] = pq[1] /\ x[image[1]] = pq[2]
    <3>1. /\ x[pq[1]] \in Points /\ x[pq[2]] \in Points /\ Before(x[pq[1]], x[pq[2]])
          /\ x[x[pq[1]]] = pq[1] /\ x[x[pq[2]]] = pq[2] /\ Before(pq[2], pq[1])
      BY <1>1, <1>3, <1>5, <2>0, <2>1
    <3> QED
      BY <1>4, <1>5, <3>1
  <2>2. f \in [R \ lost -> won]
    BY <1>3, <1>6, <2>0, <2>1
  <2>3. g \in [won -> R \ lost]
    BY <1>3, <1>6, <2>0, <2>1
  <2>4. \A pq \in R \ lost : g[f[pq]] = pq
    BY <1>3, <2>0, <2>1, <2>2
  <2>5. \A pq \in won : f[g[pq]] = pq
    BY <1>3, <2>0, <2>1, <2>3
  <2>6. IsFiniteSet(R \ lost)
    BY <1>2
  <2> HIDE DEF f, g, lost, won
  <2> QED
    BY <2>2, <2>3, <2>4, <2>5, <2>6, SameSize
<1> HIDE DEF x, new, R
<1>9. Inversions(cell) = kept \cup lost /\ Inversions(new) = keptNew \cup won
  OBVIOUS
<1>10. kept \cap lost = {} /\ keptNew \cap won = {} /\ R \cap lost = lost
  OBVIOUS
<1> HIDE DEF kept, lost, keptNew, won
<1>11. /\ Cardinality(Inversions(cell)) = Cardinality(kept) + Cardinality(lost) - 0
       /\ Cardinality(Inversions(new)) = Cardinality(keptNew) + Cardinality(won) - 0
  BY <1>2, <1>9, <1>10, FS_Union, FS_EmptySet
<1>12. Cardinality(R \ lost) = Cardinality(R) - Cardinality(lost)
  BY <1>2, <1>10, FS_Difference
<1>13. Odd(Cardinality(R))
  BY TurnedOdd DEF R
<1>14. /\ Cardinality(kept) \in Nat /\ Cardinality(lost) \in Nat /\ Cardinality(R) \in Nat
  BY <1>2, FS_CardinalityType
<1>15. /\ OddPermutation(cell) <=> Odd(Cardinality(Inversions(cell)))
       /\ OddPermutation(new) <=> Odd(Cardinality(Inversions(new)))
  <2>1. \A c : {pq \in Points \X Points :
                 Before(pq[2], pq[1]) /\ Before(c[pq[1]], c[pq[2]])} = Inversions(c)
    BY DEF Inversions, Pairs
  <2> QED
    BY <2>1 DEF OddPermutation, Odd
<1>16. \A k, l, r \in Int : r % 2 = 1 => ((k + (r - l)) % 2 = 1 <=> ~((k + l) % 2 = 1))
  OBVIOUS
<1>17. Odd(Cardinality(Inversions(new))) <=> ~Odd(Cardinality(Inversions(cell)))
  BY <1>7, <1>8, <1>11, <1>12, <1>13, <1>14, <1>16 DEF Odd
<1> QED
  BY <1>15, <1>17 DEF new, OddPermutation

\* The finished board has no inversion.
LEMMA AlignedEven ==
  ASSUME NEW cell \in Boards, Aligned(cell)
  PROVE  ~OddPermutation(cell)
<1>1. {pq \in Points \X Points :
         Before(pq[2], pq[1]) /\ Before(cell[pq[1]], cell[pq[2]])} = {}
  BY BeforeOrder DEF Aligned
<1> QED
  BY <1>1, FS_EmptySet DEF OddPermutation

-----------------------------------------------------------------------------
(* The operations.                                                         *)

\* A step changes the distance of the piece that makes it by one, up or down as the
\* comparison of a single coordinate says.
LEMMA StepDistance ==
  ASSUME NEW p \in Points, NEW home \in Points, NEW dir \in Directions,
         Neighbour(p, dir) \in Points
  PROVE  /\ Distance(p, home) \in Nat
         /\ Distance(Neighbour(p, dir), home) = Distance(p, home) + Step(p, home, dir)
         /\ Odd(Distance(Neighbour(p, dir), home)) <=> ~Odd(Distance(p, home))
<1>1. p[1] \in Int /\ p[2] \in Int /\ home[1] \in Int /\ home[2] \in Int
  BY SizeAssumption DEF Points
<1>2. Distance(p, home) \in Nat /\ Distance(Neighbour(p, dir), home) \in Nat
  BY <1>1 DEF Distance, Absolute, Neighbour, Delta
<1>3. /\ Distance(Neighbour(p, dir), home) = Distance(p, home) + Step(p, home, dir)
      /\ Step(p, home, dir) \in {-1, 1}
  BY <1>1 DEF Distance, Absolute, Neighbour, Delta, Step, Directions, Up, Right, Down, Left
<1>4. \A d, e \in Nat : e = d + 1 \/ e = d + -1 => (e % 2 = 1 <=> ~(d % 2 = 1))
  OBVIOUS
<1> QED
  BY <1>2, <1>3, <1>4 DEF Odd

\* A move keeps the board a permutation, takes the selected piece along, and turns the
\* parity.
LEMMA MovedCells ==
  ASSUME NEW cell \in Boards, NEW p \in Points, NEW dir \in Directions,
         Neighbour(p, dir) \in Points
  PROVE  LET next == Neighbour(p, dir)
             new  == Swapped(cell, p, next)
         IN  /\ new \in Boards /\ new[next] = cell[p]
             /\ OddPermutation(new) <=> ~OddPermutation(cell)
<1> DEFINE next == Neighbour(p, dir)
           new  == Swapped(cell, p, next)
<1>1. cell \in [Points -> Points] /\ \A a, b \in Points : cell[a] = cell[b] => a = b
  BY DEF Boards, IsInjective
<1>2. p # next
  BY SizeAssumption DEF Points, Neighbour, Delta
<1> HIDE DEF next
<1>3. next \in Points
  BY DEF next
<1>4. new \in [Points -> Points] /\ new[next] = cell[p]
  BY <1>1, <1>2, <1>3 DEF Swapped
<1>5. \A a, b \in Points : new[a] = new[b] => a = b
  BY <1>1, <1>2, <1>3 DEF Swapped
<1>6. new \in Boards
  BY <1>4, <1>5 DEF Boards, IsInjective
<1>7. OddPermutation(new) # OddPermutation(cell)
  <2>1. CASE Before(p, next)
    BY <1>3, <2>1, ExchangeTurnsParity
  <2>2. CASE Before(next, p)
    <3>1. Swapped(cell, next, p) = new
      BY <1>1, <1>2, <1>3 DEF Swapped
    <3>2. OddPermutation(Swapped(cell, next, p)) # OddPermutation(cell)
      BY <1>3, <2>2, ExchangeTurnsParity
    <3> QED
      BY <3>1, <3>2
  <2> QED
    BY <1>2, <1>3, <2>1, <2>2, BeforeOrder
<1>8. OddPermutation(new) <=> ~OddPermutation(cell)
  <2>1. OddPermutation(new) \in BOOLEAN /\ OddPermutation(cell) \in BOOLEAN
    BY DEF OddPermutation
  <2>2. \A a, b \in BOOLEAN : a # b => (a <=> ~b)
    OBVIOUS
  <2> QED
    BY <1>7, <2>1, <2>2, Zenon
<1> QED
  BY <1>4, <1>6, <1>8 DEF next

-----------------------------------------------------------------------------
(* The features of a board object that are carried along are those that     *)
(* init() finds.  Only the cost is not to be read off the board.            *)

\* A board as init() gets it.
IsBoard(b) == b.cell \in Boards /\ b.selected \in Points \cup {NoPoint}

\* A board whose parities and distance of the selected piece are those that init()
\* would compute.
Exact(b) ==
  IsBoard(b) /\ b = [InitBoard(b.cell, b.selected, b.selectionLimit) EXCEPT !.cost = b.cost]

\* What select() relies on: the distances add up to that of the whole board, and
\* the two parities to that of the permutation, whichever piece is selected.
Sound(b) ==
  /\ b.cell \in Boards
  /\ b.manhattan \in Nat /\ b.selManhattan \in Nat
  /\ b.manhattan + b.selManhattan = DistanceSum(b.cell, Points)
  /\ (b.parity # b.selParity) = OddPermutation(b.cell)

\* The place of no piece is not a place.
LEMMA NoPointOutside == NoPoint \notin Points
BY SizeAssumption DEF NoPoint, Points

\* A board is a one-to-one function of the cells.
LEMMA BoardCells ==
  ASSUME NEW cell \in Boards
  PROVE  /\ cell \in Cells /\ cell \in [Points -> Points] /\ \A p \in Points : cell[p] \in Points
         /\ \A p, q \in Points : cell[p] = cell[q] => p = q
BY DEF Boards, Cells, IsInjective

\* An exact board, field by field.
LEMMA ExactFields ==
  ASSUME NEW b, Exact(b)
  PROVE  /\ b.cell \in Boards /\ b.selected \in Points \cup {NoPoint}
         /\ b.manhattan = DistanceSum(b.cell, Points \ {b.selected})
         /\ b.selManhattan = SelManhattan(b.cell, b.selected)
         /\ b.selId = (IF IsSelected(b.selected) THEN b.cell[b.selected] ELSE NoPoint)
         /\ b.parity = (OddPermutation(b.cell) # Odd(b.selManhattan))
         /\ b.selParity = Odd(b.selManhattan)
         /\ b = [cell |-> b.cell, selected |-> b.selected, selectionLimit |-> b.selectionLimit,
                 cost |-> b.cost, manhattan |-> b.manhattan, selManhattan |-> b.selManhattan,
                 selId |-> b.selId, parity |-> b.parity, selParity |-> b.selParity]
<1>1. IsBoard(b) /\ b = [InitBoard(b.cell, b.selected, b.selectionLimit) EXCEPT !.cost = b.cost]
  BY DEF Exact
<1> DEFINE i == InitBoard(b.cell, b.selected, b.selectionLimit)
<1>2. /\ i.manhattan = DistanceSum(b.cell, Points \ {b.selected})
      /\ i.selManhattan = SelManhattan(b.cell, b.selected)
      /\ i.selId = (IF IsSelected(b.selected) THEN b.cell[b.selected] ELSE NoPoint)
      /\ i.parity = (OddPermutation(b.cell) # Odd(i.selManhattan))
      /\ i.selParity = Odd(i.selManhattan)
      /\ i = [cell |-> i.cell, selected |-> i.selected, selectionLimit |-> i.selectionLimit,
                 cost |-> i.cost, manhattan |-> i.manhattan, selManhattan |-> i.selManhattan,
                 selId |-> i.selId, parity |-> i.parity, selParity |-> i.selParity]
  BY DEF InitBoard, Manhattan, DistanceSum
<1> HIDE DEF i
<1>3. b = [i EXCEPT !.cost = b.cost]
  BY <1>1 DEF i
<1>4. /\ b.manhattan = i.manhattan /\ b.selManhattan = i.selManhattan /\ b.selId = i.selId
      /\ b.parity = i.parity /\ b.selParity = i.selParity
      /\ b = [cell |-> b.cell, selected |-> b.selected, selectionLimit |-> b.selectionLimit,
                 cost |-> b.cost, manhattan |-> b.manhattan, selManhattan |-> b.selManhattan,
                 selId |-> b.selId, parity |-> b.parity, selParity |-> b.selParity]
  BY <1>2, <1>3
<1> QED
  BY <1>1, <1>2, <1>4 DEF IsBoard

\* A board that is exact in every field is exact.
LEMMA FieldsExact ==
  ASSUME NEW cell \in Boards, NEW selected \in Points \cup {NoPoint}, NEW limit, NEW cost,
         NEW manhattan, manhattan = DistanceSum(cell, Points \ {selected}),
         NEW selManhattan, selManhattan = SelManhattan(cell, selected),
         NEW selId, selId = (IF IsSelected(selected) THEN cell[selected] ELSE NoPoint),
         NEW parity, parity = (OddPermutation(cell) # Odd(selManhattan)),
         NEW selParity, selParity = Odd(selManhattan)
  PROVE  Exact([cell |-> cell, selected |-> selected, selectionLimit |-> limit, cost |-> cost,
                manhattan |-> manhattan, selManhattan |-> selManhattan, selId |-> selId,
                parity |-> parity, selParity |-> selParity])
<1> DEFINE b == [cell |-> cell, selected |-> selected, selectionLimit |-> limit, cost |-> cost,
                manhattan |-> manhattan, selManhattan |-> selManhattan, selId |-> selId,
                parity |-> parity, selParity |-> selParity]
<1> DEFINE m == DistanceSum(cell, Points \ {selected})
           s == SelManhattan(cell, selected)
           i == IF IsSelected(selected) THEN cell[selected] ELSE NoPoint
           x == OddPermutation(cell) # Odd(s)
           y == Odd(s)
<1>3. InitBoard(cell, selected, limit) =
        [cell |-> cell, selected |-> selected, selectionLimit |-> limit, cost |-> 0,
         manhattan |-> m, selManhattan |-> s, selId |-> i, parity |-> x, selParity |-> y]
  BY DEF InitBoard, Manhattan, DistanceSum
<1>4. manhattan = m /\ selManhattan = s /\ selId = i /\ parity = x /\ selParity = y
  OBVIOUS
<1> HIDE DEF m, s, i, x, y
<1>1. InitBoard(cell, selected, limit) = [b EXCEPT !.cost = 0]
  BY ONLY <1>3, <1>4
<1>2. /\ b.cell = cell /\ b.selected = selected /\ b.selectionLimit = limit
      /\ b = [[b EXCEPT !.cost = 0] EXCEPT !.cost = b.cost]
  OBVIOUS
<1> HIDE DEF b
<1>5. Exact(b)
  BY <1>1, <1>2 DEF Exact, IsBoard
<1> QED
  BY <1>5 DEF b

\* The distance of the selected piece is a natural number.
LEMMA SelManhattanType ==
  ASSUME NEW cell \in Boards, NEW p \in Points \cup {NoPoint}
  PROVE  SelManhattan(cell, p) \in Nat
<1>1. CASE p \in Points
  <2>1. cell[p] \in Points
    BY <1>1, BoardCells
  <2> QED
    BY <1>1, <2>1, DistanceType DEF SelManhattan
<1>2. CASE p = NoPoint
  BY <1>2 DEF SelManhattan, IsSelected
<1> QED
  BY <1>1, <1>2

\* The distances of an exact board add up, and so do its parities.
LEMMA ExactSound ==
  ASSUME NEW b, Exact(b)
  PROVE  Sound(b)
<1>1. /\ b.cell \in Boards /\ b.selected \in Points \cup {NoPoint} /\ b.cell \in Cells
      /\ b.manhattan = DistanceSum(b.cell, Points \ {b.selected})
      /\ b.selManhattan = SelManhattan(b.cell, b.selected)
      /\ b.parity = (OddPermutation(b.cell) # Odd(b.selManhattan))
      /\ b.selParity = Odd(b.selManhattan)
  BY ExactFields, BoardCells
<1>2. b.manhattan + b.selManhattan = DistanceSum(b.cell, Points)
  <2>1. CASE b.selected \in Points
    <3>1. b.selManhattan = Distance(b.selected, b.cell[b.selected])
      BY <1>1, <2>1, NoPointOutside DEF SelManhattan, IsSelected
    <3>2. DistanceSum(b.cell, Points)
            = Distance(b.selected, b.cell[b.selected]) + DistanceSum(b.cell, Points \ {b.selected})
      <4> DEFINE cell == b.cell
                 p == b.selected
      <4>1. cell \in Cells /\ p \in Points /\ Points \in SUBSET Points
        BY <1>1, <2>1
      <4> HIDE DEF cell, p
      <4>2. DistanceSum(cell, Points) = Distance(p, cell[p]) + DistanceSum(cell, Points \ {p})
        BY ONLY <4>1, DistanceSumLess
      <4> QED
        BY <4>2 DEF cell, p
    <3>3. b.selManhattan \in Nat /\ DistanceSum(b.cell, Points \ {b.selected}) \in Nat
      BY <1>1, SelManhattanType, DistanceSumType
    <3> QED
      BY <1>1, <3>1, <3>2, <3>3
  <2>2. CASE b.selected = NoPoint
    <3>1. Points \ {b.selected} = Points
      BY <2>2, NoPointOutside
    <3>2. b.selManhattan = 0
      BY <1>1, <2>2 DEF SelManhattan, IsSelected
    <3>3. DistanceSum(b.cell, Points) \in Nat
      BY <1>1, DistanceSumType
    <3> QED
      BY <1>1, <3>1, <3>2, <3>3
  <2> QED
    BY <1>1, <2>1, <2>2
<1>3. (b.parity # b.selParity) = OddPermutation(b.cell)
  BY <1>1 DEF Odd, OddPermutation
<1>4. b.manhattan \in Nat /\ b.selManhattan \in Nat
  <2> DEFINE cell == b.cell
             p == b.selected
             S == Points \ {p}
  <2>1. cell \in Boards /\ cell \in Cells /\ p \in Points \cup {NoPoint} /\ S \in SUBSET Points
    BY <1>1
  <2> HIDE DEF cell, p, S
  <2>2. SelManhattan(cell, p) \in Nat /\ DistanceSum(cell, S) \in Nat
    BY <2>1, SelManhattanType, DistanceSumType
  <2> QED
    BY <1>1, <2>2 DEF cell, p, S
<1> QED
  BY <1>1, <1>2, <1>3, <1>4 DEF Sound

\* init().
LEMMA InitExact ==
  ASSUME NEW cell \in Boards, NEW p \in Points \cup {NoPoint}, NEW limit
  PROVE  Exact(InitBoard(cell, p, limit))
<1> DEFINE i == InitBoard(cell, p, limit)
<1>1. i.cell = cell /\ i.selected = p /\ i.selectionLimit = limit /\ i = [i EXCEPT !.cost = i.cost]
  BY DEF InitBoard
<1>2. i = [InitBoard(i.cell, i.selected, i.selectionLimit) EXCEPT !.cost = i.cost]
  BY <1>1
<1> HIDE DEF i
<1> QED
  BY <1>1, <1>2 DEF Exact, IsBoard, i

\* select(): of a board whose distances and parities add up.
LEMMA SelectedExact ==
  ASSUME NEW b, Sound(b), NEW p \in Points,
         b = [cell |-> b.cell, selected |-> b.selected, selectionLimit |-> b.selectionLimit,
              cost |-> b.cost, manhattan |-> b.manhattan, selManhattan |-> b.selManhattan,
              selId |-> b.selId, parity |-> b.parity, selParity |-> b.selParity]
  PROVE  /\ Exact(Selected(b, p))
         /\ Selected(b, p).cell = b.cell /\ Selected(b, p).selected = p
         /\ Selected(b, p).selectionLimit = b.selectionLimit - 1
         /\ Selected(b, p).cost = b.cost + SelectionCost
<1> DEFINE d == Distance(p, b.cell[p])
           s == [cell |-> b.cell, selected |-> p, selectionLimit |-> b.selectionLimit - 1,
                 cost |-> b.cost + SelectionCost,
                 manhattan |-> b.manhattan + b.selManhattan - d, selManhattan |-> d,
                 selId |-> b.cell[p], parity |-> (b.parity # b.selParity) # Odd(d),
                 selParity |-> Odd(d)]
<1>1. Selected(b, p) = s
  <2> DEFINE x == (b.parity # b.selParity) # Odd(d)
             y == Odd(d)
             l == b.selectionLimit - 1
             c == b.cost + SelectionCost
             m == b.manhattan + b.selManhattan - d
             i == b.cell[p]
  <2>1. Selected(b, p) = [b EXCEPT !.selected = p, !.cost = c, !.selectionLimit = l, !.manhattan = m,
                                   !.selManhattan = d, !.selId = i, !.parity = x, !.selParity = y]
    BY DEF Selected
  <2>2. s = [cell |-> b.cell, selected |-> p, selectionLimit |-> l, cost |-> c, manhattan |-> m,
             selManhattan |-> d, selId |-> i, parity |-> x, selParity |-> y]
    OBVIOUS
  <2> HIDE DEF x, y, l, c, m, i, d, s
  <2> QED
    BY <2>1, <2>2
<1>2. /\ b.cell \in Boards /\ b.cell \in Cells /\ b.cell[p] \in Points
      /\ b.manhattan + b.selManhattan = DistanceSum(b.cell, Points)
      /\ (b.parity # b.selParity) = OddPermutation(b.cell)
  BY BoardCells DEF Sound
<1>3. d = SelManhattan(b.cell, p)
  BY NoPointOutside DEF SelManhattan, IsSelected
<1>4. b.manhattan + b.selManhattan - d = DistanceSum(b.cell, Points \ {p})
  <2>1. DistanceSum(b.cell, Points) = d + DistanceSum(b.cell, Points \ {p})
    BY <1>2, DistanceSumLess
  <2>2. d \in Nat /\ DistanceSum(b.cell, Points \ {p}) \in Nat
    BY <1>2, DistanceType, DistanceSumType
  <2> HIDE DEF d
  <2>3. DistanceSum(b.cell, Points) - d = DistanceSum(b.cell, Points \ {p})
    BY ONLY <2>1, <2>2
  <2>4. ASSUME NEW m \in Nat, NEW n \in Nat, NEW k \in Nat, NEW l \in Nat,
               NEW r, m + n = l, l - k = r
        PROVE  m + (n - k) = r
    BY <2>4
  <2>5. b.manhattan \in Nat /\ b.selManhattan \in Nat
    BY DEF Sound
  <2>6. DistanceSum(b.cell, Points) \in Nat
    BY <1>2, DistanceSumType
  <2> DEFINE m == b.manhattan
             n == b.selManhattan
             l == DistanceSum(b.cell, Points)
             r == DistanceSum(b.cell, Points \ {p})
  <2>7. m \in Nat /\ n \in Nat /\ l \in Nat /\ m + n = l /\ l - d = r
    BY <1>2, <2>3, <2>5, <2>6
  <2> HIDE DEF m, n, l, r
  <2>8. m + (n - d) = r
    BY ONLY <2>2, <2>4, <2>7
  <2> QED
    BY ONLY <2>8 DEF m, n, r
<1>5. b.cell[p] = (IF IsSelected(p) THEN b.cell[p] ELSE NoPoint)
  BY NoPointOutside DEF IsSelected
<1> HIDE DEF d
<1>6. ((b.parity # b.selParity) # Odd(d)) = (OddPermutation(b.cell) # Odd(d))
  BY <1>2
<1>7. Exact(s)
  BY <1>2, <1>3, <1>4, <1>5, <1>6, FieldsExact
<1>8. /\ s.cell = b.cell /\ s.selected = p /\ s.selectionLimit = b.selectionLimit - 1
      /\ s.cost = b.cost + SelectionCost
  OBVIOUS
<1> HIDE DEF s
<1> QED
  BY <1>1, <1>7, <1>8

\* move(): the piece that gives way makes the step the other way.
LEMMA MovedExact ==
  ASSUME NEW b, Exact(b), NEW dir \in Directions, ValidMove(b.selected, dir)
  PROVE  LET m    == Moved(b, dir)
             next == Neighbour(b.selected, dir)
         IN  /\ Exact(m) /\ b.selected \in Points /\ next \in Points
             /\ m.cell = Swapped(b.cell, b.selected, next) /\ m.selected = next
             /\ m.selectionLimit = b.selectionLimit /\ m.cost = b.cost + SwappingCost
             /\ m.parity = b.parity
<1> DEFINE p    == b.selected
           next == Neighbour(p, dir)
           home == b.cell[p]
           way  == b.cell[next]
           new  == Swapped(b.cell, p, next)
           m    == [cell |-> new, selected |-> next, selectionLimit |-> b.selectionLimit,
                    cost |-> b.cost + SwappingCost,
                    manhattan |-> b.manhattan + Step(next, way, Opposite(dir)),
                    selManhattan |-> b.selManhattan + Step(p, b.selId, dir),
                    selId |-> b.selId, parity |-> b.parity, selParity |-> ~b.selParity]
<1>1. /\ b.cell \in Boards /\ b.cell \in Cells
      /\ b.manhattan = DistanceSum(b.cell, Points \ {p})
      /\ b.selManhattan = SelManhattan(b.cell, p)
      /\ b.selId = (IF IsSelected(p) THEN b.cell[p] ELSE NoPoint)
      /\ b.parity = (OddPermutation(b.cell) # Odd(b.selManhattan))
      /\ b.selParity = Odd(b.selManhattan)
      /\ b = [cell |-> b.cell, selected |-> p, selectionLimit |-> b.selectionLimit,
              cost |-> b.cost, manhattan |-> b.manhattan, selManhattan |-> b.selManhattan,
              selId |-> b.selId, parity |-> b.parity, selParity |-> b.selParity]
      /\ p \in Points \cup {NoPoint}
  BY ExactFields, BoardCells
<1>2. Moved(b, dir) = m
  <2> DEFINE y == ~b.selParity
             c == b.cost + SwappingCost
             n == b.manhattan + Step(next, way, Opposite(dir))
             d == b.selManhattan + Step(p, b.selId, dir)
  <2>1. Moved(b, dir) = [b EXCEPT !.cell = new, !.selected = next, !.cost = c,
                                  !.selManhattan = d, !.manhattan = n, !.selParity = y]
    BY DEF Moved
  <2>2. m = [cell |-> new, selected |-> next, selectionLimit |-> b.selectionLimit, cost |-> c,
             manhattan |-> n, selManhattan |-> d, selId |-> b.selId, parity |-> b.parity,
             selParity |-> y]
    OBVIOUS
  <2> HIDE DEF y, c, n, d, m, new, next
  <2> QED
    BY <1>1, <2>1, <2>2
<1>3. p \in Points /\ next \in Points /\ IsSelected(p) /\ IsSelected(next) /\ p # next
  <2>1. p \in Points /\ next \in Points /\ IsSelected(p)
    BY <1>1 DEF ValidMove, IsSelected
  <2>2. p # next
    BY <2>1, SizeAssumption DEF Points, Neighbour, Delta
  <2> HIDE DEF next
  <2> QED
    BY <2>1, <2>2, NoPointOutside DEF IsSelected
<1>4. home \in Points /\ way \in Points
  BY <1>1, <1>3, BoardCells
<1>5. /\ new \in Boards /\ new[next] = home
      /\ OddPermutation(new) <=> ~OddPermutation(b.cell)
  BY <1>1, <1>3, MovedCells
<1>6. b.selManhattan = Distance(p, home) /\ b.selId = home
  BY <1>1, <1>3 DEF SelManhattan
<1>7. /\ Distance(p, home) \in Nat
      /\ Distance(next, home) = Distance(p, home) + Step(p, home, dir)
      /\ Odd(Distance(next, home)) <=> ~Odd(Distance(p, home))
  BY <1>3, <1>4, StepDistance
<1>8. /\ Distance(next, way) \in Nat
      /\ Distance(p, way) = Distance(next, way) + Step(next, way, Opposite(dir))
  <2>1. Opposite(dir) \in Directions /\ Neighbour(next, Opposite(dir)) = p
    BY <1>3, BackAndForth
  <2> HIDE DEF next, way
  <2> QED
    BY <1>3, <1>4, <2>1, StepDistance
<1> DEFINE rest == (Points \ {p}) \ {next}
<1>9. /\ new \in Cells /\ new[p] = way /\ \A r \in rest : new[r] = b.cell[r]
  BY <1>1, <1>3, SwappedCells
<1> HIDE DEF next, new, home, way
<1>10. b.manhattan = Distance(next, way) + DistanceSum(b.cell, rest)
  BY <1>1, <1>3, DistanceSumLess DEF way
<1>11. DistanceSum(new, Points \ {next}) = Distance(p, way) + DistanceSum(new, rest)
  <2>1. (Points \ {next}) \ {p} = rest /\ p \in Points \ {next}
    BY <1>3
  <2> HIDE DEF rest
  <2> QED
    BY <1>9, <2>1, DistanceSumLess
<1>12. DistanceSum(new, rest) = DistanceSum(b.cell, rest) /\ DistanceSum(new, rest) \in Nat
  <2>1. rest \in SUBSET Points
    OBVIOUS
  <2> HIDE DEF rest
  <2> QED
    BY <1>1, <1>9, <2>1, DistanceSumSame, DistanceSumType
<1>13. Distance(p, way) \in Nat
  BY <1>3, <1>4, DistanceType
<1>14. Step(next, way, Opposite(dir)) \in Int
  BY DEF Step
<1>15. b.manhattan + Step(next, way, Opposite(dir)) = DistanceSum(new, Points \ {next})
  BY <1>8, <1>10, <1>11, <1>12, <1>13, <1>14
<1>16. b.selManhattan + Step(p, b.selId, dir) = Distance(next, home)
  BY <1>6, <1>7
<1>17. SelManhattan(new, next) = Distance(next, home)
  BY <1>3, <1>5 DEF SelManhattan
<1>18. (~b.selParity) = Odd(Distance(next, home))
  BY <1>1, <1>6, <1>7 DEF Odd
<1>19. b.parity = (OddPermutation(new) # Odd(Distance(next, home)))
  BY <1>1, <1>5, <1>6, <1>7 DEF Odd, OddPermutation
<1>20. Exact(m)
  BY <1>3, <1>5, <1>6, <1>15, <1>16, <1>17, <1>18, <1>19, FieldsExact
<1>21. /\ m.cell = new /\ m.selected = next /\ m.selectionLimit = b.selectionLimit
       /\ m.cost = b.cost + SwappingCost /\ m.parity = b.parity
  OBVIOUS
<1> HIDE DEF m
<1> QED
  BY <1>2, <1>3, <1>20, <1>21 DEF next, new

\* A board with nothing left to go, but for the selected piece, is the finished one.
LEMMA FinishedAligned ==
  ASSUME NEW b, Exact(b), Finished(b)
  PROVE  Aligned(b.cell)
<1>1. /\ b.cell \in Cells /\ (\A p \in Points : b.cell[p] \in Points)
      /\ (\A p, q \in Points : b.cell[p] = b.cell[q] => p = q)
      /\ DistanceSum(b.cell, Points \ {b.selected}) = 0
  BY ExactFields, BoardCells DEF Finished
<1>2. \A p \in Points \ {b.selected} : b.cell[p] = p
  BY <1>1, DistanceSumZero
<1>3. ASSUME NEW p \in Points, p = b.selected PROVE b.cell[p] = p
  <2> DEFINE q == b.cell[p]
  <2>1. q \in Points
    BY <1>1
  <2>2. CASE q # p
    <3>1. b.cell[q] = q
      BY <1>2, <1>3, <2>1, <2>2
    <3> QED
      BY <1>1, <2>1, <2>2, <3>1
  <2> QED
    BY <2>2
<1> QED
  BY <1>2, <1>3 DEF Aligned

-----------------------------------------------------------------------------
(* Sums of a function over a finite set, in any order.                     *)

\* The sum of f over S.
Total(f, S) == CHOOSE v : \E it : Sums(it, f, S) /\ v = it[S]

\* f gives every element of S an integer.
Weighs(f, S) == IsFiniteSet(S) /\ \A x \in S : f[x] \in Int

\* However the sum is computed, it is the sum.
LEMMA TotalIs ==
  ASSUME NEW S, NEW f, Weighs(f, S), NEW it, Sums(it, f, S)
  PROVE  it[S] = Total(f, S)
<1> DEFINE v == Total(f, S)
<1>1. \E jt : Sums(jt, f, S) /\ v = jt[S]
  BY DEF Total
<1> HIDE DEF v
<1>2. PICK jt : Sums(jt, f, S) /\ v = jt[S]
  BY <1>1
<1>3. it[S] = jt[S]
  BY <1>2, SumsAgree DEF Weighs
<1> QED
  BY <1>2, <1>3 DEF v

\* There is one.
LEMMA TotalSums ==
  ASSUME NEW S, NEW f, Weighs(f, S)
  PROVE  \E it : Sums(it, f, S) /\ it[S] = Total(f, S)
BY TotalIs, SummingExists, SummingSums DEF Weighs

\* It is an integer.
LEMMA TotalType ==
  ASSUME NEW S, NEW f, Weighs(f, S)
  PROVE  Total(f, S) \in Int
BY TotalSums DEF Sums

\* Nothing adds up to nothing.
LEMMA TotalEmpty ==
  ASSUME NEW f
  PROVE  Total(f, {}) = 0
BY TotalSums, FS_EmptySet DEF Sums, Weighs

\* Where two functions agree, so do their sums.
LEMMA TotalSame ==
  ASSUME NEW S, NEW f, Weighs(f, S), NEW g, \A x \in S : f[x] = g[x]
  PROVE  Total(f, S) = Total(g, S)
<1>1. Weighs(g, S)
  BY DEF Weighs
<1>2. PICK it : Sums(it, f, S) /\ it[S] = Total(f, S)
  BY TotalSums
<1>3. PICK jt : Sums(jt, g, S) /\ jt[S] = Total(g, S)
  BY <1>1, TotalSums
<1> QED
  BY <1>2, <1>3, SumsAgree DEF Weighs

\* One element less.
LEMMA TotalLess ==
  ASSUME NEW S, NEW f, Weighs(f, S), NEW x \in S
  PROVE  Total(f, S) = f[x] + Total(f, S \ {x})
<1> DEFINE R == S \ {x}
<1>1. Weighs(f, R)
  BY FS_Subset DEF Weighs
<1>2. PICK it : Sums(it, f, S) /\ it[S] = Total(f, S)
  BY TotalSums
<1>3. PICK jt : Sums(jt, f, R) /\ jt[R] = Total(f, R)
  BY <1>1, TotalSums
<1>4. R \subseteq S
  OBVIOUS
<1>5. it[S] = f[x] + it[R]
  BY <1>2 DEF Sums
<1> HIDE DEF R
<1>6. it[R] = jt[R]
  BY <1>1, <1>2, <1>3, <1>4, SumsAgree DEF Weighs
<1> QED
  BY <1>2, <1>3, <1>5, <1>6 DEF R

\* What adds nothing may be left out.
LEMMA TotalPart ==
  ASSUME NEW S, NEW f, Weighs(f, S), NEW T \in SUBSET S, \A x \in S \ T : f[x] = 0
  PROVE  Total(f, S) = Total(f, T)
<1> DEFINE P == {s \in SUBSET S : Total(f, s) = Total(f, s \cap T)}
<1>1. ASSUME NEW s \in SUBSET S, \A t \in SUBSET s : t # s => t \in P
      PROVE  s \in P
  <2>1. CASE s \ T = {}
    <3>1. s \cap T = s
      BY <2>1
    <3> QED
      BY <3>1
  <2>2. CASE s \ T # {}
    <3>1. PICK x \in s : x \notin T
      BY <2>2
    <3>2. Weighs(f, s) /\ f[x] = 0
      BY <3>1, FS_Subset DEF Weighs
    <3>3. Total(f, s) = 0 + Total(f, s \ {x})
      BY <3>1, <3>2, TotalLess
    <3>4. s \ {x} \in P /\ (s \ {x}) \cap T = s \cap T
      BY <1>1, <3>1
    <3>5. Total(f, s \ {x}) = Total(f, s \cap T)
      BY <3>4
    <3>6. Weighs(f, s \ {x})
      BY <3>2, FS_Subset DEF Weighs
    <3>7. Total(f, s \ {x}) \in Int
      BY <3>6, TotalType
    <3> QED
      BY <3>3, <3>5, <3>7
  <2> QED
    BY <2>1, <2>2
<1>2. P = SUBSET S
  <2>1. P \in SUBSET (SUBSET S) /\ IsFiniteSet(S)
    BY DEF Weighs
  <2> HIDE DEF P
  <2> QED
    BY <1>1, <2>1, SubsetInduction
<1>3. S \cap T = T
  OBVIOUS
<1> QED
  BY <1>2, <1>3

\* Sums add up.
LEMMA TotalPlus ==
  ASSUME NEW S, NEW f, Weighs(f, S), NEW g, Weighs(g, S),
         NEW h, \A x \in S : h[x] = f[x] + g[x]
  PROVE  Total(h, S) = Total(f, S) + Total(g, S)
<1> DEFINE P == {s \in SUBSET S : Total(h, s) = Total(f, s) + Total(g, s)}
<1>1. ASSUME NEW s \in SUBSET S, \A t \in SUBSET s : t # s => t \in P
      PROVE  s \in P
  <2>1. CASE s = {}
    BY <2>1, TotalEmpty
  <2>2. CASE s # {}
    <3>1. PICK x \in s : TRUE
      BY <2>2
    <3> DEFINE r == s \ {x}
    <3>2. Weighs(f, s) /\ Weighs(g, s) /\ Weighs(h, s) /\ Weighs(f, r) /\ Weighs(g, r)
      BY <3>1, FS_Subset DEF Weighs
    <3>3. /\ Total(f, s) = f[x] + Total(f, r) /\ Total(g, s) = g[x] + Total(g, r)
          /\ Total(h, s) = h[x] + Total(h, r)
      BY <3>1, <3>2, TotalLess
    <3>4. Total(f, r) \in Int /\ Total(g, r) \in Int /\ f[x] \in Int /\ g[x] \in Int
      BY <3>1, <3>2, TotalType DEF Weighs
    <3>5. Total(h, r) = Total(f, r) + Total(g, r) /\ h[x] = f[x] + g[x]
      BY <1>1, <3>1
    <3> HIDE DEF r
    <3>6. Total(h, s) = Total(f, s) + Total(g, s)
      BY <3>3, <3>4, <3>5
    <3> QED
      BY <3>6
  <2> QED
    BY <2>1, <2>2
<1>2. P = SUBSET S
  <2>1. P \in SUBSET (SUBSET S) /\ IsFiniteSet(S)
    BY DEF Weighs
  <2> HIDE DEF P
  <2> QED
    BY <1>1, <2>1, SubsetInduction
<1> QED
  BY <1>2

\* A sum of ones counts.
LEMMA TotalOnes ==
  ASSUME NEW S, IsFiniteSet(S), NEW f, \A x \in S : f[x] = 1
  PROVE  Total(f, S) = Cardinality(S)
<1> DEFINE P == {s \in SUBSET S : Total(f, s) = Cardinality(s)}
<1>1. ASSUME NEW s \in SUBSET S, \A t \in SUBSET s : t # s => t \in P
      PROVE  s \in P
  <2>1. CASE s = {}
    BY <2>1, TotalEmpty, FS_EmptySet
  <2>2. CASE s # {}
    <3>1. PICK x \in s : TRUE
      BY <2>2
    <3>2. Weighs(f, s) /\ f[x] = 1 /\ IsFiniteSet(s)
      BY <3>1, FS_Subset DEF Weighs
    <3>3. Total(f, s) = 1 + Total(f, s \ {x})
      BY <3>1, <3>2, TotalLess
    <3>4. Total(f, s \ {x}) = Cardinality(s \ {x})
      BY <1>1, <3>1
    <3>5. Cardinality(s \ {x}) = Cardinality(s) - 1 /\ Cardinality(s) \in Nat
      BY <3>1, <3>2, FS_RemoveElement, FS_CardinalityType
    <3>6. Total(f, s) = Cardinality(s)
      BY <3>3, <3>4, <3>5
    <3> QED
      BY <3>6
  <2> QED
    BY <2>1, <2>2
<1>2. P = SUBSET S
  <2>1. P \in SUBSET (SUBSET S)
    OBVIOUS
  <2> HIDE DEF P
  <2> QED
    BY <1>1, <2>1, SubsetInduction
<1> QED
  BY <1>2

-----------------------------------------------------------------------------
(* Sums over the pieces.  v[p][home] is what a piece adds that lies at p    *)
(* and belongs at home.                                                    *)

\* What each piece adds, by the place where it lies.
Pieces(v, cell) == [p \in Points |-> v[p][cell[p]]]

\* Their sum.
PieceSum(v, cell, S) == Total(Pieces(v, cell), S)

\* A table of what a piece adds, by its place and its home.
Tables == [Points -> [Points -> Int]]

\* The pieces in a set of places weigh something.
LEMMA PiecesWeigh ==
  ASSUME NEW v \in Tables, NEW cell \in Cells, NEW S \in SUBSET Points
  PROVE  /\ Weighs(Pieces(v, cell), S) /\ PieceSum(v, cell, S) \in Int
         /\ \A p \in S : Pieces(v, cell)[p] = v[p][cell[p]]
<1>1. \A p \in Points : v[p][cell[p]] \in Int
  BY DEF Tables, Cells
<1>2. \A p \in S : Pieces(v, cell)[p] = v[p][cell[p]]
  BY DEF Pieces
<1>3. Weighs(Pieces(v, cell), S)
  BY <1>1, <1>2, PointsFinite DEF Weighs
<1> QED
  BY <1>2, <1>3, TotalType DEF PieceSum

\* One piece less.
LEMMA PieceSumLess ==
  ASSUME NEW v \in Tables, NEW cell \in Cells, NEW S \in SUBSET Points, NEW p \in S
  PROVE  /\ PieceSum(v, cell, S) = v[p][cell[p]] + PieceSum(v, cell, S \ {p})
         /\ v[p][cell[p]] \in Int
         /\ PieceSum(v, cell, S) \in Int /\ PieceSum(v, cell, S \ {p}) \in Int
<1> DEFINE f == Pieces(v, cell)
           R == S \ {p}
<1>1. Weighs(f, S) /\ PieceSum(v, cell, S) \in Int /\ f[p] = v[p][cell[p]]
  BY PiecesWeigh
<1>2. PieceSum(v, cell, R) \in Int
  <2>1. R \in SUBSET Points
    OBVIOUS
  <2> HIDE DEF R
  <2> QED
    BY <2>1, PiecesWeigh
<1>3. f[p] \in Int
  BY <1>1 DEF Weighs
<1>4. PieceSum(v, cell, S) = Total(f, S) /\ PieceSum(v, cell, R) = Total(f, R)
  BY DEF PieceSum
<1> HIDE DEF f
<1>5. Total(f, S) = f[p] + Total(f, R)
  BY <1>1, TotalLess
<1> QED
  BY <1>1, <1>2, <1>3, <1>4, <1>5

\* After a move the piece that gave way is the only one to add something else.
LEMMA PieceSumMoved ==
  ASSUME NEW v \in Tables, NEW cell \in Cells, NEW new \in Cells,
         NEW p \in Points, NEW q \in Points, p # q, new[p] = cell[q],
         \A r \in (Points \ {p}) \ {q} : new[r] = cell[r]
  PROVE  PieceSum(v, new, Points \ {q})
           = PieceSum(v, cell, Points \ {p}) + (v[p][cell[q]] - v[q][cell[q]])
<1> DEFINE rest == (Points \ {p}) \ {q}
<1>1. /\ PieceSum(v, cell, Points \ {p}) = v[q][cell[q]] + PieceSum(v, cell, rest)
      /\ v[q][cell[q]] \in Int /\ PieceSum(v, cell, rest) \in Int
  <2> DEFINE S == Points \ {p}
  <2>1. S \in SUBSET Points /\ q \in S /\ rest = S \ {q}
    OBVIOUS
  <2> HIDE DEF rest, S
  <2>2. /\ PieceSum(v, cell, S) = v[q][cell[q]] + PieceSum(v, cell, S \ {q})
        /\ v[q][cell[q]] \in Int /\ PieceSum(v, cell, S \ {q}) \in Int
    BY <2>1, PieceSumLess
  <2> QED
    BY <2>1, <2>2 DEF S
<1>2. /\ PieceSum(v, new, Points \ {q}) = v[p][cell[q]] + PieceSum(v, new, rest)
      /\ v[p][cell[q]] \in Int
  <2> DEFINE S == Points \ {q}
  <2>1. v \in Tables /\ new \in Cells
    OBVIOUS
  <2>2. S \in SUBSET Points /\ p \in S /\ rest = S \ {p}
    OBVIOUS
  <2> HIDE DEF rest, S
  <2>3. /\ PieceSum(v, new, S) = v[p][new[p]] + PieceSum(v, new, S \ {p})
        /\ v[p][new[p]] \in Int
    BY ONLY <2>1, <2>2, PieceSumLess
  <2> QED
    BY <2>2, <2>3 DEF S
<1>3. PieceSum(v, new, rest) = PieceSum(v, cell, rest)
  <2>1. rest \in SUBSET Points
    OBVIOUS
  <2> HIDE DEF rest
  <2>2. \A r \in rest : Pieces(v, new)[r] = Pieces(v, cell)[r]
    BY <2>1 DEF Pieces, rest
  <2> QED
    BY <2>1, <2>2, PiecesWeigh, TotalSame DEF PieceSum
<1> HIDE DEF rest
<1> DEFINE x == PieceSum(v, cell, rest)
           a == v[q][cell[q]]
           b == v[p][cell[q]]
<1>4. a \in Int /\ b \in Int /\ x \in Int
  BY <1>1, <1>2
<1>5. /\ PieceSum(v, cell, Points \ {p}) = a + x
      /\ PieceSum(v, new, Points \ {q}) = b + x
  BY <1>1, <1>2, <1>3
<1> HIDE DEF x, a, b
<1>6. PieceSum(v, new, Points \ {q}) = PieceSum(v, cell, Points \ {p}) + (b - a)
  BY ONLY <1>4, <1>5
<1> QED
  BY <1>6 DEF a, b

\* What the piece selected before adds, if there is one.
PieceAt(v, cell, p) == IF IsSelected(p) THEN v[p][cell[p]] ELSE 0

\* After a selection the piece selected before counts again, and the one selected now
\* does not.
LEMMA PieceSumSelected ==
  ASSUME NEW v \in Tables, NEW cell \in Cells, NEW pre \in Points \cup {NoPoint},
         NEW p \in Points
  PROVE  PieceSum(v, cell, Points \ {p})
           = PieceSum(v, cell, Points \ {pre}) + (PieceAt(v, cell, pre) - v[p][cell[p]])
<1> DEFINE S == Points
<1>1. S \in SUBSET Points /\ p \in S /\ (pre \in S \/ pre = NoPoint) /\ NoPoint \notin S
  BY NoPointOutside
<1>2. /\ PieceSum(v, cell, Points) = v[p][cell[p]] + PieceSum(v, cell, Points \ {p})
      /\ v[p][cell[p]] \in Int /\ PieceSum(v, cell, Points \ {p}) \in Int
  <2>1. v \in Tables /\ cell \in Cells /\ S \in SUBSET Points /\ p \in S
    OBVIOUS
  <2> HIDE DEF S
  <2>2. /\ PieceSum(v, cell, S) = v[p][cell[p]] + PieceSum(v, cell, S \ {p})
        /\ v[p][cell[p]] \in Int /\ PieceSum(v, cell, S \ {p}) \in Int
    BY ONLY <2>1, PieceSumLess
  <2> QED
    BY <2>2 DEF S
<1>3. /\ PieceSum(v, cell, Points) = PieceAt(v, cell, pre) + PieceSum(v, cell, Points \ {pre})
      /\ PieceAt(v, cell, pre) \in Int /\ PieceSum(v, cell, Points \ {pre}) \in Int
  <2> HIDE DEF S
  <2>1. CASE pre \in S
    <3>1. /\ PieceSum(v, cell, S) = v[pre][cell[pre]] + PieceSum(v, cell, S \ {pre})
          /\ v[pre][cell[pre]] \in Int /\ PieceSum(v, cell, S \ {pre}) \in Int
      BY <1>1, <2>1, PieceSumLess
    <3>2. PieceAt(v, cell, pre) = v[pre][cell[pre]]
      BY <1>1, <2>1 DEF PieceAt, IsSelected
    <3> QED
      BY <3>1, <3>2 DEF S
  <2>2. CASE pre = NoPoint
    <3>1. S \ {pre} = S /\ PieceAt(v, cell, pre) = 0
      BY <1>1, <2>2 DEF PieceAt, IsSelected
    <3>2. PieceSum(v, cell, S) \in Int
      BY <1>1, PiecesWeigh
    <3> QED
      BY <3>1, <3>2 DEF S
  <2> QED
    BY <1>1, <2>1, <2>2
<1> DEFINE x == PieceSum(v, cell, Points \ {p})
           y == PieceSum(v, cell, Points \ {pre})
           a == v[p][cell[p]]
           b == PieceAt(v, cell, pre)
<1>4. a \in Int /\ b \in Int /\ x \in Int /\ y \in Int /\ a + x = b + y
  BY <1>2, <1>3
<1> HIDE DEF x, y, a, b
<1>5. x = y + (b - a)
  BY ONLY <1>4
<1> QED
  BY <1>5 DEF x, y, a, b

\* A sum over a part of the pieces, if the others add nothing.
LEMMA PieceSumPart ==
  ASSUME NEW v \in Tables, NEW cell \in Cells, NEW S \in SUBSET Points, NEW T \in SUBSET S,
         \A p \in S \ T : v[p][cell[p]] = 0,
         NEW f, \A p \in T : f[p] = v[p][cell[p]]
  PROVE  Total(f, T) = PieceSum(v, cell, S) /\ Weighs(f, T)
<1> DEFINE g == Pieces(v, cell)
<1>1. T \in SUBSET Points
  OBVIOUS
<1>2. /\ Weighs(g, S) /\ \A p \in S : g[p] = v[p][cell[p]]
      /\ Weighs(g, T) /\ \A p \in T : g[p] = v[p][cell[p]]
  BY <1>1, PiecesWeigh
<1>3. PieceSum(v, cell, S) = Total(g, S)
  BY DEF PieceSum
<1> HIDE DEF g
<1>4. Total(g, S) = Total(g, T)
  BY <1>2, TotalPart
<1>5. Total(g, T) = Total(f, T)
  BY <1>2, TotalSame
<1> QED
  BY <1>2, <1>3, <1>4, <1>5 DEF Weighs

-----------------------------------------------------------------------------
(* The sums of the features are such sums.                                 *)

\* Where the fold of a set goes, by the function it defines by recursion.
LEMMA FoldTotal ==
  ASSUME NEW T, NEW f, Weighs(f, T), NEW it, Summing(it, f, T)
  PROVE  it[T] = Total(f, T)
BY SummingSums, TotalIs DEF Weighs

\* The sum of the squares of the places.
LEMMA SquareFold ==
  ASSUME NEW T \in SUBSET Points, NEW f, Weighs(f, T),
         \A p \in T : f[p] = p[1] * p[1] + p[2] * p[2]
  PROVE  SumOver(LAMBDA p : p[1] * p[1] + p[2] * p[2], T) = Total(f, T)
<1> DEFINE F(p) == p[1] * p[1] + p[2] * p[2]
           Iterating(it) ==
             it = [s \in SUBSET T |->
                     IF s = {} THEN 0 ELSE F(AnyOf(s)) + it[s \ {AnyOf(s)}]]
<1>1. SumOver(F, T) = (CHOOSE it : Iterating(it))[T]
  BY DEF SumOver, MapThenSumSet, MapThenFoldSet, AnyOf
<1>2. \A it : Iterating(it) <=> Summing(it, f, T)
  <2> SUFFICES ASSUME NEW it PROVE Iterating(it) <=> Summing(it, f, T)
    OBVIOUS
  <2>1. \A s \in SUBSET T : s # {} => f[AnyOf(s)] = F(AnyOf(s))
    BY DEF AnyOf
  <2> QED
    BY <2>1 DEF Summing
<1> HIDE DEF Iterating
<1> QED
  BY <1>1, <1>2, SummingExists, FoldTotal DEF Weighs

\* The sum of the rows.
LEMMA RowFold ==
  ASSUME NEW T \in SUBSET Points, NEW f, Weighs(f, T),
         \A p \in T : f[p] = p[1]
  PROVE  SumOver(LAMBDA p : p[1], T) = Total(f, T)
<1> DEFINE F(p) == p[1]
           Iterating(it) ==
             it = [s \in SUBSET T |->
                     IF s = {} THEN 0 ELSE F(AnyOf(s)) + it[s \ {AnyOf(s)}]]
<1>1. SumOver(F, T) = (CHOOSE it : Iterating(it))[T]
  BY DEF SumOver, MapThenSumSet, MapThenFoldSet, AnyOf
<1>2. \A it : Iterating(it) <=> Summing(it, f, T)
  <2> SUFFICES ASSUME NEW it PROVE Iterating(it) <=> Summing(it, f, T)
    OBVIOUS
  <2>1. \A s \in SUBSET T : s # {} => f[AnyOf(s)] = F(AnyOf(s))
    BY DEF AnyOf
  <2> QED
    BY <2>1 DEF Summing
<1> HIDE DEF Iterating
<1> QED
  BY <1>1, <1>2, SummingExists, FoldTotal DEF Weighs

\* The sum of the columns.
LEMMA ColumnFold ==
  ASSUME NEW T \in SUBSET Points, NEW f, Weighs(f, T),
         \A p \in T : f[p] = p[2]
  PROVE  SumOver(LAMBDA p : p[2], T) = Total(f, T)
<1> DEFINE F(p) == p[2]
           Iterating(it) ==
             it = [s \in SUBSET T |->
                     IF s = {} THEN 0 ELSE F(AnyOf(s)) + it[s \ {AnyOf(s)}]]
<1>1. SumOver(F, T) = (CHOOSE it : Iterating(it))[T]
  BY DEF SumOver, MapThenSumSet, MapThenFoldSet, AnyOf
<1>2. \A it : Iterating(it) <=> Summing(it, f, T)
  <2> SUFFICES ASSUME NEW it PROVE Iterating(it) <=> Summing(it, f, T)
    OBVIOUS
  <2>1. \A s \in SUBSET T : s # {} => f[AnyOf(s)] = F(AnyOf(s))
    BY DEF AnyOf
  <2> QED
    BY <2>1 DEF Summing
<1> HIDE DEF Iterating
<1> QED
  BY <1>1, <1>2, SummingExists, FoldTotal DEF Weighs

\* The sum of the squares of the distances.
LEMMA DistanceFold ==
  ASSUME NEW cell, NEW T \in SUBSET Points, NEW f, Weighs(f, T),
         \A p \in T : f[p] = Distance(p, cell[p]) * Distance(p, cell[p])
  PROVE  SumOver(LAMBDA p : Distance(p, cell[p]) * Distance(p, cell[p]), T) = Total(f, T)
<1> DEFINE F(p) == Distance(p, cell[p]) * Distance(p, cell[p])
           Iterating(it) ==
             it = [s \in SUBSET T |->
                     IF s = {} THEN 0 ELSE F(AnyOf(s)) + it[s \ {AnyOf(s)}]]
<1>1. SumOver(F, T) = (CHOOSE it : Iterating(it))[T]
  BY DEF SumOver, MapThenSumSet, MapThenFoldSet, AnyOf
<1>2. \A it : Iterating(it) <=> Summing(it, f, T)
  <2> SUFFICES ASSUME NEW it PROVE Iterating(it) <=> Summing(it, f, T)
    OBVIOUS
  <2>1. \A s \in SUBSET T : s # {} => f[AnyOf(s)] = F(AnyOf(s))
    BY DEF AnyOf
  <2> QED
    BY <2>1 DEF Summing
<1> HIDE DEF Iterating
<1> QED
  BY <1>1, <1>2, SummingExists, FoldTotal DEF Weighs

\* The sum of the weighted distances.
LEMMA WeightFold ==
  ASSUME NEW cell, NEW T \in SUBSET Points, NEW f, Weighs(f, T),
         \A p \in T : f[p] = Weight(cell[p]) * Distance(p, cell[p])
  PROVE  SumOver(LAMBDA p : Weight(cell[p]) * Distance(p, cell[p]), T) = Total(f, T)
<1> DEFINE F(p) == Weight(cell[p]) * Distance(p, cell[p])
           Iterating(it) ==
             it = [s \in SUBSET T |->
                     IF s = {} THEN 0 ELSE F(AnyOf(s)) + it[s \ {AnyOf(s)}]]
<1>1. SumOver(F, T) = (CHOOSE it : Iterating(it))[T]
  BY DEF SumOver, MapThenSumSet, MapThenFoldSet, AnyOf
<1>2. \A it : Iterating(it) <=> Summing(it, f, T)
  <2> SUFFICES ASSUME NEW it PROVE Iterating(it) <=> Summing(it, f, T)
    OBVIOUS
  <2>1. \A s \in SUBSET T : s # {} => f[AnyOf(s)] = F(AnyOf(s))
    BY DEF AnyOf
  <2> QED
    BY <2>1 DEF Summing
<1> HIDE DEF Iterating
<1> QED
  BY <1>1, <1>2, SummingExists, FoldTotal DEF Weighs

-----------------------------------------------------------------------------
(* What a piece adds to the features that are sums.                        *)

\* squaredSum of the variance: the pieces that are not at home.
SquareTable ==
  [p \in Points |-> [h \in Points |-> IF h # p THEN p[1] * p[1] + p[2] * p[2] ELSE 0]]

\* sum_y of the variance.
RowTable == [p \in Points |-> [h \in Points |-> IF h # p THEN p[1] ELSE 0]]

\* sum_x of the variance.
ColumnTable == [p \in Points |-> [h \in Points |-> IF h # p THEN p[2] ELSE 0]]

\* cnt of the variance.
MisplacedTable == [p \in Points |-> [h \in Points |-> One(h # p)]]

\* The squared distances of the pieces that belong outside of the area.
DistanceTable(area) ==
  [p \in Points |-> [h \in Points |-> IF h \notin area THEN Distance(p, h) * Distance(p, h) ELSE 0]]

\* The weighted distances.
WeightTable == [p \in Points |-> [h \in Points |-> Weight(h) * Distance(p, h)]]

\* The weight of a home is an integer.
LEMMA WeightType == \A h \in Points : Weight(h) \in Int
<1>1. \A h \in Points : h[1] \in Int /\ h[2] \in Int
  BY SizeAssumption DEF Points
<1> QED
  BY <1>1, SizeAssumption DEF Weight, Absolute

\* The coordinates of the places are integers, and so is what is computed from them.
LEMMA TableTypes ==
  /\ SquareTable \in Tables /\ RowTable \in Tables /\ ColumnTable \in Tables
  /\ MisplacedTable \in Tables /\ WeightTable \in Tables
  /\ \A area : DistanceTable(area) \in Tables
<1>1. \A p \in Points : p[1] \in Int /\ p[2] \in Int
  BY SizeAssumption DEF Points
<1>2. \A p \in Points : p[1] * p[1] + p[2] * p[2] \in Int
  BY <1>1
<1>3. \A p, h \in Points : Distance(p, h) \in Int /\ Distance(p, h) * Distance(p, h) \in Int
  <2> SUFFICES ASSUME NEW p \in Points, NEW h \in Points
               PROVE  Distance(p, h) \in Int /\ Distance(p, h) * Distance(p, h) \in Int
    OBVIOUS
  <2> DEFINE d == Distance(p, h)
  <2>1. d \in Int
    BY DistanceType
  <2> HIDE DEF d
  <2>2. d * d \in Int
    BY <2>1
  <2> QED
    BY <2>1, <2>2 DEF d
<1>4. \A h \in Points : Weight(h) \in Int
  BY WeightType
<1>5. \A p, h \in Points : Weight(h) * Distance(p, h) \in Int
  <2> SUFFICES ASSUME NEW p \in Points, NEW h \in Points PROVE Weight(h) * Distance(p, h) \in Int
    OBVIOUS
  <2> DEFINE d == Distance(p, h)
             w == Weight(h)
  <2>1. d \in Int /\ w \in Int
    BY <1>3, <1>4
  <2> HIDE DEF d, w
  <2>2. w * d \in Int
    BY <2>1
  <2> QED
    BY <2>2 DEF d, w
<1>6. SquareTable \in Tables /\ RowTable \in Tables /\ ColumnTable \in Tables
  BY <1>1, <1>2 DEF SquareTable, RowTable, ColumnTable, Tables
<1>7. MisplacedTable \in Tables
  BY DEF MisplacedTable, Tables, One
<1>8. WeightTable \in Tables
  BY <1>5 DEF WeightTable, Tables
<1>9. ASSUME NEW area PROVE DistanceTable(area) \in Tables
  BY <1>3 DEF DistanceTable, Tables
<1> QED
  BY <1>6, <1>7, <1>8, <1>9

\* The sums of the variance, of the pieces in S that are not at home.
LEMMA VarianceSums ==
  ASSUME NEW cell \in Cells, NEW S \in SUBSET Points
  PROVE  LET T == {p \in S : cell[p] # p}
         IN  /\ SumOver(LAMBDA p : p[1] * p[1] + p[2] * p[2], T) = PieceSum(SquareTable, cell, S)
             /\ SumOver(LAMBDA p : p[1], T) = PieceSum(RowTable, cell, S)
             /\ SumOver(LAMBDA p : p[2], T) = PieceSum(ColumnTable, cell, S)
             /\ Cardinality(T) = PieceSum(MisplacedTable, cell, S)
<1> DEFINE T == {p \in S : cell[p] # p}
<1>1. T \in SUBSET Points /\ \A p \in S : (p \in T <=> cell[p] # p)
  OBVIOUS
<1>2. cell \in Cells /\ S \in SUBSET Points /\ T \in SUBSET S
  OBVIOUS
<1>3. \A p \in S : p \in Points /\ cell[p] \in Points
  BY DEF Cells
<1> HIDE DEF T
<1>4. SumOver(LAMBDA p : p[1] * p[1] + p[2] * p[2], T) = PieceSum(SquareTable, cell, S)
  <2> DEFINE f == [p \in Points |-> p[1] * p[1] + p[2] * p[2]]
  <2>1. SquareTable \in Tables
    BY TableTypes
  <2>2. \A p \in S \ T : SquareTable[p][cell[p]] = 0
    BY <1>1, <1>3, <1>2 DEF SquareTable
  <2>3. \A p \in T : f[p] = SquareTable[p][cell[p]]
    BY <1>1, <1>3, <1>2 DEF SquareTable
  <2>4. \A p \in T : f[p] = p[1] * p[1] + p[2] * p[2]
    BY <1>1
  <2> HIDE DEF f
  <2>5. Total(f, T) = PieceSum(SquareTable, cell, S) /\ Weighs(f, T)
    BY ONLY <1>2, <2>1, <2>2, <2>3, PieceSumPart
  <2> QED
    BY <1>1, <2>4, <2>5, SquareFold
<1>5. SumOver(LAMBDA p : p[1], T) = PieceSum(RowTable, cell, S)
  <2> DEFINE f == [p \in Points |-> p[1]]
  <2>1. RowTable \in Tables
    BY TableTypes
  <2>2. \A p \in S \ T : RowTable[p][cell[p]] = 0
    BY <1>1, <1>3, <1>2 DEF RowTable
  <2>3. \A p \in T : f[p] = RowTable[p][cell[p]]
    BY <1>1, <1>3, <1>2 DEF RowTable
  <2>4. \A p \in T : f[p] = p[1]
    BY <1>1
  <2> HIDE DEF f
  <2>5. Total(f, T) = PieceSum(RowTable, cell, S) /\ Weighs(f, T)
    BY ONLY <1>2, <2>1, <2>2, <2>3, PieceSumPart
  <2> QED
    BY <1>1, <2>4, <2>5, RowFold
<1>6. SumOver(LAMBDA p : p[2], T) = PieceSum(ColumnTable, cell, S)
  <2> DEFINE f == [p \in Points |-> p[2]]
  <2>1. ColumnTable \in Tables
    BY TableTypes
  <2>2. \A p \in S \ T : ColumnTable[p][cell[p]] = 0
    BY <1>1, <1>3, <1>2 DEF ColumnTable
  <2>3. \A p \in T : f[p] = ColumnTable[p][cell[p]]
    BY <1>1, <1>3, <1>2 DEF ColumnTable
  <2>4. \A p \in T : f[p] = p[2]
    BY <1>1
  <2> HIDE DEF f
  <2>5. Total(f, T) = PieceSum(ColumnTable, cell, S) /\ Weighs(f, T)
    BY ONLY <1>2, <2>1, <2>2, <2>3, PieceSumPart
  <2> QED
    BY <1>1, <2>4, <2>5, ColumnFold
<1>7. Cardinality(T) = PieceSum(MisplacedTable, cell, S)
  <2> DEFINE f == [p \in Points |-> 1]
  <2>1. MisplacedTable \in Tables
    BY TableTypes
  <2>2. \A p \in S \ T : MisplacedTable[p][cell[p]] = 0
    BY <1>1, <1>3, <1>2 DEF MisplacedTable, One
  <2>3. \A p \in T : f[p] = MisplacedTable[p][cell[p]]
    BY <1>1, <1>3, <1>2 DEF MisplacedTable, One
  <2>4. \A p \in T : f[p] = 1
    BY <1>1
  <2> HIDE DEF f
  <2>5. Total(f, T) = PieceSum(MisplacedTable, cell, S)
    BY ONLY <1>2, <2>1, <2>2, <2>3, PieceSumPart
  <2> QED
    BY <1>1, <2>4, <2>5, TotalOnes, PointsFinite
<1> QED
  BY <1>4, <1>5, <1>6, <1>7 DEF T

\* The squared distances of the pieces in S that belong outside of the area.
LEMMA SquaredSum ==
  ASSUME NEW cell \in Cells, NEW S \in SUBSET Points, NEW area
  PROVE  SumOver(LAMBDA p : Distance(p, cell[p]) * Distance(p, cell[p]),
                 {p \in S : cell[p] \notin area}) = PieceSum(DistanceTable(area), cell, S)
<1> DEFINE T == {p \in S : cell[p] \notin area}
           f == [p \in Points |-> Distance(p, cell[p]) * Distance(p, cell[p])]
<1>1. T \in SUBSET S /\ T \in SUBSET Points /\ \A p \in S : (p \in T <=> cell[p] \notin area)
  OBVIOUS
<1>2. \A p \in S : p \in Points /\ cell[p] \in Points
  BY DEF Cells
<1> HIDE DEF T
<1>3. \A p \in S \ T : DistanceTable(area)[p][cell[p]] = 0
  BY <1>1, <1>2 DEF DistanceTable
<1>4. \A p \in T : f[p] = DistanceTable(area)[p][cell[p]]
  BY <1>1, <1>2 DEF DistanceTable
<1>5. \A p \in T : f[p] = Distance(p, cell[p]) * Distance(p, cell[p])
  BY <1>1
<1>6. DistanceTable(area) \in Tables
  BY TableTypes
<1> HIDE DEF f
<1>7. Total(f, T) = PieceSum(DistanceTable(area), cell, S) /\ Weighs(f, T)
  BY <1>1, <1>3, <1>4, <1>6, PieceSumPart
<1>8. SumOver(LAMBDA p : Distance(p, cell[p]) * Distance(p, cell[p]), T)
        = PieceSum(DistanceTable(area), cell, S)
  BY <1>1, <1>5, <1>7, DistanceFold
<1> QED
  BY <1>8 DEF T

\* The weighted distances of the pieces in S.
LEMMA WeightedSum ==
  ASSUME NEW cell \in Cells, NEW S \in SUBSET Points
  PROVE  SumOver(LAMBDA p : Weight(cell[p]) * Distance(p, cell[p]), S)
           = PieceSum(WeightTable, cell, S)
<1> DEFINE f == Pieces(WeightTable, cell)
<1>1. \A p \in S : p \in Points /\ cell[p] \in Points
  BY DEF Cells
<1>2. \A p \in S : f[p] = Weight(cell[p]) * Distance(p, cell[p])
  BY <1>1 DEF Pieces, WeightTable
<1>3. Weighs(f, S) /\ PieceSum(WeightTable, cell, S) = Total(f, S)
  BY TableTypes, PiecesWeigh DEF PieceSum
<1> HIDE DEF f
<1> QED
  BY <1>2, <1>3, WeightFold

-----------------------------------------------------------------------------
(* Conflicts: pairs of pieces in the wrong order.                          *)

\* The pairs of places whose pieces conflict in a row.
RowPairs(cell) == {pq \in Points \X Points : RowConflict(cell, pq[1], pq[2])}

\* The pairs of places whose pieces conflict in a column.
ColumnPairs(cell) == {pq \in Points \X Points : ColumnConflict(cell, pq[1], pq[2])}

\* The pairs of R among the places in S.
Among(R, S) == Cardinality(R \cap (S \X S))

\* The places in S that make a pair of R with p, one way or the other.
With(R, S, p) == {q \in S : <<p, q>> \in R \/ <<q, p>> \in R}

\* Pairs of places, none of which is a pair the other way too.
Orders ==
  {R \in SUBSET (Points \X Points) :
     \A p, q \in Points : <<p, q>> \in R => <<q, p>> \notin R}

\* The coordinates of a place.
LEMMA Coordinates ==
  \A p \in Points : p[1] \in Int /\ p[2] \in Int /\ p = <<p[1], p[2]>>
BY SizeAssumption DEF Points

\* The piece that lies farther back belongs farther ahead.
LEMMA ConflictOrders ==
  ASSUME NEW cell \in Cells
  PROVE  RowPairs(cell) \in Orders /\ ColumnPairs(cell) \in Orders
<1>1. \A p, q \in Points : RowConflict(cell, p, q) => ~RowConflict(cell, q, p)
  BY Coordinates DEF RowConflict
<1>2. \A p, q \in Points : ColumnConflict(cell, p, q) => ~ColumnConflict(cell, q, p)
  BY Coordinates DEF ColumnConflict
<1> QED
  BY <1>1, <1>2 DEF RowPairs, ColumnPairs, Orders

\* Pairs of places are finitely many.
LEMMA PairsOfPlaces ==
  ASSUME NEW S \in SUBSET Points
  PROVE  IsFiniteSet(S \X S) /\ \A R : IsFiniteSet(R \cap (S \X S)) /\ Among(R, S) \in Nat
<1>1. IsFiniteSet(S \X S)
  BY PointsFinite, FS_Product
<1>2. \A R : IsFiniteSet(R \cap (S \X S))
  BY <1>1, FS_Subset
<1> QED
  BY <1>1, <1>2, FS_CardinalityType DEF Among

\* The pairs among the places, and those that one of them makes with the others.
LEMMA AmongLess ==
  ASSUME NEW R \in Orders, NEW S \in SUBSET Points, NEW p \in S
  PROVE  /\ Among(R, S) = Among(R, S \ {p}) + Cardinality(With(R, S, p))
         /\ IsFiniteSet(With(R, S, p)) /\ Cardinality(With(R, S, p)) \in Nat
<1> DEFINE T == S \ {p}
           old == R \cap (T \X T)
           new == {pq \in R \cap (S \X S) : pq[1] = p \/ pq[2] = p}
           W == With(R, S, p)
<1>1. IsFiniteSet(W) /\ Cardinality(W) \in Nat
  <2>1. W \in SUBSET Points
    BY DEF With
  <2> HIDE DEF W
  <2> QED
    BY <2>1, PointsFinite, FS_CardinalityType
<1>2. \A q \in Points, r \in Points : <<q, r>> \in R => <<r, q>> \notin R
  BY DEF Orders
<1>3. Cardinality(new) = Cardinality(W) /\ IsFiniteSet(new)
  <2> DEFINE f == [q \in W |-> IF <<p, q>> \in R THEN <<p, q>> ELSE <<q, p>>]
             g == [pq \in new |-> IF pq[1] = p THEN pq[2] ELSE pq[1]]
  <2>1. \A q \in W : q \in S /\ q \in Points /\ (<<p, q>> \in R \/ <<q, p>> \in R)
    BY DEF With
  <2>2. \A q \in S : <<p, q>> \in R \/ <<q, p>> \in R => q \in W
    BY DEF With
  <2>3. p \in S /\ p \in Points
    OBVIOUS
  <2> HIDE DEF W
  <2>4. \A q \in W : f[q] \in new
    BY <2>1, <2>3
  <2>5. \A pq \in new : /\ pq \in R /\ pq[1] \in S /\ pq[2] \in S /\ pq = <<pq[1], pq[2]>>
                        /\ (pq[1] = p \/ pq[2] = p)
    OBVIOUS
  <2>6. f \in [W -> new]
    BY <2>4
  <2> HIDE DEF new
  <2>7. g \in [new -> W]
    BY <2>2, <2>5
  <2>8. \A q \in W : g[f[q]] = q
    <3>1. \A q \in W : f[q] = <<p, q>> \/ f[q] = <<q, p>>
      OBVIOUS
    <3>2. \A pq \in new : g[pq] = IF pq[1] = p THEN pq[2] ELSE pq[1]
      OBVIOUS
    <3> HIDE DEF f, g
    <3> QED
      BY <2>4, <3>1, <3>2
  <2>9. \A pq \in new : f[g[pq]] = pq
    <3>1. ASSUME NEW pq \in new PROVE f[g[pq]] = pq
      <4>1. CASE pq[1] = p
        <5>1. g[pq] = pq[2] /\ pq[2] \in W /\ <<p, pq[2]>> \in R /\ pq = <<p, pq[2]>>
          BY <2>5, <2>7, <4>1
        <5> HIDE DEF g
        <5> QED
          BY <5>1
      <4>2. CASE pq[1] # p
        <5>1. /\ g[pq] = pq[1] /\ pq[1] \in W /\ <<pq[1], p>> \in R /\ pq = <<pq[1], p>>
              /\ pq[1] \in Points
          BY <2>5, <2>7, <4>2
        <5>2. <<p, pq[1]>> \notin R
          BY <1>2, <2>3, <5>1
        <5> HIDE DEF g
        <5> QED
          BY <5>1, <5>2
      <4> QED
        BY <4>1, <4>2
    <3> QED
      BY <3>1
  <2> HIDE DEF f, g
  <2> QED
    BY <1>1, <2>6, <2>7, <2>8, <2>9, SameSize
<1>4. R \cap (S \X S) = old \cup new /\ old \cap new = {}
  OBVIOUS
<1>5. IsFiniteSet(old) /\ Cardinality(old) \in Nat /\ Among(R, T) = Cardinality(old)
  <2>1. T \in SUBSET Points
    OBVIOUS
  <2> HIDE DEF T
  <2> QED
    BY <2>1, PairsOfPlaces DEF Among
<1> HIDE DEF old, new, W
<1>6. Cardinality(old \cup new) = Cardinality(old) + Cardinality(new) - 0
  BY <1>3, <1>4, <1>5, FS_Union, FS_EmptySet
<1>7. Among(R, S) = Cardinality(old) + Cardinality(W)
  <2>1. Among(R, S) = Cardinality(old \cup new)
    BY ONLY <1>4 DEF Among
  <2> QED
    BY ONLY <1>1, <1>3, <1>5, <1>6, <2>1
<1> QED
  BY <1>1, <1>5, <1>7 DEF W, T

\* The pairs counted one by one.
LEMMA AmongSum ==
  ASSUME NEW R \in Orders, NEW S \in SUBSET Points, NEW f,
         \A pq \in S \X S : f[pq] = One(pq \in R)
  PROVE  Weighs(f, S \X S) /\ Total(f, S \X S) = Among(R, S)
<1> DEFINE T == R \cap (S \X S)
           X == S \X S
<1>1. T \in SUBSET X /\ Weighs(f, X)
  <2>1. IsFiniteSet(X)
    BY PairsOfPlaces
  <2>2. \A pq \in X : f[pq] \in Nat
    BY DEF One
  <2>3. T \in SUBSET X
    OBVIOUS
  <2> HIDE DEF T, X
  <2> QED
    BY ONLY <2>1, <2>2, <2>3 DEF Weighs
<1>2. (\A x \in X \ T : f[x] = 0) /\ \A x \in T : f[x] = 1
  BY DEF One
<1>3. IsFiniteSet(T)
  BY PairsOfPlaces
<1> HIDE DEF T, X
<1>4. Total(f, X) = Total(f, T)
  BY <1>1, <1>2, TotalPart
<1>5. Total(f, T) = Cardinality(T)
  BY <1>2, <1>3, TotalOnes
<1> QED
  BY <1>1, <1>4, <1>5 DEF T, X, Among

\* The conflicts among the pieces in S.
ConflictsAmong(cell, S) == Among(RowPairs(cell), S) + Among(ColumnPairs(cell), S)

\* LinearConflictFeature::init counts them.
LEMMA ConflictSum ==
  ASSUME NEW cell \in Cells, NEW S \in SUBSET Points
  PROVE  SumOver(LAMBDA pq : One(RowConflict(cell, pq[1], pq[2]))
                               + One(ColumnConflict(cell, pq[1], pq[2])), S \X S)
           = ConflictsAmong(cell, S)
<1> DEFINE F(pq) == One(RowConflict(cell, pq[1], pq[2])) + One(ColumnConflict(cell, pq[1], pq[2]))
           X == S \X S
           f == [pq \in X |-> One(RowConflict(cell, pq[1], pq[2]))]
           g == [pq \in X |-> One(ColumnConflict(cell, pq[1], pq[2]))]
           h == [pq \in X |-> F(pq)]
           Iterating(it) ==
             it = [s \in SUBSET X |->
                     IF s = {} THEN 0 ELSE F(AnyOf(s)) + it[s \ {AnyOf(s)}]]
<1>1. \A pq \in X : /\ pq \in RowPairs(cell) <=> RowConflict(cell, pq[1], pq[2])
                    /\ pq \in ColumnPairs(cell) <=> ColumnConflict(cell, pq[1], pq[2])
  BY DEF RowPairs, ColumnPairs
<1>2. /\ \A pq \in X : f[pq] = One(pq \in RowPairs(cell))
      /\ \A pq \in X : g[pq] = One(pq \in ColumnPairs(cell))
  BY <1>1 DEF One
<1>3. \A pq \in X : h[pq] = f[pq] + g[pq]
  OBVIOUS
<1>4. \A pq \in X : h[pq] = F(pq)
  OBVIOUS
<1> HIDE DEF f, g, h
<1>5. /\ Weighs(f, X) /\ Total(f, X) = Among(RowPairs(cell), S)
      /\ Weighs(g, X) /\ Total(g, X) = Among(ColumnPairs(cell), S)
  BY <1>2, ConflictOrders, AmongSum
<1>6. Weighs(h, X)
  BY <1>3, <1>5 DEF Weighs
<1> HIDE DEF X
<1>7. Total(h, X) = Total(f, X) + Total(g, X)
  BY <1>3, <1>5, TotalPlus
<1>8. SumOver(F, X) = (CHOOSE it : Iterating(it))[X]
  BY DEF SumOver, MapThenSumSet, MapThenFoldSet, AnyOf
<1>9. \A it : Iterating(it) <=> Summing(it, h, X)
  <2> SUFFICES ASSUME NEW it PROVE Iterating(it) <=> Summing(it, h, X)
    OBVIOUS
  <2>1. \A s \in SUBSET X : s # {} => h[AnyOf(s)] = F(AnyOf(s))
    BY <1>4 DEF AnyOf
  <2> HIDE DEF F
  <2> QED
    BY <2>1 DEF Summing
<1> HIDE DEF Iterating
<1>10. SumOver(F, X) = Total(h, X)
  BY <1>6, <1>8, <1>9, SummingExists, FoldTotal DEF Weighs
<1>11. SumOver(F, X) = ConflictsAmong(cell, S)
  BY ONLY <1>5, <1>7, <1>10 DEF ConflictsAmong
<1> QED
  BY <1>11 DEF X

\* One piece less.
LEMMA ConflictsLess ==
  ASSUME NEW cell \in Cells, NEW S \in SUBSET Points, NEW p \in S
  PROVE  /\ ConflictsAmong(cell, S)
              = ConflictsAmong(cell, S \ {p})
                + (Cardinality(With(RowPairs(cell), S, p))
                   + Cardinality(With(ColumnPairs(cell), S, p)))
         /\ ConflictsAmong(cell, S) \in Int /\ ConflictsAmong(cell, S \ {p}) \in Int
         /\ Cardinality(With(RowPairs(cell), S, p)) \in Nat
         /\ Cardinality(With(ColumnPairs(cell), S, p)) \in Nat
<1> DEFINE T == S \ {p}
           r == RowPairs(cell)
           c == ColumnPairs(cell)
<1>1. r \in Orders /\ c \in Orders
  BY ConflictOrders
<1>2. T \in SUBSET Points
  OBVIOUS
<1> HIDE DEF r, c
<1>3. /\ Among(r, S) = Among(r, T) + Cardinality(With(r, S, p))
      /\ Among(c, S) = Among(c, T) + Cardinality(With(c, S, p))
      /\ Cardinality(With(r, S, p)) \in Nat /\ Cardinality(With(c, S, p)) \in Nat
  BY <1>1, AmongLess
<1> HIDE DEF T
<1>4. Among(r, T) \in Nat /\ Among(c, T) \in Nat
  BY <1>2, PairsOfPlaces
<1>5. /\ Among(r, S) + Among(c, S)
           = (Among(r, T) + Among(c, T)) + (Cardinality(With(r, S, p)) + Cardinality(With(c, S, p)))
      /\ Among(r, S) + Among(c, S) \in Int /\ Among(r, T) + Among(c, T) \in Int
  BY ONLY <1>3, <1>4
<1> QED
  BY ONLY <1>3, <1>5 DEF ConflictsAmong, r, c, T

\* What the piece at p that belongs at home adds in its row.
InRow(b, p, home) == IF home[1] = p[1] THEN Horizontally(b, p, home) ELSE 0

\* What it adds in its column.
InColumn(b, p, home) == IF home[2] = p[2] THEN Vertically(b, p, home) ELSE 0

\* What computeHorizotally() counts are the pairs that the piece makes in its row.
LEMMA HorizontallyCounts ==
  ASSUME NEW b, b.cell \in Cells, NEW p \in Points
  PROVE  Cardinality(With(RowPairs(b.cell), Points, p))
           = InRow(b, p, b.cell[p])
<1> DEFINE cell == b.cell
           H == {q \in Points : /\ q[1] = p[1] /\ cell[q][1] = p[1]
                                /\ \/ q[2] < p[2] /\ cell[p][2] < cell[q][2]
                                   \/ q[2] > p[2] /\ cell[p][2] > cell[q][2]}
<1>1. Horizontally(b, p, b.cell[p]) = Cardinality(H)
  BY DEF Horizontally
<1>2. cell \in Cells
  OBVIOUS
<1> HIDE DEF cell
<1>3. \A q \in Points : /\ <<p, q>> \in RowPairs(cell) <=> RowConflict(cell, p, q)
                        /\ <<q, p>> \in RowPairs(cell) <=> RowConflict(cell, q, p)
  BY DEF RowPairs
<1>4. \A q \in Points : cell[q] \in Points
  BY <1>2 DEF Cells
<1>5. ASSUME cell[p][1] = p[1] PROVE With(RowPairs(cell), Points, p) = H
  <2>1. \A q \in Points : RowConflict(cell, p, q) \/ RowConflict(cell, q, p) <=> q \in H
    BY <1>4, <1>5, Coordinates DEF RowConflict
  <2> QED
    BY <1>3, <2>1 DEF With
<1>6. ASSUME cell[p][1] # p[1] PROVE With(RowPairs(cell), Points, p) = {}
  <2>1. \A q \in Points : ~RowConflict(cell, p, q) /\ ~RowConflict(cell, q, p)
    BY <1>4, <1>6, Coordinates DEF RowConflict
  <2> QED
    BY <1>3, <2>1 DEF With
<1> HIDE DEF H
<1> QED
  BY <1>1, <1>5, <1>6, FS_EmptySet DEF cell, InRow

\* What computeVertically() counts are the pairs that the piece makes in its column.
LEMMA VerticallyCounts ==
  ASSUME NEW b, b.cell \in Cells, NEW p \in Points
  PROVE  Cardinality(With(ColumnPairs(b.cell), Points, p))
           = InColumn(b, p, b.cell[p])
<1> DEFINE cell == b.cell
           H == {q \in Points : /\ q[2] = p[2] /\ cell[q][2] = p[2]
                                /\ \/ q[1] < p[1] /\ cell[p][1] < cell[q][1]
                                   \/ q[1] > p[1] /\ cell[p][1] > cell[q][1]}
<1>1. Vertically(b, p, b.cell[p]) = Cardinality(H)
  BY DEF Vertically
<1>2. cell \in Cells
  OBVIOUS
<1> HIDE DEF cell
<1>3. \A q \in Points : /\ <<p, q>> \in ColumnPairs(cell) <=> ColumnConflict(cell, p, q)
                        /\ <<q, p>> \in ColumnPairs(cell) <=> ColumnConflict(cell, q, p)
  BY DEF ColumnPairs
<1>4. \A q \in Points : cell[q] \in Points
  BY <1>2 DEF Cells
<1>5. ASSUME cell[p][2] = p[2] PROVE With(ColumnPairs(cell), Points, p) = H
  <2>1. \A q \in Points : ColumnConflict(cell, p, q) \/ ColumnConflict(cell, q, p) <=> q \in H
    BY <1>4, <1>5, Coordinates DEF ColumnConflict
  <2> QED
    BY <1>3, <2>1 DEF With
<1>6. ASSUME cell[p][2] # p[2] PROVE With(ColumnPairs(cell), Points, p) = {}
  <2>1. \A q \in Points : ~ColumnConflict(cell, p, q) /\ ~ColumnConflict(cell, q, p)
    BY <1>4, <1>6, Coordinates DEF ColumnConflict
  <2> QED
    BY <1>3, <2>1 DEF With
<1> HIDE DEF H
<1> QED
  BY <1>1, <1>5, <1>6, FS_EmptySet DEF cell, InColumn

\* The conflicts while the piece at a place is selected.
ConflictsOf(cell, selected) == ConflictsAmong(cell, Points \ {selected})

\* LinearConflictFeature::select.
LEMMA ConflictsSelected ==
  ASSUME NEW b, b.cell \in Cells, NEW pre \in Points \cup {NoPoint}, b.selected \in Points
  PROVE  ConflictsOf(b.cell, b.selected) = ConflictsOf(b.cell, pre) + LinearConflictSelected(b, pre)
<1> DEFINE cell == b.cell
           p == b.selected
           C(q) == Conflicts(b, q)
           L(S) == ConflictsAmong(cell, S)
<1>1. ASSUME NEW q \in Points
      PROVE  /\ L(Points) = L(Points \ {q}) + C(q) /\ C(q) \in Int
             /\ L(Points) \in Int /\ L(Points \ {q}) \in Int
  <2> DEFINE h == Cardinality(With(RowPairs(cell), Points, q))
             v == Cardinality(With(ColumnPairs(cell), Points, q))
  <2>1. /\ L(Points) = L(Points \ {q}) + (h + v) /\ h \in Nat /\ v \in Nat
        /\ L(Points) \in Int /\ L(Points \ {q}) \in Int
    BY ConflictsLess
  <2>2. C(q) = h + v
    BY HorizontallyCounts, VerticallyCounts DEF Conflicts, InRow, InColumn
  <2> HIDE DEF C, L, h, v
  <2> QED
    BY <2>1, <2>2
<1>2. p \in Points
  OBVIOUS
<1>3. LinearConflictSelected(b, pre) = (IF pre \in Points THEN C(pre) ELSE 0) - C(p)
  BY NoPointOutside DEF LinearConflictSelected, IsSelected
<1>4. pre = NoPoint => Points \ {pre} = Points
  BY NoPointOutside
<1> HIDE DEF C, L, p
<1>5. L(Points \ {p}) = L(Points \ {pre}) + ((IF pre \in Points THEN C(pre) ELSE 0) - C(p))
  <2>1. /\ L(Points) = L(Points \ {p}) + C(p) /\ C(p) \in Int
        /\ L(Points) \in Int /\ L(Points \ {p}) \in Int
    BY <1>1, <1>2
  <2>2. CASE pre \in Points
    <3>1. L(Points) = L(Points \ {pre}) + C(pre) /\ C(pre) \in Int /\ L(Points \ {pre}) \in Int
      BY <1>1, <2>2
    <3> QED
      BY <2>1, <2>2, <3>1
  <2>3. CASE pre \notin Points
    <3>1. L(Points \ {pre}) = L(Points)
      BY <1>4, <2>3
    <3> QED
      BY ONLY <2>1, <2>3, <3>1
  <2> QED
    BY <2>2, <2>3
<1> QED
  BY <1>3, <1>5 DEF L, p, ConflictsOf

\* What a move leaves to compare: the piece that gives way goes from q to p, and the
\* pieces at other places stay.
GivesWay(cell, new, p, q) ==
  /\ cell \in Cells /\ new \in Cells /\ p \in Points /\ q \in Points /\ p # q
  /\ new[p] = cell[q] /\ \A r \in (Points \ {p}) \ {q} : new[r] = cell[r]

\* The conflicts of the piece at p in its row, and in its column, while that at the
\* other place is selected.
RowsOf(cell, selected, p) == Cardinality(With(RowPairs(cell), Points \ {selected}, p))

\* The same in its column.
ColumnsOf(cell, selected, p) == Cardinality(With(ColumnPairs(cell), Points \ {selected}, p))

\* Two places of one row.
SameRow(p, q) == p[1] = q[1]

\* Two places of one column.
SameColumn(p, q) == p[2] = q[2]

\* The conflicts after a move, by those before and those of the piece that gives way.
LEMMA ConflictsAfter ==
  ASSUME NEW cell, NEW new, NEW p, NEW q, GivesWay(cell, new, p, q)
  PROVE  LET won  == RowsOf(new, q, p)
                       + ColumnsOf(new, q, p)
             lost == RowsOf(cell, p, q)
                       + ColumnsOf(cell, p, q)
         IN  /\ ConflictsOf(new, q) = ConflictsOf(cell, p) + (won - lost)
             /\ ConflictsOf(cell, p) \in Int
             /\ RowsOf(new, q, p) \in Nat
             /\ ColumnsOf(new, q, p) \in Nat
             /\ RowsOf(cell, p, q) \in Nat
             /\ ColumnsOf(cell, p, q) \in Nat
<1> DEFINE P == Points \ {p}
           Q == Points \ {q}
           rest == (Points \ {p}) \ {q}
<1>1. /\ P \in SUBSET Points /\ Q \in SUBSET Points /\ rest \in SUBSET Points
      /\ q \in P /\ p \in Q /\ P \ {q} = rest /\ Q \ {p} = rest
  BY DEF GivesWay
<1>2. \A r \in rest : new[r] = cell[r]
  BY DEF GivesWay
<1>3. cell \in Cells /\ new \in Cells
  BY DEF GivesWay
<1>4. ConflictsAmong(new, rest) = ConflictsAmong(cell, rest)
  <2>1. \A x, y \in rest : /\ RowConflict(new, x, y) <=> RowConflict(cell, x, y)
                           /\ ColumnConflict(new, x, y) <=> ColumnConflict(cell, x, y)
    BY <1>2 DEF RowConflict, ColumnConflict
  <2> HIDE DEF rest
  <2>2. /\ RowPairs(new) \cap (rest \X rest) = RowPairs(cell) \cap (rest \X rest)
        /\ ColumnPairs(new) \cap (rest \X rest) = ColumnPairs(cell) \cap (rest \X rest)
    BY <2>1 DEF RowPairs, ColumnPairs
  <2> QED
    BY <2>2 DEF ConflictsAmong, Among
<1> HIDE DEF P, Q, rest
<1> DEFINE a == Cardinality(With(RowPairs(new), Q, p))
           b == Cardinality(With(ColumnPairs(new), Q, p))
           c == Cardinality(With(RowPairs(cell), P, q))
           d == Cardinality(With(ColumnPairs(cell), P, q))
<1>5. /\ ConflictsAmong(new, Q) = ConflictsAmong(new, Q \ {p}) + (a + b)
      /\ ConflictsAmong(new, Q \ {p}) \in Int /\ a \in Nat /\ b \in Nat
  BY <1>1, <1>3, ConflictsLess
<1>6. /\ ConflictsAmong(cell, P) = ConflictsAmong(cell, P \ {q}) + (c + d)
      /\ ConflictsAmong(cell, P \ {q}) \in Int /\ c \in Nat /\ d \in Nat
      /\ ConflictsAmong(cell, P) \in Int
  BY <1>1, <1>3, ConflictsLess
<1> HIDE DEF a, b, c, d
<1>7. ConflictsAmong(new, Q \ {p}) = ConflictsAmong(cell, P \ {q})
  BY ONLY <1>1, <1>4
<1>8. ConflictsAmong(new, Q) = ConflictsAmong(cell, P) + ((a + b) - (c + d))
  BY ONLY <1>5, <1>6, <1>7
<1> QED
  BY <1>5, <1>6, <1>8 DEF P, Q, a, b, c, d, ConflictsOf, RowsOf, ColumnsOf

\* In its own row a piece has the conflicts that the whole row shows: the selected
\* piece is not in that row, or is where the piece itself was.
LEMMA RowMoved ==
  ASSUME NEW cell, NEW b, NEW new, b.cell = new, NEW p, NEW q,
         GivesWay(cell, new, p, q), ~SameRow(p, q)
  PROVE  /\ RowsOf(new, q, p)
              = InRow(b, p, cell[q])
         /\ RowsOf(cell, p, q)
              = InRow(b, q, cell[q])
<1> DEFINE home == cell[q]
           H(x) == {r \in Points : /\ r[1] = x[1] /\ new[r][1] = x[1]
                                   /\ \/ r[2] < x[2] /\ home[2] < new[r][2]
                                      \/ r[2] > x[2] /\ home[2] > new[r][2]}
<1>1. \A x : Horizontally(b, x, cell[q]) = Cardinality(H(x))
  BY DEF Horizontally
<1>2. /\ p \in Points /\ q \in Points /\ p # q /\ new[p] = home
      /\ \A r \in Points : r # p /\ r # q => new[r] = cell[r]
      /\ \A r \in Points : new[r] \in Points /\ cell[r] \in Points
      /\ p[1] # q[1]
  BY DEF GivesWay, Cells, SameRow
<1>3. \A x \in Points : \A r \in Points : \A c \in {cell, new} :
        /\ <<x, r>> \in RowPairs(c) <=> RowConflict(c, x, r)
        /\ <<r, x>> \in RowPairs(c) <=> RowConflict(c, r, x)
  BY DEF RowPairs
<1>4. With(RowPairs(new), Points \ {q}, p) = IF home[1] = p[1] THEN H(p) ELSE {}
  <2>1. ASSUME NEW r \in Points
        PROVE  (r # q /\ (RowConflict(new, p, r) \/ RowConflict(new, r, p)))
                 <=> (home[1] = p[1] /\ r \in H(p))
    <3>1. /\ r[1] \in Int /\ r[2] \in Int /\ p[1] \in Int /\ p[2] \in Int
          /\ home[1] \in Int /\ home[2] \in Int /\ new[r][1] \in Int /\ new[r][2] \in Int
      BY <1>2, Coordinates
    <3>2. new[p] = home /\ r[1] = p[1] => r # q
      BY <1>2
    <3> HIDE DEF home
    <3> QED
      BY <3>1, <3>2, <1>2 DEF RowConflict
  <2> HIDE DEF H
  <2> QED
    BY <1>2, <1>3, <2>1 DEF With, H
<1>5. With(RowPairs(cell), Points \ {p}, q) = IF home[1] = q[1] THEN H(q) ELSE {}
  <2>1. ASSUME NEW r \in Points
        PROVE  (r # p /\ (RowConflict(cell, q, r) \/ RowConflict(cell, r, q)))
                 <=> (home[1] = q[1] /\ r \in H(q))
    <3>1. /\ r[1] \in Int /\ r[2] \in Int /\ q[1] \in Int /\ q[2] \in Int
          /\ home[1] \in Int /\ home[2] \in Int /\ new[r][1] \in Int /\ new[r][2] \in Int
          /\ cell[r][1] \in Int /\ cell[r][2] \in Int
      BY <1>2, Coordinates
    <3>2. cell[q] = home /\ (r[1] = q[1] => r # p)
      BY <1>2
    <3>3. r # p /\ r # q => new[r] = cell[r]
      BY <1>2
    <3> HIDE DEF home
    <3>4. r = q => ~RowConflict(cell, q, r) /\ ~RowConflict(cell, r, q) /\ r \notin H(q)
      BY <3>1 DEF RowConflict
    <3>5. CASE r # q /\ r # p
      BY <3>1, <3>2, <3>3, <3>5 DEF RowConflict
    <3> QED
      BY <3>2, <3>4, <3>5
  <2> HIDE DEF H
  <2> QED
    BY <1>2, <1>3, <2>1 DEF With, H
<1> HIDE DEF H, home
<1> QED
  BY <1>1, <1>4, <1>5, FS_EmptySet DEF home, InRow, RowsOf

\* The same of its own column.
LEMMA ColumnMoved ==
  ASSUME NEW cell, NEW b, NEW new, b.cell = new, NEW p, NEW q,
         GivesWay(cell, new, p, q), ~SameColumn(p, q)
  PROVE  /\ ColumnsOf(new, q, p)
              = InColumn(b, p, cell[q])
         /\ ColumnsOf(cell, p, q)
              = InColumn(b, q, cell[q])
<1> DEFINE home == cell[q]
           H(x) == {r \in Points : /\ r[2] = x[2] /\ new[r][2] = x[2]
                                   /\ \/ r[1] < x[1] /\ home[1] < new[r][1]
                                      \/ r[1] > x[1] /\ home[1] > new[r][1]}
<1>1. \A x : Vertically(b, x, cell[q]) = Cardinality(H(x))
  BY DEF Vertically
<1>2. /\ p \in Points /\ q \in Points /\ p # q /\ new[p] = home
      /\ \A r \in Points : r # p /\ r # q => new[r] = cell[r]
      /\ \A r \in Points : new[r] \in Points /\ cell[r] \in Points
      /\ p[2] # q[2]
  BY DEF GivesWay, Cells, SameColumn
<1>3. \A x \in Points : \A r \in Points : \A c \in {cell, new} :
        /\ <<x, r>> \in ColumnPairs(c) <=> ColumnConflict(c, x, r)
        /\ <<r, x>> \in ColumnPairs(c) <=> ColumnConflict(c, r, x)
  BY DEF ColumnPairs
<1>4. With(ColumnPairs(new), Points \ {q}, p) = IF home[2] = p[2] THEN H(p) ELSE {}
  <2>1. ASSUME NEW r \in Points
        PROVE  (r # q /\ (ColumnConflict(new, p, r) \/ ColumnConflict(new, r, p)))
                 <=> (home[2] = p[2] /\ r \in H(p))
    <3>1. /\ r[2] \in Int /\ r[1] \in Int /\ p[2] \in Int /\ p[1] \in Int
          /\ home[2] \in Int /\ home[1] \in Int /\ new[r][2] \in Int /\ new[r][1] \in Int
      BY <1>2, Coordinates
    <3>2. new[p] = home /\ r[2] = p[2] => r # q
      BY <1>2
    <3> HIDE DEF home
    <3> QED
      BY <3>1, <3>2, <1>2 DEF ColumnConflict
  <2> HIDE DEF H
  <2> QED
    BY <1>2, <1>3, <2>1 DEF With, H
<1>5. With(ColumnPairs(cell), Points \ {p}, q) = IF home[2] = q[2] THEN H(q) ELSE {}
  <2>1. ASSUME NEW r \in Points
        PROVE  (r # p /\ (ColumnConflict(cell, q, r) \/ ColumnConflict(cell, r, q)))
                 <=> (home[2] = q[2] /\ r \in H(q))
    <3>1. /\ r[2] \in Int /\ r[1] \in Int /\ q[2] \in Int /\ q[1] \in Int
          /\ home[2] \in Int /\ home[1] \in Int /\ new[r][2] \in Int /\ new[r][1] \in Int
          /\ cell[r][2] \in Int /\ cell[r][1] \in Int
      BY <1>2, Coordinates
    <3>2. cell[q] = home /\ (r[2] = q[2] => r # p)
      BY <1>2
    <3>3. r # p /\ r # q => new[r] = cell[r]
      BY <1>2
    <3> HIDE DEF home
    <3>4. r = q => ~ColumnConflict(cell, q, r) /\ ~ColumnConflict(cell, r, q) /\ r \notin H(q)
      BY <3>1 DEF ColumnConflict
    <3>5. CASE r # q /\ r # p
      BY <3>1, <3>2, <3>3, <3>5 DEF ColumnConflict
    <3> QED
      BY <3>2, <3>4, <3>5
  <2> HIDE DEF H
  <2> QED
    BY <1>2, <1>3, <2>1 DEF With, H
<1> HIDE DEF H, home
<1> QED
  BY <1>1, <1>4, <1>5, FS_EmptySet DEF home, InColumn, ColumnsOf
\* A step along a row passes none of the other pieces: the conflicts stay.
LEMMA RowStays ==
  ASSUME NEW cell, NEW new, NEW p, NEW q, GivesWay(cell, new, p, q),
         p[1] = q[1], p[2] = q[2] + 1 \/ q[2] = p[2] + 1
  PROVE  RowsOf(new, q, p) = RowsOf(cell, p, q)
<1> DEFINE home == cell[q]
<1>1. /\ p \in Points /\ q \in Points /\ p # q /\ new[p] = home
      /\ \A r \in Points : r # p /\ r # q => new[r] = cell[r]
      /\ \A r \in Points : new[r] \in Points /\ cell[r] \in Points
  BY DEF GivesWay, Cells
<1>2. \A x \in Points : \A r \in Points : \A c \in {cell, new} :
        /\ <<x, r>> \in RowPairs(c) <=> RowConflict(c, x, r)
        /\ <<r, x>> \in RowPairs(c) <=> RowConflict(c, r, x)
  BY DEF RowPairs
<1>3. ASSUME NEW r \in Points
      PROVE  (r # q /\ (RowConflict(new, p, r) \/ RowConflict(new, r, p)))
               <=> (r # p /\ (RowConflict(cell, q, r) \/ RowConflict(cell, r, q)))
  <2>1. /\ r[1] \in Int /\ r[2] \in Int /\ q[1] \in Int /\ q[2] \in Int
        /\ p[1] \in Int /\ p[2] \in Int /\ home[1] \in Int /\ home[2] \in Int
        /\ new[r][1] \in Int /\ new[r][2] \in Int /\ cell[r][1] \in Int /\ cell[r][2] \in Int
    BY <1>1, Coordinates
  <2>2. new[p] = home /\ cell[q] = home
    BY <1>1
  <2>3. CASE r = p
    BY <2>1, <2>3 DEF RowConflict
  <2>4. CASE r = q
    BY <2>1, <2>4 DEF RowConflict
  <2>5. CASE r # p /\ r # q
    <3>1. new[r] = cell[r]
      BY <1>1, <2>5
    <3>2. r[1] = p[1] => r[2] # p[2] /\ r[2] # q[2]
      BY <1>1, <2>5, Coordinates
    <3> HIDE DEF home
    <3> QED
      BY <2>1, <2>2, <2>5, <3>1, <3>2 DEF RowConflict
  <2> QED
    BY <2>3, <2>4, <2>5
<1>4. With(RowPairs(new), Points \ {q}, p) = With(RowPairs(cell), Points \ {p}, q)
  BY <1>1, <1>2, <1>3 DEF With
<1> QED
  BY <1>4 DEF RowsOf

\* Nor does a step along a column.
LEMMA ColumnStays ==
  ASSUME NEW cell, NEW new, NEW p, NEW q, GivesWay(cell, new, p, q),
         p[2] = q[2], p[1] = q[1] + 1 \/ q[1] = p[1] + 1
  PROVE  ColumnsOf(new, q, p) = ColumnsOf(cell, p, q)
<1> DEFINE home == cell[q]
<1>1. /\ p \in Points /\ q \in Points /\ p # q /\ new[p] = home
      /\ \A r \in Points : r # p /\ r # q => new[r] = cell[r]
      /\ \A r \in Points : new[r] \in Points /\ cell[r] \in Points
  BY DEF GivesWay, Cells
<1>2. \A x \in Points : \A r \in Points : \A c \in {cell, new} :
        /\ <<x, r>> \in ColumnPairs(c) <=> ColumnConflict(c, x, r)
        /\ <<r, x>> \in ColumnPairs(c) <=> ColumnConflict(c, r, x)
  BY DEF ColumnPairs
<1>3. ASSUME NEW r \in Points
      PROVE  (r # q /\ (ColumnConflict(new, p, r) \/ ColumnConflict(new, r, p)))
               <=> (r # p /\ (ColumnConflict(cell, q, r) \/ ColumnConflict(cell, r, q)))
  <2>1. /\ r[2] \in Int /\ r[1] \in Int /\ q[2] \in Int /\ q[1] \in Int
        /\ p[2] \in Int /\ p[1] \in Int /\ home[2] \in Int /\ home[1] \in Int
        /\ new[r][2] \in Int /\ new[r][1] \in Int /\ cell[r][2] \in Int /\ cell[r][1] \in Int
    BY <1>1, Coordinates
  <2>2. new[p] = home /\ cell[q] = home
    BY <1>1
  <2>3. CASE r = p
    BY <2>1, <2>3 DEF ColumnConflict
  <2>4. CASE r = q
    BY <2>1, <2>4 DEF ColumnConflict
  <2>5. CASE r # p /\ r # q
    <3>1. new[r] = cell[r]
      BY <1>1, <2>5
    <3>2. r[2] = p[2] => r[1] # p[1] /\ r[1] # q[1]
      BY <1>1, <2>5, Coordinates
    <3> HIDE DEF home
    <3> QED
      BY <2>1, <2>2, <2>5, <3>1, <3>2 DEF ColumnConflict
  <2> QED
    BY <2>3, <2>4, <2>5
<1>4. With(ColumnPairs(new), Points \ {q}, p) = With(ColumnPairs(cell), Points \ {p}, q)
  BY <1>1, <1>2, <1>3 DEF With
<1> QED
  BY <1>4 DEF ColumnsOf


\* The piece that gives way makes the step, up, down, left or right, the other way.
LEMMA Steps ==
  ASSUME NEW p \in Points, NEW dir \in Directions
  PROVE  LET q == Neighbour(p, dir)
         IN  /\ dir \in {Up, Down} <=> dir \notin {Left, Right}
             /\ dir \in {Up, Down} =>
                  p[2] = q[2] /\ p[1] # q[1] /\ (p[1] = q[1] + 1 \/ q[1] = p[1] + 1)
             /\ dir \in {Left, Right} =>
                  p[1] = q[1] /\ p[2] # q[2] /\ (p[2] = q[2] + 1 \/ q[2] = p[2] + 1)
BY Coordinates DEF Neighbour, Delta, Directions, Up, Right, Down, Left

\* LinearConflictFeature::move.
LEMMA ConflictsMoved ==
  ASSUME NEW cell, NEW b, NEW p, NEW q, NEW dir \in Directions, q = Neighbour(p, dir),
         GivesWay(cell, b.cell, p, q)
  PROVE  ConflictsOf(b.cell, q)
           = ConflictsOf(cell, p) + LinearConflictMoved(b, dir, q, p)
<1> DEFINE new == b.cell
           home == cell[q]
           rp == RowsOf(new, q, p)
           cp == ColumnsOf(new, q, p)
           rq == RowsOf(cell, p, q)
           cq == ColumnsOf(cell, p, q)
           old == ConflictsOf(cell, p)
           after == ConflictsOf(new, q)
           hp == Horizontally(b, p, home)
           hq == Horizontally(b, q, home)
           vp == Vertically(b, p, home)
           vq == Vertically(b, q, home)
<1>1. p \in Points /\ q \in Points /\ new[p] = home
  BY DEF GivesWay
<1>2. /\ after = old + ((rp + cp) - (rq + cq)) /\ old \in Int
      /\ rp \in Nat /\ cp \in Nat /\ rq \in Nat /\ cq \in Nat
  <2>1. GivesWay(cell, new, p, q)
    OBVIOUS
  <2> HIDE DEF new
  <2> QED
    BY ONLY <2>1, ConflictsAfter
<1>3. /\ dir \in {Up, Down} <=> dir \notin {Left, Right}
      /\ dir \in {Up, Down} =>
           p[2] = q[2] /\ p[1] # q[1] /\ (p[1] = q[1] + 1 \/ q[1] = p[1] + 1)
      /\ dir \in {Left, Right} =>
           p[1] = q[1] /\ p[2] # q[2] /\ (p[2] = q[2] + 1 \/ q[2] = p[2] + 1)
  BY <1>1, Steps
<1>4. /\ LinearConflictMoved(b, dir, q, p) =
           IF dir \in {Up, Down}
           THEN IF home[1] = q[1] THEN -hq ELSE IF home[1] = p[1] THEN hp ELSE 0
           ELSE IF home[2] = q[2] THEN -vq ELSE IF home[2] = p[2] THEN vp ELSE 0
  <2>1. LinearConflictMoved(b, dir, q, p) =
          CASE dir \in {Up, Down} /\ home[1] = q[1] -> -hq
            [] dir \in {Up, Down} /\ home[1] = p[1] -> hp
            [] dir \in {Left, Right} /\ home[2] = q[2] -> -vq
            [] dir \in {Left, Right} /\ home[2] = p[2] -> vp
            [] OTHER -> 0
    BY <1>1 DEF LinearConflictMoved
  <2> HIDE DEF home, hp, hq, vp, vq
  <2>2. CASE dir \in {Up, Down}
    BY <1>3, <2>1, <2>2
  <2>3. CASE dir \in {Left, Right}
    BY <1>3, <2>1, <2>3
  <2> QED
    BY <1>3, <2>2, <2>3
<1>5. CASE dir \in {Up, Down}
  <2>1. /\ rp = InRow(b, p, home) /\ rq = InRow(b, q, home)
    <3>1. b.cell = new /\ GivesWay(cell, new, p, q) /\ ~SameRow(p, q)
      BY <1>3, <1>5 DEF SameRow
    <3> HIDE DEF new
    <3> QED
      BY ONLY <3>1, RowMoved
  <2>2. cp = cq
    BY <1>3, <1>5, ColumnStays
  <2> HIDE DEF new, home, rp, cp, rq, cq, old, after, hp, hq, vp, vq
  <2>3. /\ InRow(b, p, home) = (IF home[1] = p[1] THEN hp ELSE 0)
        /\ InRow(b, q, home) = (IF home[1] = q[1] THEN hq ELSE 0)
        /\ InColumn(b, p, home) = (IF home[2] = p[2] THEN vp ELSE 0)
        /\ InColumn(b, q, home) = (IF home[2] = q[2] THEN vq ELSE 0)
    BY DEF InRow, InColumn, hp, hq, vp, vq
  <2>4. after = old + LinearConflictMoved(b, dir, q, p)
    BY <1>2, <1>3, <1>4, <1>5, <2>1, <2>2, <2>3
  <2> QED
    BY <2>4 DEF after, old, new
<1>6. CASE dir \in {Left, Right}
  <2>1. /\ cp = InColumn(b, p, home) /\ cq = InColumn(b, q, home)
    <3>1. b.cell = new /\ GivesWay(cell, new, p, q) /\ ~SameColumn(p, q)
      BY <1>3, <1>6 DEF SameColumn
    <3> HIDE DEF new
    <3> QED
      BY ONLY <3>1, ColumnMoved
  <2>2. rp = rq
    BY <1>3, <1>6, RowStays
  <2> HIDE DEF new, home, rp, cp, rq, cq, old, after, hp, hq, vp, vq
  <2>3. /\ InRow(b, p, home) = (IF home[1] = p[1] THEN hp ELSE 0)
        /\ InRow(b, q, home) = (IF home[1] = q[1] THEN hq ELSE 0)
        /\ InColumn(b, p, home) = (IF home[2] = p[2] THEN vp ELSE 0)
        /\ InColumn(b, q, home) = (IF home[2] = q[2] THEN vq ELSE 0)
    BY DEF InRow, InColumn, hp, hq, vp, vq
  <2>4. after = old + LinearConflictMoved(b, dir, q, p)
    BY <1>2, <1>3, <1>4, <1>6, <2>1, <2>2, <2>3
  <2> QED
    BY <2>4 DEF after, old, new
<1> QED
  BY <1>3, <1>5, <1>6

-----------------------------------------------------------------------------
(* The features of a board, as such sums, before and after an operation.   *)

\* What the pieces that count add up to.
SumOf(v, b) == PieceSum(v, b.cell, Unselected(b))

\* init() and compute().
LEMMA FeatureSums ==
  ASSUME NEW b, b.cell \in Cells
  PROVE  /\ LinearConflict(b) = ConflictsOf(b.cell, b.selected)
         /\ Variance(b) = [squaredSum |-> SumOf(SquareTable, b), sum_y |-> SumOf(RowTable, b),
                           sum_x |-> SumOf(ColumnTable, b), cnt |-> SumOf(MisplacedTable, b)]
         /\ \A area : Squared(b, area) = SumOf(DistanceTable(area), b)
         /\ Weighted(b) = SumOf(WeightTable, b)
<1> DEFINE S == Unselected(b)
<1>1. S \in SUBSET Points /\ S = Points \ {b.selected}
  BY DEF Unselected
<1>2. LinearConflict(b) = ConflictsOf(b.cell, b.selected)
  <2>1. LinearConflict(b) = ConflictsAmong(b.cell, S)
    <3> HIDE DEF S
    <3> QED
      BY <1>1, ConflictSum DEF LinearConflict, S
  <2> HIDE DEF S
  <2> QED
    BY <1>1, <2>1 DEF ConflictsOf
<1>3. Variance(b) = [squaredSum |-> SumOf(SquareTable, b), sum_y |-> SumOf(RowTable, b),
                     sum_x |-> SumOf(ColumnTable, b), cnt |-> SumOf(MisplacedTable, b)]
  BY <1>1, VarianceSums DEF Variance, Misplaced, SumOf
<1>4. ASSUME NEW area PROVE Squared(b, area) = SumOf(DistanceTable(area), b)
  BY <1>1, SquaredSum DEF Squared, SumOf
<1>5. Weighted(b) = SumOf(WeightTable, b)
  BY <1>1, WeightedSum DEF Weighted, SumOf
<1> QED
  BY <1>2, <1>3, <1>4, <1>5

\* What move() does to the cells, to a sum and to the conflicts.
LEMMA MoveChanges ==
  ASSUME NEW b, Exact(b), NEW dir \in Directions, ValidMove(b.selected, dir)
  PROVE  LET m == Moved(b, dir)
             p == b.selected
             q == Neighbour(p, dir)
         IN  /\ GivesWay(b.cell, m.cell, p, q) /\ m.selected = q /\ m.cell[q] = b.cell[p]
             /\ p \in Points /\ q \in Points /\ p = Neighbour(q, Opposite(dir))
             /\ m.cell[p] \in Points /\ b.cell \in Cells /\ m.cell \in Cells
<1> DEFINE m == Moved(b, dir)
           p == b.selected
           q == Neighbour(p, dir)
<1>1. /\ p \in Points /\ q \in Points /\ m.selected = q /\ m.cell = Swapped(b.cell, p, q)
  BY MovedExact
<1>2. b.cell \in Cells
  BY ExactFields, BoardCells
<1>3. p = Neighbour(q, Opposite(dir))
  BY <1>1, BackAndForth
<1>4. p # q
  BY <1>1, Coordinates DEF Neighbour, Delta
<1> DEFINE new == Swapped(b.cell, p, q)
<1> HIDE DEF m, p, q
<1>5. /\ new \in Cells /\ new[p] = b.cell[q] /\ new[q] = b.cell[p]
      /\ \A r \in (Points \ {p}) \ {q} : new[r] = b.cell[r]
  <2> DEFINE cell == b.cell
  <2>1. new = Swapped(cell, p, q) /\ cell \in Cells /\ p \in Points /\ q \in Points
    BY <1>1, <1>2
  <2> HIDE DEF cell, new
  <2>2. /\ new \in Cells
        /\ \A r \in Points : new[r] = IF r = q THEN cell[p] ELSE IF r = p THEN cell[q] ELSE cell[r]
    BY ONLY <2>1 DEF Swapped, Cells
  <2> QED
    BY <1>4, <2>1, <2>2 DEF cell
<1> HIDE DEF new
<1>6. m.cell = new /\ new[p] \in Points
  BY <1>1, <1>5 DEF new, Cells
<1> QED
  BY <1>1, <1>2, <1>3, <1>4, <1>5, <1>6 DEF GivesWay, m, p, q

\* A sum after a move.
LEMMA SumMoved ==
  ASSUME NEW v \in Tables, NEW b, NEW m, GivesWay(b.cell, m.cell, b.selected, m.selected)
  PROVE  LET p == b.selected
             q == m.selected
         IN  /\ SumOf(v, m) = SumOf(v, b) + (v[p][m.cell[p]] - v[q][m.cell[p]])
             /\ SumOf(v, b) \in Int /\ v[p][m.cell[p]] \in Int /\ v[q][m.cell[p]] \in Int
<1> DEFINE p == b.selected
           q == m.selected
           cell == b.cell
           new == m.cell
<1>1. /\ cell \in Cells /\ new \in Cells /\ p \in Points /\ q \in Points /\ p # q
      /\ new[p] = cell[q] /\ \A r \in (Points \ {p}) \ {q} : new[r] = cell[r]
  BY DEF GivesWay
<1>2. SumOf(v, m) = PieceSum(v, new, Points \ {q}) /\ SumOf(v, b) = PieceSum(v, cell, Points \ {p})
  BY DEF SumOf, Unselected
<1> HIDE DEF p, q, cell, new
<1>3. PieceSum(v, new, Points \ {q})
        = PieceSum(v, cell, Points \ {p}) + (v[p][cell[q]] - v[q][cell[q]])
  BY <1>1, PieceSumMoved
<1>4. PieceSum(v, cell, Points \ {p}) \in Int
  <2>1. Points \ {p} \in SUBSET Points
    OBVIOUS
  <2> QED
    BY <1>1, <2>1, PiecesWeigh
<1>5. cell[q] \in Points /\ v[p][cell[q]] \in Int /\ v[q][cell[q]] \in Int
  BY <1>1 DEF Cells, Tables
<1> QED
  BY <1>1, <1>2, <1>3, <1>4, <1>5 DEF p, q, cell, new

\* The variance carried along a move.
LEMMA VarianceMovedIs ==
  ASSUME NEW s \in Int, NEW y \in Int, NEW x \in Int, NEW n \in Int, NEW m,
         NEW p \in Points, NEW q \in Points, m.cell[p] \in Points
  PROVE  VarianceMoved([squaredSum |-> s, sum_y |-> y, sum_x |-> x, cnt |-> n], m, q, p)
           = [squaredSum |-> s + (SquareTable[p][m.cell[p]] - SquareTable[q][m.cell[p]]),
              sum_y |-> y + (RowTable[p][m.cell[p]] - RowTable[q][m.cell[p]]),
              sum_x |-> x + (ColumnTable[p][m.cell[p]] - ColumnTable[q][m.cell[p]]),
              cnt |-> n + (MisplacedTable[p][m.cell[p]] - MisplacedTable[q][m.cell[p]])]
<1> DEFINE w == m.cell[p]
           P == p[1] * p[1] + p[2] * p[2]
           Q == q[1] * q[1] + q[2] * q[2]
<1>1. /\ p[1] \in Int /\ p[2] \in Int /\ q[1] \in Int /\ q[2] \in Int /\ P \in Int /\ Q \in Int
  BY Coordinates
<1>2. w \in Points
  OBVIOUS
<1> HIDE DEF w
<1>3. /\ SquareTable[p][w] = (IF w # p THEN P ELSE 0)
      /\ SquareTable[q][w] = (IF w # q THEN Q ELSE 0)
      /\ RowTable[p][w] = (IF w # p THEN p[1] ELSE 0)
      /\ RowTable[q][w] = (IF w # q THEN q[1] ELSE 0)
      /\ ColumnTable[p][w] = (IF w # p THEN p[2] ELSE 0)
      /\ ColumnTable[q][w] = (IF w # q THEN q[2] ELSE 0)
      /\ MisplacedTable[p][w] = (IF w # p THEN 1 ELSE 0)
      /\ MisplacedTable[q][w] = (IF w # q THEN 1 ELSE 0)
  BY <1>2 DEF SquareTable, RowTable, ColumnTable, MisplacedTable, One
<1> DEFINE v == [squaredSum |-> s, sum_y |-> y, sum_x |-> x, cnt |-> n]
           r == IF w # q THEN [squaredSum |-> s - Q, sum_y |-> y - q[1],
                               sum_x |-> x - q[2], cnt |-> n - 1]
                ELSE v
<1>4. VarianceMoved(v, m, q, p)
        = IF w # p THEN [squaredSum |-> r.squaredSum + P, sum_y |-> r.sum_y + p[1],
                         sum_x |-> r.sum_x + p[2], cnt |-> r.cnt + 1]
          ELSE r
  BY DEF VarianceMoved, VarianceAdd, VarianceRemove, w
<1> HIDE DEF P, Q
<1>5. CASE w # q /\ w # p
  BY <1>1, <1>3, <1>4, <1>5 DEF w
<1>6. CASE w # q /\ w = p
  BY <1>1, <1>3, <1>4, <1>6 DEF w
<1>7. CASE w = q /\ w # p
  BY <1>1, <1>3, <1>4, <1>7 DEF w
<1>8. CASE w = q /\ w = p
  BY <1>1, <1>3, <1>4, <1>8 DEF w
<1> QED
  BY <1>5, <1>6, <1>7, <1>8

\* A sum after a selection.
LEMMA SumSelected ==
  ASSUME NEW v \in Tables, NEW b, b.cell \in Cells, b.selected \in Points \cup {NoPoint},
         NEW m, m.cell = b.cell, m.selected \in Points
  PROVE  LET p == m.selected
         IN  /\ SumOf(v, m) = SumOf(v, b) + (PieceAt(v, b.cell, b.selected) - v[p][b.cell[p]])
             /\ SumOf(v, b) \in Int /\ PieceAt(v, b.cell, b.selected) \in Int
             /\ v[p][b.cell[p]] \in Int
<1> DEFINE p == m.selected
           pre == b.selected
           cell == b.cell
<1>1. cell \in Cells /\ p \in Points /\ pre \in Points \cup {NoPoint}
  OBVIOUS
<1>2. /\ SumOf(v, m) = PieceSum(v, cell, Points \ {p})
      /\ SumOf(v, b) = PieceSum(v, cell, Points \ {pre})
  BY DEF SumOf, Unselected
<1> HIDE DEF p, pre, cell
<1>3. PieceSum(v, cell, Points \ {p})
        = PieceSum(v, cell, Points \ {pre}) + (PieceAt(v, cell, pre) - v[p][cell[p]])
  BY <1>1, PieceSumSelected
<1>4. PieceSum(v, cell, Points \ {pre}) \in Int
  <2>1. Points \ {pre} \in SUBSET Points
    OBVIOUS
  <2> QED
    BY <1>1, <2>1, PiecesWeigh
<1>5. PieceAt(v, cell, pre) \in Int /\ v[p][cell[p]] \in Int
  BY <1>1, NoPointOutside DEF Cells, Tables, PieceAt, IsSelected
<1> QED
  BY <1>2, <1>3, <1>4, <1>5 DEF p, pre, cell

\* What selecting another place changes in a sum: the piece that was selected counts
\* again, and the one selected on the new board counts no more.
Change(v, m, pre) == PieceAt(v, m.cell, pre) - v[m.selected][m.cell[m.selected]]

\* The variance carried along a selection.
LEMMA VarianceSelectedIs ==
  ASSUME NEW s \in Int, NEW y \in Int, NEW x \in Int, NEW n \in Int, NEW m, m.cell \in Cells,
         m.selected \in Points, NEW pre \in Points \cup {NoPoint}
  PROVE  VarianceSelected([squaredSum |-> s, sum_y |-> y, sum_x |-> x, cnt |-> n], m, pre)
           = [squaredSum |-> s + Change(SquareTable, m, pre),
              sum_y |-> y + Change(RowTable, m, pre),
              sum_x |-> x + Change(ColumnTable, m, pre),
              cnt |-> n + Change(MisplacedTable, m, pre)]
<1> DEFINE cell == m.cell
           q == m.selected
           there == IsSelected(pre) /\ cell[pre] # pre
           P == pre[1] * pre[1] + pre[2] * pre[2]
           Q == q[1] * q[1] + q[2] * q[2]
<1>1. /\ q[1] \in Int /\ q[2] \in Int /\ Q \in Int
      /\ there => pre[1] \in Int /\ pre[2] \in Int /\ P \in Int
  BY Coordinates DEF IsSelected
<1>2. \A p \in Points : cell[p] \in Points
  BY DEF Cells
<1>3. q \in Points /\ (IsSelected(pre) <=> pre \in Points)
  BY NoPointOutside DEF IsSelected
<1> HIDE DEF cell, q
<1>4. /\ SquareTable[q][cell[q]] = (IF cell[q] # q THEN Q ELSE 0)
      /\ RowTable[q][cell[q]] = (IF cell[q] # q THEN q[1] ELSE 0)
      /\ ColumnTable[q][cell[q]] = (IF cell[q] # q THEN q[2] ELSE 0)
      /\ MisplacedTable[q][cell[q]] = (IF cell[q] # q THEN 1 ELSE 0)
  BY <1>2, <1>3 DEF SquareTable, RowTable, ColumnTable, MisplacedTable, One
<1>5. /\ PieceAt(SquareTable, cell, pre) = (IF there THEN P ELSE 0)
      /\ PieceAt(RowTable, cell, pre) = (IF there THEN pre[1] ELSE 0)
      /\ PieceAt(ColumnTable, cell, pre) = (IF there THEN pre[2] ELSE 0)
      /\ PieceAt(MisplacedTable, cell, pre) = (IF there THEN 1 ELSE 0)
  BY <1>2, <1>3 DEF SquareTable, RowTable, ColumnTable, MisplacedTable, One, PieceAt
<1> DEFINE v == [squaredSum |-> s, sum_y |-> y, sum_x |-> x, cnt |-> n]
           r == IF there THEN [squaredSum |-> s + P, sum_y |-> y + pre[1],
                               sum_x |-> x + pre[2], cnt |-> n + 1]
                ELSE v
<1>6. VarianceSelected(v, m, pre)
        = IF cell[q] # q THEN [squaredSum |-> r.squaredSum - Q, sum_y |-> r.sum_y - q[1],
                               sum_x |-> r.sum_x - q[2], cnt |-> r.cnt - 1]
          ELSE r
  BY DEF VarianceSelected, VarianceAdd, VarianceRemove, cell, q
<1> HIDE DEF P, Q, there
<1>7. CASE there /\ cell[q] # q
  BY <1>1, <1>4, <1>5, <1>6, <1>7 DEF cell, q, Change
<1>8. CASE there /\ cell[q] = q
  BY <1>1, <1>4, <1>5, <1>6, <1>8 DEF cell, q, Change
<1>9. CASE ~there /\ cell[q] # q
  BY <1>1, <1>4, <1>5, <1>6, <1>9 DEF cell, q, Change
<1>10. CASE ~there /\ cell[q] = q
  BY <1>1, <1>4, <1>5, <1>6, <1>10 DEF cell, q, Change
<1> QED
  BY <1>7, <1>8, <1>9, <1>10

\* The squared distances carried along a move: the square of a distance that grows or
\* shrinks by one.
LEMMA SquaredMovedIs ==
  ASSUME NEW m, NEW p \in Points, NEW q \in Points, NEW dir \in Directions,
         p = Neighbour(q, Opposite(dir)), m.cell[p] \in Points, NEW area
  PROVE  SquaredMoved(m, dir, q, p, area)
           = DistanceTable(area)[p][m.cell[p]] - DistanceTable(area)[q][m.cell[p]]
<1> DEFINE w == m.cell[p]
           d == Distance(p, w)
           e == Distance(q, w)
           k == Step(q, w, Opposite(dir))
<1>1. w \in Points /\ Opposite(dir) \in Directions
  BY BackAndForth
<1>2. d \in Nat /\ e \in Nat /\ d = e + k /\ k \in {-1, 1}
  BY <1>1, DistanceType, StepDistance DEF Step
<1>3. SquaredMoved(m, dir, q, p, area) = One(w \notin area) * (2 * k * d - 1)
  BY DEF SquaredMoved, Coefficient
<1>4. /\ DistanceTable(area)[p][w] = (IF w \notin area THEN d * d ELSE 0)
      /\ DistanceTable(area)[q][w] = (IF w \notin area THEN e * e ELSE 0)
  BY <1>1 DEF DistanceTable
<1> HIDE DEF w, d, e, k
<1>5. d * d - e * e = 2 * k * d - 1 /\ 2 * k * d - 1 \in Int
  <2>1. CASE k = 1
    <3>1. e = d - 1
      BY <1>2, <2>1
    <3>2. (d - 1) * (d - 1) = d * d - 2 * d + 1 /\ d * d \in Int
      BY <1>2
    <3> QED
      BY <1>2, <2>1, <3>1, <3>2
  <2>2. CASE k = -1
    <3>1. e = d + 1
      BY <1>2, <2>2
    <3>2. (d + 1) * (d + 1) = d * d + 2 * d + 1 /\ d * d \in Int
      BY <1>2
    <3> QED
      BY <1>2, <2>2, <3>1, <3>2
  <2> QED
    BY <1>2, <2>1, <2>2
<1>6. CASE w \in area
  <2>1. One(w \notin area) = 0
    BY <1>6 DEF One
  <2> QED
    BY <1>3, <1>4, <1>5, <1>6, <2>1 DEF w
<1>7. CASE w \notin area
  <2>1. One(w \notin area) = 1
    BY <1>7 DEF One
  <2> QED
    BY <1>3, <1>4, <1>5, <1>7, <2>1 DEF w
<1> QED
  BY <1>6, <1>7

\* The squared distances carried along a selection.
LEMMA SquaredSelectedIs ==
  ASSUME NEW m, m.cell \in Cells, m.selected \in Points, NEW pre \in Points \cup {NoPoint}, NEW area
  PROVE  SquaredSelected(m, pre, area)
           = PieceAt(DistanceTable(area), m.cell, pre)
               - DistanceTable(area)[m.selected][m.cell[m.selected]]
<1>1. ASSUME NEW p \in Points PROVE SquaredOf(m, p, area) = DistanceTable(area)[p][m.cell[p]]
  <2> DEFINE d == Distance(p, m.cell[p])
  <2>1. m.cell[p] \in Points
    BY DEF Cells
  <2>2. d \in Int
    BY <2>1, DistanceType
  <2>3. DistanceTable(area)[p][m.cell[p]] = (IF m.cell[p] \notin area THEN d * d ELSE 0)
    BY <2>1 DEF DistanceTable
  <2>4. SquaredOf(m, p, area) = (IF m.cell[p] \notin area THEN 1 ELSE 0) * d * d
    BY DEF SquaredOf, Coefficient, One
  <2> HIDE DEF d
  <2>5. 1 * d * d = d * d /\ 0 * d * d = 0
    BY <2>2
  <2> QED
    BY <2>3, <2>4, <2>5
<1>2. IsSelected(pre) => pre \in Points
  BY DEF IsSelected
<1>3. SquaredOf(m, m.selected, area) = DistanceTable(area)[m.selected][m.cell[m.selected]]
  BY <1>1
<1>4. IsSelected(pre) => SquaredOf(m, pre, area) = DistanceTable(area)[pre][m.cell[pre]]
  BY <1>1, <1>2
<1> QED
  BY <1>3, <1>4 DEF SquaredSelected, PieceAt

\* The weighted distances carried along a move: exact for a move up, twice as much
\* for any other.
LEMMA WeightedMovedIs ==
  ASSUME NEW m, NEW p \in Points, NEW q \in Points, NEW dir \in Directions,
         p = Neighbour(q, Opposite(dir)), m.cell[p] \in Points
  PROVE  WeightedMoved(m, dir, q, p)
           = (IF dir = Up THEN 1 ELSE 2) * (WeightTable[p][m.cell[p]] - WeightTable[q][m.cell[p]])
<1> DEFINE w == m.cell[p]
           x == Weight(w)
           d == Distance(p, w)
           e == Distance(q, w)
           k == Step(q, w, Opposite(dir))
           c == IF dir = Up THEN 1 ELSE 2
<1>1. w \in Points /\ Opposite(dir) \in Directions
  BY BackAndForth
<1>2. d \in Nat /\ e \in Nat /\ d = e + k /\ k \in {-1, 1}
  BY <1>1, DistanceType, StepDistance DEF Step
<1>3. x \in Int
  BY <1>1, WeightType
<1>4. WeightedMoved(m, dir, q, p) = x * k * c
  BY DEF WeightedMoved
<1>5. WeightTable[p][w] = x * d /\ WeightTable[q][w] = x * e
  BY <1>1 DEF WeightTable
<1>6. c \in Int
  OBVIOUS
<1> HIDE DEF w, x, d, e, k, c
<1>7. x * d - x * e = x * k
  <2>1. CASE k = 1
    <3>1. x * (e + 1) = x * e + x /\ x * e \in Int
      BY <1>2, <1>3
    <3> QED
      BY <1>2, <1>3, <2>1, <3>1
  <2>2. CASE k = -1
    <3>1. x * (e - 1) = x * e - x /\ x * e \in Int /\ d = e - 1
      BY <1>2, <1>3, <2>2
    <3> QED
      BY <1>2, <1>3, <2>2, <3>1
  <2> QED
    BY <1>2, <2>1, <2>2
<1>8. x * k * c = c * (x * k)
  BY <1>2, <1>3, <1>6
<1>9. WeightedMoved(m, dir, q, p) = c * (WeightTable[p][w] - WeightTable[q][w])
  BY ONLY <1>4, <1>5, <1>7, <1>8
<1> QED
  BY <1>9 DEF c, w

\* The weighted distances carried along a selection.
LEMMA WeightedSelectedIs ==
  ASSUME NEW m, m.cell \in Cells, m.selected \in Points, NEW pre \in Points \cup {NoPoint}
  PROVE  WeightedSelected(m, pre)
           = PieceAt(WeightTable, m.cell, pre) - WeightTable[m.selected][m.cell[m.selected]]
<1>1. \A p \in Points : m.cell[p] \in Points
  BY DEF Cells
<1>2. \A p \in Points : WeightTable[p][m.cell[p]] = Weight(m.cell[p]) * Distance(p, m.cell[p])
  BY <1>1 DEF WeightTable
<1>3. IsSelected(pre) => pre \in Points
  BY DEF IsSelected
<1> QED
  BY <1>2, <1>3 DEF WeightedSelected, PieceAt

\* Exclusive or: a number is in it if it is in exactly one.
LEMMA XorFacts ==
  ASSUME NEW h, NEW k, NEW l
  PROVE  /\ \A x : x \in Xor(h, k) <=> ~(x \in h <=> x \in k)
         /\ Xor(Xor(h, k), k) = h /\ Xor(h, {}) = h
         /\ Xor(Xor(h, k), l) = Xor(Xor(h, l), k)
BY DEF Xor

\* The numbers of the pieces at their places.
PlaceHash(cell) == {<<cell[p], p>> : p \in Points}

\* KurageHashFeature::move.
LEMMA HashMovedIs ==
  ASSUME NEW b, NEW m, GivesWay(b.cell, m.cell, b.selected, m.selected),
         m.cell[m.selected] = b.cell[b.selected],
         \A x, y \in Points : b.cell[x] = b.cell[y] => x = y
  PROVE  HashMoved(Hash(b), m, m.selected, b.selected) = Hash(m) /\ SelHash(m) = SelHash(b)
<1> DEFINE cell == b.cell
           new == m.cell
           p == b.selected
           q == m.selected
           D == {<<new[q], q>>, <<new[q], p>>, <<new[p], q>>, <<new[p], p>>}
           s == SelHash(b)
<1>1. /\ cell \in Cells /\ new \in Cells /\ p \in Points /\ q \in Points /\ p # q
      /\ new[p] = cell[q] /\ new[q] = cell[p] /\ \A r \in (Points \ {p}) \ {q} : new[r] = cell[r]
      /\ \A x, y \in Points : cell[x] = cell[y] => x = y
  BY DEF GivesWay
<1>2. SelHash(m) = s
  BY <1>1, NoPointOutside DEF SelHash, IsSelected
<1>3. /\ Hash(b) = Xor(PlaceHash(cell), s) /\ Hash(m) = Xor(PlaceHash(new), s)
      /\ HashMoved(Hash(b), m, m.selected, b.selected) = Xor(Hash(b), D)
  BY <1>2 DEF Hash, PlaceHash, HashMoved
<1> HIDE DEF s
<1>4. Xor(PlaceHash(cell), D) = PlaceHash(new)
  <2> HIDE DEF cell, new, p, q
  <2>1. cell[p] # cell[q]
    BY <1>1
  <2>2. \A h, r : <<h, r>> \in PlaceHash(cell) <=> r \in Points /\ h = cell[r]
    BY DEF PlaceHash
  <2>3. \A h, r : <<h, r>> \in PlaceHash(new) <=> r \in Points /\ h = new[r]
    BY DEF PlaceHash
  <2>4. \A h, r : <<h, r>> \in D <=> (h = new[q] \/ h = new[p]) /\ (r = q \/ r = p)
    OBVIOUS
  <2>5. \A x : x \in PlaceHash(cell) \/ x \in PlaceHash(new) \/ x \in D => x = <<x[1], x[2]>>
    BY DEF PlaceHash
  <2> HIDE DEF D
  <2>6. \A h, r : ~(<<h, r>> \in PlaceHash(cell) <=> <<h, r>> \in D) <=> <<h, r>> \in PlaceHash(new)
    <3> SUFFICES ASSUME NEW h, NEW r
                 PROVE  ~(<<h, r>> \in PlaceHash(cell) <=> <<h, r>> \in D)
                          <=> <<h, r>> \in PlaceHash(new)
      OBVIOUS
    <3>1. /\ <<h, r>> \in PlaceHash(cell) <=> r \in Points /\ h = cell[r]
          /\ <<h, r>> \in PlaceHash(new) <=> r \in Points /\ h = new[r]
          /\ <<h, r>> \in D <=> (h = cell[p] \/ h = cell[q]) /\ (r = q \/ r = p)
      BY <1>1, <2>2, <2>3, <2>4
    <3>2. CASE r = p
      BY <1>1, <2>1, <3>1, <3>2
    <3>3. CASE r = q
      BY <1>1, <2>1, <3>1, <3>3
    <3>4. CASE r # p /\ r # q
      <4>1. r \in Points => new[r] = cell[r]
        BY <1>1, <3>4
      <4> QED
        BY <3>1, <3>4, <4>1
    <3> QED
      BY <3>2, <3>3, <3>4
  <2>7. \A x : x \in Xor(PlaceHash(cell), D) <=> x \in PlaceHash(new)
    BY <2>5, <2>6 DEF Xor
  <2> QED
    BY <2>7
<1> HIDE DEF D
<1>5. Xor(Xor(PlaceHash(cell), s), D) = Xor(PlaceHash(new), s)
  BY <1>4, XorFacts
<1>6. HashMoved(Hash(b), m, m.selected, b.selected) = Hash(m)
  BY ONLY <1>3, <1>5
<1> QED
  BY <1>2, <1>6 DEF s

\* KurageHashFeature::select takes the number of the piece selected before out, if
\* there is one, and that of the new one in.
LEMMA HashSelectedIs ==
  ASSUME NEW b, NEW m, m.cell = b.cell, m.selected \in Points
  PROVE  /\ SelHash(m) = {<<m.cell[m.selected]>>}
         /\ Xor(Xor(Hash(b), SelHash(b)), SelHash(m)) = Hash(m)
<1>1. SelHash(m) = {<<m.cell[m.selected]>>}
  BY NoPointOutside DEF SelHash, IsSelected
<1>2. Hash(b) = Xor(PlaceHash(b.cell), SelHash(b)) /\ Hash(m) = Xor(PlaceHash(b.cell), SelHash(m))
  BY DEF Hash, PlaceHash
<1> QED
  BY <1>1, <1>2, XorFacts

\* KurageBoard::move and WhaleBoard::move, of a board whose features are exact: so are
\* all of them afterwards, but for the weighted distances.
LEMMA FeaturesAfterMove ==
  ASSUME NEW b, Exact(b), NEW dir \in Directions, ValidMove(b.selected, dir)
  PROVE  LET f == Features(b)
             m == Moved(b, dir)
             g == FeaturesMoved(f, m, dir)
         IN  /\ Unweighted(g) = Unweighted(Features(m))
             /\ g.weighted - f.weighted = (IF dir = Up THEN 1 ELSE 2) * (Weighted(m) - f.weighted)
<1> DEFINE m == Moved(b, dir)
           p == b.selected
           q == m.selected
           w == m.cell[p]
           f == Features(b)
           g == FeaturesMoved(f, m, dir)
<1>1. /\ GivesWay(b.cell, m.cell, p, q) /\ m.cell[q] = b.cell[p]
      /\ p \in Points /\ q \in Points /\ p = Neighbour(q, Opposite(dir)) /\ q = Neighbour(p, dir)
      /\ w \in Points /\ b.cell \in Cells /\ m.cell \in Cells
  BY MoveChanges
<1>2. \A x, y \in Points : b.cell[x] = b.cell[y] => x = y
  BY ExactFields, BoardCells
<1> HIDE DEF m
<1>3. LinearConflict(b) + LinearConflictMoved(m, dir, q, p) = LinearConflict(m)
  <2>1. LinearConflict(b) = ConflictsOf(b.cell, p) /\ LinearConflict(m) = ConflictsOf(m.cell, q)
    BY <1>1, FeatureSums
  <2>2. GivesWay(b.cell, m.cell, p, q) /\ q = Neighbour(p, dir) /\ dir \in Directions
    BY <1>1
  <2> HIDE DEF p, q
  <2>3. ConflictsOf(m.cell, q) = ConflictsOf(b.cell, p) + LinearConflictMoved(m, dir, q, p)
    BY ONLY <2>2, ConflictsMoved
  <2> QED
    BY ONLY <2>1, <2>3
<1>4. \A v \in Tables : /\ SumOf(v, m) = SumOf(v, b) + (v[p][w] - v[q][w])
                        /\ SumOf(v, b) \in Int /\ v[p][w] \in Int /\ v[q][w] \in Int
  BY <1>1, SumMoved
<1>5. VarianceMoved(Variance(b), m, q, p) = Variance(m)
  <2> DEFINE s == SumOf(SquareTable, b)
             y == SumOf(RowTable, b)
             x == SumOf(ColumnTable, b)
             n == SumOf(MisplacedTable, b)
  <2>1. Variance(b) = [squaredSum |-> s, sum_y |-> y, sum_x |-> x, cnt |-> n]
    BY <1>1, FeatureSums
  <2>2. Variance(m) = [squaredSum |-> SumOf(SquareTable, m), sum_y |-> SumOf(RowTable, m),
                       sum_x |-> SumOf(ColumnTable, m), cnt |-> SumOf(MisplacedTable, m)]
    BY <1>1, FeatureSums
  <2>3. /\ s \in Int /\ y \in Int /\ x \in Int /\ n \in Int
        /\ SumOf(SquareTable, m) = s + (SquareTable[p][w] - SquareTable[q][w])
        /\ SumOf(RowTable, m) = y + (RowTable[p][w] - RowTable[q][w])
        /\ SumOf(ColumnTable, m) = x + (ColumnTable[p][w] - ColumnTable[q][w])
        /\ SumOf(MisplacedTable, m) = n + (MisplacedTable[p][w] - MisplacedTable[q][w])
    BY <1>4, TableTypes
  <2>4. p \in Points /\ q \in Points /\ m.cell[p] \in Points
    BY <1>1
  <2> HIDE DEF s, y, x, n, p, q
  <2>5. VarianceMoved([squaredSum |-> s, sum_y |-> y, sum_x |-> x, cnt |-> n], m, q, p)
          = [squaredSum |-> s + (SquareTable[p][w] - SquareTable[q][w]),
             sum_y |-> y + (RowTable[p][w] - RowTable[q][w]),
             sum_x |-> x + (ColumnTable[p][w] - ColumnTable[q][w]),
             cnt |-> n + (MisplacedTable[p][w] - MisplacedTable[q][w])]
    <3>1. s \in Int /\ y \in Int /\ x \in Int /\ n \in Int
      BY ONLY <2>3
    <3> QED
      BY ONLY <2>4, <3>1, VarianceMovedIs
  <2> QED
    BY <2>1, <2>2, <2>3, <2>5
<1>6. ASSUME NEW area PROVE Squared(b, area) + SquaredMoved(m, dir, q, p, area) = Squared(m, area)
  <2> DEFINE v == DistanceTable(area)
  <2>1. Squared(b, area) = SumOf(v, b) /\ Squared(m, area) = SumOf(v, m)
    BY <1>1, FeatureSums
  <2>2. SumOf(v, m) = SumOf(v, b) + (v[p][w] - v[q][w])
    BY <1>4, TableTypes
  <2>3. SquaredMoved(m, dir, q, p, area) = v[p][w] - v[q][w]
    BY <1>1, SquaredMovedIs
  <2> QED
    BY ONLY <2>1, <2>2, <2>3
<1>7. /\ Weighted(m) - Weighted(b) = WeightTable[p][w] - WeightTable[q][w]
      /\ (Weighted(b) + WeightedMoved(m, dir, q, p)) - Weighted(b)
           = (IF dir = Up THEN 1 ELSE 2) * (WeightTable[p][w] - WeightTable[q][w])
  <2> DEFINE x == WeightTable[p][w]
             y == WeightTable[q][w]
             z == WeightedMoved(m, dir, q, p)
  <2>1. Weighted(b) = SumOf(WeightTable, b) /\ Weighted(m) = SumOf(WeightTable, m)
    BY <1>1, FeatureSums
  <2>2. SumOf(WeightTable, m) = SumOf(WeightTable, b) + (x - y) /\ SumOf(WeightTable, b) \in Int
        /\ x \in Int /\ y \in Int
    BY <1>4, TableTypes
  <2>3. z = (IF dir = Up THEN 1 ELSE 2) * (x - y)
    BY <1>1, WeightedMovedIs
  <2> HIDE DEF x, y, z
  <2>4. z \in Int
    BY <2>2, <2>3
  <2>5. Weighted(m) - Weighted(b) = x - y /\ (Weighted(b) + z) - Weighted(b) = z
    BY ONLY <2>1, <2>2, <2>4
  <2> QED
    BY <2>3, <2>5 DEF x, y, z
<1>8. HashMoved(Hash(b), m, q, p) = Hash(m) /\ SelHash(m) = SelHash(b)
  BY <1>1, <1>2, HashMovedIs
<1>9. g = [linearConflict |-> LinearConflict(b) + LinearConflictMoved(m, dir, q, p),
           variance |-> VarianceMoved(Variance(b), m, q, p),
           squared |-> Squared(b, {}) + SquaredMoved(m, dir, q, p, {}),
           restricted |-> Squared(b, FixedArea) + SquaredMoved(m, dir, q, p, FixedArea),
           weighted |-> Weighted(b) + WeightedMoved(m, dir, q, p),
           selHash |-> SelHash(b),
           hash |-> HashMoved(Hash(b), m, q, p)]
  BY <1>1 DEF FeaturesMoved, Features
<1>10. Unweighted(g) = Unweighted(Features(m))
  BY <1>3, <1>5, <1>6, <1>8, <1>9 DEF Unweighted, Features
<1>11. f.weighted = Weighted(b) /\ g.weighted = Weighted(b) + WeightedMoved(m, dir, q, p)
  BY <1>9 DEF Features
<1> HIDE DEF f, g, w, p, q
<1>12. g.weighted - f.weighted = (IF dir = Up THEN 1 ELSE 2) * (Weighted(m) - f.weighted)
  <2> DEFINE c == IF dir = Up THEN 1 ELSE 2
             z == WeightedMoved(m, dir, q, p)
             d == WeightTable[p][w] - WeightTable[q][w]
  <2> HIDE DEF c, d, z
  <2>1. Weighted(m) - Weighted(b) = d /\ (Weighted(b) + z) - Weighted(b) = c * d
    BY ONLY <1>7 DEF c, d, z
  <2>2. g.weighted - f.weighted = c * d /\ Weighted(m) - f.weighted = d
    BY ONLY <1>11, <2>1 DEF z
  <2> QED
    BY ONLY <2>2 DEF c
<1> QED
  BY ONLY <1>10, <1>12 DEF f, g, m

\* KurageBoard::select and WhaleBoard::select: all features are exact afterwards.
LEMMA FeaturesAfterSelect ==
  ASSUME NEW b, b.cell \in Cells, b.selected \in Points \cup {NoPoint},
         NEW m, m.cell = b.cell, m.selected \in Points
  PROVE  FeaturesSelected(Features(b), m, b.selected) = Features(m)
<1> DEFINE p == m.selected
           pre == b.selected
           cell == b.cell
           At(v) == PieceAt(v, cell, pre) - v[p][cell[p]]
<1>1. LinearConflict(b) + LinearConflictSelected(m, pre) = LinearConflict(m)
  BY FeatureSums, ConflictsSelected
<1>2. \A v \in Tables : SumOf(v, m) = SumOf(v, b) + At(v) /\ SumOf(v, b) \in Int
  BY SumSelected
<1>3. VarianceSelected(Variance(b), m, pre) = Variance(m)
  <2> DEFINE s == SumOf(SquareTable, b)
             y == SumOf(RowTable, b)
             x == SumOf(ColumnTable, b)
             n == SumOf(MisplacedTable, b)
  <2>1. Variance(b) = [squaredSum |-> s, sum_y |-> y, sum_x |-> x, cnt |-> n]
    BY FeatureSums
  <2>2. Variance(m) = [squaredSum |-> SumOf(SquareTable, m), sum_y |-> SumOf(RowTable, m),
                       sum_x |-> SumOf(ColumnTable, m), cnt |-> SumOf(MisplacedTable, m)]
    BY FeatureSums
  <2> HIDE DEF At
  <2>3. /\ s \in Int /\ y \in Int /\ x \in Int /\ n \in Int
        /\ SumOf(SquareTable, m) = s + At(SquareTable)
        /\ SumOf(RowTable, m) = y + At(RowTable)
        /\ SumOf(ColumnTable, m) = x + At(ColumnTable)
        /\ SumOf(MisplacedTable, m) = n + At(MisplacedTable)
    BY <1>2, TableTypes
  <2>4. m.cell \in Cells /\ p \in Points /\ pre \in Points \cup {NoPoint}
    OBVIOUS
  <2>5. \A v : At(v) = Change(v, m, pre)
    BY DEF At, Change
  <2> HIDE DEF s, y, x, n, pre
  <2>6. VarianceSelected([squaredSum |-> s, sum_y |-> y, sum_x |-> x, cnt |-> n], m, pre)
          = [squaredSum |-> s + At(SquareTable), sum_y |-> y + At(RowTable),
             sum_x |-> x + At(ColumnTable), cnt |-> n + At(MisplacedTable)]
    <3>1. /\ s \in Int /\ y \in Int /\ x \in Int /\ n \in Int
          /\ m.cell \in Cells /\ m.selected \in Points /\ pre \in Points \cup {NoPoint}
      BY <2>3, <2>4
    <3>2. VarianceSelected([squaredSum |-> s, sum_y |-> y, sum_x |-> x, cnt |-> n], m, pre)
            = [squaredSum |-> s + Change(SquareTable, m, pre),
               sum_y |-> y + Change(RowTable, m, pre),
               sum_x |-> x + Change(ColumnTable, m, pre),
               cnt |-> n + Change(MisplacedTable, m, pre)]
      BY ONLY <3>1, VarianceSelectedIs
    <3> QED
      BY ONLY <2>5, <3>2
  <2> QED
    BY <2>1, <2>2, <2>3, <2>6
<1>4. ASSUME NEW area PROVE Squared(b, area) + SquaredSelected(m, pre, area) = Squared(m, area)
  <2>1. /\ Squared(b, area) = SumOf(DistanceTable(area), b)
        /\ Squared(m, area) = SumOf(DistanceTable(area), m)
    BY FeatureSums
  <2>2. SumOf(DistanceTable(area), m) = SumOf(DistanceTable(area), b) + At(DistanceTable(area))
    BY <1>2, TableTypes
  <2>3. SquaredSelected(m, pre, area) = At(DistanceTable(area))
    BY SquaredSelectedIs
  <2> QED
    BY ONLY <2>1, <2>2, <2>3
<1>5. Weighted(b) + WeightedSelected(m, pre) = Weighted(m)
  <2>1. Weighted(b) = SumOf(WeightTable, b) /\ Weighted(m) = SumOf(WeightTable, m)
    BY FeatureSums
  <2>2. SumOf(WeightTable, m) = SumOf(WeightTable, b) + At(WeightTable)
    BY <1>2, TableTypes
  <2>3. WeightedSelected(m, pre) = At(WeightTable)
    BY WeightedSelectedIs
  <2> QED
    BY ONLY <2>1, <2>2, <2>3
<1>6. /\ SelHash(m) = {<<m.cell[p]>>}
      /\ Xor(Xor(Hash(b), SelHash(b)), SelHash(m)) = Hash(m)
  BY HashSelectedIs
<1>7. FeaturesSelected(Features(b), m, pre)
        = [linearConflict |-> LinearConflict(b) + LinearConflictSelected(m, pre),
           variance |-> VarianceSelected(Variance(b), m, pre),
           squared |-> Squared(b, {}) + SquaredSelected(m, pre, {}),
           restricted |-> Squared(b, FixedArea) + SquaredSelected(m, pre, FixedArea),
           weighted |-> Weighted(b) + WeightedSelected(m, pre),
           selHash |-> {<<m.cell[p]>>},
           hash |-> Xor(Xor(Hash(b), SelHash(b)), {<<m.cell[p]>>})]
  BY DEF FeaturesSelected, Features
<1> QED
  BY <1>1, <1>3, <1>4, <1>5, <1>6, <1>7 DEF Features

-----------------------------------------------------------------------------
(* The inductive invariant of one object under any operations.              *)

\* The inductive invariant.
IInv == Exact(board)

\* Every board with which a play starts is exact, as init() computes the features.
THEOREM InitInv == Init => IInv
<1> SUFFICES ASSUME NEW cell \in Boards, board = InitBoard(cell, NoPoint, SelectionLimit)
             PROVE  IInv
  BY DEF Init
<1> QED
  BY InitExact DEF IInv

\* A move keeps every feature exact (AdmissibleBoardBase::move).
LEMMA MoveInv ==
  ASSUME IInv, NEW dir \in Directions, Move(dir)
  PROVE  IInv' /\ board'.parity = board.parity /\ board'.selectionLimit = board.selectionLimit
<1>1. Exact(board) /\ ValidMove(board.selected, dir) /\ board' = Moved(board, dir)
  BY DEF IInv, Move
<1> DEFINE m == Moved(board, dir)
<1>2. Exact(m) /\ m.parity = board.parity /\ m.selectionLimit = board.selectionLimit
  BY <1>1, MovedExact
<1> HIDE DEF m
<1>3. board' = m
  BY <1>1 DEF m
<1> QED
  BY <1>2, <1>3 DEF IInv

\* A selection keeps every feature exact (AdmissibleBoardBase::select).
LEMMA SelectInv ==
  ASSUME IInv, NEW p \in Points, Select(p)
  PROVE  IInv'
<1>1. Exact(board) /\ board' = Selected(board, p)
  BY DEF IInv, Select
<1>2. Exact(Selected(board, p))
  BY <1>1, ExactSound, ExactFields, SelectedExact
<1> QED
  BY <1>1, <1>2 DEF IInv

\* No step of a play disturbs the invariant.
THEOREM StepInv ==
  ASSUME IInv, [Next]_board PROVE IInv'
<1>1. CASE UNCHANGED board
  BY <1>1 DEF IInv
<1> QED
  BY <1>1, MoveInv, SelectInv DEF Next

\* The features stay exact in every play.
THEOREM Invariance == Spec => []IInv
BY InitInv, StepInv, PTL DEF Spec

\* On a board of any size, after any sequence of moves and selections, the distances
\* that ManhattanFeature carries along are those of the board as it is.
THEOREM DistancesCorrect == Spec => []DistancesExact
<1>1. IInv => DistancesExact
  BY ExactFields DEF IInv, DistancesExact, Manhattan, DistanceSum
<1> QED
  BY <1>1, Invariance, PTL

\* On a board of any size, after any sequence of moves and selections, the parities
\* that ParityFeature carries along are those of the board as it is.
THEOREM ParityCorrect == Spec => []ParityExact
<1>1. IInv => ParityExact
  BY ExactFields DEF IInv, ParityExact
<1> QED
  BY <1>1, Invariance, PTL

\* What the exact searches cut off for its parity never becomes the finished board.
THEOREM PrunedCorrect == Spec => PrunedStaysUnfinished
<1> DEFINE A == Prunable(board) => Prunable(board') /\ ~Aligned(board'.cell)
<1>1. ASSUME IInv, IInv', [Next]_board PROVE [A]_board
  <2>1. CASE UNCHANGED board
    BY <2>1
  <2>2. CASE Next
    <3> SUFFICES ASSUME Prunable(board) PROVE Prunable(board') /\ ~Aligned(board'.cell)
      OBVIOUS
    <3>1. PICK dir \in Directions : Move(dir)
      BY <2>2 DEF Next, Select, Prunable
    <3>2. Prunable(board')
      BY <1>1, <3>1, MoveInv DEF Prunable
    <3>3. ASSUME Aligned(board'.cell) PROVE FALSE
      <4> DEFINE b == board'
      <4>5. /\ b.cell \in Boards /\ b.selected \in Points \cup {NoPoint} /\ Aligned(b.cell)
            /\ b.selManhattan = SelManhattan(b.cell, b.selected)
            /\ b.parity = (OddPermutation(b.cell) # Odd(b.selManhattan))
        BY <1>1, <3>3, ExactFields DEF IInv
      <4>1. ~OddPermutation(board'.cell)
        BY <4>5, AlignedEven
      <4>2. board'.selManhattan = 0
        <5> HIDE DEF b
        <5> QED
          BY <4>5 DEF SelManhattan, IsSelected, Aligned, Distance, Absolute, Points, b
      <4>3. ~Odd(0)
        BY DEF Odd
      <4>4. board'.parity = (OddPermutation(board'.cell) # Odd(board'.selManhattan))
        BY <4>5
      <4> QED
        BY <3>2, <4>1, <4>2, <4>3, <4>4 DEF Prunable, OddPermutation, Odd
    <3> QED
      BY <3>2, <3>3
  <2> QED
    BY <1>1, <2>1, <2>2
<1> QED
  BY <1>1, Invariance, PTL DEF Spec, PrunedStaysUnfinished

\* On a board of any size, after any sequence of moves and selections, the features that
\* move() and select() find from the few cells around them are those of the whole new
\* board, and the weighted distances err as they do.
THEOREM FeaturesCorrect == Spec => []FeaturesExact
<1>1. ASSUME IInv PROVE FeaturesExact
  <2>1. Exact(board)
    BY <1>1 DEF IInv
  <2>2. ASSUME NEW p \in Points
        PROVE  FeaturesSelected(Features(board), Selected(board, p), board.selected)
                 = Features(Selected(board, p))
    <3> DEFINE m == Selected(board, p)
               b == board
    <3>1. m.cell = b.cell /\ m.selected \in Points
      <4>1. Sound(board)
        BY ONLY <2>1, ExactSound
      <4>2. board = [cell |-> board.cell, selected |-> board.selected,
                     selectionLimit |-> board.selectionLimit, cost |-> board.cost,
                     manhattan |-> board.manhattan, selManhattan |-> board.selManhattan,
                     selId |-> board.selId, parity |-> board.parity,
                     selParity |-> board.selParity]
        BY ONLY <2>1, ExactFields
      <4>3. m.cell = board.cell /\ m.selected = p
        BY ONLY <4>1, <4>2, SelectedExact, p \in Points DEF m
      <4> QED
        BY ONLY <4>3, p \in Points DEF b
    <3>2. b.cell \in Cells /\ b.selected \in Points \cup {NoPoint}
      BY <2>1, ExactFields, BoardCells
    <3> HIDE DEF m, b
    <3>3. FeaturesSelected(Features(b), m, b.selected) = Features(m)
      BY <3>1, <3>2, FeaturesAfterSelect
    <3> QED
      BY <3>3 DEF m, b
  <2> QED
    BY <2>1, <2>2, FeaturesAfterMove DEF FeaturesExact
<1> QED
  BY <1>1, Invariance, PTL

-----------------------------------------------------------------------------
(* The lower bound.                                                        *)

\* What a play that goes on from a board with n swaps and used selections to the
\* finished board cannot undercut: a swap brings two pieces one cell closer, only one
\* of which is counted in manhattan; a selection takes a piece out of that count; and
\* without a selection the parity must be that of the swaps.
Within(cell, p, n, used) ==
  /\ Manhattan(cell, p) + SelManhattan(cell, p) <= 2 * n
  /\ Manhattan(cell, p) <= n + used * (Height + Width - 2)
  /\ used = 0 => IsSelected(p) /\ (OddPermutation(cell) <=> Odd(SelManhattan(cell, p)))

\* No piece is farther from home than the corners are from each other.
LEMMA FarthestDistance ==
  ASSUME NEW p \in Points, NEW q \in Points
  PROVE  Distance(p, q) \in Nat /\ Distance(p, q) <= Height + Width - 2
<1>1. /\ p[1] \in 0 .. Height - 1 /\ p[2] \in 0 .. Width - 1
      /\ q[1] \in 0 .. Height - 1 /\ q[2] \in 0 .. Width - 1
  BY DEF Points
<1> QED
  BY <1>1, SizeAssumption DEF Distance, Absolute

\* The two distances are natural numbers, and add up to the same whichever piece is
\* selected.
LEMMA ManhattanSum ==
  ASSUME NEW cell \in Boards, NEW p \in Points \cup {NoPoint}
  PROVE  /\ Manhattan(cell, p) \in Nat /\ SelManhattan(cell, p) \in Nat
         /\ Manhattan(cell, p) + SelManhattan(cell, p) = DistanceSum(cell, Points)
         /\ SelManhattan(cell, p) <= Height + Width - 2
<1> DEFINE b == InitBoard(cell, p, 0)
<1>1. b.cell = cell /\ b.manhattan = Manhattan(cell, p) /\ b.selManhattan = SelManhattan(cell, p)
  BY DEF InitBoard
<1>2. Exact(b)
  BY InitExact
<1> HIDE DEF b
<1>3. Sound(b)
  BY <1>2, ExactSound
<1>4. SelManhattan(cell, p) <= Height + Width - 2
  <2>1. CASE p \in Points
    <3>1. cell[p] \in Points
      BY <2>1, BoardCells
    <3> QED
      BY <2>1, <3>1, FarthestDistance, NoPointOutside DEF SelManhattan, IsSelected
  <2>2. CASE p = NoPoint
    BY <2>2, SizeAssumption DEF SelManhattan, IsSelected
  <2> QED
    BY <2>1, <2>2
<1> QED
  BY <1>1, <1>3, <1>4 DEF Sound

\* Pieces at home have no distance to go.
LEMMA SumAtHome ==
  ASSUME NEW cell \in Cells, \A q \in Points : Distance(q, cell[q]) = 0
  PROVE  DistanceSum(cell, Points) = 0
<1> DEFINE P == {s \in SUBSET Points : DistanceSum(cell, s) = 0}
<1>1. ASSUME NEW s \in SUBSET Points, \A t \in SUBSET s : t # s => t \in P
      PROVE  s \in P
  <2>1. CASE s = {}
    <3>1. PICK it : Sums(it, Distances(cell), {}) /\ DistanceSum(cell, {}) = it[{}]
      BY DistanceSumIs
    <3> QED
      BY <2>1, <3>1 DEF Sums
  <2>2. CASE s # {}
    <3>1. PICK x \in s : TRUE
      BY <2>2
    <3>2. DistanceSum(cell, s \ {x}) = 0
      BY <1>1
    <3>3. DistanceSum(cell, s) = Distance(x, cell[x]) + DistanceSum(cell, s \ {x})
      BY DistanceSumLess
    <3> QED
      BY <3>2, <3>3
  <2> QED
    BY <2>1, <2>2
<1>2. P = SUBSET Points
  <2>1. P \in SUBSET (SUBSET Points) /\ IsFiniteSet(Points)
    BY PointsFinite
  <2> HIDE DEF P
  <2> QED
    BY <1>1, <2>1, SubsetInduction
<1> QED
  BY <1>2

\* The finished board.
LEMMA WithinFinished ==
  ASSUME NEW p \in Points
  PROVE  FinishedState \in Boards /\ Within(FinishedState, p, 0, 0)
<1> DEFINE f == FinishedState
<1>1. f \in Boards /\ Aligned(f) /\ \A q \in Points : Distance(q, f[q]) = 0
  <2>1. \A q \in Points : q[1] \in Int /\ q[2] \in Int
    BY Coordinates
  <2> QED
    BY <2>1 DEF FinishedState, Boards, IsInjective, Aligned, Distance, Absolute
<1> HIDE DEF f
<1>2. DistanceSum(f, Points) = 0
  BY <1>1, BoardCells, SumAtHome
<1>3. SelManhattan(f, p) = 0
  BY <1>1, NoPointOutside DEF SelManhattan, IsSelected
<1>4. Manhattan(f, p) = 0
  BY <1>1, <1>2, <1>3, ManhattanSum
<1>5. ~OddPermutation(f)
  BY <1>1, AlignedEven
<1>6. IsSelected(p)
  BY NoPointOutside DEF IsSelected
<1>7. Within(f, p, 0, 0)
  BY <1>3, <1>4, <1>5, <1>6, SizeAssumption DEF Within, Odd
<1> QED
  BY <1>1, <1>7 DEF f

\* A swap more, which makes next the place of the selected piece.
LEMMA WithinMoved ==
  ASSUME NEW cell \in Boards, NEW p \in Points \cup {NoPoint}, NEW dir \in Directions,
         ValidMove(p, dir), NEW n \in Nat, NEW used \in Nat, Within(cell, p, n, used)
  PROVE  LET next == Neighbour(p, dir)
             new  == Swapped(cell, p, next)
         IN  new \in Boards /\ next \in Points /\ Within(new, next, n + 1, used)
<1> DEFINE b    == InitBoard(cell, p, 0)
           next == Neighbour(p, dir)
           new  == Swapped(cell, p, next)
           m    == Moved(b, dir)
           i    == Step(next, cell[next], Opposite(dir))
           j    == Step(p, b.selId, dir)
           M    == Manhattan(cell, p)
           S    == SelManhattan(cell, p)
<1>1. /\ b.cell = cell /\ b.selected = p /\ b.manhattan = M /\ b.selManhattan = S
      /\ DOMAIN b = {"cell", "selected", "selectionLimit", "cost", "manhattan",
                     "selManhattan", "selId", "parity", "selParity"}
  BY DEF InitBoard
<1>2. Exact(b)
  BY InitExact
<1> HIDE DEF b
<1>3. m.manhattan = b.manhattan + i /\ m.selManhattan = b.selManhattan + j
  BY <1>1 DEF Moved
<1>4. i \in {-1, 1} /\ j \in {-1, 1}
  BY DEF Step
<1>5. Exact(m) /\ p \in Points /\ next \in Points /\ m.cell = new /\ m.selected = next
  BY <1>1, <1>2, MovedExact
<1> HIDE DEF m
<1>6. /\ new \in Boards
      /\ Manhattan(new, next) = m.manhattan /\ SelManhattan(new, next) = m.selManhattan
  <2> HIDE DEF new, next
  <2>1. /\ m.cell \in Boards /\ m.manhattan = DistanceSum(m.cell, Points \ {m.selected})
        /\ m.selManhattan = SelManhattan(m.cell, m.selected)
    BY ONLY <1>5, ExactFields
  <2>2. Manhattan(new, next) = DistanceSum(new, Points \ {next})
    BY DEF Manhattan, DistanceSum
  <2> QED
    BY ONLY <1>5, <2>1, <2>2
<1> HIDE DEF i, j
<1>7. OddPermutation(new) <=> ~OddPermutation(cell)
  BY <1>5, MovedCells
<1>8. IsSelected(next) /\ IsSelected(p)
  BY <1>5, NoPointOutside DEF IsSelected
<1> HIDE DEF next, new
<1>9. M \in Nat /\ S \in Nat /\ Manhattan(new, next) = M + i /\ SelManhattan(new, next) = S + j
  BY <1>1, <1>3, <1>6, ManhattanSum
<1>10. Odd(SelManhattan(new, next)) <=> ~Odd(S)
  <2>1. \A k \in Nat : \A l \in {-1, 1} : ((k + l) % 2 = 1) <=> ~(k % 2 = 1)
    OBVIOUS
  <2> HIDE DEF S
  <2> QED
    BY ONLY <1>4, <1>9, <2>1 DEF Odd
<1> DEFINE D == used * (Height + Width - 2)
<1>11. D \in Int
  BY SizeAssumption
<1>12. /\ M + S <= 2 * n /\ M <= n + D
       /\ used = 0 => (OddPermutation(cell) <=> Odd(S))
  BY DEF Within
<1> HIDE DEF D, M, S
<1>13. M + i + (S + j) <= 2 * (n + 1) /\ M + i <= (n + 1) + D
  BY ONLY <1>4, <1>9, <1>11, <1>12, n \in Nat
<1>14. used = 0 => (OddPermutation(new) <=> Odd(SelManhattan(new, next)))
  BY <1>7, <1>10, <1>12
<1>15. Within(new, next, n + 1, used)
  BY <1>8, <1>9, <1>13, <1>14 DEF Within, D
<1> QED
  BY <1>5, <1>6, <1>15 DEF new, next

\* A selection more, before which p was selected, or nothing.
LEMMA WithinSelected ==
  ASSUME NEW cell \in Boards, NEW q \in Points \cup {NoPoint}, NEW p \in Points \cup {NoPoint},
         NEW n \in Nat, NEW used \in Nat, Within(cell, q, n, used)
  PROVE  Within(cell, p, n, used + 1)
<1> DEFINE C == Height + Width - 2
           U == used * C
           V == (used + 1) * C
           M == Manhattan(cell, q)
           S == SelManhattan(cell, q)
           M2 == Manhattan(cell, p)
           S2 == SelManhattan(cell, p)
<1>1. C \in Nat /\ U \in Nat /\ V = U + C
  BY SizeAssumption
<1>2. /\ M \in Nat /\ S \in Nat /\ M2 \in Nat /\ S2 \in Nat
      /\ M + S = M2 + S2 /\ S <= C
  BY ManhattanSum
<1>3. M + S <= 2 * n /\ M <= n + U
  BY DEF Within
<1> HIDE DEF C, U, V, M, S, M2, S2
<1>4. M2 + S2 <= 2 * n /\ M2 <= n + V
  BY ONLY <1>1, <1>2, <1>3, n \in Nat
<1> QED
  BY <1>4 DEF Within, V, C, M2, S2

\* What a play with n swaps and used selections costs.
Cost(n, used) == n * SwappingCost + used * SelectionCost

\* The cut-off by parity and the first bound allow every play that there is, and so
\* does the second one with at most two selections left.
BoundHolds(cell, p, limit, spent) ==
  LET b == InitBoard(cell, p, limit)
  IN  /\ ~Prunable(b)
      /\ Manhattan1(b) <= spent
      /\ limit <= 2 => Heuristic(b) <= spent

\* Multiplication keeps the order.
LEMMA TimesKeepsOrder ==
  ASSUME NEW i \in Int, NEW j \in Int, i <= j, NEW k \in Nat
  PROVE  i * k <= j * k
OBVIOUS

\* computeHeuristic().
LEMMA WithinBound ==
  ASSUME NEW cell \in Boards, NEW p \in Points \cup {NoPoint}, NEW n \in Nat,
         NEW limit \in Nat, NEW used \in 0 .. limit, Within(cell, p, n, used)
  PROVE  BoundHolds(cell, p, limit, Cost(n, used))
<1> DEFINE b == InitBoard(cell, p, limit)
           M == Manhattan(cell, p)
           S == SelManhattan(cell, p)
           C == Height + Width - 2
           K == SwappingCost
           L == SelectionCost
           X == n * K
           U == used * L
<1>1. /\ b.manhattan = M /\ b.selManhattan = S /\ b.selected = p /\ b.selectionLimit = limit
      /\ b.parity = (OddPermutation(cell) # Odd(S))
  BY DEF InitBoard
<1> HIDE DEF b
<1>2. M \in Nat /\ S \in Nat
  BY ManhattanSum
<1>3. /\ M + S <= 2 * n /\ M <= n + used * C
      /\ used = 0 => IsSelected(p) /\ ~b.parity
  BY <1>1 DEF Within, Odd, OddPermutation
<1> HIDE DEF M, S
<1>4. C \in Nat /\ K \in Nat /\ L \in Nat /\ X \in Nat /\ U \in Nat
  BY SizeAssumption, CostAssumption
<1> HIDE DEF C, K, L
<1>5. ~Prunable(b)
  BY <1>1, <1>3 DEF Prunable
<1>6. Manhattan1(b) <= X + U
  <2> DEFINE h == (S + M + 1) \div 2
             s == IF IsSelected(b.selected) /\ ~b.parity THEN 0 ELSE L
  <2>1. h \in Int /\ h <= n
    BY ONLY <1>2, <1>3, n \in Nat
  <2>2. s \in Nat /\ s <= U
    <3>1. CASE used = 0
      BY <1>1, <1>3, <1>4, <3>1
    <3>2. CASE used # 0
      <4>1. 1 * L <= used * L
        BY ONLY <1>4, <3>2, used \in Nat, TimesKeepsOrder
      <4> QED
        BY <1>4, <4>1
    <3> QED
      BY <3>1, <3>2
  <2>3. Manhattan1(b) = K * h + s
    BY <1>1 DEF Manhattan1, K, L
  <2> HIDE DEF h, s, U
  <2>4. h * K <= X /\ h * K = K * h /\ h * K \in Int
    BY ONLY <1>4, <2>1, n \in Nat, TimesKeepsOrder
  <2> HIDE DEF X
  <2> QED
    BY ONLY <1>4, <2>2, <2>3, <2>4
<1>7. ASSUME limit <= 2 PROVE Manhattan2(b) <= X + U
  <2> DEFINE e == C * K - L
             g == Larger(0, e * limit)
  <2>1. Manhattan2(b) = K * M - g
    <3>1. Manhattan2Table[limit + 1] = 2 * limit
      BY <1>7 DEF Manhattan2Table
    <3>2. ((Width + Height) * K - L) * limit - (2 * limit) * K = e * limit
      BY ONLY <1>4, SizeAssumption, limit \in Nat DEF C
    <3> QED
      BY <1>1, <3>1, <3>2 DEF Manhattan2, K, L
  <2>2. e \in Int /\ e * limit \in Int /\ used * e \in Int
    BY <1>4
  <2>3. K * M <= X + (used * C) * K
    <3>1. used * C \in Nat
      BY <1>4
    <3> DEFINE Y == used * C
    <3> HIDE DEF Y
    <3>2. M * K <= (n + Y) * K
      BY ONLY <1>2, <1>3, <1>4, <3>1, n \in Nat, TimesKeepsOrder DEF Y
    <3> QED
      BY <1>2, <1>4, <3>1, <3>2 DEF Y
  <2>4. (used * C) * K = U + used * e
    BY ONLY <1>4, used \in Nat
  <2>5. used * e <= g
    <3>1. CASE e >= 0
      <4>1. used * e <= limit * e
        BY ONLY <2>2, <3>1, used \in Int, limit \in Int, used <= limit, TimesKeepsOrder
      <4> QED
        BY ONLY <2>2, <4>1, limit \in Nat DEF Larger
    <3>2. CASE e < 0
      <4>1. used * (0 - e) >= 0
        BY ONLY <2>2, <3>2, used \in Nat
      <4> QED
        BY ONLY <2>2, <4>1, used \in Nat DEF Larger
    <3> QED
      BY ONLY <2>2, <3>1, <3>2
  <2>6. g \in Int
    BY ONLY <2>2 DEF Larger
  <2> HIDE DEF e, g, X, U
  <2> QED
    BY ONLY <1>2, <1>4, <2>1, <2>2, <2>3, <2>4, <2>5, <2>6
<1>8. limit <= 2 => Heuristic(b) <= X + U
  BY <1>5, <1>6, <1>7 DEF Heuristic, Larger
<1> QED
  BY <1>5, <1>6, <1>8 DEF BoundHolds, Cost, b, X, U, K, L

-----------------------------------------------------------------------------
(* BackwardPlay: the play so far, from its end, has been n swaps and as    *)
(* many selections as are counted.                                         *)

\* Every play from its end is within what the board allows.
PlayInv ==
  /\ board = [cell |-> board.cell, selected |-> board.selected]
  /\ board.cell \in Boards /\ board.selected \in Points \cup {NoPoint}
  /\ selections \in 0 .. SelectionLimit
  /\ \E n \in Nat : /\ price = Cost(n, selections)
                    /\ Within(board.cell, board.selected, n, selections)

\* A board on which the last selected piece has come home.
LEMMA PlayBegins == BackInit => PlayInv
<1> SUFFICES ASSUME BackInit PROVE PlayInv
  OBVIOUS
<1>1. PICK p \in Points : board = [cell |-> FinishedState, selected |-> p]
  BY DEF BackInit
<1>2. board.cell = FinishedState /\ board.selected = p /\ selections = 0 /\ price = 0
  BY <1>1 DEF BackInit
<1>3. FinishedState \in Boards /\ Within(FinishedState, p, 0, 0)
  BY WithinFinished
<1>4. Cost(0, 0) = 0
  BY CostAssumption DEF Cost
<1> QED
  BY <1>1, <1>2, <1>3, <1>4, CostAssumption DEF PlayInv

\* A swap before.
LEMMA PlayUnmove ==
  ASSUME PlayInv, NEW dir \in Directions, Unmove(dir)
  PROVE  PlayInv'
<1> DEFINE next == Neighbour(board.selected, dir)
<1>1. /\ ValidMove(board.selected, dir)
      /\ board' = [cell |-> Swapped(board.cell, board.selected, next), selected |-> next]
      /\ price' = price + SwappingCost /\ selections' = selections
  BY DEF Unmove
<1>2. PICK n \in Nat : /\ price = Cost(n, selections)
                       /\ Within(board.cell, board.selected, n, selections)
  BY DEF PlayInv
<1>3. selections \in Nat /\ selections \in 0 .. SelectionLimit
  BY CostAssumption DEF PlayInv
<1>4. LET new == Swapped(board.cell, board.selected, next)
      IN  new \in Boards /\ next \in Points /\ Within(new, next, n + 1, selections)
  BY <1>1, <1>2, <1>3, WithinMoved DEF PlayInv
<1>5. price' = Cost(n + 1, selections')
  BY <1>1, <1>2, <1>3, CostAssumption DEF Cost
<1> QED
  BY <1>1, <1>3, <1>4, <1>5 DEF PlayInv

\* A selection before.
LEMMA PlayUnselect ==
  ASSUME PlayInv, NEW p \in Points \cup {NoPoint}, Unselect(p)
  PROVE  PlayInv'
<1>1. /\ selections < SelectionLimit /\ board' = [board EXCEPT !.selected = p]
      /\ price' = price + SelectionCost /\ selections' = selections + 1
  BY DEF Unselect
<1>2. board' = [cell |-> board.cell, selected |-> p]
  BY <1>1 DEF PlayInv
<1>3. PICK n \in Nat : /\ price = Cost(n, selections)
                       /\ Within(board.cell, board.selected, n, selections)
  BY DEF PlayInv
<1>4. selections \in Nat /\ selections + 1 \in 0 .. SelectionLimit
  BY <1>1, CostAssumption DEF PlayInv
<1>5. Within(board.cell, p, n, selections + 1)
  BY <1>3, <1>4, WithinSelected DEF PlayInv
<1>6. price' = Cost(n, selections')
  BY <1>1, <1>3, <1>4, CostAssumption DEF Cost
<1> QED
  BY <1>1, <1>2, <1>4, <1>5, <1>6 DEF PlayInv

\* Of every play.
LEMMA PlayInvariance == BackSpec => []PlayInv
<1>1. ASSUME PlayInv, [BackNext]_backVars PROVE PlayInv'
  <2>1. CASE \E dir \in Directions : Unmove(dir)
    BY <1>1, <2>1, PlayUnmove
  <2>2. CASE \E p \in Points \cup {NoPoint} : Unselect(p)
    BY <1>1, <2>2, PlayUnselect
  <2>3. CASE UNCHANGED backVars
    BY <1>1, <2>3 DEF PlayInv, backVars
  <2> QED
    BY <1>1, <2>1, <2>2, <2>3 DEF BackNext
<1> QED
  BY <1>1, PlayBegins, PTL DEF BackSpec

\* The part of HeuristicAdmissible that holds for all costs: with any number of
\* selections left from which the play can be made, the parity does not condemn the
\* board and the first bound is at most what the play costs; with two selections or
\* fewer so is the larger of the bounds.
PartsAdmissible ==
  \A limit \in selections .. SelectionLimit :
    LET b == InitBoard(board.cell, board.selected, limit)
    IN  /\ ~Prunable(b)
        /\ Manhattan1(b) <= price
        /\ limit <= 2 => Heuristic(b) <= price

\* The invariant is enough for it.
LEMMA PlayBounds == PlayInv => PartsAdmissible
<1> SUFFICES ASSUME PlayInv, NEW limit \in selections .. SelectionLimit
             PROVE  LET b == InitBoard(board.cell, board.selected, limit)
                    IN  /\ ~Prunable(b)
                        /\ Manhattan1(b) <= price
                        /\ limit <= 2 => Heuristic(b) <= price
  BY DEF PartsAdmissible
<1>1. PICK n \in Nat : /\ price = Cost(n, selections)
                       /\ Within(board.cell, board.selected, n, selections)
  BY DEF PlayInv
<1>2. limit \in Nat /\ selections \in 0 .. limit
  BY CostAssumption DEF PlayInv
<1>3. BoundHolds(board.cell, board.selected, limit, price)
  BY <1>1, <1>2, WithinBound DEF PlayInv
<1> QED
  BY <1>3 DEF BoundHolds

\* computeHeuristic() cuts off no play by the parity or by its first bound, on boards
\* of any size and for any costs, and none at all where two selections are left.
THEOREM BoundsCorrect == BackSpec => []PartsAdmissible
BY PlayInvariance, PlayBounds, PTL

\* With a limit of two selections the lower bound is one, whatever the costs.
THEOREM HeuristicCorrect ==
  ASSUME SelectionLimit <= 2
  PROVE  BackSpec => []HeuristicAdmissible
<1>1. PartsAdmissible => HeuristicAdmissible
  <2> SUFFICES ASSUME PartsAdmissible, NEW limit \in selections .. SelectionLimit
               PROVE  Heuristic(InitBoard(board.cell, board.selected, limit)) <= price
    BY DEF HeuristicAdmissible
  <2>1. limit <= 2
    BY CostAssumption DEF HeuristicAdmissible
  <2> QED
    BY <2>1 DEF PartsAdmissible
<1> QED
  BY <1>1, BoundsCorrect, PTL

=============================================================================
