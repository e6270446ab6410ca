------------------------- MODULE ExactSolver_proofs --------------------------
(***************************************************************************)
(* Proofs about ExactSolver for boards of every size and all costs and     *)
(* limits: every call of the search begins with the features its board     *)
(* really has, the judge accepts the answer that is published, and, as     *)
(* long as the lower bound is one, no play is cheaper than the answer.     *)
(***************************************************************************)
EXTENDS ExactSolver, Answer_proofs

\* The theorems about the boards.
ABP == INSTANCE AdmissibleBoard_proofs
         WITH MaxCost <- 0, FixedArea <- {}, board <- start, selections <- 0, price <- 0

-----------------------------------------------------------------------------
(* What AdmissibleBoard_proofs proves of one board and one operation, said *)
(* of the boards of this module.                                           *)

\* Problem::parse gives AdmissibleBoard what it assumes.
LEMMA SameAssumptions == ABP!SizeAssumption /\ ABP!CostAssumption /\ ABP!FixedAreaAssumption
BY SizeAssumption, CostAssumption, LimitAssumption
DEF ABP!SizeAssumption, ABP!CostAssumption, ABP!FixedAreaAssumption

\* The boards of Puzzle, by whichever name.
LEMMA SameBoards ==
  /\ ABP!Points = Points /\ ABP!NoPoint = NoPoint /\ ABP!Directions = Directions
  /\ ABP!Boards = Boards /\ ABP!Cells = Cells
BY DEF ABP!Points, Points, ABP!NoPoint, NoPoint, ABP!Directions, Directions,
       ABP!Boards, Boards, ABP!IsInjective, IsInjective, ABP!Cells, Cells

\* The features computed from a board.
LEMMA SameFeatures ==
  ASSUME NEW cell, NEW p
  PROVE  /\ ABP!Manhattan(cell, p) = Board!Manhattan(cell, p)
         /\ ABP!SelManhattan(cell, p) = Board!SelManhattan(cell, p)
         /\ ABP!OddPermutation(cell) = Board!OddPermutation(cell)
<1>1. ABP!Manhattan(cell, p) = Board!Manhattan(cell, p)
  BY DEF ABP!Manhattan, Board!Manhattan, ABP!Distance, Board!Distance, ABP!Absolute, Board!Absolute,
         ABP!Points, Board!Points, ABP!MapThenSumSet, Board!MapThenSumSet,
         ABP!MapThenFoldSet, Board!MapThenFoldSet
<1>2. ABP!SelManhattan(cell, p) = Board!SelManhattan(cell, p)
  BY DEF ABP!SelManhattan, Board!SelManhattan, ABP!IsSelected, Board!IsSelected,
         Board!NoPoint, ABP!NoPoint, ABP!Distance, Board!Distance, ABP!Absolute, Board!Absolute
<1>3. ABP!OddPermutation(cell) = Board!OddPermutation(cell)
  <2>1. {pq \in ABP!Points \X ABP!Points :
           ABP!Before(pq[2], pq[1]) /\ ABP!Before(cell[pq[1]], cell[pq[2]])}
          = {pq \in Board!Points \X Board!Points :
               Board!Before(pq[2], pq[1]) /\ Board!Before(cell[pq[1]], cell[pq[2]])}
    BY DEF ABP!Before, Board!Before, Board!Points, ABP!Points
  <2>2. ASSUME NEW S PROVE ABP!Cardinality(S) = Board!Cardinality(S)
    BY DEF Board!Cardinality, ABP!Cardinality
  <2> QED
    BY <2>1, <2>2 DEF ABP!OddPermutation, Board!OddPermutation
<1> QED
  BY <1>1, <1>2, <1>3

\* init(), select() and move().
LEMMA SameInit ==
  ASSUME NEW cell, NEW p, NEW limit
  PROVE  ABP!InitBoard(cell, p, limit) = Board!InitBoard(cell, p, limit)
BY SameFeatures DEF ABP!InitBoard, Board!InitBoard, ABP!IsSelected, Board!IsSelected,
                    ABP!NoPoint, Board!NoPoint, ABP!Odd, Board!Odd

\* The boards of the theorems select as those of the solver do.
LEMMA SameSelected ==
  ASSUME NEW b, NEW p
  PROVE  ABP!Selected(b, p) = Board!Selected(b, p)
BY DEF ABP!Selected, Board!Selected, ABP!Distance, Board!Distance, ABP!Absolute, Board!Absolute,
       ABP!Odd, Board!Odd

\* They move as those of the solver do.
LEMMA SameMoved ==
  ASSUME NEW b, NEW dir
  PROVE  ABP!Moved(b, dir) = Board!Moved(b, dir)
BY DEF ABP!Moved, Board!Moved, ABP!Neighbour, Board!Neighbour, ABP!Delta, Board!Delta,
       ABP!Swapped, Board!Swapped, ABP!Step, Board!Step, Board!Opposite, ABP!Opposite,
       ABP!Up, ABP!Right, ABP!Down, Board!Up, Board!Right, Board!Down

\* A board with the features that init() would compute, apart from the cost.
Exact(b) ==
  /\ b.cell \in Boards /\ b.selected \in Points \cup {NoPoint}
  /\ b = [Board!InitBoard(b.cell, b.selected, b.selectionLimit) EXCEPT !.cost = b.cost]

\* They are exact when those of the solver are.
LEMMA SameExact ==
  ASSUME NEW b
  PROVE  Exact(b) <=> ABP!Exact(b)
<1> DEFINE cell == b.cell
           p == b.selected
           l == b.selectionLimit
<1>1. ABP!InitBoard(cell, p, l) = Board!InitBoard(cell, p, l)
  BY SameInit
<1>2. ABP!IsBoard(b) <=> b.cell \in Boards /\ b.selected \in Points \cup {NoPoint}
  BY SameBoards DEF ABP!IsBoard
<1> QED
  BY <1>1, <1>2 DEF Exact, ABP!Exact

\* The board of startDFS.
LEMMA InitialBoard ==
  ASSUME NEW cell \in Boards
  PROVE  LET b == Board!InitBoard(cell, NoPoint, SelectionLimit)
         IN  /\ Exact(b) /\ b.cell = cell /\ b.selected = NoPoint
             /\ b.selectionLimit = SelectionLimit
<1>1. ABP!Exact(ABP!InitBoard(cell, NoPoint, SelectionLimit))
  BY ABP!InitExact, SameAssumptions, SameBoards
<1>2. ABP!Exact(Board!InitBoard(cell, NoPoint, SelectionLimit))
  BY <1>1, SameInit
<1>3. Exact(Board!InitBoard(cell, NoPoint, SelectionLimit))
  BY <1>2, SameExact
<1> QED
  BY <1>3 DEF Board!InitBoard

\* isFinished() looks at the distances only.
LEMMA FinishedBoard ==
  ASSUME NEW b, Exact(b), Board!Finished(b)
  PROVE  Aligned(b.cell)
<1>1. ABP!Exact(b) /\ ABP!Finished(b)
  BY SameExact DEF ABP!Finished, Board!Finished
<1>2. ABP!Aligned(b.cell)
  BY <1>1, ABP!FinishedAligned, SameAssumptions
<1> QED
  BY <1>2, SameBoards DEF ABP!Aligned, Aligned

\* What move() makes of an exact board.
LEMMA MovedBoard ==
  ASSUME NEW b, Exact(b), NEW dir \in Directions, ValidMove(b.selected, dir)
  PROVE  LET m    == Board!Moved(b, dir)
             next == Neighbour(b.selected, dir)
         IN  /\ Exact(m) /\ b.selected \in Points /\ next \in Points
             /\ m.cell = Swapped(b.cell, b.selected, next) /\ m.selected = next
             /\ m.selectionLimit = b.selectionLimit
<1> DEFINE m == ABP!Moved(b, dir)
<1>1. ABP!Exact(b) /\ dir \in ABP!Directions /\ ABP!ValidMove(b.selected, dir)
  BY SameExact, SameBoards
  DEF ABP!ValidMove, ValidMove, ABP!IsSelected, IsSelected, ABP!Neighbour, Neighbour,
      ABP!Delta, Delta, ABP!Up, Up, ABP!Right, Right, ABP!Down, Down
<1>2. ABP!Neighbour(b.selected, dir) = Neighbour(b.selected, dir)
  BY DEF ABP!Neighbour, Neighbour, ABP!Delta, Delta, ABP!Up, Up, ABP!Right, Right, ABP!Down, Down
<1>3. ABP!Swapped(b.cell, b.selected, Neighbour(b.selected, dir))
        = Swapped(b.cell, b.selected, Neighbour(b.selected, dir))
  BY DEF ABP!Swapped, Swapped
<1>4. /\ ABP!Exact(m) /\ b.selected \in ABP!Points
      /\ ABP!Neighbour(b.selected, dir) \in ABP!Points
      /\ m.cell = ABP!Swapped(b.cell, b.selected, ABP!Neighbour(b.selected, dir))
      /\ m.selected = ABP!Neighbour(b.selected, dir)
      /\ m.selectionLimit = b.selectionLimit
  BY <1>1, ABP!MovedExact, SameAssumptions
<1>5. Board!Moved(b, dir) = m
  BY SameMoved
<1> HIDE DEF m
<1> QED
  BY <1>2, <1>3, <1>4, <1>5, SameExact, SameBoards

\* A board of nine features, whatever they are.
IsRecord(b) ==
  b = [cell |-> b.cell, selected |-> b.selected, selectionLimit |-> b.selectionLimit,
       cost |-> b.cost, manhattan |-> b.manhattan, selManhattan |-> b.selManhattan,
       selId |-> b.selId, parity |-> b.parity, selParity |-> b.selParity]

\* What select() makes of a board whose distances and parities add up.
LEMMA SelectedBoard ==
  ASSUME NEW b, ABP!Sound(b), IsRecord(b), NEW p \in Points
  PROVE  LET s == Board!Selected(b, p)
         IN  /\ Exact(s) /\ s.cell = b.cell /\ s.selected = p
             /\ s.selectionLimit = b.selectionLimit - 1
<1> DEFINE s == ABP!Selected(b, p)
<1>1. /\ ABP!Exact(s) /\ s.cell = b.cell /\ s.selected = p
      /\ s.selectionLimit = b.selectionLimit - 1
  BY ABP!SelectedExact, SameAssumptions, SameBoards DEF IsRecord
<1>2. Board!Selected(b, p) = s
  BY SameSelected
<1> HIDE DEF s
<1> QED
  BY <1>1, <1>2, SameExact

\* What the theorems say of an exact board.
LEMMA ExactBoard ==
  ASSUME NEW b, Exact(b)
  PROVE  ABP!Sound(b) /\ IsRecord(b) /\ b.cell \in Boards /\ b.cell \in Cells
<1>1. ABP!Exact(b)
  BY SameExact
<1>2. ABP!Sound(b) /\ IsRecord(b)
  BY <1>1, ABP!ExactSound, ABP!ExactFields, SameAssumptions DEF IsRecord
<1> QED
  BY <1>2 DEF Exact, Boards, Cells

-----------------------------------------------------------------------------
(* One call.  Its board is the copy made before the loop over selections,  *)
(* except for what DFS does not restore; startDFS selects on copies only.  *)

\* The board of a call after some of its selections were tried and undone.
Undone(b, saved) ==
  /\ IsRecord(b)
  /\ b.cell = saved.cell /\ b.selectionLimit = saved.selectionLimit
  /\ b.manhattan = saved.manhattan /\ b.selManhattan = saved.selManhattan
  /\ (b.parity # b.selParity) = Board!OddPermutation(saved.cell)

\* The record of a call.
IsFrame(f) ==
  f = [board |-> f.board, pre |-> f.pre, min |-> f.min, next |-> f.next, saved |-> f.saved]

\* A call that is at its candidate f.next: up to the first selection, and always in
\* startDFS, its board is the copy.
FrameInv(f) ==
  /\ IsFrame(f) /\ f.next \in Nat \ {0}
  /\ Exact(f.saved) /\ f.saved.selectionLimit \in Nat
  /\ f.next <= 5 \/ f.pre = NoMove => f.board = f.saved
  /\ Undone(f.board, f.saved)
  /\ f.pre = NoMove => f.saved.selectionLimit > 0 /\ f.saved.selected = NoPoint
  /\ f.pre \in Moves \cup {NoMove}

\* Before any candidate, a board is as if undone.
LEMMA OwnBoard ==
  ASSUME NEW b, Exact(b)
  PROVE  Undone(b, b)
<1>1. ABP!Sound(b) /\ IsRecord(b)
  BY ExactBoard
<1>2. (b.parity # b.selParity) = ABP!OddPermutation(b.cell)
  BY <1>1 DEF ABP!Sound
<1>3. ABP!OddPermutation(b.cell) = Board!OddPermutation(b.cell)
  <2> DEFINE cell == b.cell
  <2>1. ABP!OddPermutation(cell) = Board!OddPermutation(cell)
    BY SameFeatures
  <2> QED
    BY <2>1
<1> QED
  BY <1>1, <1>2, <1>3 DEF Undone

\* What DFS puts back is enough for the next select().
LEMMA UndoneSound ==
  ASSUME NEW b, NEW saved, Exact(saved), Undone(b, saved)
  PROVE  ABP!Sound(b) /\ IsRecord(b)
<1>1. ABP!Sound(saved)
  BY ExactBoard
<1>2. ABP!OddPermutation(saved.cell) = Board!OddPermutation(saved.cell)
  <2> DEFINE cell == saved.cell
  <2>1. ABP!OddPermutation(cell) = Board!OddPermutation(cell)
    BY SameFeatures
  <2> QED
    BY <2>1
<1>3. /\ b.cell = saved.cell /\ b.manhattan = saved.manhattan /\ b.selManhattan = saved.selManhattan
      /\ (b.parity # b.selParity) = Board!OddPermutation(saved.cell) /\ IsRecord(b)
  BY DEF Undone
<1> QED
  BY <1>1, <1>2, <1>3 DEF ABP!Sound

\* The candidates are moves, the first four of them swaps.
LEMMA CandidateMoves ==
  ASSUME NEW i \in Nat \ {0}, i <= Candidates
  PROVE  /\ i <= 4 => \E dir \in Directions : Candidate(i) = Swap(dir)
         /\ i > 4 => \E p \in Points : Candidate(i) = Selection(p)
<1>1. CASE i <= 4
  BY <1>1 DEF Candidate, Directions
<1>2. CASE i > 4
  <2> DEFINE k == i - 5
  <2>1. k \in Nat /\ k < Height * Width /\ Height \in Nat /\ Width \in Nat \ {0}
    BY <1>2, SizeAssumption DEF Candidates
  <2> HIDE DEF k
  <2>2. k \div Width \in 0 .. Height - 1 /\ k % Width \in 0 .. Width - 1
    BY <2>1, SizeAssumption
  <2>3. <<k \div Width, k % Width>> \in Points
    BY <2>2 DEF Points
  <2> QED
    BY <1>2, <2>3 DEF Candidate, k
<1> QED
  BY <1>1, <1>2

\* NoMove is no candidate, and no selection of a point.
LEMMA NoMoveIsNone ==
  /\ NoMove \notin Moves
  /\ \A p \in Points : Selection(p) # NoMove
<1>1. \A p \in Points : Selection(p) # NoMove
  <2>1. \A p \in Points : p # NoPoint
    BY SizeAssumption DEF NoPoint, Points
  <2> QED
    BY <2>1 DEF Selection, NoMove
<1>2. \A dir \in Directions : Swap(dir) # NoMove
  BY DEF Swap, NoMove, Selection
<1> QED
  BY <1>1, <1>2 DEF Moves, Selections, Swaps

\* The state of the judge that has played to a board.
Judge(b) ==
  [cell |-> b.cell, selected |-> b.selected, remain |-> b.selectionLimit, valid |-> TRUE]

\* An exact board is a state of the judge.
LEMMA JudgeType ==
  ASSUME NEW b, Exact(b), b.selectionLimit \in Nat
  PROVE  Judge(b) \in PlayStates /\ Judge(b).valid
BY ExactBoard DEF Judge, PlayStates, Exact

\* The call that a candidate leads to: its board is exact, and the judge, at the
\* board of this call, accepts the move and arrives there.
LEMMA ChildInv ==
  ASSUME NEW f, FrameInv(f), f.next <= Candidates, Allowed(f, Candidate(f.next))
  PROVE  LET m     == Candidate(f.next)
             child == Child(f, m)
         IN  /\ m \in Moves
             /\ Exact(child) /\ child.selectionLimit \in Nat
             /\ CheckStep(Judge(f.saved), m) = Judge(child)
<1> DEFINE m == Candidate(f.next)
           child == Child(f, m)
<1>1. /\ f.next \in Nat \ {0} /\ Exact(f.saved) /\ f.saved.selectionLimit \in Nat
      /\ Undone(f.board, f.saved) /\ Judge(f.saved) \in PlayStates /\ Judge(f.saved).valid
  BY JudgeType DEF FrameInv
<1>2. CASE f.next <= 4
  <2>1. PICK dir \in Directions : m = Swap(dir)
    BY <1>1, <1>2, CandidateMoves
  <2>2. f.board = f.saved
    BY <1>2 DEF FrameInv
  <2>3. ~m.isSelection /\ m.direction = dir
    BY <2>1 DEF Swap
  <2>4. ValidMove(f.saved.selected, dir)
    BY <2>2, <2>3 DEF Allowed
  <2>5. child = Board!Moved(f.saved, dir)
    BY <2>2, <2>3 DEF Child
  <2> HIDE DEF child, m
  <2>6. /\ Exact(child)
        /\ child.cell = Swapped(f.saved.cell, f.saved.selected, Neighbour(f.saved.selected, dir))
        /\ child.selected = Neighbour(f.saved.selected, dir)
        /\ child.selectionLimit = f.saved.selectionLimit
    BY <1>1, <2>4, <2>5, MovedBoard
  <2>7. CheckStep(Judge(f.saved), m) = Judge(child)
    <3> DEFINE sim == Judge(f.saved)
    <3>1. /\ sim.cell = f.saved.cell /\ sim.selected = f.saved.selected
          /\ sim.remain = f.saved.selectionLimit
      BY DEF Judge
    <3>2. sim \in PlayStates /\ sim.valid
      BY <1>1
    <3> HIDE DEF sim
    <3>3. CheckStep(sim, Swap(dir)) =
             [cell |-> Swapped(sim.cell, sim.selected, Neighbour(sim.selected, dir)),
              selected |-> Neighbour(sim.selected, dir), remain |-> sim.remain, valid |-> TRUE]
      BY <2>4, <3>1, <3>2, SwapStep
    <3>4. CheckStep(sim, m) = Judge(child)
      BY <2>1, <2>6, <3>1, <3>3 DEF Judge
    <3> QED
      BY <3>4 DEF sim
  <2> QED
    BY <1>1, <2>1, <2>6, <2>7, MoveTypes DEF m, child
<1>3. CASE f.next > 4
  <2>1. PICK p \in Points : m = Selection(p)
    BY <1>1, <1>3, CandidateMoves
  <2>2. m.isSelection /\ m.selected = p
    BY <2>1 DEF Selection
  <2>3. f.saved.selectionLimit > 0
    BY <2>2 DEF Allowed, FrameInv
  <2>4. child = Board!Selected(f.board, p)
    BY <2>2 DEF Child
  <2>5. /\ ABP!Sound(f.board) /\ IsRecord(f.board) /\ f.board.cell = f.saved.cell
        /\ f.board.selectionLimit = f.saved.selectionLimit
    BY <1>1, UndoneSound DEF Undone
  <2> HIDE DEF child, m
  <2>6. /\ Exact(child) /\ child.cell = f.saved.cell /\ child.selected = p
        /\ child.selectionLimit = f.saved.selectionLimit - 1
    BY <2>4, <2>5, SelectedBoard
  <2>7. CheckStep(Judge(f.saved), m) = Judge(child)
    <3> DEFINE sim == Judge(f.saved)
    <3>1. /\ sim.cell = f.saved.cell /\ sim.selected = f.saved.selected
          /\ sim.remain = f.saved.selectionLimit
      BY DEF Judge
    <3>2. sim \in PlayStates /\ sim.valid
      BY <1>1
    <3> HIDE DEF sim
    <3>3. CheckStep(sim, Selection(p)) =
             [cell |-> sim.cell, selected |-> p, remain |-> sim.remain - 1, valid |-> TRUE]
      BY <1>1, <2>3, <3>1, <3>2, SelectStep
    <3>4. CheckStep(sim, m) = Judge(child)
      BY <2>1, <2>6, <3>1, <3>3 DEF Judge
    <3> QED
      BY <3>4 DEF sim
  <2> QED
    BY <1>1, <2>1, <2>3, <2>6, <2>7, MoveTypes DEF m, child
<1> QED
  BY <1>1, <1>2, <1>3

\* A call as it begins.
LEMMA CallInv ==
  ASSUME NEW b, Exact(b), b.selectionLimit \in Nat, NEW pre \in Moves \cup {NoMove},
         pre = NoMove => b.selectionLimit > 0 /\ b.selected = NoPoint
  PROVE  FrameInv(Call(b, pre)) /\ Call(b, pre).pre = pre /\ Call(b, pre).saved = b
<1>1. /\ IsFrame(Call(b, pre)) /\ Call(b, pre).pre = pre /\ Call(b, pre).saved = b
      /\ Call(b, pre).board = b /\ Call(b, pre).next = 1
  BY DEF Call, IsFrame
<1> HIDE DEF Call
<1>2. Undone(b, b)
  BY OwnBoard
<1> QED
  BY <1>1, <1>2 DEF FrameInv

\* A call goes on with its next candidate: its board is as before, or that of the
\* candidate with the features put back that Restored puts back.
LEMMA TriedInv ==
  ASSUME NEW f, FrameInv(f), NEW b, NEW min,
         \/ b = f.board
         \/ /\ f.next <= Candidates /\ Allowed(f, Candidate(f.next))
            /\ b = Restored(f, Candidate(f.next))
  PROVE  LET t == [f EXCEPT !.board = b, !.min = min, !.next = f.next + 1]
         IN  FrameInv(t) /\ t.pre = f.pre /\ t.saved = f.saved
<1> DEFINE t == [f EXCEPT !.board = b, !.min = min, !.next = f.next + 1]
<1>1. /\ IsFrame(f) /\ f.next \in Nat \ {0} /\ Exact(f.saved) /\ f.saved.selectionLimit \in Nat
      /\ Undone(f.board, f.saved) /\ (f.next <= 5 \/ f.pre = NoMove => f.board = f.saved)
      /\ (f.pre = NoMove => f.saved.selectionLimit > 0 /\ f.saved.selected = NoPoint)
      /\ f.pre \in Moves \cup {NoMove}
  BY DEF FrameInv
<1>2. t = [board |-> b, pre |-> f.pre, min |-> min, next |-> f.next + 1, saved |-> f.saved]
  <2> DEFINE n == f.next + 1
             pre == f.pre
             saved == f.saved
             oldBoard == f.board
             oldMin == f.min
             oldNext == f.next
  <2>1. f = [board |-> oldBoard, pre |-> pre, min |-> oldMin, next |-> oldNext, saved |-> saved]
    BY <1>1 DEF IsFrame
  <2>2. t = [f EXCEPT !.board = b, !.min = min, !.next = n]
    OBVIOUS
  <2> HIDE DEF n, pre, saved, oldBoard, oldMin, oldNext, t
  <2>3. t = [board |-> b, pre |-> pre, min |-> min, next |-> n, saved |-> saved]
    BY ONLY <2>1, <2>2
  <2> QED
    BY <2>3 DEF n, pre, saved
<1>3. /\ IsFrame(t) /\ t.board = b /\ t.pre = f.pre /\ t.next = f.next + 1 /\ t.saved = f.saved
  BY <1>2 DEF IsFrame
<1> HIDE DEF t
<1>4. SUFFICES /\ Undone(b, f.saved)
               /\ f.next + 1 <= 5 \/ f.pre = NoMove => b = f.saved
  BY <1>1, <1>3 DEF FrameInv, t
<1>5. CASE b = f.board
  BY <1>1, <1>5
<1>6. CASE /\ f.next <= Candidates /\ Allowed(f, Candidate(f.next))
           /\ b = Restored(f, Candidate(f.next))
  <2> DEFINE m == Candidate(f.next)
  <2>1. CASE m.isSelection /\ f.pre # NoMove
    <3>1. f.next > 4 /\ \E p \in Points : m = Selection(p)
      <4>1. ASSUME f.next <= 4 PROVE FALSE
        <5>1. PICK dir \in Directions : m = Swap(dir)
          BY <1>1, <1>6, <4>1, CandidateMoves
        <5> HIDE DEF m
        <5> QED
          BY <2>1, <5>1 DEF Swap
      <4>2. f.next > 4
        BY <4>1, <1>1
      <4> QED
        BY <1>1, <1>6, <4>2, CandidateMoves
    <3>2. PICK p \in Points : m = Selection(p)
      BY <3>1
    <3>3. Child(f, m) = Board!Selected(f.board, p)
      BY <2>1, <3>2 DEF Child, Selection
    <3>4. b = [Child(f, m) EXCEPT !.selectionLimit = f.saved.selectionLimit,
                                  !.cost           = f.saved.cost,
                                  !.manhattan      = f.saved.manhattan,
                                  !.selManhattan   = f.saved.selManhattan,
                                  !.selId          = f.saved.selId]
      BY <1>6, <2>1 DEF Restored
    <3>5. ABP!Sound(f.board) /\ IsRecord(f.board) /\ f.board.cell = f.saved.cell
      BY <1>1, UndoneSound DEF Undone
    <3> DEFINE s == Board!Selected(f.board, p)
    <3>6. Exact(s) /\ s.cell = f.saved.cell
      BY <3>5, SelectedBoard
    <3> HIDE DEF s
    <3>7. IsRecord(s) /\ Undone(s, s)
      BY <3>6, ExactBoard, OwnBoard
    <3> DEFINE x == s.parity
               y == s.selParity
               c == f.saved.cell
               q == s.selected
               l == f.saved.selectionLimit
               k == f.saved.cost
               n == f.saved.manhattan
               o == f.saved.selManhattan
               j == f.saved.selId
               sl == s.selectionLimit
               sk == s.cost
               sn == s.manhattan
               so == s.selManhattan
               sj == s.selId
    <3>8. s = [cell |-> c, selected |-> q, selectionLimit |-> sl, cost |-> sk, manhattan |-> sn,
               selManhattan |-> so, selId |-> sj, parity |-> x, selParity |-> y]
      BY <3>6, <3>7 DEF IsRecord
    <3>9. (x # y) = Board!OddPermutation(c)
      BY <3>6, <3>7 DEF Undone
    <3>10. b = [s EXCEPT !.selectionLimit = l, !.cost = k, !.manhattan = n,
                         !.selManhattan = o, !.selId = j]
      BY <3>3, <3>4 DEF s
    <3> HIDE DEF x, y, c, q, l, k, n, o, j, sl, sk, sn, so, sj
    <3>11. b = [cell |-> c, selected |-> q, selectionLimit |-> l, cost |-> k, manhattan |-> n,
                selManhattan |-> o, selId |-> j, parity |-> x, selParity |-> y]
      BY ONLY <3>8, <3>10
    <3>12. /\ IsRecord(b) /\ b.cell = c /\ b.selectionLimit = l /\ b.manhattan = n
           /\ b.selManhattan = o
      BY ONLY <3>11 DEF IsRecord
    <3>13. b.parity = x /\ b.selParity = y
      BY ONLY <3>11
    <3>14. Undone(b, f.saved)
      BY <3>9, <3>12, <3>13 DEF Undone, c, l, n, o
    <3> QED
      BY <1>1, <2>1, <3>1, <3>14
  <2>2. CASE ~(m.isSelection /\ f.pre # NoMove)
    <3>1. b = f.board
      BY <1>6, <2>2 DEF Restored
    <3>2. CASE f.pre = NoMove
      BY <1>1, <3>1, <3>2
    <3>3. CASE f.pre # NoMove /\ ~m.isSelection
      <4>1. ASSUME f.next > 4 PROVE FALSE
        <5>1. PICK p \in Points : m = Selection(p)
          BY <1>1, <1>6, <4>1, CandidateMoves
        <5> HIDE DEF m
        <5> QED
          BY <3>3, <5>1 DEF Selection
      <4> QED
        BY <1>1, <3>1, <3>3, <4>1
    <3> QED
      BY <2>2, <3>2, <3>3
  <2> QED
    BY <2>1, <2>2
<1> QED
  BY <1>5, <1>6

-----------------------------------------------------------------------------
(* The stack.                                                              *)

\* The board that IDAstar() hands to startDFS.
First(cell) == Board!InitBoard(cell, NoPoint, SelectionLimit)

\* startDFS at the bottom, and each call at the board to which its move leads
\* from the board of its caller.
StackInv(s, cell) ==
  /\ \E S : s \in Seq(S)
  /\ \A i \in 1 .. Len(s) : FrameInv(s[i])
  /\ 1 <= Len(s) => s[1].pre = NoMove /\ s[1].saved = First(cell)
  /\ \A i \in 1 .. Len(s) - 1 :
       /\ s[i + 1].pre \in Moves
       /\ CheckStep(Judge(s[i].saved), s[i + 1].pre) = Judge(s[i + 1].saved)

\* The stack of a new iteration.
LEMMA FirstStack ==
  ASSUME NEW cell \in Boards
  PROVE  StackInv(<<Call(First(cell), NoMove)>>, cell)
<1> DEFINE b == First(cell)
           f == Call(b, NoMove)
<1>1. Exact(b) /\ b.selected = NoPoint /\ b.selectionLimit = SelectionLimit
  BY InitialBoard DEF First
<1> HIDE DEF b
<1>2. FrameInv(f) /\ f.pre = NoMove /\ f.saved = b
  BY <1>1, CallInv, CostAssumption, LimitAssumption
<1> HIDE DEF f
<1> DEFINE s == <<f>>
<1>3. s \in Seq({f}) /\ Len(s) = 1 /\ s[1] = f
  OBVIOUS
<1> HIDE DEF s
<1>4. /\ \A i \in 1 .. Len(s) : FrameInv(s[i])
      /\ s[1].pre = NoMove /\ s[1].saved = First(cell)
      /\ 1 .. Len(s) - 1 = {}
  BY <1>2, <1>3 DEF b
<1>5. StackInv(s, cell)
  BY <1>3, <1>4 DEF StackInv
<1> QED
  BY <1>5 DEF s, f, b

\* One call of the stack goes on.
LEMMA ReplacedCall ==
  ASSUME NEW cell, NEW s, StackInv(s, cell), NEW k \in 1 .. Len(s),
         NEW f, FrameInv(f), f.pre = s[k].pre, f.saved = s[k].saved
  PROVE  LET t == [s EXCEPT ![k] = f]
         IN  /\ StackInv(t, cell) /\ Len(t) = Len(s)
             /\ \A i \in 1 .. Len(s) : t[i].pre = s[i].pre /\ t[i].saved = s[i].saved
<1> DEFINE t == [s EXCEPT ![k] = f]
<1>1. PICK S : s \in Seq(S)
  BY DEF StackInv
<1>2. s \in Seq(S \cup {f}) /\ Len(s) \in Nat /\ DOMAIN s = 1 .. Len(s)
  BY <1>1
<1>3. t \in Seq(S \cup {f}) /\ Len(t) = Len(s)
  BY <1>2
<1>4. \A i \in 1 .. Len(s) : t[i] = IF i = k THEN f ELSE s[i]
  BY <1>2
<1> HIDE DEF t
<1>5. \A i \in 1 .. Len(s) : t[i].pre = s[i].pre /\ t[i].saved = s[i].saved
  BY <1>4
<1>6. \A i \in 1 .. Len(s) : FrameInv(t[i])
  BY <1>4 DEF StackInv
<1>7. \A i \in 1 .. Len(s) - 1 :
        /\ t[i + 1].pre \in Moves
        /\ CheckStep(Judge(t[i].saved), t[i + 1].pre) = Judge(t[i + 1].saved)
  <2> SUFFICES ASSUME NEW i \in 1 .. Len(s) - 1
               PROVE  /\ t[i + 1].pre \in Moves
                      /\ CheckStep(Judge(t[i].saved), t[i + 1].pre) = Judge(t[i + 1].saved)
    OBVIOUS
  <2>1. i \in 1 .. Len(s) /\ i + 1 \in 1 .. Len(s)
    BY <1>2
  <2>2. t[i + 1].pre = s[i + 1].pre /\ t[i].saved = s[i].saved /\ t[i + 1].saved = s[i + 1].saved
    BY <1>5, <2>1
  <2>3. /\ s[i + 1].pre \in Moves
        /\ CheckStep(Judge(s[i].saved), s[i + 1].pre) = Judge(s[i + 1].saved)
    BY DEF StackInv
  <2> QED
    BY <2>2, <2>3
<1>8. 1 <= Len(s) => t[1].pre = NoMove /\ t[1].saved = First(cell)
  BY <1>2, <1>5 DEF StackInv
<1>9. StackInv(t, cell)
  BY <1>3, <1>6, <1>7, <1>8 DEF StackInv
<1> QED
  BY <1>3, <1>5, <1>9 DEF t

\* A call of the innermost call.
LEMMA NewCall ==
  ASSUME NEW cell, NEW s, StackInv(s, cell), Len(s) >= 1,
         NEW f, FrameInv(f), f.pre \in Moves,
         CheckStep(Judge(s[Len(s)].saved), f.pre) = Judge(f.saved)
  PROVE  StackInv(Append(s, f), cell)
<1> DEFINE t == Append(s, f)
           n == Len(s)
<1>1. PICK S : s \in Seq(S)
  BY DEF StackInv
<1>2. s \in Seq(S \cup {f}) /\ n \in Nat \ {0}
  BY <1>1
<1>3. /\ t \in Seq(S \cup {f}) /\ Len(t) = n + 1 /\ t[n + 1] = f
      /\ \A i \in 1 .. n : t[i] = s[i]
  BY <1>2
<1>4. /\ \A i \in 1 .. n : FrameInv(s[i])
      /\ s[1].pre = NoMove /\ s[1].saved = First(cell)
      /\ CheckStep(Judge(s[n].saved), f.pre) = Judge(f.saved)
  BY <1>2 DEF StackInv
<1>5. \A i \in 1 .. n - 1 :
        /\ s[i + 1].pre \in Moves
        /\ CheckStep(Judge(s[i].saved), s[i + 1].pre) = Judge(s[i + 1].saved)
  BY DEF StackInv
<1> HIDE DEF t, n
<1>6. \A i \in 1 .. n + 1 : FrameInv(t[i])
  BY <1>2, <1>3, <1>4
<1>7. ASSUME NEW i \in 1 .. n
      PROVE  /\ t[i + 1].pre \in Moves
             /\ CheckStep(Judge(t[i].saved), t[i + 1].pre) = Judge(t[i + 1].saved)
  <2>1. CASE i = n
    BY <1>2, <1>3, <1>4, <2>1
  <2>2. CASE i # n
    <3>1. i \in 1 .. n - 1 /\ t[i] = s[i] /\ t[i + 1] = s[i + 1]
      BY <1>2, <1>3, <2>2
    <3> QED
      BY <1>5, <3>1
  <2> QED
    BY <2>1, <2>2
<1>8. t[1].pre = NoMove /\ t[1].saved = First(cell) /\ (n + 1) - 1 = n
  BY <1>2, <1>3, <1>4
<1>9. StackInv(t, cell)
  BY <1>3, <1>6, <1>7, <1>8 DEF StackInv
<1> QED
  BY <1>9 DEF t

\* The innermost call returns.
LEMMA ReturnedCall ==
  ASSUME NEW cell, NEW s, StackInv(s, cell), Len(s) > 1
  PROVE  /\ StackInv(Front(s), cell) /\ Len(Front(s)) = Len(s) - 1
         /\ \A i \in 1 .. Len(s) - 1 : Front(s)[i] = s[i]
<1>1. PICK S : s \in Seq(S)
  BY DEF StackInv
<1>2. s # <<>> /\ Len(s) \in Nat
  BY <1>1
<1>3. /\ Front(s) \in Seq(S) /\ Len(Front(s)) = Len(s) - 1
      /\ \A i \in 1 .. Len(s) - 1 : Front(s)[i] = s[i]
  BY <1>1, <1>2, LastFront
<1> DEFINE t == Front(s)
           n == Len(s) - 1
<1>4. /\ t \in Seq(S) /\ Len(t) = n /\ n \in Nat \ {0} /\ Len(s) = n + 1
      /\ \A i \in 1 .. n : t[i] = s[i]
  BY <1>2, <1>3
<1> HIDE DEF t, n
<1>5. /\ \A i \in 1 .. n + 1 : FrameInv(s[i])
      /\ s[1].pre = NoMove /\ s[1].saved = First(cell)
      /\ \A i \in 1 .. n : /\ s[i + 1].pre \in Moves
                           /\ CheckStep(Judge(s[i].saved), s[i + 1].pre) = Judge(s[i + 1].saved)
  BY <1>4 DEF StackInv
<1>6. \A i \in 1 .. n : FrameInv(t[i])
  BY <1>4, <1>5
<1>7. ASSUME NEW i \in 1 .. n - 1
      PROVE  /\ t[i + 1].pre \in Moves
             /\ CheckStep(Judge(t[i].saved), t[i + 1].pre) = Judge(t[i + 1].saved)
  <2>1. i \in 1 .. n /\ i + 1 \in 1 .. n
    BY <1>4
  <2>2. t[i] = s[i] /\ t[i + 1] = s[i + 1]
    BY <1>4, <2>1
  <2> QED
    BY <1>5, <2>1, <2>2
<1>8. t[1].pre = NoMove /\ t[1].saved = First(cell)
  BY <1>4, <1>5
<1>9. StackInv(t, cell)
  BY <1>4, <1>6, <1>7, <1>8 DEF StackInv
<1> QED
  BY <1>3, <1>9 DEF t

\* The moves along the stack lead the judge from the board of the problem to the
\* innermost call.
LEMMA StackPlayed ==
  ASSUME NEW cell \in Boards, NEW s, StackInv(s, cell), Len(s) >= 1
  PROVE  LET pres == [i \in 1 .. Len(s) - 1 |-> s[i + 1].pre]
         IN  /\ pres \in Seq(Moves)
             /\ Simulated(CheckBegin(cell, SelectionLimit), pres) = Judge(s[Len(s)].saved)
<1>1. PICK S : s \in Seq(S)
  BY DEF StackInv
<1> DEFINE n    == Len(s) - 1
           pres == [i \in 1 .. n |-> s[i + 1].pre]
           base == CheckBegin(cell, SelectionLimit)
           h    == [i \in 0 .. n |-> Judge(s[i + 1].saved)]
<1>2. n \in Nat /\ Len(s) = n + 1
  BY <1>1
<1>3. \A i \in 1 .. n : /\ s[i + 1].pre \in Moves
                        /\ CheckStep(Judge(s[i].saved), s[i + 1].pre) = Judge(s[i + 1].saved)
  BY DEF StackInv
<1>4. Judge(s[1].saved) = base
  <2>1. s[1].saved = First(cell)
    BY <1>2 DEF StackInv
  <2>2. /\ First(cell).cell = cell /\ First(cell).selected = NoPoint
        /\ First(cell).selectionLimit = SelectionLimit
    BY InitialBoard DEF First
  <2> QED
    BY <2>1, <2>2 DEF Judge, CheckBegin
<1> HIDE DEF n, base
<1>5. pres \in Seq(Moves) /\ Len(pres) = n /\ DOMAIN pres = 1 .. n
  <2>1. pres \in [1 .. n -> Moves]
    BY <1>3
  <2> QED
    BY <1>2, <2>1
<1>6. \A i \in 1 .. n : pres[i] = s[i + 1].pre
  OBVIOUS
<1>7. \A i \in 0 .. n : h[i] = Judge(s[i + 1].saved)
  OBVIOUS
<1> HIDE DEF pres, h
<1>8. CheckSteps(h, base, pres, n)
  <2>1. h[0] = base
    BY <1>2, <1>4, <1>7
  <2>2. ASSUME NEW i \in 1 .. n PROVE h[i] = CheckStep(h[i - 1], pres[i])
    <3>1. i \in 0 .. n /\ i - 1 \in 0 .. n /\ (i - 1) + 1 = i
      BY <1>2
    <3>2. h[i] = Judge(s[i + 1].saved) /\ h[i - 1] = Judge(s[i].saved) /\ pres[i] = s[i + 1].pre
      BY <1>6, <1>7, <3>1
    <3> QED
      BY <1>3, <3>2
  <2> QED
    BY <2>1, <2>2 DEF CheckSteps
<1>9. PICK g : CheckSteps(g, base, pres, n) /\ Simulated(base, pres) = g[n]
  BY <1>2, <1>5, CheckFold
<1>10. \A i \in 0 .. n : g[i] = h[i]
  BY <1>2, <1>8, <1>9, CheckStepsUnique
<1>11. Simulated(base, pres) = Judge(s[n + 1].saved)
  BY <1>2, <1>7, <1>9, <1>10
<1> QED
  BY <1>2, <1>5, <1>11 DEF n, pres, base

\* The answer of a stack with a finished board at its top.
LEMMA FoundCorrect ==
  ASSUME NEW cell \in Boards, NEW s, StackInv(s, cell), s # <<>>, Board!Finished(Last(s).board)
  PROVE  Correct(cell, SelectionLimit, Optimize([i \in 1 .. Len(s) - 1 |-> s[i + 1].pre]))
<1> DEFINE pres == [i \in 1 .. Len(s) - 1 |-> s[i + 1].pre]
           base == CheckBegin(cell, SelectionLimit)
           n    == Len(s)
<1>1. n \in Nat /\ n >= 1 /\ Last(s) = s[n]
  <2>1. PICK S : s \in Seq(S)
    BY DEF StackInv
  <2>2. Len(s) \in Nat \ {0} /\ Last(s) = s[Len(s)]
    BY <2>1, LastFront
  <2> QED
    BY <2>2
<1>2. FrameInv(s[n])
  BY <1>1 DEF StackInv
<1>3. pres \in Seq(Moves) /\ Simulated(base, pres) = Judge(s[n].saved)
  BY <1>1, StackPlayed
<1>4. Aligned(s[n].saved.cell)
  <2> DEFINE f == s[n]
  <2>1. Exact(f.saved) /\ Board!Finished(f.saved)
    BY <1>1, <1>2 DEF FrameInv, Undone, Board!Finished
  <2> QED
    BY <2>1, FinishedBoard
<1>5. Correct(cell, SelectionLimit, pres)
  BY <1>3, <1>4 DEF Correct, Simulate, Simulated, Judge
<1>6. cell \in Cells /\ SelectionLimit \in Nat
  BY CostAssumption, LimitAssumption DEF Boards, Cells
<1> HIDE DEF pres
<1>7. Correct(cell, SelectionLimit, Optimize(pres))
  BY <1>3, <1>5, <1>6, OptimizeCorrect
<1> QED
  BY <1>7 DEF pres

-----------------------------------------------------------------------------
(* The solver.                                                             *)

\* The inductive invariant.
IInv ==
  /\ start \in Boards
  /\ StackInv(stack, start)
  /\ ExactAnswerCorrect

\* The invariant holds before the search.
LEMMA InitInv == IDAInit => IInv
<1> SUFFICES ASSUME IDAInit PROVE IInv
  OBVIOUS
<1>1. start \in Boards /\ stack = <<Call(First(start), NoMove)>> /\ published = NoAnswer
  BY DEF IDAInit, First
<1>2. StackInv(<<Call(First(start), NoMove)>>, start)
  BY <1>1, FirstStack
<1> QED
  BY <1>1, <1>2 DEF IInv, ExactAnswerCorrect

\* The innermost call, and the stack whose innermost call goes on.
LEMMA TopCall ==
  ASSUME IInv, stack # <<>>
  PROVE  /\ Len(stack) \in Nat \ {0} /\ Top = stack[Len(stack)] /\ FrameInv(Top)
         /\ Len(stack) \in 1 .. Len(stack)
<1>1. PICK S : stack \in Seq(S)
  BY DEF IInv, StackInv
<1>2. Len(stack) \in Nat \ {0} /\ Top = stack[Len(stack)]
  BY <1>1, LastFront DEF Top
<1> QED
  BY <1>2 DEF IInv, StackInv

\* The innermost call is done with a candidate.
LEMMA TopGoesOn ==
  ASSUME IInv, stack # <<>>, NEW b, NEW min,
         \/ b = Top.board
         \/ /\ Top.next <= Candidates /\ Allowed(Top, Candidate(Top.next))
            /\ b = Restored(Top, Candidate(Top.next))
  PROVE  LET s == [stack EXCEPT ![Len(stack)] =
                     [Top EXCEPT !.board = b, !.min = min, !.next = Top.next + 1]]
         IN  /\ StackInv(s, start) /\ Len(s) = Len(stack)
             /\ s[Len(stack)].saved = Top.saved
<1> DEFINE f == Top
           n == Len(stack)
           t == [f EXCEPT !.board = b, !.min = min, !.next = f.next + 1]
<1>1. n \in Nat \ {0} /\ f = stack[n] /\ FrameInv(f) /\ n \in 1 .. Len(stack)
  BY TopCall
<1>2. \/ b = f.board
      \/ /\ f.next <= Candidates /\ Allowed(f, Candidate(f.next))
         /\ b = Restored(f, Candidate(f.next))
  OBVIOUS
<1> HIDE DEF f
<1>3. FrameInv(t) /\ t.pre = f.pre /\ t.saved = f.saved
  <2>1. FrameInv(f)
    BY <1>1
  <2> QED
    BY ONLY <2>1, <1>2, TriedInv
<1> HIDE DEF t, n
<1>4. StackInv(stack, start)
  BY DEF IInv
<1> DEFINE s == [stack EXCEPT ![n] = t]
<1>5. /\ StackInv(s, start) /\ Len(s) = Len(stack)
      /\ \A i \in 1 .. Len(stack) : s[i].pre = stack[i].pre /\ s[i].saved = stack[i].saved
  BY <1>1, <1>3, <1>4, ReplacedCall
<1> HIDE DEF s
<1>6. s[n].saved = f.saved
  BY <1>1, <1>5
<1> QED
  BY <1>5, <1>6 DEF s, t, n, f

\* Optimize publishes what the judge accepts, whichever step is taken.
LEMMA StepInv ==
  ASSUME IInv, [IDANext]_idaVars
  PROVE  IInv'
<1>1. start \in Boards /\ StackInv(stack, start) /\ ExactAnswerCorrect
  BY DEF IInv
<1>2. ASSUME start' = start, published' = published, StackInv(stack', start)
      PROVE  IInv'
  BY <1>1, <1>2 DEF IInv, ExactAnswerCorrect
<1>3. CASE Skip
  <2>1. /\ stack # <<>> /\ start' = start /\ published' = published
        /\ stack' = [stack EXCEPT ![Len(stack)].next = @ + 1]
    BY <1>3 DEF Skip
  <2>2. FrameInv(Top) /\ Top = stack[Len(stack)]
    BY <2>1, TopCall
  <2> DEFINE f    == Top
             more == f.next + 1
             b    == f.board
             m    == f.min
             pre  == f.pre
             old  == f.next
             sv   == f.saved
             t    == [f EXCEPT !.board = b, !.min = m, !.next = more]
             u    == [f EXCEPT !.next = more]
  <2>3. t = u
    <3>1. f = [board |-> b, pre |-> pre, min |-> m, next |-> old, saved |-> sv]
      BY <2>2 DEF FrameInv, IsFrame
    <3>2. t = [f EXCEPT !.board = b, !.min = m, !.next = more] /\ u = [f EXCEPT !.next = more]
      OBVIOUS
    <3> HIDE DEF f, b, m, pre, old, sv, more, t, u
    <3>3. t = [board |-> b, pre |-> pre, min |-> m, next |-> more, saved |-> sv]
      BY ONLY <3>1, <3>2
    <3>4. u = [board |-> b, pre |-> pre, min |-> m, next |-> more, saved |-> sv]
      BY ONLY <3>1, <3>2
    <3> QED
      BY <3>3, <3>4
  <2>4. stack' = [stack EXCEPT ![Len(stack)] = u]
    BY <2>1, <2>2
  <2>5. StackInv([stack EXCEPT ![Len(stack)] = t], start)
    BY <2>1, TopGoesOn
  <2> HIDE DEF t, u
  <2> QED
    BY <1>2, <2>1, <2>3, <2>4, <2>5
<1>4. CASE CutOff
  <2> DEFINE m == Candidate(Top.next)
             bound == Board!LowerBound(Child(Top, m))
             b == Restored(Top, m)
             min == Smaller(Top.min, bound)
  <2>1. /\ stack # <<>> /\ start' = start /\ published' = published
        /\ Top.next <= Candidates /\ Allowed(Top, m)
        /\ stack' = [stack EXCEPT ![Len(stack)] =
                       [Top EXCEPT !.board = b, !.min = min, !.next = Top.next + 1]]
    BY <1>4 DEF CutOff
  <2>2. StackInv([stack EXCEPT ![Len(stack)] =
                    [Top EXCEPT !.board = b, !.min = min, !.next = Top.next + 1]], start)
    <3> HIDE DEF min
    <3> QED
      BY <2>1, TopGoesOn
  <2> QED
    BY <1>2, <2>1, <2>2
<1>5. CASE Descend
  <2> DEFINE m == Candidate(Top.next)
             child == Child(Top, m)
             b == Restored(Top, m)
             t == [stack EXCEPT ![Len(stack)] =
                     [Top EXCEPT !.board = b, !.min = Top.min, !.next = Top.next + 1]]
  <2>1. /\ stack # <<>> /\ start' = start /\ published' = published
        /\ Top.next <= Candidates /\ Allowed(Top, m)
        /\ stack' = Append([stack EXCEPT ![Len(stack)] =
                              [Top EXCEPT !.board = b, !.next = Top.next + 1]], Call(child, m))
    BY <1>5 DEF Descend
  <2>2. Top = stack[Len(stack)] /\ FrameInv(Top) /\ Len(stack) \in Nat \ {0}
    BY <2>1, TopCall
  <2>3. stack' = Append(t, Call(child, m))
    <3> DEFINE f    == Top
               more == f.next + 1
               min  == f.min
               brd  == f.board
               pre  == f.pre
               old  == f.next
               sv   == f.saved
               v    == [f EXCEPT !.board = b, !.min = min, !.next = more]
               u    == [f EXCEPT !.board = b, !.next = more]
    <3>1. stack' = Append([stack EXCEPT ![Len(stack)] = u], Call(child, m))
      BY <2>1
    <3>2. t = [stack EXCEPT ![Len(stack)] = v]
      OBVIOUS
    <3>3. f = [board |-> brd, pre |-> pre, min |-> min, next |-> old, saved |-> sv]
      BY <2>2 DEF FrameInv, IsFrame
    <3>4. v = [f EXCEPT !.board = b, !.min = min, !.next = more]
          /\ u = [f EXCEPT !.board = b, !.next = more]
      OBVIOUS
    <3> HIDE DEF b, m, child, t, f, brd, min, pre, old, sv, more, v, u
    <3>5. v = [board |-> b, pre |-> pre, min |-> min, next |-> more, saved |-> sv]
      BY ONLY <3>3, <3>4
    <3>6. u = [board |-> b, pre |-> pre, min |-> min, next |-> more, saved |-> sv]
      BY ONLY <3>3, <3>4
    <3> QED
      BY <3>1, <3>2, <3>5, <3>6
  <2>4. /\ StackInv(t, start) /\ Len(t) = Len(stack)
        /\ t[Len(stack)].saved = Top.saved
    BY <2>1, TopGoesOn
  <2>5. /\ m \in Moves /\ Exact(child) /\ child.selectionLimit \in Nat
        /\ CheckStep(Judge(Top.saved), m) = Judge(child)
    BY <2>1, <2>2, ChildInv
  <2> HIDE DEF t, m, child
  <2>6. FrameInv(Call(child, m)) /\ Call(child, m).pre = m /\ Call(child, m).saved = child
    BY <2>5, NoMoveIsNone, CallInv
  <2> DEFINE call == Call(child, m)
  <2> HIDE DEF call
  <2>7. StackInv(Append(t, call), start)
    <3>1. Len(t) >= 1 /\ call.pre \in Moves /\ FrameInv(call)
          /\ CheckStep(Judge(t[Len(t)].saved), call.pre) = Judge(call.saved)
      BY <2>2, <2>4, <2>5, <2>6 DEF call
    <3> QED
      BY <2>4, <3>1, NewCall
  <2> QED
    BY <1>2, <2>1, <2>3, <2>7 DEF call
<1>6. CASE DFSReturn
  <2> DEFINE k == Len(stack) - 1
             min == Smaller(stack[k].min, Top.min)
  <2>1. /\ Len(stack) > 1 /\ start' = start /\ published' = published
        /\ stack' = [Front(stack) EXCEPT ![k].min = Smaller(@, Top.min)]
    BY <1>6 DEF DFSReturn
  <2>2. /\ StackInv(Front(stack), start) /\ Len(Front(stack)) = k
        /\ \A i \in 1 .. k : Front(stack)[i] = stack[i]
    BY <1>1, <2>1, ReturnedCall
  <2>3. PICK S : stack \in Seq(S)
    BY <1>1 DEF StackInv
  <2>4. k \in 1 .. k
    BY <2>1, <2>3
  <2> DEFINE s == Front(stack)
             f == s[k]
             l == Smaller(f.min, Top.min)
             t == [f EXCEPT !.min = l]
  <2>5. stack' = [s EXCEPT ![k] = t]
    BY <2>1
  <2>6. FrameInv(f)
    BY <2>2, <2>4 DEF StackInv
  <2>7. FrameInv(t) /\ t.pre = f.pre /\ t.saved = f.saved
    <3> DEFINE brd  == f.board
               pre  == f.pre
               min0 == f.min
               next == f.next
               sv   == f.saved
    <3>1. f = [board |-> brd, pre |-> pre, min |-> min0, next |-> next, saved |-> sv]
      BY <2>6 DEF FrameInv, IsFrame
    <3>2. t = [f EXCEPT !.min = l]
      OBVIOUS
    <3> HIDE DEF t, l, f, brd, pre, min0, next, sv
    <3>3. t = [board |-> brd, pre |-> pre, min |-> l, next |-> next, saved |-> sv]
      BY ONLY <3>1, <3>2
    <3>4. /\ IsFrame(t) /\ t.board = f.board /\ t.pre = f.pre /\ t.next = f.next
          /\ t.saved = f.saved
      BY <3>3 DEF IsFrame, brd, pre, next, sv
    <3> QED
      BY <2>6, <3>4 DEF FrameInv
  <2> HIDE DEF t, l
  <2>8. StackInv([s EXCEPT ![k] = t], start)
    <3>1. StackInv(s, start) /\ k \in 1 .. Len(s) /\ t.pre = s[k].pre /\ t.saved = s[k].saved
      BY <2>2, <2>4, <2>7
    <3> HIDE DEF s, k
    <3> QED
      BY <2>7, <3>1, ReplacedCall
  <2> QED
    BY <1>2, <2>1, <2>5, <2>8
<1>7. CASE Deepen
  <2>1. /\ start' = start /\ published' = published
        /\ stack' = <<Call(First(start), NoMove)>>
    BY <1>7 DEF Deepen, First
  <2> QED
    BY <1>1, <1>2, <2>1, FirstStack
<1>8. CASE Found
  <2>1. /\ stack # <<>> /\ Board!Finished(Top.board) /\ start' = start /\ stack' = <<>>
        /\ published' = Optimize([i \in 1 .. Len(stack) - 1 |-> stack[i + 1].pre])
    BY <1>8 DEF Found
  <2>2. Correct(start, SelectionLimit, published')
    BY <1>1, <2>1, FoundCorrect DEF Top
  <2>3. StackInv(<<>>, start)
    <3>1. <<>> \in Seq({}) /\ Len(<<>>) = 0
      OBVIOUS
    <3> QED
      BY <3>1 DEF StackInv
  <2> QED
    BY <1>1, <2>1, <2>2, <2>3 DEF IInv, ExactAnswerCorrect
<1>9. CASE UNCHANGED idaVars
  BY <1>1, <1>2, <1>9 DEF idaVars
<1> QED
  BY <1>3, <1>4, <1>5, <1>6, <1>7, <1>8, <1>9 DEF IDANext

\* The invariant holds throughout the search.
LEMMA Invariance == IDASpec => []IInv
<1>1. IDAInit => IInv
  BY InitInv
<1>2. IInv /\ [IDANext]_idaVars => IInv'
  BY StepInv
<1> QED
  BY <1>1, <1>2, PTL DEF IDASpec

\* The assertion of ExactSolver::solve, for boards of every size, all costs and
\* limits: whatever the search goes through, the judge accepts the answer.
THEOREM AnswerAccepted == IDASpec => []ExactAnswerCorrect
<1>1. IInv => ExactAnswerCorrect
  BY DEF IInv
<1> QED
  BY <1>1, Invariance, PTL

\* Every call of the recursion begins with the features of its board, although the
\* board that its caller selects on is restored in part only.
THEOREM CallsExact == IDASpec => []CallsGetExactFeatures
<1>1. IInv => CallsGetExactFeatures
  <2> SUFFICES ASSUME IInv, NEW i \in DOMAIN stack, stack[i].next = 1
               PROVE  stack[i].board = [Board!InitBoard(stack[i].board.cell, stack[i].board.selected,
                                                     stack[i].board.selectionLimit)
                                          EXCEPT !.cost = stack[i].board.cost]
    BY DEF CallsGetExactFeatures
  <2>1. PICK S : stack \in Seq(S)
    BY DEF IInv, StackInv
  <2>2. FrameInv(stack[i])
    BY <2>1 DEF IInv, StackInv
  <2> DEFINE f == stack[i]
  <2> HIDE DEF f
  <2>3. FrameInv(f) /\ f.next = 1
    BY <2>2 DEF f
  <2>4. Exact(f.board)
    BY <2>3 DEF FrameInv
  <2> QED
    BY <2>4 DEF f, Exact
<1> QED
  BY <1>1, Invariance, PTL

-----------------------------------------------------------------------------
(* The reference: the layers of Plays, which a fold adds one by one.       *)

\* Nothing is left to do.
Ended(s) == \E p \in Points \cup {NoPoint}, k \in 0 .. SelectionLimit : s = <<FinishedState, p, k>>

\* A swap leads from the first of two situations to the second.
SwapLeads(s, t) ==
  \E dir \in Directions :
    /\ ValidMove(t[2], dir)
    /\ s = <<Swapped(t[1], t[2], Neighbour(t[2], dir)), Neighbour(t[2], dir), t[3]>>

\* A selection does.
SelectionLeads(s, t) ==
  /\ t[2] # NoPoint /\ t[3] < SelectionLimit
  /\ \E p \in Points \cup {NoPoint} : s = <<t[1], p, t[3] + 1>>

\* A play of cost c begins in s, by the layers so far.
Joins(plays, s, c) ==
  \/ c = 0 /\ Ended(s)
  \/ c >= SwappingCost /\ \E t \in plays[c - SwappingCost + 1] : SwapLeads(s, t)
  \/ c >= SelectionCost /\ \E t \in plays[c - SelectionCost + 1] : SelectionLeads(s, t)

\* One more layer: the situations from which a play of this cost, but none that is
\* cheaper, begins.
IsLayer(plays, c, layer) ==
  /\ OneMore(plays, c) = Append(plays, layer)
  /\ \A s : s \in layer <=> Joins(plays, s, c) /\ s \notin UNION ToSet(plays)

\* OneMore appends it.
LEMMA OneMoreIs ==
  ASSUME NEW plays, NEW c
  PROVE  \E layer : IsLayer(plays, c, layer)
<1> DEFINE first ==
             IF c = 0
             THEN {<<FinishedState, p, k>> : p \in Points \cup {NoPoint}, k \in 0 .. SelectionLimit}
             ELSE {}
           swapped ==
             IF c >= SwappingCost
             THEN UNION {SwapBefore(s) : s \in plays[c - SwappingCost + 1]}
             ELSE {}
           selected ==
             IF c >= SelectionCost
             THEN UNION {SelectionBefore(s) :
                           s \in {t \in plays[c - SelectionCost + 1] :
                                    t[2] # NoPoint /\ t[3] < SelectionLimit}}
             ELSE {}
           layer == {s : s \in (first \cup swapped \cup selected) \ UNION ToSet(plays)}
<1>1. OneMore(plays, c) = Append(plays, layer)
  BY DEF OneMore
<1>2. \A s : s \in first <=> c = 0 /\ Ended(s)
  BY DEF Ended
<1>3. \A s : s \in swapped <=> c >= SwappingCost /\ \E t \in plays[c - SwappingCost + 1] : SwapLeads(s, t)
  <2>1. \A s, t : s \in SwapBefore(t) <=> SwapLeads(s, t)
    BY DEF SwapBefore, SwapLeads
  <2> QED
    BY <2>1
<1>4. \A s : s \in selected <=>
               c >= SelectionCost /\ \E t \in plays[c - SelectionCost + 1] : SelectionLeads(s, t)
  <2>1. \A s, t : s \in SelectionBefore(t) /\ t[2] # NoPoint /\ t[3] < SelectionLimit
                    <=> SelectionLeads(s, t)
    BY DEF SelectionBefore, SelectionLeads
  <2> QED
    BY <2>1
<1>5. \A s : s \in layer <=> s \in (first \cup swapped \cup selected) \ UNION ToSet(plays)
  OBVIOUS
<1> HIDE DEF first, swapped, selected, layer
<1>6. \A s : s \in layer <=> Joins(plays, s, c) /\ s \notin UNION ToSet(plays)
  BY <1>2, <1>3, <1>4, <1>5, Zenon DEF Joins
<1>7. IsLayer(plays, c, layer)
  BY <1>1, <1>6, Zenon DEF IsLayer
<1> QED
  BY <1>7

\* The function that the fold defines by recursion.
PlaysIterates(it, seq, n) ==
  it = [s \in SUBSET (1 .. n) |->
          IF s = {}
          THEN <<>>
          ELSE OneMore(it[s \ {LargestOf(s)}], seq[LargestOf(s)])]

\* The recursion behind the fold has a solution, by induction on the length.
LEMMA PlaysIteratesExists ==
  ASSUME NEW seq, NEW n \in Nat
  PROVE  \E it : PlaysIterates(it, seq, n)
<1> DEFINE S == {k \in Nat : \E it : PlaysIterates(it, seq, k)}
<1>1. 0 \in S
  <2>1. SUBSET (1 .. 0) = {{}}
    OBVIOUS
  <2>2. PlaysIterates([s \in SUBSET (1 .. 0) |-> <<>>], seq, 0)
    BY <2>1 DEF PlaysIterates
  <2> QED
    BY <2>2
<1>2. ASSUME NEW k \in S PROVE k + 1 \in S
  <2>1. PICK it : PlaysIterates(it, seq, k)
    OBVIOUS
  <2> DEFINE new == [s \in SUBSET (1 .. (k + 1)) |->
                       IF k + 1 \in s THEN OneMore(it[s \ {k + 1}], seq[k + 1]) ELSE it[s]]
             rhs == [s \in SUBSET (1 .. (k + 1)) |->
                       IF s = {}
                       THEN <<>>
                       ELSE OneMore(new[s \ {LargestOf(s)}], seq[LargestOf(s)])]
  <2>2. ASSUME NEW s \in SUBSET (1 .. (k + 1)) PROVE new[s] = rhs[s]
    <3>1. CASE k + 1 \in s
      <4>1. LargestOf(s) = k + 1
        <5>1. LargestOf(s) \in s /\ LargestOf(s) >= k + 1
          BY <3>1, GreatestIs, k + 1 \in Nat
        <5>2. LargestOf(s) \in 1 .. (k + 1)
          BY <5>1
        <5> QED
          BY <5>1, <5>2
      <4>2. s \ {k + 1} \in SUBSET (1 .. (k + 1)) /\ k + 1 \notin s \ {k + 1}
        OBVIOUS
      <4> QED
        BY <3>1, <4>1, <4>2
    <3>2. CASE k + 1 \notin s
      <4>1. s \in SUBSET (1 .. k)
        BY <3>2
      <4>2. CASE s = {}
        BY <2>1, <4>1, <4>2 DEF PlaysIterates
      <4>3. CASE s # {}
        <5>1. LargestOf(s) \in s
          BY <4>1, <4>3, GreatestIs
        <5>2. /\ s \ {LargestOf(s)} \in SUBSET (1 .. (k + 1))
              /\ k + 1 \notin s \ {LargestOf(s)}
          BY <3>2
        <5>3. it[s] = OneMore(it[s \ {LargestOf(s)}], seq[LargestOf(s)])
          BY <2>1, <4>1, <4>3 DEF PlaysIterates
        <5> QED
          BY <3>2, <4>3, <5>2, <5>3
      <4> QED
        BY <4>2, <4>3
    <3> QED
      BY <3>1, <3>2
  <2>3. new = rhs
    <3>1. /\ DOMAIN new = DOMAIN rhs
          /\ new = [s \in DOMAIN new |-> new[s]]
          /\ rhs = [s \in DOMAIN rhs |-> rhs[s]]
      OBVIOUS
    <3>2. \A s \in DOMAIN new : new[s] = rhs[s]
      BY <2>2
    <3> HIDE DEF new, rhs
    <3> QED
      BY <3>1, <3>2
  <2>4. PlaysIterates(new, seq, k + 1)
    BY <2>3 DEF PlaysIterates
  <2>5. \E i : PlaysIterates(i, seq, k + 1)
    BY <2>4
  <2> QED
    BY <2>5
<1>3. S \in SUBSET Nat
  OBVIOUS
<1>4. S = Nat
  <2> HIDE DEF S
  <2> QED
    BY <1>1, <1>2, <1>3, SetInduction
<1> QED
  BY <1>4

\* The layers after each step.
PlaysSteps(h, n) ==
  h[0] = <<>> /\ \A i \in 1 .. n : h[i] = OneMore(h[i - 1], i - 1)

\* The fold is the last of its partial results.
LEMMA PlaysFold == \E h : PlaysSteps(h, MaxOptimum + 1) /\ Plays = h[MaxOptimum + 1]
<1> DEFINE n   == MaxOptimum + 1
           seq == [c \in 1 .. n |-> c - 1]
<1>1. n \in Nat /\ DOMAIN seq = 1 .. n /\ \A i \in 1 .. n : seq[i] = i - 1
  BY ReferenceAssumption
<1>2. Plays = FoldLeft(OneMore, <<>>, seq)
  BY DEF Plays
<1> HIDE DEF n, seq
<1>3. Plays = (CHOOSE it : PlaysIterates(it, seq, n))[1 .. n]
  BY <1>1, <1>2 DEF FoldLeft, MapThenFoldSet, Max, PlaysIterates, LargestOf
<1>4. PICK it : PlaysIterates(it, seq, n) /\ Plays = it[1 .. n]
  BY <1>1, <1>3, PlaysIteratesExists
<1> DEFINE h == [i \in 0 .. n |-> it[1 .. i]]
<1>5. h[0] = <<>>
  BY <1>1, <1>4 DEF PlaysIterates
<1>6. ASSUME NEW i \in 1 .. n PROVE h[i] = OneMore(h[i - 1], i - 1)
  <2> DEFINE s == 1 .. i
  <2>1. s \in SUBSET (1 .. n) /\ s # {} /\ s \ {i} = 1 .. (i - 1) /\ LargestOf(s) = i
    BY <1>1, GreatestOfPrefix
  <2>2. it[s] = OneMore(it[s \ {i}], seq[i])
    <3> HIDE DEF s
    <3> QED
      BY <1>4, <2>1 DEF PlaysIterates
  <2>3. h[i] = it[1 .. i] /\ h[i - 1] = it[1 .. (i - 1)]
    BY <1>1
  <2> HIDE DEF h
  <2> QED
    BY <1>1, <2>1, <2>2, <2>3
<1>7. h[n] = it[1 .. n]
  BY <1>1
<1> HIDE DEF h
<1>8. PlaysSteps(h, n) /\ Plays = h[n]
  BY <1>4, <1>5, <1>6, <1>7 DEF PlaysSteps
<1> QED
  BY <1>8 DEF n

\* The first j layers stay what they are.
FirstLayers(h, j) ==
  /\ \E S : h[j] \in Seq(S)
  /\ Len(h[j]) = j
  /\ \A i \in 0 .. j : \A k \in 1 .. i : h[j][k] = h[i][k]

\* The situations from which the cheapest play costs c.
Costs(s, c) == c \in 0 .. MaxOptimum /\ s \in Plays[c + 1]

\* A layer is what OneMore makes it of the layers before.
LEMMA LayerIs ==
  ASSUME NEW c \in 0 .. MaxOptimum
  PROVE  \A s : Costs(s, c) <=> Joins(Plays, s, c) /\ \A d \in 0 .. c - 1 : ~Costs(s, d)
<1> DEFINE n == MaxOptimum + 1
<1>1. n \in Nat /\ MaxOptimum \in Nat /\ c \in Nat /\ c + 1 \in 1 .. n /\ (c + 1) - 1 = c
      /\ c \in 0 .. n
  BY ReferenceAssumption
<1>2. PICK h : PlaysSteps(h, n) /\ Plays = h[n]
  BY PlaysFold
<1> HIDE DEF n
<1> DEFINE P == {j \in Nat : j <= n => FirstLayers(h, j)}
<1>3. 0 \in P
  <2>1. h[0] = <<>> /\ <<>> \in Seq({}) /\ Len(<<>>) = 0 /\ 1 .. 0 = {}
    BY <1>2 DEF PlaysSteps
  <2>2. \A i \in 0 .. 0 : i = 0
    OBVIOUS
  <2> QED
    BY <2>1, <2>2 DEF FirstLayers
<1>4. ASSUME NEW j \in P PROVE j + 1 \in P
  <2>1. SUFFICES ASSUME j + 1 <= n PROVE FirstLayers(h, j + 1)
    OBVIOUS
  <2>2. j \in Nat /\ j + 1 \in 1 .. n /\ (j + 1) - 1 = j /\ FirstLayers(h, j)
    BY <1>1, <2>1
  <2>3. h[j + 1] = OneMore(h[j], j)
    BY <1>2, <2>2 DEF PlaysSteps
  <2>4. PICK layer : IsLayer(h[j], j, layer)
    BY OneMoreIs
  <2>5. h[j + 1] = Append(h[j], layer)
    BY <2>3, <2>4 DEF IsLayer
  <2>6. PICK S : h[j] \in Seq(S)
    BY <2>2 DEF FirstLayers
  <2> DEFINE T == S \cup {layer}
             old == h[j]
             new == h[j + 1]
  <2>7. Len(old) = j /\ \A i \in 0 .. j : \A k \in 1 .. i : old[k] = h[i][k]
    BY <2>2 DEF FirstLayers
  <2>8. old \in Seq(T) /\ layer \in T /\ new = Append(old, layer)
    BY <2>5, <2>6
  <2> HIDE DEF T, old, new
  <2>9. new \in Seq(T) /\ Len(new) = j + 1 /\ \A k \in 1 .. j : new[k] = old[k]
    BY ONLY <2>7, <2>8, <2>2, AppendProperties
  <2>10. ASSUME NEW i \in 0 .. j + 1, NEW k \in 1 .. i PROVE new[k] = h[i][k]
    <3>1. CASE i = j + 1
      BY <3>1 DEF new
    <3>2. CASE i # j + 1
      <4>1. i \in 0 .. j /\ k \in 1 .. j
        BY <2>2, <3>2
      <4> QED
        BY <2>7, <2>9, <4>1
    <3> QED
      BY <3>1, <3>2
  <2> QED
    BY <2>9, <2>10 DEF FirstLayers, new
<1>5. P \in SUBSET Nat
  OBVIOUS
<1>6. P = Nat
  <2> HIDE DEF P
  <2> QED
    BY <1>3, <1>4, <1>5, SetInduction
<1>7. \A j \in 0 .. n : FirstLayers(h, j)
  BY <1>1, <1>6
<1> HIDE DEF P
<1> DEFINE old == h[c]
           new == h[c + 1]
<1>8. /\ \E S : old \in Seq(S)
      /\ Len(old) = c
  BY <1>1, <1>7 DEF FirstLayers
<1>9. \A k \in 1 .. c : old[k] = Plays[k]
  <2>1. FirstLayers(h, n) /\ n \in 0 .. n
    BY <1>1, <1>7
  <2> QED
    BY <1>1, <1>2, <2>1 DEF FirstLayers
<1>10. new[c + 1] = Plays[c + 1]
  <2>1. FirstLayers(h, n) /\ c + 1 \in 0 .. n /\ c + 1 \in 1 .. c + 1
    BY <1>1, <1>7
  <2> QED
    BY <1>2, <2>1 DEF FirstLayers
<1>11. PICK layer : IsLayer(old, c, layer)
  BY OneMoreIs
<1>12. new = Append(old, layer)
  <2>1. new = OneMore(old, c)
    BY <1>1, <1>2 DEF PlaysSteps
  <2> QED
    BY <1>11, <2>1 DEF IsLayer
<1> HIDE DEF old, new
<1>13. Plays[c + 1] = layer
  <2>1. PICK S : old \in Seq(S)
    BY <1>8
  <2> DEFINE T == S \cup {layer}
  <2>2. old \in Seq(T) /\ layer \in T
    BY <2>1
  <2> HIDE DEF T
  <2>3. new[Len(old) + 1] = layer
    BY ONLY <1>12, <2>2, AppendProperties
  <2> QED
    BY <1>8, <1>10, <2>3
<1>14. ToSet(old) = {Plays[k] : k \in 1 .. c}
  <2>1. DOMAIN old = 1 .. c
    BY <1>8
  <2>2. ToSet(old) = {old[k] : k \in 1 .. c}
    BY <2>1, Zenon DEF ToSet
  <2> QED
    BY <1>9, <2>2, Zenon
<1>15. ASSUME NEW s
       PROVE  s \notin UNION ToSet(old) <=> \A d \in 0 .. c - 1 : ~Costs(s, d)
  <2>1. s \notin UNION ToSet(old) <=> \A k \in 1 .. c : s \notin Plays[k]
    BY <1>14
  <2>2. (\A k \in 1 .. c : s \notin Plays[k]) => \A d \in 0 .. c - 1 : ~Costs(s, d)
    <3> SUFFICES ASSUME \A k \in 1 .. c : s \notin Plays[k], NEW d \in 0 .. c - 1
                 PROVE  s \notin Plays[d + 1]
      BY DEF Costs
    <3>1. d + 1 \in 1 .. c
      BY <1>1
    <3> QED
      BY <3>1
  <2>3. ASSUME \A d \in 0 .. c - 1 : ~Costs(s, d), NEW k \in 1 .. c
        PROVE  s \notin Plays[k]
    <3> DEFINE d == k - 1
    <3>1. d \in 0 .. c - 1 /\ d \in 0 .. MaxOptimum /\ d + 1 = k
      BY <1>1
    <3> HIDE DEF d
    <3> QED
      BY <2>3, <3>1 DEF Costs
  <2> QED
    BY <2>1, <2>2, <2>3
<1>16. ASSUME NEW s PROVE Joins(old, s, c) <=> Joins(Plays, s, c)
  <2>1. c >= SwappingCost => old[c - SwappingCost + 1] = Plays[c - SwappingCost + 1]
    <3>1. c >= SwappingCost => c - SwappingCost + 1 \in 1 .. c
      BY <1>1, ReferenceAssumption, CostAssumption, LimitAssumption
    <3> QED
      BY <1>9, <3>1
  <2>2. c >= SelectionCost => old[c - SelectionCost + 1] = Plays[c - SelectionCost + 1]
    <3>1. c >= SelectionCost => c - SelectionCost + 1 \in 1 .. c
      BY <1>1, ReferenceAssumption, CostAssumption, LimitAssumption
    <3> QED
      BY <1>9, <3>1
  <2> QED
    BY <2>1, <2>2, Zenon DEF Joins
<1>17. ASSUME NEW s
       PROVE  Costs(s, c) <=> Joins(Plays, s, c) /\ \A d \in 0 .. c - 1 : ~Costs(s, d)
  <2>1. s \in layer <=> Joins(old, s, c) /\ s \notin UNION ToSet(old)
    BY <1>11, Zenon DEF IsLayer
  <2>2. Costs(s, c) <=> s \in layer
    BY <1>13, Zenon DEF Costs
  <2> QED
    BY <1>15, <1>16, <2>1, <2>2, Zenon
<1> QED
  BY <1>17

\* The situations of the boards of this size.
Situations == Boards \X (Points \cup {NoPoint}) \X (0 .. SelectionLimit)

\* A situation has one cost.
LEMMA CostsOnce ==
  ASSUME NEW s, NEW c, NEW d, Costs(s, c), Costs(s, d)
  PROVE  c = d
<1>1. c \in 0 .. MaxOptimum /\ d \in 0 .. MaxOptimum /\ MaxOptimum \in Nat
  BY ReferenceAssumption DEF Costs
<1>2. ~(c < d)
  <2>1. c < d => c \in 0 .. d - 1
    BY <1>1
  <2> QED
    BY <1>1, <2>1, LayerIs
<1>3. ~(d < c)
  <2>1. d < c => d \in 0 .. c - 1
    BY <1>1
  <2> QED
    BY <1>1, <2>1, LayerIs
<1> QED
  BY <1>1, <1>2, <1>3

\* A play is at its end, or goes on with a cheaper one.
Goes(s, c) ==
  \/ c = 0 /\ Ended(s)
  \/ \E t : Costs(t, c - SwappingCost) /\ SwapLeads(s, t)
  \/ \E t : Costs(t, c - SelectionCost) /\ SelectionLeads(s, t)

\* From every situation with a cost.
LEMMA CostsFrom ==
  ASSUME NEW s, NEW c, Costs(s, c)
  PROVE  Goes(s, c)
<1>1. c \in 0 .. MaxOptimum /\ MaxOptimum \in Nat
  BY ReferenceAssumption DEF Costs
<1>2. Joins(Plays, s, c)
  BY <1>1, LayerIs
<1>3. CASE c = 0 /\ Ended(s)
  BY <1>3 DEF Goes
<1>4. CASE c >= SwappingCost /\ \E t \in Plays[c - SwappingCost + 1] : SwapLeads(s, t)
  <2>1. c - SwappingCost \in 0 .. MaxOptimum
    BY <1>1, <1>4, ReferenceAssumption, CostAssumption, LimitAssumption
  <2> QED
    BY <1>4, <2>1 DEF Goes, Costs
<1>5. CASE c >= SelectionCost /\ \E t \in Plays[c - SelectionCost + 1] : SelectionLeads(s, t)
  <2>1. c - SelectionCost \in 0 .. MaxOptimum
    BY <1>1, <1>5, ReferenceAssumption, CostAssumption, LimitAssumption
  <2> QED
    BY <1>5, <2>1 DEF Goes, Costs
<1> QED
  BY <1>2, <1>3, <1>4, <1>5 DEF Joins

\* The cost of what goes on is smaller.
LEMMA SmallerCost ==
  ASSUME NEW c, NEW t, Costs(t, c - SwappingCost) \/ Costs(t, c - SelectionCost), c \in 0 .. MaxOptimum
  PROVE  /\ Costs(t, c - SwappingCost) => c - SwappingCost \in 0 .. MaxOptimum /\ c - SwappingCost < c
         /\ Costs(t, c - SelectionCost) => c - SelectionCost \in 0 .. MaxOptimum /\ c - SelectionCost < c
BY ReferenceAssumption, CostAssumption, LimitAssumption DEF Costs

\* What leads to a situation of a board is one.
LEMMA LeadsType ==
  ASSUME NEW s, NEW t \in Situations
  PROVE  /\ SwapLeads(s, t) => s \in Situations /\ t[2] \in Points /\ s[2] \in Points
         /\ SelectionLeads(s, t) => s \in Situations /\ t[2] \in Points
<1>1. t[1] \in Boards /\ t[2] \in Points \cup {NoPoint} /\ t[3] \in 0 .. SelectionLimit
  BY DEF Situations
<1>2. ASSUME SwapLeads(s, t) PROVE s \in Situations /\ t[2] \in Points /\ s[2] \in Points
  <2>1. PICK dir \in Directions :
          /\ ValidMove(t[2], dir)
          /\ s = <<Swapped(t[1], t[2], Neighbour(t[2], dir)), Neighbour(t[2], dir), t[3]>>
    BY <1>2 DEF SwapLeads
  <2>2. t[2] \in Points /\ Neighbour(t[2], dir) \in Points
    BY <1>1, <2>1 DEF ValidMove, IsSelected
  <2>3. Swapped(t[1], t[2], Neighbour(t[2], dir)) \in Boards
    BY <1>1, <2>2, SwappedBoards
  <2> QED
    BY <1>1, <2>1, <2>2, <2>3 DEF Situations
<1>3. ASSUME SelectionLeads(s, t) PROVE s \in Situations /\ t[2] \in Points
  <2>1. PICK p \in Points \cup {NoPoint} : s = <<t[1], p, t[3] + 1>>
    BY <1>3 DEF SelectionLeads
  <2>2. t[3] + 1 \in 0 .. SelectionLimit
    BY <1>1, <1>3, CostAssumption, LimitAssumption DEF SelectionLeads
  <2>3. t[2] \in Points
    BY <1>1, <1>3 DEF SelectionLeads
  <2> QED
    BY <1>1, <2>1, <2>2, <2>3 DEF Situations
<1> QED
  BY <1>2, <1>3

\* The layers hold situations of boards.
LEMMA CostsType ==
  ASSUME NEW s, NEW c, Costs(s, c)
  PROVE  s \in Situations
<1> DEFINE T == {d \in 0 .. MaxOptimum : \E t : Costs(t, d) /\ t \notin Situations}
<1>1. ASSUME T # {} PROVE FALSE
  <2>1. T \in SUBSET Nat
    BY ReferenceAssumption
  <2>2. PICK d \in T : \A e \in T : d <= e
    <3> HIDE DEF T
    <3> QED
      BY <1>1, <2>1, Least
  <2>3. PICK r : Costs(r, d) /\ r \notin Situations
    OBVIOUS
  <2>4. d \in 0 .. MaxOptimum /\ MaxOptimum \in Nat
    BY ReferenceAssumption
  <2>5. ASSUME NEW t, NEW e, Costs(t, e), e < d PROVE t \in Situations
    <3>1. e \in 0 .. MaxOptimum
      BY <2>5 DEF Costs
    <3>2. t \notin Situations => e \in T
      BY <2>5, <3>1
    <3>3. e \in T => d <= e
      BY <2>2
    <3> QED
      BY <2>4, <2>5, <3>1, <3>2, <3>3
  <2> HIDE DEF T
  <2>6. CASE d = 0 /\ Ended(r)
    <3>1. PICK p \in Points \cup {NoPoint}, k \in 0 .. SelectionLimit : r = <<FinishedState, p, k>>
      BY <2>6 DEF Ended
    <3>2. FinishedState \in Boards
      BY DEF FinishedState, Boards, IsInjective
    <3> QED
      BY <2>3, <3>1, <3>2 DEF Situations
  <2>7. CASE \E t : Costs(t, d - SwappingCost) /\ SwapLeads(r, t)
    BY <2>3, <2>4, <2>5, <2>7, SmallerCost, LeadsType
  <2>8. CASE \E t : Costs(t, d - SelectionCost) /\ SelectionLeads(r, t)
    BY <2>3, <2>4, <2>5, <2>8, SmallerCost, LeadsType
  <2> QED
    BY <2>3, <2>6, <2>7, <2>8, CostsFrom DEF Goes
<1>2. c \in 0 .. MaxOptimum
  BY DEF Costs
<1> QED
  BY <1>1, <1>2

\* A play that costs no more than c.
AtMost(s, c) == \E d \in 0 .. MaxOptimum : d <= c /\ Costs(s, d)

\* A swap or a selection more.
LEMMA OneMoreMove ==
  ASSUME NEW s, NEW t, NEW c \in Nat, AtMost(t, c)
  PROVE  /\ SwapLeads(s, t) /\ c + SwappingCost <= MaxOptimum => AtMost(s, c + SwappingCost)
         /\ SelectionLeads(s, t) /\ c + SelectionCost <= MaxOptimum => AtMost(s, c + SelectionCost)
<1>1. PICK d \in 0 .. MaxOptimum : d <= c /\ Costs(t, d)
  BY DEF AtMost
<1>2. MaxOptimum \in Nat /\ SwappingCost \in Nat /\ SelectionCost \in Nat
  BY ReferenceAssumption, CostAssumption, LimitAssumption
<1>3. ASSUME NEW e \in 0 .. MaxOptimum, Joins(Plays, s, e), NEW f \in Nat, e <= f
      PROVE  AtMost(s, f)
  <2>1. CASE Costs(s, e)
    BY <1>3, <2>1 DEF AtMost
  <2>2. CASE ~Costs(s, e)
    <3>1. PICK g \in 0 .. e - 1 : Costs(s, g)
      BY <1>3, <2>2, LayerIs
    <3>2. g \in 0 .. MaxOptimum /\ g <= f
      BY <1>2, <1>3, <3>1
    <3> QED
      BY <3>1, <3>2 DEF AtMost
  <2> QED
    BY <2>1, <2>2
<1>4. ASSUME SwapLeads(s, t), c + SwappingCost <= MaxOptimum
      PROVE  AtMost(s, c + SwappingCost)
  <2> DEFINE e == d + SwappingCost
  <2>1. /\ e \in 0 .. MaxOptimum /\ e >= SwappingCost /\ e - SwappingCost + 1 = d + 1
        /\ c + SwappingCost \in Nat /\ e <= c + SwappingCost
    BY <1>1, <1>2, <1>4
  <2> HIDE DEF e
  <2>2. Joins(Plays, s, e)
    BY <1>1, <1>4, <2>1 DEF Joins, Costs
  <2> QED
    BY <1>3, <2>1, <2>2
<1>5. ASSUME SelectionLeads(s, t), c + SelectionCost <= MaxOptimum
      PROVE  AtMost(s, c + SelectionCost)
  <2> DEFINE e == d + SelectionCost
  <2>1. /\ e \in 0 .. MaxOptimum /\ e >= SelectionCost /\ e - SelectionCost + 1 = d + 1
        /\ c + SelectionCost \in Nat /\ e <= c + SelectionCost
    BY <1>1, <1>2, <1>5
  <2> HIDE DEF e
  <2>2. Joins(Plays, s, e)
    BY <1>1, <1>5, <2>1 DEF Joins, Costs
  <2> QED
    BY <1>3, <2>1, <2>2
<1> QED
  BY <1>4, <1>5

\* With one more selection left.
Richer(s) == <<s[1], s[2], s[3] + 1>>

\* One more selection left makes no play more expensive.
LEMMA RicherCosts ==
  ASSUME NEW s, NEW c, Costs(s, c), s[3] < SelectionLimit
  PROVE  AtMost(Richer(s), c)
<1> DEFINE T == {d \in 0 .. MaxOptimum :
                   \E t : Costs(t, d) /\ t[3] < SelectionLimit /\ ~AtMost(Richer(t), d)}
<1>1. ASSUME T # {} PROVE FALSE
  <2>1. T \in SUBSET Nat
    BY ReferenceAssumption
  <2>2. PICK d \in T : \A e \in T : d <= e
    <3> HIDE DEF T
    <3> QED
      BY <1>1, <2>1, Least
  <2>3. PICK r : Costs(r, d) /\ r[3] < SelectionLimit /\ ~AtMost(Richer(r), d)
    OBVIOUS
  <2>4. d \in 0 .. MaxOptimum /\ MaxOptimum \in Nat /\ SelectionLimit \in Nat
        /\ SwappingCost \in Nat /\ SelectionCost \in Nat
    BY ReferenceAssumption, CostAssumption, LimitAssumption
  <2>5. ASSUME NEW t, NEW e, Costs(t, e), e < d, t[3] < SelectionLimit PROVE AtMost(Richer(t), e)
    <3>1. e \in 0 .. MaxOptimum
      BY <2>5 DEF Costs
    <3>2. ~AtMost(Richer(t), e) => e \in T
      BY <2>5, <3>1
    <3>3. e \in T => d <= e
      BY <2>2
    <3> QED
      BY <2>4, <2>5, <3>1, <3>2, <3>3
  <2> HIDE DEF T
  <2>6. CASE d = 0 /\ Ended(r)
    <3>1. PICK p \in Points \cup {NoPoint}, k \in 0 .. SelectionLimit : r = <<FinishedState, p, k>>
      BY <2>6 DEF Ended
    <3>2. k + 1 \in 0 .. SelectionLimit /\ Richer(r) = <<FinishedState, p, k + 1>>
      BY <2>3, <2>4, <3>1 DEF Richer
    <3>3. Ended(Richer(r))
      BY <3>2 DEF Ended
    <3>4. Joins(Plays, Richer(r), 0) /\ 0 \in 0 .. MaxOptimum /\ 0 .. 0 - 1 = {}
      BY <2>4, <3>3 DEF Joins
    <3>5. Costs(Richer(r), 0)
      BY <3>4, LayerIs
    <3> QED
      BY <2>3, <2>4, <2>6, <3>5 DEF AtMost
  <2>7. CASE \E t : Costs(t, d - SwappingCost) /\ SwapLeads(r, t)
    <3>1. PICK t : Costs(t, d - SwappingCost) /\ SwapLeads(r, t)
      BY <2>7
    <3> DEFINE e == d - SwappingCost
    <3> HIDE DEF e
    <3>9. Costs(t, e) /\ e + SwappingCost = d
      BY <2>4, <3>1, SmallerCost, ReferenceAssumption, CostAssumption, LimitAssumption DEF e
    <3>2. e \in 0 .. MaxOptimum /\ e < d /\ e \in Nat /\ e + SwappingCost = d
      BY <2>4, <3>9, ReferenceAssumption, CostAssumption, LimitAssumption DEF Costs
    <3>3. t \in Situations
      BY <3>1, CostsType
    <3>4. PICK dir \in Directions :
            /\ ValidMove(t[2], dir)
            /\ r = <<Swapped(t[1], t[2], Neighbour(t[2], dir)), Neighbour(t[2], dir), t[3]>>
      BY <3>1 DEF SwapLeads
    <3>5. AtMost(Richer(t), e)
      BY <2>3, <2>5, <3>1, <3>2, <3>4 DEF e
    <3>6. SwapLeads(Richer(r), Richer(t))
      <4>1. Richer(t)[1] = t[1] /\ Richer(t)[2] = t[2] /\ Richer(t)[3] = t[3] + 1
        BY DEF Richer
      <4>2. Richer(r) = <<Swapped(t[1], t[2], Neighbour(t[2], dir)), Neighbour(t[2], dir), t[3] + 1>>
        BY <3>4 DEF Richer
      <4> QED
        BY <3>4, <4>1, <4>2 DEF SwapLeads
    <3>7. AtMost(Richer(r), e + SwappingCost)
      BY <2>4, <3>2, <3>5, <3>6, OneMoreMove
    <3> QED
      BY <2>3, <3>2, <3>7
  <2>8. CASE \E t : Costs(t, d - SelectionCost) /\ SelectionLeads(r, t)
    <3>1. PICK t : Costs(t, d - SelectionCost) /\ SelectionLeads(r, t)
      BY <2>8
    <3> DEFINE e == d - SelectionCost
    <3> HIDE DEF e
    <3>9. Costs(t, e) /\ e + SelectionCost = d
      BY <2>4, <3>1, SmallerCost, ReferenceAssumption, CostAssumption, LimitAssumption DEF e
    <3>2. e \in 0 .. MaxOptimum /\ e < d /\ e \in Nat /\ e + SelectionCost = d
      BY <2>4, <3>9, ReferenceAssumption, CostAssumption, LimitAssumption DEF Costs
    <3>3. t \in Situations /\ t[3] \in Int
      BY <3>1, CostsType DEF Situations
    <3>4. PICK p \in Points \cup {NoPoint} : r = <<t[1], p, t[3] + 1>>
      BY <3>1 DEF SelectionLeads
    <3>5. t[3] + 1 < SelectionLimit /\ t[3] < SelectionLimit /\ t[2] # NoPoint
      BY <2>3, <2>4, <3>1, <3>3, <3>4 DEF SelectionLeads
    <3>6. AtMost(Richer(t), e)
      BY <2>5, <3>1, <3>2, <3>5 DEF e
    <3>7. SelectionLeads(Richer(r), Richer(t))
      <4>1. Richer(t)[1] = t[1] /\ Richer(t)[2] = t[2] /\ Richer(t)[3] = t[3] + 1
        BY DEF Richer
      <4>2. Richer(r) = <<t[1], p, (t[3] + 1) + 1>>
        BY <3>4 DEF Richer
      <4> QED
        BY <3>5, <4>1, <4>2 DEF SelectionLeads
    <3>8. AtMost(Richer(r), e + SelectionCost)
      BY <2>4, <3>2, <3>6, <3>7, OneMoreMove
    <3> QED
      BY <2>3, <3>2, <3>8
  <2> QED
    BY <2>3, <2>6, <2>7, <2>8, CostsFrom DEF Goes
<1>2. c \in 0 .. MaxOptimum
  BY DEF Costs
<1> QED
  BY <1>1, <1>2

-----------------------------------------------------------------------------
(* The lower bound.                                                        *)

\* computeHeuristic() looks at five features.
LEMMA SameHeuristic ==
  ASSUME NEW b
  PROVE  ABP!Heuristic(b) = Board!Heuristic(b)
BY DEF ABP!Heuristic, Board!Heuristic, ABP!Prunable, Board!Prunable, ABP!Infinity, Board!Infinity,
       ABP!Manhattan1, Board!Manhattan1, ABP!Manhattan2, Board!Manhattan2, ABP!Larger, Board!Larger,
       ABP!Manhattan2Table, Board!Manhattan2Table, ABP!IsSelected, Board!IsSelected,
       ABP!NoPoint, Board!NoPoint

\* The infinite bound is a number.
LEMMA InfinityIs == Board!Infinity \in Nat
BY DEF Board!Infinity

\* The features of an exact board.
LEMMA FeaturesOf ==
  ASSUME NEW b, Exact(b)
  PROVE  LET i == Board!InitBoard(b.cell, b.selected, b.selectionLimit)
         IN  /\ b.manhattan = i.manhattan /\ b.selManhattan = i.selManhattan
             /\ b.parity = i.parity /\ i.cell = b.cell /\ i.selected = b.selected
             /\ i.selectionLimit = b.selectionLimit
             /\ b.manhattan \in Nat /\ b.selManhattan \in Nat
<1> DEFINE cell == b.cell
           p == b.selected
           l == b.selectionLimit
           i == Board!InitBoard(cell, p, l)
           k == b.cost
<1>1. b = [i EXCEPT !.cost = k]
  BY DEF Exact
<1>2. /\ i.cell = cell /\ i.selected = p /\ i.selectionLimit = l
      /\ i.manhattan = Board!Manhattan(cell, p) /\ i.selManhattan = Board!SelManhattan(cell, p)
      /\ DOMAIN i = {"cell", "selected", "selectionLimit", "cost", "manhattan",
                     "selManhattan", "selId", "parity", "selParity"}
  BY DEF Board!InitBoard
<1>3. cell \in Boards /\ p \in Points \cup {NoPoint}
  BY DEF Exact
<1> HIDE DEF cell, p, l, k
<1>4. Board!Manhattan(cell, p) \in Nat /\ Board!SelManhattan(cell, p) \in Nat
  <2>1. ABP!Manhattan(cell, p) \in Nat /\ ABP!SelManhattan(cell, p) \in Nat
    BY <1>3, ABP!ManhattanSum, SameAssumptions, SameBoards
  <2> QED
    BY <2>1, SameFeatures
<1> HIDE DEF i
<1>5. b.manhattan = i.manhattan /\ b.selManhattan = i.selManhattan /\ b.parity = i.parity
  BY ONLY <1>1, <1>2
<1> QED
  BY <1>2, <1>4, <1>5 DEF i, cell, p, l

\* The bound of an exact board is that of its features computed anew.
LEMMA HeuristicOf ==
  ASSUME NEW b, Exact(b)
  PROVE  Board!Heuristic(b) = Board!Heuristic(Board!InitBoard(b.cell, b.selected, b.selectionLimit))
<1> DEFINE i == Board!InitBoard(b.cell, b.selected, b.selectionLimit)
<1>1. /\ b.manhattan = i.manhattan /\ b.selManhattan = i.selManhattan /\ b.parity = i.parity
      /\ i.selected = b.selected /\ i.selectionLimit = b.selectionLimit
  BY FeaturesOf
<1> HIDE DEF i
<1>2. Board!Prunable(b) <=> Board!Prunable(i)
  BY <1>1 DEF Board!Prunable
<1>3. Board!Manhattan1(b) = Board!Manhattan1(i)
  BY <1>1 DEF Board!Manhattan1
<1>4. Board!Manhattan2(b) = Board!Manhattan2(i)
  BY <1>1 DEF Board!Manhattan2
<1>5. Board!Heuristic(b) = Board!Heuristic(i)
  BY <1>2, <1>3, <1>4 DEF Board!Heuristic
<1> QED
  BY <1>5 DEF i

\* It is a number, and not negative.
LEMMA HeuristicType ==
  ASSUME NEW b, Exact(b), b.selectionLimit \in 0 .. SelectionLimit
  PROVE  Board!Heuristic(b) \in Nat
<1>1. b.manhattan \in Nat /\ b.selManhattan \in Nat
  BY FeaturesOf
<1>2. /\ SwappingCost \in Nat /\ SelectionCost \in Nat /\ Width \in Nat /\ Height \in Nat
      /\ b.selectionLimit \in 0 .. 16
  BY CostAssumption, LimitAssumption, SizeAssumption
<1>3. Board!Manhattan1(b) \in Nat
  <2> DEFINE h == (b.selManhattan + b.manhattan + 1) \div 2
  <2>1. h \in Nat
    BY <1>1
  <2> HIDE DEF h
  <2>2. SwappingCost * h \in Nat
    BY <1>2, <2>1
  <2> QED
    BY <1>2, <2>2 DEF Board!Manhattan1, h
<1>4. Board!Manhattan2(b) \in Int
  <2> DEFINE e == (Width + Height) * SwappingCost - SelectionCost
             t == Board!Manhattan2Table[b.selectionLimit + 1]
  <2>1. e \in Int
    BY <1>2
  <2>2. t \in Int
    BY <1>2 DEF Board!Manhattan2Table
  <2> HIDE DEF e, t
  <2>3. e * b.selectionLimit \in Int /\ t * SwappingCost \in Int /\ SwappingCost * b.manhattan \in Int
    BY <1>1, <1>2, <2>1, <2>2
  <2> QED
    BY <2>3 DEF Board!Manhattan2, Board!Larger, e, t
<1> QED
  BY <1>3, <1>4, InfinityIs DEF Board!Heuristic, Board!Larger

\* isFinished() sees that a board is aligned.
LEMMA AlignedFinished ==
  ASSUME NEW b, Exact(b), Aligned(b.cell)
  PROVE  Board!Finished(b)
<1>1. b.cell \in Boards /\ b.cell \in Cells
  BY ExactBoard
<1>2. ABP!Exact(b)
  BY SameExact
<1> DEFINE cell == b.cell
           p == b.selected
<1>3. b.manhattan = ABP!Manhattan(cell, p) /\ b.manhattan \in Nat
  <2>1. b.manhattan = Board!Manhattan(cell, p)
    BY FeaturesOf DEF Board!InitBoard
  <2> QED
    BY <2>1, SameFeatures, FeaturesOf
<1>4. cell \in Boards /\ cell \in Cells /\ p \in Points \cup {NoPoint} /\ Aligned(cell)
  BY <1>1 DEF Exact
<1> HIDE DEF cell, p
<1>5. \A q \in ABP!Points : ABP!Distance(q, cell[q]) = 0
  BY <1>4, SameBoards DEF Aligned, ABP!Distance, ABP!Absolute, Points
<1>6. ABP!DistanceSum(cell, ABP!Points) = 0
  BY <1>4, <1>5, SameBoards, SameAssumptions, ABP!SumAtHome
<1>7. /\ ABP!Manhattan(cell, p) \in Nat /\ ABP!SelManhattan(cell, p) \in Nat
      /\ ABP!Manhattan(cell, p) + ABP!SelManhattan(cell, p) = ABP!DistanceSum(cell, ABP!Points)
  BY <1>4, SameBoards, SameAssumptions, ABP!ManhattanSum
<1>8. b.manhattan = 0
  BY <1>3, <1>6, <1>7
<1> QED
  BY <1>8 DEF Board!Finished

-----------------------------------------------------------------------------
(* With a limit of two selections it is a lower bound.                     *)

\* The lower bound is at most what the cheapest play costs, from all situations that
\* are those of a call, and from all problems that are not solved.
BoundAdmissible ==
  \A c \in 0 .. MaxOptimum : \A s \in Plays[c + 1] :
    s[2] \in Points \/ c > 0 => Board!Heuristic(Board!InitBoard(s[1], s[2], s[3])) <= c

\* The moves of the boards of the theorems.
LEMMA SameMoves ==
  /\ ABP!FinishedState = FinishedState
  /\ \A p : \A dir : ABP!Neighbour(p, dir) = Neighbour(p, dir)
  /\ \A p : \A dir : ABP!ValidMove(p, dir) <=> ValidMove(p, dir)
  /\ \A cell : \A p : \A q : ABP!Swapped(cell, p, q) = Swapped(cell, p, q)
<1>1. ABP!FinishedState = FinishedState
  BY DEF ABP!FinishedState, FinishedState, ABP!Points, Points
<1>2. ASSUME NEW p, NEW dir PROVE ABP!Neighbour(p, dir) = Neighbour(p, dir)
  BY DEF ABP!Neighbour, Neighbour, ABP!Delta, Delta, ABP!Up, Up, ABP!Right, Right, ABP!Down, Down
<1>3. ASSUME NEW p, NEW dir PROVE ABP!ValidMove(p, dir) <=> ValidMove(p, dir)
  BY <1>2, SameBoards DEF ABP!ValidMove, ValidMove, ABP!IsSelected, IsSelected
<1>4. ASSUME NEW cell, NEW p, NEW q PROVE ABP!Swapped(cell, p, q) = Swapped(cell, p, q)
  BY DEF ABP!Swapped, Swapped
<1> QED
  BY <1>1, <1>2, <1>3, <1>4

\* A play that costs c, by its swaps and selections.
HasMoves(s, c) ==
  \E n \in Nat : \E used \in Nat :
    used <= s[3] /\ c = ABP!Cost(n, used) /\ ABP!Within(s[1], s[2], n, used)

\* A swap more, and a selection more.
LEMMA OneMoreWithin ==
  ASSUME NEW s, NEW t \in Situations, NEW e \in Nat, HasMoves(t, e)
  PROVE  /\ SwapLeads(s, t) => HasMoves(s, e + SwappingCost)
         /\ SelectionLeads(s, t) => HasMoves(s, e + SelectionCost)
<1>1. PICK n \in Nat, used \in Nat :
        used <= t[3] /\ e = ABP!Cost(n, used) /\ ABP!Within(t[1], t[2], n, used)
  BY DEF HasMoves
<1> DEFINE cell == t[1]
           q == t[2]
           k == t[3]
<1>2. cell \in Boards /\ q \in Points \cup {NoPoint} /\ k \in 0 .. SelectionLimit /\ k \in Nat
  BY CostAssumption, LimitAssumption DEF Situations
<1>3. /\ SwappingCost \in Nat /\ SelectionCost \in Nat
      /\ n * SwappingCost \in Nat /\ used * SelectionCost \in Nat
      /\ (n + 1) * SwappingCost = n * SwappingCost + SwappingCost
      /\ (used + 1) * SelectionCost = used * SelectionCost + SelectionCost
  BY CostAssumption, LimitAssumption
<1>4. ABP!Within(cell, q, n, used) /\ used <= k
  BY <1>1
<1>5. ASSUME SwapLeads(s, t) PROVE HasMoves(s, e + SwappingCost)
  <2>1. PICK dir \in Directions :
          ValidMove(q, dir) /\ s = <<Swapped(cell, q, Neighbour(q, dir)), Neighbour(q, dir), k>>
    BY <1>5 DEF SwapLeads
  <2> HIDE DEF cell, q, k
  <2> DEFINE next == Neighbour(q, dir)
             new  == Swapped(cell, q, next)
  <2>2. ABP!Within(new, next, n + 1, used)
    <3>1. dir \in ABP!Directions /\ ABP!ValidMove(q, dir)
          /\ cell \in ABP!Boards /\ q \in ABP!Points \cup {ABP!NoPoint}
      BY <1>2, <2>1, SameMoves, SameBoards
    <3>2. ABP!Within(ABP!Swapped(cell, q, ABP!Neighbour(q, dir)), ABP!Neighbour(q, dir), n + 1, used)
      BY <1>4, <3>1, ABP!WithinMoved, SameAssumptions
    <3> QED
      BY <3>2, SameMoves
  <2>3. e + SwappingCost = ABP!Cost(n + 1, used)
    BY <1>1, <1>3 DEF ABP!Cost
  <2>4. s[1] = new /\ s[2] = next /\ s[3] = k
    BY <2>1
  <2> HIDE DEF new, next
  <2> QED
    BY <1>4, <2>2, <2>3, <2>4 DEF HasMoves
<1>6. ASSUME SelectionLeads(s, t) PROVE HasMoves(s, e + SelectionCost)
  <2>1. PICK p \in Points \cup {NoPoint} : s = <<cell, p, k + 1>>
    BY <1>6 DEF SelectionLeads
  <2> HIDE DEF cell, q, k
  <2>2. ABP!Within(cell, p, n, used + 1)
    <3>1. /\ cell \in ABP!Boards /\ q \in ABP!Points \cup {ABP!NoPoint}
          /\ p \in ABP!Points \cup {ABP!NoPoint}
      BY <1>2, <2>1, SameBoards
    <3> QED
      BY <1>4, <3>1, ABP!WithinSelected, SameAssumptions
  <2>3. e + SelectionCost = ABP!Cost(n, used + 1)
    BY <1>1, <1>3 DEF ABP!Cost
  <2>4. s[1] = cell /\ s[2] = p /\ s[3] = k + 1 /\ used + 1 <= k + 1 /\ used + 1 \in Nat
    BY <1>2, <1>4, <2>1
  <2> QED
    BY <2>2, <2>3, <2>4 DEF HasMoves
<1> QED
  BY <1>5, <1>6

\* A play costs what its moves do.
LEMMA CostsMoves ==
  ASSUME NEW s, NEW c, Costs(s, c), s[2] \in Points \/ c > 0
  PROVE  HasMoves(s, c)
<1> DEFINE T == {d \in 0 .. MaxOptimum :
                   \E t : Costs(t, d) /\ (t[2] \in Points \/ d > 0) /\ ~HasMoves(t, d)}
<1>1. ASSUME T # {} PROVE FALSE
  <2>1. T \in SUBSET Nat
    BY ReferenceAssumption
  <2>2. PICK d \in T : \A e \in T : d <= e
    <3> HIDE DEF T
    <3> QED
      BY <1>1, <2>1, Least
  <2>3. PICK r : Costs(r, d) /\ (r[2] \in Points \/ d > 0) /\ ~HasMoves(r, d)
    OBVIOUS
  <2>4. d \in 0 .. MaxOptimum /\ MaxOptimum \in Nat /\ SwappingCost \in Nat /\ SelectionCost \in Nat
    BY ReferenceAssumption, CostAssumption, LimitAssumption
  <2>5. ASSUME NEW t, NEW e, Costs(t, e), e < d, t[2] \in Points PROVE HasMoves(t, e)
    <3>1. e \in 0 .. MaxOptimum
      BY <2>5 DEF Costs
    <3>2. ~HasMoves(t, e) => e \in T
      BY <2>5, <3>1
    <3>3. e \in T => d <= e
      BY <2>2
    <3> QED
      BY <2>4, <2>5, <3>1, <3>2, <3>3
  <2> HIDE DEF T
  <2>6. CASE d = 0 /\ Ended(r)
    <3>1. PICK p \in Points \cup {NoPoint}, k \in 0 .. SelectionLimit : r = <<FinishedState, p, k>>
      BY <2>6 DEF Ended
    <3>2. p \in Points
      BY <2>3, <2>6, <3>1
    <3>3. ABP!Within(FinishedState, p, 0, 0)
      BY <3>2, SameMoves, SameBoards, SameAssumptions, ABP!WithinFinished
    <3>4. ABP!Cost(0, 0) = 0
      BY CostAssumption, LimitAssumption DEF ABP!Cost
    <3>5. HasMoves(r, 0)
      BY <3>1, <3>3, <3>4 DEF HasMoves
    <3> QED
      BY <2>3, <2>6, <3>5
  <2>7. CASE \E t : Costs(t, d - SwappingCost) /\ SwapLeads(r, t)
    <3>1. PICK t : Costs(t, d - SwappingCost) /\ SwapLeads(r, t)
      BY <2>7
    <3> DEFINE e == d - SwappingCost
    <3> HIDE DEF e
    <3>2. Costs(t, e) /\ e + SwappingCost = d
      BY <2>4, <3>1 DEF e
    <3>3. e \in Nat /\ e < d
      BY <2>4, <3>2, ReferenceAssumption DEF Costs
    <3>4. t \in Situations /\ t[2] \in Points
      BY <3>1, CostsType, LeadsType
    <3>5. HasMoves(t, e)
      BY <2>5, <3>2, <3>3, <3>4
    <3>6. HasMoves(r, e + SwappingCost)
      BY <3>1, <3>3, <3>4, <3>5, OneMoreWithin
    <3> QED
      BY <2>3, <3>2, <3>6
  <2>8. CASE \E t : Costs(t, d - SelectionCost) /\ SelectionLeads(r, t)
    <3>1. PICK t : Costs(t, d - SelectionCost) /\ SelectionLeads(r, t)
      BY <2>8
    <3> DEFINE e == d - SelectionCost
    <3> HIDE DEF e
    <3>2. Costs(t, e) /\ e + SelectionCost = d
      BY <2>4, <3>1 DEF e
    <3>3. e \in Nat /\ e < d
      BY <2>4, <3>2, ReferenceAssumption DEF Costs
    <3>4. t \in Situations /\ t[2] \in Points
      BY <3>1, CostsType, LeadsType
    <3>5. HasMoves(t, e)
      BY <2>5, <3>2, <3>3, <3>4
    <3>6. HasMoves(r, e + SelectionCost)
      BY <3>1, <3>3, <3>4, <3>5, OneMoreWithin
    <3> QED
      BY <2>3, <3>2, <3>6
  <2> QED
    BY <2>3, <2>6, <2>7, <2>8, CostsFrom DEF Goes
<1>2. c \in 0 .. MaxOptimum
  BY DEF Costs
<1> QED
  BY <1>1, <1>2

\* So with at most two selections computeHeuristic() is never too large.
LEMMA AdmissibleOfTwo ==
  ASSUME SelectionLimit <= 2
  PROVE  BoundAdmissible
<1> SUFFICES ASSUME NEW c \in 0 .. MaxOptimum, NEW s \in Plays[c + 1], s[2] \in Points \/ c > 0
             PROVE  Board!Heuristic(Board!InitBoard(s[1], s[2], s[3])) <= c
  BY DEF BoundAdmissible
<1>1. Costs(s, c)
  BY DEF Costs
<1>2. s \in Situations /\ HasMoves(s, c)
  BY <1>1, CostsType, CostsMoves
<1> DEFINE cell == s[1]
           p == s[2]
           k == s[3]
<1>3. cell \in Boards /\ p \in Points \cup {NoPoint} /\ k \in Nat /\ k <= 2
  BY <1>2, CostAssumption, LimitAssumption DEF Situations
<1>4. PICK n \in Nat, used \in Nat :
        used <= k /\ c = ABP!Cost(n, used) /\ ABP!Within(cell, p, n, used)
  BY <1>2 DEF HasMoves
<1> HIDE DEF cell, p, k
<1>5. ABP!BoundHolds(cell, p, k, ABP!Cost(n, used))
  <2>1. used \in 0 .. k /\ cell \in ABP!Boards /\ p \in ABP!Points \cup {ABP!NoPoint}
    BY <1>3, <1>4, SameBoards
  <2> QED
    BY <1>3, <1>4, <2>1, ABP!WithinBound, SameAssumptions
<1>6. ABP!Heuristic(ABP!InitBoard(cell, p, k)) <= c
  BY <1>3, <1>4, <1>5 DEF ABP!BoundHolds
<1>7. ABP!Heuristic(ABP!InitBoard(cell, p, k)) = Board!Heuristic(Board!InitBoard(cell, p, k))
  BY SameInit, SameHeuristic
<1> QED
  BY <1>6, <1>7 DEF cell, p, k

-----------------------------------------------------------------------------
(* The candidates of a call: one of them begins the cheapest play.         *)

\* A number in rows of w.
LEMMA RowAndColumn ==
  ASSUME NEW w \in Nat \ {0}, NEW y \in Nat, NEW x \in 0 .. w - 1
  PROVE  (y * w + x) \div w = y /\ (y * w + x) % w = x
<1> DEFINE n == y * w + x
           d == n \div w
           r == n % w
<1>1. n \in Nat
  <2>1. y * w \in Nat
    OBVIOUS
  <2> QED
    BY <2>1
<1> HIDE DEF n
<1>2. d \in Int /\ r \in 0 .. w - 1 /\ w * d + r = n
  BY <1>1
<1> HIDE DEF d, r
<1>3. ~(d < y)
  <2>1. d < y => (d + 1) * w <= y * w
    <3>1. ASSUME NEW i \in Int, i >= 0 PROVE i * w >= 0
      BY <3>1
    <3>2. d < y => (y - (d + 1)) * w >= 0
      BY <1>2, <3>1
    <3>3. (y - (d + 1)) * w = y * w - (d + 1) * w
      BY <1>2
    <3>4. y * w \in Int /\ (d + 1) * w \in Int
      BY <1>2
    <3> QED
      BY <3>2, <3>3, <3>4
  <2>2. (d + 1) * w = w * d + w /\ w * d \in Int /\ y * w \in Int
    BY <1>2
  <2> QED
    BY <1>2, <2>1, <2>2 DEF n
<1>4. ~(y < d)
  <2>1. y < d => (y + 1) * w <= d * w
    <3>1. ASSUME NEW i \in Int, i >= 0 PROVE i * w >= 0
      BY <3>1
    <3>2. y < d => (d - (y + 1)) * w >= 0
      BY <1>2, <3>1
    <3>3. (d - (y + 1)) * w = d * w - (y + 1) * w
      BY <1>2
    <3>4. d * w \in Int /\ (y + 1) * w \in Int
      BY <1>2
    <3> QED
      BY <3>2, <3>3, <3>4
  <2>2. (y + 1) * w = y * w + w /\ w * d = d * w /\ d * w \in Int /\ y * w \in Int
    BY <1>2
  <2> QED
    BY <1>2, <2>1, <2>2 DEF n
<1>5. d = y
  BY <1>2, <1>3, <1>4
<1>6. w * d = y * w /\ w * d \in Int
  BY <1>2, <1>5
<1>7. r = x
  BY <1>2, <1>6 DEF n
<1> QED
  BY <1>5, <1>7 DEF d, r, n

\* The loops leave no move out.
LEMMA EveryMove ==
  /\ \A dir \in Directions : \E j \in 1 .. Candidates : Candidate(j) = Swap(dir)
  /\ \A p \in Points : \E j \in 1 .. Candidates : Candidate(j) = Selection(p)
<1>1. ASSUME NEW dir \in Directions PROVE \E j \in 1 .. Candidates : Candidate(j) = Swap(dir)
  <2>1. dir + 1 \in 1 .. 4 /\ (dir + 1) - 1 = dir /\ Height * Width \in Nat
    BY SizeAssumption DEF Directions
  <2>2. dir + 1 \in 1 .. Candidates
    BY <2>1 DEF Candidates
  <2>3. Candidate(dir + 1) = Swap(dir)
    BY <2>1 DEF Candidate
  <2> QED
    BY <2>2, <2>3
<1>2. ASSUME NEW p \in Points PROVE \E j \in 1 .. Candidates : Candidate(j) = Selection(p)
  <2>1. PICK y \in 0 .. Height - 1, x \in 0 .. Width - 1 : p = <<y, x>>
    BY DEF Points
  <2>2. Height \in Nat \ {0} /\ Width \in Nat \ {0} /\ y \in Nat /\ y + 1 <= Height
    BY <2>1, SizeAssumption
  <2> DEFINE i == y * Width + x
  <2>3. i \div Width = y /\ i % Width = x
    BY <2>1, <2>2, RowAndColumn
  <2>4. i \in Nat /\ i < Height * Width
    <3>1. (Height - (y + 1)) * Width >= 0 /\ y * Width \in Nat /\ Height * Width \in Nat
      <4>1. ASSUME NEW k \in Nat PROVE k * Width \in Nat
        BY <2>2
      <4> QED
        BY <2>2, <4>1
    <3>2. (Height - (y + 1)) * Width = Height * Width - y * Width - Width
      BY <2>2
    <3> QED
      BY <2>1, <2>2, <3>1, <3>2
  <2> HIDE DEF i
  <2>5. i + 5 \in Nat /\ i + 5 > 4 /\ (i + 5) - 5 = i /\ i + 5 \in 1 .. Candidates
    <3>1. Height * Width \in Nat
      BY <2>2
    <3> QED
      BY <2>4, <3>1 DEF Candidates
  <2>6. Candidate(i + 5) = Selection(p)
    <3>1. ~(i + 5 <= 4)
      BY <2>4
    <3> QED
      BY <2>1, <2>3, <2>5, <3>1 DEF Candidate
  <2> QED
    BY <2>5, <2>6
<1> QED
  BY <1>1, <1>2

\* The situation of a simulation.
Situation(sim) == <<sim.cell, sim.selected, sim.remain>>

\* What a move costs.
Price(m) == IF m.isSelection THEN SelectionCost ELSE SwappingCost

\* The candidates a call does not skip, by the board it began with.
AllowedAt(b, pre, m) ==
  IF m.isSelection
  THEN \/ pre = NoMove
       \/ b.selectionLimit > 0 /\ ~pre.isSelection /\ m.selected # b.selected
  ELSE /\ ValidMove(b.selected, m.direction)
       /\ ~(~pre.isSelection /\ pre.direction = Opposite(m.direction))

\* A swap can be taken back.
LEMMA TakenBack ==
  ASSUME NEW cell \in Boards, NEW q \in Points, NEW dir \in Directions, ValidMove(q, dir)
  PROVE  LET next == Neighbour(q, dir)
             back == Opposite(dir)
         IN  /\ next \in Points /\ back \in Directions /\ Opposite(back) = dir
             /\ Neighbour(next, back) = q /\ ValidMove(next, back)
             /\ Swapped(Swapped(cell, q, next), next, q) = cell
<1> DEFINE next == Neighbour(q, dir)
           back == Opposite(dir)
<1>1. next \in Points /\ q # NoPoint
  BY DEF ValidMove, IsSelected
<1>2. back \in Directions /\ Neighbour(next, back) = q
  BY BackAndForth
<1>3. Opposite(back) = dir
  BY DEF Opposite, Directions
<1>4. next # NoPoint
  BY <1>1, SizeAssumption DEF Points, NoPoint
<1>5. cell \in Cells
  BY BoardFacts
<1> HIDE DEF next, back
<1>6. ValidMove(next, back)
  BY <1>2, <1>4 DEF ValidMove, IsSelected
<1>7. Swapped(Swapped(cell, q, next), next, q) = cell
  BY <1>1, <1>5, SwappedBack
<1> QED
  BY <1>1, <1>2, <1>3, <1>6, <1>7 DEF next, back

\* A board of the search: its features are exact and its selections within the limit.
Searched(b) == Exact(b) /\ b.selectionLimit \in 0 .. SelectionLimit

\* As a situation, and as a state of the judge.
LEMMA SearchedIs ==
  ASSUME NEW b, Searched(b)
  PROVE  /\ Situation(Judge(b)) = <<b.cell, b.selected, b.selectionLimit>>
         /\ b.cell \in Boards /\ b.selected \in Points \cup {NoPoint} /\ b.selectionLimit \in Nat
         /\ Judge(b) \in PlayStates /\ Judge(b).valid
         /\ Judge(b).cell = b.cell /\ Judge(b).selected = b.selected
         /\ Judge(b).remain = b.selectionLimit
<1>1. b.selectionLimit \in Nat /\ Exact(b)
  BY CostAssumption, LimitAssumption DEF Searched
<1>2. Judge(b) \in PlayStates /\ Judge(b).valid
  BY <1>1, JudgeType
<1>3. /\ Judge(b).cell = b.cell /\ Judge(b).selected = b.selected
      /\ Judge(b).remain = b.selectionLimit
  BY DEF Judge
<1> QED
  BY <1>1, <1>2, <1>3 DEF Situation, Exact

\* The call from which a move of cost pre leads to the board, where the play costs c.
CameFrom(b, pre, c) ==
  \E pb : /\ Searched(pb) /\ CheckStep(Judge(pb), pre) = Judge(b)
          /\ Costs(Situation(Judge(pb)), c + Price(pre))

\* After a swap the cheapest play does not take it back.
LEMMA SwapOn ==
  ASSUME NEW b, Searched(b), NEW c, Costs(Situation(Judge(b)), c),
         NEW t, Costs(t, c - SwappingCost), SwapLeads(Situation(Judge(b)), t),
         NEW pre, pre = NoMove \/ (pre \in Moves /\ CameFrom(b, pre, c))
  PROVE  \E j \in 1 .. Candidates :
           /\ AllowedAt(b, pre, Candidate(j))
           /\ Costs(Situation(CheckStep(Judge(b), Candidate(j))), c - Price(Candidate(j)))
<1> DEFINE cell == t[1]
           q == t[2]
           k == t[3]
<1>1. t \in Situations /\ q \in Points /\ cell \in Boards /\ t = <<cell, q, k>>
  <2>1. t \in Situations
    BY CostsType
  <2>2. q \in Points
    BY <2>1, LeadsType
  <2> QED
    BY <2>1, <2>2 DEF Situations
<1> HIDE DEF cell, q, k
<1>2. PICK dir \in Directions :
        /\ ValidMove(q, dir)
        /\ Situation(Judge(b)) = <<Swapped(cell, q, Neighbour(q, dir)), Neighbour(q, dir), k>>
  BY DEF SwapLeads, cell, q, k
<1> DEFINE next == Neighbour(q, dir)
           back == Opposite(dir)
<1>3. /\ b.cell = Swapped(cell, q, next) /\ b.selected = next /\ b.selectionLimit = k
      /\ Judge(b) \in PlayStates /\ Judge(b).valid
      /\ Judge(b).cell = b.cell /\ Judge(b).selected = b.selected
      /\ Judge(b).remain = b.selectionLimit
  BY <1>2, SearchedIs
<1>4. /\ next \in Points /\ back \in Directions /\ Opposite(back) = dir
      /\ Neighbour(next, back) = q /\ ValidMove(next, back)
      /\ Swapped(Swapped(cell, q, next), next, q) = cell
  BY <1>1, <1>2, TakenBack
<1> HIDE DEF next, back
<1>5. PICK j \in 1 .. Candidates : Candidate(j) = Swap(back)
  BY <1>4, EveryMove
<1> DEFINE m == Swap(back)
<1>6. ~m.isSelection /\ m.direction = back
  BY DEF Swap
<1> HIDE DEF m
<1>7. CheckStep(Judge(b), m) = [cell |-> cell, selected |-> q, remain |-> k, valid |-> TRUE]
  <2> DEFINE sim == Judge(b)
  <2>1. /\ sim \in PlayStates /\ sim.valid /\ sim.selected = next /\ sim.remain = k
        /\ sim.cell = Swapped(cell, q, next)
    BY <1>3
  <2> HIDE DEF sim
  <2>2. CheckStep(sim, Swap(back)) =
          [cell |-> Swapped(sim.cell, sim.selected, Neighbour(sim.selected, back)),
           selected |-> Neighbour(sim.selected, back), remain |-> sim.remain, valid |-> TRUE]
    BY <1>4, <2>1, SwapStep
  <2>3. CheckStep(sim, m) = [cell |-> cell, selected |-> q, remain |-> k, valid |-> TRUE]
    BY <1>4, <2>1, <2>2 DEF m
  <2> QED
    BY <2>3 DEF sim
<1>8. Situation(CheckStep(Judge(b), m)) = t /\ Price(m) = SwappingCost
  BY <1>1, <1>6, <1>7 DEF Situation, Price
<1>9. ASSUME pre # NoMove, ~pre.isSelection, pre.direction = Opposite(back) PROVE FALSE
  <2>1. pre \in Moves /\ CameFrom(b, pre, c)
    BY <1>9
  <2>2. pre = Swap(dir)
    BY <1>4, <1>9, <2>1, MoveTypes
  <2>3. Price(pre) = SwappingCost
    BY <1>9 DEF Price
  <2>4. PICK pb : /\ Searched(pb) /\ CheckStep(Judge(pb), pre) = Judge(b)
                  /\ Costs(Situation(Judge(pb)), c + Price(pre))
    BY <2>1 DEF CameFrom
  <2> DEFINE sim == Judge(pb)
             after == Judge(b)
  <2>5. /\ sim \in PlayStates /\ sim.valid /\ sim.cell \in Boards
        /\ sim.selected \in Points \cup {NoPoint}
        /\ Situation(sim) = <<sim.cell, sim.selected, sim.remain>>
    BY <2>4, SearchedIs DEF Situation
  <2>6. CheckStep(sim, Swap(dir)) = after /\ after.valid
    BY <1>3, <2>2, <2>4
  <2>7. /\ after.cell = Swapped(cell, q, next) /\ after.selected = next /\ after.remain = k
    BY <1>3
  <2> HIDE DEF sim, after
  <2> DEFINE p == sim.selected
             place == sim.cell
             to == Neighbour(p, dir)
  <2>8. ValidMove(p, dir) /\ after = [cell |-> Swapped(place, p, to), selected |-> to,
                                      remain |-> sim.remain, valid |-> TRUE]
    BY <2>5, <2>6, SwapStep
  <2>9. p \in Points
    BY <2>5, <2>8 DEF ValidMove, IsSelected
  <2>10. Neighbour(to, back) = p /\ Swapped(Swapped(place, p, to), to, p) = place
    BY <2>5, <2>8, <2>9, TakenBack DEF back
  <2>11. to = next /\ sim.remain = k /\ Swapped(place, p, to) = Swapped(cell, q, next)
    BY <2>7, <2>8
  <2>12. p = q
    BY <1>4, <2>10, <2>11
  <2>13. place = cell
    BY <1>4, <2>10, <2>11, <2>12
  <2>14. Situation(sim) = t
    BY <1>1, <2>5, <2>11, <2>12, <2>13
  <2>15. Costs(t, c + SwappingCost)
    BY <2>3, <2>4, <2>14 DEF sim
  <2>16. c + SwappingCost = c - SwappingCost
    BY <2>15, CostsOnce
  <2>17. c \in Int
    BY ReferenceAssumption DEF Costs
  <2> QED
    BY <2>16, <2>17, ReferenceAssumption, CostAssumption, LimitAssumption
<1>10. AllowedAt(b, pre, m)
  <2>1. ValidMove(b.selected, m.direction)
    BY <1>3, <1>4, <1>6
  <2>2. NoMove.isSelection
    BY DEF NoMove, Selection
  <2>3. ~(~pre.isSelection /\ pre.direction = Opposite(back))
    BY <1>9, <2>2
  <2> QED
    BY <1>6, <2>1, <2>3 DEF AllowedAt
<1> QED
  BY <1>5, <1>8, <1>10 DEF m

\* The cheapest play makes no two selections in turn, and selects no piece twice.
LEMMA SelectOn ==
  ASSUME NEW b, Searched(b), NEW c, Costs(Situation(Judge(b)), c),
         NEW t, Costs(t, c - SelectionCost), SelectionLeads(Situation(Judge(b)), t),
         NEW pre, pre = NoMove \/ (pre \in Moves /\ CameFrom(b, pre, c))
  PROVE  \E j \in 1 .. Candidates :
           /\ AllowedAt(b, pre, Candidate(j))
           /\ Costs(Situation(CheckStep(Judge(b), Candidate(j))), c - Price(Candidate(j)))
<1> DEFINE cell == t[1]
           q == t[2]
           k == t[3]
<1>1. /\ q \in Points /\ cell \in Boards /\ k \in 0 .. SelectionLimit /\ t = <<cell, q, k>>
      /\ k < SelectionLimit /\ k \in Nat /\ SelectionLimit \in Nat
  <2>1. t \in Situations
    BY CostsType
  <2>2. q \in Points
    BY <2>1, LeadsType
  <2> QED
    BY <2>1, <2>2, CostAssumption, LimitAssumption DEF Situations, SelectionLeads
<1>2. PICK p \in Points \cup {NoPoint} : Situation(Judge(b)) = <<cell, p, k + 1>>
  BY DEF SelectionLeads
<1> HIDE DEF cell, q, k
<1>3. /\ b.cell = cell /\ b.selected = p /\ b.selectionLimit = k + 1
      /\ Judge(b) \in PlayStates /\ Judge(b).valid
      /\ Judge(b).cell = b.cell /\ Judge(b).selected = b.selected
      /\ Judge(b).remain = b.selectionLimit
  BY <1>2, SearchedIs
<1>4. PICK j \in 1 .. Candidates : Candidate(j) = Selection(q)
  BY <1>1, EveryMove
<1> DEFINE m == Selection(q)
<1>5. m.isSelection /\ m.selected = q
  BY DEF Selection
<1> HIDE DEF m
<1>6. CheckStep(Judge(b), m) = [cell |-> cell, selected |-> q, remain |-> k, valid |-> TRUE]
  <2> DEFINE sim == Judge(b)
  <2>1. /\ sim \in PlayStates /\ sim.valid /\ sim.remain = k + 1 /\ sim.cell = cell
    BY <1>3
  <2> HIDE DEF sim
  <2>2. sim.remain # 0 /\ sim.remain - 1 = k
    BY <1>1, <2>1
  <2>3. CheckStep(sim, Selection(q)) =
          [cell |-> sim.cell, selected |-> q, remain |-> sim.remain - 1, valid |-> TRUE]
    BY <1>1, <2>1, <2>2, SelectStep
  <2>4. CheckStep(sim, m) = [cell |-> cell, selected |-> q, remain |-> k, valid |-> TRUE]
    BY <2>1, <2>2, <2>3 DEF m
  <2> QED
    BY <2>4 DEF sim
<1>7. Situation(CheckStep(Judge(b), m)) = t /\ Price(m) = SelectionCost
  BY <1>1, <1>5, <1>6 DEF Situation, Price
<1> DEFINE e == c - SelectionCost
<1>8. /\ c \in Int /\ SelectionCost \in Int /\ SelectionCost > 0 /\ c <= MaxOptimum
      /\ e \in Nat /\ e + SelectionCost = c
  BY ReferenceAssumption, CostAssumption, LimitAssumption DEF Costs
<1> HIDE DEF e
<1>9. AtMost(Richer(t), e) /\ Richer(t) = <<cell, q, k + 1>>
  <2>1. t[3] < SelectionLimit /\ t[1] = cell /\ t[2] = q /\ t[3] = k /\ Costs(t, e)
    BY <1>1 DEF e
  <2> QED
    BY <2>1, RicherCosts DEF Richer
<1>10. ASSUME q = p PROVE FALSE
  <2>1. PICK d \in 0 .. MaxOptimum : d <= e /\ Costs(Situation(Judge(b)), d)
    BY <1>2, <1>9, <1>10 DEF AtMost
  <2>2. d = c
    BY <2>1, CostsOnce
  <2> QED
    BY <1>8, <2>1, <2>2
<1>11. ASSUME pre # NoMove, pre.isSelection PROVE FALSE
  <2>1. pre \in Moves /\ CameFrom(b, pre, c)
    BY <1>11
  <2>2. PICK r \in Points : pre = Selection(r)
    BY <1>11, <2>1, MoveTypes
  <2>3. Price(pre) = SelectionCost
    BY <1>11 DEF Price
  <2>4. PICK pb : /\ Searched(pb) /\ CheckStep(Judge(pb), pre) = Judge(b)
                  /\ Costs(Situation(Judge(pb)), c + Price(pre))
    BY <2>1 DEF CameFrom
  <2> DEFINE sim == Judge(pb)
             after == Judge(b)
  <2>5. /\ sim \in PlayStates /\ sim.valid /\ sim.cell \in Boards
        /\ sim.selected \in Points \cup {NoPoint} /\ sim.remain \in Nat
        /\ sim.remain <= SelectionLimit
        /\ Situation(sim) = <<sim.cell, sim.selected, sim.remain>>
    BY <2>4, SearchedIs, CostAssumption, LimitAssumption DEF Situation, Searched
  <2>6. CheckStep(sim, Selection(r)) = after /\ after.valid
    BY <1>3, <2>2, <2>4
  <2>7. after.cell = cell /\ after.remain = k + 1
    BY <1>3
  <2>8. Costs(Situation(sim), c + SelectionCost)
    BY <2>3, <2>4
  <2> HIDE DEF sim, after
  <2>9. after = [cell |-> sim.cell, selected |-> r, remain |-> sim.remain - 1, valid |-> TRUE]
    BY <2>5, <2>6, SelectStep
  <2>10. sim.cell = cell /\ sim.remain = (k + 1) + 1
    BY <1>1, <2>5, <2>7, <2>9
  <2>11. SelectionLeads(Situation(sim), Richer(t))
    <3>1. Richer(t)[1] = cell /\ Richer(t)[2] = q /\ Richer(t)[3] = k + 1
      BY <1>9
    <3>2. q # NoPoint /\ k + 1 < SelectionLimit
      BY <1>1, <2>5, <2>10, SizeAssumption DEF Points, NoPoint
    <3>3. Situation(sim) = <<cell, sim.selected, (k + 1) + 1>>
      BY <2>5, <2>10
    <3> QED
      BY <2>5, <3>1, <3>2, <3>3 DEF SelectionLeads
  <2>12. AtMost(Situation(sim), e + SelectionCost)
    BY <1>8, <1>9, <2>11, OneMoreMove
  <2>13. PICK d \in 0 .. MaxOptimum : d <= c /\ Costs(Situation(sim), d)
    BY <1>8, <2>12 DEF AtMost
  <2>14. d = c + SelectionCost
    BY <2>8, <2>13, CostsOnce
  <2> QED
    BY <1>8, <2>13, <2>14
<1>12. AllowedAt(b, pre, m)
  <2>1. b.selectionLimit > 0
    BY <1>1, <1>3
  <2>2. pre = NoMove \/ (~pre.isSelection /\ q # p)
    BY <1>10, <1>11
  <2> QED
    BY <1>3, <1>5, <2>1, <2>2 DEF AllowedAt
<1> QED
  BY <1>4, <1>7, <1>12 DEF m

\* From every call that is not at its goal one of the candidates goes on with the
\* cheapest play.
LEMMA GoodMove ==
  ASSUME NEW b, Searched(b), ~Aligned(b.cell), NEW c, Costs(Situation(Judge(b)), c),
         NEW pre, pre = NoMove \/ (pre \in Moves /\ CameFrom(b, pre, c))
  PROVE  \E j \in 1 .. Candidates :
           /\ AllowedAt(b, pre, Candidate(j))
           /\ Costs(Situation(CheckStep(Judge(b), Candidate(j))), c - Price(Candidate(j)))
<1>1. Goes(Situation(Judge(b)), c)
  BY CostsFrom
<1>2. ASSUME Ended(Situation(Judge(b))) PROVE FALSE
  <2>1. b.cell = FinishedState
    BY <1>2, SearchedIs DEF Ended
  <2>2. Aligned(FinishedState)
    BY DEF Aligned, FinishedState
  <2> QED
    BY <2>1, <2>2
<1>3. CASE \E t : Costs(t, c - SwappingCost) /\ SwapLeads(Situation(Judge(b)), t)
  BY <1>3, SwapOn
<1>4. CASE \E t : Costs(t, c - SelectionCost) /\ SelectionLeads(Situation(Judge(b)), t)
  BY <1>4, SelectOn
<1> QED
  BY <1>1, <1>2, <1>3, <1>4 DEF Goes

-----------------------------------------------------------------------------
(* One call: what it will return covers the candidates it is done with.    *)

\* With its candidate j the cheapest play, of cost c, goes on.
Begins(f, j, c) ==
  /\ AllowedAt(f.saved, f.pre, Candidate(j))
  /\ Costs(Situation(Judge(f.saved)), c)
  /\ Costs(Situation(CheckStep(Judge(f.saved), Candidate(j))), c - Price(Candidate(j)))

\* The minimum is at most the cost of any play that the candidates before n go on with.
Covers(f, n) ==
  \A j \in 1 .. Candidates : \A c \in 0 .. MaxOptimum :
    j < n /\ Begins(f, j, c) => f.min <= f.saved.cost + c

\* The costs of a call.
Priced(f) ==
  /\ f.saved.cost \in Nat /\ f.board.cost = f.saved.cost /\ f.min \in Int
  /\ f.saved.selectionLimit \in 0 .. SelectionLimit

\* One candidate more.
LEMMA CoversMore ==
  ASSUME NEW f, NEW u, NEW n \in Nat, u.saved = f.saved, u.pre = f.pre,
         u.min \in Int, f.min \in Int, u.min <= f.min, f.saved.cost \in Nat, Covers(f, n),
         \A c \in 0 .. MaxOptimum : Begins(f, n, c) => u.min <= f.saved.cost + c
  PROVE  Covers(u, n + 1)
<1> SUFFICES ASSUME NEW j \in 1 .. Candidates, NEW c \in 0 .. MaxOptimum, j < n + 1,
                    Begins(u, j, c)
             PROVE  u.min <= u.saved.cost + c
  BY DEF Covers
<1>1. Begins(f, j, c) /\ u.saved.cost = f.saved.cost
  BY DEF Begins
<1>2. j \in Int /\ c \in Int
  BY SizeAssumption, ReferenceAssumption DEF Candidates
<1>3. CASE j = n
  BY <1>1, <1>3
<1>4. CASE j < n
  <2>1. f.min <= f.saved.cost + c
    BY <1>1, <1>4 DEF Covers
  <2> QED
    BY <1>1, <1>2, <2>1
<1> QED
  BY <1>2, <1>3, <1>4

\* Allowed looks at the board on which DFS selects, but sees that of the call.
LEMMA AllowedIs ==
  ASSUME NEW f, FrameInv(f), f.next <= Candidates
  PROVE  Allowed(f, Candidate(f.next)) <=> AllowedAt(f.saved, f.pre, Candidate(f.next))
<1> DEFINE m == Candidate(f.next)
<1>1. f.next \in Nat \ {0} /\ (f.next <= 5 => f.board = f.saved)
  BY DEF FrameInv
<1>2. CASE f.next <= 4
  <2>1. PICK dir \in Directions : m = Swap(dir)
    BY <1>1, <1>2, CandidateMoves
  <2>2. ~m.isSelection /\ f.board = f.saved
    BY <1>1, <1>2, <2>1 DEF Swap
  <2> HIDE DEF m
  <2>3. Allowed(f, m) <=> AllowedAt(f.saved, f.pre, m)
    BY <2>2 DEF Allowed, AllowedAt
  <2> QED
    BY <2>3 DEF m
<1>3. CASE f.next > 4
  <2>1. PICK p \in Points : m = Selection(p)
    BY <1>1, <1>3, CandidateMoves
  <2>2. m.isSelection
    BY <2>1 DEF Selection
  <2> HIDE DEF m
  <2>3. Allowed(f, m) <=> AllowedAt(f.saved, f.pre, m)
    BY <2>2 DEF Allowed, AllowedAt
  <2> QED
    BY <2>3 DEF m
<1> QED
  BY <1>1, <1>2, <1>3

\* What a move leaves of the selections, and that it selects a place.
LEMMA StepLeaves ==
  ASSUME NEW sim \in PlayStates, sim.valid, NEW m \in Moves, CheckStep(sim, m).valid
  PROVE  CheckStep(sim, m).selected \in Points /\ CheckStep(sim, m).remain <= sim.remain
<1>0. sim.remain \in Nat
  BY DEF PlayStates
<1>1. CASE m.isSelection
  <2>1. PICK p \in Points : m = Selection(p)
    BY <1>1, MoveTypes
  <2>2. CheckStep(sim, Selection(p)) =
           IF sim.remain # 0
           THEN [cell |-> sim.cell, selected |-> p, remain |-> sim.remain - 1, valid |-> TRUE]
           ELSE [cell |-> sim.cell, selected |-> sim.selected, remain |-> sim.remain,
                 valid |-> FALSE]
    BY SelectStep
  <2> QED
    BY <1>0, <2>1, <2>2
<1>2. CASE ~m.isSelection
  <2>1. PICK dir \in Directions : m = Swap(dir)
    BY <1>2, MoveTypes
  <2>2. CheckStep(sim, Swap(dir)) =
           IF ValidMove(sim.selected, dir)
           THEN [cell |-> Swapped(sim.cell, sim.selected, Neighbour(sim.selected, dir)),
                 selected |-> Neighbour(sim.selected, dir),
                 remain |-> sim.remain, valid |-> TRUE]
           ELSE [cell |-> sim.cell, selected |-> sim.selected, remain |-> sim.remain,
                 valid |-> FALSE]
    BY SwapStep
  <2> QED
    BY <1>0, <2>1, <2>2 DEF ValidMove
<1> QED
  BY <1>1, <1>2

\* What a candidate leads to: it costs its price more, and DFS puts the cost back.
LEMMA ChildCost ==
  ASSUME NEW f, FrameInv(f), Priced(f), f.next <= Candidates, Allowed(f, Candidate(f.next))
  PROVE  LET m     == Candidate(f.next)
             child == Child(f, m)
         IN  /\ child.cost = f.saved.cost + Price(m) /\ Price(m) \in Nat
             /\ child.selectionLimit \in 0 .. SelectionLimit /\ child.selected \in Points
             /\ Restored(f, m).cost = f.saved.cost
<1> DEFINE m == Candidate(f.next)
           child == Child(f, m)
<1>1. /\ m \in Moves /\ Exact(child) /\ child.selectionLimit \in Nat
      /\ CheckStep(Judge(f.saved), m) = Judge(child)
  BY ChildInv
<1>2. Searched(f.saved) /\ f.saved.selectionLimit \in Nat /\ SelectionLimit \in Nat
  BY CostAssumption, LimitAssumption DEF FrameInv, Priced, Searched
<1>3. child.selectionLimit \in 0 .. SelectionLimit /\ child.selected \in Points
  <2> DEFINE sim == Judge(f.saved)
             after == Judge(child)
  <2>1. sim \in PlayStates /\ sim.valid /\ sim.remain = f.saved.selectionLimit
    BY <1>2, SearchedIs
  <2>2. after.valid /\ after.selected = child.selected /\ after.remain = child.selectionLimit
    BY DEF Judge
  <2>3. CheckStep(sim, m) = after
    BY <1>1
  <2> HIDE DEF sim, after, m, child
  <2>4. after.selected \in Points /\ after.remain <= sim.remain
    BY <1>1, <2>1, <2>2, <2>3, StepLeaves
  <2> QED
    BY <1>1, <1>2, <2>1, <2>2, <2>4 DEF Priced
<1>4. Price(m) \in Nat
  BY CostAssumption, LimitAssumption DEF Price
<1>5. /\ f.board.cost = f.saved.cost
      /\ f.board = [cell |-> f.board.cell, selected |-> f.board.selected,
                    selectionLimit |-> f.board.selectionLimit, cost |-> f.board.cost,
                    manhattan |-> f.board.manhattan, selManhattan |-> f.board.selManhattan,
                    selId |-> f.board.selId, parity |-> f.board.parity,
                    selParity |-> f.board.selParity]
  BY DEF Priced, FrameInv, Undone, IsRecord
<1> DEFINE b == f.board
<1>6. DOMAIN b = {"cell", "selected", "selectionLimit", "cost", "manhattan",
                  "selManhattan", "selId", "parity", "selParity"}
  BY <1>5
<1> HIDE DEF m
<1>7. child.cost = b.cost + Price(m)
  <2>1. CASE m.isSelection
    <3>1. child = Board!Selected(b, m.selected)
      BY <2>1 DEF Child
    <3> HIDE DEF b, child
    <3>2. child.cost = b.cost + SelectionCost
      BY <1>6, <3>1 DEF Board!Selected
    <3> QED
      BY <2>1, <3>2 DEF Price
  <2>2. CASE ~m.isSelection
    <3>1. child = Board!Moved(b, m.direction)
      BY <2>2 DEF Child
    <3> HIDE DEF b, child
    <3>2. child.cost = b.cost + SwappingCost
      BY <1>6, <3>1 DEF Board!Moved
    <3> QED
      BY <2>2, <3>2 DEF Price
  <2> QED
    BY <2>1, <2>2
<1>8. Restored(f, m).cost = f.saved.cost
  <2>1. CASE m.isSelection /\ f.pre # NoMove
    <3>1. IsRecord(child)
      BY <1>1, ExactBoard
    <3>2. DOMAIN child = {"cell", "selected", "selectionLimit", "cost", "manhattan",
                          "selManhattan", "selId", "parity", "selParity"}
      <4> HIDE DEF child
      <4> QED
        BY <3>1 DEF IsRecord
    <3> DEFINE l == f.saved.selectionLimit
               k == f.saved.cost
               n == f.saved.manhattan
               o == f.saved.selManhattan
               j == f.saved.selId
               r == Restored(f, m)
    <3>3. r = [child EXCEPT !.selectionLimit = l, !.cost = k, !.manhattan = n,
                            !.selManhattan = o, !.selId = j]
      BY <2>1 DEF Restored
    <3> HIDE DEF l, k, n, o, j, r, child
    <3>4. r.cost = k
      BY ONLY <3>2, <3>3
    <3> QED
      BY <3>4 DEF r, k
  <2>2. CASE ~(m.isSelection /\ f.pre # NoMove)
    BY <1>5, <2>2 DEF Restored
  <2> QED
    BY <2>1, <2>2
<1> QED
  BY <1>3, <1>4, <1>5, <1>7, <1>8 DEF m

\* An admissible bound of the board that a candidate leads to is at most what the play
\* costs that goes on with it.
LEMMA BoundCovers ==
  ASSUME BoundAdmissible,
         NEW f, FrameInv(f), Priced(f), f.next <= Candidates, Allowed(f, Candidate(f.next)),
         NEW c \in 0 .. MaxOptimum, Begins(f, f.next, c)
  PROVE  Board!LowerBound(Child(f, Candidate(f.next))) <= f.saved.cost + c
<1> DEFINE m == Candidate(f.next)
           child == Child(f, m)
           e == c - Price(m)
<1>1. /\ m \in Moves /\ Exact(child) /\ CheckStep(Judge(f.saved), m) = Judge(child)
  BY ChildInv
<1>2. /\ child.cost = f.saved.cost + Price(m) /\ Price(m) \in Nat
      /\ child.selectionLimit \in 0 .. SelectionLimit /\ child.selected \in Points
  BY ChildCost
<1>3. Costs(Situation(Judge(child)), e)
  BY <1>1 DEF Begins
<1> HIDE DEF m, child, e
<1>4. Situation(Judge(child)) = <<child.cell, child.selected, child.selectionLimit>>
  BY <1>1, <1>2, SearchedIs DEF Searched
<1>5. e \in 0 .. MaxOptimum /\ <<child.cell, child.selected, child.selectionLimit>> \in Plays[e + 1]
  BY <1>3, <1>4 DEF Costs
<1>6. Board!Heuristic(Board!InitBoard(child.cell, child.selected, child.selectionLimit)) <= e
  <2> DEFINE s == <<child.cell, child.selected, child.selectionLimit>>
  <2>1. s \in Plays[e + 1] /\ s[2] \in Points
    BY <1>2, <1>5
  <2>2. Board!Heuristic(Board!InitBoard(s[1], s[2], s[3])) <= e
    <3> HIDE DEF s
    <3> QED
      BY <1>5, <2>1 DEF BoundAdmissible
  <2> QED
    BY <2>2
<1>7. Board!Heuristic(child) <= e /\ Board!Heuristic(child) \in Nat
  BY <1>1, <1>2, <1>6, HeuristicOf, HeuristicType
<1>8. Board!LowerBound(child) = child.cost + Board!Heuristic(child)
  BY DEF Board!LowerBound
<1>9. f.saved.cost \in Nat /\ c \in Int
  BY ReferenceAssumption DEF Priced
<1>10. e = c - Price(m)
  BY DEF e
<1>11. Board!LowerBound(child) <= f.saved.cost + c
  BY ONLY <1>2, <1>5, <1>7, <1>8, <1>9, <1>10
<1> QED
  BY <1>11 DEF m, child

-----------------------------------------------------------------------------
(* The stack with its costs.                                               *)

\* What so many moves cost that leave so many selections.
Played(n, left) ==
  (SelectionLimit - left) * SelectionCost + (n - (SelectionLimit - left)) * SwappingCost

\* One call has made the other with its candidate before the next, and covers those
\* before.
Linked(f, g) ==
  /\ f.next - 1 \in 1 .. Candidates /\ g.pre = Candidate(f.next - 1)
  /\ g.saved.cost = f.saved.cost + Price(g.pre)
  /\ Covers(f, f.next - 1)

\* No call is entered above the threshold, and the innermost covers what it has tried.
StackCost(s, bound) ==
  /\ \A i \in 1 .. Len(s) : Priced(s[i]) /\ s[i].saved.cost = Played(i - 1, s[i].saved.selectionLimit)
  /\ \A i \in 2 .. Len(s) : Board!LowerBound(s[i].saved) <= bound
  /\ \A i \in 1 .. Len(s) - 1 : Linked(s[i], s[i + 1])
  /\ 1 <= Len(s) => Covers(s[Len(s)], s[Len(s)].next)

\* The fields of a call that goes on.
LEMMA Fields ==
  ASSUME NEW f, IsFrame(f), NEW b, NEW min, NEW next
  PROVE  LET t == [f EXCEPT !.board = b, !.min = min, !.next = next]
             u == [f EXCEPT !.next = next]
             v == [f EXCEPT !.board = b, !.next = next]
             w == [f EXCEPT !.min = min]
         IN  /\ t.board = b /\ t.pre = f.pre /\ t.min = min /\ t.next = next /\ t.saved = f.saved
             /\ u.board = f.board /\ u.pre = f.pre /\ u.min = f.min /\ u.next = next /\ u.saved = f.saved
             /\ v.board = b /\ v.pre = f.pre /\ v.min = f.min /\ v.next = next /\ v.saved = f.saved
             /\ w.board = f.board /\ w.pre = f.pre /\ w.min = min /\ w.next = f.next /\ w.saved = f.saved
<1>1. DOMAIN f = {"board", "pre", "min", "next", "saved"}
  <2> DEFINE i == f.board
             j == f.pre
             k == f.min
             l == f.next
             n == f.saved
  <2>1. f = [board |-> i, pre |-> j, min |-> k, next |-> l, saved |-> n]
    BY DEF IsFrame
  <2> HIDE DEF i, j, k, l, n
  <2> QED
    BY ONLY <2>1
<1>2. \A x : LET u == [f EXCEPT !.next = x]
             IN  u.board = f.board /\ u.pre = f.pre /\ u.min = f.min /\ u.next = x /\ u.saved = f.saved
  BY ONLY <1>1
<1>3. \A x : LET w == [f EXCEPT !.min = x]
             IN  w.board = f.board /\ w.pre = f.pre /\ w.min = x /\ w.next = f.next /\ w.saved = f.saved
  BY ONLY <1>1
<1> DEFINE t == [f EXCEPT !.board = b, !.min = min, !.next = next]
           v == [f EXCEPT !.board = b, !.next = next]
<1>4. t.board = b /\ t.pre = f.pre /\ t.min = min /\ t.next = next /\ t.saved = f.saved
  BY ONLY <1>1
<1>5. v.board = b /\ v.pre = f.pre /\ v.min = f.min /\ v.next = next /\ v.saved = f.saved
  BY ONLY <1>1
<1> QED
  BY <1>2, <1>3, <1>4, <1>5

\* A call on its own, as it begins.
LEMMA BeginsCosts ==
  ASSUME NEW b, b.cost \in Nat, b.selectionLimit \in 0 .. SelectionLimit, NEW pre
  PROVE  LET f == Call(b, pre)
         IN  /\ Priced(f) /\ Covers(f, 1) /\ f.next = 1 /\ f.saved = b /\ f.pre = pre
<1> DEFINE f == Call(b, pre)
<1>1. f.board = b /\ f.saved = b /\ f.min = Board!Infinity /\ f.next = 1 /\ f.pre = pre
  BY DEF Call
<1> HIDE DEF f
<1>2. Board!Infinity \in Int
  BY InfinityIs
<1>3. Priced(f)
  BY <1>1, <1>2 DEF Priced
<1>4. Candidates \in Nat
  BY SizeAssumption DEF Candidates
<1>5. Covers(f, 1)
  <2> SUFFICES ASSUME NEW j \in 1 .. Candidates, j < 1 PROVE FALSE
    BY DEF Covers
  <2> QED
    BY <1>4
<1> QED
  BY <1>1, <1>3, <1>5 DEF f

\* The first call of an iteration.
LEMMA FirstCosts ==
  ASSUME NEW cell, NEW bound
  PROVE  StackCost(<<Call(First(cell), NoMove)>>, bound)
<1> DEFINE b == First(cell)
           f == Call(b, NoMove)
<1>1. b.cost = 0 /\ b.selectionLimit = SelectionLimit /\ SelectionLimit \in Nat
  BY CostAssumption, LimitAssumption DEF First, Board!InitBoard
<1> HIDE DEF b
<1>2. Priced(f) /\ Covers(f, 1) /\ f.next = 1 /\ f.saved = b
  BY <1>1, BeginsCosts
<1>3. Played(0, SelectionLimit) = 0
  BY CostAssumption, LimitAssumption DEF Played
<1> HIDE DEF f
<1> DEFINE s == <<f>>
<1>4. Len(s) = 1 /\ s[1] = f
  OBVIOUS
<1> HIDE DEF s
<1>5. \A i \in 1 .. Len(s) : Priced(s[i]) /\ s[i].saved.cost = Played(i - 1, s[i].saved.selectionLimit)
  <2> SUFFICES ASSUME NEW i \in 1 .. Len(s)
               PROVE  Priced(s[i]) /\ s[i].saved.cost = Played(i - 1, s[i].saved.selectionLimit)
    OBVIOUS
  <2>1. i = 1 /\ i - 1 = 0
    BY <1>4
  <2> QED
    BY <1>1, <1>2, <1>3, <1>4, <2>1
<1>6. 2 .. Len(s) = {} /\ 1 .. Len(s) - 1 = {}
  BY <1>4
<1>7. StackCost(s, bound)
  BY <1>2, <1>4, <1>5, <1>6 DEF StackCost
<1> QED
  BY <1>7 DEF s, f, b

\* The calls within one have returned, and this one may have changed.
LEMMA ChangedCosts ==
  ASSUME NEW s, NEW bound, StackCost(s, bound), Len(s) \in Nat, NEW k \in 1 .. Len(s),
         NEW t, Len(t) = k, \A i \in 1 .. k - 1 : t[i] = s[i],
         t[k].pre = s[k].pre, t[k].saved = s[k].saved, Priced(t[k]), Covers(t[k], t[k].next)
  PROVE  StackCost(t, bound)
<1>1. /\ k \in Nat /\ k >= 1 /\ k <= Len(s)
      /\ \A i \in 1 .. k : t[i].pre = s[i].pre /\ t[i].saved = s[i].saved
  OBVIOUS
<1>2. \A i \in 1 .. k : Priced(t[i]) /\ t[i].saved.cost = Played(i - 1, t[i].saved.selectionLimit)
  <2> SUFFICES ASSUME NEW i \in 1 .. k
               PROVE  Priced(t[i]) /\ t[i].saved.cost = Played(i - 1, t[i].saved.selectionLimit)
    OBVIOUS
  <2>1. i \in 1 .. Len(s) /\ (i = k \/ i \in 1 .. k - 1)
    BY <1>1
  <2>2. Priced(s[i]) /\ s[i].saved.cost = Played(i - 1, s[i].saved.selectionLimit)
    BY <2>1 DEF StackCost
  <2>3. Priced(t[i])
    BY <2>1, <2>2
  <2> QED
    BY <1>1, <2>2, <2>3
<1>3. \A i \in 2 .. k : Board!LowerBound(t[i].saved) <= bound
  <2> SUFFICES ASSUME NEW i \in 2 .. k PROVE Board!LowerBound(t[i].saved) <= bound
    OBVIOUS
  <2>1. i \in 2 .. Len(s) /\ i \in 1 .. k
    BY <1>1
  <2> QED
    BY <1>1, <2>1 DEF StackCost
<1>4. \A i \in 1 .. k - 1 : Linked(t[i], t[i + 1])
  <2> SUFFICES ASSUME NEW i \in 1 .. k - 1 PROVE Linked(t[i], t[i + 1])
    OBVIOUS
  <2>1. i \in 1 .. Len(s) - 1 /\ i + 1 \in 1 .. k
    BY <1>1
  <2>2. Linked(s[i], s[i + 1])
    BY <2>1 DEF StackCost
  <2>3. t[i] = s[i] /\ t[i + 1].pre = s[i + 1].pre /\ t[i + 1].saved = s[i + 1].saved
    BY <1>1, <2>1
  <2> QED
    BY <2>2, <2>3 DEF Linked
<1> QED
  BY <1>2, <1>3, <1>4 DEF StackCost

\* The innermost call has made another.
LEMMA PushedCosts ==
  ASSUME NEW s, NEW bound, StackCost(s, bound), NEW n \in Nat, n >= 1, Len(s) = n,
         NEW t, Len(t) = n + 1, \A i \in 1 .. n - 1 : t[i] = s[i],
         t[n].pre = s[n].pre, t[n].saved = s[n].saved, Priced(t[n]),
         Linked(t[n], t[n + 1]), Priced(t[n + 1]),
         t[n + 1].saved.cost = Played(n, t[n + 1].saved.selectionLimit),
         Board!LowerBound(t[n + 1].saved) <= bound, Covers(t[n + 1], t[n + 1].next)
  PROVE  StackCost(t, bound)
<1>1. \A i \in 1 .. n : t[i].pre = s[i].pre /\ t[i].saved = s[i].saved
  OBVIOUS
<1>2. \A i \in 1 .. n + 1 : Priced(t[i]) /\ t[i].saved.cost = Played(i - 1, t[i].saved.selectionLimit)
  <2> SUFFICES ASSUME NEW i \in 1 .. n + 1
               PROVE  Priced(t[i]) /\ t[i].saved.cost = Played(i - 1, t[i].saved.selectionLimit)
    OBVIOUS
  <2>1. CASE i = n + 1
    <3>1. i - 1 = n
      BY <2>1
    <3> QED
      BY <2>1, <3>1
  <2>2. CASE i # n + 1
    <3>1. i \in 1 .. n /\ (i = n \/ i \in 1 .. n - 1)
      BY <2>2
    <3>2. Priced(s[i]) /\ s[i].saved.cost = Played(i - 1, s[i].saved.selectionLimit)
      BY <3>1 DEF StackCost
    <3>3. Priced(t[i])
      BY <3>1, <3>2
    <3> QED
      BY <1>1, <3>1, <3>2, <3>3
  <2> QED
    BY <2>1, <2>2
<1>3. \A i \in 2 .. n + 1 : Board!LowerBound(t[i].saved) <= bound
  <2> SUFFICES ASSUME NEW i \in 2 .. n + 1 PROVE Board!LowerBound(t[i].saved) <= bound
    OBVIOUS
  <2>1. i = n + 1 \/ (i \in 2 .. n /\ i \in 1 .. n)
    OBVIOUS
  <2> QED
    BY <1>1, <2>1 DEF StackCost
<1>4. \A i \in 1 .. n : Linked(t[i], t[i + 1])
  <2> SUFFICES ASSUME NEW i \in 1 .. n PROVE Linked(t[i], t[i + 1])
    OBVIOUS
  <2>1. CASE i = n
    BY <2>1
  <2>2. CASE i # n
    <3>1. i \in 1 .. n - 1 /\ i + 1 \in 1 .. n
      BY <2>2
    <3>2. Linked(s[i], s[i + 1])
      BY <3>1 DEF StackCost
    <3>3. t[i] = s[i] /\ t[i + 1].pre = s[i + 1].pre /\ t[i + 1].saved = s[i + 1].saved
      BY <1>1, <3>1
    <3> QED
      BY <3>2, <3>3 DEF Linked
  <2> QED
    BY <2>1, <2>2
<1>5. (n + 1) - 1 = n
  OBVIOUS
<1> QED
  BY <1>2, <1>3, <1>4, <1>5 DEF StackCost

\* What a move takes from the selections, by what it costs.
LEMMA PlayedMore ==
  ASSUME NEW sim \in PlayStates, sim.valid, sim.remain \in 0 .. SelectionLimit,
         NEW m \in Moves, CheckStep(sim, m).valid, NEW n \in Nat
  PROVE  Played(n + 1, CheckStep(sim, m).remain) = Played(n, sim.remain) + Price(m)
<1>1. sim.remain \in Nat /\ SelectionLimit \in Nat /\ SelectionCost \in Nat /\ SwappingCost \in Nat
  BY CostAssumption, LimitAssumption DEF PlayStates
<1> DEFINE r == sim.remain
           u == SelectionLimit - r
           w == n - u
<1>2. u \in Int /\ w \in Int /\ r \in Nat
  BY <1>1
<1>3. CASE m.isSelection
  <2>1. PICK p \in Points : m = Selection(p)
    BY <1>3, MoveTypes
  <2>2. CheckStep(sim, m).remain = r - 1
    BY <1>1, <2>1, SelectStep
  <2>3. SelectionLimit - (r - 1) = u + 1 /\ (n + 1) - (u + 1) = w
    BY <1>1, <1>2
  <2>4. Played(n + 1, r - 1) = (u + 1) * SelectionCost + w * SwappingCost
    BY <2>3 DEF Played
  <2>5. Played(n, r) = u * SelectionCost + w * SwappingCost
    BY DEF Played
  <2> HIDE DEF u, w, r
  <2>6. (u + 1) * SelectionCost + w * SwappingCost
          = (u * SelectionCost + w * SwappingCost) + SelectionCost
    BY <1>1, <1>2
  <2> QED
    BY <1>3, <2>2, <2>4, <2>5, <2>6 DEF Price, r
<1>4. CASE ~m.isSelection
  <2>1. PICK dir \in Directions : m = Swap(dir)
    BY <1>4, MoveTypes
  <2>2. CheckStep(sim, m).remain = r
    BY <1>1, <2>1, SwapStep
  <2>3. (n + 1) - u = w + 1
    BY <1>1, <1>2
  <2>4. Played(n + 1, r) = u * SelectionCost + (w + 1) * SwappingCost
    BY <2>3 DEF Played
  <2>5. Played(n, r) = u * SelectionCost + w * SwappingCost
    BY DEF Played
  <2> HIDE DEF u, w, r
  <2>6. u * SelectionCost + (w + 1) * SwappingCost
          = (u * SelectionCost + w * SwappingCost) + SwappingCost
    BY <1>1, <1>2
  <2> QED
    BY <1>4, <2>2, <2>4, <2>5, <2>6 DEF Price, r
<1> QED
  BY <1>3, <1>4

\* The innermost call.
LEMMA TopCosts ==
  ASSUME IInv, StackCost(stack, lb), stack # <<>>
  PROVE  /\ Len(stack) \in Nat /\ Len(stack) >= 1 /\ Len(stack) \in 1 .. Len(stack)
         /\ Top = stack[Len(stack)] /\ FrameInv(Top) /\ IsFrame(Top)
         /\ Priced(Top) /\ Covers(Top, Top.next) /\ Top.next \in Nat \ {0}
         /\ Top.saved.cost = Played(Len(stack) - 1, Top.saved.selectionLimit)
         /\ Searched(Top.saved) /\ DOMAIN stack = 1 .. Len(stack)
<1>1. /\ Len(stack) \in Nat \ {0} /\ Top = stack[Len(stack)] /\ FrameInv(Top)
      /\ Len(stack) \in 1 .. Len(stack)
  BY TopCall
<1>2. DOMAIN stack = 1 .. Len(stack)
  <2>1. PICK S : stack \in Seq(S)
    BY DEF IInv, StackInv
  <2> QED
    BY <2>1
<1>3. /\ Priced(Top) /\ Covers(Top, Top.next)
      /\ Top.saved.cost = Played(Len(stack) - 1, Top.saved.selectionLimit)
  BY <1>1 DEF StackCost
<1>4. IsFrame(Top) /\ Exact(Top.saved) /\ Top.next \in Nat \ {0}
  BY <1>1 DEF FrameInv
<1> QED
  BY <1>1, <1>2, <1>3, <1>4 DEF Searched, Priced

\* The board of a call is finished when the one it began with is.
LEMMA FinishedSaved ==
  ASSUME NEW f, FrameInv(f)
  PROVE  Board!Finished(f.board) <=> Board!Finished(f.saved)
BY DEF FrameInv, Undone, Board!Finished

\* A skipped candidate begins no play.
LEMMA SkipCosts ==
  ASSUME IInv, StackCost(stack, lb), Skip
  PROVE  StackCost(stack', lb) /\ Len(stack') = Len(stack)
<1> DEFINE f == Top
           n == Len(stack)
           u == [f EXCEPT !.next = f.next + 1]
<1>1. /\ stack # <<>> /\ f.next <= Candidates /\ ~Allowed(f, Candidate(f.next))
      /\ stack' = [stack EXCEPT ![n].next = @ + 1]
  BY DEF Skip
<1>2. /\ n \in Nat /\ n >= 1 /\ n \in 1 .. n /\ f = stack[n] /\ FrameInv(f) /\ IsFrame(f)
      /\ Priced(f) /\ Covers(f, f.next) /\ f.next \in Nat \ {0} /\ DOMAIN stack = 1 .. n
  BY <1>1, TopCosts
<1>3. stack' = [stack EXCEPT ![n] = u]
  BY <1>1, <1>2
<1> HIDE DEF f
<1>4. /\ u.board = f.board /\ u.pre = f.pre /\ u.min = f.min /\ u.next = f.next + 1
      /\ u.saved = f.saved
  BY <1>2, Fields
<1> HIDE DEF u, n
<1>5. Priced(u)
  BY <1>2, <1>4 DEF Priced
<1>6. ~AllowedAt(f.saved, f.pre, Candidate(f.next))
  BY <1>1, <1>2, AllowedIs
<1>7. Covers(u, f.next + 1)
  <2>1. f.min \in Int /\ f.saved.cost \in Nat /\ u.min <= f.min /\ u.min \in Int
    BY <1>2, <1>4 DEF Priced
  <2>2. \A c \in 0 .. MaxOptimum : Begins(f, f.next, c) => u.min <= f.saved.cost + c
    BY <1>6 DEF Begins
  <2> QED
    BY <1>2, <1>4, <2>1, <2>2, CoversMore
<1>8. Len(stack') = n /\ stack'[n] = u /\ \A i \in 1 .. n - 1 : stack'[i] = stack[i]
  BY <1>2, <1>3 DEF n
<1>9. StackCost(stack', lb)
  <2> DEFINE s == stack
             t == stack'
  <2>1. /\ StackCost(s, lb) /\ Len(s) = n /\ Len(t) = n /\ t[n] = u
        /\ \A i \in 1 .. n - 1 : t[i] = s[i]
    BY <1>8 DEF n
  <2>2. t[n].pre = s[n].pre /\ t[n].saved = s[n].saved /\ Priced(t[n]) /\ Covers(t[n], t[n].next)
    BY <1>2, <1>4, <1>5, <1>7, <2>1
  <2> HIDE DEF s, t
  <2>3. StackCost(t, lb)
    BY <1>2, <2>1, <2>2, ChangedCosts
  <2> QED
    BY <2>3 DEF t
<1> QED
  BY <1>8, <1>9 DEF n

\* The bound of a candidate that is cut off joins the minimum.
LEMMA CutOffCosts ==
  ASSUME BoundAdmissible, IInv, StackCost(stack, lb), CutOff
  PROVE  StackCost(stack', lb) /\ Len(stack') = Len(stack)
<1> DEFINE f == Top
           n == Len(stack)
           m == Candidate(f.next)
           child == Child(f, m)
           bound == Board!LowerBound(child)
           b == Restored(f, m)
           min == Smaller(f.min, bound)
           u == [f EXCEPT !.board = b, !.min = min, !.next = f.next + 1]
<1>1. /\ stack # <<>> /\ f.next <= Candidates /\ Allowed(f, m)
      /\ stack' = [stack EXCEPT ![n] = u]
  BY DEF CutOff
<1>2. /\ n \in Nat /\ n >= 1 /\ n \in 1 .. n /\ f = stack[n] /\ FrameInv(f) /\ IsFrame(f)
      /\ Priced(f) /\ Covers(f, f.next) /\ f.next \in Nat \ {0} /\ DOMAIN stack = 1 .. n
  BY <1>1, TopCosts
<1> HIDE DEF f
<1>3. /\ child.cost = f.saved.cost + Price(m) /\ Price(m) \in Nat
      /\ child.selectionLimit \in 0 .. SelectionLimit /\ b.cost = f.saved.cost
  BY <1>1, <1>2, ChildCost
<1>4. Exact(child)
  BY <1>1, <1>2, ChildInv
<1>5. \A c \in 0 .. MaxOptimum : Begins(f, f.next, c) => bound <= f.saved.cost + c
  BY <1>1, <1>2, BoundCovers
<1> HIDE DEF child
<1>6. bound \in Int
  <2>1. Board!Heuristic(child) \in Nat
    BY <1>3, <1>4, HeuristicType
  <2>2. f.saved.cost \in Nat
    BY <1>2 DEF Priced
  <2> QED
    BY <1>3, <2>1, <2>2 DEF Board!LowerBound
<1> HIDE DEF bound, b
<1>7. f.min \in Int /\ min \in Int /\ min <= f.min /\ min <= bound /\ f.saved.cost \in Nat
  BY <1>2, <1>6 DEF Priced, Smaller
<1> HIDE DEF min
<1>8. u.board = b /\ u.pre = f.pre /\ u.min = min /\ u.next = f.next + 1 /\ u.saved = f.saved
  BY <1>2, Fields
<1> HIDE DEF u, n, m
<1>9. Priced(u)
  BY <1>2, <1>3, <1>7, <1>8 DEF Priced
<1>10. Covers(u, f.next + 1)
  <2>1. \A c \in 0 .. MaxOptimum : Begins(f, f.next, c) => u.min <= f.saved.cost + c
    <3> SUFFICES ASSUME NEW c \in 0 .. MaxOptimum, Begins(f, f.next, c)
                 PROVE  u.min <= f.saved.cost + c
      OBVIOUS
    <3>1. bound <= f.saved.cost + c /\ c \in Int
      BY <1>5, ReferenceAssumption
    <3> QED
      BY <1>6, <1>7, <1>8, <3>1
  <2> QED
    BY <1>2, <1>7, <1>8, <2>1, CoversMore
<1>11. Len(stack') = n /\ stack'[n] = u /\ \A i \in 1 .. n - 1 : stack'[i] = stack[i]
  BY <1>1, <1>2 DEF n
<1>12. StackCost(stack', lb)
  <2> DEFINE s == stack
             t == stack'
  <2>1. /\ StackCost(s, lb) /\ Len(s) = n /\ Len(t) = n /\ t[n] = u
        /\ \A i \in 1 .. n - 1 : t[i] = s[i]
    BY <1>11 DEF n
  <2>2. t[n].pre = s[n].pre /\ t[n].saved = s[n].saved /\ Priced(t[n]) /\ Covers(t[n], t[n].next)
    BY <1>2, <1>8, <1>9, <1>10, <2>1
  <2> HIDE DEF s, t
  <2>3. StackCost(t, lb)
    BY <1>2, <2>1, <2>2, ChangedCosts
  <2> QED
    BY <2>3 DEF t
<1> QED
  BY <1>11, <1>12 DEF n

\* A candidate within the threshold is gone into.
LEMMA DescendCosts ==
  ASSUME IInv, StackCost(stack, lb), Descend
  PROVE  StackCost(stack', lb)
<1> DEFINE f == Top
           n == Len(stack)
           m == Candidate(f.next)
           child == Child(f, m)
           b == Restored(f, m)
           u == [f EXCEPT !.board = b, !.next = f.next + 1]
           g == Call(child, m)
<1>1. /\ stack # <<>> /\ f.next <= Candidates /\ Allowed(f, m) /\ Board!LowerBound(child) <= lb
      /\ stack' = Append([stack EXCEPT ![n] = u], g)
  BY DEF Descend
<1>2. /\ n \in Nat /\ n >= 1 /\ n \in 1 .. n /\ f = stack[n] /\ FrameInv(f) /\ IsFrame(f)
      /\ Priced(f) /\ Covers(f, f.next) /\ f.next \in Nat \ {0} /\ DOMAIN stack = 1 .. n
      /\ f.saved.cost = Played(n - 1, f.saved.selectionLimit) /\ Searched(f.saved)
  BY <1>1, TopCosts
<1> HIDE DEF f
<1>3. /\ child.cost = f.saved.cost + Price(m) /\ Price(m) \in Nat
      /\ child.selectionLimit \in 0 .. SelectionLimit /\ b.cost = f.saved.cost
  BY <1>1, <1>2, ChildCost
<1>4. m \in Moves /\ Exact(child) /\ CheckStep(Judge(f.saved), m) = Judge(child)
  BY <1>1, <1>2, ChildInv
<1> HIDE DEF child, b
<1>5. f.saved.cost \in Nat /\ f.min \in Int /\ f.saved.selectionLimit \in 0 .. SelectionLimit
  BY <1>2 DEF Priced
<1>6. /\ u.board = b /\ u.pre = f.pre /\ u.min = f.min /\ u.next = f.next + 1
      /\ u.saved = f.saved
  BY <1>2, Fields
<1>7. Priced(g) /\ Covers(g, 1) /\ g.next = 1 /\ g.saved = child /\ g.pre = m
  <2>1. child.cost \in Nat
    BY <1>3, <1>5
  <2> QED
    BY <1>3, <2>1, BeginsCosts
<1> HIDE DEF u, g
<1>8. child.cost = Played(n, child.selectionLimit)
  <2> DEFINE sim == Judge(f.saved)
             after == Judge(child)
  <2>1. sim \in PlayStates /\ sim.valid /\ sim.remain = f.saved.selectionLimit
    BY <1>2, SearchedIs
  <2>2. after.valid /\ after.remain = child.selectionLimit /\ CheckStep(sim, m) = after
    BY <1>4 DEF Judge
  <2> HIDE DEF sim, after, m, n
  <2>3. n - 1 \in Nat /\ (n - 1) + 1 = n
    BY <1>2
  <2>4. Played((n - 1) + 1, CheckStep(sim, m).remain) = Played(n - 1, sim.remain) + Price(m)
    BY <1>4, <1>5, <2>1, <2>2, <2>3, PlayedMore
  <2> QED
    BY <1>2, <1>3, <2>1, <2>2, <2>3, <2>4
<1> DEFINE s == stack
           t == stack'
<1>9. Len(t) = n + 1 /\ t[n] = u /\ t[n + 1] = g /\ \A i \in 1 .. n - 1 : t[i] = s[i]
  <2> DEFINE r == [stack EXCEPT ![n] = u]
  <2>1. PICK S : stack \in Seq(S)
    BY DEF IInv, StackInv
  <2>2. stack \in Seq(S \cup {u, g})
    BY <2>1
  <2>3. r \in Seq(S \cup {u, g}) /\ Len(r) = n
    BY <1>2, <2>2
  <2>4. r[n] = u /\ \A i \in 1 .. n - 1 : r[i] = stack[i]
    BY <1>2
  <2>5. t = Append(r, g)
    BY <1>1
  <2> HIDE DEF r, n, t
  <2>6. Len(t) = n + 1 /\ t[n + 1] = g /\ \A i \in 1 .. n : t[i] = r[i]
    BY <1>2, <2>3, <2>5
  <2> QED
    BY <1>2, <2>4, <2>6
<1>10. Linked(u, g)
  <2>1. u.next - 1 = f.next /\ f.next \in 1 .. Candidates
    BY <1>1, <1>2, <1>6, SizeAssumption DEF Candidates
  <2>2. Covers(u, f.next)
    BY <1>2, <1>6 DEF Covers, Begins
  <2> QED
    BY <1>3, <1>6, <1>7, <2>1, <2>2 DEF Linked
<1>11. Priced(u)
  BY <1>2, <1>3, <1>6 DEF Priced
<1>12. StackCost(s, lb) /\ Len(s) = n /\ s[n] = f
  BY <1>2
<1>13. Board!LowerBound(g.saved) <= lb
  BY <1>1, <1>7
<1> HIDE DEF s, t, n, m
<1>14. StackCost(t, lb)
  <2>1. t[n].pre = s[n].pre /\ t[n].saved = s[n].saved /\ Priced(t[n]) /\ Linked(t[n], t[n + 1])
    BY <1>6, <1>9, <1>10, <1>11, <1>12
  <2>2. /\ Priced(t[n + 1]) /\ t[n + 1].saved.cost = Played(n, t[n + 1].saved.selectionLimit)
        /\ Board!LowerBound(t[n + 1].saved) <= lb /\ Covers(t[n + 1], t[n + 1].next)
    BY <1>7, <1>8, <1>9, <1>13
  <2> QED
    BY <1>2, <1>9, <1>12, <2>1, <2>2, PushedCosts
<1> QED
  BY <1>14 DEF t

\* A call that is done is at most what any play costs that it was called for.
LEMMA ReturnCovers ==
  ASSUME IInv, StackCost(stack, lb), Len(stack) > 1, ~Board!Finished(Top.board),
         Top.next > Candidates,
         NEW c \in 0 .. MaxOptimum,
         Begins(stack[Len(stack) - 1], stack[Len(stack) - 1].next - 1, c)
  PROVE  Top.min <= stack[Len(stack) - 1].saved.cost + c
<1> DEFINE f == Top
           n == Len(stack)
           k == n - 1
           p == stack[k]
           m == f.pre
           e == c - Price(m)
<1>0. stack # <<>>
  <2>1. Len(<<>>) = 0
    OBVIOUS
  <2> QED
    BY <2>1
<1>1. /\ n \in Nat /\ n > 1 /\ f = stack[n] /\ FrameInv(f)
      /\ Priced(f) /\ Covers(f, f.next) /\ Searched(f.saved) /\ f.next \in Nat
  BY <1>0, TopCosts
<1>2. k \in 1 .. n /\ k \in 1 .. n - 1 /\ k + 1 = n
  BY <1>1
<1>3. FrameInv(p) /\ Priced(p)
  BY <1>2 DEF IInv, StackInv, StackCost
<1>4. m \in Moves /\ CheckStep(Judge(p.saved), m) = Judge(f.saved)
  BY <1>1, <1>2 DEF IInv, StackInv
<1>5. m = Candidate(p.next - 1) /\ f.saved.cost = p.saved.cost + Price(m)
  <2>1. Linked(stack[k], stack[k + 1])
    BY <1>2 DEF StackCost
  <2>2. Linked(p, f)
    BY <1>1, <1>2, <2>1
  <2> HIDE DEF p, f
  <2> QED
    BY <2>2 DEF Linked
<1>6. Searched(p.saved)
  BY <1>3 DEF FrameInv, Priced, Searched
<1>7. Begins(p, p.next - 1, c) /\ ~Board!Finished(f.board) /\ f.next > Candidates
  OBVIOUS
<1> HIDE DEF p, f, k, n
<1>8. Costs(Situation(Judge(p.saved)), c) /\ Costs(Situation(Judge(f.saved)), e)
  BY <1>4, <1>5, <1>7 DEF Begins
<1>9. c \in Int /\ Price(m) \in Int
  BY ReferenceAssumption, CostAssumption, LimitAssumption DEF Price
<1>10. e + Price(m) = c
  BY <1>9
<1>11. e \in 0 .. MaxOptimum
  BY <1>8 DEF Costs
<1> HIDE DEF e, m
<1>12. CameFrom(f.saved, m, e)
  BY <1>4, <1>6, <1>8, <1>10 DEF CameFrom
<1>13. ~Aligned(f.saved.cell)
  <2>1. Exact(f.saved) /\ ~Board!Finished(f.saved)
    BY <1>1, <1>7, FinishedSaved DEF Searched
  <2> DEFINE b == f.saved
  <2>2. Exact(b) /\ ~Board!Finished(b)
    BY <2>1
  <2> HIDE DEF b
  <2>3. ~Aligned(b.cell)
    BY <2>2, AlignedFinished
  <2> QED
    BY <2>3 DEF b
<1>14. PICK j \in 1 .. Candidates :
         /\ AllowedAt(f.saved, m, Candidate(j))
         /\ Costs(Situation(CheckStep(Judge(f.saved), Candidate(j))), e - Price(Candidate(j)))
  <2> DEFINE b == f.saved
  <2>1. Searched(b) /\ ~Aligned(b.cell) /\ Costs(Situation(Judge(b)), e) /\ CameFrom(b, m, e)
    BY <1>1, <1>8, <1>12, <1>13
  <2> HIDE DEF b
  <2>2. \E j \in 1 .. Candidates :
          /\ AllowedAt(b, m, Candidate(j))
          /\ Costs(Situation(CheckStep(Judge(b), Candidate(j))), e - Price(Candidate(j)))
    BY <1>4, <2>1, GoodMove
  <2> QED
    BY <2>2 DEF b
<1>15. Begins(f, j, e)
  BY <1>8, <1>14 DEF Begins, m
<1>16. j < f.next
  BY <1>1, <1>7, SizeAssumption DEF Candidates
<1>17. f.min <= f.saved.cost + e
  BY <1>1, <1>11, <1>15, <1>16 DEF Covers
<1>18. f.min \in Int /\ p.saved.cost \in Int /\ e \in Int
  BY <1>1, <1>3, <1>9, <1>11, ReferenceAssumption DEF Priced
<1>19. f.min <= p.saved.cost + c
  BY ONLY <1>5, <1>9, <1>10, <1>17, <1>18
<1> QED
  BY <1>19 DEF p, f, k, n

\* The minimum of a call joins that of its caller.
LEMMA ReturnCosts ==
  ASSUME IInv, StackCost(stack, lb), DFSReturn
  PROVE  StackCost(stack', lb) /\ Len(stack') = Len(stack) - 1
<1> DEFINE f == Top
           n == Len(stack)
           k == n - 1
           p == stack[k]
           min == Smaller(p.min, f.min)
           u == [p EXCEPT !.min = min]
           s == Front(stack)
           t == stack'
<1>0. stack # <<>>
  <2>1. Len(<<>>) = 0 /\ Len(stack) > 1
    BY DEF DFSReturn
  <2> QED
    BY <2>1
<1>1. /\ n \in Nat /\ n > 1 /\ f = stack[n] /\ Priced(f)
  BY <1>0, TopCosts DEF DFSReturn
<1>2. k \in 1 .. n /\ k \in 1 .. n - 1 /\ k + 1 = n /\ k \in 1 .. k
  BY <1>1
<1>3. Len(s) = k /\ \A i \in 1 .. k : s[i] = stack[i]
  BY <1>1, ReturnedCall DEF IInv
<1>4. t = [s EXCEPT ![k].min = Smaller(@, f.min)]
  BY DEF DFSReturn
<1>5. DOMAIN s = 1 .. k
  <2>1. StackInv(s, start)
    BY <1>1, ReturnedCall DEF IInv
  <2>2. PICK S : s \in Seq(S)
    BY <2>1 DEF StackInv
  <2> QED
    BY <1>3, <2>2
<1>6. s[k] = p
  BY <1>2, <1>3
<1> HIDE DEF s
<1>7. Len(t) = k /\ t[k] = u /\ \A i \in 1 .. k - 1 : t[i] = stack[i]
  <2>1. t = [s EXCEPT ![k] = u]
    BY <1>4, <1>6
  <2> HIDE DEF t, u, k
  <2>2. Len(t) = k /\ t[k] = u
    BY <1>2, <1>3, <1>5, <2>1
  <2>3. \A i \in 1 .. k - 1 : t[i] = s[i] /\ i \in 1 .. k
    BY <1>2, <1>5, <2>1
  <2> QED
    BY <1>3, <2>2, <2>3
<1>8. FrameInv(p) /\ IsFrame(p) /\ Priced(p)
  BY <1>2 DEF IInv, StackInv, StackCost, FrameInv
<1>9. p.next - 1 \in 1 .. Candidates /\ Covers(p, p.next - 1) /\ p.next \in Nat
  <2>1. Linked(p, stack[k + 1])
    BY <1>2 DEF StackCost
  <2> HIDE DEF p
  <2> QED
    BY <1>8, <2>1 DEF Linked, FrameInv
<1>10. \A c \in 0 .. MaxOptimum : Begins(p, p.next - 1, c) => f.min <= p.saved.cost + c
  BY <1>1, ReturnCovers DEF DFSReturn
<1>11. StackCost(stack, lb) /\ Len(stack) = n
  OBVIOUS
<1> HIDE DEF p, f, k, n
<1>12. /\ min \in Int /\ min <= p.min /\ min <= f.min /\ p.min \in Int /\ f.min \in Int
       /\ p.saved.cost \in Nat
  BY <1>1, <1>8 DEF Priced, Smaller
<1> HIDE DEF min
<1>13. /\ u.board = p.board /\ u.pre = p.pre /\ u.min = min /\ u.next = p.next
       /\ u.saved = p.saved
  BY <1>8, Fields
<1> HIDE DEF u
<1>14. Priced(u)
  BY <1>8, <1>12, <1>13 DEF Priced
<1>15. Covers(u, u.next)
  <2> DEFINE l == p.next - 1
  <2>1. l \in Nat /\ l + 1 = u.next
    BY <1>9, <1>13, SizeAssumption DEF Candidates
  <2>2. \A c \in 0 .. MaxOptimum : Begins(p, l, c) => u.min <= p.saved.cost + c
    <3> SUFFICES ASSUME NEW c \in 0 .. MaxOptimum, Begins(p, l, c)
                 PROVE  u.min <= p.saved.cost + c
      OBVIOUS
    <3>1. f.min <= p.saved.cost + c /\ c \in Int
      BY <1>10, ReferenceAssumption
    <3> QED
      BY <1>12, <1>13, <3>1
  <2>3. Covers(p, l)
    BY <1>9
  <2> HIDE DEF l
  <2>4. Covers(u, l + 1)
    BY <1>12, <1>13, <2>1, <2>2, <2>3, CoversMore
  <2> QED
    BY <2>1, <2>4
<1> HIDE DEF t
<1>16. StackCost(t, lb)
  <2> DEFINE r == stack
  <2>1. /\ StackCost(r, lb) /\ Len(r) \in Nat /\ k \in 1 .. Len(r) /\ Len(t) = k
        /\ \A i \in 1 .. k - 1 : t[i] = r[i]
    BY <1>1, <1>2, <1>7, <1>11
  <2>2. r[k] = p /\ t[k] = u
    BY <1>7 DEF p
  <2> HIDE DEF r
  <2>3. t[k].pre = r[k].pre /\ t[k].saved = r[k].saved /\ Priced(t[k]) /\ Covers(t[k], t[k].next)
    BY <1>13, <1>14, <1>15, <2>2
  <2> QED
    BY <2>1, <2>3, ChangedCosts
<1> QED
  BY <1>7, <1>16 DEF t, k, n

-----------------------------------------------------------------------------
(* The threshold.                                                          *)

\* The board of the problem, as a situation.
Problem(cell) == <<cell, NoPoint, SelectionLimit>>

\* No play costs less.
Below(cell, bound) ==
  ~Aligned(cell) => \A c \in 0 .. MaxOptimum : Costs(Problem(cell), c) => bound <= c

\* The board that startDFS is called with.
LEMMA FirstIs ==
  ASSUME NEW cell \in Boards
  PROVE  /\ Searched(First(cell)) /\ Situation(Judge(First(cell))) = Problem(cell)
         /\ First(cell).cell = cell /\ First(cell).cost = 0
<1>1. /\ Exact(First(cell)) /\ First(cell).cell = cell /\ First(cell).selected = NoPoint
      /\ First(cell).selectionLimit = SelectionLimit
  BY InitialBoard DEF First
<1>2. First(cell).cost = 0
  BY DEF First, Board!InitBoard
<1>3. Searched(First(cell))
  BY <1>1, CostAssumption, LimitAssumption DEF Searched
<1> QED
  BY <1>1, <1>2, <1>3, SearchedIs DEF Problem

\* The first threshold.
LEMMA FirstThreshold ==
  ASSUME BoundAdmissible, NEW cell \in Boards
  PROVE  Board!LowerBound(First(cell)) \in Int /\ Below(cell, Board!LowerBound(First(cell)))
<1> DEFINE b == First(cell)
           h == Board!Heuristic(b)
<1>1. Searched(b) /\ b.cost = 0
  BY FirstIs
<1>2. h \in Nat
  <2> HIDE DEF b
  <2> QED
    BY <1>1, HeuristicType DEF Searched
<1>3. Board!LowerBound(b) = h
  <2> HIDE DEF b
  <2>1. Board!LowerBound(b) = 0 + h
    BY <1>1 DEF Board!LowerBound
  <2> HIDE DEF h
  <2> QED
    BY <1>2, <2>1
<1>4. ASSUME ~Aligned(cell), NEW c \in 0 .. MaxOptimum, Costs(Problem(cell), c)
      PROVE  h <= c
  <2> DEFINE s == Problem(cell)
  <2>0. s[1] = cell /\ s[2] = NoPoint /\ s[3] = SelectionLimit
    BY DEF Problem
  <2>1. c \in Nat
    BY ReferenceAssumption
  <2>2. ASSUME c = 0 PROVE FALSE
    <3>1. Goes(s, c)
      BY <1>4, CostsFrom
    <3>2. ~(\E t : Costs(t, c - SwappingCost) \/ Costs(t, c - SelectionCost))
      BY <2>2, ReferenceAssumption, CostAssumption, LimitAssumption DEF Costs
    <3>3. Ended(s)
      BY <3>1, <3>2 DEF Goes
    <3>4. cell = FinishedState
      BY <2>0, <3>3 DEF Ended
    <3>5. Aligned(FinishedState)
      BY DEF Aligned, FinishedState
    <3> QED
      BY <1>4, <3>4, <3>5
  <2>3. s \in Plays[c + 1] /\ c > 0
    BY <1>4, <2>1, <2>2 DEF Costs
  <2>4. Board!Heuristic(Board!InitBoard(s[1], s[2], s[3])) <= c
    <3> HIDE DEF s
    <3> QED
      BY <2>3 DEF BoundAdmissible
  <2> QED
    BY <2>0, <2>4 DEF First
<1> QED
  BY <1>2, <1>3, <1>4 DEF Below

\* The next threshold: the minimum of startDFS.
LEMMA NextThreshold ==
  ASSUME IInv, StackCost(stack, lb), Deepen
  PROVE  lb' \in Int /\ Below(start, lb')
<1> DEFINE f == Top
<1>1. Len(stack) = 1 /\ f.next > Candidates /\ lb' = f.min
  BY DEF Deepen
<1>2. stack # <<>>
  <2>1. Len(<<>>) = 0
    OBVIOUS
  <2> QED
    BY <1>1, <2>1
<1>3. f = stack[1] /\ Priced(f) /\ Covers(f, f.next) /\ f.next \in Nat
  BY <1>1, <1>2, TopCosts
<1>4. f.pre = NoMove /\ f.saved = First(start) /\ start \in Boards
  BY <1>1, <1>3 DEF IInv, StackInv
<1>5. Searched(f.saved) /\ Situation(Judge(f.saved)) = Problem(start) /\ f.saved.cell = start
      /\ f.saved.cost = 0
  BY <1>4, FirstIs
<1> HIDE DEF f
<1>6. f.min \in Int
  BY <1>3 DEF Priced
<1>7. ASSUME ~Aligned(start), NEW c \in 0 .. MaxOptimum, Costs(Problem(start), c)
      PROVE  f.min <= c
  <2> DEFINE b == f.saved
             pre == f.pre
  <2>1. /\ Searched(b) /\ ~Aligned(b.cell) /\ Costs(Situation(Judge(b)), c) /\ pre = NoMove
    BY <1>4, <1>5, <1>7
  <2> HIDE DEF b, pre
  <2>2. PICK j \in 1 .. Candidates :
          /\ AllowedAt(b, pre, Candidate(j))
          /\ Costs(Situation(CheckStep(Judge(b), Candidate(j))), c - Price(Candidate(j)))
    BY <2>1, GoodMove
  <2>3. Begins(f, j, c)
    BY <2>1, <2>2 DEF Begins, b, pre
  <2>4. j < f.next
    BY <1>1, <1>3, SizeAssumption DEF Candidates
  <2>5. f.min <= f.saved.cost + c
    BY <1>3, <2>3, <2>4 DEF Covers
  <2>6. c \in Int
    BY ReferenceAssumption
  <2> QED
    BY <1>5, <1>6, <2>5, <2>6
<1> QED
  BY <1>1, <1>6, <1>7 DEF Below

-----------------------------------------------------------------------------
(* The answer.                                                             *)

\* The moves along the stack cost what its innermost call has paid.
LEMMA FoundCosts ==
  ASSUME IInv, StackCost(stack, lb), Found
  PROVE  /\ Cost(published') \in Int /\ Top.saved.cost \in Nat
         /\ Cost(published') <= Top.saved.cost
<1> DEFINE n == Len(stack)
           pres == [i \in 1 .. n - 1 |-> stack[i + 1].pre]
           base == CheckBegin(start, SelectionLimit)
           f == Top
           last == Judge(f.saved)
<1>1. /\ stack # <<>> /\ published' = Optimize(pres)
  BY DEF Found
<1>2. /\ n \in Nat /\ n >= 1 /\ f = stack[n] /\ Priced(f)
      /\ f.saved.cost = Played(n - 1, f.saved.selectionLimit)
      /\ Searched(f.saved)
  BY <1>1, TopCosts
<1>3. pres \in Seq(Moves) /\ Simulated(base, pres) = last
  BY <1>2, StackPlayed DEF IInv
<1>4. Len(pres) = n - 1
  BY <1>2
<1>5. base \in PlayStates /\ base.valid /\ base.selected = NoPoint /\ base.remain = SelectionLimit
  <2>1. start \in Cells /\ SelectionLimit \in Nat
    BY CostAssumption, LimitAssumption DEF IInv, Boards, Cells
  <2> QED
    BY <2>1 DEF CheckBegin, PlayStates
<1>6. last.valid /\ last.remain = f.saved.selectionLimit
  BY DEF Judge
<1>7. /\ f.saved.cost \in Nat /\ f.saved.selectionLimit \in Nat /\ SelectionLimit \in Nat
      /\ SelectionCost \in Nat /\ SwappingCost \in Nat
  BY <1>2, CostAssumption, LimitAssumption DEF Priced
<1> HIDE DEF pres, base, last, f, n
<1> DEFINE ans == Optimize(pres)
           a == SelectionCount(pres)
           b == SwapCount(pres)
           x == SelectionCount(ans)
           y == SwapCount(ans)
<1>8. a \in Nat /\ a = SelectionLimit - f.saved.selectionLimit
  BY <1>3, <1>5, <1>6, SelectionsCounted
<1>9. b = (n - 1) - a
  BY <1>3, <1>4, MovesCounted
<1>10. /\ ans \in Seq(Moves) /\ x <= a /\ y <= b
  BY <1>3, <1>5, <1>6, OptimizeSound
<1>11. x \in Int /\ y \in Int
  <2> HIDE DEF ans
  <2>1. x \in Nat /\ y = Len(ans) - x /\ Len(ans) \in Nat
    BY <1>10, MovesCounted, LenProperties
  <2> HIDE DEF x, y
  <2> QED
    BY <2>1
<1>12. f.saved.cost = a * SelectionCost + b * SwappingCost
  BY <1>2, <1>8, <1>9 DEF Played
<1>13. Cost(ans) = x * SelectionCost + y * SwappingCost
  BY DEF Cost
<1> HIDE DEF ans, a, b, x, y
<1>14. a \in Int /\ b \in Int
  BY <1>2, <1>8, <1>9
<1>15. x * SelectionCost <= a * SelectionCost
  BY ONLY <1>7, <1>10, <1>11, <1>14
<1>16. y * SwappingCost <= b * SwappingCost
  BY ONLY <1>7, <1>10, <1>11, <1>14
<1>17. /\ x * SelectionCost \in Int /\ a * SelectionCost \in Int
       /\ y * SwappingCost \in Int /\ b * SwappingCost \in Int
  BY ONLY <1>7, <1>11, <1>14
<1>18. Cost(ans) \in Int /\ Cost(ans) <= f.saved.cost
  <2> DEFINE xs == x * SelectionCost
             al == a * SelectionCost
             yw == y * SwappingCost
             bw == b * SwappingCost
             k == Cost(ans)
             z == f.saved.cost
  <2>1. /\ xs \in Int /\ al \in Int /\ yw \in Int /\ bw \in Int /\ xs <= al /\ yw <= bw
        /\ k = xs + yw /\ z = al + bw
    BY <1>12, <1>13, <1>15, <1>16, <1>17
  <2> HIDE DEF xs, al, yw, bw, k, z
  <2>2. k \in Int /\ z \in Int
    BY ONLY <2>1
  <2>3. k <= z
    BY ONLY <2>1, <2>2
  <2> QED
    BY <2>2, <2>3 DEF k, z
<1> QED
  BY <1>1, <1>7, <1>18 DEF ans, f

\* What is found costs no more than the threshold, and no play costs less than that.
LEMMA FoundOptimal ==
  ASSUME IInv, StackCost(stack, lb), lb \in Int, Below(start, lb),
         Aligned(start) => Len(stack) <= 1, Found
  PROVE  AnswerOptimal' /\ (Aligned(start) => published' = <<>>)
<1> DEFINE n == Len(stack)
           f == Top
<1>1. /\ stack # <<>> /\ Board!Finished(f.board) /\ start' = start
      /\ published' = Optimize([i \in 1 .. n - 1 |-> stack[i + 1].pre])
  BY DEF Found
<1>2. /\ n \in Nat /\ n >= 1 /\ f = stack[n] /\ FrameInv(f) /\ Searched(f.saved)
      /\ n \in 1 .. n
  BY <1>1, TopCosts
<1>3. Cost(published') \in Int /\ f.saved.cost \in Nat /\ Cost(published') <= f.saved.cost
  BY FoundCosts
<1>4. ASSUME n = 1 PROVE published' = <<>> /\ Aligned(start)
  <2>1. [i \in 1 .. n - 1 |-> stack[i + 1].pre] = <<>>
    BY <1>4
  <2>2. published' = <<>>
    BY <1>1, <2>1 DEF Optimize
  <2>3. f.saved = First(start) /\ start \in Boards
    BY <1>2, <1>4 DEF IInv, StackInv
  <2>4. Board!Finished(f.saved)
    BY <1>1, <1>2, FinishedSaved
  <2>5. Aligned(f.saved.cell)
    <3> DEFINE b == f.saved
    <3>1. Exact(b) /\ Board!Finished(b)
      BY <1>2, <2>4 DEF Searched
    <3> HIDE DEF b
    <3>2. Aligned(b.cell)
      BY <3>1, FinishedBoard
    <3> QED
      BY <3>2 DEF b
  <2>6. f.saved.cell = start
    BY <2>3, FirstIs
  <2> QED
    BY <2>2, <2>5, <2>6
<1>5. ASSUME n # 1, NEW c \in 0 .. MaxOptimum, Costs(Problem(start), c), c <= Cost(published') - 1
      PROVE  FALSE
  <2>1. n \in 2 .. n /\ ~Aligned(start)
    <3>1. Aligned(start) => n <= 1
      OBVIOUS
    <3> HIDE DEF n
    <3>2. n > 1
      BY ONLY <1>2, <1>5
    <3> QED
      BY ONLY <1>2, <3>1, <3>2
  <2>2. Board!LowerBound(f.saved) <= lb
    BY <1>2, <2>1 DEF StackCost
  <2>3. lb <= c
    BY <1>5, <2>1 DEF Below
  <2> DEFINE b == f.saved
  <2>4. Searched(b) /\ Board!LowerBound(b) <= lb /\ b.cost \in Nat /\ Cost(published') <= b.cost
    BY <1>2, <1>3, <2>2
  <2> HIDE DEF b
  <2>5. Board!Heuristic(b) \in Nat
    BY <2>4, HeuristicType DEF Searched
  <2>6. Board!LowerBound(b) = b.cost + Board!Heuristic(b)
    BY DEF Board!LowerBound
  <2>7. c \in Int
    BY ReferenceAssumption
  <2> QED
    BY <1>3, <1>5, <2>3, <2>4, <2>5, <2>6, <2>7
<1>6. ASSUME n # 1 PROVE ~HasPlay(start, Cost(published') - 1)
  <2> DEFINE d == Cost(published') - 1
             e == Smaller(d, MaxOptimum)
  <2>1. d \in Int /\ MaxOptimum \in Nat
    BY <1>3, ReferenceAssumption
  <2> SUFFICES ASSUME NEW c \in 0 .. e, Problem(start) \in Plays[c + 1] PROVE FALSE
    BY DEF HasPlay, Problem
  <2>2. e <= d /\ e <= MaxOptimum /\ e \in Int
    BY <2>1 DEF Smaller
  <2>3. d = Cost(published') - 1
    OBVIOUS
  <2> HIDE DEF e, d
  <2>4. c \in 0 .. MaxOptimum /\ c <= d
    BY <2>1, <2>2
  <2>5. Costs(Problem(start), c)
    BY <2>4 DEF Costs
  <2> QED
    BY <1>5, <1>6, <2>3, <2>4, <2>5
<1>7. AnswerOptimal'
  <2> SUFFICES ASSUME published' # <<>> PROVE ~HasPlay(start, Cost(published') - 1)
    BY <1>1 DEF AnswerOptimal, HasPlay, Cost
  <2> QED
    BY <1>4, <1>6
<1>8. Aligned(start) => published' = <<>>
  <2>1. Aligned(start) => n <= 1
    OBVIOUS
  <2> HIDE DEF n
  <2>2. Aligned(start) => n = 1
    BY ONLY <1>2, <2>1
  <2> QED
    BY ONLY <1>4, <2>2
<1> QED
  BY <1>7, <1>8

-----------------------------------------------------------------------------
(* The invariant.                                                          *)

\* The threshold is at most what the cheapest play costs, and a solved problem is not
\* searched.
OInv ==
  /\ lb \in Int /\ StackCost(stack, lb) /\ Below(start, lb)
  /\ Aligned(start) => Len(stack) <= 1 /\ published \in {NoAnswer, <<>>}
  /\ AnswerOptimal

\* It holds before the search.
LEMMA InitOptimal ==
  ASSUME BoundAdmissible, IDAInit
  PROVE  OInv
<1>1. /\ start \in Boards /\ lb = Board!LowerBound(First(start))
      /\ stack = <<Call(First(start), NoMove)>> /\ published = NoAnswer
  BY DEF IDAInit, First
<1>2. lb \in Int /\ Below(start, lb)
  BY <1>1, FirstThreshold
<1>3. StackCost(<<Call(First(start), NoMove)>>, lb)
  BY FirstCosts
<1>4. Len(stack) <= 1
  <2> DEFINE f == Call(First(start), NoMove)
  <2>1. stack = <<f>>
    BY <1>1
  <2> HIDE DEF f
  <2>2. Len(stack) = 1
    BY <2>1
  <2> QED
    BY <2>2
<1> QED
  BY <1>1, <1>2, <1>3, <1>4 DEF OInv, AnswerOptimal

\* And after every step.
LEMMA StepOptimal ==
  ASSUME BoundAdmissible, IInv, OInv, [IDANext]_idaVars
  PROVE  OInv'
<1>1. /\ lb \in Int /\ StackCost(stack, lb) /\ Below(start, lb)
      /\ (Aligned(start) => Len(stack) <= 1 /\ published \in {NoAnswer, <<>>})
      /\ AnswerOptimal
  BY DEF OInv
<1>2. ASSUME start' = start, lb' \in Int, Below(start, lb'), StackCost(stack', lb'),
             published' = published, Aligned(start) => Len(stack') <= 1
      PROVE  OInv'
  <2>1. AnswerOptimal'
    BY <1>1, <1>2 DEF AnswerOptimal, HasPlay, Cost
  <2>2. Below(start, lb)' /\ StackCost(stack, lb)'
    BY <1>2 DEF Below, StackCost, Problem
  <2> QED
    BY <1>1, <1>2, <2>1, <2>2 DEF OInv, Aligned
<1>3. CASE Skip
  <2>1. start' = start /\ lb' = lb /\ published' = published
    BY <1>3 DEF Skip
  <2>2. StackCost(stack', lb) /\ Len(stack') = Len(stack)
    BY <1>1, <1>3, SkipCosts
  <2> QED
    BY <1>1, <1>2, <2>1, <2>2
<1>4. CASE CutOff
  <2>1. start' = start /\ lb' = lb /\ published' = published
    BY <1>4 DEF CutOff
  <2>2. StackCost(stack', lb) /\ Len(stack') = Len(stack)
    BY <1>1, <1>4, CutOffCosts
  <2> QED
    BY <1>1, <1>2, <2>1, <2>2
<1>5. CASE Descend
  <2>1. start' = start /\ lb' = lb /\ published' = published /\ stack # <<>> /\ ~Board!Finished(Top.board)
    BY <1>5 DEF Descend
  <2>2. StackCost(stack', lb)
    BY <1>1, <1>5, DescendCosts
  <2>3. ASSUME Aligned(start) PROVE FALSE
    <3>1. Len(stack) = 1 /\ Top = stack[1] /\ FrameInv(Top)
      BY <1>1, <2>1, <2>3, TopCosts
    <3>2. Top.saved = First(start) /\ start \in Boards
      BY <3>1 DEF IInv, StackInv
    <3> DEFINE b == First(start)
    <3>3. Exact(b) /\ b.cell = start
      BY <3>2, FirstIs DEF Searched
    <3>4. Board!Finished(b)
      <4> HIDE DEF b
      <4> QED
        BY <2>3, <3>3, AlignedFinished
    <3> QED
      BY <2>1, <3>1, <3>2, <3>4, FinishedSaved
  <2> QED
    BY <1>1, <1>2, <2>1, <2>2, <2>3
<1>6. CASE DFSReturn
  <2>1. start' = start /\ lb' = lb /\ published' = published
    BY <1>6 DEF DFSReturn
  <2>2. StackCost(stack', lb) /\ Len(stack') = Len(stack) - 1
    BY <1>1, <1>6, ReturnCosts
  <2>3. Len(stack) \in Nat
    <3>1. PICK S : stack \in Seq(S)
      BY DEF IInv, StackInv
    <3> QED
      BY <3>1
  <2> QED
    BY <1>1, <1>2, <2>1, <2>2, <2>3
<1>7. CASE Deepen
  <2>1. /\ start' = start /\ published' = published
        /\ stack' = <<Call(First(start), NoMove)>>
    BY <1>7 DEF Deepen, First
  <2>2. lb' \in Int /\ Below(start, lb')
    BY <1>1, <1>7, NextThreshold
  <2>3. StackCost(<<Call(First(start), NoMove)>>, lb')
    <3> DEFINE n == lb'
    <3> HIDE DEF n
    <3>1. StackCost(<<Call(First(start), NoMove)>>, n)
      BY FirstCosts
    <3> QED
      BY <3>1 DEF n
  <2>4. Len(stack') <= 1
    <3> DEFINE f == Call(First(start), NoMove)
    <3>1. stack' = <<f>>
      BY <2>1
    <3> HIDE DEF f
    <3>2. Len(stack') = 1
      BY <3>1
    <3> QED
      BY <3>2
  <2> QED
    BY <1>2, <2>1, <2>2, <2>3, <2>4
<1>8. CASE Found
  <2>1. start' = start /\ lb' = lb /\ stack' = <<>>
    BY <1>8 DEF Found
  <2>2. AnswerOptimal' /\ (Aligned(start) => published' = <<>>)
    BY <1>1, <1>8, FoundOptimal
  <2>3. Len(<<>>) = 0 /\ 1 .. 0 = {} /\ 2 .. 0 = {} /\ 1 .. 0 - 1 = {}
    OBVIOUS
  <2>4. StackCost(<<>>, lb)
    BY <2>3 DEF StackCost
  <2>5. Below(start, lb)' /\ StackCost(stack, lb)'
    BY <1>1, <2>1, <2>4 DEF Below, StackCost, Problem
  <2>6. (Aligned(start) => Len(stack) <= 1 /\ published \in {NoAnswer, <<>>})'
    BY <2>1, <2>2, <2>3 DEF Aligned
  <2> QED
    BY <1>1, <2>1, <2>2, <2>5, <2>6 DEF OInv
<1>9. CASE UNCHANGED idaVars
  BY <1>1, <1>2, <1>9 DEF idaVars
<1> QED
  BY <1>3, <1>4, <1>5, <1>6, <1>7, <1>8, <1>9 DEF IDANext

\* What README.md:71 calls exact: as long as the heuristic is a lower bound on the
\* situations that a play can begin in, no play is cheaper than the answer, although DFS
\* skips candidates, cuts off by the threshold and shares one board.
THEOREM AnswerOptimalIfAdmissible ==
  ASSUME BoundAdmissible
  PROVE  IDASpec => []AnswerOptimal
<1>1. IDAInit => OInv
  BY InitOptimal
<1>2. IInv /\ OInv /\ [IDANext]_idaVars => OInv'
  BY StepOptimal
<1>3. OInv => AnswerOptimal
  BY DEF OInv
<1> QED
  BY <1>1, <1>2, <1>3, Invariance, PTL DEF IDASpec

\* With a limit of one or two selections the heuristic is a lower bound: the exact solver
\* is exact, on boards of every size and for all costs.
THEOREM AnswerOptimalOfTwo ==
  ASSUME SelectionLimit <= 2
  PROVE  IDASpec => []AnswerOptimal
<1>1. BoundAdmissible
  BY AdmissibleOfTwo
<1> QED
  BY <1>1, AnswerOptimalIfAdmissible

=============================================================================
