--------------------------- MODULE AdmissibleBoard ---------------------------
(***************************************************************************)
(* slide::AdmissibleBoard: a PlayBoard that carries the features of the    *)
(* exact search (CostFeature, ManhattanFeature, ParityFeature), which its  *)
(* operations move() and select() update incrementally, and the lower      *)
(* bound computed from them.                                               *)
(*                                                                         *)
(* A board object is a record, so that the solvers can copy it.  The state *)
(* machine at the end is one object driven by any sequence of the          *)
(* operations that its users may call.                                     *)
(***************************************************************************)
EXTENDS Puzzle

CONSTANTS
  SwappingCost,     \* CostFeature::swappingCost
  SelectionCost,    \* CostFeature::selectionCost
  SelectionLimit    \* Problem::selectionLimit

\* Problem::parse requires costs >= 0 and a limit >= 1; manhattan2Table has
\* entries for limits up to 16 only.
ASSUME CostAssumption ==
  /\ SwappingCost \in Nat
  /\ SelectionCost \in Nat
  /\ SelectionLimit \in 1..16

Larger(i, j) == IF i > j THEN i ELSE j

-----------------------------------------------------------------------------
(* The features computed from a board.                                     *)

\* ManhattanFeature::compute: the selected piece does not count.
Manhattan(cell, selected) ==
  MapThenSumSet(LAMBDA p : Distance(p, cell[p]), Points \ {selected})

SelManhattan(cell, selected) ==
  IF IsSelected(selected) THEN Distance(selected, cell[selected]) ELSE 0

\* ParityFeature::init, the loop over all pairs of cells.
OddPermutation(cell) ==
  Cardinality({pq \in Points \X Points :
                 Before(pq[2], pq[1]) /\ Before(cell[pq[1]], cell[pq[2]])}) % 2 = 1

Odd(n) == n % 2 = 1

\* AdmissibleBoardBase::init.  The id of an unselected board is never read.
InitBoard(cell, selected, limit) ==
  LET selManhattan == SelManhattan(cell, selected)
  IN  [cell           |-> cell,
       selected       |-> selected,
       selectionLimit |-> limit,
       cost           |-> 0,
       manhattan      |-> Manhattan(cell, selected),
       selManhattan   |-> selManhattan,
       selId          |-> IF IsSelected(selected) THEN cell[selected] ELSE NoPoint,
       parity         |-> OddPermutation(cell) # Odd(selManhattan),
       selParity      |-> Odd(selManhattan)]

-----------------------------------------------------------------------------
(* The operations.                                                         *)

\* ManhattanFeature::moveUp .. moveLeft: the distance of the piece with home
\* dst that is moved from src one step in direction dir changes by this much.
Step(src, dst, dir) ==
  CASE dir = Up    -> IF src[1] > dst[1] THEN -1 ELSE 1
    [] dir = Right -> IF src[2] < dst[2] THEN -1 ELSE 1
    [] dir = Down  -> IF src[1] < dst[1] THEN -1 ELSE 1
    [] OTHER       -> IF src[2] > dst[2] THEN -1 ELSE 1

\* Mutant: the piece that gives way is forgotten.
MovedAlone(b, dir) ==
  LET next == Neighbour(b.selected, dir)
  IN  [b EXCEPT !.cell         = Swapped(b.cell, b.selected, next),
                !.selected     = next,
                !.cost         = b.cost + SwappingCost,
                !.selManhattan = b.selManhattan + Step(b.selected, b.selId, dir),
                !.selParity    = ~b.selParity]

\* Mutant: a move turns the parity of the board, not that of the selected piece.
MovedTurnsParity(b, dir) ==
  LET next == Neighbour(b.selected, dir)
  IN  [b EXCEPT !.cell         = Swapped(b.cell, b.selected, next),
                !.selected     = next,
                !.cost         = b.cost + SwappingCost,
                !.selManhattan = b.selManhattan + Step(b.selected, b.selId, dir),
                !.manhattan    = b.manhattan + Step(next, b.cell[next], Opposite(dir)),
                !.parity       = ~b.parity]

Moved(b, dir) ==
  LET next == Neighbour(b.selected, dir)
  IN  [b EXCEPT !.cell         = Swapped(b.cell, b.selected, next),
                !.selected     = next,
                !.cost         = b.cost + SwappingCost,
                !.selManhattan = b.selManhattan + Step(b.selected, b.selId, dir),
                !.manhattan    = b.manhattan + Step(next, b.cell[next], Opposite(dir)),
                !.selParity    = ~b.selParity]

\* Mutant: the parity of the piece selected before stays in parity.
SelectedKeepsParity(b, p) ==
  LET selManhattan == Distance(p, b.cell[p])
  IN  [b EXCEPT !.selected       = p,
                !.cost           = b.cost + SelectionCost,
                !.selectionLimit = b.selectionLimit - 1,
                !.manhattan      = b.manhattan + b.selManhattan - selManhattan,
                !.selManhattan   = selManhattan,
                !.selId          = b.cell[p],
                !.parity         = b.parity # Odd(selManhattan),
                !.selParity      = Odd(selManhattan)]

Selected(b, p) ==
  LET selManhattan == Distance(p, b.cell[p])
  IN  [b EXCEPT !.selected       = p,
                !.cost           = b.cost + SelectionCost,
                !.selectionLimit = b.selectionLimit - 1,
                !.manhattan      = b.manhattan + b.selManhattan - selManhattan,
                !.selManhattan   = selManhattan,
                !.selId          = b.cell[p],
                !.parity         = (b.parity # b.selParity) # Odd(selManhattan),
                !.selParity      = Odd(selManhattan)]

\* AdmissibleBoardBase::isFinished
Finished(b) == b.manhattan = 0

-----------------------------------------------------------------------------
(* The lower bound.                                                        *)

Infinity == 2^29

Prunable(b) == b.selectionLimit = 0 /\ b.parity

Manhattan2Table ==
  <<0, 2, 4, 7, 10, 13, 16, 20, 24, 28, 32, 36, 40, 45, 50, 55, 60>>

\* Mutant: every board needs one more selection.
Manhattan1Selecting(b) ==
  SwappingCost * ((b.selManhattan + b.manhattan + 1) \div 2) + SelectionCost

Manhattan1(b) ==
    SwappingCost * ((b.selManhattan + b.manhattan + 1) \div 2)
  + (IF IsSelected(b.selected) /\ ~b.parity THEN 0 ELSE SelectionCost)

Manhattan2(b) ==
    SwappingCost * b.manhattan
  - Larger(0, ((Width + Height) * SwappingCost - SelectionCost) * b.selectionLimit
              - Manhattan2Table[b.selectionLimit + 1] * SwappingCost)

Heuristic(b) ==
  IF Prunable(b) THEN Infinity ELSE Larger(Manhattan1(b), Manhattan2(b))

LowerBound(b) == b.cost + Heuristic(b)

-----------------------------------------------------------------------------
(* One object under its operations.  MaxCost bounds the moves.             *)

CONSTANT MaxCost

VARIABLE board

Init ==
  \E cell \in Boards : board = InitBoard(cell, NoPoint, SelectionLimit)

Move(dir) ==
  /\ ValidMove(board.selected, dir)
  /\ board.cost + SwappingCost <= MaxCost
  /\ board' = Moved(board, dir)

Select(p) ==
  /\ board.selectionLimit > 0
  /\ board' = Selected(board, p)

Next ==
  \/ \E dir \in Directions : Move(dir)
  \/ \E p \in Points : Select(p)

Spec == Init /\ [][Next]_board

-----------------------------------------------------------------------------
(* Properties.                                                             *)

\* However long the sequence of moves and selections, the incrementally updated
\* distances are those that compute() and init() would find on the board as it
\* is now: the sum over all pieces but the selected one, and its own.
DistancesExact ==
  /\ board.manhattan = Manhattan(board.cell, board.selected)
  /\ board.selManhattan = SelManhattan(board.cell, board.selected)

\* The parity that is carried through moves and selections is the one that
\* ParityFeature::init would compute: the inversions of the whole board, and the
\* distance the selected piece still has to go, counted together.
ParityExact ==
  /\ board.selParity = Odd(board.selManhattan)
  /\ board.parity = (OddPermutation(board.cell) # Odd(board.selManhattan))

\* Moves alone never change the parity that Prunable looks at, so that a board
\* cut off with no selection left really is lost: from a prunable state every
\* later state is prunable and unfinished.
PrunedStaysUnfinished ==
  [][Prunable(board) => Prunable(board') /\ ~Aligned(board'.cell)]_board

=============================================================================
