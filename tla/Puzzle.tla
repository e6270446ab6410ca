------------------------------- MODULE Puzzle -------------------------------
(***************************************************************************)
(* The sliding board of the solver library: slide::Point, slide::Direction *)
(* (the pairs <<y, x>> and 0..3), slide::Board and slide::PlayBoard.       *)
(*                                                                         *)
(* A piece is identified by the point where it belongs: the id stored in a *)
(* cell is Board::correctId(p) = p.toInt() of its home p, so a board is a  *)
(* bijection from points to points and it is finished when it is the       *)
(* identity.                                                               *)
(***************************************************************************)
EXTENDS Integers, FiniteSets, FiniteSetsExt, Functions

CONSTANTS
  Height,   \* Board::height()
  Width     \* Board::width()

\* Problem::parse refuses a side above 16 and branch() instantiates the solvers
\* for sides from 2.
ASSUME SizeAssumption == Height \in 2..16 /\ Width \in 2..16

Points == (0 .. Height - 1) \X (0 .. Width - 1)

\* PlayBoard::selected before the first selection; isSelected() is y >= 0.
NoPoint == <<-1, -1>>

Directions == 0..3          \* Up, Right, Down, Left
Up == 0
Right == 1
Down == 2
Left == 3

Opposite(dir) == (dir + 2) % 4

\* Direction::operator-: the turn that leads from pre to dir.
Turn(dir, pre) == (dir + 4 - pre) % 4

Delta(dir) ==
  CASE dir = Up    -> <<-1, 0>>
    [] dir = Right -> <<0, 1>>
    [] dir = Down  -> <<1, 0>>
    [] OTHER       -> <<0, -1>>

Neighbour(p, dir) == <<p[1] + Delta(dir)[1], p[2] + Delta(dir)[2]>>

Absolute(i) == IF i < 0 THEN -i ELSE i

\* (p - q).l1norm()
Distance(p, q) == Absolute(p[1] - q[1]) + Absolute(p[2] - q[2])

\* The order of the ids Point::toInt, row by row.
Before(p, q) == p[1] < q[1] \/ (p[1] = q[1] /\ p[2] < q[2])

-----------------------------------------------------------------------------

FinishedState == [p \in Points |-> p]

Aligned(cell) == \A p \in Points : cell[p] = p

Boards == {cell \in [Points -> Points] : IsInjective(cell)}

IsSelected(selected) == selected # NoPoint

\* PlayBoard::isValidMove
ValidMove(selected, dir) ==
  IsSelected(selected) /\ Neighbour(selected, dir) \in Points

\* The cells after PlayBoard::move: the selected piece changes places with
\* its neighbour (and becomes the piece selected there).
Swapped(cell, p, q) == [cell EXCEPT ![p] = cell[q], ![q] = cell[p]]

=============================================================================
