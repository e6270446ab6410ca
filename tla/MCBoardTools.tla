---------------------------- MODULE MCBoardTools ----------------------------
(***************************************************************************)
(* The tools for boards with fixed cells: a behaviour makes a call of      *)
(* FixBoard, or runs DolphinSolver, or runs StraightSolver.                *)
(***************************************************************************)
EXTENDS FixBoardMoves, DolphinSolver, StraightSolver

CONSTANTS FixedCells, Multipliers, Offsets

VARIABLE tool

vars == <<tool, callVars, dolphinVars, straightVars>>

Index(p)   == p[1] * Width + p[2]
PointOf(i) == <<i \div Width, i % Width>>

\* Boards whose pieces are far apart and in order in many ways.
Affine(m, k) == [p \in Points |-> PointOf((m * Index(p) + k) % (Height * Width))]

\* The last m pieces go round by k cells.
Shift(m, k) ==
  LET first == Height * Width - m
  IN  [p \in Points |-> IF Index(p) < first THEN p
                        ELSE PointOf(first + ((Index(p) - first + k) % m))]

\* The last row begins with two pieces that stand in each other's place, and so does
\* the last column.
Corners ==
  LET row == <<Height - 1, 0>>
      col == <<0, Width - 1>>
  IN  Swapped(Swapped(FinishedState, row, Neighbour(row, Right)), col, Neighbour(col, Down))

MCShapes == {{PointOf(i) : i \in cells} : cells \in FixedCells}
MCStarts == {PointOf(i) : i \in {0, 1, Width + 1, Height * Width - 1}}
MCShuffle == Affine(7, 3)
MCDolphinProblems == {Corners, Shift(9, 4)}
MCStraightProblems == {Affine(m, k) : m \in Multipliers, k \in Offsets}

FixIdle ==
  /\ board = [cell |-> FinishedState, selected |-> <<0, 0>>, fixed |-> {}]
  /\ before = board /\ call = [NoCall EXCEPT !.op = "idle"]
DolphinIdle ==
  LET b == Unsettled(FinishedState, <<0, 0>>)
  IN  boards = {b} /\ returned = b /\ failures = {} /\ layers = 0
StraightIdle ==
  /\ problem = FinishedState
  /\ answerBoard = [cell |-> problem, selected |-> NoPoint, answer |-> <<>>]
  /\ remH = Height /\ remW = Width /\ solved = FALSE

Init ==
  \/ tool = "FixBoard" /\ FixInit /\ DolphinIdle /\ StraightIdle
  \/ tool = "DolphinSolver" /\ FixIdle /\ DolphinInit /\ StraightIdle
  \/ tool = "StraightSolver" /\ FixIdle /\ DolphinIdle /\ StraightInit

Next ==
  /\ UNCHANGED tool
  /\ \/ tool = "FixBoard" /\ FixNext /\ UNCHANGED <<dolphinVars, straightVars>>
     \/ tool = "DolphinSolver" /\ DolphinNext /\ UNCHANGED <<callVars, straightVars>>
     \/ tool = "StraightSolver" /\ StraightNext /\ UNCHANGED <<callVars, dolphinVars>>

Spec == Init /\ [][Next]_vars /\ WF_vars(Next)
=============================================================================
