---------------------------- MODULE DolphinSolver ----------------------------
(***************************************************************************)
(* slide::DolphinSolver::compute: a beam search that settles the border of *)
(* the board, piece by piece, until a rectangle of at most four by four is *)
(* left or the region [y, y + h) x [x, x + w).                             *)
(*                                                                         *)
(* The boards of a layer are worked on in parallel and do not touch each   *)
(* other; what the threads share, nextBoards and the board to be returned, *)
(* is locked.  DolphinBoard::evaluate is any order of the boards; align    *)
(* gives a board that it could not align the worst score.                  *)
(***************************************************************************)
EXTENDS AlignBoard

CONSTANTS
  DolphinProblems,      \* the boards to be solved
  BeamWidth             \* DolphinSolver::beamWidth

VARIABLES
  boards,         \* the boards of the layer
  returned,       \* returnAnswerBoard, or NoBoard
  failures,       \* the alignments that returned false
  layers          \* how often the loop was run; a history variable

dolphinVars == <<boards, returned, failures, layers>>

NoBoard == [cell |-> {}]

\* DolphinSolver::solve: the four by four in the middle
Region ==
  [top |-> Height \div 2 - 2, bottom |-> Height \div 2 + 1,
   first |-> Width \div 2 - 2, last |-> Width \div 2 + 1]

\* The first selections: the pieces of the inner cells of the region.
DolphinInit ==
  /\ \E problem \in DolphinProblems :
       boards = {Unsettled(problem, CHOOSE p \in Points : problem[p] = home) :
                   home \in (Region.top + 1 .. Region.bottom - 1)
                            \X (Region.first + 1 .. Region.last - 1)}
  /\ returned = NoBoard
  /\ failures = {}
  /\ layers = 0

Candidates(b) == {p \in GetCandidates(b) : ~InRect(Region, p)}

\* The results of align for every candidate whose piece is not the selected one.
AlignResults(b) == {Align(b, p) : p \in {p \in Candidates(b) : Find(b, p) # b.selected}}

Return ==
  /\ returned = NoBoard
  /\ \E b \in boards : Candidates(b) = {} /\ returned' = b
  /\ UNCHANGED <<boards, failures, layers>>

\* One layer: of the boards that come next the best beamWidth are kept.
Layer ==
  /\ returned = NoBoard
  /\ \A b \in boards : Candidates(b) # {}
  /\ \E nextBoards \in {UNION {AlignResults(b) : b \in boards}} :
       /\ \E kept \in SUBSET nextBoards :
            /\ Cardinality(kept) = Min({BeamWidth, Cardinality(nextBoards)})
            /\ (\E r \in kept : ~r.ok) => \A r \in nextBoards \ kept : ~r.ok
            /\ boards' = {r.board : r \in kept}
       /\ failures' = failures \cup {r.board : r \in {r \in nextBoards : ~r.ok}}
  /\ layers' = layers + 1
  /\ UNCHANGED returned

DolphinNext == Return \/ Layer

-----------------------------------------------------------------------------
(* Properties                                                              *)

\* The settled cells are settled: the fixed cells of a row are those outside of
\* leftMost and rightMost, which the moves of several pieces, the giving up of a
\* fixed neighbour and the turning in of the last two must keep together; the
\* selected piece is not among them; a fixed cell holds its own piece, or that of
\* a neighbour that is still open and will be turned in with it.
SettledStaysSettled == \A b \in boards :
  /\ b.selected \notin b.fixed
  /\ b.fixed = {p \in Points : p[2] < b.leftMost[p[1]] \/ b.rightMost[p[1]] < p[2]}
  /\ \A p \in b.fixed :
       \/ b.cell[p] = p
       \/ Distance(b.cell[p], p) = 1 /\ b.cell[p] \notin b.fixed

\* BOOST_ASSERT(false) at the end of align (details/AlignBoard.hpp:145) is not reached and
\* a layer is not empty: the candidates are chosen so that every one of them can
\* be aligned, and one of them is not that of the selected piece.
EveryCandidateAligns == failures = {} /\ boards # {}

\* compute() ends: a layer settles one more cell except when it gives one up to free
\* a piece, which takes two layers more.  That does not go round in circles, and
\* happens at most once for every four cells.
LayersBounded ==
  LET cells == Cardinality({p \in Points : ~InRect(Region, p)})
  IN  layers <= cells + cells \div 2
=============================================================================
