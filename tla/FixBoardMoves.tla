--------------------------- MODULE FixBoardMoves ----------------------------
(***************************************************************************)
(* One call of FixBoard: the selected piece is sent to dst, alone or with  *)
(* a piece.  The assertions at the top of the functions are the            *)
(* preconditions of the calls.                                             *)
(***************************************************************************)
EXTENDS FixBoard

CONSTANTS
  FixedShapes,      \* the sets of fixed cells
  Starts,           \* the cells of the selected piece and of the piece src
  Shuffle           \* the cells of the board: any of Boards

ASSUME FixBoardAssumption ==
  FixedShapes \subseteq SUBSET Points /\ Starts \subseteq Points /\ Shuffle \in Boards

VARIABLES
  board,      \* the FixBoard
  before,     \* the board when the function was called
  call        \* the call: its operation, its arguments and what it returned

callVars == <<board, before, call>>

NoCall == [op |-> "none", src |-> NoPoint, dst |-> NoPoint, moves |-> 0, count |-> 0,
           ok |-> FALSE]

FixInit ==
  /\ \E fixed \in FixedShapes : \E selected \in Starts \ fixed :
       board = [cell |-> Shuffle, selected |-> selected, fixed |-> fixed]
  /\ before = board
  /\ call = NoCall

\* count is what countMoveTo says of the move before it is made.
Called(op, dst, way) ==
  /\ call = NoCall
  /\ board' = Walk(board, way)
  /\ call' = [op |-> op, src |-> board.selected, dst |-> dst,
              moves |-> IF way = NoWay THEN -1 ELSE Len(way),
              count |-> CountMoveTo(board, board.selected, dst), ok |-> way # NoWay]
  /\ UNCHANGED before

MoveTo == \E dst \in Points \ board.fixed :
  \E way \in {WayTo(board, dst)} : Called("moveTo", dst, way)

MoveToOptimally == \E dst \in Points \ board.fixed :
  \E way \in {OptimalWayTo(board, dst)} : Called("moveToOptimally", dst, way)

MoveToTwoNeighborMoreOptimally == \E dst \in Points \ board.fixed :
  /\ Distance(board.selected, dst) = 2
  /\ \E way \in {MoreOptimalWay(board, dst)} :
       Called("moveToTwoNeighborMoreOptimally", dst, way)

TrajectPieceCall ==
  /\ call = NoCall
  /\ \E src \in Starts \ (board.fixed \cup {board.selected}), dst \in Points \ board.fixed :
       \E result \in {TrajectPiece(board, src, dst)} :
         /\ board' = result.board
         /\ call' = [op |-> "trajectPiece", src |-> src, dst |-> dst,
                     moves |-> 0, count |-> 0, ok |-> result.ok]
  /\ UNCHANGED before

FixNext == \/ MoveTo
           \/ MoveToOptimally
           \/ MoveToTwoNeighborMoreOptimally
           \/ TrajectPieceCall

FixSpec == FixInit /\ [][FixNext]_callVars

-----------------------------------------------------------------------------
(* Properties                                                              *)

OpenNeighbours(fixed, p) == {Neighbour(p, dir) : dir \in Directions} \cap (Points \ fixed)

\* The points from which at most one step leads into a set, and those at most n steps
\* from p.
Wider(fixed, points) == points \cup UNION {OpenNeighbours(fixed, q) : q \in points}
Ball(fixed, p, n) ==
  LET round == [points \in SUBSET Points |-> Wider(fixed, points)] IN Rounds(round, {p}, n)

\* The pairs (selected piece, piece) one move after a pair: the selected one goes to a
\* neighbour, and changes places with the piece if that is there.
NextPairs(fixed, s) ==
  {<<q, IF q = s[2] THEN s[1] ELSE s[2]>> : q \in OpenNeighbours(fixed, s[1])}

\* The pairs that a pair reaches with fewer than n moves: in every round those that come
\* next are new.
Spread(fixed, r) ==
  [seen |-> r.seen \cup r.next,
   next |-> (UNION {NextPairs(fixed, s) : s \in r.next}) \ (r.seen \cup r.next)]
ReachWithin(fixed, s, n) ==
  LET round == [r \in [seen : SUBSET (Points \X Points), next : SUBSET (Points \X Points)] |->
                  Spread(fixed, r)]
  IN  Rounds(round, [seen |-> {}, next |-> {s}], n).seen
Reach(fixed, s) == ReachWithin(fixed, s, (Height * Width) * (Height * Width))

\* Those of the calls, each computed once.
Reaches == [fixed \in FixedShapes |-> [s \in (Starts \ fixed) \X (Starts \ fixed) |->
  Reach(fixed, s)]]

\* FixBoard.hpp (56-66) promises of moveTo that the selected piece goes to dst
\* without a move of a fixed piece if it can, and that nothing happens if it
\* cannot; of trajectPiece the same for src.  Every function keeps that promise,
\* the searches, the ways tried before them and the carrying step by step.
PromiseKept == call # NoCall =>
  /\ board.fixed = before.fixed
  /\ ~call.ok => board = before
  /\ call.ok => /\ \A p \in before.fixed : board.cell[p] = before.cell[p]
                /\ board.cell[board.selected] = before.cell[before.selected]
                /\ IF call.op = "trajectPiece"
                   THEN board.cell[call.dst] = before.cell[call.src]
                   ELSE board.selected = call.dst

\* trajectPiece succeeds whenever some sequence of moves around the fixed cells
\* brings the piece from src to dst: its search goes over (place, last direction)
\* instead of all pairs, and loses nothing.
CarriesIfPossible == call.op = "trajectPiece" =>
  (call.ok <=> \E s \in Reaches[before.fixed][<<before.selected, call.src>>] : s[2] = call.dst)

\* moveTo and moveToOptimally use the least number of moves there is, whatever
\* the distances make them prefer; countMoveTo says that number, or five for
\* four, and -1 if there is no way.
ShortestMoves == call.op \in {"moveTo", "moveToOptimally"} =>
  LET away(n) == call.dst \in Ball(before.fixed, before.selected, n)
  IN  /\ call.count = call.moves \/ (call.moves = 4 /\ call.count = 5)
      /\ IF call.ok THEN away(call.moves) /\ (call.moves = 0 \/ ~away(call.moves - 1))
                    ELSE ~away(Height * Width)
=============================================================================
