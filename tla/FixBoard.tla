------------------------------ MODULE FixBoard ------------------------------
(***************************************************************************)
(* slide::FixBoard: a board in which some cells are fixed and the selected *)
(* piece finds its way around them, alone (moveTo, moveToOptimally) or     *)
(* with another piece that it carries (trajectPiece).                      *)
(*                                                                         *)
(* A board is a record of its cells, the selected point and the set of     *)
(* fixed points (BitBoard).  A way is the sequence of the directions of    *)
(* the moves; a function of the code that returns false has NoWay.         *)
(***************************************************************************)
EXTENDS Answer

NoWay == <<-1>>

Clockwise == <<Up, Right, Down, Left>>      \* rep(k, 4)

\* The state of a loop after n rounds, each of which leads from a state s to round[s];
\* in batches of 16, lest their evaluation nests too deep.
Times(round, begin, n) ==
  LET at[k \in Nat] == IF k = 0 THEN begin ELSE round[at[k - 1]] IN at[n]
Rounds(round, begin, n) ==
  LET batch == [s \in DOMAIN round |-> Times(round, s, 16)]
  IN  Times(round, Times(batch, begin, n \div 16), n % 16)

Free(b, p) == p \in Points /\ p \notin b.fixed

Fix(b, p)   == [b EXCEPT !.fixed = @ \cup {p}]
Unfix(b, p) == [b EXCEPT !.fixed = @ \ {p}]

\* PlayBoard::move, whose precondition isValidMove is an assertion.
Moved(b, dir) ==
  LET next == Neighbour(b.selected, dir)
  IN  [b EXCEPT !.cell = Swapped(@, b.selected, next), !.selected = next]

\* The board after i moves of a way.
Walked(b, way, i) ==
  LET at[j \in 0 .. i] == IF j = 0 THEN b ELSE Moved(at[j - 1], way[j]) IN at[i]

\* A way is walked, unless there is none: then the board stays as it is.
Walk(b, way) == IF way = NoWay THEN b ELSE Walked(b, way, Len(way))

\* PlayBoardUtility::moveHorizontally(x) and moveVertically(y), from p
Horizontally(p, x) ==
  [i \in 1 .. Absolute(p[2] - x) |-> IF x < p[2] THEN Left ELSE Right]
Vertically(p, y) ==
  [i \in 1 .. Absolute(p[1] - y) |-> IF y < p[1] THEN Up ELSE Down]

Step(p, q) == CHOOSE dir \in Directions : Neighbour(p, dir) = q

\* The point reached from p after i steps of a way.
After(p, way, i) ==
  LET at[j \in Nat] == IF j = 0 THEN p ELSE Neighbour(at[j - 1], way[j]) IN at[i]

\* No point of the way is fixed; its last point is the caller's.
IsOpen(b, p, way) == \A i \in 1 .. Len(way) - 1 : Free(b, After(p, way, i))

\* The point of the border or a fixed one: countAdjacentFixedCell
AdjacentFixed(b, p) == Cardinality({dir \in Directions : ~Free(b, Neighbour(p, dir))})

-----------------------------------------------------------------------------
(* The two breadth-first searches.                                         *)

\* ManhattanFeature::delta as the search calls it, with the piece that the board has
\* in the cell p before the selected one has moved at all: -1 if a step from p leads
\* towards the cell where that piece belongs, and 1 otherwise.
DeltaManhattan(b, p, dir) ==
  LET next == Neighbour(p, dir)
      home == b.cell[p]
  IN  IF \/ dir = Up    /\ next[1] < home[1]
         \/ dir = Right /\ next[2] > home[2]
         \/ dir = Down  /\ next[1] > home[1]
         \/ dir = Left  /\ next[2] < home[2]
      THEN -1 ELSE 1

\* manhattan of searchMoveOptimally is an array of char, in which two values are
\* marks; in searchMove, where pre tells which points are reached, it is 0 for them.
NotReached == 127
Taken      == -128
Char(i)    == ((i + 128) % 256) - 128

NextManhattan(b, p, dir, s, optimally) ==
  Char(s.manhattan[p] + IF optimally THEN DeltaManhattan(b, p, dir) ELSE 0)

\* The directions in which p is the best predecessor so far.
Better(b, p, s, optimally) ==
  {dir \in Directions :
     LET next == Neighbour(p, dir)
     IN  /\ Free(b, next)
         /\ s.manhattan[next] # Taken
         /\ s.manhattan[next] > NextManhattan(b, p, dir, s, optimally)}

\* The points first reached from p, in the order of the directions.
Fresh(p, s, better) ==
  LET reached(dir) == IF dir \in better /\ s.manhattan[Neighbour(p, dir)] = NotReached
                      THEN <<Neighbour(p, dir)>> ELSE <<>>
  IN  reached(Up) \o reached(Right) \o reached(Down) \o reached(Left)

\* queue is Q, way holds the way that pre describes for the points reached.
SearchStates == [queue     : Seq(Points),
                 manhattan : [Points -> Taken .. NotReached],
                 way       : [Points -> Seq(Directions)]]

SearchBegin(src) ==
  [queue     |-> <<src>>,
   manhattan |-> [q \in Points |-> IF q = src THEN 0 ELSE NotReached],
   way       |-> [q \in Points |-> <<>>]]

\* Mutant: the points found last are searched first.
SearchedFromLast(b, p, s, better, optimally) ==
  [queue     |-> Fresh(p, s, better) \o Tail(s.queue),
   manhattan |-> [q \in Points |->
                    IF q = p THEN Taken
                    ELSE IF \E dir \in better : Neighbour(p, dir) = q
                    THEN NextManhattan(b, p, Step(p, q), s, optimally) ELSE s.manhattan[q]],
   way       |-> [q \in Points |-> IF \E dir \in better : Neighbour(p, dir) = q
                                   THEN Append(s.way[p], Step(p, q)) ELSE s.way[q]]]

\* The body of the loop, for the point p that is taken from the queue.
SearchedFrom(b, p, s, better, optimally) ==
  [queue     |-> Tail(s.queue) \o Fresh(p, s, better),
   manhattan |-> [q \in Points |->
                    IF q = p THEN Taken
                    ELSE IF \E dir \in better : Neighbour(p, dir) = q
                    THEN NextManhattan(b, p, Step(p, q), s, optimally) ELSE s.manhattan[q]],
   way       |-> [q \in Points |-> IF \E dir \in better : Neighbour(p, dir) = q
                                   THEN Append(s.way[p], Step(p, q)) ELSE s.way[q]]]

\* One round of the loop, while it goes on.
Searched(b, dst, optimally, s) ==
  IF s.queue = <<>> \/ Head(s.queue) = dst THEN s
  ELSE SearchedFrom(b, Head(s.queue), s, Better(b, Head(s.queue), s, optimally), optimally)

\* Every point enters the queue at most once, so that there are no more rounds than
\* points.
SearchMove(b, src, dst, optimally) ==
  LET round == [s \in SearchStates |-> Searched(b, dst, optimally, s)]
      end   == Rounds(round, SearchBegin(src), Height * Width)
  IN  IF end.queue = <<>> THEN NoWay ELSE end.way[dst]

-----------------------------------------------------------------------------
(* Near destinations are reached without a search.                         *)

\* Two steps straight on around a fixed cell between them.
Detour(side, dir) == <<side, dir, dir, Opposite(side)>>

Side(dir)      == IF dir \in {Left, Right} THEN Up ELSE Left
OtherSide(dir) == Opposite(Side(dir))

DetourDelta(b, side, dir, i) ==
  LET way == Detour(side, dir)
  IN  DeltaManhattan(b, After(b.selected, way, i - 1), way[i])

\* up_dm, down_dm, left_dm, right_dm.  Two steps up, the two in the middle of the
\* detour on the right are added to those on the left.
DetourManhattan(b, side, dir) ==
  IF dir # Up
  THEN MapThenSumSet(LAMBDA i : DetourDelta(b, side, dir, i), 1..4)
  ELSE DetourDelta(b, side, dir, 1) + DetourDelta(b, side, dir, 4)
       + IF side = Right THEN 0
         ELSE MapThenSumSet(LAMBDA i : DetourDelta(b, Left, Up, i)
                                       + DetourDelta(b, Right, Up, i), 2..3)

\* The ways between points at distance two, in the order they are tried.
NearWays(src, dst, sides) ==
  LET across == Horizontally(src, dst[2])
      along  == Vertically(src, dst[1])
      dir    == Head(across \o along)
  IN  IF across = <<>> \/ along = <<>>
      THEN <<across \o along>> \o [i \in 1..2 |-> Detour(sides[dir][i], dir)]
      ELSE <<across \o along, along \o across>>

FirstOpen(b, src, ways) ==
  LET open == {i \in DOMAIN ways : IsOpen(b, src, ways[i])}
  IN  IF open = {} THEN NoWay ELSE ways[Min(open)]

NearWay(b, src, dst, sides) ==
  IF Distance(src, dst) = 2 THEN FirstOpen(b, src, NearWays(src, dst, sides)) ELSE NoWay

BothSides == [dir \in Directions |-> <<Side(dir), OtherSide(dir)>>]

\* When both sides are open, the one whose distances decrease more comes first.
SidesByManhattan(b) == [dir \in Directions |->
  IF /\ \A i \in 1..2 : IsOpen(b, b.selected, Detour(BothSides[dir][i], dir))
     /\ DetourManhattan(b, Side(dir), dir) >= DetourManhattan(b, OtherSide(dir), dir)
  THEN Reverse(BothSides[dir]) ELSE BothSides[dir]]

WayOrSearch(b, dst, near, optimally) ==
  CASE Distance(b.selected, dst) = 0 -> <<>>
    [] Distance(b.selected, dst) = 1 -> <<Step(b.selected, dst)>>
    [] OTHER -> IF near = NoWay THEN SearchMove(b, b.selected, dst, optimally) ELSE near

\* moveTo, for a board whose size is known when it is compiled.
WayTo(b, dst) == WayOrSearch(b, dst, NearWay(b, b.selected, dst, BothSides), FALSE)

\* moveToOptimally, with moveToTwoNeighborOptimally
OptimalWayTo(b, dst) ==
  WayOrSearch(b, dst, NearWay(b, b.selected, dst, SidesByManhattan(b)), TRUE)

\* The ways of moveToLinearTwoNeighborMoreOptimally for up = Up, in the order of
\* its loop over the methods; turned by up for the others.
LinearWays(up) ==
  LET above == <<Detour(0, 1), <<3, 0, 1, 1, 1, 2>>, <<0, 1, 1, 1, 2, 3>>,
                 <<0, 0, 1, 2, 1, 2>>, <<0, 1, 0, 1, 2, 2>>>>
      below == [i \in 1..5 |-> [j \in DOMAIN above[i] |->
                  IF above[i][j] \in {Up, Down} THEN Opposite(above[i][j]) ELSE above[i][j]]]
  IN  [i \in 1..10 |-> LET way == IF i % 2 = 1 THEN above[(i + 1) \div 2] ELSE below[i \div 2]
                       IN  [j \in DOMAIN way |-> (way[j] + up) % 4]]

\* eval: two for the moves that a longer way takes more, and the distances.
LinearEval(b, way) ==
  Len(way) * 2 - 6 + MapThenSumSet(
    LAMBDA i : DeltaManhattan(b, After(b.selected, way, i - 1), way[i]), DOMAIN way)

\* moveToTwoNeighborMoreOptimally, which trajectPiece called before line 1120 was
\* commented out.
MoreOptimalWay(b, dst) ==
  LET dir  == Head(Horizontally(b.selected, dst[2]) \o Vertically(b.selected, dst[1]))
      ways == LinearWays((dir + 3) % 4)
      open == {i \in DOMAIN ways : IsOpen(b, b.selected, ways[i])}
      best == {i \in open : \A j \in open : LinearEval(b, ways[i]) <= LinearEval(b, ways[j])}
  IN  IF best = {} \/ (b.selected[1] # dst[1] /\ b.selected[2] # dst[2])
      THEN OptimalWayTo(b, dst) ELSE ways[Min(best)]

-----------------------------------------------------------------------------
(* Counting moves; -1 if there is no way.                                  *)

LengthOf(way) == IF way = NoWay THEN -1 ELSE Len(way)

CountBySearch(b, src, dst) == LengthOf(SearchMove(b, src, dst, FALSE))

\* Mutant: where the near ways are closed no other is looked for.
CountMoveToNearOnly(b, src, dst, near) ==
  CASE near = NoWay  -> -1
    [] Len(near) = 2 /\ near # NoWay -> 2
    [] OTHER         -> 5

\* A detour has four moves and is counted as five.
CountMoveToNear(b, src, dst, near) ==
  CASE near = NoWay  -> CountBySearch(b, src, dst)
    [] Len(near) = 2 /\ near # NoWay -> 2
    [] OTHER         -> 5

CountMoveTo(b, src, dst) ==
  IF Distance(src, dst) <= 1 THEN Distance(src, dst)
  ELSE CountMoveToNear(b, src, dst, NearWay(b, src, dst, BothSides))

-----------------------------------------------------------------------------
(* trajectPiece: an A* search over the positions of the piece and the last *)
(* direction in which it went, then the moves.                             *)

Heuristic(p, q) ==
  LET dy == Absolute(p[1] - q[1])
      dx == Absolute(p[2] - q[2])
  IN  (Min({dy, dx}) * 6 + Absolute(dy - dx) * 5) * 2

\* Data: the way is the one that pre describes.
Data(pos, way, cost, dst) ==
  [pos |-> pos, way |-> way, cost |-> cost, estimate |-> cost + Heuristic(pos, dst)]

\* The search starts with lastMove2 = lastMove.
LastMove2(d) == IF Len(d.way) = 1 THEN Last(d.way) ELSE Last(Front(d.way))

Priority(d) ==
  <<-d.estimate, -d.cost, Last(d.way), LastMove2(d), d.pos[1], d.pos[2]>>

\* Data::operator<, the order of the priority queue
Less(d, e) ==
  \E k \in 1..6 : /\ Priority(d)[k] < Priority(e)[k]
                  /\ \A j \in 1 .. k - 1 : Priority(d)[j] = Priority(e)[j]

\* Where a piece in pos can be pushed when the selected one is at from, and how many
\* moves that one needs to the other side, around it.
Pushes(b, pos, from, way) ==
  {[dir |-> dir, moves |-> CountMoveTo(Fix(b, pos), from, Neighbour(pos, dir))] :
     dir \in {dir \in Directions : /\ Free(b, Neighbour(pos, dir))
                                   /\ way = <<>> \/ dir # Opposite(Last(way))}}

Pushed(b, pos, from, way, cost, dst) ==
  {Data(Neighbour(pos, push.dir), Append(way, push.dir), cost + push.moves + 1, dst) :
     push \in {push \in Pushes(b, pos, from, way) : push.moves # -1}}

Greatest(queue) == CHOOSE d \in queue : \A e \in queue : ~Less(d, e)

\* done holds the places and directions that have a cost, way is that of last when dst is
\* found.
CarryStates ==
  [queue : SUBSET [pos : Points, way : Seq(Directions), cost : Int, estimate : Int],
   done  : SUBSET (Points \X Directions),
   way   : Seq(Directions) \cup {NoWay}]

\* The data in the queue that are not skipped.
Key(d)  == <<d.pos, Last(d.way)>>
Open(c) == {d \in c.queue : Key(d) \notin c.done}

\* The body of the A* loop, for the data that is taken from the queue.
CarriedFrom(b, dst, c, top) ==
  IF top.pos = dst
  THEN [c EXCEPT !.way = top.way]
  ELSE [c EXCEPT !.queue = @ \cup Pushed(b, top.pos,
                                         Neighbour(top.pos, Opposite(Last(top.way))),
                                         top.way, top.cost, dst),
                 !.done = @ \cup {Key(top)}]

\* One round of the loop, while it goes on.
Carried(b, dst, c) ==
  IF Open(c) = {} \/ c.way # NoWay THEN c ELSE CarriedFrom(b, dst, c, Greatest(Open(c)))

\* In every round one more place and direction gets a cost.
CarrySearch(b, src, dst) ==
  LET round == [c \in CarryStates |-> Carried(b, dst, c)]
      begin == [queue |-> Pushed(b, src, b.selected, <<>>, 0, dst), done |-> {}, way |-> NoWay]
  IN  Rounds(round, begin, 4 * Height * Width + 1).way

\* The directions popped from the stack: those after the last visit of src.
FromLastVisit(src, way) ==
  IF way = NoWay THEN NoWay
  ELSE SubSeq(way, 1 + Max({i \in 0 .. Len(way) - 1 : After(src, way, i) = src}), Len(way))

CarryWay(b, src, dst) == FromLastVisit(src, CarrySearch(b, src, dst))

\* Mutant: the cell of the piece is not fixed while the selected one goes around.
CarryStepThrough(c, dir) ==
  LET next == Neighbour(c.piece, dir)
  IN  [board |-> Moved(Walk(c.board, OptimalWayTo(c.board, next)), Opposite(dir)),
       piece |-> next]

\* One step of the piece: the selected one goes around it and changes places
\* with it.  c is the board and the place of the piece.
CarryStep(c, dir) ==
  LET next == Neighbour(c.piece, dir)
      way  == OptimalWayTo(Fix(c.board, c.piece), next)
  IN  [board |-> Moved(Walk(c.board, way), Opposite(dir)), piece |-> next]

CarrySteps(c, way, i) ==
  LET at[j \in 0 .. i] == IF j = 0 THEN c ELSE CarryStep(at[j - 1], way[j]) IN at[i]

CarriedAlong(b, src, way) ==
  IF way = NoWay
  THEN [board |-> b, ok |-> FALSE]
  ELSE [board |-> CarrySteps([board |-> b, piece |-> src], way, Len(way)).board, ok |-> TRUE]

\* The board after trajectPiece(src, dst), and whether it returned true.
TrajectPiece(b, src, dst) ==
  CarriedAlong(b, src, IF src = dst THEN <<>> ELSE CarryWay(b, src, dst))
=============================================================================
