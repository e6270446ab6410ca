----------------------------- MODULE AlignBoard -----------------------------
(***************************************************************************)
(* slide::UrchinBoard, which tells what cell of the border can be settled  *)
(* next, and slide::AlignBoard, which brings its piece there and fixes it. *)
(*                                                                         *)
(* To the fields of FixBoard it adds leftMost and rightMost, of each row   *)
(* the first and the last column that are not settled.  The last two cells *)
(* of a row or a column are settled together: first the piece of the one   *)
(* is put into the other and fixed there, then both are turned in.         *)
(***************************************************************************)
EXTENDS FixBoard

Rows    == 0 .. Height - 1
Columns == 0 .. Width - 1

\* FixBoard::init and UrchinBoardBase::init
Unsettled(cell, selected) ==
  [cell |-> cell, selected |-> selected, fixed |-> {},
   leftMost |-> [i \in Rows |-> 0], rightMost |-> [i \in Rows |-> Width - 1]]

RowZero(b, row) == Cardinality({p \in Points \ b.fixed : p[1] = row})
ColZero(b, col) == Cardinality({p \in Points \ b.fixed : p[2] = col})

Fixed(b, p)   == p \in b.fixed
Strange(b, p) == Fixed(b, p) /\ b.cell[p] # p         \* fixed && !isAligned

\* Board::find
Find(b, piece) == CHOOSE p \in Points : b.cell[p] = piece

\* BitBoard::largetstRect: the rectangle without the settled rows and columns
\* at its borders
LargestRect(b) ==
  LET rows == {i \in Rows : RowZero(b, i) > 0}
      cols == {j \in Columns : ColZero(b, j) > 0}
  IN  [top |-> Min(rows), bottom |-> Max(rows), first |-> Min(cols), last |-> Max(cols)]

InRect(rect, p) == p[1] \in rect.top .. rect.bottom /\ p[2] \in rect.first .. rect.last

-----------------------------------------------------------------------------
(* UrchinBoardBase::getCandidates                                          *)

NextToStrange(b, p) == \E dir \in Directions : Strange(b, Neighbour(p, dir))

\* fixedCheck for an inner row: p would leave a dent that cannot be filled.
FixedCheck(b, rect, p) ==
  LET blocked == {dir \in Directions :
                    ~InRect(rect, Neighbour(p, dir)) \/ Fixed(b, Neighbour(p, dir))}
      opposite(i) == MapThenSumSet(LAMBDA dir : Delta(Opposite(dir))[i], blocked)
      check2  == <<p[1] + opposite(1), p[2] + opposite(2)>>
      check   == <<p[1] + 2 * opposite(1), p[2] + 2 * opposite(2)>>
      cornerwise(dy, dx) == /\ InRect(rect, <<p[1] + 2 * dy, p[2] + 2 * dx>>)
                            /\ ~Fixed(b, <<p[1], p[2] + dx>>)
                            /\ Fixed(b, <<p[1] + 2 * dy, p[2] + 2 * dx>>)
                            /\ ~Fixed(b, <<p[1] + dy, p[2] + dx>>)
  IN  \/ NextToStrange(b, p)
      \/ /\ AdjacentFixed(b, p) \notin {2, 3}
         /\ \E dy, dx \in {-1, 1} : cornerwise(dy, dx)
      \/ /\ AdjacentFixed(b, p) = 2
         /\ InRect(rect, check) /\ Fixed(b, check) /\ ~Fixed(b, check2)

\* fixedCheck for the first and the last row; the corner goes inwards by dy, dx.
FixedCheckBorder(b, rect, p, dy, dx) ==
  \/ NextToStrange(b, p)
  \/ /\ AdjacentFixed(b, p) # 3
     /\ \/ p[1] \notin {rect.top, rect.bottom} /\ RowZero(b, p[1]) = 2
        \/ p[2] \notin {rect.first, rect.last} /\ ColZero(b, p[2]) = 2
        \/ LET inner == <<p[1] + 2 * dy, p[2] + 2 * dx>>
           IN  ~InRect(rect, inner) \/ Fixed(b, inner)

\* The candidates of the first (ready: RowZero = 2) and the last row
\* (ready: RowZero <= 2); dy leads inwards.
BorderCandidates(b, rect, y, ready, dy) ==
  LET left  == <<y, b.leftMost[y]>>
      right == <<y, b.rightMost[y]>>
      open(p, edge, dx) == ~(p[2] # edge /\ ColZero(b, p[2]) = 2)
                           /\ ~FixedCheckBorder(b, rect, p, dy, dx)
  IN  IF left = right THEN {left}
      ELSE IF /\ ready
              /\ ~Strange(b, <<y, rect.first>>) /\ ~Strange(b, <<y, rect.last>>)
           THEN {left, right}
           ELSE {p \in {left} : open(p, rect.first, 1)}
                \cup {p \in {right} : open(p, rect.last, -1)}

\* An inner row; a left end in a column that is nearly full hides the right end.
InnerCandidates(b, rect, i) ==
  LET left  == <<i, b.leftMost[i]>>
      right == <<i, b.rightMost[i]>>
      isLeft  == /\ ~FixedCheck(b, rect, left)
                 /\ \E k \in {i - 1, i + 1} : b.leftMost[k] > left[2]
      isRight == /\ ~FixedCheck(b, rect, right)
                 /\ \E k \in {i - 1, i + 1} : b.rightMost[k] < right[2]
  IN  CASE right[2] - left[2] <= 1                -> {}
        [] isLeft /\ ColZero(b, left[2]) <= 2     -> {}
        [] OTHER -> {p \in {left} : isLeft}
                    \cup {p \in {right} : isRight /\ ColZero(b, right[2]) > 2}

\* The last one or two cells of the first or the last column.
ColumnCandidates(b, rect, i) ==
  {<<i, x>> : x \in {x \in {rect.first, rect.last} :
     /\ IF x = rect.first THEN b.leftMost[i] = x ELSE b.rightMost[i] = x
     /\ \/ ColZero(b, x) = 1
        \/ /\ ColZero(b, x) = 2
           /\ ~Strange(b, <<rect.top, x>>) /\ ~Strange(b, <<rect.bottom, x>>)}}

GetCandidates(b) ==
  LET rect == LargestRect(b)
      home == b.cell[b.selected]
  IN  IF rect.bottom - rect.top < 4 /\ rect.last - rect.first < 4 THEN {}
      ELSE (BorderCandidates(b, rect, rect.top, RowZero(b, rect.top) = 2, 1)
            \cup BorderCandidates(b, rect, rect.bottom, RowZero(b, rect.bottom) <= 2, -1)
            \cup UNION {InnerCandidates(b, rect, i) : i \in rect.top + 1 .. rect.bottom - 1}
            \cup UNION {ColumnCandidates(b, rect, i) : i \in rect.top .. rect.bottom})
           \ ({home} \cup {Neighbour(home, dir) : dir \in Directions})

FixCandidate(b, p) ==
  LET f == Fix(b, p)
  IN  IF b.leftMost[p[1]] = p[2] THEN [f EXCEPT !.leftMost[p[1]] = @ + 1]
                                 ELSE [f EXCEPT !.rightMost[p[1]] = @ - 1]

UnfixCandidate(b, p) ==
  LET f == Unfix(b, p)
  IN  IF b.leftMost[p[1]] - 1 = p[2] THEN [f EXCEPT !.leftMost[p[1]] = @ - 1]
                                     ELSE [f EXCEPT !.rightMost[p[1]] = @ + 1]

-----------------------------------------------------------------------------
(* AlignBoard                                                              *)

Failed(b)  == [board |-> b, ok |-> FALSE]
Done(b)    == [board |-> b, ok |-> TRUE]

InGroove(b, p) == AdjacentFixed(b, p) = 3

\* Of Up, Right, Down, Left the first neighbour that is good; Left if none is.
FirstNeighbour(p, good) ==
  LET dirs == {dir \in Directions : Neighbour(p, dir) \in good}
  IN  Neighbour(p, IF dirs = {} THEN Left ELSE Min(dirs))

\* moveOneAnyDirection
LeaveGroove(b) ==
  LET dirs == {dir \in Directions : Free(b, Neighbour(b.selected, dir))}
  IN  IF InGroove(b, b.selected) /\ dirs # {} THEN Moved(b, Min(dirs)) ELSE b

\* The fixed neighbours of src that may be given up, and what trajectPiece does then;
\* if the row or the column has no other open cell, only strange ones.
Extractions(b, src, dst) ==
  {[dir |-> dir, given |-> Neighbour(src, dir),
    carried |-> TrajectPiece(Unfix(b, Neighbour(src, dir)), src, dst)] :
     dir \in {dir \in Directions :
                /\ Fixed(b, Neighbour(src, dir))
                /\ RowZero(b, src[1]) = 1 \/ ColZero(b, src[2]) = 1
                     => Strange(b, Neighbour(src, dir))}}

\* Mutant: extractSrcPiece forgets what leftMost and rightMost say.
FirstExtractionKeepsBounds(b, successes) ==
  IF successes = {} THEN Failed(b)
  ELSE LET first == CHOOSE e \in successes : \A f \in successes : e.dir <= f.dir
       IN  Done(Unfix(first.carried.board, first.given))

FirstExtraction(b, successes) ==
  IF successes = {} THEN Failed(b)
  ELSE LET first == CHOOSE e \in successes : \A f \in successes : e.dir <= f.dir
       IN  Done(UnfixCandidate(first.carried.board, first.given))

ExtractSrcPiece(b, src, dst) ==
  FirstExtraction(b, {e \in Extractions(b, src, dst) : e.carried.ok})

\* Mutant: a piece that is in its place already is not fixed.
AlignAloneForgets(b, dst, src, carried) ==
  CASE src = dst -> Done(b)
    [] src # dst /\ carried.ok -> Done(FixCandidate(carried.board, dst))
    [] OTHER -> IF InGroove(b, src) THEN ExtractSrcPiece(b, src, dst) ELSE Failed(b)

\* Mutant: a piece that is shut in is not freed.
AlignAloneGivesUp(b, dst, src, carried) ==
  CASE src = dst -> Done(FixCandidate(b, dst))
    [] src # dst /\ carried.ok -> Done(FixCandidate(carried.board, dst))
    [] OTHER -> Failed(b)

\* numRemain > 2; an extraction does not fix dst.
AlignAlone(b, dst, src, carried) ==
  CASE src = dst -> Done(FixCandidate(b, dst))
    [] src # dst /\ carried.ok -> Done(FixCandidate(carried.board, dst))
    [] OTHER -> IF InGroove(b, src) THEN ExtractSrcPiece(b, src, dst) ELSE Failed(b)

\* The other one of the last two cells of a row or a column.
Partner(b, dst) ==
  LET next == IF RowZero(b, dst[1]) < ColZero(b, dst[2]) THEN Right ELSE Down
  IN  IF Free(b, Neighbour(dst, next)) THEN Neighbour(dst, next)
                                       ELSE Neighbour(dst, Opposite(next))

\* The piece in src is brought to dst; out of a groove by an extraction, of which the
\* result is not looked at.
Bring(b, src, dst) ==
  IF InGroove(b, src) THEN Done(ExtractSrcPiece(b, src, dst).board)
                      ELSE TrajectPiece(b, src, dst)

\* numRemain = 2: src has the piece of the partner, which is put into dst.
AlignPartner(b, dst, src, brought) ==
  IF src # b.selected /\ brought.ok THEN Done(FixCandidate(brought.board, dst))
                                    ELSE Failed(b)

\* The piece that belongs to p moves there from a neighbour, in exchange for the
\* selected one, which is in p.
PullIn(b, p) ==
  LET dirs == {dir \in Directions : LET n == Neighbour(p, dir)
                                    IN  n \in Points /\ b.cell[n] = p}
  IN  IF dirs = {} THEN [board |-> b, from |-> p, pulled |-> FALSE]
      ELSE [board |-> Moved(b, Min(dirs)), from |-> Neighbour(p, Min(dirs)), pulled |-> TRUE]

SwapWay ==
  <<Down, Right, Down, Left, Up, Up, Right, Down, Left, Down, Right, Up, Up, Left, Down>>

SelectedTo(b, p) == Walk(b, OptimalWayTo(b, p))

SwapTurned(b, first, second, dir) ==
  LET start == SelectedTo(Unfix(SelectedTo(Fix(Unfix(b, first), second), first), second), second)
      way   == [i \in DOMAIN SwapWay |-> (SwapWay[i] + dir) % 4]
  IN  Fix(Fix(Walk(start, way), first), second)

\* swapAdjacentPiece: two neighbours that stand in each other's place.
SwapAdjacentPiece(b, p, q) ==
  LET side   == IF p[2] = q[2] THEN Left ELSE Up
      dir    == IF Free(b, Neighbour(p, side)) THEN Opposite(side) ELSE side
      turned == IF side = Left THEN (q[1] < p[1]) = (dir = Left)
                               ELSE (q[2] < p[2]) = (dir = Down)
  IN  SwapTurned(b, IF turned THEN q ELSE p, IF turned THEN p ELSE q, dir)

\* The end of alignLastOne, with the piece of p at to: the selected piece goes to dst
\* and pulls in first the piece of dst, then that of p.
PullFirst(b, dst, to) == PullIn(SelectedTo(Fix(b, to), dst), dst)

PullSecond(first, dst) ==
  PullIn(IF first.pulled THEN Fix(first.board, dst) ELSE first.board, first.from)

FreeBehind(second) ==
  IF second.pulled THEN Unfix(second.board, second.from) ELSE second.board

\* alignLastOne: p is the partner of dst and holds the piece of dst; the piece of p
\* is in src and waits beside p, at to, until both are pulled in.
AlignLastOne(b, dst, p, src, to, brought) ==
  CASE src = dst -> Done(SwapAdjacentPiece(b, dst, p))
    [] src # dst /\ brought.ok ->
         Done(FreeBehind(PullSecond(PullFirst(brought.board, dst, to), dst)))
    [] OTHER -> Failed(b)

FixIfDone(r, dst) == IF r.ok THEN Done(FixCandidate(r.board, dst)) ELSE r

\* numRemain = 1
AlignLast(b, dst) ==
  LET p   == FirstNeighbour(dst, {n \in b.fixed : Strange(b, n)})
      src == Find(b, p)
      to  == FirstNeighbour(p, Points \ (b.fixed \cup {dst}))
  IN  FixIfDone(AlignLastOne(b, dst, p, src, to, Bring(b, src, to)), dst)

AlignFree(b, dst) ==
  LET remain  == Min({RowZero(b, dst[1]), ColZero(b, dst[2])})
      own     == Find(b, dst)
      partner == Find(b, Partner(b, dst))
  IN  CASE remain > 2 -> AlignAlone(b, dst, own, TrajectPiece(b, own, dst))
        [] remain = 2 -> AlignPartner(b, dst, partner, Bring(b, partner, dst))
        [] OTHER      -> AlignLast(b, dst)

\* AlignBoard::align(dst)
Align(b, dst) == AlignFree(LeaveGroove(b), dst)
=============================================================================
