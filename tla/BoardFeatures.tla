---------------------------- MODULE BoardFeatures ----------------------------
(***************************************************************************)
(* The features by which slide::KurageBoard and slide::WhaleBoard judge a  *)
(* board: LinearConflictFeature, VarianceFeature, SquaredManhattanFeature, *)
(* its restricted form, WeightedManhattanFeature and KurageHashFeature.    *)
(* Each is computed once from the whole board, by init(), and changed by   *)
(* move() and select() from the cells around the selected piece only.      *)
(*                                                                         *)
(* The operations take the board as PlayBoard has it after the move or the *)
(* selection, like the functions they stand for.  The float of the         *)
(* weighted distances is an integer here, multiplied by 2 (H + W - 2), and *)
(* a hash is the set of the random numbers of which it is the exclusive or.*)
(***************************************************************************)
EXTENDS AdmissibleBoard

CONSTANT FixedArea    \* homes in the rectangle of RestrictedSquaredManhattanFeature

ASSUME FixedAreaAssumption == FixedArea \subseteq Points

Unselected(b) == Points \ {b.selected}

SumOver(f(_), S) == MapThenSumSet(f, S)

One(condition) == IF condition THEN 1 ELSE 0

-----------------------------------------------------------------------------
(* What init() and compute() find.                                         *)

\* The pieces at p and q are in their row, or their column, and in the wrong order.
RowConflict(cell, p, q) ==
  /\ cell[p][1] = p[1] /\ cell[q][1] = p[1] /\ q[1] = p[1]
  /\ q[2] < p[2] /\ cell[p][2] < cell[q][2]

ColumnConflict(cell, p, q) ==
  /\ cell[p][2] = p[2] /\ cell[q][2] = p[2] /\ q[2] = p[2]
  /\ q[1] < p[1] /\ cell[p][1] < cell[q][1]

LinearConflict(b) ==
  SumOver(LAMBDA pq : One(RowConflict(b.cell, pq[1], pq[2]))
                      + One(ColumnConflict(b.cell, pq[1], pq[2])),
          Unselected(b) \X Unselected(b))

Misplaced(b) == {p \in Unselected(b) : b.cell[p] # p}

Variance(b) ==
  [squaredSum |-> SumOver(LAMBDA p : p[1] * p[1] + p[2] * p[2], Misplaced(b)),
   sum_y      |-> SumOver(LAMBDA p : p[1], Misplaced(b)),
   sum_x      |-> SumOver(LAMBDA p : p[2], Misplaced(b)),
   cnt        |-> Cardinality(Misplaced(b))]

\* getCoefficient() of a piece with its home outside of the area, or anywhere.
Squared(b, area) ==
  SumOver(LAMBDA p : Distance(p, b.cell[p]) * Distance(p, b.cell[p]),
          {p \in Unselected(b) : b.cell[p] \notin area})

Weight(home) ==
  Absolute(2 * home[1] - (Height - 1)) + Absolute(2 * home[2] - (Width - 1)) + 2 * (Height + Width - 2)

Weighted(b) ==
  SumOver(LAMBDA p : Weight(b.cell[p]) * Distance(p, b.cell[p]), Unselected(b))

SelHash(b) == IF IsSelected(b.selected) THEN {<<b.cell[b.selected]>>} ELSE {}

Xor(h, k) == (h \ k) \cup (k \ h)

Hash(b) == Xor({<<b.cell[p], p>> : p \in Points}, SelHash(b))

Features(b) ==
  [linearConflict |-> LinearConflict(b), variance |-> Variance(b),
   squared |-> Squared(b, {}), restricted |-> Squared(b, FixedArea),
   weighted |-> Weighted(b), selHash |-> SelHash(b), hash |-> Hash(b)]

-----------------------------------------------------------------------------
(* What move() and select() change.  src is the place of the piece that    *)
(* gave way before the move, which is the selected place now, and dst its  *)
(* place now.                                                              *)

\* computeHorizotally(), computeVertically(): the conflicts of a piece at p that
\* belongs at home with the other pieces of the row, or the column, of p.  The
\* piece that is at p itself is not looked at.
Horizontally(b, p, home) ==
  Cardinality({q \in Points : /\ q[1] = p[1] /\ b.cell[q][1] = p[1]
                              /\ \/ q[2] < p[2] /\ home[2] < b.cell[q][2]
                                 \/ q[2] > p[2] /\ home[2] > b.cell[q][2]})

Vertically(b, p, home) ==
  Cardinality({q \in Points : /\ q[2] = p[2] /\ b.cell[q][2] = p[2]
                              /\ \/ q[1] < p[1] /\ home[1] < b.cell[q][1]
                                 \/ q[1] > p[1] /\ home[1] > b.cell[q][1]})

\* Mutant: the conflicts the piece leaves behind are not taken away.
LinearConflictMovedIn(b, dir, src, dst) ==
  LET home == b.cell[dst]
  IN  IF dir \in {Up, Down}
      THEN IF home[1] = dst[1] THEN Horizontally(b, dst, home) ELSE 0
      ELSE IF home[2] = dst[2] THEN Vertically(b, dst, home) ELSE 0

LinearConflictMoved(b, dir, src, dst) ==
  LET home == b.cell[dst]
  IN  CASE dir \in {Up, Down} /\ home[1] = src[1] -> -Horizontally(b, src, home)
        [] dir \in {Up, Down} /\ home[1] = dst[1] -> Horizontally(b, dst, home)
        [] dir \in {Left, Right} /\ home[2] = src[2] -> -Vertically(b, src, home)
        [] dir \in {Left, Right} /\ home[2] = dst[2] -> Vertically(b, dst, home)
        [] OTHER -> 0

Conflicts(b, p) ==
  LET home == b.cell[p]
  IN  (IF home[1] = p[1] THEN Horizontally(b, p, home) ELSE 0)
    + (IF home[2] = p[2] THEN Vertically(b, p, home) ELSE 0)

\* select() reads the cell of the piece selected before even if there is none;
\* whatever it reads there is in row 0 or below, so that nothing is added.
LinearConflictSelected(b, pre) ==
  (IF IsSelected(pre) THEN Conflicts(b, pre) ELSE 0) - Conflicts(b, b.selected)

VarianceAdd(v, p) ==
  [squaredSum |-> v.squaredSum + (p[1] * p[1] + p[2] * p[2]),
   sum_y |-> v.sum_y + p[1], sum_x |-> v.sum_x + p[2], cnt |-> v.cnt + 1]

VarianceRemove(v, p) ==
  [squaredSum |-> v.squaredSum - (p[1] * p[1] + p[2] * p[2]),
   sum_y |-> v.sum_y - p[1], sum_x |-> v.sum_x - p[2], cnt |-> v.cnt - 1]

VarianceMoved(v, b, src, dst) ==
  LET removed == IF b.cell[dst] # src THEN VarianceRemove(v, src) ELSE v
  IN  IF b.cell[dst] # dst THEN VarianceAdd(removed, dst) ELSE removed

VarianceSelected(v, b, pre) ==
  LET added == IF IsSelected(pre) /\ b.cell[pre] # pre THEN VarianceAdd(v, pre) ELSE v
  IN  IF b.cell[b.selected] # b.selected THEN VarianceRemove(added, b.selected) ELSE added

Coefficient(home, area) == One(home \notin area)

SquaredMoved(b, dir, src, dst, area) ==
  LET home == b.cell[dst]
  IN  Coefficient(home, area) * (2 * Step(src, home, Opposite(dir)) * Distance(dst, home) - 1)

SquaredOf(b, p, area) ==
  Coefficient(b.cell[p], area) * Distance(p, b.cell[p]) * Distance(p, b.cell[p])

SquaredSelected(b, pre, area) ==
  (IF IsSelected(pre) THEN SquaredOf(b, pre, area) ELSE 0) - SquaredOf(b, b.selected, area)

\* Only moveUp() changes the distance by one.
WeightedMoved(b, dir, src, dst) ==
  LET home == b.cell[dst]
  IN  Weight(home) * Step(src, home, Opposite(dir)) * (IF dir = Up THEN 1 ELSE 2)

WeightedSelected(b, pre) ==
    (IF IsSelected(pre) THEN Weight(b.cell[pre]) * Distance(pre, b.cell[pre]) ELSE 0)
  - Weight(b.cell[b.selected]) * Distance(b.selected, b.cell[b.selected])

HashMoved(hash, b, src, dst) ==
  Xor(hash, {<<b.cell[src], src>>, <<b.cell[src], dst>>, <<b.cell[dst], src>>, <<b.cell[dst], dst>>})

\* KurageBoard::move and WhaleBoard::move, on the board after PlayBoard::move.
FeaturesMoved(f, b, dir) ==
  LET src == b.selected
      dst == Neighbour(src, Opposite(dir))
  IN  [linearConflict |-> f.linearConflict + LinearConflictMoved(b, dir, src, dst),
       variance       |-> VarianceMoved(f.variance, b, src, dst),
       squared        |-> f.squared + SquaredMoved(b, dir, src, dst, {}),
       restricted     |-> f.restricted + SquaredMoved(b, dir, src, dst, FixedArea),
       weighted       |-> f.weighted + WeightedMoved(b, dir, src, dst),
       selHash        |-> f.selHash,
       hash           |-> HashMoved(f.hash, b, src, dst)]

\* KurageBoard::select and WhaleBoard::select; pre was selected before.
FeaturesSelected(f, b, pre) ==
  LET selHash == {<<b.cell[b.selected]>>}
  IN  [linearConflict |-> f.linearConflict + LinearConflictSelected(b, pre),
       variance       |-> VarianceSelected(f.variance, b, pre),
       squared        |-> f.squared + SquaredSelected(b, pre, {}),
       restricted     |-> f.restricted + SquaredSelected(b, pre, FixedArea),
       weighted       |-> f.weighted + WeightedSelected(b, pre),
       selHash        |-> selHash,
       hash           |-> Xor(Xor(f.hash, f.selHash), selHash)]

-----------------------------------------------------------------------------

Unweighted(f) == [f EXCEPT !.weighted = 0]

\* Whatever move or selection comes next, the features found from the few cells
\* around it are those of the whole new board: the conflicts, the four sums of the
\* variance (the 16 bits of them never overflow), the squares inside and outside of
\* the fixed area and the hash, in which nothing of an earlier selection is left.
\* The weighted distance is exact after a selection and after a move up, and after
\* the other moves it has changed twice as much as the board has.
FeaturesExact ==
  LET f == Features(board) IN
  /\ \A dir \in Directions : ValidMove(board.selected, dir) =>
       LET b == Moved(board, dir)
           g == FeaturesMoved(f, b, dir)
       IN  /\ Unweighted(g) = Unweighted(Features(b))
           /\ g.weighted - f.weighted = (IF dir = Up THEN 1 ELSE 2) * (Weighted(b) - f.weighted)
  /\ \A p \in Points :
       LET b == Selected(board, p) IN FeaturesSelected(f, b, board.selected) = Features(b)
=============================================================================
