--------------------------- MODULE StraightSolver ---------------------------
(***************************************************************************)
(* slide::StraightSolver: the piece of the first cell is selected and      *)
(* settles the last row or column of what is left of the board, until two  *)
(* by two cells are left.                                                  *)
(*                                                                         *)
(* A row is settled on a copy of that part of the board (cropTo), turned   *)
(* when it is a column: a record of its size, its cells, the selected      *)
(* point and the answer, whose pieces are the points of the copy.  A       *)
(* method moves the selected piece without asking whether it can; outside  *)
(* of the board a move has no value.                                       *)
(***************************************************************************)
EXTENDS FixBoard

CONSTANT StraightProblems       \* the boards to be solved

VARIABLES
  problem,        \* Problem::board
  answerBoard,    \* the AnswerBoard
  remH, remW,     \* the rows and the columns that are left
  solved          \* onCreatedAnswer was called

straightVars == <<problem, answerBoard, remH, remW, solved>>

\* AnswerBoard::move
Turned(t, dir) == [Moved(t, dir) EXCEPT !.answer = Append(@, Swap(dir))]

Go(t, way)       == FoldLeft(Turned, t, way)
GoVertically(t, y)   == Go(t, Vertically(t.selected, y))
GoHorizontally(t, x) == Go(t, Horizontally(t.selected, x))

FindIn(t, piece) == CHOOSE p \in DOMAIN t.cell : t.cell[p] = piece

-----------------------------------------------------------------------------
(* moveTargetPiece                                                         *)

\* The directions in which src comes nearer to dst, and of these the first whose
\* cell is nearest to the selected one.
Towards(src, dst) ==
  {dir \in Directions : Distance(Neighbour(src, dir), dst) < Distance(src, dst)}

PushFrom(t, src, dst) ==
  LET away(dir) == Distance(Neighbour(src, dir), t.selected)
  IN  Min({dir \in Towards(src, dst) :
             \A k \in Towards(src, dst) : away(dir) <= away(k)})

\* The piece lies between the selected one and the cell where it has to go, in
\* coordinate i.
Eclipse(sel, src, adj, i) ==
  (sel[i] <= src[i] /\ src[i] < adj[i]) \/ (adj[i] < src[i] /\ src[i] <= sel[i])

\* To the cell adj beside the piece in src, without moving that; y and x are the
\* first row and column that may be used.
GoBeside(t, src, adj, y, x) ==
  LET sel   == t.selected
      aside == CASE sel[2] = src[2] /\ src[2] = adj[2] /\ Eclipse(sel, src, adj, 1) ->
                      Turned(t, IF sel[2] = x THEN Right ELSE Left)
                 [] sel[1] = src[1] /\ src[1] = adj[1] /\ Eclipse(sel, src, adj, 2) ->
                      Turned(t, IF sel[1] = y THEN Down ELSE Up)
                 [] OTHER -> t
  IN  IF Eclipse(sel, src, adj, 1)
      THEN GoHorizontally(GoVertically(aside, adj[1]), adj[2])
      ELSE GoVertically(GoHorizontally(aside, adj[2]), adj[1])

\* The piece goes one step in direction dir; then the selected one goes round it,
\* on when the piece is level with dst and round the corner when it is not.
RECURSIVE Pull(_, _, _, _, _, _)
Pull(t, piece, dst, dir, y, x) ==
  LET pulled == Turned(t, Opposite(dir))
      i      == IF dir \in {Up, Down} THEN 2 ELSE 1
      less   == IF i = 2 THEN Left ELSE Up
      more   == Opposite(less)
      level  == pulled.selected[i] = dst[i]
      turn   == IF pulled.selected[i] < dst[i] THEN more ELSE less
      side   == IF dst[i] = (IF i = 2 THEN x ELSE y) THEN more ELSE less
  IN  CASE pulled.cell[dst] = piece -> pulled
        [] pulled.cell[dst] # piece /\ level ->
             Pull(Go(pulled, Detour(side, dir)), piece, dst, dir, y, x)
        [] OTHER -> Pull(Go(pulled, <<turn, dir>>), piece, dst, turn, y, x)

MoveTargetPiece(t, src, dst, y, x) ==
  LET dir == PushFrom(t, src, dst)
  IN  IF src = dst THEN t
      ELSE Pull(GoBeside(t, src, Neighbour(src, dir), y, x), t.cell[src], dst, dir, y, x)

-----------------------------------------------------------------------------
(* alignRow: the last row of t                                             *)

Tuck == <<Right, Down, Down, Left, Up>>

\* From above its place, where it was moved to, the piece is pulled down.
TuckIn(t, x, wasBelow) ==
  Go(CASE wasBelow -> GoHorizontally(GoVertically(t, t.height - 3), x)
       [] ~wasBelow /\ t.selected[2] = x - 1 -> Go(t, <<Up, Right>>)
       [] OTHER -> t,
     Tuck)

Raised(t, row) == IF t.selected[1] = row THEN Turned(t, Up) ELSE t

\* The piece of column x, which is not one of the last two, is in src.
PlaceInRow(t, x, src) ==
  LET dst    == <<t.height - 1, x>>
      above  == <<t.height - 2, x>>
      selX   == t.selected[2]
      direct == x < src[2] \/ (src[2] = x /\ x <= selX)
      near(far) == IF far THEN GoHorizontally(t, x) ELSE t
  IN  CASE src = dst -> t
        [] src # dst /\ direct -> MoveTargetPiece(near(selX < x), src, dst, 0, x)
        [] OTHER -> TuckIn(MoveTargetPiece(IF src[2] = x THEN t ELSE Raised(near(x < selX), dst[1]),
                                           src, above, 0, 0),
                           x, src[2] = x)

AlignCell(t, x) == PlaceInRow(t, x, FindIn(t, <<t.height - 1, x>>))

LastColumn(t)  == t.width - 1
LastRow(t)     == t.height - 1
Corner(t)      == <<LastRow(t), LastColumn(t)>>
BeforeCorner(t) == <<LastRow(t), LastColumn(t) - 1>>
InLastRow(t)   == t.selected[1] = LastRow(t)

\* The selected piece goes down before the corner and pulls the piece above it in.
PullDown(t) ==
  Go(GoVertically(GoHorizontally(t, LastColumn(t) - 1), LastRow(t)), <<Right, Up>>)

\* The last but one: its piece is put into the corner.
AlignLastButOne(t) ==
  LET src    == FindIn(t, BeforeCorner(t))
      corner == Corner(t)
  IN  CASE src = corner -> t
        [] src # corner /\ src[1] = corner[1] ->
             Turned(GoVertically(GoHorizontally(t, LastColumn(t)), LastRow(t)), Left)
        [] src[1] # corner[1] /\ InLastRow(t) /\ LastColumn(t) - 1 <= src[2] ->
             MoveTargetPiece(t, src, corner, 0, LastColumn(t) - 1)
        [] OTHER -> PullDown(MoveTargetPiece(Raised(t, corner[1]), src, <<corner[1] - 1, corner[2]>>, 0, 0))

RoundWide   == <<Left, Left, Down, Right, Right, Up, Left, Down, Left, Up>>
RoundNarrow == <<Left, Up, Right, Down, Down, Left, Up, Right, Up, Left, Down, Down, Right, Up>>

AlignLastUp(t, corner) ==
  IF ~InLastRow(t) /\ t.cell[BeforeCorner(t)] # corner
  THEN PullDown(MoveTargetPiece(t, FindIn(t, corner), <<corner[1] - 1, corner[2]>>, 0, 0))
  ELSE Go(PullDown(t), IF t.width >= 3 THEN RoundWide ELSE RoundNarrow)

\* The last: its piece comes above the corner and both are pulled in; when it is
\* too near they are turned round.
AlignTheLast(t) ==
  LET corner == Corner(t)
  IN  AlignLastUp(IF t.cell[<<corner[1] - 1, corner[2] - 1>>] # corner
                  THEN Raised(t, corner[1]) ELSE t, corner)

AlignLastTwo(t) ==
  LET corner == Corner(t)
      last   == BeforeCorner(t)
  IN  CASE t.cell[corner] = corner /\ t.cell[last] = last -> t
        [] /\ t.cell[corner] = corner /\ t.cell[last] # last
           /\ t.cell[<<last[1] - 1, last[2]>>] = last /\ t.selected = last -> Turned(t, Up)
        [] OTHER -> AlignTheLast(AlignLastButOne(t))

AlignRow(t) == AlignLastTwo(FoldLeft(AlignCell, t, [i \in 1 .. t.width - 2 |-> i - 1]))

-----------------------------------------------------------------------------
(* cropTo and restore: topSide is Up for a row and Left for a column.      *)

\* Point::rotateFlip without flips: rotateCW for Left, rotateCCW for Right
RotateCW(p, h)  == <<p[2], h - p[1] - 1>>
RotateCCW(p, w) == <<w - p[2] - 1, p[1]>>

CropTo(b, h, w, topSide) ==
  LET turned(p) == IF topSide = Up THEN p ELSE RotateCW(p, h)
      origin(p) == IF topSide = Up THEN p ELSE RotateCCW(p, h)
      height    == IF topSide = Up THEN h ELSE w
      width     == IF topSide = Up THEN w ELSE h
  IN  [height |-> height, width |-> width,
       cell |-> [p \in (0 .. height - 1) \X (0 .. width - 1) |-> turned(b.cell[origin(p)])],
       selected |-> turned(b.selected), answer |-> <<>>]

\* Mutant: the directions of the answer are not turned back.
RestoreKeepsDirections(t, b, topSide) ==
  LET turned(p) == IF topSide = Up THEN p ELSE RotateCCW(p, t.width)
      origin(p) == IF topSide = Up THEN p ELSE RotateCW(p, t.width)
  IN  [b EXCEPT !.cell = [p \in Points |-> IF origin(p) \in DOMAIN t.cell
                                           THEN turned(t.cell[origin(p)]) ELSE @[p]],
                !.selected = turned(t.selected),
                !.answer = @ \o t.answer]

Restore(t, b, topSide) ==
  LET turned(p) == IF topSide = Up THEN p ELSE RotateCCW(p, t.width)
      origin(p) == IF topSide = Up THEN p ELSE RotateCW(p, t.width)
  IN  [b EXCEPT !.cell = [p \in Points |-> IF origin(p) \in DOMAIN t.cell
                                           THEN turned(t.cell[origin(p)]) ELSE @[p]],
                !.selected = turned(t.selected),
                !.answer = @ \o [i \in DOMAIN t.answer |->
                                   Swap((t.answer[i].direction + topSide) % 4)]]

-----------------------------------------------------------------------------
(* solve                                                                   *)

StraightInit ==
  /\ problem \in StraightProblems
  /\ LET selected == CHOOSE p \in Points : problem[p] = <<0, 0>>
     IN  answerBoard = [cell |-> problem, selected |-> selected, answer |-> <<Selection(selected)>>]
  /\ remH = Height
  /\ remW = Width
  /\ solved = FALSE

AlignSide ==
  /\ remH > 2 \/ remW > 2
  /\ LET topSide == IF remH >= remW THEN Up ELSE Left
     IN  /\ answerBoard' = Restore(AlignRow(CropTo(answerBoard, remH, remW, topSide)), answerBoard, topSide)
         /\ remH' = IF topSide = Up THEN remH - 1 ELSE remH
         /\ remW' = IF topSide = Up THEN remW ELSE remW - 1
  /\ UNCHANGED <<problem, solved>>

\* Mutant: the second selection is forgotten.
Align2x2SelectsOnce ==
  LET first == GoHorizontally(GoVertically(answerBoard, 0), 0)
  IN  CASE first.cell[<<1, 0>>] = <<0, 1>> -> Go(first, <<Down, Right, Up, Left>>)
        [] first.cell[<<1, 1>>] = <<0, 1>> -> Go(first, <<Right, Down, Left, Up>>)
        [] OTHER -> first

\* The last four: the piece at the right of the first is turned in; if the other two
\* are exchanged, one of them is selected.
Align2x2 ==
  LET first  == GoHorizontally(GoVertically(answerBoard, 0), 0)
      second == CASE first.cell[<<1, 0>>] = <<0, 1>> -> Go(first, <<Down, Right, Up, Left>>)
                  [] first.cell[<<1, 1>>] = <<0, 1>> -> Go(first, <<Right, Down, Left, Up>>)
                  [] OTHER -> first
  IN  IF second.cell[<<1, 0>>] = <<1, 0>> THEN second
      ELSE Turned([second EXCEPT !.selected = <<1, 0>>,
                                 !.answer = Append(@, Selection(<<1, 0>>))], Right)

Finish ==
  /\ remH = 2 /\ remW = 2 /\ ~solved
  /\ answerBoard' = [Align2x2 EXCEPT !.answer = Optimize(@)]
  /\ solved' = TRUE
  /\ UNCHANGED <<problem, remH, remW>>

StraightNext == AlignSide \/ Finish

-----------------------------------------------------------------------------
(* Properties                                                              *)

\* The rows and the columns that were cut off stay as they are, their pieces in
\* their places, and the answer so far leads from the problem to the board: what is
\* done to the turned copy is done to the board.
StraightAnswerFits ==
  LET sim == Simulate(problem, 2, answerBoard.answer)
  IN  /\ ~solved => sim.valid /\ sim.cell = answerBoard.cell /\ sim.selected = answerBoard.selected
      /\ \A p \in Points : p[1] >= remH \/ p[2] >= remW => answerBoard.cell[p] = p

\* The answer is accepted by the judge, with no more than two selections.
StraightSolves == solved => Correct(problem, 2, answerBoard.answer)
=============================================================================
