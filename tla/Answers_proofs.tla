---------------------------- MODULE Answers_proofs ----------------------------
(***************************************************************************)
(* Proofs about how answers are made and used: Answer::optimize() keeps    *)
(* the play of every answer it is given and makes it no longer; the answer *)
(* of the beam search (KurageSolver) is one that the judge accepts, and    *)
(* the boards that the search leaves behind would have given no cheaper    *)
(* one; and in the tree of answers (AnswerTree) every board finds its own. *)
(***************************************************************************)
EXTENDS AnswerOptimize, KurageSolver, AnswerTree, Answer_proofs

-----------------------------------------------------------------------------
(* Answer::optimize() at work.                                             *)

\* The play of the answer that is read, as the judge's simulation of it.
RawPlay == [cell |-> raw.cell, selected |-> raw.selected,
            remain |-> MaxSelections - raw.selections, valid |-> TRUE]

\* The judge before the answer.
OptimizeBase == CheckBegin(FinishedState, MaxSelections)

\* The play of the answer read so far.
RawType ==
  raw \in [cell : Cells, selected : Points, selections : 1 .. MaxSelections, swaps : Nat]

\* newans keeps the play; and its moves and the selections that it has spared are
\* no more than the swaps read.
LoopKeeps ==
  /\ Keeps(OptimizeBase, opt, RawPlay)
  /\ Len(opt.ans) + Simulated(OptimizeBase, opt.ans).remain <= raw.swaps + MaxSelections

\* The result is the end of optimize().
ResultIsEnd == result # Unfinished => result = OptimizeEnd(opt)

\* The inductive invariant of the reading of an answer.
OptimizeInv == RawType /\ LoopKeeps /\ ResultIsEnd

\* The judge accepts what has been read.
LEMMA OptimizeTypes ==
  ASSUME RawType
  PROVE  /\ OptimizeBase \in PlayStates /\ OptimizeBase.valid /\ OptimizeBase.selected = NoPoint
         /\ OptimizeBase.remain = MaxSelections /\ OptimizeBase.cell = FinishedState
         /\ RawPlay \in PlayStates /\ RawPlay.valid
<1>1. FinishedState \in Cells
  BY DEF FinishedState, Cells
<1>2. OptimizeBase \in PlayStates
  BY <1>1, BoundAssumption DEF OptimizeBase, CheckBegin, PlayStates
<1>3. MaxSelections - raw.selections \in Nat
  BY BoundAssumption DEF RawType
<1>4. RawPlay \in PlayStates
  BY <1>3 DEF RawType, RawPlay, PlayStates
<1> QED
  BY <1>2, <1>4 DEF OptimizeBase, CheckBegin, RawPlay

\* Nothing has been read and nothing kept.
LEMMA OptimizeBegins == OptimizeInit => OptimizeInv
<1> SUFFICES ASSUME OptimizeInit PROVE OptimizeInv
  OBVIOUS
<1>1. PICK p \in Points :
        /\ opt = OptimizeBegin(Selection(p))
        /\ raw = [cell |-> FinishedState, selected |-> p, selections |-> 1, swaps |-> 0]
        /\ result = Unfinished
  BY DEF OptimizeInit
<1>2. RawType
  <2>1. FinishedState \in Cells
    BY DEF FinishedState, Cells
  <2> QED
    BY <1>1, <2>1, BoundAssumption DEF RawType
<1> DEFINE s == CheckStep(OptimizeBase, Selection(p))
<1>3. s = RawPlay
  <2>1. s = [cell |-> FinishedState, selected |-> p, remain |-> MaxSelections - 1, valid |-> TRUE]
    BY <1>2, OptimizeTypes, SelectStep, BoundAssumption
  <2> QED
    BY <1>1, <2>1 DEF RawPlay
<1>4. /\ Keeps(OptimizeBase, opt, s) /\ Len(opt.ans) = 1
      /\ Simulated(OptimizeBase, opt.ans) = s
  <2>1. s.valid
    BY <1>2, <1>3, OptimizeTypes
  <2> QED
    BY <1>1, <1>2, <2>1, OptimizeTypes, BeginKeeps
<1>5. Len(opt.ans) + Simulated(OptimizeBase, opt.ans).remain <= raw.swaps + MaxSelections
  <2>1. s.remain = MaxSelections - 1 /\ raw.swaps = 0
    BY <1>1, <1>3 DEF RawPlay
  <2> HIDE DEF s
  <2> QED
    BY <1>4, <2>1, BoundAssumption
<1> QED
  BY <1>1, <1>2, <1>3, <1>4, <1>5 DEF OptimizeInv, LoopKeeps, ResultIsEnd

\* No step disturbs the invariant.
LEMMA OptimizeGoesOn == OptimizeInv /\ [OptimizeNext]_vars => OptimizeInv'
<1> SUFFICES ASSUME OptimizeInv, [OptimizeNext]_vars PROVE OptimizeInv'
  OBVIOUS
<1> DEFINE base == OptimizeBase
           kept == Simulated(base, opt.ans)
<1>1. RawType /\ Keeps(base, opt, RawPlay) /\ Len(opt.ans) + kept.remain <= raw.swaps + MaxSelections
  BY DEF OptimizeInv, LoopKeeps
<1>2. /\ base \in PlayStates /\ base.valid /\ RawPlay \in PlayStates /\ RawPlay.valid
  BY <1>1, OptimizeTypes
<1>3. ASSUME NEW m \in Moves, CheckStep(RawPlay, m).valid, opt' = OptimizeStep(opt, m),
             RawType', RawPlay' = CheckStep(RawPlay, m),
             raw'.selections + raw'.swaps = raw.selections + raw.swaps + 1,
             UNCHANGED result, result = Unfinished
      PROVE  OptimizeInv'
  <2> DEFINE o == OptimizeStep(opt, m)
             s == CheckStep(RawPlay, m)
  <2>1. /\ Keeps(base, o, s)
        /\ Len(o.ans) + Simulated(base, o.ans).remain + RawPlay.remain
             <= Len(opt.ans) + kept.remain + s.remain + 1
    BY <1>1, <1>2, <1>3, KeepsMove
  <2>2. base' = base
    BY DEF OptimizeBase
  <2>3. Keeps(base, opt, RawPlay)'
    BY <1>3, <2>1, <2>2
  <2>4. /\ Len(opt.ans) \in Nat /\ kept.remain \in Nat
        /\ Len(o.ans) \in Nat /\ Simulated(base, o.ans).remain \in Nat
    <3> HIDE DEF o, s, base
    <3>1. opt.ans \in Seq(Moves) /\ o.ans \in Seq(Moves)
      BY <1>1, <2>1 DEF Keeps, LoopInv
    <3>2. kept \in PlayStates /\ Simulated(base, o.ans) \in PlayStates
      BY <1>2, <3>1, SimulationType
    <3> HIDE DEF kept
    <3> QED
      BY <3>1, <3>2, LenProperties DEF PlayStates
  <2>5. /\ RawPlay.remain = MaxSelections - raw.selections
        /\ s.remain = MaxSelections - raw'.selections
    BY <1>3 DEF RawPlay
  <2>6. raw.selections \in Nat /\ raw'.selections \in Nat /\ raw.swaps \in Nat /\ raw'.swaps \in Nat
        /\ MaxSelections \in Nat
    BY <1>1, <1>3, BoundAssumption DEF RawType
  <2> DEFINE a == Len(o.ans)
             b == Simulated(base, o.ans).remain
             c == Len(opt.ans)
             d == kept.remain
  <2>7. a + b <= raw'.swaps + MaxSelections
    <3>1. ASSUME NEW i \in Nat, NEW j \in Nat, NEW k \in Nat, NEW l \in Nat, NEW n \in Nat,
                 NEW x \in Nat, NEW y \in Nat, NEW u \in Nat, NEW v \in Nat,
                 i + j + (n - x) <= k + l + (n - y) + 1, k + l <= u + n, y + v = x + u + 1
          PROVE  i + j <= v + n
      BY ONLY <3>1
    <3>2. a + b + (MaxSelections - raw.selections) <= c + d + (MaxSelections - raw'.selections) + 1
      BY ONLY <2>1, <2>5
    <3>3. c + d <= raw.swaps + MaxSelections
      BY <1>1
    <3> HIDE DEF a, b, c, d
    <3>4. a \in Nat /\ b \in Nat /\ c \in Nat /\ d \in Nat
      BY <2>4 DEF a, b, c, d
    <3> QED
      BY ONLY <3>1, <3>2, <3>3, <3>4, <2>6, <1>3
  <2>8. (Len(opt.ans) + Simulated(base, opt.ans).remain <= raw.swaps + MaxSelections)'
    BY <1>3, <2>2, <2>7
  <2> HIDE DEF base
  <2>9. LoopKeeps'
    BY <2>2, <2>3, <2>8 DEF LoopKeeps, base
  <2> QED
    BY <1>3, <2>9 DEF OptimizeInv, ResultIsEnd
<1>4. ASSUME NEW p \in Points, ReadSelection(p) PROVE OptimizeInv'
  <2> DEFINE m == Selection(p)
  <2>1. /\ result = Unfinished /\ raw.selections < MaxSelections
        /\ opt' = OptimizeStep(opt, m) /\ UNCHANGED result
        /\ raw' = [raw EXCEPT !.selected = p, !.selections = raw.selections + 1]
    BY <1>4 DEF ReadSelection
  <2>2. /\ raw.cell \in Cells /\ raw.selected \in Points /\ raw.swaps \in Nat
        /\ raw.selections \in 1 .. MaxSelections
        /\ raw = [cell |-> raw.cell, selected |-> raw.selected,
                  selections |-> raw.selections, swaps |-> raw.swaps]
    BY <1>1 DEF RawType
  <2>3. raw' = [cell |-> raw.cell, selected |-> p, selections |-> raw.selections + 1,
                swaps |-> raw.swaps]
    BY <2>1, <2>2
  <2>4. RawType'
    BY <2>1, <2>2, <2>3, BoundAssumption DEF RawType
  <2>5. RawPlay.remain = MaxSelections - raw.selections /\ RawPlay.remain # 0
    BY <2>1, <2>2, BoundAssumption DEF RawPlay
  <2>6. CheckStep(RawPlay, m) = [cell |-> RawPlay.cell, selected |-> p,
                                 remain |-> RawPlay.remain - 1, valid |-> TRUE]
    BY <1>2, <2>5, SelectStep
  <2>7. RawPlay' = CheckStep(RawPlay, m)
    <3>1. RawPlay' = [cell |-> raw.cell, selected |-> p,
                      remain |-> MaxSelections - (raw.selections + 1), valid |-> TRUE]
      BY <2>3 DEF RawPlay
    <3>2. RawPlay.remain - 1 = MaxSelections - (raw.selections + 1) /\ RawPlay.cell = raw.cell
      BY <2>2, <2>5, BoundAssumption DEF RawPlay
    <3> QED
      BY <2>6, <3>1, <3>2
  <2>8. m \in Moves /\ CheckStep(RawPlay, m).valid
    BY <2>6, MoveTypes
  <2>9. raw'.selections + raw'.swaps = raw.selections + raw.swaps + 1
    BY <2>2, <2>3
  <2> HIDE DEF m
  <2> QED
    BY <1>3, <2>1, <2>4, <2>7, <2>8, <2>9
<1>5. ASSUME NEW dir \in Directions, ReadSwap(dir) PROVE OptimizeInv'
  <2> DEFINE m    == Swap(dir)
             next == Neighbour(raw.selected, dir)
             cell == Swapped(raw.cell, raw.selected, next)
  <2>1. /\ result = Unfinished /\ ValidMove(raw.selected, dir)
        /\ opt' = OptimizeStep(opt, m) /\ UNCHANGED result
        /\ raw' = [raw EXCEPT !.cell = cell, !.selected = next, !.swaps = raw.swaps + 1]
    BY <1>5 DEF ReadSwap
  <2>2. /\ raw.cell \in Cells /\ raw.selected \in Points /\ raw.swaps \in Nat
        /\ raw.selections \in 1 .. MaxSelections
        /\ raw = [cell |-> raw.cell, selected |-> raw.selected,
                  selections |-> raw.selections, swaps |-> raw.swaps]
    BY <1>1 DEF RawType
  <2>3. next \in Points
    BY <2>1 DEF ValidMove
  <2>4. cell \in Cells
    <3> HIDE DEF next
    <3> QED
      BY <2>2, <2>3, SwappedCells
  <2>5. CheckStep(RawPlay, m) = [cell |-> cell, selected |-> next,
                                 remain |-> RawPlay.remain, valid |-> TRUE]
    <3>1. RawPlay.selected = raw.selected /\ RawPlay.cell = raw.cell
      BY DEF RawPlay
    <3> QED
      BY <1>2, <2>1, <3>1, SwapStep
  <2> HIDE DEF next, cell
  <2>6. raw' = [cell |-> cell, selected |-> next, selections |-> raw.selections,
                swaps |-> raw.swaps + 1]
    BY <2>1, <2>2
  <2>7. RawType'
    BY <2>2, <2>3, <2>4, <2>6 DEF RawType
  <2>8. RawPlay' = CheckStep(RawPlay, m)
    BY <2>5, <2>6 DEF RawPlay
  <2>9. m \in Moves /\ CheckStep(RawPlay, m).valid
    BY <2>5, MoveTypes
  <2>10. raw'.selections + raw'.swaps = raw.selections + raw.swaps + 1
    BY <2>2, <2>6
  <2> HIDE DEF m
  <2> QED
    BY <1>3, <2>1, <2>7, <2>8, <2>9, <2>10
<1>6. CASE Finish
  <2>1. UNCHANGED <<opt, raw>> /\ result' = OptimizeEnd(opt)
    BY <1>6 DEF Finish
  <2> QED
    BY <2>1 DEF OptimizeInv, RawType, LoopKeeps, ResultIsEnd, RawPlay, OptimizeBase
<1>7. CASE UNCHANGED vars
  BY <1>7 DEF vars, OptimizeInv, RawType, LoopKeeps, ResultIsEnd, RawPlay, OptimizeBase
<1> QED
  BY <1>4, <1>5, <1>6, <1>7 DEF OptimizeNext

\* The invariant of optimize() holds in every step of its loop.
THEOREM OptimizeInvariant == OptimizeSpec => []OptimizeInv
<1> QED
  BY OptimizeBegins, OptimizeGoesOn, PTL DEF OptimizeSpec

\* What the loop keeps in every step says that newans is the same play.
THEOREM SamePlayAlways == OptimizeSpec => []SamePlay
<1>1. OptimizeInv => SamePlay
  <2> SUFFICES ASSUME OptimizeInv PROVE SamePlay
    OBVIOUS
  <2>1. SameEnd(OptimizeBase, opt.ans, RawPlay)
    BY DEF OptimizeInv, LoopKeeps, Keeps
  <2>2. Played(opt.ans) = Simulated(OptimizeBase, opt.ans)
    BY DEF Played, Simulate, Simulated, OptimizeBase
  <2> QED
    BY <2>1, <2>2 DEF SamePlay, SameEnd, RawPlay
<1> QED
  BY <1>1, OptimizeInvariant, PTL

\* The turns that rot counts are at the end of newans, behind a move that is
\* still there, in every step of the loop.
THEOREM RotCountsTurnsAlways == OptimizeSpec => []RotCountsTurns
<1>1. OptimizeInv => RotCountsTurns
  BY DEF OptimizeInv, LoopKeeps, Keeps, LoopInv, TurnsCounted, RotCountsTurns
<1> QED
  BY <1>1, OptimizeInvariant, PTL

\* No two selections follow each other in newans.
THEOREM NoAdjacentSelectionsAlways == OptimizeSpec => []NoAdjacentSelections
<1>1. OptimizeInv => NoAdjacentSelections
  BY DEF OptimizeInv, LoopKeeps, Keeps, LoopInv, NoneInARow, NoAdjacentSelections
<1> QED
  BY <1>1, OptimizeInvariant, PTL

\* The result has neither more selections nor more swaps than the answer that
\* was given, and is played without error to the same board.
THEOREM ResultNoWorseAlways == OptimizeSpec => []ResultNoWorse
<1>1. OptimizeInv => ResultNoWorse
  <2> SUFFICES ASSUME OptimizeInv, result # Unfinished
               PROVE  /\ SelectionCount(result) <= raw.selections
                      /\ SwapCount(result) <= raw.swaps
                      /\ Played(result).valid
                      /\ Played(result).cell = raw.cell
    BY DEF ResultNoWorse
  <2> DEFINE base == OptimizeBase
             kept == Simulated(base, opt.ans)
             done == Simulated(base, result)
  <2>1. /\ RawType /\ Keeps(base, opt, RawPlay) /\ result = OptimizeEnd(opt)
        /\ Len(opt.ans) + kept.remain <= raw.swaps + MaxSelections
    BY DEF OptimizeInv, LoopKeeps, ResultIsEnd
  <2>2. /\ LoopInv(opt) /\ opt.ans \in Seq(Moves) /\ kept.valid /\ kept.cell = raw.cell
        /\ kept.remain >= MaxSelections - raw.selections
    BY <2>1 DEF Keeps, LoopInv, SameEnd, RawPlay
  <2>3. /\ base \in PlayStates /\ base.valid /\ base.remain = MaxSelections
    BY <2>1, OptimizeTypes
  <2> HIDE DEF base
  <2>4. /\ result \in Seq(Moves) /\ done.valid /\ done.cell = kept.cell
        /\ Len(result) + done.remain <= Len(opt.ans) + kept.remain
        /\ done.remain >= kept.remain
    BY <2>1, <2>2, <2>3, EndKeeps
  <2>5. /\ SelectionCount(result) = MaxSelections - done.remain
        /\ SwapCount(result) = Len(result) - SelectionCount(result)
    BY <2>3, <2>4, SelectionsCounted, MovesCounted
  <2>6. /\ Len(result) \in Nat /\ Len(opt.ans) \in Nat /\ done.remain \in Nat /\ kept.remain \in Nat
    <3>1. done \in PlayStates /\ kept \in PlayStates
      BY <2>2, <2>3, <2>4, SimulationType
    <3> HIDE DEF done, kept
    <3> QED
      BY <2>2, <2>4, <3>1, LenProperties DEF PlayStates
  <2>7. raw.selections \in Nat /\ raw.swaps \in Nat /\ MaxSelections \in Nat
    BY <2>1, BoundAssumption DEF RawType
  <2>8. Played(result) = done
    BY DEF Played, Simulate, Simulated, OptimizeBase, base
  <2> HIDE DEF done, kept
  <2>9. SelectionCount(result) <= raw.selections
    BY <2>2, <2>4, <2>5, <2>6, <2>7
  <2>10. SwapCount(result) <= raw.swaps
    <3>1. ASSUME NEW e \in Nat, NEW re \in Nat, NEW l \in Nat, NEW rl \in Nat, NEW w \in Nat,
                 NEW n \in Nat, e + re <= l + rl, l + rl <= w + n
          PROVE  e - (n - re) <= w
      BY ONLY <3>1
    <3>2. Len(result) - (MaxSelections - done.remain) <= raw.swaps
      BY <2>1, <2>4, <2>6, <2>7, <3>1
    <3> QED
      BY <2>5, <3>2
  <2> QED
    BY <2>2, <2>4, <2>8, <2>9, <2>10
<1> QED
  BY <1>1, OptimizeInvariant, PTL

-----------------------------------------------------------------------------
(* The boards of the beam search are those of the judge.                   *)

\* The judge before the moves of a board: the piece that the problem selects, if
\* any, is selected already.
JudgeBegin ==
  [CheckBegin(task.cell, task.selectionLimit) EXCEPT !.selected = task.selected]

\* A board of the search.
BeamBoards == [cell : Boards, selected : Points, preMove : Moves, moves : Seq(Moves)]

\* The judge who plays a board's moves arrives at this board, and as many selections
\* remain to him as the board's layer says.
Reached(b, l) ==
  /\ b \in BeamBoards
  /\ Simulated(JudgeBegin, b.moves)
       = [cell |-> b.cell, selected |-> b.selected, remain |-> l, valid |-> TRUE]

\* The judge accepts the moves.
Accepted(moves) ==
  LET sim == Simulated(JudgeBegin, moves) IN sim.valid /\ Aligned(sim.cell)

\* The layers hold boards that the judge reaches.
BeamsReached ==
  /\ beams \in [Layers(task) -> SUBSET BeamBoards]
  /\ nextBeams \in [Layers(task) -> SUBSET BeamBoards]
  /\ \A l \in Layers(task) : \A b \in beams[l] \cup nextBeams[l] : Reached(b, l)

\* The counters of the two loops.
LoopsInv ==
  /\ round \in Nat /\ minLayer \in Nat
  /\ maxLayer \in Nat /\ maxLayer <= NLayer(task) - 1
  /\ layer \in Int /\ layer <= maxLayer

\* The score of an answer that is found in layer l in round r.
ScoreIn(l, r) ==
  (r - (NLayer(task) - l)) * task.swappingCost + (NLayer(task) - l) * task.selectionCost

\* The best answer so far is accepted; when selections are not cheaper than swaps, no
\* answer of this round would be dearer than one that has made all selections.
BestInv ==
  /\ best.score \in Int /\ best.score <= NoScore
  /\ best.score = NoScore => best = NoBest
  /\ best # NoBest =>
       /\ Accepted(best.moves)
       /\ task.selectionCost >= task.swappingCost => best.score <= ScoreIn(0, round)

\* An answer without moves is given to a board that is finished.
OutcomeInv ==
  outcome = "answered" => best # NoBest \/ IsFinishedBoard(StartBoard(task))

\* The inductive invariant.
BeamInv ==
  task \in BeamTasks /\ BeamsReached /\ LoopsInv /\ BestInv /\ OutcomeInv

\* The fields of a problem.
LEMMA TaskType ==
  ASSUME NEW t \in BeamTasks
  PROVE  /\ t.cell \in Boards /\ t.cell \in Cells /\ t.selected \in Points \cup {NoPoint}
         /\ t.selectionLimit \in Nat /\ t.swappingCost \in Nat /\ t.selectionCost \in Nat
         /\ NLayer(t) \in Nat /\ NLayer(t) - 1 \in Nat /\ Layers(t) = 0 .. NLayer(t) - 1
<1>1. t.cell \in Boards /\ t.selected \in Points \cup {NoPoint}
  BY BeamTasksAssumption
<1>2. t.selectionLimit \in Nat /\ t.swappingCost \in Nat /\ t.selectionCost \in Nat
  BY BeamTasksAssumption
<1>3. NLayer(t) \in Nat /\ NLayer(t) - 1 \in Nat
  BY <1>2, BeamTasksAssumption DEF NLayer
<1> QED
  BY <1>1, <1>2, <1>3, BoardFacts DEF Layers

\* The judge begins in a state of his.
LEMMA JudgeBegins ==
  ASSUME task \in BeamTasks
  PROVE  /\ JudgeBegin = [cell |-> task.cell, selected |-> task.selected,
                          remain |-> task.selectionLimit, valid |-> TRUE]
         /\ JudgeBegin \in PlayStates
<1> DEFINE b == CheckBegin(task.cell, task.selectionLimit)
<1>2. b = [cell |-> task.cell, selected |-> NoPoint, remain |-> task.selectionLimit, valid |-> TRUE]
  BY DEF CheckBegin
<1>3. JudgeBegin = [b EXCEPT !.selected = task.selected]
  BY DEF JudgeBegin
<1> HIDE DEF b
<1>1. JudgeBegin = [cell |-> task.cell, selected |-> task.selected,
                    remain |-> task.selectionLimit, valid |-> TRUE]
  BY ONLY <1>2, <1>3
<1> QED
  BY <1>1, TaskType DEF PlayStates

\* A board without moves.
LEMMA NoMoves ==
  Simulated(JudgeBegin, <<>>) = JudgeBegin
<1> DEFINE base == JudgeBegin
           s == <<>>
<1>1. 0 \in Nat /\ DOMAIN s = 1 .. 0
  OBVIOUS
<1> HIDE DEF base, s
<1>2. PICK h : CheckSteps(h, base, s, 0) /\ Simulated(base, s) = h[0]
  BY <1>1, CheckFold
<1>3. Simulated(base, s) = base
  BY <1>2 DEF CheckSteps
<1> QED
  BY <1>3 DEF base, s

\* A selection takes a board one layer down (KurageBoard::select).
LEMMA ChosenReached ==
  ASSUME task \in BeamTasks, NEW l \in Nat, NEW p \in Points,
         NEW cell \in Boards, NEW selected \in Points \cup {NoPoint}, NEW pre,
         NEW s \in Seq(Moves), NEW b,
         b = [cell |-> cell, selected |-> selected, preMove |-> pre, moves |-> s],
         Simulated(JudgeBegin, s)
           = [cell |-> cell, selected |-> selected, remain |-> l + 1, valid |-> TRUE]
  PROVE  Reached(Chosen(b, p), l)
<1> DEFINE c == Chosen(b, p)
           m == Selection(p)
           t == Append(s, m)
           sim == Simulated(JudgeBegin, s)
<1>1. m \in Moves /\ t \in Seq(Moves)
  BY MoveTypes
<1>2. c = [cell |-> cell, selected |-> p, preMove |-> m, moves |-> t]
  <2>1. c = [b EXCEPT !.selected = p, !.preMove = m, !.moves = t]
    BY DEF Chosen
  <2> HIDE DEF c, m, t
  <2> QED
    BY ONLY <2>1, b = [cell |-> cell, selected |-> selected, preMove |-> pre, moves |-> s]
<1>3. Simulated(JudgeBegin, t) = CheckStep(sim, m)
  BY ONLY <1>1, s \in Seq(Moves), CheckFoldAppend
<1>4. /\ sim \in PlayStates /\ sim.valid /\ sim.remain = l + 1 /\ sim.remain # 0
      /\ sim.cell = cell /\ sim.remain - 1 = l
  BY BoardFacts DEF PlayStates
<1>5. CheckStep(sim, m) = [cell |-> cell, selected |-> p, remain |-> l, valid |-> TRUE]
  BY <1>4, SelectStep
<1>6. c \in BeamBoards
  BY <1>1, <1>2 DEF BeamBoards
<1>7. c.cell = cell /\ c.selected = p /\ c.moves = t
  BY <1>2
<1> HIDE DEF c, m, sim, t
<1> QED
  BY <1>3, <1>5, <1>6, <1>7 DEF Reached, c

\* A swap leaves it in its layer (KurageBoard::move).
LEMMA SlidReached ==
  ASSUME task \in BeamTasks, NEW l \in Nat, NEW b, Reached(b, l), NEW dir \in Directions,
         ValidMove(b.selected, dir)
  PROVE  Reached(Slid(b, dir), l)
<1> DEFINE c == Slid(b, dir)
           m == Swap(dir)
           s == b.moves
           p == b.selected
           q == Neighbour(p, dir)
           sim == Simulated(JudgeBegin, s)
<1>1. /\ b.cell \in Boards /\ b.cell \in Cells /\ p \in Points /\ s \in Seq(Moves) /\ q \in Points
      /\ b \in BeamBoards
  BY BoardFacts DEF Reached, BeamBoards, ValidMove
<1>2. m \in Moves /\ Append(s, m) \in Seq(Moves)
  BY <1>1, MoveTypes
<1>3. Simulated(JudgeBegin, Append(s, m)) = CheckStep(sim, m)
  BY <1>1, <1>2, CheckFoldAppend
<1>4. /\ sim \in PlayStates /\ sim.valid /\ sim.remain = l
      /\ sim.cell = b.cell /\ sim.selected = p
  BY <1>1 DEF PlayStates, Reached
<1>5. Swapped(b.cell, p, q) \in Boards
  BY <1>1, SwappedBoards
<1>6. CheckStep(sim, m) = [cell |-> Swapped(b.cell, p, q), selected |-> q, remain |-> l, valid |-> TRUE]
  BY <1>4, SwapStep
<1>7. c = [cell |-> Swapped(b.cell, p, q), selected |-> q, preMove |-> m, moves |-> Append(s, m)]
  BY DEF Slid
<1>8. c \in BeamBoards
  <2> HIDE DEF q, m, s
  <2> QED
    BY <1>1, <1>2, <1>5, <1>7 DEF BeamBoards
<1>9. c.cell = Swapped(b.cell, p, q) /\ c.selected = q /\ c.moves = Append(s, m)
  BY <1>7
<1> HIDE DEF c, m, sim, q
<1> QED
  BY <1>3, <1>6, <1>8, <1>9 DEF Reached, c

\* The boards with which the search begins are in the highest layer.
LEMMA FirstReached ==
  ASSUME task \in BeamTasks, NEW b \in FirstBoards(task)
  PROVE  Reached(b, NLayer(task) - 1)
<1> DEFINE s0 == StartBoard(task)
<1>1. s0 = [cell |-> task.cell, selected |-> task.selected, preMove |-> Swap(Up), moves |-> <<>>]
  BY DEF StartBoard
<1>2. /\ task.cell \in Boards /\ task.selected \in Points \cup {NoPoint}
      /\ task.selectionLimit \in Nat /\ NLayer(task) - 1 \in Nat
  BY TaskType
<1>3. Simulated(JudgeBegin, <<>>) = [cell |-> task.cell, selected |-> task.selected,
                                     remain |-> task.selectionLimit, valid |-> TRUE]
  BY NoMoves, JudgeBegins
<1>4. CASE IsSelected(task.selected)
  <2>1. b = s0 /\ NLayer(task) - 1 = task.selectionLimit /\ task.selected \in Points
    BY <1>2, <1>4 DEF FirstBoards, NLayer, IsSelected
  <2>2. Up \in Directions /\ Swap(Up) \in Moves
    BY MoveTypes DEF Up, Directions
  <2>3. b \in BeamBoards
    BY <1>1, <1>2, <2>1, <2>2 DEF BeamBoards
  <2>4. b.cell = task.cell /\ b.selected = task.selected /\ b.moves = <<>>
    BY <1>1, <2>1
  <2> QED
    BY <1>3, <2>1, <2>3, <2>4 DEF Reached
<1>5. CASE ~IsSelected(task.selected)
  <2>1. PICK p \in Points : b = Chosen(s0, p)
    BY <1>5 DEF FirstBoards
  <2>2. NLayer(task) - 1 + 1 = task.selectionLimit
    BY <1>2, <1>5 DEF NLayer
  <2>3. <<>> \in Seq(Moves)
    OBVIOUS
  <2> HIDE DEF s0
  <2> QED
    BY <1>1, <1>2, <1>3, <2>1, <2>2, <2>3, ChosenReached
<1> QED
  BY <1>4, <1>5

\* A board is finished as soon as every piece but the selected one is at home: then
\* that one is, too (KurageBoard::isFinished).
LEMMA FinishedAligned ==
  ASSUME NEW b, b.cell \in Boards, IsFinishedBoard(b)
  PROVE  Aligned(b.cell)
<1> DEFINE cell == b.cell
           p == b.selected
           S == Points \ {p}
<1>1. cell \in Cells /\ \A x, y \in Points : cell[x] = cell[y] => x = y
  BY BoardFacts
<1>2. DistanceSum(cell, S) = 0
  BY DEF IsFinishedBoard, ManhattanOf, Board!Manhattan, DistanceSum, Board!Distance, Distance,
         Board!Absolute, Absolute, Board!Points, Points, Board!MapThenSumSet, MapThenSumSet,
         Board!MapThenFoldSet, MapThenFoldSet
<1> HIDE DEF cell
<1>3. \A x \in S : cell[x] = x
  BY <1>1, <1>2, DistanceSumZero
<1>4. ASSUME p \in Points PROVE cell[p] = p
  <2>1. cell[p] \in Points
    BY <1>1, <1>4 DEF Cells
  <2>2. ASSUME cell[p] # p PROVE FALSE
    <3>1. cell[p] \in S /\ cell[cell[p]] = cell[p]
      BY <1>3, <2>1, <2>2
    <3> QED
      BY <1>1, <1>4, <2>1, <2>2, <3>1
  <2> QED
    BY <2>2
<1> QED
  BY <1>3, <1>4 DEF Aligned, cell

\* A problem that stays the same keeps what is said of its boards.
LEMMA SameTask ==
  ASSUME UNCHANGED task
  PROVE  /\ JudgeBegin' = JudgeBegin
         /\ \A b, l : Reached(b, l)' <=> Reached(b, l)
         /\ \A moves : Accepted(moves)' <=> Accepted(moves)
         /\ NLayer(task)' = NLayer(task) /\ Layers(task)' = Layers(task)
         /\ round' = round => ScoreIn(0, round)' = ScoreIn(0, round)
<1>1. JudgeBegin' = JudgeBegin
  BY DEF JudgeBegin
<1> QED
  BY <1>1 DEF Reached, Accepted, NLayer, Layers, ScoreIn

\* A call of beamSearch() with the problem t, up to the first round.
Begins(t) ==
  /\ task = t
  /\ beams = [l \in Layers(t) |-> IF l = NLayer(t) - 1 THEN FirstBoards(t) ELSE {}]
  /\ nextBeams = [l \in Layers(t) |-> {}] /\ best = NoBest
  /\ round = 0 /\ layer = NLayer(t) - 1
  /\ minLayer = FirstMinLayer(t) /\ maxLayer = NLayer(t) - 1
  /\ outcome = "answered" => IsFinishedBoard(StartBoard(t))

\* The invariant, when a search begins.
BeginsWell == \A t \in BeamTasks : Begins(t) => BeamInv

\* The invariant holds when a search begins.
LEMMA BeginInv == BeginsWell
<1> SUFFICES ASSUME NEW t \in BeamTasks, Begins(t) PROVE BeamInv
  BY DEF BeginsWell
<1>0. /\ task = t
      /\ beams = [l \in Layers(t) |-> IF l = NLayer(t) - 1 THEN FirstBoards(t) ELSE {}]
      /\ nextBeams = [l \in Layers(t) |-> {}] /\ best = NoBest
      /\ round = 0 /\ layer = NLayer(t) - 1
      /\ minLayer = FirstMinLayer(t) /\ maxLayer = NLayer(t) - 1
      /\ outcome = "answered" => IsFinishedBoard(StartBoard(t))
  BY DEF Begins
<1>1. NLayer(t) - 1 \in Nat /\ Layers(t) = 0 .. NLayer(t) - 1
  BY TaskType
<1>2. ASSUME NEW l \in Layers(t)
      PROVE  \A b \in beams[l] : Reached(b, l)
  <2>1. CASE l = NLayer(t) - 1
    <3>1. beams[l] = FirstBoards(t)
      BY <1>0, <1>1, <1>2, <2>1
    <3> QED
      BY <1>0, <2>1, <3>1, FirstReached
  <2>2. CASE l # NLayer(t) - 1
    BY <1>0, <2>2
  <2> QED
    BY <2>1, <2>2
<1>3. BeamsReached
  <2>1. \A l \in Layers(t) : \A b \in beams[l] : b \in BeamBoards
    BY <1>2 DEF Reached
  <2>2. beams \in [Layers(t) -> SUBSET BeamBoards]
    <3>1. \A l \in Layers(t) : beams[l] \in SUBSET BeamBoards
      BY <2>1
    <3>2. beams = [l \in Layers(t) |-> beams[l]]
      BY <1>0
    <3> QED
      BY ONLY <3>1, <3>2
  <2>3. nextBeams \in [Layers(t) -> SUBSET BeamBoards] /\ \A l \in Layers(t) : nextBeams[l] = {}
    BY <1>0
  <2> QED
    BY ONLY <1>0, <1>2, <2>2, <2>3 DEF BeamsReached
<1>4. LoopsInv
  BY ONLY <1>0, <1>1 DEF LoopsInv, FirstMinLayer
<1>5. BestInv
  BY ONLY <1>0 DEF BestInv, NoBest, NoScore
<1> QED
  BY <1>0, <1>3, <1>4, <1>5 DEF BeamInv, OutcomeInv

\* A layer without boards takes over those that were selected for it.
LEMMA SkipLayerInv ==
  ASSUME BeamInv, SkipLayer
  PROVE  BeamInv'
<1>1. /\ UNCHANGED <<task, best, round, minLayer, maxLayer, outcome>> /\ layer' = layer - 1
      /\ beams' = [beams EXCEPT ![layer] = nextBeams[layer]]
      /\ nextBeams' = [nextBeams EXCEPT ![layer] = {}]
  BY DEF SkipLayer
<1>2. BeamsReached /\ LoopsInv /\ layer >= minLayer /\ task \in BeamTasks
  BY DEF BeamInv, SkipLayer
<1>3. layer \in Layers(task)
  BY <1>2, TaskType DEF LoopsInv
<1>4. BeamsReached'
  <2>1. /\ beams \in [Layers(task) -> SUBSET BeamBoards]
        /\ nextBeams \in [Layers(task) -> SUBSET BeamBoards]
    BY <1>2 DEF BeamsReached
  <2>2. /\ beams' \in [Layers(task) -> SUBSET BeamBoards]
        /\ nextBeams' \in [Layers(task) -> SUBSET BeamBoards]
        /\ \A l \in Layers(task) : /\ beams'[l] = IF l = layer THEN nextBeams[l] ELSE beams[l]
                                   /\ nextBeams'[l] = IF l = layer THEN {} ELSE nextBeams[l]
    BY ONLY <1>1, <1>3, <2>1
  <2>3. \A l \in Layers(task) : \A b \in beams'[l] \cup nextBeams'[l] : Reached(b, l)
    BY <1>2, <2>2 DEF BeamsReached
  <2> QED
    BY <1>1, <2>2, <2>3, SameTask DEF BeamsReached
<1>5. LoopsInv'
  BY <1>1, <1>2, SameTask, TaskType DEF LoopsInv
<1>6. BestInv'
  BY <1>1, SameTask DEF BeamInv, BestInv
<1> QED
  BY <1>1, <1>2, <1>4, <1>5, <1>6 DEF BeamInv, OutcomeInv

\* Scores are numbers; they grow with the rounds; and an answer with more selections
\* is dearer, when selections are not cheaper than swaps.
LEMMA ScoreFacts ==
  ASSUME task \in BeamTasks, NEW r \in Nat, NEW l \in Int
  PROVE  /\ ScoreIn(l, r) \in Int
         /\ ScoreIn(l, r + 1) = ScoreIn(l, r) + task.swappingCost
         /\ l \in Nat /\ task.selectionCost >= task.swappingCost => ScoreIn(l, r) <= ScoreIn(0, r)
         /\ task.selectionCost = task.swappingCost => ScoreIn(l, r) = ScoreIn(0, r)
         /\ l = -1 /\ task.selectionCost > task.swappingCost => ScoreIn(l, r) > ScoreIn(0, r)
<1> DEFINE n == NLayer(task)
           swap == task.swappingCost
           sel  == task.selectionCost
           u == n - l
           d == sel - swap
<1>1. n \in Nat /\ swap \in Nat /\ sel \in Nat /\ u \in Int /\ d \in Int
  BY TaskType
<1>2. /\ ScoreIn(l, r) = (r - u) * swap + u * sel
      /\ ScoreIn(l, r + 1) = ((r + 1) - u) * swap + u * sel
      /\ ScoreIn(0, r) = (r - n) * swap + n * sel
  <2>1. n - 0 = n
    BY <1>1
  <2> QED
    BY <2>1 DEF ScoreIn
<1>3. n = u + l /\ sel = swap + d
  BY <1>1
<1> HIDE DEF n, swap, sel, u, d
<1>4. /\ (r - u) * swap = r * swap - u * swap
      /\ ((r + 1) - u) * swap = r * swap + swap - u * swap
      /\ (r - n) * swap = r * swap - n * swap
      /\ u * sel = u * swap + u * d
      /\ n * sel = n * swap + n * d
      /\ n * d = u * d + l * d
  <2>1. (r - u) * swap = r * swap - u * swap
    BY <1>1
  <2>2. ((r + 1) - u) * swap = r * swap + swap - u * swap
    BY <1>1
  <2>3. (r - n) * swap = r * swap - n * swap
    BY <1>1
  <2>4. u * sel = u * swap + u * d /\ n * sel = n * swap + n * d
    BY <1>1, <1>3
  <2>5. n * d = u * d + l * d
    BY <1>1, <1>3
  <2> QED
    BY <2>1, <2>2, <2>3, <2>4, <2>5
<1> DEFINE rs == r * swap
           us == u * swap
           ns == n * swap
           ud == u * d
           ld == l * d
           nd == n * d
<1>5. rs \in Int /\ us \in Int /\ ns \in Int /\ ud \in Int /\ ld \in Int /\ nd \in Int
  BY <1>1
<1>6. l \in Nat /\ d >= 0 => ld >= 0
  BY <1>1
<1>7. d = 0 => ld = 0 /\ ud = 0 /\ nd = 0
  BY <1>1
<1>7a. l = -1 => ld = 0 - d
  BY <1>1
<1>8. /\ ScoreIn(l, r) = (rs - us) + (us + ud)
      /\ ScoreIn(l, r + 1) = (rs + swap - us) + (us + ud)
      /\ ScoreIn(0, r) = (rs - ns) + (ns + nd)
      /\ nd = ud + ld
  BY ONLY <1>2, <1>4
<1> HIDE DEF rs, us, ns, ud, ld, nd
<1>9. sel >= swap => d >= 0
  BY <1>1, <1>3
<1>10. sel = swap => d = 0
  BY <1>1, <1>3
<1>11. /\ ScoreIn(l, r) \in Int
       /\ ScoreIn(l, r + 1) = ScoreIn(l, r) + swap
       /\ l \in Nat /\ sel >= swap => ScoreIn(l, r) <= ScoreIn(0, r)
       /\ sel = swap => ScoreIn(l, r) = ScoreIn(0, r)
       /\ l = -1 /\ sel > swap => ScoreIn(l, r) > ScoreIn(0, r)
  BY ONLY <1>1, <1>3, <1>5, <1>6, <1>7, <1>7a, <1>8, <1>9, <1>10
<1> QED
  BY <1>11 DEF swap, sel

\* The boards that a layer's boards lead to.
LEMMA ExpandReached ==
  ASSUME task \in BeamTasks, LoopsInv, NEW l \in Layers(task), NEW b, Reached(b, l)
  PROVE  /\ \A c \in Slides(b) : Reached(c, l)
         /\ \A c \in Reselected(b, l) : l - 1 \in Layers(task) /\ Reached(c, l - 1)
<1>1. NLayer(task) \in Nat /\ Layers(task) = 0 .. NLayer(task) - 1 /\ l \in Nat
  BY TaskType
<1>2. ASSUME NEW c \in Slides(b) PROVE Reached(c, l)
  <2>1. PICK dir \in Directions : ValidMove(b.selected, dir) /\ c = Slid(b, dir)
    BY <1>2 DEF Slides
  <2> QED
    BY <1>1, <2>1, SlidReached
<1>3. ASSUME NEW c \in Reselected(b, l) PROVE l - 1 \in Layers(task) /\ Reached(c, l - 1)
  <2>1. l > minLayer /\ \E p \in Points : c = Chosen(b, p)
    BY <1>3 DEF Reselected
  <2>2. PICK p \in Points : c = Chosen(b, p)
    BY <2>1
  <2>3. l - 1 \in Layers(task) /\ l - 1 \in Nat /\ l - 1 + 1 = l
    BY <1>1, <2>1 DEF LoopsInv
  <2>4. PICK cell \in Boards, selected \in Points, pre \in Moves, s \in Seq(Moves) :
          b = [cell |-> cell, selected |-> selected, preMove |-> pre, moves |-> s]
    BY DEF Reached, BeamBoards
  <2>5. b.cell = cell /\ b.selected = selected /\ b.moves = s
    BY ONLY <2>4
  <2>6. Simulated(JudgeBegin, s) = [cell |-> cell, selected |-> selected,
                                    remain |-> l - 1 + 1, valid |-> TRUE]
    BY <2>3, <2>5 DEF Reached
  <2>7. Reached(Chosen(b, p), l - 1)
    BY <2>3, <2>4, <2>6, ChosenReached
  <2> QED
    BY <2>2, <2>3, <2>7
<1> QED
  BY <1>2, <1>3

\* A finished board's moves are accepted.
LEMMA FinishedAccepted ==
  ASSUME NEW b, NEW l, Reached(b, l), IsFinishedBoard(b)
  PROVE  Accepted(b.moves)
<1>1. b.cell \in Boards
  BY DEF Reached, BeamBoards
<1>2. Aligned(b.cell)
  BY <1>1, FinishedAligned
<1> QED
  BY <1>2 DEF Reached, Accepted

\* What the moves and selections of a layer leave, in whatever order the threads make
\* them: what the layer's boards lead to is in the layer and in the one below.
LEMMA ExpandEffect ==
  ASSUME BeamInv, ExpandLayer
  PROVE  \E new, down :
           /\ beams' \in [Layers(task) -> SUBSET BeamBoards]
           /\ nextBeams' \in [Layers(task) -> SUBSET BeamBoards]
           /\ \A l \in Layers(task) :
                beams'[l] = IF l = layer THEN nextBeams[l] \cup new ELSE beams[l]
           /\ \A l \in Layers(task) :
                nextBeams'[l] = IF l = layer THEN {} ELSE IF l = layer - 1 THEN down ELSE nextBeams[l]
           /\ \A c \in new : \E b \in beams[layer] : c \in Slides(b)
           /\ \A c \in down : \E b \in beams[layer] : c \in Reselected(b, layer)
           /\ \/ UNCHANGED best
              \/ \E c : /\ \E b \in beams[layer] : c \in Slides(b)
                        /\ IsFinishedBoard(c) /\ ScoreNow < best.score
                        /\ best' = [score |-> ScoreNow, moves |-> c.moves]
<1>1. layer >= minLayer
  BY DEF ExpandLayer, HasBoards
<1>2. BeamsReached /\ LoopsInv /\ task \in BeamTasks
  BY DEF BeamInv
<1> DEFINE n == NLayer(task)
<1>3. layer \in Layers(task) /\ layer \in Nat /\ n \in Nat /\ Layers(task) = 0 .. n - 1
  BY <1>1, <1>2, TaskType DEF LoopsInv
<1> DEFINE Beam == IF Cardinality(beams[layer]) <= BeamWidth THEN {beams[layer]}
                   ELSE kSubset(BeamWidth, beams[layer])
<1>4. \E kept \in Beam : \E seen \in {Visited(kept)}, slid \in {UNION {Slides(b) : b \in kept}},
         chosen \in {UNION {Reselected(b, layer) : b \in kept}},
         minManhattan \in {Min({ManhattanOf(b) : b \in kept} \cup {NoScore})} :
         Expand(kept, seen, slid, chosen, minManhattan)
  BY DEF ExpandLayer, ExpandBest
<1>5. \A kept \in Beam : kept \subseteq beams[layer]
  BY DEF kSubset
<1> HIDE DEF Beam
<1>6. PICK kept, seen, slid, chosen, minManhattan :
         /\ kept \subseteq beams[layer]
         /\ slid = UNION {Slides(b) : b \in kept}
         /\ chosen = UNION {Reselected(b, layer) : b \in kept}
         /\ Expand(kept, seen, slid, chosen, minManhattan)
  BY <1>4, <1>5
<1>7. /\ beams' = [beams EXCEPT ![layer] =
                     nextBeams[layer] \cup {b \in slid : ~Repeated(seen, b, layer)}]
      /\ nextBeams' = [l \in Layers(task) |->
                         CASE l = layer -> {}
                           [] l = layer - 1 -> {b \in chosen : ~Repeated(seen, b, l)}
                           [] OTHER -> nextBeams[l]]
      /\ LET finished == {b \in slid : IsFinishedBoard(b)}
         IN  IF finished # {} /\ ScoreNow < best.score
             THEN \E b \in finished : best' = [score |-> ScoreNow, moves |-> b.moves]
             ELSE UNCHANGED best
  BY <1>6 DEF Expand
<1>8. \A c \in slid : \E b \in beams[layer] : c \in Slides(b)
  BY <1>6
<1>9. \A c \in chosen : \E b \in beams[layer] : c \in Reselected(b, layer)
  BY <1>6
<1>10. \A b \in beams[layer] : Reached(b, layer)
  BY <1>2, <1>3 DEF BeamsReached
<1>11. \A c \in slid : Reached(c, layer)
  BY <1>2, <1>3, <1>8, <1>10, ExpandReached
<1>12. \A c \in chosen : Reached(c, layer - 1)
  BY <1>2, <1>3, <1>9, <1>10, ExpandReached
<1> DEFINE new  == {b \in slid : ~Repeated(seen, b, layer)}
           down == {b \in chosen : ~Repeated(seen, b, layer - 1)}
<1>13. /\ beams \in [Layers(task) -> SUBSET BeamBoards]
       /\ nextBeams \in [Layers(task) -> SUBSET BeamBoards]
  BY <1>2 DEF BeamsReached
<1>14. new \in SUBSET BeamBoards /\ down \in SUBSET BeamBoards
  BY <1>11, <1>12 DEF Reached
<1>15. \A l \in Layers(task) :
         nextBeams'[l] = IF l = layer THEN {} ELSE IF l = layer - 1 THEN down ELSE nextBeams[l]
  <2>1. ASSUME NEW l \in Layers(task), l = layer PROVE nextBeams'[l] = {}
    BY ONLY <1>3, <1>7, <2>1
  <2>2. ASSUME NEW l \in Layers(task), l # layer, l = layer - 1 PROVE nextBeams'[l] = down
    BY ONLY <1>7, <2>2
  <2>3. ASSUME NEW l \in Layers(task), l # layer, l # layer - 1
        PROVE  nextBeams'[l] = nextBeams[l]
    BY ONLY <1>7, <2>3
  <2> HIDE DEF down
  <2> QED
    BY ONLY <2>1, <2>2, <2>3
<1>16. nextBeams' = [l \in Layers(task) |-> nextBeams'[l]]
  BY ONLY <1>7
<1>17. beams' = [beams EXCEPT ![layer] = nextBeams[layer] \cup new]
  BY ONLY <1>7
<1>18. /\ \A c \in new : \E b \in beams[layer] : c \in Slides(b)
       /\ \A c \in down : \E b \in beams[layer] : c \in Reselected(b, layer)
  BY <1>8, <1>9
<1>19. \/ UNCHANGED best
       \/ \E c : /\ \E b \in beams[layer] : c \in Slides(b)
                 /\ IsFinishedBoard(c) /\ ScoreNow < best.score
                 /\ best' = [score |-> ScoreNow, moves |-> c.moves]
  BY <1>7, <1>8
<1> HIDE DEF new, down
<1>20. nextBeams' \in [Layers(task) -> SUBSET BeamBoards]
  <2>1. \A l \in Layers(task) : nextBeams'[l] \in SUBSET BeamBoards
    BY ONLY <1>13, <1>14, <1>15
  <2> QED
    BY ONLY <2>1, <1>16
<1>21. /\ beams' \in [Layers(task) -> SUBSET BeamBoards]
       /\ \A l \in Layers(task) :
            beams'[l] = IF l = layer THEN nextBeams[l] \cup new ELSE beams[l]
  BY ONLY <1>3, <1>13, <1>14, <1>17
<1> QED
  BY ONLY <1>15, <1>18, <1>19, <1>20, <1>21

\* They keep the invariant.
LEMMA ExpandLayerInv ==
  ASSUME BeamInv, ExpandLayer
  PROVE  BeamInv'
<1>1. /\ UNCHANGED <<task, round, minLayer, maxLayer, outcome>> /\ layer' = layer - 1
      /\ layer >= minLayer
  BY DEF ExpandLayer, ExpandBest, HasBoards
<1>2. BeamsReached /\ LoopsInv /\ BestInv /\ task \in BeamTasks
  BY DEF BeamInv
<1> DEFINE n == NLayer(task)
<1>3. layer \in Layers(task) /\ layer \in Nat /\ n \in Nat /\ Layers(task) = 0 .. n - 1
  BY <1>1, <1>2, TaskType DEF LoopsInv
<1>4. PICK new, down :
        /\ beams' \in [Layers(task) -> SUBSET BeamBoards]
        /\ nextBeams' \in [Layers(task) -> SUBSET BeamBoards]
        /\ \A l \in Layers(task) :
             beams'[l] = IF l = layer THEN nextBeams[l] \cup new ELSE beams[l]
        /\ \A l \in Layers(task) :
             nextBeams'[l] = IF l = layer THEN {} ELSE IF l = layer - 1 THEN down ELSE nextBeams[l]
        /\ \A c \in new : \E b \in beams[layer] : c \in Slides(b)
        /\ \A c \in down : \E b \in beams[layer] : c \in Reselected(b, layer)
        /\ \/ UNCHANGED best
           \/ \E c : /\ \E b \in beams[layer] : c \in Slides(b)
                     /\ IsFinishedBoard(c) /\ ScoreNow < best.score
                     /\ best' = [score |-> ScoreNow, moves |-> c.moves]
  BY ExpandEffect
<1>5. \A b \in beams[layer] : Reached(b, layer)
  BY <1>2, <1>3 DEF BeamsReached
<1>6. \A b \in beams[layer] : \A c \in Slides(b) : Reached(c, layer)
  BY <1>2, <1>3, <1>5, ExpandReached
<1>7. \A b \in beams[layer] : \A c \in Reselected(b, layer) : Reached(c, layer - 1)
  BY <1>2, <1>3, <1>5, ExpandReached
<1>8. BeamsReached'
  <2>1. (\A c \in new : Reached(c, layer)) /\ (\A c \in down : Reached(c, layer - 1))
    BY <1>4, <1>6, <1>7
  <2>2. \A l \in Layers(task) : \A b \in beams'[l] \cup nextBeams'[l] : Reached(b, l)
    BY <1>2, <1>4, <2>1 DEF BeamsReached
  <2> QED
    BY <1>1, <1>4, <2>2, SameTask DEF BeamsReached
<1>9. LoopsInv'
  BY <1>1, <1>2, <1>3, SameTask DEF LoopsInv
<1>10. BestInv' /\ (best # NoBest => best' # NoBest)
  <2>1. CASE UNCHANGED best
    BY <1>1, <1>2, <2>1, SameTask DEF BestInv
  <2>2. CASE ~UNCHANGED best
    <3>1. PICK c : /\ \E b \in beams[layer] : c \in Slides(b)
                   /\ IsFinishedBoard(c) /\ ScoreNow < best.score
                   /\ best' = [score |-> ScoreNow, moves |-> c.moves]
      BY <1>4, <2>2
    <3>2. Accepted(c.moves)
      BY <1>6, <3>1, FinishedAccepted
    <3>3. ScoreNow = ScoreIn(layer, round)
      BY DEF ScoreNow, ScoreIn
    <3>4. round \in Nat /\ layer \in Int
      BY <1>2, <1>3 DEF LoopsInv
    <3>5. ScoreNow \in Int
      BY <1>2, <3>3, <3>4, ScoreFacts
    <3>6. task.selectionCost >= task.swappingCost => ScoreNow <= ScoreIn(0, round)
      BY <1>2, <1>3, <3>3, <3>4, ScoreFacts
    <3>7. best'.score = ScoreNow /\ best'.moves = c.moves
      BY <3>1
    <3>8. best.score \in Int /\ best.score <= NoScore /\ NoScore \in Int
      BY <1>2 DEF BestInv, NoScore
    <3>9. best'.score \in Int /\ best'.score < NoScore /\ best' # NoBest
      BY <3>1, <3>5, <3>7, <3>8 DEF NoBest
    <3> QED
      BY <1>1, <3>2, <3>6, <3>7, <3>8, <3>9, SameTask DEF BestInv
  <2> QED
    BY <2>1, <2>2
<1> QED
  BY <1>1, <1>2, <1>8, <1>9, <1>10 DEF BeamInv, OutcomeInv

\* What a division that rounds up finds.
LEMMA RoundedUp ==
  ASSUME NEW num \in Int, NEW den \in Nat \ {0}, NEW l \in Int
  PROVE  /\ (num + den - 1) \div den \in Int
         /\ l < (num + den - 1) \div den <=> l * den < num
<1> DEFINE a == num + den - 1
           k == a \div den
           q == a % den
<1>1. a \in Int /\ den > 0
  OBVIOUS
<1> HIDE DEF a
<1>2. k \in Int /\ q \in Int /\ 0 <= q /\ q < den /\ a = den * k + q
  BY <1>1
<1> HIDE DEF k, q
<1>3. num = den * k + q - den + 1
  BY <1>2 DEF a
<1>4. ASSUME l < k PROVE l * den < num
  <2> DEFINE e == k - l - 1
  <2>1. e \in Nat /\ k = l + 1 + e
    BY <1>2, <1>4
  <2> HIDE DEF e
  <2>2. den * k = den * l + den + den * e /\ den * e \in Nat /\ den * l = l * den /\ l * den \in Int
    BY <2>1
  <2> DEFINE dk == den * k
             dl == l * den
             de == den * e
  <2>3. num = dk + q - den + 1 /\ dk = dl + den + de /\ de \in Nat /\ dl \in Int
    BY ONLY <1>3, <2>2
  <2> HIDE DEF dk, dl, de
  <2>4. dl < num
    BY ONLY <1>2, <2>3, den \in Nat
  <2> QED
    BY <2>4 DEF dl
<1>5. ASSUME ~(l < k) PROVE ~(l * den < num)
  <2> DEFINE e == l - k
  <2>1. e \in Nat /\ l = k + e
    BY <1>2, <1>5
  <2> HIDE DEF e
  <2>2. l * den = den * k + den * e /\ den * e \in Nat /\ den * k \in Int
    BY <1>2, <2>1
  <2> DEFINE dk == den * k
             dl == l * den
             de == den * e
  <2>3. num = dk + q - den + 1 /\ dl = dk + de /\ de \in Nat /\ dk \in Int
    BY ONLY <1>3, <2>2
  <2> HIDE DEF dk, dl, de
  <2>4. ~(dl < num)
    BY ONLY <1>2, <2>3, den \in Nat
  <2> QED
    BY <2>4 DEF dl
<1> QED
  BY <1>2, <1>4, <1>5 DEF k, a

\* The lowest layer is the first one in which an answer of that round would not be
\* dearer than the best one.
LEMMA LowestLayerFacts ==
  ASSUME task \in BeamTasks, best.score \in Int, NEW r \in Nat, NEW l \in Int,
         task.selectionCost > task.swappingCost
  PROVE  /\ LowestLayer(r) \in Int
         /\ l < LowestLayer(r) <=> best.score < ScoreIn(l, r)
<1> DEFINE n == NLayer(task)
           swap == task.swappingCost
           sel  == task.selectionCost
           den  == sel - swap
           num  == (r - n) * swap + n * sel - best.score
<1>1. n \in Nat /\ swap \in Nat /\ sel \in Nat /\ den \in Nat \ {0}
  BY TaskType
<1>2. LowestLayer(r) = ((r - n) * swap + n * sel - best.score + den - 1) \div den
  BY DEF LowestLayer
<1>3. ScoreIn(l, r) = (r - (n - l)) * swap + (n - l) * sel
  BY DEF ScoreIn
<1> HIDE DEF n, swap, sel
<1>4. (r - (n - l)) * swap = (r - n) * swap + l * swap /\ (n - l) * sel = n * sel - l * sel
  BY <1>1
<1>5. l * den = l * sel - l * swap
  BY <1>1
<1> DEFINE a == (r - n) * swap
           c == n * sel
           ls == l * swap
           le == l * sel
           ld == l * den
<1>6. a \in Int /\ c \in Int /\ ls \in Int /\ le \in Int /\ ld = le - ls
  BY <1>1, <1>5
<1>7. /\ ScoreIn(l, r) = (a + ls) + (c - le)
      /\ num = a + c - best.score
      /\ LowestLayer(r) = (a + c - best.score + den - 1) \div den
  BY ONLY <1>2, <1>3, <1>4
<1> HIDE DEF a, c, ls, le, den, num
<1>8. a + c - best.score + den - 1 = num + den - 1 /\ num \in Int
  BY <1>1, <1>6, <1>7
<1>9. /\ LowestLayer(r) \in Int
      /\ l < LowestLayer(r) <=> ld < num
  BY <1>1, <1>7, <1>8, RoundedUp
<1> HIDE DEF ld
<1>10. ld < num <=> best.score < ScoreIn(l, r)
  BY <1>6, <1>7
<1> QED
  BY <1>9, <1>10

\* The lowest layer is never below the layers there are: no answer of a later round
\* is cheaper than the best one by more than it could have in the highest layer.
LEMMA LowestLayerType ==
  ASSUME task \in BeamTasks, BestInv, LoopsInv, best # NoBest,
         task.selectionCost > task.swappingCost
  PROVE  LowestLayer(round + 1) \in Nat
<1>1. /\ best.score \in Int /\ best.score <= ScoreIn(0, round) /\ round \in Nat /\ round + 1 \in Nat
      /\ task.swappingCost \in Nat /\ task.selectionCost \in Nat
  BY TaskType DEF BestInv, LoopsInv
<1>2. ScoreIn(0, round) \in Int /\ ScoreIn(0, round + 1) = ScoreIn(0, round) + task.swappingCost
  BY ONLY <1>1, task \in BeamTasks, 0 \in Int, ScoreFacts
<1>3. ScoreIn(-1, round + 1) \in Int /\ ScoreIn(0, round + 1) \in Int
  BY SMTT(30), <1>1, ScoreFacts
<1>4. best.score <= ScoreIn(0, round + 1)
  BY ONLY <1>1, <1>2
<1>5. best.score < ScoreIn(-1, round + 1)
  <2>1. ScoreIn(-1, round + 1) > ScoreIn(0, round + 1)
    BY <1>1, ScoreFacts
  <2> QED
    BY ONLY <1>1, <1>3, <1>4, <2>1
<1>6. LowestLayer(round + 1) \in Int /\ -1 < LowestLayer(round + 1)
  BY <1>1, <1>5, LowestLayerFacts
<1> QED
  BY <1>6

\* The end of a round: the next one begins in the highest layer.
LEMMA NextRoundInv ==
  ASSUME BeamInv, NextRound
  PROVE  BeamInv'
<1>1. UNCHANGED <<task, beams, nextBeams, best>>
  BY DEF NextRound
<1>2. BeamsReached /\ LoopsInv /\ BestInv /\ task \in BeamTasks /\ NLayer(task) \in Nat
  BY TaskType DEF BeamInv
<1>3. BeamsReached'
  BY <1>1, <1>2, SameTask DEF BeamsReached
<1>4. CASE GivenUp \/ NothingToGain(round + 1)
  <2>1. /\ UNCHANGED <<round, layer, minLayer, maxLayer>>
        /\ outcome' = "answered" => best # NoBest
    BY <1>4 DEF NextRound
  <2>2. LoopsInv' /\ BestInv'
    BY <1>1, <1>2, <2>1, SameTask DEF LoopsInv, BestInv
  <2> QED
    BY <1>1, <1>2, <1>3, <2>1, <2>2 DEF BeamInv, OutcomeInv
<1>5. CASE ~(GivenUp \/ NothingToGain(round + 1))
  <2> DEFINE low == IF best = NoBest THEN 0 ELSE LowestLayer(round + 1)
  <2>1. /\ round' = round + 1 /\ layer' = maxLayer' /\ outcome' = outcome
        /\ outcome = "searching"
        /\ DetermineBeamWidth(low)
    BY <1>5 DEF NextRound
  <2>2. best # NoBest => task.selectionCost > task.swappingCost
    BY <1>2, <1>5, TaskType DEF NothingToGain
  <2>3. minLayer' \in Nat /\ maxLayer' \in 0 .. maxLayer
    <3>1. low \in Nat
      BY <1>2, <2>2, LowestLayerType
    <3>2. maxLayer \in Nat
      BY <1>2 DEF LoopsInv
    <3> HIDE DEF low
    <3>3. CASE minLayer' = low /\ maxLayer' = maxLayer
      BY <3>1, <3>2, <3>3
    <3>4. CASE ~(minLayer' = low /\ maxLayer' = maxLayer)
      <4>1. PICK top \in 0 .. maxLayer : \E bottom \in 0 .. top : minLayer' = bottom /\ maxLayer' = top
        BY <2>1, <3>4 DEF DetermineBeamWidth
      <4> QED
        BY <3>2, <4>1
    <3> QED
      BY <3>3, <3>4
  <2> HIDE DEF low
  <2>4. LoopsInv'
    BY <1>1, <1>2, <2>1, <2>3, SameTask DEF LoopsInv
  <2>5. BestInv'
    <3>1. /\ round \in Nat /\ task.swappingCost \in Nat /\ best.score \in Int
          /\ task.selectionCost >= task.swappingCost /\ best # NoBest
               => best.score <= ScoreIn(0, round)
      BY <1>2, TaskType DEF LoopsInv, BestInv
    <3>2. ScoreIn(0, round) \in Int /\ ScoreIn(0, round + 1) = ScoreIn(0, round) + task.swappingCost
      BY SMTT(30), <1>2, <3>1, ScoreFacts
    <3>3. ScoreIn(0, round)' = ScoreIn(0, round + 1)
      BY <1>1, <2>1, SameTask DEF ScoreIn
    <3>4. task.selectionCost >= task.swappingCost /\ best # NoBest
            => best.score <= ScoreIn(0, round + 1)
      BY ONLY <3>1, <3>2
    <3> QED
      BY <1>1, <1>2, <3>3, <3>4, SameTask DEF BestInv
  <2> QED
    BY <1>1, <1>2, <1>3, <2>1, <2>4, <2>5 DEF BeamInv, OutcomeInv
<1> QED
  BY <1>4, <1>5

\* A search that found nothing begins again.
LEMMA RetryInv ==
  ASSUME BeamInv, Retry
  PROVE  BeamInv'
<1>1. task \in BeamTasks /\ BeamStart(task)
  BY DEF BeamInv, Retry
<1>2. PICK t \in BeamTasks : BeamStart(t)
  BY <1>1
<1>3. Begins(t)'
  BY <1>2 DEF BeamStart, Begins, Layers, NLayer, FirstBoards, FirstMinLayer, Small,
               IsFinishedBoard, ManhattanOf, StartBoard
<1>4. BeginsWell'
  BY BeginInv, PTL
<1> QED
  BY <1>3, <1>4 DEF BeginsWell

\* The invariant holds when beamSearch() is called.
LEMMA BeamInitInv == BeamInit => BeamInv
BY BeginInv DEF BeginsWell, BeamInit, Begins

\* No step of the search disturbs it.
LEMMA BeamStepInv == BeamInv /\ [BeamNext]_beamVars => BeamInv'
<1> SUFFICES ASSUME BeamInv, [BeamNext]_beamVars PROVE BeamInv'
  OBVIOUS
<1>1. CASE UNCHANGED beamVars
  <2>1. UNCHANGED <<task, beams, nextBeams, best, round, layer, minLayer, maxLayer, outcome>>
    BY <1>1 DEF beamVars
  <2> QED
    BY <2>1, SameTask DEF BeamInv, BeamsReached, LoopsInv, BestInv, OutcomeInv
<1> QED
  BY <1>1, SkipLayerInv, ExpandLayerInv, NextRoundInv, RetryInv DEF BeamNext

\* The invariant gives the property.
LEMMA BeamInvAnswer == BeamInv => BeamAnswerCorrect
<1> SUFFICES ASSUME BeamInv, outcome = "answered" PROVE Accepted(best.moves)
  BY DEF BeamAnswerCorrect, Accepted, JudgeBegin, Simulated
<1>1. CASE best # NoBest
  BY <1>1 DEF BeamInv, BestInv
<1>2. CASE best = NoBest
  <2>1. IsFinishedBoard(StartBoard(task)) /\ task \in BeamTasks
    BY <1>2 DEF BeamInv, OutcomeInv
  <2>2. StartBoard(task).cell = task.cell /\ task.cell \in Boards
    BY <2>1, TaskType DEF StartBoard
  <2>3. Aligned(task.cell)
    BY <2>1, <2>2, FinishedAligned
  <2>4. best.moves = <<>>
    BY <1>2 DEF NoBest
  <2> QED
    BY <2>1, <2>3, <2>4, NoMoves, JudgeBegins DEF Accepted
<1> QED
  BY <1>1, <1>2

\* The answer of the beam search (KurageSolver::beamSearch) is accepted by the judge
\* and within the limit of selections, for every board, all costs and every width of
\* the beam, however its threads share the work, and whichever way determineBeamWidth()
\* drops layers: on boards of at most evenArea cells not at all, on larger ones by
\* reliability and by how much is left to do.
THEOREM BeamAnswerAccepted == BeamSpec => []BeamAnswerCorrect
<1>1. BeamInv /\ [BeamNext]_beamVars => BeamInv'
  BY BeamStepInv
<1> QED
  BY <1>1, BeamInitInv, BeamInvAnswer, PTL DEF BeamSpec

-----------------------------------------------------------------------------
(* What is left behind when layers come to rest and when the search ends.  *)

\* The first selection of a problem without a selected piece is a move more.
Extra == IF IsSelected(task.selected) THEN 0 ELSE 1

\* The selection that a problem with a selected piece spares.
Spared == IF IsSelected(task.selected) THEN task.selectionCost ELSE 0

\* A board of a layer that does not rest has as many moves as rounds have treated
\* the layer; what has been selected waits for the layer that is next.
Aged ==
  \A l \in Layers(task) :
    /\ l >= minLayer =>
         \A b \in beams[l] : Len(b.moves) = Extra + (IF layer < l THEN round + 1 ELSE round)
    /\ \A b \in nextBeams[l] :
         l = layer /\ layer >= minLayer /\ Len(b.moves) = Extra + round + 1

\* The score of an answer is its cost but for two swaps and what is spared.
Scored == best # NoBest => CostOf(best.moves) = best.score + 2 * task.swappingCost - Spared

\* A layer rests only when no answer that it finds now would be better.
RestingLayers ==
  /\ best = NoBest \/ task.selectionCost <= task.swappingCost => minLayer = 0
  /\ \A l \in Nat : l < minLayer => best.score < ScoreIn(l, round)

\* The boards of the resting layers lead to nothing better.
RestingBoards ==
  \A l \in Layers(task) : l < minLayer =>
    \A b \in beams[l] : CostOf(b.moves) + task.swappingCost >= CostOf(best.moves)

\* The reason why a search with an answer has ended.
EndInv ==
  outcome # "searching" /\ best # NoBest =>
    layer < minLayer /\ (GivenUp \/ NothingToGain(round + 1))

\* The inductive invariant on small boards, where no layer is dropped.
LeftInv ==
  /\ Small(task) /\ maxLayer = NLayer(task) - 1
  /\ BeamInv /\ Aged /\ Scored /\ RestingLayers /\ RestingBoards /\ EndInv

\* The cost of a board's moves.
LEMMA BoardCost ==
  ASSUME task \in BeamTasks, NEW l \in Layers(task), NEW b, Reached(b, l),
         NEW r \in Nat, Len(b.moves) = Extra + r
  PROVE  /\ CostOf(b.moves) \in Int
         /\ CostOf(b.moves) = ScoreIn(l, r) + task.swappingCost - Spared
<1> DEFINE s == b.moves
           n == NLayer(task)
           swap == task.swappingCost
           sel == task.selectionCost
           limit == task.selectionLimit
           c == SelectionCount(s)
           w == SwapCount(s)
           u == n - l
<1>1. n \in Nat /\ l \in Nat /\ l <= n /\ swap \in Nat /\ sel \in Nat /\ limit \in Nat /\ u \in Nat
  BY TaskType
<1>2. s \in Seq(Moves) /\ Simulated(JudgeBegin, s).valid /\ Simulated(JudgeBegin, s).remain = l
  BY DEF Reached, BeamBoards
<1>3. JudgeBegin \in PlayStates /\ JudgeBegin.remain = limit
  BY JudgeBegins
<1>4. c \in Nat /\ c = limit - l
  BY <1>2, <1>3, SelectionsCounted
<1>5. w = Len(s) - c /\ Len(s) \in Nat
  BY <1>2, MovesCounted, LenProperties
<1>6. CostOf(s) = c * sel + w * swap
  BY DEF CostOf
<1>7. ScoreIn(l, r) = (r - u) * swap + u * sel
  BY DEF ScoreIn
<1>8. CASE IsSelected(task.selected)
  <2>1. n = limit + 1 /\ Extra = 0 /\ Spared = sel
    BY <1>8 DEF NLayer, Extra, Spared
  <2>2. u = c + 1 /\ w = (r - u) + 1
    <3> HIDE DEF n, c, w, limit, s
    <3> QED
      BY ONLY <1>1, <1>4, <1>5, <2>1, Len(b.moves) = Extra + r, r \in Nat DEF s
  <2> HIDE DEF n, c, w, limit, s, u, swap, sel
  <2>3. u * sel = c * sel + sel /\ w * swap = (r - u) * swap + swap
    BY <1>1, <1>4, <2>2
  <2> DEFINE cs == c * sel
             ws == (r - u) * swap
  <2>4. cs \in Int /\ ws \in Int
    BY <1>1, <1>4
  <2>5. CostOf(s) = cs + (ws + swap) /\ ScoreIn(l, r) = ws + (cs + sel)
    BY ONLY <1>6, <1>7, <2>3
  <2> HIDE DEF cs, ws
  <2>6. CostOf(s) \in Int /\ CostOf(s) = ScoreIn(l, r) + swap - Spared
    BY ONLY <1>1, <2>1, <2>4, <2>5
  <2> QED
    BY <2>6 DEF s, swap
<1>9. CASE ~IsSelected(task.selected)
  <2>1. n = limit /\ Extra = 1 /\ Spared = 0
    BY <1>9 DEF NLayer, Extra, Spared
  <2>2. u = c /\ w = (r - u) + 1
    <3> HIDE DEF n, c, w, limit, s
    <3> QED
      BY ONLY <1>1, <1>4, <1>5, <2>1, Len(b.moves) = Extra + r, r \in Nat DEF s
  <2> HIDE DEF n, c, w, limit, s, u, swap, sel
  <2>3. u * sel = c * sel /\ w * swap = (r - u) * swap + swap
    BY <1>1, <1>4, <2>2
  <2> DEFINE cs == c * sel
             ws == (r - u) * swap
  <2>4. cs \in Int /\ ws \in Int
    BY <1>1, <1>4
  <2>5. CostOf(s) = cs + (ws + swap) /\ ScoreIn(l, r) = ws + cs
    BY ONLY <1>6, <1>7, <2>3
  <2> HIDE DEF cs, ws
  <2>6. CostOf(s) \in Int /\ CostOf(s) = ScoreIn(l, r) + swap - Spared
    BY ONLY <1>1, <2>1, <2>4, <2>5
  <2> QED
    BY <2>6 DEF s, swap
<1> QED
  BY <1>8, <1>9

\* The moves of the boards that a board leads to are one more.
LEMMA ExpandLength ==
  ASSUME NEW l, NEW b, Reached(b, l)
  PROVE  /\ \A c \in Slides(b) : Len(c.moves) = Len(b.moves) + 1
         /\ \A c \in Reselected(b, l) : Len(c.moves) = Len(b.moves) + 1
<1>1. PICK cell \in Boards, selected \in Points, pre \in Moves, s \in Seq(Moves) :
        b = [cell |-> cell, selected |-> selected, preMove |-> pre, moves |-> s]
  BY DEF Reached, BeamBoards
<1>2. b.moves = s
  BY ONLY <1>1
<1>3. ASSUME NEW m \in Moves PROVE Len(Append(s, m)) = Len(s) + 1
  BY ONLY <1>3, s \in Seq(Moves)
<1>4. ASSUME NEW c \in Slides(b) PROVE Len(c.moves) = Len(b.moves) + 1
  <2>1. PICK dir \in Directions : c = Slid(b, dir)
    BY <1>4 DEF Slides
  <2>2. c.moves = Append(s, Swap(dir))
    BY <1>2, <2>1 DEF Slid
  <2> QED
    BY <1>2, <1>3, <2>2, MoveTypes
<1>5. ASSUME NEW c \in Reselected(b, l) PROVE Len(c.moves) = Len(b.moves) + 1
  <2>1. PICK p \in Points : c = Chosen(b, p)
    BY <1>5 DEF Reselected
  <2> DEFINE m == Selection(p)
             t == Append(s, m)
  <2>2. c.moves = t
    <3>1. c = [b EXCEPT !.selected = p, !.preMove = m, !.moves = t]
      BY <1>2, <2>1 DEF Chosen
    <3> HIDE DEF m, t
    <3> QED
      BY ONLY <1>1, <3>1
  <2> QED
    BY <1>2, <1>3, <2>2, MoveTypes
<1> QED
  BY <1>4, <1>5

\* A problem that stays the same keeps the costs.
LEMMA SameCosts ==
  ASSUME UNCHANGED task
  PROVE  /\ Extra' = Extra /\ Spared' = Spared
         /\ \A moves : CostOf(moves)' = CostOf(moves)
         /\ round' = round => \A l : ScoreIn(l, round)' = ScoreIn(l, round)
         /\ round' = round + 1 => \A l : ScoreIn(l, round)' = ScoreIn(l, round + 1)
BY SameTask DEF Extra, Spared, CostOf, ScoreIn

\* Nothing is left behind when a search begins.
BeginsNew == \A t \in BeamTasks : Begins(t) /\ Small(t) => LeftInv

\* The first boards have made no move, or one selection.
LEMMA BeginLeft == BeginsNew
<1> SUFFICES ASSUME NEW t \in BeamTasks, Begins(t), Small(t) PROVE LeftInv
  BY DEF BeginsNew
<1>1. /\ task = t
      /\ beams = [l \in Layers(t) |-> IF l = NLayer(t) - 1 THEN FirstBoards(t) ELSE {}]
      /\ nextBeams = [l \in Layers(t) |-> {}] /\ best = NoBest
      /\ round = 0 /\ layer = NLayer(t) - 1 /\ minLayer = 0 /\ maxLayer = NLayer(t) - 1
  BY DEF Begins, FirstMinLayer
<1>2. BeamInv
  BY BeginInv DEF BeginsWell
<1>3. NLayer(t) \in Nat /\ Layers(t) = 0 .. NLayer(t) - 1
  BY TaskType
<1>4. ASSUME NEW b \in FirstBoards(t) PROVE Len(b.moves) = Extra
  <2>1. CASE IsSelected(t.selected)
    BY <1>1, <1>4, <2>1 DEF FirstBoards, Extra, StartBoard
  <2>2. CASE ~IsSelected(t.selected)
    <3>1. PICK p \in Points : b = Chosen(StartBoard(t), p)
      BY <1>4, <2>2 DEF FirstBoards
    <3> DEFINE m == Selection(p)
               s == Append(<<>>, m)
    <3>2. b.moves = s
      BY <3>1 DEF Chosen, StartBoard
    <3>3. Len(s) = 1
      OBVIOUS
    <3> QED
      BY <1>1, <2>2, <3>2, <3>3 DEF Extra
  <2> QED
    BY <2>1, <2>2
<1>5. Aged
  <2>1. ASSUME NEW l \in Layers(t), NEW b \in beams[l]
        PROVE  Len(b.moves) = Extra + (IF layer < l THEN round + 1 ELSE round)
    <3>1. b \in FirstBoards(t) /\ ~(layer < l)
      BY <1>1, <1>3, <2>1
    <3>2. Extra \in Int
      BY DEF Extra
    <3> QED
      BY <1>1, <1>4, <3>1, <3>2
  <2>2. \A l \in Layers(t) : nextBeams[l] = {}
    BY <1>1
  <2> QED
    BY ONLY <1>1, <2>1, <2>2 DEF Aged
<1>6. Scored /\ EndInv
  BY ONLY <1>1 DEF Scored, EndInv
<1>7. RestingLayers
  BY ONLY <1>1 DEF RestingLayers
<1>8. RestingBoards
  BY ONLY <1>1, <1>3 DEF RestingBoards
<1> QED
  BY <1>1, <1>2, <1>5, <1>6, <1>7, <1>8 DEF LeftInv

\* A layer that takes over the boards selected for it.
LEMMA SkipLayerLeft ==
  ASSUME LeftInv, SkipLayer
  PROVE  LeftInv'
<1>1. /\ UNCHANGED <<task, best, round, minLayer, maxLayer, outcome>> /\ layer' = layer - 1
      /\ outcome = "searching" /\ layer >= minLayer
      /\ beams' = [beams EXCEPT ![layer] = nextBeams[layer]]
      /\ nextBeams' = [nextBeams EXCEPT ![layer] = {}]
  BY DEF SkipLayer
<1>2. BeamInv /\ Aged /\ Scored /\ RestingLayers /\ RestingBoards
  BY DEF LeftInv
<1>3. BeamsReached /\ task \in BeamTasks /\ layer \in Int /\ minLayer \in Nat /\ round \in Nat
      /\ layer <= NLayer(task) - 1
  BY DEF LeftInv, BeamInv, LoopsInv
<1>4. layer \in Layers(task) /\ \A l \in Layers(task) : l \in Nat
  BY <1>1, <1>3, TaskType
<1>5. /\ \A l \in Layers(task) : /\ beams'[l] = IF l = layer THEN nextBeams[l] ELSE beams[l]
                                 /\ nextBeams'[l] = IF l = layer THEN {} ELSE nextBeams[l]
  <2>1. beams \in [Layers(task) -> SUBSET BeamBoards] /\ nextBeams \in [Layers(task) -> SUBSET BeamBoards]
    BY <1>3 DEF BeamsReached
  <2> QED
    BY ONLY <1>1, <1>4, <2>1
<1>6. Aged'
  <2>1. ASSUME NEW l \in Layers(task), l >= minLayer, NEW b \in beams'[l]
        PROVE  Len(b.moves) = Extra + (IF layer' < l THEN round + 1 ELSE round)
    <3>1. CASE l = layer
      <4>1. b \in nextBeams[layer] /\ layer' < l
        BY <1>1, <1>3, <1>5, <2>1, <3>1
      <4>2. Extra + round + 1 = Extra + (round + 1)
        BY <1>3 DEF Extra
      <4> QED
        BY <1>2, <1>4, <4>1, <4>2 DEF Aged
    <3>2. CASE l # layer
      <4>1. b \in beams[l] /\ (layer' < l <=> layer < l)
        BY <1>1, <1>3, <1>4, <1>5, <2>1, <3>2
      <4> QED
        BY <1>2, <2>1, <4>1 DEF Aged
    <3> QED
      BY <3>1, <3>2
  <2>2. \A l \in Layers(task) : nextBeams'[l] = {}
    BY <1>2, <1>5 DEF Aged
  <2> QED
    BY <1>1, <2>1, <2>2, SameTask, SameCosts DEF Aged
<1>7. Scored' /\ RestingLayers' /\ EndInv'
  BY <1>1, <1>2, SameCosts DEF Scored, RestingLayers, EndInv
<1>8. RestingBoards'
  <2>1. \A l \in Layers(task) : l < minLayer => beams'[l] = beams[l]
    BY <1>1, <1>3, <1>4, <1>5
  <2> QED
    BY <1>1, <1>2, <2>1, SameTask, SameCosts DEF RestingBoards
<1>9. Small(task)' /\ (maxLayer = NLayer(task) - 1)'
  BY <1>1, SameTask DEF LeftInv, Small
<1> QED
  BY <1>2, <1>1, <1>6, <1>7, <1>8, <1>9, SkipLayerInv DEF LeftInv

\* An answer found now is better than the best one, and scored by what it costs; the
\* boards that are left in the layer have made a move more.
LEMMA ExpandLayerLeft ==
  ASSUME LeftInv, ExpandLayer
  PROVE  LeftInv'
<1>1. /\ UNCHANGED <<task, round, minLayer, maxLayer, outcome>> /\ layer' = layer - 1
      /\ outcome = "searching" /\ layer >= minLayer
  BY DEF ExpandLayer, ExpandBest, HasBoards
<1>2. BeamInv /\ Aged /\ Scored /\ RestingLayers /\ RestingBoards
  BY DEF LeftInv
<1>3. BeamsReached /\ task \in BeamTasks /\ layer \in Int /\ minLayer \in Nat /\ round \in Nat
      /\ layer <= NLayer(task) - 1 /\ LoopsInv /\ BestInv
  BY DEF LeftInv, BeamInv, LoopsInv
<1>4. layer \in Layers(task) /\ \A l \in Layers(task) : l \in Nat
  BY <1>1, <1>3, TaskType
<1>5. PICK new, down :
        /\ \A l \in Layers(task) :
             beams'[l] = IF l = layer THEN nextBeams[l] \cup new ELSE beams[l]
        /\ \A l \in Layers(task) :
             nextBeams'[l] = IF l = layer THEN {} ELSE IF l = layer - 1 THEN down ELSE nextBeams[l]
        /\ \A c \in new : \E b \in beams[layer] : c \in Slides(b)
        /\ \A c \in down : \E b \in beams[layer] : c \in Reselected(b, layer)
        /\ \/ UNCHANGED best
           \/ \E c : /\ \E b \in beams[layer] : c \in Slides(b)
                     /\ IsFinishedBoard(c) /\ ScoreNow < best.score
                     /\ best' = [score |-> ScoreNow, moves |-> c.moves]
  BY <1>2, ExpandEffect
<1>a. beams'[layer] = nextBeams[layer] \cup new
  BY ONLY <1>4, <1>5
<1>b. \A l \in Layers(task) : l # layer => beams'[l] = beams[l]
  BY ONLY <1>5
<1>c. \A l \in Layers(task) : l # layer => (layer' < l <=> layer < l)
  BY ONLY <1>1, <1>3, <1>4
<1>6. \A b \in beams[layer] : Reached(b, layer) /\ Len(b.moves) = Extra + round
  <2>1. ~(layer < layer)
    BY <1>3
  <2> QED
    BY <1>1, <1>2, <1>3, <1>4, <2>1 DEF BeamsReached, Aged
<1>7. Extra \in Nat /\ Extra + round + 1 = Extra + (round + 1)
  BY <1>3 DEF Extra
<1>8. \A b \in beams[layer] : \A c \in Slides(b) :
        Reached(c, layer) /\ Len(c.moves) = Extra + round + 1
  BY <1>3, <1>4, <1>6, ExpandReached, ExpandLength
<1>9. \A b \in beams[layer] : \A c \in Reselected(b, layer) :
        layer > minLayer /\ Len(c.moves) = Extra + round + 1
  BY <1>6, ExpandLength DEF Reselected
<1>10. Aged'
  <2>1. ASSUME NEW l \in Layers(task), l >= minLayer, NEW b \in beams'[l]
        PROVE  Len(b.moves) = Extra + (IF layer' < l THEN round + 1 ELSE round)
    <3>1. CASE l = layer
      <4>1. layer' < l /\ b \in nextBeams[l] \cup new
        <5>1. layer' < l
          BY ONLY <1>1, <1>3, <3>1
        <5> QED
          BY ONLY <1>a, <2>1, <3>1, <5>1
      <4>2. Len(b.moves) = Extra + round + 1
        BY <1>2, <1>4, <1>5, <1>8, <3>1, <4>1 DEF Aged
      <4> QED
        BY <1>7, <4>1, <4>2
    <3>2. CASE l # layer
      <4>1. b \in beams[l] /\ (layer' < l <=> layer < l)
        BY ONLY <1>b, <1>c, <2>1, <3>2
      <4> QED
        BY <1>2, <2>1, <4>1 DEF Aged
    <3> QED
      BY <3>1, <3>2
  <2>2. ASSUME NEW l \in Layers(task), NEW b \in nextBeams'[l]
        PROVE  l = layer' /\ layer' >= minLayer /\ Len(b.moves) = Extra + round + 1
    <3>1. CASE l = layer
      BY <1>5, <2>2, <3>1
    <3>2. CASE l # layer /\ l = layer - 1
      <4>1. b \in down
        BY <1>5, <2>2, <3>2
      <4>2. layer > minLayer /\ Len(b.moves) = Extra + round + 1
        BY <1>5, <1>9, <4>1
      <4> QED
        BY <1>1, <1>3, <3>2, <4>2
    <3>3. CASE l # layer /\ l # layer - 1
      <4>1. b \in nextBeams[l]
        BY <1>5, <2>2, <3>3
      <4> QED
        BY <1>2, <3>3, <4>1 DEF Aged
    <3> QED
      BY <3>1, <3>2, <3>3
  <2> QED
    BY <1>1, <2>1, <2>2, SameTask, SameCosts DEF Aged
<1>11. /\ Scored'
       /\ best # NoBest => /\ best' # NoBest /\ best'.score \in Int /\ best'.score <= best.score
                           /\ CostOf(best'.moves) <= CostOf(best.moves)
  <2>1. CASE UNCHANGED best
    <3>1. best # NoBest => CostOf(best.moves) \in Int /\ best.score \in Int
      <4>1. best.score \in Int /\ task.swappingCost \in Nat /\ Spared \in Int
        BY <1>3, TaskType DEF BestInv, Spared
      <4> QED
        BY <1>2, <4>1 DEF Scored
    <3> QED
      BY <1>1, <1>2, <2>1, <3>1, SameCosts DEF Scored
  <2>2. CASE ~UNCHANGED best
    <3>1. PICK c : /\ \E b \in beams[layer] : c \in Slides(b)
                   /\ IsFinishedBoard(c) /\ ScoreNow < best.score
                   /\ best' = [score |-> ScoreNow, moves |-> c.moves]
      BY <1>5, <2>2
    <3>2. Reached(c, layer) /\ Len(c.moves) = Extra + (round + 1) /\ round + 1 \in Nat
      BY <1>3, <1>7, <1>8, <3>1
    <3>3. /\ CostOf(c.moves) \in Int
          /\ CostOf(c.moves) = ScoreIn(layer, round + 1) + task.swappingCost - Spared
      BY <1>3, <1>4, <3>2, BoardCost
    <3>4. ScoreNow = ScoreIn(layer, round) /\ ScoreIn(layer, round) \in Int
          /\ ScoreIn(layer, round + 1) = ScoreIn(layer, round) + task.swappingCost
      <4>1. ScoreNow = ScoreIn(layer, round)
        BY DEF ScoreNow, ScoreIn
      <4>2. ScoreIn(layer, round) \in Int
            /\ ScoreIn(layer, round + 1) = ScoreIn(layer, round) + task.swappingCost
        BY ONLY <1>3, ScoreFacts
      <4> QED
        BY <4>1, <4>2
    <3>5. best'.score = ScoreNow /\ best'.moves = c.moves
      BY <3>1
    <3>6. best.score \in Int /\ task.swappingCost \in Nat /\ Spared \in Int
      BY <1>3, TaskType DEF BestInv, Spared
    <3>7. CostOf(c.moves) = ScoreNow + 2 * task.swappingCost - Spared
      BY ONLY <3>3, <3>4, <3>6
    <3>8. best # NoBest => CostOf(c.moves) <= CostOf(best.moves)
      <4>1. best # NoBest => CostOf(best.moves) = best.score + 2 * task.swappingCost - Spared
        BY <1>2 DEF Scored
      <4> QED
        BY ONLY <3>1, <3>4, <3>6, <3>7, <4>1
    <3>9. Scored'
      BY <1>1, <3>5, <3>7, SameCosts DEF Scored
    <3>10. best' # NoBest
      <4>1. best.score <= NoScore /\ NoScore \in Int
        BY <1>3 DEF BestInv, NoScore
      <4> QED
        BY <3>1, <3>4, <3>5, <3>6, <4>1 DEF NoBest
    <3> QED
      BY <3>1, <3>4, <3>5, <3>6, <3>8, <3>9, <3>10
  <2> QED
    BY <2>1, <2>2
<1>12. minLayer > 0 => best # NoBest
  BY <1>2, <1>3 DEF RestingLayers
<1>13. RestingLayers'
  <2>1. best' = NoBest \/ task.selectionCost <= task.swappingCost => minLayer = 0
    BY <1>2, <1>11 DEF RestingLayers
  <2>2. ASSUME NEW l \in Nat, l < minLayer PROVE best'.score < ScoreIn(l, round)
    <3>1. best.score < ScoreIn(l, round) /\ best # NoBest
      BY <1>2, <1>3, <1>12, <2>2 DEF RestingLayers
    <3>2. best.score \in Int /\ ScoreIn(l, round) \in Int
      BY <1>3, ScoreFacts DEF BestInv
    <3> QED
      BY <1>11, <3>1, <3>2
  <2> QED
    BY <1>1, <2>1, <2>2, SameCosts DEF RestingLayers
<1>14. RestingBoards'
  <2>1. ASSUME NEW l \in Layers(task), l < minLayer, NEW b \in beams'[l]
        PROVE  CostOf(b.moves) + task.swappingCost >= CostOf(best'.moves)
    <3>1. b \in beams[l] /\ best # NoBest
      <4>1. l # layer /\ minLayer > 0
        <5>1. l \in Nat
          BY <1>4
        <5>2. layer \in Int /\ minLayer \in Nat /\ layer >= minLayer
          BY <1>1, <1>3
        <5> QED
          BY ONLY <2>1, <5>1, <5>2
      <4> QED
        BY ONLY <1>b, <1>12, <2>1, <4>1
    <3>2. CostOf(b.moves) + task.swappingCost >= CostOf(best.moves)
      BY <1>2, <2>1, <3>1 DEF RestingBoards
    <3>3. CostOf(best'.moves) <= CostOf(best.moves)
      BY <1>11, <3>1
    <3>4. \A moves \in Seq(Moves) : CostOf(moves) \in Int
      <4>1. task.swappingCost \in Nat /\ task.selectionCost \in Nat
        BY <1>3, TaskType
      <4>2. ASSUME NEW moves \in Seq(Moves) PROVE CostOf(moves) \in Int
        <5>1. SelectionCount(moves) \in Int /\ SwapCount(moves) \in Int
          BY MovesCounted, LenProperties
        <5> QED
          BY <4>1, <5>1 DEF CostOf
      <4> QED
        BY <4>2
    <3>5. CostOf(b.moves) \in Int
      BY <1>3, <3>1, <3>4 DEF BeamsReached, Reached, BeamBoards
    <3>6. CostOf(best.moves) \in Int /\ CostOf(best'.moves) \in Int
      <4>1. best.score \in Int /\ task.swappingCost \in Nat /\ Spared \in Int
        BY <1>3, TaskType DEF BestInv, Spared
      <4>2. CostOf(best.moves) = best.score + 2 * task.swappingCost - Spared
        BY <1>2, <3>1 DEF Scored
      <4>3. CostOf(best'.moves) = best'.score + 2 * task.swappingCost - Spared
        BY <1>1, <1>11, <3>1, SameCosts DEF Scored
      <4> QED
        BY <1>11, <3>1, <4>1, <4>2, <4>3
    <3>7. task.swappingCost \in Nat
      BY <1>3, TaskType
    <3> QED
      BY ONLY <3>2, <3>3, <3>5, <3>6, <3>7
  <2> QED
    BY <1>1, <2>1, SameTask, SameCosts DEF RestingBoards
<1>15. EndInv'
  BY <1>1 DEF EndInv
<1>16. Small(task)' /\ (maxLayer = NLayer(task) - 1)'
  BY <1>1, SameTask DEF LeftInv, Small
<1> QED
  BY <1>2, <1>10, <1>11, <1>13, <1>14, <1>15, <1>16, ExpandLayerInv DEF LeftInv

\* A board of a layer that comes to rest leads to nothing better.
LEMMA NextRoundLeft ==
  ASSUME LeftInv, NextRound
  PROVE  LeftInv'
<1>1. /\ UNCHANGED <<task, beams, nextBeams, best, preMinLayer, reliability>>
      /\ outcome = "searching" /\ layer < minLayer
  BY DEF NextRound
<1>2. /\ BeamInv /\ Aged /\ Scored /\ RestingLayers /\ RestingBoards
      /\ Small(task) /\ maxLayer = NLayer(task) - 1
  BY DEF LeftInv
<1>3. BeamsReached /\ task \in BeamTasks /\ layer \in Int /\ minLayer \in Nat /\ round \in Nat
      /\ BestInv /\ LoopsInv
  BY <1>2 DEF BeamInv, LoopsInv
<1>4. \A l \in Layers(task) : l \in Nat /\ l <= NLayer(task) - 1
  BY <1>3, TaskType
<1>5. BeamInv'
  BY <1>2, NextRoundInv
<1>6. Scored'
  BY <1>1, <1>2, SameCosts DEF Scored
<1>7. Small(task)' /\ (maxLayer' = maxLayer => (maxLayer = NLayer(task) - 1)')
  BY <1>1, <1>2, SameTask DEF Small
<1>8. CASE GivenUp \/ NothingToGain(round + 1)
  <2>1. UNCHANGED <<round, layer, minLayer, maxLayer>>
    BY <1>8 DEF NextRound
  <2>2. Aged' /\ RestingLayers' /\ RestingBoards'
    BY <1>1, <1>2, <2>1, SameTask, SameCosts DEF Aged, RestingLayers, RestingBoards
  <2>3. (GivenUp \/ NothingToGain(round + 1))'
    BY <1>1, <1>8, <2>1, SameTask DEF GivenUp, NothingToGain, LowestLayer
  <2>4. EndInv'
    BY <1>1, <2>1, <2>3 DEF EndInv
  <2> QED
    BY <1>5, <1>6, <1>7, <2>1, <2>2, <2>4 DEF LeftInv
<1>9. CASE ~(GivenUp \/ NothingToGain(round + 1))
  <2>1. /\ round' = round + 1 /\ layer' = NLayer(task) - 1 /\ outcome' = outcome
        /\ minLayer' = IF best = NoBest THEN 0 ELSE LowestLayer(round + 1)
        /\ maxLayer' = maxLayer
    BY <1>2, <1>9 DEF NextRound, DetermineBeamWidth
  <2>2. best # NoBest => task.selectionCost > task.swappingCost
    BY <1>3, <1>9, TaskType DEF NothingToGain
  <2>3. /\ task.swappingCost \in Nat /\ task.selectionCost \in Nat /\ best.score \in Int
        /\ round + 1 \in Nat /\ Spared \in Int
    BY <1>3, TaskType DEF BestInv, Spared
  \* the layers that rest in the next round
  <2>4. ASSUME NEW l \in Int, best # NoBest
        PROVE  l < minLayer' <=> best.score < ScoreIn(l, round + 1)
    BY <1>3, <2>1, <2>2, <2>3, <2>4, LowestLayerFacts
  <2>5. RestingLayers'
    <3>1. best = NoBest \/ task.selectionCost <= task.swappingCost => minLayer' = 0
      BY <2>1, <2>2, <2>3
    <3>2. ASSUME NEW l \in Nat, l < minLayer' PROVE best.score < ScoreIn(l, round + 1)
      <4>1. best # NoBest
        <5>1. ~(l < 0)
          OBVIOUS
        <5> QED
          BY <2>1, <3>2, <5>1
      <4> QED
        BY <2>4, <3>2, <4>1
    <3> QED
      BY <1>1, <2>1, <3>1, <3>2, SameCosts DEF RestingLayers
  \* a layer that rests goes on resting
  <2>6. minLayer <= minLayer'
    <3>1. CASE minLayer = 0
      BY <1>5, <3>1 DEF BeamInv, LoopsInv
    <3>2. CASE minLayer # 0
      <4> DEFINE l == minLayer - 1
      <4>1. l \in Nat /\ l < minLayer
        BY <1>3, <3>2
      <4>2. best # NoBest /\ best.score < ScoreIn(l, round)
        BY <1>2, <3>2, <4>1 DEF RestingLayers
      <4>3. ScoreIn(l, round) \in Int /\ ScoreIn(l, round + 1) = ScoreIn(l, round) + task.swappingCost
        <5>1. l \in Int /\ round \in Nat /\ task \in BeamTasks
          BY <1>3, <4>1
        <5> QED
          BY ONLY <5>1, ScoreFacts
      <4>4. best.score < ScoreIn(l, round + 1)
        BY ONLY <2>3, <4>2, <4>3
      <4>5. l < minLayer'
        BY <2>4, <4>1, <4>2, <4>4
      <4>6. minLayer' \in Nat
        BY <1>5 DEF BeamInv, LoopsInv
      <4> QED
        BY ONLY <1>3, <4>5, <4>6
    <3> QED
      BY <3>1, <3>2
  <2>7. \A l \in Layers(task) : nextBeams[l] = {}
    BY <1>1, <1>2, <1>3 DEF Aged
  \* when all layers have had their turn, all boards have as many moves as rounds
  <2>8. ASSUME NEW l \in Layers(task), l >= minLayer, NEW b \in beams[l]
        PROVE  Len(b.moves) = Extra + (round + 1)
    <3>1. layer < l
      <4>1. l \in Nat
        BY <1>4
      <4> QED
        BY <1>1, <1>3, <2>8, <4>1
    <3> QED
      BY <1>2, <2>8, <3>1 DEF Aged
  <2>9. Aged'
    <3>1. ASSUME NEW l \in Layers(task), l >= minLayer', NEW b \in beams[l]
          PROVE  Len(b.moves) = Extra + (IF layer' < l THEN round' + 1 ELSE round')
      <4>1. l >= minLayer /\ ~(layer' < l)
        <5>1. minLayer' \in Nat /\ l \in Nat /\ l <= NLayer(task) - 1 /\ NLayer(task) \in Nat
          BY <1>3, <1>4, <1>5, TaskType DEF BeamInv, LoopsInv
        <5> QED
          BY ONLY <1>3, <2>1, <2>6, <3>1, <5>1
      <4> QED
        BY <2>1, <2>8, <4>1
    <3> QED
      BY <1>1, <2>7, <3>1, SameTask, SameCosts DEF Aged
  <2>10. RestingBoards'
    <3>1. ASSUME NEW l \in Layers(task), l < minLayer', NEW b \in beams[l]
          PROVE  CostOf(b.moves) + task.swappingCost >= CostOf(best.moves)
      <4>1. CASE l < minLayer
        BY <1>2, <4>1 DEF RestingBoards
      <4>2. CASE ~(l < minLayer)
        <5>1. l \in Int /\ ~(l < 0) /\ l >= minLayer
          BY <1>3, <1>4, <4>2
        <5>2. best # NoBest
          BY <2>1, <3>1, <5>1
        <5>3. best.score < ScoreIn(l, round + 1)
          BY <2>4, <3>1, <5>1, <5>2
        <5>4. Reached(b, l) /\ Len(b.moves) = Extra + (round + 1)
          BY <1>3, <2>8, <5>1 DEF BeamsReached
        <5>5. CostOf(b.moves) = ScoreIn(l, round + 1) + task.swappingCost - Spared
          BY <1>3, <2>3, <5>4, BoardCost
        <5>6. CostOf(best.moves) = best.score + 2 * task.swappingCost - Spared
          BY <1>2, <5>2 DEF Scored
        <5>7. ScoreIn(l, round + 1) \in Int
          BY <1>3, <2>3, <5>1, ScoreFacts
        <5> QED
          BY ONLY <2>3, <5>3, <5>5, <5>6, <5>7
      <4> QED
        BY <4>1, <4>2
    <3> QED
      BY <1>1, <3>1, SameTask, SameCosts DEF RestingBoards
  <2>11. EndInv'
    BY <1>1, <2>1 DEF EndInv
  <2> QED
    BY <1>5, <1>6, <1>7, <2>1, <2>5, <2>9, <2>10, <2>11 DEF LeftInv
<1> QED
  BY <1>8, <1>9

\* A search that begins again leaves nothing behind, like the first one.
LEMMA RetryLeft ==
  ASSUME LeftInv, Retry
  PROVE  LeftInv'
<1>1. task \in BeamTasks /\ BeamStart(task)
  BY DEF LeftInv, BeamInv, Retry
<1>2. PICK t \in BeamTasks : BeamStart(t) /\ t = task
  BY <1>1
<1>3. Begins(t)'
  BY <1>2 DEF BeamStart, Begins, Layers, NLayer, FirstBoards, FirstMinLayer, Small,
               IsFinishedBoard, ManhattanOf, StartBoard
<1>4. BeginsNew'
  BY BeginLeft, PTL
<1>5. Small(t)
  BY <1>2 DEF LeftInv
<1> QED
  BY <1>3, <1>4, <1>5 DEF BeginsNew, Small

\* The inductive invariant on boards of any size.
SmallLeftInv == BeamInv /\ (Small(task) => LeftInv)

\* The invariant holds when beamSearch() is called.
LEMMA InitLeft == BeamInit => SmallLeftInv
<1> SUFFICES ASSUME BeamInit PROVE SmallLeftInv
  OBVIOUS
<1>1. PICK t \in BeamTasks : task = t /\ Begins(t)
  BY DEF BeamInit, Begins
<1>2. Small(t) => LeftInv
  BY <1>1, BeginLeft DEF BeginsNew
<1> QED
  BY <1>1, <1>2, BeamInitInv DEF SmallLeftInv

\* No step of the search disturbs it.
LEMMA StepLeft == SmallLeftInv /\ [BeamNext]_beamVars => SmallLeftInv'
<1> SUFFICES ASSUME SmallLeftInv, [BeamNext]_beamVars PROVE SmallLeftInv'
  OBVIOUS
<1>1. BeamInv'
  BY BeamStepInv DEF SmallLeftInv
<1>2. UNCHANGED task
  BY DEF beamVars, BeamNext, SkipLayer, ExpandLayer, ExpandBest, NextRound, Retry, BeamStart
<1>3. Small(task)' <=> Small(task)
  BY <1>2 DEF Small
<1>4. ASSUME LeftInv PROVE LeftInv'
  <2>1. CASE UNCHANGED beamVars
    <3>1. UNCHANGED <<task, beams, nextBeams, best, round, layer, minLayer, maxLayer, outcome,
                      preMinLayer, reliability>>
      BY <2>1 DEF beamVars
    <3>2. Aged' /\ Scored' /\ RestingLayers' /\ RestingBoards'
      BY <1>4, <3>1, SameTask, SameCosts DEF LeftInv, Aged, Scored, RestingLayers, RestingBoards
    <3>3. EndInv'
      BY <1>4, <3>1, SameTask DEF LeftInv, EndInv, GivenUp, NothingToGain, LowestLayer
    <3>4. Small(task)' /\ (maxLayer = NLayer(task) - 1)'
      BY <1>3, <1>4, <3>1, SameTask DEF LeftInv
    <3> QED
      BY <1>1, <3>2, <3>3, <3>4 DEF LeftInv
  <2> QED
    BY <1>4, <2>1, SkipLayerLeft, ExpandLayerLeft, NextRoundLeft, RetryLeft DEF BeamNext
<1> QED
  BY <1>1, <1>3, <1>4 DEF SmallLeftInv

\* A board in a layer that rests leads to nothing better; when the search has ended
\* for want of gain, neither does a board of the other layers.
LEMMA LeftInvProperty == SmallLeftInv => NothingBetterLeftBehind
<1> SUFFICES ASSUME LeftInv, best # NoBest, task.selectionCost >= task.swappingCost,
                    ~(outcome # "searching" /\ GivenUp),
                    NEW l \in Layers(task), l < minLayer \/ outcome # "searching",
                    NEW b \in beams[l]
             PROVE  CostOf(b.moves) + task.swappingCost >= CostOf(best.moves)
  BY DEF NothingBetterLeftBehind, SmallLeftInv
<1>1. BeamInv /\ Aged /\ Scored /\ RestingLayers /\ RestingBoards /\ EndInv
  BY DEF LeftInv
<1>2. CASE l < minLayer
  BY <1>1, <1>2 DEF RestingBoards
<1>3. CASE ~(l < minLayer)
  <2>1. BeamsReached /\ task \in BeamTasks /\ layer \in Int /\ minLayer \in Nat /\ round \in Nat
        /\ BestInv
    BY <1>1 DEF BeamInv, LoopsInv
  <2>2. l \in Nat /\ l <= NLayer(task) - 1 /\ NLayer(task) \in Nat
    BY <2>1, TaskType
  <2>3. layer < minLayer /\ NothingToGain(round + 1) /\ maxLayer = NLayer(task) - 1
    BY <1>1, <1>3 DEF EndInv, LeftInv
  <2>4. layer < l /\ l >= minLayer
    BY ONLY <1>3, <2>1, <2>2, <2>3
  <2>5. Reached(b, l) /\ Len(b.moves) = Extra + (round + 1) /\ round + 1 \in Nat
    BY <1>1, <2>1, <2>4 DEF BeamsReached, Aged
  <2>6. CostOf(b.moves) = ScoreIn(l, round + 1) + task.swappingCost - Spared
    BY <2>1, <2>5, BoardCost
  <2>7. CostOf(best.moves) = best.score + 2 * task.swappingCost - Spared
    BY <1>1 DEF Scored
  <2>8. /\ task.swappingCost \in Nat /\ task.selectionCost \in Nat /\ best.score \in Int
        /\ Spared \in Int
    BY <2>1, TaskType DEF BestInv, Spared
  <2>9. ScoreIn(l, round + 1) \in Int
    BY <2>1, <2>2, <2>5, ScoreFacts
  <2>10. best.score <= ScoreIn(l, round + 1)
    <3>1. CASE task.selectionCost > task.swappingCost
      <4>1. LowestLayer(round + 1) > NLayer(task) - 1
        BY <2>3, <2>8, <3>1 DEF NothingToGain
      <4>2. LowestLayer(round + 1) \in Int
            /\ (l < LowestLayer(round + 1) <=> best.score < ScoreIn(l, round + 1))
        BY SMTT(30), <2>1, <2>2, <2>5, <2>8, <3>1, LowestLayerFacts
      <4>3. l < LowestLayer(round + 1)
        BY ONLY <2>2, <4>1, <4>2
      <4> QED
        BY ONLY <2>8, <2>9, <4>2, <4>3
    <3>2. CASE ~(task.selectionCost > task.swappingCost)
      <4>1. task.selectionCost = task.swappingCost
        BY <2>8, <3>2
      <4>2. best.score <= ScoreIn(0, round)
        BY <2>1 DEF BestInv
      <4>3. ScoreIn(l, round + 1) = ScoreIn(l, round) + task.swappingCost
        <5>1. l \in Int /\ round \in Nat /\ task \in BeamTasks
          BY <2>1, <2>2
        <5> QED
          BY ONLY <5>1, ScoreFacts
      <4>4. ScoreIn(l, round) = ScoreIn(0, round) /\ ScoreIn(0, round) \in Int
        <5>1. l \in Int /\ 0 \in Int /\ round \in Nat /\ task \in BeamTasks
          BY <2>1, <2>2
        <5> QED
          BY ONLY <4>1, <5>1, ScoreFacts
      <4> QED
        BY ONLY <2>8, <4>2, <4>3, <4>4
    <3> QED
      BY <3>1, <3>2
  <2> QED
    BY ONLY <2>6, <2>7, <2>8, <2>9, <2>10
<1> QED
  BY <1>2, <1>3

\* The boards that the beam search leaves behind, in the layers that rest and at the
\* end (KurageSolver::beamSearch, minLayer), would not have given a cheaper answer
\* with their next move, for every board of at most evenArea cells (36 in the code), all
\* costs and every width of the beam.
THEOREM NothingLeftBehind == BeamSpec => []NothingBetterLeftBehind
<1>1. SmallLeftInv /\ [BeamNext]_beamVars => SmallLeftInv'
  BY StepLeft
<1> QED
  BY <1>1, InitLeft, LeftInvProperty, PTL DEF BeamSpec

-----------------------------------------------------------------------------
(* The tree of answers.                                                    *)

\* A node, and a board with its place in the tree and its moves.
TreeNodes == [parentIndex : Int, move : TreeMoves, parentThread : Nat]
TreeBoards == [index : Int, thread : Nat, moves : Seq(TreeMoves)]

\* Where a thread may be in add().
AddSteps == {"idle", "locking", "growing", "indexing", "adding"}

\* The variables have their types.
TreeTypes ==
  /\ nodes \in Seq(Seq(TreeNodes))
  /\ leaves \in SUBSET TreeBoards
  /\ localId \in [Threads -> Int] /\ idCount \in Nat
  /\ step \in [Threads -> AddSteps]
  /\ work \in [Threads -> [leaf : TreeBoards, move : TreeMoves \cup {0}, index : Int]]

\* The threads of a search have different indices.
IdsDiffer ==
  \A t \in Threads : localId[t] # NoId =>
    /\ localId[t] \in 0 .. idCount - 1
    /\ \A u \in Threads \ {t} : localId[u] # localId[t]

\* A thread that adds a node has a list, and nobody else adds to this list.
WorkInv ==
  \A t \in Threads : step[t] # "idle" =>
    /\ localId[t] # NoId
    /\ work[t].leaf \in leaves /\ work[t].move \in TreeMoves
    /\ step[t] \in {"indexing", "adding"} => localId[t] + 1 \in DOMAIN nodes
    /\ step[t] = "adding" => work[t].index = Len(List(localId[t]))

\* The node of a board holds the last of its moves and the place of a board that has
\* made the moves before.
Placed(leaf) ==
  IF leaf.index = NoIndex
  THEN leaf.moves = <<>>
  ELSE /\ leaf.thread + 1 \in DOMAIN nodes
       /\ leaf.index + 1 \in DOMAIN List(leaf.thread)
       /\ \E p \in leaves, m \in TreeMoves :
            /\ List(leaf.thread)[leaf.index + 1]
                 = [parentIndex |-> p.index, move |-> m, parentThread |-> p.thread]
            /\ leaf.moves = Append(p.moves, m)

LeavesPlaced == \A leaf \in leaves : Placed(leaf)

\* A board has made no more moves than there are nodes, of which there are at most
\* MaxNodes.
NodesBounded ==
  /\ IsFiniteSet(Places)
  /\ NodeCount + Pending <= MaxNodes
  /\ \A leaf \in leaves : Len(leaf.moves) <= NodeCount

\* The inductive invariant.
TreeInv == TreeTypes /\ IdsDiffer /\ WorkInv /\ LeavesPlaced /\ NodesBounded

\* One node back.
Back(b) ==
  LET place == b[1]
      moves == b[2]
  IN  IF place[1] = NoIndex THEN b
      ELSE LET node == List(place[2])[place[1] + 1]
           IN  <<<<node.parentIndex, node.parentThread>>, <<node.move>> \o moves>>

\* The function that buildAnswer() defines by recursion.
Backs(back, leaf, k) ==
  back = [n \in 0 .. k |->
            IF n = 0 THEN <<<<leaf.index, leaf.thread>>, <<>>>> ELSE Back(back[n - 1])]

\* There is such a function.
LEMMA BacksExist ==
  ASSUME NEW leaf, NEW k \in Nat
  PROVE  \E back : Backs(back, leaf, k)
<1> DEFINE S == {n \in Nat : \E back : Backs(back, leaf, n)}
           first == <<<<leaf.index, leaf.thread>>, <<>>>>
<1>1. 0 \in S
  <2> DEFINE b == [n \in 0 .. 0 |-> first]
             rhs == [n \in 0 .. 0 |-> IF n = 0 THEN first ELSE Back(b[n - 1])]
  <2>1. b = rhs
    OBVIOUS
  <2>2. Backs(b, leaf, 0)
    BY <2>1 DEF Backs
  <2> QED
    BY <2>2
<1>2. ASSUME NEW n \in S PROVE n + 1 \in S
  <2>1. PICK back : Backs(back, leaf, n)
    OBVIOUS
  <2> HIDE DEF first
  <2> DEFINE new == [i \in 0 .. n + 1 |-> IF i = n + 1 THEN Back(back[n]) ELSE back[i]]
             rhs == [i \in 0 .. n + 1 |-> IF i = 0 THEN first ELSE Back(new[i - 1])]
  <2>2. ASSUME NEW i \in 0 .. n + 1 PROVE new[i] = rhs[i]
    <3>1. CASE i = n + 1
      <4>1. n \in 0 .. n + 1 /\ n # n + 1 /\ i # 0 /\ i - 1 = n
        BY <3>1
      <4>2. new[n] = back[n]
        BY <4>1
      <4>3. new[i] = Back(back[n]) /\ rhs[i] = Back(new[i - 1])
        BY <3>1, <4>1
      <4> HIDE DEF new, rhs
      <4> QED
        BY ONLY <4>1, <4>2, <4>3
    <3>2. CASE i # n + 1
      <4>1. i \in 0 .. n /\ new[i] = back[i]
        BY <3>2
      <4>2. back[i] = IF i = 0 THEN first ELSE Back(back[i - 1])
        BY <2>1, <4>1 DEF Backs, first
      <4>3. i # 0 => i - 1 \in 0 .. n + 1 /\ i - 1 # n + 1
        BY <4>1
      <4>4. i # 0 => new[i - 1] = back[i - 1]
        BY <4>3
      <4>5. rhs[i] = IF i = 0 THEN first ELSE Back(new[i - 1])
        OBVIOUS
      <4> HIDE DEF new, rhs
      <4> QED
        BY ONLY <4>1, <4>2, <4>4, <4>5
    <3> QED
      BY <3>1, <3>2
  <2>3. new = rhs
    <3>1. /\ DOMAIN new = 0 .. n + 1 /\ DOMAIN rhs = 0 .. n + 1
          /\ new = [i \in DOMAIN new |-> new[i]]
          /\ rhs = [i \in DOMAIN rhs |-> rhs[i]]
      OBVIOUS
    <3> HIDE DEF new, rhs
    <3> QED
      BY <2>2, <3>1
  <2>4. Backs(new, leaf, n + 1)
    BY <2>3 DEF Backs, first
  <2>5. \E b : Backs(b, leaf, n + 1)
    BY <2>4
  <2> QED
    BY <2>5
<1>3. S \in SUBSET Nat
  OBVIOUS
<1>4. S = Nat
  <2> HIDE DEF S
  <2> QED
    BY <1>1, <1>2, <1>3, SetInduction
<1> QED
  BY <1>4

\* What buildAnswer() has read after n nodes.
LEMMA BuildSteps ==
  ASSUME NEW leaf, MaxNodes \in Nat
  PROVE  \E back : /\ BuildAnswer(leaf) = back[MaxNodes][2]
                   /\ back[0] = <<<<leaf.index, leaf.thread>>, <<>>>>
                   /\ \A n \in 1 .. MaxNodes : back[n] = Back(back[n - 1])
<1>1. BuildAnswer(leaf) = (CHOOSE back : Backs(back, leaf, MaxNodes))[MaxNodes][2]
  BY DEF BuildAnswer, Backs, Back
<1>2. PICK back : Backs(back, leaf, MaxNodes) /\ BuildAnswer(leaf) = back[MaxNodes][2]
  BY <1>1, BacksExist
<1>3. 0 \in 0 .. MaxNodes /\ \A n \in 1 .. MaxNodes : n \in 0 .. MaxNodes /\ n # 0
  OBVIOUS
<1>4. back[0] = <<<<leaf.index, leaf.thread>>, <<>>>>
  BY <1>2, <1>3 DEF Backs
<1>5. \A n \in 1 .. MaxNodes : back[n] = Back(back[n - 1])
  BY <1>2, <1>3 DEF Backs
<1> QED
  BY <1>2, <1>4, <1>5

\* Going back from a board, buildAnswer() meets boards whose moves the ones it has
\* read complete.
LEMMA BuildAnswerFinds ==
  ASSUME TreeInv, NEW leaf \in leaves
  PROVE  BuildAnswer(leaf) = leaf.moves
<1>1. MaxNodes \in Nat /\ leaves \in SUBSET TreeBoards /\ LeavesPlaced
  BY TreeAssumption DEF TreeInv, TreeTypes
<1>2. PICK back : /\ BuildAnswer(leaf) = back[MaxNodes][2]
                  /\ back[0] = <<<<leaf.index, leaf.thread>>, <<>>>>
                  /\ \A n \in 1 .. MaxNodes : back[n] = Back(back[n - 1])
  BY <1>1, BuildSteps
<1> DEFINE At(n) == \E p \in leaves, s \in Seq(TreeMoves) :
                      /\ back[n] = <<<<p.index, p.thread>>, s>>
                      /\ leaf.moves = p.moves \o s
                      /\ p.index = NoIndex \/ Len(leaf.moves) = Len(p.moves) + n
           S == {n \in Nat : n <= MaxNodes => At(n)}
<1>3. \A p \in leaves : /\ p.index \in Int /\ p.thread \in Nat /\ p.moves \in Seq(TreeMoves)
                        /\ Len(p.moves) \in Nat
  BY <1>1, LenProperties DEF TreeBoards
<1>4. 0 \in S
  <2>1. leaf.moves = leaf.moves \o <<>> /\ <<>> \in Seq(TreeMoves)
    BY <1>3, ConcatEmptySeq, EmptySeq
  <2>2. Len(leaf.moves) = Len(leaf.moves) + 0
    BY <1>3
  <2>3. At(0)
    BY <1>2, <2>1, <2>2
  <2> HIDE DEF At
  <2> QED
    BY <2>3
<1>5. ASSUME NEW n \in S PROVE n + 1 \in S
  <2>1. SUFFICES ASSUME n + 1 <= MaxNodes PROVE At(n + 1)
    <3> HIDE DEF At
    <3> QED
      BY n + 1 \in Nat
  <2>2. n \in Nat /\ n <= MaxNodes /\ n + 1 \in 1 .. MaxNodes /\ (n + 1) - 1 = n
    BY <1>1, <2>1
  <2>3. back[n + 1] = Back(back[n])
    BY <1>2, <2>2
  <2>4. PICK p \in leaves, s \in Seq(TreeMoves) :
          /\ back[n] = <<<<p.index, p.thread>>, s>>
          /\ leaf.moves = p.moves \o s
          /\ p.index = NoIndex \/ Len(leaf.moves) = Len(p.moves) + n
    BY <2>2
  <2>5. CASE p.index = NoIndex
    <3>1. back[n + 1] = back[n]
      BY <2>3, <2>4, <2>5 DEF Back
    <3> QED
      BY <2>4, <2>5, <3>1
  <2>6. CASE p.index # NoIndex
    <3>1. PICK q \in leaves, m \in TreeMoves :
            /\ List(p.thread)[p.index + 1]
                 = [parentIndex |-> q.index, move |-> m, parentThread |-> q.thread]
            /\ p.moves = Append(q.moves, m)
      BY <1>1, <2>6 DEF LeavesPlaced, Placed
    <3>2. back[n + 1] = <<<<q.index, q.thread>>, <<m>> \o s>>
      <4> DEFINE place == <<p.index, p.thread>>
                 b == <<place, s>>
                 node == List(p.thread)[p.index + 1]
      <4>1. /\ b[1] = place /\ b[2] = s
            /\ place[1] = p.index /\ place[2] = p.thread
        OBVIOUS
      <4>2. node.parentIndex = q.index /\ node.move = m /\ node.parentThread = q.thread
        BY <3>1
      <4>3. Back(b) = <<<<node.parentIndex, node.parentThread>>, <<node.move>> \o s>>
        BY <2>6, <4>1 DEF Back
      <4> HIDE DEF node
      <4>4. back[n + 1] = Back(b)
        BY <2>3, <2>4
      <4> QED
        BY ONLY <4>2, <4>3, <4>4
    <3>3. <<m>> \in Seq(TreeMoves) /\ <<m>> \o s \in Seq(TreeMoves)
      BY ConcatProperties
    <3>4. p.moves = q.moves \o <<m>> /\ Len(p.moves) = Len(q.moves) + 1
      <4>1. ASSUME NEW r \in Seq(TreeMoves)
            PROVE  Append(r, m) = r \o <<m>> /\ Len(Append(r, m)) = Len(r) + 1
        BY ONLY m \in TreeMoves, r \in Seq(TreeMoves), AppendIsConcat, AppendProperties
      <4>2. q.moves \in Seq(TreeMoves)
        BY <1>3
      <4> QED
        BY ONLY <3>1, <4>1, <4>2
    <3>5. leaf.moves = q.moves \o (<<m>> \o s)
      <4>1. q.moves \in Seq(TreeMoves) /\ s \in Seq(TreeMoves)
        BY <1>3
      <4>2. (q.moves \o <<m>>) \o s = q.moves \o (<<m>> \o s)
        <5> DEFINE one == <<m>>
                   r == q.moves
        <5>1. one \in Seq(TreeMoves) /\ r \in Seq(TreeMoves)
          BY <3>3, <4>1
        <5> HIDE DEF one, r
        <5>2. (r \o one) \o s = r \o (one \o s)
          BY ONLY SMTT(30), <5>1, s \in Seq(TreeMoves), ConcatAssociative
        <5> QED
          BY <5>2 DEF one, r
      <4> QED
        BY ONLY <2>4, <3>4, <4>2
    <3>6. Len(leaf.moves) = Len(q.moves) + (n + 1)
      <4>1. Len(q.moves) \in Nat
        BY <1>3
      <4>2. Len(leaf.moves) = Len(p.moves) + n
        BY <2>4, <2>6
      <4>3. Len(p.moves) = Len(q.moves) + 1
        BY <3>4
      <4>4. n \in Nat
        BY <2>2
      <4> DEFINE a == Len(leaf.moves)
                 b == Len(p.moves)
                 c == Len(q.moves)
      <4> HIDE DEF a, b, c
      <4>5. a = b + n /\ b = c + 1 /\ c \in Nat
        BY <4>1, <4>2, <4>3 DEF a, b, c
      <4>6. a = c + (n + 1)
        BY ONLY <4>4, <4>5
      <4> QED
        BY <4>6 DEF a, c
    <3> QED
      BY <3>2, <3>3, <3>5, <3>6
  <2> QED
    BY <2>5, <2>6
<1>6. S \in SUBSET Nat
  OBVIOUS
<1>7. S = Nat
  <2> HIDE DEF S
  <2> QED
    BY <1>4, <1>5, <1>6, SetInduction
<1>8. At(MaxNodes)
  BY <1>1, <1>7
<1>9. PICK p \in leaves, s \in Seq(TreeMoves) :
        /\ back[MaxNodes] = <<<<p.index, p.thread>>, s>>
        /\ leaf.moves = p.moves \o s
        /\ p.index = NoIndex \/ Len(leaf.moves) = Len(p.moves) + MaxNodes
  BY <1>8
<1>10. p.index = NoIndex
  <2>1. SUFFICES ASSUME p.index # NoIndex PROVE FALSE
    OBVIOUS
  <2>2. PICK q \in leaves, m \in TreeMoves : p.moves = Append(q.moves, m)
    BY <1>1, <2>1 DEF LeavesPlaced, Placed
  <2>3. Len(p.moves) = Len(q.moves) + 1
    BY <1>3, <2>2, AppendProperties
  <2>4. Len(leaf.moves) <= NodeCount /\ NodeCount + Pending <= MaxNodes
        /\ NodeCount \in Nat /\ Pending \in Nat
    <3>1. NodeCount \in Nat
      BY FS_CardinalityType DEF TreeInv, NodesBounded, NodeCount
    <3>2. Pending \in Nat
      <4>1. IsFiniteSet({t \in Threads : step[t] # "idle"})
        BY TreeAssumption, FS_Subset
      <4> QED
        BY <4>1, FS_CardinalityType DEF Pending
    <3> QED
      BY <3>1, <3>2 DEF TreeInv, NodesBounded
  <2> QED
    BY <1>1, <1>3, <1>9, <2>1, <2>3, <2>4
<1>11. p.moves = <<>>
  BY <1>1, <1>10 DEF LeavesPlaced, Placed
<1>12. leaf.moves = s
  BY <1>9, <1>11, ConcatEmptySeq
<1> QED
  BY <1>2, <1>9, <1>12


\* Lists that keep their nodes.
ListsGrow ==
  \A k \in DOMAIN nodes :
    /\ k \in DOMAIN nodes'
    /\ \A i \in DOMAIN nodes[k] : i \in DOMAIN nodes'[k] /\ nodes'[k][i] = nodes[k][i]

\* A board keeps its place while the lists grow.
LEMMA PlaceKept ==
  ASSUME TreeTypes, ListsGrow, leaves \subseteq leaves', NEW leaf \in leaves, Placed(leaf)
  PROVE  Placed(leaf)'
<1>1. CASE leaf.index = NoIndex
  BY <1>1 DEF Placed
<1>2. CASE leaf.index # NoIndex
  <2>1. PICK p \in leaves, m \in TreeMoves :
          /\ List(leaf.thread)[leaf.index + 1]
               = [parentIndex |-> p.index, move |-> m, parentThread |-> p.thread]
          /\ leaf.moves = Append(p.moves, m)
    BY <1>2 DEF Placed
  <2>2. leaf.thread + 1 \in DOMAIN nodes /\ leaf.index + 1 \in DOMAIN nodes[leaf.thread + 1]
    BY <1>2 DEF Placed, List
  <2>3. /\ leaf.thread + 1 \in DOMAIN nodes'
        /\ leaf.index + 1 \in DOMAIN nodes'[leaf.thread + 1]
        /\ nodes'[leaf.thread + 1][leaf.index + 1] = nodes[leaf.thread + 1][leaf.index + 1]
    BY ONLY <2>2, ListsGrow DEF ListsGrow
  <2>4. p \in leaves'
    OBVIOUS
  <2> QED
    BY ONLY <1>2, <2>1, <2>3, <2>4 DEF Placed, List
<1> QED
  BY <1>1, <1>2

\* The places of the nodes depend on the lists only.
LEMMA SameNodes ==
  ASSUME UNCHANGED nodes
  PROVE  Places' = Places /\ NodeCount' = NodeCount
BY DEF Places, NodeCount

\* Boards keep their places while neither they nor the lists change.
LEMMA SameLeaves ==
  ASSUME LeavesPlaced, UNCHANGED <<nodes, leaves>>
  PROVE  LeavesPlaced'
BY DEF LeavesPlaced, Placed, List

\* The threads that add a node.
Busy == {t \in Threads : step[t] # "idle"}

\* They are counted.
LEMMA BusyFinite == IsFiniteSet(Busy) /\ Pending = Cardinality(Busy) /\ Pending \in Nat
<1>1. IsFiniteSet(Busy)
  BY TreeAssumption, FS_Subset DEF Busy
<1> QED
  BY <1>1, FS_CardinalityType DEF Busy, Pending

\* A thread that begins, or goes on, is busy.
LEMMA BusyMore ==
  ASSUME NEW t \in Threads, step \in [Threads -> AddSteps], NEW s, s # "idle",
         s \in AddSteps, step' = [step EXCEPT ![t] = s]
  PROVE  Pending' = IF step[t] = "idle" THEN Pending + 1 ELSE Pending
<1>1. Busy' = Busy \cup {t}
  BY DEF Busy
<1>2. IsFiniteSet(Busy) /\ Pending = Cardinality(Busy) /\ Pending' = Cardinality(Busy')
  BY BusyFinite DEF Pending, Busy
<1>3. t \in Busy <=> step[t] # "idle"
  BY DEF Busy
<1> HIDE DEF Busy
<1>4. Cardinality(Busy \cup {t}) = IF t \in Busy THEN Cardinality(Busy) ELSE Cardinality(Busy) + 1
  BY <1>2, FS_AddElement
<1> QED
  BY <1>1, <1>2, <1>3, <1>4

\* A thread that has added its node is idle.
LEMMA BusyLess ==
  ASSUME NEW t \in Threads, step \in [Threads -> AddSteps], step[t] # "idle",
         step' = [step EXCEPT ![t] = "idle"]
  PROVE  Pending' = Pending - 1
<1>1. Busy' = Busy \ {t}
  BY DEF Busy
<1>2. IsFiniteSet(Busy) /\ Pending = Cardinality(Busy) /\ Pending' = Cardinality(Busy')
  BY BusyFinite DEF Pending, Busy
<1>3. t \in Busy
  BY DEF Busy
<1> HIDE DEF Busy
<1>4. Cardinality(Busy \ {t}) = IF t \in Busy THEN Cardinality(Busy) - 1 ELSE Cardinality(Busy)
  BY <1>2, FS_RemoveElement
<1> QED
  BY <1>1, <1>2, <1>3, <1>4

\* The tree without nodes.
LEMMA TreeInitInv == TreeInit => TreeInv
<1> SUFFICES ASSUME TreeInit PROVE TreeInv
  OBVIOUS
<1>1. /\ nodes = <<>> /\ leaves = {Root} /\ idCount = 0
      /\ localId = [t \in Threads |-> NoId]
      /\ step = [t \in Threads |-> "idle"] /\ work = [t \in Threads |-> NoWork]
  BY DEF TreeInit
<1>2. Root \in TreeBoards /\ Root.moves = <<>> /\ Root.index = NoIndex
  BY EmptySeq DEF Root, TreeBoards, NoIndex
<1>3. TreeTypes
  <2>1. nodes \in Seq(Seq(TreeNodes))
    BY <1>1, EmptySeq
  <2>2. work \in [Threads -> [leaf : TreeBoards, move : TreeMoves \cup {0}, index : Int]]
    BY <1>1, <1>2 DEF NoWork, NoIndex
  <2> QED
    BY <1>1, <1>2, <2>1, <2>2 DEF TreeTypes, NoId, AddSteps
<1>4. IdsDiffer /\ WorkInv
  BY <1>1 DEF IdsDiffer, WorkInv
<1>5. LeavesPlaced
  BY <1>1, <1>2 DEF LeavesPlaced, Placed
<1>6. NodesBounded
  <2>1. Places = {}
    BY <1>1 DEF Places
  <2>2. NodeCount = 0 /\ IsFiniteSet(Places)
    BY <2>1, FS_EmptySet DEF NodeCount
  <2>3. Pending = 0
    <3>1. Busy = {}
      BY <1>1 DEF Busy
    <3> QED
      BY <3>1, BusyFinite, FS_EmptySet
  <2> QED
    BY <1>1, <1>2, <2>2, <2>3, TreeAssumption DEF NodesBounded
<1> QED
  BY <1>3, <1>4, <1>5, <1>6 DEF TreeInv

\* A thread gets an index that no other has.
LEMMA GetLocalIdInv ==
  ASSUME TreeInv, NEW t \in Threads, GetLocalId(t)
  PROVE  TreeInv'
<1>1. /\ localId[t] = NoId /\ localId' = [localId EXCEPT ![t] = idCount]
      /\ idCount' = idCount + 1 /\ UNCHANGED <<nodes, leaves, step, work>>
  BY DEF GetLocalId
<1>2. TreeTypes /\ localId \in [Threads -> Int] /\ idCount \in Nat
  BY DEF TreeInv, TreeTypes
<1>3. TreeTypes'
  BY <1>1, <1>2 DEF TreeTypes
<1>4. \A u \in Threads : localId'[u] = IF u = t THEN idCount ELSE localId[u]
  BY <1>1, <1>2
<1>5. IdsDiffer'
  BY <1>1, <1>2, <1>4 DEF TreeInv, IdsDiffer, NoId
<1>6. WorkInv'
  BY <1>1, <1>4 DEF TreeInv, WorkInv, List
<1>7. LeavesPlaced' /\ NodesBounded'
  BY <1>1, SameLeaves, SameNodes DEF TreeInv, NodesBounded, Pending
<1> QED
  BY <1>3, <1>5, <1>6, <1>7 DEF TreeInv

\* A thread takes a board and a move.
LEMMA BeginMoveInv ==
  ASSUME TreeInv, NEW t \in Threads, BeginMove(t)
  PROVE  TreeInv'
<1>1. /\ step[t] = "idle" /\ localId[t] # NoId /\ NodeCount + Pending < MaxNodes
      /\ step' = [step EXCEPT ![t] = IF Len(nodes) <= localId[t] THEN "locking" ELSE "indexing"]
      /\ UNCHANGED <<nodes, leaves, localId, idCount>>
  BY DEF BeginMove
<1>2. PICK leaf \in leaves, m \in TreeMoves :
        work' = [work EXCEPT ![t] = [leaf |-> leaf, move |-> m, index |-> NoIndex]]
  BY DEF BeginMove
<1>3. TreeTypes
  BY DEF TreeInv
<1>4. /\ nodes \in Seq(Seq(TreeNodes)) /\ localId \in [Threads -> Int] /\ leaf \in TreeBoards
      /\ step \in [Threads -> AddSteps]
      /\ work \in [Threads -> [leaf : TreeBoards, move : TreeMoves \cup {0}, index : Int]]
  BY <1>3 DEF TreeTypes
<1>5. TreeTypes'
  <2> DEFINE w == [leaf |-> leaf, move |-> m, index |-> NoIndex]
  <2>1. w \in [leaf : TreeBoards, move : TreeMoves \cup {0}, index : Int]
    BY <1>4 DEF NoIndex
  <2> HIDE DEF w
  <2>2. work' \in [Threads -> [leaf : TreeBoards, move : TreeMoves \cup {0}, index : Int]]
    BY <1>2, <1>4, <2>1 DEF w
  <2>3. step' \in [Threads -> AddSteps]
    BY <1>1, <1>4 DEF AddSteps
  <2> QED
    BY <1>1, <1>3, <2>2, <2>3 DEF TreeTypes
<1>6. IdsDiffer'
  BY <1>1 DEF TreeInv, IdsDiffer
<1>7. WorkInv'
  <2>1. ASSUME NEW u \in Threads, u # t PROVE step'[u] = step[u] /\ work'[u] = work[u]
    BY <1>1, <1>2, <1>4, <2>1
  <2>2. /\ work'[t].leaf = leaf /\ work'[t].move = m /\ step'[t] # "adding"
        /\ step'[t] = "indexing" => ~(Len(nodes) <= localId[t])
    BY <1>1, <1>2, <1>4
  <2>3. localId[t] \in Nat
    BY <1>1 DEF TreeInv, IdsDiffer
  <2>4. ~(Len(nodes) <= localId[t]) => localId[t] + 1 \in DOMAIN nodes
    <3>1. DOMAIN nodes = 1 .. Len(nodes) /\ Len(nodes) \in Nat
      BY <1>4, LenProperties
    <3> QED
      BY ONLY <2>3, <3>1
  <2>5. ASSUME NEW u \in Threads, u # t, step'[u] # "idle"
        PROVE  /\ localId'[u] # NoId
               /\ work'[u].leaf \in leaves' /\ work'[u].move \in TreeMoves
               /\ step'[u] \in {"indexing", "adding"} => localId'[u] + 1 \in DOMAIN nodes'
               /\ step'[u] = "adding" => work'[u].index = Len(List(localId[u]))'
    BY <1>1, <2>1, <2>5 DEF TreeInv, WorkInv, List
  <2> QED
    BY <1>1, <2>2, <2>4, <2>5 DEF WorkInv
<1>8. LeavesPlaced'
  BY <1>1, SameLeaves DEF TreeInv
<1>9. NodesBounded'
  <2>1. Pending' = Pending + 1
    <3> DEFINE s == IF Len(nodes) <= localId[t] THEN "locking" ELSE "indexing"
    <3>1. s \in AddSteps /\ s # "idle"
      BY DEF AddSteps
    <3>2. step' = [step EXCEPT ![t] = s]
      BY <1>1
    <3> HIDE DEF s
    <3> QED
      BY ONLY <1>1, <1>4, <3>1, <3>2, t \in Threads, BusyMore
  <2>2. IsFiniteSet(Places) /\ NodeCount \in Nat
    BY FS_CardinalityType DEF TreeInv, NodesBounded, NodeCount
  <2>3. NodeCount' = NodeCount /\ Places' = Places
    BY <1>1, SameNodes
  <2>4. NodeCount + (Pending + 1) <= MaxNodes
    BY <1>1, <2>2, BusyFinite, TreeAssumption
  <2> QED
    BY <1>1, <2>1, <2>2, <2>3, <2>4 DEF TreeInv, NodesBounded
<1> QED
  BY <1>5, <1>6, <1>7, <1>8, <1>9 DEF TreeInv

\* A step inside add() that changes no list and no board.
LEMMA StepInside ==
  ASSUME TreeInv, NEW t \in Threads, NEW s, s # "idle", step[t] # "idle",
         s \in AddSteps, step' = [step EXCEPT ![t] = s], UNCHANGED <<leaves, localId, idCount>>,
         UNCHANGED nodes
  PROVE  /\ IdsDiffer' /\ LeavesPlaced' /\ NodesBounded'
         /\ step' \in [Threads -> AddSteps]
<1>1. step \in [Threads -> AddSteps]
  BY DEF TreeInv, TreeTypes
<1>2. step' \in [Threads -> AddSteps]
  BY <1>1
<1>3. IdsDiffer'
  BY DEF TreeInv, IdsDiffer
<1>4. Pending' = Pending
  BY ONLY <1>1, t \in Threads, s \in AddSteps, s # "idle", step[t] # "idle",
          step' = [step EXCEPT ![t] = s], BusyMore
<1>5. LeavesPlaced' /\ NodesBounded'
  BY <1>4, SameLeaves, SameNodes DEF TreeInv, NodesBounded
<1> QED
  BY <1>2, <1>3, <1>5

\* The lock is taken; the list is there, or the thread makes it.
LEMMA LockInv ==
  ASSUME TreeInv, NEW t \in Threads, Lock(t)
  PROVE  TreeInv'
<1> DEFINE s == IF Len(nodes) <= localId[t] THEN "growing" ELSE "indexing"
<1>1. /\ step[t] = "locking" /\ step' = [step EXCEPT ![t] = s]
      /\ UNCHANGED <<nodes, leaves, localId, idCount, work>>
  BY DEF Lock
<1>2. /\ s \in AddSteps /\ s # "idle" /\ s # "adding"
      /\ s = "indexing" => ~(Len(nodes) <= localId[t])
  BY DEF AddSteps
<1> HIDE DEF s
<1>3. /\ IdsDiffer' /\ LeavesPlaced' /\ NodesBounded'
      /\ step' \in [Threads -> AddSteps]
  BY <1>1, <1>2, StepInside
<1>4. TreeTypes'
  BY <1>1, <1>3 DEF TreeInv, TreeTypes
<1>5. WorkInv'
  <2>1. nodes \in Seq(Seq(TreeNodes)) /\ step \in [Threads -> AddSteps] /\ localId \in [Threads -> Int]
    BY DEF TreeInv, TreeTypes
  <2>2. localId[t] \in Nat
    BY <1>1 DEF TreeInv, IdsDiffer, WorkInv
  <2>3. s = "indexing" => localId[t] + 1 \in DOMAIN nodes
    <3>1. DOMAIN nodes = 1 .. Len(nodes) /\ Len(nodes) \in Nat
      BY <2>1, LenProperties
    <3> QED
      BY ONLY <1>2, <2>2, <3>1
  <2>4. \A u \in Threads : step'[u] = IF u = t THEN s ELSE step[u]
    BY <1>1, <2>1
  <2> QED
    BY <1>1, <1>2, <2>3, <2>4 DEF TreeInv, WorkInv, List
<1> QED
  BY <1>3, <1>4, <1>5 DEF TreeInv

\* The index of the new node.
LEMMA ReadSizeInv ==
  ASSUME TreeInv, NEW t \in Threads, ReadSize(t)
  PROVE  TreeInv'
<1> DEFINE n == Len(List(localId[t]))
<1>1. /\ step[t] = "indexing" /\ step' = [step EXCEPT ![t] = "adding"]
      /\ work' = [work EXCEPT ![t].index = n]
      /\ UNCHANGED <<nodes, leaves, localId, idCount>>
  BY DEF ReadSize
<1>2. /\ IdsDiffer' /\ LeavesPlaced' /\ NodesBounded'
      /\ step' \in [Threads -> AddSteps]
  BY <1>1, "adding" \in AddSteps, StepInside DEF AddSteps
<1>3. /\ nodes \in Seq(Seq(TreeNodes)) /\ step \in [Threads -> AddSteps]
      /\ work \in [Threads -> [leaf : TreeBoards, move : TreeMoves \cup {0}, index : Int]]
  BY DEF TreeInv, TreeTypes
<1>4. localId[t] + 1 \in DOMAIN nodes
  BY <1>1 DEF TreeInv, WorkInv
<1>5. n \in Nat
  <2>1. List(localId[t]) \in Seq(TreeNodes)
    <3>1. DOMAIN nodes = 1 .. Len(nodes)
      BY <1>3, LenProperties
    <3> QED
      BY <1>3, <1>4, <3>1, ElementOfSeq DEF List
  <2> QED
    BY <2>1, LenProperties
<1> HIDE DEF n
<1>6. \A u \in Threads : /\ work'[u].leaf = work[u].leaf /\ work'[u].move = work[u].move
                         /\ work'[u].index = IF u = t THEN n ELSE work[u].index
                         /\ step'[u] = IF u = t THEN "adding" ELSE step[u]
  BY <1>1, <1>3
<1>7. TreeTypes'
  <2>1. PICK l \in TreeBoards, m \in TreeMoves \cup {0}, i \in Int :
          work[t] = [leaf |-> l, move |-> m, index |-> i]
    BY <1>3
  <2> DEFINE w == [leaf |-> l, move |-> m, index |-> n]
  <2>2. w \in [leaf : TreeBoards, move : TreeMoves \cup {0}, index : Int]
    BY <1>5
  <2>3. work' = [work EXCEPT ![t] = w]
    <3>1. [work[t] EXCEPT !.index = n] = w
      BY <2>1
    <3> HIDE DEF w
    <3> QED
      BY <1>1, <3>1
  <2> HIDE DEF w
  <2>4. work' \in [Threads -> [leaf : TreeBoards, move : TreeMoves \cup {0}, index : Int]]
    BY ONLY <1>3, <2>2, <2>3
  <2> QED
    BY <1>1, <1>2, <2>4 DEF TreeInv, TreeTypes
<1>8. WorkInv'
  BY <1>1, <1>4, <1>6 DEF TreeInv, WorkInv, List, n
<1> QED
  BY <1>2, <1>7, <1>8 DEF TreeInv

\* The new lists are empty.
LEMMA GrowInv ==
  ASSUME TreeInv, NEW t \in Threads, Grow(t)
  PROVE  TreeInv'
<1> DEFINE k == localId[t] + 1 - Len(nodes)
           pad == [i \in 1 .. k |-> <<>>]
<1>1. /\ step[t] = "growing" /\ step' = [step EXCEPT ![t] = "indexing"]
      /\ nodes' = nodes \o pad
      /\ UNCHANGED <<leaves, localId, idCount, work>>
  BY DEF Grow
<1>2. /\ nodes \in Seq(Seq(TreeNodes)) /\ step \in [Threads -> AddSteps]
      /\ localId[t] \in Nat /\ Len(nodes) \in Nat /\ DOMAIN nodes = 1 .. Len(nodes)
  <2>1. nodes \in Seq(Seq(TreeNodes)) /\ step \in [Threads -> AddSteps]
    BY DEF TreeInv, TreeTypes
  <2>2. localId[t] \in Nat
    BY <1>1 DEF TreeInv, IdsDiffer, WorkInv
  <2> QED
    BY <2>1, <2>2, LenProperties
<1>3. PICK n \in Nat : /\ pad \in Seq(Seq(TreeNodes)) /\ Len(pad) = n /\ n >= k
                       /\ \A i \in 1 .. n : pad[i] = <<>>
  <2>1. k \in Int
    BY <1>2
  <2> HIDE DEF k
  <2> DEFINE n == IF k > 0 THEN k ELSE 0
  <2>2. n \in Nat /\ n >= k /\ 1 .. k = 1 .. n
    BY <2>1
  <2> HIDE DEF n
  <2>3. pad = [i \in 1 .. n |-> <<>>]
    BY <2>2
  <2>4. <<>> \in Seq(TreeNodes)
    OBVIOUS
  <2>5. [i \in 1 .. n |-> <<>>] \in Seq(Seq(TreeNodes)) /\ Len([i \in 1 .. n |-> <<>>]) = n
    BY <2>2, <2>4
  <2> QED
    BY <2>2, <2>3, <2>5
<1> HIDE DEF pad
<1>4. /\ nodes' \in Seq(Seq(TreeNodes)) /\ DOMAIN nodes' = 1 .. (Len(nodes) + n)
      /\ \A i \in DOMAIN nodes : i \in DOMAIN nodes' /\ nodes'[i] = nodes[i]
      /\ \A i \in DOMAIN nodes' : i \notin DOMAIN nodes => nodes'[i] = <<>>
      /\ localId[t] + 1 \in DOMAIN nodes'
  <2>1. /\ nodes' \in Seq(Seq(TreeNodes)) /\ Len(nodes') = Len(nodes) + n
        /\ \A i \in 1 .. (Len(nodes) + n) :
             nodes'[i] = IF i <= Len(nodes) THEN nodes[i] ELSE pad[i - Len(nodes)]
    <3> DEFINE all == nodes \o pad
    <3>1. nodes \in Seq(Seq(TreeNodes)) /\ pad \in Seq(Seq(TreeNodes))
      BY ONLY <1>2, <1>3
    <3>2. /\ all \in Seq(Seq(TreeNodes)) /\ Len(all) = Len(nodes) + Len(pad)
          /\ \A i \in 1 .. (Len(nodes) + Len(pad)) :
               all[i] = IF i <= Len(nodes) THEN nodes[i] ELSE pad[i - Len(nodes)]
      BY ONLY <3>1, ConcatProperties
    <3>3. nodes' = all /\ Len(pad) = n
      BY ONLY <1>1, <1>3
    <3> HIDE DEF all
    <3> QED
      BY ONLY <3>2, <3>3
  <2>2. DOMAIN nodes' = 1 .. (Len(nodes) + n)
    BY <2>1, LenProperties
  <2>3. localId[t] + 1 \in DOMAIN nodes'
    BY <1>2, <1>3, <2>2
  <2>4. \A i \in DOMAIN nodes : i \in DOMAIN nodes' /\ nodes'[i] = nodes[i]
    BY <1>2, <2>1, <2>2
  <2>5. \A i \in DOMAIN nodes' : i \notin DOMAIN nodes => nodes'[i] = <<>>
    <3>1. ASSUME NEW i \in DOMAIN nodes', i \notin DOMAIN nodes PROVE nodes'[i] = <<>>
      <4>1. i - Len(nodes) \in 1 .. n /\ ~(i <= Len(nodes)) /\ i \in 1 .. (Len(nodes) + n)
        BY <1>2, <2>2, <3>1
      <4> QED
        BY <1>3, <2>1, <4>1
    <3> QED
      BY <3>1
  <2> QED
    BY <2>1, <2>2, <2>3, <2>4, <2>5
<1>5. TreeTypes'
  BY <1>1, <1>2, <1>4 DEF TreeInv, TreeTypes, AddSteps
<1>6. IdsDiffer'
  BY <1>1 DEF TreeInv, IdsDiffer
<1>7. WorkInv'
  <2>1. \A u \in Threads : step'[u] = IF u = t THEN "indexing" ELSE step[u]
    BY <1>1, <1>2
  <2> QED
    BY <1>1, <1>4, <2>1 DEF TreeInv, WorkInv, List
<1>8. LeavesPlaced'
  <2>1. ListsGrow
    BY <1>4 DEF ListsGrow
  <2> QED
    BY <1>1, <2>1, PlaceKept DEF TreeInv, LeavesPlaced
<1>9. NodesBounded'
  <2>1. Places' = Places
    <3>1. DOMAIN <<>> = {}
      OBVIOUS
    <3>2. ASSUME NEW i \in DOMAIN nodes' PROVE i \notin DOMAIN nodes => DOMAIN nodes'[i] = {}
      BY <1>4, <3>1
    <3> QED
      BY <1>4, <3>2 DEF Places
  <2>2. Pending' = Pending
    BY ONLY <1>1, <1>2, t \in Threads, BusyMore, "indexing" \in AddSteps DEF AddSteps
  <2> QED
    BY <1>1, <2>1, <2>2 DEF TreeInv, NodesBounded, NodeCount
<1> QED
  BY <1>5, <1>6, <1>7, <1>8, <1>9 DEF TreeInv

\* A new node in the thread's own list, and the board that has its place there.
LEMMA AddNodeInv ==
  ASSUME TreeInv, NEW t \in Threads, AddNode(t)
  PROVE  TreeInv'
<1> DEFINE k == localId[t] + 1
           old == nodes[k]
           node == NewNode(t)
           leaf == work[t].leaf
           m == work[t].move
           s == leaf.moves
           moves == Append(s, m)
           new == [index |-> work[t].index, thread |-> localId[t], moves |-> moves]
<1>1. /\ step[t] = "adding" /\ nodes' = [nodes EXCEPT ![k] = Append(old, node)]
      /\ leaves' = leaves \cup {new}
      /\ step' = [step EXCEPT ![t] = "idle"] /\ work' = [work EXCEPT ![t] = NoWork]
      /\ UNCHANGED <<localId, idCount>>
  <2>1. nodes' = [nodes EXCEPT ![k] = Append(nodes[k], NewNode(t))]
    BY DEF AddNode
  <2> QED
    BY <2>1 DEF AddNode
<1>2. /\ nodes \in Seq(Seq(TreeNodes)) /\ leaves \in SUBSET TreeBoards
      /\ step \in [Threads -> AddSteps] /\ localId \in [Threads -> Int]
      /\ work \in [Threads -> [leaf : TreeBoards, move : TreeMoves \cup {0}, index : Int]]
  BY DEF TreeInv, TreeTypes
<1>3. /\ localId[t] \in Nat /\ k \in DOMAIN nodes /\ k \in Nat
      /\ leaf \in leaves /\ m \in TreeMoves /\ work[t].index = Len(old)
      /\ \A u \in Threads \ {t} : localId[u] # localId[t]
  BY <1>1 DEF TreeInv, IdsDiffer, WorkInv, List
<1>4. /\ old \in Seq(TreeNodes) /\ Len(old) \in Nat /\ DOMAIN old = 1 .. Len(old)
      /\ DOMAIN nodes = 1 .. Len(nodes)
  <2>1. DOMAIN nodes = 1 .. Len(nodes)
    BY <1>2, LenProperties
  <2>2. old \in Seq(TreeNodes)
    BY <1>2, <1>3, <2>1, ElementOfSeq
  <2> HIDE DEF old
  <2> QED
    BY <2>1, <2>2, LenProperties
<1>5. /\ leaf \in TreeBoards /\ leaf.index \in Int /\ leaf.thread \in Nat /\ s \in Seq(TreeMoves)
      /\ node = [parentIndex |-> leaf.index, move |-> m, parentThread |-> leaf.thread]
      /\ node \in TreeNodes
  <2>1. leaf \in TreeBoards
    BY <1>2, <1>3
  <2>2. leaf.index \in Int /\ leaf.thread \in Nat /\ s \in Seq(TreeMoves)
    BY <2>1 DEF TreeBoards
  <2>3. node = [parentIndex |-> leaf.index, move |-> m, parentThread |-> leaf.thread]
    BY DEF NewNode
  <2>4. node \in TreeNodes
    BY <1>3, <2>2, <2>3 DEF TreeNodes
  <2> QED
    BY <2>1, <2>2, <2>3, <2>4
<1>6. moves \in Seq(TreeMoves) /\ Len(moves) = Len(s) + 1 /\ Len(s) \in Nat
  <2> HIDE DEF s, m
  <2> QED
    BY <1>3, <1>5, AppendProperties, LenProperties
<1>7. /\ new.index = Len(old) /\ new.thread = localId[t] /\ new.moves = moves
      /\ new \in TreeBoards /\ new.index # NoIndex
  <2> HIDE DEF moves, old
  <2> QED
    BY <1>3, <1>4, <1>6 DEF TreeBoards, NoIndex
<1> HIDE DEF node, new, moves, s, m, leaf, old, k
<1>8. /\ nodes' \in Seq(Seq(TreeNodes)) /\ DOMAIN nodes' = DOMAIN nodes
      /\ nodes'[k] = Append(old, node)
      /\ \A i \in DOMAIN nodes : i # k => nodes'[i] = nodes[i]
  <2>1. Append(old, node) \in Seq(TreeNodes)
    BY <1>4, <1>5, AppendProperties
  <2>2. k \in 1 .. Len(nodes)
    BY <1>3, <1>4
  <2>3. nodes' \in Seq(Seq(TreeNodes))
    BY ONLY <1>1, <1>2, <2>1, <2>2, ExceptSeq
  <2> QED
    BY ONLY <1>1, <1>3, <2>3
<1>9. /\ Append(old, node) \in Seq(TreeNodes) /\ Append(old, node)[Len(old) + 1] = node
      /\ DOMAIN Append(old, node) = 1 .. (Len(old) + 1)
      /\ \A i \in 1 .. Len(old) : Append(old, node)[i] = old[i]
  BY <1>4, <1>5, AppendProperties, LenProperties
<1>10. nodes[k] = old
  BY DEF old
<1>11. TreeTypes'
  <2>1. work' \in [Threads -> [leaf : TreeBoards, move : TreeMoves \cup {0}, index : Int]]
    <3>1. NoWork \in [leaf : TreeBoards, move : TreeMoves \cup {0}, index : Int]
      BY EmptySeq DEF NoWork, NoIndex, Root, TreeBoards
    <3> QED
      BY ONLY <1>1, <1>2, <3>1
  <2>2. step' \in [Threads -> AddSteps]
    BY <1>1, <1>2 DEF AddSteps
  <2> QED
    BY <1>1, <1>2, <1>7, <1>8, <2>1, <2>2 DEF TreeInv, TreeTypes
<1>12. IdsDiffer'
  BY <1>1 DEF TreeInv, IdsDiffer
<1>13. WorkInv'
  <2>1. step'[t] = "idle" /\ \A u \in Threads \ {t} : step'[u] = step[u] /\ work'[u] = work[u]
    BY <1>1, <1>2
  <2>2. ASSUME NEW u \in Threads, step'[u] # "idle"
        PROVE  /\ localId'[u] # NoId
               /\ work'[u].leaf \in leaves' /\ work'[u].move \in TreeMoves
               /\ step'[u] \in {"indexing", "adding"} => localId'[u] + 1 \in DOMAIN nodes'
               /\ step'[u] = "adding" => work'[u].index = Len(List(localId[u]))'
    <3>1. u # t /\ u \in Threads \ {t} /\ step[u] # "idle"
      BY <2>1, <2>2
    <3>2. /\ localId[u] # NoId /\ work[u].leaf \in leaves /\ work[u].move \in TreeMoves
          /\ step[u] \in {"indexing", "adding"} => localId[u] + 1 \in DOMAIN nodes
          /\ step[u] = "adding" => work[u].index = Len(nodes[localId[u] + 1])
      BY <3>1 DEF TreeInv, WorkInv, List
    <3>3. localId[u] + 1 # k
      BY <1>2, <1>3, <3>1 DEF k
    <3> QED
      BY <1>1, <1>8, <2>1, <3>1, <3>2, <3>3 DEF List
  <2> QED
    BY <2>2 DEF WorkInv
<1>14. LeavesPlaced'
  <2>1. ListsGrow
    <3>1. \A i \in DOMAIN old : i \in DOMAIN Append(old, node) /\ Append(old, node)[i] = old[i]
      BY <1>4, <1>9
    <3> QED
      BY <1>8, <1>10, <3>1 DEF ListsGrow
  <2>2. ASSUME NEW b \in leaves PROVE Placed(b)'
    BY <1>1, <2>1, PlaceKept DEF TreeInv, LeavesPlaced
  <2>3. PICK c : c = new
    OBVIOUS
  <2>4. Placed(c)'
    <3>1. new.thread + 1 = k /\ new.index + 1 = Len(old) + 1
      BY <1>7 DEF k
    <3>2. leaf \in leaves' /\ m \in TreeMoves /\ new.moves = Append(leaf.moves, m)
      BY <1>1, <1>3, <1>7 DEF moves, s
    <3>3. /\ new.thread + 1 \in DOMAIN nodes'
          /\ new.index + 1 \in DOMAIN nodes'[new.thread + 1]
          /\ nodes'[new.thread + 1][new.index + 1]
               = [parentIndex |-> leaf.index, move |-> m, parentThread |-> leaf.thread]
      BY <1>3, <1>4, <1>5, <1>8, <1>9, <3>1
    <3> QED
      BY ONLY <1>7, <2>3, <3>2, <3>3 DEF Placed, List
  <2> QED
    BY <1>1, <2>2, <2>3, <2>4 DEF LeavesPlaced
<1>15. NodesBounded'
  <2> DEFINE place == <<k, Len(old) + 1>>
  <2>1. Places' = Places \cup {place} /\ place \notin Places
    <3>1. DOMAIN nodes'[k] = DOMAIN old \cup {Len(old) + 1} /\ Len(old) + 1 \notin DOMAIN old
      BY <1>4, <1>8, <1>9
    <3> DEFINE q == Len(old) + 1
    <3>2. /\ k \in DOMAIN nodes /\ DOMAIN nodes' = DOMAIN nodes /\ DOMAIN nodes[k] = DOMAIN old
          /\ DOMAIN nodes'[k] = DOMAIN nodes[k] \cup {q} /\ q \notin DOMAIN nodes[k]
          /\ \A i \in DOMAIN nodes : i # k => DOMAIN nodes'[i] = DOMAIN nodes[i]
      BY <1>3, <1>8, <1>10, <3>1
    <3>3. place = <<k, q>>
      OBVIOUS
    <3> HIDE DEF place, q
    <3>4. \A x : x \in Places <=> \E i \in DOMAIN nodes : \E j \in DOMAIN nodes[i] : x = <<i, j>>
      BY ONLY TRUE DEF Places
    <3>5. \A x : x \in Places' <=> \E i \in DOMAIN nodes' : \E j \in DOMAIN nodes'[i] : x = <<i, j>>
      BY ONLY TRUE DEF Places
    <3>6. place \notin Places
      BY ONLY <3>2, <3>3, <3>4
    <3>7. ASSUME NEW x \in Places' PROVE x \in Places \cup {place}
      <4>1. PICK i \in DOMAIN nodes' : \E j \in DOMAIN nodes'[i] : x = <<i, j>>
        BY ONLY <3>5, <3>7
      <4>2. CASE i = k
        BY ONLY <3>2, <3>3, <3>4, <4>1, <4>2
      <4>3. CASE i # k
        BY ONLY <3>2, <3>4, <4>1, <4>3
      <4> QED
        BY <4>2, <4>3
    <3>8. ASSUME NEW x \in Places \cup {place} PROVE x \in Places'
      <4>1. CASE x = place
        BY ONLY <3>2, <3>3, <3>5, <4>1
      <4>2. CASE x \in Places
        <5>1. PICK i \in DOMAIN nodes : \E j \in DOMAIN nodes[i] : x = <<i, j>>
          BY ONLY <3>4, <4>2
        <5>2. i \in DOMAIN nodes' /\ \E j \in DOMAIN nodes'[i] : x = <<i, j>>
          BY ONLY <3>2, <5>1
        <5> QED
          BY ONLY <3>5, <5>1, <5>2
      <4> QED
        BY <3>8, <4>1, <4>2
    <3> QED
      BY <3>6, <3>7, <3>8
  <2> HIDE DEF place
  <2>2. IsFiniteSet(Places) /\ NodeCount = Cardinality(Places) /\ NodeCount' = Cardinality(Places')
        /\ NodeCount + Pending <= MaxNodes /\ \A b \in leaves : Len(b.moves) <= NodeCount
    BY DEF TreeInv, NodesBounded, NodeCount
  <2>3. NodeCount' = NodeCount + 1 /\ IsFiniteSet(Places') /\ NodeCount \in Nat
    BY ONLY <2>1, <2>2, FS_AddElement, FS_CardinalityType
  <2>4. Pending' = Pending - 1 /\ Pending \in Nat
    <3>1. step[t] # "idle"
      BY <1>1
    <3> QED
      BY ONLY <1>1, <1>2, <3>1, t \in Threads, BusyLess, BusyFinite
  <2>5. NodeCount' + Pending' <= MaxNodes
    BY <2>2, <2>3, <2>4, TreeAssumption
  <2>6. \A b \in leaves' : Len(b.moves) <= NodeCount'
    <3>1. \A b \in leaves : Len(b.moves) \in Nat
      BY <1>2, LenProperties DEF TreeBoards
    <3>2. Len(new.moves) <= NodeCount + 1
      BY <1>3, <1>6, <1>7, <2>2, <2>3 DEF s
    <3> QED
      BY <1>1, <2>2, <2>3, <3>1, <3>2
  <2> QED
    BY <2>3, <2>5, <2>6, TreeAssumption DEF NodesBounded
<1> QED
  BY <1>11, <1>12, <1>13, <1>14, <1>15 DEF TreeInv

\* Another search, with the tree as it is or an empty one.
LEMMA NextSearchInv ==
  ASSUME TreeInv, NextSearch
  PROVE  TreeInv'
<1>1. /\ Pending = 0 /\ localId' = [t \in Threads |-> NoId] /\ idCount' = 0
      /\ UNCHANGED <<step, work>>
      /\ \/ nodes' = <<>> /\ leaves' = {Root}
         \/ UNCHANGED <<nodes, leaves>>
  BY DEF NextSearch
<1>2. \A t \in Threads : step[t] = "idle"
  <2>1. Busy = {}
    BY <1>1, BusyFinite, FS_EmptySet
  <2> QED
    BY <2>1 DEF Busy
<1>3. Root \in TreeBoards /\ Root.moves = <<>> /\ Root.index = NoIndex /\ Len(<<>>) = 0
  BY EmptySeq DEF Root, TreeBoards, NoIndex
<1>4. TreeTypes'
  <2>1. nodes' \in Seq(Seq(TreeNodes)) /\ leaves' \in SUBSET TreeBoards
    BY <1>1, <1>3, EmptySeq DEF TreeInv, TreeTypes
  <2>2. localId' \in [Threads -> Int] /\ idCount' \in Nat
    BY <1>1 DEF NoId
  <2> QED
    BY <1>1, <2>1, <2>2 DEF TreeInv, TreeTypes
<1>5. IdsDiffer' /\ WorkInv'
  BY <1>1, <1>2 DEF IdsDiffer, WorkInv
<1>6. Pending' = 0
  BY <1>1 DEF Pending
<1>7. CASE UNCHANGED <<nodes, leaves>>
  BY <1>1, <1>4, <1>5, <1>6, <1>7, SameLeaves, SameNodes DEF TreeInv, NodesBounded
<1>8. CASE nodes' = <<>> /\ leaves' = {Root}
  <2>1. LeavesPlaced'
    BY <1>3, <1>8 DEF LeavesPlaced, Placed
  <2>2. Places' = {}
    BY <1>8 DEF Places
  <2>3. NodeCount' = 0 /\ IsFiniteSet(Places')
    BY <2>2, FS_EmptySet DEF NodeCount
  <2>4. NodesBounded'
    BY <1>3, <1>6, <1>8, <2>3, TreeAssumption DEF NodesBounded
  <2> QED
    BY <1>4, <1>5, <2>1, <2>4 DEF TreeInv
<1> QED
  BY <1>1, <1>7, <1>8

\* No step of a thread disturbs the invariant.
LEMMA TreeStepInv == TreeInv /\ [TreeNext]_treeVars => TreeInv'
<1> SUFFICES ASSUME TreeInv, [TreeNext]_treeVars PROVE TreeInv'
  OBVIOUS
<1>1. CASE UNCHANGED treeVars
  <2>1. UNCHANGED <<nodes, leaves, localId, idCount, step, work>>
    BY <1>1 DEF treeVars
  <2> QED
    BY <2>1, SameLeaves, SameNodes
       DEF TreeInv, TreeTypes, IdsDiffer, WorkInv, List, NodesBounded, Pending
<1> QED
  BY <1>1, GetLocalIdInv, BeginMoveInv, LockInv, GrowInv, ReadSizeInv, AddNodeInv, NextSearchInv
     DEF TreeNext

\* Every board of a beam search finds its moves in the tree (AnswerLinearTree::add and
\* buildAnswer), for any number of threads, nodes and searches, as long as no thread
\* touches the lists while another one lengthens them.
THEOREM AnswersKeptAlways == TreeSpec => []AnswersKept
<1>1. TreeInv => AnswersKept
  BY BuildAnswerFinds DEF AnswersKept
<1>2. TreeInv /\ [TreeNext]_treeVars => TreeInv'
  BY TreeStepInv
<1> QED
  BY <1>1, <1>2, TreeInitInv, PTL DEF TreeSpec
=============================================================================
