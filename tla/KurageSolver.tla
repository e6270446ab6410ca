----------------------------- MODULE KurageSolver -----------------------------
(***************************************************************************)
(* slide::KurageSolver: a beam search in layers.  A layer holds the boards *)
(* with as many selections left as its number says.  In every round each   *)
(* layer, the one with the most selections left first, makes one move or   *)
(* one selection of the best of its boards in parallel.                    *)
(*                                                                         *)
(* The threads share nothing in the parallel loop but the best answer,     *)
(* which has a lock, and the tree of answers, which is the subject of      *)
(* AnswerTree; so that here a board carries its moves, the boards of all   *)
(* threads are one set, and the loop is one step.  The score of a board    *)
(* has a random part: any boards may be the best.  On boards of more than  *)
(* 36 cells determineBeamWidth() also drops layers from both ends, by how  *)
(* much is left to do and by how well a layer has done.                    *)
(***************************************************************************)
EXTENDS Answer

CONSTANTS
  BeamTasks,    \* problems, with their costs, totalBeamWidth and evenArea
  Trust,        \* the highest reliability: 20
  Patience      \* how far it may fall below zero, for each row and column: 5

ASSUME TrustAssumption == Trust \in Nat /\ Patience \in Nat

\* Problem::parse reads a permutation, costs that are not negative and a limit above
\* zero; DragonSolver searches on with one selection less, and with a piece selected.
\* (The window's own random problems may have the limit 0, for which the code reads a
\* layer that does not exist.)  evenArea is 36; another number puts a small board on
\* the other side of it.
ASSUME BeamTasksAssumption ==
  \A t \in BeamTasks :
    /\ t.cell \in Boards /\ t.selected \in Points \cup {NoPoint}
    /\ t.selectionLimit \in Nat /\ (t.selectionLimit > 0 \/ IsSelected(t.selected))
    /\ t.swappingCost \in Nat /\ t.selectionCost \in Nat

VARIABLES
  task,         \* what beamSearch() is called with
  beams,        \* boards, by layer
  nextBeams,    \* nextBoards
  visitedIn,    \* visited: the highest layer in which a hash was expanded
  best,         \* bestScore and bestAnswer
  round, layer, \* the variables r and layer of the two loops
  minLayer, maxLayer, preMinLayer,
  reliability, preManhattan,
  allMinManhattan,
  outcome       \* "searching", "answered", "failed" (false is returned)

beamVars == <<task, beams, nextBeams, visitedIn, best, round, layer, minLayer, maxLayer,
              preMinLayer, reliability, preManhattan, allMinManhattan, outcome>>

\* For the two features that are used, which do not depend on the costs.
Board == INSTANCE AdmissibleBoard WITH
  SwappingCost <- 0, SelectionCost <- 0, SelectionLimit <- 16, MaxCost <- 0, board <- task

NoScore == 2^29
NoBest  == [score |-> NoScore, moves |-> <<>>]

-----------------------------------------------------------------------------
(* The boards of the search.                                               *)

\* Mutant: the first selection is not counted.
NLayerOneMore(t) == t.selectionLimit + 1

NLayer(t) == IF IsSelected(t.selected) THEN t.selectionLimit + 1 ELSE t.selectionLimit

Layers(t) == 0 .. NLayer(t) - 1

\* The boards on which the width is always divided evenly.
Small(t) == Height * Width <= t.evenArea

\* In round 0 all is left to do: on a large board only the highest layer is treated.
FirstMinLayer(t) == IF Small(t) THEN 0 ELSE NLayer(t) - 1

\* KurageBoard::init: preMove is Up before the first move.
StartBoard(t) == [cell |-> t.cell, selected |-> t.selected, preMove |-> Swap(Up), moves |-> <<>>]

Chosen(b, p) ==
  [b EXCEPT !.selected = p, !.preMove = Selection(p), !.moves = Append(@, Selection(p))]

Slid(b, dir) ==
  [cell |-> Swapped(b.cell, b.selected, Neighbour(b.selected, dir)),
   selected |-> Neighbour(b.selected, dir),
   preMove |-> Swap(dir), moves |-> Append(b.moves, Swap(dir))]

HashOf(b) == <<b.cell, b.cell[b.selected]>>

ManhattanOf(b) == Board!Manhattan(b.cell, b.selected)

IsFinishedBoard(b) == ManhattanOf(b) = 0

\* isPrunnable(): no selection is left, and the selected piece alone cannot do it.
IsPrunnable(b, l) ==
  l = 0 /\ Board!OddPermutation(b.cell) # Board!Odd(Distance(b.selected, b.cell[b.selected]))

FirstBoards(t) ==
  IF IsSelected(t.selected) THEN {StartBoard(t)} ELSE {Chosen(StartBoard(t), p) : p \in Points}

\* The moves that do not take back the one before.
Slides(b) ==
  {Slid(b, dir) : dir \in {d \in Directions : /\ ValidMove(b.selected, d)
                                              /\ b.preMove # Swap(Opposite(d))}}

\* Another piece is selected when the selected one is at most one step from home; on
\* a large board, when it is at home, but for the layer above the lowest.
MaxNeighbor(l) == IF Small(task) \/ l = minLayer + 1 THEN 1 ELSE 0

Reselected(b, l) ==
  IF /\ l > minLayer /\ ~b.preMove.isSelection
     /\ Distance(b.selected, b.cell[b.selected]) <= MaxNeighbor(l)
  THEN {c \in {Chosen(b, p) : p \in {q \in Points : q # b.selected /\ b.cell[q] # q}} :
          ~IsPrunnable(c, l - 1)}
  ELSE {}

\* What expanding a board with this hash would repeat.
Repeated(seen, b, l) == HashOf(b) \in DOMAIN seen /\ seen[HashOf(b)] >= l

-----------------------------------------------------------------------------
(* beamSearch().                                                           *)

BeamStart(t) ==
  /\ task' = t
  /\ beams' = [l \in Layers(t) |-> IF l = NLayer(t) - 1 THEN FirstBoards(t) ELSE {}]
  /\ nextBeams' = [l \in Layers(t) |-> {}]
  /\ visitedIn' = <<>> /\ best' = NoBest
  /\ round' = 0 /\ layer' = NLayer(t) - 1
  /\ minLayer' = FirstMinLayer(t) /\ maxLayer' = NLayer(t) - 1 /\ preMinLayer' = 0
  /\ reliability' = [l \in Layers(t) |-> Trust]
  /\ preManhattan' = [l \in Layers(t) |-> NoScore] /\ allMinManhattan' = NoScore
  /\ outcome' = IF IsFinishedBoard(StartBoard(t)) THEN "answered" ELSE "searching"

BeamInit ==
  \E t \in BeamTasks :
    /\ task = t
    /\ beams = [l \in Layers(t) |-> IF l = NLayer(t) - 1 THEN FirstBoards(t) ELSE {}]
    /\ nextBeams = [l \in Layers(t) |-> {}]
    /\ visitedIn = <<>> /\ best = NoBest
    /\ round = 0 /\ layer = NLayer(t) - 1
    /\ minLayer = FirstMinLayer(t) /\ maxLayer = NLayer(t) - 1 /\ preMinLayer = 0
    /\ reliability = [l \in Layers(t) |-> Trust]
    /\ preManhattan = [l \in Layers(t) |-> NoScore] /\ allMinManhattan = NoScore
    /\ outcome = IF IsFinishedBoard(StartBoard(t)) THEN "answered" ELSE "searching"

\* A layer without boards takes those that the layer above has just selected.
SkipLayer ==
  /\ outcome = "searching" /\ layer >= minLayer
  /\ beams[layer] = {}
  /\ beams' = [beams EXCEPT ![layer] = nextBeams[layer]]
  /\ nextBeams' = [nextBeams EXCEPT ![layer] = {}]
  /\ layer' = layer - 1
  /\ UNCHANGED <<task, visitedIn, best, round, minLayer, maxLayer, preMinLayer, reliability,
                 preManhattan, allMinManhattan, outcome>>

BeamWidth == task.totalBeamWidth \div (maxLayer - minLayer + 1)

Visited(kept) ==
  [h \in DOMAIN visitedIn \cup {HashOf(b) : b \in kept} |->
     IF h \in DOMAIN visitedIn THEN Max({visitedIn[h]} \cup {layer : b \in {k \in kept : HashOf(k) = h}})
     ELSE layer]

\* The score of an answer that is found now, less two swaps.
ScoreNow ==
  LET used == NLayer(task) - layer
  IN  (round - used) * task.swappingCost + used * task.selectionCost

\* The layer above gets some of the trust too when boards come from selections.
Reliability(kept, minManhattan) ==
  LET selected == Cardinality({b \in kept : b.preMove.isSelection})
      add      == IF selected = 0 THEN 0 ELSE 2 + (5 * selected) \div Cardinality(kept)
      own      == reliability[layer] + (IF preManhattan[layer] <= minManhattan THEN -2 ELSE 1) + add
  IN  [l \in Layers(task) |->
         CASE l = layer -> Min({own, Trust})
           [] l = layer + 1 /\ l <= maxLayer -> reliability[l] + add
           [] OTHER -> reliability[l]]

\* What is left when the kept boards have been moved (slid) and selected on (chosen),
\* and noted as visited (seen).
Expand(kept, seen, slid, chosen, minManhattan) ==
  /\ visitedIn' = seen
  /\ beams' = [beams EXCEPT ![layer] =
                 nextBeams[layer] \cup {b \in slid : ~Repeated(seen, b, layer)}]
  /\ nextBeams' = [l \in Layers(task) |->
                     CASE l = layer -> {}
                       [] l = layer - 1 -> {b \in chosen : ~Repeated(seen, b, l)}
                       [] OTHER -> nextBeams[l]]
  /\ LET finished == {b \in slid : IsFinishedBoard(b)}
     IN  IF finished # {} /\ ScoreNow < best.score
         THEN \E b \in finished : best' = [score |-> ScoreNow, moves |-> b.moves]
         ELSE UNCHANGED best
  /\ reliability' = Reliability(kept, minManhattan)
  /\ preManhattan' = [preManhattan EXCEPT ![layer] = minManhattan]
  /\ allMinManhattan' = Min({allMinManhattan, minManhattan})

\* One layer: the best boards are noted as visited, moved and selected on.
ExpandBest(kept) ==
  /\ \E seen \in {Visited(kept)}, slid \in {UNION {Slides(b) : b \in kept}},
        chosen \in {UNION {Reselected(b, layer) : b \in kept}},
        minManhattan \in {Min({ManhattanOf(b) : b \in kept} \cup {NoScore})} :
       Expand(kept, seen, slid, chosen, minManhattan)
  /\ preMinLayer' = layer
  /\ layer' = layer - 1
  /\ UNCHANGED <<task, round, minLayer, maxLayer, outcome>>

HasBoards == outcome = "searching" /\ layer >= minLayer /\ beams[layer] # {}

ExpandLayer ==
  /\ HasBoards
  /\ \E kept \in IF Cardinality(beams[layer]) <= BeamWidth THEN {beams[layer]}
                 ELSE kSubset(BeamWidth, beams[layer]) : ExpandBest(kept)

\* Mutant: the selections that are made are counted as swaps, too.
LowestLayerOfRounds(r) ==
  LET den == task.selectionCost - task.swappingCost
  IN  (r * task.swappingCost + NLayer(task) * task.selectionCost - best.score + den - 1) \div den

\* The lowest layer in which round r can still find a better answer.
LowestLayer(r) ==
  LET den == task.selectionCost - task.swappingCost
      n   == NLayer(task)
  IN  ((r - n) * task.swappingCost + n * task.selectionCost - best.score + den - 1) \div den

GivenUp == reliability[preMinLayer] < -(Patience * (Height + Width))

\* Nothing can be gained in round r any more.
NothingToGain(r) ==
  /\ best # NoBest
  /\ \/ task.selectionCost <= task.swappingCost
     \/ LowestLayer(r) > maxLayer

\* With no board left and no answer the rounds go on for ever: nothing changes
\* the reliability of a layer that is treated any more.
Exhausted == best = NoBest /\ \A l \in 0 .. maxLayer : beams[l] = {}

\* A layer above the lowest ones that has too often not come nearer to the goal.
Untrusted(l) == l > preMinLayer + 1 /\ reliability[l] < 0

\* int(x * (top + 2) - 1e-10) >= l for l > 0, where x = 1 - (1 - now / first)^2 and
\* now of the first distance is left.  x is not above 0 when no layer had boards.
MuchLeft(l, top) ==
  LET now   == allMinManhattan
      first == ManhattanOf(StartBoard(task))
  IN  now < 2 * first /\ l * first * first < now * (2 * first - now) * (top + 2)

\* determineBeamWidth(), called with minLayer = low: on a large board the highest
\* layers go, never to come back, while they are not trusted, and then the lowest
\* ones are spared while much is left to do.
DetermineBeamWidth(low) ==
  \/ Small(task) /\ minLayer' = low /\ maxLayer' = maxLayer
  \/ /\ ~Small(task)
     /\ \E top \in 0 .. maxLayer : \E bottom \in 0 .. top :
          /\ ~Untrusted(top) /\ \A l \in top + 1 .. maxLayer : Untrusted(l)
          /\ bottom <= low \/ MuchLeft(bottom, top)
          /\ \A l \in bottom + 1 .. top : l > low /\ ~MuchLeft(l, top)
          /\ minLayer' = bottom /\ maxLayer' = top

\* The end of a round and the beginning of the next one.
NextRound ==
  /\ outcome = "searching" /\ layer < minLayer
  /\ IF GivenUp \/ NothingToGain(round + 1)
     THEN /\ outcome' = IF best = NoBest THEN "failed" ELSE "answered"
          /\ UNCHANGED <<round, layer, minLayer, maxLayer, allMinManhattan>>
     ELSE /\ ~Exhausted
          /\ round' = round + 1
          /\ DetermineBeamWidth(IF best = NoBest THEN 0 ELSE LowestLayer(round + 1))
          /\ layer' = maxLayer' /\ allMinManhattan' = NoScore
          /\ UNCHANGED outcome
  /\ UNCHANGED <<task, beams, nextBeams, visitedIn, best, preMinLayer, reliability, preManhattan>>

\* solve() begins again, with a new tree.
Retry == outcome = "failed" /\ BeamStart(task)

BeamNext == SkipLayer \/ ExpandLayer \/ NextRound \/ Retry

BeamSpec == BeamInit /\ [][BeamNext]_beamVars

-----------------------------------------------------------------------------

CostOf(moves) ==
  SelectionCount(moves) * task.selectionCost + SwapCount(moves) * task.swappingCost

\* The answer solves the board with at most as many selections as the problem
\* allows, which the search counts only by the layers and by the extra layer of
\* a board that is already selected.
BeamAnswerCorrect ==
  outcome = "answered" =>
    LET begin == [CheckBegin(task.cell, task.selectionLimit) EXCEPT !.selected = task.selected]
        sim   == FoldLeft(CheckStep, begin, best.moves)
    IN  sim.valid /\ Aligned(sim.cell)

\* After the first answer the layers below minLayer rest, and the search ends when
\* no layer is left (KurageSolver.hpp:140).  If a selection is not cheaper than
\* a swap, no board that is left behind would have given a cheaper answer with its
\* next move, whatever the first selection, the layers and the rounds add to the
\* score.  (Not on large boards, where layers rest because of the reliability.)
NothingBetterLeftBehind ==
  Small(task) /\ best # NoBest /\ task.selectionCost >= task.swappingCost
    /\ ~(outcome # "searching" /\ GivenUp) =>
    \A l \in Layers(task) : l < minLayer \/ outcome # "searching" =>
      \A b \in beams[l] : CostOf(b.moves) + task.swappingCost >= CostOf(best.moves)
=============================================================================
