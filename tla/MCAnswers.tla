------------------------------ MODULE MCAnswers ------------------------------
(***************************************************************************)
(* How an answer is made and improved: a behaviour is a beam search, or    *)
(* the work of threads on the tree of answers, or Answer::optimize() on    *)
(* any answer, or a play from its end, which the lower bound is compared   *)
(* with.                                                                   *)
(***************************************************************************)
EXTENDS AnswerOptimize, KurageSolver, AnswerTree, BackwardPlay

VARIABLE part

At(y, x) == Selection(<<y, x>>)

\* Plays on the finished board, which make problems of a few moves.
MCPlays ==
  {<<At(0, 0), Swap(Right), Swap(Down)>>,
   <<At(0, 0), Swap(Right), At(1, 2), Swap(Left)>>,
   <<At(0, 1), Swap(Down), At(0, 0), Swap(Right), Swap(Right)>>,
   <<At(0, 0), Swap(Right), Swap(Down), Swap(Right)>>}

CellsAfter(play) == Simulate(FinishedState, MaxSelections, play).cell

Task(play, selected, limit, costs, width) ==
  [cell |-> CellsAfter(play), selected |-> selected, selectionLimit |-> limit,
   swappingCost |-> costs[1], selectionCost |-> costs[2], totalBeamWidth |-> width,
   evenArea |-> 36]

\* The boards of this size taken for large ones.
Large(tasks) == {[t EXCEPT !.evenArea = 5] : t \in tasks}

\* Searches that keep every board, and one that keeps one of them.
WideTasks ==
  {Task(play, selected, limit, costs, 100000) :
     play \in MCPlays, selected \in {NoPoint, <<0, 1>>}, limit \in 1..3,
     costs \in {<<1, 1>>, <<2, 3>>, <<1, 4>>, <<3, 1>>}}
  \cup Large({Task(play, selected, limit, costs, 100000) :
     play \in MCPlays, selected \in {NoPoint, <<0, 1>>}, limit \in {1, 3},
     costs \in {<<1, 4>>, <<1, 9>>}})
  \cup {Task(<<At(0, 0), Swap(Right), At(1, 2), Swap(Left)>>, NoPoint, 1, <<2, 3>>, 1)}

\* Searches that keep some boards of many.  Only one way to choose them is followed.
NarrowTasks ==
  Large({Task(play, selected, limit, <<1, 9>>, 25) :
     play \in MCPlays, selected \in {NoPoint, <<0, 1>>, <<0, 2>>, <<1, 2>>}, limit \in {4, 10}})

Choice(boards, n) ==
  FoldSet(LAMBDA b, kept : IF Cardinality(kept) < n THEN kept \cup {b} ELSE kept, {}, boards)

NarrowNext ==
  \/ HasBoards /\ ExpandBest(Choice(beams[layer], BeamWidth))
  \/ SkipLayer \/ NextRound \/ Retry

MCBeamTasks == WideTasks \cup NarrowTasks

OptimizeIdle ==
  /\ opt = OptimizeBegin(At(0, 0))
  /\ raw = [cell |-> FinishedState, selected |-> <<0, 0>>, selections |-> 1, swaps |-> 0]
  /\ result = Unfinished

\* A search for a board that is finished has its answer at once.
BeamIdle ==
  /\ task = [Task(<<>>, NoPoint, 1, <<1, 1>>, 1) EXCEPT !.cell = FinishedState]
  /\ beams = <<>> /\ nextBeams = <<>> /\ visitedIn = <<>> /\ best = NoBest
  /\ round = 0 /\ layer = 0 /\ minLayer = 0 /\ maxLayer = 0 /\ preMinLayer = 0
  /\ reliability = [l \in {0} |-> Trust] /\ preManhattan = <<>> /\ allMinManhattan = NoScore
  /\ outcome = "answered"

BackIdle == board = [cell |-> FinishedState, selected |-> <<0, 0>>] /\ selections = 0 /\ price = 0

MCInit ==
  \/ /\ OptimizeIdle /\ BeamInit /\ TreeInit /\ BackIdle
     /\ part = IF task \in NarrowTasks THEN "narrow beam" ELSE "KurageSolver"
  \/ part = "AnswerLinearTree" /\ OptimizeIdle /\ BeamIdle /\ TreeInit /\ BackIdle
  \/ part = "optimize" /\ OptimizeInit /\ BeamIdle /\ TreeInit /\ BackIdle
  \/ part = "BackwardPlay" /\ OptimizeIdle /\ BeamIdle /\ TreeInit /\ BackInit

MCNext ==
  /\ UNCHANGED part
  /\ \/ part = "KurageSolver" /\ BeamNext /\ UNCHANGED <<vars, treeVars, backVars>>
     \/ part = "narrow beam" /\ NarrowNext /\ UNCHANGED <<vars, treeVars, backVars>>
     \/ part = "AnswerLinearTree" /\ TreeNext /\ UNCHANGED <<vars, beamVars, backVars>>
     \/ part = "optimize" /\ OptimizeNext /\ UNCHANGED <<beamVars, treeVars, backVars>>
     \/ part = "BackwardPlay" /\ BackNext /\ UNCHANGED <<vars, beamVars, treeVars>>

MCSpec == MCInit /\ [][MCNext]_<<part, vars, beamVars, treeVars, backVars>>
=============================================================================
