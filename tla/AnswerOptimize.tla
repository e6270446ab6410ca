---------------------------- MODULE AnswerOptimize ----------------------------
(***************************************************************************)
(* Answer::optimize() at work on any answer.  The loop reads the answer    *)
(* from left to right and never looks back at it, so the answer is chosen  *)
(* one move at a time while the loop runs; raw is the play of the answer   *)
(* as it was given, on a board with its pieces at home (the result of a    *)
(* play does not depend on which piece lies where).                        *)
(***************************************************************************)
EXTENDS Answer

CONSTANTS
  MaxSelections,    \* bound on the selections of the given answer
  MaxSwaps,         \* bound on its moves
  Unfinished        \* no result yet

ASSUME BoundAssumption == MaxSelections \in Nat \ {0} /\ MaxSwaps \in Nat

VARIABLES
  opt,      \* the local variables of optimize()
  raw,      \* the play of the given answer: board, selections and moves so far
  result    \* the optimized answer, Unfinished while the loop runs

vars == <<opt, raw, result>>

OptimizeInit ==
  \E p \in Points :
    /\ opt = OptimizeBegin(Selection(p))
    /\ raw = [cell |-> FinishedState, selected |-> p, selections |-> 1, swaps |-> 0]
    /\ result = Unfinished

ReadSelection(p) ==
  /\ result = Unfinished
  /\ raw.selections < MaxSelections
  /\ opt' = OptimizeStep(opt, Selection(p))
  /\ raw' = [raw EXCEPT !.selected = p, !.selections = @ + 1]
  /\ UNCHANGED result

ReadSwap(dir) ==
  /\ result = Unfinished
  /\ raw.swaps < MaxSwaps
  /\ ValidMove(raw.selected, dir)
  /\ opt' = OptimizeStep(opt, Swap(dir))
  /\ LET next == Neighbour(raw.selected, dir)
     IN  raw' = [raw EXCEPT !.cell     = Swapped(@, raw.selected, next),
                            !.selected = next,
                            !.swaps    = @ + 1]
  /\ UNCHANGED result

Finish ==
  /\ result = Unfinished
  /\ result' = OptimizeEnd(opt)
  /\ UNCHANGED <<opt, raw>>

OptimizeNext ==
  \/ \E p \in Points : ReadSelection(p)
  \/ \E dir \in Directions : ReadSwap(dir)
  \/ Finish

OptimizeSpec == OptimizeInit /\ [][OptimizeNext]_vars

-----------------------------------------------------------------------------

Played(ans) == Simulate(FinishedState, MaxSelections, ans)

\* Whatever was dropped, contracted, cancelled or rewound, what optimize() has
\* kept can be played and leads to the board, and to the selected cell, of the
\* part of the answer read so far.
SamePlay ==
  LET sim == Played(opt.ans)
  IN  sim.valid /\ sim.cell = raw.cell /\ sim.selected = raw.selected

\* rot never counts more than the turns in one sense that newans ends with, so
\* that the seven moves popped when it reaches six are those turns, and neither a
\* selection nor the beginning of the answer is popped.
RotCountsTurns ==
  LET n     == Absolute(opt.rot)
      sense == IF opt.rot > 0 THEN Right ELSE Left
      last  == Len(opt.ans)
  IN  opt.rot # 0 =>
        /\ last > n + 1
        /\ \A i \in last - n .. last : ~opt.ans[i].isSelection
        /\ \A i \in last - n .. last - 1 :
             Turn(opt.ans[i + 1].direction, opt.ans[i].direction) = sense

\* optimize() never makes an answer dearer, whatever the two costs are, and its
\* result solves what the given answer solves.
ResultNoWorse ==
  result # Unfinished =>
    /\ SelectionCount(result) <= raw.selections
    /\ SwapCount(result) <= raw.swaps
    /\ Played(result).valid
    /\ Played(result).cell = raw.cell

\* Consecutive selections are contracted (Answer.cpp:41).
NoAdjacentSelections ==
  \A i \in 1 .. Len(opt.ans) - 1 :
    ~(opt.ans[i].isSelection /\ opt.ans[i + 1].isSelection)

\* Moves back and forth are deleted (Answer.cpp:56): the optimized answer never
\* moves a piece and at once moves it back.
NoBackAndForth ==
  result # Unfinished =>
    \A i \in 1 .. Len(result) - 1 :
      ~result[i].isSelection /\ ~result[i + 1].isSelection
        => result[i + 1].direction # Opposite(result[i].direction)

=============================================================================
