-------------------------------- MODULE Answer --------------------------------
(***************************************************************************)
(* slide::Answer, a sequence of slide::Move, with Answer::optimize() and   *)
(* the judge Problem::check().                                             *)
(***************************************************************************)
EXTENDS Puzzle, SequencesExt

\* The two alternatives of the union in Move.
Selection(p) == [isSelection |-> TRUE, selected |-> p]
Swap(dir)    == [isSelection |-> FALSE, direction |-> dir]

Selections == {Selection(p) : p \in Points}
Swaps      == {Swap(dir) : dir \in Directions}

IsSelectionMove(m) == m.isSelection
IsSwapMove(m)      == ~m.isSelection

-----------------------------------------------------------------------------
(* Answer::optimize(), one iteration of its loop: opt.ans is newans,       *)
(* opt.sel the cell of the selected piece, opt.rot the number of turns in  *)
(* one sense that newans ends with (clockwise positive).                   *)

OptimizeBegin(first) == [ans |-> <<first>>, sel |-> first.selected, rot |-> 0]

\* Mutant: the turns counted before a selection still count after it.
OptimizeSelectionKeepsRot(opt, m) ==
  IF m.selected = opt.sel
  THEN opt
  ELSE [ans |-> Append(IF Last(opt.ans).isSelection THEN Front(opt.ans) ELSE opt.ans, m),
        sel |-> m.selected,
        rot |-> opt.rot]

\* Mutant: consecutive selections are not contracted.
OptimizeSelectionAppends(opt, m) ==
  IF m.selected = opt.sel
  THEN opt
  ELSE [ans |-> Append(opt.ans, m), sel |-> m.selected, rot |-> 0]

\* A selection: of the piece that is selected already, dropped; after another
\* selection, in its place.
OptimizeSelection(opt, m) ==
  IF m.selected = opt.sel
  THEN opt
  ELSE [ans |-> Append(IF Last(opt.ans).isSelection THEN Front(opt.ans) ELSE opt.ans, m),
        sel |-> m.selected,
        rot |-> 0]

\* Mutant: the five moves turn in the sense of the seven they replace.
RewoundSameSense(ans, dir, sense) ==
  SubSeq(ans, 1, Len(ans) - 7) \o [i \in 1..5 |-> Swap((dir + i * (4 - sense)) % 4)]

\* Seven moves that turn six times in one sense are replaced by the five that
\* turn four times in the other and end in the same cell; sense is the change of
\* direction from one of the five to the next.
Rewound(ans, dir, sense) ==
  SubSeq(ans, 1, Len(ans) - 7) \o [i \in 1..5 |-> Swap((dir + i * sense) % 4)]

OptimizeTurn(opt, dir) ==
  LET turn   == Turn(dir, Last(opt.ans).direction)
      longer == Append(opt.ans, Swap(dir))
  IN  CASE turn = Down ->                 \* the opposite of the last move
             [opt EXCEPT !.ans = Front(@),
                         !.rot = IF @ > 0 THEN @ - 1 ELSE IF @ < 0 THEN @ + 1 ELSE 0]
        [] turn = Right /\ opt.rot \in 0..4 ->
             [opt EXCEPT !.ans = longer, !.rot = @ + 1]
        [] turn = Right /\ opt.rot = 5 ->
             [opt EXCEPT !.ans = Rewound(longer, dir, 3), !.rot = -4]
        [] turn = Left /\ opt.rot \in -4..0 ->
             [opt EXCEPT !.ans = longer, !.rot = @ - 1]
        [] turn = Left /\ opt.rot = -5 ->
             [opt EXCEPT !.ans = Rewound(longer, dir, 1), !.rot = 4]
        [] OTHER ->
             [opt EXCEPT !.ans = longer,
                         !.rot = IF turn = Up THEN 0 ELSE IF turn = Right THEN 1 ELSE -1]

OptimizeSwap(opt, dir) ==
  LET turned == IF Last(opt.ans).isSelection
                THEN [opt EXCEPT !.ans = Append(@, Swap(dir))]
                ELSE OptimizeTurn(opt, dir)
  IN  [turned EXCEPT !.sel = Neighbour(opt.sel, dir)]

OptimizeStep(opt, m) ==
  IF m.isSelection THEN OptimizeSelection(opt, m) ELSE OptimizeSwap(opt, m.direction)

\* Mutant: any selection makes the answer one that only selects.
OptimizeEndEmpties(opt) ==
  IF \E i \in DOMAIN opt.ans : opt.ans[i].isSelection THEN <<>> ELSE opt.ans

\* What is left of an answer that only selects is nothing.
OptimizeEnd(opt) ==
  IF \A i \in DOMAIN opt.ans : opt.ans[i].isSelection THEN <<>> ELSE opt.ans

Optimize(ans) ==
  IF ans = <<>>
  THEN <<>>
  ELSE OptimizeEnd(FoldLeft(OptimizeStep, OptimizeBegin(Head(ans)), Tail(ans)))

-----------------------------------------------------------------------------
(* Problem::check(): the simulation of an answer on the board of the       *)
(* problem.  valid stays FALSE after the first error.                      *)

CheckBegin(cell, limit) ==
  [cell |-> cell, selected |-> NoPoint, remain |-> limit, valid |-> TRUE]

CheckStep(sim, m) ==
  CASE ~sim.valid -> sim
    [] sim.valid /\ m.isSelection ->
         IF m.selected \in Points /\ sim.remain # 0
         THEN [sim EXCEPT !.selected = m.selected, !.remain = @ - 1]
         ELSE [sim EXCEPT !.valid = FALSE]
    [] OTHER ->
         IF ValidMove(sim.selected, m.direction)
         THEN LET next == Neighbour(sim.selected, m.direction)
              IN  [sim EXCEPT !.cell = Swapped(@, sim.selected, next), !.selected = next]
         ELSE [sim EXCEPT !.valid = FALSE]

Simulate(cell, limit, ans) == FoldLeft(CheckStep, CheckBegin(cell, limit), ans)

\* check() returns a cost, not boost::none
Correct(cell, limit, ans) ==
  LET sim == Simulate(cell, limit, ans) IN sim.valid /\ Aligned(sim.cell)

SelectionCount(ans) == Cardinality({i \in DOMAIN ans : IsSelectionMove(ans[i])})
SwapCount(ans)      == Cardinality({i \in DOMAIN ans : IsSwapMove(ans[i])})

=============================================================================
