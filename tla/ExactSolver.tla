----------------------------- MODULE ExactSolver -----------------------------
(***************************************************************************)
(* slide::ExactSolver: IDA* with the lower bound of AdmissibleBoard.  The  *)
(* recursion startDFS / DFS is an explicit stack of frames; one step tries *)
(* one move or selection of the innermost frame.  Every board of the given *)
(* size is a problem.                                                      *)
(***************************************************************************)
EXTENDS ExactSearch

CONSTANT SelectionLimit

\* Problem::parse: at least one selection is allowed.
ASSUME LimitAssumption == SelectionLimit \in 1..16

VARIABLES
  start,    \* the board of the problem
  lb,       \* the threshold of IDAstar()
  stack,    \* the active calls, startDFS at the bottom
  published \* what onCreatedAnswer is called with, NoAnswer before

idaVars == <<start, lb, stack, published>>

Board == INSTANCE AdmissibleBoard WITH MaxCost <- 0, board <- start

-----------------------------------------------------------------------------
(* A frame is one call: its board object, the move that led to it, the     *)
(* minimum it will return, the next candidate of its loops, and the copy   *)
(* (cmp and preSelected) made before the loop over the selections.         *)

NoMove == Selection(NoPoint)        \* startDFS has no preMove

Call(b, pre) == [board |-> b, pre |-> pre, min |-> Board!Infinity, next |-> 1, saved |-> b]

\* The four directions of rep(k, 4), then the points row by row.
Candidates == 4 + Height * Width

Candidate(i) ==
  IF i <= 4
  THEN Swap(i - 1)
  ELSE Selection(<<(i - 5) \div Width, (i - 5) % Width>>)

\* The candidates the loops do not skip.  startDFS is called with a board on
\* which nothing is selected, where no move is valid: it only selects, and
\* without looking at the limit.
Allowed(frame, m) ==
  IF m.isSelection
  THEN \/ frame.pre = NoMove
       \/ /\ frame.saved.selectionLimit > 0
          /\ ~frame.pre.isSelection
          /\ m.selected # frame.saved.selected
  ELSE /\ ValidMove(frame.board.selected, m.direction)
       /\ ~(~frame.pre.isSelection /\ frame.pre.direction = Opposite(m.direction))

Child(frame, m) ==
  IF m.isSelection
  THEN Board!Selected(frame.board, m.selected)
  ELSE Board!Moved(frame.board, m.direction)

\* Mutant: the distance of the last candidate stays too.
RestoredInPart(frame, m) ==
  IF m.isSelection /\ frame.pre # NoMove
  THEN [Child(frame, m) EXCEPT !.selectionLimit = frame.saved.selectionLimit,
                               !.cost           = frame.saved.cost,
                               !.manhattan      = frame.saved.manhattan,
                               !.selId          = frame.saved.selId]
  ELSE frame.board

\* DFS selects on its own board and puts back CMPFeatures only: the selected
\* point and the parity of the last candidate stay.  (The call made in between
\* has a selection as its preMove and changes no board but copies.)
Restored(frame, m) ==
  IF m.isSelection /\ frame.pre # NoMove
  THEN [Child(frame, m) EXCEPT !.selectionLimit = frame.saved.selectionLimit,
                               !.cost           = frame.saved.cost,
                               !.manhattan      = frame.saved.manhattan,
                               !.selManhattan   = frame.saved.selManhattan,
                               !.selId          = frame.saved.selId]
  ELSE frame.board

Smaller(i, j) == IF i < j THEN i ELSE j

Top == Last(stack)

\* IDAstar() starts its first iteration.
IDAInit ==
  /\ start \in Boards
  /\ lb = Board!LowerBound(Board!InitBoard(start, NoPoint, SelectionLimit))
  /\ stack = <<Call(Board!InitBoard(start, NoPoint, SelectionLimit), NoMove)>>
  /\ published = NoAnswer

\* The loops go on with the next candidate, after a skipped one, or after one
\* whose lower bound exceeds the threshold.
Skip ==
  /\ stack # <<>> /\ ~Board!Finished(Top.board) /\ Top.next <= Candidates
  /\ ~Allowed(Top, Candidate(Top.next))
  /\ stack' = [stack EXCEPT ![Len(stack)].next = @ + 1]
  /\ UNCHANGED <<start, lb, published>>

\* Mutant: a bound equal to the threshold is cut off.
CutOffAtThreshold ==
  /\ stack # <<>> /\ ~Board!Finished(Top.board) /\ Top.next <= Candidates
  /\ LET m     == Candidate(Top.next)
         bound == Board!LowerBound(Child(Top, m))
     IN  /\ Allowed(Top, m)
         /\ bound >= lb
         /\ stack' = [stack EXCEPT ![Len(stack)] =
                        [Top EXCEPT !.board = Restored(Top, m),
                                    !.min   = Smaller(Top.min, bound),
                                    !.next  = Top.next + 1]]
  /\ UNCHANGED <<start, lb, published>>

CutOff ==
  /\ stack # <<>> /\ ~Board!Finished(Top.board) /\ Top.next <= Candidates
  /\ LET m     == Candidate(Top.next)
         bound == Board!LowerBound(Child(Top, m))
     IN  /\ Allowed(Top, m)
         /\ bound > lb
         /\ stack' = [stack EXCEPT ![Len(stack)] =
                        [Top EXCEPT !.board = Restored(Top, m),
                                    !.min   = Smaller(Top.min, bound),
                                    !.next  = Top.next + 1]]
  /\ UNCHANGED <<start, lb, published>>

Descend ==
  /\ stack # <<>> /\ ~Board!Finished(Top.board) /\ Top.next <= Candidates
  /\ LET m     == Candidate(Top.next)
         child == Child(Top, m)
     IN  /\ Allowed(Top, m)
         /\ Board!LowerBound(child) <= lb
         /\ stack' = Append([stack EXCEPT ![Len(stack)] =
                               [Top EXCEPT !.board = Restored(Top, m), !.next = Top.next + 1]],
                            Call(child, m))
  /\ UNCHANGED <<start, lb, published>>

\* DFS returns its minimum to the call that made it.
DFSReturn ==
  /\ Len(stack) > 1 /\ ~Board!Finished(Top.board) /\ Top.next > Candidates
  /\ LET caller == Len(stack) - 1
     IN  stack' = [Front(stack) EXCEPT ![caller].min = Smaller(@, Top.min)]
  /\ UNCHANGED <<start, lb, published>>

\* Mutant: the threshold is raised above the least bound that was cut off.
DeepenTooFar ==
  /\ Len(stack) = 1 /\ ~Board!Finished(Top.board) /\ Top.next > Candidates
  /\ lb' = Top.min + 1
  /\ stack' = <<Call(Board!InitBoard(start, NoPoint, SelectionLimit), NoMove)>>
  /\ UNCHANGED <<start, published>>

\* startDFS returns: the next iteration of IDAstar().
Deepen ==
  /\ Len(stack) = 1 /\ ~Board!Finished(Top.board) /\ Top.next > Candidates
  /\ lb' = Top.min
  /\ stack' = <<Call(Board!InitBoard(start, NoPoint, SelectionLimit), NoMove)>>
  /\ UNCHANGED <<start, published>>

\* Mutant: the answer is not reversed.
FoundBackwards ==
  /\ stack # <<>> /\ Board!Finished(Top.board)
  /\ published' = [i \in 1 .. Len(stack) - 1 |-> stack[Len(stack) - i + 1].pre]
  /\ stack' = <<>>
  /\ UNCHANGED <<start, lb>>

\* -1 is handed down the stack while every call appends its move; the answer is
\* reversed, optimized and published.
Found ==
  /\ stack # <<>> /\ Board!Finished(Top.board)
  /\ published' = Optimize([i \in 1 .. Len(stack) - 1 |-> stack[i + 1].pre])
  /\ stack' = <<>>
  /\ UNCHANGED <<start, lb>>

IDANext == Skip \/ CutOff \/ Descend \/ DFSReturn \/ Deepen \/ Found

IDASpec == IDAInit /\ [][IDANext]_idaVars /\ WF_idaVars(IDANext)

-----------------------------------------------------------------------------
(* The reference: the least cost of a play, found backwards from the       *)
(* finished boards, one cost after the other.                              *)

CONSTANT MaxOptimum     \* no optimum of the checked boards is above

ASSUME ReferenceAssumption ==
  SwappingCost > 0 /\ SelectionCost > 0 /\ MaxOptimum \in Nat

\* A situation is <<cell, selected, selections left>>.  A play of cost c begins
\* with a swap, or with a selection (before it, anything or nothing was
\* selected), and goes on with a cheaper play.
SwapBefore(s) ==
  {<<Swapped(s[1], s[2], Neighbour(s[2], dir)), Neighbour(s[2], dir), s[3]>> :
     dir \in {d \in Directions : ValidMove(s[2], d)}}

SelectionBefore(s) == {<<s[1], p, s[3] + 1>> : p \in Points \cup {NoPoint}}

\* plays[c + 1] is the set of situations whose cheapest play costs c.
OneMore(plays, c) ==
  LET first ==
        IF c = 0
        THEN {<<FinishedState, p, k>> : p \in Points \cup {NoPoint}, k \in 0 .. SelectionLimit}
        ELSE {}
      swapped ==
        IF c >= SwappingCost
        THEN UNION {SwapBefore(s) : s \in plays[c - SwappingCost + 1]}
        ELSE {}
      selected ==
        IF c >= SelectionCost
        THEN UNION {SelectionBefore(s) :
                      s \in {t \in plays[c - SelectionCost + 1] :
                               t[2] # NoPoint /\ t[3] < SelectionLimit}}
        ELSE {}
  IN  Append(plays, {s : s \in (first \cup swapped \cup selected) \ UNION ToSet(plays)})

Plays == FoldLeft(OneMore, <<>>, [c \in 1 .. MaxOptimum + 1 |-> c - 1])

\* A play from a board of a problem that costs no more, looked for among those
\* of up to MaxOptimum.
HasPlay(cell, cost) ==
  \E c \in 0 .. Smaller(cost, MaxOptimum) : <<cell, NoPoint, SelectionLimit>> \in Plays[c + 1]

Cost(ans) == SelectionCount(ans) * SelectionCost + SwapCount(ans) * SwappingCost

-----------------------------------------------------------------------------

\* The assertion of ExactSolver::solve: the judge accepts the optimized answer.
ExactAnswerCorrect ==
  published # NoAnswer => Correct(start, SelectionLimit, published)

\* What makes the solver exact (README.md:71): no play is cheaper than the
\* answer.
AnswerOptimal ==
  published # NoAnswer /\ published # <<>> => ~HasPlay(start, Cost(published) - 1)

\* DFS selects on the board of its caller's frame and restores only a part of
\* it: each call is nevertheless entered with the features that its board really
\* has, apart from the accumulated cost.
CallsGetExactFeatures ==
  \A i \in DOMAIN stack :
    stack[i].next = 1 =>
      stack[i].board = [Board!InitBoard(stack[i].board.cell, stack[i].board.selected,
                                     stack[i].board.selectionLimit)
                          EXCEPT !.cost = stack[i].board.cost]

\* Two selections are enough to solve any board: the search ends, with an answer.
Answered == SelectionLimit >= 2 => <>(published # NoAnswer)

=============================================================================
