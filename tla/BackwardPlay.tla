---------------------------- MODULE BackwardPlay ----------------------------
(***************************************************************************)
(* Every play that ends with the finished board, played from its end: the  *)
(* situations from which it goes on, what it still costs and how many      *)
(* selections it still makes.  The lower bound that prunes the searches is *)
(* compared with it.                                                       *)
(*                                                                         *)
(* board is a PlayBoard here, its cells and the selected point; MaxCost    *)
(* bounds the cost of the plays.                                           *)
(***************************************************************************)
EXTENDS AdmissibleBoard

VARIABLES
  selections,       \* that the play still makes
  price             \* the cost of what it still does

backVars == <<board, selections, price>>

BackInit ==
  /\ \E p \in Points : board = [cell |-> FinishedState, selected |-> p]
  /\ selections = 0
  /\ price = 0

\* The inverse of PlayBoard::move is the move back.
Unmove(dir) ==
  /\ ValidMove(board.selected, dir)
  /\ price + SwappingCost <= MaxCost
  /\ \E next \in {Neighbour(board.selected, dir)} :
       board' = [cell |-> Swapped(board.cell, board.selected, next), selected |-> next]
  /\ price' = price + SwappingCost
  /\ UNCHANGED selections

\* Before PlayBoard::select another cell was selected, or none.
Unselect(p) ==
  /\ IsSelected(board.selected)
  /\ selections < SelectionLimit
  /\ price + SelectionCost <= MaxCost
  /\ p # board.selected
  /\ board' = [board EXCEPT !.selected = p]
  /\ selections' = selections + 1
  /\ price' = price + SelectionCost

BackNext ==
  \/ \E dir \in Directions : Unmove(dir)
  \/ \E p \in Points \cup {NoPoint} : Unselect(p)

BackSpec == BackInit /\ [][BackNext]_backVars

-----------------------------------------------------------------------------

\* The lower bound is one: wherever a play that reaches the goal passes, with
\* enough selections left for it, computeHeuristic() is at most what the play
\* costs from there, so that no search cuts it off.
HeuristicAdmissible ==
  \A limit \in selections .. SelectionLimit :
    Heuristic(InitBoard(board.cell, board.selected, limit)) <= price

=============================================================================
