------------------------ MODULE MCBidirectionalAstar ------------------------
(* Problems of size 2x2 for BidirectionalAstar. *)
EXTENDS BidirectionalAstar

Problem(cell, limit) == [board |-> cell, selectionLimit |-> limit]

\* The two pieces of each row have changed places: one of the four boards that
\* need two selections.
RowsExchanged == [p \in Points |-> <<p[1], 1 - p[2]>>]

\* Every board with one selection: 20 of the 24 can be solved, for the others both
\* workers run out of boards.  One with three, where the workers meet after two
\* each.
OddProblems == {Problem(cell, 1) : cell \in Boards} \cup {Problem(RowsExchanged, 3)}

EvenProblems == {Problem(RowsExchanged, 2)}

=============================================================================
