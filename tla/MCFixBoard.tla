----------------------------- MODULE MCFixBoard -----------------------------
(***************************************************************************)
(* moveToOptimally on the largest board, whose fixed cells leave a         *)
(* corridor that goes to and fro from the first row to the last but one.   *)
(***************************************************************************)
EXTENDS FixBoardMoves

\* The odd rows are closed but for their last cell or their first, in turns.
MCWall == {p \in Points : /\ p[1] % 2 = 1
                          /\ p # <<p[1], IF p[1] % 4 = 1 THEN Width - 1 ELSE 0>>}
MCCorridor == {MCWall}
MCStart == {<<0, 0>>}
MCShuffle == FinishedState

Spec == FixInit /\ [][MoveToOptimally]_callVars
=============================================================================
