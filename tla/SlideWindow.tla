----------------------------- MODULE SlideWindow -----------------------------
(***************************************************************************)
(* The desktop program: ui::MainSlideWindow and the board it shows,        *)
(* ui::GraphicsItemSlideBoard.  Every slot runs to its end in the GUI      *)
(* thread and is one action; between two slots anything may happen that    *)
(* another thread or a timer sends: an answer of a solver thread, a        *)
(* problem of the worker of the problem server, the end of an animation.   *)
(*                                                                         *)
(* board.blocks stands for problem->board and for the array of blocks,     *)
(* which every function changes together; a block is named by its home.    *)
(* Boards of one size are modelled; the colours, the counts for them and   *)
(* the score are left out.                                                 *)
(***************************************************************************)
EXTENDS Answer

CONSTANTS
  Problems,       \* the boards in files and from the server
  Shuffles,       \* what shuffle2() may produce
  Answers,        \* pairs of a board and what a solver may answer to it
  ShuffleMax,     \* SHUFFLE_MAX
  MaxInputs       \* bound on what the user and the server do

ASSUME ShuffleMaxAssumption == ShuffleMax \in Nat

\* What the solvers publish has passed Problem::check() (ExactSolver.cpp:147) and
\* Answer::optimize(), which leaves no selection without a swap after it.
ASSUME SolversAssumption ==
  /\ Problems \subseteq Boards /\ Shuffles \subseteq Boards
  /\ \A a \in Answers :
       /\ a[1] \in Boards /\ a[2] \in Seq(Selections \cup Swaps)
       /\ Correct(a[1], Len(a[2]), a[2])
       /\ \A i \in DOMAIN a[2] :
            a[2][i].isSelection => i < Len(a[2]) /\ ~a[2][i + 1].isSelection

VARIABLES
  board,          \* the GraphicsItemSlideBoard
  buttons,        \* the buttons that are enabled
  backup,         \* block_backup, cell_backup, selected_block_pos_backup
  current_answer,
  animation,      \* animation_time: "none" (0), "short" (up to 10), "long"
  auto_solve,
  solvers,        \* the solver threads, each with its copy of the problem
  worker,         \* whether the thread that gets problems runs
  inbox,          \* gotProblem signals in the event queue
  timer,          \* whether the QTimeLine of a swap runs
  signals,        \* swap_finished signals under way from another thread
  lost,           \* freed memory was used: nothing is known any more
  inputs,         \* inputs so far, bounded
  goal,           \* history: the cells the answer that is played leads to
  disturbed       \* history: something was replaced or enabled while in use

windowVars == <<board, buttons, backup, current_answer, animation, auto_solve,
          solvers, worker, inbox, timer, signals, lost, inputs, goal, disturbed>>

history == <<goal, disturbed>>

-----------------------------------------------------------------------------
(* The answer as the board reads it.                                       *)

\* The number printed before the swaps of a selection: those up to the next one.
SwapMax(moves) ==
  LET next == SelectInSeq(moves, IsSelectionMove)
  IN  IF next = 0 THEN Len(moves) ELSE next - 1

\* The element of a set that has one: {f(x) : x \in {e}} evaluates e once only.
TheOne(S) == CHOOSE x \in S : TRUE

\* The cells after the moves, from the cells with the piece at p selected.
Replay(cell, p, moves) ==
  FoldLeft(CheckStep, [CheckBegin(cell, -1) EXCEPT !.selected = p], moves).cell

-----------------------------------------------------------------------------
(* GraphicsItemSlideBoard.                                                 *)

PlaceOf(b, block) == CHOOSE p \in Points : b.blocks[p] = block

SelectedPlace(b) == PlaceOf(b, b.selected)

\* The constructor: the lower right block is selected.  The counters of a play
\* are not set.
NewBoard(cell) ==
  [blocks |-> cell, selected |-> cell[<<Height - 1, Width - 1>>],
   is_shuffling |-> FALSE, is_moving |-> FALSE, is_selecting |-> FALSE,
   is_solving |-> FALSE, is_clicking |-> FALSE, shuffle_count |-> 0, prev_shuffle_dir |-> Up,
   ss |-> <<>>, selection_cnt |-> -1, selection_max |-> -1,
   swap_cnt |-> -1, swap_max |-> -1]

Select(b, p) == [b EXCEPT !.selected = b.blocks[p]]

SwapBlocks(b, p, q) == [b EXCEPT !.blocks = Swapped(b.blocks, p, q)]

\* Mutant: the count of the swaps goes on over a selection.
ReadMoveKeepsCount(b) ==
  LET rest == Tail(b.ss)
  IN IF b.swap_max < 0 \/ b.swap_cnt >= b.swap_max
     THEN [Select(b, b.ss[1].selected) EXCEPT
             !.swap_max = SwapMax(rest), !.swap_cnt = b.swap_cnt + 1,
             !.selection_cnt = b.selection_cnt + 1, !.ss = Tail(rest)]
     ELSE [b EXCEPT !.swap_cnt = b.swap_cnt + 1, !.ss = rest]

\* next_move_step(): what it reads from ss.  After the last swap of a selection
\* the next selection is read first, with the number of its swaps.
ReadMove(b) ==
  LET rest == Tail(b.ss)
  IN IF b.swap_max < 0 \/ b.swap_cnt >= b.swap_max
     THEN [Select(b, b.ss[1].selected) EXCEPT
             !.swap_max = SwapMax(rest), !.swap_cnt = 1,
             !.selection_cnt = b.selection_cnt + 1, !.ss = Tail(rest)]
     ELSE [b EXCEPT !.swap_cnt = b.swap_cnt + 1, !.ss = rest]

\* The direction next_move_step() reads from ss.
NextSwap(b) ==
  IF b.swap_max < 0 \/ b.swap_cnt >= b.swap_max THEN b.ss[2].direction ELSE b.ss[1].direction

\* One step of a play: read a move and swap the selected block that way.
MoveStep(b) ==
  TheOne({LET p == SelectedPlace(r) IN SwapBlocks(r, p, Neighbour(p, NextSwap(b))) :
            r \in {ReadMove(b)}})

MoveOver(b) == b.selection_cnt >= b.selection_max /\ b.swap_cnt >= b.swap_max

\* move_blocks_with_no_animation(): steps until the play is over.
StepOn(b, m) == IF MoveOver(b) THEN b ELSE MoveStep(b)
MovesLeft(b) == FoldLeft(StepOn, b, b.ss)

-----------------------------------------------------------------------------
(* The slots of the window.  Each one is an action; what it leaves alone   *)
(* is listed at its end.                                                   *)

AllButtons == {"shuffle", "shuffle2", "reload", "solve", "change", "read"}

EnableAll(bs)  == bs \cup AllButtons
DisableAll(bs) == bs \ (AllButtons \cup {"play", "restore"})

\* Something that will enable the Solve button again when it ends, or an answer
\* that waits to be played.
UnderWay ==
  \/ solvers # <<>>
  \/ board.is_moving /\ board.selection_max > 0
  \/ board.is_selecting
  \/ "play" \in buttons /\ "solve" \notin buttons

\* A shuffling keeps the board to itself, too, but nothing in it will end it: its one
\* swap tells nobody that it is over (see Shuffle).
InUse == UnderWay \/ board.is_shuffling

Disturbing == disturbed' = (disturbed \/ InUse)

NoBackup == [cells |-> FinishedState, selected |-> <<0, 0>>, alive |-> FALSE]

WindowInit ==
  /\ board = NewBoard(FinishedState)
  /\ buttons = AllButtons \cup {"get"}
  /\ backup = NoBackup
  /\ current_answer = <<>>
  /\ animation \in {"none", "short", "long"}
  /\ auto_solve = FALSE
  /\ solvers = <<>> /\ worker = FALSE /\ inbox = <<>>
  /\ timer = FALSE /\ signals = 0 /\ lost = FALSE /\ inputs = 0
  /\ goal = FinishedState /\ disturbed = FALSE

\* setup_board(): a new board in the scene.  The blocks of the backup are gone
\* with the old one, and so are its animations, unless one of them still
\* touches it.
SetUp(cell) ==
  /\ board' = NewBoard(cell)
  /\ backup' = [backup EXCEPT !.alive = FALSE]
  /\ timer' = FALSE /\ signals' = 0
  /\ lost' \in {FALSE, timer \/ signals > 0}

Reload ==
  /\ "reload" \in buttons
  /\ SetUp(FinishedState)
  /\ buttons' = buttons \ {"play", "restore"}
  /\ Disturbing
  /\ UNCHANGED <<current_answer, animation, auto_solve, solvers, worker, inbox, goal>>

\* The menu entry is never disabled.
FileOpen ==
  /\ \E cell \in Problems : SetUp(cell)
  /\ buttons' = buttons \ {"play", "restore"}
  /\ Disturbing
  /\ UNCHANGED <<current_answer, animation, auto_solve, solvers, worker, inbox, goal>>

ReadProblem == "read" \in buttons /\ FileOpen

\* next_shuffle(): any block is selected, or the one that is stays so, and swaps
\* with a neighbour, but never the way back from the swap before.  It is swap(),
\* without an animation and without swap_finished().
NextShuffle(b, count) ==
  \E p \in Points, dir \in Directions \ {Opposite(b.prev_shuffle_dir)} :
    /\ Neighbour(p, dir) \in Points
    /\ board' = [SwapBlocks(Select(b, p), p, Neighbour(p, dir)) EXCEPT
                   !.shuffle_count = count, !.prev_shuffle_dir = dir]

Shuffle ==
  /\ "shuffle" \in buttons
  /\ buttons' = DisableAll(buttons)
  /\ NextShuffle([board EXCEPT !.is_shuffling = TRUE, !.prev_shuffle_dir = Up], 0)
  /\ UNCHANGED <<backup, current_answer, animation, auto_solve, solvers, worker, inbox,
                 timer, signals, lost, goal, disturbed>>

Shuffle2 ==
  /\ "shuffle2" \in buttons
  /\ buttons' = EnableAll(DisableAll(buttons))
  /\ \E cell \in Shuffles : board' = [board EXCEPT !.blocks = cell]
  /\ UNCHANGED <<backup, current_answer, animation, auto_solve, solvers, worker, inbox,
                 timer, signals, lost, goal, disturbed>>

\* Mutant: the state is saved for the first solver of a board only.
StartSolveSavesOnce(b) ==
  /\ buttons' = DisableAll(buttons)
  /\ board' = [b EXCEPT !.is_solving = TRUE]
  /\ backup' = IF backup.alive THEN backup
               ELSE [cells |-> b.blocks, selected |-> SelectedPlace(b), alive |-> TRUE]
  /\ solvers' = Append(solvers, b.blocks)

\* on_solveButton_clicked() on the board given: the state is saved and
\* a thread starts with a copy of the problem.
StartSolve(b) ==
  /\ buttons' = DisableAll(buttons)
  /\ board' = [b EXCEPT !.is_solving = TRUE]
  /\ backup' = [cells |-> b.blocks, selected |-> SelectedPlace(b), alive |-> TRUE]
  /\ solvers' = Append(solvers, b.blocks)

Solve ==
  /\ "solve" \in buttons
  /\ StartSolve(board)
  /\ UNCHANGED <<current_answer, animation, auto_solve, worker, inbox, timer,
                 signals, lost, history>>

SolverAnswers(cell) == {pair[2] : pair \in {a \in Answers : a[1] = cell}}

\* Mutant: the answer is shown only on the board it was made for.
AnswerArrivesOnItsBoard ==
  /\ \E i \in DOMAIN solvers :
       /\ current_answer' \in SolverAnswers(solvers[i])
       /\ solvers' \in {solvers, RemoveAt(solvers, i)}
  /\ buttons' = IF board.is_solving THEN buttons \cup {"play"} ELSE buttons
  /\ UNCHANGED <<board, backup, animation, auto_solve, worker, inbox, timer,
                 signals, lost, history>>

\* slot_solve_finished().  Only KurageSolver goes on after an answer.
AnswerArrives ==
  /\ \E i \in DOMAIN solvers :
       /\ current_answer' \in SolverAnswers(solvers[i])
       /\ solvers' \in {solvers, RemoveAt(solvers, i)}
  /\ buttons' = buttons \cup {"play"}
  /\ UNCHANGED <<board, backup, animation, auto_solve, worker, inbox, timer,
                 signals, lost, history>>

\* Mutant: the end of a play enables only Restore.
MoveFinishedForRestore(bs) == (bs \cup {"restore"}) \ {"play"}

\* What slot_move_finished() does to the buttons.
MoveFinished(bs) == (EnableAll(bs) \cup {"restore"}) \ {"play"}

\* Mutant: a short animation ends without swap_finished(), as swap() does.
AnimatedSilently(running, waiting) ==
  /\ timer' = (running \/ animation = "long")
  /\ signals' = waiting

\* animated_swap(): the end of the swap comes from the one timer, or from a
\* thread when the animation is short.
Animated(running, waiting) ==
  IF animation = "long"
  THEN timer' = TRUE /\ signals' = waiting
  ELSE timer' = running /\ signals' = waiting + 1

\* The board does not know its counters before the first play.
NeverPlayed(b) == b.selection_cnt < 0

\* next_move_step_with_animated_swap() or, without animation, all the steps
\* and the end of the play; bs are the buttons before.  A board that shuffles
\* takes the end of the play for the end of a shuffling swap.
Proceed(b, bs, running, waiting) ==
  CASE animation # "none" ->
         board' = MoveStep(b) /\ buttons' = bs /\ Animated(running, waiting)
    [] animation = "none" /\ b.is_shuffling ->
         /\ NextShuffle(MovesLeft(b), b.shuffle_count + 1)
         /\ buttons' = bs /\ timer' = running /\ signals' = waiting
    [] OTHER ->
         /\ board' = [MovesLeft(b) EXCEPT !.is_moving = FALSE]
         /\ buttons' = MoveFinished(bs) /\ timer' = running /\ signals' = waiting

\* move_blocks(current_answer).  What an earlier play left unread in ss would be
\* read first.
MoveBlocks ==
  LET b == [board EXCEPT !.is_solving = FALSE, !.is_moving = TRUE, !.ss = current_answer,
                         !.selection_max = SelectionCount(current_answer)]
      begun == [b EXCEPT !.swap_cnt = 0, !.swap_max = -1, !.selection_cnt = 0]
  IN  CASE board.ss # <<>> ->
             /\ lost' = TRUE /\ board' = b /\ buttons' = DisableAll(buttons)
             /\ UNCHANGED <<timer, signals>>
        [] board.ss = <<>> /\ b.selection_max <= 0 ->
             /\ board' = b /\ buttons' = MoveFinished(DisableAll(buttons))
             /\ UNCHANGED <<timer, signals, lost>>
        [] OTHER ->
             /\ Proceed(begun, DisableAll(buttons), timer, signals)
             /\ UNCHANGED lost

Play ==
  /\ "play" \in buttons
  /\ MoveBlocks
  /\ goal' = Replay(board.blocks, NoPoint, current_answer)
  /\ disturbed' = (disturbed \/ solvers # <<>>
                   \/ (current_answer = <<>> /\ (timer \/ signals > 0)))
  /\ UNCHANGED <<backup, current_answer, animation, auto_solve, solvers, worker, inbox>>

\* slot_swap_finished(), when the timer ends or a swap_finished arrives.
SwapFinished(running, waiting) ==
  /\ CASE board.is_shuffling /\ board.shuffle_count < ShuffleMax ->
            /\ NextShuffle(board, board.shuffle_count + 1)
            /\ timer' = running /\ signals' = waiting
            /\ UNCHANGED <<buttons, lost>>
       [] board.is_shuffling /\ board.shuffle_count >= ShuffleMax ->
            /\ board' = [board EXCEPT !.is_shuffling = FALSE]
            /\ buttons' = EnableAll(buttons)
            /\ timer' = running /\ signals' = waiting
            /\ UNCHANGED lost
       [] ~board.is_shuffling /\ board.is_moving /\ (MoveOver(board) \/ NeverPlayed(board)) ->
            /\ board' = [board EXCEPT !.is_moving = FALSE]
            /\ buttons' = MoveFinished(buttons)
            /\ timer' = running /\ signals' = waiting
            /\ lost' \in {FALSE, NeverPlayed(board)}
       [] ~board.is_shuffling /\ board.is_moving /\ ~MoveOver(board) /\ ~NeverPlayed(board) ->
            /\ Proceed(board, buttons, running, waiting)
            /\ UNCHANGED lost
       [] OTHER ->
            /\ board' = [board EXCEPT !.is_clicking = FALSE]
            /\ timer' = running /\ signals' = waiting
            /\ UNCHANGED <<buttons, lost>>
  /\ UNCHANGED <<backup, current_answer, animation, auto_solve, solvers, worker, inbox,
                 history>>

TimerEnds     == timer /\ SwapFinished(FALSE, signals)
SignalArrives == signals > 0 /\ SwapFinished(timer, signals - 1)

\* restore_state() and the buttons.
Restore ==
  /\ "restore" \in buttons
  /\ board' = Select([board EXCEPT !.blocks = backup.cells], backup.selected)
  /\ buttons' = (buttons \ {"restore"}) \cup {"play"}
  /\ lost' = ~backup.alive
  /\ UNCHANGED <<backup, current_answer, animation, auto_solve, solvers, worker, inbox,
                 timer, signals, history>>

\* GraphicsItemSlideBoard::click() on the block at p: it is selected, or it
\* changes places with the selected block next to it.
Click(p) ==
  /\ ~board.is_clicking /\ ~board.is_solving /\ ~board.is_moving /\ ~board.is_shuffling
  /\ IF board.is_selecting
     THEN /\ board' = [Select(board, p) EXCEPT !.is_selecting = FALSE]
          /\ buttons' = EnableAll(buttons)
          /\ UNCHANGED <<timer, signals>>
     ELSE /\ Distance(p, SelectedPlace(board)) = 1
          /\ board' = [SwapBlocks(board, p, SelectedPlace(board)) EXCEPT !.is_clicking = TRUE]
          /\ Animated(timer, signals)
          /\ UNCHANGED buttons
  /\ UNCHANGED <<backup, current_answer, animation, auto_solve, solvers, worker, inbox,
                 lost, history>>

ChangeSelected ==
  /\ "change" \in buttons
  /\ buttons' = DisableAll(buttons)
  /\ board' = [board EXCEPT !.is_selecting = TRUE]
  /\ UNCHANGED <<backup, current_answer, animation, auto_solve, solvers, worker, inbox,
                 timer, signals, lost, history>>

SetAnimationTime ==
  /\ animation' \in {"none", "short", "long"} \ {animation}
  /\ UNCHANGED <<board, buttons, backup, current_answer, auto_solve, solvers, worker,
                 inbox, timer, signals, lost, history>>

AutoSolve ==
  /\ auto_solve' = ~auto_solve
  /\ UNCHANGED <<board, buttons, backup, current_answer, animation, solvers, worker,
                 inbox, timer, signals, lost, history>>

-----------------------------------------------------------------------------
(* Problems from the server.                                               *)

\* on_readProblemFromServerButton_clicked().
GetProblem ==
  /\ "get" \in buttons
  /\ worker' = TRUE
  /\ buttons' = (DisableAll(buttons) \ {"get"}) \cup {"getCancel"}
  /\ UNCHANGED <<board, backup, current_answer, animation, auto_solve, solvers, inbox,
                 timer, signals, lost, history>>

\* The worker's thread emits gotProblem.
ProblemReceived ==
  /\ worker
  /\ \E cell \in Problems : inbox' = Append(inbox, cell)
  /\ UNCHANGED <<board, buttons, backup, current_answer, animation, auto_solve, solvers,
                 worker, timer, signals, lost, history>>

\* slot_got_problem(), with the Solve button pressed when auto_solve is on.
GotProblem ==
  /\ inbox # <<>>
  /\ inbox' = Tail(inbox)
  /\ timer' = FALSE /\ signals' = 0
  /\ lost' \in {FALSE, timer \/ signals > 0}
  /\ IF auto_solve
     THEN StartSolve(NewBoard(Head(inbox)))
     ELSE /\ board' = NewBoard(Head(inbox))
          /\ buttons' = (buttons \ {"play", "restore"}) \cup {"solve"}
          /\ backup' = [backup EXCEPT !.alive = FALSE]
          /\ UNCHANGED solvers
  /\ Disturbing
  /\ UNCHANGED <<current_answer, animation, auto_solve, worker, goal>>

\* on_getCancelButton_clicked().
GetCancel ==
  /\ "getCancel" \in buttons
  /\ worker' = FALSE
  /\ buttons' = (EnableAll(buttons) \ {"getCancel"}) \cup {"get"}
  /\ Disturbing
  /\ UNCHANGED <<board, backup, current_answer, animation, auto_solve, solvers, inbox,
                 timer, signals, lost, goal>>

-----------------------------------------------------------------------------

Input ==
  \/ Reload \/ FileOpen \/ ReadProblem \/ Shuffle \/ Shuffle2 \/ Solve \/ Play \/ Restore
  \/ \E p \in Points : Click(p)
  \/ ChangeSelected \/ SetAnimationTime \/ AutoSolve
  \/ GetProblem \/ ProblemReceived \/ GetCancel

Timing    == ~lost /\ UNCHANGED inputs /\ (TimerEnds \/ SignalArrives)
Answering == ~lost /\ UNCHANGED inputs /\ AnswerArrives

WindowNext ==
  \/ ~lost /\ inputs < MaxInputs /\ inputs' = inputs + 1 /\ Input
  \/ ~lost /\ UNCHANGED inputs /\ GotProblem
  \/ Timing \/ Answering

WindowSpec == WindowInit /\ [][WindowNext]_windowVars

-----------------------------------------------------------------------------

\* The player of an answer keeps four counters and a stream over many timer
\* events, and a change of the animation time makes one event play the rest.  At
\* any moment of a play, what is still to be read leads from the cells shown to
\* the cells that the whole answer leads to, and the play does not end before it
\* is read to its end (graphicsitemslideboard.cpp).
PlayFollowsAnswer ==
  ~lost /\ ~disturbed =>
    /\ board.is_moving /\ board.selection_max > 0 =>
         Replay(board.blocks, SelectedPlace(board), board.ss) = goal
    /\ ~board.is_moving => board.ss = <<>>

\* enable_all_button() and disable_all_button() are called from a dozen slots.
\* As long as nothing is replaced or cancelled while it is in use, Solve can be
\* pressed when no solver, play or selection is under way, no answer waits and the
\* board does not shuffle, and only then (while the server is asked for a problem it
\* may be either).  A board that shuffles is in use for ever: IdleWindowCanSolve.
SolveEnabledUnlessInUse ==
  ~lost /\ ~disturbed =>
    /\ "solve" \in buttons => ~InUse
    /\ "solve" \notin buttons => InUse \/ worker

\* README.md:71: Shuffle shuffles the board, and then Solve is pressed.  So when no
\* timer, signal or thread has anything to do any more, and no answer or selection
\* waits for the user, Solve can be pressed.  Not so after Shuffle: next_shuffle()
\* swaps without the swap_finished() that would call it again, ShuffleMax is never
\* reached, and slot_shuffle_finished() never enables the buttons.
IdleWindowCanSolve ==
  ~lost /\ ~disturbed /\ ~UnderWay /\ ~worker /\ ~timer /\ signals = 0 /\ inbox = <<>> =>
    "solve" \in buttons

\* Play and Restore can be pressed only while the answer in current_answer solves
\* the board that Restore brings back, whatever the user has done to the board
\* since (README.md: after Restore the answer can be played again).
AnswerFitsBackup ==
  ~lost /\ ~disturbed /\ buttons \cap {"play", "restore"} # {} =>
    backup.alive /\ Aligned(Replay(backup.cells, NoPoint, current_answer))

\* A play that has begun is played to its end, however often the animation time
\* changes, and a solver that finds an answer gets it shown, whatever has become
\* of the board.
Progress ==
  /\ (board.is_moving /\ board.ss # <<>>) ~> (board.ss = <<>> \/ lost \/ disturbed)
  /\ (\E i \in DOMAIN solvers : SolverAnswers(solvers[i]) # {})
       ~> ("play" \in buttons \/ lost)
=============================================================================
