# TLA+ models of procon2014_ut

Models, model-checking runs and proofs for the sliding-puzzle solver in
`src/solver`: a board of pieces in which one *selected* piece may be swapped
with its neighbours; a swap costs `swappingCost`, selecting another piece costs
`selectionCost`, and at most `selectionLimit` selections are allowed. A server
hands the problem to several machines, each runs a solver, and the answer is
posted back.

Run a check with `tlc -workers 2 -config X.cfg M` and the proofs with
`tlapm M_proofs.tla`, inside this directory.

## 1. Inventory

Paths are relative to `src/solver/modules/`.

| Part | State | Operations | What must be right |
|---|---|---|---|
| Puzzle board: `slide/.../{Point,Direction,Board,PlayBoard}.hpp` | cells, selected point | `move`, `select`, `isFinished` | the cells stay a permutation |
| Exact-search board: `AdmissibleBoard.hpp` with `{Cost,Manhattan,Parity}Feature.hpp` | board + cost, remaining selections, two distances, two parities | `init`, `move`, `select`, `computeLowerBound` | increments equal the values computed from scratch; the bound is never above the real cost |
| Exact solver: `ExactSolver.cpp` | threshold, recursion, the answer collected on the way back | `IDAstar`, `startDFS`, `DFS`, `solve` | the answer is correct and optimal; the search ends |
| Answer and judge: `Answer.cpp`, `Problem.cpp` | sequence of selections and moves | `optimize`, `check`, `parse`, output | `optimize` keeps the play and never makes it dearer |
| Hitode solver: `HitodeSolver.cpp` | two worker threads: queue, visited map, met hash | `run`, `buildAnswer`, combination of the halves | a meeting is noticed and the halves fit |
| Kurage solver: `details/KurageSolver.hpp` | layers of boards per thread, best score and answer | `beamSearch` | the best answer is the one published |
| Whale, Dolphin, Dragon, Lizard, L2, Shark solvers | lists of boards | greedy and beam searches | the judge accepts the answer; they end |
| Straight solver: `StraightSolver.cpp` | board, answer | `alignRow`, `moveTargetPiece`, `align2x2`, `cropTo`, `restore` | always solves, whichever side comes next |
| Fix, align, urchin, octopus, bit boards: `details/{FixBoard,AlignBoard,UrchinBoard}.hpp` | board, fixed cells, open range of each row | `moveTo`, `trajectPiece`, `align`, `getCandidates` | a walk is possible, shortest, and moves no fixed piece; settled pieces stay settled; every candidate can be aligned |
| Answer trees: `AnswerLinearTree.hpp` | a list of nodes per thread, shared | `add`, `buildAnswer` | no node is lost or overwritten |
| Problem distribution: `network/src/Problem{Server,Session,Client}.cpp`, `SessionManager.cpp` | sessions, write queues, sockets, the client's reads | `send_problem`, `close`, the handlers of accept, write, connect and read | every client gets the problems, in order, framed |
| Answer posting: `network/src/Post{Client,Session,Server}.cpp` | connected flag, write queue | `send_answer`, `close`, handlers | no answer is lost or stuck |
| GUI: `ui/slide/src` | the current problem and answer, the solver thread, the network workers, the animated board | slots | the answer played and posted belongs to the problem shown |
| Utilities: `util` | thread indices, random engines, stop watch, matrices | | distinct indices for distinct threads |
| Programs: `src/solver/exe` | | | they end |

How the parts interact: the GUI (or a program) owns the `io_service` threads
and calls `send_problem`, `send_answer` and `close` from outside, which post
tasks to them; problems arrive through a callback and become a `Problem`; a
solver runs in a thread of its own and publishes through `onCreatedAnswer`. The
solvers share the boards and features; Hitode and Kurage share data between
threads. Hard behaviour is therefore in four places: the incremental features
and the bound built on them (long legal sequences), the rewriting of answers,
the threads of the two parallel searches, and the handlers of the network and
the GUI, which run in orders nobody tests. There are no tests in the repository
that reach any of them: the programs under `exe/` are run by hand.

`PROJECT.json` lists the hazards with their lines and the properties that cover
them; a hazard without a property says why.

## 2. Modules

| Module | Models | State |
|---|---|---|
| `Puzzle` | points, directions, board, move, goal | none (operators) |
| `AdmissibleBoard` | the board object of the exact searches | `board`, a record with the object's fields |
| `AdmissibleBoard_proofs` | its distances, its parities, the cut-off by parity, the features of `BoardFeatures` and the lower bound of `BackwardPlay`, proved | |
| `BoardFeatures` | the features of the beam searches' boards, computed and incremental | none (operators over `AdmissibleBoard`) |
| `MCAdmissibleBoard` | both, with the fixed area for TLC | |
| `BackwardPlay` | all plays, from their end backwards, to judge the lower bound | `board`, `selections`, `price` |
| `Answer` | moves, `Answer::optimize()`, `Problem::check()` | none (operators) |
| `Answer_proofs` | induction, sums and plays, for the other proofs; `optimize()` as a whole | |
| `AnswerOptimize` | `optimize()` reading an answer chosen while it reads | `opt`, `raw`, `result` |
| `KurageSolver` | the beam search in layers, with its best answer and its retry | `beams`, `nextBeams`, `visitedIn`, `best`, the loop counters, `minLayer`, `maxLayer`, `reliability`, the distances |
| `AnswerTree` | the lists of nodes, one per thread, and the thread indices | `nodes`, `leaves`, `localId`, `idCount`, `step`, `work` |
| `Answers_proofs` | these three, proved | |
| `MCAnswers` | these three and `BackwardPlay`, one per behaviour, with the problems for TLC | `part` |
| `ExactSearch` | what the two searches for a cheapest answer share: the costs | none |
| `ExactSolver` | IDA*, with the recursion as a stack of frames | `start`, `lb`, `stack`, `published` |
| `ExactSolver_proofs` | its calls, its answer and that it is optimal, proved | |
| `BidirectionalAstar` | the two searching threads and the combination of their halves | `queue`, `visited`, `current`, `metHash`, `pc` per worker, `answer` |
| `MCBidirectionalAstar` | its problems for TLC | |
| `MCExactSearches` | this one or `ExactSolver`, one per behaviour | `part` |
| `BidirectionalAstar_proofs` | the meeting protocol, the maps and the answer, proved | |
| `ProblemFeed` | the abstract promise of the problem distribution | `broadcast`, `joined`, `got` |
| `ProblemService` | server, sessions, network, clients | see the module; one variable per member |
| `ProblemService_proofs` | the inductive invariant and the refinement | |
| `PostService` | a client that posts answers, its connection, the server's session; implements `ProblemFeed` the other way round | one variable per member |
| `FixBoard` | walks and searches round fixed cells, the carrying of a piece | none (operators) |
| `FixBoardMoves` | one call of `FixBoard`, on any start and target | `board`, `before`, `call` |
| `FixBoard_proofs` | its walks, searches and carrying, proved | |
| `MCFixBoard` | a board for TLC, with a corridor | |
| `AlignBoard` | which piece can be settled next, and how | none (operators over `FixBoard`) |
| `DolphinSolver` | the layers in which the border is settled | `boards`, `returned`, `failures`, `layers` |
| `StraightSolver` | the solver that settles rows and columns one after the other | `answerBoard`, `remH`, `remW`, `solved` |
| `MCBoardTools` | these, one per behaviour, with the problems for TLC | `tool` |
| `SlideWindow` | the desktop program: the window, the animated board, solver threads, the worker for problems | one variable per member; `goal`, `disturbed` are history |
| `Desktop_proofs` | the buttons, the answer and its play proved; the invariant of `PostService` and its refinement | |
| `MCDesktop` | the window, or the posting of answers, with inputs for TLC | `part` |

Correspondence with the code:

- **A board** maps points to points: a piece is named by its home
  (`Board::correctId`), so the goal is the identity. `uchar` ids become points;
  the only width that matters, `selManhattan` in an `unsigned char`, holds a
  distance of at most 30 as long as it is exact (`DistancesExact`). The id of an unselected board is uninitialised in the
  code and never read; the model has `NoPoint` there.
- **`Moved` and `Selected`** are `AdmissibleBoardBase::move` and `select` with
  everything they call: the board, then the cost, distance and parity features.
  `lowerBound` is a function of the other fields and is computed where it is read.
- **`ExactSolver`**: a frame is a call of `startDFS` or `DFS`: its board, the
  move that led to it, its minimum and its loop counter. `DFS` selects on its own
  board and afterwards restores only what `CMPFeatures` holds; `Restored` keeps
  the stale selection and parity exactly as the code does.
- **`BoardFeatures`** has for every feature what `init` computes from the whole
  board and what `move` and `select` change, with the same few cells looked at. A
  hash is the set of the random numbers of which it is the exclusive or; the
  floats of the weighted distance are multiplied out.
- **`KurageSolver`**: a step is one layer of one round, the parallel loop
  included: its threads share the best answer, which has a lock, and the tree of
  answers, which is `AnswerTree`. A board carries its moves instead of a place in
  that tree. The score has a random part, so any boards may be kept.
  `DetermineBeamWidth` has both branches of `determineBeamWidth()`: on boards of at
  most 36 cells the lowest layer is the one it is called with; on larger ones
  layers go from the top that are not trusted (`Untrusted`), for good, and the
  lowest ones rest as long as much is left to do (`MuchLeft`, the double arithmetic
  on the ratio of two distances multiplied out), and a piece may only be left at
  home (`MaxNeighbor`). The 36 is the field `evenArea` of a task, so that a small
  board can be put on either side of it. `Exhausted`
  is the round in which nothing is left and nothing has been found: the code
  repeats it for ever.
- **`AnswerTree`** splits `add()` where it is not atomic: the check of the size,
  the growth under the lock, the write of the node. What is touched while another
  thread lengthens the vector of the lists may be undefined (`undefined`).
- **`FixBoard`**: a way is a sequence of directions, found in the order in which
  the code tries (the two straight ways, the near detours, the search); a function
  that returns false has `NoWay`. The loops of the searches are `Rounds` of a function
  from state to state that leaves a finished state as it is. `manhattan`
  is a `char` in the code and wraps round in the model (`Char`). `AlignBoard` and `UrchinBoard` are one module:
  what is open is a range in each row. `BitBoard` is a set of points.
- **`DolphinSolver`** chooses freely which boards of a layer are the best, but
  prefers those that could be aligned, as `align` gives the others the worst score.
- **`StraightSolver`**: `cropTo`, `rotateFlip` and `restore` are modelled by
  what they do to cells, selected point and the moves made meanwhile; a step is
  one side of the board.
- **`SlideWindow`**: one action per slot. `board.blocks` is the problem's board
  and the array of blocks in one; the stream `ss` is the sequence of what has not
  been read from it. A swap ends through the one timer, through a signal from a
  thread, or at once, as the animation time says. `lost` is the use of freed
  memory or of a stream with the leftovers of another play, after which nothing is
  asked; `disturbed` says that something was replaced, cancelled or enabled while
  it was in use (see the list below), after which the window promises nothing.
- **`PostService`**: as `ProblemService`, with the server as the one client of the
  feed. `connected` is read by the caller and written by the handlers.
- **`BidirectionalAstar`**: a worker's step ends where it touches what the other
  one writes or reads: `Check` (the other's met hash), `Visit` (the insertion
  under its own lock), `Look` (the lookup under the other's lock, and what it
  then pushes, which is its own), `Publish`. A hash is the triple it is computed
  from, so it has no collisions; worker 1 sees the pieces renamed by the inverse
  table. The priority queue is a set (a second copy is found visited), and among
  boards with the same lower bound `Best` takes one that depends on the queue
  only, as the heap does, though not the same one. The spin locks and the
  acquire/release of the met hashes order these steps. `Undefined` is what comes of `pop_back()` on an empty
  vector.
- **`ProblemService`**: one action per handler. A post is an append to
  `posted`; a composed `async_write` is an element of `writes[c]` that counts the
  parts it has sent; `Transmit` and `Lose` stand for the operating system and the
  network. The session's life is that of its shared pointer: in the manager, or
  held by a pending write. `broadcast` and `joined` are history for the
  properties. `HandleAcceptThrows` is `remote_endpoint()` throwing on a connection
  that was reset while it waited: nobody catches, the process ends.

Abstractions that lose nothing the properties speak of: problems are numbers in
the order of the calls; of a message only the header/body alternation is kept
(the client trusts the length it reads, so a shifted stream shows as a body read
for a header); an accept that fails only starts the next accept, a step that
changes nothing; a client whose own `remote_endpoint()` throws is a client that
stops. A `close()` that races with a connect completing at the same moment ends
in the same "stopped" state. Deletions of the client's old message buffers and
everything about memory ownership are left out.

## 3. Runs

| Run | Question | Bounds, and why they are enough |
|---|---|---|
| `AdmissibleBoard` | do the incremental features, those of the exact search and the five of the beam searches, equal the computed ones; is a board that is cut off really lost | 2x3, all 720 boards, 2 selections, cost up to 7: every pair of pieces, both axes, every relation of a piece to its home, a second selection after moves of the first |
| `AnswerOptimize` | does rewriting an answer keep its play; is a beam-search answer accepted, and nothing cheaper left behind; does every thread find its answer in the shared tree; is the lower bound of the exact search one | `optimize`: 2x3, 2 selections, 9 moves: six turns in one sense need seven moves, two more make cancellations before and after a rewinding, and `rot` reaches +-5 and both jumps. Beam search: four boards of two to four moves, with and without a selected piece, limits 1 to 3, costs in all relations, keeping all boards or one, on both sides of `evenArea`; and one board with limits of 4 and 10, none or each of three pieces selected, a width of 25, as a large board, where layers are dropped from the top and spared at the bottom, answers are found and the search fails, but no answer is found after a layer has been dropped: there one choice of the boards kept is followed. `Trust` 2 and `Patience` 1 stand for 20 and 5, which only delay the retry and the dropping of layers. Tree: 2 threads, 3 nodes, 2 searches: both lists grow at once, and indices change owners. Lower bound: equal costs, 3 selections, all plays of cost at most 12 |
| `AnswerBackAndForth` | does no back-and-forth survive (`Answer.cpp:56`) | expected violation, 10 moves |
| `ExactSearches` | is IDA* correct, optimal, and does it end; can the two workers of the bidirectional A* miss each other, may an entry of a map change, do the halves fit | 2x2, equal costs. IDA*: 3 selections, every board; the reference optimum is a breadth-first computation in the module (`Plays`) that knows nothing of the heuristic. A*: every board with 1 selection (20 can be solved, with 4 both queues run empty) and one with 3, where each half has two selections and the shared one is dropped |
| `ExactSolverCosts` | is it optimal for other costs | expected violation, 2x2, costs 2 and 3 |
| `BidirectionalAstarEven` | is there an answer when the board needs the two selections it may have | expected violation, one 2x2 board |
| `BoardTools` | do walks and carries keep what is fixed, succeed whenever possible, and take the shortest way; does the border stay settled, is every candidate alignable, do the layers end; does the straight solver solve | 5x5, the smallest board of which the Dolphin solver settles a row and a column. Walks: four shapes of fixed cells (none, a wall with gaps and one without, islands), four starts, every target. Layers: two boards (a last row and a last column that begin with two pieces in each other's place; the last nine pieces shifted round), `BeamWidth` 1 with every choice of the board kept, which reaches the boards a wider beam would hold. They reach the candidates of inner rows, those of the last row with two cells left, in order and not (`ready`), the pairs that end a row and a column, the last cell alone, dents and the giving up of a settled piece; not the first row with two cells left, since that row belongs to the region that `solve()` leaves over (6x5 would have it, but has more states than can be checked). Straight: 36 boards, `m*i+k` for six units `m`: rows and columns in turn, the selected piece in the way or not |
| `FixBoardCorridor` | does `moveToOptimally` find a way whenever there is one | expected violation, 16x16, a corridor of 134 moves: 128 are needed |
| `ProblemService` | is a session's stream intact, does the service implement `ProblemFeed`, is everything delivered | 2 clients, 2 problems: a message behind another in a queue, a client that joins between them, one that breaks while the other works |
| `ProblemServiceClose` | does `run()` return after `close()` | expected violation |
| `Desktop` | does a play lead where its answer leads, is Solve enabled whenever the board is not in use, does the answer fit the board that Restore brings back, do plays and solvers get to their end; does the posting implement the feed and deliver | 2x2, five inputs of the user or the server: Solve, Play, Restore, Play again and one disturbance; answers of none, one and two selections; `inputs` bounds clicks, nothing bounds timers, signals or answers of a solver. Posting: 2 answers, one waiting behind another |
| `DesktopShuffle` | can Solve be pressed whenever the window is idle | expected violation: one press of Shuffle |

The 2x2 board is the largest for which IDA* over *every* board finishes in
seconds (2x3 needs hours); `AnswerOptimize` (`HeuristicAdmissible`) and
`AdmissibleBoard` check what the search relies on at 2x3. Four runs hold several parts (`AnswerOptimize`,
`ExactSearches`, `BoardTools`, `Desktop`); a behaviour of theirs is one of a single part.

Only `BidirectionalAstar` and the two services have a type invariant: elsewhere
the other invariants say more than types would.

`CHECK_DEADLOCK FALSE` is set where a run may legitimately stop: a board with all
its budget spent, an answer that is finished, two searches that have ended, a
call that has returned, a window whose user is done, a service in which all is
closed.

### Findings

- **The lower bound is not always one** (`ExactSolverCosts`). `manhattan2Table`
  promises a saving per remaining selection; for costs such as 2 and 3 the
  second bound exceeds the real cost. On 2x2 the board `3 2 1 0` is answered with
  cost 15 where 14 is enough. For equal costs `HeuristicAdmissible` finds no
  such case on 2x3, and `ExactSearches` finds the solver optimal on 2x2.
- **A back-and-forth survives** (`AnswerBackAndForth`). The five moves that
  replace seven are appended without looking at the move before them.
  The answer stays correct (`SamePlay`), only not as short as it could be.
- **Two selections are one too many** (`BidirectionalAstarEven`). The hash contains
  the remaining selections, so the two searches only meet where they have equally
  many left; the halves share one selection, so every answer has an odd number of
  them. A board that needs two, with a limit of two, ends with two empty queues
  and `buildAnswer(0)`. (`MeetingCorrect` shows that it is not a missed meeting:
  there was none.) Leaving the remaining selections out
  of the hash is not a repair by itself: then entries are replaced (line 103,
  outside the lock), as the mutant `HashOfPlay` shows.
- **`close()` leaves an accept pending** (`ProblemServiceClose`). `do_close()`
  closes the sessions, not the acceptor, so `io_service::run()` never returns and
  `exe/problem_server.cpp` hangs in its `join`.
- **A way can be too long for a `char`** (`FixBoardCorridor`). `searchMoveOptimally`
  adds up the changes of the distances along a way in a `char` whose values 127 and
  -128 mean "not reached" and "taken". After 128 steps that all add one the
  point counts as taken, and `moveToOptimally` fails although `moveTo` finds
  the way. With at most 126 free cells this cannot happen (`ShortestMovesOfFew`),
  and no border that the Dolphin solver fixes makes a way that long.

- **Shuffle never ends** (`DesktopShuffle`). `next_shuffle()` ends with `swap()`,
  which moves two blocks and tells nobody, so the slot that would begin the next of
  the `SHUFFLE_MAX` swaps, and in the end emit `shuffle_finished`, is never called.
  The board is left after one swap with `is_shuffling` set and every button
  disabled, while `src/README.md:71` has the user press Solve next.

### Behaviours worth knowing

These are in the models because they are in the code; no line of the repository
promises otherwise, so they are not findings.

- `countMoveTo` returns 5 where `moveTo` makes a detour of 4 moves
  (`ShortestMoves` allows just that). `ManhattanFeature::delta`, as `FixBoard` uses it, is
  asked about the piece that was in the cell that is left before the way began, not
  about the one that comes.
- `WeightedManhattanFeature` changes by twice the difference on moves right, down
  and left, and by the difference on moves up (`FeaturesExact` states it).
- In the beam search, the first move of a board that is selected already is never
  Down (`preMove` is Up). If a selection is cheaper than a swap, the search stops
  at an answer although a cheaper one may be in its beams, hence the condition in
  `NothingBetterLeftBehind`. If the beams run empty without an answer, it loops.
- The tree of answers is lengthened under a lock that the other writers do not
  take; what happens then is undefined in the model and promised nothing.
  `AnswersKept` holds as long as no two threads are at it together.
- In the window: playing an empty answer
  leaves `is_moving`; Play during the animation of a click is taken for a step of
  the play; Cancel enables every button whatever is under way; a file or a
  problem that arrives replaces the board under a solver or a play; Restore after
  that uses freed blocks; Play while `ss` has leftovers reads them first.
- In the server of problems: `remote_endpoint()` of a connection that was reset
  before its accept throws, and the process ends (`HandleAcceptThrows`). The
  properties of the service speak of a server that lives, so none of them would
  catch it.
- In the posting: `stop()` leaves `connected` as it is, so that answers are taken
  and never sent; after a write error nothing is sent any more; a session that
  has ended stays in the manager; `remote_endpoint()` of a reset connection
  throws in the thread of the `io_service`. `do_write` reads four bytes
  that it never set, for a length it only prints.

## 4. Fairness

`ExactSolver` has weak fairness of its next-state relation, and so has its part of
`MCExactSearches`: a sequential program that is scheduled.
`ProblemService!FairSpec` assumes that the server's `io_service` runs the tasks
and completions that are ready, that a client's does the same, and that an
operation on an open socket makes progress (`Transmit`). Nothing is assumed of
`SendProblem`, `Close`, `ClientClose` (their callers) or `Lose`. `Delivered` has
the exceptions the code really has: a close, a broken connection, a dead server.

`MCDesktop!Spec` assumes that the timer of a swap runs out and the threads that
emit signals do so (`Timing`), that a solver which can answer does
(`Answering`), and of the posting that both `io_service`s run what is ready and
the client's system sends (`ClientHandler`, `ServerHandler`, `Transmit`).
Nothing is assumed of the user, of the server of problems, of `close()`,
`stop()` or `Break`. `MCBoardTools!Spec` has `WF_vars(Next)`, sequential code.

## 5. Proofs

Every theorem holds for boards of any size that the code accepts (sides 2 to 16,
`SizeAssumption`) and for all values of the constants that meet the named
assumptions; these say what `Problem::parse` and the callers guarantee, and TLC
evaluates them in the runs.

**Tools that the proofs share** (`Answer_proofs`). The model computes with folds:
the judge replays a sequence, a distance is a sum over a set, `optimize()` is a
loop. Induction as a rule with an operator for its parameter is not to be had,
but sets are: `SetInduction` (a set of numbers with 0 and every successor is
`Nat`, from the well-foundedness of `<`) and `SubsetInduction` (the same of the
subsets of a finite set) need none. So each fold has a small family of lemmas:
the recursion behind it has a solution (`...IteratesExists`), the fold is the last
of its steps (`...Fold`), and one element more is one step more (`...FoldAppend`).
A sum does not depend on the order in which the set is taken (`DistanceSumLess`:
any element may be the first).

**Problem distribution** (`ProblemService_proofs`), for any set `Clients`, finite
or not, and any `MaxProblems \in Nat`: `TypeCorrect`, `OneWriterCorrect`,
`StreamCorrect`, `WindowsCorrect`, and `FeedImplemented` (`Spec => FeedSpec`, with
the identity as refinement mapping). None of the invariants is inductive.
`StreamIntact` compares the wire with the numbers the queue *should* hold, so it
needs that the queue is a gapless suffix of the broadcasts (`QueueInOrder`), which
needs that tasks run in the order of the calls (`TasksInOrder`); reading a body
extends what the client has got, so its history must be a gapless window too
(`Behind`); and an accept starts from nothing only because nothing exists of a
session before it (`SessionLife`). `IInv` is `TypeOK`, `TasksInOrder` and, for
every client, `ClientInv`: one write, intact stream, life, queue, behind. There is
one lemma per action, and in it one step per part that the action disturbs;
`SameClientInv` says that a client whose variables an action leaves alone keeps
its part. The refinement uses the invariant only at `HandleReadBody` (the problem
handed over is the next one, and is one that was broadcast) and at `HandleAccept`.

**Answer posting** (`Desktop_proofs`), for any `MaxAnswers \in Nat`:
`PostFeedImplemented`, the same feed with the server as its client. Tasks of
`close()` lie among the answers in `posted`, so an answer cannot be found by
counting. The invariant says that some `b` splits the answers taken: those after
`b` are the answers in `posted`, in order (`Tasks`), those before are what has been
written or waits in `write_msgs`, gapless up to `b` (`Queue`), and what has been
received, what is on the wire and what is being written continue each other
(`Stream`). A step of the client's handlers moves `b`, a call of `send_answer()`
extends the part after it, and a broken or closed connection only loses parts at
the end of the stream.

**The board of the exact searches** (`AdmissibleBoard_proofs`): `ParityCorrect`,
`DistancesCorrect`, `PrunedCorrect`. The heart of the first is
`ExchangeTurnsParity`: exchanging the pieces of two cells, next to each other in
reading order or not, turns the parity of the number of inversions. The pairs whose
order the exchange turns are the two cells themselves and, twice, the cells between
them (`TurnedOdd`); the inversions among the other pairs correspond one to one, and
the turned pairs change sides. The proof counts with bijections. A distance after a
move is the old sum with one summand exchanged (`MovedExact`), after a selection
with one put back and one taken out (`SelectedExact`). The invariant says of a board
that it is a permutation and all of its fields are exact (`Exact`), since `select`
takes the parity from the distance of the selected piece. `PrunedCorrect` then needs
only that the finished board has no inversion.

**The features of the beam searches' boards** (`AdmissibleBoard_proofs`):
`FeaturesCorrect`. Most features are sums over the pieces that are not selected, of
what a piece adds by its place and its home (`PieceSum`, with a table for each
feature, `FeatureSums`). A move or a selection then changes one summand, and the
code's deltas are differences of two entries of a table (`SumMoved`, `SumSelected`,
`VarianceMovedIs`, `SquaredMovedIs`, `WeightedMovedIs`). The linear conflict is a
number of pairs: which pairs of a row conflict is an asymmetric relation (`Orders`),
so that one place more among those counted adds the pairs it makes with the others,
once each (`AmongLess`). A piece that moves along a row keeps its conflicts there,
since it passes no piece but the selected one (`RowStays`); across rows, it leaves
the conflicts it had in the one and gets those it finds in the other, which is what
the delta counts (`RowMoved`). A hash is the set of the entries of the table that
are combined, so that combining with the two old and the two new entries replaces
them (`HashMovedIs`). The weighted distance is exact in the same way after a
selection and a move up; for the other moves the theorem states how far it is off
(see section 3). Only the cells and the selected place before and after one
operation matter, so that `Exact` (above) is all that is needed of a board.

**The lower bound** (`AdmissibleBoard_proofs`, for `BackwardPlay`), for any costs: `BoundsCorrect` and
`HeuristicCorrect`. A play from a board to the goal has `n` swaps and `used`
selections. `Within` says what that allows: both
distances together are at most `2n`, since a swap brings two pieces closer by one;
`manhattan` alone is at most `n` and one diameter of the board per selection, since
a selection takes only the distance of one piece out of it; and without a selection
the parity of the board is that of the swaps of the piece that is selected. Each
step of `BackwardPlay` keeps it, and with it `Prunable` is false and `Manhattan1` at
most the cost. For up to two selections `manhattan2Table` promises just a diameter
each, so `Manhattan2` is right too; beyond, it promises more than `Within` gives, and
the finding above shows that this can be wrong. `HeuristicCorrect` therefore has the
hypothesis `SelectionLimit <= 2`, and `BoundsCorrect` says what holds without it.

**`Answer::optimize()`** (`Answer_proofs`, `Answers_proofs`): `OptimizeSound` and
`OptimizeCorrect` of the function, for any answer; `SamePlayAlways`,
`RotCountsTurnsAlways`, `NoAdjacentSelectionsAlways` and `ResultNoWorseAlways` of
its loop at work. `Keeps` is what the loop keeps: `newans` is a play that begins
with a selection, has no two in a row, ends with the turns that `rot` counts, and
leads where the moves read so far lead, with no fewer selections left. The step that
is hard is `RewoundKeeps`: six turns in one sense are seven swaps round one block
(`LastSeven`, `Corners`), and on the four cells of a block seven exchanges one way
round equal five the other way (`SevenIsFive`, `Rewinding`). That the seven moves
are there at all follows from `TurnsCounted`, which is why `rot` needs its own
invariant.

**The exact solver** (`ExactSolver_proofs`), for any costs: `AnswerAccepted` and
`CallsExact`. The theorems about boards are those of `AdmissibleBoard_proofs`, used
through an `INSTANCE`. `FrameInv` says of one call that the board it was given is
exact, and that its own board, of which `DFS` restores only a part after each
candidate, still agrees with it in all that is read before it is written
(`Undone`). `StackInv` says of the stack that the move of each call leads the judge
from the board of its caller to its own. An answer is collected on the way back
from the board that is finished: it is the path of the stack, so the judge arrives
at the same cells.

That the solver is exact, `AnswerOptimalOfTwo`, is proved for every size, all costs
and limits of one and two selections, and `AnswerOptimalIfAdmissible` for any limit for
which the heuristic is a lower bound (`BoundAdmissible`; with two selections it is,
`AdmissibleOfTwo`, by `BoundsCorrect` of `AdmissibleBoard_proofs`; the findings have
costs for which three are too many). The argument has three layers:

- *The reference.* `Plays` is a fold that adds the situations of one cost after the
  other. `LayerIs` takes it apart: a situation has the cost `c` (`Costs`) when a swap
  or a selection leads to a cheaper one, and it has no cost below.
- *The candidates* (`GoodMove`). `DFS` skips the move that takes the last swap back, a
  second selection in a row, a selection of the piece that is selected and any
  selection without one left. Whatever call it is in, one of the candidates it does not
  skip goes on with the cheapest play: a swap taken back costs two swaps for nothing
  (`SwapOn`), and of two selections in a row the first can be left out, as one more
  selection left makes no play more expensive (`RicherCosts`, `SelectOn`).
- *The stack.* The minimum a call will return is at most its cost so far plus the cost
  of any play that a candidate it is done with begins (`Covers`). A candidate that is
  cut off adds its own bound (`BoundCovers`), a call that returns adds its minimum,
  which by `GoodMove` covers every play from its board (`ReturnCovers`). So the minimum
  of `startDFS`, the next threshold, is at most the cheapest play (`Below`,
  `NextThreshold`). An answer is found in a call within the threshold
  (`StackCost`), and `optimize()` makes it no dearer (`FoundCosts`).

`OInv` is the invariant; it rests on `IInv`. A solved board is apart: it has a play of
cost 0, its heuristic may be one selection, and its answer is empty at once. `HasPlay`
looks for plays of up to `MaxOptimum`; the theorems hold for every `MaxOptimum`.

**The Hitode solver** (`BidirectionalAstar_proofs`), for any costs and any set of
problems, from `ProblemsAssumption` and `NoHashAssumption` (no hash is 0):
`MeetingCorrect`, `EntriesCorrect`, `AnswerAccepted`, `TypeCorrect`.
`MeetingNoticed` needs that a worker that looks a board up has it in its own map
(`Inside`) and that an entry shows as many remaining selections as its key, since
the two workers test the same condition with different operands. That makes the
condition of line 117 one of the key alone, so that the later of the two cannot
miss it, and it makes the replacing branch unreachable. A published hash differs
from 0 only if it is the hash of a board, so boards must keep their shape
(`Hashed`) through moves and selections; for the inverse board this is a pigeonhole
argument (`InverseType`).
The answer needs a second invariant, `AnswerInv`, on top of the first. Every entry
of a map is the start or is linked by a move to the entry that is its parent
(`Linked`); the walk of `buildAnswer()` is defined and is a sound half of an answer
(`Chained`), which is kept because an entry is only ever added, at the end of a
chain. `GoodHalf` says what is sound: the judge who plays the half arrives at the
key with just as many selections left as the key shows; turned round, it leads from
there back to the start, with one selection fewer, given that many. Renaming the
pieces and exchanging two of them commute (`RenamedSwapped`), so that both workers
have one and the same relation between keys, and worker 1 starts from the finished
board. What is published counts (`Counts`), and stays counting because entries stay;
`HalvesFit` then puts the halves together and `OptimizeCorrect` does the rest.

**The Kurage solver** (`Answers_proofs`), for any costs, any width of the beam and
any choice of the boards kept (`BeamTasksAssumption`): `BeamAnswerAccepted` and
`NothingLeftBehind`. The first is about boards on both sides of the 36 cells, the
second about those of at most `evenArea` cells: on larger ones layers also rest
because much is left to do or because they are not trusted, and cheaper answers may
be left behind. `BeamInv` says that the judge who plays a board's moves arrives
at that board with as many selections left as the number of its layer (`Reached`),
which is what makes an answer acceptable: nothing else counts the selections.
It holds whichever layers are dropped or spared, as long as boards
change layers by selections only. `LeftInv`, for the smaller boards, adds what relates rounds, layers and scores: a board of a layer at work has
one move per round (`Aged`), a score is the cost of its answer but for two swaps and
what a piece selected from the start spares (`Scored`, `BoardCost`), and the layers
that rest are those that can no longer gain (`RestingLayers`, `RestingBoards`). The
lowest layer is found by a division that rounds up (`RoundedUp`,
`LowestLayerFacts`); selections that are cheaper than swaps are excluded, as in the
property.

**The tree of answers** (`Answers_proofs`), for any finite set of threads, any
number of nodes and of searches (`TreeAssumption`): `AnswersKeptAlways`. `TreeInv`:
the threads of a search have different indices (`IdsDiffer`), so that a list has one
writer (`WorkInv`); the node of a board holds its last move and the place of a board
that has made the moves before (`LeavesPlaced`), and stays where it is because a list
only grows; a board has no more moves than there are nodes (`NodesBounded`), so that
`buildAnswer()` reaches the root in as many steps as it may take.

**The window** (`Desktop_proofs`), for any problems, any answers that the solvers
may give and any number of inputs (`SolversAssumption`: what is published has passed
`Problem::check()` and `optimize()`; `ShuffleMaxAssumption`): `SolveEnabledCorrect`,
`AnswerFitsCorrect`, `PlayFollowsCorrect`. The invariant is `Calm => Core`: after a
disturbance nothing is promised. `Enabled` (Solve is enabled exactly while the board is not in use, `InUse`) alone is
not inductive, since a slot
disables the buttons one by one and enables them together (`Together`); what is
under way excludes everything else (`OneAtATime`), or a second play would read the
stream of the first; the solvers that run were given the board of the backup, or
their answer would not fit (`Answered`); and during a play (`Playing`, `PlayInv`)
the rest of the stream leads from the board shown, with the piece that is selected
there, to the goal, while the counters of the play agree with the stream. A board that
shuffles is in use, and for ever: the theorem says no more than that Solve follows
`InUse`, and that `InUse` may outlast everything that goes on is the finding
`DesktopShuffle`. The goal of a play
is that of the whole answer because what the judge does depends only on the cells,
the selected place and the selections left.

**Walks and carrying round fixed cells** (`FixBoard_proofs`): `ShortestMovesCorrect`,
`PromiseKeptCorrect` and `CarriesIfPossibleCorrect`, for boards of any size, any fixed cells and any place of the
selected piece, and their corollaries for few free cells. The loops are
iterations of a function (`Rounds`), and two lemmas about them do what an induction
would: what a round preserves holds after any number of them (`RoundsStep`), and if
every round but the last ones makes a subset of a finite set larger, then as many
rounds as that set has elements are enough (`GrowingEnds`). `SearchInv` is the
invariant of the breadth-first searches: the queue has the points reached and not yet
taken, once each, sorted by their distance in moves, which spans at most two levels;
all that is nearer than its head is reached (`LevelsReached`); and every point has a
shortest way (`WaysShortest`), also after `searchMoveOptimally` has preferred another one
for its distances, as it only ever replaces a way by one of the same length. That last
step is where parity comes in: a point of the queue is an odd or an even number of moves
away, as its colour says (`BallColour`), so no neighbour of the head is as far away as
the head. The near ways need no search but have to agree with it: two steps, or a
detour of four where the two are closed, are shortest (`NearWayIs`), again by
colour. `PromiseKept` follows the boards along a way (`Walks`), those of the ten
methods of `moveToLinearTwoNeighborMoreOptimally` too (`LinearWayIs`), turned and
mirrored. For `trajectPiece` the proof needs what `Plan` says of the directions of a
piece: before each push the selected piece can reach the other side, round the fixed
cells and the piece itself. `CarryInv` says of the A* search that
all data in the queue are plans, whatever their order; a plan from the last visit of
src is one again (`FromLastVisitIs`), and the walks that carry it out exist because
each step of it says so (`CarryStepsCarry`). That the search misses no way
(`CarriesIfPossible`) compares it with all pairs of places: `Reach` is the least set
of pairs that no move leaves (`ReachIs`). A plan goes through that set (`PlanStays`);
and when no data are left, the pairs that the places and directions done tell of
(`Pairs`, by `Met`) are closed too (`PairsAreClosed`): a push on is in the queue and so
done, and one back, which the code leaves out, comes to the pair from which the piece
was pushed, as the part of `CarryInv` about `Met` remembers.

The hypotheses `SelectedFits` and `CarryFits` say that no free cell is more than 126
moves away, round the fixed cells and round them and one piece: the `char` of
`searchMoveOptimally` cannot count further, and the run `FixBoardCorridor` refutes
`ShortestMoves` without them. They need no check where few cells are free:
`FewFreeCells` (at most 126, which every board of up to 11x11 has) implies both
(`FitsFew`), and is the only hypothesis of `ShortestMovesOfFew`, `PromiseKeptOfFew` and
`CarriesIfPossibleOfFew`.

What stays with TLC:

- liveness under fairness (`Delivered`, `Answered`, `RunReturns`, `Progress`,
  `TakenAnswersArrive`);
- that the heuristic is a lower bound with more than two selections left
  (`HeuristicAdmissible`, and with it `AnswerOptimal`, which is proved from it), which
  holds for equal costs only: for a third selection the second bound grants
  less than a diameter, which a single play need not respect;
- the properties of `AlignBoard` and of the two solvers that use it.

## 6. Not modelled, and what could come next

- Whale, Dragon, Lizard, L2 and Shark solvers: variants of the Kurage and Dolphin
  searches on the boards that are modelled, with other weights and widths. Of
  `WhaleBoard` the features are in `BoardFeatures`.
- `DolphinOctopusBoard` and `SharkOctopusBoard`: no program is compiled with them.
  `AnswerSharedTree.hpp`: used by no program.
- In the Kurage solver: `evaluate()`, whose result only orders boards (any order is
  allowed instead), and problems with a limit of 0, which `Problem::parse` refuses and
  only the window's own random problems can have: the search then reads a layer that
  does not exist.
- Two beam searches at once on the static tree of answers, which the window allows
  by a second Solve after Cancel.
- In the window: painting, colours, counts and score, the choice of the solver,
  boards of other sizes, files that cannot be read, a worker whose thread cannot be
  made.
- Parsing and formatting of text (`Problem::parse`, `Answer::parse`), matrices,
  the random engine, the stop watch, the programs under `exe/` beyond their calls
  of the network, vendored code.

Next would be theorems about `DolphinSolver` and `StraightSolver`, on top of those
about `FixBoardMoves`.
