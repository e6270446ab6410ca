-------------------------- MODULE BidirectionalAstar --------------------------
(***************************************************************************)
(* slide::HitodeSolver: two A* searches in two threads, one from the board *)
(* of the problem and one, as the search for a solution of the inverse     *)
(* board, from the finished board.  Each looks every board it visits up in *)
(* the map of the other; where they meet, the two halves are joined.       *)
(***************************************************************************)
EXTENDS ExactSearch

CONSTANTS
  Problems,         \* boards with their selection limits
  NoHash,           \* the hash 0
  Undefined         \* what buildAnswer(0) makes of an empty vector

ASSUME ProblemsAssumption == Problems \subseteq [board : Boards, selectionLimit : 1..16]

Workers == {0, 1}
Other(w) == 1 - w

Hashes == [Points -> Points] \X (Points \cup {NoPoint}) \X (0..16)

ASSUME NoHashAssumption == NoHash \notin Hashes

VARIABLES
  problem,
  queue,      \* the priority queue Q of a worker
  visited,    \* its map from hashes to Data
  current,    \* the board it has taken from its queue
  metHash,    \* where it has met the other one
  pc,         \* where it is in run()
  answer      \* what onCreatedAnswer is called with

vars == <<problem, queue, visited, current, metHash, pc, answer>>

AB == INSTANCE AdmissibleBoard WITH SelectionLimit <- 16, MaxCost <- 0, board <- problem.board

-----------------------------------------------------------------------------
(* A HitodeBoard: an AdmissibleBoard, the move that led to it and the hash *)
(* of the board before that move.                                          *)

Hitode(b, preMove, parentHash) ==
  [board |-> b, preMove |-> preMove, parentHash |-> parentHash]

\* Mutant: the remaining selections are not part of the hash.
HashOfPlay(w, h) ==
  LET b == h.board
  IN  <<IF w = 0 THEN b.cell ELSE [p \in Points |-> problem.board[b.cell[p]]], b.selected>>

\* Its hash, without collisions: cells, selected piece and remaining selections,
\* which HashFeature::select mixes in.  The table of worker 1 gives the inverse
\* board the hashes of the board with the pieces renamed.
Hash(w, h) ==
  LET b == h.board
  IN  <<IF w = 0 THEN b.cell ELSE [p \in Points |-> problem.board[b.cell[p]]],
        b.selected, b.selectionLimit>>

\* HitodeSolver::inverseBoard
InverseBoard(cell) == [p \in Points |-> CHOOSE q \in Points : cell[q] = p]

\* start1 and start2
Start(w) ==
  LET cell == IF w = 0 THEN problem.board ELSE InverseBoard(problem.board)
  IN  Hitode(AB!InitBoard(cell, NoPoint, problem.selectionLimit), Swap(Up), NoHash)

Init ==
  /\ problem \in Problems
  /\ queue = [w \in Workers |-> {Start(w)}]
  /\ visited = [w \in Workers |-> <<>>]
  /\ current = [w \in Workers |-> Start(w)]
  /\ metHash = [w \in Workers |-> NoHash]
  /\ pc = [w \in Workers |-> "check"]
  /\ answer = NoAnswer

-----------------------------------------------------------------------------
(* AstarWorker::run.  A step ends where it has read or written what the    *)
(* other worker writes or reads: its met hash, and its map under its lock. *)

\* The worker returns; its queue goes with it.
Return(w) ==
  /\ pc' = [pc EXCEPT ![w] = "done"]
  /\ queue' = [queue EXCEPT ![w] = {}]

\* The head of the loop: no board is left, or the other worker has met this one.
Check(w) ==
  /\ pc[w] = "check"
  /\ IF queue[w] = {} \/ metHash[Other(w)] # NoHash
     THEN Return(w)
     ELSE pc' = [pc EXCEPT ![w] = "visit"] /\ UNCHANGED queue
  /\ UNCHANGED <<problem, visited, current, metHash, answer>>

\* Q.top(): one of the boards with the least lower bound, which is up to the heap.
Best(boards) ==
  CHOOSE h \in boards : \A g \in boards : AB!LowerBound(h.board) <= AB!LowerBound(g.board)

\* The board was visited before with as many selections.
Known(w, h) ==
  /\ Hash(w, h) \in DOMAIN visited[w]
  /\ visited[w][Hash(w, h)].selectionLimit >= h.board.selectionLimit

DataOf(h) ==
  [parent |-> h.parentHash, selectionLimit |-> h.board.selectionLimit, preMove |-> h.preMove]

Inserted(map, key, data) ==
  [k \in DOMAIN map \cup {key} |-> IF k = key THEN data ELSE map[k]]

\* The board is popped and, unless it is known, put into the map.  (An entry is
\* never replaced: the remaining selections are part of the hash.)
Visit(w) ==
  /\ pc[w] = "visit"
  /\ \E h \in queue[w] \cap {Best(queue[w])} :
         /\ queue' = [queue EXCEPT ![w] = @ \ {h}]
         /\ IF Known(w, h)
            THEN /\ pc' = [pc EXCEPT ![w] = "check"]
                 /\ UNCHANGED <<visited, current>>
            ELSE /\ visited' = [visited EXCEPT ![w] = Inserted(@, Hash(w, h), DataOf(h))]
                 /\ current' = [current EXCEPT ![w] = h]
                 /\ pc' = [pc EXCEPT ![w] = "look"]
  /\ UNCHANGED <<problem, metHash, answer>>

\* Mutant: the selection that the halves share is counted twice.
IsFinishedStrictly(w) ==
  LET key == Hash(w, current[w])
  IN  /\ key \in DOMAIN visited[Other(w)]
      /\ current[w].board.selectionLimit + visited[Other(w)][key].selectionLimit
           >= problem.selectionLimit

\* isFinished: the other worker has visited the board, and the halves, which share
\* the selection of the last piece, need no more selections than there are.
IsFinished(w) ==
  LET key == Hash(w, current[w])
  IN  /\ key \in DOMAIN visited[Other(w)]
      /\ current[w].board.selectionLimit + visited[Other(w)][key].selectionLimit + 1
           >= problem.selectionLimit

\* Mutant: another selection when none is left.
SelectableBeyondLimit(h) ==
  {p \in Points \ {h.board.selected} :
     /\ h.board.selectionLimit >= 0
     /\ ~h.preMove.isSelection
     /\ ~AB!Prunable(AB!Selected(h.board, p))}

\* The pieces that may be selected next: never after another selection.
Selectable(h) ==
  {p \in Points \ {h.board.selected} :
     /\ h.board.selectionLimit >= 1
     /\ ~h.preMove.isSelection
     /\ ~AB!Prunable(AB!Selected(h.board, p))}

\* The moves that may be made next: never back.
Movable(h) ==
  {dir \in Directions :
     /\ ValidMove(h.board.selected, dir)
     /\ ~(~h.preMove.isSelection /\ h.preMove.direction = Opposite(dir))}

\* The boards after such a move or selection that are not known: those pushed.
Nexts(w) ==
  LET h == current[w]
      nexts == {Hitode(AB!Moved(h.board, dir), Swap(dir), Hash(w, h)) : dir \in Movable(h)}
               \cup {Hitode(AB!Selected(h.board, p), Selection(p), Hash(w, h)) :
                        p \in Selectable(h)}
  IN  {next \in nexts : ~Known(w, next)}

\* Under the lock of the other worker its map is looked up; without a meeting
\* the board is expanded.  (A second copy of a board in the queue would only be
\* found known, so that a set will do.)
Look(w) ==
  /\ pc[w] = "look"
  /\ IF IsFinished(w)
     THEN pc' = [pc EXCEPT ![w] = "met"] /\ UNCHANGED queue
     ELSE /\ queue' = [queue EXCEPT ![w] = @ \cup Nexts(w)]
          /\ pc' = [pc EXCEPT ![w] = "check"]
  /\ UNCHANGED <<problem, visited, current, metHash, answer>>

Publish(w) ==
  /\ pc[w] = "met"
  /\ metHash' = [metHash EXCEPT ![w] = Hash(w, current[w])]
  /\ Return(w)
  /\ UNCHANGED <<problem, visited, current, answer>>

-----------------------------------------------------------------------------
(* HitodeSolver::bidirectionalAstar and solve, after the threads ended.    *)

\* AstarWorker::buildAnswer: back along the parents; the first board of the
\* search has no move.
BuildAnswer(w, hash) ==
  LET walk[k \in DOMAIN visited[w]] ==
        IF visited[w][k].parent = NoHash
        THEN <<>>
        ELSE Append(walk[visited[w][k].parent], visited[w][k].preMove)
  IN  walk[hash]

\* Mutant: the next piece is selected instead of the cell where the last one ended.
TurnedRoundEarly(half, m) ==
  IF m.isSelection
  THEN [sel |-> m.selected,
        tmp |-> IF half.sel = NoPoint THEN half.tmp
                                      ELSE <<Selection(m.selected)>> \o half.tmp]
  ELSE [sel |-> Neighbour(half.sel, m.direction),
        tmp |-> <<Swap(Opposite(m.direction))>> \o half.tmp]

\* One move of the half of worker 1 turned round and put in front of those before
\* it: a move becomes its opposite; for a selection the cell where the piece
\* selected before it ended is selected.
TurnedRound(half, m) ==
  IF m.isSelection
  THEN [sel |-> m.selected,
        tmp |-> IF half.sel = NoPoint THEN half.tmp
                                      ELSE <<Selection(half.sel)>> \o half.tmp]
  ELSE [sel |-> Neighbour(half.sel, m.direction),
        tmp |-> <<Swap(Opposite(m.direction))>> \o half.tmp]

\* The answers are combined: that of worker 1 backwards, without the selection of
\* the piece on which the two met.
Combined(first, second) ==
  first \o FoldLeft(TurnedRound, [sel |-> NoPoint, tmp |-> <<>>], second).tmp

\* Both threads have been joined.  Of two met hashes the larger is taken; without
\* one, buildAnswer(0) takes the last element off an empty vector.
Join ==
  /\ \A w \in Workers : pc[w] = "done"
  /\ answer = NoAnswer
  /\ IF \A w \in Workers : metHash[w] = NoHash
     THEN answer' = Undefined
     ELSE \E hash \in {metHash[w] : w \in Workers} \ {NoHash} :
            \E combined \in {Combined(BuildAnswer(0, hash), BuildAnswer(1, hash))} :
              answer' = Optimize(combined)
  /\ UNCHANGED <<problem, queue, visited, current, metHash, pc>>

Worker(w) == Check(w) \/ Visit(w) \/ Look(w) \/ Publish(w)

Next == Join \/ \E w \in Workers : Worker(w)

Spec == Init /\ [][Next]_vars

-----------------------------------------------------------------------------
(* Properties.                                                             *)

\* The fields have their types; no board has used more selections than there are.
TypeOK ==
  /\ problem \in Problems
  /\ answer \in {NoAnswer, Undefined} \/ answer \in Seq(Selections \cup Swaps)
  /\ \A w \in Workers :
       /\ pc[w] \in {"check", "visit", "look", "met", "done"}
       /\ metHash[w] = NoHash \/ metHash[w] \in DOMAIN visited[w]
       /\ \A h \in queue[w] \cup {current[w]} :
            /\ h.board.cell \in Boards
            /\ h.board.selected \in Points \cup {NoPoint}
            /\ h.board.selectionLimit \in 0 .. problem.selectionLimit

\* A board in both maps on which the halves may meet.
Counts(key) ==
  /\ key \in DOMAIN visited[0] \cap DOMAIN visited[1]
  /\ visited[0][key].selectionLimit + visited[1][key].selectionLimit + 1
       >= problem.selectionLimit

\* A meeting was published or is about to be, or this one is still to be looked up.
Noticed(key) ==
  \E w \in Workers :
    \/ metHash[w] # NoHash
    \/ pc[w] = "met"
    \/ pc[w] = "look" /\ Hash(w, current[w]) = key

\* Two workers that visit the same board at the same time cannot miss each other:
\* each puts it into its map before it looks into that of the other, so that, once
\* the board is in both maps, a meeting has been noticed or is about to be.  When
\* both have ended without one, there was none.
MeetingNoticed ==
  \A key \in DOMAIN visited[0] : Counts(key) => Noticed(key)

\* The assertion of HitodeSolver::solve, where an answer was put together: the
\* judge accepts it, whichever of the met hashes was taken, although each worker
\* may have gone on visiting after the other met it.
AnswerCorrect ==
  answer \notin {NoAnswer, Undefined}
    => Correct(problem.board, problem.selectionLimit, answer)

\* The same assertion, where two selections are enough for any board (of size 2x2):
\* there is an answer to be put together.
Solved == problem.selectionLimit >= 2 => answer # Undefined

EntriesStay ==
  \A w \in Workers : \A key \in DOMAIN visited[w] :
    key \in DOMAIN visited'[w] /\ visited'[w][key] = visited[w][key]

\* A worker reads and replaces entries of its own map without the lock, and the
\* answer is built from both maps after a meeting: neither may go wrong, because an
\* entry that is in a map stays there as it is.
EntriesKept == [][EntriesStay]_vars

=============================================================================
