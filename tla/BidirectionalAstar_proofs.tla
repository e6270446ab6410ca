---------------------- MODULE BidirectionalAstar_proofs ----------------------
(***************************************************************************)
(* Proofs about BidirectionalAstar, for boards of any size, any costs and  *)
(* any problems: the two searches do not miss each other, what is in their *)
(* maps stays, and the two halves of an answer fit together.               *)
(***************************************************************************)
EXTENDS BidirectionalAstar, Answer_proofs

\* What the hash of a board is made of.
Hashed(h) ==
  /\ {"cell", "selected", "selectionLimit"} \subseteq DOMAIN h.board
  /\ h.board.cell \in Boards
  /\ h.board.selected \in Points \cup {NoPoint}
  /\ h.board.selectionLimit \in 0 .. problem.selectionLimit

\* A board is in the map of its worker from its insertion to its publication.
Inside(w) == pc[w] \in {"look", "met"} => Hash(w, current[w]) \in DOMAIN visited[w]

\* What holds of one worker.
WorkerInv(w) ==
  /\ \A h \in queue[w] \cup {current[w]} : Hashed(h)
  /\ Inside(w)
  /\ \A key \in DOMAIN visited[w] : visited[w][key].selectionLimit = key[3]

\* The inductive invariant.
IInv ==
  /\ problem \in Problems
  /\ \A f \in {queue, visited, current, metHash, pc} : DOMAIN f = Workers
  /\ \A w \in Workers : WorkerInv(w)
  /\ MeetingNoticed

-----------------------------------------------------------------------------
(* Boards and hashes.                                                      *)

\* The fields of a problem.
LEMMA ProblemType ==
  ASSUME problem \in Problems
  PROVE  /\ problem.board \in Cells
         /\ IsInjective(problem.board)
         /\ problem.selectionLimit \in 1..16
BY ProblemsAssumption DEF Boards, Cells

\* An injective function from the points to the points reaches them all, so that
\* the inverse board has a piece in every cell.
LEMMA InverseType ==
  ASSUME NEW cell \in Cells, IsInjective(cell)
  PROVE  /\ InverseBoard(cell) \in Boards
         /\ \A p \in Points : cell[InverseBoard(cell)[p]] = p
<1>1. cell \in Injection(Points, Points)
  BY DEF Cells, IsInjective, Injection
<1>2. cell \in Surjection(Points, Points)
  BY <1>1, PointsFinite, FS_Injection
<1>3. \A p \in Points : \E q \in Points : cell[q] = p
  BY <1>2 DEF Surjection
<1>4. InverseBoard(cell) \in Cells /\ \A p \in Points : cell[InverseBoard(cell)[p]] = p
  BY <1>3 DEF InverseBoard, Cells
<1>5. \A p, q \in Points : InverseBoard(cell)[p] = InverseBoard(cell)[q] => p = q
  BY <1>4
<1>6. IsInjective(InverseBoard(cell))
  BY <1>4, <1>5 DEF IsInjective, Cells
<1> QED
  BY <1>4, <1>6 DEF Boards, Cells

\* Each worker starts from a board.
LEMMA StartHashed ==
  ASSUME problem \in Problems, NEW w \in Workers
  PROVE  Hashed(Start(w))
<1>1. problem.board \in Boards /\ InverseBoard(problem.board) \in Boards
  BY ProblemType, InverseType DEF Boards, Cells
<1>2. problem.selectionLimit \in 0 .. problem.selectionLimit
  BY ProblemType
<1> QED
  BY <1>1, <1>2 DEF Start, Hitode, AB!InitBoard, Hashed

\* The fields of the hash after a move and after a selection, whatever the values of
\* the others.
LEMMA MovedFields ==
  ASSUME NEW b, {"cell", "selected", "selectionLimit"} \subseteq DOMAIN b,
         NEW cell, NEW p, NEW c, NEW s, NEW m, NEW parity
  PROVE  LET moved == [b EXCEPT !.cell = cell, !.selected = p, !.cost = c,
                                !.selManhattan = s, !.manhattan = m, !.selParity = parity]
         IN  /\ DOMAIN moved = DOMAIN b
             /\ moved.cell = cell
             /\ moved.selected = p
             /\ moved.selectionLimit = b.selectionLimit
OBVIOUS

\* What a selection leaves of a board's fields.
LEMMA SelectedFields ==
  ASSUME NEW b, {"cell", "selected", "selectionLimit"} \subseteq DOMAIN b,
         NEW p, NEW c, NEW l, NEW m, NEW s, NEW i, NEW parity, NEW selParity
  PROVE  LET selected == [b EXCEPT !.selected = p, !.cost = c, !.selectionLimit = l,
                                   !.manhattan = m, !.selManhattan = s, !.selId = i,
                                   !.parity = parity, !.selParity = selParity]
         IN  /\ DOMAIN selected = DOMAIN b
             /\ selected.cell = b.cell
             /\ selected.selected = p
             /\ selected.selectionLimit = l
OBVIOUS

\* The board after a move.
LEMMA MovedBoard ==
  ASSUME NEW h, Hashed(h), NEW dir \in Movable(h)
  PROVE  LET b == h.board
             next == Neighbour(b.selected, dir)
             m == AB!Moved(b, dir)
         IN  /\ b.selected \in Points /\ next \in Points
             /\ DOMAIN m = DOMAIN b
             /\ m.cell = Swapped(b.cell, b.selected, next)
             /\ m.selected = next
             /\ m.selectionLimit = b.selectionLimit
<1> DEFINE b == h.board
           next == Neighbour(b.selected, dir)
           m == AB!Moved(b, dir)
<1>1. b.selected \in Points /\ next \in Points
  BY DEF Movable, ValidMove, IsSelected, Hashed
<1>2. /\ DOMAIN m = DOMAIN b
      /\ m.cell = AB!Swapped(b.cell, b.selected, AB!Neighbour(b.selected, dir))
      /\ m.selected = AB!Neighbour(b.selected, dir)
      /\ m.selectionLimit = b.selectionLimit
  BY MovedFields, Zenon DEF AB!Moved, Hashed
<1>3. /\ AB!Neighbour(b.selected, dir) = next
      /\ AB!Swapped(b.cell, b.selected, next) = Swapped(b.cell, b.selected, next)
  BY DEF AB!Neighbour, Neighbour, AB!Delta, Delta, AB!Swapped, Swapped, AB!Up, AB!Right,
         AB!Down, Up, Right, Down
<1> QED
  BY <1>1, <1>2, <1>3

\* A move leads to a board.
LEMMA MovedHashed ==
  ASSUME NEW h, Hashed(h), NEW dir \in Movable(h), NEW pre, NEW parent
  PROVE  Hashed(Hitode(AB!Moved(h.board, dir), pre, parent))
<1> DEFINE b == h.board
           next == Neighbour(b.selected, dir)
<1>1. b.selected \in Points /\ next \in Points
  BY MovedBoard
<1>2. Swapped(b.cell, b.selected, next) \in Boards
  BY <1>1, SwappedBoards DEF Hashed
<1> QED
  BY <1>1, <1>2, MovedBoard DEF Hitode, Hashed

\* The board after a selection.
LEMMA SelectedBoard ==
  ASSUME NEW h, Hashed(h), NEW p \in Selectable(h)
  PROVE  LET b == h.board
             s == AB!Selected(b, p)
         IN  /\ p \in Points /\ b.selectionLimit >= 1
             /\ DOMAIN s = DOMAIN b
             /\ s.cell = b.cell
             /\ s.selected = p
             /\ s.selectionLimit = b.selectionLimit - 1
<1>1. p \in Points /\ h.board.selectionLimit >= 1
  BY DEF Selectable
<1> QED
  BY <1>1, SelectedFields, Zenon DEF AB!Selected, Hashed

\* A selection leads to a board.
LEMMA SelectedHashed ==
  ASSUME problem \in Problems, NEW h, Hashed(h), NEW p \in Selectable(h), NEW pre, NEW parent
  PROVE  Hashed(Hitode(AB!Selected(h.board, p), pre, parent))
<1> DEFINE b == h.board
<1>1. p \in Points /\ b.selectionLimit >= 1
  BY SelectedBoard
<1>2. b.selectionLimit \in 0 .. problem.selectionLimit /\ problem.selectionLimit \in 1..16
  BY ProblemType DEF Hashed
<1>3. b.selectionLimit - 1 \in 0 .. problem.selectionLimit
  BY <1>1, <1>2
<1> QED
  BY <1>1, <1>3, SelectedBoard DEF Hitode, Hashed

\* Whatever is pushed is a board.
LEMMA NextsHashed ==
  ASSUME problem \in Problems, NEW w \in Workers, Hashed(current[w]), NEW h \in Nexts(w)
  PROVE  Hashed(h)
BY MovedHashed, SelectedHashed DEF Nexts

\* The hash of a board is not 0, and shows the remaining selections.
LEMMA HashType ==
  ASSUME problem \in Problems, NEW w \in Workers, NEW h, Hashed(h)
  PROVE  /\ Hash(w, h) \in Hashes
         /\ Hash(w, h) # NoHash
         /\ Hash(w, h)[3] = h.board.selectionLimit
<1>1. problem.board \in Cells /\ problem.selectionLimit \in 1..16
  BY ProblemType
<1>2. [p \in Points |-> problem.board[h.board.cell[p]]] \in Cells
  BY <1>1 DEF Cells, Hashed, Boards
<1>3. h.board.selectionLimit \in 0..16
  BY <1>1 DEF Hashed
<1>4. Hash(w, h) \in Hashes
  BY <1>2, <1>3 DEF Hash, Hashes, Hashed, Cells, Boards
<1> QED
  BY <1>4, NoHashAssumption DEF Hash

-----------------------------------------------------------------------------
(* The invariant.                                                          *)

\* What does not change for a worker while the other one takes a step.
LEMMA WorkerStays ==
  ASSUME NEW w, WorkerInv(w), problem' = problem,
         queue'[w] = queue[w], current'[w] = current[w],
         pc'[w] = pc[w], visited'[w] = visited[w]
  PROVE  WorkerInv(w)'
BY DEF WorkerInv, Inside, Hashed, Hash

\* The invariant holds before the workers start.
LEMMA InitInvariant == Init => IInv
<1> SUFFICES ASSUME Init
             PROVE  IInv
  OBVIOUS
<1>1. ASSUME NEW w \in Workers
      PROVE  WorkerInv(w)
  BY StartHashed DEF Init, WorkerInv, Inside
<1>2. MeetingNoticed
  BY DEF Init, MeetingNoticed, Workers
<1> QED
  BY <1>1, <1>2 DEF Init, IInv

\* Before and after a step of a worker that inserts nothing and forgets no
\* meeting, whoever noticed a meeting still does.
LEMMA CheckInvariant ==
  ASSUME IInv, NEW w \in Workers, Check(w)
  PROVE  IInv'
<1>1. \A v \in Workers : WorkerInv(v)'
  <2> TAKE v \in Workers
  <2>1. CASE v # w
    BY <2>1, WorkerStays DEF IInv, Check, Return
  <2>2. CASE v = w
    <3>1. queue'[w] \subseteq queue[w] /\ pc'[w] \notin {"look", "met"}
      BY DEF IInv, Check, Return
    <3> QED
      BY <2>2, <3>1 DEF IInv, WorkerInv, Inside, Hashed, Check
  <2> QED
    BY <2>1, <2>2
<1>2. \A v \in Workers : pc[v] \in {"look", "met"} => pc'[v] = pc[v]
  BY DEF IInv, Check, Return
<1>3. MeetingNoticed'
  BY <1>2 DEF IInv, MeetingNoticed, Noticed, Counts, Check, Hash
<1> QED
  BY <1>1, <1>3 DEF IInv, Check, Return

\* The worker stands at a board that it has just put into its map; an entry would
\* only be replaced by one with more selections, and the hash rules that out.
LEMMA VisitInvariant ==
  ASSUME IInv, NEW w \in Workers, Visit(w)
  PROVE  IInv' /\ EntriesStay
<1>1. PICK h \in queue[w] :
        /\ queue' = [queue EXCEPT ![w] = @ \ {h}]
        /\ IF Known(w, h)
           THEN /\ pc' = [pc EXCEPT ![w] = "check"]
                /\ UNCHANGED <<visited, current>>
           ELSE /\ visited' = [visited EXCEPT ![w] = Inserted(@, Hash(w, h), DataOf(h))]
                /\ current' = [current EXCEPT ![w] = h]
                /\ pc' = [pc EXCEPT ![w] = "look"]
  BY DEF Visit
<1>2. UNCHANGED <<problem, metHash, answer>> /\ problem \in Problems
  BY DEF Visit, IInv
<1>3. \A v \in Workers : v # w => WorkerInv(v)'
  BY <1>1, <1>2, WorkerStays DEF IInv
<1>4. \A g \in queue'[w] \cup {h} : Hashed(g)'
  BY <1>1, <1>2 DEF IInv, WorkerInv, Hashed
<1>5. CASE Known(w, h)
  <2>1. pc'[w] = "check" /\ UNCHANGED <<visited, current>>
    BY <1>1, <1>5 DEF IInv
  <2>2. \A v \in Workers : pc[v] \in {"look", "met"} => pc'[v] = pc[v]
    BY <1>1, <1>5 DEF IInv, Visit
  <2>3. WorkerInv(w)'
    BY <1>2, <1>4, <2>1 DEF IInv, WorkerInv, Inside, Hashed
  <2>4. MeetingNoticed'
    BY <1>2, <2>1, <2>2 DEF IInv, MeetingNoticed, Noticed, Counts, Hash
  <2> QED
    BY <1>1, <1>2, <1>3, <1>5, <2>1, <2>3, <2>4 DEF IInv, EntriesStay
<1>6. CASE ~Known(w, h)
  <2> DEFINE key == Hash(w, h)
  <2>1. /\ DOMAIN visited'[w] = DOMAIN visited[w] \cup {key}
        /\ visited'[w][key] = DataOf(h)
        /\ \A k \in DOMAIN visited[w] : k # key => visited'[w][k] = visited[w][k]
        /\ \A v \in Workers : v # w => visited'[v] = visited[v]
    BY <1>1, <1>6 DEF IInv, Inserted
  <2>2. /\ current'[w] = h /\ pc'[w] = "look"
        /\ \A v \in Workers : v # w => current'[v] = current[v] /\ pc'[v] = pc[v]
    BY <1>1, <1>6 DEF IInv
  <2>3. key[3] = h.board.selectionLimit /\ h.board.selectionLimit \in Int
    BY <1>2, HashType, ProblemType DEF IInv, WorkerInv, Hashed
  <2>4. key \notin DOMAIN visited[w]
    BY <1>6, <2>3 DEF Known, IInv, WorkerInv
  <2>5. WorkerInv(w)'
    <3>1. \A g \in queue'[w] \cup {current'[w]} : Hashed(g)'
      BY <1>4, <2>2
    <3>2. Inside(w)'
      BY <1>2, <2>1, <2>2 DEF Inside, Hash
    <3>3. \A k \in DOMAIN visited'[w] : visited'[w][k].selectionLimit = k[3]
      BY <2>1, <2>3, <2>4 DEF IInv, WorkerInv, DataOf
    <3> QED
      BY <3>1, <3>2, <3>3 DEF WorkerInv, Hashed
  <2>6. EntriesStay
    BY <2>1, <2>4 DEF EntriesStay
  <2>7. MeetingNoticed'
    <3> SUFFICES ASSUME NEW k \in DOMAIN visited'[0], Counts(k)'
                 PROVE  Noticed(k)'
      BY DEF MeetingNoticed
    <3>1. CASE k = key
      <4>1. pc'[w] = "look" /\ Hash(w, current[w])' = k
        BY <1>2, <2>2, <3>1 DEF Hash
      <4> QED
        BY <4>1 DEF Noticed
    <3>2. CASE k # key
      <4>1. k \in DOMAIN visited[0] /\ Counts(k)
        BY <1>2, <2>1, <3>2 DEF Counts, Workers
      <4>2. Noticed(k)
        BY <4>1 DEF IInv, MeetingNoticed
      <4>3. \A v \in Workers :
               pc[v] \in {"look", "met"} => pc'[v] = pc[v] /\ current'[v] = current[v]
        BY <2>2 DEF Visit
      <4> QED
        BY <1>2, <4>2, <4>3 DEF Noticed, Hash
    <3> QED
      BY <3>1, <3>2
  <2> QED
    BY <1>1, <1>2, <1>3, <1>6, <2>5, <2>6, <2>7 DEF IInv
<1> QED
  BY <1>5, <1>6

\* A worker that leaves a board without a meeting has looked it up in the map of the
\* other: it was not there, or did not count.
LEMMA LookInvariant ==
  ASSUME IInv, NEW w \in Workers, Look(w)
  PROVE  IInv'
<1> DEFINE key == Hash(w, current[w])
<1>1. UNCHANGED <<problem, visited, current, metHash>> /\ pc[w] = "look"
  BY DEF Look
<1>2. /\ DOMAIN queue' = Workers /\ DOMAIN pc' = Workers
      /\ \A v \in Workers : v # w => queue'[v] = queue[v] /\ pc'[v] = pc[v]
      /\ queue'[w] \subseteq queue[w] \cup Nexts(w)
      /\ pc'[w] = IF IsFinished(w) THEN "met" ELSE "check"
  BY DEF Look, IInv
<1>3. \A v \in Workers : v # w => WorkerInv(v)'
  BY <1>1, <1>2, WorkerStays DEF IInv
<1>4. \A h \in queue'[w] \cup {current[w]} : Hashed(h)'
  BY <1>1, <1>2, NextsHashed DEF IInv, WorkerInv, Hashed
<1>5. WorkerInv(w)'
  BY <1>1, <1>4 DEF IInv, WorkerInv, Inside, Hash
<1>6. Counts(key) => IsFinished(w)
  <2> SUFFICES ASSUME Counts(key)
               PROVE  IsFinished(w)
    OBVIOUS
  <2>1. /\ key \in DOMAIN visited[0] /\ key \in DOMAIN visited[1]
        /\ visited[0][key].selectionLimit = key[3]
        /\ visited[1][key].selectionLimit = key[3]
    BY DEF Counts, IInv, WorkerInv, Workers
  <2>2. key[3] = current[w].board.selectionLimit
    BY HashType DEF IInv, WorkerInv
  <2>3. key[3] + key[3] + 1 >= problem.selectionLimit
    BY <2>1 DEF Counts
  <2>4. Other(w) \in Workers
    BY DEF Other, Workers
  <2>5. key \in DOMAIN visited[Other(w)] /\ visited[Other(w)][key].selectionLimit = key[3]
    BY <2>1, <2>4 DEF Workers
  <2> QED
    BY <2>2, <2>3, <2>5 DEF IsFinished
<1>7. MeetingNoticed'
  <2> SUFFICES ASSUME NEW k \in DOMAIN visited[0], Counts(k)
               PROVE  Noticed(k)'
    BY <1>1 DEF MeetingNoticed, Counts
  <2>1. Noticed(k)
    BY DEF IInv, MeetingNoticed
  <2>2. k = key => pc'[w] = "met"
    BY <1>2, <1>6
  <2> QED
    BY <1>1, <1>2, <2>1, <2>2 DEF Noticed, Hash
<1> QED
  BY <1>1, <1>2, <1>3, <1>5, <1>7 DEF IInv

\* A worker that publishes a hash has found a board in both maps.
LEMMA PublishInvariant ==
  ASSUME IInv, NEW w \in Workers, Publish(w)
  PROVE  IInv'
<1>1. /\ UNCHANGED <<problem, visited, current>>
      /\ DOMAIN queue' = Workers /\ DOMAIN pc' = Workers /\ DOMAIN metHash' = Workers
      /\ \A v \in Workers : v # w => queue'[v] = queue[v] /\ pc'[v] = pc[v]
      /\ queue'[w] = {} /\ pc'[w] = "done" /\ metHash'[w] = Hash(w, current[w])
  BY DEF Publish, Return, IInv
<1>2. \A v \in Workers : v # w => WorkerInv(v)'
  BY <1>1, WorkerStays DEF IInv
<1>3. WorkerInv(w)'
  BY <1>1 DEF IInv, WorkerInv, Inside, Hashed
<1>4. metHash'[w] # NoHash
  BY <1>1, HashType DEF IInv, WorkerInv
<1> QED
  BY <1>1, <1>2, <1>3, <1>4 DEF IInv, MeetingNoticed, Noticed

\* The invariant holds always.
LEMMA Invariant ==
  ASSUME IInv, [Next]_vars
  PROVE  IInv' /\ EntriesStay
<1>1. CASE UNCHANGED vars \/ Join
  <2>1. UNCHANGED <<problem, queue, visited, current, metHash, pc>>
    BY <1>1 DEF vars, Join
  <2>2. \A w \in Workers : WorkerInv(w)'
    BY <2>1, WorkerStays DEF IInv
  <2>3. MeetingNoticed'
    BY <2>1 DEF IInv, MeetingNoticed, Noticed, Counts, Hash
  <2> QED
    BY <2>1, <2>2, <2>3 DEF IInv, EntriesStay
<1>2. ASSUME NEW w \in Workers, Worker(w)
      PROVE  IInv' /\ EntriesStay
  <2>1. CASE Check(w)
    BY <2>1, CheckInvariant DEF EntriesStay, Check
  <2>2. CASE Visit(w)
    BY <2>2, VisitInvariant
  <2>3. CASE Look(w)
    BY <2>3, LookInvariant DEF EntriesStay, Look
  <2>4. CASE Publish(w)
    BY <2>4, PublishInvariant DEF EntriesStay, Publish
  <2> QED
    BY <1>2, <2>1, <2>2, <2>3, <2>4 DEF Worker
<1> QED
  BY <1>1, <1>2 DEF Next

-----------------------------------------------------------------------------

\* The two searches do not miss each other: while neither has noticed a meeting, a
\* board in both maps that counts is still to be looked up by one of them.
THEOREM MeetingCorrect == Spec => []MeetingNoticed
<1>1. Init => IInv
  BY InitInvariant
<1>2. IInv /\ [Next]_vars => IInv'
  BY Invariant
<1>3. IInv => MeetingNoticed
  BY DEF IInv
<1> QED
  BY <1>1, <1>2, <1>3, PTL DEF Spec

\* What a worker has put into its map is never replaced or removed, so that the chain
\* of parents from a met hash stays as it was when the board was visited.
THEOREM EntriesCorrect == Spec => EntriesKept
<1>1. Init => IInv
  BY InitInvariant
<1>2. IInv /\ [Next]_vars => IInv' /\ [EntriesStay]_vars
  BY Invariant
<1> QED
  BY <1>1, <1>2, PTL DEF Spec, EntriesKept

-----------------------------------------------------------------------------
(* Turning a half round, move by move.                                     *)

\* The half of worker 1, turned round from base.
Turned(base, s) == FoldLeft(TurnedRound, base, s)

\* The function that FoldLeft(TurnedRound, base, seq) defines by recursion.
TurnedIterates(it, base, seq, n) ==
  it = [s \in SUBSET (1 .. n) |->
          IF s = {}
          THEN base
          ELSE TurnedRound(it[s \ {LargestOf(s)}], seq[LargestOf(s)])]

\* The recursion behind the fold has a solution, by induction on the length.
LEMMA TurnedIteratesExists ==
  ASSUME NEW base, NEW seq, NEW n \in Nat
  PROVE  \E it : TurnedIterates(it, base, seq, n)
<1> DEFINE S == {k \in Nat : \E it : TurnedIterates(it, base, seq, k)}
<1>1. 0 \in S
  <2>1. SUBSET (1 .. 0) = {{}}
    OBVIOUS
  <2>2. TurnedIterates([s \in SUBSET (1 .. 0) |-> base], base, seq, 0)
    BY <2>1 DEF TurnedIterates
  <2> QED
    BY <2>2
<1>2. ASSUME NEW k \in S PROVE k + 1 \in S
  <2>1. PICK it : TurnedIterates(it, base, seq, k)
    OBVIOUS
  <2> DEFINE new == [s \in SUBSET (1 .. (k + 1)) |->
                       IF k + 1 \in s THEN TurnedRound(it[s \ {k + 1}], seq[k + 1]) ELSE it[s]]
             rhs == [s \in SUBSET (1 .. (k + 1)) |->
                       IF s = {}
                       THEN base
                       ELSE TurnedRound(new[s \ {LargestOf(s)}], seq[LargestOf(s)])]
  <2>2. ASSUME NEW s \in SUBSET (1 .. (k + 1)) PROVE new[s] = rhs[s]
    <3>1. CASE k + 1 \in s
      <4>1. LargestOf(s) = k + 1
        <5>1. LargestOf(s) \in s /\ LargestOf(s) >= k + 1
          BY <3>1, GreatestIs, k + 1 \in Nat
        <5>2. LargestOf(s) \in 1 .. (k + 1)
          BY <5>1
        <5> QED
          BY <5>1, <5>2
      <4>2. s \ {k + 1} \in SUBSET (1 .. (k + 1)) /\ k + 1 \notin s \ {k + 1}
        OBVIOUS
      <4> QED
        BY <3>1, <4>1, <4>2
    <3>2. CASE k + 1 \notin s
      <4>1. s \in SUBSET (1 .. k)
        BY <3>2
      <4>2. CASE s = {}
        BY <2>1, <4>1, <4>2 DEF TurnedIterates
      <4>3. CASE s # {}
        <5>1. LargestOf(s) \in s
          BY <4>1, <4>3, GreatestIs
        <5>2. /\ s \ {LargestOf(s)} \in SUBSET (1 .. (k + 1))
              /\ k + 1 \notin s \ {LargestOf(s)}
          BY <3>2
        <5>3. it[s] = TurnedRound(it[s \ {LargestOf(s)}], seq[LargestOf(s)])
          BY <2>1, <4>1, <4>3 DEF TurnedIterates
        <5> QED
          BY <3>2, <4>3, <5>2, <5>3
      <4> QED
        BY <4>2, <4>3
    <3> QED
      BY <3>1, <3>2
  <2>3. new = rhs
    <3>1. /\ DOMAIN new = DOMAIN rhs
          /\ new = [s \in DOMAIN new |-> new[s]]
          /\ rhs = [s \in DOMAIN rhs |-> rhs[s]]
      OBVIOUS
    <3>2. \A s \in DOMAIN new : new[s] = rhs[s]
      BY <2>2
    <3> HIDE DEF new, rhs
    <3> QED
      BY <3>1, <3>2
  <2>4. TurnedIterates(new, base, seq, k + 1)
    BY <2>3 DEF TurnedIterates
  <2>5. \E i : TurnedIterates(i, base, seq, k + 1)
    BY <2>4
  <2> QED
    BY <2>5
<1>3. S \in SUBSET Nat
  OBVIOUS
<1>4. S = Nat
  <2> HIDE DEF S
  <2> QED
    BY <1>1, <1>2, <1>3, SetInduction
<1> QED
  BY <1>4

\* The steps of a fold of TurnedRound, one after the other.
TurnedSteps(h, base, seq, n) ==
  h[0] = base /\ \A i \in 1 .. n : h[i] = TurnedRound(h[i - 1], seq[i])

\* The fold is the last of its partial results.
LEMMA TurnedFold ==
  ASSUME NEW base, NEW seq, NEW n \in Nat, DOMAIN seq = 1 .. n
  PROVE  \E h : TurnedSteps(h, base, seq, n) /\ Turned(base, seq) = h[n]
<1>1. Turned(base, seq) = (CHOOSE it : TurnedIterates(it, base, seq, n))[1 .. n]
  BY DEF Turned, FoldLeft, MapThenFoldSet, Max, TurnedIterates, LargestOf
<1>2. PICK it : TurnedIterates(it, base, seq, n) /\ Turned(base, seq) = it[1 .. n]
  BY <1>1, TurnedIteratesExists
<1> DEFINE h == [i \in 0 .. n |-> it[1 .. i]]
<1>3. h[0] = base
  BY <1>2 DEF TurnedIterates
<1>4. ASSUME NEW i \in 1 .. n PROVE h[i] = TurnedRound(h[i - 1], seq[i])
  <2> DEFINE s == 1 .. i
  <2>1. s \in SUBSET (1 .. n) /\ s # {} /\ s \ {i} = 1 .. (i - 1) /\ LargestOf(s) = i
    BY GreatestOfPrefix
  <2>2. it[s] = TurnedRound(it[s \ {i}], seq[i])
    <3> HIDE DEF s
    <3> QED
      BY <1>2, <2>1 DEF TurnedIterates
  <2>3. h[i] = it[1 .. i] /\ h[i - 1] = it[1 .. (i - 1)]
    OBVIOUS
  <2> HIDE DEF h
  <2> QED
    BY <2>1, <2>2, <2>3
<1>5. h[n] = it[1 .. n]
  OBVIOUS
<1> HIDE DEF h
<1> QED
  BY <1>2, <1>3, <1>4, <1>5 DEF TurnedSteps

\* The steps determine the result.
LEMMA TurnedStepsUnique ==
  ASSUME NEW base, NEW s, NEW t, NEW n \in Nat, NEW g, NEW h,
         \A i \in 1 .. n : s[i] = t[i],
         TurnedSteps(g, base, s, n), TurnedSteps(h, base, t, n)
  PROVE  \A i \in 0 .. n : g[i] = h[i]
<1> DEFINE S == {i \in Nat : i <= n => g[i] = h[i]}
<1>1. 0 \in S
  BY DEF TurnedSteps
<1>2. ASSUME NEW i \in S PROVE i + 1 \in S
  <2>1. SUFFICES ASSUME i + 1 <= n PROVE g[i + 1] = h[i + 1]
    OBVIOUS
  <2>2. i + 1 \in 1 .. n /\ (i + 1) - 1 = i
    BY <2>1
  <2>3. g[i + 1] = TurnedRound(g[i], s[i + 1]) /\ h[i + 1] = TurnedRound(h[i], t[i + 1])
    BY <2>2 DEF TurnedSteps
  <2>4. g[i] = h[i]
    BY <2>1
  <2> QED
    BY <2>2, <2>3, <2>4
<1>3. S \in SUBSET Nat
  OBVIOUS
<1>4. S = Nat
  <2> HIDE DEF S
  <2> QED
    BY <1>1, <1>2, <1>3, SetInduction
<1> QED
  BY <1>4

\* The empty fold, and one more element.
LEMMA TurnedFoldEmpty ==
  ASSUME NEW base
  PROVE  Turned(base, <<>>) = base
<1>1. DOMAIN <<>> = 1 .. 0 /\ 0 \in Nat
  OBVIOUS
<1>2. PICK h : TurnedSteps(h, base, <<>>, 0) /\ Turned(base, <<>>) = h[0]
  BY <1>1, TurnedFold
<1> QED
  BY <1>2 DEF TurnedSteps

\* A move more is a step more.
LEMMA TurnedFoldAppend ==
  ASSUME NEW base, NEW S, NEW s \in Seq(S), NEW m \in S
  PROVE  Turned(base, Append(s, m)) = TurnedRound(Turned(base, s), m)
<1> DEFINE t == Append(s, m)
           n == Len(s)
<1>1. /\ n \in Nat /\ DOMAIN s = 1 .. n /\ DOMAIN t = 1 .. (n + 1) /\ n + 1 \in 1 .. (n + 1)
      /\ (\A i \in 1 .. n : i \in 1 .. (n + 1) /\ t[i] = s[i]) /\ t[n + 1] = m
      /\ (n + 1) - 1 = n
  BY AppendProperties, LenProperties
<1> HIDE DEF t, n
<1>2. PICK g : TurnedSteps(g, base, s, n) /\ Turned(base, s) = g[n]
  BY <1>1, TurnedFold
<1>3. PICK h : TurnedSteps(h, base, t, n + 1) /\ Turned(base, t) = h[n + 1]
  BY <1>1, TurnedFold, n + 1 \in Nat
<1>4. TurnedSteps(h, base, t, n)
  BY <1>1, <1>3 DEF TurnedSteps
<1>5. g[n] = h[n]
  <2>1. (\A i \in 1 .. n : s[i] = t[i]) /\ n \in 0 .. n /\ n \in Nat
    BY <1>1
  <2>2. \A i \in 0 .. n : g[i] = h[i]
    BY ONLY <2>1, <1>2, <1>4, TurnedStepsUnique
  <2> QED
    BY <2>1, <2>2
<1>6. h[n + 1] = TurnedRound(h[n], m)
  BY <1>1, <1>3 DEF TurnedSteps
<1> QED
  BY <1>2, <1>3, <1>5, <1>6 DEF t

-----------------------------------------------------------------------------
(* The halves.                                                             *)

\* The keys of the maps.
Keys == Cells \X (Points \cup {NoPoint}) \X Nat

\* The state of the judge that a key stands for.
StateOf(key) == [cell |-> key[1], selected |-> key[2], remain |-> key[3], valid |-> TRUE]

\* The same board with other selections left.
WithRemain(key, r) == [cell |-> key[1], selected |-> key[2], remain |-> r, valid |-> TRUE]

\* The move leads from one key to the next, as the judge plays it.
Leads(key, m, next) == m \in Moves /\ CheckStep(StateOf(key), m) = StateOf(next)

\* No move has been turned round yet.
TurnedBegin == [sel |-> NoPoint, tmp |-> <<>>]

\* A half leads from its start to the key; turned round, it leads from there back to
\* the cells of the start, with one selection fewer.
GoodHalf(start, key, seq) ==
  LET half == Turned(TurnedBegin, seq)
  IN  /\ seq \in Seq(Moves) /\ half.tmp \in Seq(Moves)
      /\ Simulated(StateOf(start), seq) = StateOf(key)
      /\ half.sel = key[2]
      /\ key[2] = NoPoint => half.tmp = <<>> /\ key = start
      /\ key[2] # NoPoint => key[3] + 1 <= start[3]
      /\ \A r \in Nat : r + key[3] + 1 >= start[3] =>
           LET back == Simulated(WithRemain(key, r), half.tmp)
           IN  back.valid /\ back.cell = start[1]

\* A key is a state.
LEMMA KeyState ==
  ASSUME NEW key \in Keys
  PROVE  /\ StateOf(key) \in PlayStates
         /\ \A r \in Nat : WithRemain(key, r) \in PlayStates
         /\ key[1] \in Cells /\ key[2] \in Points \cup {NoPoint} /\ key[3] \in Nat
         /\ key = <<key[1], key[2], key[3]>>
BY DEF Keys, StateOf, WithRemain, PlayStates

\* No move.
LEMMA GoodStart ==
  ASSUME NEW start \in Keys, start[2] = NoPoint
  PROVE  GoodHalf(start, start, <<>>)
<1> DEFINE half == Turned(TurnedBegin, <<>>)
<1>1. half = TurnedBegin
  BY TurnedFoldEmpty
<1>2. half.sel = NoPoint /\ half.tmp = <<>>
  BY <1>1 DEF TurnedBegin
<1>3. Simulated(StateOf(start), <<>>) = StateOf(start)
  BY CheckFoldEmpty
<1>4. ASSUME NEW r \in Nat
      PROVE  LET back == Simulated(WithRemain(start, r), <<>>)
             IN  back.valid /\ back.cell = start[1]
  <2>1. Simulated(WithRemain(start, r), <<>>) = WithRemain(start, r)
    BY CheckFoldEmpty
  <2> QED
    BY <2>1 DEF WithRemain
<1>5. <<>> \in Seq(Moves)
  OBVIOUS
<1> HIDE DEF half
<1> QED
  BY <1>2, <1>3, <1>4, <1>5 DEF GoodHalf, half

\* A move in front of a play.
LEMMA MoveInFront ==
  ASSUME NEW base, NEW m \in Moves, NEW seq \in Seq(Moves)
  PROVE  /\ <<m>> \o seq \in Seq(Moves)
         /\ Simulated(base, <<m>> \o seq) = Simulated(CheckStep(base, m), seq)
<1> DEFINE none == <<>>
           one  == <<m>>
<1>1. one \in Seq(Moves) /\ none \in Seq(Moves) /\ one = Append(none, m)
  OBVIOUS
<1>2. Simulated(base, none) = base
  BY CheckFoldEmpty
<1>3. one \o seq \in Seq(Moves)
  OBVIOUS
<1> HIDE DEF none, one
<1>4. Simulated(base, one) = CheckStep(base, m)
  BY <1>1, <1>2, CheckFoldAppend
<1>5. Simulated(base, one \o seq) = Simulated(Simulated(base, one), seq)
  <2>1. one \in Seq(Moves) /\ seq \in Seq(Moves)
    BY <1>1
  <2> QED
    BY ONLY <2>1, CheckFoldConcat
<1> QED
  BY <1>3, <1>4, <1>5 DEF one

\* A selection more.
LEMMA GoodSelection ==
  ASSUME NEW start \in Keys, NEW key \in Keys, NEW next \in Keys, NEW p \in Points, NEW seq,
         Leads(key, Selection(p), next), GoodHalf(start, key, seq)
  PROVE  GoodHalf(start, next, Append(seq, Selection(p)))
<1> DEFINE m    == Selection(p)
           half == Turned(TurnedBegin, seq)
           new  == Turned(TurnedBegin, Append(seq, m))
<1>1. m \in Moves /\ m.isSelection /\ m.selected = p
  BY MoveTypes DEF Selection
<1>2. seq \in Seq(Moves) /\ Append(seq, m) \in Seq(Moves) /\ half.tmp \in Seq(Moves)
  BY <1>1 DEF GoodHalf
<1>3. Simulated(StateOf(start), Append(seq, m)) = StateOf(next)
  BY <1>1, <1>2, CheckFoldAppend DEF GoodHalf, Leads
<1>4. key[3] # 0 /\ next[1] = key[1] /\ next[2] = p /\ next[3] = key[3] - 1
  <2>1. StateOf(key) \in PlayStates /\ StateOf(key).valid /\ StateOf(key).remain = key[3]
        /\ StateOf(key).cell = key[1] /\ StateOf(next).valid
    BY KeyState DEF StateOf
  <2>2. StateOf(next) =
           IF key[3] # 0
           THEN [cell |-> key[1], selected |-> p, remain |-> key[3] - 1, valid |-> TRUE]
           ELSE [cell |-> key[1], selected |-> StateOf(key).selected, remain |-> key[3],
                 valid |-> FALSE]
    BY <2>1, SelectStep DEF Leads
  <2>3. key[3] # 0
    BY <2>1, <2>2
  <2> QED
    BY <2>2, <2>3 DEF StateOf
<1>5. new = TurnedRound(half, m)
  BY <1>1, <1>2, TurnedFoldAppend
<1>6. /\ new.sel = p
      /\ new.tmp = IF half.sel = NoPoint THEN half.tmp ELSE <<Selection(half.sel)>> \o half.tmp
  BY <1>1, <1>5 DEF TurnedRound
<1> HIDE DEF new, half, m
<1>7. half.sel = key[2] /\ start[3] \in Nat /\ key[3] \in Nat /\ p # NoPoint
  BY KeyState, SizeAssumption DEF GoodHalf, half, Points, NoPoint
<1>8. CASE key[2] = NoPoint
  <2>1. new.tmp = <<>> /\ key = start
    BY <1>6, <1>7, <1>8 DEF GoodHalf, half
  <2>2. ASSUME NEW r \in Nat
        PROVE  LET back == Simulated(WithRemain(next, r), new.tmp)
               IN  back.valid /\ back.cell = start[1]
    BY <1>4, <2>1, CheckFoldEmpty DEF WithRemain
  <2>3. next[3] + 1 <= start[3]
    BY <1>4, <1>7, <2>1
  <2> QED
    BY <1>2, <1>3, <1>4, <1>6, <1>7, <2>1, <2>2, <2>3 DEF GoodHalf, new, m
<1>9. CASE key[2] # NoPoint
  <2> DEFINE s == Selection(key[2])
  <2>1. s \in Moves /\ key[2] \in Points
    BY <1>9, KeyState, MoveTypes
  <2>2. new.tmp = <<s>> \o half.tmp
    BY <1>6, <1>7, <1>9
  <2>3. key[3] + 1 <= start[3]
    BY <1>9 DEF GoodHalf
  <2>4. ASSUME NEW r \in Nat, r + next[3] + 1 >= start[3]
        PROVE  LET back == Simulated(WithRemain(next, r), new.tmp)
               IN  back.valid /\ back.cell = start[1]
    <3>1. r # 0 /\ r - 1 \in Nat /\ (r - 1) + key[3] + 1 >= start[3]
      BY <1>4, <1>7, <2>3, <2>4
    <3>2. CheckStep(WithRemain(next, r), s) = WithRemain(key, r - 1)
      <4>1. WithRemain(next, r) \in PlayStates
        BY KeyState
      <4>2. /\ WithRemain(next, r).valid /\ WithRemain(next, r).remain = r
            /\ WithRemain(next, r).cell = key[1]
        BY <1>4 DEF WithRemain
      <4> QED
        BY <2>1, <3>1, <4>1, <4>2, SelectStep DEF WithRemain
    <3>3. Simulated(WithRemain(next, r), new.tmp) = Simulated(WithRemain(key, r - 1), half.tmp)
      BY <1>2, <2>1, <2>2, <3>2, MoveInFront
    <3> QED
      BY <3>1, <3>3 DEF GoodHalf, half
  <2>5. new.tmp \in Seq(Moves)
    BY <1>2, <2>1, <2>2, MoveInFront
  <2>6. next[3] + 1 <= start[3]
    BY <1>4, <1>7, <2>3
  <2> QED
    BY <1>2, <1>3, <1>4, <1>6, <1>7, <2>4, <2>5, <2>6 DEF GoodHalf, new, m
<1> QED
  BY <1>8, <1>9

\* A swap more.
LEMMA GoodSwap ==
  ASSUME NEW start \in Keys, NEW key \in Keys, NEW next \in Keys, NEW dir \in Directions, NEW seq,
         Leads(key, Swap(dir), next), GoodHalf(start, key, seq)
  PROVE  GoodHalf(start, next, Append(seq, Swap(dir)))
<1> DEFINE m    == Swap(dir)
           half == Turned(TurnedBegin, seq)
           new  == Turned(TurnedBegin, Append(seq, m))
           n    == Neighbour(key[2], dir)
           back == Swap(Opposite(dir))
<1>1. m \in Moves /\ ~m.isSelection /\ m.direction = dir
  BY MoveTypes DEF Swap
<1>2. seq \in Seq(Moves) /\ Append(seq, m) \in Seq(Moves) /\ half.tmp \in Seq(Moves)
  BY <1>1 DEF GoodHalf
<1>3. Simulated(StateOf(start), Append(seq, m)) = StateOf(next)
  BY <1>1, <1>2, CheckFoldAppend DEF GoodHalf, Leads
<1>4. ASSUME NEW r \in Nat
      PROVE  /\ key[2] \in Points /\ n \in Points
             /\ CheckStep(WithRemain(key, r), m) = WithRemain(next, r)
             /\ CheckStep(WithRemain(key, r), m).valid
             /\ next[2] = n /\ next[3] = key[3]
  <2>1. /\ StateOf(key) \in PlayStates /\ StateOf(key).valid /\ StateOf(next).valid
        /\ WithRemain(key, r) \in PlayStates /\ WithRemain(key, r).valid
        /\ StateOf(key).cell = key[1] /\ StateOf(key).selected = key[2]
        /\ StateOf(key).remain = key[3]
        /\ WithRemain(key, r).cell = key[1] /\ WithRemain(key, r).selected = key[2]
        /\ WithRemain(key, r).remain = r
    BY KeyState DEF StateOf, WithRemain
  <2>2. key[2] \in Points /\ n \in Points /\ StateOf(next) = SimAfter(StateOf(key), n)
    BY <2>1, Swapping DEF Leads
  <2>3. CheckStep(WithRemain(key, r), m) = SimAfter(WithRemain(key, r), n)
    BY <2>1, <2>2, Swapping
  <2>4. next[1] = Swapped(key[1], key[2], n) /\ next[2] = n /\ next[3] = key[3]
    BY <2>1, <2>2 DEF SimAfter, StateOf
  <2> QED
    BY <2>1, <2>2, <2>3, <2>4 DEF SimAfter, WithRemain
<1>5. new = TurnedRound(half, m)
  BY <1>1, <1>2, TurnedFoldAppend
<1>6. new.sel = Neighbour(half.sel, dir) /\ new.tmp = <<back>> \o half.tmp
  BY <1>1, <1>5 DEF TurnedRound
<1>7. back \in Moves
  BY MoveTypes, BackAndForth, <1>4, 0 \in Nat
<1> HIDE DEF new, half, m, back
<1>8. half.sel = key[2] /\ 0 \in Nat
  BY DEF GoodHalf, half
<1>9. key[2] # NoPoint /\ next[2] # NoPoint
  BY <1>4, <1>8, SizeAssumption DEF Points, NoPoint
<1>10. ASSUME NEW r \in Nat, r + next[3] + 1 >= start[3]
       PROVE  LET end == Simulated(WithRemain(next, r), new.tmp)
              IN  end.valid /\ end.cell = start[1]
  <2>1. CheckStep(WithRemain(next, r), back) = WithRemain(key, r)
    BY <1>4, KeyState, SwapBack DEF WithRemain, back, m
  <2>2. Simulated(WithRemain(next, r), new.tmp) = Simulated(WithRemain(key, r), half.tmp)
    BY <1>2, <1>6, <1>7, <2>1, MoveInFront DEF half
  <2> QED
    BY <1>4, <1>10, <2>2 DEF GoodHalf, half
<1>11. new.tmp \in Seq(Moves) /\ new.sel = next[2]
  BY <1>2, <1>4, <1>6, <1>7, <1>8, MoveInFront
<1>12. next[3] + 1 <= start[3]
  BY <1>4, <1>8, <1>9 DEF GoodHalf
<1> QED
  BY <1>2, <1>3, <1>9, <1>10, <1>11, <1>12 DEF GoodHalf, new, m

\* A move more.
LEMMA GoodStep ==
  ASSUME NEW start \in Keys, NEW key \in Keys, NEW next \in Keys, NEW m, NEW seq,
         Leads(key, m, next), GoodHalf(start, key, seq)
  PROVE  GoodHalf(start, next, Append(seq, m))
<1>1. m \in Moves
  BY DEF Leads
<1> QED
  BY <1>1, MoveTypes, GoodSelection, GoodSwap

\* Where the halves meet, the first and the second turned round lead to the end, if
\* they need no more selections than there are: the judge accepts them.
LEMMA HalvesFit ==
  ASSUME NEW cell \in Cells, NEW limit \in Nat, NEW key \in Keys, NEW first, NEW second,
         GoodHalf(<<cell, NoPoint, limit>>, key, first),
         GoodHalf(<<FinishedState, NoPoint, limit>>, key, second),
         key[3] + key[3] + 1 >= limit
  PROVE  Combined(first, second) \in Seq(Moves) /\ Correct(cell, limit, Combined(first, second))
<1> DEFINE tmp == Turned(TurnedBegin, second).tmp
           end == Simulated(StateOf(key), tmp)
<1>1. first \in Seq(Moves) /\ tmp \in Seq(Moves)
  BY DEF GoodHalf
<1>2. Combined(first, second) = first \o tmp
  BY DEF Combined, Turned, TurnedBegin
<1>3. Simulated(CheckBegin(cell, limit), first) = StateOf(key)
  BY DEF GoodHalf, CheckBegin, StateOf
<1>4. StateOf(key) = WithRemain(key, key[3]) /\ key[3] \in Nat
  BY KeyState DEF StateOf, WithRemain
<1>5. end.valid /\ end.cell = FinishedState
  BY <1>4 DEF GoodHalf
<1>6. Simulated(CheckBegin(cell, limit), first \o tmp) = end
  BY <1>1, <1>3, CheckFoldConcat
<1>7. first \o tmp \in Seq(Moves)
  BY <1>1, ConcatProperties
<1> QED
  BY <1>2, <1>5, <1>6, <1>7 DEF Correct, Simulate, Simulated, Aligned, FinishedState

-----------------------------------------------------------------------------
(* The maps.                                                               *)

\* What a worker starts from: its board, or, with the pieces renamed, the finished one.
StartKey(w) ==
  <<IF w = 0 THEN problem.board ELSE FinishedState, NoPoint, problem.selectionLimit>>

\* A key is where the search starts, or a move leads to it from one in the map.
Linked(start, map, key, parent, m) ==
  \/ parent = NoHash /\ key = start
  \/ parent \in DOMAIN map /\ Leads(parent, m, key)

\* The function that buildAnswer() computes.
IsWalk(map, f) ==
  f = [k \in DOMAIN map |-> IF map[k].parent = NoHash
                            THEN <<>>
                            ELSE Append(f[map[k].parent], map[k].preMove)]

\* The parents lead back to the start: buildAnswer() is defined, and finds a half.
Chained(start, map) ==
  /\ DOMAIN map \subseteq Hashes
  /\ \A k \in DOMAIN map : Linked(start, map, k, map[k].parent, map[k].preMove)
  /\ \E f : IsWalk(map, f)
  /\ \A f : IsWalk(map, f) => \A k \in DOMAIN map : GoodHalf(start, k, f[k])

\* A hash is a key.
LEMMA HashIsKey == Hashes \subseteq Keys
BY DEF Hashes, Keys, Cells

\* An empty map.
LEMMA ChainedEmpty ==
  ASSUME NEW start, NEW map, DOMAIN map = {}
  PROVE  Chained(start, map)
<1>1. IsWalk(map, [k \in {} |-> <<>>])
  BY DEF IsWalk
<1> QED
  BY <1>1 DEF Chained

\* An entry more, for a key that is not in the map.
LEMMA ChainedInsert ==
  ASSUME NEW start \in Keys, start[2] = NoPoint, NEW map, NEW larger, NEW key \in Hashes,
         Chained(start, map), key \notin DOMAIN map,
         DOMAIN larger = DOMAIN map \cup {key},
         \A k \in DOMAIN map : larger[k] = map[k],
         Linked(start, map, key, larger[key].parent, larger[key].preMove)
  PROVE  Chained(start, larger)
<1> DEFINE parent == larger[key].parent
           m == larger[key].preMove
<1>1. NoHash \notin DOMAIN map /\ NoHash # key
  BY NoHashAssumption DEF Chained
<1>2. \A k \in DOMAIN map : map[k].parent = NoHash \/ map[k].parent \in DOMAIN map
  BY DEF Chained, Linked
<1>3. parent = NoHash \/ parent \in DOMAIN map
  BY DEF Linked
<1>4. DOMAIN larger \subseteq Hashes
  BY DEF Chained
<1>5. \A k \in DOMAIN larger : Linked(start, larger, k, larger[k].parent, larger[k].preMove)
  BY DEF Chained, Linked
<1>6. \E f : IsWalk(larger, f)
  <2>1. PICK f : IsWalk(map, f)
    BY DEF Chained
  <2> DEFINE g == [k \in DOMAIN larger |->
                     IF k = key
                     THEN IF parent = NoHash THEN <<>> ELSE Append(f[parent], m)
                     ELSE f[k]]
             rhs == [k \in DOMAIN larger |->
                       IF larger[k].parent = NoHash
                       THEN <<>>
                       ELSE Append(g[larger[k].parent], larger[k].preMove)]
  <2>2. \A k \in DOMAIN map : g[k] = f[k]
    OBVIOUS
  <2>3. g[key] = IF parent = NoHash THEN <<>> ELSE Append(f[parent], m)
    OBVIOUS
  <2>4. \A k \in DOMAIN larger :
          rhs[k] = IF larger[k].parent = NoHash
                   THEN <<>>
                   ELSE Append(g[larger[k].parent], larger[k].preMove)
    OBVIOUS
  <2>5. \A k \in DOMAIN map :
          f[k] = IF map[k].parent = NoHash THEN <<>> ELSE Append(f[map[k].parent], map[k].preMove)
    BY <2>1 DEF IsWalk
  <2>6. /\ DOMAIN g = DOMAIN larger /\ DOMAIN rhs = DOMAIN larger
        /\ g = [k \in DOMAIN g |-> g[k]]
        /\ rhs = [k \in DOMAIN rhs |-> rhs[k]]
    OBVIOUS
  <2> HIDE DEF g, rhs
  <2>7. ASSUME NEW k \in DOMAIN larger PROVE g[k] = rhs[k]
    <3>1. CASE k = key
      BY <1>3, <2>2, <2>3, <2>4, <3>1
    <3>2. CASE k # key
      <4>1. k \in DOMAIN map /\ larger[k] = map[k]
        BY <3>2
      <4>2. CASE map[k].parent = NoHash
        BY <2>2, <2>4, <2>5, <4>1, <4>2
      <4>3. CASE map[k].parent # NoHash
        <5>1. map[k].parent \in DOMAIN map
          BY <1>2, <4>1, <4>3
        <5> QED
          BY <2>2, <2>4, <2>5, <4>1, <4>3, <5>1
      <4> QED
        BY <4>2, <4>3
    <3> QED
      BY <3>1, <3>2
  <2>8. g = rhs
    BY ONLY <2>6, <2>7
  <2> QED
    BY <2>8 DEF IsWalk, rhs
<1>7. ASSUME NEW g, IsWalk(larger, g), NEW k \in DOMAIN larger
      PROVE  GoodHalf(start, k, g[k])
  <2> DEFINE f == [l \in DOMAIN map |-> g[l]]
             rhs == [l \in DOMAIN map |->
                       IF map[l].parent = NoHash
                       THEN <<>>
                       ELSE Append(f[map[l].parent], map[l].preMove)]
  <2>1. \A l \in DOMAIN larger :
          g[l] = IF larger[l].parent = NoHash
                 THEN <<>>
                 ELSE Append(g[larger[l].parent], larger[l].preMove)
    BY <1>7 DEF IsWalk
  <2>2. \A l \in DOMAIN map : f[l] = g[l]
    OBVIOUS
  <2>3. \A l \in DOMAIN map :
          rhs[l] = IF map[l].parent = NoHash
                   THEN <<>>
                   ELSE Append(f[map[l].parent], map[l].preMove)
    OBVIOUS
  <2>4. /\ DOMAIN f = DOMAIN map /\ DOMAIN rhs = DOMAIN map
        /\ f = [l \in DOMAIN f |-> f[l]]
        /\ rhs = [l \in DOMAIN rhs |-> rhs[l]]
    OBVIOUS
  <2> HIDE DEF f, rhs
  <2>5. ASSUME NEW l \in DOMAIN map PROVE f[l] = rhs[l]
    <3>1. l \in DOMAIN larger /\ larger[l] = map[l]
      OBVIOUS
    <3>2. CASE map[l].parent = NoHash
      BY <2>1, <2>2, <2>3, <3>1, <3>2
    <3>3. CASE map[l].parent # NoHash
      <4>1. map[l].parent \in DOMAIN map
        BY <1>2, <3>3
      <4> QED
        BY <2>1, <2>2, <2>3, <3>1, <3>3, <4>1
    <3> QED
      BY <3>2, <3>3
  <2>6. f = rhs
    BY ONLY <2>4, <2>5
  <2>7. IsWalk(map, f)
    BY <2>6 DEF IsWalk, rhs
  <2>8. \A l \in DOMAIN map : GoodHalf(start, l, g[l])
    BY <2>2, <2>7 DEF Chained
  <2>9. CASE k # key
    BY <2>8, <2>9
  <2>10. CASE k = key /\ parent = NoHash
    <3>1. key = start
      BY <1>1, <2>10 DEF Linked
    <3>2. g[k] = <<>>
      BY <2>1, <2>10
    <3> QED
      BY <2>10, <3>1, <3>2, GoodStart
  <2>11. CASE k = key /\ parent # NoHash
    <3>1. parent \in DOMAIN map /\ Leads(parent, m, key)
      BY <2>11 DEF Linked
    <3>2. g[k] = Append(g[parent], m)
      BY <2>1, <2>11
    <3>3. parent \in Keys /\ key \in Keys
      BY <3>1, HashIsKey DEF Chained
    <3>4. GoodHalf(start, parent, g[parent])
      BY <2>8, <3>1
    <3> HIDE DEF parent, m
    <3> QED
      BY <2>11, <3>1, <3>2, <3>3, <3>4, GoodStep
  <2> QED
    BY <2>9, <2>10, <2>11
<1> QED
  BY <1>4, <1>5, <1>6, <1>7 DEF Chained

\* What buildAnswer() returns.
LEMMA BuildAnswerIs ==
  ASSUME NEW w, NEW start, Chained(start, visited[w]), NEW key \in DOMAIN visited[w]
  PROVE  GoodHalf(start, key, BuildAnswer(w, key))
<1>1. BuildAnswer(w, key) = (CHOOSE f : IsWalk(visited[w], f))[key]
  BY DEF BuildAnswer, IsWalk
<1>2. IsWalk(visited[w], CHOOSE f : IsWalk(visited[w], f))
  BY DEF Chained
<1> QED
  BY <1>1, <1>2 DEF Chained

-----------------------------------------------------------------------------
(* The invariant of the answer.                                            *)

\* What holds of one worker: its boards are linked to its map, the map is chained, and
\* it has met the other one only where the halves need no more selections than there are.
Halfway(w) ==
  /\ pc[w] \in {"check", "visit", "look", "met", "done"}
  /\ \A h \in queue[w] \cup {current[w]} :
       Linked(StartKey(w), visited[w], Hash(w, h), h.parentHash, h.preMove)
  /\ Chained(StartKey(w), visited[w])
  /\ pc[w] = "met" => Counts(Hash(w, current[w]))
  /\ metHash[w] = NoHash \/ Counts(metHash[w])

\* The answer is one that the judge accepts.
Accepted ==
  \/ answer \in {NoAnswer, Undefined}
  \/ answer \in Seq(Moves) /\ Correct(problem.board, problem.selectionLimit, answer)

\* What is added to IInv for the answer.
AnswerInv == (\A w \in Workers : Halfway(w)) /\ Accepted

\* A start is a key without a selected piece.
LEMMA StartKeyType ==
  ASSUME problem \in Problems, NEW w \in Workers
  PROVE  StartKey(w) \in Keys /\ StartKey(w)[2] = NoPoint
<1>1. problem.board \in Cells /\ FinishedState \in Cells /\ problem.selectionLimit \in Nat
  BY ProblemType DEF FinishedState, Cells
<1> QED
  BY <1>1 DEF StartKey, Keys

\* The board of each worker has the start for its hash.
LEMMA StartLinked ==
  ASSUME problem \in Problems, NEW w \in Workers, NEW map
  PROVE  Linked(StartKey(w), map, Hash(w, Start(w)), Start(w).parentHash, Start(w).preMove)
<1> DEFINE inverse == InverseBoard(problem.board)
<1>1. inverse \in [Points -> Points] /\ \A p \in Points : problem.board[inverse[p]] = p
  BY ProblemType, InverseType DEF Boards
<1> HIDE DEF inverse
<1>2. [p \in Points |-> problem.board[inverse[p]]] = FinishedState
  BY <1>1 DEF FinishedState
<1>3. /\ Start(w).parentHash = NoHash
      /\ Start(w).board.cell = IF w = 0 THEN problem.board ELSE inverse
      /\ Start(w).board.selected = NoPoint
      /\ Start(w).board.selectionLimit = problem.selectionLimit
  BY DEF Start, Hitode, AB!InitBoard, inverse
<1> QED
  BY <1>2, <1>3 DEF Linked, StartKey, Hash

\* Renaming the pieces and exchanging two of them can be done in either order.
LEMMA RenamedSwapped ==
  ASSUME NEW names \in Cells, NEW cell \in Cells, NEW p \in Points, NEW q \in Points
  PROVE  [x \in Points |-> names[Swapped(cell, p, q)[x]]]
           = Swapped([x \in Points |-> names[cell[x]]], p, q)
<1> DEFINE renamed == [x \in Points |-> names[cell[x]]]
           lhs == [x \in Points |-> names[Swapped(cell, p, q)[x]]]
           rhs == Swapped(renamed, p, q)
<1>1. renamed \in Cells /\ \A x \in Points : renamed[x] = names[cell[x]]
  BY DEF Cells
<1>2. \A x \in Points : lhs[x] = names[Swapped(cell, p, q)[x]]
  OBVIOUS
<1>3. \A x \in Points : Swapped(cell, p, q)[x] =
        IF x = q THEN cell[p] ELSE IF x = p THEN cell[q] ELSE cell[x]
  BY SwappedCells
<1>4. lhs \in Cells
  BY SwappedCells DEF Cells
<1> HIDE DEF renamed, lhs
<1>5. rhs \in Cells /\ \A x \in Points : rhs[x] =
        IF x = q THEN renamed[p] ELSE IF x = p THEN renamed[q] ELSE renamed[x]
  BY <1>1, SwappedCells
<1> HIDE DEF rhs
<1>6. \A x \in Points : lhs[x] = rhs[x]
  BY <1>1, <1>2, <1>3, <1>5
<1>7. lhs = rhs
  BY <1>4, <1>5, <1>6 DEF Cells
<1> QED
  BY <1>7 DEF lhs, rhs, renamed

\* The hash of a board after a move, and after a selection.
LEMMA HashMoved ==
  ASSUME problem \in Problems, NEW w \in Workers, NEW h, Hashed(h), NEW dir \in Movable(h),
         NEW parent
  PROVE  Leads(Hash(w, h), Swap(dir), Hash(w, Hitode(AB!Moved(h.board, dir), Swap(dir), parent)))
<1> DEFINE b    == h.board
           key  == Hash(w, h)
           q    == Neighbour(b.selected, dir)
           next == Hash(w, Hitode(AB!Moved(b, dir), Swap(dir), parent))
<1>1. b.selected \in Points /\ q \in Points /\ dir \in Directions
  BY MovedBoard DEF Movable
<1>2. b.cell \in Cells /\ problem.board \in Cells
  BY ProblemType DEF Hashed, Boards, Cells
<1>3. key \in Keys
  BY HashType, HashIsKey
<1>4. next = <<IF w = 0 THEN Swapped(b.cell, b.selected, q)
               ELSE [p \in Points |-> problem.board[Swapped(b.cell, b.selected, q)[p]]],
               q, b.selectionLimit>>
  BY MovedBoard DEF Hash, Hitode
<1>5. next = <<Swapped(key[1], b.selected, q), q, b.selectionLimit>>
  <2>1. [p \in Points |-> problem.board[Swapped(b.cell, b.selected, q)[p]]]
          = Swapped([p \in Points |-> problem.board[b.cell[p]]], b.selected, q)
    BY ONLY <1>1, <1>2, RenamedSwapped
  <2>2. key[1] = IF w = 0 THEN b.cell ELSE [p \in Points |-> problem.board[b.cell[p]]]
    BY DEF Hash
  <2> HIDE DEF key, next
  <2> QED
    BY ONLY <1>4, <2>1, <2>2
<1>6. key[2] = b.selected /\ key[3] = b.selectionLimit
  BY DEF Hash
<1> HIDE DEF key, next, b
<1>7. /\ StateOf(key) \in PlayStates /\ StateOf(key).valid
      /\ StateOf(key).selected = b.selected /\ StateOf(key).remain = b.selectionLimit
      /\ StateOf(key).cell = key[1]
  BY <1>3, <1>6, KeyState DEF StateOf
<1>8. CheckStep(StateOf(key), Swap(dir)) = SimAfter(StateOf(key), q)
  BY <1>1, <1>7, Swapping
<1>9. CheckStep(StateOf(key), Swap(dir)) = StateOf(next)
  BY <1>5, <1>7, <1>8 DEF SimAfter, StateOf
<1> QED
  BY <1>1, <1>9, MoveTypes DEF Leads, key, next, b

\* A selection leads from hash to hash as well.
LEMMA HashSelected ==
  ASSUME problem \in Problems, NEW w \in Workers, NEW h, Hashed(h), NEW p \in Selectable(h),
         NEW parent
  PROVE  Leads(Hash(w, h), Selection(p),
               Hash(w, Hitode(AB!Selected(h.board, p), Selection(p), parent)))
<1> DEFINE b    == h.board
           key  == Hash(w, h)
           next == Hash(w, Hitode(AB!Selected(b, p), Selection(p), parent))
<1>1. p \in Points /\ b.selectionLimit >= 1
  BY SelectedBoard
<1>2. key \in Keys
  BY HashType, HashIsKey
<1>3. next = <<key[1], p, b.selectionLimit - 1>>
  BY SelectedBoard DEF Hash, Hitode
<1>4. key[3] = b.selectionLimit
  BY DEF Hash
<1> HIDE DEF key, next, b
<1>5. /\ StateOf(key) \in PlayStates /\ StateOf(key).valid
      /\ StateOf(key).remain = b.selectionLimit /\ StateOf(key).cell = key[1]
      /\ b.selectionLimit # 0
  BY <1>1, <1>2, <1>4, KeyState DEF StateOf
<1>6. CheckStep(StateOf(key), Selection(p)) = StateOf(next)
  BY <1>1, <1>3, <1>5, SelectStep DEF StateOf
<1> QED
  BY <1>1, <1>6, MoveTypes DEF Leads, key, next, b

\* Whatever is pushed is linked to the board that is looked up.
LEMMA NextsLinked ==
  ASSUME problem \in Problems, NEW w \in Workers, Hashed(current[w]),
         Hash(w, current[w]) \in DOMAIN visited[w], NEW h \in Nexts(w)
  PROVE  Linked(StartKey(w), visited[w], Hash(w, h), h.parentHash, h.preMove)
<1> DEFINE c == current[w]
<1>1. CASE \E dir \in Movable(c) : h = Hitode(AB!Moved(c.board, dir), Swap(dir), Hash(w, c))
  <2>1. PICK dir \in Movable(c) : h = Hitode(AB!Moved(c.board, dir), Swap(dir), Hash(w, c))
    BY <1>1
  <2>2. Leads(Hash(w, c), Swap(dir), Hash(w, h))
    BY <2>1, HashMoved
  <2>3. h.parentHash = Hash(w, c) /\ h.preMove = Swap(dir)
    BY <2>1 DEF Hitode
  <2> QED
    BY <2>2, <2>3 DEF Linked
<1>2. CASE \E p \in Selectable(c) : h = Hitode(AB!Selected(c.board, p), Selection(p), Hash(w, c))
  <2>1. PICK p \in Selectable(c) : h = Hitode(AB!Selected(c.board, p), Selection(p), Hash(w, c))
    BY <1>2
  <2>2. Leads(Hash(w, c), Selection(p), Hash(w, h))
    BY <2>1, HashSelected
  <2>3. h.parentHash = Hash(w, c) /\ h.preMove = Selection(p)
    BY <2>1 DEF Hitode
  <2> QED
    BY <2>2, <2>3 DEF Linked
<1> QED
  BY <1>1, <1>2 DEF Nexts

-----------------------------------------------------------------------------

\* What counts still counts when no entry is replaced.
LEMMA CountsStays ==
  ASSUME EntriesStay, problem' = problem, NEW key, Counts(key)
  PROVE  Counts(key)'
BY DEF EntriesStay, Counts, Workers

\* What is linked to a map is linked to a larger one.
LEMMA LinkedStays ==
  ASSUME NEW start, NEW map, NEW larger, DOMAIN map \subseteq DOMAIN larger,
         NEW key, NEW parent, NEW m, Linked(start, map, key, parent, m)
  PROVE  Linked(start, larger, key, parent, m)
BY DEF Linked

\* What does not change for a worker while the other one takes a step.
LEMMA HalfwayStays ==
  ASSUME NEW w \in Workers, Halfway(w), EntriesStay, problem' = problem,
         queue'[w] \subseteq queue[w], current'[w] = current[w], visited'[w] = visited[w],
         pc'[w] \in {"check", "visit", "look", "met", "done"},
         pc'[w] = "met" => pc[w] = "met",
         metHash'[w] = metHash[w]
  PROVE  Halfway(w)'
<1>1. StartKey(w)' = StartKey(w) /\ \A h : Hash(w, h)' = Hash(w, h)
  BY DEF StartKey, Hash
<1>2. \A h \in queue'[w] \cup {current'[w]} :
        Linked(StartKey(w), visited[w], Hash(w, h), h.parentHash, h.preMove)
  BY DEF Halfway
<1>3. pc'[w] = "met" => Counts(Hash(w, current[w]))'
  BY <1>1, CountsStays DEF Halfway
<1>4. metHash'[w] = NoHash \/ Counts(metHash[w])'
  BY CountsStays DEF Halfway
<1> QED
  BY <1>1, <1>2, <1>3, <1>4 DEF Halfway

\* Before the workers start.
LEMMA AnswerInit == Init => AnswerInv
<1> SUFFICES ASSUME Init PROVE AnswerInv
  OBVIOUS
<1>1. ASSUME NEW w \in Workers PROVE Halfway(w)
  <2>1. /\ queue[w] = {Start(w)} /\ current[w] = Start(w) /\ DOMAIN visited[w] = {}
        /\ metHash[w] = NoHash /\ pc[w] = "check" /\ problem \in Problems
    BY DEF Init
  <2>2. Linked(StartKey(w), visited[w], Hash(w, Start(w)), Start(w).parentHash, Start(w).preMove)
    BY <2>1, StartLinked
  <2>3. Chained(StartKey(w), visited[w])
    BY <2>1, ChainedEmpty
  <2> QED
    BY <2>1, <2>2, <2>3 DEF Halfway
<1> QED
  BY <1>1 DEF Init, AnswerInv, Accepted

\* A worker that returns, or goes on.
LEMMA CheckAnswer ==
  ASSUME IInv, AnswerInv, NEW w \in Workers, Check(w)
  PROVE  \A v \in Workers : Halfway(v)'
<1> TAKE v \in Workers
<1>1. /\ UNCHANGED <<problem, visited, current, metHash>>
      /\ queue'[v] \subseteq queue[v]
      /\ pc'[v] = pc[v] \/ pc'[v] \in {"done", "visit"}
  BY DEF Check, Return, IInv
<1>2. EntriesStay /\ Halfway(v)
  BY <1>1 DEF EntriesStay, AnswerInv
<1> QED
  BY <1>1, <1>2, HalfwayStays DEF Halfway

\* The chain grows at its end.
LEMMA VisitAnswer ==
  ASSUME IInv, AnswerInv, NEW w \in Workers, Visit(w), EntriesStay
  PROVE  \A v \in Workers : Halfway(v)'
<1>1. PICK h \in queue[w] :
        /\ queue' = [queue EXCEPT ![w] = @ \ {h}]
        /\ IF Known(w, h)
           THEN /\ pc' = [pc EXCEPT ![w] = "check"]
                /\ UNCHANGED <<visited, current>>
           ELSE /\ visited' = [visited EXCEPT ![w] = Inserted(@, Hash(w, h), DataOf(h))]
                /\ current' = [current EXCEPT ![w] = h]
                /\ pc' = [pc EXCEPT ![w] = "look"]
  BY DEF Visit
<1>2. UNCHANGED <<problem, metHash, answer>> /\ problem \in Problems
  BY DEF Visit, IInv
<1>3. ASSUME NEW v \in Workers, v # w PROVE Halfway(v)'
  <2>1. /\ queue'[v] = queue[v] /\ pc'[v] = pc[v] /\ visited'[v] = visited[v]
        /\ current'[v] = current[v]
    BY <1>1, <1>3 DEF IInv
  <2> QED
    BY <1>2, <2>1, HalfwayStays DEF AnswerInv, Halfway
<1>4. CASE Known(w, h)
  <2>1. /\ queue'[w] \subseteq queue[w] /\ pc'[w] = "check" /\ visited'[w] = visited[w]
        /\ current'[w] = current[w]
    BY <1>1, <1>4 DEF IInv
  <2>2. Halfway(w)'
    BY <1>2, <2>1, HalfwayStays DEF AnswerInv, Halfway
  <2> QED
    BY <1>3, <2>2
<1>5. CASE ~Known(w, h)
  <2> DEFINE key == Hash(w, h)
             map == visited[w]
             larger == visited'[w]
             start == StartKey(w)
  <2>1. /\ larger = Inserted(map, key, DataOf(h)) /\ current'[w] = h /\ pc'[w] = "look"
        /\ queue'[w] = queue[w] \ {h}
    BY <1>1, <1>5 DEF IInv
  <2>2. /\ DOMAIN larger = DOMAIN map \cup {key} /\ larger[key] = DataOf(h)
        /\ \A k \in DOMAIN map : k # key => larger[k] = map[k]
    BY <2>1 DEF Inserted
  <2>3. Hashed(h) /\ key \in Hashes /\ key[3] = h.board.selectionLimit
        /\ h.board.selectionLimit \in Int
    BY <1>2, HashType, ProblemType DEF IInv, WorkerInv, Hashed
  <2>4. key \notin DOMAIN map
    BY <1>5, <2>3 DEF Known, IInv, WorkerInv
  <2>5. \A g \in queue[w] : Linked(start, map, Hash(w, g), g.parentHash, g.preMove)
    BY DEF AnswerInv, Halfway
  <2>6. Chained(start, larger)
    <3>1. Chained(start, map) /\ start \in Keys /\ start[2] = NoPoint
      BY <1>2, StartKeyType DEF AnswerInv, Halfway
    <3>2. Linked(start, map, key, larger[key].parent, larger[key].preMove)
      BY <2>2, <2>5 DEF DataOf
    <3>3. \A k \in DOMAIN map : larger[k] = map[k]
      BY <2>2, <2>4
    <3> HIDE DEF key, map, larger, start
    <3> QED
      BY <2>2, <2>3, <2>4, <3>1, <3>2, <3>3, ChainedInsert
  <2>7. StartKey(w)' = StartKey(w) /\ \A g : Hash(w, g)' = Hash(w, g)
    BY <1>2 DEF StartKey, Hash
  <2>8. \A g \in queue'[w] \cup {current'[w]} :
          Linked(start, larger, Hash(w, g), g.parentHash, g.preMove)
    BY <2>1, <2>2, <2>5, LinkedStays
  <2>9. metHash'[w] = NoHash \/ Counts(metHash[w])'
    BY <1>2, CountsStays DEF AnswerInv, Halfway
  <2>10. Halfway(w)'
    BY <1>2, <2>1, <2>6, <2>7, <2>8, <2>9 DEF Halfway
  <2> QED
    BY <1>3, <2>10
<1> QED
  BY <1>4, <1>5

\* What is pushed is linked to the board; a meeting is one that counts.
LEMMA LookAnswer ==
  ASSUME IInv, AnswerInv, NEW w \in Workers, Look(w)
  PROVE  \A v \in Workers : Halfway(v)'
<1> DEFINE key == Hash(w, current[w])
<1>1. /\ UNCHANGED <<problem, visited, current, metHash>> /\ pc[w] = "look"
      /\ problem \in Problems
  BY DEF Look, IInv
<1>2. /\ \A v \in Workers : v # w => queue'[v] = queue[v] /\ pc'[v] = pc[v]
      /\ queue'[w] \subseteq queue[w] \cup Nexts(w)
      /\ pc'[w] = IF IsFinished(w) THEN "met" ELSE "check"
  BY DEF Look, IInv
<1>3. EntriesStay
  BY <1>1 DEF EntriesStay
<1>4. ASSUME NEW v \in Workers, v # w PROVE Halfway(v)'
  BY <1>1, <1>2, <1>3, <1>4, HalfwayStays DEF AnswerInv, Halfway
<1>5. StartKey(w)' = StartKey(w) /\ \A g : Hash(w, g)' = Hash(w, g)
  BY <1>1 DEF StartKey, Hash
<1>6. key \in DOMAIN visited[w] /\ Hashed(current[w])
  BY <1>1 DEF IInv, WorkerInv, Inside
<1>7. \A g \in queue'[w] \cup {current[w]} :
        Linked(StartKey(w), visited[w], Hash(w, g), g.parentHash, g.preMove)
  BY <1>1, <1>2, <1>6, NextsLinked DEF AnswerInv, Halfway
<1>8. IsFinished(w) => Counts(key)
  <2> SUFFICES ASSUME IsFinished(w) PROVE Counts(key)
    OBVIOUS
  <2>1. Other(w) \in Workers /\ {w, Other(w)} = {0, 1}
    BY DEF Other, Workers
  <2>2. /\ key \in DOMAIN visited[Other(w)]
        /\ current[w].board.selectionLimit + visited[Other(w)][key].selectionLimit + 1
             >= problem.selectionLimit
    BY DEF IsFinished
  <2>3. visited[w][key].selectionLimit = key[3] /\ visited[Other(w)][key].selectionLimit = key[3]
    BY <1>6, <2>1, <2>2 DEF IInv, WorkerInv
  <2>4. key[3] = current[w].board.selectionLimit
    BY DEF Hash
  <2>5. key[3] + key[3] + 1 >= problem.selectionLimit
    BY <2>2, <2>3, <2>4
  <2> HIDE DEF key
  <2>6. (w = 0 /\ Other(w) = 1) \/ (w = 1 /\ Other(w) = 0)
    BY DEF Other, Workers
  <2> QED
    BY <1>6, <2>2, <2>3, <2>5, <2>6 DEF Counts
<1>9. pc'[w] = "met" => Counts(Hash(w, current[w]))'
  BY <1>1, <1>2, <1>3, <1>5, <1>8, CountsStays
<1>10. metHash'[w] = NoHash \/ Counts(metHash[w])'
  BY <1>1, <1>3, CountsStays DEF AnswerInv, Halfway
<1>11. Halfway(w)'
  BY <1>1, <1>2, <1>5, <1>7, <1>9, <1>10 DEF AnswerInv, Halfway
<1> QED
  BY <1>4, <1>11

\* What is published is a meeting that counts.
LEMMA PublishAnswer ==
  ASSUME IInv, AnswerInv, NEW w \in Workers, Publish(w)
  PROVE  \A v \in Workers : Halfway(v)'
<1>1. /\ UNCHANGED <<problem, visited, current>> /\ pc[w] = "met"
      /\ \A v \in Workers : v # w =>
            queue'[v] = queue[v] /\ pc'[v] = pc[v] /\ metHash'[v] = metHash[v]
      /\ queue'[w] = {} /\ pc'[w] = "done" /\ metHash'[w] = Hash(w, current[w])
  BY DEF Publish, Return, IInv
<1>2. EntriesStay
  BY <1>1 DEF EntriesStay
<1>3. ASSUME NEW v \in Workers, v # w PROVE Halfway(v)'
  BY <1>1, <1>2, <1>3, HalfwayStays DEF AnswerInv, Halfway
<1>4. StartKey(w)' = StartKey(w) /\ \A g : Hash(w, g)' = Hash(w, g)
  BY <1>1 DEF StartKey, Hash
<1>5. Counts(Hash(w, current[w]))
  BY <1>1 DEF AnswerInv, Halfway
<1>6. Counts(metHash[w])'
  <2> DEFINE key == Hash(w, current[w])
  <2>1. metHash'[w] = key /\ Counts(key)
    BY <1>1, <1>5
  <2> HIDE DEF key
  <2> QED
    BY <1>1, <2>1 DEF EntriesStay, Counts
<1>7. Halfway(w)'
  BY <1>1, <1>4, <1>6 DEF AnswerInv, Halfway
<1> QED
  BY <1>3, <1>7

\* Whichever of the met hashes is taken, the halves fit, and optimize() keeps that.
LEMMA JoinAnswer ==
  ASSUME IInv, AnswerInv, Join
  PROVE  Accepted'
<1>1. UNCHANGED <<problem, queue, visited, current, metHash, pc>> /\ problem \in Problems
  BY DEF Join, IInv
<1>2. CASE \A w \in Workers : metHash[w] = NoHash
  BY <1>2 DEF Join, Accepted
<1>3. CASE ~\A w \in Workers : metHash[w] = NoHash
  <2>1. PICK v \in Workers :
          /\ metHash[v] # NoHash
          /\ answer' = Optimize(Combined(BuildAnswer(0, metHash[v]), BuildAnswer(1, metHash[v])))
    BY <1>3 DEF Join
  <2> DEFINE hash   == metHash[v]
             limit  == problem.selectionLimit
             first  == BuildAnswer(0, hash)
             second == BuildAnswer(1, hash)
             whole  == Combined(first, second)
  <2>2. Counts(hash)
    BY <2>1 DEF AnswerInv, Halfway
  <2>3. hash \in DOMAIN visited[0] /\ hash \in DOMAIN visited[1] /\ 0 \in Workers /\ 1 \in Workers
    BY <2>2 DEF Counts, Workers
  <2>4. hash[3] + hash[3] + 1 >= limit
    BY <2>2, <2>3 DEF Counts, IInv, WorkerInv
  <2>5. Chained(StartKey(0), visited[0]) /\ Chained(StartKey(1), visited[1])
    BY <2>3 DEF AnswerInv, Halfway
  <2>6. hash \in Keys
    BY <2>3, <2>5, HashIsKey DEF Chained
  <2>7. /\ GoodHalf(<<problem.board, NoPoint, limit>>, hash, first)
        /\ GoodHalf(<<FinishedState, NoPoint, limit>>, hash, second)
    <3>1. GoodHalf(StartKey(0), hash, first) /\ GoodHalf(StartKey(1), hash, second)
      BY <2>3, <2>5, BuildAnswerIs
    <3> QED
      BY <3>1 DEF StartKey
  <2>8. problem.board \in Cells /\ limit \in Nat
    BY <1>1, ProblemType
  <2> HIDE DEF hash, limit, first, second
  <2>9. whole \in Seq(Moves) /\ Correct(problem.board, limit, whole)
    BY <2>4, <2>6, <2>7, <2>8, HalvesFit
  <2> HIDE DEF whole
  <2>10. Correct(problem.board, limit, Optimize(whole)) /\ Optimize(whole) \in Seq(Moves)
    <3>1. Correct(problem.board, limit, Optimize(whole))
      BY <2>8, <2>9, OptimizeCorrect
    <3>2. Optimize(whole) \in Seq(Moves)
      <4> DEFINE base == CheckBegin(problem.board, limit)
      <4>1. base \in PlayStates /\ base.valid /\ base.selected = NoPoint
        BY <2>8 DEF CheckBegin, PlayStates
      <4>2. Simulated(base, whole).valid
        BY <2>9 DEF Correct, Simulate, Simulated
      <4> HIDE DEF base
      <4> QED
        BY <2>9, <4>1, <4>2, OptimizeSound
    <3> QED
      BY <3>1, <3>2
  <2>11. answer' = Optimize(whole)
    BY <2>1 DEF whole, first, second, hash
  <2> QED
    BY <1>1, <2>10, <2>11 DEF Accepted, limit
<1> QED
  BY <1>2, <1>3

\* The invariant is kept.
LEMMA AnswerStep ==
  ASSUME IInv, AnswerInv, [Next]_vars
  PROVE  AnswerInv'
<1>1. CASE UNCHANGED vars \/ Join
  <2>1. UNCHANGED <<problem, queue, visited, current, metHash, pc>>
    BY <1>1 DEF vars, Join
  <2>2. EntriesStay
    BY <2>1 DEF EntriesStay
  <2>3. \A w \in Workers : Halfway(w)'
    BY <2>1, <2>2, HalfwayStays DEF AnswerInv, Halfway
  <2>4. Accepted'
    BY <1>1, JoinAnswer DEF AnswerInv, Accepted, vars
  <2> QED
    BY <2>3, <2>4 DEF AnswerInv
<1>2. ASSUME NEW w \in Workers, Worker(w)
      PROVE  AnswerInv'
  <2>1. \A v \in Workers : Halfway(v)'
    BY <1>2, CheckAnswer, VisitAnswer, VisitInvariant, LookAnswer, PublishAnswer DEF Worker
  <2>2. UNCHANGED <<problem, answer>>
    BY <1>2 DEF Worker, Check, Visit, Look, Publish
  <2> QED
    BY <2>1, <2>2 DEF AnswerInv, Accepted
<1> QED
  BY <1>1, <1>2 DEF Next

\* Both parts of the invariant hold always.
LEMMA AnswerInvariant == Spec => [](IInv /\ AnswerInv)
<1>1. Init => IInv /\ AnswerInv
  BY InitInvariant, AnswerInit
<1>2. IInv /\ AnswerInv /\ [Next]_vars => (IInv /\ AnswerInv)'
  BY Invariant, AnswerStep
<1> QED
  BY <1>1, <1>2, PTL DEF Spec

\* The boards of both workers are boards and keep to the limit; a met hash is one of an
\* entry; the answer is a sequence of moves.
THEOREM TypeCorrect == Spec => []TypeOK
<1>1. IInv /\ AnswerInv => TypeOK
  <2> SUFFICES ASSUME IInv, AnswerInv PROVE TypeOK
    OBVIOUS
  <2>1. \A w \in Workers : metHash[w] = NoHash \/ metHash[w] \in DOMAIN visited[w]
    BY DEF AnswerInv, Halfway, Counts, Workers
  <2>2. \A w \in Workers : \A h \in queue[w] \cup {current[w]} : Hashed(h)
    BY DEF IInv, WorkerInv
  <2> QED
    BY <2>1, <2>2 DEF IInv, AnswerInv, Halfway, Hashed, Accepted, TypeOK, Moves
<1> QED
  BY <1>1, AnswerInvariant, PTL

\* Whatever answer is put together, the judge accepts it: the halves fit, whichever of
\* the met hashes was taken, and need no more selections than there are.
THEOREM AnswerAccepted == Spec => []AnswerCorrect
<1>1. IInv /\ AnswerInv => AnswerCorrect
  BY DEF AnswerInv, Accepted, AnswerCorrect
<1> QED
  BY <1>1, AnswerInvariant, PTL

=============================================================================
