------------------------------ MODULE AnswerTree ------------------------------
(***************************************************************************)
(* The answers of the parallel searches: slide::AnswerLinearTree, a list   *)
(* of nodes for every thread, each with its move and the place of its      *)
(* parent; AnswerTreeFeature, the place of a board's last node; and        *)
(* util::ThreadIndexManager, which numbers the threads.                    *)
(*                                                                         *)
(* A list has one writer, and takes no lock.  Only the vector of the lists *)
(* is lengthened under a lock, which the writers of the other lists do not *)
(* take: what they touch while it grows may have been moved away.          *)
(***************************************************************************)
EXTENDS Integers, Sequences, FiniteSets

CONSTANTS
  Threads,        \* the threads of the scheduler
  TreeMoves,      \* moves and selections
  MaxNodes,       \* bound on the nodes in all lists
  MaxSearches     \* bound on the calls of beamSearch()

ASSUME TreeAssumption == IsFiniteSet(Threads) /\ MaxNodes \in Nat /\ MaxSearches \in Nat

VARIABLES
  nodes,        \* AnswerLinearTree::nodes
  leaves,       \* boards: the index and thread of AnswerTreeFeature, and their moves
  localId,      \* ThreadIndexManager::storage
  idCount,      \* ThreadIndexManager::size
  step,         \* where a thread is in AnswerLinearTree::add
  work,         \* the board it moves, the move and the index of the new node
  searches,
  undefined     \* moved memory was read or written: nothing is known any more

treeVars == <<nodes, leaves, localId, idCount, step, work, searches, undefined>>

NoId    == -1
NoIndex == -1          \* numeric_limits<uint>::max()

Root   == [index |-> NoIndex, thread |-> 0, moves |-> <<>>]
NoWork == [leaf |-> Root, move |-> 0, index |-> NoIndex]

TreeInit ==
  /\ nodes = <<>> /\ leaves = {Root}
  /\ localId = [t \in Threads |-> NoId] /\ idCount = 0
  /\ step = [t \in Threads |-> "idle"] /\ work = [t \in Threads |-> NoWork]
  /\ searches = 1 /\ undefined = FALSE

Places    == UNION {{n} \X DOMAIN nodes[n] : n \in DOMAIN nodes}
NodeCount == Cardinality(Places)
Pending   == Cardinality({t \in Threads : step[t] # "idle"})

Growing(t) == \E u \in Threads \ {t} : step[u] = "growing"

\* What a thread does to the lists while another one makes them longer may go wrong.
MayBeUndefined(t) == undefined' \in {FALSE, Growing(t)}

\* nodes[id], numbered from 0.
List(id) == nodes[id + 1]

-----------------------------------------------------------------------------

\* getLocalId(), once in a search.
GetLocalId(t) ==
  /\ localId[t] = NoId
  /\ localId' = [localId EXCEPT ![t] = idCount]
  /\ idCount' = idCount + 1
  /\ UNCHANGED <<nodes, leaves, step, work, searches, undefined>>

\* AnswerTreeFeature::move or select of a copy of some board, as far as the check
\* of add() without the lock.
BeginMove(t) ==
  /\ step[t] = "idle" /\ localId[t] # NoId
  /\ NodeCount + Pending < MaxNodes
  /\ \E leaf \in leaves, m \in TreeMoves :
       work' = [work EXCEPT ![t] = [leaf |-> leaf, move |-> m, index |-> NoIndex]]
  /\ step' = [step EXCEPT ![t] = IF Len(nodes) <= localId[t] THEN "locking" ELSE "indexing"]
  /\ MayBeUndefined(t)
  /\ UNCHANGED <<nodes, leaves, localId, idCount, searches>>

\* The lock is taken, and the check made again.
Lock(t) ==
  /\ step[t] = "locking" /\ ~Growing(t)
  /\ step' = [step EXCEPT ![t] = IF Len(nodes) <= localId[t] THEN "growing" ELSE "indexing"]
  /\ UNCHANGED <<nodes, leaves, localId, idCount, work, searches, undefined>>

\* The vector of lists is as long as it must be, and the lock is released.
Grow(t) ==
  /\ step[t] = "growing"
  /\ nodes' = nodes \o [i \in 1 .. localId[t] + 1 - Len(nodes) |-> <<>>]
  /\ step' = [step EXCEPT ![t] = "indexing"]
  /\ UNCHANGED <<leaves, localId, idCount, work, searches, undefined>>

ReadSize(t) ==
  /\ step[t] = "indexing"
  /\ work' = [work EXCEPT ![t].index = Len(List(localId[t]))]
  /\ step' = [step EXCEPT ![t] = "adding"]
  /\ MayBeUndefined(t)
  /\ UNCHANGED <<nodes, leaves, localId, idCount, searches>>

\* Mutant: the board has its new thread before the node is made.
NewNodeOfThisThread(t) ==
  [parentIndex |-> work[t].leaf.index, move |-> work[t].move, parentThread |-> localId[t]]

NewNode(t) ==
  [parentIndex |-> work[t].leaf.index, move |-> work[t].move,
   parentThread |-> work[t].leaf.thread]

\* emplace_back(), and the new place of the board.
AddNode(t) ==
  /\ step[t] = "adding"
  /\ nodes' = [nodes EXCEPT ![localId[t] + 1] = Append(@, NewNode(t))]
  /\ leaves' = leaves \cup {[index |-> work[t].index, thread |-> localId[t],
                             moves |-> Append(work[t].leaf.moves, work[t].move)]}
  /\ step' = [step EXCEPT ![t] = "idle"]
  /\ work' = [work EXCEPT ![t] = NoWork]
  /\ MayBeUndefined(t)
  /\ UNCHANGED <<localId, idCount, searches>>

\* beamSearch() is called again when it is over, on the boards of another solver
\* or, by the retry of KurageSolver::solve, with an empty tree.
NextSearch ==
  /\ Pending = 0 /\ searches < MaxSearches
  /\ searches' = searches + 1
  /\ localId' = [t \in Threads |-> NoId] /\ idCount' = 0
  /\ \/ nodes' = <<>> /\ leaves' = {Root}
     \/ UNCHANGED <<nodes, leaves>>
  /\ UNCHANGED <<step, work, undefined>>

TreeNext ==
  /\ ~undefined
  /\ \/ \E t \in Threads : \/ GetLocalId(t) \/ BeginMove(t) \/ Lock(t) \/ Grow(t)
                           \/ ReadSize(t) \/ AddNode(t)
     \/ NextSearch

TreeSpec == TreeInit /\ [][TreeNext]_treeVars

-----------------------------------------------------------------------------

\* buildAnswer(): the moves from the node back to the first, reversed.
BuildAnswer(leaf) ==
  LET back[n \in 0 .. MaxNodes] ==
        IF n = 0 THEN <<<<leaf.index, leaf.thread>>, <<>>>>
        ELSE LET place == back[n - 1][1]
                 moves == back[n - 1][2]
             IN  IF place[1] = NoIndex THEN back[n - 1]
                 ELSE LET node == List(place[2])[place[1] + 1]
                      IN  <<<<node.parentIndex, node.parentThread>>, <<node.move>> \o moves>>
  IN  back[MaxNodes][2]

\* The board that any thread makes of a board of any other thread keeps its answer
\* while all of them add nodes, through later searches in which the threads have
\* other numbers, too, as long as no thread touches the lists while another one
\* lengthens them.  (AnswerLinearTree.hpp:34.)
AnswersKept ==
  ~undefined => \A leaf \in leaves : BuildAnswer(leaf) = leaf.moves
=============================================================================
