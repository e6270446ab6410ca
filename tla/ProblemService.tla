---------------------------- MODULE ProblemService ----------------------------
(***************************************************************************)
(* The distribution of problems: a ProblemServer with its SessionManager   *)
(* and one ProblemSession per connection, and the ProblemClients.          *)
(*                                                                         *)
(* The server runs its handlers one at a time in the thread of its         *)
(* io_service: an action is a handler (a posted task, or the completion of *)
(* an accept or of a write), a step of the thread that owns the server, a  *)
(* step of the operating system, or a handler of a client.  A message is   *)
(* two parts on the wire, its header and its body; a problem is its number *)
(* in the order of the calls of send_problem().                            *)
(***************************************************************************)
EXTENDS Integers, Sequences, SequencesExt

CONSTANTS
  Clients,
  MaxProblems       \* bound on the calls of send_problem()

ASSUME ProblemsAssumption == MaxProblems \in Nat

VARIABLES
  \* The server.
  called,       \* the number of calls of send_problem(), and whether close()
  closeCalled,  \*   was called
  posted,       \* the tasks posted to the io_service, not yet run
  sessions,     \* SessionManager::sessions
  open,         \* ProblemSession::socket is open
  writeMsgs,    \* ProblemSession::write_msgs
  writes,       \* the operations async_write() has begun and not completed
  alive,        \* the process runs
  \* Between them.
  backlog,      \* connections made and not yet accepted
  wire,         \* parts sent and not yet read
  lost,         \* the connection is broken
  \* The clients.
  phase,        \* what the pending operation of the client is
  readMsg,      \* the message whose header it has read
  got,          \* the problems passed to its callback
  \* History.
  broadcast,    \* the number of problems sent to the sessions
  joined        \* its value when the session was added

server  == <<called, closeCalled, posted, sessions, open, writeMsgs, writes, alive>>
network == <<backlog, wire, lost>>
client  == <<phase, readMsg, got>>
history == <<broadcast, joined>>
vars == <<server, network, client, history>>

Header == 1
Body   == 2
Part(problem, part) == [problem |-> problem, part |-> part]

SendTask(problem) == [send |-> TRUE, problem |-> problem]
CloseTask         == [send |-> FALSE]

\* An operation of async_write(): it has sent this many parts of the message.
Write(problem) == [problem |-> problem, sent |-> 0]

NotJoined == -1

Init ==
  /\ called = 0 /\ closeCalled = FALSE
  /\ posted = <<>>
  /\ sessions = {}
  /\ open = [c \in Clients |-> FALSE]
  /\ writeMsgs = [c \in Clients |-> <<>>]
  /\ writes = [c \in Clients |-> <<>>]
  /\ alive = TRUE
  /\ backlog = {}
  /\ wire = [c \in Clients |-> <<>>]
  /\ lost = [c \in Clients |-> FALSE]
  /\ phase = [c \in Clients |-> "connecting"]
  /\ readMsg = [c \in Clients |-> 0]
  /\ got = [c \in Clients |-> <<>>]
  /\ broadcast = 0
  /\ joined = [c \in Clients |-> NotJoined]

-----------------------------------------------------------------------------
(* The thread that owns the server.                                        *)

\* Mutant: the message is made of the problem before.
SendProblemStale ==
  /\ alive /\ ~closeCalled /\ called < MaxProblems
  /\ called' = called + 1
  /\ posted' = Append(posted, SendTask(called))
  /\ UNCHANGED <<closeCalled, sessions, open, writeMsgs, writes, alive,
                 network, client, history>>

SendProblem ==
  /\ alive /\ ~closeCalled /\ called < MaxProblems
  /\ called' = called + 1
  /\ posted' = Append(posted, SendTask(called + 1))
  /\ UNCHANGED <<closeCalled, sessions, open, writeMsgs, writes, alive,
                 network, client, history>>

Close ==
  /\ alive /\ ~closeCalled
  /\ closeCalled' = TRUE
  /\ posted' = Append(posted, CloseTask)
  /\ UNCHANGED <<called, sessions, open, writeMsgs, writes, alive,
                 network, client, history>>

-----------------------------------------------------------------------------
(* The handlers of the server.                                             *)

\* Mutant: do_write() whether a write is in progress or not.
DoSendMessageAlwaysWrites ==
  /\ alive /\ posted # <<>> /\ Head(posted).send
  /\ LET problem == Head(posted).problem
     IN  /\ writeMsgs' = [c \in Clients |->
                            IF c \in sessions
                            THEN Append(writeMsgs[c], problem)
                            ELSE writeMsgs[c]]
         /\ writes' = [c \in Clients |->
                         IF c \in sessions
                         THEN Append(writes[c], Write(problem))
                         ELSE writes[c]]
  /\ posted' = Tail(posted)
  /\ broadcast' = broadcast + 1
  /\ UNCHANGED <<called, closeCalled, sessions, open, alive, joined, network, client>>

\* Mutant: push_front for push_back.
DoSendMessageInFront ==
  /\ alive /\ posted # <<>> /\ Head(posted).send
  /\ LET problem == Head(posted).problem
     IN  /\ writeMsgs' = [c \in Clients |->
                            IF c \in sessions
                            THEN <<problem>> \o writeMsgs[c]
                            ELSE writeMsgs[c]]
         /\ writes' = [c \in Clients |->
                         IF c \in sessions /\ writeMsgs[c] = <<>>
                         THEN Append(writes[c], Write(problem))
                         ELSE writes[c]]
  /\ posted' = Tail(posted)
  /\ broadcast' = broadcast + 1
  /\ UNCHANGED <<called, closeCalled, sessions, open, alive, joined, network, client>>

\* ProblemSession::send_message on every session: do_write() only if the queue
\* was empty.
DoSendMessage ==
  /\ alive /\ posted # <<>> /\ Head(posted).send
  /\ LET problem == Head(posted).problem
     IN  /\ writeMsgs' = [c \in Clients |->
                            IF c \in sessions
                            THEN Append(writeMsgs[c], problem)
                            ELSE writeMsgs[c]]
         /\ writes' = [c \in Clients |->
                         IF c \in sessions /\ writeMsgs[c] = <<>>
                         THEN Append(writes[c], Write(problem))
                         ELSE writes[c]]
  /\ posted' = Tail(posted)
  /\ broadcast' = broadcast + 1
  /\ UNCHANGED <<called, closeCalled, sessions, open, alive, joined, network, client>>

\* SessionManager::close.  The acceptor stays open.
DoClose ==
  /\ alive /\ posted # <<>> /\ ~Head(posted).send
  /\ open' = [c \in Clients |-> open[c] /\ c \notin sessions]
  /\ sessions' = {}
  /\ posted' = Tail(posted)
  /\ UNCHANGED <<called, closeCalled, writeMsgs, writes, alive,
                 network, client, history>>

\* A new session, which adds itself to the manager; the next accept begins.
HandleAccept(c) ==
  /\ alive /\ c \in backlog
  /\ backlog' = backlog \ {c}
  /\ sessions' = sessions \cup {c}
  /\ open' = [open EXCEPT ![c] = TRUE]
  /\ joined' = [joined EXCEPT ![c] = broadcast]
  /\ UNCHANGED <<called, closeCalled, posted, writeMsgs, writes, alive,
                 wire, lost, client, broadcast>>

\* The connection was reset before it was accepted: remote_endpoint() throws,
\* and nothing catches the exception in the thread of the io_service.
HandleAcceptThrows(c) ==
  /\ alive /\ c \in backlog /\ lost[c]
  /\ alive' = FALSE
  /\ open' = [d \in Clients |-> FALSE]
  /\ UNCHANGED <<called, closeCalled, posted, sessions, writeMsgs, writes,
                 network, client, history>>

\* Mutant: the message that was written stays in the queue.
HandleWrittenAgain(c) ==
  /\ alive
  /\ \E i \in DOMAIN writes[c] :
       /\ writes[c][i].sent = Body
       /\ writes' = [writes EXCEPT ![c] =
                       Append(RemoveAt(@, i), Write(Head(writeMsgs[c])))]
  /\ UNCHANGED <<called, closeCalled, posted, sessions, open, writeMsgs, alive,
                 network, client, history>>

\* Mutant: no next write begins.
HandleWrittenStops(c) ==
  /\ alive
  /\ \E i \in DOMAIN writes[c] :
       /\ writes[c][i].sent = Body
       /\ writeMsgs' = [writeMsgs EXCEPT ![c] = Tail(@)]
       /\ writes' = [writes EXCEPT ![c] = RemoveAt(@, i)]
  /\ UNCHANGED <<called, closeCalled, posted, sessions, open, alive,
                 network, client, history>>

\* The completion of a write: the next message, if there is one.
HandleWritten(c) ==
  /\ alive
  /\ \E i \in DOMAIN writes[c] :
       /\ writes[c][i].sent = Body
       /\ LET rest == Tail(writeMsgs[c])
              others == RemoveAt(writes[c], i)
          IN  /\ writeMsgs' = [writeMsgs EXCEPT ![c] = rest]
              /\ writes' = [writes EXCEPT ![c] =
                              IF rest = <<>>
                              THEN others
                              ELSE Append(others, Write(Head(rest)))]
  /\ UNCHANGED <<called, closeCalled, posted, sessions, open, alive,
                 network, client, history>>

\* Mutant: the session stays in the manager.
HandleWriteErrorStays(c) ==
  /\ alive
  /\ \E i \in DOMAIN writes[c] :
       /\ writes[c][i].sent < Body
       /\ ~open[c] \/ lost[c] \/ phase[c] = "stopped"
       /\ writes' = [writes EXCEPT ![c] = RemoveAt(@, i)]
  /\ UNCHANGED <<called, closeCalled, posted, sessions, open, writeMsgs, alive,
                 network, client, history>>

\* A write fails: the session leaves the manager, and with the last reference
\* to it its socket is closed.
HandleWriteError(c) ==
  /\ alive
  /\ \E i \in DOMAIN writes[c] :
       /\ writes[c][i].sent < Body
       /\ ~open[c] \/ lost[c] \/ phase[c] = "stopped"
       /\ writes' = [writes EXCEPT ![c] = RemoveAt(@, i)]
  /\ sessions' = sessions \ {c}
  /\ open' = [open EXCEPT ![c] = FALSE]
  /\ UNCHANGED <<called, closeCalled, posted, writeMsgs, alive,
                 network, client, history>>

-----------------------------------------------------------------------------
(* The operating system and the network.                                   *)

\* An operation on an open socket sends its next part; nobody will read it if
\* the connection is broken or the client has closed it.
Transmit(c) ==
  /\ alive /\ open[c]
  /\ \E i \in DOMAIN writes[c] :
       /\ writes[c][i].sent < Body
       /\ writes' = [writes EXCEPT ![c][i].sent = @ + 1]
       /\ wire' = [wire EXCEPT ![c] =
                     IF lost[c] \/ phase[c] = "stopped"
                     THEN @
                     ELSE Append(@, Part(writes[c][i].problem, writes[c][i].sent + 1))]
  /\ UNCHANGED <<called, closeCalled, posted, sessions, open, writeMsgs, alive,
                 backlog, lost, client, history>>

\* The connection breaks: of what is on the way only a beginning arrives.
Lose(c) ==
  /\ phase[c] \in {"header", "body"} /\ ~lost[c]
  /\ lost' = [lost EXCEPT ![c] = TRUE]
  /\ \E n \in 0 .. Len(wire[c]) : wire' = [wire EXCEPT ![c] = SubSeq(@, 1, n)]
  /\ UNCHANGED <<server, backlog, client, history>>

-----------------------------------------------------------------------------
(* The handlers of the clients.                                            *)

\* The connection is made as soon as the server's system queues it.
HandleConnect(c) ==
  /\ phase[c] = "connecting" /\ alive
  /\ phase' = [phase EXCEPT ![c] = "header"]
  /\ backlog' = backlog \cup {c}
  /\ UNCHANGED <<server, wire, lost, readMsg, got, history>>

HandleConnectError(c) ==
  /\ phase[c] = "connecting"
  /\ phase' = [phase EXCEPT ![c] = "stopped"]
  /\ UNCHANGED <<server, network, readMsg, got, history>>

HandleReadHeader(c) ==
  /\ phase[c] = "header" /\ wire[c] # <<>>
  /\ readMsg' = [readMsg EXCEPT ![c] = Head(wire[c]).problem]
  /\ phase' = [phase EXCEPT ![c] = "body"]
  /\ wire' = [wire EXCEPT ![c] = Tail(@)]
  /\ UNCHANGED <<server, backlog, lost, got, history>>

HandleReadBody(c) ==
  /\ phase[c] = "body" /\ wire[c] # <<>>
  /\ got' = [got EXCEPT ![c] = Append(@, Head(wire[c]).problem)]
  /\ phase' = [phase EXCEPT ![c] = "header"]
  /\ wire' = [wire EXCEPT ![c] = Tail(@)]
  /\ UNCHANGED <<server, backlog, lost, readMsg, history>>

\* The end of the stream, or an error, ends the loop of reads.
HandleReadError(c) ==
  /\ phase[c] \in {"header", "body"} /\ wire[c] = <<>>
  /\ lost[c] \/ ~alive \/ (joined[c] # NotJoined /\ ~open[c])
  /\ phase' = [phase EXCEPT ![c] = "stopped"]
  /\ UNCHANGED <<server, network, readMsg, got, history>>

\* close(), called by the owner of the client.
ClientClose(c) ==
  /\ phase[c] # "stopped"
  /\ phase' = [phase EXCEPT ![c] = "stopped"]
  /\ wire' = [wire EXCEPT ![c] = <<>>]
  /\ UNCHANGED <<server, backlog, lost, readMsg, got, history>>

-----------------------------------------------------------------------------

ServerHandler(c) ==
  HandleAccept(c) \/ HandleAcceptThrows(c) \/ HandleWritten(c) \/ HandleWriteError(c)

ClientHandler(c) ==
  \/ HandleConnect(c) \/ HandleConnectError(c)
  \/ HandleReadHeader(c) \/ HandleReadBody(c) \/ HandleReadError(c)

Next ==
  \/ SendProblem \/ Close
  \/ DoSendMessage \/ DoClose
  \/ \E c \in Clients :
       \/ ServerHandler(c) \/ ClientHandler(c)
       \/ Transmit(c) \/ Lose(c) \/ ClientClose(c)

\* Both io_services run what is ready, and the systems move the data.
Fairness ==
  /\ WF_vars(DoSendMessage) /\ WF_vars(DoClose)
  /\ \A c \in Clients :
       WF_vars(ServerHandler(c)) /\ WF_vars(ClientHandler(c)) /\ WF_vars(Transmit(c))

Spec == Init /\ [][Next]_vars

FairSpec == Spec /\ Fairness

-----------------------------------------------------------------------------
(* Properties.                                                             *)

Problems   == 1 .. MaxProblems
Tasks      == {SendTask(p) : p \in Problems} \cup {CloseTask}
Operations == [problem : Problems, sent : 0 .. Body]
Parts      == [problem : Problems, part : {Header, Body}]

TypeOK ==
  /\ called \in 0 .. MaxProblems
  /\ closeCalled \in BOOLEAN
  /\ posted \in Seq(Tasks)
  /\ sessions \in SUBSET Clients
  /\ open \in [Clients -> BOOLEAN]
  /\ writeMsgs \in [Clients -> Seq(Problems)]
  /\ writes \in [Clients -> Seq(Operations)]
  /\ alive \in BOOLEAN
  /\ backlog \in SUBSET Clients
  /\ wire \in [Clients -> Seq(Parts)]
  /\ lost \in [Clients -> BOOLEAN]
  /\ phase \in [Clients -> {"connecting", "header", "body", "stopped"}]
  /\ readMsg \in [Clients -> 0 .. MaxProblems]
  /\ got \in [Clients -> Seq(Problems)]
  /\ broadcast \in 0 .. MaxProblems
  /\ joined \in [Clients -> Int]

\* The buffer handed to async_write() is that of the front of write_msgs, which
\* must stay there until the completion, and two composed writes on one socket
\* would mix their parts: a session never has two of them, its write is that of
\* the front, and while it belongs to the manager it has one exactly when its
\* queue is not empty (no message waits for a write that nobody will begin).
OneWrite(c) ==
  /\ Len(writes[c]) <= 1
  /\ writes[c] # <<>> =>
       writeMsgs[c] # <<>> /\ writes[c][1].problem = Head(writeMsgs[c])
  /\ alive /\ c \in sessions => (writes[c] = <<>> <=> writeMsgs[c] = <<>>)

OneWriter == \A c \in Clients : OneWrite(c)

\* The k-th part of the stream of a client that joined after j problems.
PartAt(j, k) ==
  Part(j + (k + 1) \div 2, IF k % 2 = 1 THEN Header ELSE Body)

\* The parts the client has read.
Taken(c) == 2 * Len(got[c]) + (IF phase[c] = "body" THEN 1 ELSE 0)

\* The parts the session has sent.
Sent(c) ==
  2 * (broadcast - joined[c] - Len(writeMsgs[c]))
    + (IF writes[c] = <<>> THEN 0 ELSE writes[c][1].sent)

Connected(c) == c \in sessions /\ alive /\ ~lost[c] /\ phase[c] # "stopped"

\* Header and body, message after message: the wire goes on where the client
\* stands, so that it never takes a body for a header or the body of another
\* message, and on a connection that works nothing that was broadcast is missing
\* between what it has read and what waits in the queue.
Stream(c) ==
  /\ \A i \in DOMAIN wire[c] : wire[c][i] = PartAt(joined[c], Taken(c) + i)
  /\ phase[c] = "body" => readMsg[c] = joined[c] + Len(got[c]) + 1
  /\ Connected(c) => Taken(c) + Len(wire[c]) = Sent(c)

StreamIntact == \A c \in Clients : Stream(c)

\* The tasks run in the order of the calls: the problems keep their numbers, and
\* the task of close() is the last one.
TasksInOrder ==
  /\ broadcast <= called
  /\ ~closeCalled => called = broadcast + Len(posted)
  /\ \A i \in DOMAIN posted :
       IF posted[i].send
       THEN posted[i].problem = broadcast + i /\ broadcast + i <= called
       ELSE i = Len(posted) /\ closeCalled

\* A socket is open only while its session belongs to the manager; nothing exists
\* of a session before its accept.
SessionLife(c) ==
  /\ open[c] => alive /\ c \in sessions
  /\ joined[c] = NotJoined =>
       /\ c \notin sessions /\ phase[c] # "body"
       /\ writeMsgs[c] = <<>> /\ writes[c] = <<>> /\ wire[c] = <<>> /\ got[c] = <<>>
  /\ c \in backlog \/ phase[c] = "connecting" => joined[c] = NotJoined
  /\ phase[c] = "connecting" => c \notin backlog

\* The queue of a session ends with the latest broadcast, has no gap, and begins
\* after the client joined.
QueueInOrder(c) ==
  c \in sessions =>
    /\ joined[c] + Len(writeMsgs[c]) <= broadcast
    /\ \A i \in DOMAIN writeMsgs[c] :
         writeMsgs[c][i] = broadcast - Len(writeMsgs[c]) + i

\* A client is ahead of neither its stream nor the broadcasts.
Behind(c) ==
  /\ \A i \in DOMAIN got[c] : got[c][i] = joined[c] + i
  /\ joined[c] # NotJoined =>
       /\ 0 <= joined[c] /\ joined[c] <= broadcast
       /\ Taken(c) + Len(wire[c]) <= 2 * (broadcast - joined[c])

\* What the invariants above need in order to be inductive: tasks, queues, wires
\* and clients are consecutive windows of one numbered sequence.
Windows ==
  /\ TasksInOrder
  /\ \A c \in Clients : SessionLife(c) /\ QueueInOrder(c) /\ Behind(c)

\* A client is handed the problems broadcast since it joined, in order, each
\* once (the messages of every client are a ProblemFeed).
Feed == INSTANCE ProblemFeed

FeedSpec == Feed!Spec

\* A problem that was sent to a session reaches its client, unless one of the
\* two closes, the connection breaks or the server dies.
Delivered ==
  \A c \in Clients, p \in Problems :
    joined[c] # NotJoined /\ joined[c] < p /\ p <= broadcast
      ~> \/ p \in ToSet(got[c])
         \/ lost[c] \/ phase[c] = "stopped" \/ closeCalled \/ ~alive

\* An accept is pending from the constructor on: handle_accept() begins the next
\* one whatever happened, and do_close() does not close the acceptor.
AcceptPending == alive

\* The programs that test the network join the thread of the io_service after
\* close() (exe/problem_server.cpp:44): its run() returns when no task and no
\* operation is left.
RunReturns ==
  closeCalled ~> /\ posted = <<>>
                 /\ \A c \in Clients : writes[c] = <<>>
                 /\ ~AcceptPending

=============================================================================
