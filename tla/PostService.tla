------------------------------ MODULE PostService ------------------------------
(***************************************************************************)
(* The posting of answers: a PostClient, owned by the desktop program's    *)
(* PostProblemWorker or by exe/post_client, and the PostServer with the    *)
(* PostSession of its connection.  Connections have nothing in common, so  *)
(* one is modelled.                                                        *)
(*                                                                         *)
(* send_answer() is called in the threads that make or show answers, the   *)
(* rest of the client runs in the thread of its io_service.  An answer is  *)
(* named by its number among those send_answer() took; a message is two    *)
(* parts on the wire, its header and its body.                             *)
(***************************************************************************)
EXTENDS Integers, Sequences

CONSTANT MaxAnswers       \* bound on the calls of send_answer()

ASSUME AnswersAssumption == MaxAnswers \in Nat

VARIABLES
  \* The client.
  calls,        \* the number of calls of send_answer()
  taken,        \* the number of answers that were not dropped
  connected,
  posted,       \* the tasks posted to the io_service, not yet run
  write_msgs,
  writing,      \* parts that async_write() has sent, NotWriting without one
  phase,        \* "connecting", "open" (the socket), "closed", "stopped" (nothing runs)
  \* Between them.
  wire,         \* parts sent and not yet read
  broken,       \* the connection is broken
  \* The server.
  session,      \* "none", "backlog", "header", "body" (pending read), "ended"
  serverOpen,   \* PostSession::socket is open
  closing,      \* do_close() of the server is "posted" or "done", "no" before
  read_msg,
  received      \* the answers passed to the callback

clientVars == <<calls, taken, connected, posted, write_msgs, writing, phase>>
netVars    == <<wire, broken>>
serverVars == <<session, serverOpen, closing, read_msg, received>>
postVars   == <<clientVars, netVars, serverVars>>

NotWriting == -1
CloseTask == 0
Header == 1
Body   == 2

PostInit ==
  /\ calls = 0 /\ taken = 0 /\ connected = FALSE /\ posted = <<>>
  /\ write_msgs = <<>> /\ writing = NotWriting /\ phase = "connecting"
  /\ wire = <<>> /\ broken = FALSE
  /\ session = "none" /\ serverOpen = FALSE /\ closing = "no"
  /\ read_msg = 0 /\ received = <<>>

Running == phase # "stopped"

-----------------------------------------------------------------------------
(* The client.                                                             *)

\* An answer made before the connection, or after its end, is dropped.
SendAnswer ==
  /\ calls < MaxAnswers
  /\ calls' = calls + 1
  /\ IF connected
     THEN taken' = taken + 1 /\ posted' = Append(posted, taken + 1)
     ELSE UNCHANGED <<taken, posted>>
  /\ UNCHANGED <<connected, write_msgs, writing, phase, netVars, serverVars>>

\* close(), called by the owner.
Close ==
  /\ Running
  /\ CloseTask \notin {posted[i] : i \in DOMAIN posted}
  /\ posted' = Append(posted, CloseTask)
  /\ UNCHANGED <<calls, taken, connected, write_msgs, writing, phase, netVars, serverVars>>

\* io_service.stop(), by the Cancel button and at the end of exe/post_client:
\* what is posted is never run.  connected is not changed.
Stop ==
  /\ Running
  /\ phase' = "stopped"
  /\ UNCHANGED <<calls, taken, connected, posted, write_msgs, writing, netVars, serverVars>>

\* handle_connect() asks for the address of the server after it has set
\* connected; if the connection is reset already this throws, and the thread ends.
HandleConnect ==
  /\ phase = "connecting"
  /\ connected' = TRUE
  /\ session' = "backlog"
  /\ phase' \in {"open", "stopped"}
  /\ broken' = (phase' = "stopped")
  /\ UNCHANGED <<calls, taken, posted, write_msgs, writing, wire,
                 serverOpen, closing, read_msg, received>>

HandleConnectError ==
  /\ phase = "connecting"
  /\ phase' = "closed"
  /\ posted' = Append(posted, CloseTask)
  /\ UNCHANGED <<calls, taken, connected, write_msgs, writing, netVars, serverVars>>

DoSendMessage ==
  /\ Running /\ posted # <<>> /\ Head(posted) # CloseTask
  /\ posted' = Tail(posted)
  /\ write_msgs' = Append(write_msgs, Head(posted))
  /\ writing' = IF write_msgs = <<>> THEN 0 ELSE writing
  /\ UNCHANGED <<calls, taken, connected, phase, netVars, serverVars>>

DoClose ==
  /\ Running /\ posted # <<>> /\ Head(posted) = CloseTask
  /\ posted' = Tail(posted)
  /\ connected' = FALSE /\ phase' = "closed"
  /\ UNCHANGED <<calls, taken, write_msgs, writing, netVars, serverVars>>

\* The operating system sends the next part of the message in front.
Transmit ==
  /\ phase = "open" /\ writing \in 0 .. Body - 1
  /\ writing' = writing + 1
  /\ wire' = IF broken \/ session = "ended" THEN wire
             ELSE Append(wire, <<Head(write_msgs), writing + 1>>)
  /\ UNCHANGED <<calls, taken, connected, posted, write_msgs, phase, broken, serverVars>>

\* Mutant: the message that was written stays in the queue.
HandleWrittenAgain ==
  /\ Running /\ writing = Body
  /\ writing' = 0
  /\ UNCHANGED <<calls, taken, connected, posted, write_msgs, phase, netVars, serverVars>>

\* Mutant: the next write does not begin.
HandleWrittenStops ==
  /\ Running /\ writing = Body
  /\ write_msgs' = Tail(write_msgs)
  /\ writing' = NotWriting
  /\ UNCHANGED <<calls, taken, connected, posted, phase, netVars, serverVars>>

\* handle_write() without an error.
HandleWritten ==
  /\ Running /\ writing = Body
  /\ write_msgs' = Tail(write_msgs)
  /\ writing' = IF Tail(write_msgs) = <<>> THEN NotWriting ELSE 0
  /\ UNCHANGED <<calls, taken, connected, posted, phase, netVars, serverVars>>

\* handle_write() with an error: the message stays in front of the queue, so that
\* no later one is ever written.
HandleWriteError ==
  /\ Running /\ writing \in 0 .. Body - 1
  /\ phase = "closed" \/ broken \/ session = "ended"
  /\ writing' = NotWriting
  /\ posted' = Append(posted, CloseTask)
  /\ UNCHANGED <<calls, taken, connected, write_msgs, phase, netVars, serverVars>>

-----------------------------------------------------------------------------
(* The network and the server.                                             *)

\* The connection breaks: of what is on the way only a beginning arrives.
Break ==
  /\ session # "none" /\ ~broken
  /\ broken' = TRUE
  /\ \E n \in 0 .. Len(wire) : wire' = SubSeq(wire, 1, n)
  /\ UNCHANGED <<clientVars, serverVars>>

\* As in the client, the address of a broken connection throws: the server ends.
HandleAccept ==
  /\ session = "backlog"
  /\ session' = IF broken THEN "ended" ELSE "header"
  /\ serverOpen' = ~broken
  /\ UNCHANGED <<clientVars, netVars, closing, read_msg, received>>

\* do_read_header() and its handler.
ReadHeader ==
  /\ session = "header" /\ serverOpen /\ wire # <<>>
  /\ read_msg' = Head(wire)[1]
  /\ wire' = Tail(wire)
  /\ session' = "body"
  /\ UNCHANGED <<clientVars, broken, serverOpen, closing, received>>

\* do_read_body() and its handler, which calls the callback.
ReadBody ==
  /\ session = "body" /\ serverOpen /\ wire # <<>>
  /\ received' = Append(received, Head(wire)[1])
  /\ wire' = Tail(wire)
  /\ session' = "header"
  /\ UNCHANGED <<clientVars, broken, serverOpen, closing, read_msg>>

\* The reads end.  The session stays in the manager, with its socket.
ReadError ==
  /\ session \in {"header", "body"}
  /\ ~serverOpen \/ (wire = <<>> /\ (broken \/ phase \in {"closed", "stopped"}))
  /\ session' = "ended"
  /\ UNCHANGED <<clientVars, netVars, serverOpen, closing, read_msg, received>>

\* close() of the server by its owner, and do_close(), which closes the sessions
\* there are.  The acceptor stays open.
ServerClose ==
  /\ closing = "no"
  /\ closing' = "posted"
  /\ UNCHANGED <<clientVars, netVars, session, serverOpen, read_msg, received>>

ServerDoClose ==
  /\ closing = "posted"
  /\ closing' = "done" /\ serverOpen' = FALSE
  /\ UNCHANGED <<clientVars, netVars, session, read_msg, received>>

-----------------------------------------------------------------------------

ClientHandler ==
  \/ HandleConnect \/ HandleConnectError \/ DoSendMessage \/ DoClose
  \/ HandleWritten \/ HandleWriteError

ServerHandler == HandleAccept \/ ReadHeader \/ ReadBody \/ ReadError \/ ServerDoClose

PostNext ==
  \/ SendAnswer \/ Close \/ Stop \/ ServerClose
  \/ ClientHandler \/ ServerHandler \/ Transmit \/ Break

PostSpec == PostInit /\ [][PostNext]_postVars

-----------------------------------------------------------------------------
(* What the posting promises is what the distribution of problems does, with *)
(* the server as the one client: it joins when the connection is made.      *)

Feed == INSTANCE ProblemFeed WITH
  Clients   <- {"server"},
  broadcast <- taken,
  joined    <- [c \in {"server"} |-> IF session = "none" THEN -1 ELSE 0],
  got       <- [c \in {"server"} |-> received]

\* The answers that send_answer() took reach the callback of the server in their
\* order, each of them once and none after one that is missing.
AnswersInOrder == Feed!Spec

\* Nothing has gone wrong and nobody has ended the service.
Healthy ==
  /\ ~broken /\ closing = "no" /\ phase \in {"connecting", "open"}
  /\ CloseTask \notin {posted[i] : i \in DOMAIN posted}

\* An answer that send_answer() took reaches the callback, while the connection
\* works and nobody closes or stops anything.
TakenAnswersArrive ==
  \A n \in 1..MaxAnswers : (taken >= n) ~> (Len(received) >= n \/ ~Healthy)
=============================================================================
