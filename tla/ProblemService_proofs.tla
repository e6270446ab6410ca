------------------------ MODULE ProblemService_proofs ------------------------
(***************************************************************************)
(* Proofs about ProblemService, for any set of clients and any number of   *)
(* problems: its invariants, and that it implements ProblemFeed.           *)
(***************************************************************************)
EXTENDS ProblemService, SequenceTheorems, TLAPS

\* What holds of one client, its session and its stream.
ClientInv(c) ==
  OneWrite(c) /\ Stream(c) /\ SessionLife(c) /\ QueueInOrder(c) /\ Behind(c)

\* The inductive invariant.
IInv == TypeOK /\ TasksInOrder /\ \A c \in Clients : ClientInv(c)

-----------------------------------------------------------------------------

\* Completing the only operation leaves none.
LEMMA RemoveOnly ==
  ASSUME NEW S, NEW s \in Seq(S), Len(s) <= 1, NEW i \in DOMAIN s
  PROVE  i = 1 /\ Len(s) = 1 /\ RemoveAt(s, i) = <<>>
<1>0. Len(s) \in Nat /\ DOMAIN s = 1 .. Len(s)
  BY LenProperties
<1>1. Len(s) = 1 /\ i = 1
  BY <1>0
<1>2. SubSeq(s, 1, 0) = <<>> /\ SubSeq(s, 2, 1) = <<>>
  BY SubSeqEmpty
<1>3. <<>> \o <<>> = <<>>
  BY ConcatEmptySeq, EmptySeq
<1> QED
  BY <1>1, <1>2, <1>3 DEF RemoveAt

\* The odd parts of a stream are headers, the even ones bodies.
LEMMA OddPart ==
  ASSUME NEW j \in Int, NEW n \in Nat
  PROVE  PartAt(j, 2 * n + 1) = Part(j + n + 1, Header)
<1>1. (2 * n + 1 + 1) \div 2 = n + 1 /\ (2 * n + 1) % 2 = 1
  OBVIOUS
<1> QED
  BY <1>1 DEF PartAt

\* The even parts are bodies.
LEMMA EvenPart ==
  ASSUME NEW j \in Int, NEW n \in Nat
  PROVE  PartAt(j, 2 * n + 2) = Part(j + n + 1, Body)
<1>1. (2 * n + 2 + 1) \div 2 = n + 1 /\ (2 * n + 2) % 2 = 0
  OBVIOUS
<1> QED
  BY <1>1 DEF PartAt

\* How many parts a client has read.
LEMMA TakenNat ==
  ASSUME NEW c, Len(got[c]) \in Nat
  PROVE  /\ Taken(c) \in Nat
         /\ phase[c] = "body" => Taken(c) = 2 * Len(got[c]) + 1
         /\ phase[c] # "body" => Taken(c) = 2 * Len(got[c])
<1>1. 2 * Len(got[c]) \in Nat
  OBVIOUS
<1>2. CASE phase[c] = "body"
  <2>1. Taken(c) = 2 * Len(got[c]) + 1
    BY <1>2 DEF Taken
  <2> QED
    BY <1>1, <1>2, <2>1
<1>3. CASE phase[c] # "body"
  <2>1. Taken(c) = 2 * Len(got[c]) + 0
    BY <1>3 DEF Taken
  <2> QED
    BY <1>1, <1>3, <2>1
<1> QED
  BY <1>2, <1>3

\* How many parts a session has sent.
LEMMA SentCases ==
  ASSUME NEW c
  PROVE  /\ writes[c] = <<>> =>
              Sent(c) = 2 * (broadcast - joined[c] - Len(writeMsgs[c])) + 0
         /\ writes[c] # <<>> =>
              Sent(c) = 2 * (broadcast - joined[c] - Len(writeMsgs[c])) + writes[c][1].sent
  BY DEF Sent

\* The invariant of a client of which a step changes nothing.
SameClient(d) ==
  /\ UNCHANGED <<alive, broadcast>>
  /\ d \in sessions' <=> d \in sessions
  /\ d \in backlog' <=> d \in backlog
  /\ open'[d] = open[d] /\ writeMsgs'[d] = writeMsgs[d] /\ writes'[d] = writes[d]
  /\ wire'[d] = wire[d] /\ lost'[d] = lost[d] /\ joined'[d] = joined[d]
  /\ phase'[d] = phase[d] /\ readMsg'[d] = readMsg[d] /\ got'[d] = got[d]

\* A client that a step leaves alone keeps its part of the invariant.
LEMMA SameClientInv ==
  ASSUME NEW d, ClientInv(d), SameClient(d)
  PROVE  ClientInv(d)'
<1> USE DEF SameClient, ClientInv
<1>1. OneWrite(d)' /\ SessionLife(d)' /\ QueueInOrder(d)'
  BY DEF OneWrite, SessionLife, QueueInOrder
<1>2. Taken(d)' = Taken(d) /\ Sent(d)' = Sent(d) /\ (Connected(d)' <=> Connected(d))
  BY DEF Taken, Sent, Connected
<1>3. Stream(d)'
  BY <1>2 DEF Stream, PartAt
<1>4. Behind(d)'
  BY <1>2 DEF Behind
<1> QED
  BY <1>1, <1>3, <1>4

\* The invariant holds when the server starts.
THEOREM InitInv == Init => IInv
<1> SUFFICES ASSUME Init PROVE IInv
  OBVIOUS
<1>1. TypeOK
  <2>1. /\ called \in 0 .. MaxProblems /\ broadcast \in 0 .. MaxProblems
        /\ joined \in [Clients -> Int] /\ readMsg \in [Clients -> 0 .. MaxProblems]
    BY ProblemsAssumption DEF Init, NotJoined
  <2>2. posted \in Seq(Tasks)
    BY EmptySeq DEF Init
  <2>3. /\ writeMsgs \in [Clients -> Seq(Problems)] /\ got \in [Clients -> Seq(Problems)]
        /\ writes \in [Clients -> Seq(Operations)] /\ wire \in [Clients -> Seq(Parts)]
    BY EmptySeq DEF Init
  <2> QED
    BY <2>1, <2>2, <2>3 DEF Init, TypeOK
<1>2. TasksInOrder
  BY DEF Init, TasksInOrder
<1>3. ASSUME NEW c \in Clients PROVE ClientInv(c)
  BY <1>3 DEF Init, ClientInv, OneWrite, Stream, SessionLife, QueueInOrder, Behind,
              Connected, NotJoined
<1> QED
  BY <1>1, <1>2, <1>3 DEF IInv

-----------------------------------------------------------------------------
(* The thread that owns the server.                                        *)

\* A call of send_problem() is one task more.
LEMMA SendProblemInv ==
  ASSUME IInv, SendProblem PROVE IInv'
<1> USE DEF SendProblem, server, network, client, history
<1>1. SendTask(called + 1) \in Tasks
  <2>1. called + 1 \in Problems
    BY ProblemsAssumption DEF IInv, TypeOK, Problems
  <2> QED
    BY <2>1 DEF Tasks
<1>2. TypeOK'
  <2>1. posted' \in Seq(Tasks)
    BY <1>1, AppendProperties DEF IInv, TypeOK
  <2>2. called' \in 0 .. MaxProblems
    BY ProblemsAssumption DEF IInv, TypeOK
  <2> QED
    BY <2>1, <2>2 DEF IInv, TypeOK
<1>3. TasksInOrder'
  <2>1. /\ DOMAIN posted = 1 .. Len(posted) /\ DOMAIN posted' = 1 .. Len(posted')
        /\ Len(posted') = Len(posted) + 1 /\ Len(posted) \in Nat
        /\ \A i \in 1 .. Len(posted) : posted'[i] = posted[i]
        /\ posted'[Len(posted) + 1] = SendTask(called + 1)
    BY <1>1, <1>2, AppendProperties, LenProperties DEF IInv, TypeOK
  <2> QED
    BY <2>1 DEF IInv, TypeOK, TasksInOrder, SendTask
<1>4. ASSUME NEW d \in Clients PROVE ClientInv(d)'
  BY DEF IInv, TypeOK, ClientInv, OneWrite, Stream, PartAt, Taken, Sent, Connected,
         SessionLife, QueueInOrder, Behind
<1> QED
  BY <1>2, <1>3, <1>4 DEF IInv

\* A call of close() is one task more.
LEMMA CloseInv ==
  ASSUME IInv, Close PROVE IInv'
<1> USE DEF Close, server, network, client, history
<1>1. CloseTask \in Tasks
  BY DEF Tasks
<1>2. TypeOK'
  <2>1. posted' \in Seq(Tasks)
    BY <1>1, AppendProperties DEF IInv, TypeOK
  <2> QED
    BY <2>1 DEF IInv, TypeOK
<1>3. TasksInOrder'
  <2>1. /\ DOMAIN posted = 1 .. Len(posted) /\ DOMAIN posted' = 1 .. Len(posted')
        /\ Len(posted') = Len(posted) + 1 /\ Len(posted) \in Nat
        /\ \A i \in 1 .. Len(posted) : posted'[i] = posted[i]
        /\ posted'[Len(posted) + 1] = CloseTask
    BY <1>1, <1>2, AppendProperties, LenProperties DEF IInv, TypeOK
  <2> QED
    BY <2>1 DEF IInv, TypeOK, TasksInOrder, CloseTask
<1>4. ASSUME NEW d \in Clients PROVE ClientInv(d)'
  BY DEF IInv, TypeOK, ClientInv, OneWrite, Stream, PartAt, Taken, Sent, Connected,
         SessionLife, QueueInOrder, Behind
<1> QED
  BY <1>2, <1>3, <1>4 DEF IInv

-----------------------------------------------------------------------------
(* The handlers of the server.                                             *)

\* A problem goes to the end of the queue of every session in the manager.
LEMMA DoSendMessageInv ==
  ASSUME IInv, DoSendMessage PROVE IInv'
<1> DEFINE p == Head(posted).problem
<1> USE DEF network, client
<1>1. /\ posted \in Seq(Tasks) /\ posted # <<>> /\ alive /\ posted' = Tail(posted)
      /\ broadcast' = broadcast + 1 /\ Head(posted).send
  BY DEF IInv, TypeOK, DoSendMessage
<1>2. /\ Len(posted) \in Nat \ {0} /\ DOMAIN posted = 1 .. Len(posted)
      /\ posted' \in Seq(Tasks) /\ Len(posted') = Len(posted) - 1
      /\ DOMAIN posted' = 1 .. Len(posted')
      /\ \A i \in 1 .. Len(posted') : posted'[i] = posted[i + 1]
      /\ Head(posted) = posted[1]
  BY <1>1, HeadTailProperties, LenProperties, EmptySeq
<1>3. p = broadcast + 1 /\ p <= called /\ p \in Problems
  <2>1. 1 \in DOMAIN posted /\ posted[1].send
    BY <1>1, <1>2
  <2>2. posted[1].problem = broadcast + 1 /\ broadcast + 1 <= called
    BY <2>1 DEF IInv, TasksInOrder
  <2> QED
    BY <2>2, <1>2, ProblemsAssumption DEF IInv, TypeOK, Problems
<1>4. Write(p) \in Operations
  BY <1>3 DEF Write, Operations, Body
<1>5. TypeOK'
  <2>1. writeMsgs' \in [Clients -> Seq(Problems)]
    BY <1>3, AppendProperties DEF IInv, TypeOK, DoSendMessage
  <2>2. writes' \in [Clients -> Seq(Operations)]
    BY <1>4, AppendProperties DEF IInv, TypeOK, DoSendMessage
  <2>3. broadcast' \in 0 .. MaxProblems
    BY <1>1, <1>3, ProblemsAssumption DEF IInv, TypeOK, Problems
  <2> QED
    BY <2>1, <2>2, <2>3, <1>2 DEF IInv, TypeOK, DoSendMessage
<1>6. TasksInOrder'
  <2>1. UNCHANGED <<called, closeCalled>> /\ called \in Nat /\ broadcast \in Nat
    BY DEF IInv, TypeOK, DoSendMessage
  <2>2. ASSUME NEW i \in DOMAIN posted'
        PROVE  IF posted'[i].send
               THEN posted'[i].problem = broadcast' + i /\ broadcast' + i <= called
               ELSE i = Len(posted') /\ closeCalled
    <3>1. i + 1 \in DOMAIN posted /\ posted'[i] = posted[i + 1]
      BY <1>2
    <3>2. IF posted[i + 1].send
          THEN posted[i + 1].problem = broadcast + (i + 1) /\ broadcast + (i + 1) <= called
          ELSE i + 1 = Len(posted) /\ closeCalled
      BY <3>1 DEF IInv, TasksInOrder
    <3> QED
      BY <1>1, <1>2, <2>1, <3>1, <3>2
  <2> QED
    BY <1>1, <1>2, <1>3, <2>1, <2>2 DEF IInv, TasksInOrder
<1>7. ASSUME NEW d \in Clients PROVE ClientInv(d)'
  <2>1. CASE d \notin sessions
    BY SMTT(30), <2>1, <1>1 DEF IInv, TypeOK, ClientInv, OneWrite, Stream, PartAt, Taken, Connected,
           SessionLife, QueueInOrder, Behind, DoSendMessage
  <2>2. CASE d \in sessions
    <3> DEFINE q == writeMsgs[d]
               w == writes[d]
    <3>1. /\ writeMsgs'[d] = Append(q, p) /\ q \in Seq(Problems) /\ w \in Seq(Operations)
          /\ writes'[d] = IF q = <<>> THEN Append(w, Write(p)) ELSE w
      BY <2>2 DEF IInv, TypeOK, DoSendMessage
    <3>2. /\ Len(q) \in Nat /\ Len(Append(q, p)) = Len(q) + 1 /\ Append(q, p) # <<>>
          /\ DOMAIN q = 1 .. Len(q) /\ DOMAIN Append(q, p) = 1 .. Len(q) + 1
          /\ \A i \in 1 .. Len(q) : Append(q, p)[i] = q[i]
          /\ Append(q, p)[Len(q) + 1] = p
          /\ Head(Append(q, p)) = IF q = <<>> THEN p ELSE Head(q)
          /\ (q = <<>> => Len(q) = 0)
      BY <3>1, <1>3, AppendProperties, LenProperties, HeadTailAppend
    <3>3. q = <<>> => /\ w = <<>> /\ Len(Append(w, Write(p))) = 1
                      /\ Append(w, Write(p))[1] = Write(p) /\ Append(w, Write(p)) # <<>>
      <4>1. q = <<>> => w = <<>> /\ Len(w) = 0
        BY <1>1, <2>2, EmptySeq DEF IInv, ClientInv, OneWrite
      <4> QED
        BY <4>1, <3>1, <1>4, AppendProperties
    <3>4. OneWrite(d)'
      BY <3>1, <3>2, <3>3 DEF IInv, ClientInv, OneWrite, Write, DoSendMessage
    <3>5. Stream(d)'
      <4>1. Connected(d)' => Connected(d)
        BY DEF Connected, DoSendMessage
      <4>2. Taken(d)' = Taken(d)
        BY DEF Taken, DoSendMessage
      <4>3. Sent(d)' = Sent(d)
        <5>1. /\ joined' = joined /\ joined[d] \in Int /\ broadcast \in Int
              /\ broadcast' - joined'[d] - Len(writeMsgs'[d])
                   = broadcast - joined[d] - Len(writeMsgs[d])
          <6>1. /\ joined' = joined /\ joined[d] \in Int /\ broadcast \in Int
                /\ Len(writeMsgs'[d]) = Len(writeMsgs[d]) + 1 /\ Len(writeMsgs[d]) \in Nat
            BY <3>1, <3>2 DEF IInv, TypeOK, DoSendMessage
          <6>2. \A b, j, n \in Int : (b + 1) - j - (n + 1) = b - j - n
            OBVIOUS
          <6>3. broadcast' - joined'[d] - Len(writeMsgs'[d])
                  = (broadcast + 1) - joined[d] - (Len(writeMsgs[d]) + 1)
            BY <6>1, <1>1
          <6>4. @ = broadcast - joined[d] - Len(writeMsgs[d])
            BY <6>1, <6>2
          <6> QED
            BY <6>1, <6>3, <6>4
        <5>2. CASE q = <<>>
          BY <5>1, <5>2, <3>1, <3>3 DEF Sent, Write
        <5>3. CASE q # <<>>
          BY <5>1, <5>3, <3>1 DEF Sent
        <5> QED
          BY <5>2, <5>3
      <4> QED
        BY <4>1, <4>2, <4>3 DEF IInv, ClientInv, Stream, DoSendMessage
    <3>6. SessionLife(d)' /\ Behind(d)'
      <4>1. SessionLife(d)'
        BY <2>2 DEF IInv, ClientInv, SessionLife, DoSendMessage
      <4>2. /\ Taken(d)' = Taken(d) /\ UNCHANGED <<joined, wire, got>>
            /\ broadcast \in Nat /\ joined[d] \in Int
        BY DEF IInv, TypeOK, Taken, DoSendMessage
      <4>3. Len(wire[d]) \in Nat /\ Len(got[d]) \in Nat
        BY LenProperties DEF IInv, TypeOK
      <4>4. Taken(d) \in Nat
        BY <4>3, TakenNat
      <4>5. Behind(d)
        BY DEF IInv, ClientInv
      <4>6. Behind(d)'
        BY SMTT(30), <1>1, <4>2, <4>3, <4>4, <4>5 DEF Behind
      <4> QED
        BY <4>1, <4>6
    <3>7. QueueInOrder(d)'
      <4>1. /\ joined[d] + Len(q) <= broadcast /\ joined' = joined
            /\ joined[d] \in Int /\ broadcast \in Nat
            /\ \A i \in DOMAIN q : q[i] = broadcast - Len(q) + i
        BY <2>2 DEF IInv, TypeOK, ClientInv, QueueInOrder, DoSendMessage
      <4>2. joined[d] + Len(writeMsgs'[d]) <= broadcast'
        BY <4>1, <1>1, <3>1, <3>2
      <4>3. ASSUME NEW i \in DOMAIN writeMsgs'[d]
            PROVE  writeMsgs'[d][i] = broadcast' - Len(writeMsgs'[d]) + i
        <5>1. CASE i \in 1 .. Len(q)
          BY SMTT(30), <5>1, <4>1, <1>1, <3>1, <3>2
        <5>2. CASE i = Len(q) + 1
          BY <5>2, <4>1, <1>1, <1>3, <3>1, <3>2
        <5> QED
          BY <5>1, <5>2, <3>1, <3>2
      <4> QED
        BY <4>1, <4>2, <4>3 DEF QueueInOrder
    <3> QED
      BY <3>4, <3>5, <3>6, <3>7 DEF ClientInv
  <2> QED
    BY <2>1, <2>2
<1> QED
  BY <1>5, <1>6, <1>7 DEF IInv

\* A close ends every session.
LEMMA DoCloseInv ==
  ASSUME IInv, DoClose PROVE IInv'
<1> USE DEF network, client, history
<1>1. /\ posted \in Seq(Tasks) /\ posted # <<>> /\ posted' = Tail(posted)
      /\ ~Head(posted).send
  BY DEF IInv, TypeOK, DoClose
<1>2. /\ Len(posted) \in Nat \ {0} /\ DOMAIN posted = 1 .. Len(posted)
      /\ posted' \in Seq(Tasks) /\ Len(posted') = Len(posted) - 1
      /\ DOMAIN posted' = 1 .. Len(posted')
      /\ Head(posted) = posted[1]
  BY <1>1, HeadTailProperties, LenProperties, EmptySeq
<1>3. TypeOK'
  BY <1>2 DEF IInv, TypeOK, DoClose
<1>4. TasksInOrder'
  <2>1. 1 \in DOMAIN posted /\ ~posted[1].send
    BY <1>1, <1>2
  <2>2. Len(posted) = 1 /\ closeCalled
    BY <2>1 DEF IInv, TasksInOrder
  <2>3. DOMAIN posted' = {} /\ closeCalled' /\ UNCHANGED <<called, broadcast>>
    BY <1>2, <2>2 DEF DoClose
  <2> QED
    BY <2>3 DEF IInv, TasksInOrder
<1>5. ASSUME NEW d \in Clients PROVE ClientInv(d)'
  BY DEF IInv, TypeOK, ClientInv, OneWrite, Stream, PartAt, Taken, Connected,
         SessionLife, QueueInOrder, Behind, DoClose
<1> QED
  BY <1>3, <1>4, <1>5 DEF IInv

\* A session starts from nothing.
LEMMA HandleAcceptInv ==
  ASSUME IInv, NEW c \in Clients, HandleAccept(c) PROVE IInv'
<1> USE DEF client
<1>1. TypeOK'
  BY DEF IInv, TypeOK, HandleAccept
<1>2. TasksInOrder'
  BY DEF IInv, TypeOK, TasksInOrder, HandleAccept
<1>3. ASSUME NEW d \in Clients PROVE ClientInv(d)'
  <2>1. CASE d # c
    BY SMTT(30), <2>1 DEF IInv, TypeOK, ClientInv, OneWrite, Stream, PartAt, Taken, Sent, Connected,
           SessionLife, QueueInOrder, Behind, HandleAccept
  <2>2. CASE d = c
    <3>1. /\ writeMsgs[c] = <<>> /\ writes[c] = <<>> /\ wire[c] = <<>> /\ got[c] = <<>>
          /\ phase[c] # "body" /\ joined[c] = NotJoined /\ c \in backlog
      BY DEF IInv, ClientInv, SessionLife, HandleAccept
    <3>2. broadcast \in Nat /\ joined'[c] = broadcast /\ alive /\ open'[c] /\ c \in sessions'
      BY DEF IInv, TypeOK, HandleAccept
    <3> QED
      BY <2>2, <3>1, <3>2
         DEF IInv, TypeOK, ClientInv, OneWrite, Stream, Taken, Sent, Connected,
             SessionLife, QueueInOrder, Behind, NotJoined, HandleAccept
  <2> QED
    BY <2>1, <2>2
<1> QED
  BY <1>1, <1>2, <1>3 DEF IInv

\* An exception ends the server.
LEMMA HandleAcceptThrowsInv ==
  ASSUME IInv, NEW c \in Clients, HandleAcceptThrows(c) PROVE IInv'
<1> USE DEF network, client, history
<1>1. TypeOK' /\ TasksInOrder'
  BY DEF IInv, TypeOK, TasksInOrder, HandleAcceptThrows
<1>2. ASSUME NEW d \in Clients PROVE ClientInv(d)'
  BY DEF IInv, TypeOK, ClientInv, OneWrite, Stream, PartAt, Taken, Connected,
         SessionLife, QueueInOrder, Behind, HandleAcceptThrows
<1> QED
  BY <1>1, <1>2 DEF IInv

\* Whatever operation completes, it is the only one, and sends the front.
LEMMA OnlyWrite ==
  ASSUME IInv, NEW c \in Clients, NEW i \in DOMAIN writes[c]
  PROVE  /\ i = 1 /\ writes[c] # <<>> /\ RemoveAt(writes[c], i) = <<>> /\ Len(writes[c]) = 1
         /\ writeMsgs[c] # <<>> /\ writes[c][1].problem = Head(writeMsgs[c])
         /\ writes[c][1] \in Operations
<1>1. writes[c] \in Seq(Operations) /\ Len(writes[c]) <= 1
  BY DEF IInv, TypeOK, ClientInv, OneWrite
<1>2. i = 1 /\ Len(writes[c]) = 1 /\ RemoveAt(writes[c], i) = <<>>
  BY <1>1, RemoveOnly
<1>3. writes[c] # <<>>
  BY <1>2, EmptySeq
<1>4. writes[c][1] \in Operations
  BY <1>1, <1>2, ElementOfSeq
<1> QED
  BY <1>2, <1>3, <1>4 DEF IInv, ClientInv, OneWrite

\* A message that is written leaves the queue.
LEMMA HandleWrittenInv ==
  ASSUME IInv, NEW c \in Clients, HandleWritten(c) PROVE IInv'
<1> USE DEF network, client, history
<1> DEFINE q == writeMsgs[c]
           rest == Tail(q)
<1>1. PICK i \in DOMAIN writes[c] :
        /\ writes[c][i].sent = Body
        /\ writeMsgs' = [writeMsgs EXCEPT ![c] = rest]
        /\ writes' = [writes EXCEPT ![c] = IF rest = <<>>
                                          THEN RemoveAt(writes[c], i)
                                          ELSE Append(RemoveAt(writes[c], i), Write(Head(rest)))]
  BY DEF HandleWritten
<1>2. /\ i = 1 /\ writes[c] # <<>> /\ RemoveAt(writes[c], i) = <<>>
      /\ q # <<>> /\ q \in Seq(Problems) /\ writes[c] \in Seq(Operations)
  BY OnlyWrite DEF IInv, TypeOK
<1>3. /\ writeMsgs'[c] = rest /\ \A d \in Clients \ {c} : writeMsgs'[d] = writeMsgs[d]
      /\ \A d \in Clients \ {c} : writes'[d] = writes[d]
      /\ writes'[c] = IF rest = <<>> THEN <<>> ELSE Append(<<>>, Write(Head(rest)))
  BY <1>1, <1>2 DEF IInv, TypeOK
<1>4. /\ rest \in Seq(Problems) /\ Len(rest) = Len(q) - 1 /\ Len(q) \in Nat
      /\ DOMAIN rest = 1 .. Len(rest) /\ DOMAIN q = 1 .. Len(q)
      /\ \A j \in 1 .. Len(rest) : rest[j] = q[j + 1]
      /\ (rest # <<>> => Head(rest) \in Problems)
  BY <1>2, HeadTailProperties, LenProperties
<1>5. /\ rest # <<>> => /\ writes'[c] # <<>> /\ Len(writes'[c]) = 1
                        /\ writes'[c][1] = Write(Head(rest))
                        /\ writes'[c] \in Seq(Operations)
      /\ rest = <<>> => writes'[c] = <<>> /\ Len(writes'[c]) = 0
  <2>1. rest # <<>> => Write(Head(rest)) \in Operations
    BY <1>4 DEF Write, Operations, Body
  <2>2. <<>> \in Seq(Operations) /\ Len(<<>>) = 0
    BY EmptySeq
  <2>3. rest # <<>> => writes'[c] = Append(<<>>, Write(Head(rest)))
    BY <1>3
  <2>4. Append(<<>>, Write(Head(rest))) = <<Write(Head(rest))>>
    OBVIOUS
  <2>5. rest # <<>> => /\ writes'[c] = <<Write(Head(rest))>>
                       /\ <<Write(Head(rest))>> \in Seq(Operations)
    BY <2>1, <2>2, <2>3, <2>4, AppendProperties
  <2>6. rest = <<>> => writes'[c] = <<>>
    BY <1>3
  <2>7. ASSUME NEW x PROVE <<x>> # <<>> /\ Len(<<x>>) = 1 /\ <<x>>[1] = x
    OBVIOUS
  <2>8. rest # <<>> => writes'[c] # <<>> /\ Len(writes'[c]) = 1
                      /\ writes'[c][1] = Write(Head(rest))
    BY <2>5, <2>7
  <2> QED
    BY <2>2, <2>5, <2>6, <2>8
<1>6. TypeOK'
  <2>1. writeMsgs' \in [Clients -> Seq(Problems)]
    BY <1>1, <1>4 DEF IInv, TypeOK
  <2>2. writes' \in [Clients -> Seq(Operations)]
    <3>1. writes'[c] \in Seq(Operations)
      BY <1>5, EmptySeq
    <3> QED
      BY <1>1, <3>1 DEF IInv, TypeOK
  <2> QED
    BY <2>1, <2>2 DEF IInv, TypeOK, HandleWritten
<1>7. TasksInOrder'
  BY DEF IInv, TypeOK, TasksInOrder, HandleWritten
<1>8. ASSUME NEW d \in Clients PROVE ClientInv(d)'
  <2>1. CASE d # c
    <3>1. SameClient(d)
      BY <2>1, <1>3 DEF IInv, TypeOK, SameClient, HandleWritten
    <3> QED
      BY <3>1, SameClientInv DEF IInv
  <2>2. CASE d = c
    <3>1. OneWrite(c)'
      BY <1>3, <1>5 DEF OneWrite, Write
    <3>2. Stream(c)'
      <4>1. /\ UNCHANGED <<wire, got, phase, readMsg, joined, broadcast, sessions, alive, lost>>
            /\ broadcast \in Int /\ joined[c] \in Int
        BY DEF IInv, TypeOK, HandleWritten
      <4>2. Sent(c)' = Sent(c)
        <5>1. Sent(c) = 2 * (broadcast - joined[c] - Len(q)) + 2
          BY <1>1, <1>2 DEF Sent, Body
        <5>2. CASE rest = <<>>
          <6>1. Sent(c)' = 2 * (broadcast - joined[c] - Len(rest)) + 0
            BY <4>1, <5>2, <1>3 DEF Sent
          <6> QED
            BY <4>1, <5>1, <6>1, <1>4
        <5>3. CASE rest # <<>>
          <6>1. Sent(c)' = 2 * (broadcast - joined[c] - Len(rest)) + 0
            BY <4>1, <5>3, <1>3, <1>5 DEF Sent, Write
          <6> QED
            BY <4>1, <5>1, <6>1, <1>4
        <5> QED
          BY <5>2, <5>3
      <4>3. Taken(c)' = Taken(c)
        BY <4>1 DEF Taken
      <4> QED
        BY <4>1, <4>2, <4>3 DEF IInv, ClientInv, Stream, Connected
    <3>3. SessionLife(c)' /\ Behind(c)'
      BY <1>2 DEF IInv, ClientInv, SessionLife, Behind, Taken, HandleWritten
    <3>4. QueueInOrder(c)'
      <4>1. /\ UNCHANGED <<joined, broadcast, sessions>> /\ broadcast \in Int /\ joined[c] \in Int
        BY DEF IInv, TypeOK, HandleWritten
      <4>2. QueueInOrder(c)
        BY DEF IInv, ClientInv
      <4>3. ASSUME c \in sessions'
            PROVE  /\ joined'[c] + Len(writeMsgs'[c]) <= broadcast'
                   /\ \A j \in DOMAIN writeMsgs'[c] :
                        writeMsgs'[c][j] = broadcast' - Len(writeMsgs'[c]) + j
        <5>1. /\ joined[c] + Len(q) <= broadcast
              /\ \A j \in DOMAIN q : q[j] = broadcast - Len(q) + j
          BY <4>1, <4>2, <4>3 DEF QueueInOrder
        <5>2. ASSUME NEW j \in DOMAIN rest PROVE rest[j] = broadcast - Len(rest) + j
          <6>1. j + 1 \in DOMAIN q /\ rest[j] = q[j + 1] /\ j \in Nat
            BY <1>4
          <6>2. q[j + 1] = broadcast - Len(q) + (j + 1)
            BY <5>1, <6>1
          <6>3. \A b, n, k \in Int : b - n + (k + 1) = b - (n - 1) + k
            OBVIOUS
          <6>4. broadcast - Len(q) + (j + 1) = broadcast - (Len(q) - 1) + j
            BY <6>1, <6>3, <1>4, <4>1
          <6> QED
            BY <6>1, <6>2, <6>4, <1>4
        <5>3. joined[c] + Len(rest) <= broadcast
          BY <5>1, <4>1, <1>4
        <5> QED
          BY <5>2, <5>3, <1>3, <4>1
      <4> QED
        BY <4>3 DEF QueueInOrder
    <3> QED
      BY <2>2, <3>1, <3>2, <3>3, <3>4 DEF ClientInv
  <2> QED
    BY <2>1, <2>2
<1> QED
  BY <1>6, <1>7, <1>8 DEF IInv

\* A session that cannot write leaves the manager.
LEMMA HandleWriteErrorInv ==
  ASSUME IInv, NEW c \in Clients, HandleWriteError(c) PROVE IInv'
<1> USE DEF network, client, history
<1>1. PICK i \in DOMAIN writes[c] :
        writes' = [writes EXCEPT ![c] = RemoveAt(writes[c], i)]
  BY DEF HandleWriteError
<1>2. /\ writes[c] # <<>> /\ RemoveAt(writes[c], i) = <<>> /\ writeMsgs[c] # <<>>
  BY OnlyWrite
<1>3. /\ writes'[c] = <<>> /\ Len(<<>>) = 0 /\ <<>> \in Seq(Operations)
      /\ \A d \in Clients \ {c} : writes'[d] = writes[d]
      /\ c \notin sessions' /\ ~open'[c]
  BY <1>1, <1>2, EmptySeq DEF IInv, TypeOK, HandleWriteError
<1>4. TypeOK'
  <2>1. writes' \in [Clients -> Seq(Operations)]
    BY <1>1, <1>3 DEF IInv, TypeOK
  <2> QED
    BY <2>1 DEF IInv, TypeOK, HandleWriteError
<1>5. TasksInOrder'
  BY DEF IInv, TypeOK, TasksInOrder, HandleWriteError
<1>6. ASSUME NEW d \in Clients PROVE ClientInv(d)'
  <2>1. CASE d # c
    <3>1. SameClient(d)
      BY <2>1, <1>3 DEF IInv, TypeOK, SameClient, HandleWriteError
    <3> QED
      BY <3>1, SameClientInv DEF IInv
  <2>2. CASE d = c
    BY <2>2, <1>2, <1>3 DEF IInv, TypeOK, ClientInv, OneWrite, Stream, PartAt, Taken,
           Connected, SessionLife, QueueInOrder, Behind, HandleWriteError
  <2> QED
    BY <2>1, <2>2
<1> QED
  BY <1>4, <1>5, <1>6 DEF IInv

-----------------------------------------------------------------------------
(* The operating system and the network.                                   *)

\* A part is put on the wire.
LEMMA TransmitInv ==
  ASSUME IInv, NEW c \in Clients, Transmit(c) PROVE IInv'
<1> USE DEF client, history
<1> DEFINE w == writes[c][1]
           s == wire[c]
           part == Part(w.problem, w.sent + 1)
<1>1. PICK i \in DOMAIN writes[c] :
        /\ writes[c][i].sent < Body
        /\ writes' = [writes EXCEPT ![c][i].sent = @ + 1]
        /\ wire' = [wire EXCEPT ![c] =
                      IF lost[c] \/ phase[c] = "stopped"
                      THEN @
                      ELSE Append(@, Part(writes[c][i].problem, writes[c][i].sent + 1))]
  BY DEF Transmit
<1>2. /\ i = 1 /\ writes[c] # <<>> /\ Len(writes[c]) = 1 /\ w \in Operations
      /\ w.problem = Head(writeMsgs[c]) /\ writeMsgs[c] # <<>>
      /\ writes[c] \in Seq(Operations) /\ s \in Seq(Parts)
  BY OnlyWrite DEF IInv, TypeOK
<1>3. w.sent \in {0, 1} /\ w.problem \in Problems
  BY <1>1, <1>2 DEF Operations, Body
<1>4. part \in Parts
  BY <1>3 DEF Parts, Part, Header, Body
<1>5. /\ writes'[c] \in Seq(Operations) /\ Len(writes'[c]) = 1 /\ writes'[c] # <<>>
      /\ writes'[c][1].sent = w.sent + 1 /\ writes'[c][1].problem = w.problem
  <2> DEFINE v == [w EXCEPT !.sent = @ + 1]
  <2>1. v \in Operations /\ v.sent = w.sent + 1 /\ v.problem = w.problem
    BY <1>2, <1>3 DEF Operations, Body
  <2>2. writes'[c] = [writes[c] EXCEPT ![1] = v]
    BY <1>1, <1>2 DEF IInv, TypeOK
  <2>3. /\ writes'[c] \in Seq(Operations) /\ Len(writes'[c]) = 1 /\ writes'[c][1] = v
    BY <1>2, <2>1, <2>2, ExceptSeq
  <2> QED
    BY <2>1, <2>3, EmptySeq
<1>6. /\ \A d \in Clients \ {c} : writes'[d] = writes[d] /\ wire'[d] = wire[d]
      /\ wire'[c] = IF lost[c] \/ phase[c] = "stopped" THEN s ELSE Append(s, part)
  BY <1>1, <1>2 DEF IInv, TypeOK
<1>7. /\ Len(s) \in Nat /\ DOMAIN s = 1 .. Len(s) /\ Append(s, part) \in Seq(Parts)
      /\ Len(Append(s, part)) = Len(s) + 1 /\ DOMAIN Append(s, part) = 1 .. Len(s) + 1
      /\ \A j \in 1 .. Len(s) : Append(s, part)[j] = s[j]
      /\ Append(s, part)[Len(s) + 1] = part
  BY <1>2, <1>4, AppendProperties, LenProperties
<1>8. TypeOK'
  <2>1. writes' \in [Clients -> Seq(Operations)]
    BY <1>1, <1>5 DEF IInv, TypeOK
  <2>2. wire' \in [Clients -> Seq(Parts)]
    BY <1>1, <1>2, <1>6, <1>7 DEF IInv, TypeOK
  <2> QED
    BY <2>1, <2>2 DEF IInv, TypeOK, Transmit
<1>9. TasksInOrder'
  BY DEF IInv, TypeOK, TasksInOrder, Transmit
<1>10. ASSUME NEW d \in Clients PROVE ClientInv(d)'
  <2>1. CASE d # c
    <3>1. SameClient(d)
      BY <2>1, <1>6 DEF IInv, TypeOK, SameClient, Transmit
    <3> QED
      BY <3>1, SameClientInv DEF IInv
  <2>2. CASE d = c
    <3>1. /\ UNCHANGED <<phase, readMsg, got, joined, broadcast, sessions, alive, lost,
                        writeMsgs, open, backlog>>
          /\ broadcast \in Int /\ joined[c] \in Int /\ c \in sessions /\ alive
      BY DEF IInv, TypeOK, ClientInv, SessionLife, Transmit
    <3>2. OneWrite(c) /\ Stream(c) /\ SessionLife(c) /\ QueueInOrder(c) /\ Behind(c)
      BY DEF IInv, ClientInv
    <3>3. joined[c] # NotJoined /\ 0 <= joined[c]
      BY <3>1, <3>2 DEF SessionLife, Behind
    <3>4. Taken(c)' = Taken(c) /\ (Connected(c)' <=> Connected(c))
      BY <3>1 DEF Taken, Connected
    <3>5. Len(got[c]) \in Nat /\ Taken(c) \in Nat
      BY TakenNat, LenProperties DEF IInv, TypeOK
    <3>6. Len(writeMsgs[c]) \in Nat \ {0} /\ Head(writeMsgs[c]) = writeMsgs[c][1]
          /\ 1 \in DOMAIN writeMsgs[c]
      BY SMTT(30), <1>2, LenProperties, EmptySeq, HeadTailProperties DEF IInv, TypeOK
    <3> DEFINE n == broadcast - joined[c] - Len(writeMsgs[c])
    <3>7. n \in Nat
      BY <3>1, <3>2, <3>6 DEF QueueInOrder
    <3>8. w.problem = joined[c] + n + 1
      <4>1. w.problem = broadcast - Len(writeMsgs[c]) + 1
        BY <1>2, <3>1, <3>2, <3>6 DEF QueueInOrder
      <4> QED
        BY <4>1, <3>1, <3>6
    <3>9. Sent(c) = 2 * n + w.sent /\ Sent(c)' = 2 * n + (w.sent + 1)
      BY <1>2, <1>5, <3>1 DEF Sent
    <3> HIDE DEF n
    <3>10. OneWrite(c)'
      BY <1>2, <1>5, <3>1, <3>2 DEF OneWrite
    <3>11. SessionLife(c)'
      BY <1>2, <3>1, <3>2, <3>3 DEF SessionLife
    <3>12. QueueInOrder(c)'
      BY <3>1, <3>2 DEF QueueInOrder
    <3>13. CASE lost[c] \/ phase[c] = "stopped"
      <4>1. Stream(c)'
        BY <1>6, <3>1, <3>2, <3>4, <3>13 DEF Stream, Connected, PartAt
      <4>2. Behind(c)'
        BY <1>6, <3>1, <3>2, <3>4, <3>13 DEF Behind
      <4> QED
        BY <2>2, <3>10, <3>11, <3>12, <4>1, <4>2 DEF ClientInv
    <3>14. CASE ~(lost[c] \/ phase[c] = "stopped")
      <4>1. Taken(c) + Len(s) = 2 * n + w.sent
        BY <3>1, <3>2, <3>9, <3>14 DEF Stream, Connected
      <4>2. wire'[c] = Append(s, part)
        BY <1>6, <3>14
      <4>a. Taken(c) + (Len(s) + 1) = 2 * n + (w.sent + 1)
        <5>1. \A t, l, k, m \in Int : t + l = k + m => t + (l + 1) = k + (m + 1)
          OBVIOUS
        <5>2. Taken(c) \in Int /\ Len(s) \in Int /\ 2 * n \in Int /\ w.sent \in Int
          BY <3>5, <3>7, <1>3, <1>7
        <5> HIDE DEF s, w
        <5> QED
          BY <5>1, <5>2, <4>1
      <4>3. part = PartAt(joined[c], Taken(c) + (Len(s) + 1))
        <5>1. CASE w.sent = 0
          <6>1. Taken(c) + (Len(s) + 1) = 2 * n + 1
            BY <5>1, <4>1, <1>7, <3>5, <3>7
          <6>2. part = Part(joined[c] + n + 1, Header)
            BY <5>1, <3>8 DEF Header
          <6> QED
            BY <6>1, <6>2, <3>1, <3>7, OddPart
        <5>2. CASE w.sent = 1
          <6>1. Taken(c) + (Len(s) + 1) = 2 * n + 2
            BY <5>2, <4>1, <1>7, <3>5, <3>7
          <6>2. part = Part(joined[c] + n + 1, Body)
            BY <5>2, <3>8 DEF Body
          <6> QED
            BY <6>1, <6>2, <3>1, <3>7, EvenPart
        <5> QED
          BY <5>1, <5>2, <1>3
      <4>4. Stream(c)'
        <5>1. ASSUME NEW j \in DOMAIN wire'[c]
              PROVE  wire'[c][j] = PartAt(joined[c], Taken(c) + j)
          BY <4>2, <4>3, <1>7, <3>2 DEF Stream
        <5>2. Taken(c) + Len(wire'[c]) = Sent(c)'
          BY <4>2, <4>a, <3>9, <1>7
        <5> QED
          BY <5>1, <5>2, <3>1, <3>2, <3>4 DEF Stream, PartAt
      <4>5. Behind(c)'
        <5>1. 2 * n + (w.sent + 1) <= 2 * (broadcast - joined[c])
          BY SMTT(30), <3>1, <3>6, <1>3 DEF n
        <5>2. Taken(c) + Len(wire'[c]) <= 2 * (broadcast - joined[c])
          <6>1. Len(wire'[c]) = Len(s) + 1
            BY <4>2, <1>7
          <6> QED
            BY <6>1, <4>a, <5>1
        <5> QED
          BY <5>2, <3>1, <3>2, <3>3, <3>4 DEF Behind
      <4> QED
        BY <2>2, <3>10, <3>11, <3>12, <4>4, <4>5 DEF ClientInv
    <3> QED
      BY <3>13, <3>14
  <2> QED
    BY <2>1, <2>2
<1> QED
  BY <1>8, <1>9, <1>10 DEF IInv

\* A connection that breaks loses what is on its wire.
LEMMA LoseInv ==
  ASSUME IInv, NEW c \in Clients, Lose(c) PROVE IInv'
<1> USE DEF server, client, history
<1> DEFINE s == wire[c]
<1>1. PICK n \in 0 .. Len(s) : wire' = [wire EXCEPT ![c] = SubSeq(s, 1, n)]
  BY DEF Lose
<1>2. s \in Seq(Parts) /\ Len(s) \in Nat /\ DOMAIN s = 1 .. Len(s)
      /\ \A j \in 1 .. Len(s) : s[j] \in Parts
  BY LenProperties, ElementOfSeq DEF IInv, TypeOK
<1>3. /\ wire'[c] \in Seq(Parts) /\ Len(wire'[c]) = n /\ DOMAIN wire'[c] = 1 .. n
      /\ \A j \in 1 .. n : wire'[c][j] = s[j]
      /\ \A d \in Clients \ {c} : wire'[d] = wire[d]
  <2>1. wire'[c] = SubSeq(s, 1, n) /\ \A d \in Clients \ {c} : wire'[d] = wire[d]
    BY <1>1 DEF IInv, TypeOK
  <2>2. \A j \in 1 .. n : s[j] \in Parts
    BY <1>2
  <2>3. /\ SubSeq(s, 1, n) \in Seq(Parts) /\ Len(SubSeq(s, 1, n)) = n
        /\ \A j \in 1 .. n : SubSeq(s, 1, n)[j] = s[j]
    BY <1>2, <2>2, SubSeqProperties
  <2> QED
    BY <2>1, <2>3, LenProperties
<1>4. TypeOK'
  <2>1. wire' \in [Clients -> Seq(Parts)]
    BY <1>1, <1>3 DEF IInv, TypeOK
  <2> QED
    BY <2>1 DEF IInv, TypeOK, Lose
<1>5. TasksInOrder'
  BY DEF IInv, TypeOK, TasksInOrder, Lose
<1>6. ASSUME NEW d \in Clients PROVE ClientInv(d)'
  <2>1. CASE d # c
    <3>1. SameClient(d)
      BY <2>1, <1>3 DEF IInv, TypeOK, SameClient, Lose
    <3> QED
      BY <3>1, SameClientInv DEF IInv
  <2>2. CASE d = c
    <3>1. /\ UNCHANGED <<phase, readMsg, got, joined, broadcast, sessions, alive,
                        writeMsgs, writes, open, backlog>>
          /\ broadcast \in Int /\ joined[c] \in Int /\ lost'[c]
      BY DEF IInv, TypeOK, Lose
    <3>2. OneWrite(c) /\ Stream(c) /\ SessionLife(c) /\ QueueInOrder(c) /\ Behind(c)
      BY DEF IInv, ClientInv
    <3>3. Taken(c)' = Taken(c) /\ ~Connected(c)'
      BY <3>1 DEF Taken, Connected
    <3>4. OneWrite(c)' /\ QueueInOrder(c)'
      BY <3>1, <3>2 DEF OneWrite, QueueInOrder
    <3>5. SessionLife(c)'
      <4>1. s = <<>> => wire'[c] = <<>>
        BY <1>2, <1>3, EmptySeq
      <4> QED
        BY <4>1, <3>1, <3>2 DEF SessionLife
    <3>6. Stream(c)'
      BY <1>2, <1>3, <3>1, <3>2, <3>3 DEF Stream, PartAt
    <3>7. Behind(c)'
      <4>1. Taken(c) \in Nat
        BY TakenNat, LenProperties DEF IInv, TypeOK
      <4>2. Taken(c) + Len(wire'[c]) <= Taken(c) + Len(wire[c])
        BY <4>1, <1>2, <1>3
      <4>3. Taken(c) + Len(wire'[c]) \in Int /\ Taken(c) + Len(wire[c]) \in Int
        BY <4>1, <1>2, <1>3
      <4>4. joined[c] # NotJoined => Taken(c) + Len(wire'[c]) <= 2 * (broadcast - joined[c])
        BY <4>2, <4>3, <3>1, <3>2 DEF Behind
      <4> QED
        BY <4>4, <3>1, <3>2, <3>3 DEF Behind
    <3> QED
      BY <2>2, <3>4, <3>5, <3>6, <3>7 DEF ClientInv
  <2> QED
    BY <2>1, <2>2
<1> QED
  BY <1>4, <1>5, <1>6 DEF IInv

-----------------------------------------------------------------------------
(* The handlers of the clients.                                            *)

\* A client starts with a header.
LEMMA HandleConnectInv ==
  ASSUME IInv, NEW c \in Clients, HandleConnect(c) \/ HandleConnectError(c) PROVE IInv'
<1> USE DEF HandleConnect, HandleConnectError, server, network, history
<1>1. TypeOK' /\ TasksInOrder'
  <2>1. /\ phase' \in [Clients -> {"connecting", "header", "body", "stopped"}]
        /\ backlog' \in SUBSET Clients
    BY DEF IInv, TypeOK
  <2>2. TypeOK'
    BY <2>1 DEF IInv, TypeOK
  <2>3. TasksInOrder'
    BY DEF IInv, TasksInOrder
  <2> QED
    BY <2>2, <2>3
<1>2. ASSUME NEW d \in Clients PROVE ClientInv(d)'
  <2>1. CASE d # c
    <3>1. SameClient(d)
      BY <2>1 DEF IInv, TypeOK, SameClient
    <3> QED
      BY <3>1, SameClientInv DEF IInv
  <2>2. CASE d = c
    <3>1. /\ UNCHANGED <<readMsg, got, joined, broadcast, sessions, alive, wire, lost,
                        writeMsgs, writes, open>>
          /\ phase[c] = "connecting" /\ phase'[c] \in {"header", "stopped"}
          /\ phase'[c] = "stopped" => backlog' = backlog
      BY DEF IInv, TypeOK
    <3>2. OneWrite(c) /\ Stream(c) /\ SessionLife(c) /\ QueueInOrder(c) /\ Behind(c)
      BY DEF IInv, ClientInv
    <3>3. joined[c] = NotJoined /\ c \notin sessions /\ Taken(c)' = Taken(c)
      BY <3>1, <3>2 DEF SessionLife, Taken
    <3> QED
      BY <2>2, <3>1, <3>2, <3>3 DEF ClientInv, OneWrite, Stream, PartAt, Connected,
             SessionLife, QueueInOrder, Behind
  <2> QED
    BY <2>1, <2>2
<1> QED
  BY <1>1, <1>2 DEF IInv

\* Reading takes the head of the wire.
LEMMA ReadWire ==
  ASSUME IInv, NEW c \in Clients, wire[c] # <<>>,
         wire' = [wire EXCEPT ![c] = Tail(wire[c])]
  PROVE  /\ wire' \in [Clients -> Seq(Parts)]
         /\ \A d \in Clients \ {c} : wire'[d] = wire[d]
         /\ Head(wire[c]) = wire[c][1] /\ 1 \in DOMAIN wire[c]
         /\ wire[c][1].problem \in Problems
         /\ Len(wire[c]) \in Nat \ {0} /\ Len(wire'[c]) = Len(wire[c]) - 1
         /\ DOMAIN wire[c] = 1 .. Len(wire[c]) /\ DOMAIN wire'[c] = 1 .. Len(wire'[c])
         /\ \A j \in 1 .. Len(wire'[c]) : wire'[c][j] = wire[c][j + 1]
<1>1. wire[c] \in Seq(Parts) /\ wire'[c] = Tail(wire[c])
      /\ \A d \in Clients \ {c} : wire'[d] = wire[d]
  BY DEF IInv, TypeOK
<1>2. /\ Tail(wire[c]) \in Seq(Parts) /\ Len(Tail(wire[c])) = Len(wire[c]) - 1
      /\ \A j \in 1 .. Len(Tail(wire[c])) : Tail(wire[c])[j] = wire[c][j + 1]
      /\ Len(wire[c]) \in Nat \ {0} /\ DOMAIN wire[c] = 1 .. Len(wire[c])
      /\ DOMAIN Tail(wire[c]) = 1 .. Len(Tail(wire[c]))
      /\ Head(wire[c]) = wire[c][1]
  BY <1>1, HeadTailProperties, LenProperties, EmptySeq
<1>3. 1 \in DOMAIN wire[c] /\ wire[c][1] \in Parts
  BY <1>1, <1>2, ElementOfSeq
<1> QED
  BY <1>1, <1>2, <1>3 DEF IInv, TypeOK, Parts

\* After a header the client reads a body.
LEMMA HandleReadHeaderInv ==
  ASSUME IInv, NEW c \in Clients, HandleReadHeader(c) PROVE IInv'
<1> USE DEF server, history
<1>1. /\ wire' \in [Clients -> Seq(Parts)] /\ \A d \in Clients \ {c} : wire'[d] = wire[d]
      /\ Head(wire[c]) = wire[c][1] /\ 1 \in DOMAIN wire[c] /\ wire[c][1].problem \in Problems
      /\ Len(wire[c]) \in Nat \ {0} /\ Len(wire'[c]) = Len(wire[c]) - 1
      /\ DOMAIN wire[c] = 1 .. Len(wire[c]) /\ DOMAIN wire'[c] = 1 .. Len(wire'[c])
      /\ \A j \in 1 .. Len(wire'[c]) : wire'[c][j] = wire[c][j + 1]
  BY ReadWire DEF HandleReadHeader
<1>2. TypeOK'
  BY <1>1 DEF IInv, TypeOK, HandleReadHeader, Problems
<1>3. TasksInOrder'
  BY DEF IInv, TypeOK, TasksInOrder, HandleReadHeader
<1>4. ASSUME NEW d \in Clients PROVE ClientInv(d)'
  <2>1. CASE d # c
    <3>1. SameClient(d)
      BY <2>1, <1>1 DEF IInv, TypeOK, SameClient, HandleReadHeader
    <3> QED
      BY <3>1, SameClientInv DEF IInv
  <2>2. CASE d = c
    <3>1. /\ UNCHANGED <<got, joined, broadcast, sessions, alive, lost,
                        writeMsgs, writes, open, backlog>>
          /\ phase[c] = "header" /\ phase'[c] = "body" /\ wire[c] # <<>>
          /\ readMsg'[c] = Head(wire[c]).problem
          /\ broadcast \in Int /\ joined[c] \in Int
      BY DEF IInv, TypeOK, HandleReadHeader
    <3>2. OneWrite(c) /\ Stream(c) /\ SessionLife(c) /\ QueueInOrder(c) /\ Behind(c)
      BY DEF IInv, ClientInv
    <3>3. Len(got[c]) \in Nat /\ Taken(c) \in Nat /\ Taken(c) = 2 * Len(got[c])
          /\ Taken(c)' = Taken(c) + 1
      <4>1. Len(got[c]) \in Nat
        BY LenProperties DEF IInv, TypeOK
      <4>2. Taken(c) \in Nat /\ Taken(c) = 2 * Len(got[c])
        BY <3>1, <4>1, TakenNat
      <4>3. Taken(c)' = 2 * Len(got[c]) + 1
        BY <3>1 DEF Taken
      <4> QED
        BY <4>1, <4>2, <4>3
    <3>4. joined[c] # NotJoined
      BY <3>1, <3>2 DEF SessionLife
    <3>5. readMsg'[c] = joined[c] + Len(got[c]) + 1
      <4>1. wire[c][1] = PartAt(joined[c], Taken(c) + 1)
        BY <1>1, <3>2 DEF Stream
      <4>2. @ = Part(joined[c] + Len(got[c]) + 1, Header)
        BY <3>1, <3>3, OddPart
      <4> QED
        BY <4>1, <4>2, <3>1, <1>1 DEF Part
    <3>9. Taken(c)' + Len(wire'[c]) = Taken(c) + Len(wire[c])
      <4>1. \A t, l \in Int : (t + 1) + (l - 1) = t + l
        OBVIOUS
      <4>2. Taken(c)' + Len(wire'[c]) = (Taken(c) + 1) + (Len(wire[c]) - 1)
        BY <1>1, <3>3
      <4>3. Taken(c) \in Int /\ Len(wire[c]) \in Int
        BY <1>1, <3>3
      <4> QED
        BY <4>1, <4>2, <4>3
    <3>6. Stream(c)'
      <4>1. ASSUME NEW j \in DOMAIN wire'[c]
            PROVE  wire'[c][j] = PartAt(joined[c], Taken(c)' + j)
        <5>1. wire'[c][j] = wire[c][j + 1] /\ j + 1 \in DOMAIN wire[c] /\ j \in Nat
          BY <1>1
        <5>2. wire[c][j + 1] = PartAt(joined[c], Taken(c) + (j + 1))
          BY <5>1, <3>2 DEF Stream
        <5>3. Taken(c) + (j + 1) = Taken(c)' + j
          BY <5>1, <3>3
        <5> QED
          BY <5>1, <5>2, <5>3
      <4>2. Sent(c)' = Sent(c) /\ (Connected(c)' => Connected(c))
        BY <3>1 DEF Sent, Connected
      <4> QED
        BY <4>1, <4>2, <3>9, <3>1, <3>2, <3>5 DEF Stream, PartAt
    <3>7. Behind(c)'
      BY <3>9, <3>1, <3>2 DEF Behind
    <3>8. OneWrite(c)' /\ SessionLife(c)' /\ QueueInOrder(c)'
      BY <3>1, <3>2, <3>4 DEF OneWrite, SessionLife, QueueInOrder
    <3> QED
      BY <2>2, <3>6, <3>7, <3>8 DEF ClientInv
  <2> QED
    BY <2>1, <2>2
<1> QED
  BY <1>2, <1>3, <1>4 DEF IInv

\* After a body the client has one problem more, the next one.
LEMMA HandleReadBodyInv ==
  ASSUME IInv, NEW c \in Clients, HandleReadBody(c) PROVE IInv'
<1> USE DEF server, history
<1> DEFINE g == got[c]
           p == wire[c][1].problem
<1>1. /\ wire' \in [Clients -> Seq(Parts)] /\ \A d \in Clients \ {c} : wire'[d] = wire[d]
      /\ Head(wire[c]) = wire[c][1] /\ 1 \in DOMAIN wire[c] /\ p \in Problems
      /\ Len(wire[c]) \in Nat \ {0} /\ Len(wire'[c]) = Len(wire[c]) - 1
      /\ DOMAIN wire[c] = 1 .. Len(wire[c]) /\ DOMAIN wire'[c] = 1 .. Len(wire'[c])
      /\ \A j \in 1 .. Len(wire'[c]) : wire'[c][j] = wire[c][j + 1]
  BY ReadWire DEF HandleReadBody
<1>2. /\ g \in Seq(Problems) /\ got'[c] = Append(g, p)
      /\ \A d \in Clients \ {c} : got'[d] = got[d]
  BY <1>1 DEF IInv, TypeOK, HandleReadBody
<1>3. /\ Append(g, p) \in Seq(Problems) /\ Len(g) \in Nat /\ Len(Append(g, p)) = Len(g) + 1
      /\ DOMAIN g = 1 .. Len(g) /\ DOMAIN Append(g, p) = 1 .. Len(g) + 1
      /\ \A j \in 1 .. Len(g) : Append(g, p)[j] = g[j]
      /\ Append(g, p)[Len(g) + 1] = p
  BY <1>1, <1>2, AppendProperties, LenProperties
<1>4. TypeOK'
  <2>1. got' \in [Clients -> Seq(Problems)]
    BY <1>1, <1>3 DEF IInv, TypeOK, HandleReadBody
  <2>2. phase' \in [Clients -> {"connecting", "header", "body", "stopped"}]
    BY DEF IInv, TypeOK, HandleReadBody
  <2> QED
    BY <1>1, <2>1, <2>2 DEF IInv, TypeOK, HandleReadBody
<1>5. TasksInOrder'
  BY DEF IInv, TypeOK, TasksInOrder, HandleReadBody
<1>6. ASSUME NEW d \in Clients PROVE ClientInv(d)'
  <2>1. CASE d # c
    <3>1. SameClient(d)
      BY <2>1, <1>1, <1>2 DEF IInv, TypeOK, SameClient, HandleReadBody
    <3> QED
      BY <3>1, SameClientInv DEF IInv
  <2>2. CASE d = c
    <3>1. /\ UNCHANGED <<readMsg, joined, broadcast, sessions, alive, lost,
                        writeMsgs, writes, open, backlog>>
          /\ phase[c] = "body" /\ phase'[c] = "header" /\ wire[c] # <<>>
          /\ broadcast \in Int /\ joined[c] \in Int
      BY DEF IInv, TypeOK, HandleReadBody
    <3>2. OneWrite(c) /\ Stream(c) /\ SessionLife(c) /\ QueueInOrder(c) /\ Behind(c)
      BY DEF IInv, ClientInv
    <3>3. Taken(c) \in Nat /\ Taken(c) = 2 * Len(g) + 1 /\ Taken(c)' = Taken(c) + 1
      <4>1. Taken(c) \in Nat /\ Taken(c) = 2 * Len(g) + 1
        BY <3>1, <1>3, TakenNat
      <4>2. Taken(c)' = 2 * (Len(g) + 1) + 0
        BY <3>1, <1>2, <1>3 DEF Taken
      <4> QED
        BY <4>1, <4>2, <1>3
    <3>4. joined[c] # NotJoined
      BY <3>1, <3>2 DEF SessionLife
    <3>5. Taken(c)' + Len(wire'[c]) = Taken(c) + Len(wire[c])
      <4>1. \A t, l \in Int : (t + 1) + (l - 1) = t + l
        OBVIOUS
      <4>2. Taken(c)' + Len(wire'[c]) = (Taken(c) + 1) + (Len(wire[c]) - 1)
        BY <1>1, <3>3
      <4>3. Taken(c) \in Int /\ Len(wire[c]) \in Int
        BY <1>1, <3>3
      <4> QED
        BY <4>1, <4>2, <4>3
    <3>6. p = joined[c] + (Len(g) + 1)
      <4>1. wire[c][1] = PartAt(joined[c], Taken(c) + 1)
        BY <1>1, <3>2 DEF Stream
      <4>2. Taken(c) + 1 = 2 * Len(g) + 2
        BY <3>3, <1>3
      <4>3. wire[c][1] = Part(joined[c] + Len(g) + 1, Body)
        BY <4>1, <4>2, <3>1, <1>3, EvenPart
      <4> QED
        BY <4>3, <3>1, <1>3 DEF Part
    <3>7. Stream(c)'
      <4>1. ASSUME NEW j \in DOMAIN wire'[c]
            PROVE  wire'[c][j] = PartAt(joined[c], Taken(c)' + j)
        <5>1. wire'[c][j] = wire[c][j + 1] /\ j + 1 \in DOMAIN wire[c] /\ j \in Nat
          BY <1>1
        <5>2. wire[c][j + 1] = PartAt(joined[c], Taken(c) + (j + 1))
          BY <5>1, <3>2 DEF Stream
        <5>3. Taken(c) + (j + 1) = Taken(c)' + j
          BY <5>1, <3>3
        <5> QED
          BY <5>1, <5>2, <5>3
      <4>2. Sent(c)' = Sent(c) /\ (Connected(c)' => Connected(c))
        BY <3>1 DEF Sent, Connected
      <4> QED
        BY <4>1, <4>2, <3>5, <3>1, <3>2 DEF Stream, PartAt
    <3>8. Behind(c)'
      <4>1. ASSUME NEW j \in DOMAIN got'[c] PROVE got'[c][j] = joined[c] + j
        <5>1. CASE j = Len(g) + 1
          BY <5>1, <3>6, <1>2, <1>3
        <5>2. CASE j \in 1 .. Len(g)
          BY <5>2, <3>2, <1>2, <1>3 DEF Behind
        <5> QED
          BY <5>1, <5>2, <1>2, <1>3
      <4> QED
        BY <4>1, <3>5, <3>1, <3>2 DEF Behind
    <3>9. OneWrite(c)' /\ SessionLife(c)' /\ QueueInOrder(c)'
      BY <3>1, <3>2, <3>4 DEF OneWrite, SessionLife, QueueInOrder
    <3> QED
      BY <2>2, <3>7, <3>8, <3>9 DEF ClientInv
  <2> QED
    BY <2>1, <2>2
<1> QED
  BY <1>4, <1>5, <1>6 DEF IInv

\* The two ways a client stops: after either nothing is left on its wire.
LEMMA StopInv ==
  ASSUME IInv, NEW c \in Clients, HandleReadError(c) \/ ClientClose(c) PROVE IInv'
<1> USE DEF HandleReadError, ClientClose, server, network, history
<1>1. /\ wire'[c] = <<>> /\ \A d \in Clients \ {c} : wire'[d] = wire[d]
      /\ wire' \in [Clients -> Seq(Parts)]
      /\ phase'[c] = "stopped" /\ phase[c] # "stopped"
  <2>1. /\ wire \in [Clients -> Seq(Parts)] /\ <<>> \in Seq(Parts)
        /\ phase \in [Clients -> {"connecting", "header", "body", "stopped"}]
    BY EmptySeq DEF IInv, TypeOK
  <2>2. CASE HandleReadError(c)
    BY <2>1, <2>2
  <2>3. CASE ClientClose(c)
    BY <2>1, <2>3
  <2> QED
    BY <2>2, <2>3
<1>2. TypeOK'
  BY <1>1 DEF IInv, TypeOK
<1>3. TasksInOrder'
  BY DEF IInv, TypeOK, TasksInOrder
<1>4. ASSUME NEW d \in Clients PROVE ClientInv(d)'
  <2>1. CASE d # c
    <3>1. SameClient(d)
      BY <2>1, <1>1 DEF IInv, TypeOK, SameClient
    <3> QED
      BY <3>1, SameClientInv DEF IInv
  <2>2. CASE d = c
    <3>1. /\ UNCHANGED <<readMsg, got, joined, broadcast, sessions, alive, lost,
                        writeMsgs, writes, open, backlog>>
          /\ broadcast \in Int /\ joined[c] \in Int
      BY DEF IInv, TypeOK
    <3>2. OneWrite(c) /\ Stream(c) /\ SessionLife(c) /\ QueueInOrder(c) /\ Behind(c)
      BY DEF IInv, ClientInv
    <3>3. Len(<<>>) = 0 /\ DOMAIN wire'[c] = {}
      BY <1>1
    <3>4. OneWrite(c)' /\ SessionLife(c)' /\ QueueInOrder(c)'
      BY <1>1, <3>1, <3>2 DEF OneWrite, SessionLife, QueueInOrder
    <3>5. Stream(c)'
      BY <1>1, <3>3 DEF Stream, Connected
    <3>6. Behind(c)'
      <4>1. Len(got[c]) \in Nat /\ Len(wire[c]) \in Nat
        BY LenProperties DEF IInv, TypeOK
      <4>2. Taken(c) \in Nat /\ 2 * Len(got[c]) <= Taken(c)
        BY <4>1, TakenNat
      <4>3. Taken(c)' + Len(wire'[c]) = 2 * Len(got[c]) + 0 + 0
        BY <1>1, <3>1, <3>3 DEF Taken
      <4>4. Taken(c)' + Len(wire'[c]) <= Taken(c) + Len(wire[c])
        BY <4>1, <4>2, <4>3
      <4>5. /\ Taken(c)' + Len(wire'[c]) \in Int /\ Taken(c) + Len(wire[c]) \in Int
            /\ 2 * (broadcast - joined[c]) \in Int
        BY <4>1, <4>2, <4>3, <3>1
      <4> QED
        BY <4>4, <4>5, <3>1, <3>2 DEF Behind
    <3> QED
      BY <2>2, <3>4, <3>5, <3>6 DEF ClientInv
  <2> QED
    BY <2>1, <2>2
<1> QED
  BY <1>2, <1>3, <1>4 DEF IInv

-----------------------------------------------------------------------------
(* The theorems.                                                           *)

\* No call, handler or event of the network disturbs the invariant.
THEOREM StepInv ==
  ASSUME IInv, [Next]_vars PROVE IInv'
<1>1. CASE SendProblem
  BY <1>1, SendProblemInv
<1>2. CASE Close
  BY <1>2, CloseInv
<1>3. CASE DoSendMessage
  BY <1>3, DoSendMessageInv
<1>4. CASE DoClose
  BY <1>4, DoCloseInv
<1>5. ASSUME NEW c \in Clients, ServerHandler(c) PROVE IInv'
  BY <1>5, HandleAcceptInv, HandleAcceptThrowsInv, HandleWrittenInv, HandleWriteErrorInv
     DEF ServerHandler
<1>6. ASSUME NEW c \in Clients, ClientHandler(c) PROVE IInv'
  BY <1>6, HandleConnectInv, HandleReadHeaderInv, HandleReadBodyInv, StopInv
     DEF ClientHandler
<1>7. ASSUME NEW c \in Clients, Transmit(c) \/ Lose(c) \/ ClientClose(c) PROVE IInv'
  BY <1>7, TransmitInv, LoseInv, StopInv
<1>8. CASE UNCHANGED vars
  <2> USE <1>8 DEF vars, server, network, client, history
  <2>1. TypeOK' /\ TasksInOrder'
    BY DEF IInv, TypeOK, TasksInOrder
  <2>2. ASSUME NEW d \in Clients PROVE ClientInv(d)'
    <3>1. SameClient(d)
      BY DEF SameClient
    <3> QED
      BY <3>1, SameClientInv DEF IInv
  <2> QED
    BY <2>1, <2>2 DEF IInv
<1> QED
  BY <1>1, <1>2, <1>3, <1>4, <1>5, <1>6, <1>7, <1>8 DEF Next

\* The invariant holds throughout the service.
THEOREM Invariance == Spec => []IInv
  BY InitInv, StepInv, PTL DEF Spec

\* Every variable keeps its type, for any clients and any number of problems.
THEOREM TypeCorrect == Spec => []TypeOK
<1>1. IInv => TypeOK
  BY DEF IInv
<1> QED
  BY <1>1, Invariance, PTL

\* No session ever has two writes in flight, or forgets a queued message.
THEOREM OneWriterCorrect == Spec => []OneWriter
<1>1. IInv => OneWriter
  BY DEF IInv, ClientInv, OneWriter
<1> QED
  BY <1>1, Invariance, PTL

\* The stream of every client stays aligned with its reads, and complete.
THEOREM StreamCorrect == Spec => []StreamIntact
<1>1. IInv => StreamIntact
  BY DEF IInv, ClientInv, StreamIntact
<1> QED
  BY <1>1, Invariance, PTL

\* Tasks, queues, wires and clients are windows of one numbered sequence: the
\* problems called, queued, sent, under way and handed over follow each other
\* without a gap, and a client never runs ahead of what was broadcast.
THEOREM WindowsCorrect == Spec => []Windows
<1>1. IInv => Windows
  BY DEF IInv, ClientInv, Windows
<1> QED
  BY <1>1, Invariance, PTL

\* The sessions, the wires and the clients implement the abstract feed: what
\* a client is handed is what was broadcast since it joined, in order, once.
THEOREM FeedImplemented == Spec => FeedSpec
<1>1. Init => Feed!Init
  BY DEF Init, Feed!Init, NotJoined, Feed!NotJoined
<1>2. ASSUME IInv, [Next]_vars PROVE [Feed!Next]_(Feed!vars)
  <2> USE DEF server, network, client, history, Feed!vars
  <2>1. CASE DoSendMessage
    BY <2>1 DEF DoSendMessage, Feed!Next, Feed!Broadcast
  <2>2. ASSUME NEW c \in Clients, HandleAccept(c) PROVE Feed!Next
    <3>1. joined[c] = NotJoined
      BY <1>2, <2>2 DEF IInv, ClientInv, SessionLife, HandleAccept
    <3>2. Feed!Join(c)
      BY <2>2, <3>1 DEF HandleAccept, Feed!Join, NotJoined, Feed!NotJoined
    <3> QED
      BY <3>2 DEF Feed!Next
  <2>3. ASSUME NEW c \in Clients, HandleReadBody(c) PROVE Feed!Next
    <3>1. /\ phase[c] = "body" /\ wire[c] # <<>> /\ UNCHANGED <<joined, broadcast>>
          /\ got' = [got EXCEPT ![c] = Append(@, Head(wire[c]).problem)]
      BY <2>3 DEF HandleReadBody
    <3>2. Stream(c) /\ SessionLife(c) /\ Behind(c) /\ joined[c] \in Int /\ broadcast \in Int
      BY <1>2 DEF IInv, ClientInv, TypeOK
    <3>3. joined[c] # NotJoined
      BY <3>1, <3>2 DEF SessionLife
    <3>4. /\ Len(got[c]) \in Nat /\ Len(wire[c]) \in Nat \ {0} /\ 1 \in DOMAIN wire[c]
          /\ Head(wire[c]) = wire[c][1]
      BY <1>2, <3>1, LenProperties, HeadTailProperties, EmptySeq DEF IInv, TypeOK
    <3>5. Taken(c) = 2 * Len(got[c]) + 1
      BY <3>1, <3>4, TakenNat
    <3>6. Head(wire[c]).problem = joined[c] + Len(got[c]) + 1
      <4>1. wire[c][1] = PartAt(joined[c], Taken(c) + 1)
        BY <3>2, <3>4 DEF Stream
      <4>2. Taken(c) + 1 = 2 * Len(got[c]) + 2
        BY <3>4, <3>5
      <4>3. wire[c][1] = Part(joined[c] + Len(got[c]) + 1, Body)
        BY <4>1, <4>2, <3>2, <3>4, EvenPart
      <4> QED
        BY <4>3, <3>4 DEF Part
    <3>7. joined[c] + Len(got[c]) < broadcast
      <4>1. Taken(c) + Len(wire[c]) <= 2 * (broadcast - joined[c])
        BY <3>2, <3>3 DEF Behind
      <4>2. ASSUME NEW l \in Nat, NEW w \in Nat \ {0}, NEW b \in Int, NEW j \in Int,
                   (2 * l + 1) + w <= 2 * (b - j)
            PROVE  j + l < b
        BY <4>2
      <4> QED
        BY <4>1, <4>2, <3>2, <3>4, <3>5
    <3>8. Feed!Deliver(c)
      BY <3>1, <3>3, <3>6, <3>7 DEF Feed!Deliver, NotJoined, Feed!NotJoined
    <3> QED
      BY <3>8 DEF Feed!Next
  <2>4. ASSUME SendProblem \/ Close \/ DoClose \/ UNCHANGED vars PROVE UNCHANGED Feed!vars
    BY <2>4 DEF SendProblem, Close, DoClose, vars
  <2>5. ASSUME NEW c \in Clients,
               \/ HandleAcceptThrows(c) \/ HandleWritten(c) \/ HandleWriteError(c)
               \/ HandleConnect(c) \/ HandleConnectError(c) \/ HandleReadHeader(c)
               \/ HandleReadError(c) \/ Transmit(c) \/ Lose(c) \/ ClientClose(c)
        PROVE  UNCHANGED Feed!vars
    BY <2>5 DEF HandleAcceptThrows, HandleWritten, HandleWriteError, HandleConnect,
           HandleConnectError, HandleReadHeader, HandleReadError, Transmit, Lose, ClientClose
  <2> QED
    BY <1>2, <2>1, <2>2, <2>3, <2>4, <2>5 DEF Next, ServerHandler, ClientHandler
<1> QED
  BY <1>1, <1>2, Invariance, PTL DEF Spec, FeedSpec, Feed!Spec

=============================================================================
