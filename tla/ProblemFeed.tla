----------------------------- MODULE ProblemFeed -----------------------------
(***************************************************************************)
(* What the distribution of problems promises to a solver's machine: it is *)
(* handed the problems broadcast since it joined, from the first one on,   *)
(* in the order of the broadcasts, each of them once.  Problems are named  *)
(* by their number in that order.                                          *)
(***************************************************************************)
EXTENDS Integers, Sequences

CONSTANT Clients

VARIABLES
  broadcast,    \* the number of problems broadcast
  joined,       \* its value when the client joined, NotJoined before
  got           \* the problems handed to the client

vars == <<broadcast, joined, got>>

NotJoined == -1

Init ==
  /\ broadcast = 0
  /\ joined = [c \in Clients |-> NotJoined]
  /\ got = [c \in Clients |-> <<>>]

Broadcast ==
  /\ broadcast' = broadcast + 1
  /\ UNCHANGED <<joined, got>>

Join(c) ==
  /\ joined[c] = NotJoined
  /\ joined' = [joined EXCEPT ![c] = broadcast]
  /\ UNCHANGED <<broadcast, got>>

Deliver(c) ==
  /\ joined[c] # NotJoined
  /\ joined[c] + Len(got[c]) < broadcast
  /\ got' = [got EXCEPT ![c] = Append(@, joined[c] + Len(@) + 1)]
  /\ UNCHANGED <<broadcast, joined>>

Next == Broadcast \/ \E c \in Clients : Join(c) \/ Deliver(c)

Spec == Init /\ [][Next]_vars

=============================================================================
