------------------------------ MODULE MCDesktop ------------------------------
(***************************************************************************)
(* The desktop program with boards of size 2x2, and the posting of         *)
(* answers.  A behaviour is one of the window or one of the posting: the   *)
(* window calls send_answer() and never learns what comes of it, so that   *)
(* the posting is checked with calls at any time.                          *)
(***************************************************************************)
EXTENDS SlideWindow, PostService

VARIABLE part

vars == <<part, windowVars, postVars>>

\* The finished board with a swap undone.
Undone(p, q) == Swapped(FinishedState, p, q)

Steps(p) == {d \in Directions : Neighbour(p, d) \in Points}

OneSwap ==
  UNION {{<<Undone(p, Neighbour(p, d)), <<Selection(p), Swap(d)>>>> : d \in Steps(p)} : p \in Points}

\* Every piece one cell before its home, row by row: a board that takes two
\* selections, and the answer to it.
TwoPieces ==
  [p \in Points |-> LET id == (2 * p[1] + p[2] + 1) % 4 IN <<id \div 2, id % 2>>]

BothMoved == <<Selection(<<0, 0>>), Swap(Right), Selection(<<1, 1>>), Swap(Left), Swap(Up)>>

MCAnswers ==
  {<<FinishedState, <<>>>>, <<TwoPieces, BothMoved>>} \cup OneSwap

MCProblems == {TwoPieces}
MCShuffles == {Undone(<<0, 0>>, <<1, 0>>)}

Init == part \in {"window", "posting"} /\ WindowInit /\ PostInit

Window(A)  == part = "window" /\ A /\ UNCHANGED <<part, postVars>>
Posting(A) == part = "posting" /\ A /\ UNCHANGED <<part, windowVars>>

Next == Window(WindowNext) \/ Posting(PostNext)

\* The timer runs out and the threads of the window emit their signals; the
\* io_services run what is ready, and the system of the client sends.
Spec ==
  /\ Init /\ [][Next]_vars
  /\ WF_vars(Window(Timing)) /\ WF_vars(Window(Answering))
  /\ WF_vars(Posting(ClientHandler)) /\ WF_vars(Posting(ServerHandler))
  /\ WF_vars(Posting(Transmit))
=============================================================================
