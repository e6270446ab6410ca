--------------------------- MODULE MCExactSearches ---------------------------
(***************************************************************************)
(* The two searches for a cheapest answer on boards of size 2x2.  A        *)
(* behaviour is one of the exact solver or one of the Hitode solver; the   *)
(* other has long been over.                                               *)
(***************************************************************************)
EXTENDS MCBidirectionalAstar, ExactSolver

VARIABLE part

searchVars == <<part, idaVars, vars>>

\* The exact solver has answered the finished board.
IDAOver == start = FinishedState /\ lb = 0 /\ stack = <<>> /\ published = <<>>

\* Both workers have ended.
HitodeOver ==
  /\ problem = Problem(FinishedState, 1)
  /\ queue = [w \in Workers |-> {}]
  /\ visited = [w \in Workers |-> <<>>]
  /\ current = [w \in Workers |-> Start(w)]
  /\ metHash = [w \in Workers |-> NoHash]
  /\ pc = [w \in Workers |-> "done"]
  /\ answer = Undefined

SearchInit ==
  \/ part = "IDA" /\ IDAInit /\ HitodeOver
  \/ part = "Hitode" /\ Init /\ IDAOver

IDA(A)       == part = "IDA" /\ A /\ UNCHANGED <<part, vars>>
InThreads(A) == part = "Hitode" /\ A /\ UNCHANGED <<part, idaVars>>

SearchNext == IDA(IDANext) \/ InThreads(Next)

SearchSpec == SearchInit /\ [][SearchNext]_searchVars /\ WF_searchVars(IDA(IDANext))

=============================================================================
