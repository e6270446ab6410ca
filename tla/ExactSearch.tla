----------------------------- MODULE ExactSearch -----------------------------
(***************************************************************************)
(* What the two solvers that look for a cheapest answer, ExactSolver and   *)
(* HitodeSolver, share: the costs of the problem, and that their answer    *)
(* is published once.                                                      *)
(***************************************************************************)
EXTENDS Answer

CONSTANTS
  SwappingCost, SelectionCost,
  NoAnswer          \* solve() has not got its answer yet

\* Problem::parse: costs are not negative.
ASSUME CostAssumption == SwappingCost \in Nat /\ SelectionCost \in Nat

=============================================================================
