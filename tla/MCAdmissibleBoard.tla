-------------------------- MODULE MCAdmissibleBoard --------------------------
(* Every board of Height x Width, any play of at most MaxCost.  The fixed   *)
(* area of the restricted feature is the first column.                      *)
EXTENDS BoardFeatures

MCFixedArea == {p \in Points : p[2] = 0}
=============================================================================
