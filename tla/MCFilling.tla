----------------------------- MODULE MCFilling -----------------------------
(***************************************************************************)
(* Instances of ProgressiveFilling.  Three flows need shares of 1/2 and    *)
(* 1/3, so finite capacities are multiples of 6.                           *)
(***************************************************************************)
EXTENDS ProgressiveFilling

MCCapacities == {0, 6, 12, Inf}
=============================================================================
