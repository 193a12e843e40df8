----------------------------- MODULE MCNetwork -----------------------------
(***************************************************************************)
(* Instances of FlowNetwork.                                               *)
(***************************************************************************)
EXTENDS FlowNetwork, Topologies

MM == INSTANCE MaxMinFair

ASSUME RatesAreFair ==
    \A live \in SUBSET Flow :
        MM!Bottlenecked([f \in live |-> Route[f]], Capacity, FairRate[live])

WithSelfRate == WithRate(Inf)

ShortSizes == {5, 12}
=============================================================================
