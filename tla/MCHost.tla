------------------------------- MODULE MCHost -------------------------------
(***************************************************************************)
(* Instances of HostEvents.                                                *)
(***************************************************************************)
EXTENDS HostEvents, Topologies

MM == INSTANCE MaxMinFair

ASSUME RatesAreFair ==
    \A live \in SUBSET Flow :
        MM!Bottlenecked([f \in live |-> Route[f]], Capacity, FairRate[live])

MCSizes == {0, 5, 12}
=============================================================================
