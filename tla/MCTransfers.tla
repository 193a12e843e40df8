----------------------------- MODULE MCTransfers -----------------------------
(***************************************************************************)
(* Instances of TransferRun, on the fabrics of Topologies.                 *)
(***************************************************************************)
EXTENDS TransferRun, Topologies

MM == INSTANCE MaxMinFair

ASSUME RatesAreFair ==
    \A live \in SUBSET Flow :
        MM!Bottlenecked([f \in live |-> Route[f]], Capacity, FairRate[live])

WithStarvedRate == WithRate(0)

MCSizes == {0, 5, 12}
MCSubmitTimes == {0, 1, 2, 4}
OneSize == {8}
EarlyTimes == {0, 3}
=============================================================================
