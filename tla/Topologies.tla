----------------------------- MODULE Topologies -----------------------------
(***************************************************************************)
(* Small fabrics for the instances of FlowNetwork and of the modules that  *)
(* drive it: the links each flow traverses, their capacities, and a table  *)
(* of the max-min fair rates.  The instances check each table against the  *)
(* bottleneck condition of MaxMinFair.                                     *)
(***************************************************************************)
EXTENDS Integers, TLC

CONSTANTS f1, f2, f3, f4, l1, l2, l3

(***************************************************************************)
(* f1 and f3 share l1, f2 and f3 share l2: the parking lot, whose rates    *)
(* depend on who is in flight in both directions.  Capacities 4 and 6.     *)
(***************************************************************************)
ParkingLot == (f1 :> {l1}) @@ (f2 :> {l2}) @@ (f3 :> {l1, l2})

LinkCapacity == (l1 :> 4) @@ (l2 :> 6)

(***************************************************************************)
(* Their max-min fair rates, for every set of flows in flight.             *)
(***************************************************************************)
ParkingLotRate ==
    ({} :> <<>>)
    @@ ({f1} :> (f1 :> 4)) @@ ({f2} :> (f2 :> 6)) @@ ({f3} :> (f3 :> 4))
    @@ ({f1, f2} :> ((f1 :> 4) @@ (f2 :> 6)))
    @@ ({f1, f3} :> ((f1 :> 2) @@ (f3 :> 2)))
    @@ ({f2, f3} :> ((f2 :> 3) @@ (f3 :> 3)))
    @@ ({f1, f2, f3} :> ((f1 :> 2) @@ (f2 :> 4) @@ (f3 :> 2)))

(***************************************************************************)
(* A fourth flow that does not touch the rates of the others: f4 stays on  *)
(* its GPU and crosses no link, or it is starved, because l3 has failed    *)
(* and has no capacity.                                                    *)
(***************************************************************************)
WithRate(rate) ==
    [live \in SUBSET {f1, f2, f3, f4} |->
        [f \in live |-> IF f = f4 THEN rate ELSE ParkingLotRate[live \ {f4}][f]]]

WithSelf == ParkingLot @@ (f4 :> {})

WithStarved == ParkingLot @@ (f4 :> {l1, l3})

FailedCapacity == LinkCapacity @@ (l3 :> 0)
=============================================================================
