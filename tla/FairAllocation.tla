--------------------------- MODULE FairAllocation ---------------------------
(***************************************************************************)
(* The promise of src/engine/network/allocator.py, without an algorithm:   *)
(* a call max_min_fair_share(flow_links, capacity) returns, in one step,   *)
(* rates that are max-min fair by definition, "the unique max-min fair     *)
(* allocation" of its module comment.                                      *)
(***************************************************************************)
EXTENDS MaxMinFair

CONSTANTS Flow,         \* the flows that may be asked for
          Link,         \* the links of the fabric
          Capacities,   \* the capacities a link may have
          NoRates       \* the call has not returned yet

VARIABLES flow_links, capacity, rates
vars == <<flow_links, capacity, rates>>

Requests == UNION {[asked -> SUBSET Link] : asked \in SUBSET Flow}

Init ==
    /\ flow_links \in Requests
    /\ capacity \in [Link -> Capacities]
    /\ rates = NoRates

Return ==
    /\ rates = NoRates
    /\ rates' # NoRates
    /\ IsMaxMinFair(flow_links, capacity, rates')
    /\ UNCHANGED <<flow_links, capacity>>

Next == Return

Spec == Init /\ [][Next]_vars
=============================================================================
