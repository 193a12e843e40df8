----------------------------- MODULE MaxMinFair -----------------------------
(***************************************************************************)
(* What an allocation of link bandwidth to flows has to satisfy.           *)
(*                                                                         *)
(* The operators take the two arguments of max_min_fair_share of           *)
(* src/engine/network/allocator.py: flow_links, a function from the flows  *)
(* asked for to the set of links each one traverses (a route visits a link *)
(* at most once, and the allocator never looks at the order), and          *)
(* capacity, a function from the links to their bandwidth.  Rates and      *)
(* capacities are integers, so instances are chosen whose fair shares are  *)
(* integral; Inf is the float infinity of the code.                        *)
(***************************************************************************)
EXTENDS Integers, FiniteSets, FiniteSetsExt

CONSTANT Inf    \* float("inf"): an unlimited rate or capacity

ASSUME InfIsNoNumber == Inf \notin Int

(***************************************************************************)
(* The flows of flow_links that cross link l.                              *)
(***************************************************************************)
Crossing(flow_links, l) == {f \in DOMAIN flow_links : l \in flow_links[f]}

(***************************************************************************)
(* The load verify_conservation adds up for a link: flows without a rate   *)
(* count 0 and flows of infinite rate are skipped.                         *)
(***************************************************************************)
Load(flow_links, rates, l) ==
    MapThenSumSet(LAMBDA f : rates[f],
                  {f \in Crossing(flow_links, l) \cap DOMAIN rates : rates[f] # Inf})

Conserves(flow_links, capacity, rates) ==
    \A l \in DOMAIN capacity :
        capacity[l] = Inf \/ Load(flow_links, rates, l) <= capacity[l]

(***************************************************************************)
(* A flow is constrained when some link of its route has a finite capacity.*)
(***************************************************************************)
Constrained(flow_links, capacity) ==
    {f \in DOMAIN flow_links : \E l \in flow_links[f] : capacity[l] # Inf}

(***************************************************************************)
(* The bottleneck condition: every constrained flow crosses a saturated    *)
(* link on which nobody has a larger rate; all others are unlimited.       *)
(***************************************************************************)
IsBottleneck(flow_links, capacity, rates, f, l) ==
    /\ l \in flow_links[f]
    /\ capacity[l] # Inf
    /\ Load(flow_links, rates, l) = capacity[l]
    /\ \A g \in Crossing(flow_links, l) : rates[g] <= rates[f]

Bottlenecked(flow_links, capacity, rates) ==
    /\ DOMAIN rates = DOMAIN flow_links
    /\ \A f \in DOMAIN flow_links : rates[f] = Inf <=> f \notin Constrained(flow_links, capacity)
    /\ Conserves(flow_links, capacity, rates)
    /\ \A f \in Constrained(flow_links, capacity) :
          \E l \in flow_links[f] : IsBottleneck(flow_links, capacity, rates, f, l)

(***************************************************************************)
(* Max-min fairness by definition: within the capacities, no flow can get  *)
(* more unless a flow that has no more than it already gets less.          *)
(***************************************************************************)
IsMaxMinFair(flow_links, capacity, rates) ==
    LET limited == Constrained(flow_links, capacity)
        bound   == Max({0} \cup {capacity[l] : l \in {m \in DOMAIN capacity : capacity[m] # Inf}})
        others  == {alt \in [limited -> 0..bound] : Conserves(flow_links, capacity, alt)}
    IN  /\ DOMAIN rates = DOMAIN flow_links
        /\ \A f \in DOMAIN flow_links : rates[f] = Inf <=> f \notin limited
        /\ Conserves(flow_links, capacity, rates)
        /\ \A alt \in others : \A f \in limited :
              alt[f] > rates[f] => \E g \in limited : rates[g] <= rates[f] /\ alt[g] < rates[g]
=============================================================================
