------------------------- MODULE ProgressiveFilling -------------------------
(***************************************************************************)
(* max_min_fair_share of src/engine/network/allocator.py: progressive      *)
(* filling.  Raise every flow's rate together until some link saturates,   *)
(* fix the flows crossing it at that rate, charge them to every link they  *)
(* touch, repeat with what remains.                                        *)
(*                                                                         *)
(* One behaviour is one call.  The arguments are chosen in Init and never  *)
(* change.  The links are scanned in dict insertion order, which comes     *)
(* from iterating a set of strings and so changes from process to process: *)
(* among links offering the same smallest share, any may be picked.        *)
(*                                                                         *)
(* Rates are natural numbers: a round picks the integer r with             *)
(* r * number of live flows = remaining capacity.  An instance whose       *)
(* shares are not integral stops there, which TLC reports as a deadlock.   *)
(***************************************************************************)
EXTENDS MaxMinFair

CONSTANTS Flow,         \* the flows that may be asked for
          Link,         \* the links of the fabric
          Capacities    \* the capacities a link may have

ASSUME FlowIsFinite == IsFiniteSet(Flow)
ASSUME CapacitiesType == Capacities \subseteq Nat \cup {Inf}

VARIABLES pc,           \* "called", "filling", "returned"
          flow_links,   \* argument: the links each flow traverses
          capacity,     \* argument: the capacity of every link
          unfixed,      \* flows whose rate is not decided yet
          remaining,    \* capacity still unclaimed on each link
          rates,        \* alloc.rates, defined on the flows already decided
          bottleneck    \* alloc.bottleneck

vars == <<pc, flow_links, capacity, unfixed, remaining, rates, bottleneck>>

Requests == UNION {[asked -> SUBSET Link] : asked \in SUBSET Flow}

Init ==
    /\ pc = "called"
    /\ flow_links \in Requests
    /\ capacity \in [Link -> Capacities]
    /\ unfixed = {}
    /\ remaining = capacity
    /\ rates = [f \in {} |-> Inf]
    /\ bottleneck = [f \in {} |-> Inf]

Rates == Nat \cup {Inf}

(***************************************************************************)
(* flows & unfixed in the scan, and the links that offer a share below     *)
(* infinity.                                                               *)
(***************************************************************************)
Live_Fixed(l) == {f \in DOMAIN flow_links : l \in flow_links[f]}   \* mutant: flows already fixed count

Live(l) == {f \in unfixed : l \in flow_links[f]}

Offering == {l \in Link : Live(l) # {} /\ remaining[l] # Inf}

(***************************************************************************)
(* The loop before the filling: a flow with an empty link list is given    *)
(* infinite rate, all others wait to be fixed.                             *)
(***************************************************************************)
Prologue ==
    /\ pc = "called"
    /\ rates' = [f \in {g \in DOMAIN flow_links : flow_links[g] = {}} |-> Inf]
    /\ unfixed' = {f \in DOMAIN flow_links : flow_links[f] # {}}
    /\ pc' = "filling"
    /\ UNCHANGED <<flow_links, capacity, remaining, bottleneck>>

(***************************************************************************)
(* remaining[l] after `fixed` flows were charged `rate` each, clamped at 0 *)
(***************************************************************************)
Charge_Once(l, rate, count) ==   \* mutant: a link is charged once per round
    IF remaining[l] = Inf \/ count = 0 THEN remaining[l]
    ELSE IF rate <= remaining[l] THEN remaining[l] - rate ELSE 0

Charge(l, rate, count) ==
    IF remaining[l] = Inf THEN Inf
    ELSE IF rate * count <= remaining[l] THEN remaining[l] - rate * count ELSE 0

(***************************************************************************)
(* Fix the live flows of the chosen link at rate and charge every link     *)
(* they cross.                                                             *)
(***************************************************************************)
Fix(best, rate) ==
    /\ rates' = [f \in DOMAIN rates \cup Live(best) |-> IF f \in Live(best) THEN rate ELSE rates[f]]
    /\ bottleneck' = [f \in DOMAIN bottleneck \cup Live(best) |->
                         IF f \in Live(best) THEN best ELSE bottleneck[f]]
    /\ unfixed' = unfixed \ Live(best)
    /\ remaining' = [l \in Link |-> Charge(l, rate, Cardinality(Live(l) \cap Live(best)))]

(***************************************************************************)
(* One round of the while loop: best offers the smallest fair share.       *)
(***************************************************************************)
Round_LargestShare(best, rate) ==   \* mutant: the comparison of shares is reversed
    /\ pc = "filling"
    /\ rate * Cardinality(Live(best)) = remaining[best]
    /\ \A l \in Offering : rate * Cardinality(Live(l)) >= remaining[l]
    /\ Fix(best, rate)
    /\ UNCHANGED <<pc, flow_links, capacity>>

Round(best, rate) ==
    /\ pc = "filling"
    /\ rate * Cardinality(Live(best)) = remaining[best]
    /\ \A l \in Offering : rate * Cardinality(Live(l)) <= remaining[l]
    /\ Fix(best, rate)
    /\ UNCHANGED <<pc, flow_links, capacity>>

FillRound == \E best \in Offering : \E rate \in 0..remaining[best] : Round(best, rate)

(***************************************************************************)
(* No link offers a finite share: whatever is left is unlimited.           *)
(***************************************************************************)
Unconstrain_Attributed ==   \* mutant: best_link = None is recorded as the bottleneck
    /\ pc = "filling"
    /\ unfixed # {}
    /\ Offering = {}
    /\ rates' = [f \in DOMAIN rates \cup unfixed |-> IF f \in unfixed THEN Inf ELSE rates[f]]
    /\ bottleneck' = [f \in DOMAIN rates' |-> IF f \in DOMAIN bottleneck THEN bottleneck[f] ELSE Inf]
    /\ pc' = "returned"
    /\ UNCHANGED <<flow_links, capacity, unfixed, remaining>>

Unconstrain ==
    /\ pc = "filling"
    /\ unfixed # {}
    /\ Offering = {}
    /\ rates' = [f \in DOMAIN rates \cup unfixed |-> IF f \in unfixed THEN Inf ELSE rates[f]]
    /\ pc' = "returned"
    /\ UNCHANGED <<flow_links, capacity, unfixed, remaining, bottleneck>>

Return ==
    /\ pc = "filling"
    /\ unfixed = {}
    /\ pc' = "returned"
    /\ UNCHANGED <<flow_links, capacity, unfixed, remaining, rates, bottleneck>>

Terminating == pc = "returned" /\ UNCHANGED vars

Next == Prologue \/ FillRound \/ Unconstrain \/ Return \/ Terminating

(***************************************************************************)
(* The call runs on its own thread of control: every step it can take is   *)
(* taken.                                                                  *)
(***************************************************************************)
Spec == Init /\ [][Next]_vars /\ WF_vars(Prologue \/ FillRound \/ Unconstrain \/ Return)

-----------------------------------------------------------------------------
(***************************************************************************)
(* The types of the call's locals.                                         *)
(***************************************************************************)
TypeOK ==
    /\ pc \in {"called", "filling", "returned"}
    /\ flow_links \in Requests
    /\ capacity \in [Link -> Capacities]
    /\ unfixed \subseteq DOMAIN flow_links
    /\ remaining \in [Link -> Rates]
    /\ DOMAIN rates \subseteq DOMAIN flow_links
    /\ rates \in [DOMAIN rates -> Rates]
    /\ DOMAIN bottleneck \subseteq DOMAIN rates
    /\ bottleneck \in [DOMAIN bottleneck -> Link]

(***************************************************************************)
(* The water level: a flow already fixed has no larger rate than the share *)
(* any link still offers.  This is why a rate once fixed is final.         *)
(***************************************************************************)
LevelBelowShares ==
    \A f \in DOMAIN rates : \A l \in Offering :
        rates[f] # Inf => rates[f] * Cardinality(Live(l)) <= remaining[l]

(***************************************************************************)
(* Rounds raise the level: the flows fixed by a later round never get less *)
(* than those fixed before, and a fixed rate is never revised.             *)
(***************************************************************************)
RatesOnlyRise ==
    [][/\ DOMAIN rates \subseteq DOMAIN rates'
       /\ \A f \in DOMAIN rates : rates'[f] = rates[f]
       /\ \A f \in DOMAIN rates, g \in DOMAIN rates' \ DOMAIN rates :
             rates[f] # Inf /\ rates'[g] # Inf => rates[f] <= rates'[g]]_vars

(***************************************************************************)
(* No decided flow has more than any single link of its route carries, and *)
(* only a flow without a finite link is unlimited: what FlowNetwork relies *)
(* on (its assumption FairRateType).                                       *)
(***************************************************************************)
NoFlowAboveItsLinks ==
    \A f \in DOMAIN rates : \A l \in flow_links[f] :
        capacity[l] # Inf => rates[f] # Inf /\ rates[f] <= capacity[l]

(***************************************************************************)
(* On return the link named as a flow's bottleneck really is one: it is    *)
(* saturated and no flow on it has a larger rate, whatever order ties were *)
(* broken in.  Only unlimited flows are without a bottleneck.              *)
(***************************************************************************)
BottleneckIsTight ==
    pc = "returned" =>
        /\ Bottlenecked(flow_links, capacity, rates)
        /\ \A f \in DOMAIN flow_links :
              /\ f \in DOMAIN bottleneck <=> rates[f] # Inf
              /\ f \in DOMAIN bottleneck =>
                    IsBottleneck(flow_links, capacity, rates, f, bottleneck[f])

(***************************************************************************)
(* What the call returns is max-min fair by definition: the loop           *)
(* implements the one-step specification of allocator.py's promise.        *)
(***************************************************************************)
CONSTANT NoRates

ASSUME NoRatesIsNone == \A decided \in SUBSET Flow : NoRates \notin [decided -> Rates]

Abstract == INSTANCE FairAllocation
                WITH rates <- IF pc = "returned" THEN rates ELSE NoRates

ReturnsFairRates == Abstract!Spec

(***************************************************************************)
(* `while unfixed` ends: every round fixes at least one flow.              *)
(***************************************************************************)
Returns == <>(pc = "returned")
=============================================================================
