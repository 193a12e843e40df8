---------------------- MODULE ProgressiveFillingProofs ----------------------
(***************************************************************************)
(* Proofs about ProgressiveFilling, for any set of flows, links and        *)
(* capacities.                                                             *)
(***************************************************************************)
EXTENDS ProgressiveFilling, DataLemmas, TLAPS

(***************************************************************************)
(* Only flows that were asked for are live, so there are finitely many.    *)
(***************************************************************************)
LEMMA LiveFinite ==
  ASSUME TypeOK, NEW l \in Link
  PROVE  /\ IsFiniteSet(Live(l))
         /\ Cardinality(Live(l)) \in Nat
<1>1. DOMAIN flow_links \subseteq Flow
  BY DEF TypeOK, Requests
<1>2. Live(l) \subseteq Flow
  BY <1>1 DEF TypeOK, Live
<1>3. IsFiniteSet(Live(l))
  BY <1>2, FlowIsFinite, FS_Subset
<1> QED
  BY <1>3, FS_CardinalityType

(***************************************************************************)
(* The charge of a link is clamped, so it stays a number, and an unlimited *)
(* link stays unlimited.                                                   *)
(***************************************************************************)
LEMMA ChargeType ==
  ASSUME TypeOK, NEW l \in Link, NEW rate \in Nat, NEW count \in Nat
  PROVE  Charge(l, rate, count) \in Rates
<1> DEFINE paid == rate * count
<1>1. paid \in Nat
  OBVIOUS
<1>2. remaining[l] \in Rates
  BY DEF TypeOK
<1>3. CASE remaining[l] = Inf
  BY <1>3 DEF Charge, Rates
<1>4. CASE remaining[l] # Inf
  <2>1. remaining[l] \in Nat
    BY <1>2, <1>4 DEF Rates
  <2> HIDE DEF paid
  <2>2. (IF paid <= remaining[l] THEN remaining[l] - paid ELSE 0) \in Nat
    BY <1>1, <2>1
  <2> QED
    BY <1>4, <2>2 DEF Charge, Rates, paid
<1> QED
  BY <1>3, <1>4

(***************************************************************************)
(* The link a round picks offers a finite share, which is a number.        *)
(***************************************************************************)
LEMMA RoundParameters ==
  ASSUME TypeOK, FillRound
  PROVE  \E best \in Offering : \E rate \in Nat :
            remaining[best] \in Nat /\ Round(best, rate)
<1>1. PICK best \in Offering : \E rate \in 0..remaining[best] : Round(best, rate)
  BY DEF FillRound
<1>2. PICK rate \in 0..remaining[best] : Round(best, rate)
  BY <1>1
<1>3. remaining[best] \in Nat
  BY DEF Offering, TypeOK, Rates
<1> QED
  BY <1>1, <1>2, <1>3

-----------------------------------------------------------------------------
(***************************************************************************)
(* Before the loop nothing waits, is decided or attributed.                *)
(***************************************************************************)
Untouched ==
    pc = "called" => unfixed = {} /\ DOMAIN rates = {} /\ DOMAIN bottleneck = {}

LEMMA UntouchedAlways == Spec => []Untouched
<1>1. Init => Untouched
  BY DEF Init, Untouched
<1>2. Untouched /\ [Next]_vars => Untouched'
  BY DEF Untouched, Next, vars, Prologue, FillRound, Round, Unconstrain, Return, Terminating
<1> QED
  BY <1>1, <1>2, PTL DEF Spec

(***************************************************************************)
(* Every local of the call keeps its type: in particular a remaining       *)
(* capacity never becomes negative and a bottleneck is always a link.      *)
(***************************************************************************)
THEOREM TypeCorrect == Spec => []TypeOK
<1>1. Init => TypeOK
  <2> SUFFICES ASSUME Init PROVE TypeOK
    OBVIOUS
  <2>1. remaining \in [Link -> Rates]
    BY CapacitiesType DEF Init, Rates
  <2> QED
    BY <2>1 DEF Init, TypeOK
<1>2. TypeOK /\ Untouched /\ [Next]_vars => TypeOK'
  <2> SUFFICES ASSUME TypeOK, Untouched, [Next]_vars PROVE TypeOK'
    OBVIOUS
  <2>1. CASE Prologue
    BY <2>1 DEF Prologue, TypeOK, Rates, Untouched
  <2>2. CASE FillRound
    <3>1. PICK best \in Link, rate \in Nat : Round(best, rate)
      BY <2>2, RoundParameters DEF Offering
    <3>2. remaining' \in [Link -> Rates]
      <4>1. ASSUME NEW l \in Link
            PROVE  Charge(l, rate, Cardinality(Live(l) \cap Live(best))) \in Rates
        <5>1. Cardinality(Live(l) \cap Live(best)) \in Nat
          BY LiveFinite, FS_Intersection, FS_CardinalityType
        <5> QED
          BY <5>1, ChargeType
      <4> QED
        BY <4>1, <3>1 DEF Round, Fix
    <3>3. Live(best) \subseteq DOMAIN flow_links
      BY DEF Live, TypeOK
    <3> QED
      BY <3>1, <3>2, <3>3 DEF Round, Fix, TypeOK, Rates
  <2>3. CASE Unconstrain
    BY <2>3 DEF Unconstrain, TypeOK, Rates
  <2>4. CASE Return
    BY <2>4 DEF Return, TypeOK
  <2>5. CASE Terminating
    BY <2>5 DEF Terminating, TypeOK, vars
  <2>6. CASE UNCHANGED vars
    BY <2>6 DEF TypeOK, vars
  <2> QED
    BY <2>1, <2>2, <2>3, <2>4, <2>5, <2>6 DEF Next
<1> QED
  BY <1>1, <1>2, UntouchedAlways, PTL DEF Spec

-----------------------------------------------------------------------------
(***************************************************************************)
(* The arithmetic of a round, for a link with n live flows of which k are  *)
(* fixed at rate r: if the link could offer r before, what is left after   *)
(* being charged still covers the level for the flows that stay.           *)
(***************************************************************************)
LEMMA ChargedShare ==
  ASSUME NEW r \in Nat, NEW low \in Nat, NEW n \in Nat, NEW k \in Nat, NEW rem \in Nat,
         k <= n, low <= r, r * n <= rem
  PROVE  /\ r * k <= rem
         /\ low * (n - k) <= rem - r * k
<1>1. r * k <= r * n
  OBVIOUS
<1>2. low * (n - k) <= r * (n - k)
  <2>1. n - k \in Nat
    OBVIOUS
  <2> DEFINE m == n - k
  <2> HIDE DEF m
  <2>2. m \in Nat => low * m <= r * m
    OBVIOUS
  <2> QED
    BY <2>1, <2>2 DEF m
<1>3. r * (n - k) = r * n - r * k
  OBVIOUS
<1> QED
  BY <1>1, <1>2, <1>3

(***************************************************************************)
(* If a link with live flows offers at least low to each of them, then its *)
(* exact share is at least low.                                            *)
(***************************************************************************)
LEMMA ShareAboveLevel ==
  ASSUME NEW r \in Nat, NEW low \in Nat, NEW n \in Nat, n # 0, low * n <= r * n
  PROVE  low <= r
<1> SUFFICES ASSUME low > r PROVE FALSE
  OBVIOUS
<1> DEFINE d == low - r
<1>1. d \in Nat /\ d >= 1 /\ low = r + d
  OBVIOUS
<1> HIDE DEF d
<1>2. d * n >= n
  BY <1>1
<1>3. low * n = r * n + d * n
  BY <1>1
<1> QED
  BY <1>2, <1>3

(***************************************************************************)
(* The share of the link a round picks is at least every finite rate       *)
(* decided before.                                                         *)
(***************************************************************************)
LEMMA RateAboveLevel ==
  ASSUME TypeOK, LevelBelowShares,
         NEW best \in Offering, NEW rate \in Nat, Round(best, rate),
         NEW f \in DOMAIN rates, rates[f] # Inf
  PROVE  rates[f] \in Nat /\ rates[f] <= rate
<1>1. rates[f] \in Nat
  BY DEF TypeOK, Rates
<1>2. best \in Link /\ Live(best) # {}
  BY DEF Offering
<1>3. IsFiniteSet(Live(best)) /\ Cardinality(Live(best)) \in Nat
  BY <1>2, LiveFinite
<1>4. Cardinality(Live(best)) # 0
  BY <1>2, <1>3, FS_EmptySet
<1>5. rates[f] * Cardinality(Live(best)) <= remaining[best]
  BY DEF LevelBelowShares
<1>6. rates[f] * Cardinality(Live(best)) <= rate * Cardinality(Live(best))
  BY <1>5 DEF Round
<1> QED
  BY <1>1, <1>3, <1>4, <1>6, ShareAboveLevel

(***************************************************************************)
(* A round leaves every link that still offers a share enough capacity for *)
(* the level it has reached.                                               *)
(***************************************************************************)
LEMMA RoundKeepsLevel ==
  ASSUME TypeOK, LevelBelowShares,
         NEW best \in Offering, NEW rate \in Nat, Round(best, rate)
  PROVE  LevelBelowShares'
<1> SUFFICES ASSUME NEW f \in DOMAIN rates', NEW l \in Offering', rates'[f] # Inf
             PROVE  rates'[f] * Cardinality(Live(l)') <= remaining'[l]
  BY DEF LevelBelowShares
<1>1. /\ DOMAIN rates' = DOMAIN rates \cup Live(best)
      /\ rates'[f] = IF f \in Live(best) THEN rate ELSE rates[f]
  BY DEF Round, Fix
<1>2. rates'[f] \in Nat /\ rates'[f] <= rate
  BY <1>1, RateAboveLevel
<1>3. l \in Link /\ remaining'[l] # Inf /\ Live(l)' # {}
  BY DEF Offering
<1>4. Live(l)' = Live(l) \ Live(best)
  BY DEF Round, Fix, Live
<1> DEFINE n == Cardinality(Live(l))
           k == Cardinality(Live(l) \cap Live(best))
<1>5. /\ n \in Nat /\ k \in Nat /\ k <= n
      /\ Cardinality(Live(l)') = n - k
  <2>1. IsFiniteSet(Live(l)) /\ n \in Nat
    BY <1>3, LiveFinite
  <2>2. IsFiniteSet(Live(l) \cap Live(best)) /\ k <= n
    BY <2>1, FS_Intersection
  <2>3. k \in Nat
    BY <2>2, FS_CardinalityType
  <2>4. Cardinality(Live(l) \ Live(best)) = n - k
    BY <2>1, FS_Difference
  <2> QED
    BY <1>4, <2>1, <2>2, <2>3, <2>4
<1>6. remaining'[l] = Charge(l, rate, k)
  BY <1>3 DEF Round, Fix
<1>7. remaining[l] # Inf
  BY <1>3, <1>6 DEF Charge
<1>8. l \in Offering /\ remaining[l] \in Nat
  <2>1. Live(l) # {}
    BY <1>3, <1>4
  <2> QED
    BY <1>3, <1>7, <2>1 DEF Offering, TypeOK, Rates
<1>9. rate * n <= remaining[l]
  BY <1>8 DEF Round
<1> HIDE DEF n, k
<1>10. rate * k <= remaining[l] /\ rates'[f] * (n - k) <= remaining[l] - rate * k
  BY <1>2, <1>5, <1>8, <1>9, ChargedShare
<1>11. remaining'[l] = remaining[l] - rate * k
  BY <1>6, <1>7, <1>10 DEF Charge
<1> QED
  BY <1>5, <1>10, <1>11

-----------------------------------------------------------------------------
(***************************************************************************)
(* The inductive invariant behind the water level.  While the loop runs a  *)
(* flow is either decided or unfixed; once a call has returned the flows   *)
(* left in unfixed see no offer.                                           *)
(***************************************************************************)
Disjoint == pc = "filling" => unfixed \cap DOMAIN rates = {}

Level == TypeOK /\ Untouched /\ Disjoint /\ LevelBelowShares

LEMMA LevelInit == Init => Level
<1> SUFFICES ASSUME Init PROVE Level
  OBVIOUS
<1>1. TypeOK /\ Untouched
  <2>1. remaining \in [Link -> Rates]
    BY CapacitiesType DEF Init, Rates
  <2> QED
    BY <2>1 DEF Init, TypeOK, Untouched
<1> QED
  BY <1>1 DEF Init, Level, Disjoint, LevelBelowShares

LEMMA LevelStep == Level /\ TypeOK' /\ Untouched' /\ [Next]_vars => Level'
<1> SUFFICES ASSUME Level, TypeOK', Untouched', [Next]_vars
             PROVE  Disjoint' /\ LevelBelowShares'
  BY DEF Level
<1> USE DEF Level
<1>1. CASE Prologue
  <2>1. \A f \in DOMAIN rates' : rates'[f] = Inf
    BY <1>1 DEF Prologue
  <2>2. unfixed' \cap DOMAIN rates' = {}
    BY <1>1 DEF Prologue
  <2> QED
    BY <2>1, <2>2 DEF Disjoint, LevelBelowShares
<1>2. CASE FillRound
  <2>1. PICK best \in Offering, rate \in Nat : Round(best, rate)
    BY <1>2, RoundParameters
  <2>2. LevelBelowShares'
    BY <2>1, RoundKeepsLevel
  <2>3. Disjoint'
    BY <2>1 DEF Round, Fix, Disjoint, Live
  <2> QED
    BY <2>2, <2>3
<1>3. CASE Unconstrain
  <2>1. Offering' = {}
    BY <1>3 DEF Unconstrain, Offering, Live
  <2> QED
    BY <1>3, <2>1 DEF Unconstrain, Disjoint, LevelBelowShares
<1>4. CASE Return
  BY <1>4 DEF Return, Disjoint, LevelBelowShares, Offering, Live
<1>5. CASE UNCHANGED vars
  BY <1>5 DEF vars, Disjoint, LevelBelowShares, Offering, Live
<1> QED
  BY <1>1, <1>2, <1>3, <1>4, <1>5 DEF Next, Terminating

(***************************************************************************)
(* At no point of the call does a decided flow have more than the share a  *)
(* link still offers: the filling never has to revise a rate it has fixed. *)
(***************************************************************************)
THEOREM LevelSafe == Spec => []LevelBelowShares
<1>1. Level => LevelBelowShares
  BY DEF Level
<1> QED
  BY <1>1, LevelInit, LevelStep, TypeCorrect, UntouchedAlways, PTL DEF Spec

(***************************************************************************)
(* Flows fixed by a later round never get less than those fixed before,    *)
(* and a rate once fixed is final, for any number of flows and links and   *)
(* any way of breaking ties.                                               *)
(***************************************************************************)
THEOREM RatesRise == Spec => RatesOnlyRise
<1> DEFINE Rise ==
      /\ DOMAIN rates \subseteq DOMAIN rates'
      /\ \A f \in DOMAIN rates : rates'[f] = rates[f]
      /\ \A f \in DOMAIN rates, g \in DOMAIN rates' \ DOMAIN rates :
            rates[f] # Inf /\ rates'[g] # Inf => rates[f] <= rates'[g]
<1>1. Level /\ [Next]_vars => [Rise]_vars
  <2> SUFFICES ASSUME Level, Next PROVE Rise \/ UNCHANGED vars
    OBVIOUS
  <2> USE DEF Level
  <2>1. CASE Prologue
    BY <2>1 DEF Prologue, Untouched
  <2>2. CASE FillRound
    <3>1. PICK best \in Offering, rate \in Nat : Round(best, rate)
      BY <2>2, RoundParameters
    <3>2. Live(best) \cap DOMAIN rates = {}
      BY <3>1 DEF Round, Disjoint, Live
    <3>3. /\ DOMAIN rates' = DOMAIN rates \cup Live(best)
          /\ \A f \in DOMAIN rates' : rates'[f] = IF f \in Live(best) THEN rate ELSE rates[f]
      BY <3>1 DEF Round, Fix
    <3>4. \A f \in DOMAIN rates : rates[f] # Inf => rates[f] <= rate
      BY <3>1, RateAboveLevel
    <3> QED
      BY <3>2, <3>3, <3>4
  <2>3. CASE Unconstrain
    BY <2>3 DEF Unconstrain, Disjoint
  <2>4. CASE Return
    BY <2>4 DEF Return
  <2>5. CASE Terminating
    BY <2>5 DEF Terminating
  <2> QED
    BY <2>1, <2>2, <2>3, <2>4, <2>5 DEF Next
<1> QED
  BY <1>1, LevelInit, LevelStep, TypeCorrect, UntouchedAlways, PTL DEF Spec, RatesOnlyRise

-----------------------------------------------------------------------------
(***************************************************************************)
(* Charging only takes capacity away: a link that is limited stays so and  *)
(* never has more left than its capacity.                                  *)
(***************************************************************************)
ChargedDown ==
    \A l \in Link : IF capacity[l] = Inf THEN remaining[l] = Inf
                    ELSE remaining[l] \in Nat /\ remaining[l] <= capacity[l]

LEMMA ChargedDownStep ==
  ASSUME TypeOK, ChargedDown, [Next]_vars
  PROVE  ChargedDown'
<1>1. CASE FillRound
  <2>1. PICK best \in Offering, rate \in Nat : Round(best, rate)
    BY <1>1, RoundParameters
  <2> SUFFICES ASSUME NEW l \in Link
               PROVE  IF capacity[l] = Inf THEN remaining'[l] = Inf
                      ELSE remaining'[l] \in Nat /\ remaining'[l] <= capacity[l]
    BY <2>1 DEF ChargedDown, Round
  <2> DEFINE count == Cardinality(Live(l) \cap Live(best))
  <2>2. count \in Nat
    BY LiveFinite, FS_Intersection, FS_CardinalityType
  <2>3. remaining'[l] = Charge(l, rate, count)
    BY <2>1 DEF Round, Fix
  <2> HIDE DEF count
  <2>4. CASE capacity[l] = Inf
    BY <2>3, <2>4 DEF Charge, ChargedDown
  <2>5. CASE capacity[l] # Inf
    <3>1. remaining[l] \in Nat /\ remaining[l] <= capacity[l] /\ remaining[l] # Inf
      BY <2>5, InfIsNoNumber DEF ChargedDown
    <3>2. capacity[l] \in Nat
      BY <2>5, CapacitiesType DEF TypeOK
    <3> DEFINE paid == rate * count
    <3>3. paid \in Nat
      BY <2>2
    <3>4. remaining'[l] = IF paid <= remaining[l] THEN remaining[l] - paid ELSE 0
      BY <2>3, <3>1 DEF Charge
    <3> HIDE DEF paid
    <3> QED
      BY <2>5, <3>1, <3>2, <3>3, <3>4
  <2> QED
    BY <2>4, <2>5
<1>2. CASE ~FillRound
  BY <1>2 DEF Next, vars, Prologue, Unconstrain, Return, Terminating, ChargedDown
<1> QED
  BY <1>1, <1>2

LEMMA WithinStep ==
  ASSUME Level, ChargedDown, NoFlowAboveItsLinks, [Next]_vars
  PROVE  NoFlowAboveItsLinks'
<1> USE DEF Level
<1>1. CASE Prologue
  BY <1>1 DEF Prologue, NoFlowAboveItsLinks
<1>2. CASE FillRound
  <2>1. PICK best \in Offering, rate \in Nat : Round(best, rate)
    BY <1>2, RoundParameters
  <2>2. ASSUME NEW f \in Live(best), NEW l \in flow_links[f], capacity[l] # Inf
        PROVE  rate <= capacity[l]
    <3>1. l \in Link /\ f \in Live(l)
      BY DEF Live, TypeOK, Requests
    <3>2. remaining[l] \in Nat /\ remaining[l] <= capacity[l] /\ remaining[l] # Inf
      BY <2>2, <3>1, InfIsNoNumber DEF ChargedDown
    <3>3. l \in Offering
      BY <3>1, <3>2 DEF Offering
    <3> DEFINE n == Cardinality(Live(l))
    <3>4. n \in Nat /\ n # 0
      BY <3>1, LiveFinite, FS_EmptySet
    <3>5. rate * n <= remaining[l]
      BY <2>1, <3>3 DEF Round
    <3> HIDE DEF n
    <3>6. rate <= rate * n
      BY <3>4
    <3>7. capacity[l] \in Nat
      BY <2>2, <3>1, CapacitiesType DEF TypeOK
    <3> QED
      BY <3>2, <3>4, <3>5, <3>6, <3>7
  <2>3. /\ DOMAIN rates' = DOMAIN rates \cup Live(best)
        /\ \A f \in DOMAIN rates' : rates'[f] = IF f \in Live(best) THEN rate ELSE rates[f]
        /\ flow_links' = flow_links /\ capacity' = capacity
    BY <2>1 DEF Round, Fix
  <2> QED
    BY <2>2, <2>3, InfIsNoNumber DEF NoFlowAboveItsLinks
<1>3. CASE Unconstrain
  <2>1. ASSUME NEW f \in unfixed, NEW l \in flow_links[f]
        PROVE  capacity[l] = Inf
    <3>1. l \in Link /\ f \in Live(l)
      BY DEF Live, TypeOK, Requests
    <3>2. remaining[l] = Inf
      BY <1>3, <3>1 DEF Unconstrain, Offering
    <3> QED
      BY <3>1, <3>2, InfIsNoNumber DEF ChargedDown
  <2> QED
    BY <1>3, <2>1 DEF Unconstrain, NoFlowAboveItsLinks
<1>4. CASE Return \/ UNCHANGED vars
  BY <1>4 DEF Return, vars, NoFlowAboveItsLinks
<1> QED
  BY <1>1, <1>2, <1>3, <1>4 DEF Next, Terminating

(***************************************************************************)
(* No flow is ever given more than a link of its route carries, whatever   *)
(* the request: the allocator meets the assumption FlowNetwork makes.      *)
(***************************************************************************)
THEOREM WithinLinks == Spec => []NoFlowAboveItsLinks
<1>1. Init => ChargedDown /\ NoFlowAboveItsLinks
  <2> SUFFICES ASSUME Init PROVE ChargedDown /\ NoFlowAboveItsLinks
    OBVIOUS
  <2>1. \A l \in Link : capacity[l] = Inf \/ capacity[l] \in Nat
    BY CapacitiesType DEF Init
  <2> QED
    BY <2>1 DEF Init, ChargedDown, NoFlowAboveItsLinks
<1>2. Level /\ ChargedDown /\ NoFlowAboveItsLinks /\ [Next]_vars
         => ChargedDown' /\ NoFlowAboveItsLinks'
  BY ChargedDownStep, WithinStep DEF Level
<1> QED
  BY <1>1, <1>2, LevelInit, LevelStep, TypeCorrect, UntouchedAlways, PTL DEF Spec

-----------------------------------------------------------------------------
(***************************************************************************)
(* The load of a link is a sum over the decided flows that cross it, of    *)
(* which there are finitely many.                                          *)
(***************************************************************************)
Counted(alloc, l) == {f \in Crossing(flow_links, l) \cap DOMAIN alloc : alloc[f] # Inf}

LEMMA LoadIsSum ==
  ASSUME TypeOK, NEW alloc, NEW l
  PROVE  /\ Load(flow_links, alloc, l) = SumOver(alloc, Counted(alloc, l))
         /\ IsFiniteSet(Counted(alloc, l))
         /\ IsFiniteSet(Crossing(flow_links, l))
<1>1. DOMAIN flow_links \subseteq Flow
  BY DEF TypeOK, Requests
<1>2. Crossing(flow_links, l) \subseteq Flow /\ Counted(alloc, l) \subseteq Flow
  BY <1>1 DEF Crossing, Counted
<1>3. IsFiniteSet(Crossing(flow_links, l)) /\ IsFiniteSet(Counted(alloc, l))
  BY <1>2, FlowIsFinite, FS_Subset
<1> QED
  BY <1>3 DEF Load, SumOver, Counted

LEMMA CountedNumbers ==
  ASSUME TypeOK, NEW l
  PROVE  /\ \A f \in Counted(rates, l) : rates[f] \in Int
         /\ Load(flow_links, rates, l) \in Int
<1>1. \A f \in Counted(rates, l) : rates[f] \in Int
  BY DEF Counted, TypeOK, Rates
<1> QED
  BY <1>1, LoadIsSum, SumOverType

(***************************************************************************)
(* The inductive invariant behind the bottlenecks.  What a limited link    *)
(* has left is its capacity less its load; flows are decided or wait; a    *)
(* decided flow is unlimited just if no link of its route is limited; and  *)
(* the link named as a flow's bottleneck is used up, by flows that are all *)
(* decided and have no more.                                               *)
(***************************************************************************)
Accounted ==
    \A l \in Link : capacity[l] # Inf =>
        remaining[l] = capacity[l] - Load(flow_links, rates, l)

AllDecided ==
    /\ pc = "filling" => DOMAIN rates \cup unfixed = DOMAIN flow_links
    /\ pc = "returned" => DOMAIN rates = DOMAIN flow_links

UnlimitedIfFree ==
    \A f \in DOMAIN rates : rates[f] = Inf <=> f \notin Constrained(flow_links, capacity)

UsedUp(f, l) ==
    /\ l \in flow_links[f] /\ capacity[l] # Inf /\ remaining[l] = 0
    /\ \A g \in Crossing(flow_links, l) :
          g \in DOMAIN rates /\ rates[g] # Inf /\ rates[g] <= rates[f]

BottlenecksUsedUp ==
    /\ DOMAIN bottleneck = {f \in DOMAIN rates : rates[f] # Inf}
    /\ \A f \in DOMAIN bottleneck : UsedUp(f, bottleneck[f])

Tight == Accounted /\ AllDecided /\ UnlimitedIfFree /\ BottlenecksUsedUp

LEMMA LimitIsNumber ==
  ASSUME capacity \in [Link -> Capacities], NEW l \in Link, capacity[l] # Inf
  PROVE  capacity[l] \in Nat
<1>1. capacity[l] \in Capacities
  OBVIOUS
<1> QED
  BY <1>1, CapacitiesType

LEMMA TightInit == Init => Tight
<1> SUFFICES ASSUME Init PROVE Tight
  OBVIOUS
<1>1. Accounted
  <2> SUFFICES ASSUME NEW l \in Link, capacity[l] # Inf
               PROVE  remaining[l] = capacity[l] - Load(flow_links, rates, l)
    BY DEF Accounted
  <2>1. Counted(rates, l) = {}
    BY DEF Init, Counted
  <2>2. Load(flow_links, rates, l) = SumOver(rates, Counted(rates, l))
    BY DEF Load, SumOver, Counted
  <2>3. Load(flow_links, rates, l) = 0
    BY <2>1, <2>2, SumOverEmpty
  <2>4. remaining[l] \in Int
    BY LimitIsNumber DEF Init
  <2> QED
    BY <2>3, <2>4 DEF Init
<1> QED
  BY <1>1 DEF Init, Tight, AllDecided, UnlimitedIfFree, BottlenecksUsedUp

(***************************************************************************)
(* A round keeps the accounts: a link is charged what its load rises by.   *)
(***************************************************************************)
LEMMA RoundKeepsAccounts ==
  ASSUME Level, TypeOK', ChargedDown, Accounted,
         NEW best \in Offering, NEW rate \in Nat, Round(best, rate)
  PROVE  Accounted'
<1> USE DEF Level
<1> SUFFICES ASSUME NEW l \in Link, capacity[l] # Inf
             PROVE  remaining'[l] = capacity[l] - Load(flow_links, rates', l)
  BY DEF Accounted, Round
<1> DEFINE fixed == Live(l) \cap Live(best)
           n == Cardinality(Live(l))
           k == Cardinality(fixed)
<1>1. IsFiniteSet(Live(l)) /\ IsFiniteSet(fixed) /\ n \in Nat /\ k \in Nat /\ k <= n
  BY LiveFinite, FS_Intersection, FS_CardinalityType
<1>2. remaining[l] \in Nat /\ remaining[l] # Inf
  BY InfIsNoNumber DEF ChargedDown
<1>3. rate * k <= remaining[l]
  <2>1. CASE Live(l) = {}
    <3>1. k = 0
      BY <2>1, FS_EmptySet
    <3> HIDE DEF k
    <3> QED
      BY <1>2, <3>1
  <2>2. CASE Live(l) # {}
    <3>1. rate * n <= remaining[l]
      BY <1>2, <2>2 DEF Offering, Round
    <3> HIDE DEF n, k
    <3> QED
      BY <1>1, <1>2, <3>1, ChargedShare
  <2> QED
    BY <2>1, <2>2
<1>4. remaining'[l] = remaining[l] - rate * k
  <2>1. remaining'[l] = Charge(l, rate, k)
    BY DEF Round, Fix
  <2> HIDE DEF k
  <2> QED
    BY <1>2, <1>3, <2>1 DEF Charge
<1>5. /\ DOMAIN rates' = DOMAIN rates \cup Live(best)
      /\ \A f \in DOMAIN rates' : rates'[f] = IF f \in Live(best) THEN rate ELSE rates[f]
      /\ Live(best) \cap DOMAIN rates = {}
      /\ flow_links' = flow_links
  BY DEF Round, Fix, Disjoint, Live
<1> DEFINE old == Counted(rates, l)
<1>6. /\ Counted(rates', l) = old \cup fixed
      /\ old \cap fixed = {}
  <2>1. rate # Inf
    BY InfIsNoNumber
  <2>2. Live(best) \subseteq DOMAIN flow_links
    BY DEF Live, TypeOK
  <2> QED
    BY <1>5, <2>1, <2>2 DEF Counted, Crossing, Live
<1>7. /\ \A f \in old : rates[f] \in Int /\ rates'[f] = rates[f]
      /\ \A f \in fixed : rates'[f] = rate
      /\ IsFiniteSet(old)
  BY <1>5, CountedNumbers, LoadIsSum DEF Counted
<1> HIDE DEF fixed, old
<1>8. SumOver(rates', old \cup fixed) = SumOver(rates', old) + rate * k
  BY <1>1, <1>6, <1>7, SumOverSameValue
<1>9. SumOver(rates', old) = SumOver(rates, old)
  BY <1>7, SumOverSame
<1>10. Load(flow_links, rates', l) = Load(flow_links, rates, l) + rate * k
  BY <1>6, <1>8, <1>9, LoadIsSum DEF old
<1>11. remaining[l] = capacity[l] - Load(flow_links, rates, l)
  BY DEF Accounted
<1>12. Load(flow_links, rates, l) \in Int /\ capacity[l] \in Int
  BY CountedNumbers, LimitIsNumber DEF TypeOK
<1> DEFINE paid == rate * k
<1>13. paid \in Int
  BY <1>1
<1> HIDE DEF paid, k
<1> QED
  BY <1>4, <1>10, <1>11, <1>12, <1>13 DEF paid

(***************************************************************************)
(* The flows of a round get the share of the link it picked, which has     *)
(* nothing left afterwards and no flow of a larger rate; the links that    *)
(* were used up before stay as they are.                                   *)
(***************************************************************************)
LEMMA RoundNamesBottlenecks ==
  ASSUME Level, ChargedDown, Tight,
         NEW best \in Offering, NEW rate \in Nat, remaining[best] \in Nat, Round(best, rate)
  PROVE  AllDecided' /\ UnlimitedIfFree' /\ BottlenecksUsedUp'
<1> USE DEF Level, Tight
<1>1. /\ DOMAIN rates' = DOMAIN rates \cup Live(best)
      /\ \A f \in DOMAIN rates' : rates'[f] = IF f \in Live(best) THEN rate ELSE rates[f]
      /\ DOMAIN bottleneck' = DOMAIN bottleneck \cup Live(best)
      /\ \A f \in DOMAIN bottleneck' :
            bottleneck'[f] = IF f \in Live(best) THEN best ELSE bottleneck[f]
      /\ unfixed' = unfixed \ Live(best)
      /\ unfixed \cap DOMAIN rates = {}
      /\ DOMAIN rates \cup unfixed = DOMAIN flow_links
      /\ UNCHANGED <<pc, flow_links, capacity>>
      /\ pc = "filling"
  BY DEF Round, Fix, Disjoint, AllDecided
<1>2. /\ best \in Link /\ capacity[best] # Inf /\ rate # Inf
      /\ Live(best) \subseteq unfixed
      /\ \A f \in Live(best) : best \in flow_links[f]
      /\ \A f \in Live(best) : f \in Constrained(flow_links, capacity)
  <2>1. best \in Link /\ remaining[best] # Inf /\ rate # Inf
    BY InfIsNoNumber DEF Offering
  <2>2. capacity[best] # Inf
    BY <2>1 DEF ChargedDown
  <2> QED
    BY <1>1, <2>1, <2>2 DEF Live, Constrained, TypeOK
<1>3. AllDecided'
  BY <1>1, <1>2 DEF AllDecided
<1>4. UnlimitedIfFree'
  BY <1>1, <1>2 DEF UnlimitedIfFree
<1>5. ASSUME NEW f \in Live(best)
      PROVE  UsedUp(f, best)'
  <2>1. remaining'[best] = 0
    <3> DEFINE n == Cardinality(Live(best))
    <3>1. remaining'[best] = Charge(best, rate, n)
      <4>1. Live(best) \cap Live(best) = Live(best)
        OBVIOUS
      <4> QED
        BY <1>2, <4>1 DEF Round, Fix
    <3>2. rate * n = remaining[best]
      BY DEF Round
    <3>3. remaining[best] # Inf
      BY InfIsNoNumber
    <3> HIDE DEF n
    <3> QED
      BY <3>1, <3>2, <3>3 DEF Charge
  <2>2. ASSUME NEW g \in Crossing(flow_links, best)
        PROVE  g \in DOMAIN rates' /\ rates'[g] # Inf /\ rates'[g] <= rate
    <3>1. g \in DOMAIN flow_links /\ best \in flow_links[g]
      BY DEF Crossing
    <3>2. CASE g \in unfixed
      BY <1>1, <1>2, <3>1, <3>2 DEF Live
    <3>3. CASE g \in DOMAIN rates
      <4>1. g \in Constrained(flow_links, capacity)
        BY <1>2, <3>1 DEF Constrained
      <4>2. rates[g] # Inf
        BY <3>3, <4>1 DEF UnlimitedIfFree
      <4>3. rates[g] <= rate
        BY <3>3, <4>2, RateAboveLevel
      <4> QED
        BY <1>1, <1>2, <3>3, <4>2, <4>3
    <3> QED
      BY <1>1, <3>1, <3>2, <3>3
  <2> QED
    BY <1>1, <1>2, <2>1, <2>2 DEF UsedUp
<1>6. ASSUME NEW f \in DOMAIN bottleneck
      PROVE  UsedUp(f, bottleneck[f])' /\ f \notin Live(best)
  <2> DEFINE l == bottleneck[f]
  <2>1. UsedUp(f, l) /\ f \in DOMAIN rates /\ l \in Link
    BY DEF BottlenecksUsedUp, TypeOK
  <2>2. bottleneck'[f] = l /\ f \notin Live(best)
    BY <1>1, <1>2, <2>1
  <2> HIDE DEF l
  <2>3. Live(l) = {}
    BY <1>1, <2>1 DEF UsedUp, Crossing, Live
  <2>4. remaining'[l] = 0
    <3>1. Cardinality(Live(l) \cap Live(best)) = 0
      BY <2>3, FS_EmptySet
    <3>2. remaining'[l] = Charge(l, rate, 0)
      BY <2>1, <3>1 DEF Round, Fix
    <3>3. remaining[l] = 0 /\ remaining[l] # Inf
      BY <2>1, InfIsNoNumber DEF UsedUp
    <3>4. rate * 0 = 0
      OBVIOUS
    <3> QED
      BY <3>2, <3>3, <3>4 DEF Charge
  <2>5. ASSUME NEW g \in Crossing(flow_links, l)
        PROVE  g \in DOMAIN rates' /\ rates'[g] = rates[g]
    BY <1>1, <1>2, <2>1 DEF UsedUp
  <2> QED
    BY <1>1, <2>1, <2>2, <2>4, <2>5 DEF UsedUp
<1>7. DOMAIN bottleneck' = {f \in DOMAIN rates' : rates'[f] # Inf}
  BY <1>1, <1>2 DEF BottlenecksUsedUp
<1>8. \A f \in DOMAIN bottleneck' : UsedUp(f, bottleneck[f])'
  BY <1>1, <1>5, <1>6
<1> QED
  BY <1>3, <1>4, <1>7, <1>8 DEF BottlenecksUsedUp

(***************************************************************************)
(* Flows that are given no finite rate count for no link.                  *)
(***************************************************************************)
LEMMA UncountedKeepAccounts ==
  ASSUME Level, Accounted, UNCHANGED <<flow_links, capacity, remaining>>,
         DOMAIN rates \subseteq DOMAIN rates',
         \A f \in DOMAIN rates : rates'[f] = rates[f],
         \A f \in DOMAIN rates' \ DOMAIN rates : rates'[f] = Inf
  PROVE  Accounted'
<1> SUFFICES ASSUME NEW l \in Link, capacity[l] # Inf
             PROVE  remaining[l] = capacity[l] - Load(flow_links, rates', l)
  BY DEF Accounted
<1> USE DEF Level
<1> DEFINE old == Counted(rates, l)
<1>1. Counted(rates', l) = old
  BY DEF Counted
<1>2. /\ \A f \in old : rates[f] \in Int /\ rates'[f] = rates[f]
      /\ IsFiniteSet(old)
  BY CountedNumbers, LoadIsSum DEF Counted
<1> HIDE DEF old
<1>3. SumOver(rates', old) = SumOver(rates, old)
  BY <1>2, SumOverSame
<1>4. Load(flow_links, rates', l) = Load(flow_links, rates, l)
  BY <1>1, <1>3, LoadIsSum DEF old
<1> QED
  BY <1>4 DEF Accounted

LEMMA TightStep ==
  ASSUME Level, TypeOK', ChargedDown, Tight, [Next]_vars
  PROVE  Tight'
<1> USE DEF Level
<1>1. CASE Prologue
  <2>1. DOMAIN rates = {} /\ DOMAIN bottleneck = {}
    BY <1>1 DEF Untouched, Prologue
  <2>2. Accounted'
    BY <1>1, <2>1, UncountedKeepAccounts DEF Prologue, Tight
  <2>3. AllDecided' /\ UnlimitedIfFree'
    BY <1>1 DEF Prologue, AllDecided, UnlimitedIfFree, Constrained
  <2>4. BottlenecksUsedUp'
    BY <1>1, <2>1 DEF Prologue, BottlenecksUsedUp
  <2> QED
    BY <2>2, <2>3, <2>4 DEF Tight
<1>2. CASE FillRound
  <2>1. PICK best \in Offering, rate \in Nat : remaining[best] \in Nat /\ Round(best, rate)
    BY <1>2, RoundParameters
  <2> QED
    BY <2>1, RoundKeepsAccounts, RoundNamesBottlenecks DEF Tight
<1>3. CASE Unconstrain
  <2>1. /\ DOMAIN rates' = DOMAIN rates \cup unfixed
        /\ \A f \in DOMAIN rates : rates'[f] = rates[f]
        /\ \A f \in unfixed : rates'[f] = Inf
        /\ unfixed \cap DOMAIN rates = {}
        /\ DOMAIN rates' = DOMAIN flow_links
        /\ pc' = "returned"
        /\ UNCHANGED <<flow_links, capacity, remaining, bottleneck>>
    BY <1>3 DEF Unconstrain, Disjoint, Tight, AllDecided
  <2>2. Accounted'
    BY <2>1, UncountedKeepAccounts DEF Tight
  <2>3. AllDecided'
    BY <2>1 DEF AllDecided
  <2>4. UnlimitedIfFree'
    <3>1. ASSUME NEW f \in unfixed PROVE f \notin Constrained(flow_links, capacity)
      <4> SUFFICES ASSUME NEW l \in flow_links[f] PROVE capacity[l] = Inf
        BY DEF Constrained
      <4>1. l \in Link /\ f \in Live(l)
        BY DEF Live, TypeOK, Requests
      <4>2. remaining[l] = Inf
        BY <1>3, <4>1 DEF Unconstrain, Offering
      <4> QED
        BY <4>1, <4>2, InfIsNoNumber DEF ChargedDown
    <3> QED
      BY <2>1, <3>1 DEF Tight, UnlimitedIfFree
  <2>5. BottlenecksUsedUp'
    <3>1. DOMAIN bottleneck' = {f \in DOMAIN rates' : rates'[f] # Inf}
      BY <2>1 DEF Tight, BottlenecksUsedUp
    <3>2. ASSUME NEW f \in DOMAIN bottleneck PROVE UsedUp(f, bottleneck[f])'
      BY <2>1 DEF Tight, BottlenecksUsedUp, UsedUp
    <3> QED
      BY <2>1, <3>1, <3>2 DEF BottlenecksUsedUp
  <2> QED
    BY <2>2, <2>3, <2>4, <2>5 DEF Tight
<1>4. CASE Return
  BY <1>4 DEF Return, Tight, Accounted, AllDecided, UnlimitedIfFree, BottlenecksUsedUp, UsedUp
<1>5. CASE UNCHANGED vars
  BY <1>5 DEF vars, Tight, Accounted, AllDecided, UnlimitedIfFree, BottlenecksUsedUp, UsedUp
<1> QED
  BY <1>1, <1>2, <1>3, <1>4, <1>5 DEF Next, Terminating

(***************************************************************************)
(* What the invariant says when the call returns.                          *)
(***************************************************************************)
LEMMA TightIsBottlenecked ==
  ASSUME Level, ChargedDown, Tight
  PROVE  BottleneckIsTight
<1> SUFFICES ASSUME pc = "returned"
             PROVE  /\ Bottlenecked(flow_links, capacity, rates)
                    /\ \A f \in DOMAIN flow_links :
                          /\ f \in DOMAIN bottleneck <=> rates[f] # Inf
                          /\ f \in DOMAIN bottleneck =>
                                IsBottleneck(flow_links, capacity, rates, f, bottleneck[f])
  BY DEF BottleneckIsTight
<1> USE DEF Level
<1>1. DOMAIN rates = DOMAIN flow_links
  BY DEF Tight, AllDecided
<1>2. \A f \in DOMAIN flow_links : f \in DOMAIN bottleneck <=> rates[f] # Inf
  BY <1>1 DEF Tight, BottlenecksUsedUp
<1>3. ASSUME NEW l \in Link, capacity[l] # Inf
      PROVE  /\ Load(flow_links, rates, l) <= capacity[l]
             /\ remaining[l] = 0 => Load(flow_links, rates, l) = capacity[l]
  <2>1. remaining[l] = capacity[l] - Load(flow_links, rates, l)
    BY <1>3 DEF Tight, Accounted
  <2>2. remaining[l] \in Nat /\ capacity[l] \in Int
    BY <1>3, LimitIsNumber DEF ChargedDown, TypeOK
  <2>3. Load(flow_links, rates, l) \in Int
    BY CountedNumbers
  <2> QED
    BY <2>1, <2>2, <2>3
<1>4. Conserves(flow_links, capacity, rates)
  <2>1. DOMAIN capacity = Link
    BY DEF TypeOK
  <2> QED
    BY <1>3, <2>1 DEF Conserves
<1>5. ASSUME NEW f \in DOMAIN bottleneck
      PROVE  IsBottleneck(flow_links, capacity, rates, f, bottleneck[f])
  <2>1. UsedUp(f, bottleneck[f]) /\ bottleneck[f] \in Link
    BY DEF Tight, BottlenecksUsedUp, TypeOK
  <2> QED
    BY <1>3, <2>1 DEF UsedUp, IsBottleneck
<1>6. \A f \in DOMAIN flow_links : rates[f] = Inf <=> f \notin Constrained(flow_links, capacity)
  BY <1>1 DEF Tight, UnlimitedIfFree
<1>7. \A f \in Constrained(flow_links, capacity) :
          \E l \in flow_links[f] : IsBottleneck(flow_links, capacity, rates, f, l)
  <2> SUFFICES ASSUME NEW f \in Constrained(flow_links, capacity)
               PROVE  \E l \in flow_links[f] : IsBottleneck(flow_links, capacity, rates, f, l)
    OBVIOUS
  <2>1. f \in DOMAIN bottleneck
    BY <1>2, <1>6 DEF Constrained
  <2>2. IsBottleneck(flow_links, capacity, rates, f, bottleneck[f])
    BY <1>5, <2>1
  <2>3. bottleneck[f] \in flow_links[f]
    BY <2>2 DEF IsBottleneck
  <2> QED
    BY <2>2, <2>3
<1> QED
  BY <1>1, <1>2, <1>4, <1>5, <1>6, <1>7 DEF Bottlenecked

LEMMA TightAlways == Spec => [](Level /\ ChargedDown /\ Tight)
<1>1. Init => ChargedDown
  <2> SUFFICES ASSUME Init PROVE ChargedDown
    OBVIOUS
  <2>1. \A l \in Link : capacity[l] = Inf \/ capacity[l] \in Nat
    BY CapacitiesType DEF Init
  <2> QED
    BY <2>1 DEF Init, ChargedDown
<1>2. Level /\ ChargedDown /\ Tight /\ TypeOK' /\ [Next]_vars => ChargedDown' /\ Tight'
  BY ChargedDownStep, TightStep DEF Level
<1> QED
  BY <1>1, <1>2, LevelInit, LevelStep, TightInit, TypeCorrect, UntouchedAlways, PTL DEF Spec

(***************************************************************************)
(* The link a call names as a flow's bottleneck is one, for any request    *)
(* and any order of breaking ties: it is saturated and no flow on it has   *)
(* more, no link carries more than its capacity, and just the flows that   *)
(* no link limits are without a bottleneck.                                *)
(***************************************************************************)
THEOREM BottlenecksHold == Spec => []BottleneckIsTight
<1>1. Level /\ ChargedDown /\ Tight => BottleneckIsTight
  BY TightIsBottlenecked
<1> QED
  BY <1>1, TightAlways, PTL
(***************************************************************************)
(* A flow is given nothing only where a link of its route has no capacity, *)
(* as FlowNetwork relies on (its assumption FairRateStarves): the flows on *)
(* its bottleneck all have nothing, and they saturate it.                  *)
(***************************************************************************)
StarvedByALink ==
    pc = "returned" =>
        \A f \in DOMAIN rates : rates[f] = 0 => \E l \in flow_links[f] : capacity[l] = 0

THEOREM NoneStarved == Spec => []StarvedByALink
<1>1. Level /\ ChargedDown /\ Tight => StarvedByALink
  <2> SUFFICES ASSUME Level, ChargedDown, Tight, pc = "returned",
                      NEW f \in DOMAIN rates, rates[f] = 0
               PROVE  \E l \in flow_links[f] : capacity[l] = 0
    BY DEF StarvedByALink
  <2> USE DEF Level
  <2>1. Bottlenecked(flow_links, capacity, rates)
    BY TightIsBottlenecked DEF BottleneckIsTight
  <2>2. f \in Constrained(flow_links, capacity)
    BY <2>1, InfIsNoNumber DEF Bottlenecked
  <2>3. PICK l \in flow_links[f] : IsBottleneck(flow_links, capacity, rates, f, l)
    BY <2>1, <2>2 DEF Bottlenecked
  <2> DEFINE all == Counted(rates, l)
  <2>4. \A g \in all : rates[g] \in Nat /\ rates[g] <= 0
    BY <2>3 DEF IsBottleneck, Counted, TypeOK, Rates
  <2>5. /\ IsFiniteSet({}) /\ {} \cap all = {} /\ {} \cup all = all
        /\ \A g \in {} : rates[g] \in Int
        /\ IsFiniteSet(all) /\ Cardinality(all) \in Nat
    BY LoadIsSum, FS_EmptySet, FS_CardinalityType
  <2>6. Load(flow_links, rates, l) = SumOver(rates, all)
    BY LoadIsSum
  <2> HIDE DEF all
  <2>7. SumOver(rates, {} \cup all) = SumOver(rates, {}) + 0 * Cardinality(all)
    <3>1. \A g \in all : rates[g] = 0
      BY <2>4
    <3> QED
      BY <2>5, <3>1, SumOverSameValue
  <2>8. SumOver(rates, all) = 0
    BY <2>5, <2>7, SumOverEmpty
  <2> QED
    BY <2>3, <2>6, <2>8 DEF IsBottleneck
<1> QED
  BY <1>1, TightAlways, PTL

-----------------------------------------------------------------------------
(***************************************************************************)
(* The bottleneck condition makes an allocation max-min fair: if a flow    *)
(* could have more in some other allocation, the link that is its          *)
(* bottleneck carries no more there than it does here, so some flow on it, *)
(* which has no more than the first one, must have less there.             *)
(***************************************************************************)
LEMMA OnLimitedLink ==
  ASSUME TypeOK, Bottlenecked(flow_links, capacity, rates),
         NEW l \in Link, capacity[l] # Inf,
         NEW alt, DOMAIN alt = Constrained(flow_links, capacity),
         \A f \in DOMAIN alt : alt[f] \in Int
  PROVE  /\ Crossing(flow_links, l) \subseteq DOMAIN alt
         /\ \A f \in Crossing(flow_links, l) : rates[f] \in Int
         /\ Load(flow_links, rates, l) = SumOver(rates, Crossing(flow_links, l))
         /\ Load(flow_links, alt, l) = SumOver(alt, Crossing(flow_links, l))
<1>1. Crossing(flow_links, l) \subseteq Constrained(flow_links, capacity)
  BY DEF Crossing, Constrained
<1>2. \A f \in Crossing(flow_links, l) : f \in DOMAIN rates /\ rates[f] # Inf
  BY <1>1 DEF Bottlenecked, Crossing
<1>3. \A f \in Crossing(flow_links, l) : rates[f] \in Int
  BY <1>2 DEF TypeOK, Rates
<1>4. Counted(rates, l) = Crossing(flow_links, l)
  BY <1>2 DEF Counted
<1>5. Counted(alt, l) = Crossing(flow_links, l)
  BY <1>1, InfIsNoNumber DEF Counted
<1> QED
  BY <1>1, <1>3, <1>4, <1>5, LoadIsSum

LEMMA BottleneckedIsFair ==
  ASSUME TypeOK, Bottlenecked(flow_links, capacity, rates)
  PROVE  IsMaxMinFair(flow_links, capacity, rates)
<1> DEFINE limited == Constrained(flow_links, capacity)
<1>1. ASSUME NEW bound, NEW alt \in [limited -> 0..bound],
             Conserves(flow_links, capacity, alt),
             NEW f \in limited, alt[f] > rates[f]
      PROVE  \E g \in limited : rates[g] <= rates[f] /\ alt[g] < rates[g]
  <2> SUFFICES ASSUME \A g \in limited : rates[g] <= rates[f] => ~ (alt[g] < rates[g])
               PROVE  FALSE
    OBVIOUS
  <2>1. PICK l \in flow_links[f] : IsBottleneck(flow_links, capacity, rates, f, l)
    BY DEF Bottlenecked
  <2>2. l \in Link /\ capacity[l] # Inf
    BY <2>1 DEF IsBottleneck, TypeOK, Requests, Constrained
  <2>3. DOMAIN alt = limited /\ \A g \in DOMAIN alt : alt[g] \in Int
    OBVIOUS
  <2> DEFINE all == Crossing(flow_links, l)
  <2>4. /\ all \subseteq limited
        /\ \A g \in all : rates[g] \in Int /\ alt[g] \in Int
        /\ Load(flow_links, rates, l) = SumOver(rates, all)
        /\ Load(flow_links, alt, l) = SumOver(alt, all)
        /\ IsFiniteSet(all)
    BY <2>2, <2>3, OnLimitedLink, LoadIsSum
  <2>5. f \in all
    BY <2>1 DEF Crossing, Constrained
  <2>6. \A g \in all : rates[g] <= alt[g]
    BY <2>1, <2>4 DEF IsBottleneck
  <2>7. rates[f] < alt[f]
    BY <1>1, <2>4, <2>5
  <2> HIDE DEF all
  <2>8. SumOver(rates, all) < SumOver(alt, all)
    BY <2>4, <2>5, <2>6, <2>7, SumOverGrows
  <2>9. Load(flow_links, alt, l) <= capacity[l]
    BY <1>1, <2>2 DEF Conserves, TypeOK
  <2>10. Load(flow_links, rates, l) = capacity[l]
    BY <2>1 DEF IsBottleneck
  <2>11. SumOver(rates, all) \in Int /\ SumOver(alt, all) \in Int
    BY <2>4, SumOverType
  <2> QED
    BY <2>4, <2>8, <2>9, <2>10, <2>11
<1> QED
  BY <1>1 DEF IsMaxMinFair, Bottlenecked

(***************************************************************************)
(* What the abstract specification says of the rates it returns.           *)
(***************************************************************************)
FairOnReturn ==
    pc = "returned" => rates # NoRates /\ IsMaxMinFair(flow_links, capacity, rates)

LEMMA FairOnReturnAlways == Spec => []FairOnReturn
<1>1. Level /\ ChargedDown /\ Tight => FairOnReturn
  <2> SUFFICES ASSUME Level, ChargedDown, Tight, pc = "returned"
               PROVE  rates # NoRates /\ IsMaxMinFair(flow_links, capacity, rates)
    BY DEF FairOnReturn
  <2>1. TypeOK /\ Bottlenecked(flow_links, capacity, rates)
    BY TightIsBottlenecked DEF BottleneckIsTight, Level
  <2>2. IsMaxMinFair(flow_links, capacity, rates)
    BY <2>1, BottleneckedIsFair
  <2>3. DOMAIN rates \in SUBSET Flow /\ rates \in [DOMAIN rates -> Rates]
    BY <2>1 DEF TypeOK, Requests
  <2> QED
    BY <2>2, <2>3, NoRatesIsNone
<1> QED
  BY <1>1, TightAlways, PTL

(* The definitions that the instance brings along are the same. *)
LEMMA SameFairness ==
  ASSUME NEW fl, NEW c, NEW r
  PROVE  Abstract!IsMaxMinFair(fl, c, r) = IsMaxMinFair(fl, c, r)
<1>1. \A alloc, l : Abstract!Load(fl, alloc, l) = Load(fl, alloc, l)
  BY Zenon DEF Load, Abstract!Load, Crossing, Abstract!Crossing,
        MapThenSumSet, Abstract!MapThenSumSet, MapThenFoldSet, Abstract!MapThenFoldSet
<1>2. \A S : Abstract!Max(S) = Max(S)
  BY Zenon DEF Max, Abstract!Max
<1>3. Abstract!Constrained(fl, c) = Constrained(fl, c)
  BY Zenon DEF Constrained, Abstract!Constrained
<1>4. \A alloc : Abstract!Conserves(fl, c, alloc) = Conserves(fl, c, alloc)
  BY <1>1, Zenon DEF Conserves, Abstract!Conserves
<1> QED
  BY <1>2, <1>3, <1>4, Zenon DEF IsMaxMinFair, Abstract!IsMaxMinFair

(***************************************************************************)
(* max_min_fair_share keeps its promise: seen from outside, where the      *)
(* rates appear when the call returns, progressive filling does one step,  *)
(* to an allocation that is max-min fair by definition.                    *)
(***************************************************************************)
THEOREM FillingIsFair == Spec => ReturnsFairRates
<1>1. Init => Abstract!Init
  BY DEF Init, Abstract!Init, Requests, Abstract!Requests
<1>2. FairOnReturn' /\ [Next]_vars => [Abstract!Next]_Abstract!vars
  <2> SUFFICES ASSUME FairOnReturn', [Next]_vars, ~ UNCHANGED Abstract!vars
               PROVE  Abstract!Next
    OBVIOUS
  <2>1. /\ UNCHANGED <<flow_links, capacity>>
        /\ pc # "returned" /\ pc' = "returned"
    BY DEF Next, vars, Prologue, FillRound, Round, Unconstrain, Return, Terminating, Abstract!vars
  <2>2. rates' # NoRates /\ IsMaxMinFair(flow_links, capacity, rates')
    BY <2>1 DEF FairOnReturn
  <2>3. Abstract!IsMaxMinFair(flow_links, capacity, rates')
    BY <2>2, SameFairness
  <2> QED
    BY <2>1, <2>2, <2>3 DEF Abstract!Next, Abstract!Return
<1> QED
  BY <1>1, <1>2, FairOnReturnAlways, PTL DEF Spec, ReturnsFairRates, Abstract!Spec
=============================================================================
