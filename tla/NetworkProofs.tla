--------------------------- MODULE NetworkProofs ---------------------------
(***************************************************************************)
(* Proofs about FlowNetwork, for any flows, routes, capacities, sizes and  *)
(* times, and any allocator that meets the assumption FairRateType; then   *)
(* about a call of run_transfers over it, for any transfers and submit     *)
(* times: nothing that completes is lost, no transfer is faster in company *)
(* than alone, and, without rounding, none is completed late; and about    *)
(* the host of HostEvents.                                                 *)
(***************************************************************************)
EXTENDS TransferRun, HostEvents, DataLemmas, TLAPS

-----------------------------------------------------------------------------
(***************************************************************************)
(* A quotient rounded up is a natural number.                              *)
(***************************************************************************)
LEMMA CeilDivType ==
  ASSUME NEW a \in Nat, NEW b \in Nat, b # 0
  PROVE  CeilDiv(a, b) \in Nat
<1>1. a + b - 1 \in Nat
  OBVIOUS
<1> DEFINE n == a + b - 1
<1> HIDE DEF n
<1>2. n \in Nat => n \div b \in Nat
  OBVIOUS
<1> QED
  BY <1>1, <1>2 DEF CeilDiv, n

-----------------------------------------------------------------------------
(***************************************************************************)
(* The rates in force are natural numbers or Inf, one for each flow in     *)
(* flight, and never above the capacity of a link of the flow's route.     *)
(***************************************************************************)
LEMMA AllocType ==
  ASSUME TypeOK, AllocationIsCurrent
  PROVE  /\ alloc \in [InFlight -> Nat \cup {Inf}]
         /\ \A f \in InFlight, l \in Link :
               l \in Route[f] => alloc[f] \in Nat /\ alloc[f] <= Capacity[l]
<1>1. InFlight \in SUBSET Flow
  BY DEF InFlight
<1>2. alloc = FairRate[InFlight]
  BY DEF AllocationIsCurrent
<1>3. alloc \in [InFlight -> Nat \cup {Inf}]
  BY <1>1, <1>2, FairRateType
<1>4. ASSUME NEW f \in InFlight, NEW l \in Link, l \in Route[f]
      PROVE  alloc[f] \in Nat /\ alloc[f] <= Capacity[l]
  <2>1. alloc[f] # Inf
    BY <1>1, <1>2, <1>4, FairRateType
  <2>2. alloc[f] <= Capacity[l]
    BY <1>1, <1>2, <1>4, FairRateType
  <2> QED
    BY <1>3, <2>1, <2>2
<1> QED
  BY <1>3, <1>4

(***************************************************************************)
(* While any flow moves a completion is predicted.  A predicted completion *)
(* is a time, and never lies in the past.                                  *)
(***************************************************************************)
LEMMA MovingPredicts ==
  ASSUME TypeOK, AllocationIsCurrent, Moving # {}
  PROVE  NextCompletionTime \in Nat /\ NextCompletionTime >= now_ns
<1>1. ASSUME NEW f \in Moving
      PROVE  Due(f) \in Nat /\ Due(f) >= now_ns
  <2>1. f \in Flow /\ f \in InFlight /\ alloc[f] # 0
    BY <1>1 DEF Moving, InFlight
  <2>2. now_ns \in Nat /\ remaining[f] \in Nat /\ sliver[f] \in Residues
    BY <2>1 DEF TypeOK
  <2>3. alloc[f] = Inf \/ alloc[f] \in Nat
    BY <2>1, AllocType
  <2>4. CASE alloc[f] = Inf \/ sliver[f] = "absorbed"
    BY <2>2, <2>4 DEF Due
  <2>5. CASE alloc[f] # Inf /\ sliver[f] = "visible"
    BY <2>2, <2>5 DEF Due
  <2>6. CASE alloc[f] # Inf /\ sliver[f] = "none"
    <3>1. CeilDiv(remaining[f], alloc[f]) \in Nat
      BY <2>1, <2>2, <2>3, <2>6, CeilDivType
    <3>2. Due(f) = now_ns + CeilDiv(remaining[f], alloc[f])
      BY <2>6 DEF Due
    <3> QED
      BY <2>2, <3>1, <3>2
  <2> QED
    BY <2>2, <2>4, <2>5, <2>6 DEF Residues
<1> DEFINE S == {Due(f) : f \in Moving}
<1>2. S \in SUBSET Nat /\ \A t \in S : t >= now_ns
  BY <1>1
<1>3. NextCompletionTime = Min(S)
  BY DEF NextCompletionTime
<1>4. S # {}
  OBVIOUS
<1> HIDE DEF S
<1>5. Min(S) \in S
  BY <1>2, <1>4, LeastNatural
<1> QED
  BY <1>2, <1>3, <1>5

LEMMA NextIsLater ==
  ASSUME TypeOK, AllocationIsCurrent, NextCompletionTime # None
  PROVE  NextCompletionTime \in Nat /\ NextCompletionTime >= now_ns
<1>1. Moving # {}
  BY DEF NextCompletionTime
<1> QED
  BY <1>1, MovingPredicts

(***************************************************************************)
(* Draining leaves a natural number of bytes: remaining_bytes is clamped.  *)
(***************************************************************************)
LEMMA LeftType ==
  ASSUME TypeOK, AllocationIsCurrent, NEW until \in Nat, NEW f \in Flow
  PROVE  Left(f, until) \in Nat
<1>1. now_ns \in Nat /\ remaining[f] \in Nat
  BY DEF TypeOK
<1>2. CASE f \notin InFlight \/ until <= now_ns
  BY <1>1, <1>2 DEF Left
<1>3. CASE f \in InFlight /\ ~(until <= now_ns) /\ alloc[f] = Inf
  BY <1>1, <1>3 DEF Left
<1>4. CASE f \in InFlight /\ ~(until <= now_ns) /\ alloc[f] # Inf
  <2>1. alloc[f] \in Nat
    BY <1>4, AllocType
  <2> DEFINE moved == alloc[f] * (until - now_ns)
  <2>2. until - now_ns \in Nat
    BY <1>1, <1>4
  <2>3. moved \in Nat
    BY <2>1, <2>2
  <2>4. Left(f, until) = IF moved <= remaining[f] THEN remaining[f] - moved ELSE 0
    BY <1>4 DEF Left
  <2> HIDE DEF moved
  <2> QED
    BY <1>1, <2>3, <2>4
<1> QED
  BY <1>2, <1>3, <1>4

LEMMA DrainType ==
  ASSUME TypeOK, AllocationIsCurrent, NEW until \in Nat, Drain(until)
  PROVE  /\ now_ns' \in Nat
         /\ remaining' \in [Flow -> Nat]
         /\ sliver' \in [Flow -> Residues]
<1>1. now_ns' \in Nat
  BY DEF Drain, TypeOK
<1>2. remaining' \in [Flow -> Nat]
  BY LeftType DEF Drain, Credited
<1>3. sliver' \in [Flow -> Residues]
  BY DEF Drain, Slivers
<1> QED
  BY <1>1, <1>2, <1>3

-----------------------------------------------------------------------------
(***************************************************************************)
(* Types and the rates in force, together: neither is inductive alone,     *)
(* since the types of remaining_bytes rest on the rates being those of the *)
(* flows in flight.                                                        *)
(***************************************************************************)
Sound == TypeOK /\ AllocationIsCurrent

LEMMA SoundInit == Init => Sound
<1> SUFFICES ASSUME Init PROVE Sound
  OBVIOUS
<1>1. InFlight = {}
  BY DEF Init, InFlight
<1>2. AllocationIsCurrent
  BY <1>1 DEF Init, AllocationIsCurrent
<1>3. TypeOK
  BY DEF Init, TypeOK, Residues
<1> QED
  BY <1>2, <1>3 DEF Sound

(***************************************************************************)
(* _reallocate, applied to the flows that are in flight afterwards.        *)
(***************************************************************************)
LEMMA ReallocateSound ==
  ASSUME TypeOK, Reallocate(InFlight')
  PROVE  /\ AllocationIsCurrent'
         /\ revision' \in Nat
         /\ \E live \in SUBSET Flow : alloc' = FairRate[live]
<1>1. InFlight' \in SUBSET Flow
  BY DEF InFlight
<1>2. alloc' = FairRate[InFlight'] /\ revision' \in Nat
  BY DEF Reallocate, TypeOK
<1> QED
  BY <1>1, <1>2 DEF AllocationIsCurrent

LEMMA SoundSubmit ==
  ASSUME Sound, NEW f \in Flow, NEW size \in Sizes, NEW at \in Nat, Submit(f, size, at)
  PROVE  Sound'
<1> USE DEF Sound
<1>1. size \in Nat
  BY SizesType
<1>2. Credited(at) \in [Flow -> Nat]
  BY LeftType DEF Credited
<1>3. InFlight' = InFlight \cup {f}
  BY DEF Submit, InFlight, TypeOK
<1>4. Reallocate(InFlight')
  BY <1>3 DEF Submit
<1>5. AllocationIsCurrent'
  BY <1>4, ReallocateSound
<1>6. TypeOK'
  <2>1. remaining' \in [Flow -> Nat]
    BY <1>1, <1>2 DEF Submit
  <2>2. sliver' \in [Flow -> Residues]
    BY DEF Submit, Slivers
  <2>3. state' \in [Flow -> {"unsubmitted", "in_flight", "completed"}]
    BY DEF Submit, TypeOK
  <2>4. total' \in [Flow -> Nat] /\ start_ns' \in [Flow -> Nat] /\ now_ns' \in Nat
    BY <1>1 DEF Submit, TypeOK
  <2>5. /\ pc' \in {"idle", "head", "drained"} /\ target' \in Nat /\ out' \in SUBSET Flow
        /\ completion_ns' \in [Flow -> Nat \cup {None}]
    BY DEF Submit, TypeOK, call
  <2> QED
    BY <1>4, <2>1, <2>2, <2>3, <2>4, <2>5, ReallocateSound DEF TypeOK
<1> QED
  BY <1>5, <1>6

LEMMA SoundComplete == Sound /\ CompleteFinished => Sound'
<1> SUFFICES ASSUME Sound, CompleteFinished PROVE Sound'
  OBVIOUS
<1> USE DEF Sound
<1>1. Finished \in SUBSET Flow
  BY DEF Finished, InFlight
<1>2. InFlight' = InFlight \ Finished
  BY DEF CompleteFinished, InFlight, Finished, TypeOK
<1>3. Reallocate(InFlight')
  BY <1>2 DEF CompleteFinished
<1>4. TypeOK'
  <2>1. state' \in [Flow -> {"unsubmitted", "in_flight", "completed"}]
    BY DEF CompleteFinished, TypeOK
  <2>2. completion_ns' \in [Flow -> Nat \cup {None}]
    BY DEF CompleteFinished, TypeOK
  <2>3. out' \in SUBSET Flow
    BY <1>1 DEF CompleteFinished, TypeOK
  <2>4. /\ pc' \in {"idle", "head", "drained"} /\ target' \in Nat /\ now_ns' \in Nat
        /\ total' \in [Flow -> Nat] /\ start_ns' \in [Flow -> Nat]
        /\ remaining' \in [Flow -> Nat] /\ sliver' \in [Flow -> Residues]
    BY DEF CompleteFinished, TypeOK, bytes
  <2> QED
    BY <1>3, <2>1, <2>2, <2>3, <2>4, ReallocateSound DEF TypeOK
<1> QED
  BY <1>3, <1>4, ReallocateSound

(***************************************************************************)
(* The steps of advance_to that only move time.                            *)
(***************************************************************************)
LEMMA SoundDrain ==
  ASSUME Sound, NEW until \in Nat, Drain(until),
         pc' \in {"idle", "head", "drained"}, UNCHANGED <<target, out, flows, revision, alloc>>
  PROVE  Sound'
<1>1. TypeOK'
  BY DrainType DEF Sound, TypeOK, flows
<1>2. InFlight' = InFlight
  BY DEF InFlight, flows
<1> QED
  BY <1>1, <1>2 DEF Sound, AllocationIsCurrent

LEMMA SoundStep == Sound /\ [Next]_vars => Sound'
<1> SUFFICES ASSUME Sound, [Next]_vars PROVE Sound'
  OBVIOUS
<1>1. target \in Nat /\ now_ns \in Nat /\ now_ns + 1 \in Nat
  BY DEF Sound, TypeOK
<1>2. CASE Call
  <2>1. ASSUME NEW f \in Flow, NEW size \in Sizes, NEW at \in Times, Submit(f, size, at)
        PROVE  Sound'
    BY <2>1, SoundSubmit, MaxTimeType DEF Times
  <2>2. ASSUME NEW to \in Times, AdvanceTo(to)
        PROVE  Sound'
    <3>1. to \in Nat
      BY MaxTimeType DEF Times
    <3> QED
      BY <2>2, <3>1 DEF AdvanceTo, Sound, TypeOK, AllocationIsCurrent, InFlight, flows, bytes
  <2> QED
    BY <1>2, <2>1, <2>2 DEF Call
<1>3. CASE DrainToNext
  <2>1. NextCompletionTime \in Nat
    BY <1>3, NextIsLater DEF DrainToNext, DueWithinCall, Sound
  <2> QED
    BY <1>3, <2>1, SoundDrain DEF DrainToNext
<1>4. CASE CompleteFinished
  BY <1>4, SoundComplete
<1>5. CASE Nudge
  BY <1>1, <1>5, SoundDrain DEF Nudge, Nudged
<1>6. CASE BreakUnfinished
  BY <1>1, <1>6, SoundDrain DEF BreakUnfinished
<1>7. CASE FinishAdvance
  BY <1>1, <1>7, SoundDrain DEF FinishAdvance
<1>8. CASE UNCHANGED vars
  BY <1>8 DEF vars, call, flows, bytes, Sound, TypeOK, AllocationIsCurrent, InFlight
<1> QED
  BY <1>2, <1>3, <1>4, <1>5, <1>6, <1>7, <1>8 DEF Next, LoopStep

(***************************************************************************)
(* The fields of the network keep their types.                             *)
(***************************************************************************)
THEOREM TypeCorrect == Spec => []TypeOK
<1>1. Sound => TypeOK
  BY DEF Sound
<1> QED
  BY <1>1, SoundInit, SoundStep, PTL DEF Spec

(***************************************************************************)
(* Bandwidth is always shared among exactly the flows in flight.           *)
(***************************************************************************)
THEOREM AllocationCurrent == Spec => []AllocationIsCurrent
<1>1. Sound => AllocationIsCurrent
  BY DEF Sound
<1> QED
  BY <1>1, SoundInit, SoundStep, PTL DEF Spec

-----------------------------------------------------------------------------
(***************************************************************************)
(* No flow moves more than its links carry.  A completed flow keeps its    *)
(* bytes and its completion time, so the strengthening only has to say     *)
(* that a completed flow has one, and that nothing starts in the future.   *)
(***************************************************************************)
Timely ==
    \A f \in Flow :
        /\ state[f] = "in_flight" => start_ns[f] <= now_ns
        /\ state[f] = "completed" => completion_ns[f] \in Nat

BudgetInv == Sound /\ Timely /\ FlowBudget

(***************************************************************************)
(* A flow in flight is credited no more than the capacity of each of its   *)
(* links allows in the time that is drained.                               *)
(***************************************************************************)
LEMMA LeftBound ==
  ASSUME Sound, NEW until \in Nat, until >= now_ns,
         NEW f \in InFlight, NEW l \in Link, l \in Route[f]
  PROVE  remaining[f] - Left(f, until) <= Capacity[l] * (until - now_ns)
<1> USE DEF Sound
<1>1. f \in Flow /\ now_ns \in Nat /\ remaining[f] \in Nat /\ Capacity[l] \in Nat
  BY CapacityType DEF TypeOK, InFlight
<1>2. alloc[f] \in Nat /\ alloc[f] <= Capacity[l] /\ alloc[f] # Inf
  BY AllocType, InfType
<1> DEFINE dt == until - now_ns
           moved == alloc[f] * dt
           allowed == Capacity[l] * dt
<1>3. dt \in Nat
  BY <1>1
<1> HIDE DEF dt
<1>4. moved \in Nat /\ allowed \in Nat /\ moved <= allowed
  BY <1>1, <1>2, <1>3
<1>5. Left(f, until) = IF until <= now_ns THEN remaining[f]
                       ELSE IF moved <= remaining[f] THEN remaining[f] - moved ELSE 0
  BY <1>2 DEF Left, dt
<1> HIDE DEF moved, allowed
<1>6. remaining[f] - Left(f, until) <= allowed
  BY <1>1, <1>4, <1>5
<1> QED
  BY <1>6 DEF allowed, dt

(***************************************************************************)
(* The budget of a flow that was already submitted, after time has moved   *)
(* to `until` and its bytes have been credited.                            *)
(***************************************************************************)
LEMMA CreditedBudget ==
  ASSUME BudgetInv, NEW until \in Nat, until >= now_ns,
         NEW f \in InFlight, NEW l \in Link, l \in Route[f]
  PROVE  total[f] - Left(f, until) <= Capacity[l] * (until - start_ns[f])
<1>1. f \in Flow /\ state[f] = "in_flight"
  BY DEF InFlight
<1>2. /\ total[f] \in Nat /\ remaining[f] \in Nat /\ start_ns[f] \in Nat /\ now_ns \in Nat
      /\ Capacity[l] \in Nat /\ start_ns[f] <= now_ns
  BY <1>1, CapacityType DEF BudgetInv, Sound, TypeOK, Timely
<1>3. total[f] - remaining[f] <= Capacity[l] * (now_ns - start_ns[f])
  BY <1>1 DEF BudgetInv, FlowBudget, EndOf
<1>4. remaining[f] - Left(f, until) <= Capacity[l] * (until - now_ns)
  BY LeftBound DEF BudgetInv
<1>5. Left(f, until) \in Nat
  BY <1>1, LeftType DEF BudgetInv, Sound
<1>6. Capacity[l] * (until - start_ns[f])
        = Capacity[l] * (now_ns - start_ns[f]) + Capacity[l] * (until - now_ns)
  BY <1>2
<1> DEFINE spent == Capacity[l] * (now_ns - start_ns[f])
           more == Capacity[l] * (until - now_ns)
<1>7. spent \in Int /\ more \in Int
  BY <1>2
<1> HIDE DEF spent, more
<1>8. total[f] - remaining[f] <= spent /\ remaining[f] - Left(f, until) <= more
  BY <1>3, <1>4 DEF spent, more
<1>9. total[f] - Left(f, until) <= spent + more
  BY <1>2, <1>5, <1>7, <1>8
<1> QED
  BY <1>6, <1>9 DEF spent, more

LEMMA BudgetInit == Init => BudgetInv
<1> SUFFICES ASSUME Init PROVE BudgetInv
  OBVIOUS
<1>1. Timely /\ FlowBudget
  BY DEF Init, Timely, FlowBudget
<1> QED
  BY <1>1, SoundInit DEF BudgetInv

(***************************************************************************)
(* Steps that move time forward and credit the bytes, nothing else.        *)
(***************************************************************************)
LEMMA BudgetDrain ==
  ASSUME BudgetInv, NEW until \in Nat, Drain(until), UNCHANGED flows
  PROVE  Timely' /\ FlowBudget'
<1> DEFINE then == IF until > now_ns THEN until ELSE now_ns
<1>1. now_ns \in Nat
  BY DEF BudgetInv, Sound, TypeOK
<1>2. then \in Nat /\ then >= now_ns /\ now_ns' = then
  BY <1>1 DEF Drain
<1>3. \A f \in Flow : remaining'[f] = Left(f, then)
  BY <1>1 DEF Drain, Credited, Left
<1> HIDE DEF then
<1>4. Timely'
  BY <1>1, <1>2 DEF BudgetInv, Sound, TypeOK, Timely, flows
<1>5. ASSUME NEW f \in Flow, state'[f] # "unsubmitted", NEW l \in Route[f]
      PROVE  total'[f] - remaining'[f] <= Capacity[l] * (EndOf(f)' - start_ns'[f])
  <2>1. l \in Link
    BY RouteType
  <2>2. CASE f \in InFlight
    <3>1. EndOf(f)' = then
      BY <1>2, <2>2 DEF InFlight, EndOf, flows
    <3>2. total[f] - Left(f, then) <= Capacity[l] * (then - start_ns[f])
      BY <1>2, <2>1, <2>2, CreditedBudget
    <3> QED
      BY <1>3, <3>1, <3>2 DEF flows
  <2>3. CASE f \notin InFlight
    <3>1. state[f] = "completed"
      BY <1>5, <2>3 DEF InFlight, flows, BudgetInv, Sound, TypeOK
    <3>2. EndOf(f)' = EndOf(f) /\ remaining'[f] = remaining[f]
      BY <1>3, <2>3, <3>1 DEF EndOf, flows, Left
    <3> QED
      BY <2>1, <3>1, <3>2 DEF BudgetInv, FlowBudget, flows
  <2> QED
    BY <2>2, <2>3
<1> QED
  BY <1>4, <1>5 DEF FlowBudget

LEMMA BudgetSubmit ==
  ASSUME BudgetInv, NEW new \in Flow, NEW size \in Sizes, NEW at \in Nat, Submit(new, size, at)
  PROVE  Timely' /\ FlowBudget'
<1>1. now_ns \in Nat /\ at >= now_ns /\ now_ns' = at
  BY DEF BudgetInv, Sound, TypeOK, Submit
<1>2. new \notin InFlight /\ size \in Nat
  BY SizesType DEF Submit, InFlight
<1>3. \A f \in Flow : f # new =>
         /\ remaining'[f] = Left(f, at)
         /\ state'[f] = state[f] /\ total'[f] = total[f] /\ start_ns'[f] = start_ns[f]
         /\ completion_ns'[f] = completion_ns[f]
  BY DEF Submit, Credited, BudgetInv, Sound, TypeOK
<1>4. remaining'[new] = size /\ total'[new] = size /\ start_ns'[new] = at /\ state'[new] = "in_flight"
  BY DEF Submit, Credited, BudgetInv, Sound, TypeOK
<1>5. Timely'
  BY <1>1, <1>3, <1>4 DEF BudgetInv, Sound, TypeOK, Timely
<1>6. ASSUME NEW f \in Flow, state'[f] # "unsubmitted", NEW l \in Route[f]
      PROVE  total'[f] - remaining'[f] <= Capacity[l] * (EndOf(f)' - start_ns'[f])
  <2>1. l \in Link /\ Capacity[l] \in Nat
    BY RouteType, CapacityType
  <2>2. CASE f = new
    BY <1>1, <1>2, <1>4, <2>1, <2>2 DEF EndOf
  <2>3. CASE f # new /\ f \in InFlight
    <3>1. EndOf(f)' = at
      BY <1>1, <1>3, <2>3 DEF InFlight, EndOf
    <3>2. total[f] - Left(f, at) <= Capacity[l] * (at - start_ns[f])
      BY <1>1, <2>1, <2>3, CreditedBudget
    <3> QED
      BY <1>3, <2>3, <3>1, <3>2
  <2>4. CASE f # new /\ f \notin InFlight
    <3>1. state[f] = "completed"
      BY <1>3, <1>6, <2>4 DEF InFlight, BudgetInv, Sound, TypeOK
    <3>2. EndOf(f)' = EndOf(f) /\ remaining'[f] = remaining[f]
      BY <1>3, <2>4, <3>1 DEF EndOf, Left
    <3> QED
      BY <1>3, <2>1, <2>4, <3>1, <3>2 DEF BudgetInv, FlowBudget
  <2> QED
    BY <2>2, <2>3, <2>4
<1> QED
  BY <1>5, <1>6 DEF FlowBudget

LEMMA BudgetComplete == BudgetInv /\ CompleteFinished => Timely' /\ FlowBudget'
<1> SUFFICES ASSUME BudgetInv, CompleteFinished PROVE Timely' /\ FlowBudget'
  OBVIOUS
<1>1. now_ns \in Nat /\ now_ns' = now_ns /\ remaining' = remaining /\ total' = total /\ start_ns' = start_ns
  BY DEF BudgetInv, Sound, TypeOK, CompleteFinished, bytes
<1>2. ASSUME NEW f \in Flow
      PROVE  /\ f \in Finished => /\ state[f] = "in_flight" /\ state'[f] = "completed"
                                  /\ completion_ns'[f] = now_ns
             /\ f \notin Finished => state'[f] = state[f] /\ completion_ns'[f] = completion_ns[f]
  BY DEF CompleteFinished, Finished, InFlight
<1>3. Timely'
  BY <1>1, <1>2 DEF Timely, BudgetInv
<1>4. ASSUME NEW f \in Flow
      PROVE  /\ EndOf(f)' = EndOf(f)
             /\ state'[f] # "unsubmitted" => state[f] # "unsubmitted"
  BY <1>1, <1>2 DEF EndOf
<1> QED
  BY <1>1, <1>3, <1>4 DEF BudgetInv, FlowBudget

LEMMA BudgetStep == BudgetInv /\ [Next]_vars => BudgetInv'
<1> SUFFICES ASSUME BudgetInv, [Next]_vars PROVE Timely' /\ FlowBudget'
  BY SoundStep DEF BudgetInv
<1>1. target \in Nat /\ now_ns \in Nat /\ now_ns + 1 \in Nat
  BY DEF BudgetInv, Sound, TypeOK
<1>2. CASE Call
  <2>1. ASSUME NEW f \in Flow, NEW size \in Sizes, NEW at \in Times, Submit(f, size, at)
        PROVE  Timely' /\ FlowBudget'
    BY <2>1, BudgetSubmit, MaxTimeType DEF Times
  <2>2. ASSUME NEW to \in Times, AdvanceTo(to)
        PROVE  Timely' /\ FlowBudget'
    BY <2>2 DEF AdvanceTo, flows, bytes, BudgetInv, Timely, FlowBudget, EndOf
  <2> QED
    BY <1>2, <2>1, <2>2 DEF Call
<1>3. CASE DrainToNext
  <2>1. NextCompletionTime \in Nat
    BY <1>3, NextIsLater DEF DrainToNext, DueWithinCall, BudgetInv, Sound
  <2> QED
    BY <1>3, <2>1, BudgetDrain DEF DrainToNext
<1>4. CASE CompleteFinished
  BY <1>4, BudgetComplete
<1>5. CASE Nudge
  BY <1>1, <1>5, BudgetDrain DEF Nudge, Nudged
<1>6. CASE BreakUnfinished
  BY <1>1, <1>6, BudgetDrain DEF BreakUnfinished
<1>7. CASE FinishAdvance
  BY <1>1, <1>7, BudgetDrain DEF FinishAdvance
<1>8. CASE UNCHANGED vars
  BY <1>8 DEF vars, call, flows, bytes, BudgetInv, Timely, FlowBudget, EndOf
<1> QED
  BY <1>2, <1>3, <1>4, <1>5, <1>6, <1>7, <1>8 DEF Next, LoopStep

(***************************************************************************)
(* No flow ever moves more bytes than each of its links can carry between  *)
(* its start and its completion: a completion never lands before the bytes *)
(* could physically have moved, whatever the host does and however often   *)
(* the completion is revised.                                              *)
(***************************************************************************)
THEOREM FlowBudgetHolds == Spec => []FlowBudget
<1>1. BudgetInv => FlowBudget
  BY DEF BudgetInv
<1> QED
  BY <1>1, BudgetInit, BudgetStep, PTL DEF Spec

-----------------------------------------------------------------------------
(***************************************************************************)
(* An unchanged revision keeps a prediction valid: between two             *)
(* reallocations time may pass and bytes move, but                         *)
(* next_completion_time_ns() goes on giving the same answer.  From the     *)
(* same invariant, advance_to leaves no completion behind.                 *)
(***************************************************************************)

(***************************************************************************)
(* The quotient of a natural number is the one number that fits.           *)
(***************************************************************************)
LEMMA QuotientFits ==
  ASSUME NEW n \in Nat, NEW a \in Nat, a # 0
  PROVE  n \div a \in Nat /\ a * (n \div a) <= n /\ n < a * (n \div a) + a
OBVIOUS

LEMMA QuotientIsUnique ==
  ASSUME NEW n \in Nat, NEW a \in Nat, a # 0, NEW k \in Int, a * k <= n, n < a * k + a
  PROVE  n \div a = k
<1> DEFINE q == n \div a
<1>1. q \in Nat /\ a * q <= n /\ n < a * q + a
  BY QuotientFits
<1> HIDE DEF q
<1>2. ASSUME NEW x \in Int, NEW y \in Int, x >= y + 1 PROVE a * x >= a * y + a
  <2>1. a * x >= a * (y + 1)
    BY <1>2
  <2>2. a * (y + 1) = a * y + a
    BY <1>2
  <2> QED
    BY <1>2, <2>1, <2>2
<1>3. a * q \in Int /\ a * k \in Int
  BY <1>1
<1>4. ~ (q >= k + 1)
  <2>1. q >= k + 1 => a * q >= a * k + a
    BY <1>1, <1>2
  <2> QED
    BY <1>1, <1>3, <2>1
<1>5. ~ (k >= q + 1)
  <2>1. k >= q + 1 => a * k >= a * q + a
    BY <1>1, <1>2
  <2> QED
    BY <1>1, <1>3, <2>1
<1>6. q = k
  BY <1>1, <1>4, <1>5
<1> QED
  BY <1>6 DEF q

(***************************************************************************)
(* Rounding up gives the least time in which the bytes move, and dt less   *)
(* of it after the bytes of dt have moved.                                 *)
(***************************************************************************)
LEMMA CeilDivEnough ==
  ASSUME NEW rem \in Nat, NEW a \in Nat, a # 0
  PROVE  CeilDiv(rem, a) \in Nat /\ rem <= a * CeilDiv(rem, a)
<1> DEFINE n == rem + a - 1
           q == n \div a
<1>1. n \in Nat
  OBVIOUS
<1>2. q \in Nat /\ n < a * q + a
  <2> HIDE DEF n
  <2> QED
    BY <1>1, QuotientFits
<1> HIDE DEF q
<1>3. rem <= a * q
  <2>1. a * q \in Int
    BY <1>2
  <2> QED
    BY <1>2, <2>1
<1> QED
  BY <1>2, <1>3 DEF CeilDiv, q

LEMMA CeilDivShift ==
  ASSUME NEW rem \in Nat, NEW a \in Nat, a # 0, NEW dt \in Nat, dt <= CeilDiv(rem, a)
  PROVE  CeilDiv(IF a * dt <= rem THEN rem - a * dt ELSE 0, a) = CeilDiv(rem, a) - dt
<1> DEFINE n == rem + a - 1
           q == n \div a
           moved == a * dt
<1>1. n \in Nat
  OBVIOUS
<1>2. q \in Nat /\ a * q <= n /\ n < a * q + a
  <2> HIDE DEF n
  <2> QED
    BY <1>1, QuotientFits
<1>3. CeilDiv(rem, a) = q
  BY DEF CeilDiv
<1>4. moved \in Nat
  OBVIOUS
<1>5. a * (q - dt) = a * q - moved
  BY <1>2
<1> HIDE DEF q
<1>6. CASE moved <= rem
  <2>1. rem - moved \in Nat /\ n - moved \in Nat /\ a * q \in Int
    BY <1>2, <1>4, <1>6
  <2>2. a * (q - dt) <= n - moved /\ n - moved < a * (q - dt) + a
    BY <1>2, <1>4, <1>5, <2>1
  <2>3. (n - moved) \div a = q - dt
    <3> HIDE DEF n, moved
    <3> QED
      BY <1>2, <2>1, <2>2, QuotientIsUnique
  <2>4. (rem - moved) + a - 1 = n - moved
    BY <1>4
  <2>5. CeilDiv(rem - moved, a) = q - dt
    BY <2>3, <2>4 DEF CeilDiv
  <2> QED
    BY <1>3, <1>6, <2>5
<1>7. CASE ~ (moved <= rem)
  <2>1. a * (q - dt) < a
    <3>1. a * q \in Int
      BY <1>2
    <3> QED
      BY <1>2, <1>4, <1>5, <1>7, <3>1
  <2>2. q - dt \in Nat
    BY <1>2, <1>3
  <2>3. q - dt = 0
    <3> DEFINE k == q - dt
    <3>1. k \in Nat /\ a * k < a
      BY <2>1, <2>2
    <3> HIDE DEF k
    <3>2. k >= 1 => a * k >= a
      BY <3>1
    <3>3. a * k \in Int
      BY <3>1
    <3>4. k = 0
      BY <3>1, <3>2, <3>3
    <3> QED
      BY <3>4 DEF k
  <2>4. (a - 1) \div a = 0
    <3>1. a - 1 \in Nat /\ a * 0 <= a - 1 /\ a - 1 < a * 0 + a
      OBVIOUS
    <3> QED
      BY <3>1, QuotientIsUnique
  <2>5. CeilDiv(0, a) = 0
    BY <2>4 DEF CeilDiv
  <2> QED
    BY <1>3, <1>7, <2>3, <2>5
<1> QED
  BY <1>6, <1>7

-----------------------------------------------------------------------------
(***************************************************************************)
(* A rounding residue is all a flow has left; and once a drain has reached *)
(* a predicted completion, either some flow is finished or the prediction  *)
(* was of the kind that moves with time.                                   *)
(***************************************************************************)
SliverIsLast ==
    \A f \in Flow :
        /\ sliver[f] \in Residues
        /\ sliver[f] # "none" => remaining[f] = 0 /\ state[f] # "unsubmitted"

DueFinishes == pc = "drained" /\ Steady => Finished # {}

RevisionInv == Sound /\ SliverIsLast /\ DueFinishes

(***************************************************************************)
(* A flow with a share that is neither 0 nor infinite.                     *)
(***************************************************************************)
LEMMA MovingRate ==
  ASSUME Sound, NEW f \in Moving, alloc[f] # Inf
  PROVE  alloc[f] \in Nat /\ alloc[f] # 0
BY AllocType DEF Sound, Moving

(***************************************************************************)
(* A flow that is left with a residue by a drain has nothing else left.    *)
(***************************************************************************)
LEMMA SliverLeft ==
  ASSUME Sound, SliverIsLast, NEW until \in Nat, sliver' \in Slivers(until), NEW f \in Flow
  PROVE  /\ sliver'[f] \in Residues
         /\ sliver'[f] # "none" => Left(f, until) = 0 /\ state[f] # "unsubmitted"
<1>1. now_ns \in Nat /\ remaining[f] \in Nat /\ sliver'[f] \in Residues
  BY DEF Slivers, Sound, TypeOK
<1>2. CASE f \in Rounded(until)
  <2>1. f \in InFlight /\ alloc[f] # Inf /\ until > now_ns
        /\ remaining[f] = alloc[f] * (until - now_ns)
    BY <1>2 DEF Rounded, Moving
  <2> QED
    BY <1>1, <2>1 DEF Left, InFlight
<1>3. CASE f \notin Rounded(until)
  <2>1. sliver'[f] # "none" => sliver'[f] = sliver[f]
    BY <1>3 DEF Slivers
  <2>2. Left(f, until) \in Nat
    BY LeftType DEF Sound
  <2>3. f \in InFlight /\ alloc[f] # Inf /\ until > now_ns => alloc[f] * (until - now_ns) \in Nat
    BY <1>1, AllocType DEF Sound
  <2>4. remaining[f] = 0 => Left(f, until) = 0
    BY <1>1, <2>2, <2>3 DEF Left
  <2> QED
    BY <1>1, <2>1, <2>4 DEF SliverIsLast
<1> QED
  BY <1>2, <1>3

(***************************************************************************)
(* Draining a steady flow by no more than the time it needs leaves its     *)
(* completion where it was.                                                *)
(***************************************************************************)
LEMMA DueStays ==
  ASSUME Sound, NEW f \in Moving, alloc[f] # Inf, sliver[f] = "none",
         NEW until \in Nat, until <= Due(f), Drain(until),
         UNCHANGED alloc, sliver'[f] = "none"
  PROVE  Due(f)' = Due(f)
<1>1. f \in Flow /\ f \in InFlight /\ now_ns \in Nat /\ remaining[f] \in Nat
  BY DEF Sound, TypeOK, Moving, InFlight
<1> DEFINE a == alloc[f]
           rem == remaining[f]
           dt == until - now_ns
<1>2. a \in Nat /\ a # 0 /\ a # Inf
  BY MovingRate
<1>3. Due(f) = now_ns + CeilDiv(rem, a) /\ CeilDiv(rem, a) \in Nat
  BY <1>1, <1>2, CeilDivType DEF Due
<1>4. Due(f)' = now_ns' + CeilDiv(remaining'[f], a)
  BY <1>2 DEF Due
<1>5. CASE until <= now_ns
  BY <1>1, <1>3, <1>4, <1>5 DEF Drain, Credited, Left
<1>6. CASE ~ (until <= now_ns)
  <2>1. dt \in Nat /\ dt <= CeilDiv(rem, a) /\ now_ns' = now_ns + dt
    BY <1>1, <1>3, <1>6 DEF Drain
  <2>2. remaining'[f] = IF a * dt <= rem THEN rem - a * dt ELSE 0
    BY <1>1, <1>2, <1>6 DEF Drain, Credited, Left
  <2> HIDE DEF a, rem, dt
  <2>3. CeilDiv(remaining'[f], a) = CeilDiv(rem, a) - dt
    BY <1>1, <1>2, <2>1, <2>2, CeilDivShift DEF rem
  <2> QED
    BY <1>1, <1>3, <1>4, <2>1, <2>3
<1> QED
  BY <1>5, <1>6

LEMMA PredictionStays ==
  ASSUME Sound, Steady, Steady', NEW until \in Nat, Drain(until),
         UNCHANGED <<state, alloc>>, \A f \in Moving : until <= Due(f)
  PROVE  NextCompletionTime' = NextCompletionTime
<1>1. Moving' = Moving
  BY DEF Moving, InFlight
<1>2. \A f \in Moving : Due(f)' = Due(f)
  BY <1>1, DueStays DEF Steady
<1>3. {Due(f) : f \in Moving}' = {Due(f) : f \in Moving}
  BY <1>1, <1>2
<1> QED
  BY <1>1, <1>3 DEF NextCompletionTime

(***************************************************************************)
(* What is predicted is due no later than every moving flow, and is the    *)
(* due time of one.                                                        *)
(***************************************************************************)
LEMMA NextIsDue ==
  ASSUME Sound, Moving # {}
  PROVE  /\ NextCompletionTime \in Nat /\ NextCompletionTime # None
         /\ \A f \in Moving : Due(f) \in Nat /\ NextCompletionTime <= Due(f)
         /\ \E f \in Moving : NextCompletionTime = Due(f)
<1>1. \A f \in Moving : Due(f) \in Nat
  <2> SUFFICES ASSUME NEW f \in Moving PROVE Due(f) \in Nat
    OBVIOUS
  <2>1. f \in Flow /\ now_ns \in Nat /\ remaining[f] \in Nat /\ sliver[f] \in Residues
    BY DEF Moving, InFlight, Sound, TypeOK
  <2>2. CASE alloc[f] = Inf \/ sliver[f] = "absorbed"
    BY <2>1, <2>2 DEF Due
  <2>3. CASE alloc[f] # Inf /\ sliver[f] = "visible"
    BY <2>1, <2>3 DEF Due
  <2>4. CASE alloc[f] # Inf /\ sliver[f] = "none"
    <3>1. CeilDiv(remaining[f], alloc[f]) \in Nat
      BY <2>1, <2>4, MovingRate, CeilDivType
    <3>2. Due(f) = now_ns + CeilDiv(remaining[f], alloc[f])
      BY <2>4 DEF Due
    <3> QED
      BY <2>1, <3>1, <3>2
  <2> QED
    BY <2>1, <2>2, <2>3, <2>4 DEF Residues
<1> DEFINE S == {Due(f) : f \in Moving}
<1>2. S \in SUBSET Nat
  BY <1>1
<1>3. S # {} /\ NextCompletionTime = Min(S)
  BY DEF NextCompletionTime
<1>4. Min(S) \in S /\ \A x \in S : Min(S) <= x
  <2> HIDE DEF S
  <2> QED
    BY <1>2, <1>3, LeastNatural
<1>5. NextCompletionTime \in Nat
  BY <1>2, <1>3, <1>4
<1>6. NextCompletionTime # None
  BY <1>5, NoneType
<1>7. \A f \in Moving : Due(f) \in S
  OBVIOUS
<1>8. \A f \in Moving : NextCompletionTime <= Due(f)
  BY <1>3, <1>4, <1>7
<1>9. \E f \in Moving : NextCompletionTime = Due(f)
  BY <1>3, <1>4
<1> QED
  BY <1>1, <1>5, <1>6, <1>8, <1>9

(***************************************************************************)
(* The drain to a predicted completion finishes somebody.                  *)
(***************************************************************************)
LEMMA DrainFinishes ==
  ASSUME Sound, SliverIsLast, DrainToNext, Steady'
  PROVE  Finished' # {}
<1> DEFINE nxt == NextCompletionTime
<1>1. nxt \in Nat /\ \E f \in Moving : nxt = Due(f)
  BY NextIsDue DEF DrainToNext, DueWithinCall, NextCompletionTime
<1>2. Drain(nxt) /\ UNCHANGED <<state, alloc>>
  BY DEF DrainToNext, flows
<1> HIDE DEF nxt
<1>3. PICK f \in Moving : nxt = Due(f)
  BY <1>1
<1>4. f \in Flow /\ f \in InFlight /\ now_ns \in Nat /\ remaining[f] \in Nat /\ sliver[f] \in Residues
  BY DEF Sound, TypeOK, Moving, InFlight
<1>5. f \in Moving' /\ alloc[f] # Inf /\ sliver'[f] = "none"
  <2>1. f \in Moving'
    BY <1>2 DEF Moving, InFlight
  <2> QED
    BY <1>2, <2>1 DEF Steady
<1> DEFINE a == alloc[f]
<1>6. a \in Nat /\ a # 0
  BY <1>5, MovingRate
<1>7. remaining'[f] = Left(f, nxt)
  BY <1>2, <1>4 DEF Drain, Credited
<1>8. remaining'[f] = 0
  <2>1. CASE sliver[f] = "absorbed"
    <3>1. nxt = now_ns
      BY <1>3, <2>1 DEF Due
    <3>2. f \notin Rounded(nxt) /\ ~(nxt > now_ns)
      BY <1>4, <3>1 DEF Rounded
    <3>3. sliver'[f] = sliver[f]
      BY <1>2, <1>4, <3>2 DEF Drain, Slivers
    <3> QED
      BY <1>5, <2>1, <3>3
  <2>2. CASE sliver[f] = "visible"
    <3>1. nxt = now_ns + 1 /\ remaining[f] = 0
      BY <1>3, <1>4, <1>5, <2>2 DEF Due, SliverIsLast
    <3>2. a * (nxt - now_ns) = a
      BY <1>4, <1>6, <3>1
    <3> QED
      BY <1>4, <1>5, <1>6, <1>7, <3>1, <3>2 DEF Left
  <2>3. CASE sliver[f] = "none"
    <3> DEFINE q == CeilDiv(remaining[f], a)
    <3>1. nxt = now_ns + q
      BY <1>3, <1>5, <2>3 DEF Due
    <3>2. q \in Nat /\ remaining[f] <= a * q
      BY <1>4, <1>6, CeilDivEnough
    <3> HIDE DEF q
    <3>3. nxt - now_ns = q
      BY <1>4, <3>1, <3>2
    <3>4. CASE nxt <= now_ns
      <4>1. q = 0
        BY <1>4, <3>1, <3>2, <3>4
      <4>2. a * q = 0
        BY <1>6, <4>1
      <4> QED
        BY <1>4, <1>7, <3>2, <3>4, <4>2 DEF Left
    <3>5. CASE ~ (nxt <= now_ns)
      <4>1. Left(f, nxt) = IF a * q <= remaining[f] THEN remaining[f] - a * q ELSE 0
        BY <1>4, <1>5, <3>3, <3>5 DEF Left
      <4>2. a * q \in Nat
        BY <1>6, <3>2
      <4> QED
        BY <1>4, <1>7, <3>2, <4>1, <4>2
    <3> QED
      BY <3>4, <3>5
  <2> QED
    BY <1>4, <2>1, <2>2, <2>3 DEF Residues
<1>9. f \in Finished'
  BY <1>2, <1>4, <1>5, <1>8 DEF Finished, InFlight
<1> QED
  BY <1>9

-----------------------------------------------------------------------------
LEMMA RevisionInit == Init => RevisionInv
<1> SUFFICES ASSUME Init PROVE RevisionInv
  OBVIOUS
<1>1. SliverIsLast /\ DueFinishes
  BY DEF Init, SliverIsLast, DueFinishes, Residues
<1> QED
  BY <1>1, SoundInit DEF RevisionInv

LEMMA RevisionStep == RevisionInv /\ [Next]_vars => RevisionInv'
<1> SUFFICES ASSUME RevisionInv, [Next]_vars PROVE SliverIsLast' /\ DueFinishes'
  BY SoundStep DEF RevisionInv
<1> USE DEF RevisionInv
<1>1. target \in Nat /\ now_ns \in Nat /\ now_ns + 1 \in Nat
  BY DEF Sound, TypeOK
<1>2. ASSUME NEW until \in Nat, Drain(until), UNCHANGED flows
      PROVE  SliverIsLast'
  BY <1>2, SliverLeft DEF Drain, Credited, SliverIsLast, flows
<1>3. ASSUME NEW f \in Flow, NEW size \in Sizes, NEW at \in Times, Submit(f, size, at)
      PROVE  SliverIsLast' /\ DueFinishes'
  <2>1. at \in Nat
    BY MaxTimeType DEF Times
  <2>2. sliver[f] = "none" /\ f \notin Rounded(at) /\ f \notin Moving
    BY <1>3 DEF Submit, SliverIsLast, Rounded, Moving, InFlight
  <2>3. sliver'[f] = "none"
    BY <1>3, <2>2 DEF Submit, Slivers
  <2>4. ASSUME NEW g \in Flow, g # f
        PROVE  /\ sliver'[g] \in Residues /\ state'[g] = state[g]
               /\ sliver'[g] # "none" => remaining'[g] = 0 /\ state[g] # "unsubmitted"
    <3>1. state'[g] = state[g] /\ remaining'[g] = Left(g, at) /\ sliver' \in Slivers(at)
      BY <1>3, <2>4 DEF Submit, Credited, Sound, TypeOK
    <3> QED
      BY <2>1, <3>1, SliverLeft
  <2>5. SliverIsLast'
    BY <2>3, <2>4 DEF SliverIsLast, Residues
  <2>6. pc' = "idle"
    BY <1>3 DEF Submit, call
  <2> QED
    BY <2>5, <2>6 DEF DueFinishes
<1>4. ASSUME NEW to \in Times, AdvanceTo(to)
      PROVE  SliverIsLast' /\ DueFinishes'
  BY <1>4 DEF AdvanceTo, flows, bytes, SliverIsLast, DueFinishes
<1>5. CASE DrainToNext
  <2>1. NextCompletionTime \in Nat
    BY <1>5, NextIsDue DEF DrainToNext, DueWithinCall, NextCompletionTime
  <2>2. SliverIsLast'
    BY <1>2, <1>5, <2>1 DEF DrainToNext
  <2> QED
    BY <1>5, <2>2, DrainFinishes DEF DueFinishes
<1>6. CASE CompleteFinished
  <2>1. SliverIsLast'
    BY <1>6 DEF CompleteFinished, bytes, SliverIsLast
  <2> QED
    BY <1>6, <2>1 DEF CompleteFinished, DueFinishes
<1>7. CASE Nudge
  BY <1>1, <1>2, <1>7 DEF Nudge, Nudged, DueFinishes
<1>8. CASE BreakUnfinished
  BY <1>1, <1>2, <1>8 DEF BreakUnfinished, DueFinishes
<1>9. CASE FinishAdvance
  BY <1>1, <1>2, <1>9 DEF FinishAdvance, DueFinishes
<1>10. CASE UNCHANGED vars
  BY <1>10 DEF vars, call, flows, bytes, SliverIsLast, DueFinishes, Steady, Moving, InFlight, Finished
<1> QED
  BY <1>3, <1>4, <1>5, <1>6, <1>7, <1>8, <1>9, <1>10 DEF Next, LoopStep, Call

(***************************************************************************)
(* As long as the revision stands, the prediction does: a host whose event *)
(* carries the current revision need not ask again.                        *)
(***************************************************************************)
THEOREM RevisionGuards == Spec => RevisionGuardsPrediction
<1>1. RevisionInv /\ [Next]_vars =>
         [Steady /\ Steady' /\ revision' = revision =>
             NextCompletionTime' = NextCompletionTime]_vars
  <2> SUFFICES ASSUME RevisionInv, [Next]_vars, Steady, Steady', revision' = revision
               PROVE  NextCompletionTime' = NextCompletionTime
    OBVIOUS
  <2> USE DEF RevisionInv
  <2>1. target \in Nat /\ now_ns \in Nat /\ revision \in Nat
    BY DEF Sound, TypeOK
  <2>2. ASSUME UNCHANGED <<state, alloc, now_ns, remaining, sliver>>
        PROVE  NextCompletionTime' = NextCompletionTime
    <3>1. Moving' = Moving
      BY <2>2 DEF Moving, InFlight
    <3>2. \A f \in Moving : Due(f)' = Due(f)
      BY <2>2 DEF Due
    <3> QED
      BY <3>1, <3>2 DEF NextCompletionTime
  <2>3. CASE Call
    <3>1. ASSUME NEW f \in Flow, NEW size \in Sizes, NEW at \in Times, Submit(f, size, at)
          PROVE  FALSE
      BY <2>1, <3>1 DEF Submit, Reallocate
    <3>2. ASSUME NEW to \in Times, AdvanceTo(to)
          PROVE  NextCompletionTime' = NextCompletionTime
      BY <2>2, <3>2 DEF AdvanceTo, flows, bytes
    <3> QED
      BY <2>3, <3>1, <3>2 DEF Call
  <2>4. CASE DrainToNext
    <3>1. /\ NextCompletionTime \in Nat
          /\ \A f \in Moving : NextCompletionTime <= Due(f)
      BY <2>4, NextIsDue DEF DrainToNext, DueWithinCall, NextCompletionTime
    <3> QED
      BY <2>4, <3>1, PredictionStays DEF DrainToNext, flows
  <2>5. CASE CompleteFinished
    BY <2>1, <2>5 DEF CompleteFinished, Reallocate
  <2>6. CASE Nudge \/ BreakUnfinished
    BY <2>6 DEF Nudge, BreakUnfinished, DueFinishes
  <2>7. CASE FinishAdvance
    <3>1. CASE Moving = {}
      <4>1. Moving' = Moving
        BY <2>7 DEF FinishAdvance, flows, Moving, InFlight
      <4> QED
        BY <3>1, <4>1 DEF NextCompletionTime
    <3>2. CASE Moving # {}
      <4>1. \A f \in Moving : target <= Due(f)
        <5>1. /\ NextCompletionTime \in Nat /\ ~ (NextCompletionTime <= target)
              /\ \A f \in Moving : Due(f) \in Nat /\ NextCompletionTime <= Due(f)
          BY <2>7, <3>2, NextIsDue DEF FinishAdvance, DueWithinCall
        <5> QED
          BY <2>1, <5>1
      <4> QED
        BY <2>1, <2>7, <4>1, PredictionStays DEF FinishAdvance, flows
    <3> QED
      BY <3>1, <3>2
  <2>8. CASE UNCHANGED vars
    BY <2>2, <2>8 DEF vars, flows, bytes
  <2> QED
    BY <2>3, <2>4, <2>5, <2>6, <2>7, <2>8 DEF Next, LoopStep
<1> QED
  BY <1>1, RevisionInit, RevisionStep, PTL DEF Spec, RevisionGuardsPrediction

-----------------------------------------------------------------------------
(***************************************************************************)
(* A residue is gone when time has passed.                                 *)
(***************************************************************************)
LEMMA ResidueIsOld ==
  ASSUME Sound, SliverIsLast, NEW until \in Nat, sliver' \in Slivers(until),
         NEW f \in Flow, sliver'[f] = "none", sliver[f] # "none"
  PROVE  until > now_ns
<1>1. f \notin Rounded(until)
  BY DEF SliverIsLast, Rounded
<1>2. sliver'[f] = IF f \in Moving /\ until > now_ns THEN "none" ELSE sliver[f]
  BY <1>1 DEF Slivers
<1> QED
  BY <1>2

LEMMA NothingDueAfterFinish ==
  ASSUME RevisionInv, FinishAdvance, NEW f \in Moving, alloc[f] # Inf, sliver'[f] = "none"
  PROVE  Due(f)' > target
<1> USE DEF RevisionInv
<1>1. target \in Nat /\ now_ns \in Nat /\ f \in Flow
  BY DEF Sound, TypeOK, Moving, InFlight
<1>2. Drain(target) /\ UNCHANGED alloc
  BY DEF FinishAdvance
<1>3. Due(f) \in Nat /\ Due(f) > target
  <2>1. NextCompletionTime \in Nat /\ ~ (NextCompletionTime <= target)
    BY NextIsDue DEF FinishAdvance, DueWithinCall
  <2>2. Due(f) \in Nat /\ NextCompletionTime <= Due(f)
    BY NextIsDue
  <2> QED
    BY <1>1, <2>1, <2>2
<1>4. CASE sliver[f] = "none"
  BY <1>1, <1>2, <1>3, <1>4, DueStays
<1>5. CASE sliver[f] # "none"
  <2>1. target > now_ns
    BY <1>1, <1>2, <1>5, ResidueIsOld DEF Drain
  <2>2. sliver[f] \in {"absorbed", "visible"}
    BY <1>1, <1>5 DEF SliverIsLast, Residues
  <2>3. Due(f) \in {now_ns, now_ns + 1}
    BY <2>2 DEF Due
  <2> QED
    BY <1>1, <1>3, <2>1, <2>3
<1> QED
  BY <1>4, <1>5

LEMMA NothingDueAfterBreak ==
  ASSUME RevisionInv, BreakUnfinished, NEW f \in Moving, alloc[f] # Inf, sliver'[f] = "none"
  PROVE  Due(f)' > target
<1> USE DEF RevisionInv
<1>1. /\ target \in Nat /\ now_ns \in Nat /\ now_ns >= target
      /\ f \in Flow /\ f \in InFlight /\ remaining[f] \in Nat
  BY DEF BreakUnfinished, Sound, TypeOK, Moving, InFlight
<1>2. Drain(target) /\ alloc' = alloc
  BY DEF BreakUnfinished
<1>3. now_ns' = now_ns /\ remaining'[f] = remaining[f]
  BY <1>1, <1>2 DEF Drain, Credited, Left
<1>4. sliver[f] = "none"
  <2>1. ~ (target > now_ns)
    BY <1>1
  <2> QED
    BY <1>1, <1>2, <2>1, ResidueIsOld DEF Drain
<1>5. remaining[f] # 0
  BY <1>1, <1>4 DEF BreakUnfinished, Finished
<1> DEFINE q == CeilDiv(remaining[f], alloc[f])
<1>6. alloc[f] \in Nat /\ alloc[f] # 0
  BY MovingRate
<1>7. q \in Nat /\ remaining[f] <= alloc[f] * q
  BY <1>1, <1>6, CeilDivEnough
<1>8. Due(f)' = now_ns + q
  BY <1>2, <1>3 DEF Due
<1> HIDE DEF q
<1>9. q # 0
  <2>1. alloc[f] * 0 = 0
    BY <1>6
  <2> QED
    BY <1>1, <1>5, <1>7, <2>1
<1> QED
  BY <1>1, <1>7, <1>8, <1>9

(***************************************************************************)
(* advance_to leaves nothing behind: when it returns, no flow of finite    *)
(* rate is due at or before the time it was called for.                    *)
(***************************************************************************)
THEOREM NothingLeftDue == Spec => AdvanceLeavesNothingDue
<1>1. RevisionInv /\ [Next]_vars =>
         [pc # "idle" /\ pc' = "idle" =>
             \A f \in Moving' : alloc'[f] # Inf /\ sliver'[f] = "none" => Due(f)' > target]_vars
  <2> SUFFICES ASSUME RevisionInv, [Next]_vars, pc # "idle", pc' = "idle",
                      NEW f \in Moving', alloc'[f] # Inf, sliver'[f] = "none"
               PROVE  Due(f)' > target
    OBVIOUS
  <2>1. FinishAdvance \/ BreakUnfinished
    BY DEF Next, Call, LoopStep, Submit, AdvanceTo, DrainToNext, CompleteFinished, Nudge, vars, call
  <2>2. UNCHANGED <<state, alloc>>
    BY <2>1 DEF FinishAdvance, BreakUnfinished, flows
  <2>3. f \in Moving /\ alloc[f] # Inf
    BY <2>2 DEF Moving, InFlight
  <2> QED
    BY <2>1, <2>3, NothingDueAfterFinish, NothingDueAfterBreak
<1> QED
  BY <1>1, RevisionInit, RevisionStep, PTL DEF Spec, AdvanceLeavesNothingDue

-----------------------------------------------------------------------------
(***************************************************************************)
(* What the network's own invariant needs of its caller: times that are    *)
(* natural numbers.                                                        *)
(***************************************************************************)
LEMMA AdvanceToBudget ==
  ASSUME BudgetInv, NEW to \in Nat, AdvanceTo(to)
  PROVE  BudgetInv'
<1>1. Sound'
  BY DEF BudgetInv, Sound, TypeOK, AllocationIsCurrent, AdvanceTo, InFlight, flows, bytes
<1>2. Timely' /\ FlowBudget'
  BY DEF BudgetInv, Timely, FlowBudget, EndOf, AdvanceTo, flows, bytes
<1> QED
  BY <1>1, <1>2 DEF BudgetInv

LEMMA SubmitBudget ==
  ASSUME BudgetInv, NEW f \in Flow, NEW size \in Sizes, NEW at \in Nat, Submit(f, size, at)
  PROVE  BudgetInv'
BY SoundSubmit, BudgetSubmit DEF BudgetInv

LEMMA LoopBudget ==
  ASSUME BudgetInv, LoopStep
  PROVE  BudgetInv'
BY BudgetStep DEF Next

(***************************************************************************)
(* A network that stands still keeps its invariant.                        *)
(***************************************************************************)
LEMMA StillBudget ==
  ASSUME BudgetInv, UNCHANGED vars
  PROVE  BudgetInv'
BY BudgetStep

(***************************************************************************)
(* The next transfer in the order of submission is one of those that wait. *)
(***************************************************************************)
LEMMA CurrentIsPending ==
  ASSUME pending \in SUBSET Flow, pending # {}, submit_ns \in [Flow -> Nat]
  PROVE  Current \in pending
<1> DEFINE times == {submit_ns[t] : t \in pending}
<1>1. times \in SUBSET Nat /\ times # {}
  OBVIOUS
<1> DEFINE first == Min(times)
<1>2. first \in times /\ \A x \in times : first <= x
  <2> HIDE DEF times
  <2> QED
    BY <1>1, LeastNatural
<1> DEFINE ties == {t \in pending : submit_ns[t] = first}
<1>3. \A t \in pending : first <= submit_ns[t]
  BY <1>2
<1>4. ties # {} /\ first \in Nat
  BY <1>1, <1>2
<1> HIDE DEF first
<1>5. ties \in SUBSET Nat
  BY KeysAreOrdered
<1>6. \E k \in ties : \A x \in ties : k <= x
  <2> HIDE DEF ties
  <2> QED
    BY <1>4, <1>5, LeastNatural
<1>7. PICK k \in ties : \A x \in ties : k <= x
  BY <1>6
<1>8. ASSUME NEW u \in pending PROVE Before(k, u)
  <2>1. submit_ns[u] \in Nat /\ first <= submit_ns[u] /\ submit_ns[k] = first
    BY <1>3, <1>8
  <2>2. CASE submit_ns[u] = first
    BY <1>7, <2>1, <2>2 DEF Before
  <2>3. CASE submit_ns[u] # first
    BY <1>4, <2>1, <2>3 DEF Before
  <2> QED
    BY <2>2, <2>3
<1> QED
  BY <1>7, <1>8 DEF Current

-----------------------------------------------------------------------------
(***************************************************************************)
(* The run between two steps.  done lags behind the network by what the    *)
(* call in progress has completed so far, and by nothing else; a transfer  *)
(* is admitted with its own size; one that is completed has no bytes left  *)
(* and did not finish before it started.                                   *)
(***************************************************************************)
Completions == {f \in Flow : state[f] = "completed"}

Accounted ==
    /\ step \in {"admit", "idling", "returned"} => pc = "idle" /\ done = Completions
    /\ step \in {"admitting", "advancing"} => done \cup out = Completions

RunTypes ==
    /\ submit_ns \in [Flow -> Nat]
    /\ size_bytes \in [Flow -> Sizes]
    /\ pending \in SUBSET Flow
    /\ step \in {"admit", "admitting", "idling", "advancing", "returned", "raised"}
    /\ step = "admitting" => pending # {}

Settled ==
    \A f \in Flow :
        /\ state[f] # "unsubmitted" => total[f] = size_bytes[f]
        /\ state[f] = "completed" => remaining[f] = 0 /\ completion_ns[f] >= start_ns[f]

RunInv == BudgetInv /\ RunTypes /\ Accounted /\ Settled

LEMMA RunInvInit == RunInit => RunInv
<1> SUFFICES ASSUME RunInit PROVE RunInv
  OBVIOUS
<1>1. BudgetInv
  BY BudgetInit DEF RunInit
<1>2. RunTypes
  BY SubmitTimesType DEF RunInit, RunTypes
<1>3. Accounted /\ Settled
  BY DEF RunInit, Init, Accounted, Settled, Completions
<1> QED
  BY <1>1, <1>2, <1>3 DEF RunInv

-----------------------------------------------------------------------------
(***************************************************************************)
(* A step inside advance_to: what completes is added to out.               *)
(***************************************************************************)
LEMMA LoopSettled ==
  ASSUME BudgetInv, LoopStep, Settled, UNCHANGED size_bytes
  PROVE  Settled'
<1> USE DEF Settled
<1>1. ASSUME NEW until, Drain(until), UNCHANGED flows
      PROVE  Settled'
  BY <1>1 DEF Drain, Credited, Left, InFlight, flows
<1>2. CASE CompleteFinished
  <2>1. \A f \in Finished : f \in InFlight /\ remaining[f] = 0 /\ start_ns[f] <= now_ns
    BY DEF Finished, InFlight, BudgetInv, Timely
  <2>2. /\ \A f \in Finished : completion_ns'[f] = now_ns
        /\ \A f \in Flow \ Finished : completion_ns'[f] = completion_ns[f] /\ state'[f] = state[f]
        /\ start_ns' = start_ns /\ remaining' = remaining /\ total' = total
    BY <1>2 DEF CompleteFinished, Finished, InFlight, bytes
  <2>3. now_ns \in Nat /\ \A f \in Flow : start_ns[f] \in Nat
    BY DEF BudgetInv, Sound, TypeOK
  <2> QED
    BY <2>1, <2>2, <2>3 DEF InFlight
<1>3. CASE DrainToNext \/ Nudge \/ BreakUnfinished \/ FinishAdvance
  BY <1>1, <1>3 DEF DrainToNext, Nudge, BreakUnfinished, FinishAdvance
<1> QED
  BY <1>2, <1>3 DEF LoopStep

LEMMA LoopAccounted ==
  ASSUME RunTypes, LoopStep, Accounted, UNCHANGED <<step, done>>
  PROVE  Accounted'
<1>1. pc # "idle"
  BY DEF LoopStep, DrainToNext, CompleteFinished, Nudge, BreakUnfinished, FinishAdvance
<1>2. step \in {"admitting", "advancing", "raised"}
  BY <1>1 DEF Accounted, RunTypes
<1>3. CASE CompleteFinished
  <2>1. out' = out \cup Finished /\ Completions' = Completions \cup Finished
    BY <1>3 DEF CompleteFinished, Completions, Finished, InFlight
  <2> QED
    BY <1>2, <2>1 DEF Accounted
<1>4. CASE DrainToNext \/ Nudge \/ BreakUnfinished \/ FinishAdvance
  <2>1. out' = out /\ Completions' = Completions
    BY <1>4 DEF DrainToNext, Nudge, BreakUnfinished, FinishAdvance, flows, Completions
  <2> QED
    BY <1>2, <2>1 DEF Accounted
<1> QED
  BY <1>3, <1>4 DEF LoopStep

LEMMA RunInvStep == RunInv /\ [RunNext]_allvars => RunInv'
<1> SUFFICES ASSUME RunInv, [RunNext]_allvars PROVE RunInv'
  OBVIOUS
<1> USE DEF RunInv
<1>1. CASE AdvanceToSubmit
  <2>1. Current \in Flow /\ submit_ns[Current] \in Nat
    BY <1>1, CurrentIsPending DEF AdvanceToSubmit, RunTypes
  <2>2. AdvanceTo(submit_ns[Current])
    BY <1>1 DEF AdvanceToSubmit, CatchUp
  <2>3. BudgetInv'
    BY <2>1, <2>2, AdvanceToBudget
  <2>4. RunTypes'
    BY <1>1 DEF AdvanceToSubmit, RunTypes, transfers
  <2>5. Accounted'
    BY <1>1, <2>2 DEF AdvanceToSubmit, AdvanceTo, flows, Accounted, Completions
  <2>6. Settled'
    BY <1>1, <2>2 DEF AdvanceToSubmit, AdvanceTo, flows, bytes, transfers, Settled
  <2> QED
    BY <2>3, <2>4, <2>5, <2>6
<1>2. CASE Admit
  <2> DEFINE c == Current
  <2>1. c \in Flow /\ submit_ns[c] \in Nat /\ size_bytes[c] \in Sizes
    BY <1>2, CurrentIsPending DEF Admit, RunTypes
  <2>2. Submit(c, size_bytes[c], submit_ns[c])
    BY <1>2 DEF Admit
  <2> HIDE DEF c
  <2>3. BudgetInv'
    BY <2>1, <2>2, SubmitBudget
  <2>4. RunTypes'
    BY <1>2 DEF Admit, RunTypes, transfers
  <2>5. Accounted'
    <3>1. Completions' = Completions /\ pc' = "idle"
      BY <2>2 DEF Submit, Completions, call
    <3> QED
      BY <1>2, <3>1 DEF Admit, Gathered, Accounted
  <2>6. Settled'
    <3>1. /\ state'[c] = "in_flight" /\ total'[c] = size_bytes[c]
          /\ state[c] = "unsubmitted"
      BY <2>1, <2>2 DEF Submit, BudgetInv, Sound, TypeOK
    <3>2. ASSUME NEW f \in Flow, f # c
          PROVE  /\ state'[f] = state[f] /\ total'[f] = total[f] /\ start_ns'[f] = start_ns[f]
                 /\ completion_ns' = completion_ns
                 /\ state[f] = "completed" => remaining'[f] = remaining[f]
      BY <2>2, <3>2 DEF Submit, BudgetInv, Sound, TypeOK, Credited, Left, InFlight
    <3>3. size_bytes' = size_bytes
      BY <1>2 DEF Admit, transfers
    <3> QED
      BY <3>1, <3>2, <3>3 DEF Settled
  <2> QED
    BY <2>3, <2>4, <2>5, <2>6
<1>3. CASE AdvanceToNext
  <2>1. NextCompletionTime \in Nat
    BY <1>3, NextIsLater DEF AdvanceToNext, GoesOn, BudgetInv, Sound
  <2>2. AdvanceTo(NextCompletionTime)
    BY <1>3 DEF AdvanceToNext
  <2>3. BudgetInv'
    BY <2>1, <2>2, AdvanceToBudget
  <2>4. RunTypes'
    BY <1>3 DEF AdvanceToNext, RunTypes, transfers
  <2>5. Accounted'
    BY <1>3, <2>2 DEF AdvanceToNext, AdvanceTo, flows, Accounted, Completions
  <2>6. Settled'
    BY <1>3, <2>2 DEF AdvanceToNext, AdvanceTo, flows, bytes, transfers, Settled
  <2> QED
    BY <2>3, <2>4, <2>5, <2>6
<1>4. CASE NetworkStep
  <2>1. BudgetInv' /\ Settled' /\ Accounted'
    BY <1>4, LoopBudget, LoopSettled, LoopAccounted DEF NetworkStep, run, transfers
  <2>2. RunTypes'
    BY <1>4 DEF NetworkStep, run, transfers, RunTypes
  <2> QED
    BY <2>1, <2>2
<1>5. CASE RaiseOnRoute \/ EndAdmission \/ Collect \/ Return \/ Ended \/ UNCHANGED allvars
  <2>1. UNCHANGED vars /\ UNCHANGED transfers /\ pending' = pending
    BY <1>5 DEF RaiseOnRoute, EndAdmission, Collect, Return, Ended, allvars, run
  <2>2. BudgetInv'
    BY <2>1, StillBudget
  <2>3. Settled' /\ Completions' = Completions /\ pc' = pc /\ out' = out
    BY <2>1 DEF vars, call, flows, bytes, transfers, Settled, Completions
  <2>4. RunTypes'
    BY <1>5, <2>1 DEF RunTypes, transfers, RaiseOnRoute, EndAdmission, Collect, Return, Ended, allvars, run
  <2>5. Accounted'
    BY <1>5, <2>3 DEF Accounted, RaiseOnRoute, EndAdmission, Collect, Return, Ended, allvars, run
  <2> QED
    BY <2>2, <2>3, <2>4, <2>5
<1> QED
  BY <1>1, <1>2, <1>3, <1>4, <1>5 DEF RunNext, Progress

-----------------------------------------------------------------------------
(***************************************************************************)
(* run_transfers returns every transfer that completed, on the way to an   *)
(* admission or afterwards, and no other.                                  *)
(***************************************************************************)
THEOREM NothingIsDropped == RunSpec => []NothingDropped
<1>1. RunInv => NothingDropped
  BY DEF RunInv, Accounted, NothingDropped, Completions
<1> QED
  BY <1>1, RunInvInit, RunInvStep, PTL DEF RunSpec

(***************************************************************************)
(* Admission: what has not been submitted waits, and run_to_idle starts    *)
(* when nothing does.  It ends when it does not go on.                     *)
(***************************************************************************)
Admission ==
    /\ \A f \in Flow : state[f] = "unsubmitted" => f \in pending
    /\ step \in {"idling", "advancing", "returned"} => pending = {}
    /\ step = "returned" => ~GoesOn

LEMMA AdmissionStep ==
  ASSUME RunInv, Admission, [RunNext]_allvars
  PROVE  Admission'
<1> USE DEF Admission
<1>1. CASE Admit
  <2>1. \A f \in Flow : state'[f] = "unsubmitted" => f \in pending /\ f # Current
    BY <1>1 DEF Admit, Submit, RunInv, BudgetInv, Sound, TypeOK
  <2> QED
    BY <1>1, <2>1 DEF Admit
<1>2. CASE NetworkStep
  <2>1. \A f \in Flow : state'[f] = "unsubmitted" => state[f] = "unsubmitted"
    BY <1>2 DEF NetworkStep, LoopStep, DrainToNext, CompleteFinished, Nudge, BreakUnfinished,
       FinishAdvance, flows
  <2>2. UNCHANGED <<pending, step>> /\ step # "returned"
    BY <1>2 DEF NetworkStep, LoopStep, DrainToNext, CompleteFinished, Nudge, BreakUnfinished,
       FinishAdvance, run, RunInv, Accounted
  <2> QED
    BY <2>1, <2>2
<1>3. CASE AdvanceToSubmit \/ AdvanceToNext
  BY <1>3 DEF AdvanceToSubmit, CatchUp, AdvanceToNext, AdvanceTo, flows
<1>4. CASE RaiseOnRoute \/ EndAdmission \/ Collect \/ Return \/ Ended \/ UNCHANGED allvars
  <2>1. UNCHANGED vars /\ pending' = pending
    BY <1>4 DEF RaiseOnRoute, EndAdmission, Collect, Return, Ended, allvars, run
  <2>2. state' = state /\ GoesOn' = GoesOn
    BY <2>1 DEF GoesOn, InFlight, NextCompletionTime, Moving, Due, vars, flows, bytes
  <2> QED
    BY <1>4, <2>1, <2>2 DEF RaiseOnRoute, EndAdmission, Collect, Return, Ended, allvars, run
<1> QED
  BY <1>1, <1>2, <1>3, <1>4 DEF RunNext, Progress

(***************************************************************************)
(* "Run until all complete": every transfer that is not held up by a link  *)
(* without capacity is in the result, unless the limit was passed.         *)
(***************************************************************************)
THEOREM NoneIsMissing == RunSpec => []OnlyStarvedAreMissing
<1>1. RunInit => Admission
  BY DEF RunInit, Admission
<1>2. RunInv /\ Admission => OnlyStarvedAreMissing
  <2> SUFFICES ASSUME RunInv, Admission, step = "returned", ~PastLimit,
                      NEW f \in Flow \ Starved
               PROVE  f \in done
    BY DEF OnlyStarvedAreMissing
  <2>1. done = Completions /\ pending = {} /\ ~GoesOn
    BY DEF RunInv, Accounted, Admission
  <2>2. state[f] \in {"in_flight", "completed"}
    BY <2>1 DEF Admission, RunInv, BudgetInv, Sound, TypeOK
  <2>3. CASE state[f] = "in_flight"
    <3>1. f \in InFlight
      BY <2>3 DEF InFlight
    <3>2. Sound
      BY DEF RunInv, BudgetInv
    <3>3. alloc[f] # 0
      <4>1. alloc = FairRate[InFlight] /\ InFlight \in SUBSET Flow
        BY <3>2 DEF Sound, AllocationIsCurrent, InFlight
      <4> QED
        BY <3>1, <4>1, FairRateStarves DEF Starved
    <3>4. f \in Moving
      BY <3>1, <3>3 DEF Moving
    <3>5. NextCompletionTime \in Nat
      BY <3>2, <3>4, MovingPredicts DEF Sound
    <3>6. NextCompletionTime # None
      BY <3>5, NoneType
    <3> QED
      BY <2>1, <3>1, <3>5, <3>6, LimitNsType DEF GoesOn, PastLimit
  <2> QED
    BY <2>1, <2>2, <2>3 DEF Completions
<1> QED
  BY <1>1, <1>2, RunInvInit, RunInvStep, AdmissionStep, PTL DEF RunSpec

(***************************************************************************)
(* If d nanoseconds at b bytes each are enough for a bytes, then the       *)
(* quotient rounded up is at most d.                                       *)
(***************************************************************************)
LEMMA CeilDivLeast ==
  ASSUME NEW a \in Nat, NEW b \in Nat, b # 0, NEW d \in Nat, a <= b * d
  PROVE  CeilDiv(a, b) <= d
<1> DEFINE n == a + b - 1
           q == n \div b
<1>1. n \in Nat
  OBVIOUS
<1>2. q \in Nat /\ b * q <= n
  <2> HIDE DEF n
  <2> QED
    BY <1>1
<1> HIDE DEF q
<1>3. b * q <= b * d + b - 1
  BY <1>1, <1>2
<1>4. ~ (q >= d + 1)
  <2>1. SUFFICES ASSUME q >= d + 1 PROVE FALSE
    OBVIOUS
  <2>2. b * q >= b * (d + 1)
    BY <1>2, <2>1
  <2>3. b * (d + 1) = b * d + b
    OBVIOUS
  <2> QED
    BY <1>2, <1>3, <2>2, <2>3
<1> QED
  BY <1>2, <1>4 DEF CeilDiv, q

(***************************************************************************)
(* slowdown_vs is at least 1, for every transfer of every run: company     *)
(* never makes a transfer faster than it is alone on its narrowest link.   *)
(***************************************************************************)
THEOREM NeverFaster == RunSpec => []NeverFasterThanAlone
<1>1. RunInv => NeverFasterThanAlone
  <2> SUFFICES ASSUME RunInv, NEW f \in Flow, state[f] = "completed", Route[f] # {}
               PROVE  completion_ns[f] - start_ns[f] >= IsolatedDuration(f)
    BY DEF NeverFasterThanAlone
  <2> DEFINE widths == {Capacity[l] : l \in Route[f]}
             narrowest == Min(widths)
             taken == completion_ns[f] - start_ns[f]
  <2>1. widths \in SUBSET Nat /\ widths # {}
    BY RouteType, CapacityType
  <2>2. narrowest \in widths
    <3> HIDE DEF widths
    <3> QED
      BY <2>1, LeastNatural
  <2>3. taken \in Nat
    <3>1. completion_ns[f] \in Nat /\ start_ns[f] \in Nat
      BY DEF RunInv, BudgetInv, Sound, TypeOK, Timely
    <3> QED
      BY <3>1 DEF RunInv, Settled
  <2>4. size_bytes[f] \in Nat /\ total[f] = size_bytes[f] /\ remaining[f] = 0
    BY SizesType DEF RunInv, RunTypes, Settled
  <2>5. size_bytes[f] <= narrowest * taken
    <3>1. PICK l \in Route[f] : narrowest = Capacity[l]
      BY <2>2
    <3>2. total[f] - remaining[f] <= Capacity[l] * taken
      BY <3>1 DEF RunInv, BudgetInv, FlowBudget, EndOf
    <3> QED
      BY <2>4, <3>1, <3>2
  <2>6. IsolatedDuration(f) = IF narrowest = 0 THEN 0 ELSE CeilDiv(size_bytes[f], narrowest)
    BY DEF IsolatedDuration
  <2>7. narrowest \in Nat
    BY <2>1, <2>2
  <2> HIDE DEF narrowest, taken
  <2>8. taken >= IsolatedDuration(f)
    <3>1. CASE narrowest = 0
      BY <2>3, <2>6, <3>1
    <3>2. CASE narrowest # 0
      <4>1. CeilDiv(size_bytes[f], narrowest) <= taken
        BY <2>3, <2>4, <2>5, <2>7, <3>2, CeilDivLeast
      <4>2. CeilDiv(size_bytes[f], narrowest) \in Nat
        BY <2>4, <2>7, <3>2, CeilDivType
      <4> QED
        BY <2>3, <2>6, <3>2, <4>1, <4>2
    <3> QED
      BY <3>1, <3>2
  <2> QED
    BY <2>8 DEF taken
<1> QED
  BY <1>1, RunInvInit, RunInvStep, PTL DEF RunSpec

-----------------------------------------------------------------------------
(***************************************************************************)
(* A run without rounding, in which every transfer leaves its GPU: then a  *)
(* prediction comes from bytes left to move, and a drain to it finishes    *)
(* somebody.  A transfer is submitted at the instant that was advanced to. *)
(***************************************************************************)
ExactAndLinked == Inexact = {} /\ \A f \in Flow : Route[f] # {}

Exact == \A f \in Flow : sliver[f] = "none"

Punctual ==
    /\ pc = "drained" => Finished # {}
    /\ step = "admitting" =>
        /\ target = submit_ns[Current]
        /\ pc = "idle" => target <= now_ns

PunctualInv == RunInv /\ ExactAndLinked /\ Exact /\ Punctual

LEMMA ExactDrain ==
  ASSUME ExactAndLinked, Exact, NEW until, sliver' \in Slivers(until)
  PROVE  Exact'
BY DEF ExactAndLinked, Exact, Slivers, Rounded

LEMMA ExactIsSteady ==
  ASSUME Sound, ExactAndLinked, Exact
  PROVE  Steady /\ SliverIsLast
<1>1. ASSUME NEW f \in Moving PROVE alloc[f] # Inf
  <2>1. f \in InFlight /\ f \in Flow
    BY <1>1 DEF Moving, InFlight
  <2>2. InFlight \in SUBSET Flow /\ alloc = FairRate[InFlight]
    BY DEF InFlight, Sound, AllocationIsCurrent
  <2> QED
    BY <2>1, <2>2, FairRateType DEF ExactAndLinked
<1>2. SliverIsLast
  BY DEF Exact, SliverIsLast, Residues
<1>3. \A f \in Moving : sliver[f] = "none"
  BY DEF Exact, Moving, InFlight
<1> QED
  BY <1>1, <1>2, <1>3 DEF Steady

(***************************************************************************)
(* A step inside advance_to neither stops short of its target nor passes a *)
(* completion.                                                             *)
(***************************************************************************)
LEMMA LoopPunctual ==
  ASSUME BudgetInv, ExactAndLinked, Exact, LoopStep
  PROVE  /\ Exact'
         /\ pc' = "drained" => Finished' # {}
         /\ target' = target /\ (pc' = "idle" => target <= now_ns')
<1>1. Sound /\ target \in Nat /\ now_ns \in Nat /\ Steady /\ SliverIsLast
  BY ExactIsSteady DEF BudgetInv, Sound, TypeOK
<1>2. CASE DrainToNext
  <2>1. Exact'
    BY <1>2, ExactDrain DEF DrainToNext, Drain
  <2>2. Moving' = Moving /\ alloc' = alloc
    BY <1>2 DEF DrainToNext, flows, Moving, InFlight
  <2>3. Steady'
    BY <1>1, <2>1, <2>2 DEF Steady, Exact, Moving, InFlight
  <2> QED
    BY <1>1, <1>2, <2>1, <2>3, DrainFinishes DEF DrainToNext
<1>3. CASE CompleteFinished
  BY <1>3 DEF CompleteFinished, bytes, Exact
<1>4. CASE Nudge
  BY <1>4, ExactDrain DEF Nudge, Drain
<1>5. CASE BreakUnfinished \/ FinishAdvance
  <2>1. Drain(target) /\ target' = target /\ pc' = "idle"
    BY <1>5 DEF BreakUnfinished, FinishAdvance
  <2> QED
    BY <1>1, <2>1, ExactDrain DEF Drain
<1> QED
  BY <1>2, <1>3, <1>4, <1>5 DEF LoopStep

LEMMA PunctualInit == RunInit /\ ExactAndLinked => PunctualInv
BY RunInvInit DEF RunInit, Init, PunctualInv, Exact, Punctual

LEMMA PunctualStep == PunctualInv /\ [RunNext]_allvars => PunctualInv'
<1> SUFFICES ASSUME PunctualInv, [RunNext]_allvars PROVE PunctualInv'
  OBVIOUS
<1>1. RunInv' /\ ExactAndLinked'
  BY RunInvStep DEF PunctualInv, ExactAndLinked
<1>2. Exact' /\ Punctual'
  <2>1. CASE AdvanceToSubmit
    <3>1. pending' = pending /\ submit_ns' = submit_ns /\ target' = submit_ns[Current]
          /\ pc' = "head" /\ sliver' = sliver
      BY <2>1 DEF AdvanceToSubmit, CatchUp, AdvanceTo, transfers, bytes
    <3> QED
      BY <3>1 DEF PunctualInv, Exact, Punctual, Current, Before
  <2>2. CASE Admit
    <3>1. Submit(Current, size_bytes[Current], submit_ns[Current]) /\ step' = "admit"
      BY <2>2 DEF Admit
    <3> QED
      BY <3>1, ExactDrain DEF PunctualInv, Punctual, Submit, call
  <2>3. CASE AdvanceToNext
    BY <2>3 DEF AdvanceToNext, AdvanceTo, bytes, PunctualInv, Exact, Punctual
  <2>4. CASE NetworkStep
    <3>1. UNCHANGED <<step, submit_ns, pending>> /\ LoopStep
      BY <2>4 DEF NetworkStep, run, transfers
    <3>2. Current' = Current
      BY <3>1 DEF Current, Before
    <3> QED
      BY <3>1, <3>2, LoopPunctual DEF PunctualInv, RunInv, Punctual
  <2>5. CASE RaiseOnRoute \/ EndAdmission \/ Collect \/ Return \/ Ended \/ UNCHANGED allvars
    <3>1. UNCHANGED vars /\ UNCHANGED <<submit_ns, pending>>
          /\ (step' = "admitting" => step = "admitting")
      BY <2>5 DEF RaiseOnRoute, EndAdmission, Collect, Return, Ended, allvars, run, transfers
    <3>2. Current' = Current /\ Finished' = Finished
      BY <3>1 DEF Current, Before, Finished, InFlight, vars, flows, bytes
    <3> QED
      BY <3>1, <3>2 DEF PunctualInv, Exact, Punctual, vars, call, bytes
  <2> QED
    BY <2>1, <2>2, <2>3, <2>4, <2>5 DEF RunNext, Progress
<1> QED
  BY <1>1, <1>2 DEF PunctualInv

(***************************************************************************)
(* Without rounding, time never passes a predicted completion: transfers   *)
(* are admitted only after all that finished before them has completed.    *)
(***************************************************************************)
THEOREM NonePassed == RunSpec /\ ExactAndLinked => NoCompletionPassed
<1>1. PunctualInv /\ [RunNext]_allvars =>
        [now_ns' > now_ns => NextCompletionTime = None \/ now_ns' <= NextCompletionTime]_allvars
  <2> SUFFICES ASSUME PunctualInv, RunNext, now_ns' > now_ns, NextCompletionTime # None
               PROVE  now_ns' <= NextCompletionTime
    BY DEF allvars, vars
  <2>1. /\ now_ns \in Nat /\ target \in Nat /\ NextCompletionTime \in Nat
        /\ NextCompletionTime >= now_ns
    BY NextIsLater DEF PunctualInv, RunInv, BudgetInv, Sound, TypeOK
  <2>2. CASE Admit
    <3>1. now_ns' = target /\ target <= now_ns
      BY <2>2 DEF Admit, Submit, PunctualInv, Punctual
    <3> QED
      BY <2>1, <3>1
  <2>3. CASE NetworkStep
    <3>1. CASE DrainToNext
      BY <2>1, <3>1 DEF DrainToNext, Drain
    <3>2. CASE Nudge
      BY <3>2 DEF Nudge, PunctualInv, Punctual
    <3>3. CASE FinishAdvance
      BY <2>1, <3>3 DEF FinishAdvance, Drain, DueWithinCall
    <3>4. CASE CompleteFinished \/ BreakUnfinished
      BY <2>1, <3>4 DEF CompleteFinished, BreakUnfinished, Drain, bytes
    <3> QED
      BY <2>3, <3>1, <3>2, <3>3, <3>4 DEF NetworkStep, LoopStep
  <2>4. CASE AdvanceToSubmit \/ AdvanceToNext \/ RaiseOnRoute \/ EndAdmission \/ Collect
             \/ Return \/ Ended
    <3>1. now_ns' = now_ns
      BY <2>4 DEF AdvanceToSubmit, CatchUp, AdvanceToNext, AdvanceTo, RaiseOnRoute,
         EndAdmission, Collect, Return, Ended, allvars, vars, bytes
    <3> QED
      BY <2>1, <3>1
  <2> QED
    BY <2>2, <2>3, <2>4 DEF RunNext, Progress
<1> QED
  BY <1>1, PunctualInit, PunctualStep, PTL DEF RunSpec, NoCompletionPassed

-----------------------------------------------------------------------------
(***************************************************************************)
(* The host.  The revision strategy keeps exactly one event live, for any  *)
(* network, any arrivals and any residues of rounding.  Nothing is needed  *)
(* of the rates: the argument is only about revisions.                     *)
(***************************************************************************)
(***************************************************************************)
(* No event is from the future, so a revision that is bumped makes every   *)
(* event in the queue stale; and once the live event has been popped there *)
(* is no other until the host schedules again.  The host makes its calls   *)
(* one at a time: while it waits or schedules, none is in progress.        *)
(***************************************************************************)
HostInv ==
    /\ revision \in Nat
    /\ \A e \in events : e.revision \in Nat /\ e.revision <= revision
    /\ host \in {"waiting", "arriving", "completing", "scheduling"}
    /\ host \in {"waiting", "scheduling"} => pc = "idle"
    /\ host \in {"completing", "scheduling"} => LiveEvents = {}
    /\ OneLiveEvent

LEMMA HostInvInit == HostInit => HostInv
BY DEF HostInit, Init, HostInv, OneLiveEvent, LiveEvents, NextCompletionTime, Moving, InFlight

(***************************************************************************)
(* What the network does between two calls of the host: it never turns the *)
(* revision back.                                                          *)
(***************************************************************************)
LEMMA RevisionRises ==
  ASSUME revision \in Nat, LoopStep
  PROVE  /\ revision' \in Nat /\ revision' >= revision
         /\ pc # "idle"
<1>1. CASE CompleteFinished
  BY <1>1 DEF CompleteFinished, Reallocate
<1>2. CASE DrainToNext
  BY <1>2 DEF DrainToNext
<1>3. CASE Nudge \/ BreakUnfinished \/ FinishAdvance
  BY <1>3 DEF Nudge, BreakUnfinished, FinishAdvance
<1> QED
  BY <1>1, <1>2, <1>3 DEF LoopStep

LEMMA HostInvStep == HostInv /\ [HostNext]_hosted => HostInv'
<1> SUFFICES ASSUME HostInv, [HostNext]_hosted PROVE HostInv'
  OBVIOUS
<1> USE DEF HostInv
<1>1. ASSUME NEW f \in Flow, NEW size \in Sizes, NEW at \in Times, Arrive(f, size, at)
      PROVE  HostInv'
  BY <1>1 DEF Arrive, AdvanceTo, OneLiveEvent
<1>2. CASE SubmitArrival
  <2>1. revision' = revision + 1 /\ pc' = "idle" /\ host' = "scheduling" /\ events' = events
    BY <1>2 DEF SubmitArrival, Submit, Reallocate, call
  <2>2. LiveEvents' = {}
    BY <2>1 DEF LiveEvents
  <2> QED
    BY <2>1, <2>2 DEF OneLiveEvent
<1>3. CASE Completed
  BY <1>3 DEF Completed, vars, call, LiveEvents, OneLiveEvent
<1>4. CASE Schedule
  <2>1. /\ revision' = revision /\ pc' = pc /\ host' = "waiting"
        /\ NextCompletionTime' = NextCompletionTime
    BY <1>4 DEF Schedule, vars, call, flows, bytes, NextCompletionTime, Moving, InFlight, Due
  <2> DEFINE next == [at |-> NextCompletionTime, revision |-> revision]
  <2>2. events' = IF NextCompletionTime = None THEN events ELSE events \cup {next}
    BY <1>4 DEF Schedule
  <2>3. \A e \in events : e.revision # revision
    BY <1>4 DEF Schedule, LiveEvents
  <2>4. LiveEvents' = IF NextCompletionTime = None THEN {} ELSE {next}
    BY <2>1, <2>2, <2>3 DEF LiveEvents
  <2>5. OneLiveEvent'
    BY <2>1, <2>4 DEF OneLiveEvent
  <2> QED
    BY <2>1, <2>2, <2>5, <1>4 DEF Schedule
<1>5. CASE NetworkGoesOn
  <2>1. revision' \in Nat /\ revision' >= revision /\ host \notin {"waiting", "scheduling"}
    BY <1>5, RevisionRises DEF NetworkGoesOn
  <2>2. events' = events /\ host' = host
    BY <1>5 DEF NetworkGoesOn, hostvars
  <2>3. host = "completing" => LiveEvents' = {}
    BY <2>1, <2>2 DEF LiveEvents
  <2> QED
    BY <2>1, <2>2, <2>3 DEF OneLiveEvent
<1>6. ASSUME NEW e \in events, DropStale(e)
      PROVE  HostInv'
  <2>1. revision' = revision /\ pc' = pc /\ host' = host
    BY <1>6 DEF DropStale, vars, call
  <2>2. NextCompletionTime' = NextCompletionTime
    BY <1>6 DEF DropStale, vars, call, flows, bytes, NextCompletionTime, Moving, InFlight, Due
  <2>3. events' \subseteq events /\ LiveEvents' = LiveEvents
    BY <1>6, <2>1 DEF DropStale, LiveEvents
  <2>4. OneLiveEvent'
    BY <2>1, <2>2, <2>3 DEF OneLiveEvent
  <2> QED
    BY <1>6, <2>1, <2>3, <2>4 DEF DropStale
<1>7. ASSUME NEW e \in events, PopLive(e)
      PROVE  HostInv'
  <2>1. revision' = revision /\ host' = "completing" /\ events' = events \ {e}
    BY <1>7 DEF PopLive, AdvanceTo
  <2>2. e \in LiveEvents /\ host = "waiting"
    BY <1>7 DEF PopLive, LiveEvents
  <2>3. LiveEvents = {e}
    BY <2>2 DEF OneLiveEvent
  <2>4. LiveEvents' = {}
    BY <2>1, <2>3 DEF LiveEvents
  <2> QED
    BY <2>1, <2>4 DEF OneLiveEvent
<1>8. CASE QueueEmpty \/ UNCHANGED hosted
  BY <1>8 DEF QueueEmpty, hosted, hostvars, vars, call, flows, bytes, LiveEvents, OneLiveEvent,
     NextCompletionTime, Moving, InFlight, Due
<1> QED
  BY <1>1, <1>2, <1>3, <1>4, <1>5, <1>6, <1>7, <1>8 DEF HostNext, HostStep, Arrivals

(***************************************************************************)
(* Whenever the host waits, the events of the current revision are exactly *)
(* one, at next_completion_time_ns(), or none when nothing is predicted:   *)
(* the strategy model.py describes for a queue that cannot cancel.         *)
(***************************************************************************)
THEOREM OneEventIsLive == HostSpec => []OneLiveEvent
<1>1. HostInv => OneLiveEvent
  BY DEF HostInv
<1> QED
  BY <1>1, HostInvInit, HostInvStep, PTL DEF HostSpec
=============================================================================
