---------------------------- MODULE FlowNetwork ----------------------------
(***************************************************************************)
(* The flow-level network model, class FlowNetwork of                      *)
(* src/engine/network/model.py: flows are admitted onto shared links, each *)
(* admission and each completion reallocates the bandwidth, and a          *)
(* completion time is an estimate that is revised whenever the set of      *)
(* flows in flight changes.                                                *)
(*                                                                         *)
(* Here the callers are left open: submit and advance_to may be called in  *)
(* any order and with any time the code accepts.  The calls the code       *)
(* rejects (a key used twice, a time in the past) change nothing and are   *)
(* left out.  submit is one action; advance_to is a loop, so it has an     *)
(* action for the call, one per branch of the loop body and one for the    *)
(* exit, with pc saying where it stands.                                   *)
(*                                                                         *)
(* Bytes, rates and times are integers.  The code's bytes are floats, and  *)
(* draining a flow to exactly 0 may leave a rounding residue above the     *)
(* 1e-9 the completion test tolerates: the flows of Inexact may be left    *)
(* with such a sliver, which takes less than a nanosecond to move.         *)
(***************************************************************************)
EXTENDS Integers, FiniteSets, FiniteSetsExt

CONSTANTS Flow,         \* flow keys
          Link,         \* link ids
          Route,        \* the links each flow traverses
          Capacity,     \* bytes per nanosecond of each link
          Inf,          \* float("inf")
          None,         \* Python's None
          FairRate,     \* max_min_fair_share: a rate for each flow in flight
          Sizes,        \* total_bytes a flow may have
          Inexact,      \* flows whose drain may leave a rounding sliver
          MaxTime       \* bound on the times callers use

ASSUME FlowIsFinite == IsFiniteSet(Flow)
ASSUME RouteType == Route \in [Flow -> SUBSET Link]
ASSUME CapacityType == Capacity \in [Link -> Nat]
ASSUME InfType == Inf \notin Int
ASSUME NoneType == None \notin Int
ASSUME SizesType == Sizes \subseteq Nat
ASSUME InexactType == Inexact \subseteq Flow
ASSUME MaxTimeType == MaxTime \in Nat

(***************************************************************************)
(* What the network relies on: the allocator gives every flow in flight a  *)
(* rate no link of its route is exceeded by, infinite exactly when the     *)
(* flow has no link.                                                       *)
(***************************************************************************)
ASSUME FairRateType ==
    \A live \in SUBSET Flow :
        /\ FairRate[live] \in [live -> Nat \cup {Inf}]
        /\ \A f \in live :
              /\ FairRate[live][f] = Inf <=> Route[f] = {}
              /\ \A l \in Route[f] : FairRate[live][f] <= Capacity[l]

(***************************************************************************)
(* And it starves no flow that could move: each of its links is shared by  *)
(* finitely many.                                                          *)
(***************************************************************************)
ASSUME FairRateStarves ==
    \A live \in SUBSET Flow : \A f \in live :
        FairRate[live][f] = 0 => \E l \in Route[f] : Capacity[l] = 0

VARIABLES pc,               \* "idle", or inside advance_to: "head", "drained"
          target,           \* to_ns of the advance_to call in progress
          out,              \* flows completed by the current or last advance_to
          now_ns, revision,
          state,            \* per flow: "unsubmitted", "in_flight", "completed"
          total,            \* total_bytes
          remaining,        \* remaining_bytes
          sliver,           \* the rounding residue of a flow drained to 0
          start_ns, completion_ns,
          alloc             \* _alloc.rates

call == <<pc, target, out>>
flows == <<state, total, start_ns, completion_ns>>
bytes == <<remaining, sliver, now_ns>>
vars == <<call, flows, bytes, revision, alloc>>

Times == 0..MaxTime

(***************************************************************************)
(* A residue is none, or too small for now_ns + residue / rate to differ   *)
(* from now_ns ("absorbed"), or large enough that the ceiling is the next  *)
(* nanosecond ("visible").                                                 *)
(***************************************************************************)
Residues == {"none", "absorbed", "visible"}

InFlight == {f \in Flow : state[f] = "in_flight"}

Init ==
    /\ pc = "idle"
    /\ target = 0
    /\ out = {}
    /\ now_ns = 0
    /\ revision = 0
    /\ state = [f \in Flow |-> "unsubmitted"]
    /\ total = [f \in Flow |-> 0]
    /\ remaining = [f \in Flow |-> 0]
    /\ sliver = [f \in Flow |-> "none"]
    /\ start_ns = [f \in Flow |-> 0]
    /\ completion_ns = [f \in Flow |-> None]
    /\ alloc = FairRate[{}]

-----------------------------------------------------------------------------
(***************************************************************************)
(* next_completion_time_ns: a flow of infinite rate is due now, one of     *)
(* rate 0 is starved and predicts nothing, any other is due when its       *)
(* remaining bytes have moved, rounded up to a whole nanosecond.           *)
(***************************************************************************)
CeilDiv(a, b) == (a + b - 1) \div b

Moving == {f \in InFlight : alloc[f] # 0}

Due(f) ==
    CASE alloc[f] = Inf \/ sliver[f] = "absorbed" -> now_ns
      [] alloc[f] # Inf /\ sliver[f] = "visible"  -> now_ns + 1
      [] OTHER -> now_ns + CeilDiv(remaining[f], alloc[f])

NextCompletionTime_StarvedEndsIt ==     \* mutant: a starved flow ends the scan
    IF Moving = {} \/ Moving # InFlight THEN None ELSE Min({Due(f) : f \in Moving})

NextCompletionTime ==
    IF Moving = {} THEN None ELSE Min({Due(f) : f \in Moving})

(***************************************************************************)
(* _drain(until_ns): every flow in flight is credited the bytes it moved   *)
(* since now_ns; nothing happens when no time passes.                      *)
(***************************************************************************)
Left_Unclamped(f, until) ==     \* mutant: remaining_bytes is not clamped at 0
    IF f \notin InFlight \/ until <= now_ns THEN remaining[f]
    ELSE IF alloc[f] = Inf THEN 0
    ELSE remaining[f] - alloc[f] * (until - now_ns)

Left_Inclusive(f, until) ==     \* mutant: the nanosecond that has begun is counted
    IF f \notin InFlight \/ until <= now_ns \/ alloc[f] = Inf THEN remaining[f]
    ELSE Max({0, remaining[f] - alloc[f] * (until - now_ns + 1)})

Left(f, until) ==
    IF f \notin InFlight \/ until <= now_ns THEN remaining[f]
    ELSE IF alloc[f] = Inf THEN 0
    ELSE IF alloc[f] * (until - now_ns) <= remaining[f]
         THEN remaining[f] - alloc[f] * (until - now_ns) ELSE 0

Credited(until) == [f \in Flow |-> Left(f, until)]

(***************************************************************************)
(* The flows this drain brings to exactly 0, where a float may round, and  *)
(* the residues that may be there afterwards: the old ones have moved.     *)
(***************************************************************************)
Rounded(until) ==
    {f \in Moving \cap Inexact :
        /\ until > now_ns /\ alloc[f] # Inf
        /\ remaining[f] > 0 /\ remaining[f] = alloc[f] * (until - now_ns)}

Slivers(until) ==
    {s \in [Flow -> Residues] :
        \A f \in Flow \ Rounded(until) :
            s[f] = IF f \in Moving /\ until > now_ns THEN "none" ELSE sliver[f]}

Drain(until) ==
    /\ now_ns' = IF until > now_ns THEN until ELSE now_ns
    /\ remaining' = Credited(until)
    /\ sliver' \in Slivers(until)

(***************************************************************************)
(* _reallocate, for the flows that are in flight from now on.              *)
(***************************************************************************)
Reallocate_SameRevision(live) ==    \* mutant: the revision is not bumped
    /\ alloc' = FairRate[live]
    /\ revision' = revision

Reallocate_FixedAtStart(live) ==    \* mutant: a flow keeps the rate it started with
    /\ alloc' = [f \in live |-> IF f \in DOMAIN alloc THEN alloc[f] ELSE FairRate[{f}][f]]
    /\ revision' = revision + 1

Reallocate(live) ==
    /\ alloc' = FairRate[live]
    /\ revision' = revision + 1

-----------------------------------------------------------------------------
(***************************************************************************)
(* submit(key, links, total_bytes, at_ns): time advances to at_ns without  *)
(* completing anything, then the newcomer takes its share.                 *)
(***************************************************************************)
Submit(f, size, at) ==
    /\ pc = "idle"
    /\ state[f] = "unsubmitted"
    /\ at >= now_ns
    /\ now_ns' = at
    /\ remaining' = [Credited(at) EXCEPT ![f] = size]
    /\ sliver' \in Slivers(at)
    /\ state' = [state EXCEPT ![f] = "in_flight"]
    /\ total' = [total EXCEPT ![f] = size]
    /\ start_ns' = [start_ns EXCEPT ![f] = at]
    /\ Reallocate(InFlight \cup {f})
    /\ UNCHANGED <<completion_ns, call>>

(***************************************************************************)
(* advance_to(to_ns) is called.                                            *)
(***************************************************************************)
AdvanceTo(to) ==
    /\ pc = "idle"
    /\ to >= now_ns
    /\ pc' = "head"
    /\ target' = to
    /\ out' = {}
    /\ UNCHANGED <<flows, bytes, revision, alloc>>

(***************************************************************************)
(* Loop head: the next completion is within the call, drain up to it.      *)
(* Afterwards now_ns is nxt, which is never before now_ns.                 *)
(***************************************************************************)
DueWithinCall_Strict ==     \* mutant: a completion at to_ns itself is left for later
    NextCompletionTime # None /\ NextCompletionTime < target

DueWithinCall == NextCompletionTime # None /\ NextCompletionTime <= target

DrainToNext ==
    /\ pc = "head"
    /\ DueWithinCall
    /\ Drain(NextCompletionTime)
    /\ pc' = "drained"
    /\ UNCHANGED <<target, out, flows, revision, alloc>>

Finished_OneByte ==     \* mutant: the completion test tolerates a byte, not 1e-9 of one
    {f \in InFlight : remaining[f] <= 1 /\ sliver[f] = "none"}

Finished == {f \in InFlight : remaining[f] = 0 /\ sliver[f] = "none"}

(***************************************************************************)
(* Everything that has no bytes left completes now, then the bandwidth is  *)
(* shared out again.                                                       *)
(***************************************************************************)
CompleteFinished ==
    /\ pc = "drained"
    /\ Finished # {}
    /\ state' = [f \in Flow |-> IF f \in Finished THEN "completed" ELSE state[f]]
    /\ completion_ns' = [f \in Flow |-> IF f \in Finished THEN now_ns ELSE completion_ns[f]]
    /\ out' = out \cup Finished
    /\ Reallocate(InFlight \ Finished)
    /\ pc' = "head"
    /\ UNCHANGED <<target, total, start_ns, bytes>>

(***************************************************************************)
(* Nothing finished although a completion was due: move on a nanosecond,   *)
(* or leave the loop when the call ends here.                              *)
(***************************************************************************)
Nudged_Nowhere == now_ns    \* mutant: the nudge drains to nxt, not to nxt + 1

Nudged == now_ns + 1

Nudge ==
    /\ pc = "drained"
    /\ Finished = {}
    /\ now_ns < target
    /\ Drain(Nudged)
    /\ pc' = "head"
    /\ UNCHANGED <<target, out, flows, revision, alloc>>

BreakUnfinished ==
    /\ pc = "drained"
    /\ Finished = {}
    /\ now_ns >= target
    /\ Drain(target)
    /\ pc' = "idle"
    /\ UNCHANGED <<target, out, flows, revision, alloc>>

(***************************************************************************)
(* No completion is due within the call: credit the rest of it and return. *)
(***************************************************************************)
FinishAdvance ==
    /\ pc = "head"
    /\ ~DueWithinCall
    /\ Drain(target)
    /\ pc' = "idle"
    /\ UNCHANGED <<target, out, flows, revision, alloc>>

LoopStep == DrainToNext \/ CompleteFinished \/ Nudge \/ BreakUnfinished \/ FinishAdvance

Call ==
    \/ \E f \in Flow, size \in Sizes, at \in Times : Submit(f, size, at)
    \/ \E to \in Times : AdvanceTo(to)

Next == Call \/ LoopStep

(***************************************************************************)
(* The caller may stop calling, but a call in progress runs on.            *)
(***************************************************************************)
Spec == Init /\ [][Next]_vars /\ WF_vars(LoopStep)

-----------------------------------------------------------------------------
(***************************************************************************)
(* The types of the network's fields.                                      *)
(***************************************************************************)
TypeOK ==
    /\ pc \in {"idle", "head", "drained"}
    /\ target \in Nat
    /\ out \in SUBSET Flow
    /\ now_ns \in Nat
    /\ revision \in Nat
    /\ state \in [Flow -> {"unsubmitted", "in_flight", "completed"}]
    /\ total \in [Flow -> Nat]
    /\ remaining \in [Flow -> Nat]
    /\ sliver \in [Flow -> Residues]
    /\ start_ns \in [Flow -> Nat]
    /\ completion_ns \in [Flow -> Nat \cup {None}]
    /\ \E live \in SUBSET Flow : alloc = FairRate[live]

(***************************************************************************)
(* Bandwidth is never shared among a set of flows that is out of date:     *)
(* between any two steps the rates are those of exactly the flows in       *)
(* flight, so a newcomer slows its neighbours at once and a completed flow *)
(* holds nothing.                                                          *)
(***************************************************************************)
AllocationIsCurrent == alloc = FairRate[InFlight]

(***************************************************************************)
(* "A modelled completion never lands before the time the bytes could      *)
(* physically have moved": whatever was admitted and finished around it,   *)
(* no flow has moved more than each of its links carries in the time from  *)
(* its start to its completion, or to now.                                 *)
(***************************************************************************)
EndOf(f) == IF state[f] = "completed" THEN completion_ns[f] ELSE now_ns

FlowBudget ==
    \A f \in Flow : state[f] # "unsubmitted" =>
        \A l \in Route[f] :
            total[f] - remaining[f] <= Capacity[l] * (EndOf(f) - start_ns[f])

(***************************************************************************)
(* When advance_to returns, every flow that could finish on the way has:   *)
(* only flows without links, and rounding residues, may still be due.      *)
(***************************************************************************)
AdvanceLeavesNothingDue ==
    [][pc # "idle" /\ pc' = "idle" =>
          \A f \in Moving' : alloc'[f] # Inf /\ sliver'[f] = "none" => Due(f)' > target]_vars

(***************************************************************************)
(* The revision strategy: a host that holds an event for                   *)
(* next_completion_time_ns() may trust it as long as the revision is the   *)
(* one it was made for.  Predictions for flows without links ("now") and   *)
(* for rounding residues are exempt: they move with time.                  *)
(***************************************************************************)
Steady == \A f \in Moving : alloc[f] # Inf /\ sliver[f] = "none"

RevisionGuardsPrediction ==
    [][Steady /\ Steady' /\ revision' = revision =>
          NextCompletionTime' = NextCompletionTime]_vars

(***************************************************************************)
(* The loop of advance_to ends, slivers and flows without links included.  *)
(***************************************************************************)
AdvanceReturns == pc # "idle" ~> pc = "idle"
=============================================================================
