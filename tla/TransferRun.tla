---------------------------- MODULE TransferRun ----------------------------
(***************************************************************************)
(* One call of run_transfers of src/engine/network/transfers.py, driving a *)
(* FlowNetwork: admit each transfer at its submit time, then run until     *)
(* nothing is in flight (FlowNetwork.run_to_idle).                         *)
(*                                                                         *)
(* Flow keys are numbers, so that transfers can be sorted by (submit_ns,   *)
(* key).  Route is what _links_for returns in SINGLE_PATH mode.  Since     *)
(* everything runs on one thread, the network only steps while this run is *)
(* inside one of its calls.                                                *)
(***************************************************************************)
EXTENDS FlowNetwork

CONSTANTS Modes,        \* among "single_path", "per_flow_ecmp" and "sprayed"
          SubmitTimes,  \* submit_ns a transfer may have
          LimitNs       \* limit_ns of run_to_idle

ASSUME KeysAreOrdered == Flow \subseteq Nat
ASSUME SubmitTimesType == SubmitTimes \subseteq Nat
ASSUME LimitNsType == LimitNs \in Nat

VARIABLES mode,                     \* the argument mode, never changed
          submit_ns, size_bytes,    \* the transfers, never changed
          pending,                  \* what the loop over `ordered` has not reached
          step,                     \* where run_transfers stands
          done                      \* the completions collected so far

transfers == <<mode, submit_ns, size_bytes>>
run == <<transfers, pending, step, done>>
allvars == <<vars, run>>

RunInit ==
    /\ Init
    /\ mode \in Modes
    /\ submit_ns \in [Flow -> SubmitTimes]
    /\ size_bytes \in [Flow -> Sizes]
    /\ pending = Flow
    /\ step = "admit"
    /\ done = {}

(***************************************************************************)
(* The next element of sorted(transfers, key=(submit_ns, key)).            *)
(***************************************************************************)
Before(t, u) == submit_ns[t] < submit_ns[u] \/ (submit_ns[t] = submit_ns[u] /\ t <= u)

Current == CHOOSE t \in pending : \A u \in pending : Before(t, u)

(***************************************************************************)
(* _links_for.  Outside SINGLE_PATH it hands over fabric.route(t.src,      *)
(* t.dst, t.key, mode), whose parameters are (mode, flow_key, a, b): the   *)
(* source GPU is taken for the mode, which route does not know.  SPRAYED   *)
(* is refused before that.  Either way an exception leaves run_transfers.  *)
(***************************************************************************)
LinksForRaises == mode # "single_path"

(***************************************************************************)
(* The body of the loop: advance to the submit time, collect what finished *)
(* on the way, then submit.                                                *)
(***************************************************************************)
CatchUp_Skipped == UNCHANGED vars   \* mutant: a transfer is submitted without advancing first

CatchUp == AdvanceTo(submit_ns[Current])

AdvanceToSubmit ==
    /\ step = "admit"
    /\ pending # {}
    /\ CatchUp
    /\ step' = "admitting"
    /\ UNCHANGED <<transfers, pending, done>>

Gathered_Nothing == done    \* mutant: what advance_to returns is discarded

Gathered == done \cup out

Admit ==
    /\ step = "admitting"
    /\ pc = "idle"
    /\ ~LinksForRaises
    /\ done' = Gathered
    /\ Submit(Current, size_bytes[Current], submit_ns[Current])
    /\ pending' = pending \ {Current}
    /\ step' = "admit"
    /\ UNCHANGED transfers

RaiseOnRoute ==
    /\ step = "admitting"
    /\ pc = "idle"
    /\ LinksForRaises
    /\ done' = Gathered
    /\ step' = "raised"
    /\ UNCHANGED <<vars, transfers, pending>>

EndAdmission ==
    /\ step = "admit"
    /\ pending = {}
    /\ step' = "idling"
    /\ UNCHANGED <<vars, transfers, pending, done>>

(***************************************************************************)
(* run_to_idle: go from completion to completion while anything is in      *)
(* flight, unless nothing is predicted or the limit is passed.             *)
(***************************************************************************)
GoesOn ==
    /\ InFlight # {}
    /\ NextCompletionTime # None
    /\ NextCompletionTime <= LimitNs

AdvanceToNext ==
    /\ step = "idling"
    /\ GoesOn
    /\ AdvanceTo(NextCompletionTime)
    /\ step' = "advancing"
    /\ UNCHANGED <<transfers, pending, done>>

Collect ==
    /\ step = "advancing"
    /\ pc = "idle"
    /\ done' = done \cup out
    /\ step' = "idling"
    /\ UNCHANGED <<vars, transfers, pending>>

Return ==
    /\ step = "idling"
    /\ ~GoesOn
    /\ step' = "returned"
    /\ UNCHANGED <<vars, transfers, pending, done>>

NetworkStep == LoopStep /\ UNCHANGED run

Ended == step \in {"returned", "raised"} /\ UNCHANGED allvars

Progress ==
    \/ AdvanceToSubmit \/ Admit \/ RaiseOnRoute \/ EndAdmission
    \/ AdvanceToNext \/ Collect \/ Return
    \/ NetworkStep

RunNext == Progress \/ Ended

(***************************************************************************)
(* A single thread that nothing blocks: while a step can be taken, one is. *)
(***************************************************************************)
RunSpec == RunInit /\ [][RunNext]_allvars /\ WF_allvars(Progress)

-----------------------------------------------------------------------------
(***************************************************************************)
(* "Those completions must be collected, not discarded": what is returned  *)
(* is every transfer that completed, at any point of the run.              *)
(***************************************************************************)
NothingDropped ==
    step = "returned" => done = {f \in Flow : state[f] = "completed"}

(***************************************************************************)
(* "Run until all complete": a transfer is missing from the result only if *)
(* it crosses a link without capacity, or the limit has been passed.       *)
(***************************************************************************)
Starved == {f \in Flow : \E l \in Route[f] : Capacity[l] = 0}

PastLimit == NextCompletionTime # None /\ NextCompletionTime > LimitNs

OnlyStarvedAreMissing ==
    step = "returned" /\ ~PastLimit => Flow \ Starved \subseteq done

(***************************************************************************)
(* Time is never moved past a predicted completion, neither to admit the   *)
(* next transfer nor to wait for the last: no flow holds bandwidth after   *)
(* its bytes have moved, and every completion has its own instant.         *)
(***************************************************************************)
NoCompletionPassed ==
    [][now_ns' > now_ns => NextCompletionTime = None \/ now_ns' <= NextCompletionTime]_allvars

(***************************************************************************)
(* isolated_durations: how long a transfer takes alone on the fabric, at   *)
(* the rate of its narrowest link.  0 stands for no completion.            *)
(***************************************************************************)
IsolatedDuration(f) ==
    LET narrowest == Min({Capacity[l] : l \in Route[f]})
    IN  IF narrowest = 0 THEN 0 ELSE CeilDiv(size_bytes[f], narrowest)

(***************************************************************************)
(* slowdown_vs is at least 1: no transfer is faster in company than it is  *)
(* alone, so any difference is contention.  A transfer that crosses no     *)
(* link is exempt: alone, it has no narrowest link to be timed by.         *)
(***************************************************************************)
NeverFasterThanAlone ==
    \A f \in Flow : state[f] = "completed" /\ Route[f] # {} =>
        completion_ns[f] - start_ns[f] >= IsolatedDuration(f)

(***************************************************************************)
(* The call ends: every transfer is admitted and run_to_idle stops.        *)
(***************************************************************************)
RunReturns == <>(step \in {"returned", "raised"})

(***************************************************************************)
(* "PER_FLOW_ECMP disperses them": a run in that mode gives results.       *)
(***************************************************************************)
EcmpGivesResults == mode = "per_flow_ecmp" => step # "raised"
=============================================================================
