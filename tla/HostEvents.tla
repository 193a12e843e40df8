----------------------------- MODULE HostEvents -----------------------------
(***************************************************************************)
(* The revision strategy of src/engine/network/model.py, with the host it  *)
(* is made for.  The host is an event-driven simulator that is not part of *)
(* the repository: its queue cannot cancel an event.  After every call it  *)
(* makes, it pushes one event for next_completion_time_ns(), stamped with  *)
(* the network's revision; when an event is popped whose revision is not   *)
(* the current one, the event is dropped.  Events of the same time pop in  *)
(* any order, and new transfers may arrive at any time up to the next      *)
(* event's, and at that very time before or after it.                      *)
(***************************************************************************)
EXTENDS FlowNetwork

VARIABLES events,       \* the host's queue: [at, revision]
          host,         \* "waiting", "arriving", "completing", "scheduling"
          arrival       \* the transfer being admitted, or None

hostvars == <<events, host, arrival>>
hosted == <<vars, hostvars>>

HostInit ==
    /\ Init
    /\ events = {}
    /\ host = "waiting"
    /\ arrival = None

IsEarliest(e) == \A other \in events : e.at <= other.at

(***************************************************************************)
(* A transfer arrives: the network is advanced to its time, then it is     *)
(* submitted.                                                              *)
(***************************************************************************)
Arrive(f, size, at) ==
    /\ host = "waiting"
    /\ state[f] = "unsubmitted"
    /\ at >= now_ns
    /\ \A e \in events : at <= e.at
    /\ AdvanceTo(at)
    /\ arrival' = [key |-> f, size |-> size]
    /\ host' = "arriving"
    /\ UNCHANGED events

SubmitArrival ==
    /\ host = "arriving"
    /\ pc = "idle"
    /\ Submit(arrival.key, arrival.size, target)
    /\ arrival' = None
    /\ host' = "scheduling"
    /\ UNCHANGED events

(***************************************************************************)
(* The earliest event is popped.                                           *)
(***************************************************************************)
DropStale(e) ==
    /\ host = "waiting"
    /\ e \in events /\ IsEarliest(e)
    /\ e.revision # revision
    /\ events' = events \ {e}
    /\ UNCHANGED <<vars, host, arrival>>

PopLive(e) ==
    /\ host = "waiting"
    /\ e \in events /\ IsEarliest(e)
    /\ e.revision = revision
    /\ events' = events \ {e}
    /\ AdvanceTo(e.at)
    /\ host' = "completing"
    /\ UNCHANGED arrival

Completed ==
    /\ host = "completing"
    /\ pc = "idle"
    /\ host' = "scheduling"
    /\ UNCHANGED <<vars, events, arrival>>

(***************************************************************************)
(* One event for the next completion, if any is predicted.                 *)
(***************************************************************************)
Schedule ==
    /\ host = "scheduling"
    /\ events' = IF NextCompletionTime = None THEN events
                 ELSE events \cup {[at |-> NextCompletionTime, revision |-> revision]}
    /\ host' = "waiting"
    /\ UNCHANGED <<vars, arrival>>

NetworkGoesOn == LoopStep /\ UNCHANGED hostvars

Arrivals == \E f \in Flow, size \in Sizes, at \in Times : Arrive(f, size, at)

HostStep ==
    \/ SubmitArrival \/ Completed \/ Schedule \/ NetworkGoesOn
    \/ \E e \in events : DropStale(e) \/ PopLive(e)

(***************************************************************************)
(* No transfer left to arrive and no event left to pop.                    *)
(***************************************************************************)
QueueEmpty == host = "waiting" /\ events = {} /\ UNCHANGED hosted

HostNext == Arrivals \/ HostStep \/ QueueEmpty

(***************************************************************************)
(* Transfers need not arrive, but the host processes its queue.            *)
(***************************************************************************)
HostSpec == HostInit /\ [][HostNext]_hosted /\ WF_hosted(HostStep)

-----------------------------------------------------------------------------
(***************************************************************************)
(* "Exactly one pending completion event is ever live, at                  *)
(* next_completion_time_ns()": whenever the host waits, the events of the  *)
(* current revision are one, for the time the network predicts now, or     *)
(* none when nothing is predicted.                                         *)
(***************************************************************************)
LiveEvents == {e \in events : e.revision = revision}

OneLiveEvent ==
    host = "waiting" =>
        LiveEvents = IF NextCompletionTime = None THEN {}
                     ELSE {[at |-> NextCompletionTime, revision |-> revision]}

(***************************************************************************)
(* Dropping stale events loses nobody: every flow that is admitted         *)
(* completes, however often its completion is revised.                     *)
(***************************************************************************)
EveryFlowCompletes ==
    \A f \in Flow : state[f] = "in_flight" ~> state[f] = "completed"
=============================================================================
