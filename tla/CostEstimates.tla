--------------------------- MODULE CostEstimates ---------------------------
(***************************************************************************)
(* The isolated cost of a collective, src/engine/cost: a FallbackBackend   *)
(* in front of an AstraSimBackend, whose answers are memoised by placement *)
(* shape.  Both configs of a run are written to files that are named by    *)
(* the shape alone; ASTRA-sim reads them and drops, without an error, the  *)
(* dimensions of the network config for which the system config has no     *)
(* entry.  Either file may be edited by hand at any time, and is then      *)
(* still one that can be read; files and runs may fail, and traces are     *)
(* generated by other tools.                                               *)
(*                                                                         *)
(* A duration is abstracted to what was simulated: two results are the     *)
(* same if ASTRA-sim was given the same workload and network.              *)
(***************************************************************************)
EXTENDS Integers, FiniteSetsExt, SequencesExt

CONSTANTS Shapes,           \* group shapes: sequences of positive numbers
          Collectives, SizesB,
          Fabrics,          \* fabrics that share the backend
          Links,            \* of each fabric: set of [class, bw, lat]
          DefaultBw,        \* _representative_bandwidth's default, by class
          DefaultLat,
          Resolution,       \* numbers less than half of this apart may print alike
          NetworkEdits,     \* what others may leave in a network config
          MaxCalls,         \* bound: calls of estimate
          MaxEdits,         \* bound: edits by hand
          None

ASSUME ShapesType == Shapes \subseteq Seq(Nat \ {0})
ASSUME ResolutionType == Resolution \in Nat \ {0}
ASSUME NetworkEditsType ==
    \A net \in NetworkEdits :
        /\ net.npus \in Seq(Nat \ {0}) /\ Len(net.npus) \in {1, 2}
        /\ Len(net.bw) = Len(net.npus) /\ Len(net.lat) = Len(net.npus)
ASSUME BoundsType == MaxCalls \in Nat /\ MaxEdits \in Nat

Classes == {"scale_up", "egress", "scale_out"}

VARIABLES pc, request,      \* where estimate is, and with what arguments
          cache, calls, hits, fallbacks_used,
          network, system,  \* the files, by shape: the npus, bw and lat
                            \* lists of one, the number of entries of the other
          edited,           \* history: shapes whose network config was edited
                            \* after it was written
          traces,           \* the workloads that exist
          answer,           \* the last result returned, or None after an error
          edits

counters == <<calls, hits, fallbacks_used>>
files == <<network, system, edited>>
vars == <<pc, request, cache, counters, files, traces, answer, edits>>

Init ==
    /\ pc = "idle" /\ request = None
    /\ cache = <<>>
    /\ calls = 0 /\ hits = 0 /\ fallbacks_used = 0
    /\ network = [s \in Shapes |-> None] /\ system = [s \in Shapes |-> None]
    /\ edited = {}
    /\ traces = {}
    /\ answer = None
    /\ edits = 0

-----------------------------------------------------------------------------
(***************************************************************************)
(* _representative_bandwidth: the slowest link of a class.                 *)
(***************************************************************************)
Representative(fabric, class) ==
    LET ofClass == {l \in Links[fabric] : l.class = class}
    IN  IF ofClass = {} THEN [bw |-> DefaultBw[class], lat |-> DefaultLat]
        ELSE LET slowest == CHOOSE l \in ofClass : \A m \in ofClass : l.bw <= m.bw
             IN  [bw |-> slowest.bw, lat |-> slowest.lat]

(***************************************************************************)
(* topology_for_shape: one dimension inside a domain, a second one across  *)
(* domains; only even splits can be written down.                          *)
(***************************************************************************)
Expressible_AnyShape(shape) == shape # <<>>     \* mutant: uneven splits are rounded

Expressible(shape) == shape # <<>> /\ Cardinality(ToSet(shape)) = 1

TopologyForShape(shape, fabric) ==
    LET up == Representative(fabric, "scale_up")
        egress == Representative(fabric, "egress")
        out == Representative(fabric, "scale_out")
    IN  IF Len(shape) = 1
          THEN [npus |-> shape, bw |-> <<up.bw>>, lat |-> <<up.lat>>]
          ELSE [npus |-> <<shape[1], Len(shape)>>,
                bw |-> <<up.bw, Min({egress.bw, out.bw})>>,
                lat |-> <<up.lat, egress.lat + out.lat>>]

(* total_ranks: the product of the dimensions, of which there are at most two. *)
Product(npus) == IF Len(npus) = 1 THEN npus[1] ELSE npus[1] * npus[2]

(* sum(shape), how MockBackend counts them. *)
GroupSize(shape) == FoldSeq(LAMBDA n, acc : n + acc, 0, shape)

Topology == TopologyForShape(request.shape, request.fabric)

Workload == <<request.collective, Product(Topology.npus), request.size>>

(***************************************************************************)
(* cache_key: collective, size, shape, bandwidths and latencies.  Numbers  *)
(* go in as %g prints them, rounded to its six digits: here, to the        *)
(* nearest multiple of Resolution.                                         *)
(***************************************************************************)
Printed(b) == (b + Resolution \div 2) \div Resolution

PrintedAll(bs) == [i \in DOMAIN bs |-> Printed(bs[i])]

CacheKey_NoFabric == <<request.collective, request.size, request.shape>> \* mutant: the fabric is left out

CacheKey ==
    <<request.collective, request.size, request.shape,
      PrintedAll(Topology.bw), PrintedAll(Topology.lat)>>

-----------------------------------------------------------------------------
Raise ==
    /\ pc' = "idle"
    /\ answer' = None

(***************************************************************************)
(* FallbackBackend.estimate calls AstraSimBackend.estimate, which counts   *)
(* the call before anything else.                                          *)
(***************************************************************************)
Estimate(req) ==
    /\ pc = "idle"
    /\ calls < MaxCalls
    /\ request' = req
    /\ calls' = calls + 1
    /\ pc' = IF Expressible(req.shape) THEN "lookup" ELSE "fallback"
    /\ UNCHANGED <<cache, hits, fallbacks_used, files, traces, answer, edits>>

(***************************************************************************)
(* NotExpressible: MockBackend answers for the sum of the shape.           *)
(***************************************************************************)
Fallback ==
    /\ pc = "fallback"
    /\ fallbacks_used' = fallbacks_used + 1
    /\ answer' = [backend |-> "mock (fallback)", cached |-> FALSE,
                  ranks |-> GroupSize(request.shape),
                  simulated |-> None, asWritten |-> TRUE]
    /\ pc' = "idle"
    /\ UNCHANGED <<request, cache, calls, hits, files, traces, edits>>

Hit ==
    /\ pc = "lookup"
    /\ CacheKey \in DOMAIN cache
    /\ hits' = hits + 1
    /\ answer' = [cache[CacheKey] EXCEPT !.cached = TRUE]
    /\ pc' = "idle"
    /\ UNCHANGED <<request, cache, calls, fallbacks_used, files, traces, edits>>

(***************************************************************************)
(* emit_config_pair: one file, then the other, then both are read again    *)
(* and their numbers of dimensions compared.  A write may fail.            *)
(***************************************************************************)
WriteNetwork ==
    /\ pc = "lookup"
    /\ CacheKey \notin DOMAIN cache
    /\ network' = [network EXCEPT ![request.shape] = Topology]
    /\ edited' = edited \ {request.shape}
    /\ pc' = "written"
    /\ UNCHANGED <<request, cache, counters, system, traces, answer, edits>>

WriteSystem ==
    /\ pc = "written"
    /\ system' = [system EXCEPT ![request.shape] = Len(Topology.npus)]
    /\ pc' = "verify"
    /\ UNCHANGED <<request, cache, counters, network, edited, traces, answer, edits>>

WriteFails ==
    /\ \/ pc = "lookup" /\ CacheKey \notin DOMAIN cache
       \/ pc = "written"
    /\ Raise
    /\ UNCHANGED <<request, cache, counters, files, traces, edits>>

Verify ==
    /\ pc = "verify"
    /\ IF Len(network[request.shape].npus) = system[request.shape]
         THEN pc' = "run" /\ UNCHANGED answer
         ELSE Raise
    /\ UNCHANGED <<request, cache, counters, files, traces, edits>>

NoTrace ==
    /\ pc = "run"
    /\ Workload \notin traces
    /\ Raise
    /\ UNCHANGED <<request, cache, counters, files, traces, edits>>

(***************************************************************************)
(* The run: ASTRA-sim simulates the dimensions that both configs have.     *)
(* Its result is kept if as many ranks reported as the topology has.       *)
(***************************************************************************)
Simulated ==
    LET net == network[request.shape]
        dims == Min({Len(net.npus), system[request.shape]})
    IN  [workload |-> Workload,
         net |-> [npus |-> SubSeq(net.npus, 1, dims),
                  bw |-> SubSeq(net.bw, 1, dims), lat |-> SubSeq(net.lat, 1, dims)]]

RanksReported == Product(Simulated.net.npus)

EveryRankReported_Unchecked == TRUE     \* mutant: any number of ranks will do

EveryRankReported == RanksReported = Product(Topology.npus)

Run ==
    /\ pc = "run"
    /\ Workload \in traces
    /\ EveryRankReported
    /\ answer' = [backend |-> "astra-sim", cached |-> FALSE,
                  ranks |-> RanksReported, simulated |-> Simulated,
                  asWritten |-> request.shape \notin edited]
    /\ cache' = [k \in DOMAIN cache \cup {CacheKey} |->
                    IF k = CacheKey THEN answer' ELSE cache[k]]
    /\ pc' = "idle"
    /\ UNCHANGED <<request, counters, files, traces, edits>>

(* No timing output at all, or not from every rank. *)
RunFails ==
    /\ pc = "run"
    /\ Workload \in traces
    /\ Raise
    /\ UNCHANGED <<request, cache, counters, files, traces, edits>>

(***************************************************************************)
(* What others do: edit either config by hand, generate a trace.           *)
(***************************************************************************)
EditNetwork(s, net) ==
    /\ edits < MaxEdits
    /\ network[s] # None
    /\ network' = [network EXCEPT ![s] = net]
    /\ edited' = edited \cup {s}
    /\ edits' = edits + 1
    /\ UNCHANGED <<pc, request, cache, counters, system, traces, answer>>

EditSystem(s, dims) ==
    /\ edits < MaxEdits
    /\ system[s] # None
    /\ system' = [system EXCEPT ![s] = dims]
    /\ edits' = edits + 1
    /\ UNCHANGED <<pc, request, cache, counters, network, edited, traces, answer>>

GenerateTrace(w) ==
    /\ w \notin traces
    /\ traces' = traces \cup {w}
    /\ UNCHANGED <<pc, request, cache, counters, files, answer, edits>>

Requests ==
    [collective : Collectives, size : SizesB, shape : Shapes, fabric : Fabrics]

Workloads ==
    {<<r.collective, Product(TopologyForShape(r.shape, r.fabric).npus), r.size>> :
        r \in {r \in Requests : Expressible(r.shape)}}

(* The bound is reached, or nobody asks for more. *)
NoMoreCalls == pc = "idle" /\ UNCHANGED vars

Next ==
    \/ NoMoreCalls
    \/ \E req \in Requests : Estimate(req)
    \/ Fallback \/ Hit \/ WriteNetwork \/ WriteSystem \/ WriteFails \/ Verify
    \/ NoTrace \/ Run \/ RunFails
    \/ \E s \in Shapes, net \in NetworkEdits : EditNetwork(s, net)
    \/ \E s \in Shapes, dims \in 1..2 : EditSystem(s, dims)
    \/ \E w \in Workloads : GenerateTrace(w)

Spec == Init /\ [][Next]_vars

-----------------------------------------------------------------------------
(***************************************************************************)
(* A memoised answer is the answer a run would give, up to what %g prints. *)
(* Whatever fabrics share the backend, whatever failed and whatever was    *)
(* edited, what is returned was simulated for this collective and size and *)
(* reported as many ranks as the shape has; and it was simulated on this   *)
(* shape, with every dimension, and on numbers that print alike, unless    *)
(* the network config was edited between its writing and that run.  Such   *)
(* an edit passes the code's checks if it keeps the number of dimensions   *)
(* and of ranks.  Edits at any other time, of files that a call is yet to  *)
(* write, and all edits of the system config are harmless.                 *)
(***************************************************************************)
AnswerIsForTheRequest ==
    pc = "idle" /\ answer # None /\ answer.backend = "astra-sim" =>
        /\ answer.simulated.workload = Workload
        /\ answer.ranks = Product(Topology.npus)
        /\ answer.asWritten =>
            /\ answer.simulated.net.npus = Topology.npus
            /\ PrintedAll(answer.simulated.net.bw) = PrintedAll(Topology.bw)
            /\ PrintedAll(answer.simulated.net.lat) = PrintedAll(Topology.lat)

(***************************************************************************)
(* "The guard against the silent dimension-mismatch trap": no result is    *)
(* kept for later in which ASTRA-sim dropped a dimension, although the     *)
(* system config may change between verification and run, unless the       *)
(* network config was edited as well, to one that has the right number of  *)
(* ranks without the dimension that is dropped.                            *)
(***************************************************************************)
NoDimensionDropped ==
    \A k \in DOMAIN cache :
        cache[k].asWritten =>
            Len(cache[k].simulated.net.npus) = (IF Len(k[3]) = 1 THEN 1 ELSE 2)

(***************************************************************************)
(* "Rather than silently rounding": whoever answers, and whatever was      *)
(* edited, the answer is for as many ranks as the group has.               *)
(***************************************************************************)
AnswerCoversTheGroup ==
    pc = "idle" /\ answer # None =>
        answer.ranks = GroupSize(request.shape)
=============================================================================
