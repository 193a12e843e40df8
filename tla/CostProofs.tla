----------------------------- MODULE CostProofs -----------------------------
(***************************************************************************)
(* Proofs about the memoised cost estimates, for any fabrics, shapes and   *)
(* numbers of edits: an answer is for its request and for as many ranks as *)
(* its group has, and, where ASTRA-sim read the network config that was    *)
(* written, on the numbers of the request and without a dropped dimension. *)
(***************************************************************************)
EXTENDS CostEstimates, DataLemmas, SequenceTheorems, TLAPS

Npus(shape) == IF Len(shape) = 1 THEN shape ELSE <<shape[1], Len(shape)>>

(* An answer that may be kept under a key, or returned for one. *)
AnswerFor(key, a) ==
    /\ a.simulated.workload = <<key[1], Product(Npus(key[3])), key[2]>>
    /\ a.ranks = Product(Npus(key[3]))
    /\ a.asWritten =>
        /\ a.simulated.net.npus = Npus(key[3])
        /\ PrintedAll(a.simulated.net.bw) = key[4]
        /\ PrintedAll(a.simulated.net.lat) = key[5]

(***************************************************************************)
(* While estimate is running its network file is the one it wrote, or was  *)
(* edited since.                                                           *)
(***************************************************************************)
Running ==
    /\ pc # "idle" => request \in Requests
    /\ pc \in {"lookup", "written", "verify", "run"} => Expressible(request.shape)
    /\ pc \in {"written", "verify", "run"} =>
            request.shape \in edited \/ network[request.shape] = Topology
    /\ pc \in {"verify", "run"} => system[request.shape] \in {1, 2}
    /\ network \in [Shapes -> {network[s] : s \in Shapes}]
    /\ system \in [Shapes -> {None, 1, 2}]

AnswerFields == {"backend", "cached", "ranks", "simulated", "asWritten"}

Memo ==
    \A k \in DOMAIN cache :
        /\ DOMAIN cache[k] = AnswerFields
        /\ k[3] \in Shapes /\ Expressible(k[3])
        /\ AnswerFor(k, cache[k])

CostInv == Running /\ Memo /\ AnswerIsForTheRequest /\ AnswerCoversTheGroup

LEMMA MinOfTwo ==
  ASSUME NEW m \in Int, NEW n \in Int
  PROVE  Min({m, n}) \in {m, n} /\ Min({m, n}) <= m /\ Min({m, n}) <= n
<1>1. \E x \in {m, n} : \A y \in {m, n} : x <= y
  <2>1. CASE m <= n
    BY <2>1
  <2>2. CASE n <= m
    BY <2>2
  <2> QED
    BY <2>1, <2>2
<1> QED
  BY <1>1, Zenon DEF Min

(***************************************************************************)
(* A topology has one dimension or two, and three lists of that length.    *)
(***************************************************************************)
LEMMA TopologyLists ==
  ASSUME NEW shape \in Shapes, Expressible(shape), NEW fabric, NEW t,
         t = TopologyForShape(shape, fabric)
  PROVE  /\ t.npus = Npus(shape)
         /\ Len(t.npus) \in {1, 2}
         /\ t.npus \in Seq(Nat \ {0})
         /\ Len(t.bw) = Len(t.npus) /\ t.bw \in Seq({t.bw[1], t.bw[2]})
         /\ Len(t.lat) = Len(t.npus) /\ t.lat \in Seq({t.lat[1], t.lat[2]})
         /\ Len(t.npus) = 2 => t.npus[2] > 1
<1> DEFINE up == Representative(fabric, "scale_up")
           egress == Representative(fabric, "egress")
           out == Representative(fabric, "scale_out")
<1>1. shape \in Seq(Nat \ {0}) /\ Len(shape) \in Nat \ {0} /\ shape[1] \in Nat \ {0}
  BY ShapesType DEF Expressible
<1>2. CASE Len(shape) = 1
  <2>1. t = [npus |-> shape, bw |-> <<up.bw>>, lat |-> <<up.lat>>]
    BY <1>2 DEF TopologyForShape
  <2> HIDE DEF up
  <2> QED
    BY <1>1, <1>2, <2>1 DEF Npus
<1>3. CASE Len(shape) # 1
  <2> DEFINE b == Min({egress.bw, out.bw})
             l == egress.lat + out.lat
  <2>1. t = [npus |-> <<shape[1], Len(shape)>>, bw |-> <<up.bw, b>>, lat |-> <<up.lat, l>>]
    BY <1>3 DEF TopologyForShape
  <2> HIDE DEF up, b, l
  <2> QED
    BY <1>1, <1>3, <2>1 DEF Npus
<1> QED
  BY <1>2, <1>3

(***************************************************************************)
(* The guard on the number of ranks: the dimensions that ASTRA-sim keeps   *)
(* are all there are, since a second dimension is never of size one.       *)
(***************************************************************************)
LEMMA GuardKeepsDimensions ==
  ASSUME Running, pc = "run", EveryRankReported, request.shape \notin edited
  PROVE  Simulated.net.npus = Topology.npus /\ Simulated.net.bw = Topology.bw
         /\ Simulated.net.lat = Topology.lat
<1> DEFINE net == network[request.shape]
           dims == Min({Len(net.npus), system[request.shape]})
<1>1. net = Topology /\ request.shape \in Shapes /\ Expressible(request.shape)
  BY DEF Running, Requests
<1>2. /\ net.npus \in Seq(Nat \ {0}) /\ Len(net.npus) \in {1, 2}
      /\ Len(net.npus) = 2 => net.npus[2] > 1
      /\ Len(net.bw) = Len(net.npus) /\ net.bw \in Seq({net.bw[1], net.bw[2]})
      /\ Len(net.lat) = Len(net.npus) /\ net.lat \in Seq({net.lat[1], net.lat[2]})
  <2> HIDE DEF net
  <2> QED
    BY <1>1, TopologyLists DEF Topology
<1>3. system[request.shape] \in {1, 2}
  BY DEF Running
<1>4. dims \in {1, 2} /\ dims <= Len(net.npus)
  <2> DEFINE m == Len(net.npus)
             n == system[request.shape]
  <2>1. m \in Int /\ n \in Int /\ m \in {1, 2} /\ n \in {1, 2}
    BY <1>2, <1>3
  <2> HIDE DEF m, n
  <2>2. Min({m, n}) \in {m, n} /\ Min({m, n}) <= m
    BY <2>1, MinOfTwo
  <2>3. Min({m, n}) \in {1, 2} /\ Min({m, n}) <= m
    BY <2>1, <2>2
  <2> QED
    BY <2>3 DEF m, n
<1>5. Simulated.net = [npus |-> SubSeq(net.npus, 1, dims),
                       bw |-> SubSeq(net.bw, 1, dims), lat |-> SubSeq(net.lat, 1, dims)]
  BY DEF Simulated
<1>6. Product(SubSeq(net.npus, 1, dims)) = Product(net.npus)
  BY <1>1, <1>5 DEF EveryRankReported, RanksReported
<1> HIDE DEF net, dims
<1>7. dims = Len(net.npus)
  <2> SUFFICES ASSUME dims # Len(net.npus) PROVE FALSE
    OBVIOUS
  <2>0. Len(net.npus) = 2 /\ dims = 1
    <3> DEFINE m == Len(net.npus)
    <3>1. m \in {1, 2} /\ dims \in {1, 2} /\ dims <= m /\ dims # m
      BY <1>2, <1>4
    <3> HIDE DEF m
    <3>2. m = 2 /\ dims = 1
      BY <3>1
    <3> QED
      BY <3>2 DEF m
  <2>1. Len(SubSeq(net.npus, 1, 1)) = 1 /\ SubSeq(net.npus, 1, 1)[1] = net.npus[1]
    BY <1>2, <2>0
  <2>2. net.npus[1] = net.npus[1] * net.npus[2]
    BY <1>6, <2>0, <2>1 DEF Product
  <2>3. net.npus[1] \in Nat \ {0} /\ net.npus[2] \in Nat /\ net.npus[2] > 1
    BY <1>2, <2>0
  <2> DEFINE a == net.npus[1]
             b == net.npus[2]
  <2>4. a * b = a + a * (b - 1) /\ a * (b - 1) > 0
    <3> HIDE DEF a, b
    <3>1. a \in Nat \ {0} /\ b \in Nat /\ b > 1
      BY <2>3 DEF a, b
    <3> QED
      BY <3>1
  <2>5. a = a * b /\ a \in Nat \ {0}
    BY <2>2, <2>3
  <2>6. a \in Int /\ b - 1 \in Int /\ a * (b - 1) \in Int
    BY <2>3
  <2> DEFINE more == a * (b - 1)
  <2>7. a = a + more /\ more > 0 /\ more \in Int
    BY <2>4, <2>5, <2>6
  <2> HIDE DEF a, b, more
  <2> QED
    BY <2>6, <2>7
<1>8. /\ SubSeq(net.npus, 1, dims) = net.npus /\ SubSeq(net.bw, 1, dims) = net.bw
      /\ SubSeq(net.lat, 1, dims) = net.lat
  BY <1>2, <1>7, SubSeqFull
<1> QED
  BY <1>1, <1>5, <1>8

(***************************************************************************)
(* What is answered under the key of the request is for the request.       *)
(***************************************************************************)
LEMMA KeyDetermines ==
  ASSUME Running, request \in Requests, Expressible(request.shape), NEW a
  PROVE  /\ CacheKey[3] = request.shape
         /\ AnswerFor(CacheKey, a) <=>
              /\ a.simulated.workload = Workload
              /\ a.ranks = Product(Topology.npus)
              /\ a.asWritten =>
                  /\ a.simulated.net.npus = Topology.npus
                  /\ PrintedAll(a.simulated.net.bw) = PrintedAll(Topology.bw)
                  /\ PrintedAll(a.simulated.net.lat) = PrintedAll(Topology.lat)
<1>1. request.shape \in Shapes
  BY DEF Requests
<1>2. Topology.npus = Npus(request.shape)
  BY <1>1, TopologyLists DEF Topology
<1>3. /\ CacheKey[1] = request.collective /\ CacheKey[2] = request.size
      /\ CacheKey[3] = request.shape
      /\ CacheKey[4] = PrintedAll(Topology.bw) /\ CacheKey[5] = PrintedAll(Topology.lat)
  BY DEF CacheKey
<1> QED
  BY <1>2, <1>3 DEF AnswerFor, Workload

(***************************************************************************)
(* An even group has as many ranks as the product of its two dimensions.   *)
(***************************************************************************)
LEMMA SumOfSequence ==
  ASSUME NEW s
  PROVE  GroupSize(s) = SumOver(s, DOMAIN s)
<1>1. GroupSize(s) = SumFor(s, DOMAIN s)[DOMAIN s]
  BY DEF GroupSize, FoldSeq, FoldFunction, FoldFunctionOnSet, MapThenFoldSet, SumFor, SumStep
<1> QED
  BY <1>1, SumOverUnfolded

LEMMA EvenGroups ==
  ASSUME NEW shape \in Shapes, Expressible(shape)
  PROVE  Product(Npus(shape)) = GroupSize(shape)
<1> DEFINE n == Len(shape)
           first == shape[1]
<1>1. n \in Nat \ {0} /\ DOMAIN shape = 1..n /\ \A i \in 1..n : shape[i] \in Nat \ {0}
  BY ShapesType DEF Expressible
<1>2. first \in Nat \ {0}
  BY <1>1
<1>3. IsFiniteSet(1..n) /\ Cardinality(1..n) = n
  <2> HIDE DEF n
  <2>1. 1 \in Int /\ n \in Int
    BY <1>1
  <2>2. IsFiniteSet(1..n) /\ Cardinality(1..n) = IF 1 > n THEN 0 ELSE n - 1 + 1
    BY <2>1, FS_Interval
  <2> QED
    BY <1>1, <2>2
<1>4. \A i \in 1..n : shape[i] = first
  <2>1. shape \in Surjection(1..n, ToSet(shape))
    BY <1>1, ShapesType DEF Surjection, ToSet
  <2>2. IsFiniteSet(ToSet(shape)) /\ Cardinality(ToSet(shape)) = 1
    BY <1>3, <2>1, FS_Surjection DEF Expressible
  <2>3. PICK x : ToSet(shape) = {x}
    BY <2>2, FS_Singleton
  <2>4. ASSUME NEW i \in 1..n PROVE shape[i] = x
    <3>1. shape[i] \in ToSet(shape)
      BY <1>1 DEF ToSet
    <3> QED
      BY <2>3, <3>1
  <2>5. 1 \in 1..n
    BY <1>1
  <2> QED
    BY <2>4, <2>5
<1> HIDE DEF n, first
<1>5. PICK none, all : none = {} /\ all = 1..n
  OBVIOUS
<1>6. SumOver(shape, 1..n) = 0 + first * Cardinality(1..n)
  <2>1. IsFiniteSet(none) /\ IsFiniteSet(all) /\ none \cap all = {}
    BY <1>3, <1>5, FS_EmptySet
  <2>2. (\A i \in none : shape[i] \in Int) /\ (\A i \in all : shape[i] = first)
    BY <1>4, <1>5
  <2>3. first \in Int
    BY <1>2
  <2>4. SumOver(shape, none \cup all) = SumOver(shape, none) + first * Cardinality(all)
    BY <2>1, <2>2, <2>3, SumOverSameValue
  <2>5. none \cup all = 1..n /\ SumOver(shape, none) = 0
    BY <1>5, SumOverEmpty
  <2> QED
    BY <1>5, <2>4, <2>5
<1>7. first * n \in Int
  BY <1>1, <1>2
<1>8. GroupSize(shape) = first * n
  BY <1>1, <1>3, <1>6, <1>7, SumOfSequence
<1>9. Product(Npus(shape)) = first * n
  <2>1. CASE n = 1
    BY <1>2, <2>1 DEF Product, Npus, n, first
  <2>2. CASE n # 1
    <3>1. Npus(shape) = <<first, n>>
      BY <2>2 DEF Npus, n, first
    <3> QED
      BY <3>1 DEF Product
  <2> QED
    BY <2>1, <2>2
<1> QED
  BY <1>8, <1>9

LEMMA CostInvInit == Init => CostInv
BY DEF Init, CostInv, Running, Memo, AnswerIsForTheRequest, AnswerCoversTheGroup

(***************************************************************************)
(* A run that reports every rank returns, and keeps, what was asked for.   *)
(***************************************************************************)
LEMMA RunKeeps ==
  ASSUME CostInv, Run
  PROVE  Memo' /\ AnswerIsForTheRequest' /\ AnswerCoversTheGroup'
<1>1. request \in Requests /\ Expressible(request.shape) /\ pc = "run"
  BY DEF CostInv, Running, Run
<1>2. /\ answer' = [backend |-> "astra-sim", cached |-> FALSE,
                    ranks |-> RanksReported, simulated |-> Simulated,
                    asWritten |-> request.shape \notin edited]
      /\ cache' = [k \in DOMAIN cache \cup {CacheKey} |->
                      IF k = CacheKey THEN answer' ELSE cache[k]]
      /\ request' = request /\ EveryRankReported
  BY DEF Run
<1>3. /\ answer'.simulated.workload = Workload
      /\ answer'.ranks = Product(Topology.npus)
      /\ answer'.asWritten =>
            /\ answer'.simulated.net.npus = Topology.npus
            /\ answer'.simulated.net.bw = Topology.bw
            /\ answer'.simulated.net.lat = Topology.lat
  <2>1. answer'.simulated = Simulated /\ Simulated.workload = Workload
    BY <1>2 DEF Simulated
  <2>2. answer'.ranks = RanksReported /\ RanksReported = Product(Topology.npus)
    BY <1>2 DEF EveryRankReported
  <2>3. answer'.asWritten => request.shape \notin edited
    BY <1>2
  <2> QED
    BY <1>1, <1>2, <2>1, <2>2, <2>3, GuardKeepsDimensions DEF CostInv
<1>4. AnswerFor(CacheKey, answer') /\ CacheKey[3] = request.shape
  BY <1>1, <1>3, KeyDetermines DEF CostInv
<1>5. request.shape \in Shapes
  BY <1>1 DEF Requests
<1>6. /\ answer'.ranks = Product(Npus(request.shape))
      /\ answer'.ranks = GroupSize(request.shape)
  <2>1. answer'.ranks = Product(Topology.npus)
    BY <1>3
  <2>2. Topology.npus = Npus(request.shape)
    BY <1>1, <1>5, TopologyLists DEF Topology
  <2> QED
    BY <1>1, <1>5, <2>1, <2>2, EvenGroups
<1>7. DOMAIN answer' = AnswerFields
  BY <1>2 DEF AnswerFields
<1>8. Memo'
  <2> SUFFICES ASSUME NEW k \in DOMAIN cache'
               PROVE  /\ DOMAIN cache'[k] = AnswerFields
                      /\ k[3] \in Shapes /\ Expressible(k[3])
                      /\ AnswerFor(k, cache'[k])
    BY DEF Memo, AnswerFor
  <2>1. CASE k = CacheKey
    BY <1>1, <1>2, <1>4, <1>5, <1>7, <1>6, <2>1
  <2>2. CASE k # CacheKey
    BY <1>2, <2>2 DEF CostInv, Memo
  <2> QED
    BY <2>1, <2>2
<1>9. Workload' = Workload /\ Topology' = Topology
  BY <1>2 DEF Workload, Topology
<1> QED
  BY <1>2, <1>3, <1>8, <1>9, <1>6 DEF AnswerIsForTheRequest, AnswerCoversTheGroup

(***************************************************************************)
(* A hit returns what is kept under the key of the request.                *)
(***************************************************************************)
LEMMA HitIsForTheRequest ==
  ASSUME CostInv, Hit
  PROVE  AnswerIsForTheRequest' /\ AnswerCoversTheGroup'
<1>1. request \in Requests /\ Expressible(request.shape) /\ request.shape \in Shapes
  BY DEF CostInv, Running, Hit, Requests
<1>2. CacheKey \in DOMAIN cache /\ request' = request
      /\ answer' = [cache[CacheKey] EXCEPT !.cached = TRUE]
  BY DEF Hit
<1>3. /\ answer'.simulated = cache[CacheKey].simulated
      /\ answer'.ranks = cache[CacheKey].ranks
      /\ answer'.asWritten = cache[CacheKey].asWritten
  BY <1>2 DEF CostInv, Memo, AnswerFields
<1>4. AnswerFor(CacheKey, cache[CacheKey])
  BY <1>2 DEF CostInv, Memo
<1>5. Workload' = Workload /\ Topology' = Topology
  BY <1>2 DEF Workload, Topology
<1>6. AnswerIsForTheRequest'
  BY <1>1, <1>3, <1>4, <1>5, KeyDetermines DEF AnswerIsForTheRequest, CostInv
<1>7. answer'.ranks = GroupSize(request.shape)
  <2>1. answer'.ranks = cache[CacheKey].ranks /\ cache[CacheKey].ranks = Product(Npus(CacheKey[3]))
    BY <1>3, <1>4 DEF AnswerFor
  <2>2. CacheKey[3] = request.shape
    BY <1>1, KeyDetermines DEF CostInv
  <2> QED
    BY <1>1, <2>1, <2>2, EvenGroups
<1> QED
  BY <1>2, <1>6, <1>7 DEF AnswerCoversTheGroup

LEMMA CostInvStep == CostInv /\ [Next]_vars => CostInv'
<1> SUFFICES ASSUME CostInv, [Next]_vars PROVE CostInv'
  OBVIOUS
<1> USE DEF CostInv
(* A step that keeps nothing, and has nothing to return or returns an error. *)
<1>1. ASSUME UNCHANGED cache PROVE Memo'
  BY <1>1 DEF Memo, AnswerFor
<1>2. ASSUME pc' # "idle" \/ answer' = None
      PROVE  AnswerIsForTheRequest' /\ AnswerCoversTheGroup'
  BY <1>2 DEF AnswerIsForTheRequest, AnswerCoversTheGroup
<1>3. ASSUME UNCHANGED <<pc, request, answer>> PROVE AnswerIsForTheRequest' /\ AnswerCoversTheGroup'
  BY <1>3 DEF AnswerIsForTheRequest, AnswerCoversTheGroup, Workload, Topology
<1>4. CASE UNCHANGED vars
  <2>1. Running'
    BY <1>4 DEF vars, files, Running, Topology
  <2> QED
    BY <1>1, <1>3, <1>4, <2>1 DEF vars
<1>5. ASSUME NEW req \in Requests, Estimate(req) PROVE CostInv'
  <2>1. Running'
    BY <1>5 DEF Estimate, files, Running
  <2> QED
    BY <1>1, <1>2, <1>5, <2>1 DEF Estimate
<1>6. CASE Fallback
  <2>1. Running'
    BY <1>6 DEF Fallback, files, Running
  <2>2. /\ answer'.backend = "mock (fallback)" /\ answer'.ranks = GroupSize(request.shape)
        /\ request' = request
    BY <1>6 DEF Fallback
  <2>3. AnswerIsForTheRequest' /\ AnswerCoversTheGroup'
    BY <2>2 DEF AnswerIsForTheRequest, AnswerCoversTheGroup
  <2> QED
    BY <1>1, <1>6, <2>1, <2>3 DEF Fallback
<1>7. CASE Hit
  <2>1. Running'
    BY <1>7 DEF Hit, files, Running
  <2> QED
    BY <1>1, <1>7, <2>1, HitIsForTheRequest DEF Hit
<1>8. CASE WriteNetwork
  <2>1. Running'
    BY <1>8 DEF WriteNetwork, Running, Topology, Requests
  <2> QED
    BY <1>1, <1>2, <1>8, <2>1 DEF WriteNetwork
<1>9. CASE WriteSystem
  <2>1. /\ request \in Requests /\ request.shape \in Shapes
        /\ Expressible(request.shape)
    BY <1>9 DEF WriteSystem, Running, Requests
  <2>2. Len(Topology.npus) \in {1, 2}
    BY <2>1, TopologyLists DEF Topology
  <2>3. Running'
    BY <1>9, <2>1, <2>2 DEF WriteSystem, Running, Topology
  <2> QED
    BY <1>1, <1>2, <1>9, <2>3 DEF WriteSystem
<1>10. CASE WriteFails
  <2>1. Running'
    BY <1>10 DEF WriteFails, Raise, files, Running
  <2> QED
    BY <1>1, <1>2, <1>10, <2>1 DEF WriteFails, Raise
<1>11. CASE Verify
  <2>1. Running'
    BY <1>11 DEF Verify, Raise, files, Running, Topology
  <2> QED
    BY <1>1, <1>2, <1>11, <2>1 DEF Verify, Raise
<1>12. CASE NoTrace \/ RunFails
  <2>1. Running'
    BY <1>12 DEF NoTrace, RunFails, Raise, files, Running
  <2> QED
    BY <1>1, <1>2, <1>12, <2>1 DEF NoTrace, RunFails, Raise
<1>13. CASE Run
  <2>1. Running'
    BY <1>13 DEF Run, files, Running
  <2> QED
    BY <1>13, <2>1, RunKeeps
<1>14. ASSUME NEW s \in Shapes, NEW dims \in 1..2, EditSystem(s, dims) PROVE CostInv'
  <2>1. dims \in {1, 2}
    OBVIOUS
  <2>2. Running'
    BY <1>14, <2>1 DEF EditSystem, Running, Topology
  <2> QED
    BY <1>1, <1>3, <1>14, <2>2 DEF EditSystem
<1>15. ASSUME NEW s \in Shapes, NEW net, EditNetwork(s, net) PROVE CostInv'
  <2>1. Running'
    BY <1>15 DEF EditNetwork, Running, Topology
  <2> QED
    BY <1>1, <1>3, <1>15, <2>1 DEF EditNetwork
<1>16. ASSUME NEW w, GenerateTrace(w) PROVE CostInv'
  <2>1. Running'
    BY <1>16 DEF GenerateTrace, files, Running, Topology
  <2> QED
    BY <1>1, <1>3, <1>16, <2>1 DEF GenerateTrace
<1> QED
  BY <1>4, <1>5, <1>6, <1>7, <1>8, <1>9, <1>10, <1>11, <1>12, <1>13, <1>14, <1>15, <1>16
  DEF Next, NoMoreCalls

(***************************************************************************)
(* Whatever fabrics share the cache, and whatever failed or was edited by  *)
(* hand, an answer of ASTRA-sim is for the collective and the size of its  *)
(* request and as many ranks; and for its shape and numbers unless its     *)
(* network config was edited between its writing and its run.              *)
(***************************************************************************)
THEOREM AnswersAreForRequests == Spec => []AnswerIsForTheRequest
BY CostInvInit, CostInvStep, PTL DEF Spec, CostInv

(***************************************************************************)
(* The rank guard suffices: no result of a network config as it was        *)
(* written is kept that lost a dimension, to a system config that changed  *)
(* at any time.                                                            *)
(***************************************************************************)
THEOREM DimensionsKept == Spec => []NoDimensionDropped
<1>1. Memo => NoDimensionDropped
  <2> SUFFICES ASSUME Memo, NEW k \in DOMAIN cache
               PROVE  cache[k].asWritten =>
                        Len(cache[k].simulated.net.npus) = (IF Len(k[3]) = 1 THEN 1 ELSE 2)
    BY DEF NoDimensionDropped
  <2>1. cache[k].asWritten => cache[k].simulated.net.npus = Npus(k[3])
    BY DEF Memo, AnswerFor
  <2>2. Len(<<k[3][1], Len(k[3])>>) = 2
    OBVIOUS
  <2> QED
    BY <2>1, <2>2 DEF Npus
<1> QED
  BY <1>1, CostInvInit, CostInvStep, PTL DEF Spec, CostInv

(***************************************************************************)
(* "Rather than silently rounding": for groups of any shape, what is       *)
(* answered by a run, from the cache or by the fallback is for as many     *)
(* ranks as the group has.                                                 *)
(***************************************************************************)
THEOREM AnswersCoverGroups == Spec => []AnswerCoversTheGroup
BY CostInvInit, CostInvStep, PTL DEF Spec, CostInv
=============================================================================
