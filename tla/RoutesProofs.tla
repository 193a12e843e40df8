---------------------------- MODULE RoutesProofs ----------------------------
(***************************************************************************)
(* Proofs about the routes of the fabrics that are built, for any number   *)
(* of machines, GPUs, NICs and switches: their distances in closed form,   *)
(* and from these that routes follow the domains, that the shape of a      *)
(* group tells the links it uses, and that a leaf-spine fabric has the     *)
(* paths and capacities it is built for.                                   *)
(***************************************************************************)
EXTENDS RoundTripProofs

-----------------------------------------------------------------------------
(***************************************************************************)
(* A function of the nodes that is 0 at a alone, that no link raises by    *)
(* more than one, and that somewhere before each node is one less, is what *)
(* the search from a finds.                                                *)
(***************************************************************************)
IsDistance(fab, a, D) ==
    /\ a \in DOMAIN D /\ D \in [DOMAIN D -> Nat] /\ \A m \in DOMAIN D : D[m] = 0 <=> m = a
    /\ \A l \in DOMAIN fab.links :
            l[1] \in DOMAIN D => l[2] \in DOMAIN D /\ D[l[2]] <= D[l[1]] + 1
    /\ \A m \in DOMAIN D \ {a} : \E l \in DOMAIN fab.links :
            l[2] = m /\ l[1] \in DOMAIN D /\ D[m] = D[l[1]] + 1

Within(D, k) == [m \in {m \in DOMAIN D : D[m] <= k} |-> D[m]]

Found(fab, near) == {l[2] : l \in {l \in DOMAIN fab.links : l[1] \in DOMAIN near}}

Further(fab, near, k) ==
    IF Found(fab, near) \subseteq DOMAIN near THEN near
    ELSE [m \in DOMAIN near \cup Found(fab, near) |-> IF m \in DOMAIN near THEN near[m] ELSE k]

FirstSteps(fab, a, n, f) ==
    [k \in 0..n |-> IF k = 0 THEN [m \in {a} |-> 0] ELSE Further(fab, f[k - 1], k)]

LEMMA DistancesUnfolded ==
  ASSUME NEW fab, NEW a, NEW n, n = Cardinality(Endpoints(fab))
  PROVE  Distances(fab, a) = (CHOOSE f : f = FirstSteps(fab, a, n, f))[n]
BY DEF Distances, FirstSteps, Further, Found

LEMMA OneFurther ==
  ASSUME NEW fab, NEW a, NEW D, IsDistance(fab, a, D), NEW k \in Nat, k > 0
  PROVE  Further(fab, Within(D, k - 1), k) = Within(D, k)
<1> DEFINE near == Within(D, k - 1)
           found == Found(fab, near)
<1>1. /\ DOMAIN near = {m \in DOMAIN D : D[m] <= k - 1}
      /\ \A m \in DOMAIN near : near[m] = D[m]
  BY DEF Within
<1>2. \A m \in DOMAIN D : D[m] \in Nat
  BY DEF IsDistance
<1>3. ASSUME NEW m \in found PROVE m \in DOMAIN D /\ D[m] <= k
  <2>1. PICK l \in DOMAIN fab.links : l[1] \in DOMAIN near /\ m = l[2]
    BY DEF Found
  <2>2. l[1] \in DOMAIN D /\ D[l[1]] <= k - 1 /\ D[l[1]] \in Nat
    BY <1>1, <1>2, <2>1
  <2>3. m \in DOMAIN D /\ D[m] <= D[l[1]] + 1 /\ D[m] \in Nat
    BY <1>2, <2>1, <2>2 DEF IsDistance
  <2> QED
    BY <2>2, <2>3
<1>4. ASSUME NEW m \in DOMAIN D, D[m] = k PROVE m \in found
  <2>1. m # a
    BY <1>4 DEF IsDistance
  <2>2. PICK l \in DOMAIN fab.links : l[2] = m /\ l[1] \in DOMAIN D /\ D[m] = D[l[1]] + 1
    BY <2>1 DEF IsDistance
  <2>3. l[1] \in DOMAIN near
    BY <1>1, <1>2, <1>4, <2>2
  <2> QED
    BY <2>2, <2>3 DEF Found
<1>5. DOMAIN near \cup found = {m \in DOMAIN D : D[m] <= k}
  <2>1. ASSUME NEW m \in DOMAIN D, D[m] <= k PROVE m \in DOMAIN near \cup found
    <3>1. D[m] <= k - 1 \/ D[m] = k
      BY <1>2, <2>1
    <3> QED
      BY <1>1, <1>4, <3>1
  <2>2. ASSUME NEW m \in DOMAIN near PROVE m \in DOMAIN D /\ D[m] <= k
    BY <1>1, <1>2
  <2> QED
    BY <1>3, <2>1, <2>2
<1>6. CASE found \subseteq DOMAIN near
  <2>1. DOMAIN near = {m \in DOMAIN D : D[m] <= k}
    BY <1>5, <1>6
  <2>2. near = [m \in DOMAIN near |-> D[m]]
    BY <1>1 DEF Within
  <2> QED
    BY <1>6, <2>1, <2>2 DEF Further, Within
<1>7. CASE ~(found \subseteq DOMAIN near)
  <2>1. ASSUME NEW m \in DOMAIN near \cup found
        PROVE  (IF m \in DOMAIN near THEN near[m] ELSE k) = D[m]
    <3>1. CASE m \in DOMAIN near
      BY <1>1, <3>1
    <3>2. CASE m \notin DOMAIN near
      <4>1. m \in DOMAIN D /\ D[m] <= k /\ ~(D[m] <= k - 1) /\ D[m] \in Nat
        BY <1>1, <1>2, <1>5, <3>2
      <4> QED
        BY <3>2, <4>1
    <3> QED
      BY <3>1, <3>2
  <2> HIDE DEF near, found
  <2>2. [m \in DOMAIN near \cup found |-> IF m \in DOMAIN near THEN near[m] ELSE k]
        = [m \in {m \in DOMAIN D : D[m] <= k} |-> D[m]]
    BY <1>5, <2>1
  <2> QED
    BY <1>7, <2>2 DEF Further, Within, near, found
<1> QED
  BY <1>6, <1>7

(* Some node is at each distance below one that occurs. *)
LEMMA DistancesWithin ==
  ASSUME NEW fab, IsFiniteSet(Endpoints(fab)), NEW a, NEW D, IsDistance(fab, a, D),
         NEW m \in DOMAIN D
  PROVE  D[m] <= Cardinality(Endpoints(fab))
<1> DEFINE at(k) == {x \in DOMAIN D : x \in Endpoints(fab) /\ D[x] = k}
           ks == 1..D[m]
           bad == {k \in ks : at(k) = {}}
<1>1. D[m] \in Nat /\ \A x \in DOMAIN D : D[x] \in Nat
  BY DEF IsDistance
<1>2. \A x \in DOMAIN D : D[x] # 0 => x # a
  BY DEF IsDistance
<1>3. \A x \in DOMAIN D \ {a} : \E y \in DOMAIN D :
          x \in Endpoints(fab) /\ y \in Endpoints(fab) /\ D[x] = D[y] + 1
  BY DEF IsDistance, Endpoints
<1>4. bad = {}
  <2> SUFFICES ASSUME bad # {} PROVE FALSE
    OBVIOUS
  <2> DEFINE top == Max(bad)
  <2>1. bad \in SUBSET (1..D[m])
    OBVIOUS
  <2>2. top \in bad /\ \A k \in bad : k <= top
    <3> HIDE DEF bad
    <3> QED
      BY <1>1, <2>1, LargestNatural
  <2> HIDE DEF top
  <2>3. top \in ks /\ at(top) = {}
    BY <2>2
  <2>4. top # D[m]
    <3>1. D[m] # 0
      BY <1>1, <2>3
    <3>2. D[m] = D[m] /\ m \in Endpoints(fab)
      BY <1>2, <1>3, <3>1
    <3> QED
      BY <2>3, <3>2
  <2>5. top + 1 \in ks /\ top + 1 \notin bad
    BY <1>1, <2>2, <2>3, <2>4
  <2>6. PICK x \in DOMAIN D : x \in Endpoints(fab) /\ D[x] = top + 1
    BY <2>5
  <2>7. PICK y \in DOMAIN D : y \in Endpoints(fab) /\ D[x] = D[y] + 1
    BY <1>1, <1>2, <1>3, <2>3, <2>6
  <2>8. D[y] = top
    BY <1>1, <2>3, <2>6, <2>7
  <2> QED
    BY <2>3, <2>7, <2>8
<1> DEFINE f == [k \in ks |-> CHOOSE x \in at(k) : TRUE]
<1>5. \A k \in ks : f[k] \in at(k)
  BY <1>4
<1>6. f \in Injection(ks, Endpoints(fab))
  <2>1. f \in [ks -> Endpoints(fab)]
    BY <1>5
  <2>2. \A j, k \in ks : f[j] = f[k] => j = k
    BY <1>5
  <2> HIDE DEF f
  <2> QED
    BY <2>1, <2>2 DEF Injection, IsInjective
<1>7. Cardinality(ks) = D[m]
  BY <1>1, FS_Interval
<1> QED
  BY <1>6, <1>7, FS_Injection

LEMMA DistancesAre ==
  ASSUME NEW fab, IsFiniteSet(Endpoints(fab)), NEW a, NEW D, IsDistance(fab, a, D)
  PROVE  Distances(fab, a) = D
<1> DEFINE n == Cardinality(Endpoints(fab))
           g == [k \in 0..n |-> Within(D, k)]
           f == CHOOSE f : f = FirstSteps(fab, a, n, f)
<1>0. n \in Nat
  BY FS_CardinalityType
<1>1. Distances(fab, a) = f[n]
  BY DistancesUnfolded
<1> HIDE DEF n
<1>2. Within(D, 0) = [m \in {a} |-> 0]
  <2>1. {m \in DOMAIN D : D[m] <= 0} = {a} /\ D[a] = 0
    BY DEF IsDistance
  <2> QED
    BY <2>1 DEF Within
<1>3. g = FirstSteps(fab, a, n, g)
  <2>1. ASSUME NEW k \in 0..n
        PROVE  g[k] = IF k = 0 THEN [m \in {a} |-> 0] ELSE Further(fab, g[k - 1], k)
    <3>1. CASE k = 0
      BY <1>2, <3>1
    <3>2. CASE k # 0
      <4>1. k \in Nat /\ k > 0 /\ k - 1 \in 0..n
        BY <1>0, <3>2
      <4> QED
        BY <3>2, <4>1, OneFurther
    <3> QED
      BY <3>1, <3>2
  <2> QED
    BY <2>1 DEF FirstSteps
<1>4. f = FirstSteps(fab, a, n, f)
  BY <1>3
<1>5. \A k \in 0..n : f[k] = IF k = 0 THEN [m \in {a} |-> 0] ELSE Further(fab, f[k - 1], k)
  <2> HIDE DEF f
  <2> QED
    BY <1>4 DEF FirstSteps
<1> HIDE DEF f, g
<1> DEFINE bad == {k \in 0..n : f[k] # Within(D, k)}
           least == Min(bad)
<1>6. bad = {}
  <2> SUFFICES ASSUME bad # {} PROVE FALSE
    OBVIOUS
  <2>1. bad \in SUBSET Nat
    BY <1>0
  <2>2. least \in bad /\ \A k \in bad : least <= k
    <3> HIDE DEF bad
    <3> QED
      BY <2>1, LeastNatural
  <2> HIDE DEF least
  <2>3. least \in 0..n /\ least # 0
    BY <1>2, <1>5, <2>2
  <2>4. least \in Nat /\ least > 0 /\ least - 1 \in 0..n /\ least - 1 \notin bad
    BY <1>0, <2>2, <2>3
  <2>5. f[least] = Further(fab, Within(D, least - 1), least)
    BY <1>5, <2>3, <2>4
  <2> QED
    BY <2>2, <2>4, <2>5, OneFurther
<1>7. f[n] = Within(D, n)
  BY <1>0, <1>6
<1>8. {m \in DOMAIN D : D[m] <= n} = DOMAIN D
  BY DistancesWithin DEF n
<1>9. Within(D, n) = D
  BY <1>8 DEF Within, IsDistance
<1> QED
  BY <1>1, <1>7, <1>9

-----------------------------------------------------------------------------
(***************************************************************************)
(* How a fabric is wired: w has the leaf of each NIC (up), the leaves and  *)
(* the spines.  GPUs of a domain are joined, each GPU to its NIC, each NIC *)
(* to its leaf, each leaf to each spine, and nothing else is joined.       *)
(***************************************************************************)
Attached(fab, w, n, m) ==
    \/ n # m /\ SameDomain(fab, n, m)
    \/ n \in DOMAIN fab.gpuNic /\ m = fab.gpuNic[n]
    \/ n \in DOMAIN w.up /\ m = w.up[n]
    \/ n \in w.leaves /\ m \in w.spines

LeafOf(fab, w, g) == w.up[fab.gpuNic[g]]

KindsOf(fab, w) ==
    /\ \A n \in Gpus(fab) : IsGpu(n)
    /\ \A n \in DOMAIN w.up : IsNic(n)
    /\ \A n \in w.leaves \cup w.spines : IsSwitch(n)
    /\ w.leaves \cap w.spines = {}

(* A NIC serves one domain, and a domain is below one leaf. *)
BindingsOf(fab, w) ==
    /\ DOMAIN fab.gpuDomain = Gpus(fab)
    /\ DOMAIN fab.gpuNic \in {{}, Gpus(fab)}
    /\ \A g \in DOMAIN fab.gpuNic : fab.gpuNic[g] \in DOMAIN w.up
    /\ \A n \in DOMAIN w.up : w.up[n] \in w.leaves
    /\ \A g, h \in DOMAIN fab.gpuNic : fab.gpuNic[g] = fab.gpuNic[h] => SameDomain(fab, g, h)
    /\ \A g, h \in DOMAIN fab.gpuNic : SameDomain(fab, g, h) => LeafOf(fab, w, g) = LeafOf(fab, w, h)
    /\ \A x, y \in w.leaves : x = y \/ w.spines # {}

Wired(fab, w) ==
    /\ KindsOf(fab, w) /\ BindingsOf(fab, w)
    /\ \A l \in DOMAIN fab.links : Attached(fab, w, l[1], l[2]) \/ Attached(fab, w, l[2], l[1])
    /\ \A n, m : Attached(fab, w, n, m) => {<<n, m>>, <<m, n>>} \subseteq DOMAIN fab.links

ServesPeer(fab, a, n) == \E g \in DOMAIN fab.gpuNic : SameDomain(fab, a, g) /\ n = fab.gpuNic[g]

(***************************************************************************)
(* The distance of each node that can be reached from GPU a.               *)
(***************************************************************************)
HopsToGpu(fab, w, a, n) ==
    IF n = a THEN 0 ELSE IF SameDomain(fab, a, n) THEN 1
    ELSE IF LeafOf(fab, w, n) = LeafOf(fab, w, a) THEN 4 ELSE 6

HopsToNic(fab, w, a, n) ==
    IF n = fab.gpuNic[a] THEN 1 ELSE IF ServesPeer(fab, a, n) THEN 2
    ELSE IF w.up[n] = LeafOf(fab, w, a) THEN 3 ELSE 5

HopsToSwitch(fab, w, a, n) ==
    IF n \in w.spines THEN 3 ELSE IF n = LeafOf(fab, w, a) THEN 2 ELSE 4

Hops(fab, w, a) ==
    [n \in (IF a \in DOMAIN fab.gpuNic THEN Gpus(fab) \cup DOMAIN w.up \cup w.leaves \cup w.spines
            ELSE {g \in Gpus(fab) : SameDomain(fab, a, g)}) |->
        IF IsGpu(n) THEN HopsToGpu(fab, w, a, n)
        ELSE IF IsNic(n) THEN HopsToNic(fab, w, a, n) ELSE HopsToSwitch(fab, w, a, n)]

LEMMA HopsAre ==
  ASSUME NEW fab, NEW w, Wired(fab, w), NEW a \in DOMAIN fab.gpuNic
  PROVE  /\ DOMAIN Hops(fab, w, a) = Gpus(fab) \cup DOMAIN w.up \cup w.leaves \cup w.spines
         /\ \A n \in Gpus(fab) : Hops(fab, w, a)[n] = HopsToGpu(fab, w, a, n)
         /\ \A n \in DOMAIN w.up : Hops(fab, w, a)[n] = HopsToNic(fab, w, a, n)
         /\ \A n \in w.leaves \cup w.spines : Hops(fab, w, a)[n] = HopsToSwitch(fab, w, a, n)
<1>1. /\ \A n \in Gpus(fab) : IsGpu(n)
      /\ \A n \in DOMAIN w.up : IsNic(n) /\ ~IsGpu(n)
      /\ \A n \in w.leaves \cup w.spines : ~IsNic(n) /\ ~IsGpu(n)
  BY DEF Wired, KindsOf, IsSwitch, IsGpu, IsNic
<1> QED
  BY <1>1 DEF Hops

(* Of two nodes that are joined, neither is more than one further. *)
CloseBy(D, n, m) ==
    (n \in DOMAIN D \/ m \in DOMAIN D) =>
        {n, m} \subseteq DOMAIN D /\ D[n] <= D[m] + 1 /\ D[m] <= D[n] + 1

LEMMA HopsClose ==
  ASSUME NEW fab, NEW w, Wired(fab, w), NEW a \in DOMAIN fab.gpuNic,
         NEW n, NEW m, Attached(fab, w, n, m)
  PROVE  CloseBy(Hops(fab, w, a), n, m)
<1> DEFINE D == Hops(fab, w, a)
           G == Gpus(fab)
<1>1. /\ DOMAIN D = G \cup DOMAIN w.up \cup w.leaves \cup w.spines
      /\ \A x \in G : D[x] = HopsToGpu(fab, w, a, x)
      /\ \A x \in DOMAIN w.up : D[x] = HopsToNic(fab, w, a, x)
      /\ \A x \in w.leaves \cup w.spines : D[x] = HopsToSwitch(fab, w, a, x)
  BY HopsAre
<1>2. /\ DOMAIN fab.gpuDomain = G /\ DOMAIN fab.gpuNic = G
      /\ \A g \in G : fab.gpuNic[g] \in DOMAIN w.up
      /\ \A x \in DOMAIN w.up : w.up[x] \in w.leaves
      /\ \A g, h \in G : fab.gpuNic[g] = fab.gpuNic[h] => SameDomain(fab, g, h)
      /\ \A g, h \in G : SameDomain(fab, g, h) => LeafOf(fab, w, g) = LeafOf(fab, w, h)
      /\ w.leaves \cap w.spines = {}
  BY DEF Wired, BindingsOf, KindsOf
<1>3. /\ \A g \in G : SameDomain(fab, g, g)
      /\ \A g, h : SameDomain(fab, g, h) => g \in G /\ h \in G /\ SameDomain(fab, h, g)
      /\ \A g, h, k : SameDomain(fab, g, h) /\ SameDomain(fab, h, k) => SameDomain(fab, g, k)
  BY <1>2 DEF SameDomain
<1> HIDE DEF D, G
<1>4. CASE SameDomain(fab, n, m)
  BY <1>1, <1>2, <1>3, <1>4 DEF HopsToGpu, CloseBy, D
<1>5. CASE n \in G /\ m = fab.gpuNic[n]
  <2>1. m \in DOMAIN w.up /\ w.up[m] = LeafOf(fab, w, n)
    BY <1>2, <1>5 DEF LeafOf
  <2>2. SameDomain(fab, a, n) => ServesPeer(fab, a, m)
    BY <1>2, <1>5 DEF ServesPeer
  <2>3. ServesPeer(fab, a, m) => SameDomain(fab, a, n)
    BY <1>2, <1>3, <1>5 DEF ServesPeer
  <2>4. m = fab.gpuNic[a] => SameDomain(fab, a, n)
    BY <1>2, <1>5
  <2> QED
    BY <1>1, <1>2, <1>3, <1>5, <2>1, <2>2, <2>3, <2>4 DEF HopsToGpu, HopsToNic, CloseBy, D
<1>6. CASE n \in DOMAIN w.up /\ m = w.up[n]
  <2>1. ServesPeer(fab, a, n) => m = LeafOf(fab, w, a)
    BY <1>2, <1>3, <1>6 DEF ServesPeer, LeafOf
  <2>2. n = fab.gpuNic[a] => m = LeafOf(fab, w, a)
    BY <1>6 DEF LeafOf
  <2>3. m \in w.leaves /\ m \notin w.spines
    BY <1>2, <1>6
  <2> QED
    BY <1>1, <1>6, <2>1, <2>2, <2>3 DEF HopsToSwitch, HopsToNic, CloseBy, D
<1>7. CASE n \in w.leaves /\ m \in w.spines
  BY <1>1, <1>2, <1>7 DEF HopsToSwitch, CloseBy, D
<1> QED
  BY <1>2, <1>4, <1>5, <1>6, <1>7 DEF Attached, D

(* Every node but a is joined to one that is nearer. *)
LEMMA HopsBefore ==
  ASSUME NEW fab, NEW w, Wired(fab, w), NEW a \in DOMAIN fab.gpuNic,
         NEW m \in DOMAIN Hops(fab, w, a) \ {a}
  PROVE  \E n \in DOMAIN Hops(fab, w, a) :
            /\ Attached(fab, w, n, m) \/ Attached(fab, w, m, n)
            /\ Hops(fab, w, a)[m] = Hops(fab, w, a)[n] + 1
<1> DEFINE D == Hops(fab, w, a)
           G == Gpus(fab)
           own == LeafOf(fab, w, a)
<1>1. /\ DOMAIN D = G \cup DOMAIN w.up \cup w.leaves \cup w.spines
      /\ \A x \in G : D[x] = HopsToGpu(fab, w, a, x)
      /\ \A x \in DOMAIN w.up : D[x] = HopsToNic(fab, w, a, x)
      /\ \A x \in w.leaves \cup w.spines : D[x] = HopsToSwitch(fab, w, a, x)
  BY HopsAre
<1>2. /\ DOMAIN fab.gpuDomain = G /\ DOMAIN fab.gpuNic = G
      /\ \A g \in G : fab.gpuNic[g] \in DOMAIN w.up
      /\ \A x \in DOMAIN w.up : w.up[x] \in w.leaves
      /\ \A g, h \in G : fab.gpuNic[g] = fab.gpuNic[h] => SameDomain(fab, g, h)
      /\ \A g, h \in G : SameDomain(fab, g, h) => LeafOf(fab, w, g) = LeafOf(fab, w, h)
      /\ w.leaves \cap w.spines = {}
      /\ \A x, y \in w.leaves : x = y \/ w.spines # {}
  BY DEF Wired, BindingsOf, KindsOf
<1>3. /\ \A g \in G : SameDomain(fab, g, g)
      /\ \A g, h : SameDomain(fab, g, h) => g \in G /\ h \in G /\ SameDomain(fab, h, g)
  BY <1>2 DEF SameDomain
<1> HIDE DEF D, G
<1>4. a \in G /\ D[a] = 0 /\ own \in w.leaves
  BY <1>1, <1>2 DEF HopsToGpu, LeafOf
<1>5. D[fab.gpuNic[a]] = 1 /\ D[own] = 2 /\ \A s \in w.spines : D[s] = 3
  BY <1>1, <1>2, <1>4 DEF HopsToNic, HopsToSwitch
<1> HIDE DEF own
<1>6. CASE m \in G
  <2>1. CASE SameDomain(fab, a, m)
    <3>1. D[m] = 1 /\ Attached(fab, w, a, m)
      BY <1>1, <1>6, <2>1 DEF HopsToGpu, Attached, D
    <3> QED
      BY <1>1, <1>4, <3>1 DEF D
  <2>2. CASE ~SameDomain(fab, a, m)
    <3> DEFINE n == fab.gpuNic[m]
    <3>1. n \in DOMAIN w.up /\ n # fab.gpuNic[a] /\ ~ServesPeer(fab, a, n) /\ Attached(fab, w, m, n)
      <4>1. n \in DOMAIN w.up /\ n # fab.gpuNic[a]
        BY <1>2, <1>4, <1>6, <2>2
      <4>2. ASSUME NEW g \in DOMAIN fab.gpuNic, SameDomain(fab, a, g), n = fab.gpuNic[g] PROVE FALSE
        <5>1. SameDomain(fab, g, m)
          BY <1>2, <1>6, <4>2
        <5> QED
          BY <2>2, <4>2, <5>1 DEF SameDomain
      <4>3. Attached(fab, w, m, n)
        BY <1>2, <1>6 DEF Attached
      <4> QED
        BY <4>1, <4>2, <4>3 DEF ServesPeer
    <3>2. D[n] = IF w.up[n] = own THEN 3 ELSE 5
      BY <1>1, <3>1 DEF HopsToNic, own
    <3>3. D[m] = IF w.up[n] = own THEN 4 ELSE 6
      BY <1>1, <1>6, <2>2, <1>4 DEF HopsToGpu, LeafOf, own, D
    <3> QED
      BY <1>1, <3>1, <3>2, <3>3 DEF D
  <2> QED
    BY <2>1, <2>2
<1>7. CASE m \in DOMAIN w.up
  <2>1. CASE m = fab.gpuNic[a]
    <3>1. Attached(fab, w, a, m)
      BY <2>1 DEF Attached
    <3> QED
      BY <1>1, <1>4, <1>5, <2>1, <3>1 DEF D
  <2>2. CASE m # fab.gpuNic[a] /\ ServesPeer(fab, a, m)
    <3>1. PICK g \in DOMAIN fab.gpuNic : SameDomain(fab, a, g) /\ m = fab.gpuNic[g]
      BY <2>2 DEF ServesPeer
    <3>2. g \in G /\ g # a /\ D[g] = 1 /\ D[m] = 2 /\ Attached(fab, w, g, m)
      BY <1>1, <1>2, <1>7, <2>2, <3>1 DEF HopsToGpu, HopsToNic, Attached
    <3> QED
      BY <1>1, <3>2 DEF D
  <2>3. CASE m # fab.gpuNic[a] /\ ~ServesPeer(fab, a, m)
    <3> DEFINE n == w.up[m]
    <3>1. n \in w.leaves /\ n \notin w.spines /\ Attached(fab, w, m, n)
      BY <1>2, <1>7 DEF Attached
    <3>2. D[n] = IF n = own THEN 2 ELSE 4
      BY <1>1, <3>1 DEF HopsToSwitch, own
    <3>3. D[m] = IF n = own THEN 3 ELSE 5
      BY <1>1, <1>7, <2>3 DEF HopsToNic, own
    <3> QED
      BY <1>1, <3>1, <3>2, <3>3 DEF D
  <2> QED
    BY <2>1, <2>2, <2>3
<1>8. CASE m \in w.spines
  <2>1. Attached(fab, w, own, m)
    BY <1>4, <1>8 DEF Attached
  <2> QED
    BY <1>1, <1>4, <1>5, <1>8, <2>1 DEF D
<1>9. CASE m \in w.leaves
  <2>1. CASE m = own
    <3>1. Attached(fab, w, fab.gpuNic[a], m) /\ fab.gpuNic[a] \in DOMAIN w.up
      BY <1>2, <1>4, <2>1 DEF Attached, LeafOf, own
    <3> QED
      BY <1>1, <1>5, <2>1, <3>1 DEF D
  <2>2. CASE m # own
    <3>1. PICK s \in w.spines : TRUE
      BY <1>2, <1>4, <1>9, <2>2
    <3>2. D[m] = 4 /\ D[s] = 3 /\ Attached(fab, w, m, s)
      BY <1>1, <1>2, <1>5, <1>9, <2>2, <3>1 DEF HopsToSwitch, Attached, own
    <3> QED
      BY <1>1, <3>1, <3>2 DEF D
  <2> QED
    BY <2>1, <2>2
<1> QED
  BY <1>1, <1>6, <1>7, <1>8, <1>9 DEF D

(* Where GPUs have no NIC, a GPU reaches its domain only. *)
LEMMA HopsWithin ==
  ASSUME NEW fab, NEW w, Wired(fab, w), NEW a \in Gpus(fab), DOMAIN fab.gpuNic = {}
  PROVE  /\ \A g : g \in DOMAIN Hops(fab, w, a) <=> g \in Gpus(fab) /\ SameDomain(fab, a, g)
         /\ \A n \in DOMAIN Hops(fab, w, a) : Hops(fab, w, a)[n] = IF n = a THEN 0 ELSE 1
<1>1. \A n \in Gpus(fab) : IsGpu(n)
  BY DEF Wired, KindsOf
<1>2. a \notin DOMAIN fab.gpuNic
  OBVIOUS
<1> QED
  BY <1>1, <1>2 DEF Hops, HopsToGpu

LEMMA WiredDistances ==
  ASSUME NEW fab, IsFiniteSet(Endpoints(fab)), NEW w, Wired(fab, w), NEW a \in Gpus(fab)
  PROVE  Distances(fab, a) = Hops(fab, w, a)
<1> DEFINE D == Hops(fab, w, a)
<1>1. \A l \in DOMAIN fab.links : Attached(fab, w, l[1], l[2]) \/ Attached(fab, w, l[2], l[1])
  BY DEF Wired
<1>2. \A n, m : Attached(fab, w, n, m) => <<n, m>> \in DOMAIN fab.links /\ <<m, n>> \in DOMAIN fab.links
  BY DEF Wired
<1>3. D = [n \in DOMAIN D |-> D[n]]
  BY DEF Hops
<1>4. CASE a \in DOMAIN fab.gpuNic
  <2>1. /\ DOMAIN D = Gpus(fab) \cup DOMAIN w.up \cup w.leaves \cup w.spines
        /\ \A n \in Gpus(fab) : D[n] = HopsToGpu(fab, w, a, n)
        /\ \A n \in DOMAIN w.up : D[n] = HopsToNic(fab, w, a, n)
        /\ \A n \in w.leaves \cup w.spines : D[n] = HopsToSwitch(fab, w, a, n)
    BY <1>4, HopsAre
  <2>2. \A n, m : Attached(fab, w, n, m) => CloseBy(D, n, m)
    BY <1>4, HopsClose
  <2>3. \A m \in DOMAIN D \ {a} : \E n \in DOMAIN D :
            /\ Attached(fab, w, n, m) \/ Attached(fab, w, m, n)
            /\ D[m] = D[n] + 1
    BY <1>4, HopsBefore
  <2>4. /\ \A n \in DOMAIN w.up \cup w.leaves \cup w.spines : ~IsGpu(n)
        /\ IsGpu(a)
    BY DEF Wired, KindsOf, IsSwitch, IsNic, IsGpu
  <2> HIDE DEF D
  <2>5. \A m \in DOMAIN D : D[m] \in Nat /\ (D[m] = 0 <=> m = a)
    <3>1. \A m \in Gpus(fab) : D[m] \in Nat /\ (D[m] = 0 <=> m = a)
      BY <2>1 DEF HopsToGpu
    <3>2. \A m \in DOMAIN w.up : D[m] \in Nat /\ D[m] # 0
      BY <2>1 DEF HopsToNic
    <3>3. \A m \in w.leaves \cup w.spines : D[m] \in Nat /\ D[m] # 0
      BY <2>1 DEF HopsToSwitch
    <3> QED
      BY <2>1, <2>4, <3>1, <3>2, <3>3
  <2>6. \A l \in DOMAIN fab.links : l[1] \in DOMAIN D => l[2] \in DOMAIN D /\ D[l[2]] <= D[l[1]] + 1
    BY <1>1, <2>2 DEF CloseBy
  <2>7. \A m \in DOMAIN D \ {a} : \E l \in DOMAIN fab.links :
            l[2] = m /\ l[1] \in DOMAIN D /\ D[m] = D[l[1]] + 1
    <3> TAKE m \in DOMAIN D \ {a}
    <3>1. PICK n \in DOMAIN D : (Attached(fab, w, n, m) \/ Attached(fab, w, m, n)) /\ D[m] = D[n] + 1
      BY <2>3
    <3>2. <<n, m>> \in DOMAIN fab.links /\ <<n, m>>[1] = n /\ <<n, m>>[2] = m
      BY <1>2, <3>1
    <3> QED
      BY <3>1, <3>2
  <2>8. a \in DOMAIN D /\ D \in [DOMAIN D -> Nat]
    BY <1>3, <2>1, <2>5
  <2>9. IsDistance(fab, a, D)
    BY <2>5, <2>6, <2>7, <2>8 DEF IsDistance
  <2> QED
    BY <2>9, DistancesAre DEF D
<1>5. CASE a \notin DOMAIN fab.gpuNic
  <2>1. DOMAIN fab.gpuNic = {}
    BY <1>5 DEF Wired, BindingsOf
  <2>2. /\ \A g : g \in DOMAIN D <=> g \in Gpus(fab) /\ SameDomain(fab, a, g)
        /\ \A n \in DOMAIN D : D[n] = IF n = a THEN 0 ELSE 1
    BY <2>1, HopsWithin
  <2>3. DOMAIN fab.gpuDomain = Gpus(fab) /\ SameDomain(fab, a, a)
    BY DEF Wired, BindingsOf, SameDomain
  <2>4. \A n, m : Attached(fab, w, n, m) /\ (n \in Gpus(fab) \/ m \in Gpus(fab)) =>
            n # m /\ SameDomain(fab, n, m)
    <3>1. \A n \in Gpus(fab) : n \notin DOMAIN w.up /\ n \notin w.leaves /\ n \notin w.spines
      BY DEF Wired, KindsOf, IsSwitch, IsNic, IsGpu
    <3>2. \A n \in DOMAIN w.up : w.up[n] \in w.leaves
      BY DEF Wired, BindingsOf
    <3> QED
      BY <2>1, <3>1, <3>2 DEF Attached
  <2> HIDE DEF D
  <2>5. \A l \in DOMAIN fab.links : l[1] \in DOMAIN D => l[2] \in DOMAIN D /\ D[l[2]] <= D[l[1]] + 1
    <3> SUFFICES ASSUME NEW l \in DOMAIN fab.links, l[1] \in DOMAIN D
                 PROVE  l[2] \in DOMAIN D /\ D[l[2]] <= D[l[1]] + 1
      OBVIOUS
    <3>1. SameDomain(fab, l[1], l[2]) \/ SameDomain(fab, l[2], l[1])
      BY <1>1, <2>2, <2>4
    <3>2. l[2] \in DOMAIN D
      BY <2>2, <2>3, <3>1 DEF SameDomain
    <3> QED
      BY <2>2, <3>2
  <2>6. \A m \in DOMAIN D \ {a} : \E l \in DOMAIN fab.links :
            l[2] = m /\ l[1] \in DOMAIN D /\ D[m] = D[l[1]] + 1
    <3> TAKE m \in DOMAIN D \ {a}
    <3>1. Attached(fab, w, a, m)
      BY <2>2 DEF Attached
    <3>2. <<a, m>> \in DOMAIN fab.links /\ <<a, m>>[1] = a /\ <<a, m>>[2] = m
      BY <1>2, <3>1
    <3> QED
      BY <2>2, <2>3, <3>2
  <2>7. a \in DOMAIN D /\ D \in [DOMAIN D -> Nat] /\ \A m \in DOMAIN D : D[m] = 0 <=> m = a
    BY <1>3, <2>2, <2>3
  <2>8. IsDistance(fab, a, D)
    BY <2>5, <2>6, <2>7 DEF IsDistance
  <2> QED
    BY <2>8, DistancesAre DEF D
<1> QED
  BY <1>4, <1>5

-----------------------------------------------------------------------------
(***************************************************************************)
(* Routes, from the distances of both ends: inside a domain the ends       *)
(* alone, and between domains the ends, their NICs, their leaves and, if   *)
(* these differ, every spine.                                              *)
(***************************************************************************)
LEMMA HopsFrom ==
  ASSUME NEW fab, NEW w, Wired(fab, w), NEW a \in Gpus(fab)
  PROVE  /\ a \in DOMAIN Hops(fab, w, a)
         /\ \A n \in DOMAIN Hops(fab, w, a) :
                Hops(fab, w, a)[n] \in Nat /\ (Hops(fab, w, a)[n] = 0 <=> n = a)
         /\ \A b \in Gpus(fab) \ {a} :
                SameDomain(fab, a, b) => b \in DOMAIN Hops(fab, w, a) /\ Hops(fab, w, a)[b] = 1
<1> DEFINE D == Hops(fab, w, a)
<1>1. SameDomain(fab, a, a)
  BY DEF Wired, BindingsOf, SameDomain
<1>2. CASE a \in DOMAIN fab.gpuNic
  <2>1. /\ DOMAIN D = Gpus(fab) \cup DOMAIN w.up \cup w.leaves \cup w.spines
        /\ \A n \in Gpus(fab) : D[n] = HopsToGpu(fab, w, a, n)
        /\ \A n \in DOMAIN w.up : D[n] = HopsToNic(fab, w, a, n)
        /\ \A n \in w.leaves \cup w.spines : D[n] = HopsToSwitch(fab, w, a, n)
    BY <1>2, HopsAre
  <2>2. \A n \in DOMAIN w.up \cup w.leaves \cup w.spines : n # a
    BY DEF Wired, KindsOf, IsSwitch, IsNic, IsGpu
  <2> HIDE DEF D
  <2>3. \A n \in Gpus(fab) : D[n] \in Nat /\ (D[n] = 0 <=> n = a)
    BY <2>1 DEF HopsToGpu
  <2>4. \A n \in DOMAIN w.up : D[n] \in Nat /\ D[n] # 0
    BY <2>1 DEF HopsToNic
  <2>5. \A n \in w.leaves \cup w.spines : D[n] \in Nat /\ D[n] # 0
    BY <2>1 DEF HopsToSwitch
  <2>6. \A b \in Gpus(fab) \ {a} : SameDomain(fab, a, b) => D[b] = 1
    BY <2>1 DEF HopsToGpu
  <2> QED
    BY <2>1, <2>2, <2>3, <2>4, <2>5, <2>6 DEF D
<1>3. CASE a \notin DOMAIN fab.gpuNic
  <2>1. DOMAIN fab.gpuNic = {}
    BY <1>3 DEF Wired, BindingsOf
  <2>2. /\ \A g : g \in DOMAIN D <=> g \in Gpus(fab) /\ SameDomain(fab, a, g)
        /\ \A n \in DOMAIN D : D[n] = IF n = a THEN 0 ELSE 1
    BY <2>1, HopsWithin
  <2> HIDE DEF D
  <2>3. \A n \in DOMAIN D : D[n] \in Nat /\ (D[n] = 0 <=> n = a)
    BY <2>2
  <2> QED
    BY <1>1, <2>2, <2>3 DEF D
<1> QED
  BY <1>2, <1>3

LEMMA RouteInDomain ==
  ASSUME NEW fab, IsFiniteSet(Endpoints(fab)), NEW w, Wired(fab, w),
         NEW a \in Gpus(fab), NEW b \in Gpus(fab), SameDomain(fab, a, b)
  PROVE  /\ RouteNodes(fab, a, b) \subseteq {a, b}
         /\ a # b => RouteNodes(fab, a, b) = {a, b} /\ Distances(fab, a)[a] = 0 /\ Distances(fab, a)[b] = 1
<1> DEFINE from == Distances(fab, a)
           to == Distances(fab, b)
<1>1. from = Hops(fab, w, a) /\ to = Hops(fab, w, b)
  BY WiredDistances
<1>2. SameDomain(fab, b, a)
  BY DEF SameDomain
<1>3. /\ a \in DOMAIN from /\ from[a] = 0 /\ b \in DOMAIN to /\ to[b] = 0
      /\ \A n \in DOMAIN from : from[n] \in Nat /\ (from[n] = 0 <=> n = a)
      /\ \A n \in DOMAIN to : to[n] \in Nat /\ (to[n] = 0 <=> n = b)
      /\ a # b => b \in DOMAIN from /\ from[b] = 1 /\ a \in DOMAIN to /\ to[a] = 1
  BY <1>1, <1>2, HopsFrom
<1>4. RouteNodes(fab, a, b) = {n \in Endpoints(fab) : OnTheWay(from, to, n)}
  BY DEF RouteNodes
<1>5. a # b => a \in Endpoints(fab) /\ b \in Endpoints(fab)
  <2>1. a # b => <<a, b>> \in DOMAIN fab.links /\ <<a, b>>[1] = a /\ <<a, b>>[2] = b
    BY DEF Wired, Attached
  <2> QED
    BY <2>1 DEF Endpoints
<1> HIDE DEF from, to
<1>6. ASSUME NEW n, OnTheWay(from, to, n) PROVE n \in {a, b}
  <2>1. n \in DOMAIN from /\ n \in DOMAIN to /\ from[n] + to[n] <= from[a] + to[a]
    BY <1>3, <1>6 DEF OnTheWay
  <2> QED
    BY <1>3, <2>1
<1>7. ASSUME a # b PROVE OnTheWay(from, to, a) /\ OnTheWay(from, to, b)
  <2>1. \A m \in DOMAIN from \cap DOMAIN to : from[m] + to[m] >= 1
    BY <1>3, <1>7
  <2> QED
    BY <1>3, <1>7, <2>1 DEF OnTheWay
<1> QED
  BY <1>3, <1>4, <1>5, <1>6, <1>7 DEF from

LEMMA NoRoute ==
  ASSUME NEW fab, IsFiniteSet(Endpoints(fab)), NEW w, Wired(fab, w), DOMAIN fab.gpuNic = {},
         NEW a \in Gpus(fab), NEW b \in Gpus(fab), ~SameDomain(fab, a, b)
  PROVE  RouteNodes(fab, a, b) = {}
<1>1. \A g \in Gpus(fab) : \A h : h \in DOMAIN Distances(fab, g) => SameDomain(fab, g, h)
  <2> TAKE g \in Gpus(fab)
  <2>1. Distances(fab, g) = Hops(fab, w, g)
    BY WiredDistances
  <2>2. \A h : h \in DOMAIN Hops(fab, w, g) => SameDomain(fab, g, h)
    BY HopsWithin
  <2> QED
    BY <2>1, <2>2
<1>2. DOMAIN Distances(fab, a) \cap DOMAIN Distances(fab, b) = {}
  BY <1>1 DEF SameDomain
<1> QED
  BY <1>2 DEF RouteNodes, OnTheWay

SwitchesOn(fab, w, a, b) ==
    {LeafOf(fab, w, a), LeafOf(fab, w, b)}
    \cup (IF LeafOf(fab, w, a) = LeafOf(fab, w, b) THEN {} ELSE w.spines)

NodesOn(fab, w, a, b) == {a, b, fab.gpuNic[a], fab.gpuNic[b]} \cup SwitchesOn(fab, w, a, b)

(* The way over each node is at least 4 or 6 hops long, and no longer over these. *)
LEMMA WaysAre ==
  ASSUME NEW fab, NEW w, Wired(fab, w), NEW a \in DOMAIN fab.gpuNic, NEW b \in DOMAIN fab.gpuNic,
         ~SameDomain(fab, a, b), NEW L, L = (IF LeafOf(fab, w, a) = LeafOf(fab, w, b) THEN 4 ELSE 6)
  PROVE  /\ DOMAIN Hops(fab, w, a) = DOMAIN Hops(fab, w, b)
         /\ NodesOn(fab, w, a, b) \subseteq DOMAIN Hops(fab, w, a)
         /\ \A n \in DOMAIN Hops(fab, w, a) :
                IF n \in NodesOn(fab, w, a, b) THEN Hops(fab, w, a)[n] + Hops(fab, w, b)[n] = L
                ELSE Hops(fab, w, a)[n] + Hops(fab, w, b)[n] > L
<1> DEFINE from == Hops(fab, w, a)
           to == Hops(fab, w, b)
           G == Gpus(fab)
           la == LeafOf(fab, w, a)
           lb == LeafOf(fab, w, b)
           na == fab.gpuNic[a]
           nb == fab.gpuNic[b]
<1>1. /\ DOMAIN from = G \cup DOMAIN w.up \cup w.leaves \cup w.spines
      /\ \A n \in G : from[n] = HopsToGpu(fab, w, a, n)
      /\ \A n \in DOMAIN w.up : from[n] = HopsToNic(fab, w, a, n)
      /\ \A n \in w.leaves \cup w.spines : from[n] = HopsToSwitch(fab, w, a, n)
  BY HopsAre
<1>2. /\ DOMAIN to = G \cup DOMAIN w.up \cup w.leaves \cup w.spines
      /\ \A n \in G : to[n] = HopsToGpu(fab, w, b, n)
      /\ \A n \in DOMAIN w.up : to[n] = HopsToNic(fab, w, b, n)
      /\ \A n \in w.leaves \cup w.spines : to[n] = HopsToSwitch(fab, w, b, n)
  BY HopsAre
<1>3. /\ DOMAIN fab.gpuDomain = G /\ DOMAIN fab.gpuNic = G
      /\ \A g \in G : fab.gpuNic[g] \in DOMAIN w.up
      /\ \A x \in DOMAIN w.up : w.up[x] \in w.leaves
      /\ \A g, h \in G : fab.gpuNic[g] = fab.gpuNic[h] => SameDomain(fab, g, h)
      /\ \A g, h \in G : SameDomain(fab, g, h) => LeafOf(fab, w, g) = LeafOf(fab, w, h)
      /\ w.leaves \cap w.spines = {}
  BY DEF Wired, BindingsOf, KindsOf
<1>4. /\ \A g \in G : SameDomain(fab, g, g)
      /\ \A g, h : SameDomain(fab, g, h) => g \in G /\ h \in G /\ SameDomain(fab, h, g)
      /\ \A g, h, k : SameDomain(fab, g, h) /\ SameDomain(fab, h, k) => SameDomain(fab, g, k)
  BY <1>3 DEF SameDomain
<1>5. /\ \A n \in G : n \notin DOMAIN w.up /\ n \notin w.leaves \cup w.spines
      /\ \A n \in DOMAIN w.up : n \notin w.leaves \cup w.spines
  BY DEF Wired, KindsOf, IsSwitch, IsNic, IsGpu
<1>6. /\ a \in G /\ b \in G /\ a # b
      /\ na \in DOMAIN w.up /\ nb \in DOMAIN w.up /\ na # nb
      /\ la \in w.leaves /\ lb \in w.leaves /\ w.up[na] = la /\ w.up[nb] = lb
  BY <1>3, <1>4 DEF LeafOf
<1>7. NodesOn(fab, w, a, b) = {a, b, na, nb, la, lb} \cup (IF la = lb THEN {} ELSE w.spines)
  BY DEF NodesOn, SwitchesOn
<1>8. \A g \in G : ~(SameDomain(fab, a, g) /\ SameDomain(fab, b, g))
  BY <1>4
<1>9. \A n : ~(ServesPeer(fab, a, n) /\ ServesPeer(fab, b, n))
  <2> SUFFICES ASSUME NEW n, ServesPeer(fab, a, n), ServesPeer(fab, b, n) PROVE FALSE
    OBVIOUS
  <2>1. PICK g \in G : SameDomain(fab, a, g) /\ n = fab.gpuNic[g]
    BY <1>3 DEF ServesPeer
  <2>2. PICK h \in G : SameDomain(fab, b, h) /\ n = fab.gpuNic[h]
    BY <1>3 DEF ServesPeer
  <2>3. SameDomain(fab, g, h)
    BY <1>3, <2>1, <2>2
  <2> QED
    BY <1>4, <2>1, <2>2, <2>3
<1>10. /\ ServesPeer(fab, a, na) /\ ServesPeer(fab, b, nb)
       /\ \A n : ServesPeer(fab, a, n) => n \in DOMAIN w.up /\ w.up[n] = la
       /\ \A n : ServesPeer(fab, b, n) => n \in DOMAIN w.up /\ w.up[n] = lb
  <2>1. \A g \in G : SameDomain(fab, a, g) => fab.gpuNic[g] \in DOMAIN w.up /\ w.up[fab.gpuNic[g]] = la
    BY <1>3, <1>6 DEF LeafOf
  <2>2. \A g \in G : SameDomain(fab, b, g) => fab.gpuNic[g] \in DOMAIN w.up /\ w.up[fab.gpuNic[g]] = lb
    BY <1>3, <1>6 DEF LeafOf
  <2> QED
    BY <1>3, <1>4, <1>6, <2>1, <2>2 DEF ServesPeer
<1>11. \A n \in G : /\ SameDomain(fab, a, n) => LeafOf(fab, w, n) = la
                    /\ SameDomain(fab, b, n) => LeafOf(fab, w, n) = lb
  BY <1>3, <1>6
<1>12. L = IF la = lb THEN 4 ELSE 6
  OBVIOUS
<1> DEFINE on == {a, b, na, nb, la, lb} \cup (IF la = lb THEN {} ELSE w.spines)
<1>13. /\ \A n \in G : from[n] = IF n = a THEN 0 ELSE IF SameDomain(fab, a, n) THEN 1
                                 ELSE IF LeafOf(fab, w, n) = la THEN 4 ELSE 6
       /\ \A n \in DOMAIN w.up : from[n] = IF n = na THEN 1 ELSE IF ServesPeer(fab, a, n) THEN 2
                                           ELSE IF w.up[n] = la THEN 3 ELSE 5
       /\ \A n \in w.leaves \cup w.spines : from[n] = IF n \in w.spines THEN 3 ELSE IF n = la THEN 2 ELSE 4
  BY <1>1 DEF HopsToGpu, HopsToNic, HopsToSwitch
<1>14. /\ \A n \in G : to[n] = IF n = b THEN 0 ELSE IF SameDomain(fab, b, n) THEN 1
                               ELSE IF LeafOf(fab, w, n) = lb THEN 4 ELSE 6
       /\ \A n \in DOMAIN w.up : to[n] = IF n = nb THEN 1 ELSE IF ServesPeer(fab, b, n) THEN 2
                                         ELSE IF w.up[n] = lb THEN 3 ELSE 5
       /\ \A n \in w.leaves \cup w.spines : to[n] = IF n \in w.spines THEN 3 ELSE IF n = lb THEN 2 ELSE 4
  BY <1>2 DEF HopsToGpu, HopsToNic, HopsToSwitch
<1>15. DOMAIN from = DOMAIN to
  BY <1>1, <1>2
<1>16. on \subseteq DOMAIN from
  BY <1>1, <1>6
<1>17. LeafOf(fab, w, a) = la /\ LeafOf(fab, w, b) = lb
  OBVIOUS
<1> HIDE DEF from, to, G, la, lb, na, nb
<1>18. ASSUME NEW n \in G
       PROVE  IF n \in on THEN from[n] + to[n] = L ELSE from[n] + to[n] > L
  <2>1. n \in on <=> n = a \/ n = b
    BY <1>5, <1>6
  <2>2. SameDomain(fab, a, a) /\ SameDomain(fab, b, b) /\ ~SameDomain(fab, b, a)
    BY <1>4, <1>6
  <2>3. CASE n = a
    BY <1>6, <1>12, <1>13, <1>14, <1>17, <2>1, <2>2, <2>3
  <2>4. CASE n = b
    BY <1>6, <1>12, <1>13, <1>14, <1>17, <2>1, <2>2, <2>4
  <2>5. CASE n # a /\ n # b
    BY <1>8, <1>11, <1>12, <1>13, <1>14, <2>1, <2>5
  <2> QED
    BY <2>3, <2>4, <2>5
<1>19. ASSUME NEW n \in DOMAIN w.up
       PROVE  IF n \in on THEN from[n] + to[n] = L ELSE from[n] + to[n] > L
  <2>1. n \in on <=> n = na \/ n = nb
    BY <1>5, <1>6
  <2> QED
    BY <1>6, <1>9, <1>10, <1>12, <1>13, <1>14, <2>1
<1>20. ASSUME NEW n \in w.leaves \cup w.spines
       PROVE  IF n \in on THEN from[n] + to[n] = L ELSE from[n] + to[n] > L
  <2>1. n \in on <=> n = la \/ n = lb \/ (la # lb /\ n \in w.spines)
    BY <1>5, <1>6
  <2> QED
    BY <1>3, <1>6, <1>12, <1>13, <1>14, <2>1
<1> QED
  BY <1>1, <1>7, <1>15, <1>16, <1>18, <1>19, <1>20 DEF from, to

LEMMA RouteBetweenDomains ==
  ASSUME NEW fab, IsFiniteSet(Endpoints(fab)), NEW w, Wired(fab, w),
         NEW a \in DOMAIN fab.gpuNic, NEW b \in DOMAIN fab.gpuNic, ~SameDomain(fab, a, b)
  PROVE  RouteNodes(fab, a, b) = NodesOn(fab, w, a, b)
<1> DEFINE from == Hops(fab, w, a)
           to == Hops(fab, w, b)
           on == NodesOn(fab, w, a, b)
<1>0. a \in Gpus(fab) /\ b \in Gpus(fab)
  BY DEF Wired, BindingsOf
<1>1. Distances(fab, a) = from /\ Distances(fab, b) = to
  BY <1>0, WiredDistances
<1>2. PICK L : L = (IF LeafOf(fab, w, a) = LeafOf(fab, w, b) THEN 4 ELSE 6)
  OBVIOUS
<1>3. /\ DOMAIN from = DOMAIN to /\ on \subseteq DOMAIN from
      /\ \A n \in DOMAIN from : IF n \in on THEN from[n] + to[n] = L ELSE from[n] + to[n] > L
  BY <1>2, WaysAre
<1>4. /\ \A n \in DOMAIN from : from[n] \in Nat
      /\ \A n \in DOMAIN to : to[n] \in Nat
      /\ a \in on /\ L \in Nat
  BY <1>0, <1>2, HopsFrom DEF NodesOn
<1>5. on \subseteq Endpoints(fab)
  <2>1. \A n, m : Attached(fab, w, n, m) => n \in Endpoints(fab) /\ m \in Endpoints(fab)
    <3>1. \A n, m : Attached(fab, w, n, m) => <<n, m>> \in DOMAIN fab.links
                        /\ <<n, m>>[1] = n /\ <<n, m>>[2] = m
      BY DEF Wired
    <3> QED
      BY <3>1 DEF Endpoints
  <2>2. \A g \in DOMAIN fab.gpuNic : Attached(fab, w, g, fab.gpuNic[g])
                                     /\ Attached(fab, w, fab.gpuNic[g], LeafOf(fab, w, g))
    BY DEF Attached, LeafOf, Wired, BindingsOf
  <2>3. \A s \in w.spines : Attached(fab, w, LeafOf(fab, w, a), s)
    BY DEF Attached, LeafOf, Wired, BindingsOf
  <2> QED
    BY <2>1, <2>2, <2>3 DEF NodesOn, SwitchesOn
<1>6. RouteNodes(fab, a, b) = {n \in Endpoints(fab) : OnTheWay(from, to, n)}
  BY <1>1 DEF RouteNodes
<1> HIDE DEF from, to, on
<1>7. \A n : OnTheWay(from, to, n) <=> n \in on
  BY <1>3, <1>4 DEF OnTheWay
<1> QED
  BY <1>5, <1>6, <1>7 DEF on

(* RoutesThroughOwnNics, for any fabric that is wired this way. *)
LEMMA WiredRoutes ==
  ASSUME NEW fab, IsFiniteSet(Endpoints(fab)), NEW w, Wired(fab, w)
  PROVE  RoutesThroughOwnNics(fab)
<1>1. /\ \A n \in Gpus(fab) : ~IsSwitch(n)
      /\ \A n \in DOMAIN w.up : ~IsSwitch(n)
      /\ \A n \in w.leaves \cup w.spines : IsSwitch(n)
  BY DEF Wired, KindsOf, IsSwitch
<1>2. /\ DOMAIN fab.gpuNic \in {{}, Gpus(fab)}
      /\ \A g \in DOMAIN fab.gpuNic : fab.gpuNic[g] \in DOMAIN w.up
      /\ \A n \in DOMAIN w.up : w.up[n] \in w.leaves
  BY DEF Wired, BindingsOf
<1> SUFFICES ASSUME NEW a \in Gpus(fab), NEW b \in Gpus(fab)
             PROVE  IF SameDomain(fab, a, b)
                      THEN {n \in RouteNodes(fab, a, b) : ~IsSwitch(n)} \subseteq {a, b}
                      ELSE {n \in RouteNodes(fab, a, b) : ~IsSwitch(n)} =
                               IF {a, b} \subseteq DOMAIN fab.gpuNic
                               THEN {a, b, fab.gpuNic[a], fab.gpuNic[b]} ELSE {}
  BY DEF RoutesThroughOwnNics
<1>3. CASE SameDomain(fab, a, b)
  BY <1>3, RouteInDomain
<1>4. CASE ~SameDomain(fab, a, b) /\ DOMAIN fab.gpuNic = {}
  BY <1>4, NoRoute
<1>5. CASE ~SameDomain(fab, a, b) /\ DOMAIN fab.gpuNic = Gpus(fab)
  <2>1. RouteNodes(fab, a, b) = NodesOn(fab, w, a, b)
    BY <1>5, RouteBetweenDomains
  <2>2. SwitchesOn(fab, w, a, b) \subseteq w.leaves \cup w.spines
    BY <1>2, <1>5 DEF SwitchesOn, LeafOf
  <2> QED
    BY <1>1, <1>2, <1>5, <2>1, <2>2 DEF NodesOn
<1> QED
  BY <1>2, <1>3, <1>4, <1>5

-----------------------------------------------------------------------------
(***************************************************************************)
(* The shape of a group, and the links it uses.                            *)
(***************************************************************************)
LEMMA SumFunctionIs ==
  ASSUME NEW f
  PROVE  SumFunction(f) = SumOver(f, DOMAIN f)
BY DEF SumFunction, SumFunctionOnSet, FoldFunctionOnSet, SumOver, MapThenSumSet

With(I, h, V) == {i \in I : h[i] \in V}

(* What is counted by value is counted once. *)
LEMMA SumOfFibres ==
  ASSUME NEW I, IsFiniteSet(I), NEW h, NEW S, IsFiniteSet(S),
         NEW c, \A v \in S : c[v] = Cardinality(With(I, h, {v}))
  PROVE  SumOver(c, S) = Cardinality(With(I, h, S))
<1> DEFINE wrong(k) == \E V \in SUBSET S :
                            Cardinality(V) = k /\ SumOver(c, V) # Cardinality(With(I, h, V))
           bad == {k \in Nat : wrong(k)}
           least == Min(bad)
<1>1. \A V : IsFiniteSet(With(I, h, V)) /\ Cardinality(With(I, h, V)) \in Nat
  <2> TAKE V
  <2>1. With(I, h, V) \in SUBSET I
    BY DEF With
  <2> QED
    BY <2>1, FS_Subset, FS_CardinalityType
<1>2. \A v \in S : c[v] \in Int
  <2> TAKE v \in S
  <2>1. c[v] = Cardinality(With(I, h, {v})) /\ Cardinality(With(I, h, {v})) \in Nat
    BY <1>1
  <2> QED
    BY <2>1
<1>3. \A V \in SUBSET S : IsFiniteSet(V) /\ Cardinality(V) \in Nat
  BY FS_Subset, FS_CardinalityType
<1>4. bad = {}
  <2> SUFFICES ASSUME bad # {} PROVE FALSE
    OBVIOUS
  <2>1. least \in bad /\ \A k \in bad : least <= k
    <3>1. bad \in SUBSET Nat
      OBVIOUS
    <3> HIDE DEF bad
    <3> QED
      BY <3>1, LeastNatural
  <2> HIDE DEF least
  <2>2. PICK V \in SUBSET S : Cardinality(V) = least /\ SumOver(c, V) # Cardinality(With(I, h, V))
    BY <2>1
  <2>3. V # {}
    <3>1. With(I, h, {}) = {}
      BY DEF With
    <3> QED
      BY <2>2, <3>1, SumOverEmpty, FS_EmptySet
  <2>4. PICK v \in V : TRUE
    BY <2>3
  <2> DEFINE rest == V \ {v}
  <2>5. Cardinality(rest) = least - 1 /\ rest \in SUBSET S
    BY <1>3, <2>2, <2>4, FS_RemoveElement
  <2>6. SumOver(c, rest) = Cardinality(With(I, h, rest))
    <3>1. least - 1 \in Nat /\ least - 1 \notin bad
      BY <1>3, <2>1, <2>5
    <3> QED
      BY <2>5, <3>1
  <2>7. SumOver(c, V) = c[v] + SumOver(c, rest)
    BY <1>2, <1>3, <2>2, <2>4, SumOverRemove
  <2>8. Cardinality(With(I, h, V)) = Cardinality(With(I, h, {v})) + Cardinality(With(I, h, rest))
    <3>1. /\ With(I, h, V) = With(I, h, {v}) \cup With(I, h, rest)
          /\ With(I, h, {v}) \cap With(I, h, rest) = {}
      BY <2>4 DEF With
    <3> HIDE DEF rest
    <3>2. Cardinality(With(I, h, V)) = Cardinality(With(I, h, {v})) + Cardinality(With(I, h, rest))
                                       - Cardinality(With(I, h, {v}) \cap With(I, h, rest))
      BY <1>1, <3>1, FS_Union
    <3>3. Cardinality(With(I, h, {v}) \cap With(I, h, rest)) = 0
      BY <3>1, FS_EmptySet
    <3> QED
      BY <1>1, <3>2, <3>3
  <2> QED
    BY <2>2, <2>4, <2>6, <2>7, <2>8
<1> QED
  BY <1>3, <1>4

LEMMA ShapesCount ==
  ASSUME NEW fab, NEW k \in Nat, NEW group, DOMAIN group = 1..k, Len(group) = k
  PROVE  SumFunction(ShapeCounts(fab, group)) = Len(group)
<1> DEFINE I == DOMAIN group
           h == [i \in I |-> DomainOf(fab, group[i])]
           S == DomainsSpanned(fab, group)
           c == ShapeCounts(fab, group)
<1>0. Len(group) = k
  OBVIOUS
<1>1. IsFiniteSet(I) /\ Cardinality(I) = k
  BY FS_Interval
<1>2. h \in Surjection(I, S)
  BY DEF Surjection, DomainsSpanned, Range
<1>3. IsFiniteSet(S)
  BY <1>1, <1>2, FS_Surjection
<1>4. DOMAIN c = S
  BY DEF ShapeCounts
<1>5. \A v \in S : c[v] = Cardinality(With(I, h, {v}))
  <2> TAKE v \in S
  <2>1. c[v] = Cardinality({i \in I : DomainOf(fab, group[i]) = v})
    BY DEF ShapeCounts
  <2>2. With(I, h, {v}) = {i \in I : DomainOf(fab, group[i]) = v}
    BY DEF With
  <2> QED
    BY <2>1, <2>2
<1>6. With(I, h, S) = I
  BY <1>2 DEF With, Surjection
<1> HIDE DEF I, h, S, c
<1>7. SumOver(c, S) = Cardinality(With(I, h, S))
  BY <1>1, <1>3, <1>5, SumOfFibres
<1> QED
  BY <1>0, <1>1, <1>4, <1>6, <1>7, SumFunctionIs DEF c

ClassFor(l) ==
    IF IsGpu(l[1]) /\ IsGpu(l[2]) THEN "scale_up"
    ELSE IF IsGpu(l[1]) \/ IsGpu(l[2]) THEN "egress" ELSE "scale_out"

(* The class of a link is that of the nodes it joins. *)
Classed(links) == \A l \in DOMAIN links : links[l].class = ClassFor(l)

LEMMA LinksInDomain ==
  ASSUME NEW fab, IsFiniteSet(Endpoints(fab)), NEW w, Wired(fab, w), Classed(fab.links),
         NEW a \in Gpus(fab), NEW b \in Gpus(fab), a # b, SameDomain(fab, a, b)
  PROVE  /\ <<a, b>> \in RouteLinks(fab, a, b)
         /\ \A l \in RouteLinks(fab, a, b) : fab.links[l].class = "scale_up"
<1>1. /\ RouteNodes(fab, a, b) = {a, b}
      /\ Distances(fab, a)[a] = 0 /\ Distances(fab, a)[b] = 1
  BY RouteInDomain
<1>2. <<a, b>> \in DOMAIN fab.links
  BY DEF Wired, Attached
<1>3. IsGpu(a) /\ IsGpu(b)
  BY DEF Wired, KindsOf
<1>4. RouteLinks(fab, a, b) =
        {l \in DOMAIN fab.links : {l[1], l[2]} \subseteq {a, b}
                                  /\ Distances(fab, a)[l[2]] = Distances(fab, a)[l[1]] + 1}
  BY <1>1 DEF RouteLinks
<1>5. <<a, b>> \in RouteLinks(fab, a, b)
  BY <1>1, <1>2, <1>4
<1>6. ASSUME NEW l \in RouteLinks(fab, a, b) PROVE fab.links[l].class = "scale_up"
  <2>1. l \in DOMAIN fab.links /\ l[1] \in {a, b} /\ l[2] \in {a, b}
    BY <1>4
  <2>2. ClassFor(l) = "scale_up"
    BY <1>3, <2>1 DEF ClassFor
  <2> QED
    BY <2>1, <2>2 DEF Classed
<1> QED
  BY <1>5, <1>6

LEMMA LinksBetweenDomains ==
  ASSUME NEW fab, IsFiniteSet(Endpoints(fab)), NEW w, Wired(fab, w), Classed(fab.links),
         NEW a \in DOMAIN fab.gpuNic, NEW b \in DOMAIN fab.gpuNic, ~SameDomain(fab, a, b)
  PROVE  /\ \E l \in RouteLinks(fab, a, b) : fab.links[l].class = "egress"
         /\ \E l \in RouteLinks(fab, a, b) : fab.links[l].class = "scale_out"
<1> DEFINE na == fab.gpuNic[a]
           la == LeafOf(fab, w, a)
           from == Distances(fab, a)
<1>0. a \in Gpus(fab) /\ b \in Gpus(fab) /\ na \in DOMAIN w.up /\ w.up[na] = la /\ la \in w.leaves
  BY DEF Wired, BindingsOf, LeafOf
<1>1. RouteNodes(fab, a, b) = NodesOn(fab, w, a, b)
  BY RouteBetweenDomains
<1>2. {a, na, la} \subseteq RouteNodes(fab, a, b)
  BY <1>1 DEF NodesOn, SwitchesOn
<1>3. from = Hops(fab, w, a)
  BY <1>0, WiredDistances
<1>4. IsGpu(a) /\ ~IsGpu(na) /\ ~IsGpu(la) /\ la \notin w.spines
  BY <1>0 DEF Wired, KindsOf, IsSwitch, IsNic, IsGpu
<1>5. from[a] = 0 /\ from[na] = 1 /\ from[la] = 2
  <2>1. /\ \A n \in Gpus(fab) : from[n] = HopsToGpu(fab, w, a, n)
        /\ \A n \in DOMAIN w.up : from[n] = HopsToNic(fab, w, a, n)
        /\ \A n \in w.leaves \cup w.spines : from[n] = HopsToSwitch(fab, w, a, n)
    BY <1>3, HopsAre
  <2> HIDE DEF from
  <2>2. from[a] = 0
    BY <1>0, <2>1 DEF HopsToGpu
  <2>3. from[na] = 1
    BY <1>0, <2>1 DEF HopsToNic
  <2>4. from[la] = 2
    BY <1>0, <1>4, <2>1 DEF HopsToSwitch
  <2> QED
    BY <2>2, <2>3, <2>4
<1>6. <<a, na>> \in DOMAIN fab.links /\ <<na, la>> \in DOMAIN fab.links
  BY <1>0 DEF Wired, Attached
<1> HIDE DEF na, la, from
<1>7. <<a, na>> \in RouteLinks(fab, a, b) /\ <<na, la>> \in RouteLinks(fab, a, b)
  BY <1>2, <1>5, <1>6 DEF RouteLinks, from
<1>8. fab.links[<<a, na>>].class = "egress" /\ fab.links[<<na, la>>].class = "scale_out"
  BY <1>4, <1>6 DEF Classed, ClassFor
<1> QED
  BY <1>7, <1>8

(* ShapeIsWhatLinksShow, for any fabric that is wired this way and has NICs. *)
LEMMA WiredShapes ==
  ASSUME NEW fab, IsFiniteSet(Endpoints(fab)), NEW w, Wired(fab, w), Classed(fab.links),
         DOMAIN fab.gpuNic # {},
         NEW k \in Nat, k > 1, NEW group \in [1..k -> Gpus(fab)], IsInjective(group)
  PROVE  ShapeIsWhatLinksShow(fab, group)
<1> DEFINE I == 1..k
           shape == ShapeCounts(fab, group)
           induced == InducedLinks(fab, group)
           classes == {fab.links[l].class : l \in induced}
           domainOf(i) == DomainOf(fab, group[i])
<1>0. DOMAIN group = I /\ Len(group) = k
  OBVIOUS
<1>1. SumFunction(shape) = Len(group)
  BY <1>0, ShapesCount
<1>2. /\ DOMAIN fab.gpuNic = Gpus(fab) /\ DOMAIN fab.gpuDomain = Gpus(fab)
      /\ \A i \in I : group[i] \in Gpus(fab)
  BY DEF Wired, BindingsOf
<1>3. \A i, j \in I : SameDomain(fab, group[i], group[j]) <=> domainOf(i) = domainOf(j)
  BY <1>2 DEF SameDomain, DomainOf
<1>4. /\ \A i \in I : domainOf(i) \in DOMAIN shape
      /\ \A d \in DOMAIN shape : \E i \in I : d = domainOf(i)
  BY <1>0 DEF ShapeCounts, DomainsSpanned, Range
<1>5. /\ \A l \in induced : \E i, j \in I : i < j /\ l \in RouteLinks(fab, group[i], group[j])
      /\ \A i, j \in I : i < j => RouteLinks(fab, group[i], group[j]) \subseteq induced
  <2> DEFINE later == {p \in I \X I : p[1] < p[2]}
  <2>1. induced = UNION {RouteLinks(fab, group[p[1]], group[p[2]]) : p \in later}
    BY <1>0 DEF InducedLinks
  <2>2. \A i, j \in I : i < j => <<i, j>> \in later /\ <<i, j>>[1] = i /\ <<i, j>>[2] = j
    OBVIOUS
  <2>3. \A p \in later : p[1] \in I /\ p[2] \in I /\ p[1] < p[2]
    OBVIOUS
  <2> HIDE DEF later, induced
  <2>4. \A l \in induced : \E p \in later : l \in RouteLinks(fab, group[p[1]], group[p[2]])
    BY <2>1
  <2>5. \A p \in later : RouteLinks(fab, group[p[1]], group[p[2]]) \subseteq induced
    BY <2>1
  <2>6. ASSUME NEW i \in I, NEW j \in I, i < j
        PROVE  RouteLinks(fab, group[i], group[j]) \subseteq induced
    <3>1. RouteLinks(fab, group[<<i, j>>[1]], group[<<i, j>>[2]]) \subseteq induced
      BY <2>2, <2>5, <2>6
    <3> QED
      BY <3>1
  <2> QED
    BY <2>3, <2>4, <2>6
<1>6. \A i, j \in I : i # j => group[i] # group[j]
  BY <1>0 DEF IsInjective
<1> HIDE DEF shape, induced
<1>7. CASE Cardinality(DOMAIN shape) = 1
  <2>1. IsFiniteSet(DOMAIN shape)
    <3> DEFINE h == [i \in I |-> domainOf(i)]
    <3>1. h \in Surjection(I, DOMAIN shape)
      BY <1>4 DEF Surjection
    <3> QED
      BY <3>1, FS_Interval, FS_Surjection
  <2>2. \A i, j \in I : domainOf(i) = domainOf(j)
    <3>1. PICK d : DOMAIN shape = {d}
      BY <1>7, <2>1, FS_Singleton
    <3> QED
      BY <1>4, <3>1
  <2>3. \A i, j \in I : i < j =>
            /\ <<group[i], group[j]>> \in RouteLinks(fab, group[i], group[j])
            /\ \A l \in RouteLinks(fab, group[i], group[j]) : fab.links[l].class = "scale_up"
    <3> SUFFICES ASSUME NEW i \in I, NEW j \in I, i < j
                 PROVE  /\ <<group[i], group[j]>> \in RouteLinks(fab, group[i], group[j])
                        /\ \A l \in RouteLinks(fab, group[i], group[j]) : fab.links[l].class = "scale_up"
      OBVIOUS
    <3>1. SameDomain(fab, group[i], group[j]) /\ group[i] # group[j]
      BY <1>3, <1>6, <2>2
    <3> QED
      BY <1>2, <3>1, LinksInDomain
  <2>4. 1 \in I /\ 2 \in I /\ 1 < 2
    OBVIOUS
  <2>5. <<group[1], group[2]>> \in induced
    BY <1>5, <2>3, <2>4
  <2>6. \A l \in induced : fab.links[l].class = "scale_up"
    BY <1>5, <2>3
  <2>7. classes = {"scale_up"}
    BY <2>5, <2>6
  <2> QED
    BY <1>1, <1>7, <2>7 DEF ShapeIsWhatLinksShow, shape, induced
<1>8. CASE Cardinality(DOMAIN shape) # 1
  <2>1. ~(\A i \in I : domainOf(i) = domainOf(1))
    <3> SUFFICES ASSUME \A i \in I : domainOf(i) = domainOf(1) PROVE FALSE
      OBVIOUS
    <3>1. DOMAIN shape = {domainOf(1)}
      <4>1. \A d \in DOMAIN shape : d = domainOf(1)
        BY <1>4
      <4>2. domainOf(1) \in DOMAIN shape
        BY <1>4
      <4> QED
        BY <4>1, <4>2
    <3> QED
      BY <1>8, <3>1, FS_Singleton
  <2>2. PICK i \in I : domainOf(i) # domainOf(1)
    BY <2>1
  <2>3. 1 \in I /\ 1 < i /\ ~SameDomain(fab, group[1], group[i])
    BY <1>3, <2>2
  <2>4. /\ \E l \in RouteLinks(fab, group[1], group[i]) : fab.links[l].class = "egress"
        /\ \E l \in RouteLinks(fab, group[1], group[i]) : fab.links[l].class = "scale_out"
    BY <1>2, <2>3, LinksBetweenDomains
  <2>5. {"egress", "scale_out"} \subseteq classes
    BY <1>5, <2>3, <2>4
  <2> QED
    BY <1>1, <1>8, <2>5 DEF ShapeIsWhatLinksShow, shape, induced
<1> QED
  BY <1>7, <1>8

-----------------------------------------------------------------------------
(***************************************************************************)
(* How what is built is wired: the pairs of nodes that its parts join.     *)
(***************************************************************************)
BothWays(pairs) == pairs \cup {<<e[2], e[1]>> : e \in pairs}

MeshPairs(domains) == UNION {Meshed(domains[d]) : d \in DOMAIN domains}

EgressPairs(mids, p) == {<<g, Binding(mids, p)[g]>> : g \in DOMAIN Binding(mids, p)}

LeafPairs(leaf, mids, p) == {<<n, leaf[n[2]]>> : n \in NicsIn(mids, p)}

TierPairs(leaves, spines) == {<<n, m>> : n \in leaves, m \in spines}

BuiltPairs(mids, p, domains, leaf, leaves, spines) ==
    MeshPairs(domains) \cup EgressPairs(mids, p) \cup LeafPairs(leaf, mids, p)
    \cup TierPairs(leaves, spines)

Wiring(mids, p, leaf, leaves, spines) ==
    [up |-> [n \in NicsIn(mids, p) |-> leaf[n[2]]], leaves |-> leaves, spines |-> spines]

(* Domains that have every GPU, none twice, and keep to one leaf and to whole machines. *)
DomainsOn(mids, p, domains, leaf) ==
    /\ domains \in [DOMAIN domains -> SUBSET GpusIn(mids, p)] /\ Separate(domains)
    /\ \A m \in mids : \E d \in DOMAIN domains : GpusOf(m, p) \subseteq domains[d]
    /\ \A d \in DOMAIN domains : \A g, h \in domains[d] : leaf[g[2]] = leaf[h[2]]

Tiered(mids, leaf, leaves, spines) ==
    /\ \A n \in leaves \cup spines : IsSwitch(n)
    /\ leaves \cap spines = {}
    /\ \A m \in mids : leaf[m] \in leaves
    /\ \A x, y \in leaves : x = y \/ spines # {}

LEMMA BuiltBinding ==
  ASSUME NEW p, MachinesAreBuilt(p), NEW mids, Numbered(mids)
  PROVE  /\ DOMAIN Binding(mids, p) \in {{}, GpusIn(mids, p)}
         /\ \A g \in DOMAIN Binding(mids, p) :
                /\ Binding(mids, p)[g] \in NicsIn(mids, p)
                /\ Binding(mids, p)[g][2] = g[2]
                /\ g \in GpusIn(mids, p) /\ g[2] \in mids /\ g \in GpusOf(g[2], p)
<1>1. /\ DOMAIN Binding(mids, p) = IF p.nics = 0 THEN {} ELSE GpusIn(mids, p)
      /\ \A g \in DOMAIN Binding(mids, p) : Binding(mids, p)[g] = Nic(g[2], g[3] % p.nics)
  BY DEF Binding
<1>2. \A g \in DOMAIN Binding(mids, p) : Binding(mids, p)[g][2] = g[2]
  BY <1>1 DEF Nic
<1>3. \A g \in DOMAIN Binding(mids, p) : g \in GpusIn(mids, p) /\ Binding(mids, p)[g] \in NicsIn(mids, p)
  BY BoundGpus
<1> QED
  BY <1>1, <1>2, <1>3, BuiltNodesAre

LEMMA InventoryDomains ==
  ASSUME NEW p, NEW mids, NEW domains, NEW binding, NEW links,
         domains \in [DOMAIN domains -> SUBSET GpusIn(mids, p)], Separate(domains),
         \A m \in mids : \E d \in DOMAIN domains : GpusOf(m, p) \subseteq domains[d],
         NEW fab, fab = Inventory(mids, p, domains, binding, links)
  PROVE  /\ Gpus(fab) = GpusIn(mids, p) /\ DOMAIN fab.gpuDomain = GpusIn(mids, p)
         /\ fab.gpuNic = binding /\ fab.links = links
         /\ \A g, h : SameDomain(fab, g, h) <=> \E d \in DOMAIN domains : {g, h} \subseteq domains[d]
<1> DEFINE machines == [m \in mids |-> [gpus |-> GpusOf(m, p), nics |-> NicsOf(m, p)]]
           all == UNION Range(domains)
           gpuDomain == [g \in all |-> CHOOSE d \in DOMAIN domains : g \in domains[d]]
<1>1. fab = [machines |-> machines, domains |-> domains, gpuDomain |-> gpuDomain,
             gpuNic |-> binding, links |-> links]
  BY DEF Inventory
<1>2. /\ fab.machines = machines /\ fab.gpuDomain = gpuDomain
      /\ fab.gpuNic = binding /\ fab.links = links
  BY <1>1
<1>3. Gpus(fab) = GpusIn(mids, p)
  <2>1. DOMAIN machines = mids /\ \A m \in mids : machines[m].gpus = GpusOf(m, p)
    OBVIOUS
  <2> QED
    BY <1>2, <2>1 DEF Gpus, GpusIn
<1>4. \A g : g \in all <=> \E d \in DOMAIN domains : g \in domains[d]
  BY DEF Range
<1>5. all = GpusIn(mids, p)
  <2>1. \A g \in GpusIn(mids, p) : \E d \in DOMAIN domains : g \in domains[d]
    BY DEF GpusIn
  <2>2. \A d \in DOMAIN domains : domains[d] \subseteq GpusIn(mids, p)
    OBVIOUS
  <2> QED
    BY <1>4, <2>1, <2>2
<1>6. \A g \in all : gpuDomain[g] \in DOMAIN domains /\ g \in domains[gpuDomain[g]]
  BY <1>4
<1>7. \A g \in all : \A d \in DOMAIN domains : g \in domains[d] => gpuDomain[g] = d
  BY <1>6 DEF Separate
<1>8. DOMAIN gpuDomain = all
  OBVIOUS
<1> HIDE DEF machines, all, gpuDomain
<1>9. ASSUME NEW g, NEW h, SameDomain(fab, g, h)
      PROVE  \E d \in DOMAIN domains : {g, h} \subseteq domains[d]
  BY <1>2, <1>6, <1>8, <1>9 DEF SameDomain
<1>10. ASSUME NEW g, NEW h, NEW d \in DOMAIN domains, {g, h} \subseteq domains[d]
       PROVE  SameDomain(fab, g, h)
  <2>1. g \in all /\ h \in all
    BY <1>4, <1>10
  <2> QED
    BY <1>2, <1>7, <1>8, <1>10, <2>1 DEF SameDomain
<1> QED
  BY <1>2, <1>3, <1>5, <1>8, <1>9, <1>10

LEMMA InventoryWired ==
  ASSUME NEW p, MachinesAreBuilt(p), NEW mids, Numbered(mids),
         NEW domains, NEW leaf, DomainsOn(mids, p, domains, leaf),
         NEW leaves, NEW spines, Tiered(mids, leaf, leaves, spines),
         NEW links, DOMAIN links = BothWays(BuiltPairs(mids, p, domains, leaf, leaves, spines)),
         NEW fab, fab = Inventory(mids, p, domains, Binding(mids, p), links)
  PROVE  Wired(fab, Wiring(mids, p, leaf, leaves, spines))
<1> DEFINE w == Wiring(mids, p, leaf, leaves, spines)
           binding == Binding(mids, p)
           built == BuiltPairs(mids, p, domains, leaf, leaves, spines)
           G == GpusIn(mids, p)
           N == NicsIn(mids, p)
<1>1. /\ Gpus(fab) = G /\ DOMAIN fab.gpuDomain = G
      /\ fab.gpuNic = binding /\ fab.links = links
      /\ \A g, h : SameDomain(fab, g, h) <=> \E d \in DOMAIN domains : {g, h} \subseteq domains[d]
  BY InventoryDomains DEF DomainsOn
<1>2. /\ w.leaves = leaves /\ w.spines = spines /\ DOMAIN w.up = N
      /\ \A n \in N : w.up[n] = leaf[n[2]]
  BY DEF Wiring
<1>3. /\ \A g \in G : IsGpu(g) /\ g[2] \in mids /\ g \in GpusOf(g[2], p)
      /\ \A n \in N : IsNic(n) /\ n[2] \in mids
  BY BuiltNodesAre
<1>4. /\ DOMAIN binding \in {{}, G}
      /\ \A g \in DOMAIN binding : binding[g] \in N /\ binding[g][2] = g[2] /\ g \in G
  BY BuiltBinding
<1> HIDE DEF w, binding, G, N
<1>5. KindsOf(fab, w)
  BY <1>1, <1>2, <1>3 DEF KindsOf, Tiered
<1>6. BindingsOf(fab, w)
  <2>1. \A g \in DOMAIN binding : binding[g] \in N /\ LeafOf(fab, w, g) = leaf[g[2]]
    BY <1>1, <1>2, <1>4 DEF LeafOf
  <2>2. \A n \in N : w.up[n] \in leaves
    BY <1>2, <1>3 DEF Tiered
  <2>3. ASSUME NEW g \in DOMAIN binding, NEW h \in DOMAIN binding, binding[g] = binding[h]
        PROVE  SameDomain(fab, g, h)
    <3>1. g[2] = h[2] /\ g[2] \in mids /\ g \in GpusOf(g[2], p) /\ h \in GpusOf(g[2], p)
      BY <1>3, <1>4, <2>3
    <3> QED
      BY <1>1, <3>1 DEF DomainsOn
  <2>4. ASSUME NEW g \in DOMAIN binding, NEW h \in DOMAIN binding, SameDomain(fab, g, h)
        PROVE  LeafOf(fab, w, g) = LeafOf(fab, w, h)
    <3>1. leaf[g[2]] = leaf[h[2]]
      BY <1>1, <2>4 DEF DomainsOn
    <3> QED
      BY <2>1, <3>1
  <2> QED
    BY <1>1, <1>2, <1>4, <2>1, <2>2, <2>3, <2>4 DEF BindingsOf, Tiered
<1>7. \A n, m : <<n, m>> \in built <=> Attached(fab, w, n, m)
  <2> TAKE n, m
  <2>1. <<n, m>> \in MeshPairs(domains) <=> n # m /\ SameDomain(fab, n, m)
    <3>1. \A d \in DOMAIN domains : <<n, m>> \in Meshed(domains[d]) <=> n # m /\ {n, m} \subseteq domains[d]
      BY DEF Meshed
    <3> QED
      BY <1>1, <3>1 DEF MeshPairs
  <2>2. <<n, m>> \in EgressPairs(mids, p) <=> n \in DOMAIN fab.gpuNic /\ m = fab.gpuNic[n]
    BY <1>1 DEF EgressPairs, binding
  <2>3. <<n, m>> \in LeafPairs(leaf, mids, p) <=> n \in DOMAIN w.up /\ m = w.up[n]
    BY <1>2 DEF LeafPairs, N
  <2>4. <<n, m>> \in TierPairs(leaves, spines) <=> n \in w.leaves /\ m \in w.spines
    BY <1>2 DEF TierPairs
  <2> QED
    BY <2>1, <2>2, <2>3, <2>4 DEF BuiltPairs, Attached
<1>8. \A e \in built : e = <<e[1], e[2]>>
  <2>1. \A e \in MeshPairs(domains) : e = <<e[1], e[2]>>
    BY DEF MeshPairs, Meshed
  <2>2. \A e \in EgressPairs(mids, p) : e = <<e[1], e[2]>>
    BY DEF EgressPairs
  <2>3. \A e \in LeafPairs(leaf, mids, p) : e = <<e[1], e[2]>>
    BY DEF LeafPairs
  <2>4. \A e \in TierPairs(leaves, spines) : e = <<e[1], e[2]>>
    BY DEF TierPairs
  <2> QED
    BY <2>1, <2>2, <2>3, <2>4 DEF BuiltPairs
<1>9. DOMAIN fab.links = BothWays(built)
  BY <1>1
<1> HIDE DEF built
<1>10. \A l \in DOMAIN fab.links : Attached(fab, w, l[1], l[2]) \/ Attached(fab, w, l[2], l[1])
  <2> TAKE l \in DOMAIN fab.links
  <2>1. CASE l \in built
    BY <1>7, <1>8, <2>1
  <2>2. CASE \E e \in built : l = <<e[2], e[1]>>
    <3>1. PICK e \in built : l = <<e[2], e[1]>>
      BY <2>2
    <3>2. Attached(fab, w, e[1], e[2]) /\ l[1] = e[2] /\ l[2] = e[1]
      BY <1>7, <1>8, <3>1
    <3> QED
      BY <3>2
  <2> QED
    BY <1>9, <2>1, <2>2 DEF BothWays
<1>11. \A n, m : Attached(fab, w, n, m) => {<<n, m>>, <<m, n>>} \subseteq DOMAIN fab.links
  <2> SUFFICES ASSUME NEW n, NEW m, <<n, m>> \in built PROVE {<<n, m>>, <<m, n>>} \subseteq DOMAIN fab.links
    BY <1>7
  <2>1. <<m, n>> = <<<<n, m>>[2], <<n, m>>[1]>>
    OBVIOUS
  <2> QED
    BY <1>9, <2>1 DEF BothWays
<1> QED
  BY <1>5, <1>6, <1>10, <1>11 DEF Wired, w

-----------------------------------------------------------------------------
(***************************************************************************)
(* The parts that links are built in, by class.                            *)
(***************************************************************************)
LEMMA ClassedPart ==
  ASSUME NEW pairs, NEW class, NEW speed, \A e \in pairs : ClassFor(e) = class
  PROVE  /\ DOMAIN TwoWay(pairs, class, speed) = BothWays(pairs)
         /\ Classed(TwoWay(pairs, class, speed))
<1> DEFINE part == TwoWay(pairs, class, speed)
<1>1. /\ DOMAIN part = pairs \cup {<<e[2], e[1]>> : e \in pairs}
      /\ \A l \in DOMAIN part : part[l].class = class
  BY DEF TwoWay
<1>2. \A e \in pairs : ClassFor(<<e[2], e[1]>>) = ClassFor(e)
  BY DEF ClassFor
<1> HIDE DEF part
<1> QED
  BY <1>1, <1>2 DEF Classed, BothWays, part

LEMMA ClassedAdded ==
  ASSUME NEW f, Classed(f), NEW g, Classed(g)
  PROVE  Classed(Added(f, g)) /\ DOMAIN Added(f, g) = DOMAIN f \cup DOMAIN g
BY DEF Classed, Added

LEMMA BuiltClasses ==
  ASSUME NEW p, MachinesAreBuilt(p), NEW mids, Numbered(mids),
         NEW domains, NEW leaf, DomainsOn(mids, p, domains, leaf),
         NEW leaves, NEW spines, Tiered(mids, leaf, leaves, spines)
  PROVE  /\ \A e \in MeshPairs(domains) : ClassFor(e) = "scale_up"
         /\ \A e \in EgressPairs(mids, p) : ClassFor(e) = "egress"
         /\ \A e \in LeafPairs(leaf, mids, p) : ClassFor(e) = "scale_out"
         /\ \A e \in TierPairs(leaves, spines) : ClassFor(e) = "scale_out"
<1>1. /\ \A g \in GpusIn(mids, p) : IsGpu(g)
      /\ \A n \in NicsIn(mids, p) : ~IsGpu(n) /\ n[2] \in mids
      /\ \A n \in leaves \cup spines : ~IsGpu(n)
  BY BuiltNodesAre DEF Tiered, IsSwitch, IsNic, IsGpu
<1>2. \A e \in MeshPairs(domains) : e[1] \in GpusIn(mids, p) /\ e[2] \in GpusIn(mids, p)
  BY DEF MeshPairs, Meshed, DomainsOn
<1>3. \A e \in EgressPairs(mids, p) : e[1] \in GpusIn(mids, p) /\ e[2] \in NicsIn(mids, p)
  BY BuiltBinding DEF EgressPairs
<1>4. \A e \in LeafPairs(leaf, mids, p) : e[1] \in NicsIn(mids, p) /\ e[2] \in leaves
  BY <1>1 DEF LeafPairs, Tiered
<1>5. \A e \in TierPairs(leaves, spines) : e[1] \in leaves /\ e[2] \in spines
  BY DEF TierPairs
<1> QED
  BY <1>1, <1>2, <1>3, <1>4, <1>5 DEF ClassFor

LEMMA JoinedBothWays ==
  ASSUME NEW A, NEW B
  PROVE  BothWays(A \cup B) = BothWays(A) \cup BothWays(B)
BY DEF BothWays

LEMMA PartsBothWays ==
  ASSUME NEW A, NEW B, NEW C, NEW D
  PROVE  BothWays(A \cup B \cup C \cup D) = BothWays(A) \cup BothWays(B) \cup BothWays(C) \cup BothWays(D)
<1>1. BothWays(A \cup B \cup C \cup D) = BothWays(A \cup B \cup C) \cup BothWays(D)
  BY JoinedBothWays
<1>2. BothWays(A \cup B \cup C) = BothWays(A \cup B) \cup BothWays(C)
  BY JoinedBothWays
<1>3. BothWays(A \cup B) = BothWays(A) \cup BothWays(B)
  BY JoinedBothWays
<1> QED
  BY <1>1, <1>2, <1>3

LEMMA MachineDomainsOn ==
  ASSUME NEW p, MachinesAreBuilt(p), NEW mids, Numbered(mids), NEW leaf,
         NEW domains, domains = [m \in mids |-> GpusOf(m, p)]
  PROVE  DomainsOn(mids, p, domains, leaf) /\ MeshPairs(domains) = Mesh(mids, p)
<1>1. domains \in [DOMAIN domains -> SUBSET GpusIn(mids, p)] /\ Separate(domains)
  BY MachineDomains
<1>2. DOMAIN domains = mids /\ \A m \in mids : domains[m] = GpusOf(m, p)
  OBVIOUS
<1>3. \A m \in mids : \A g \in GpusOf(m, p) : g[2] = m
  BY BuiltMachine DEF Numbered
<1> QED
  BY <1>1, <1>2, <1>3 DEF DomainsOn, MeshPairs, Mesh

(* The links of build_node_scale and build_rack_scale, and those of a blueprint's machines. *)
LEMMA InnerLinks ==
  ASSUME NEW p, MachinesAreBuilt(p), NEW mids, Numbered(mids),
         NEW domains, NEW leaf, DomainsOn(mids, p, domains, leaf),
         NEW leaves, NEW spines, Tiered(mids, leaf, leaves, spines),
         NEW egress, egress = EgressLinks(Binding(mids, p)),
         NEW meshed, meshed = TwoWay(MeshPairs(domains), "scale_up", ScaleUp),
         NEW toLeaf, toLeaf = ToLeaf(leaf, mids, p)
  PROVE  /\ DOMAIN egress = BothWays(EgressPairs(mids, p)) /\ Classed(egress)
         /\ DOMAIN meshed = BothWays(MeshPairs(domains)) /\ Classed(meshed)
         /\ DOMAIN toLeaf = BothWays(LeafPairs(leaf, mids, p)) /\ Classed(toLeaf)
<1>1. /\ \A e \in MeshPairs(domains) : ClassFor(e) = "scale_up"
      /\ \A e \in EgressPairs(mids, p) : ClassFor(e) = "egress"
      /\ \A e \in LeafPairs(leaf, mids, p) : ClassFor(e) = "scale_out"
  BY BuiltClasses
<1>2. egress = TwoWay(EgressPairs(mids, p), "egress", Egress)
  BY DEF EgressLinks, EgressPairs
<1>3. toLeaf = TwoWay(LeafPairs(leaf, mids, p), "scale_out", ScaleOut)
  BY DEF ToLeaf, LeafPairs
<1> QED
  BY <1>1, <1>2, <1>3, ClassedPart

LEMMA WiredLinksAre ==
  ASSUME NEW p, MachinesAreBuilt(p), NEW mids, Numbered(mids),
         NEW leaf, NEW leaves, NEW spines, Tiered(mids, leaf, leaves, spines),
         NEW domains, domains = [m \in mids |-> GpusOf(m, p)]
  PROVE  /\ DomainsOn(mids, p, domains, leaf)
         /\ Classed(WiredLinks(leaf, mids, p))
         /\ DOMAIN WiredLinks(leaf, mids, p) =
                BothWays(MeshPairs(domains) \cup EgressPairs(mids, p) \cup LeafPairs(leaf, mids, p))
<1> DEFINE egress == EgressLinks(Binding(mids, p))
           meshed == TwoWay(MeshPairs(domains), "scale_up", ScaleUp)
           toLeaf == ToLeaf(leaf, mids, p)
<1>1. DomainsOn(mids, p, domains, leaf) /\ MeshPairs(domains) = Mesh(mids, p)
  BY MachineDomainsOn
<1>2. /\ DOMAIN egress = BothWays(EgressPairs(mids, p)) /\ Classed(egress)
      /\ DOMAIN meshed = BothWays(MeshPairs(domains)) /\ Classed(meshed)
      /\ DOMAIN toLeaf = BothWays(LeafPairs(leaf, mids, p)) /\ Classed(toLeaf)
  BY <1>1, InnerLinks
<1>3. meshed = TwoWay(Peers(mids, p), "scale_up", ScaleUp)
  BY <1>1, PeersMesh
<1>4. WiredLinks(leaf, mids, p) = Added(Added(meshed, egress), toLeaf)
  BY <1>3 DEF WiredLinks
<1> HIDE DEF egress, meshed, toLeaf
<1>5. /\ Classed(Added(meshed, egress))
      /\ DOMAIN Added(meshed, egress) = BothWays(MeshPairs(domains)) \cup BothWays(EgressPairs(mids, p))
  BY <1>2, ClassedAdded
<1>6. /\ Classed(Added(Added(meshed, egress), toLeaf))
      /\ DOMAIN Added(Added(meshed, egress), toLeaf) =
            BothWays(MeshPairs(domains)) \cup BothWays(EgressPairs(mids, p))
            \cup BothWays(LeafPairs(leaf, mids, p))
  BY <1>2, <1>5, ClassedAdded
<1>7. BothWays(MeshPairs(domains) \cup EgressPairs(mids, p) \cup LeafPairs(leaf, mids, p)) =
            BothWays(MeshPairs(domains)) \cup BothWays(EgressPairs(mids, p))
            \cup BothWays(LeafPairs(leaf, mids, p))
  <2>1. BothWays(MeshPairs(domains) \cup EgressPairs(mids, p) \cup LeafPairs(leaf, mids, p)) =
            BothWays(MeshPairs(domains) \cup EgressPairs(mids, p)) \cup BothWays(LeafPairs(leaf, mids, p))
    BY JoinedBothWays
  <2>2. BothWays(MeshPairs(domains) \cup EgressPairs(mids, p)) =
            BothWays(MeshPairs(domains)) \cup BothWays(EgressPairs(mids, p))
    BY JoinedBothWays
  <2> QED
    BY <2>1, <2>2
<1> QED
  BY <1>1, <1>4, <1>6, <1>7

Routable(fab, w) == Wired(fab, w) /\ Classed(fab.links)

LEMMA SingleTierRoutable ==
  ASSUME NEW p, MachinesAreBuilt(p), p.machines \in Nat
  PROVE  \E w : Routable(SingleTier(p), w)
<1> DEFINE mids == 0..(p.machines - 1)
           leaf == [m \in mids |-> Switch("leaf", 0)]
           leaves == {Switch("leaf", 0)}
           spines == {}
           domains == [m \in mids |-> GpusOf(m, p)]
           links == WiredLinks(leaf, mids, p)
           fab == SingleTier(p)
<1>1. fab = WiredMachines(leaf, p)
  BY DEF SingleTier
<1>2. Numbered(mids) /\ mids = DOMAIN leaf
  BY IntervalNumbered
<1>3. Tiered(mids, leaf, leaves, spines)
  BY DEF Tiered, IsSwitch, IsGpu, IsNic, Switch
<1> HIDE DEF mids, leaf, leaves, fab
<1>4. fab = Inventory(mids, p, domains, Binding(mids, p), links)
  BY <1>1, <1>2, WiredIs
<1>5. /\ DomainsOn(mids, p, domains, leaf) /\ Classed(links)
      /\ DOMAIN links = BothWays(MeshPairs(domains) \cup EgressPairs(mids, p) \cup LeafPairs(leaf, mids, p))
  BY <1>2, <1>3, WiredLinksAre
<1>6. DOMAIN links = BothWays(BuiltPairs(mids, p, domains, leaf, leaves, spines))
  BY <1>5 DEF BuiltPairs, TierPairs
<1> HIDE DEF domains, links, spines
<1>7. Wired(fab, Wiring(mids, p, leaf, leaves, spines))
  BY <1>2, <1>3, <1>4, <1>5, <1>6, InventoryWired
<1>8. fab.links = links
  BY <1>4 DEF Inventory
<1> QED
  BY <1>5, <1>7, <1>8 DEF Routable, fab

LEMMA RackScaleRoutable ==
  ASSUME NEW p, MachinesAreBuilt(p), p.racks \in Nat, p.trays \in Nat
  PROVE  \E w : Routable(RackScale(p), w)
<1> DEFINE mids == 0..(p.racks * p.trays - 1)
           racks == 0..(p.racks - 1)
           mine(r) == {m \in mids : m \div p.trays = r}
           domains == [r \in racks |-> GpusIn(mine(r), p)]
           leaf == [m \in mids |-> Switch("leaf", m \div p.trays)]
           leaves == {Switch("leaf", r) : r \in racks}
           spines == IF p.racks > 1 THEN {Switch("spine", 0)} ELSE {}
           toLeaf == TwoWay({<<n, Switch("leaf", n[2] \div p.trays)>> : n \in NicsIn(mids, p)},
                            "scale_out", ScaleOut)
           pairs == IF p.racks > 1 THEN {<<Switch("leaf", r), Switch("spine", 0)>> : r \in racks}
                    ELSE {}
           faster == [ScaleOut EXCEPT !.bw = 4 * @]
           toSpine == TwoWay(pairs, "scale_out", faster)
           egress == EgressLinks(Binding(mids, p))
           meshed == TwoWay(MeshPairs(domains), "scale_up", ScaleUp)
           links == Added(Added(egress, meshed), Added(toLeaf, toSpine))
           fab == RackScale(p)
<1>1. fab = Inventory(mids, p, domains, Binding(mids, p), links)
  BY DEF RackScale, Assembled, MeshPairs
<1>2. Numbered(mids) /\ Numbered(racks)
  BY IntervalNumbered
<1>3. \A m \in mids : m \div p.trays \in racks
  <2> TAKE m \in mids
  <2>1. QuotientBelow(m, p.racks, p.trays)
    BY QuotientIsBelow
  <2> QED
    BY <2>1 DEF QuotientBelow
<1>4. p.racks > 1 \/ \A q, r \in racks : q = r
  OBVIOUS
<1> HIDE DEF mids, racks
<1>5. Tiered(mids, leaf, leaves, spines)
  <2>1. \A n \in leaves \cup spines : IsSwitch(n)
    BY DEF IsSwitch, IsGpu, IsNic, Switch
  <2>2. leaves \cap spines = {}
    BY DEF Switch
  <2>3. \A m \in mids : leaf[m] \in leaves
    BY <1>3
  <2>4. \A x, y \in leaves : x = y \/ spines # {}
    BY <1>4
  <2> QED
    BY <2>1, <2>2, <2>3, <2>4 DEF Tiered
<1>6. DomainsOn(mids, p, domains, leaf)
  <2>1. DOMAIN domains = racks /\ \A r \in racks : domains[r] = GpusIn(mine(r), p)
    OBVIOUS
  <2>2. \A m \in mids : \A g \in GpusOf(m, p) : g[2] = m
    BY <1>2, BuiltMachine DEF Numbered
  <2>3. \A r \in racks : \A g \in GpusIn(mine(r), p) : g[2] \in mids /\ g[2] \div p.trays = r
    BY <2>2 DEF GpusIn
  <2>4. \A m \in mids : GpusOf(m, p) \subseteq GpusIn(mine(m \div p.trays), p)
    BY DEF GpusIn
  <2>5. \A r \in racks : GpusIn(mine(r), p) \subseteq GpusIn(mids, p)
    BY DEF GpusIn
  <2>6. \A m \in mids : leaf[m] = Switch("leaf", m \div p.trays)
    OBVIOUS
  <2>7. domains = [r \in DOMAIN domains |-> domains[r]]
    OBVIOUS
  <2> HIDE DEF mine, leaf, domains
  <2>8. domains \in [DOMAIN domains -> SUBSET GpusIn(mids, p)]
    BY <2>1, <2>5, <2>7
  <2>9. Separate(domains)
    BY <2>1, <2>3 DEF Separate
  <2>10. \A m \in mids : \E d \in DOMAIN domains : GpusOf(m, p) \subseteq domains[d]
    BY <1>3, <2>1, <2>4
  <2>11. \A d \in DOMAIN domains : \A g, h \in domains[d] : leaf[g[2]] = leaf[h[2]]
    BY <2>1, <2>3, <2>6
  <2> QED
    BY <2>8, <2>9, <2>10, <2>11 DEF DomainsOn
<1>7. toLeaf = ToLeaf(leaf, mids, p)
  <2>1. \A n \in NicsIn(mids, p) : leaf[n[2]] = Switch("leaf", n[2] \div p.trays)
    BY <1>2, BuiltNodesAre
  <2>2. {<<n, leaf[n[2]]>> : n \in NicsIn(mids, p)}
            = {<<n, Switch("leaf", n[2] \div p.trays)>> : n \in NicsIn(mids, p)}
    BY <2>1
  <2> QED
    BY <2>2 DEF ToLeaf
<1>8. pairs = TierPairs(leaves, spines)
  BY DEF TierPairs
<1> HIDE DEF domains, leaf, leaves, spines, pairs, toLeaf, faster, egress, meshed
<1>9. /\ DOMAIN egress = BothWays(EgressPairs(mids, p)) /\ Classed(egress)
      /\ DOMAIN meshed = BothWays(MeshPairs(domains)) /\ Classed(meshed)
      /\ DOMAIN toLeaf = BothWays(LeafPairs(leaf, mids, p)) /\ Classed(toLeaf)
  BY <1>2, <1>5, <1>6, <1>7, InnerLinks DEF egress, meshed
<1>10. DOMAIN toSpine = BothWays(TierPairs(leaves, spines)) /\ Classed(toSpine)
  BY <1>2, <1>5, <1>6, <1>8, BuiltClasses, ClassedPart
<1> HIDE DEF toSpine
<1> DEFINE inner == Added(egress, meshed)
           outer == Added(toLeaf, toSpine)
<1>11. /\ Classed(inner)
       /\ DOMAIN inner = BothWays(EgressPairs(mids, p)) \cup BothWays(MeshPairs(domains))
  BY <1>9, ClassedAdded
<1>12. /\ Classed(outer)
       /\ DOMAIN outer = BothWays(LeafPairs(leaf, mids, p)) \cup BothWays(TierPairs(leaves, spines))
  BY <1>9, <1>10, ClassedAdded
<1>13. links = Added(inner, outer)
  OBVIOUS
<1> HIDE DEF inner, outer, links, fab
<1>14. Classed(links) /\ DOMAIN links = DOMAIN inner \cup DOMAIN outer
  BY <1>11, <1>12, <1>13, ClassedAdded
<1>15. DOMAIN links = BothWays(BuiltPairs(mids, p, domains, leaf, leaves, spines))
  <2>1. BothWays(BuiltPairs(mids, p, domains, leaf, leaves, spines)) =
            BothWays(MeshPairs(domains)) \cup BothWays(EgressPairs(mids, p))
            \cup BothWays(LeafPairs(leaf, mids, p)) \cup BothWays(TierPairs(leaves, spines))
    BY PartsBothWays DEF BuiltPairs
  <2> QED
    BY <1>11, <1>12, <1>14, <2>1
<1>16. Wired(fab, Wiring(mids, p, leaf, leaves, spines))
  BY <1>1, <1>2, <1>5, <1>6, <1>15, InventoryWired
<1>17. fab.links = links
  BY <1>1 DEF Inventory
<1> QED
  BY <1>14, <1>16, <1>17 DEF Routable, fab

(***************************************************************************)
(* The machines, the leaves and the spines of a leaf-spine fabric.         *)
(***************************************************************************)
HalfOf(p) == p.radix \div 2

HostIds(p) == 0..(p.radix * HalfOf(p) - 1)

LeafFor(p) == [m \in HostIds(p) |-> Switch("leaf", m \div HalfOf(p))]

LeavesOf(p) == {Switch("leaf", i) : i \in 0..(p.radix - 1)}

SpinesOf(p) == {Switch("spine", j) : j \in 0..(HalfOf(p) - 1)}

WiringOf(p) == Wiring(HostIds(p), p, LeafFor(p), LeavesOf(p), SpinesOf(p))

UplinksOf(p) ==
    TwoWay(TierPairs(LeavesOf(p), SpinesOf(p)), "scale_out", [ScaleOut EXCEPT !.bw = UplinkGBps(p)])

LinksBuilt(p) == Added(WiredLinks(LeafFor(p), HostIds(p), p), UplinksOf(p))

LEMMA LeafSpineIs ==
  ASSUME NEW p, MachinesAreBuilt(p), p.radix \in Nat, p.radix % 2 = 0
  PROVE  /\ Numbered(HostIds(p)) /\ Tiered(HostIds(p), LeafFor(p), LeavesOf(p), SpinesOf(p))
         /\ LeafSpine(p) = Inventory(HostIds(p), p, [m \in HostIds(p) |-> GpusOf(m, p)],
                                     Binding(HostIds(p), p), LinksBuilt(p))
         /\ HalfOf(p) \in Nat /\ p.radix = 2 * HalfOf(p)
         /\ \A m \in HostIds(p) : m \div HalfOf(p) \in 0..(p.radix - 1)
<1> DEFINE half == HalfOf(p)
           mids == HostIds(p)
           leaf == LeafFor(p)
           domains == [m \in mids |-> GpusOf(m, p)]
           hosts == WiredMachines(leaf, p)
           wired == WiredLinks(leaf, mids, p)
           pairs == {<<Switch("leaf", i), Switch("spine", j)>> : i \in 0..(p.radix - 1), j \in 0..(half - 1)}
           toSpine == TwoWay(pairs, "scale_out", [ScaleOut EXCEPT !.bw = UplinkGBps(p)])
<1>1. half \in Nat /\ p.radix = 2 * half
  BY DivMod DEF HalfOf
<1>2. LeafSpine(p) = [hosts EXCEPT !.links = Added(hosts.links, toSpine)]
  BY DEF LeafSpine, LeafFor, HostIds, HalfOf
<1>3. Numbered(mids) /\ mids = DOMAIN leaf
  BY <1>1, IntervalNumbered DEF HostIds, LeafFor
<1>4. \A m \in mids : m \div half \in 0..(p.radix - 1)
  <2> TAKE m \in mids
  <2>1. QuotientBelow(m, p.radix, half)
    BY <1>1, QuotientIsBelow DEF HostIds
  <2> QED
    BY <2>1 DEF QuotientBelow
<1> HIDE DEF half, mids, leaf
<1>5. pairs = TierPairs(LeavesOf(p), SpinesOf(p))
  BY DEF TierPairs, LeavesOf, SpinesOf, half
<1>6. Tiered(mids, leaf, LeavesOf(p), SpinesOf(p))
  <2>1. \A n \in LeavesOf(p) \cup SpinesOf(p) : IsSwitch(n)
    BY DEF IsSwitch, IsGpu, IsNic, Switch, LeavesOf, SpinesOf
  <2>2. LeavesOf(p) \cap SpinesOf(p) = {}
    BY DEF Switch, LeavesOf, SpinesOf
  <2>3. \A m \in mids : leaf[m] \in LeavesOf(p)
    BY <1>4 DEF LeafFor, LeavesOf, leaf, mids, half
  <2>4. \A x, y \in LeavesOf(p) : x = y \/ SpinesOf(p) # {}
    <3>1. half = 0 \/ 0 \in 0..(half - 1)
      BY <1>1
    <3>2. half = 0 => LeavesOf(p) = {}
      BY <1>1 DEF LeavesOf
    <3> QED
      BY <3>1, <3>2 DEF SpinesOf, half
  <2> QED
    BY <2>1, <2>2, <2>3, <2>4 DEF Tiered
<1>7. hosts = Inventory(mids, p, domains, Binding(mids, p), wired)
  BY <1>3, WiredIs
<1>8. LeafSpine(p) = Inventory(mids, p, domains, Binding(mids, p), Added(wired, toSpine))
  <2> HIDE DEF wired, toSpine, hosts, domains
  <2> QED
    BY <1>2, <1>7, InventoryWithLinks
<1>9. Added(wired, toSpine) = LinksBuilt(p)
  BY <1>5 DEF LinksBuilt, UplinksOf, leaf, mids
<1> QED
  BY <1>1, <1>3, <1>4, <1>6, <1>8, <1>9 DEF half, mids, leaf

LEMMA LeafSpineRoutable ==
  ASSUME NEW p, MachinesAreBuilt(p), p.radix \in Nat, p.radix % 2 = 0
  PROVE  /\ Routable(LeafSpine(p), WiringOf(p))
         /\ LeafSpine(p).links = LinksBuilt(p)
         /\ LeafSpine(p).gpuNic = Binding(HostIds(p), p)
<1> DEFINE mids == HostIds(p)
           leaf == LeafFor(p)
           leaves == LeavesOf(p)
           spines == SpinesOf(p)
           domains == [m \in mids |-> GpusOf(m, p)]
           wired == WiredLinks(leaf, mids, p)
           toSpine == UplinksOf(p)
           links == LinksBuilt(p)
           fab == LeafSpine(p)
<1>1. /\ Numbered(mids) /\ Tiered(mids, leaf, leaves, spines)
      /\ fab = Inventory(mids, p, domains, Binding(mids, p), links)
  BY LeafSpineIs
<1>2. links = Added(wired, toSpine)
  BY DEF LinksBuilt
<1> HIDE DEF mids, leaf, leaves, spines, links, fab
<1>3. /\ DomainsOn(mids, p, domains, leaf) /\ Classed(wired)
      /\ DOMAIN wired = BothWays(MeshPairs(domains) \cup EgressPairs(mids, p) \cup LeafPairs(leaf, mids, p))
  BY <1>1, WiredLinksAre
<1>4. DOMAIN toSpine = BothWays(TierPairs(leaves, spines)) /\ Classed(toSpine)
  BY <1>1, <1>3, BuiltClasses, ClassedPart DEF UplinksOf, leaves, spines
<1> HIDE DEF domains, wired, toSpine
<1>5. Classed(links) /\ DOMAIN links = DOMAIN wired \cup DOMAIN toSpine
  BY <1>2, <1>3, <1>4, ClassedAdded
<1>6. DOMAIN links = BothWays(BuiltPairs(mids, p, domains, leaf, leaves, spines))
  BY <1>3, <1>4, <1>5, JoinedBothWays DEF BuiltPairs
<1>7. Wired(fab, Wiring(mids, p, leaf, leaves, spines))
  BY <1>1, <1>3, <1>6, InventoryWired
<1>8. fab.links = links /\ fab.gpuNic = Binding(mids, p)
  BY <1>1 DEF Inventory
<1> QED
  BY <1>5, <1>7, <1>8 DEF Routable, WiringOf, fab, links, mids, leaf, leaves, spines

LEMMA BuiltRoutable ==
  ASSUME NEW p \in Plans, ~BuildRaises(p)
  PROVE  \E w : Routable(FabricOf(p), w)
<1>1. /\ p.platform \in {"node", "rack", "single", "clos"}
      /\ MachinesAreBuilt(p)
      /\ p.platform \in {"node", "single"} => p.machines \in Nat
      /\ p.platform = "rack" => p.racks \in Nat /\ p.trays \in Nat
      /\ p.platform = "clos" => p.radix \in Nat /\ p.depth \in Nat
  BY PlansType
<1>2. CASE p.platform = "node"
  <2>1. FabricOf(p) = SingleTier(p)
    BY <1>1, <1>2, SameShape DEF FabricOf
  <2> QED
    BY <1>1, <1>2, <2>1, SingleTierRoutable
<1>3. CASE p.platform = "rack"
  BY <1>1, <1>3, RackScaleRoutable DEF FabricOf
<1>4. CASE p.platform = "single"
  BY <1>1, <1>4, SingleTierRoutable DEF FabricOf
<1>5. CASE p.platform = "clos"
  <2>1. FabricOf(p) = FatTree(p)
    BY <1>5 DEF FabricOf
  <2>2. CASE p.depth = 1
    <3> DEFINE q == [machines |-> p.radix, gpus |-> p.gpus, nics |-> p.nics]
    <3>1. FatTree(p) = SingleTier(q)
      BY <2>2 DEF FatTree
    <3>2. MachinesAreBuilt(q) /\ q.machines \in Nat
      BY <1>1, <1>5 DEF MachinesAreBuilt
    <3> HIDE DEF q
    <3> QED
      BY <2>1, <3>1, <3>2, SingleTierRoutable
  <2>3. CASE p.depth # 1
    <3>1. FatTree(p) = LeafSpine(p) /\ p.radix % 2 = 0
      BY <1>5, <2>3 DEF FatTree, BuildRaises
    <3> QED
      BY <1>1, <1>5, <2>1, <3>1, LeafSpineRoutable
  <2> QED
    BY <2>2, <2>3
<1> QED
  BY <1>1, <1>2, <1>3, <1>4, <1>5

LEMMA BuiltFinite ==
  ASSUME NEW p \in Plans, ~BuildRaises(p)
  PROVE  IsFiniteSet(Endpoints(FabricOf(p)))
<1> DEFINE fab == FabricOf(p)
           links == DOMAIN fab.links
           first == [l \in links |-> l[1]]
           second == [l \in links |-> l[2]]
           firsts == {l[1] : l \in links}
           seconds == {l[2] : l \in links}
<1>1. IsFiniteSet(links)
  BY BuiltSound DEF Sound, Structured, LinksSound
<1> HIDE DEF links
<1>2. first \in Surjection(links, firsts) /\ second \in Surjection(links, seconds)
  BY DEF Surjection
<1>3. IsFiniteSet(firsts) /\ IsFiniteSet(seconds)
  BY <1>1, <1>2, FS_Surjection
<1>4. Endpoints(fab) = firsts \cup seconds
  BY DEF Endpoints, links
<1> QED
  BY <1>3, <1>4, FS_Union

(* ShapeTellsTheLinks says it of two and of three GPUs. *)
EveryShapeTells ==
    FabricIsBuilt /\ DOMAIN fabric.gpuNic # {} =>
        \A k \in Nat : k > 1 =>
            \A group \in [1..k -> Gpus(fabric)] :
                IsInjective(group) => ShapeIsWhatLinksShow(fabric, group)

LEMMA BuiltRoutes ==
  ASSUME RoundTripInv
  PROVE  RoutesFollowDomains /\ EveryShapeTells
<1> SUFFICES ASSUME stage = "built"
             PROVE  /\ RoutesThroughOwnNics(fabric)
                    /\ DOMAIN fabric.gpuNic # {} =>
                        \A k \in Nat : k > 1 =>
                            \A group \in [1..k -> Gpus(fabric)] :
                                IsInjective(group) => ShapeIsWhatLinksShow(fabric, group)
  BY DEF RoutesFollowDomains, EveryShapeTells, FabricIsBuilt
<1>1. plan \in Plans /\ ~BuildRaises(plan) /\ fabric = FabricOf(plan)
  BY DEF RoundTripInv, ProgramInv, FirstInv
<1>2. PICK w : Wired(fabric, w) /\ Classed(fabric.links)
  BY <1>1, BuiltRoutable DEF Routable
<1>3. IsFiniteSet(Endpoints(fabric))
  BY <1>1, BuiltFinite
<1>4. RoutesThroughOwnNics(fabric)
  BY <1>2, <1>3, WiredRoutes
<1>5. ASSUME DOMAIN fabric.gpuNic # {}, NEW k \in Nat, k > 1,
             NEW group \in [1..k -> Gpus(fabric)], IsInjective(group)
      PROVE  ShapeIsWhatLinksShow(fabric, group)
  BY <1>2, <1>3, <1>5, WiredShapes
<1> QED
  BY <1>4, <1>5

LEMMA SmallShapes ==
  ASSUME EveryShapeTells
  PROVE  ShapeTellsTheLinks
<1> SUFFICES ASSUME FabricIsBuilt, DOMAIN fabric.gpuNic # {},
                    NEW k \in {2, 3}, NEW group \in [1..k -> Gpus(fabric)], IsInjective(group)
             PROVE  ShapeIsWhatLinksShow(fabric, group)
  BY DEF ShapeTellsTheLinks
<1>1. k \in Nat /\ k > 1
  OBVIOUS
<1> QED
  BY <1>1 DEF EveryShapeTells

(***************************************************************************)
(* Of every fabric that the builders and blueprints build, whatever the    *)
(* numbers of machines, GPUs, NICs and switches: inside a scale-up domain  *)
(* a route has no other node, and between domains it leaves through the    *)
(* GPU's own NIC, enters through its peer's, and passes no third GPU.      *)
(***************************************************************************)
THEOREM BuiltRoutesFollowDomains == Spec => []RoutesFollowDomains
BY RoundTripInvariant, BuiltRoutes, PTL

(***************************************************************************)
(* On every such fabric with NICs, a group of any size whose shape has one *)
(* part uses scale-up links and no others, any other group egress and      *)
(* scale-out ones, and the parts of the shape have all of its ranks.       *)
(***************************************************************************)
THEOREM BuiltShapesTell == Spec => [](EveryShapeTells /\ ShapeTellsTheLinks)
BY RoundTripInvariant, BuiltRoutes, SmallShapes, PTL

-----------------------------------------------------------------------------
(***************************************************************************)
(* The links of the switches of a leaf-spine fabric, and how many.         *)
(***************************************************************************)
LEMMA PairedCount ==
  ASSUME NEW s, NEW X, IsFiniteSet(X)
  PROVE  /\ IsFiniteSet({<<s, x>> : x \in X})
         /\ Cardinality({<<s, x>> : x \in X}) = Cardinality(X)
<1> DEFINE pair == [x \in X |-> <<s, x>>]
<1>1. pair \in Bijection(X, {<<s, x>> : x \in X})
  BY DEF Bijection, Injection, Surjection, IsInjective
<1> QED
  BY <1>1, FS_Bijection DEF ExistsBijection

LEMMA CountBelow ==
  ASSUME NEW n \in Nat
  PROVE  IsFiniteSet(0..(n - 1)) /\ Cardinality(0..(n - 1)) = n
BY FS_Interval

LEMMA TierCount ==
  ASSUME NEW n \in Nat, NEW tier, NEW T, T = {Switch(tier, i) : i \in 0..(n - 1)}
  PROVE  IsFiniteSet(T) /\ Cardinality(T) = n
<1> DEFINE I == 0..(n - 1)
           switch == [i \in I |-> Switch(tier, i)]
<1>1. switch \in Bijection(I, T)
  BY DEF Bijection, Injection, Surjection, IsInjective, Switch
<1>2. IsFiniteSet(I) /\ Cardinality(I) = n
  BY CountBelow
<1> HIDE DEF I, switch
<1> QED
  BY <1>1, <1>2, FS_Bijection DEF ExistsBijection

(* The NICs of the hosts below leaf i. *)
NicsBelow(p, i) == {n \in NicsIn(HostIds(p), p) : n[2] \div HalfOf(p) = i}

LEMMA NicsBelowCount ==
  ASSUME NEW p, MachinesAreBuilt(p), p.radix \in Nat, p.radix % 2 = 0, NEW i \in 0..(p.radix - 1)
  PROVE  IsFiniteSet(NicsBelow(p, i)) /\ Cardinality(NicsBelow(p, i)) = HalfOf(p) * p.nics
<1> DEFINE half == HalfOf(p)
           R == 0..(half - 1)
           K == 0..(p.nics - 1)
           nic == [x \in R \X K |-> Nic(half * i + x[1], x[2])]
<1>1. /\ half \in Nat /\ p.radix = 2 * half /\ half > 0
      /\ p.nics \in Nat /\ i \in Nat /\ i < p.radix
  <2>1. half \in Nat /\ p.radix = 2 * half
    BY LeafSpineIs
  <2>2. i \in Nat /\ i < p.radix /\ p.nics \in Nat
    BY DEF MachinesAreBuilt
  <2> HIDE DEF half
  <2> QED
    BY <2>1, <2>2
<1>2. HostIds(p) = 0..(p.radix * half - 1)
  BY DEF HostIds
<1> HIDE DEF half
<1>3. half * i \in Nat /\ half * i + half <= p.radix * half
  <2>1. PICK d \in Nat : p.radix = i + 1 + d
    <3>1. p.radix - i - 1 \in Nat /\ p.radix = i + 1 + (p.radix - i - 1)
      BY <1>1
    <3> QED
      BY <3>1
  <2>2. (i + 1 + d) * half = half * i + half + half * d
    BY <1>1
  <2>3. half * d \in Nat /\ half * i \in Nat
    BY <1>1
  <2> QED
    BY <1>1, <2>1, <2>2, <2>3
<1>4. ASSUME NEW r \in R PROVE half * i + r \in HostIds(p) /\ (half * i + r) \div half = i
  <2>1. half * i + r \in Nat /\ half * i + r < p.radix * half /\ p.radix * half \in Nat
    BY <1>1, <1>3
  <2>2. (half * i + r) \div half = i
    BY <1>1, <2>1, DivModIs
  <2> QED
    BY <1>2, <2>1, <2>2
<1>5. \A n \in NicsIn(HostIds(p), p) : \E k \in K : n[2] \in HostIds(p) /\ n = Nic(n[2], k)
  <2> TAKE n \in NicsIn(HostIds(p), p)
  <2>1. PICK m \in HostIds(p) : n \in NicsOf(m, p)
    BY DEF NicsIn
  <2>2. PICK k \in K : n = Nic(m, k)
    BY <2>1 DEF NicsOf
  <2> QED
    BY <2>1, <2>2 DEF Nic
<1>6. ASSUME NEW x \in R \X K PROVE nic[x] \in NicsBelow(p, i)
  <2>1. /\ half * i + x[1] \in HostIds(p) /\ (half * i + x[1]) \div half = i
        /\ nic[x] = Nic(half * i + x[1], x[2]) /\ x[2] \in K
    BY <1>4
  <2>2. nic[x] \in NicsOf(half * i + x[1], p) /\ nic[x][2] = half * i + x[1]
    BY <2>1 DEF NicsOf, Nic
  <2> QED
    BY <2>1, <2>2 DEF NicsBelow, NicsIn, half
<1>7. ASSUME NEW n \in NicsBelow(p, i) PROVE \E x \in R \X K : nic[x] = n
  <2>1. n \in NicsIn(HostIds(p), p) /\ n[2] \div half = i
    BY DEF NicsBelow, half
  <2>2. PICK k \in K : n[2] \in HostIds(p) /\ n = Nic(n[2], k)
    BY <1>5, <2>1
  <2>3. n[2] \in Nat
    BY <1>1, <1>2, <2>2
  <2> DEFINE r == n[2] % half
  <2>4. r \in R /\ n[2] = half * i + r
    <3>1. half \in Nat \ {0}
      BY <1>1
    <3> QED
      BY <2>1, <2>3, <3>1, DivMod
  <2> HIDE DEF r
  <2>5. <<r, k>> \in R \X K /\ nic[<<r, k>>] = Nic(half * i + r, k)
    BY <2>4
  <2> QED
    BY <2>2, <2>4, <2>5
<1>8. ASSUME NEW x \in R \X K, NEW y \in R \X K, nic[x] = nic[y] PROVE x = y
  <2>1. half * i + x[1] = half * i + y[1] /\ x[2] = y[2]
    BY <1>8 DEF Nic
  <2>2. x[1] = y[1]
    BY <1>1, <1>3, <2>1
  <2> QED
    BY <2>1, <2>2
<1>9. IsFiniteSet(R \X K) /\ Cardinality(R \X K) = half * p.nics
  <2>1. IsFiniteSet(R) /\ Cardinality(R) = half /\ IsFiniteSet(K) /\ Cardinality(K) = p.nics
    BY <1>1, CountBelow
  <2> HIDE DEF R, K
  <2> QED
    BY <2>1, FS_Product
<1>10. DOMAIN nic = R \X K
  OBVIOUS
<1>11. nic = [x \in R \X K |-> nic[x]]
  OBVIOUS
<1> HIDE DEF nic, R, K
<1>12. nic \in Bijection(R \X K, NicsBelow(p, i))
  BY <1>6, <1>7, <1>8, <1>10, <1>11 DEF Bijection, Injection, Surjection, IsInjective
<1> QED
  BY <1>9, <1>12, FS_Bijection DEF ExistsBijection, half

DownOf(p, i) == {<<Switch("leaf", i), n>> : n \in NicsBelow(p, i)}

UpOf(p, s) == {<<s, x>> : x \in SpinesOf(p)}

FromSpine(p, s) == {<<s, x>> : x \in LeavesOf(p)}

(* What a leaf is joined to, and what a spine is. *)
LEMMA LinksOfSwitches ==
  ASSUME NEW p, MachinesAreBuilt(p), p.radix \in Nat, p.radix % 2 = 0,
         NEW fab, fab = LeafSpine(p), LinksSound(fab)
  PROVE  /\ \A i \in 0..(p.radix - 1) :
                LinksOf(fab, Switch("leaf", i)) = DownOf(p, i) \cup UpOf(p, Switch("leaf", i))
         /\ \A s \in SpinesOf(p) : LinksOf(fab, s) = FromSpine(p, s)
         /\ \A s \in Endpoints(fab) : IsSwitch(s) => s \in LeavesOf(p) \cup SpinesOf(p)
<1> DEFINE w == WiringOf(p)
           N == NicsIn(HostIds(p), p)
           leafOf(n) == Switch("leaf", n[2] \div HalfOf(p))
<1>1. Wired(fab, w)
  BY LeafSpineRoutable DEF Routable
<1>2. Numbered(HostIds(p))
  BY LeafSpineIs
<1>3. \A n \in N : IsNic(n) /\ n[2] \in HostIds(p)
  BY <1>2, BuiltNodesAre
<1>4. /\ w.leaves = LeavesOf(p) /\ w.spines = SpinesOf(p) /\ DOMAIN w.up = N
      /\ \A n \in N : w.up[n] = leafOf(n)
  BY <1>3 DEF WiringOf, Wiring, LeafFor
<1> HIDE DEF w
<1>5. /\ \A g, h : SameDomain(fab, g, h) => IsGpu(g) /\ IsGpu(h)
      /\ \A g \in DOMAIN fab.gpuNic : IsGpu(g) /\ IsNic(fab.gpuNic[g])
  BY <1>1 DEF Wired, KindsOf, BindingsOf, SameDomain
<1>6. /\ \A s \in LeavesOf(p) \cup SpinesOf(p) : IsSwitch(s) /\ ~IsGpu(s) /\ ~IsNic(s)
      /\ LeavesOf(p) \cap SpinesOf(p) = {}
  BY <1>1, <1>4 DEF Wired, KindsOf, IsSwitch
<1>7. \A l \in DOMAIN fab.links : l = <<l[1], l[2]>>
  BY DEF LinksSound
<1>8. \A n, m : <<n, m>> \in DOMAIN fab.links <=> Attached(fab, w, n, m) \/ Attached(fab, w, m, n)
  <2>1. ASSUME NEW n, NEW m, <<n, m>> \in DOMAIN fab.links
        PROVE  Attached(fab, w, n, m) \/ Attached(fab, w, m, n)
    <3>1. <<n, m>>[1] = n /\ <<n, m>>[2] = m
      OBVIOUS
    <3> QED
      BY <1>1, <2>1, <3>1 DEF Wired
  <2> QED
    BY <1>1, <2>1 DEF Wired
<1>9. \A s, m : s \in LeavesOf(p) =>
            (<<s, m>> \in DOMAIN fab.links <=> (m \in N /\ leafOf(m) = s) \/ m \in SpinesOf(p))
  BY <1>3, <1>4, <1>5, <1>6, <1>8 DEF Attached, IsSwitch, IsGpu, IsNic
<1>10. \A s, m : s \in SpinesOf(p) => (<<s, m>> \in DOMAIN fab.links <=> m \in LeavesOf(p))
  <2> SUFFICES ASSUME NEW s \in SpinesOf(p), NEW m
               PROVE  <<s, m>> \in DOMAIN fab.links <=> m \in LeavesOf(p)
    OBVIOUS
  <2>1. ~SameDomain(fab, s, m) /\ ~SameDomain(fab, m, s) /\ s \notin DOMAIN fab.gpuNic /\ s \notin N
    BY <1>3, <1>5, <1>6
  <2>2. \A g \in DOMAIN fab.gpuNic : s # fab.gpuNic[g]
    BY <1>5, <1>6
  <2>3. \A n \in N : s # w.up[n]
    BY <1>1, <1>4, <1>6 DEF Wired, BindingsOf
  <2>4. s \notin LeavesOf(p)
    BY <1>6
  <2> QED
    BY <1>4, <1>8, <2>1, <2>2, <2>3, <2>4 DEF Attached
<1>11. ASSUME NEW s \in Endpoints(fab), IsSwitch(s) PROVE s \in LeavesOf(p) \cup SpinesOf(p)
  <2>1. PICK n, m : Attached(fab, w, n, m) /\ s \in {n, m}
    <3>1. PICK l \in DOMAIN fab.links : s = l[1] \/ s = l[2]
      BY DEF Endpoints
    <3> QED
      BY <1>1, <3>1 DEF Wired
  <2>2. ~IsGpu(s) /\ ~IsNic(s)
    BY <1>11 DEF IsSwitch
  <2>3. \A x \in N : w.up[x] \in LeavesOf(p)
    BY <1>1, <1>4 DEF Wired, BindingsOf
  <2> QED
    BY <1>3, <1>4, <1>5, <2>1, <2>2, <2>3 DEF Attached
<1>12. ASSUME NEW i \in 0..(p.radix - 1)
       PROVE  LinksOf(fab, Switch("leaf", i)) = DownOf(p, i) \cup UpOf(p, Switch("leaf", i))
  <2> DEFINE s == Switch("leaf", i)
  <2>1. s \in LeavesOf(p)
    BY DEF LeavesOf
  <2>2. \A m : m \in NicsBelow(p, i) <=> m \in N /\ leafOf(m) = s
    BY DEF NicsBelow, Switch
  <2> HIDE DEF s, leafOf
  <2>3. ASSUME NEW l \in LinksOf(fab, s) PROVE l \in DownOf(p, i) \cup UpOf(p, s)
    <3>1. l = <<s, l[2]>> /\ l \in DOMAIN fab.links
      BY <1>7 DEF LinksOf
    <3>2. l[2] \in NicsBelow(p, i) \/ l[2] \in SpinesOf(p)
      BY <1>9, <2>1, <2>2, <3>1
    <3> QED
      BY <3>1, <3>2 DEF DownOf, UpOf, s
  <2>4. ASSUME NEW l \in DownOf(p, i) \cup UpOf(p, s) PROVE l \in LinksOf(fab, s)
    <3>1. PICK x \in NicsBelow(p, i) \cup SpinesOf(p) : l = <<s, x>>
      BY DEF DownOf, UpOf, s
    <3>2. l \in DOMAIN fab.links /\ l[1] = s
      BY <1>9, <2>1, <2>2, <3>1
    <3> QED
      BY <3>2 DEF LinksOf
  <2> QED
    BY <2>3, <2>4 DEF s
<1>13. ASSUME NEW s \in SpinesOf(p) PROVE LinksOf(fab, s) = FromSpine(p, s)
  <2>1. ASSUME NEW l \in LinksOf(fab, s) PROVE l \in FromSpine(p, s)
    <3>1. l = <<s, l[2]>> /\ l \in DOMAIN fab.links
      BY <1>7 DEF LinksOf
    <3>2. l[2] \in LeavesOf(p)
      BY <1>10, <3>1
    <3> QED
      BY <3>1, <3>2 DEF FromSpine
  <2>2. ASSUME NEW l \in FromSpine(p, s) PROVE l \in LinksOf(fab, s)
    <3>1. PICK x \in LeavesOf(p) : l = <<s, x>>
      BY DEF FromSpine
    <3>2. l \in DOMAIN fab.links /\ l[1] = s
      BY <1>10, <3>1
    <3> QED
      BY <3>2 DEF LinksOf
  <2> QED
    BY <2>1, <2>2
<1> QED
  BY <1>11, <1>12, <1>13

LEMMA SwitchCounts ==
  ASSUME NEW p, MachinesAreBuilt(p), p.radix \in Nat, p.radix % 2 = 0
  PROVE  /\ \A i \in 0..(p.radix - 1) :
                /\ IsFiniteSet(DownOf(p, i)) /\ Cardinality(DownOf(p, i)) = HalfOf(p) * p.nics
                /\ IsFiniteSet(UpOf(p, Switch("leaf", i)))
                /\ Cardinality(UpOf(p, Switch("leaf", i))) = HalfOf(p)
         /\ \A s : IsFiniteSet(FromSpine(p, s)) /\ Cardinality(FromSpine(p, s)) = p.radix
<1>1. HalfOf(p) \in Nat
  BY LeafSpineIs
<1>2. \A i \in 0..(p.radix - 1) :
            IsFiniteSet(DownOf(p, i)) /\ Cardinality(DownOf(p, i)) = HalfOf(p) * p.nics
  <2> TAKE i \in 0..(p.radix - 1)
  <2>1. IsFiniteSet(NicsBelow(p, i)) /\ Cardinality(NicsBelow(p, i)) = HalfOf(p) * p.nics
    BY NicsBelowCount
  <2> QED
    BY <2>1, PairedCount DEF DownOf
<1>3. IsFiniteSet(SpinesOf(p)) /\ Cardinality(SpinesOf(p)) = HalfOf(p)
  BY <1>1, TierCount DEF SpinesOf
<1>4. IsFiniteSet(LeavesOf(p)) /\ Cardinality(LeavesOf(p)) = p.radix
  <2>1. PICK n \in Nat : n = p.radix
    OBVIOUS
  <2>2. LeavesOf(p) = {Switch("leaf", i) : i \in 0..(n - 1)}
    BY <2>1 DEF LeavesOf
  <2>3. IsFiniteSet(LeavesOf(p)) /\ Cardinality(LeavesOf(p)) = n
    BY <2>2, TierCount
  <2> QED
    BY <2>1, <2>3
<1>5. \A s : IsFiniteSet(UpOf(p, s)) /\ Cardinality(UpOf(p, s)) = HalfOf(p)
  BY <1>3, PairedCount DEF UpOf
<1>6. \A s : IsFiniteSet(FromSpine(p, s)) /\ Cardinality(FromSpine(p, s)) = p.radix
  BY <1>4, PairedCount DEF FromSpine
<1> QED
  BY <1>2, <1>5, <1>6

LEMMA LeafSpineWithinRadix ==
  ASSUME NEW p, MachinesAreBuilt(p), p.radix \in Nat, p.radix % 2 = 0,
         NEW fab, fab = LeafSpine(p), LinksSound(fab)
  PROVE  WithinRadix(fab, p)
<1> SUFFICES ASSUME NEW s \in Endpoints(fab), IsSwitch(s), p.nics <= 1
             PROVE  Cardinality(LinksOf(fab, s)) <= p.radix
  BY DEF WithinRadix
<1> DEFINE half == HalfOf(p)
<1>1. half \in Nat /\ p.radix = 2 * half /\ p.nics \in Nat
  BY LeafSpineIs DEF MachinesAreBuilt
<1>2. s \in LeavesOf(p) \cup SpinesOf(p)
  BY LinksOfSwitches
<1>3. CASE s \in SpinesOf(p)
  <2>1. LinksOf(fab, s) = FromSpine(p, s) /\ Cardinality(FromSpine(p, s)) = p.radix
    BY <1>3, LinksOfSwitches, SwitchCounts
  <2> QED
    BY <2>1
<1>4. CASE s \in LeavesOf(p)
  <2>1. PICK i \in 0..(p.radix - 1) : s = Switch("leaf", i)
    BY <1>4 DEF LeavesOf
  <2>2. LinksOf(fab, s) = DownOf(p, i) \cup UpOf(p, s)
    BY <2>1, LinksOfSwitches
  <2>3. /\ IsFiniteSet(DownOf(p, i)) /\ Cardinality(DownOf(p, i)) = half * p.nics
        /\ IsFiniteSet(UpOf(p, s)) /\ Cardinality(UpOf(p, s)) = half
    BY <2>1, SwitchCounts
  <2>4. /\ Cardinality(LinksOf(fab, s)) = half * p.nics + half - Cardinality(DownOf(p, i) \cap UpOf(p, s))
        /\ Cardinality(DownOf(p, i) \cap UpOf(p, s)) \in Nat
    <3>1. Cardinality(DownOf(p, i) \cup UpOf(p, s)) = Cardinality(DownOf(p, i)) + Cardinality(UpOf(p, s))
                - Cardinality(DownOf(p, i) \cap UpOf(p, s))
      BY <2>3, FS_Union
    <3>2. IsFiniteSet(DownOf(p, i) \cap UpOf(p, s))
      BY <2>3, FS_Subset
    <3> QED
      BY <2>2, <2>3, <3>1, <3>2, FS_CardinalityType
  <2>5. half * p.nics \in Nat /\ half * p.nics <= half
    <3>1. p.nics = 0 \/ p.nics = 1
      BY <1>1
    <3> QED
      BY <1>1, <3>1
  <2> HIDE DEF half
  <2> QED
    BY <1>1, <2>4, <2>5
<1> QED
  BY <1>2, <1>3, <1>4

-----------------------------------------------------------------------------
(***************************************************************************)
(* The capacities of a leaf: uplinks, times the oversubscription, are      *)
(* downlinks.                                                              *)
(***************************************************************************)
LEMMA SumOfEqual ==
  ASSUME NEW fab, NEW S, IsFiniteSet(S), NEW r \in Int, \A l \in S : fab.links[l].bw = r
  PROVE  SumOfLinks(fab, S) = r * Cardinality(S)
<1> DEFINE f == [l \in S |-> fab.links[l].bw]
<1>1. SumOfLinks(fab, S) = SumOver(f, S)
  BY SumFunctionIs DEF SumOfLinks
<1>2. \A l \in S : f[l] = r
  OBVIOUS
<1> HIDE DEF f
<1>3. IsFiniteSet({}) /\ {} \cup S = S /\ {} \cap S = {}
  BY FS_EmptySet
<1>4. \A l \in {} : f[l] \in Int
  OBVIOUS
<1>5. SumOver(f, {} \cup S) = SumOver(f, {}) + r * Cardinality(S)
  BY <1>2, <1>3, <1>4, SumOverSameValue
<1>6. SumOver(f, {}) = 0
  BY SumOverEmpty
<1>7. Cardinality(S) \in Nat
  BY FS_CardinalityType
<1> QED
  BY <1>1, <1>3, <1>5, <1>6, <1>7

LEMMA Capacities ==
  ASSUME NEW p, MachinesAreBuilt(p), p.radix \in Nat, p.radix % 2 = 0,
         NEW fab, fab = LeafSpine(p), NEW i \in 0..(p.radix - 1)
  PROVE  /\ \A l \in UpOf(p, Switch("leaf", i)) : fab.links[l].bw = UplinkGBps(p)
         /\ \A l \in DownOf(p, i) : fab.links[l].bw = ScaleOut.bw
<1> DEFINE s == Switch("leaf", i)
           mids == HostIds(p)
           leaf == LeafFor(p)
           tiers == TierPairs(LeavesOf(p), SpinesOf(p))
           wired == WiredLinks(leaf, mids, p)
           toLeaf == ToLeaf(leaf, mids, p)
           toSpine == UplinksOf(p)
           speed == [ScaleOut EXCEPT !.bw = UplinkGBps(p)]
<1>1. fab.links = Added(wired, toSpine)
  BY LeafSpineRoutable DEF LinksBuilt
<1>2. DOMAIN toSpine = BothWays(tiers) /\ \A l \in DOMAIN toSpine : toSpine[l].bw = UplinkGBps(p)
  <2>1. speed.bw = UplinkGBps(p)
    BY SpeedsAre DEF Speeds
  <2>2. toSpine = TwoWay(tiers, "scale_out", speed)
    BY DEF UplinksOf
  <2> HIDE DEF speed, tiers, toSpine
  <2> QED
    BY <2>1, <2>2 DEF TwoWay, BothWays
<1>3. /\ DOMAIN toLeaf = BothWays(LeafPairs(leaf, mids, p))
      /\ \A l \in DOMAIN toLeaf : toLeaf[l].bw = ScaleOut.bw
  BY DEF ToLeaf, TwoWay, BothWays, LeafPairs
<1>4. s \in LeavesOf(p)
  BY DEF LeavesOf
<1>5. ASSUME NEW l \in UpOf(p, s) PROVE fab.links[l].bw = UplinkGBps(p)
  <2>1. l \in DOMAIN toSpine
    BY <1>2, <1>4 DEF UpOf, TierPairs, BothWays
  <2>2. fab.links[l] = toSpine[l]
    BY <1>1, <2>1 DEF Added
  <2> QED
    BY <1>2, <2>1, <2>2
<1>6. ASSUME NEW l \in DownOf(p, i) PROVE fab.links[l].bw = ScaleOut.bw
  <2>1. PICK n \in NicsBelow(p, i) : l = <<s, n>>
    BY DEF DownOf
  <2>2. n \in NicsIn(mids, p) /\ IsNic(n) /\ n[2] \in mids /\ leaf[n[2]] = s
    <3>1. n \in NicsIn(mids, p) /\ n[2] \div HalfOf(p) = i
      BY DEF NicsBelow
    <3>2. IsNic(n) /\ n[2] \in mids
      BY <3>1, LeafSpineIs, BuiltNodesAre
    <3> QED
      BY <3>1, <3>2 DEF LeafFor
  <2>3. l \in DOMAIN toLeaf
    <3>1. <<n, s>> \in LeafPairs(leaf, mids, p)
      BY <2>2 DEF LeafPairs
    <3>2. l = <<(<<n, s>>)[2], (<<n, s>>)[1]>>
      BY <2>1
    <3> QED
      BY <1>3, <3>1, <3>2 DEF BothWays
  <2>4. l \notin DOMAIN toSpine
    <3>1. \A x \in LeavesOf(p) \cup SpinesOf(p) : ~IsNic(x)
      BY DEF LeavesOf, SpinesOf, Switch, IsNic
    <3>2. \A e \in BothWays(tiers) : ~IsNic(e[2])
      BY <3>1 DEF BothWays, TierPairs
    <3>3. l[2] = n
      BY <2>1
    <3> QED
      BY <1>2, <2>2, <3>2, <3>3
  <2> HIDE DEF toLeaf, toSpine, mids, leaf
  <2>5. wired[l] = toLeaf[l] /\ l \in DOMAIN wired
    BY <2>3 DEF WiredLinks, Added, toLeaf, mids, leaf
  <2>6. fab.links[l] = wired[l]
    <3> HIDE DEF wired
    <3> QED
      BY <1>1, <2>4, <2>5 DEF Added
  <2> QED
    BY <1>3, <2>3, <2>5, <2>6
<1> QED
  BY <1>5, <1>6

LEMMA LeafSpineSubscribed ==
  ASSUME NEW p, MachinesAreBuilt(p), p.radix \in Nat, p.radix % 2 = 0,
         p.oversubscription \in Nat \ {0}, (p.nics * ScaleOut.bw) % p.oversubscription = 0,
         NEW fab, fab = LeafSpine(p), LinksSound(fab)
  PROVE  Subscribed(fab, p)
<1> SUFFICES ASSUME NEW i \in 0..(p.radix - 1)
             PROVE  LET links == LinksOf(fab, Switch("leaf", i))
                        up == {l \in links : IsSwitch(l[2])}
                    IN  SumOfLinks(fab, up) * p.oversubscription = SumOfLinks(fab, links \ up)
  BY DEF Subscribed
<1> DEFINE s == Switch("leaf", i)
           links == LinksOf(fab, s)
           up == {l \in links : IsSwitch(l[2])}
           half == HalfOf(p)
           over == p.oversubscription
           bw == ScaleOut.bw
           U == UplinkGBps(p)
<1>1. links = DownOf(p, i) \cup UpOf(p, s)
  BY LinksOfSwitches
<1>2. \A l \in DownOf(p, i) : ~IsSwitch(l[2])
  <2>1. \A n \in NicsBelow(p, i) : ~IsSwitch(n)
    BY LeafSpineIs, BuiltNodesAre DEF NicsBelow, IsSwitch
  <2> QED
    BY <2>1 DEF DownOf
<1>3. \A l \in UpOf(p, s) : IsSwitch(l[2])
  BY DEF UpOf, SpinesOf, IsSwitch, IsGpu, IsNic, Switch
<1>4. up = UpOf(p, s) /\ links \ up = DownOf(p, i)
  BY <1>1, <1>2, <1>3
<1>5. half \in Nat /\ p.nics \in Nat /\ bw \in Nat /\ over \in Nat \ {0}
  <2>1. half \in Nat /\ p.nics \in Nat
    BY LeafSpineIs DEF MachinesAreBuilt
  <2> QED
    BY <2>1, SpeedsAre DEF Speeds
<1>6. U \in Nat /\ p.nics * bw = over * U
  <2>1. p.nics * bw \in Nat
    BY <1>5
  <2>2. /\ (p.nics * bw) \div over \in Nat
        /\ p.nics * bw = (over * ((p.nics * bw) \div over)) + ((p.nics * bw) % over)
    BY <1>5, <2>1, DivMod
  <2>3. U = (p.nics * bw) \div over /\ (p.nics * bw) % over = 0
    BY DEF UplinkGBps
  <2> HIDE DEF U, bw, over
  <2>4. U \in Nat
    BY <2>2, <2>3
  <2>5. over * U \in Nat
    BY <1>5, <2>4
  <2> QED
    BY <2>2, <2>3, <2>4, <2>5
<1>7. SumOfLinks(fab, up) = U * half
  <2>1. IsFiniteSet(UpOf(p, s)) /\ Cardinality(UpOf(p, s)) = half
    BY SwitchCounts
  <2>2. \A l \in UpOf(p, s) : fab.links[l].bw = U
    BY Capacities
  <2> HIDE DEF U, half, s
  <2>3. SumOfLinks(fab, UpOf(p, s)) = U * Cardinality(UpOf(p, s))
    BY <1>6, <2>1, <2>2, SumOfEqual
  <2> QED
    BY <1>4, <2>1, <2>3
<1>8. SumOfLinks(fab, links \ up) = bw * (half * p.nics)
  <2>1. IsFiniteSet(DownOf(p, i)) /\ Cardinality(DownOf(p, i)) = half * p.nics
    BY SwitchCounts
  <2>2. \A l \in DownOf(p, i) : fab.links[l].bw = bw
    BY Capacities
  <2> HIDE DEF bw, half
  <2>3. SumOfLinks(fab, DownOf(p, i)) = bw * Cardinality(DownOf(p, i))
    BY <1>5, <2>1, <2>2, SumOfEqual
  <2> QED
    BY <1>4, <2>1, <2>3
<1> HIDE DEF U, bw, half, over
<1>9. (U * half) * over = half * (over * U)
  BY <1>5, <1>6
<1>10. bw * (half * p.nics) = half * (p.nics * bw)
  BY <1>5
<1> QED
  BY <1>6, <1>7, <1>8, <1>9, <1>10 DEF over

-----------------------------------------------------------------------------
(***************************************************************************)
(* The switches between two GPUs of a leaf-spine fabric.                   *)
(***************************************************************************)
LEMMA OneLeafBelow ==
  ASSUME NEW fab, NEW w, Wired(fab, w), NEW g \in DOMAIN fab.gpuNic
  PROVE  LeavesBelow(fab, g) = {LeafOf(fab, w, g)} /\ LeafOf(fab, w, g) \in w.leaves
<1> DEFINE nic == fab.gpuNic[g]
           own == LeafOf(fab, w, g)
<1>1. nic \in DOMAIN w.up /\ w.up[nic] = own /\ own \in w.leaves /\ IsNic(nic) /\ IsSwitch(own)
  BY DEF Wired, BindingsOf, KindsOf, LeafOf
<1>2. /\ \A n, m : SameDomain(fab, n, m) => IsGpu(n) /\ IsGpu(m)
      /\ \A n \in DOMAIN fab.gpuNic : IsGpu(n)
      /\ \A n \in DOMAIN w.up : IsNic(n)
      /\ \A n \in w.leaves \cup w.spines : IsSwitch(n)
  BY DEF Wired, BindingsOf, KindsOf, SameDomain
<1> HIDE DEF nic, own
<1>3. ASSUME NEW l \in DOMAIN fab.links, l[1] = nic, IsSwitch(l[2]) PROVE l[2] = own
  <2>1. Attached(fab, w, nic, l[2]) \/ Attached(fab, w, l[2], nic)
    BY <1>3 DEF Wired
  <2>2. ~IsGpu(nic) /\ ~IsSwitch(nic) /\ ~IsGpu(l[2]) /\ ~IsNic(l[2])
    BY <1>1, <1>3 DEF IsSwitch, IsGpu, IsNic
  <2>3. nic \notin DOMAIN fab.gpuNic /\ nic \notin w.leaves /\ nic \notin w.spines
    BY <1>2, <2>2
  <2>4. l[2] \notin DOMAIN fab.gpuNic /\ l[2] \notin DOMAIN w.up
    BY <1>2, <2>2
  <2> QED
    BY <1>1, <1>2, <2>1, <2>2, <2>3, <2>4 DEF Attached
<1>4. <<nic, own>> \in DOMAIN fab.links
  BY <1>1 DEF Wired, Attached
<1>5. own \in LeavesBelow(fab, g)
  BY <1>1, <1>4 DEF LeavesBelow, nic
<1>6. \A x \in LeavesBelow(fab, g) : x = own
  BY <1>3 DEF LeavesBelow, nic
<1> QED
  BY <1>1, <1>5, <1>6 DEF own

LEMMA LeafSpineOver ==
  ASSUME NEW p, MachinesAreBuilt(p), p.radix \in Nat, p.radix % 2 = 0,
         NEW fab, fab = LeafSpine(p), IsFiniteSet(Endpoints(fab))
  PROVE  OverLeafAndSpines(fab, p)
<1> DEFINE w == WiringOf(p)
<1>1. Wired(fab, w)
  BY LeafSpineRoutable DEF Routable
<1>2. w.spines = {Switch("spine", j) : j \in 0..(p.radix \div 2 - 1)}
  BY DEF WiringOf, Wiring, SpinesOf, HalfOf
<1> HIDE DEF w
<1> SUFFICES ASSUME NEW a \in DOMAIN fab.gpuNic, NEW b \in DOMAIN fab.gpuNic, ~SameDomain(fab, a, b)
             PROVE  LET leaves == LeavesBelow(fab, a) \cup LeavesBelow(fab, b)
                    IN  SwitchesBetween(fab, a, b) =
                            IF Cardinality(leaves) = 1 THEN leaves ELSE leaves \cup w.spines
  BY <1>2 DEF OverLeafAndSpines
<1> DEFINE la == LeafOf(fab, w, a)
           lb == LeafOf(fab, w, b)
           leaves == LeavesBelow(fab, a) \cup LeavesBelow(fab, b)
<1>3. leaves = {la, lb} /\ la \in w.leaves /\ lb \in w.leaves
  BY <1>1, OneLeafBelow
<1>4. RouteNodes(fab, a, b) = NodesOn(fab, w, a, b)
  BY <1>1, RouteBetweenDomains
<1>5. ~IsSwitch(a) /\ ~IsSwitch(b) /\ ~IsSwitch(fab.gpuNic[a]) /\ ~IsSwitch(fab.gpuNic[b])
  BY <1>1 DEF Wired, BindingsOf, KindsOf, IsSwitch
<1>6. \A s \in w.leaves \cup w.spines : IsSwitch(s)
  BY <1>1 DEF Wired, KindsOf
<1> HIDE DEF la, lb, leaves
<1>7. SwitchesOn(fab, w, a, b) = {la, lb} \cup (IF la = lb THEN {} ELSE w.spines)
  BY DEF SwitchesOn, la, lb
<1>8. SwitchesBetween(fab, a, b) = SwitchesOn(fab, w, a, b)
  <2>1. \A s \in SwitchesOn(fab, w, a, b) : IsSwitch(s)
    BY <1>3, <1>6, <1>7
  <2> QED
    BY <1>4, <1>5, <2>1 DEF SwitchesBetween, NodesOn
<1>9. Cardinality(leaves) = 1 <=> la = lb
  <2>1. IsFiniteSet({la}) /\ IsFiniteSet({lb}) /\ Cardinality({la}) = 1
    BY FS_Singleton
  <2>2. IsFiniteSet({la} \cup {lb})
    BY <2>1, FS_Union
  <2>3. {la} \cup {lb} = leaves
    BY <1>3
  <2>4. IsFiniteSet(leaves)
    BY <2>2, <2>3
  <2>5. ASSUME Cardinality(leaves) = 1 PROVE la = lb
    <3>1. \E x : leaves = {x}
      BY <2>4, <2>5, FS_Singleton
    <3> QED
      BY <1>3, <3>1
  <2>6. ASSUME la = lb PROVE Cardinality(leaves) = 1
    <3>1. leaves = {la}
      BY <1>3, <2>6
    <3> QED
      BY <2>1, <3>1
  <2> QED
    BY <2>5, <2>6
<1>10. SwitchesBetween(fab, a, b) = IF Cardinality(leaves) = 1 THEN leaves ELSE leaves \cup w.spines
  BY <1>3, <1>7, <1>8, <1>9
<1> QED
  BY <1>10 DEF leaves

LEMMA BuiltLeafSpine ==
  ASSUME RoundTripInv
  PROVE  LeafSpineFabric
<1> SUFFICES ASSUME stage = "built", plan.platform = "clos", plan.depth # 1
             PROVE  OverLeafAndSpines(fabric, plan) /\ Subscribed(fabric, plan) /\ WithinRadix(fabric, plan)
  BY DEF LeafSpineFabric, FabricIsBuilt
<1>1. plan \in Plans /\ ~BuildRaises(plan) /\ fabric = FabricOf(plan)
  BY DEF RoundTripInv, ProgramInv, FirstInv
<1>2. /\ MachinesAreBuilt(plan) /\ plan.radix \in Nat
      /\ plan.oversubscription \in Nat \ {0} /\ (plan.nics * ScaleOut.bw) % plan.oversubscription = 0
  BY <1>1, PlansType
<1>3. plan.radix % 2 = 0 /\ fabric = LeafSpine(plan)
  BY <1>1 DEF BuildRaises, FabricOf, FatTree
<1>4. IsFiniteSet(Endpoints(fabric)) /\ LinksSound(fabric)
  BY <1>1, BuiltFinite, BuiltSound DEF Sound, Structured
<1> QED
  BY <1>2, <1>3, <1>4, LeafSpineOver, LeafSpineSubscribed, LeafSpineWithinRadix

(***************************************************************************)
(* Of every leaf-spine fabric, whatever the radix, the machines and the    *)
(* oversubscription: hosts below one leaf meet there and others over both  *)
(* leaves and any of the spines, the uplinks of a leaf carry the given     *)
(* part of its downlinks, and with one NIC to a host no switch has more    *)
(* links than its radix.                                                   *)
(***************************************************************************)
THEOREM BuiltLeafSpines == Spec => []LeafSpineFabric
BY RoundTripInvariant, BuiltLeafSpine, PTL
=============================================================================
