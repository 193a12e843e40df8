------------------------- MODULE FabricPathsProofs -------------------------
(***************************************************************************)
(* Proofs about routing: for every fabric, however its links were added    *)
(* and however often, equal_cost_paths finds exactly the shortest ways,    *)
(* sorted by their ids, and path() and route() give one of them.           *)
(***************************************************************************)
EXTENDS FabricPaths, DataLemmas

-----------------------------------------------------------------------------
(***************************************************************************)
(* What equal_cost_paths knows: distances, and for each node but the start *)
(* the links it is reached by, from one step nearer, each of these once.   *)
(***************************************************************************)
Start == ends[1]
Goal == ends[2]
Known == DOMAIN dist

Distances ==
    /\ Known \subseteq Node /\ dist \in [Known -> Nat]
    /\ Start \in Known /\ dist[Start] = 0

Arrives(m, lk) == \E i \in DOMAIN preds[m] : preds[m][i] = lk

Arrivals ==
    /\ DOMAIN preds = Known \ {Start}
    /\ \A m \in Known \ {Start} :
         /\ preds[m] \in Seq(Links) /\ preds[m] # <<>>
         /\ \A i, j \in DOMAIN preds[m] : preds[m][i] = preds[m][j] => i = j
         /\ \A lk \in Links :
              Arrives(m, lk) => lk[2] = m /\ lk[1] \in Known /\ dist[m] = dist[lk[1]] + 1

Layers == Distances /\ Arrivals

Reached(lk) ==
    /\ lk[2] \in Known /\ dist[lk[2]] <= dist[lk[1]] + 1
    /\ dist[lk[2]] = dist[lk[1]] + 1 => Arrives(lk[2], lk)

(* No link leads out of what is known, or further than it knows. *)
Complete == \A lk \in Links : lk[1] \in Known => Reached(lk)

(* Where a way from the start is after i links. *)
At(w, i) == IF i = 0 THEN Start ELSE w[i][2]

Chained(w, k) == \A i \in 1..k : w[i][1] = At(w, i - 1)

(* The ways from the start to n that lose no step. *)
Tight(n) ==
    {w \in [1..dist[n] -> Links] :
        /\ At(w, dist[n]) = n /\ Chained(w, dist[n])
        /\ \A i \in 1..dist[n] : w[i][2] \in Known \ {Start} /\ Arrives(w[i][2], w[i])}

LEMMA TightLayers ==
  ASSUME Layers, NEW n \in Known, NEW w \in Tight(n)
  PROVE  \A i \in 0..dist[n] : At(w, i) \in Known /\ dist[At(w, i)] = i
<1> DEFINE good(i) == At(w, i) \in Known /\ dist[At(w, i)] = i
           bad == {i \in 0..dist[n] : ~good(i)}
           i == Min(bad)
<1> SUFFICES ASSUME bad # {} PROVE FALSE
  OBVIOUS
<1>0. dist[n] \in Nat /\ \A x \in Known : dist[x] \in Nat
  BY DEF Layers, Distances
<1>1. /\ w \in [1..dist[n] -> Links] /\ Chained(w, dist[n])
      /\ \A k \in 1..dist[n] : w[k][2] \in Known \ {Start} /\ Arrives(w[k][2], w[k])
  BY DEF Tight
<1>2. bad \in SUBSET Nat
  BY <1>0
<1>3. i \in bad /\ \A k \in bad : i <= k
  <2> HIDE DEF bad
  <2> QED
    BY <1>2, LeastNatural
<1> HIDE DEF i
<1>4. i # 0
  BY <1>3 DEF Layers, Distances, At
<1>5. i \in 1..dist[n] /\ i - 1 \in 0..dist[n] /\ i - 1 \in Nat /\ (i - 1) + 1 = i
  BY <1>0, <1>3, <1>4
<1>6. good(i - 1)
  <2>1. i - 1 \notin bad
    BY <1>3, <1>5
  <2> QED
    BY <1>5, <2>1
<1>7. w[i] \in Links /\ w[i][2] \in Known \ {Start} /\ Arrives(w[i][2], w[i]) /\ w[i][1] = At(w, i - 1)
  BY <1>1, <1>5 DEF Chained
<1>8. dist[w[i][2]] = dist[w[i][1]] + 1
  BY <1>7 DEF Layers, Arrivals
<1>9. At(w, i) = w[i][2]
  BY <1>4 DEF At
<1> QED
  BY <1>3, <1>5, <1>6, <1>7, <1>8, <1>9

(***************************************************************************)
(* A tight way to a node goes on over each link by which another node is   *)
(* reached from it, and every tight way but the empty one is one that went *)
(* on.                                                                     *)
(***************************************************************************)
LEMMA TightStart ==
  ASSUME Layers
  PROVE  Tight(Start) = {<<>>}
<1>1. dist[Start] = 0
  BY DEF Layers, Distances
<1>2. <<>> \in Tight(Start)
  BY <1>1 DEF Tight, At, Chained
<1>3. ASSUME NEW w \in Tight(Start) PROVE w = <<>>
  BY <1>1 DEF Tight
<1> QED
  BY <1>2, <1>3

GoesOn(v, w, x, S, k, l) ==
    v \in [1..l -> S] /\ v[l] = x /\ \A i \in 1..k : v[i] = w[i]

LEMMA AppendAt ==
  ASSUME NEW S, NEW k \in Nat, NEW w \in [1..k -> S], NEW x \in S, NEW l \in Nat, l = k + 1
  PROVE  GoesOn(Append(w, x), w, x, S, k, l)
<1> DEFINE v == Append(w, x)
<1>1. w \in Seq(S) /\ Len(w) = k
  OBVIOUS
<1>2. /\ v \in Seq(S) /\ Len(v) = k + 1 /\ v[k + 1] = x
      /\ \A i \in 1..k : v[i] = w[i]
  BY <1>1
<1> HIDE DEF v
<1>3. v \in [1..Len(v) -> S]
  BY <1>2
<1>4. v \in [1..l -> S]
  BY <1>2, <1>3
<1> QED
  BY <1>2, <1>4 DEF v, GoesOn

LEMMA TightGoesOn ==
  ASSUME Layers, NEW m \in Known \ {Start}, NEW lk \in Links, Arrives(m, lk), NEW w \in Tight(lk[1])
  PROVE  Append(w, lk) \in Tight(m) /\ Append(w, lk)[dist[m]] = lk
<1> DEFINE n == lk[1]
           d == dist[n]
           l == dist[m]
           v == Append(w, lk)
<1>1. n \in Known /\ d \in Nat /\ l = d + 1 /\ l \in Nat /\ lk[2] = m
  BY DEF Layers, Distances, Arrivals
<1>2. /\ w \in [1..d -> Links] /\ At(w, d) = n /\ Chained(w, d)
      /\ \A k \in 1..d : w[k][2] \in Known \ {Start} /\ Arrives(w[k][2], w[k])
  BY DEF Tight
<1> HIDE DEF n, d, l
<1>3. GoesOn(v, w, lk, Links, d, l)
  BY <1>1, <1>2, AppendAt
<1>4. v \in [1..l -> Links] /\ v[l] = lk /\ \A i \in 1..d : v[i] = w[i]
  BY <1>3 DEF GoesOn
<1> HIDE DEF v
<1>5. \A i \in 0..d : At(v, i) = At(w, i)
  BY <1>1, <1>4 DEF At
<1>6. At(v, l) = m
  BY <1>1, <1>4 DEF At
<1>7. ASSUME NEW i \in 1..l
      PROVE  v[i][1] = At(v, i - 1) /\ v[i][2] \in Known \ {Start} /\ Arrives(v[i][2], v[i])
  <2>1. CASE i = l
    <3>1. i - 1 = d /\ d \in 0..d /\ v[i] = lk
      BY <1>1, <1>4, <2>1
    <3> QED
      BY <1>1, <1>2, <1>5, <3>1 DEF n
  <2>2. CASE i # l
    <3>1. i \in 1..d /\ i - 1 \in 0..d
      BY <1>1, <2>2
    <3> QED
      BY <1>2, <1>4, <1>5, <3>1 DEF Chained
  <2> QED
    BY <2>1, <2>2
<1> QED
  BY <1>4, <1>6, <1>7 DEF Tight, Chained, l, v

LEMMA TightComesFrom ==
  ASSUME Layers, NEW m \in Known \ {Start}, NEW w \in Tight(m)
  PROVE  \E lk \in Links : \E v \in Tight(lk[1]) : Arrives(m, lk) /\ w = Append(v, lk)
<1> DEFINE l == dist[m]
           d == l - 1
           lk == w[l]
           v == [k \in 1..d |-> w[k]]
<1>1. /\ w \in [1..l -> Links] /\ At(w, l) = m /\ Chained(w, l)
      /\ \A k \in 1..l : w[k][2] \in Known \ {Start} /\ Arrives(w[k][2], w[k])
  BY DEF Tight
<1>2. l \in Nat /\ l # 0
  <2>1. l \in Nat
    BY DEF Layers, Distances
  <2>2. l = 0 => m = Start
    BY <1>1 DEF At
  <2> QED
    BY <2>1, <2>2
<1>3. d \in Nat /\ l = d + 1 /\ l \in 1..l /\ \A i \in 1..d : i \in 1..l
  BY <1>2
<1>4. lk \in Links /\ lk[2] = m /\ Arrives(m, lk) /\ lk[1] = At(w, d)
  BY <1>1, <1>2, <1>3 DEF At, Chained
<1>5. lk[1] \in Known /\ l = dist[lk[1]] + 1 /\ dist[lk[1]] \in Nat
  BY <1>4 DEF Layers, Arrivals, Distances
<1>6. v \in [1..d -> Links] /\ \A i \in 1..d : v[i] = w[i]
  BY <1>1, <1>3
<1>7. w = Append(v, lk)
  <2> HIDE DEF v, lk, d, l
  <2>1. GoesOn(Append(v, lk), v, lk, Links, d, l)
    BY <1>2, <1>3, <1>4, <1>6, AppendAt
  <2> DEFINE u == Append(v, lk)
  <2>2. u \in [1..l -> Links] /\ u[l] = lk /\ \A i \in 1..d : u[i] = v[i]
    BY <2>1 DEF GoesOn
  <2> HIDE DEF u
  <2>3. \A i \in 1..l : w[i] = u[i]
    <3>1. \A i \in 1..l : i = l \/ i \in 1..d
      BY <1>3
    <3> QED
      BY <1>6, <2>2, <3>1 DEF lk
  <2>4. w = u
    <3>1. w = [i \in 1..l |-> w[i]] /\ u = [i \in 1..l |-> u[i]]
      BY <1>1, <2>2
    <3> QED
      BY <2>3, <3>1
  <2> QED
    BY <2>4 DEF u
<1>8. dist[lk[1]] = d
  <2> HIDE DEF lk
  <2> QED
    BY <1>3, <1>5
<1>9. v \in Tight(lk[1])
  <2> HIDE DEF v, lk, d, l
  <2>1. \A i \in 0..d : At(v, i) = At(w, i)
    BY <1>3, <1>6 DEF At
  <2>2. At(v, d) = lk[1]
    BY <1>3, <1>4, <2>1
  <2>3. ASSUME NEW i \in 1..d
        PROVE  v[i][1] = At(v, i - 1) /\ v[i][2] \in Known \ {Start} /\ Arrives(v[i][2], v[i])
    <3>1. i \in 1..l /\ i - 1 \in 0..d
      BY <1>3
    <3> QED
      BY <1>1, <1>6, <2>1, <3>1 DEF Chained
  <2> QED
    BY <1>6, <1>8, <2>2, <2>3 DEF Tight, Chained
<1> HIDE DEF v, lk
<1> QED
  BY <1>4, <1>7, <1>9

LEMMA PredsAre ==
  ASSUME Layers, NEW n \in Known \ {Start}
  PROVE  /\ Len(preds[n]) \in Nat /\ DOMAIN preds[n] = 1..Len(preds[n]) /\ Len(preds[n]) # 0
         /\ \A i \in DOMAIN preds[n] :
              /\ preds[n][i] \in Links /\ Arrives(n, preds[n][i]) /\ preds[n][i][2] = n
              /\ preds[n][i][1] \in Known /\ dist[n] = dist[preds[n][i][1]] + 1
<1>1. preds[n] \in Seq(Links) /\ preds[n] # <<>>
  BY DEF Layers, Arrivals
<1>2. ASSUME NEW i \in DOMAIN preds[n]
      PROVE  preds[n][i] \in Links /\ Arrives(n, preds[n][i])
  BY <1>1, <1>2 DEF Arrives
<1>3. ASSUME NEW lk \in Links, Arrives(n, lk)
      PROVE  lk[2] = n /\ lk[1] \in Known /\ dist[n] = dist[lk[1]] + 1
  BY <1>3 DEF Layers, Arrivals
<1>4. Len(preds[n]) \in Nat /\ DOMAIN preds[n] = 1..Len(preds[n]) /\ Len(preds[n]) # 0
  BY <1>1
<1>5. ASSUME NEW i \in DOMAIN preds[n]
      PROVE  preds[n][i][2] = n /\ preds[n][i][1] \in Known /\ dist[n] = dist[preds[n][i][1]] + 1
  BY <1>2, <1>3
<1> QED
  BY <1>2, <1>4, <1>5

(***************************************************************************)
(* There is a tight way to every node that is known; it visits a node      *)
(* once, so distances are below the number of nodes.                       *)
(***************************************************************************)
LEMMA TightExists ==
  ASSUME Layers, NEW n \in Known
  PROVE  Tight(n) # {}
<1> DEFINE bad == {x \in Known : Tight(x) = {}}
           far == {dist[x] : x \in bad}
           d == Min(far)
<1> SUFFICES ASSUME bad # {} PROVE FALSE
  OBVIOUS
<1>1. \A x \in Known : dist[x] \in Nat
  BY DEF Layers, Distances
<1>2. far \in SUBSET Nat /\ far # {}
  BY <1>1
<1>3. d \in far /\ \A k \in far : d <= k
  <2> HIDE DEF far
  <2> QED
    BY <1>2, LeastNatural
<1> HIDE DEF d
<1>4. PICK x \in bad : d = dist[x]
  BY <1>3
<1>5. x \in Known \ {Start}
  BY TightStart
<1> DEFINE lk == preds[x][1]
<1>6. lk \in Links /\ Arrives(x, lk) /\ lk[1] \in Known /\ dist[x] = dist[lk[1]] + 1
  <2>1. 1 \in DOMAIN preds[x]
    BY <1>5, PredsAre
  <2> QED
    BY <1>5, <2>1, PredsAre
<1> HIDE DEF lk
<1>7. lk[1] \notin bad
  <2> PICK y : y = lk[1]
    OBVIOUS
  <2>1. y \in Known /\ dist[x] = dist[y] + 1 /\ dist[y] \in Nat
    BY <1>1, <1>6
  <2>2. y \in bad => d <= dist[y]
    BY <1>3
  <2>3. y \notin bad
    BY <1>4, <2>1, <2>2
  <2> QED
    BY <2>3
<1>8. PICK v \in Tight(lk[1]) : TRUE
  BY <1>6, <1>7
<1>9. Append(v, lk) \in Tight(x)
  BY <1>5, <1>6, TightGoesOn
<1> QED
  BY <1>9

LEMMA DistanceBound ==
  ASSUME Layers, NEW n \in Known
  PROVE  dist[n] <= Cardinality(Node) - 1
<1>1. PICK w \in Tight(n) : TRUE
  BY TightExists
<1> DEFINE D == 0..dist[n]
           at == [i \in D |-> At(w, i)]
<1>2. dist[n] \in Nat /\ Known \subseteq Node
  BY DEF Layers, Distances
<1>3. \A i \in D : at[i] \in Known /\ dist[at[i]] = i
  BY TightLayers
<1>4. at \in [D -> Node]
  BY <1>2, <1>3
<1> HIDE DEF at
<1>5. \A i, j \in D : at[i] = at[j] => i = j
  BY <1>3
<1>6. at \in Injection(D, Node)
  BY <1>4, <1>5 DEF Injection, IsInjective
<1>7. Cardinality(D) = dist[n] + 1
  BY <1>2, FS_Interval
<1>8. Cardinality(D) <= Cardinality(Node)
  BY <1>6, NodesAreOrdered, FS_Injection DEF ExistsInjection
<1>9. Cardinality(Node) \in Nat
  BY NodesAreOrdered, FS_CardinalityType
<1> QED
  BY <1>2, <1>7, <1>8, <1>9

-----------------------------------------------------------------------------
(***************************************************************************)
(* The graph, and the reference: a way of k links is a chain of them.      *)
(***************************************************************************)
Link == Node \X Node \X Nat

Once(s) == \A i, j \in 1..Len(s) : s[i] = s[j] => i = j

(* A link is in the list of its source, at its place. *)
Placed(lists) ==
    /\ lists \in [Node -> Seq(Link)]
    /\ \A n \in Node : \A i \in 1..Len(lists[n]) : lists[n][i][1] = n /\ lists[n][i][3] = i

AdjType == Placed(adj)

GraphType == AdjType /\ ends \in Node \X Node

LEMMA LinksAre ==
  ASSUME AdjType
  PROVE  /\ \A lk \in Links : lk[1] \in Node /\ lk[2] \in Node /\ lk \in ToSet(adj[lk[1]])
         /\ \A n \in Node :
              /\ adj[n] \in Seq(Links) /\ Once(adj[n])
              /\ \A lk : lk \in ToSet(adj[n]) <=> lk \in Links /\ lk[1] = n
<1>1. ASSUME NEW n \in Node
      PROVE  /\ adj[n] \in Seq(Link) /\ DOMAIN adj[n] = 1..Len(adj[n])
             /\ \A lk \in ToSet(adj[n]) : lk \in Link /\ lk[1] = n
             /\ Once(adj[n])
  <2>1. adj[n] \in Seq(Link)
    BY DEF AdjType, Placed
  <2>2. \A i \in 1..Len(adj[n]) : adj[n][i][1] = n /\ adj[n][i][3] = i
    BY DEF AdjType, Placed
  <2>3. \A lk \in ToSet(adj[n]) : lk \in Link /\ lk[1] = n
    BY <2>1, <2>2 DEF ToSet
  <2>4. Once(adj[n])
    <3> SUFFICES ASSUME NEW i \in 1..Len(adj[n]), NEW j \in 1..Len(adj[n]), adj[n][i] = adj[n][j]
                 PROVE  i = j
      BY DEF Once
    <3>1. adj[n][i][3] = i /\ adj[n][j][3] = j
      BY <2>2
    <3> QED
      BY <3>1
  <2> QED
    BY <2>1, <2>3, <2>4
<1>2. ASSUME NEW lk \in Links
      PROVE  lk[1] \in Node /\ lk[2] \in Node /\ lk \in ToSet(adj[lk[1]])
  <2>1. PICK n \in Node : lk \in ToSet(adj[n])
    BY DEF Links
  <2>2. lk \in Link /\ lk[1] = n
    BY <1>1, <2>1
  <2> QED
    BY <2>1, <2>2 DEF Link
<1>3. ASSUME NEW n \in Node, NEW lk
      PROVE  lk \in ToSet(adj[n]) <=> lk \in Links /\ lk[1] = n
  <2>1. lk \in ToSet(adj[n]) => lk \in Links /\ lk[1] = n
    BY <1>1 DEF Links
  <2>2. lk \in Links => lk \in ToSet(adj[lk[1]])
    BY <1>2
  <2> QED
    BY <2>1, <2>2
<1>4. ASSUME NEW n \in Node PROVE adj[n] \in Seq(Links)
  <2>1. \A i \in 1..Len(adj[n]) : adj[n][i] \in Links
    BY <1>1, <1>3 DEF ToSet
  <2> DEFINE k == Len(adj[n])
             s == adj[n]
  <2>2. k \in Nat /\ s = [i \in 1..k |-> s[i]] /\ \A i \in 1..k : s[i] \in Links
    BY <1>1, <2>1
  <2> HIDE DEF k, s
  <2>3. s \in Seq(Links)
    BY <2>2
  <2> QED
    BY <2>3 DEF s
<1> QED
  BY <1>1, <1>2, <1>3, <1>4

IsWay(w, k) == w \in [1..k -> Links] /\ At(w, k) = Goal /\ Chained(w, k)

LEMMA WaysAre ==
  ASSUME NEW k \in Nat \ {0}, NEW w
  PROVE  w \in Ways(k) <=> IsWay(w, k)
<1>1. 1 \in 1..k /\ k # 0 /\ \A i \in 1..k : i = 1 \/ (i - 1 \in 1..(k - 1) /\ (i - 1) + 1 = i /\ i - 1 # 0)
  OBVIOUS
<1>2. \A i \in 1..(k - 1) : i + 1 \in 1..k /\ (i + 1) - 1 = i /\ i # 0 /\ i + 1 # 1
  OBVIOUS
<1>3. ASSUME w \in Ways(k) PROVE IsWay(w, k)
  <2>1. /\ w \in [1..k -> Links] /\ w[1][1] = Start /\ w[k][2] = Goal
        /\ \A i \in 1..(k - 1) : w[i][2] = w[i + 1][1]
    BY <1>3 DEF Ways, Start, Goal
  <2>2. ASSUME NEW i \in 1..k PROVE w[i][1] = At(w, i - 1)
    <3>1. CASE i = 1
      BY <2>1, <3>1 DEF At
    <3>2. CASE i # 1
      <4>1. i - 1 \in 1..(k - 1) /\ (i - 1) + 1 = i /\ i - 1 # 0
        BY <1>1, <3>2
      <4>2. w[i - 1][2] = w[(i - 1) + 1][1]
        BY <2>1, <4>1
      <4> QED
        BY <4>1, <4>2 DEF At
    <3> QED
      BY <3>1, <3>2
  <2> QED
    BY <1>1, <2>1, <2>2 DEF IsWay, At, Chained
<1>4. ASSUME IsWay(w, k) PROVE w \in Ways(k)
  <2>1. w \in [1..k -> Links] /\ w[k][2] = Goal /\ \A i \in 1..k : w[i][1] = At(w, i - 1)
    BY <1>1, <1>4 DEF IsWay, At, Chained
  <2>2. w[1][1] = Start
    BY <1>1, <2>1 DEF At
  <2>3. ASSUME NEW i \in 1..(k - 1) PROVE w[i][2] = w[i + 1][1]
    <3>1. w[i + 1][1] = At(w, (i + 1) - 1)
      BY <1>2, <2>1
    <3> QED
      BY <1>2, <3>1 DEF At
  <2> QED
    BY <2>1, <2>2, <2>3 DEF Ways, Start, Goal
<1> QED
  BY <1>3, <1>4

(***************************************************************************)
(* What is known is shortest: no way is shorter than the distance of the   *)
(* goal, and those of that many links are the tight ones.                  *)
(***************************************************************************)
LEMMA WaysAreKnown ==
  ASSUME Layers, Complete, NEW k \in Nat, NEW w, IsWay(w, k)
  PROVE  \A i \in 0..k : At(w, i) \in Known /\ dist[At(w, i)] \in Nat /\ dist[At(w, i)] <= i
<1> DEFINE good(i) == At(w, i) \in Known /\ dist[At(w, i)] <= i
           bad == {i \in 0..k : ~good(i)}
           i == Min(bad)
<1>0. \A x \in Known : dist[x] \in Nat
  BY DEF Layers, Distances
<1> SUFFICES ASSUME bad # {} PROVE FALSE
  BY <1>0
<1>1. bad \in SUBSET Nat
  OBVIOUS
<1>2. i \in bad /\ \A j \in bad : i <= j
  <2> HIDE DEF bad
  <2> QED
    BY <1>1, LeastNatural
<1> HIDE DEF i
<1>3. w \in [1..k -> Links] /\ \A j \in 1..k : w[j][1] = At(w, j - 1)
  BY DEF IsWay, Chained
<1>4. i # 0
  BY <1>2 DEF Layers, Distances, At
<1>5. i \in 1..k /\ i - 1 \in 0..k /\ (i - 1) + 1 = i
  BY <1>2, <1>4
<1>6. good(i - 1)
  <2>1. i - 1 \notin bad
    BY <1>2, <1>5
  <2> QED
    BY <1>5, <2>1
<1>7. w[i] \in Links /\ w[i][1] = At(w, i - 1) /\ At(w, i) = w[i][2]
  BY <1>3, <1>4, <1>5 DEF At
<1>8. Reached(w[i])
  BY <1>6, <1>7 DEF Complete
<1>9. At(w, i) \in Known /\ dist[At(w, i)] <= dist[At(w, i - 1)] + 1
  BY <1>7, <1>8 DEF Reached
<1> PICK x, y : x = dist[At(w, i)] /\ y = dist[At(w, i - 1)]
  OBVIOUS
<1>10. x \in Nat /\ y \in Nat /\ x <= y + 1 /\ y <= i - 1 /\ i \in Nat
  BY <1>0, <1>2, <1>6, <1>9
<1>11. good(i)
  BY <1>9, <1>10
<1> QED
  BY <1>2, <1>11

LEMMA ShortWaysAreTight ==
  ASSUME Layers, Complete, NEW w, Goal \in Known, IsWay(w, dist[Goal])
  PROVE  w \in Tight(Goal)
<1> DEFINE k == dist[Goal]
<1>0. k \in Nat /\ \A x \in Known : dist[x] \in Nat
  BY DEF Layers, Distances
<1>1. \A i \in 0..k : At(w, i) \in Known /\ dist[At(w, i)] \in Nat /\ dist[At(w, i)] <= i
  BY <1>0, WaysAreKnown
<1>2. /\ w \in [1..k -> Links] /\ At(w, k) = Goal /\ Chained(w, k)
      /\ \A j \in 1..k : w[j] \in Links /\ w[j][1] = At(w, j - 1) /\ w[j][2] = At(w, j)
  BY DEF IsWay, Chained, At
<1>3. \A i \in 1..k : Reached(w[i])
  <2> TAKE i \in 1..k
  <2>1. i - 1 \in 0..k
    BY <1>0
  <2> QED
    BY <1>1, <1>2, <2>1 DEF Complete
<1>4. \A i \in 0..k : dist[At(w, i)] = i
  <2> DEFINE bad == {i \in 0..k : dist[At(w, i)] # i}
             far == {k - i : i \in bad}
             m == Min(far)
             i == k - m
  <2> SUFFICES ASSUME bad # {} PROVE FALSE
    OBVIOUS
  <2>1. far \in SUBSET Nat /\ far # {}
    BY <1>0
  <2>2. m \in far /\ \A j \in far : m <= j
    <3> HIDE DEF far
    <3> QED
      BY <2>1, LeastNatural
  <2> HIDE DEF m
  <2>3. i \in bad /\ \A j \in bad : j <= i
    <3>1. PICK y \in bad : m = k - y
      BY <2>2
    <3>2. i = y /\ y \in Nat
      BY <1>0, <3>1
    <3>3. ASSUME NEW j \in bad PROVE j <= i
      <4>1. m <= k - j /\ j \in Nat
        BY <1>0, <2>2
      <4> QED
        BY <1>0, <3>1, <3>2, <4>1
    <3> QED
      BY <3>2, <3>3
  <2> HIDE DEF i
  <2>4. i \in 0..k /\ dist[At(w, i)] # i
    BY <2>3
  <2>5. i # k
    BY <1>2, <2>4
  <2>6. i + 1 \in 1..k /\ i + 1 \in 0..k /\ (i + 1) - 1 = i /\ i \in Nat
    BY <1>0, <2>4, <2>5
  <2>7. dist[At(w, i + 1)] = i + 1
    <3>1. i + 1 \notin bad
      BY <2>3, <2>6
    <3> QED
      BY <2>6, <3>1
  <2>8. dist[At(w, i + 1)] <= dist[At(w, i)] + 1
    <3>1. w[i + 1][2] = At(w, i + 1) /\ w[i + 1][1] = At(w, i) /\ Reached(w[i + 1])
      BY <1>2, <1>3, <2>6
    <3> QED
      BY <3>1 DEF Reached
  <2> PICK x : x = dist[At(w, i)]
    OBVIOUS
  <2>9. x \in Nat /\ x <= i /\ i + 1 <= x + 1
    BY <1>1, <2>4, <2>7, <2>8
  <2> QED
    BY <2>4, <2>6, <2>9
<1>5. ASSUME NEW i \in 1..k
      PROVE  w[i][2] \in Known \ {Start} /\ Arrives(w[i][2], w[i])
  <2>1. i \in 0..k /\ i - 1 \in 0..k /\ i = (i - 1) + 1 /\ i # 0
    BY <1>0
  <2>2. dist[w[i][1]] = i - 1 /\ dist[w[i][2]] = i /\ w[i][2] \in Known
    BY <1>1, <1>2, <1>4, <2>1
  <2>3. dist[Start] = 0
    BY DEF Layers, Distances
  <2> QED
    BY <1>3, <2>1, <2>2, <2>3 DEF Reached
<1> QED
  BY <1>2, <1>5 DEF Tight

LEMMA ShortestAre ==
  ASSUME Layers, Complete, Start # Goal
  PROVE  Shortest = IF Goal \in Known THEN Tight(Goal) ELSE {}
<1> DEFINE hops == {k \in 1..(Cardinality(Node) - 1) : Ways(k) # {}}
           d == dist[Goal]
<1>0. Cardinality(Node) \in Nat
  BY NodesAreOrdered, FS_CardinalityType
<1>1. Shortest = IF hops = {} THEN {} ELSE Ways(Min(hops))
  BY DEF Shortest, Start, Goal
<1>2. ASSUME NEW k \in hops PROVE Goal \in Known /\ d <= k
  <2>1. k \in Nat \ {0}
    BY <1>0
  <2>2. PICK w \in Ways(k) : TRUE
    OBVIOUS
  <2>3. IsWay(w, k)
    BY <2>1, <2>2, WaysAre
  <2>4. k \in 0..k
    BY <2>1
  <2>5. At(w, k) \in Known /\ dist[At(w, k)] <= k
    BY <2>1, <2>3, <2>4, WaysAreKnown
  <2> QED
    BY <2>3, <2>5 DEF IsWay
<1>3. CASE Goal \notin Known
  <2>1. hops = {}
    BY <1>2, <1>3
  <2> QED
    BY <1>1, <1>3, <2>1
<1>4. CASE Goal \in Known
  <2>1. d \in Nat /\ d <= Cardinality(Node) - 1
    BY <1>4, DistanceBound DEF Layers, Distances
  <2>2. d # 0
    <3>1. PICK w \in Tight(Goal) : TRUE
      BY <1>4, TightExists
    <3> QED
      BY <3>1 DEF Tight, At
  <2>3. ASSUME NEW w PROVE w \in Ways(d) <=> w \in Tight(Goal)
    <3>1. w \in Ways(d) <=> IsWay(w, d)
      BY <2>1, <2>2, WaysAre
    <3>2. w \in Tight(Goal) => IsWay(w, d)
      BY DEF Tight, IsWay
    <3> QED
      BY <1>4, <3>1, <3>2, ShortWaysAreTight
  <2>4. Ways(d) = Tight(Goal)
    BY <2>3
  <2>5. d \in hops
    BY <1>0, <1>4, <2>1, <2>2, <2>4, TightExists
  <2>6. Min(hops) = d
    <3>1. hops \in SUBSET Nat
      BY <1>0
    <3> HIDE DEF hops
    <3>2. Min(hops) \in hops /\ \A x \in hops : Min(hops) <= x
      BY <2>5, <3>1, LeastNatural
    <3> DEFINE m == Min(hops)
    <3>3. d <= m /\ m <= d /\ m \in Nat
      <4>1. m \in hops
        BY <3>2
      <4> HIDE DEF m
      <4>2. d <= m /\ m \in Nat
        BY <1>2, <3>1, <4>1
      <4> QED
        BY <2>5, <3>2, <4>2 DEF m
    <3> HIDE DEF m, d
    <3>4. m = d
      BY <2>1, <3>3
    <3> QED
      BY <3>4 DEF m
  <2>7. hops # {}
    BY <2>5
  <2> HIDE DEF hops
  <2> QED
    BY <1>1, <1>4, <2>4, <2>6, <2>7
<1> QED
  BY <1>3, <1>4

-----------------------------------------------------------------------------
(***************************************************************************)
(* Back-tracking.  Its recursion has a solution, since each step back is   *)
(* one nearer to the start.                                                *)
(***************************************************************************)
OneMore(before, lk) == [j \in DOMAIN before |-> Append(before[j], lk)]

BackStep(g, n) ==
    IF n = Start THEN << <<>> >>
    ELSE FlattenSeq([i \in DOMAIN preds[n] |-> OneMore(g[preds[n][i][1]], preds[n][i])])

BackTo == CHOOSE g : g = [n \in Known |-> BackStep(g, n)]

LEMMA BacktrackUnfolded == Backtrack = BackTo[Goal]
BY DEF Backtrack, BackTo, BackStep, OneMore, Start, Goal, Known

Near(k) == {n \in Known : dist[n] < k}

LEMMA NearPreds ==
  ASSUME Layers, NEW k \in Nat, NEW n \in Near(k), n # Start, NEW i \in DOMAIN preds[n]
  PROVE  preds[n][i][1] \in Near(k - 1)
<1>1. n \in Known \ {Start} /\ dist[n] < k
  BY DEF Near
<1> PICK x : x = preds[n][i][1]
  OBVIOUS
<1>2. x \in Known /\ dist[n] = dist[x] + 1 /\ dist[x] \in Nat
  BY <1>1, PredsAre DEF Layers, Distances
<1>3. x \in Near(k - 1)
  BY <1>1, <1>2 DEF Near
<1> QED
  BY <1>3

LEMMA BackExists ==
  ASSUME Layers, NEW k \in Nat
  PROVE  \E g : g = [n \in Near(k) |-> BackStep(g, n)]
<1> DEFINE solves(g, j) == g = [n \in Near(j) |-> BackStep(g, n)]
           without == {j \in Nat : ~ \E g : solves(g, j)}
           m == Min(without)
<1> SUFFICES ASSUME without # {} PROVE FALSE
  OBVIOUS
<1>1. m \in without /\ \A j \in without : m <= j
  BY LeastNatural
<1> HIDE DEF m
<1>0. \A n \in Known : dist[n] \in Nat
  BY DEF Layers, Distances
<1>2. Near(0) = {}
  BY <1>0 DEF Near
<1>3. m \in Nat /\ m # 0
  <2>1. solves([n \in {} |-> 0], 0)
    BY <1>2
  <2> QED
    BY <1>1, <2>1
<1>4. m - 1 \in Nat /\ m - 1 \notin without
  BY <1>1, <1>3
<1>5. PICK g : solves(g, m - 1)
  BY <1>4
<1> DEFINE h == [n \in Near(m) |-> BackStep(g, n)]
<1>6. ASSUME NEW n \in Near(m - 1) PROVE n \in Near(m) /\ h[n] = g[n]
  <2>1. n \in Near(m)
    BY <1>0, <1>3 DEF Near
  <2>2. g[n] = BackStep(g, n)
    BY <1>5
  <2> QED
    BY <2>1, <2>2
<1> HIDE DEF h
<1>7. ASSUME NEW n \in Near(m) PROVE BackStep(h, n) = BackStep(g, n)
  <2>1. CASE n = Start
    BY <2>1 DEF BackStep
  <2>2. CASE n # Start
    <3>1. \A i \in DOMAIN preds[n] : h[preds[n][i][1]] = g[preds[n][i][1]]
      BY <1>3, <1>6, <2>2, NearPreds
    <3> QED
      BY <2>2, <3>1 DEF BackStep
  <2> QED
    BY <2>1, <2>2
<1>8. solves(h, m)
  BY <1>7 DEF h
<1> QED
  BY <1>1, <1>8

LEMMA AllNear ==
  ASSUME Layers
  PROVE  Near(Cardinality(Node)) = Known /\ Cardinality(Node) \in Nat
<1>1. Cardinality(Node) \in Nat
  BY NodesAreOrdered, FS_CardinalityType
<1>2. \A n \in Known : dist[n] < Cardinality(Node)
  <2> TAKE n \in Known
  <2>1. dist[n] <= Cardinality(Node) - 1 /\ dist[n] \in Nat
    BY DistanceBound DEF Layers, Distances
  <2> QED
    BY <1>1, <2>1
<1> QED
  BY <1>1, <1>2 DEF Near

LEMMA BackSolves ==
  ASSUME Layers, NEW n \in Known
  PROVE  BackTo[n] = BackStep(BackTo, n)
<1>1. \E g : g = [m \in Known |-> BackStep(g, m)]
  BY AllNear, BackExists
<1>2. BackTo = [m \in Known |-> BackStep(BackTo, m)]
  BY <1>1 DEF BackTo
<1> QED
  BY <1>2

(***************************************************************************)
(* So it lists the tight ways to each node: over each of the links it is   *)
(* reached by, and the last link tells which.                              *)
(***************************************************************************)
LEMMA AppendsDiffer ==
  ASSUME NEW S, NEW k \in Nat, NEW v \in [1..k -> S], NEW w \in [1..k -> S], NEW x \in S,
         Append(v, x) = Append(w, x)
  PROVE  v = w
<1> DEFINE l == k + 1
<1>1. l \in Nat /\ l = k + 1
  OBVIOUS
<1> HIDE DEF l
<1>2. GoesOn(Append(v, x), v, x, S, k, l) /\ GoesOn(Append(w, x), w, x, S, k, l)
  BY <1>1, AppendAt
<1>3. \A i \in 1..k : v[i] = w[i]
  BY <1>2 DEF GoesOn
<1> QED
  BY <1>3

BackParts(n) == [i \in DOMAIN preds[n] |-> OneMore(BackTo[preds[n][i][1]], preds[n][i])]

LEMMA BackListsNext ==
  ASSUME Layers, NEW n \in Known \ {Start},
         \A i \in DOMAIN preds[n] : Lists(BackTo[preds[n][i][1]], Tight(preds[n][i][1]))
  PROVE  Lists(BackTo[n], Tight(n))
<1> DEFINE T == Tight(n)
           seqs == BackParts(n)
           P == DOMAIN preds[n]
           by(i) == preds[n][i]
           from(i) == preds[n][i][1]
           back(i) == BackTo[preds[n][i][1]]
<1>1. Len(preds[n]) \in Nat /\ P = 1..Len(preds[n])
  BY PredsAre
<1>2. BackTo[n] = FlattenSeq(seqs)
  BY BackSolves DEF BackStep, BackParts
<1>3. seqs = [i \in P |-> OneMore(back(i), by(i))]
  BY DEF BackParts
<1>4. ASSUME NEW i \in P
      PROVE  /\ from(i) \in Known /\ by(i) \in Links /\ Arrives(n, by(i))
             /\ Len(back(i)) \in Nat /\ DOMAIN back(i) = 1..Len(back(i))
             /\ \A j \in DOMAIN back(i) : back(i)[j] \in Tight(from(i))
             /\ \A j \in DOMAIN back(i) : Append(back(i)[j], by(i)) \in T /\ Append(back(i)[j], by(i))[dist[n]] = by(i)
  <2>1. from(i) \in Known /\ by(i) \in Links /\ Arrives(n, by(i)) /\ by(i)[1] = from(i)
    BY PredsAre
  <2>2. Len(back(i)) \in Nat /\ back(i) \in [1..Len(back(i)) -> Tight(from(i))]
    BY DEF Lists
  <2> HIDE DEF by, from, back
  <2>3. DOMAIN back(i) = 1..Len(back(i)) /\ \A j \in DOMAIN back(i) : back(i)[j] \in Tight(from(i))
    BY <2>2
  <2>4. ASSUME NEW w \in Tight(from(i))
        PROVE  Append(w, by(i)) \in T /\ Append(w, by(i))[dist[n]] = by(i)
    BY <2>1, TightGoesOn
  <2>5. ASSUME NEW j \in DOMAIN back(i)
        PROVE  Append(back(i)[j], by(i)) \in T /\ Append(back(i)[j], by(i))[dist[n]] = by(i)
    <3>1. back(i)[j] \in Tight(from(i))
      BY <2>3
    <3> HIDE DEF T
    <3> QED
      BY <2>4, <3>1
  <2> QED
    BY <2>1, <2>2, <2>3, <2>5
<1> HIDE DEF T, seqs
<1>5. ASSUME NEW i \in P PROVE seqs[i] \in Seq(T) /\ Len(seqs[i]) = Len(back(i))
  <2>1. seqs[i] = [j \in 1..Len(back(i)) |-> Append(back(i)[j], by(i))]
    BY <1>3, <1>4 DEF OneMore
  <2> DEFINE l == Len(back(i))
  <2>2. l \in Nat /\ seqs[i] \in [1..l -> T]
    BY <1>4, <2>1
  <2> HIDE DEF l
  <2>3. seqs[i] \in Seq(T) /\ Len(seqs[i]) = l
    BY <2>2
  <2> QED
    BY <2>3 DEF l
<1>6. ASSUME NEW i \in P, NEW j \in 1..Len(seqs[i])
      PROVE  j \in DOMAIN back(i) /\ seqs[i][j] = Append(back(i)[j], by(i))
  BY <1>3, <1>4, <1>5 DEF OneMore
<1>7. seqs \in Seq(Seq(T)) /\ Len(seqs) = Len(preds[n])
  <2> DEFINE l == Len(preds[n])
  <2>1. l \in Nat /\ seqs \in [1..l -> Seq(T)]
    BY <1>1, <1>3, <1>5
  <2> HIDE DEF l
  <2>2. seqs \in Seq(Seq(T)) /\ Len(seqs) = l
    BY <2>1
  <2> QED
    BY <2>2 DEF l
<1>8. ASSUME NEW w \in T
      PROVE  \E i \in 1..Len(seqs) : \E j \in 1..Len(seqs[i]) : seqs[i][j] = w
  <2>1. PICK lk \in Links : \E v \in Tight(lk[1]) : Arrives(n, lk) /\ w = Append(v, lk)
    BY TightComesFrom DEF T
  <2>2. PICK v \in Tight(lk[1]) : Arrives(n, lk) /\ w = Append(v, lk)
    BY <2>1
  <2>3. PICK i \in P : by(i) = lk /\ from(i) = lk[1]
    BY <2>2 DEF Arrives
  <2>4. PICK j \in 1..Len(back(i)) : back(i)[j] = v
    BY <2>2, <2>3 DEF Lists
  <2>5. i \in 1..Len(seqs) /\ j \in 1..Len(seqs[i])
    BY <1>1, <1>5, <1>7
  <2>6. seqs[i][j] = w
    <3> HIDE DEF back, by, from, P
    <3>1. seqs[i][j] = Append(back(i)[j], by(i))
      BY <1>6, <2>5
    <3> QED
      BY <2>2, <2>3, <2>4, <3>1
  <2> QED
    BY <2>5, <2>6
<1>9. ASSUME NEW i \in 1..Len(seqs), NEW k \in 1..Len(seqs),
             NEW j \in 1..Len(seqs[i]), NEW l \in 1..Len(seqs[k]), seqs[i][j] = seqs[k][l]
      PROVE  i = k /\ j = l
  <2>1. i \in P /\ k \in P
    BY <1>1, <1>7
  <2>2. j \in DOMAIN back(i) /\ l \in DOMAIN back(k) /\ Append(back(i)[j], by(i)) = Append(back(k)[l], by(k))
    BY <1>6, <1>9, <2>1
  <2>3. by(i) = by(k)
    <3> HIDE DEF by, from, back, P
    <3>1. Append(back(i)[j], by(i))[dist[n]] = by(i) /\ Append(back(k)[l], by(k))[dist[n]] = by(k)
      BY <1>4, <2>1, <2>2
    <3> QED
      BY <2>2, <3>1
  <2>4. i = k
    BY <2>1, <2>3 DEF Layers, Arrivals
  <2>5. back(i)[j] \in Tight(from(i)) /\ back(i)[l] \in Tight(from(i)) /\ from(i) \in Known
    BY <1>4, <2>1, <2>2, <2>4
  <2>6. back(i)[j] = back(i)[l]
    <3> DEFINE d == dist[from(i)]
               v == back(i)[j]
               w == back(i)[l]
    <3>1. d \in Nat /\ v \in [1..d -> Links] /\ w \in [1..d -> Links] /\ by(i) \in Links
      <4> HIDE DEF by, from, back
      <4>1. dist[from(i)] \in Nat
        BY <2>5 DEF Layers, Distances
      <4>2. v \in [1..d -> Links] /\ w \in [1..d -> Links]
        BY <2>5 DEF Tight
      <4> QED
        BY <1>4, <2>1, <4>1, <4>2
    <3>2. Append(v, by(i)) = Append(w, by(i))
      BY <2>2, <2>4
    <3> HIDE DEF d, v, w, by
    <3>3. v = w
      BY <3>1, <3>2, AppendsDiffer
    <3> QED
      BY <3>3 DEF v, w
  <2>7. j = l
    <3>1. j \in 1..Len(back(i)) /\ l \in 1..Len(back(i))
      BY <1>4, <2>1, <2>2, <2>4
    <3> QED
      BY <2>1, <2>6, <3>1 DEF Lists
  <2> QED
    BY <2>4, <2>7
<1>10. Lists(FlattenSeq(seqs), T)
  <2>1. seqs \in Seq(Seq(T))
    BY <1>7
  <2>2. AllAppear(seqs, T)
    BY <1>8 DEF AllAppear
  <2>3. NoneTwice(seqs)
    BY <1>9 DEF NoneTwice
  <2> QED
    BY <2>1, <2>2, <2>3, FlattenLists
<1> QED
  BY <1>2, <1>10 DEF T

LEMMA BackLists ==
  ASSUME Layers, NEW n \in Known
  PROVE  Lists(BackTo[n], Tight(n))
<1> DEFINE bad == {x \in Known : ~Lists(BackTo[x], Tight(x))}
           far == {dist[x] : x \in bad}
           d == Min(far)
<1> SUFFICES ASSUME bad # {} PROVE FALSE
  OBVIOUS
<1>1. \A x \in Known : dist[x] \in Nat
  BY DEF Layers, Distances
<1>2. far \in SUBSET Nat /\ far # {}
  BY <1>1
<1>3. d \in far /\ \A k \in far : d <= k
  <2> HIDE DEF far
  <2> QED
    BY <1>2, LeastNatural
<1> HIDE DEF d
<1>4. PICK x \in bad : d = dist[x]
  BY <1>3
<1>5. x # Start
  <2>1. BackTo[Start] = << <<>> >> /\ Tight(Start) = {<<>>}
    BY BackSolves, TightStart DEF BackStep, Layers, Distances
  <2>2. Lists(<< <<>> >>, {<<>>})
    <3> DEFINE s == <<>>
               t == <<s>>
    <3>1. Len(t) = 1 /\ t[1] = s /\ t \in [1..1 -> {s}]
      OBVIOUS
    <3> HIDE DEF s, t
    <3>2. Lists(t, {s})
      BY <3>1 DEF Lists
    <3> QED
      BY <3>2 DEF s, t
  <2> QED
    BY <2>1, <2>2
<1>6. ASSUME NEW i \in DOMAIN preds[x]
      PROVE  Lists(BackTo[preds[x][i][1]], Tight(preds[x][i][1]))
  <2> PICK y : y = preds[x][i][1]
    OBVIOUS
  <2>1. y \in Known /\ dist[x] = dist[y] + 1 /\ dist[y] \in Nat
    BY <1>1, <1>5, PredsAre
  <2>2. y \in bad => d <= dist[y]
    BY <1>3
  <2>3. y \notin bad
    BY <1>4, <2>1, <2>2
  <2> QED
    BY <2>1, <2>3
<1>7. Lists(BackTo[x], Tight(x))
  BY <1>5, <1>6, BackListsNext
<1> QED
  BY <1>7

(***************************************************************************)
(* Sorting a list of paths of one length lists the same paths, none before *)
(* one with lower ids.                                                     *)
(***************************************************************************)
Sorted(ps) == \A i, j \in DOMAIN ps : i < j => ~Lower(Ids(ps[j]), Ids(ps[i]))

LEMMA OrderedLists ==
  ASSUME AdjType, NEW l \in Nat, NEW S \in SUBSET [1..l -> Links], NEW ps, Lists(ps, S)
  PROVE  Lists(Ordered(ps), S) /\ Sorted(Ordered(ps))
<1> DEFINE n == Len(ps)
           P == 1..n
           l1 == l + 1
           key == [i \in P |-> Append(Ids(ps[i]), i)]
           at == ListedBy(key)
<1>1. /\ n \in Nat /\ ps \in [P -> S] /\ DOMAIN ps = P
      /\ \A x \in S : \E i \in P : ps[i] = x
      /\ \A i, j \in P : ps[i] = ps[j] => i = j
  BY DEF Lists
<1>2. Ordered(ps) = [i \in P |-> ps[at[i]]]
  BY <1>1 DEF Ordered
<1>3. l1 \in Nat /\ l1 = l + 1 /\ \A i \in P : i \in Nat /\ Ids(ps[i]) \in [1..l -> Nat]
  <2>1. \A lk \in Links : lk[2] \in Nat
    BY LinksAre, NodesAreOrdered
  <2>2. \A i \in P : ps[i] \in [1..l -> Links]
    BY <1>1
  <2> QED
    BY <2>1, <2>2 DEF Ids
<1> HIDE DEF l1, n
<1>4. ASSUME NEW i \in P PROVE GoesOn(key[i], Ids(ps[i]), i, Nat, l, l1)
  <2>1. GoesOn(Append(Ids(ps[i]), i), Ids(ps[i]), i, Nat, l, l1)
    BY <1>3, AppendAt
  <2> QED
    BY <2>1
<1>5. ASSUME NEW i \in P
      PROVE  key[i] \in [1..l1 -> Nat] /\ key[i][l1] = i /\ \A j \in 1..l : key[i][j] = Ids(ps[i])[j]
  BY <1>4 DEF GoesOn
<1>6. IsFiniteSet(P) /\ Cardinality(P) = n /\ DOMAIN key = P
  BY <1>1, FS_Interval
<1>7. DOMAIN at = P
  <2>1. at = Listed(P, {p \in P \X P : Lower(key[p[1]], key[p[2]])})
    BY <1>6 DEF ListedBy
  <2> HIDE DEF at, key, P
  <2>2. DOMAIN at = 1..n
    BY <1>6, <2>1 DEF Listed
  <2> QED
    BY <2>2 DEF P
<1> HIDE DEF key
<1>8. key \in [P -> [1..l1 -> Nat]]
  <2>1. key = [i \in P |-> key[i]]
    BY DEF key
  <2> QED
    BY <1>5, <2>1
<1>9. \A i, j \in P : key[i] = key[j] => i = j
  <2> TAKE i, j \in P
  <2>1. key[i][l1] = i /\ key[j][l1] = j
    BY <1>5
  <2> QED
    BY <2>1
<1> HIDE DEF P
<1>10. Lists(at, P) /\ InOrder(at, key)
  <2> HIDE DEF at
  <2>1. l1 \in Nat
    BY <1>3
  <2>2. Lists(ListedBy(key), P) /\ InOrder(ListedBy(key), key)
    BY <1>6, <1>8, <1>9, <2>1, KeysOrder
  <2> QED
    BY <2>2 DEF at
<1> HIDE DEF at
<1>11. Len(at) = n
  <2>1. Len(at) \in Nat /\ DOMAIN at = 1..Len(at)
    BY <1>10 DEF Lists
  <2> DEFINE m == Len(at)
  <2>2. m \in Nat /\ 1..m = 1..n
    BY <1>7, <2>1 DEF P
  <2> HIDE DEF m
  <2>3. m = n
    <3>1. m <= n
      <4>1. m # 0 => m \in 1..m
        BY <2>2
      <4> QED
        BY <1>1, <2>2, <4>1
    <3>2. n <= m
      <4>1. n # 0 => n \in 1..n
        BY <1>1
      <4> QED
        BY <1>1, <2>2, <4>1
    <3> QED
      BY <1>1, <2>2, <3>1, <3>2
  <2> QED
    BY <2>3 DEF m
<1>12. /\ at \in [P -> P] /\ (\A x \in P : \E i \in P : at[i] = x)
       /\ \A i, j \in P : at[i] = at[j] => i = j
  BY <1>7, <1>10, <1>11 DEF Lists, P
<1> DEFINE os == [i \in P |-> ps[at[i]]]
<1>13. os \in [P -> S] /\ Len(os) = n
  <2>1. os \in [P -> S]
    BY <1>1, <1>12
  <2> HIDE DEF os
  <2>2. Len(os) = n
    BY <1>1, <2>1 DEF P
  <2> QED
    BY <2>1, <2>2
<1>14. \A x \in S : \E i \in P : os[i] = x
  <2> TAKE x \in S
  <2>1. PICK j \in P : ps[j] = x
    BY <1>1
  <2>2. PICK i \in P : at[i] = j
    BY <1>12
  <2> QED
    BY <2>1, <2>2
<1>15. \A i, j \in P : os[i] = os[j] => i = j
  <2> TAKE i, j \in P
  <2>1. at[i] \in P /\ at[j] \in P /\ (at[i] = at[j] => i = j)
    BY <1>12
  <2> QED
    BY <1>1, <2>1
<1>16. ASSUME NEW i \in P, NEW j \in P, i < j PROVE ~Lower(Ids(os[j]), Ids(os[i]))
  <2> DEFINE x == at[i]
             y == at[j]
             ix == Ids(ps[x])
             iy == Ids(ps[y])
  <2>1. Lower(key[x], key[y])
    BY <1>10, <1>16, <1>11 DEF InOrder, P
  <2>2. x \in P /\ y \in P /\ os[i] = ps[x] /\ os[j] = ps[y]
    BY <1>12
  <2> HIDE DEF x, y, os
  <2>3. DOMAIN key[x] = 1..l1 /\ ix \in [1..l -> Nat] /\ iy \in [1..l -> Nat]
    BY <1>3, <1>5, <2>2
  <2>4. \A k \in 1..l : key[x][k] = ix[k] /\ key[y][k] = iy[k]
    BY <1>5, <2>2
  <2> HIDE DEF ix, iy
  <2>5. PICK k \in 1..l1 : key[x][k] < key[y][k] /\ \A m \in 1..(k - 1) : key[x][m] = key[y][m]
    BY <2>1, <2>3 DEF Lower
  <2>6. ASSUME NEW c \in 1..l, iy[c] < ix[c], \A m \in 1..(c - 1) : iy[m] = ix[m] PROVE FALSE
    <3>1. ix[c] \in Nat /\ iy[c] \in Nat
      BY <2>3
    <3>2. CASE k < c
      <4>1. k \in 1..(c - 1) /\ k \in 1..l
        BY <1>3, <3>2
      <4>2. ix[k] \in Nat /\ iy[k] = ix[k] /\ ix[k] < iy[k]
        BY <2>3, <2>4, <2>5, <2>6, <4>1
      <4> QED
        BY <4>2
    <3>3. CASE k = c
      <4>1. ix[c] < iy[c]
        BY <2>4, <2>5, <3>3
      <4> QED
        BY <2>6, <3>1, <4>1
    <3>4. CASE k > c
      <4>1. c \in 1..(k - 1)
        BY <1>3, <3>4
      <4>2. ix[c] = iy[c]
        BY <2>4, <2>5, <4>1
      <4> QED
        BY <2>6, <3>1, <4>2
    <3> QED
      BY <1>3, <3>2, <3>3, <3>4
  <2>7. ~Lower(iy, ix)
    BY <2>3, <2>6 DEF Lower
  <2> QED
    BY <2>2, <2>7 DEF ix, iy
<1>17. Lists(os, S) /\ Sorted(os)
  <2> HIDE DEF os
  <2>1. DOMAIN os = P
    BY <1>13
  <2> QED
    BY <1>1, <1>13, <1>14, <1>15, <1>16, <2>1 DEF Lists, Sorted, P
<1> QED
  BY <1>2, <1>17

LEMMA PathsAreShortest ==
  ASSUME GraphType, Layers, Complete, Start # Goal, NEW ps,
         ps = IF Goal \in Known THEN Ordered(Backtrack) ELSE <<>>
  PROVE  Lists(ps, Shortest) /\ Sorted(ps)
<1>1. CASE Goal \in Known
  <2> DEFINE l == dist[Goal]
             S == Tight(Goal)
             back == BackTo[Goal]
  <2>1. l \in Nat
    BY <1>1 DEF Layers, Distances
  <2>2. S \in SUBSET [1..l -> Links] /\ AdjType
    BY DEF Tight, GraphType
  <2>3. Lists(back, S) /\ ps = Ordered(back) /\ Shortest = S
    BY <1>1, BackLists, BacktrackUnfolded, ShortestAre
  <2> HIDE DEF l, S, back
  <2> QED
    BY <2>1, <2>2, <2>3, OrderedLists
<1>2. CASE Goal \notin Known
  <2>1. ps = <<>> /\ Shortest = {}
    BY <1>2, ShortestAre
  <2>2. Lists(<<>>, {}) /\ Sorted(<<>>)
    BY DEF Lists, Sorted
  <2> QED
    BY <2>1, <2>2
<1> QED
  BY <1>1, <1>2

-----------------------------------------------------------------------------
(***************************************************************************)
(* The queue of a search has its nodes in the order of their distances,    *)
(* and these are of two neighbouring levels.                               *)
(***************************************************************************)
LEMMA HeadAndTail ==
  ASSUME NEW S, NEW s \in Seq(S), s # <<>>
  PROVE  /\ Head(s) \in S /\ Tail(s) \in Seq(S) /\ Len(s) = Len(Tail(s)) + 1
         /\ s[1] = Head(s) /\ \A i \in 1..Len(Tail(s)) : Tail(s)[i] = s[i + 1]
         /\ ToSet(s) = {Head(s)} \cup ToSet(Tail(s))
         /\ Once(s) => Once(Tail(s)) /\ Head(s) \notin ToSet(Tail(s))
<1> DEFINE t == Tail(s)
<1>1. /\ Head(s) \in S /\ t \in Seq(S) /\ Len(s) = Len(t) + 1 /\ s[1] = Head(s)
      /\ \A i \in 1..Len(t) : t[i] = s[i + 1]
  OBVIOUS
<1> HIDE DEF t
<1>2. Len(t) \in Nat /\ DOMAIN t = 1..Len(t) /\ DOMAIN s = 1..Len(s)
  BY <1>1
<1>3. \A i \in 1..Len(t) : i \in 1..Len(s) /\ i + 1 \in 1..Len(s) /\ i + 1 # 1
  BY <1>1, <1>2
<1>4. ToSet(s) = {Head(s)} \cup ToSet(t)
  <2>1. \A x \in ToSet(s) : x = Head(s) \/ x \in ToSet(t)
    <3> TAKE x \in ToSet(s)
    <3>1. PICK i \in 1..Len(s) : s[i] = x
      BY <1>2 DEF ToSet
    <3>2. CASE i = 1
      BY <1>1, <3>1, <3>2
    <3>3. CASE i # 1
      <4>1. i - 1 \in 1..Len(t) /\ (i - 1) + 1 = i
        BY <1>1, <1>2, <3>3
      <4>2. t[i - 1] = x
        BY <1>1, <3>1, <4>1
      <4> QED
        BY <1>2, <4>1, <4>2 DEF ToSet
    <3> QED
      BY <3>2, <3>3
  <2>2. \A x \in ToSet(t) : x \in ToSet(s)
    BY <1>1, <1>2, <1>3 DEF ToSet
  <2>3. Head(s) \in ToSet(s)
    <3>1. 1 \in 1..Len(s)
      BY <1>1, <1>2
    <3> QED
      BY <1>1, <1>2, <3>1 DEF ToSet
  <2> QED
    BY <2>1, <2>2, <2>3
<1>5. ASSUME Once(s) PROVE Once(t) /\ Head(s) \notin ToSet(t)
  <2>1. \A i, j \in 1..Len(t) : t[i] = t[j] => i + 1 = j + 1
    BY <1>1, <1>3, <1>5 DEF Once
  <2>2. \A i, j \in 1..Len(t) : i + 1 = j + 1 => i = j
    BY <1>2
  <2>3. \A i \in 1..Len(t) : t[i] # Head(s)
    <3> TAKE i \in 1..Len(t)
    <3>1. 1 \in 1..Len(s)
      BY <1>1, <1>2
    <3> QED
      BY <1>1, <1>3, <1>5, <3>1 DEF Once
  <2> QED
    BY <1>2, <2>1, <2>2, <2>3 DEF Once, ToSet
<1> QED
  BY <1>1, <1>4, <1>5 DEF t

LEMMA Appended ==
  ASSUME NEW S, NEW s \in Seq(S), NEW x \in S
  PROVE  /\ Append(s, x) \in Seq(S) /\ Len(Append(s, x)) = Len(s) + 1
         /\ \A i \in 1..Len(s) : Append(s, x)[i] = s[i]
         /\ Append(s, x)[Len(s) + 1] = x
         /\ ToSet(Append(s, x)) = ToSet(s) \cup {x}
         /\ Once(s) /\ x \notin ToSet(s) => Once(Append(s, x))
<1> DEFINE t == Append(s, x)
<1>1. /\ t \in Seq(S) /\ Len(t) = Len(s) + 1 /\ t[Len(s) + 1] = x
      /\ \A i \in 1..Len(s) : t[i] = s[i]
  OBVIOUS
<1> HIDE DEF t
<1>2. Len(s) \in Nat /\ DOMAIN t = 1..Len(t) /\ DOMAIN s = 1..Len(s)
  BY <1>1
<1>3. Len(s) + 1 \in 1..Len(t) /\ \A i \in 1..Len(t) : i \in 1..Len(s) \/ i = Len(s) + 1
  BY <1>1, <1>2
<1>4. \A i \in 1..Len(s) : i \in 1..Len(t)
  BY <1>1, <1>2
<1>5. ToSet(t) = ToSet(s) \cup {x}
  <2>1. \A y \in ToSet(t) : y \in ToSet(s) \cup {x}
    BY <1>1, <1>2, <1>3 DEF ToSet
  <2>2. \A y \in ToSet(s) : y \in ToSet(t)
    BY <1>1, <1>2, <1>4 DEF ToSet
  <2>3. x \in ToSet(t)
    BY <1>1, <1>2, <1>3 DEF ToSet
  <2> QED
    BY <2>1, <2>2, <2>3
<1>6. ASSUME Once(s), x \notin ToSet(s) PROVE Once(t)
  <2>1. \A i \in 1..Len(s) : s[i] # x
    BY <1>2, <1>6 DEF ToSet
  <2> QED
    BY <1>1, <1>3, <1>6, <2>1 DEF Once
<1> QED
  BY <1>1, <1>5, <1>6 DEF t

InLevels(q, d) ==
    \A i, j \in 1..Len(q) : i <= j => d[q[i]] <= d[q[j]] /\ d[q[j]] <= d[q[i]] + 1

LEMMA LevelsTail ==
  ASSUME NEW S, NEW q \in Seq(S), q # <<>>, NEW d, InLevels(q, d)
  PROVE  /\ InLevels(Tail(q), d)
         /\ \A x \in ToSet(Tail(q)) : d[Head(q)] <= d[x] /\ d[x] <= d[Head(q)] + 1
<1> DEFINE t == Tail(q)
           h == Head(q)
<1>1. /\ t \in Seq(S) /\ Len(q) = Len(t) + 1 /\ q[1] = h
      /\ \A i \in 1..Len(t) : t[i] = q[i + 1]
  BY HeadAndTail
<1> HIDE DEF t, h
<1>2. Len(t) \in Nat /\ DOMAIN t = 1..Len(t)
  BY <1>1
<1>3. /\ 1 \in 1..Len(q)
      /\ \A i \in 1..Len(t) : i + 1 \in 1..Len(q) /\ 1 <= i + 1
      /\ \A i, j \in 1..Len(t) : i <= j => i + 1 <= j + 1
  BY <1>1, <1>2
<1>4. InLevels(t, d)
  BY <1>1, <1>3 DEF InLevels
<1>5. ASSUME NEW x \in ToSet(t) PROVE d[h] <= d[x] /\ d[x] <= d[h] + 1
  <2>1. PICK i \in 1..Len(t) : t[i] = x
    BY <1>2 DEF ToSet
  <2>2. d[q[1]] <= d[q[i + 1]] /\ d[q[i + 1]] <= d[q[1]] + 1
    BY <1>3 DEF InLevels
  <2> QED
    BY <1>1, <2>1, <2>2
<1> QED
  BY <1>4, <1>5 DEF t, h

LEMMA LevelsAppend ==
  ASSUME NEW S, NEW d \in [S -> Nat], NEW q \in Seq(S), NEW x \in S, NEW c \in Nat,
         InLevels(q, d), d[x] = c + 1, \A y \in ToSet(q) : c <= d[y] /\ d[y] <= c + 1
  PROVE  InLevels(Append(q, x), d)
<1> DEFINE t == Append(q, x)
           n == Len(q)
<1>1. n \in Nat /\ Len(t) = n + 1 /\ t[n + 1] = x /\ \A i \in 1..n : t[i] = q[i]
  BY Appended
<1>2. \A i \in 1..n : q[i] \in S /\ c <= d[q[i]] /\ d[q[i]] <= c + 1 /\ d[q[i]] \in Nat
  BY DEF ToSet
<1> HIDE DEF t
<1> SUFFICES ASSUME NEW i \in 1..Len(t), NEW j \in 1..Len(t), i <= j
             PROVE  d[t[i]] <= d[t[j]] /\ d[t[j]] <= d[t[i]] + 1
  BY DEF InLevels, t
<1>3. CASE j \in 1..n
  <2>1. i \in 1..n
    BY <1>1, <1>3
  <2> QED
    BY <1>1, <1>3, <2>1 DEF InLevels
<1>4. CASE j = n + 1 /\ i \in 1..n
  BY <1>1, <1>2, <1>4
<1>5. CASE j = n + 1 /\ i = n + 1
  BY <1>1, <1>5
<1> HIDE DEF n
<1> QED
  BY <1>1, <1>3, <1>4, <1>5

-----------------------------------------------------------------------------
(***************************************************************************)
(* The search of equal_cost_paths, in its course: nothing that is known is *)
(* more than one link further than what waits; a node that waits no more   *)
(* has its links followed; and no link is followed twice.                  *)
(***************************************************************************)
Busy == todo # <<>>

Fifo ==
    /\ queue \in Seq(Known) /\ todo \in Seq(Links) /\ InLevels(queue, dist)
    /\ Busy =>
         /\ cur \in Known /\ Once(todo) /\ \A lk \in ToSet(todo) : lk[1] = cur
         /\ \A x \in ToSet(queue) : dist[cur] <= dist[x] /\ dist[x] <= dist[cur] + 1

Pending(n) == n \in ToSet(queue) \/ (Busy /\ n = cur)

Nearby ==
    \A n \in Known :
        /\ \A x \in ToSet(queue) : dist[n] <= dist[x] + 1
        /\ Busy => dist[n] <= dist[cur] + 1

Followed ==
    /\ \A lk \in Links : lk[1] \in Known => Pending(lk[1]) \/ Reached(lk)
    /\ Busy => \A lk \in Links : lk[1] = cur => lk \in ToSet(todo) \/ Reached(lk)

NotYet ==
    /\ Once(queue) /\ (Busy => cur \notin ToSet(queue))
    /\ \A lk \in Links :
         lk[2] \in Known \ {Start} =>
           /\ lk[1] \in ToSet(queue) => ~Arrives(lk[2], lk)
           /\ Busy /\ lk \in ToSet(todo) => ~Arrives(lk[2], lk)

Searching == Layers /\ Fifo /\ Nearby /\ Followed /\ NotYet

LEMMA PopFifo ==
  ASSUME AdjType, Layers, Fifo, Popleft
  PROVE  /\ Fifo'
         /\ cur' \in Known /\ ToSet(queue) = {cur'} \cup ToSet(queue')
         /\ Known' = Known /\ dist' = dist /\ ends' = ends /\ adj' = adj /\ preds' = preds
         /\ Links' = Links
         /\ \A lk : lk \in ToSet(todo') <=> lk \in Links /\ lk[1] = cur'
<1> DEFINE h == Head(queue)
           t == Tail(queue)
<1>1. /\ cur' = h /\ todo' = adj[h] /\ queue' = t /\ queue # <<>>
      /\ Known' = Known /\ dist' = dist /\ ends' = ends /\ adj' = adj /\ preds' = preds
      /\ Links' = Links
  BY DEF Popleft, Rest, equalCost, Known, Links
<1>2. /\ h \in Known /\ t \in Seq(Known) /\ ToSet(queue) = {h} \cup ToSet(t)
  BY <1>1, HeadAndTail DEF Fifo
<1>3. /\ InLevels(t, dist)
      /\ \A x \in ToSet(t) : dist[h] <= dist[x] /\ dist[x] <= dist[h] + 1
  BY <1>1, LevelsTail DEF Fifo
<1>4. h \in Node
  BY <1>2 DEF Layers, Distances
<1>5. /\ adj[h] \in Seq(Links) /\ Once(adj[h])
      /\ \A lk : lk \in ToSet(adj[h]) <=> lk \in Links /\ lk[1] = h
  BY <1>4, LinksAre
<1> HIDE DEF h, t
<1>6. Fifo'
  <2>1. queue' \in Seq(Known') /\ todo' \in Seq(Links') /\ InLevels(queue', dist')
    BY <1>1, <1>2, <1>3, <1>5
  <2>2. cur' \in Known' /\ Once(todo') /\ \A lk \in ToSet(todo') : lk[1] = cur'
    BY <1>1, <1>2, <1>5
  <2>3. \A x \in ToSet(queue') : dist'[cur'] <= dist'[x] /\ dist'[x] <= dist'[cur'] + 1
    BY <1>1, <1>3
  <2> QED
    BY <2>1, <2>2, <2>3 DEF Fifo
<1> QED
  BY <1>1, <1>2, <1>5, <1>6

LEMMA PopSearches ==
  ASSUME AdjType, Searching, Popleft
  PROVE  Searching'
<1>1. /\ Fifo' /\ todo = <<>>
      /\ cur' \in Known /\ ToSet(queue) = {cur'} \cup ToSet(queue')
      /\ Known' = Known /\ dist' = dist /\ ends' = ends /\ adj' = adj /\ preds' = preds
      /\ Links' = Links
      /\ \A lk : lk \in ToSet(todo') <=> lk \in Links /\ lk[1] = cur'
  BY PopFifo DEF Searching, Popleft
<1>2. Start' = Start /\ \A n, lk : Arrives(n, lk)' <=> Arrives(n, lk)
  BY <1>1 DEF Start, Arrives
<1>3. \A lk : Reached(lk)' <=> Reached(lk)
  BY <1>1, <1>2 DEF Reached
<1>4. Layers'
  BY <1>1, <1>2 DEF Searching, Layers, Distances, Arrivals
<1>5. Nearby'
  BY <1>1 DEF Searching, Nearby, Busy
<1>6. Followed'
  <2>1. ASSUME NEW lk \in Links, lk[1] \in Known PROVE Pending(lk[1])' \/ Reached(lk)
    <3>1. lk[1] \in ToSet(queue) \/ Reached(lk)
      BY <1>1, <2>1 DEF Searching, Followed, Pending, Busy
    <3>2. CASE lk[1] \in ToSet(queue')
      BY <3>2 DEF Pending
    <3>3. CASE lk[1] = cur'
      <4>1. lk \in ToSet(todo')
        BY <1>1, <3>3
      <4>2. todo' # <<>>
        BY <4>1 DEF ToSet
      <4> QED
        BY <3>3, <4>2 DEF Pending, Busy
    <3> QED
      BY <1>1, <3>1, <3>2, <3>3
  <2> QED
    BY <1>1, <1>3, <2>1 DEF Followed
<1>7. NotYet'
  <2>1. Once(queue') /\ cur' \notin ToSet(queue')
    <3>1. queue # <<>> /\ queue' = Tail(queue) /\ cur' = Head(queue) /\ queue \in Seq(Known)
      BY DEF Popleft, Rest, Searching, Fifo
    <3> QED
      BY <3>1, HeadAndTail DEF Searching, NotYet
  <2>2. ASSUME NEW lk \in Links, lk[2] \in Known \ {Start}, lk[1] \in ToSet(queue') \/ lk \in ToSet(todo')
        PROVE  ~Arrives(lk[2], lk)
    BY <1>1, <2>2 DEF Searching, NotYet
  <2> QED
    BY <1>1, <1>2, <2>1, <2>2 DEF NotYet
<1> QED
  BY <1>1, <1>4, <1>5, <1>6, <1>7 DEF Searching

(***************************************************************************)
(* What looking at one link changes: its far end is known from then on,    *)
(* and reached by it exactly if that loses no step.                        *)
(***************************************************************************)
IsPut(g, f, n, x) ==
    /\ DOMAIN g = DOMAIN f \cup {n} /\ g[n] = x /\ \A m \in DOMAIN f : m # n => g[m] = f[m]
    /\ g = [m \in DOMAIN f \cup {n} |-> g[m]]

LEMMA PutIs ==
  ASSUME NEW f, NEW n, NEW x
  PROVE  IsPut(Put(f, n, x), f, n, x)
BY DEF Put, IsPut

Looked(lk, n) ==
    /\ queue' = IF n \in Known THEN queue ELSE Append(queue, n)
    /\ Known' = Known \cup {n} /\ \A x \in Known : dist'[x] = dist[x]
    /\ dist'[n] <= dist[cur] + 1 /\ (n \notin Known => dist'[n] = dist[cur] + 1)
    /\ \A m \in Known' \ {Start}, x \in Links :
         Arrives(m, x)' <=> \/ m \in Known /\ Arrives(m, x)
                            \/ m = n /\ x = lk /\ dist'[n] = dist[cur] + 1

AtHand(lk, n) ==
    /\ lk = Head(todo) /\ lk \in Links /\ lk[1] = cur /\ lk[2] = n
    /\ n \in Node /\ todo # <<>> /\ cur \in Known
    /\ todo' = Tail(todo) /\ todo' \in Seq(Links) /\ Once(todo')
    /\ lk \notin ToSet(todo') /\ ToSet(todo) = {lk} \cup ToSet(todo')
    /\ cur' = cur /\ adj' = adj /\ ends' = ends /\ Start' = Start /\ Links' = Links
    /\ dist[cur] \in Nat
    /\ n \in Known => dist[n] \in Nat /\ dist[n] <= dist[cur] + 1

LEMMA LookIs ==
  ASSUME AdjType, Searching, LookEqualCost, NEW lk, lk = Head(todo), NEW n, n = lk[2]
  PROVE  AtHand(lk, n)
<1>1. /\ todo # <<>> /\ todo' = Tail(todo) /\ cur' = cur /\ adj' = adj /\ ends' = ends
      /\ Links' = Links
  BY DEF LookEqualCost, Links
<1>2. /\ cur \in Known /\ Once(todo) /\ todo \in Seq(Links)
      /\ \A x \in ToSet(todo) : x[1] = cur
  BY <1>1 DEF Searching, Fifo, Busy
<1>3. /\ lk \in Links /\ Tail(todo) \in Seq(Links) /\ Once(Tail(todo))
      /\ lk \notin ToSet(Tail(todo)) /\ ToSet(todo) = {lk} \cup ToSet(Tail(todo))
  BY <1>1, <1>2, HeadAndTail
<1>4. dist[cur] \in Nat /\ (n \in Known => dist[n] \in Nat /\ dist[n] <= dist[cur] + 1)
  BY <1>1, <1>2 DEF Searching, Nearby, Busy, Layers, Distances
<1>5. n \in Node /\ lk[1] = cur
  BY <1>2, <1>3, LinksAre
<1> QED
  BY <1>1, <1>2, <1>3, <1>4, <1>5 DEF Start, AtHand

LEMMA LookedNew ==
  ASSUME Searching, LookEqualCost, NEW lk, NEW n, AtHand(lk, n), n \notin Known
  PROVE  Looked(lk, n) /\ Layers'
<1> DEFINE nd == dist[cur] + 1
<1>1. /\ lk = Head(todo) /\ lk \in Links /\ lk[1] = cur /\ lk[2] = n
      /\ n \in Node /\ cur \in Known /\ dist[cur] \in Nat
      /\ Start' = Start /\ Links' = Links
  BY DEF AtHand
<1>2. /\ dist' = Put(dist, n, nd) /\ preds' = Put(preds, n, <<lk>>) /\ queue' = Append(queue, n)
      /\ n \notin Known
  BY <1>1 DEF LookEqualCost, Known
<1> HIDE DEF nd
<1>3. /\ Known \subseteq Node /\ dist \in [Known -> Nat] /\ Start \in Known /\ dist[Start] = 0
      /\ DOMAIN preds = Known \ {Start}
  BY DEF Searching, Layers, Distances, Arrivals
<1>4. nd \in Nat /\ nd # 0
  BY <1>1 DEF nd
<1>5. /\ Known' = Known \cup {n} /\ dist'[n] = nd /\ \A x \in Known : dist'[x] = dist[x]
      /\ dist' = [x \in Known \cup {n} |-> dist'[x]]
  <2>1. IsPut(dist', dist, n, nd)
    BY <1>2, PutIs
  <2> QED
    BY <1>2, <2>1 DEF Known, IsPut
<1>6. /\ DOMAIN preds' = (Known \ {Start}) \cup {n} /\ preds'[n] = <<lk>>
      /\ \A m \in Known \ {Start} : preds'[m] = preds[m]
  <2>1. IsPut(preds', preds, n, <<lk>>)
    BY <1>2, PutIs
  <2> QED
    BY <1>2, <1>3, <2>1 DEF IsPut
<1>7. Distances'
  <2>1. dist' \in [Known' -> Nat]
    BY <1>3, <1>4, <1>5
  <2> QED
    BY <1>1, <1>3, <1>5, <2>1 DEF Distances
<1>8. ASSUME NEW m \in Known \ {Start}, NEW x
      PROVE  Arrives(m, x)' <=> Arrives(m, x)
  BY <1>6 DEF Arrives
<1>9. ASSUME NEW x PROVE Arrives(n, x)' <=> x = lk
  BY <1>6 DEF Arrives
<1>10. Arrivals'
  <2>1. DOMAIN preds' = Known' \ {Start'}
    BY <1>1, <1>2, <1>3, <1>5, <1>6
  <2>2. ASSUME NEW m \in Known' \ {Start'}
        PROVE  /\ preds'[m] \in Seq(Links') /\ preds'[m] # <<>>
               /\ \A i, j \in DOMAIN preds'[m] : preds'[m][i] = preds'[m][j] => i = j
               /\ \A x \in Links' :
                    Arrives(m, x)' => x[2] = m /\ x[1] \in Known' /\ dist'[m] = dist'[x[1]] + 1
    <3>1. CASE m = n
      <4>1. preds'[n] \in Seq(Links') /\ preds'[n] # <<>>
        BY <1>1, <1>6
      <4>2. \A i, j \in DOMAIN preds'[n] : preds'[n][i] = preds'[n][j] => i = j
        BY <1>6
      <4>3. lk[2] = n /\ lk[1] \in Known' /\ dist'[n] = dist'[lk[1]] + 1
        BY <1>1, <1>5 DEF nd
      <4> QED
        BY <1>9, <3>1, <4>1, <4>2, <4>3
    <3>2. CASE m # n
      <4>1. m \in Known \ {Start} /\ preds'[m] = preds[m]
        BY <1>1, <1>5, <1>6, <3>2
      <4>2. /\ preds[m] \in Seq(Links) /\ preds[m] # <<>>
            /\ \A i, j \in DOMAIN preds[m] : preds[m][i] = preds[m][j] => i = j
            /\ \A x \in Links : Arrives(m, x) => x[2] = m /\ x[1] \in Known /\ dist[m] = dist[x[1]] + 1
        BY <4>1 DEF Searching, Layers, Arrivals
      <4>3. ASSUME NEW x \in Links, Arrives(m, x)'
            PROVE  x[2] = m /\ x[1] \in Known' /\ dist'[m] = dist'[x[1]] + 1
        <5>1. Arrives(m, x)
          BY <1>8, <4>1, <4>3
        <5> QED
          BY <1>5, <4>1, <4>2, <5>1
      <4> QED
        BY <1>1, <4>1, <4>2, <4>3
    <3> QED
      BY <3>1, <3>2
  <2> QED
    BY <2>1, <2>2 DEF Arrivals
<1>11. Looked(lk, n)
  <2>1. ASSUME NEW m \in Known' \ {Start}, NEW x \in Links
        PROVE  Arrives(m, x)' <=> \/ m \in Known /\ Arrives(m, x)
                                  \/ m = n /\ x = lk /\ dist'[n] = dist[cur] + 1
    BY <1>2, <1>5, <1>8, <1>9 DEF nd
  <2> QED
    BY <1>1, <1>2, <1>4, <1>5, <2>1 DEF Looked, nd
<1> QED
  BY <1>7, <1>10, <1>11 DEF Layers

LEMMA LookedAgain ==
  ASSUME Searching, LookEqualCost, NEW lk, NEW n, AtHand(lk, n), n \in Known, dist[n] = dist[cur] + 1
  PROVE  Looked(lk, n) /\ Layers'
<1>1. /\ lk = Head(todo) /\ lk \in Links /\ lk[1] = cur /\ lk[2] = n
      /\ cur \in Known /\ dist[cur] \in Nat /\ todo # <<>> /\ lk \in ToSet(todo)
      /\ Start' = Start /\ Links' = Links
  BY DEF AtHand
<1>2. /\ preds' = [preds EXCEPT ![n] = Append(preds[n], lk)] /\ dist' = dist /\ queue' = queue
      /\ n \in Known /\ dist[n] = dist[cur] + 1
  BY <1>1 DEF LookEqualCost, Known
<1>3. /\ Known \subseteq Node /\ dist \in [Known -> Nat] /\ Start \in Known /\ dist[Start] = 0
      /\ DOMAIN preds = Known \ {Start}
  BY DEF Searching, Layers, Distances, Arrivals
<1>4. n # Start /\ Known' = Known
  BY <1>1, <1>2, <1>3 DEF Known
<1>5. /\ DOMAIN preds' = Known \ {Start} /\ preds'[n] = Append(preds[n], lk)
      /\ \A m \in Known \ {Start} : m # n => preds'[m] = preds[m]
  BY <1>2, <1>3, <1>4
<1>6. /\ preds[n] \in Seq(Links) /\ preds[n] # <<>> /\ Once(preds[n]) /\ DOMAIN preds[n] = 1..Len(preds[n])
      /\ \A x \in Links : Arrives(n, x) => x[2] = n /\ x[1] \in Known /\ dist[n] = dist[x[1]] + 1
  BY <1>2, <1>4 DEF Searching, Layers, Arrivals, Once
<1>7. \A x : Arrives(n, x) <=> x \in ToSet(preds[n])
  BY DEF Arrives, ToSet
<1>8. lk \notin ToSet(preds[n])
  BY <1>1, <1>2, <1>4, <1>7 DEF Searching, NotYet, Busy
<1>9. /\ preds'[n] \in Seq(Links) /\ Len(preds'[n]) = Len(preds[n]) + 1 /\ Once(preds'[n])
      /\ ToSet(preds'[n]) = ToSet(preds[n]) \cup {lk}
  BY <1>1, <1>5, <1>6, <1>8, Appended
<1>10. preds'[n] # <<>> /\ DOMAIN preds'[n] = 1..Len(preds'[n])
  BY <1>6, <1>9
<1>11. \A x : Arrives(n, x)' <=> Arrives(n, x) \/ x = lk
  <2>1. \A x : Arrives(n, x)' <=> x \in ToSet(preds'[n])
    BY DEF Arrives, ToSet
  <2> QED
    BY <1>7, <1>9, <2>1
<1>12. ASSUME NEW m \in Known \ {Start}, m # n, NEW x PROVE Arrives(m, x)' <=> Arrives(m, x)
  BY <1>5, <1>12 DEF Arrives
<1>13. Distances'
  BY <1>1, <1>2, <1>3, <1>4 DEF Distances
<1>14. Arrivals'
  <2>1. ASSUME NEW m \in Known \ {Start}
        PROVE  /\ preds'[m] \in Seq(Links) /\ preds'[m] # <<>>
               /\ \A i, j \in DOMAIN preds'[m] : preds'[m][i] = preds'[m][j] => i = j
               /\ \A x \in Links :
                    Arrives(m, x)' => x[2] = m /\ x[1] \in Known /\ dist'[m] = dist'[x[1]] + 1
    <3>1. CASE m = n
      <4>1. \A i, j \in DOMAIN preds'[n] : preds'[n][i] = preds'[n][j] => i = j
        BY <1>9, <1>10 DEF Once
      <4>2. \A x \in Links :
              Arrives(n, x)' => x[2] = n /\ x[1] \in Known /\ dist'[n] = dist'[x[1]] + 1
        BY <1>1, <1>2, <1>6, <1>11
      <4> QED
        BY <1>9, <1>10, <3>1, <4>1, <4>2
    <3>2. CASE m # n
      <4>1. preds'[m] = preds[m] /\ \A x : Arrives(m, x)' <=> Arrives(m, x)
        BY <1>5, <1>12, <3>2
      <4>2. /\ preds[m] \in Seq(Links) /\ preds[m] # <<>>
            /\ \A i, j \in DOMAIN preds[m] : preds[m][i] = preds[m][j] => i = j
            /\ \A x \in Links : Arrives(m, x) => x[2] = m /\ x[1] \in Known /\ dist[m] = dist[x[1]] + 1
        BY DEF Searching, Layers, Arrivals
      <4> QED
        BY <1>2, <4>1, <4>2
    <3> QED
      BY <3>1, <3>2
  <2> QED
    BY <1>1, <1>4, <1>5, <2>1 DEF Arrivals
<1>15. Looked(lk, n)
  <2>1. ASSUME NEW m \in Known' \ {Start}, NEW x \in Links
        PROVE  Arrives(m, x)' <=> \/ m \in Known /\ Arrives(m, x)
                                  \/ m = n /\ x = lk /\ dist'[n] = dist[cur] + 1
    BY <1>2, <1>4, <1>11, <1>12
  <2>2. dist'[n] <= dist[cur] + 1
    BY <1>1, <1>2
  <2> QED
    BY <1>2, <1>4, <2>1, <2>2 DEF Looked
<1> QED
  BY <1>13, <1>14, <1>15 DEF Layers

LEMMA LookedPast ==
  ASSUME Searching, LookEqualCost, NEW lk, NEW n, AtHand(lk, n), n \in Known, dist[n] # dist[cur] + 1
  PROVE  Looked(lk, n) /\ Layers'
<1>1. /\ lk = Head(todo) /\ lk[2] = n /\ Start' = Start /\ Links' = Links
      /\ dist[n] \in Nat /\ dist[n] <= dist[cur] + 1
  BY DEF AtHand
<1>2. preds' = preds /\ dist' = dist /\ queue' = queue /\ n \in Known /\ dist[n] # dist[cur] + 1
  BY <1>1 DEF LookEqualCost, Known
<1>3. Known' = Known /\ \A m, x : Arrives(m, x)' <=> Arrives(m, x)
  BY <1>2 DEF Known, Arrives
<1>4. Layers'
  BY <1>1, <1>2, <1>3 DEF Searching, Layers, Distances, Arrivals
<1>5. Looked(lk, n)
  BY <1>1, <1>2, <1>3 DEF Looked
<1> QED
  BY <1>4, <1>5

LEMMA LookSearches ==
  ASSUME AdjType, Searching, LookEqualCost
  PROVE  Searching'
<1> PICK lk : lk = Head(todo)
  OBVIOUS
<1> PICK n : n = lk[2]
  OBVIOUS
<1> PICK c : c = cur
  OBVIOUS
<1>0. AtHand(lk, n)
  BY LookIs
<1>1. Looked(lk, n) /\ Layers'
  BY <1>0, LookedNew, LookedAgain, LookedPast
<1>2. /\ lk \in Links /\ lk[1] = c /\ lk[2] = n
      /\ n \in Node /\ cur' = c /\ c \in Known /\ todo # <<>>
      /\ todo' \in Seq(Links) /\ Once(todo') /\ lk \notin ToSet(todo') /\ ToSet(todo) = {lk} \cup ToSet(todo')
      /\ Start' = Start /\ Links' = Links
      /\ queue' = (IF n \in Known THEN queue ELSE Append(queue, n))
      /\ Known' = Known \cup {n} /\ \A x \in Known : dist'[x] = dist[x]
      /\ dist'[n] <= dist[c] + 1 /\ (n \notin Known => dist'[n] = dist[c] + 1)
  BY <1>0, <1>1 DEF Looked, AtHand
<1>3. \A m \in Known' \ {Start}, x \in Links :
        Arrives(m, x)' <=> (m \in Known /\ Arrives(m, x)) \/ (m = n /\ x = lk /\ dist'[n] = dist[c] + 1)
  BY <1>1 DEF Looked
<1>4. /\ queue \in Seq(Known) /\ InLevels(queue, dist)
      /\ \A x \in ToSet(todo) : x[1] = c
      /\ \A x \in ToSet(queue) : x \in Known /\ dist[c] <= dist[x] /\ dist[x] <= dist[c] + 1
  <2>1. queue \in Seq(Known) => \A x \in ToSet(queue) : x \in Known
    BY DEF ToSet
  <2> QED
    BY <1>2, <2>1 DEF Searching, Fifo, Busy
<1>5. /\ dist \in [Known -> Nat] /\ dist' \in [Known' -> Nat] /\ dist[Start] = 0 /\ Start \in Known
      /\ dist'[Start] = 0 /\ dist[c] \in Nat /\ dist'[c] = dist[c]
  <2>1. dist \in [Known -> Nat] /\ Start \in Known /\ dist[Start] = 0
    BY DEF Searching, Layers, Distances
  <2>2. dist' \in [Known' -> Nat]
    BY <1>1 DEF Layers, Distances
  <2> QED
    BY <1>2, <2>1, <2>2
<1>7. /\ queue' \in Seq(Known') /\ Once(queue')
      /\ ToSet(queue') = ToSet(queue) \cup (IF n \in Known THEN {} ELSE {n})
  <2>1. queue \in Seq(Known') /\ Once(queue)
    <3>1. \A s \in Seq(Known) : s \in Seq(Known')
      BY <1>2
    <3> QED
      BY <1>4, <3>1 DEF Searching, NotYet
  <2>2. CASE n \in Known
    BY <1>2, <2>1, <2>2
  <2>3. CASE n \notin Known
    <3>1. queue' = Append(queue, n) /\ n \in Known' /\ n \notin ToSet(queue)
      BY <1>2, <1>4, <2>3
    <3> QED
      BY <2>1, <2>3, <3>1, Appended
  <2> QED
    BY <2>2, <2>3
<1>8. \A x \in ToSet(queue') : x \in Known' /\ dist[c] <= dist'[x] /\ dist'[x] <= dist[c] + 1
  BY <1>2, <1>4, <1>5, <1>7
<1>9. InLevels(queue', dist')
  <2>1. InLevels(queue, dist')
    <3>1. \A i \in 1..Len(queue) : dist'[queue[i]] = dist[queue[i]]
      BY <1>2, <1>4
    <3> QED
      BY <1>4, <3>1 DEF InLevels
  <2>2. CASE n \notin Known
    <3>1. queue' = Append(queue, n) /\ n \in Known' /\ dist'[n] = dist[c] + 1 /\ queue \in Seq(Known')
      <4>1. \A s \in Seq(Known) : s \in Seq(Known')
        BY <1>2
      <4> QED
        BY <1>2, <1>4, <2>2, <4>1
    <3>2. \A y \in ToSet(queue) : dist[c] <= dist'[y] /\ dist'[y] <= dist[c] + 1
      BY <1>2, <1>4
    <3> DEFINE k == dist[c]
    <3>3. k \in Nat /\ dist'[n] = k + 1 /\ \A y \in ToSet(queue) : k <= dist'[y] /\ dist'[y] <= k + 1
      BY <1>5, <3>1, <3>2
    <3> HIDE DEF k
    <3> QED
      BY <1>5, <2>1, <3>1, <3>3, LevelsAppend
  <2> QED
    BY <1>2, <2>1, <2>2
<1>10. Fifo'
  <2>1. \A x \in ToSet(todo') : x[1] = cur'
    BY <1>2, <1>4
  <2>2. \A x \in ToSet(queue') : dist'[cur'] <= dist'[x] /\ dist'[x] <= dist'[cur'] + 1
    BY <1>2, <1>5, <1>8
  <2> QED
    BY <1>2, <1>7, <1>9, <2>1, <2>2 DEF Fifo
<1>11. \A y \in Known' : dist'[y] <= dist[c] + 1
  BY <1>2 DEF Searching, Nearby, Busy
<1>12. Nearby'
  <2>1. ASSUME NEW y \in Known', NEW x \in ToSet(queue') PROVE dist'[y] <= dist'[x] + 1
    <3>1. dist'[y] \in Nat /\ dist'[x] \in Nat /\ dist[c] <= dist'[x] /\ dist'[y] <= dist[c] + 1
      BY <1>5, <1>8, <1>11
    <3> QED
      BY <1>5, <3>1
  <2> QED
    BY <1>2, <1>5, <1>11, <2>1 DEF Nearby
<1>13. ASSUME NEW x \in Links, x[1] \in Known, Reached(x) PROVE Reached(x)'
  <2> PICK y, m : y = x[1] /\ m = x[2]
    OBVIOUS
  <2>1. m \in Known /\ dist[m] <= dist[y] + 1 /\ (dist[m] = dist[y] + 1 => Arrives(m, x)) /\ y \in Known
    BY <1>13 DEF Reached
  <2>2. dist'[m] = dist[m] /\ dist'[y] = dist[y] /\ dist[y] \in Nat /\ m \in Known'
    BY <1>2, <1>5, <2>1
  <2>3. ASSUME dist[m] = dist[y] + 1 PROVE Arrives(m, x)'
    <3>1. m # Start
      BY <1>5, <2>2, <2>3
    <3> QED
      BY <1>3, <2>1, <2>2, <2>3, <3>1
  <2> QED
    BY <2>1, <2>2, <2>3 DEF Reached
<1>14. Reached(lk)'
  <2>1. n \in Known' /\ dist'[n] <= dist'[c] + 1
    BY <1>2, <1>5
  <2>2. ASSUME dist'[n] = dist'[c] + 1 PROVE Arrives(n, lk)'
    <3>1. n # Start
      BY <1>5, <2>2
    <3> QED
      BY <1>2, <1>3, <1>5, <2>1, <2>2, <3>1
  <2> QED
    BY <1>2, <2>1, <2>2 DEF Reached
<1>15. ASSUME NEW x \in Links, x[1] = c PROVE x \in ToSet(todo') \/ Reached(x)'
  <2>1. x \in ToSet(todo) \/ Reached(x)
    BY <1>2, <1>15 DEF Searching, Followed, Busy
  <2> QED
    BY <1>2, <1>13, <1>14, <1>15, <2>1
<1>16. Followed'
  <2>1. ASSUME NEW x \in Links, x[1] \in Known' PROVE Pending(x[1])' \/ Reached(x)'
    <3>1. CASE x[1] \in ToSet(queue')
      BY <3>1 DEF Pending
    <3>2. CASE x[1] = c /\ todo' # <<>>
      BY <1>2, <3>2 DEF Pending, Busy
    <3>3. CASE x[1] = c /\ todo' = <<>>
      <4>1. ToSet(todo') = {}
        BY <3>3 DEF ToSet
      <4> QED
        BY <1>15, <3>3, <4>1
    <3>4. CASE x[1] \notin ToSet(queue') /\ x[1] # c
      <4>1. x[1] \in Known /\ ~Pending(x[1])
        BY <1>2, <1>7, <2>1, <3>4 DEF Pending
      <4>2. Reached(x)
        BY <4>1 DEF Searching, Followed
      <4> QED
        BY <1>13, <4>1, <4>2
    <3> QED
      BY <3>1, <3>2, <3>3, <3>4
  <2> QED
    BY <1>2, <1>15, <2>1 DEF Followed
<1>17. NotYet'
  <2>1. ASSUME NEW x \in Links, x[2] \in Known' \ {Start}, x[1] \in ToSet(queue') PROVE ~Arrives(x[2], x)'
    <3>1. x # lk
      BY <1>2, <1>4, <1>7, <2>1 DEF Searching, NotYet, Busy
    <3>2. x[2] \in Known => ~Arrives(x[2], x)
      <4>1. CASE x[1] \in ToSet(queue)
        BY <2>1, <4>1 DEF Searching, NotYet
      <4>2. CASE x[1] \notin ToSet(queue)
        <5>1. x[1] \notin Known
          BY <1>7, <2>1, <4>2
        <5> QED
          BY <2>1, <5>1 DEF Searching, Layers, Arrivals
      <4> QED
        BY <4>1, <4>2
    <3> QED
      BY <1>3, <2>1, <3>1, <3>2
  <2>2. ASSUME NEW x \in Links, x[2] \in Known' \ {Start}, x \in ToSet(todo') PROVE ~Arrives(x[2], x)'
    <3>1. x # lk /\ x \in ToSet(todo)
      BY <1>2, <2>2
    <3>2. x[2] \in Known => ~Arrives(x[2], x)
      BY <1>2, <2>2, <3>1 DEF Searching, NotYet, Busy
    <3> QED
      BY <1>3, <2>2, <3>1, <3>2
  <2>4. c \notin ToSet(queue')
    BY <1>2, <1>7 DEF Searching, NotYet, Busy
  <2> QED
    BY <1>2, <1>7, <2>1, <2>2, <2>4 DEF NotYet
<1> QED
  BY <1>1, <1>10, <1>12, <1>16, <1>17 DEF Searching

LEMMA SearchedAll ==
  ASSUME Searching, todo = <<>>, queue = <<>>
  PROVE  Complete
<1>1. \A n : ~Pending(n)
  BY DEF Pending, Busy, ToSet
<1> QED
  BY <1>1 DEF Searching, Followed, Complete

LEMMA SearchStarts ==
  ASSUME NEW a \in Node, NEW b \in Node, a # b, StartEqualCost(a, b),
         todo = <<>>, preds = <<>>
  PROVE  Searching' /\ Start' # Goal'
<1>1. /\ ends' = <<a, b>> /\ dist' = [n \in {a} |-> 0] /\ queue' = <<a>> /\ todo' = <<>>
      /\ preds' = <<>> /\ adj' = adj
  BY DEF StartEqualCost
<1>2. /\ Start' = a /\ Goal' = b /\ Known' = {a} /\ dist'[a] = 0 /\ dist' \in [{a} -> Nat]
  BY <1>1 DEF Start, Goal, Known
<1>3. DOMAIN preds' = {} /\ queue' \in Seq({a}) /\ Len(queue') = 1 /\ queue'[1] = a
  BY <1>1
<1>4. ToSet(queue') = {a} /\ Once(queue') /\ InLevels(queue', dist')
  BY <1>2, <1>3 DEF ToSet, Once, InLevels
<1>5. Layers'
  BY <1>2, <1>3 DEF Layers, Distances, Arrivals
<1>6. Fifo'
  BY <1>1, <1>2, <1>3, <1>4 DEF Fifo, Busy
<1>7. Nearby' /\ Followed' /\ NotYet'
  <2>1. Nearby'
    BY <1>1, <1>2, <1>4 DEF Nearby, Busy
  <2>2. Followed'
    BY <1>1, <1>2, <1>4 DEF Followed, Busy, Pending
  <2>3. NotYet'
    BY <1>1, <1>2, <1>4 DEF NotYet, Busy
  <2> QED
    BY <2>1, <2>2, <2>3
<1> QED
  BY <1>2, <1>5, <1>6, <1>7 DEF Searching

-----------------------------------------------------------------------------
(***************************************************************************)
(* What path() traces back is a tight way.                                 *)
(***************************************************************************)
Met(from) == {Start} \cup DOMAIN from

Trail(from) ==
    /\ DOMAIN from \subseteq Known \ {Start}
    /\ \A n \in DOMAIN from : from[n] \in Links /\ from[n][1] \in Met(from) /\ Arrives(n, from[n])

TraceStep(g, from, n) == IF n = Start THEN <<>> ELSE Append(g[from[n][1]], from[n])

TraceTo(from) == CHOOSE g : g = [n \in Met(from) |-> TraceStep(g, from, n)]

LEMMA TracedUnfolded ==
  ASSUME NEW from
  PROVE  Traced(from) = TraceTo(from)[Goal]
BY DEF Traced, TraceTo, TraceStep, Met, Start, Goal

LEMMA TrailBack ==
  ASSUME Layers, NEW from, Trail(from), NEW n \in Met(from) \ {Start}, NEW m, m = from[n][1]
  PROVE  /\ n \in Known /\ from[n] \in Links /\ Arrives(n, from[n])
         /\ m \in Met(from) /\ m \in Known /\ dist[m] \in Nat /\ dist[n] = dist[m] + 1
<1>1. n \in DOMAIN from /\ n \in Known \ {Start} /\ from[n] \in Links /\ m \in Met(from) /\ Arrives(n, from[n])
  BY DEF Trail, Met
<1> QED
  BY <1>1 DEF Layers, Arrivals, Distances

NearMet(from, k) == {n \in Met(from) : dist[n] < k}

LEMMA TraceExists ==
  ASSUME Layers, NEW from, Trail(from), NEW k \in Nat
  PROVE  \E g : g = [n \in NearMet(from, k) |-> TraceStep(g, from, n)]
<1> DEFINE solves(g, j) == g = [n \in NearMet(from, j) |-> TraceStep(g, from, n)]
           without == {j \in Nat : ~ \E g : solves(g, j)}
           m == Min(without)
<1> SUFFICES ASSUME without # {} PROVE FALSE
  OBVIOUS
<1>1. m \in without /\ \A j \in without : m <= j
  BY LeastNatural
<1> HIDE DEF m
<1>0. \A n \in Met(from) : n \in Known /\ dist[n] \in Nat
  BY DEF Met, Trail, Layers, Distances
<1>2. NearMet(from, 0) = {}
  BY <1>0 DEF NearMet
<1>3. m \in Nat /\ m # 0
  <2>1. solves([n \in {} |-> 0], 0)
    BY <1>2
  <2> QED
    BY <1>1, <2>1
<1>4. m - 1 \in Nat /\ m - 1 \notin without
  BY <1>1, <1>3
<1>5. PICK g : solves(g, m - 1)
  BY <1>4
<1> DEFINE h == [n \in NearMet(from, m) |-> TraceStep(g, from, n)]
<1>6. ASSUME NEW n \in NearMet(from, m - 1) PROVE n \in NearMet(from, m) /\ h[n] = g[n]
  <2>1. n \in NearMet(from, m)
    BY <1>0, <1>3 DEF NearMet
  <2>2. g[n] = TraceStep(g, from, n)
    BY <1>5
  <2> QED
    BY <2>1, <2>2
<1> HIDE DEF h
<1>7. ASSUME NEW n \in NearMet(from, m) PROVE TraceStep(h, from, n) = TraceStep(g, from, n)
  <2>1. CASE n = Start
    BY <2>1 DEF TraceStep
  <2>2. CASE n # Start
    <3>1. n \in Met(from) \ {Start} /\ dist[n] < m
      BY <2>2 DEF NearMet
    <3> PICK y : y = from[n][1]
      OBVIOUS
    <3>2. y \in Met(from) /\ dist[y] \in Nat /\ dist[n] = dist[y] + 1
      BY <3>1, TrailBack
    <3>3. y \in NearMet(from, m - 1)
      BY <1>3, <3>1, <3>2 DEF NearMet
    <3> QED
      BY <1>6, <2>2, <3>3 DEF TraceStep
  <2> QED
    BY <2>1, <2>2
<1>8. solves(h, m)
  BY <1>7 DEF h
<1> QED
  BY <1>1, <1>8

LEMMA TraceSolves ==
  ASSUME Layers, NEW from, Trail(from), NEW n \in Met(from)
  PROVE  TraceTo(from)[n] = TraceStep(TraceTo(from), from, n)
<1>1. Met(from) \subseteq Known
  BY DEF Met, Trail, Layers, Distances
<1>2. NearMet(from, Cardinality(Node)) = Met(from) /\ Cardinality(Node) \in Nat
  BY <1>1, AllNear DEF Near, NearMet
<1>3. \E g : g = [m \in Met(from) |-> TraceStep(g, from, m)]
  BY <1>2, TraceExists
<1>4. TraceTo(from) = [m \in Met(from) |-> TraceStep(TraceTo(from), from, m)]
  BY <1>3 DEF TraceTo
<1> QED
  BY <1>4

LEMMA TraceIsTight ==
  ASSUME Layers, NEW from, Trail(from), Goal \in Met(from)
  PROVE  Traced(from) \in Tight(Goal)
<1> DEFINE bad == {x \in Met(from) : TraceTo(from)[x] \notin Tight(x)}
           far == {dist[x] : x \in bad}
           d == Min(far)
<1>1. \A x \in Met(from) : x \in Known /\ dist[x] \in Nat
  BY DEF Met, Trail, Layers, Distances
<1> SUFFICES ASSUME bad # {} PROVE FALSE
  BY TracedUnfolded
<1>2. far \in SUBSET Nat /\ far # {}
  BY <1>1
<1>3. d \in far /\ \A k \in far : d <= k
  <2> HIDE DEF far
  <2> QED
    BY <1>2, LeastNatural
<1> HIDE DEF d
<1>4. PICK x \in bad : d = dist[x]
  BY <1>3
<1>5. TraceTo(from)[x] = TraceStep(TraceTo(from), from, x)
  BY TraceSolves
<1>6. x # Start
  BY <1>5, TightStart DEF TraceStep
<1> PICK y : y = from[x][1]
  OBVIOUS
<1>7. /\ x \in Known \ {Start} /\ from[x] \in Links /\ Arrives(x, from[x])
      /\ y \in Met(from) /\ dist[y] \in Nat /\ dist[x] = dist[y] + 1
  BY <1>6, TrailBack
<1>8. TraceTo(from)[y] \in Tight(y)
  <2>1. y \in bad => d <= dist[y]
    BY <1>3
  <2>2. y \notin bad
    BY <1>4, <1>7, <2>1
  <2> QED
    BY <1>7, <2>2
<1>9. Append(TraceTo(from)[y], from[x]) \in Tight(x)
  BY <1>7, <1>8, TightGoesOn
<1> QED
  BY <1>5, <1>6, <1>9 DEF TraceStep

-----------------------------------------------------------------------------
(***************************************************************************)
(* The search of path(), in its course.  A node it has not met is further  *)
(* than one that waits, so that each is first met where it loses no step.  *)
(***************************************************************************)
Tracing ==
    /\ Layers /\ Complete /\ Fifo /\ Trail(prev)
    /\ ToSet(queue) \subseteq Met(prev) /\ (Busy => cur \in Met(prev))
    /\ Goal \notin Met(prev)
    /\ \A lk \in Links : lk[1] \in Met(prev) => Pending(lk[1]) \/ lk[2] \in Met(prev)
    /\ Busy => \A lk \in Links : lk[1] = cur => lk \in ToSet(todo) \/ lk[2] \in Met(prev)

LEMMA UnmetAreFar ==
  ASSUME Tracing, NEW n \in Known \ Met(prev)
  PROVE  \E y \in Known : Pending(y) /\ dist[y] < dist[n]
<1> DEFINE unmet == Known \ Met(prev)
           far == {dist[x] : x \in unmet}
           d == Min(far)
<1>1. Layers /\ Trail(prev) /\ Known \subseteq Node /\ \A x \in Known : dist[x] \in Nat
  BY DEF Tracing, Layers, Distances
<1>2. far \in SUBSET Nat /\ far # {}
  BY <1>1
<1>3. d \in far /\ \A k \in far : d <= k
  <2> HIDE DEF far
  <2> QED
    BY <1>2, LeastNatural
<1> HIDE DEF d
<1>4. PICK x \in unmet : d = dist[x]
  BY <1>3
<1>5. x \in Known \ {Start} /\ x \in Node
  BY <1>1 DEF Met
<1>6. Len(preds[x]) \in Nat /\ Len(preds[x]) # 0 /\ DOMAIN preds[x] = 1..Len(preds[x])
  BY <1>1, <1>5, PredsAre
<1>7. 1 \in DOMAIN preds[x]
  BY <1>6
<1> PICK lk : lk = preds[x][1]
  OBVIOUS
<1> PICK y : y = lk[1]
  OBVIOUS
<1>8. lk \in Links /\ lk[2] = x /\ y \in Known
  BY <1>1, <1>5, <1>7, PredsAre
<1>9. dist[x] = dist[y] + 1
  BY <1>1, <1>5, <1>7, PredsAre
<1>10. y \in Met(prev)
  <2> SUFFICES ASSUME y \notin Met(prev) PROVE FALSE
    OBVIOUS
  <2>1. dist[y] \in far
    BY <1>8
  <2>2. d <= dist[y] /\ dist[y] \in Nat
    BY <1>1, <1>3, <1>8, <2>1
  <2> QED
    BY <1>4, <1>9, <2>2
<1>11. Pending(y)
  BY <1>4, <1>8, <1>10 DEF Tracing
<1>12. dist[x] <= dist[n] /\ dist[n] \in Nat /\ dist[x] \in Nat /\ dist[y] \in Nat
  BY <1>1, <1>3, <1>4, <1>8
<1> QED
  BY <1>8, <1>9, <1>11, <1>12

LEMMA PathStarts ==
  ASSUME StartPath, op' = "path", Layers, Complete, Start # Goal, todo = <<>>, prev = <<>>
  PROVE  Tracing'
<1>1. /\ queue' = <<Start>> /\ todo' = <<>> /\ prev' = <<>> /\ adj' = adj /\ ends' = ends
      /\ dist' = dist /\ preds' = preds
  BY DEF StartPath, equalCost, Start
<1>2. /\ Start' = Start /\ Goal' = Goal /\ Known' = Known /\ Start \in Known /\ dist[Start] = 0
      /\ Links' = Links /\ \A n, lk : Arrives(n, lk)' <=> Arrives(n, lk)
  BY <1>1 DEF Start, Goal, Known, Links, Arrives, Layers, Distances
<1>3. \A lk : Reached(lk)' <=> Reached(lk)
  BY <1>1, <1>2 DEF Reached
<1>4. Layers' /\ Complete'
  BY <1>1, <1>2, <1>3 DEF Layers, Distances, Arrivals, Complete
<1> DEFINE s == Start
<1>5. queue' = <<s>> /\ s \in Known
  BY <1>1, <1>2
<1> HIDE DEF s
<1>6. queue' \in Seq(Known) /\ Len(queue') = 1 /\ queue'[1] = s /\ DOMAIN queue' = 1..1
  BY <1>5
<1>7. ToSet(queue') = {s} /\ InLevels(queue', dist)
  <2>1. ToSet(queue') = {s}
    BY <1>6 DEF ToSet
  <2>2. dist[s] \in Nat
    BY <1>5 DEF Layers, Distances
  <2>3. InLevels(queue', dist)
    BY <1>6, <2>2 DEF InLevels
  <2> QED
    BY <2>1, <2>3
<1>8. Fifo'
  BY <1>1, <1>2, <1>6, <1>7 DEF Fifo, Busy
<1>9. Met(prev)' = {s} /\ DOMAIN prev' = {}
  BY <1>1, <1>2 DEF Met, s
<1>10. Trail(prev)'
  BY <1>9 DEF Trail
<1> QED
  BY <1>1, <1>2, <1>4, <1>7, <1>8, <1>9, <1>10 DEF Tracing, Pending, Busy, s

LEMMA PopTraces ==
  ASSUME AdjType, Tracing, Popleft
  PROVE  Tracing'
<1>1. /\ Fifo' /\ todo = <<>>
      /\ cur' \in Known /\ ToSet(queue) = {cur'} \cup ToSet(queue')
      /\ Known' = Known /\ dist' = dist /\ ends' = ends /\ adj' = adj /\ preds' = preds
      /\ Links' = Links
      /\ \A lk : lk \in ToSet(todo') <=> lk \in Links /\ lk[1] = cur'
  BY PopFifo DEF Tracing, Popleft
<1>2. /\ Start' = Start /\ Goal' = Goal /\ prev' = prev
      /\ \A n, lk : Arrives(n, lk)' <=> Arrives(n, lk)
  BY <1>1 DEF Start, Goal, Arrives, Popleft, firstFound
<1>3. \A lk : Reached(lk)' <=> Reached(lk)
  BY <1>1, <1>2 DEF Reached
<1>4. Layers' /\ Complete'
  BY <1>1, <1>2, <1>3 DEF Tracing, Layers, Distances, Arrivals, Complete
<1>5. Met(prev)' = Met(prev)
  BY <1>2 DEF Met
<1>6. Trail(prev)'
  <2>1. \A n \in DOMAIN prev : Arrives(n, prev[n]) <=> Arrives(n, prev[n])'
    BY <1>1, <1>2 DEF Arrives
  <2> QED
    BY <1>1, <1>2, <1>5, <2>1 DEF Tracing, Trail
<1>7. ASSUME NEW lk \in Links, lk[1] \in Met(prev)
      PROVE  Pending(lk[1])' \/ lk[2] \in Met(prev)
  <2>1. lk[1] \in ToSet(queue) \/ lk[2] \in Met(prev)
    BY <1>1, <1>7 DEF Tracing, Pending, Busy
  <2>2. CASE lk[1] \in ToSet(queue')
    BY <2>2 DEF Pending
  <2>3. CASE lk[1] = cur'
    <3>1. lk \in ToSet(todo')
      BY <1>1, <2>3
    <3>2. todo' # <<>>
      BY <3>1 DEF ToSet
    <3> QED
      BY <2>3, <3>2 DEF Pending, Busy
  <2> QED
    BY <1>1, <2>1, <2>2, <2>3
<1>8. \A lk \in Links : lk[1] = cur' => lk \in ToSet(todo')
  BY <1>1
<1>9. ToSet(queue') \subseteq Met(prev) /\ cur' \in Met(prev)
  BY <1>1 DEF Tracing
<1> QED
  BY <1>1, <1>2, <1>4, <1>5, <1>6, <1>7, <1>8, <1>9 DEF Tracing

LEMMA MeetsNext ==
  ASSUME Tracing, Busy, NEW lk, lk = Head(todo), NEW n, n = lk[2]
  PROVE  /\ cur \in Known /\ Tail(todo) \in Seq(Links) /\ Once(Tail(todo))
         /\ ToSet(todo) = {lk} \cup ToSet(Tail(todo))
         /\ lk \in Links /\ lk[1] = cur
         /\ n \notin Met(prev) =>
              /\ n \in Known \ {Start} /\ Arrives(n, lk)
              /\ dist[cur] \in Nat /\ dist[n] = dist[cur] + 1
<1>1. /\ cur \in Known /\ Once(todo) /\ todo \in Seq(Links) /\ todo # <<>>
      /\ \A x \in ToSet(todo) : x[1] = cur
      /\ \A x \in ToSet(queue) : dist[cur] <= dist[x] /\ dist[x] <= dist[cur] + 1
  BY DEF Tracing, Fifo, Busy
<1>2. /\ lk \in Links /\ Tail(todo) \in Seq(Links) /\ Once(Tail(todo))
      /\ ToSet(todo) = {lk} \cup ToSet(Tail(todo))
  BY <1>1, HeadAndTail
<1>3. lk[1] = cur
  BY <1>1, <1>2
<1>4. ASSUME n \notin Met(prev)
      PROVE  n \in Known \ {Start} /\ Arrives(n, lk) /\ dist[cur] \in Nat /\ dist[n] = dist[cur] + 1
  <2>1. Reached(lk)
    BY <1>1, <1>2, <1>3 DEF Tracing, Complete
  <2>2. n \in Known \ {Start} /\ dist[n] <= dist[cur] + 1
    BY <1>3, <1>4, <2>1 DEF Reached, Met
  <2>3. PICK y \in Known : Pending(y) /\ dist[y] < dist[n]
    BY <1>4, <2>2, UnmetAreFar
  <2>4. dist[cur] <= dist[y]
    <3>1. dist[cur] \in Nat
      BY <1>1 DEF Tracing, Layers, Distances
    <3>2. y \in ToSet(queue) => dist[cur] <= dist[y]
      BY <1>1
    <3>3. y = cur => dist[cur] <= dist[y]
      BY <3>1
    <3> QED
      BY <2>3, <3>2, <3>3 DEF Pending
  <2>5. dist[cur] \in Nat /\ dist[n] \in Nat /\ dist[y] \in Nat
    BY <1>1, <2>2 DEF Tracing, Layers, Distances
  <2>6. dist[n] = dist[cur] + 1
    BY <2>2, <2>3, <2>4, <2>5
  <2> QED
    BY <1>3, <2>1, <2>2, <2>5, <2>6 DEF Reached
<1> QED
  BY <1>1, <1>2, <1>3, <1>4

LEMMA TrailGrows ==
  ASSUME Layers, NEW f, Trail(f), NEW n \in Known \ {Start}, n \notin Met(f),
         NEW lk \in Links, lk[1] \in Met(f), Arrives(n, lk)
  PROVE  Trail(Put(f, n, lk)) /\ Met(Put(f, n, lk)) = Met(f) \cup {n}
<1> DEFINE g == Put(f, n, lk)
<1>1. IsPut(g, f, n, lk)
  BY PutIs
<1> HIDE DEF g
<1>2. Met(g) = Met(f) \cup {n}
  BY <1>1 DEF IsPut, Met
<1>3. \A m \in DOMAIN g : (m = n /\ g[m] = lk) \/ (m \in DOMAIN f /\ g[m] = f[m])
  BY <1>1 DEF IsPut
<1>4. Trail(g)
  BY <1>1, <1>2, <1>3 DEF Trail, IsPut
<1> QED
  BY <1>2, <1>4 DEF g

LEMMA LookTraces ==
  ASSUME Tracing, LookPath, NEW lk, lk = Head(todo), NEW n, n = lk[2], n \in Met(prev) \/ n # Goal
  PROVE  Tracing' /\ op' = "path" /\ single' = single
<1> PICK c : c = cur
  OBVIOUS
<1>1. /\ todo' = Tail(todo) /\ cur' = c /\ adj' = adj /\ ends' = ends /\ Busy
      /\ dist' = dist /\ preds' = preds /\ op' = "path" /\ single' = single
  BY DEF LookPath, equalCost, Busy, Met, Start, Goal
<1>2. /\ c \in Known /\ todo' \in Seq(Links) /\ Once(todo')
      /\ ToSet(todo) = {lk} \cup ToSet(todo') /\ lk \in Links /\ lk[1] = c
      /\ n \notin Met(prev) =>
           /\ n \in Known \ {Start} /\ Arrives(n, lk) /\ dist[c] \in Nat /\ dist[n] = dist[c] + 1
  BY <1>1, MeetsNext
<1>3. /\ Start' = Start /\ Goal' = Goal /\ Known' = Known
      /\ Links' = Links /\ \A m, x : Arrives(m, x)' <=> Arrives(m, x)
  BY <1>1 DEF Start, Goal, Known, Links, Arrives
<1>4. \A x : Reached(x)' <=> Reached(x)
  BY <1>1, <1>3 DEF Reached
<1>5. Layers' /\ Complete'
  BY <1>1, <1>3, <1>4 DEF Tracing, Layers, Distances, Arrivals, Complete
<1> PICK f : f = prev'
  OBVIOUS
<1>6. /\ Trail(f) /\ Met(f) = Met(prev) \cup {n} /\ Goal \notin Met(f)
      /\ queue' = IF n \in Met(prev) THEN queue ELSE Append(queue, n)
  <2>1. Goal \notin Met(prev) /\ Trail(prev) /\ Layers /\ c \in Met(prev)
    BY <1>1 DEF Tracing
  <2>2. CASE n \in Met(prev)
    <3>1. f = prev /\ queue' = queue
      BY <2>2 DEF LookPath, Met, Start
    <3> QED
      BY <2>1, <2>2, <3>1
  <2>3. CASE n \notin Met(prev)
    <3>1. f = Put(prev, n, lk) /\ queue' = Append(queue, n)
      BY <2>3 DEF LookPath, Met, Start, Goal, Enqueued
    <3> PICK p : p = prev
      OBVIOUS
    <3>2. Trail(p) /\ n \in Known \ {Start} /\ c \in Met(p) /\ Arrives(n, lk) /\ n \notin Met(p) /\ f = Put(p, n, lk)
      BY <1>2, <2>1, <2>3, <3>1
    <3>3. Trail(f) /\ Met(f) = Met(p) \cup {n}
      BY <1>2, <2>1, <3>2, TrailGrows
    <3> QED
      BY <2>1, <2>3, <3>1, <3>3
  <2> QED
    BY <2>2, <2>3
<1>7. /\ queue \in Seq(Known) /\ InLevels(queue, dist) /\ ToSet(queue) \subseteq Met(prev)
      /\ \A x \in ToSet(todo) : x[1] = c
      /\ \A x \in ToSet(queue) : dist[c] <= dist[x] /\ dist[x] <= dist[c] + 1
      /\ dist \in [Known -> Nat]
  BY <1>1 DEF Tracing, Fifo, Layers, Distances
<1>8. /\ queue' \in Seq(Known) /\ InLevels(queue', dist)
      /\ ToSet(queue') = ToSet(queue) \cup (IF n \in Met(prev) THEN {} ELSE {n})
  <2>1. CASE n \in Met(prev)
    BY <1>6, <1>7, <2>1
  <2>2. CASE n \notin Met(prev)
    <3> DEFINE k == dist[c]
    <3>1. k \in Nat /\ n \in Known /\ dist[n] = k + 1 /\ queue' = Append(queue, n)
      BY <1>2, <1>6, <2>2
    <3>2. \A x \in ToSet(queue) : k <= dist[x] /\ dist[x] <= k + 1
      BY <1>7
    <3> HIDE DEF k
    <3>3. InLevels(queue', dist)
      BY <1>7, <3>1, <3>2, LevelsAppend
    <3> QED
      BY <1>7, <2>2, <3>1, <3>3, Appended
  <2> QED
    BY <2>1, <2>2
<1>9. \A x \in ToSet(queue') : x \in Met(f) /\ dist[c] <= dist[x] /\ dist[x] <= dist[c] + 1
  <2>1. n \notin Met(prev) => dist[c] <= dist[n] /\ dist[n] <= dist[c] + 1
    BY <1>2
  <2> QED
    BY <1>6, <1>7, <1>8, <2>1
<1>10. Fifo'
  <2>1. \A x \in ToSet(todo') : x[1] = cur'
    BY <1>1, <1>2, <1>7
  <2> QED
    BY <1>1, <1>2, <1>3, <1>8, <1>9, <2>1 DEF Fifo
<1>11. Met(prev)' = Met(f) /\ (Trail(prev)' <=> Trail(f))
  <2>1. Met(prev)' = Met(f)
    BY <1>3 DEF Met
  <2>2. \A m \in DOMAIN f : Arrives(m, f[m]) <=> Arrives(m, prev[m])'
    BY <1>1 DEF Arrives
  <2> QED
    BY <1>3, <2>1, <2>2 DEF Trail
<1>12. \A x \in Links : x[1] = c => x \in ToSet(todo') \/ x[2] \in Met(f)
  BY <1>1, <1>2, <1>6 DEF Tracing
<1>13. ASSUME NEW x \in Links, x[1] \in Met(f)
       PROVE  Pending(x[1])' \/ x[2] \in Met(f)
  <2>1. CASE x[1] \in ToSet(queue')
    BY <2>1 DEF Pending
  <2>2. CASE x[1] = c /\ todo' # <<>>
    BY <1>1, <2>2 DEF Pending, Busy
  <2>3. CASE x[1] = c /\ todo' = <<>>
    <3>1. ToSet(todo') = {}
      BY <2>3 DEF ToSet
    <3> QED
      BY <1>12, <2>3, <3>1
  <2>4. CASE x[1] \notin ToSet(queue') /\ x[1] # c
    <3>1. x[1] \in Met(prev) /\ ~Pending(x[1])
      BY <1>6, <1>8, <1>13, <2>4 DEF Pending
    <3> QED
      BY <1>6, <3>1 DEF Tracing
  <2> QED
    BY <2>1, <2>2, <2>3, <2>4
<1>14. c \in Met(f)
  BY <1>1, <1>6 DEF Tracing
<1>15. Tracing'
  <2>1. \A x \in Links : x[1] = cur' => x \in ToSet(todo') \/ x[2] \in Met(f)
    BY <1>1, <1>12
  <2> QED
    BY <1>1, <1>3, <1>5, <1>6, <1>9, <1>10, <1>11, <1>13, <1>14, <2>1 DEF Tracing
<1> QED
  BY <1>1, <1>15

LEMMA LookArrives ==
  ASSUME Tracing, LookPath, NEW lk, lk = Head(todo), lk[2] \notin Met(prev), lk[2] = Goal
  PROVE  op' = "done" /\ Goal \in Known /\ single' \in Tight(Goal)
<1> PICK p : p = prev
  OBVIOUS
<1> PICK n : n = Goal
  OBVIOUS
<1> PICK c : c = cur
  OBVIOUS
<1>1. /\ Busy /\ op' = "done" /\ single' = Traced(Put(p, n, lk))
  <2>1. prev' = Put(p, n, lk) /\ op' = "done" /\ single' = Traced(prev')
    BY DEF LookPath, Met, Start, Goal
  <2> QED
    BY <2>1 DEF LookPath, Busy
<1>2. n \in Known \ {Start} /\ Arrives(n, lk) /\ n \notin Met(p) /\ lk \in Links /\ lk[1] = c
  BY <1>1, MeetsNext
<1>3. Layers /\ Trail(p) /\ c \in Met(p)
  BY <1>1 DEF Tracing
<1>4. Trail(Put(p, n, lk)) /\ Met(Put(p, n, lk)) = Met(p) \cup {n}
  BY <1>2, <1>3, TrailGrows
<1>5. Traced(Put(p, n, lk)) \in Tight(Goal)
  BY <1>3, <1>4, TraceIsTight
<1> QED
  BY <1>1, <1>2, <1>5

LEMMA TracedAll ==
  ASSUME Tracing, todo = <<>>, queue = <<>>
  PROVE  Goal \notin Known
<1>1. \A n : ~Pending(n)
  BY DEF Pending, Busy, ToSet
<1> QED
  BY <1>1, UnmetAreFar DEF Tracing

-----------------------------------------------------------------------------
(***************************************************************************)
(* The whole call, as an invariant.                                        *)
(***************************************************************************)
Answered ==
    /\ Lists(paths, Shortest) /\ Sorted(paths)
    /\ op \in {"routed", "path", "done"} =>
         IF paths = <<>> THEN chosen = NoRoute ELSE chosen \in ToSet(paths)
    /\ op = "done" => IF paths = <<>> THEN single = NoRoute ELSE single \in ToSet(paths)

Untouched ==
    /\ op \in {"build", "equal_cost", "route"} => chosen = NoRoute
    /\ op # "done" => single = NoRoute
    /\ op \in {"build", "equal_cost", "route", "routed"} => prev = <<>>
    /\ op = "build" => todo = <<>> /\ preds = <<>>

RoutingInv ==
    /\ AdjType /\ Untouched
    /\ op \in {"build", "equal_cost", "route", "routed", "path", "done"}
    /\ op # "build" => ends \in Node \X Node
    /\ op = "equal_cost" => Searching /\ Start # Goal
    /\ op \in {"route", "routed"} /\ Start # Goal => Layers /\ Complete /\ todo = <<>>
    /\ op = "path" => Tracing /\ Start # Goal
    /\ op \in {"route", "routed", "path", "done"} => Answered

LEMMA ListsAre ==
  ASSUME NEW list, NEW S, Lists(list, S)
  PROVE  ToSet(list) = S /\ (list = <<>> <=> S = {})
<1> DEFINE n == Len(list)
<1>1. n \in Nat /\ list \in [1..n -> S] /\ \A x \in S : \E i \in 1..n : list[i] = x
  BY DEF Lists
<1> HIDE DEF n
<1>2. ToSet(list) = S
  BY <1>1 DEF ToSet
<1>3. CASE n = 0
  <2>1. list = <<>> /\ S = {}
    BY <1>1, <1>3
  <2> QED
    BY <1>2, <2>1
<1>4. CASE n # 0
  <2>1. 1 \in 1..n
    BY <1>1, <1>4
  <2>2. list[1] \in S /\ list # <<>>
    BY <1>1, <2>1
  <2> QED
    BY <1>2, <2>2
<1> QED
  BY <1>2, <1>3, <1>4

LEMMA AnswerStays ==
  ASSUME adj' = adj, ends' = ends
  PROVE  Shortest' = Shortest
BY DEF Shortest, Ways, Links

LEMMA LayersStay ==
  ASSUME adj' = adj, ends' = ends, dist' = dist, preds' = preds
  PROVE  /\ Start' = Start /\ Goal' = Goal /\ AdjType' = AdjType
         /\ Layers' = Layers /\ Complete' = Complete
<1>1. Start' = Start /\ Goal' = Goal /\ Known' = Known /\ Links' = Links
  BY DEF Start, Goal, Known, Links
<1>2. \A m, lk : Arrives(m, lk)' = Arrives(m, lk)
  BY DEF Arrives
<1>3. \A lk : Reached(lk)' = Reached(lk)
  BY <1>1, <1>2 DEF Reached
<1>4. Distances' = Distances /\ Arrivals' = Arrivals /\ Complete' = Complete
  BY <1>1, <1>2, <1>3 DEF Distances, Arrivals, Complete
<1> QED
  BY <1>1, <1>4 DEF Layers, AdjType

LEMMA AddedKeeps ==
  ASSUME NEW lists, Placed(lists), NEW s \in Node, NEW d \in Node
  PROVE  Placed(Added(lists, s, d))
<1> DEFINE k == Len(lists[s])
           lk == <<s, d, k + 1>>
           more == Added(lists, s, d)
<1>1. lists \in [Node -> Seq(Link)] /\ lists[s] \in Seq(Link) /\ k \in Nat
  BY DEF Placed
<1>2. lk \in Link /\ lk[1] = s /\ lk[3] = k + 1
  BY <1>1 DEF Link
<1>3. more = [lists EXCEPT ![s] = Append(lists[s], lk)]
  BY DEF Added
<1> HIDE DEF more, lk
<1>4. /\ Append(lists[s], lk) \in Seq(Link) /\ Len(Append(lists[s], lk)) = k + 1
      /\ Append(lists[s], lk)[k + 1] = lk
      /\ \A i \in 1..k : Append(lists[s], lk)[i] = lists[s][i]
  BY <1>1, <1>2, Appended
<1>5. /\ more \in [Node -> Seq(Link)] /\ more[s] = Append(lists[s], lk)
      /\ \A n \in Node : n # s => more[n] = lists[n]
  BY <1>1, <1>3, <1>4
<1>6. ASSUME NEW n \in Node, NEW i \in 1..Len(more[n])
      PROVE  more[n][i][1] = n /\ more[n][i][3] = i
  <2>1. CASE n # s
    BY <1>5, <2>1 DEF Placed
  <2>2. CASE n = s /\ i = k + 1
    BY <1>2, <1>4, <1>5, <2>2
  <2>3. CASE n = s /\ i # k + 1
    <3>1. i \in 1..k /\ more[n][i] = lists[s][i]
      BY <1>1, <1>4, <1>5, <2>3
    <3> QED
      BY <2>3, <3>1 DEF Placed
  <2> QED
    BY <2>1, <2>2, <2>3
<1> QED
  BY <1>5, <1>6 DEF Placed, more

LEMMA AddLinkKeeps ==
  ASSUME RoutingInv, NEW l \in LinkChoice, NEW both \in BOOLEAN, AddLink(l[1], l[2], both)
  PROVE  RoutingInv'
<1> PICK s, d : s = l[1] /\ d = l[2]
  OBVIOUS
<1>1. /\ s \in Node /\ d \in Node /\ op = "build"
      /\ adj' = IF both THEN Added(Added(adj, s, d), d, s) ELSE Added(adj, s, d)
      /\ UNCHANGED <<op, ends, search, equalCost, firstFound>>
  BY LinkChoiceType DEF AddLink
<1>2. Placed(adj)
  BY DEF RoutingInv, AdjType
<1>3. Placed(Added(adj, s, d))
  BY <1>1, <1>2, AddedKeeps
<1>4. Placed(Added(Added(adj, s, d), d, s))
  BY <1>1, <1>3, AddedKeeps
<1>5. AdjType'
  BY <1>1, <1>3, <1>4 DEF AdjType
<1>6. Untouched'
  BY <1>1 DEF RoutingInv, Untouched, search, equalCost, firstFound
<1> QED
  BY <1>1, <1>5, <1>6 DEF RoutingInv

LEMMA StartKeeps ==
  ASSUME RoutingInv, NEW q \in Questions, StartEqualCost(q[1], q[2])
  PROVE  RoutingInv'
<1> PICK a, b : a = q[1] /\ b = q[2]
  OBVIOUS
<1>1. /\ a \in Node /\ b \in Node /\ StartEqualCost(a, b) /\ op = "build" /\ ends' = <<a, b>>
      /\ adj' = adj /\ todo' = todo /\ preds' = preds /\ chosen' = chosen
      /\ prev' = prev /\ single' = single
  BY QuestionsType DEF StartEqualCost, firstFound
<1>2. /\ AdjType /\ todo = <<>> /\ preds = <<>> /\ chosen = NoRoute /\ prev = <<>> /\ single = NoRoute
  BY <1>1 DEF RoutingInv, Untouched
<1>3. AdjType' /\ ends' \in Node \X Node /\ Start' = a /\ Goal' = b
  BY <1>1, <1>2 DEF AdjType, Start, Goal
<1>4. CASE a # b
  <2>1. op' = "equal_cost"
    BY <1>1, <1>4 DEF StartEqualCost
  <2>2. Searching' /\ Start' # Goal'
    BY <1>1, <1>2, <1>4, SearchStarts
  <2> QED
    BY <1>1, <1>2, <1>3, <2>1, <2>2 DEF RoutingInv, Untouched
<1>5. CASE a = b
  <2>1. op' = "route" /\ paths' = << <<>> >>
    BY <1>1, <1>5 DEF StartEqualCost
  <2>2. Shortest' = {<<>>}
    BY <1>1, <1>5 DEF Shortest
  <2>3. Lists(paths', Shortest') /\ Sorted(paths')
    <3> DEFINE s == <<>>
               t == <<s>>
    <3>1. Len(t) = 1 /\ t[1] = s /\ t \in [1..1 -> {s}] /\ DOMAIN t = 1..1
      OBVIOUS
    <3> HIDE DEF s, t
    <3>2. Lists(t, {s}) /\ Sorted(t)
      BY <3>1 DEF Lists, Sorted
    <3> QED
      BY <2>1, <2>2, <3>2 DEF s, t
  <2>4. Answered'
    BY <2>1, <2>3 DEF Answered, Lists, Sorted
  <2> QED
    BY <1>1, <1>2, <1>3, <1>5, <2>1, <2>4 DEF RoutingInv, Untouched
<1> QED
  BY <1>4, <1>5

LEMMA EndKeeps ==
  ASSUME RoutingInv, EndEqualCost
  PROVE  RoutingInv'
<1>1. /\ op = "equal_cost" /\ todo = <<>> /\ queue = <<>> /\ op' = "route"
      /\ adj' = adj /\ ends' = ends /\ todo' = todo /\ dist' = dist /\ preds' = preds
      /\ chosen' = chosen /\ prev' = prev /\ single' = single
      /\ paths' = IF Goal \in Known THEN Ordered(Backtrack) ELSE <<>>
  BY DEF EndEqualCost, search, firstFound, Goal, Known
<1>2. AdjType /\ Searching /\ Start # Goal /\ ends \in Node \X Node /\ Untouched
  BY <1>1 DEF RoutingInv
<1>3. GraphType /\ Layers /\ Complete
  BY <1>1, <1>2, SearchedAll DEF GraphType, AdjType, Searching
<1> PICK ps : ps = paths'
  OBVIOUS
<1>4. Lists(ps, Shortest) /\ Sorted(ps)
  BY <1>1, <1>2, <1>3, PathsAreShortest
<1>5. Answered'
  BY <1>1, <1>4, AnswerStays DEF Answered
<1>6. Layers' /\ Complete' /\ AdjType'
  BY <1>1, <1>2, <1>3, LayersStay
<1>7. Untouched'
  BY <1>1, <1>2 DEF Untouched
<1> QED
  BY <1>1, <1>2, <1>5, <1>6, <1>7 DEF RoutingInv

LEMMA PopKeeps ==
  ASSUME RoutingInv, Popleft
  PROVE  RoutingInv'
<1>1. /\ op \in {"equal_cost", "path"} /\ UNCHANGED <<adj, op, ends, equalCost, firstFound>>
  BY DEF Popleft
<1>2. AdjType /\ Untouched /\ ends \in Node \X Node
  BY <1>1 DEF RoutingInv
<1>3. CASE op = "equal_cost"
  <2>1. Searching' /\ Start' # Goal'
    BY <1>1, <1>3, PopSearches DEF RoutingInv, Start, Goal
  <2> QED
    BY <1>1, <1>2, <1>3, <2>1 DEF RoutingInv, Untouched, AdjType, equalCost, firstFound
<1>4. CASE op = "path"
  <2>1. Tracing' /\ Start' # Goal'
    BY <1>1, <1>4, PopTraces DEF RoutingInv, Start, Goal
  <2>2. Answered'
    BY <1>1, <1>4, AnswerStays DEF RoutingInv, Answered, equalCost, firstFound
  <2> QED
    BY <1>1, <1>2, <1>4, <2>1, <2>2 DEF RoutingInv, Untouched, AdjType, equalCost, firstFound
<1> QED
  BY <1>1, <1>3, <1>4

LEMMA LookEqualCostKeeps ==
  ASSUME RoutingInv, LookEqualCost
  PROVE  RoutingInv'
<1>1. op = "equal_cost" /\ UNCHANGED <<adj, op, ends, cur, paths, chosen, firstFound>>
  BY DEF LookEqualCost
<1>2. Searching' /\ Start' # Goal'
  BY <1>1, LookSearches DEF RoutingInv, Start, Goal
<1> QED
  BY <1>1, <1>2 DEF RoutingInv, Untouched, AdjType, firstFound

LEMMA RouteKeeps ==
  ASSUME RoutingInv, Route
  PROVE  RoutingInv'
<1>1. op = "route" /\ op' = "routed" /\ UNCHANGED <<adj, ends, search, dist, preds, paths, firstFound>>
  BY DEF Route
<1>2. /\ AdjType /\ Untouched /\ ends \in Node \X Node /\ Answered
      /\ Start # Goal => Layers /\ Complete /\ todo = <<>>
  BY <1>1 DEF RoutingInv
<1>3. IF paths = <<>> THEN chosen' = NoRoute ELSE chosen' \in ToSet(paths)
  <2>1. CASE paths = <<>>
    BY <1>1, <1>2, <2>1 DEF Route, Untouched
  <2>2. CASE paths # <<>>
    <3>1. PICK digest \in 0..MaxDigest : chosen' = paths[(digest % Len(paths)) + 1]
      BY <2>2 DEF Route
    <3>2. Len(paths) \in Nat /\ DOMAIN paths = 1..Len(paths)
      BY <1>2 DEF Answered, Lists
    <3>3. Len(paths) # 0
      <4>1. ASSUME Len(paths) = 0 PROVE FALSE
        <5>1. DOMAIN paths = {} /\ paths \in [1..Len(paths) -> Shortest]
          BY <1>2, <3>2, <4>1 DEF Answered, Lists
        <5>2. paths \in [1..0 -> Shortest]
          BY <4>1, <5>1
        <5>3. paths = <<>>
          BY <5>2
        <5> QED
          BY <2>2, <5>3
      <4> QED
        BY <4>1
    <3> DEFINE k == Len(paths)
    <3>4. k \in Nat \ {0} /\ digest \in Nat
      BY <3>2, <3>3, BoundsType
    <3> HIDE DEF k
    <3>5. (digest % k) + 1 \in 1..k
      BY <3>4
    <3>6. (digest % k) + 1 \in DOMAIN paths /\ chosen' = paths[(digest % k) + 1]
      BY <3>1, <3>2, <3>5 DEF k
    <3> QED
      BY <2>2, <3>6 DEF ToSet
  <2> QED
    BY <2>1, <2>2
<1>4. Answered'
  BY <1>1, <1>2, <1>3, AnswerStays DEF Answered
<1>5. Start' = Start /\ Goal' = Goal /\ (Layers /\ Complete => Layers' /\ Complete')
  BY <1>1, LayersStay
<1>6. Untouched' /\ AdjType' /\ todo' = todo
  BY <1>1, <1>2 DEF Untouched, AdjType, search, firstFound
<1> QED
  BY <1>1, <1>2, <1>4, <1>5, <1>6 DEF RoutingInv

LEMMA StartPathKeeps ==
  ASSUME RoutingInv, StartPath
  PROVE  RoutingInv'
<1>1. op = "routed" /\ UNCHANGED <<adj, ends, cur, todo, equalCost, prev>>
  BY DEF StartPath
<1>2. /\ AdjType /\ Untouched /\ ends \in Node \X Node /\ Answered
      /\ Start # Goal => Layers /\ Complete /\ todo = <<>>
  BY <1>1 DEF RoutingInv
<1>3. /\ AdjType' /\ ends' \in Node \X Node /\ Shortest' = Shortest /\ Start' = Start /\ Goal' = Goal
      /\ paths' = paths /\ chosen' = chosen
  BY <1>1, <1>2, AnswerStays DEF AdjType, Start, Goal, equalCost
<1>4. CASE Start = Goal
  <2>1. single' = <<>> /\ op' = "done"
    BY <1>4 DEF StartPath, Start, Goal
  <2>2. Shortest = {<<>>}
    BY <1>4 DEF Shortest, Start, Goal
  <2>3. ToSet(paths) = Shortest /\ paths # <<>>
    BY <1>2, <2>2, ListsAre DEF Answered
  <2>4. Answered'
    BY <1>1, <1>2, <1>3, <2>1, <2>2, <2>3 DEF Answered
  <2>5. Untouched'
    BY <2>1 DEF Untouched
  <2> QED
    BY <1>3, <2>1, <2>4, <2>5 DEF RoutingInv
<1>5. CASE Start # Goal
  <2>1. op' = "path" /\ single' = single
    BY <1>5 DEF StartPath, Start, Goal
  <2>2. Tracing'
    BY <1>1, <1>2, <1>5, <2>1, PathStarts DEF Untouched
  <2>3. Answered'
    BY <1>1, <1>2, <1>3, <2>1 DEF Answered
  <2>4. Untouched'
    BY <1>1, <1>2, <2>1 DEF Untouched
  <2> QED
    BY <1>3, <1>5, <2>1, <2>2, <2>3, <2>4 DEF RoutingInv
<1> QED
  BY <1>4, <1>5

LEMMA LookPathKeeps ==
  ASSUME RoutingInv, LookPath
  PROVE  RoutingInv'
<1>1. op = "path" /\ UNCHANGED <<adj, ends, cur, equalCost>>
  BY DEF LookPath
<1>2. AdjType /\ Untouched /\ ends \in Node \X Node /\ Answered /\ Tracing /\ Start # Goal
  BY <1>1 DEF RoutingInv
<1>3. /\ AdjType' /\ ends' \in Node \X Node /\ Shortest' = Shortest /\ Start' = Start /\ Goal' = Goal
      /\ paths' = paths /\ chosen' = chosen
  BY <1>1, <1>2, AnswerStays DEF AdjType, Start, Goal, equalCost
<1>4. CASE Head(todo)[2] \in Met(prev) \/ Head(todo)[2] # Goal
  <2>1. Tracing' /\ op' = "path" /\ single' = single
    BY <1>2, <1>4, LookTraces
  <2>2. Answered' /\ Untouched'
    BY <1>1, <1>2, <1>3, <2>1 DEF Answered, Untouched
  <2> QED
    BY <1>2, <1>3, <2>1, <2>2 DEF RoutingInv
<1>5. CASE Head(todo)[2] \notin Met(prev) /\ Head(todo)[2] = Goal
  <2>1. op' = "done" /\ Goal \in Known /\ single' \in Tight(Goal)
    BY <1>2, <1>5, LookArrives
  <2>2. GraphType /\ Layers /\ Complete
    BY <1>2 DEF GraphType, AdjType, Tracing
  <2>3. single' \in Shortest
    BY <1>2, <2>1, <2>2, ShortestAre
  <2>4. single' \in ToSet(paths) /\ paths # <<>>
    BY <1>2, <2>3, ListsAre DEF Answered
  <2>5. Answered' /\ Untouched'
    BY <1>1, <1>2, <1>3, <2>1, <2>4 DEF Answered, Untouched
  <2> QED
    BY <1>3, <2>1, <2>5 DEF RoutingInv
<1> QED
  BY <1>4, <1>5

LEMMA NoPathKeeps ==
  ASSUME RoutingInv, NoPath
  PROVE  RoutingInv'
<1>1. /\ op = "path" /\ todo = <<>> /\ queue = <<>> /\ op' = "done"
      /\ UNCHANGED <<adj, ends, search, equalCost, firstFound>>
  BY DEF NoPath
<1>2. AdjType /\ Untouched /\ ends \in Node \X Node /\ Answered /\ Tracing /\ Start # Goal
  BY <1>1 DEF RoutingInv
<1>3. Goal \notin Known /\ GraphType /\ Layers /\ Complete
  BY <1>1, <1>2, TracedAll DEF GraphType, AdjType, Tracing
<1>4. Shortest = {}
  BY <1>2, <1>3, ShortestAre
<1>5. paths = <<>>
  BY <1>2, <1>4, ListsAre DEF Answered
<1>6. Answered' /\ Untouched' /\ AdjType'
  BY <1>1, <1>2, <1>5, AnswerStays DEF Answered, Untouched, AdjType, equalCost, firstFound
<1> QED
  BY <1>1, <1>2, <1>6 DEF RoutingInv

(***************************************************************************)
(* What is known of a call in progress holds of every state of it.         *)
(***************************************************************************)
THEOREM RoutingInvariant == Spec => []RoutingInv
<1>1. Init => RoutingInv
  <2> SUFFICES ASSUME Init PROVE RoutingInv
    OBVIOUS
  <2>1. \A n \in Node : adj[n] = <<>>
    BY DEF Init
  <2>2. <<>> \in Seq(Link) /\ Len(<<>>) = 0
    OBVIOUS
  <2>3. AdjType
    BY <2>1, <2>2 DEF Init, AdjType, Placed
  <2> QED
    BY <2>3 DEF Init, RoutingInv, Untouched
<1>2. RoutingInv /\ [Next]_vars => RoutingInv'
  <2> SUFFICES ASSUME RoutingInv, [Next]_vars PROVE RoutingInv'
    OBVIOUS
  <2>1. ASSUME NEW l \in LinkChoice, NEW both \in BOOLEAN, AddLink(l[1], l[2], both)
        PROVE  RoutingInv'
    BY <2>1, AddLinkKeeps
  <2>2. ASSUME NEW pair \in Questions, StartEqualCost(pair[1], pair[2]) PROVE RoutingInv'
    BY <2>2, StartKeeps
  <2>3. ASSUME Query PROVE RoutingInv'
    BY <2>3, PopKeeps, LookEqualCostKeeps, EndKeeps, RouteKeeps, StartPathKeeps, LookPathKeeps, NoPathKeeps
       DEF Query
  <2>4. ASSUME UNCHANGED vars PROVE RoutingInv'
    <3>1. /\ adj' = adj /\ op' = op /\ ends' = ends /\ queue' = queue /\ cur' = cur /\ todo' = todo
          /\ dist' = dist /\ preds' = preds /\ paths' = paths /\ chosen' = chosen
          /\ prev' = prev /\ single' = single
      BY <2>4 DEF vars, search, equalCost, firstFound
    <3>2. AdjType' = AdjType /\ Untouched' = Untouched /\ Start' = Start /\ Goal' = Goal
      BY <3>1 DEF AdjType, Untouched, Start, Goal
    <3>3. Layers' = Layers /\ Complete' = Complete /\ Fifo' = Fifo
      BY <3>1 DEF Layers, Distances, Arrivals, Complete, Reached, Links, Arrives, Start, Known, Fifo, Busy
    <3>4. Searching' = Searching
      BY <3>1, <3>3 DEF Searching, Nearby, Followed, NotYet, Pending, Reached, Links, Arrives, Start, Known, Busy
    <3>5. Tracing' = Tracing
      BY <3>1, <3>3 DEF Tracing, Trail, Met, Pending, Links, Arrives, Start, Goal, Known, Busy
    <3>6. Answered' = Answered
      BY <3>1, AnswerStays DEF Answered
    <3> QED
      BY <3>1, <3>2, <3>3, <3>4, <3>5, <3>6 DEF RoutingInv
  <2> QED
    BY <2>1, <2>2, <2>3, <2>4 DEF Next, Done
<1> QED
  BY <1>1, <1>2, PTL DEF Spec

(***************************************************************************)
(* Whatever links a fabric has, in whatever order and however often they   *)
(* were added, equal_cost_paths returns each of its shortest ways once,    *)
(* one over each of several links with the same ends, and sorted by ids.   *)
(***************************************************************************)
THEOREM AllShortestWays == Spec => []EqualCostIsAllShortest
<1>1. RoutingInv => EqualCostIsAllShortest
  <2> SUFFICES ASSUME RoutingInv, op = "route"
               PROVE  /\ ToSet(paths) = Shortest
                      /\ \A i, j \in DOMAIN paths :
                           i < j => paths[i] # paths[j] /\ ~Lower(Ids(paths[j]), Ids(paths[i]))
    BY DEF EqualCostIsAllShortest
  <2>1. Lists(paths, Shortest) /\ Sorted(paths)
    BY DEF RoutingInv, Answered
  <2>2. \A i, j \in DOMAIN paths : i < j => paths[i] # paths[j]
    BY <2>1 DEF Lists
  <2> QED
    BY <2>1, <2>2, ListsAre DEF Sorted
<1> QED
  BY <1>1, RoutingInvariant, PTL

(***************************************************************************)
(* And both what path() finds and what route() selects by a flow's digest  *)
(* is one of them, or none is found where there is none.                   *)
(***************************************************************************)
THEOREM ModesAgree == Spec => []RoutesAreEqualCost
<1>1. RoutingInv => RoutesAreEqualCost
  BY DEF RoutingInv, Answered, RoutesAreEqualCost
<1> QED
  BY <1>1, RoutingInvariant, PTL
=============================================================================
