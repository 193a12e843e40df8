-------------------------- MODULE PlacementProofs --------------------------
(***************************************************************************)
(* Proofs about placement, for any fabric, any deployment and any map that *)
(* is given by hand.                                                       *)
(*                                                                         *)
(* What a policy returns is injective because of assign and validate alone *)
(* (PlacementInv).  That a policy refuses only what it must, is even and   *)
(* keeps groups together follows from what it has chosen so far            *)
(* (ChoiceInv): packed the first of its pool, spread the first of each     *)
(* domain, as many as it has come to that domain, fragmented some of those *)
(* that were free.  The rank layout is arithmetic on the indices.          *)
(***************************************************************************)
EXTENDS Placement, DataLemmas, FiniteSetTheorems, TLAPS

DomainsKnown == domain \in [Gpu -> Nat \cup {None}]

(* A sequence without repetition. *)
Distinct(s) == s \in Seq(ToSet(s)) /\ IsInjective(s)

LEMMA ListingIsDistinct ==
  ASSUME NEW S, IsFiniteSet(S), NEW before, TotalOrder(S, before)
  PROVE  /\ Distinct(Listed(S, before))
         /\ Len(Listed(S, before)) = Cardinality(S)
         /\ ToSet(Listed(S, before)) = S
<1> DEFINE n == Cardinality(S)
           list == Listed(S, before)
<1>1. n \in Nat /\ list \in Bijection(1..n, S)
  BY ListedOnce
<1> HIDE DEF n, list
<1>2. list \in [1..n -> S] /\ IsInjective(list) /\ \A x \in S : \E i \in 1..n : list[i] = x
  BY <1>1 DEF Bijection, Injection, Surjection
<1>3. list \in Seq(S)
  BY <1>1, <1>2
<1>4. Len(list) = n /\ DOMAIN list = 1..n
  BY <1>1, <1>2, <1>3
<1>5. ToSet(list) = S
  BY <1>2, <1>4 DEF ToSet
<1> QED
  BY <1>1, <1>2, <1>4, <1>5 DEF Distinct, n, list

LEMMA NumbersSorted ==
  ASSUME NEW S \in SUBSET Nat, IsFiniteSet(S)
  PROVE  Distinct(Sorted(S)) /\ Len(Sorted(S)) = Cardinality(S) /\ ToSet(Sorted(S)) = S
<1> DEFINE before == {p \in S \X S : p[1] < p[2]}
<1>1. \A x, y \in S : <<x, y>> \in before <=> x < y
  OBVIOUS
<1> HIDE DEF before
<1>2. TotalOrder(S, before)
  BY <1>1 DEF TotalOrder
<1> QED
  BY <1>2, ListingIsDistinct DEF Sorted, before

PoolOrder == {p \in Gpu \X Gpu : TakenBefore(p[1], p[2])}

LEMMA PoolIsOrdered ==
  ASSUME DomainsKnown
  PROVE  /\ \A x, y \in Gpu : <<x, y>> \in PoolOrder <=> TakenBefore(x, y)
         /\ TotalOrder(Gpu, PoolOrder)
<1>1. \A x, y \in Gpu : <<x, y>> \in PoolOrder <=> TakenBefore(x, y)
  BY DEF PoolOrder
<1>2. TotalOrder(Gpu, PoolOrder)
  <2>1. \A x \in Gpu : x \in Nat /\ (domain[x] # None => domain[x] \in Nat)
    BY GpusAreOrdered DEF DomainsKnown
  <2>2. \A x \in Gpu : ~TakenBefore(x, x)
    BY <2>1 DEF TakenBefore
  <2>3. \A x, y, z \in Gpu : TakenBefore(x, y) /\ TakenBefore(y, z) => TakenBefore(x, z)
    BY <2>1 DEF TakenBefore
  <2>4. \A x, y \in Gpu : x = y \/ TakenBefore(x, y) \/ TakenBefore(y, x)
    BY <2>1 DEF TakenBefore
  <2> QED
    BY <1>1, <2>2, <2>3, <2>4 DEF TotalOrder
<1> QED
  BY <1>1, <1>2

LEMMA PoolLists ==
  ASSUME DomainsKnown
  PROVE  Distinct(Pool) /\ Len(Pool) = Cardinality(Gpu) /\ ToSet(Pool) = Gpu
BY PoolIsOrdered, ListingIsDistinct, GpusAreOrdered DEF Pool, PoolOrder

LEMMA DomsList ==
  ASSUME DomainsKnown
  PROVE  /\ Len(Doms) \in Nat \ {0} /\ DOMAIN Doms = 1..Len(Doms)
         /\ \A i \in 1..Len(Doms) : Distinct(Doms[i]) /\ ToSet(Doms[i]) \subseteq Gpu
         /\ \A i, j \in 1..Len(Doms) : i # j => ToSet(Doms[i]) \cap ToSet(Doms[j]) = {}
<1> DEFINE ids == Range(domain) \ {None}
           of(d) == {g \in Gpu : domain[g] = d}
<1>1. ids \in SUBSET Nat /\ IsFiniteSet(ids)
  <2>1. domain \in Surjection(Gpu, Range(domain))
    BY DEF DomainsKnown, Surjection, Range
  <2>2. IsFiniteSet(Range(domain))
    BY <2>1, FS_Surjection, GpusAreOrdered
  <2> QED
    BY <2>2, FS_Subset DEF DomainsKnown, Range
<1>2. Distinct(DomainIds)
  BY <1>1, NumbersSorted DEF DomainIds
<1>3. \A d : of(d) \in SUBSET Nat /\ IsFiniteSet(of(d)) /\ of(d) \subseteq Gpu
  <2> TAKE d
  <2>1. of(d) \in SUBSET Gpu
    OBVIOUS
  <2> HIDE DEF of
  <2> QED
    BY <2>1, FS_Subset, GpusAreOrdered
<1>4. \A d : Distinct(Members(d)) /\ ToSet(Members(d)) = of(d)
  BY <1>3, NumbersSorted DEF Members
<1>5. CASE DomainIds = <<>>
  <2>1. Doms = <<Sorted(Gpu)>>
    BY <1>5 DEF Doms
  <2>2. Distinct(Sorted(Gpu)) /\ ToSet(Sorted(Gpu)) = Gpu
    BY NumbersSorted, GpusAreOrdered
  <2>3. Len(Doms) = 1 /\ DOMAIN Doms = 1..1 /\ Doms[1] = Sorted(Gpu)
    BY <2>1
  <2> QED
    BY <2>2, <2>3
<1>6. CASE DomainIds # <<>>
  <2> DEFINE n == Len(DomainIds)
  <2>1. n \in Nat /\ DOMAIN DomainIds = 1..n
    BY <1>2 DEF Distinct
  <2>2. n # 0
    BY <1>2, <1>6 DEF Distinct
  <2>3. Doms = [i \in 1..n |-> Members(DomainIds[i])]
    BY <1>6, <2>1 DEF Doms
  <2>4. Doms \in Seq({Members(DomainIds[i]) : i \in 1..n})
    BY <2>1, <2>3
  <2>5. Len(Doms) = n /\ DOMAIN Doms = 1..n
    BY <2>1, <2>3, <2>4
  <2>6. \A i \in 1..n : Distinct(Doms[i]) /\ ToSet(Doms[i]) = of(DomainIds[i])
    BY <1>4, <2>3
  <2>7. \A i, j \in 1..n : i # j => DomainIds[i] # DomainIds[j]
    BY <1>2, <2>1 DEF Distinct, IsInjective
  <2> QED
    BY <1>3, <2>1, <2>2, <2>5, <2>6, <2>7
<1> QED
  BY <1>5, <1>6

-----------------------------------------------------------------------------
(***************************************************************************)
(* The ranks before next are placed, each once and each on a GPU that no   *)
(* other one has; a placement that was validated is complete.              *)
(***************************************************************************)
Placed == 1..(next - 1)

PlacementInv ==
    /\ replicas \in {c.replicas : c \in Calls}
    /\ next \in 1..(Len(Ranks) + 1)
    /\ DOMAIN mapping = {Ranks[i] : i \in Placed}
    /\ \A i, j \in Placed : mapping[Ranks[i]] = mapping[Ranks[j]] => i = j
    /\ step = "placed" => next = Len(Ranks) + 1 /\ Range(mapping) \subseteq Gpu

SizesKnown(rep) == \A kind \in Kinds : rep[kind] \in Nat \ {0}

LEMMA ReplicasKnown ==
  ASSUME replicas \in {c.replicas : c \in Calls}
  PROVE  /\ Len(replicas) \in Nat /\ DOMAIN replicas = 1..Len(replicas)
         /\ \A k \in DOMAIN replicas : SizesKnown(replicas[k]) /\ WorldSize(replicas[k]) \in Nat \ {0}
<1>1. PICK call \in Calls : replicas = call.replicas
  OBVIOUS
<1>2. replicas \in Seq({replicas[k] : k \in DOMAIN replicas})
  BY <1>1, CallsType
<1>3. ASSUME NEW k \in DOMAIN replicas PROVE SizesKnown(replicas[k])
  BY <1>1, CallsType DEF SizesKnown
<1>4. ASSUME NEW rep, SizesKnown(rep) PROVE WorldSize(rep) \in Nat \ {0}
  <2> DEFINE a == rep.TP
             b == rep.PP
             c == rep.DP
             d == rep.EP
  <2>1. a \in Nat \ {0} /\ b \in Nat \ {0} /\ c \in Nat \ {0} /\ d \in Nat \ {0}
    BY <1>4 DEF SizesKnown, Kinds
  <2>2. WorldSize(rep) = a * b * c * d
    BY DEF WorldSize
  <2> HIDE DEF a, b, c, d
  <2>3. a * b \in Nat \ {0} /\ a * b * c \in Nat \ {0}
    BY <2>1, PositiveProduct
  <2> QED
    BY <2>1, <2>2, <2>3, PositiveProduct
<1> QED
  BY <1>2, <1>3, <1>4

(***************************************************************************)
(* The ranks of the replicas one after the other.                          *)
(***************************************************************************)
RankLists == [k \in DOMAIN replicas |-> RanksOf(replicas[k])]

LEMMA RanksLay ==
  ASSUME replicas \in {c.replicas : c \in Calls}
  PROVE  /\ Len(Ranks) \in Nat /\ DOMAIN Ranks = 1..Len(Ranks)
         /\ \A k \in DOMAIN replicas :
              /\ Offset(RankLists, k) \in Nat
              /\ Offset(RankLists, k) + WorldSize(replicas[k]) <= Len(Ranks)
              /\ \A j \in 1..WorldSize(replicas[k]) :
                    Ranks[Offset(RankLists, k) + j] = <<replicas[k].id, j - 1>>
              /\ k > 1 => Offset(RankLists, k) = Offset(RankLists, k - 1) + WorldSize(replicas[k - 1])
         /\ Len(replicas) > 0 => Offset(RankLists, 1) = 0
<1> DEFINE S == {replicas[k].id : k \in DOMAIN replicas} \X Int
           n == Len(replicas)
<1>1. n \in Nat /\ DOMAIN replicas = 1..n /\ \A k \in 1..n : WorldSize(replicas[k]) \in Nat \ {0}
  BY ReplicasKnown
<1>2. ASSUME NEW k \in 1..n
      PROVE  /\ RankLists[k] \in Seq(S) /\ Len(RankLists[k]) = WorldSize(replicas[k])
             /\ \A j \in 1..WorldSize(replicas[k]) : RankLists[k][j] = <<replicas[k].id, j - 1>>
  <2> DEFINE w == WorldSize(replicas[k])
             list == [i \in 1..w |-> <<replicas[k].id, i - 1>>]
  <2>1. RankLists[k] = list /\ w \in Nat
    BY <1>1, <1>2 DEF RankLists, RanksOf
  <2>2. \A i \in 1..w : <<replicas[k].id, i - 1>> \in S
    BY <1>1, <1>2
  <2> HIDE DEF S, w
  <2>3. list \in Seq(S) /\ Len(list) = w
    BY <2>1, <2>2
  <2> QED
    BY <2>1, <2>3 DEF w
<1>3. RankLists \in Seq(Seq(S)) /\ Len(RankLists) = n
  <2>1. RankLists = [k \in 1..n |-> RankLists[k]]
    BY <1>1 DEF RankLists
  <2> HIDE DEF n, S
  <2> QED
    BY <1>1, <1>2, <2>1
<1>4. Ranks = FlattenSeq(RankLists)
  BY DEF Ranks, DeploymentRanks, RankLists
<1> HIDE DEF S
<1>5. /\ FlattenSeq(RankLists) \in Seq(S)
      /\ \A i \in 1..Len(RankLists) :
           /\ Offset(RankLists, i) \in Nat
           /\ Offset(RankLists, i) + Len(RankLists[i]) <= Len(FlattenSeq(RankLists))
           /\ \A j \in 1..Len(RankLists[i]) :
                FlattenSeq(RankLists)[Offset(RankLists, i) + j] = RankLists[i][j]
           /\ i > 1 => Offset(RankLists, i) = Offset(RankLists, i - 1) + Len(RankLists[i - 1])
      /\ Len(RankLists) > 0 => Offset(RankLists, 1) = 0
  BY <1>3, FlattenLays
<1>6. Len(Ranks) \in Nat /\ DOMAIN Ranks = 1..Len(Ranks)
  BY <1>4, <1>5
<1>7. ASSUME NEW k \in 1..n
      PROVE  /\ Offset(RankLists, k) \in Nat
             /\ Offset(RankLists, k) + WorldSize(replicas[k]) <= Len(Ranks)
             /\ \A j \in 1..WorldSize(replicas[k]) :
                   Ranks[Offset(RankLists, k) + j] = <<replicas[k].id, j - 1>>
             /\ k > 1 => Offset(RankLists, k) = Offset(RankLists, k - 1) + WorldSize(replicas[k - 1])
  <2>1. k > 1 => k - 1 \in 1..n
    BY <1>1
  <2>2. k > 1 => Len(RankLists[k - 1]) = WorldSize(replicas[k - 1])
    BY <1>2, <2>1
  <2> QED
    BY <1>2, <1>3, <1>4, <1>5, <2>2
<1> QED
  BY <1>1, <1>3, <1>5, <1>6, <1>7

LEMMA RanksAreASequence ==
  ASSUME replicas \in {c.replicas : c \in Calls}
  PROVE  Len(Ranks) \in Nat /\ DOMAIN Ranks = 1..Len(Ranks)
BY RanksLay

LEMMA PlacementInvInit == Init => PlacementInv
<1> SUFFICES ASSUME Init PROVE PlacementInv
  OBVIOUS
<1>1. replicas \in {c.replicas : c \in Calls}
  BY DEF Init
<1>2. next = 1 /\ step = "start" /\ DOMAIN mapping = {} /\ Placed = {}
  BY DEF Init, Placed
<1> QED
  BY <1>1, <1>2, RanksAreASequence DEF PlacementInv

(***************************************************************************)
(* assign, whatever GPU it is given: it raises and changes nothing, or the *)
(* rank and the GPU are both new.                                          *)
(***************************************************************************)
LEMMA AssignKeeps ==
  ASSUME PlacementInv, RanksLeft, step = "placing", UNCHANGED replicas,
         NEW gpu, Assign(Ranks[next], gpu)
  PROVE  PlacementInv'
<1>1. Len(Ranks) \in Nat /\ next \in 1..Len(Ranks) /\ Ranks' = Ranks
  BY RanksAreASequence DEF PlacementInv, RanksLeft, Ranks
<1>2. CASE Refused(Ranks[next], gpu)
  <2>1. step' = "raised" /\ mapping' = mapping /\ next' = next /\ Placed' = Placed
    BY <1>2 DEF Assign, Placed
  <2> QED
    BY <1>1, <2>1 DEF PlacementInv
<1>3. CASE ~Refused(Ranks[next], gpu)
  <2> DEFINE rank == Ranks[next]
  <2>1. /\ mapping' = [r \in DOMAIN mapping \cup {rank} |->
                          IF r = rank THEN gpu ELSE mapping[r]]
        /\ next' = next + 1 /\ step' = "placing"
        /\ gpu \notin Range(mapping) /\ rank \notin DOMAIN mapping
    BY <1>3 DEF Assign, Refused
  <2>2. Placed' = Placed \cup {next} /\ next \notin Placed
    BY <1>1, <2>1 DEF Placed
  <2>3. DOMAIN mapping' = {Ranks[i] : i \in Placed'}
    BY <2>1, <2>2 DEF PlacementInv
  <2>4. \A i \in Placed : /\ Ranks[i] \in DOMAIN mapping
                          /\ mapping'[Ranks[i]] = mapping[Ranks[i]]
                          /\ mapping'[Ranks[i]] # gpu
    BY <2>1 DEF PlacementInv, Range
  <2>5. mapping'[rank] = gpu
    BY <2>1
  <2>6. \A i, j \in Placed' : mapping'[Ranks[i]] = mapping'[Ranks[j]] => i = j
    BY <2>2, <2>4, <2>5 DEF PlacementInv
  <2>7. next' \in 1..(Len(Ranks') + 1)
    BY <1>1, <2>1
  <2>8. replicas' \in {c.replicas : c \in Calls} /\ DOMAIN mapping' = {Ranks'[i] : i \in Placed'}
    BY <1>1, <2>3 DEF PlacementInv
  <2>9. \A i, j \in Placed' : mapping'[Ranks'[i]] = mapping'[Ranks'[j]] => i = j
    BY <1>1, <2>6
  <2> QED
    BY <2>1, <2>7, <2>8, <2>9 DEF PlacementInv
<1> QED
  BY <1>2, <1>3

LEMMA PlacementInvStep == PlacementInv /\ [Next]_vars => PlacementInv'
<1> SUFFICES ASSUME PlacementInv, [Next]_vars PROVE PlacementInv'
  OBVIOUS
(* A step that places nobody and validates nothing. *)
<1> DEFINE Still == UNCHANGED <<replicas, mapping, next>> /\ step' # "placed"
<1>1. ASSUME Still PROVE PlacementInv'
  BY <1>1 DEF PlacementInv, Ranks, Placed
<1>2. CASE Start
  BY <1>1, <1>2 DEF Start, arguments
<1>3. CASE PackedAssign
  <2>1. CASE next <= Len(Pool)
    BY <1>3, <2>1, AssignKeeps DEF PackedAssign, arguments
  <2>2. CASE ~(next <= Len(Pool))
    BY <1>1, <1>3, <2>2 DEF PackedAssign, arguments
  <2> QED
    BY <2>1, <2>2
<1>4. CASE SpreadAssign
  <2> DEFINE open == {k \in Turns : cursors[Turn(k)] < Len(Doms[Turn(k)])}
             d == Turn(Min(open))
  <2>1. CASE open = {}
    BY <1>1, <1>4, <2>1 DEF SpreadAssign, arguments
  <2>2. CASE open # {}
    <3>1. /\ RanksLeft /\ step = "placing" /\ UNCHANGED replicas
          /\ Assign(Ranks[next], Doms[d][cursors[d] + 1])
      BY <1>4, <2>2 DEF SpreadAssign, arguments
    <3> QED
      BY <3>1, AssignKeeps
  <2> QED
    BY <2>1, <2>2
<1>5. CASE ExplicitAssign
  <2>1. PICK given \in Gpu \cup {Stranger, None} :
            IF given = None THEN step' = "raised" /\ UNCHANGED <<mapping, next>>
            ELSE Assign(Ranks[next], given)
    BY <1>5 DEF ExplicitAssign
  <2>2. CASE given = None
    BY <1>1, <1>5, <2>1, <2>2 DEF ExplicitAssign, arguments
  <2>3. CASE given # None
    BY <1>5, <2>1, <2>3, AssignKeeps DEF ExplicitAssign, arguments
  <2> QED
    BY <2>2, <2>3
<1>6. CASE FragmentedStart
  BY <1>1, <1>6 DEF FragmentedStart, arguments
<1>7. CASE FragmentedAssign
  BY <1>7, AssignKeeps DEF FragmentedAssign, arguments
<1>8. CASE Validate
  <2>1. UNCHANGED <<replicas, mapping, next>> /\ ~RanksLeft
    BY <1>8 DEF Validate, arguments
  <2>2. Len(Ranks) \in Nat
    BY RanksAreASequence DEF PlacementInv
  <2>3. step' = "placed" => Range(mapping) \subseteq Gpu
    BY <1>8 DEF Validate, Valid
  <2>4. next = Len(Ranks) + 1
    BY <2>1, <2>2 DEF PlacementInv, RanksLeft
  <2> QED
    BY <2>1, <2>3, <2>4 DEF PlacementInv, Ranks, Placed
<1>9. CASE Ended \/ UNCHANGED vars
  BY <1>9 DEF Ended, vars, arguments, PlacementInv, Ranks, Placed
<1> QED
  BY <1>2, <1>3, <1>4, <1>5, <1>6, <1>7, <1>8, <1>9 DEF Next

(***************************************************************************)
(* As many GPUs are taken as ranks are placed.                             *)
(***************************************************************************)
LEMMA TakenAreCounted ==
  ASSUME PlacementInv
  PROVE  IsFiniteSet(Range(mapping)) /\ Cardinality(Range(mapping)) = next - 1
<1> DEFINE n == next - 1
           gpuOf == [i \in 1..n |-> mapping[Ranks[i]]]
<1>1. n \in Nat /\ Placed = 1..n
  BY RanksAreASequence DEF PlacementInv, Placed
<1>2. Range(mapping) = {gpuOf[i] : i \in 1..n}
  BY <1>1 DEF PlacementInv, Range
<1>3. \A i, j \in 1..n : gpuOf[i] = gpuOf[j] => i = j
  BY <1>1 DEF PlacementInv
<1>4. gpuOf \in [1..n -> Range(mapping)]
  BY <1>2
<1>5. gpuOf \in Bijection(1..n, Range(mapping))
  <2> HIDE DEF gpuOf
  <2> QED
    BY <1>2, <1>3, <1>4 DEF Bijection, Injection, Surjection, IsInjective
<1>6. IsFiniteSet(1..n) /\ Cardinality(1..n) = n
  <2> HIDE DEF n, gpuOf
  <2>1. 1 \in Int /\ n \in Int
    BY <1>1
  <2>2. IsFiniteSet(1..n) /\ Cardinality(1..n) = IF 1 > n THEN 0 ELSE n - 1 + 1
    BY <2>1, FS_Interval
  <2> QED
    BY <1>1, <2>2
<1> QED
  BY <1>5, <1>6, FS_Bijection DEF ExistsBijection

LEMMA InjectiveWhenPlaced == PlacementInv => PlacedIsInjective
<1> SUFFICES ASSUME PlacementInv, step = "placed" PROVE PlacedIsInjective!2
  BY DEF PlacedIsInjective
<1>1. DOMAIN Ranks = 1..Len(Ranks) /\ Placed = 1..Len(Ranks) /\ next - 1 = Len(Ranks)
  BY RanksAreASequence DEF PlacementInv, Placed
<1>2. DOMAIN mapping = ToSet(Ranks)
  BY <1>1 DEF PlacementInv, ToSet
<1> QED
  BY <1>1, <1>2, TakenAreCounted DEF PlacementInv

(***************************************************************************)
(* "Two ranks on one GPU is a configuration error": every policy returns a *)
(* placement of all ranks, each on a GPU of its own that the fabric has,   *)
(* or raises.                                                              *)
(***************************************************************************)
THEOREM PlacedOnOwnGpus == Spec => []PlacedIsInjective
BY PlacementInvInit, PlacementInvStep, InjectiveWhenPlaced, PTL DEF Spec

-----------------------------------------------------------------------------
(***************************************************************************)
(* assign either refuses a GPU that is taken or a rank that the deployment *)
(* names twice, and leaves everything as it is, or adds the pair.          *)
(***************************************************************************)
LEMMA AssignEffect ==
  ASSUME PlacementInv, RanksLeft, step = "placing", NEW gpu, Assign(Ranks[next], gpu)
  PROVE  \/ /\ step' = "raised" /\ mapping' = mapping /\ next' = next
            /\ gpu \in Range(mapping) \/ ~IsInjective(Ranks)
         \/ /\ step' = "placing" /\ next' = next + 1
            /\ gpu \notin Range(mapping)
            /\ Range(mapping') = Range(mapping) \cup {gpu}
            /\ mapping'[Ranks[next]] = gpu
            /\ \A i \in Placed : mapping'[Ranks[i]] = mapping[Ranks[i]]
<1>1. Len(Ranks) \in Nat /\ next \in 1..Len(Ranks) /\ DOMAIN Ranks = 1..Len(Ranks)
  BY RanksAreASequence DEF PlacementInv, RanksLeft
<1>2. DOMAIN mapping = {Ranks[i] : i \in Placed} /\ next \notin Placed /\ Placed \subseteq 1..Len(Ranks)
  BY <1>1 DEF PlacementInv, Placed
<1>3. CASE Refused(Ranks[next], gpu)
  <2>1. step' = "raised" /\ mapping' = mapping /\ next' = next
    BY <1>3 DEF Assign
  <2>2. CASE gpu \in Range(mapping)
    BY <2>1, <2>2
  <2>3. CASE Ranks[next] \in DOMAIN mapping
    <3>1. PICK i \in Placed : Ranks[next] = Ranks[i]
      BY <1>2, <2>3
    <3>2. i \in DOMAIN Ranks /\ next \in DOMAIN Ranks /\ i # next
      BY <1>1, <1>2
    <3>3. ~IsInjective(Ranks)
      BY <3>1, <3>2 DEF IsInjective
    <3> QED
      BY <2>1, <3>3
  <2> QED
    BY <1>3, <2>2, <2>3 DEF Refused
<1>4. CASE ~Refused(Ranks[next], gpu)
  <2> DEFINE rank == Ranks[next]
  <2>1. /\ mapping' = [r \in DOMAIN mapping \cup {rank} |->
                          IF r = rank THEN gpu ELSE mapping[r]]
        /\ next' = next + 1 /\ step' = "placing"
        /\ gpu \notin Range(mapping) /\ rank \notin DOMAIN mapping
    BY <1>4 DEF Assign, Refused
  <2> HIDE DEF rank
  <2>2. DOMAIN mapping' = DOMAIN mapping \cup {rank} /\ mapping'[rank] = gpu
        /\ \A r \in DOMAIN mapping : mapping'[r] = mapping[r]
    BY <2>1
  <2>3. Range(mapping') = Range(mapping) \cup {gpu}
    BY <2>2 DEF Range
  <2>4. \A i \in Placed : mapping'[Ranks[i]] = mapping[Ranks[i]]
    BY <1>2, <2>2
  <2> QED
    BY <2>1, <2>2, <2>3, <2>4 DEF rank
<1> QED
  BY <1>3, <1>4

(***************************************************************************)
(* What each policy has chosen so far.                                     *)
(***************************************************************************)
ChosenInv ==
    /\ policy \in {"packed", "spread", "explicit", "fragmented"} /\ DomainsKnown
    /\ step \in {"start", "placing", "placed", "raised"}
    /\ free \subseteq Gpu
    /\ Range(mapping) \subseteq IF policy = "explicit" THEN Gpu \cup {Stranger} ELSE Gpu
    /\ step = "start" => DOMAIN mapping = {} /\ next = 1 /\ di = 0 /\ cursors = <<>>

PackedInv ==
    policy = "packed" => \A i \in Placed : i <= Len(Pool) /\ mapping[Ranks[i]] = Pool[i]

FragmentedInv == policy = "fragmented" => free \cap Range(mapping) = {}

(* How often spread has come to a domain, and what it has taken there. *)
Attempts(i) == (di \div Len(Doms)) + (IF i <= di % Len(Doms) THEN 1 ELSE 0)

TakenOf(i) == {Doms[i][j] : j \in 1..cursors[i]}

CursorsTell ==
    /\ di \in Nat
    /\ cursors \in [1..Len(Doms) -> Nat]
    /\ \A i \in 1..Len(Doms) : cursors[i] <= Len(Doms[i])
    /\ Range(mapping) = UNION {TakenOf(i) : i \in 1..Len(Doms)}

InTurn ==
    \A i \in 1..Len(Doms) :
        cursors[i] = IF Attempts(i) < Len(Doms[i]) THEN Attempts(i) ELSE Len(Doms[i])

SpreadInv ==
    policy = "spread" =>
        /\ step # "start" => CursorsTell
        /\ step = "placing" => InTurn
        /\ SpreadIsEven

ChoiceInv ==
    /\ PlacementInv
    /\ ChosenInv
    /\ PackedInv
    /\ FragmentedInv
    /\ SpreadInv
    /\ RefusalIsJustified

LEMMA ChoiceInit == Init => ChoiceInv
<1> SUFFICES ASSUME Init PROVE ChoiceInv
  OBVIOUS
<1>1. PlacementInv
  BY PlacementInvInit
<1>2. PICK c \in Calls : policy = c.policy /\ replicas = c.replicas /\ domain = c.domain
  BY DEF Init
<1>3. policy \in {"packed", "spread", "explicit", "fragmented"} /\ DomainsKnown
  BY <1>2, CallsType DEF DomainsKnown
<1>4. /\ step = "start" /\ DOMAIN mapping = {} /\ next = 1 /\ di = 0 /\ cursors = <<>> /\ free = {}
      /\ Range(mapping) = {} /\ Placed = {} /\ DOMAIN cursors = {}
  BY DEF Init, Range, Placed
<1> QED
  BY <1>1, <1>3, <1>4 DEF ChoiceInv, ChosenInv, PackedInv, FragmentedInv, SpreadInv, SpreadIsEven, RefusalIsJustified

(* A step that places nobody and does not raise. *)
LEMMA ChoiceKept ==
  ASSUME ChoiceInv, step # "start", PlacementInv',
         UNCHANGED <<arguments, mapping, next, spreading, free>>,
         step' \in {"placing", "placed", "raised"},
         step' = "placing" => step = "placing",
         step' = "raised" => step = "raised" \/ RefusalIsJustified'
  PROVE  ChoiceInv'
<1> USE DEF ChoiceInv, arguments, spreading
<1>1. DomainsKnown' /\ Doms' = Doms /\ Pool' = Pool /\ Ranks' = Ranks /\ Placed' = Placed /\ DomainIds' = DomainIds
  BY DEF DomainsKnown, ChosenInv, Doms, Pool, TakenBefore, Ranks, Placed, DomainIds, Members
<1>2. ChosenInv'
  BY <1>1 DEF ChosenInv
<1>3. PackedInv' /\ FragmentedInv'
  BY <1>1 DEF PackedInv, FragmentedInv
<1>4. SpreadInv'
  BY <1>1 DEF SpreadInv, CursorsTell, InTurn, Attempts, TakenOf, SpreadIsEven
<1>5. RefusalIsJustified'
  BY <1>1 DEF RefusalIsJustified, Usable
<1> QED
  BY <1>2, <1>3, <1>4, <1>5

LEMMA StartChooses == ASSUME ChoiceInv, Start, PlacementInv' PROVE ChoiceInv'
<1> USE DEF ChoiceInv, arguments
<1>1. /\ UNCHANGED <<replicas, domain, policy, mapping, next, di, free>>
      /\ step = "start" /\ step' = "placing" /\ policy # "fragmented"
      /\ cursors' = IF policy = "spread" THEN [i \in DOMAIN Doms |-> 0] ELSE cursors
  BY DEF Start
<1>2. DomainsKnown /\ DOMAIN mapping = {} /\ next = 1 /\ di = 0 /\ cursors = <<>>
  BY <1>1 DEF ChosenInv
<1>3. DomainsKnown' /\ Doms' = Doms /\ Placed' = {} /\ Range(mapping') = {} /\ Range(mapping) = {}
  BY <1>1, <1>2 DEF DomainsKnown, Doms, Placed, DomainIds, Members, Range
<1>4. ChosenInv' /\ PackedInv' /\ FragmentedInv' /\ RefusalIsJustified'
  BY <1>1, <1>2, <1>3 DEF ChosenInv, PackedInv, FragmentedInv, RefusalIsJustified
<1>5. ASSUME policy = "spread" PROVE CursorsTell' /\ InTurn' /\ SpreadIsEven'
  <2> DEFINE n == Len(Doms)
  <2>1. n \in Nat \ {0} /\ DOMAIN Doms = 1..n /\ \A i \in 1..n : Distinct(Doms[i])
    BY <1>2, DomsList
  <2>2. cursors' = [i \in 1..n |-> 0]
    BY <1>1, <1>5, <2>1
  <2>3. \A i \in 1..n : cursors'[i] = 0 /\ Len(Doms[i]) \in Nat
    BY <2>1, <2>2 DEF Distinct
  <2>4. 0 \div n = 0 /\ 0 % n = 0
    <3> HIDE DEF n
    <3> QED
      BY <2>1, DivModIs
  <2>5. \A i \in 1..n : Attempts(i)' = 0 /\ TakenOf(i)' = {}
    BY <1>1, <1>2, <1>3, <2>3, <2>4 DEF Attempts, TakenOf
  <2>6. CursorsTell'
    BY <1>1, <1>2, <1>3, <2>2, <2>3, <2>5 DEF CursorsTell
  <2>7. InTurn'
    BY <1>3, <2>3, <2>5 DEF InTurn
  <2>8. SpreadIsEven'
    BY <2>2, <2>3 DEF SpreadIsEven
  <2> QED
    BY <2>6, <2>7, <2>8
<1>6. SpreadInv'
  BY <1>1, <1>5 DEF SpreadInv
<1> QED
  BY <1>4, <1>6

LEMMA PackedChooses == ASSUME ChoiceInv, PackedAssign, PlacementInv' PROVE ChoiceInv'
<1> USE DEF ChoiceInv, arguments, spreading
<1>1. /\ UNCHANGED <<replicas, domain, policy, di, cursors, free>>
      /\ step = "placing" /\ policy = "packed" /\ RanksLeft
  BY DEF PackedAssign
<1>2. DomainsKnown /\ Len(Ranks) \in Nat /\ next \in 1..Len(Ranks)
  BY <1>1, RanksAreASequence DEF ChosenInv, PlacementInv, RanksLeft
<1>3. /\ Distinct(Pool) /\ Len(Pool) = Cardinality(Gpu) /\ ToSet(Pool) = Gpu
      /\ Len(Pool) \in Nat /\ DOMAIN Pool = 1..Len(Pool)
  BY <1>2, PoolLists DEF Distinct
<1>4. Pool' = Pool /\ Ranks' = Ranks /\ DomainsKnown' /\ Usable' = Usable /\ Usable = Cardinality(Gpu)
  BY <1>1, <1>2 DEF Pool, TakenBefore, Ranks, DomainsKnown, Usable
<1>5. CASE ~(next <= Len(Pool))
  <2>1. step' = "raised" /\ mapping' = mapping /\ next' = next
    BY <1>5 DEF PackedAssign
  <2>2. RefusalIsJustified'
    BY <1>2, <1>3, <1>4, <1>5 DEF RefusalIsJustified
  <2> QED
    BY <1>1, <2>1, <2>2, ChoiceKept
<1>6. CASE next <= Len(Pool)
  <2> DEFINE gpu == Pool[next]
  <2>1. Assign(Ranks[next], gpu)
    BY <1>6 DEF PackedAssign
  <2>2. gpu \in Gpu /\ gpu \notin Range(mapping)
    <3>1. \A i \in Placed : i \in DOMAIN Pool /\ i # next /\ next \in DOMAIN Pool
      BY <1>1, <1>2, <1>3, <1>6 DEF PackedInv, Placed
    <3>2. \A i \in Placed : mapping[Ranks[i]] # gpu
      BY <1>1, <1>3, <3>1 DEF PackedInv, Distinct, IsInjective
    <3>3. next \in DOMAIN Pool
      BY <1>2, <1>3, <1>6
    <3> QED
      BY <1>3, <3>2, <3>3 DEF PlacementInv, Range, ToSet
  <2>3. CASE step' = "raised" /\ mapping' = mapping /\ next' = next /\ ~IsInjective(Ranks)
    <3>1. RefusalIsJustified'
      BY <1>4, <2>3 DEF RefusalIsJustified
    <3> QED
      BY <1>1, <2>3, <3>1, ChoiceKept
  <2>4. CASE /\ step' = "placing" /\ next' = next + 1
             /\ Range(mapping') = Range(mapping) \cup {gpu}
             /\ mapping'[Ranks[next]] = gpu
             /\ \A i \in Placed : mapping'[Ranks[i]] = mapping[Ranks[i]]
    <3>1. Placed' = Placed \cup {next}
      BY <1>2, <2>4 DEF Placed
    <3>2. PackedInv'
      BY <1>1, <1>4, <1>6, <2>4, <3>1 DEF PackedInv
    <3>3. ChosenInv'
      BY <1>1, <1>4, <2>2, <2>4 DEF ChosenInv
    <3> QED
      BY <1>1, <2>4, <3>2, <3>3 DEF FragmentedInv, SpreadInv, RefusalIsJustified
  <2> QED
    BY <1>1, <2>1, <2>2, <2>3, <2>4, AssignEffect
<1> QED
  BY <1>5, <1>6

LEMMA ExplicitChooses == ASSUME ChoiceInv, ExplicitAssign, PlacementInv' PROVE ChoiceInv'
<1> USE DEF ChoiceInv, arguments, spreading
<1>1. /\ UNCHANGED <<replicas, domain, policy, di, cursors, free>>
      /\ step = "placing" /\ policy = "explicit" /\ RanksLeft
  BY DEF ExplicitAssign
<1>2. DomainsKnown'
  BY <1>1 DEF ChosenInv, DomainsKnown
<1>3. PICK given \in Gpu \cup {Stranger, None} :
          IF given = None THEN step' = "raised" /\ UNCHANGED <<mapping, next>>
          ELSE Assign(Ranks[next], given)
  BY DEF ExplicitAssign
<1>4. step' \in {"raised", "placing"} /\ Range(mapping') \subseteq Range(mapping) \cup (Gpu \cup {Stranger})
  <2>1. CASE given = None
    BY <1>3, <2>1
  <2>2. CASE given # None
    BY <1>1, <1>3, <2>2, AssignEffect
  <2> QED
    BY <2>1, <2>2
<1> QED
  BY <1>1, <1>2, <1>4 DEF ChosenInv, PackedInv, FragmentedInv, SpreadInv, RefusalIsJustified

LEMMA FragmentedStarts == ASSUME ChoiceInv, FragmentedStart, PlacementInv' PROVE ChoiceInv'
<1> USE DEF ChoiceInv, arguments, spreading
<1>1. /\ UNCHANGED <<replicas, domain, policy, mapping, next, di, cursors>>
      /\ step = "start" /\ policy = "fragmented" /\ free' \subseteq Gpu
      /\ step' = IF Cardinality(free') < Len(Ranks) THEN "raised" ELSE "placing"
  BY DEF FragmentedStart
<1>2. DomainsKnown' /\ Range(mapping') = {} /\ Ranks' = Ranks
  BY <1>1 DEF ChosenInv, DomainsKnown, Range, Ranks
<1>3. Len(Ranks) \in Nat /\ Cardinality(free') \in Nat
  BY <1>1, RanksAreASequence, FS_Subset, FS_CardinalityType, GpusAreOrdered DEF PlacementInv
<1>4. RefusalIsJustified'
  BY <1>1, <1>2, <1>3 DEF RefusalIsJustified, Usable
<1> QED
  BY <1>1, <1>2, <1>4 DEF ChosenInv, PackedInv, FragmentedInv, SpreadInv

LEMMA FragmentedChooses == ASSUME ChoiceInv, FragmentedAssign, PlacementInv' PROVE ChoiceInv'
<1> USE DEF ChoiceInv, arguments, spreading
<1>1. /\ UNCHANGED <<replicas, domain, policy, di, cursors>>
      /\ step = "placing" /\ policy = "fragmented" /\ RanksLeft
  BY DEF FragmentedAssign
<1>2. PICK gpu \in free : Assign(Ranks[next], gpu) /\ free' = free \ {gpu}
  BY DEF FragmentedAssign
<1>3. gpu \in Gpu /\ gpu \notin Range(mapping) /\ DomainsKnown' /\ Ranks' = Ranks
  BY <1>1, <1>2 DEF ChosenInv, FragmentedInv, DomainsKnown, Ranks
<1>4. \/ step' = "raised" /\ Range(mapping') = Range(mapping) /\ ~IsInjective(Ranks)
      \/ step' = "placing" /\ Range(mapping') = Range(mapping) \cup {gpu}
  BY <1>1, <1>2, <1>3, AssignEffect
<1> QED
  BY <1>1, <1>2, <1>3, <1>4 DEF ChosenInv, PackedInv, FragmentedInv, SpreadInv, RefusalIsJustified

(***************************************************************************)
(* Once every domain is full, spread has taken all it may use.             *)
(***************************************************************************)
LEMMA SpreadExhausted ==
  ASSUME ChoiceInv, step = "placing", policy = "spread", RanksLeft,
         \A i \in 1..Len(Doms) : ~(cursors[i] < Len(Doms[i]))
  PROVE  Len(Ranks) > Usable
<1> DEFINE n == Len(Doms)
           all == UNION {ToSet(Doms[i]) : i \in DOMAIN Doms}
<1>1. n \in Nat \ {0} /\ DOMAIN Doms = 1..n /\ \A i \in 1..n : Distinct(Doms[i])
  BY DomsList DEF ChoiceInv, ChosenInv
<1>2. CursorsTell
  BY DEF ChoiceInv, SpreadInv
<1>3. \A i \in 1..n : TakenOf(i) = ToSet(Doms[i])
  <2> TAKE i \in 1..n
  <2>1. Len(Doms[i]) \in Nat /\ DOMAIN Doms[i] = 1..Len(Doms[i])
    BY <1>1 DEF Distinct
  <2>2. cursors[i] = Len(Doms[i])
    BY <1>1, <1>2, <2>1 DEF CursorsTell
  <2> QED
    BY <2>1, <2>2 DEF TakenOf, ToSet
<1>4. Range(mapping) = all
  BY <1>1, <1>2, <1>3 DEF CursorsTell
<1>5. Cardinality(all) = next - 1
  BY <1>4, TakenAreCounted DEF ChoiceInv
<1>6. Usable = Cardinality(all)
  BY DEF Usable
<1>7. Len(Ranks) \in Nat /\ next \in 1..Len(Ranks)
  BY RanksAreASequence DEF ChoiceInv, PlacementInv, RanksLeft
<1> HIDE DEF all
<1> QED
  BY <1>5, <1>6, <1>7

(***************************************************************************)
(* The arithmetic of a turn.  A domain is reached after ReachedIn turns;   *)
(* after turns 0..k, the domains reached in them have one attempt more.    *)
(***************************************************************************)
ReachedIn(i) ==
    IF i > di % Len(Doms) THEN i - 1 - (di % Len(Doms))
    ELSE i - 1 - (di % Len(Doms)) + Len(Doms)

LEMMA EachHasItsTurn ==
  ASSUME Len(Doms) \in Nat \ {0}, di \in Nat
  PROVE  /\ \A k \in Turns : Turn(k) \in 1..Len(Doms) /\ ReachedIn(Turn(k)) = k
         /\ \A i \in 1..Len(Doms) : ReachedIn(i) \in Turns /\ Turn(ReachedIn(i)) = i
<1> DEFINE n == Len(Doms)
           pos == di % n
<1>1. pos \in 0..(n - 1)
  <2> HIDE DEF n
  <2> QED
    BY DivMod DEF n
<1>2. Turns = 0..(n - 1)
  BY DEF Turns
<1>3. \A k \in 0..(n - 1) : (di + k) % n = IF pos + k < n THEN pos + k ELSE pos + k - n
  <2> TAKE k \in 0..(n - 1)
  <2>1. k \in 0..n
    OBVIOUS
  <2> HIDE DEF n
  <2> QED
    BY <2>1, NextRound DEF n
<1>4. \A k \in 0..(n - 1) : Turn(k) = (IF pos + k < n THEN pos + k ELSE pos + k - n) + 1
  BY <1>3 DEF Turn
<1>5. \A i \in 1..n : ReachedIn(i) = IF i > pos THEN i - 1 - pos ELSE i - 1 - pos + n
  BY DEF ReachedIn
<1>6. n \in Nat \ {0}
  OBVIOUS
<1> HIDE DEF n, pos
<1>7. \A k \in 0..(n - 1) : Turn(k) \in 1..n /\ ReachedIn(Turn(k)) = k
  BY <1>1, <1>4, <1>5, <1>6
<1>8. \A i \in 1..n : ReachedIn(i) \in 0..(n - 1) /\ Turn(ReachedIn(i)) = i
  <2> TAKE i \in 1..n
  <2> DEFINE t == ReachedIn(i)
  <2>1. t = IF i > pos THEN i - 1 - pos ELSE i - 1 - pos + n
    BY <1>5
  <2> HIDE DEF t
  <2>2. t \in 0..(n - 1)
    BY <1>1, <1>6, <2>1
  <2>3. Turn(t) = (IF pos + t < n THEN pos + t ELSE pos + t - n) + 1
    BY <1>4, <2>2
  <2> QED
    BY <1>1, <1>6, <2>1, <2>2, <2>3 DEF t
<1> QED
  BY <1>2, <1>7, <1>8 DEF n

LEMMA AttemptsCount ==
  ASSUME Len(Doms) \in Nat \ {0}, di \in Nat, NEW k \in Turns, di' = di + k + 1, UNCHANGED Doms
  PROVE  /\ di' \in Nat
         /\ \A i \in 1..Len(Doms) :
              /\ Attempts(i) \in Nat /\ Attempts(i)' \in Nat
              /\ Attempts(i)' = Attempts(i) + (IF ReachedIn(i) <= k THEN 1 ELSE 0)
         /\ \A i, j \in 1..Len(Doms) : Attempts(i)' <= Attempts(j)' + 1
<1> DEFINE n == Len(Doms)
           pos == di % n
           laps == di \div n
           pos2 == di' % n
           laps2 == di' \div n
<1>1. pos \in 0..(n - 1) /\ laps \in Nat
  <2> HIDE DEF n
  <2> QED
    BY DivMod DEF n
<1>2. k \in Nat /\ k + 1 \in 0..n /\ di' = di + (k + 1) /\ di' \in Nat
  BY DEF Turns
<1>3. IF pos + (k + 1) < n THEN laps2 = laps /\ pos2 = pos + (k + 1)
      ELSE laps2 = laps + 1 /\ pos2 = pos + (k + 1) - n
  <2>1. n \in Nat \ {0}
    OBVIOUS
  <2> HIDE DEF n
  <2> QED
    BY <1>2, <2>1, NextRound
<1>4. \A i \in 1..n : /\ Attempts(i) = laps + (IF i <= pos THEN 1 ELSE 0)
                      /\ Attempts(i)' = laps2 + (IF i <= pos2 THEN 1 ELSE 0)
                      /\ ReachedIn(i) = IF i > pos THEN i - 1 - pos ELSE i - 1 - pos + n
  BY DEF Attempts, ReachedIn
<1>5. n \in Nat \ {0}
  OBVIOUS
<1> HIDE DEF n, pos, laps, pos2, laps2
<1>6. \A i \in 1..n : /\ Attempts(i) \in Nat
                      /\ Attempts(i)' = Attempts(i) + (IF ReachedIn(i) <= k THEN 1 ELSE 0)
  BY <1>1, <1>2, <1>3, <1>4, <1>5
<1>7. \A i, j \in 1..n : Attempts(i)' <= Attempts(j)' + 1
  BY <1>1, <1>2, <1>3, <1>4, <1>5
<1> QED
  BY <1>2, <1>6, <1>7 DEF n

LEMMA SpreadChooses == ASSUME ChoiceInv, SpreadAssign, PlacementInv' PROVE ChoiceInv'
<1> USE DEF ChoiceInv, arguments, spreading
<1> DEFINE n == Len(Doms)
           open == {k \in Turns : cursors[Turn(k)] < Len(Doms[Turn(k)])}
           k == Min(open)
           d == Turn(k)
           gpu == Doms[d][cursors[d] + 1]
<1>1. /\ UNCHANGED <<replicas, domain, policy, free>>
      /\ step = "placing" /\ policy = "spread" /\ RanksLeft
  BY DEF SpreadAssign
<1>2. DomainsKnown /\ Len(Ranks) \in Nat /\ next \in 1..Len(Ranks)
  BY <1>1, RanksAreASequence DEF ChosenInv, PlacementInv, RanksLeft
<1>3. /\ n \in Nat \ {0} /\ DOMAIN Doms = 1..n
      /\ \A i \in 1..n : /\ Distinct(Doms[i]) /\ ToSet(Doms[i]) \subseteq Gpu
                         /\ Len(Doms[i]) \in Nat /\ DOMAIN Doms[i] = 1..Len(Doms[i])
      /\ \A i, j \in 1..n : i # j => ToSet(Doms[i]) \cap ToSet(Doms[j]) = {}
  BY <1>2, DomsList DEF Distinct
<1>4. /\ di \in Nat /\ cursors \in [1..n -> Nat]
      /\ \A i \in 1..n : cursors[i] <= Len(Doms[i])
      /\ Range(mapping) = UNION {TakenOf(i) : i \in 1..n}
      /\ \A i \in 1..n : cursors[i] = IF Attempts(i) < Len(Doms[i]) THEN Attempts(i) ELSE Len(Doms[i])
  BY <1>1 DEF SpreadInv, CursorsTell, InTurn
<1>5. Doms' = Doms /\ Ranks' = Ranks /\ DomainsKnown'
  BY <1>1, <1>2 DEF Doms, DomainIds, Members, Ranks, DomainsKnown
<1>6. /\ \A t \in Turns : Turn(t) \in 1..n /\ ReachedIn(Turn(t)) = t
      /\ \A i \in 1..n : ReachedIn(i) \in Turns /\ Turn(ReachedIn(i)) = i
      /\ \A t \in Turns : t \in Nat
  BY <1>3, <1>4, EachHasItsTurn DEF Turns
<1>7. CASE open = {}
  <2>1. step' = "raised" /\ UNCHANGED <<mapping, next, di, cursors>>
    BY <1>7 DEF SpreadAssign
  <2>2. \A i \in 1..n : ~(cursors[i] < Len(Doms[i]))
    BY <1>6, <1>7
  <2>3. Len(Ranks) > Usable
    BY <1>1, <2>2, SpreadExhausted
  <2>4. Usable' = Usable
    BY <1>1, <1>5 DEF Usable
  <2>5. RefusalIsJustified'
    BY <1>5, <2>3, <2>4 DEF RefusalIsJustified
  <2> QED
    BY <1>1, <2>1, <2>5, ChoiceKept
<1>8. CASE open # {}
  <2>1. /\ Assign(Ranks[next], gpu) /\ di' = di + k + 1
        /\ cursors' = IF next' = next THEN cursors ELSE [cursors EXCEPT ![d] = @ + 1]
    BY <1>8 DEF SpreadAssign
  <2>2. k \in open /\ \A t \in open : k <= t
    <3>1. open \in SUBSET Nat
      BY <1>6
    <3> HIDE DEF open
    <3> QED
      BY <1>8, <3>1, LeastNatural
  <2>3. k \in Turns /\ d \in 1..n /\ cursors[d] < Len(Doms[d]) /\ ReachedIn(d) = k
    BY <1>6, <2>2
  <2>4. \A i \in 1..n : ReachedIn(i) < k => cursors[i] = Len(Doms[i])
    <3> SUFFICES ASSUME NEW i \in 1..n, ReachedIn(i) < k PROVE cursors[i] = Len(Doms[i])
      OBVIOUS
    <3>1. ReachedIn(i) \in Turns /\ Turn(ReachedIn(i)) = i
      BY <1>6
    <3>2. ReachedIn(i) \notin open
      <4>1. k \in Nat /\ ReachedIn(i) \in Nat /\ ~(k <= ReachedIn(i))
        BY <1>6, <2>3, <3>1
      <4> HIDE DEF k, open
      <4> QED
        BY <2>2, <4>1
    <3> QED
      BY <1>3, <1>4, <3>1, <3>2
  <2>5. \A i \in 1..n : ReachedIn(i) = k => i = d
    BY <1>6, <2>3
  <2>6. /\ di' \in Nat
        /\ \A i \in 1..n : /\ Attempts(i) \in Nat /\ Attempts(i)' \in Nat
                           /\ Attempts(i)' = Attempts(i) + (IF ReachedIn(i) <= k THEN 1 ELSE 0)
        /\ \A i, j \in 1..n : Attempts(i)' <= Attempts(j)' + 1
    BY <1>3, <1>4, <1>5, <2>1, <2>3, AttemptsCount
  <2>11. PICK e \in 1..n : e = d
    BY <2>3
  <2> DEFINE c == cursors[e]
  <2>12. gpu = Doms[e][c + 1] /\ cursors[e] < Len(Doms[e]) /\ ReachedIn(e) = k
    BY <2>3, <2>11
  <2>13. /\ \A i \in 1..n : ReachedIn(i) = k => i = e
         /\ cursors' = IF next' = next THEN cursors ELSE [cursors EXCEPT ![e] = c + 1]
    BY <2>1, <2>5, <2>11
  <2> HIDE DEF k, d, open, gpu
  <2>7. c \in Nat /\ c + 1 \in DOMAIN Doms[e] /\ gpu \in ToSet(Doms[e]) /\ gpu \in Gpu
    <3>1. c \in Nat /\ c < Len(Doms[e]) /\ Len(Doms[e]) \in Nat
      BY <1>3, <1>4, <2>12
    <3>2. c + 1 \in DOMAIN Doms[e]
      BY <1>3, <2>12, <3>1
    <3> QED
      BY <1>3, <2>12, <3>1, <3>2 DEF ToSet
  <2> HIDE DEF c
  <2>8. gpu \notin Range(mapping)
    <3>1. ASSUME NEW i \in 1..n, gpu \in TakenOf(i) PROVE FALSE
      <4>1. PICK j \in 1..cursors[i] : gpu = Doms[i][j]
        BY <3>1 DEF TakenOf
      <4>2. j \in DOMAIN Doms[i]
        BY <1>3, <1>4
      <4>3. i = e
        BY <1>3, <2>7, <4>1, <4>2 DEF ToSet
      <4>4. j # c + 1
        BY <1>4, <2>7, <4>1, <4>3 DEF c
      <4> QED
        BY <1>3, <2>7, <2>12, <4>1, <4>2, <4>3, <4>4 DEF Distinct, IsInjective
    <3> QED
      BY <1>4, <3>1
  <2>9. CASE step' = "raised" /\ mapping' = mapping /\ next' = next /\ ~IsInjective(Ranks)
    <3>1. cursors' = cursors
      BY <2>9, <2>13
    <3>2. \A i \in 1..n : TakenOf(i)' = TakenOf(i)
      BY <1>5, <3>1 DEF TakenOf
    <3>3. CursorsTell'
      BY <1>4, <1>5, <2>6, <2>9, <3>1, <3>2 DEF CursorsTell
    <3>4. SpreadIsEven'
      BY <1>1, <1>5, <3>1 DEF SpreadInv, SpreadIsEven
    <3>5. RefusalIsJustified'
      BY <1>5, <2>9 DEF RefusalIsJustified
    <3> QED
      BY <1>1, <1>5, <2>9, <3>3, <3>4, <3>5 DEF ChosenInv, PackedInv, FragmentedInv, SpreadInv
  <2>10. CASE /\ step' = "placing" /\ next' = next + 1
              /\ Range(mapping') = Range(mapping) \cup {gpu}
    <3>1. cursors' = [cursors EXCEPT ![e] = c + 1]
      BY <1>2, <2>10, <2>13
    <3>2. /\ cursors' \in [1..n -> Nat] /\ cursors'[e] = c + 1
          /\ \A i \in 1..n : i # e => cursors'[i] = cursors[i]
      BY <1>4, <2>7, <3>1
    <3>3. \A i \in 1..n : cursors'[i] <= Len(Doms[i])
      BY <1>3, <1>4, <2>7, <3>2
    <3>4. \A i \in 1..n : i # e => TakenOf(i)' = TakenOf(i)
      BY <1>5, <3>2 DEF TakenOf
    <3>5. TakenOf(e)' = TakenOf(e) \cup {gpu}
      <4>1. 1..(c + 1) = (1..c) \cup {c + 1}
        BY <2>7
      <4>2. TakenOf(e) = {Doms[e][j] : j \in 1..c} /\ TakenOf(e)' = {Doms[e][j] : j \in 1..(c + 1)}
        BY <1>5, <3>2 DEF TakenOf, c
      <4> QED
        BY <2>12, <4>1, <4>2
    <3>6. Range(mapping') = UNION {TakenOf(i)' : i \in 1..n}
      BY <1>4, <2>10, <3>4, <3>5
    <3>7. CursorsTell'
      BY <1>5, <2>6, <3>2, <3>3, <3>6 DEF CursorsTell
    <3>8. \A i \in 1..n :
             cursors'[i] = IF Attempts(i)' < Len(Doms[i]) THEN Attempts(i)' ELSE Len(Doms[i])
      <4> TAKE i \in 1..n
      <4>1. /\ Len(Doms[i]) \in Nat /\ ReachedIn(i) \in Nat /\ Attempts(i) \in Nat /\ k \in Nat
            /\ cursors[i] = IF Attempts(i) < Len(Doms[i]) THEN Attempts(i) ELSE Len(Doms[i])
            /\ Attempts(i)' = Attempts(i) + (IF ReachedIn(i) <= k THEN 1 ELSE 0)
        BY <1>3, <1>4, <1>6, <2>3, <2>6
      <4>2. CASE i = e
        <5>1. ReachedIn(i) = k /\ cursors[i] < Len(Doms[i]) /\ cursors'[i] = cursors[i] + 1
          BY <2>12, <3>2, <4>2 DEF c
        <5> QED
          BY <4>1, <5>1
      <4>3. CASE i # e
        <5>1. cursors'[i] = cursors[i] /\ (ReachedIn(i) < k => cursors[i] = Len(Doms[i])) /\ ReachedIn(i) # k
          BY <2>4, <2>13, <3>2, <4>3
        <5> QED
          BY <4>1, <5>1
      <4> QED
        BY <4>2, <4>3
    <3>9. InTurn'
      BY <1>5, <3>8 DEF InTurn
    <3>10. SpreadIsEven'
      <4> SUFFICES ASSUME NEW i \in 1..n, NEW j \in 1..n, cursors'[i] > cursors'[j] + 1
                   PROVE  cursors'[j] = Len(Doms[j])
        BY <1>5, <3>2 DEF SpreadIsEven
      <4> DEFINE ai == Attempts(i)'
                 aj == Attempts(j)'
      <4>1. ai <= aj + 1 /\ aj \in Nat /\ ai \in Nat /\ Len(Doms[i]) \in Nat /\ Len(Doms[j]) \in Nat
        BY <1>3, <2>6
      <4>2. /\ cursors'[i] = IF ai < Len(Doms[i]) THEN ai ELSE Len(Doms[i])
            /\ cursors'[j] = IF aj < Len(Doms[j]) THEN aj ELSE Len(Doms[j])
        BY <3>8
      <4> HIDE DEF ai, aj
      <4> QED
        BY <4>1, <4>2
    <3> QED
      BY <1>1, <1>5, <2>7, <2>10, <3>7, <3>9, <3>10
         DEF ChosenInv, PackedInv, FragmentedInv, SpreadInv, RefusalIsJustified
  <2> QED
    BY <1>1, <2>1, <2>8, <2>9, <2>10, AssignEffect
<1> QED
  BY <1>7, <1>8

LEMMA ValidateChooses == ASSUME ChoiceInv, Validate, PlacementInv' PROVE ChoiceInv'
<1> USE DEF ChoiceInv
<1>1. /\ UNCHANGED <<arguments, mapping, next, spreading, free>>
      /\ step = "placing" /\ step' = IF Valid THEN "placed" ELSE "raised"
  BY DEF Validate
<1>2. policy # "explicit" => Valid
  <2>1. IsInjective(mapping)
    BY DEF PlacementInv, IsInjective
  <2> QED
    BY <2>1 DEF Valid, ChosenInv
<1>3. step' = "raised" => RefusalIsJustified'
  BY <1>1, <1>2 DEF RefusalIsJustified, arguments
<1> QED
  BY <1>1, <1>3, ChoiceKept

LEMMA ChoiceStep == ChoiceInv /\ [Next]_vars => ChoiceInv'
<1> SUFFICES ASSUME ChoiceInv, [Next]_vars PROVE ChoiceInv'
  OBVIOUS
<1>1. PlacementInv'
  BY PlacementInvStep DEF ChoiceInv
<1>2. CASE Ended \/ UNCHANGED vars
  <2>1. UNCHANGED <<arguments, step, mapping, next, spreading, free>>
    BY <1>2 DEF Ended, vars
  <2>2. CASE step # "start"
    BY <1>1, <2>1, <2>2, ChoiceKept DEF ChoiceInv, ChosenInv
  <2>3. CASE step = "start"
    <3>1. DomainsKnown' /\ Range(mapping') = Range(mapping) /\ Placed' = {} /\ DOMAIN cursors' = {}
      BY <2>1, <2>3 DEF ChoiceInv, ChosenInv, DomainsKnown, arguments, Placed, spreading
    <3> QED
      BY <1>1, <2>1, <2>3, <3>1 DEF ChoiceInv, ChosenInv, PackedInv, FragmentedInv, SpreadInv,
         SpreadIsEven, RefusalIsJustified, arguments, spreading
  <2> QED
    BY <2>2, <2>3
<1> QED
  BY <1>1, <1>2, StartChooses, PackedChooses, SpreadChooses, ExplicitChooses, FragmentedStarts,
     FragmentedChooses, ValidateChooses DEF Next

(***************************************************************************)
(* The cursors of spread count the GPUs that are taken in each domain.     *)
(***************************************************************************)
LEMMA CursorsCount ==
  ASSUME ChoiceInv, policy = "spread", step # "start", NEW i \in DOMAIN Doms
  PROVE  cursors[i] = Cardinality(Range(mapping) \cap ToSet(Doms[i]))
<1> DEFINE n == Len(Doms)
           c == cursors[i]
           line == [j \in 1..c |-> Doms[i][j]]
<1>1. /\ n \in Nat \ {0} /\ DOMAIN Doms = 1..n /\ i \in 1..n
      /\ \A j \in 1..n : Distinct(Doms[j]) /\ Len(Doms[j]) \in Nat /\ DOMAIN Doms[j] = 1..Len(Doms[j])
      /\ \A j, k \in 1..n : j # k => ToSet(Doms[j]) \cap ToSet(Doms[k]) = {}
  BY DomsList DEF ChoiceInv, ChosenInv, Distinct
<1>2. CursorsTell
  BY DEF ChoiceInv, SpreadInv
<1>3. \A j \in 1..n : TakenOf(j) \subseteq ToSet(Doms[j])
  BY <1>1, <1>2 DEF CursorsTell, TakenOf, ToSet
<1>4. Range(mapping) \cap ToSet(Doms[i]) = TakenOf(i)
  BY <1>1, <1>2, <1>3 DEF CursorsTell
<1>5. c \in Nat /\ 1..c \subseteq DOMAIN Doms[i] /\ TakenOf(i) = {line[j] : j \in 1..c}
  <2>1. c \in Nat /\ c <= Len(Doms[i]) /\ Len(Doms[i]) \in Nat /\ DOMAIN Doms[i] = 1..Len(Doms[i])
    BY <1>1, <1>2 DEF CursorsTell
  <2>2. TakenOf(i) = {line[j] : j \in 1..c}
    BY DEF TakenOf
  <2> HIDE DEF c
  <2> QED
    BY <2>1, <2>2
<1>6. line \in [1..c -> TakenOf(i)] /\ \A j, k \in 1..c : line[j] = line[k] => j = k
  BY <1>1, <1>5 DEF Distinct, IsInjective
<1> HIDE DEF line, c
<1>7. line \in Bijection(1..c, TakenOf(i))
  BY <1>5, <1>6 DEF Bijection, Injection, Surjection, IsInjective
<1>8. IsFiniteSet(1..c) /\ Cardinality(1..c) = c
  <2>1. 1 \in Int /\ c \in Int
    BY <1>5
  <2>2. IsFiniteSet(1..c) /\ Cardinality(1..c) = IF 1 > c THEN 0 ELSE c - 1 + 1
    BY <2>1, FS_Interval
  <2> QED
    BY <1>5, <2>2
<1>9. Cardinality(TakenOf(i)) = c
  BY <1>7, <1>8, FS_Bijection DEF ExistsBijection
<1> QED
  BY <1>4, <1>9 DEF c

(***************************************************************************)
(* The types hold in every reachable state, and what spread remembers in   *)
(* its cursors is what assign has recorded in Placement.mapping.           *)
(***************************************************************************)
THEOREM TypeCorrect == Spec => []TypeOK
<1>1. ChoiceInv => TypeOK
  BY CursorsCount DEF ChoiceInv, PlacementInv, ChosenInv, Placed, TypeOK
<1> QED
  BY <1>1, ChoiceInit, ChoiceStep, PTL DEF Spec

(***************************************************************************)
(* packed, spread and fragmented refuse a deployment only for lack of GPUs *)
(* or because it names a replica twice: each offers assign only GPUs that  *)
(* are free and in the fabric, so neither assign nor validate objects.     *)
(***************************************************************************)
THEOREM RefusalsJustified == Spec => []RefusalIsJustified
BY ChoiceInit, ChoiceStep, PTL DEF Spec, ChoiceInv

(***************************************************************************)
(* spread is even in every state, for any number of domains of any sizes:  *)
(* a domain is ahead of another by more than one rank only when the other  *)
(* is full.                                                                *)
(***************************************************************************)
THEOREM SpreadEven == Spec => []SpreadIsEven
<1>1. ChoiceInv => SpreadIsEven
  BY DEF ChoiceInv, SpreadInv, SpreadIsEven
<1> QED
  BY <1>1, ChoiceInit, ChoiceStep, PTL DEF Spec

-----------------------------------------------------------------------------
(***************************************************************************)
(* The strides: the product of the sizes inside a kind.                    *)
(***************************************************************************)
InnerStep(rep, kind, g, k) ==
    IF k > Len(KindOrder) \/ KindOrder[k] = kind THEN 1 ELSE rep[KindOrder[k]] * g[k + 1]

Inner(rep, kind) == CHOOSE g : g = [k \in 1..(Len(KindOrder) + 1) |-> InnerStep(rep, kind, g, k)]

LEMMA Strides ==
  ASSUME NEW rep, SizesKnown(rep)
  PROVE  /\ Stride(rep, "TP") = 1
         /\ Stride(rep, "EP") = rep.TP
         /\ Stride(rep, "DP") = rep.TP * rep.EP
         /\ Stride(rep, "PP") = rep.TP * (rep.EP * rep.DP)
<1>1. ASSUME NEW kind
      PROVE  \A k \in 1..5 : Inner(rep, kind)[k] = InnerStep(rep, kind, Inner(rep, kind), k)
  <2> DEFINE at4 == InnerStep(rep, kind, [k \in {5} |-> 1], 4)
             at3 == InnerStep(rep, kind, [k \in {4} |-> at4], 3)
             at2 == InnerStep(rep, kind, [k \in {3} |-> at3], 2)
             at1 == InnerStep(rep, kind, [k \in {2} |-> at2], 1)
             g == [k \in 1..5 |-> IF k = 5 THEN 1 ELSE IF k = 4 THEN at4 ELSE
                                  IF k = 3 THEN at3 ELSE IF k = 2 THEN at2 ELSE at1]
  <2>1. g[5] = 1 /\ g[4] = at4 /\ g[3] = at3 /\ g[2] = at2 /\ g[1] = at1
    OBVIOUS
  <2>2. Len(KindOrder) + 1 = 5
    BY DEF KindOrder
  <2> HIDE DEF g
  <2>3. /\ g[5] = InnerStep(rep, kind, g, 5) /\ g[4] = InnerStep(rep, kind, g, 4)
        /\ g[3] = InnerStep(rep, kind, g, 3) /\ g[2] = InnerStep(rep, kind, g, 2)
        /\ g[1] = InnerStep(rep, kind, g, 1)
    BY <2>1 DEF InnerStep, KindOrder
  <2>4. \A k \in 1..5 : g[k] = InnerStep(rep, kind, g, k)
    <3>1. 1..5 = {1, 2, 3, 4, 5}
      OBVIOUS
    <3> QED
      BY <2>3, <3>1
  <2>5. g = [k \in 1..5 |-> InnerStep(rep, kind, g, k)]
    <3>1. g = [k \in 1..5 |-> g[k]]
      BY DEF g
    <3> QED
      BY <2>4, <3>1
  <2>6. \E h : h = [k \in 1..(Len(KindOrder) + 1) |-> InnerStep(rep, kind, h, k)]
    BY <2>2, <2>5
  <2>7. Inner(rep, kind) = [k \in 1..(Len(KindOrder) + 1) |-> InnerStep(rep, kind, Inner(rep, kind), k)]
    BY <2>6 DEF Inner
  <2> QED
    BY <2>2, <2>7
<1>2. \A kind : Stride(rep, kind) = Inner(rep, kind)[1]
  BY DEF Stride, Inner, InnerStep
<1>3. rep.TP \in Nat /\ rep.EP \in Nat /\ rep.DP \in Nat
  BY DEF SizesKnown, Kinds
<1>4. KindOrder = <<"TP", "EP", "DP", "PP">> /\ Len(KindOrder) = 4
  BY DEF KindOrder
<1>5. Stride(rep, "TP") = 1
  BY <1>1, <1>2, <1>4 DEF InnerStep
<1>6. Stride(rep, "EP") = rep.TP
  <2>1. Inner(rep, "EP")[2] = 1
    BY <1>1, <1>4 DEF InnerStep
  <2>2. Inner(rep, "EP")[1] = rep.TP * Inner(rep, "EP")[2]
    BY <1>1, <1>4 DEF InnerStep
  <2> QED
    BY <1>2, <1>3, <2>1, <2>2
<1>7. Stride(rep, "DP") = rep.TP * rep.EP
  <2>1. Inner(rep, "DP")[3] = 1
    BY <1>1, <1>4 DEF InnerStep
  <2>2. Inner(rep, "DP")[2] = rep.EP * Inner(rep, "DP")[3]
    BY <1>1, <1>4 DEF InnerStep
  <2>3. Inner(rep, "DP")[1] = rep.TP * Inner(rep, "DP")[2]
    BY <1>1, <1>4 DEF InnerStep
  <2> QED
    BY <1>2, <1>3, <2>1, <2>2, <2>3
<1>8. Stride(rep, "PP") = rep.TP * (rep.EP * rep.DP)
  <2>1. Inner(rep, "PP")[4] = 1
    BY <1>1, <1>4 DEF InnerStep
  <2>2. Inner(rep, "PP")[3] = rep.DP * Inner(rep, "PP")[4]
    BY <1>1, <1>4 DEF InnerStep
  <2>3. Inner(rep, "PP")[2] = rep.EP * Inner(rep, "PP")[3]
    BY <1>1, <1>4 DEF InnerStep
  <2>4. Inner(rep, "PP")[1] = rep.TP * Inner(rep, "PP")[2]
    BY <1>1, <1>4 DEF InnerStep
  <2> QED
    BY <1>2, <1>3, <2>1, <2>2, <2>3, <2>4
<1> QED
  BY <1>5, <1>6, <1>7, <1>8

(***************************************************************************)
(* Blocks of n * s numbers, in each of which the numbers that have the     *)
(* same remainder by s are one group: member j of the group of a block     *)
(* base and an offset.                                                     *)
(***************************************************************************)
HoldsBySteps(s, n, base, off, i) ==
    (\E j \in 1..n : i = base + off + (j - 1) * s)
        <=> base \div (s * n) = i \div (s * n) /\ off = i % s

LEMMA MembersOfGroups ==
  ASSUME NEW s \in Nat \ {0}, NEW n \in Nat \ {0}, NEW m \in Nat \ {0},
         NEW i \in 0..(s * n * m - 1), NEW base \in 0..(s * n * m - 1), base % (s * n) = 0,
         NEW off \in 0..(s - 1)
  PROVE  HoldsBySteps(s, n, base, off, i)
<1> DEFINE b == s * n
           q == base \div b
<1>1. b \in Nat \ {0}
  BY PositiveProduct
<1>2. q \in Nat /\ base = b * q
  <2> HIDE DEF b
  <2>1. base \in Nat /\ base % b = 0
    BY DEF b
  <2> QED
    BY <1>1, <2>1, DivMod
<1>3. i \in Nat
  OBVIOUS
<1>4. ASSUME NEW j \in 1..n, i = base + off + (j - 1) * s
      PROVE  q = i \div b /\ off = i % s
  <2> DEFINE r == off + (j - 1) * s
  <2>1. r \in 0..(b - 1)
    <3>1. (j - 1) * s \in Nat /\ (j - 1) * s <= (n - 1) * s
      OBVIOUS
    <3>2. (n - 1) * s = b - s
      OBVIOUS
    <3> HIDE DEF b
    <3> QED
      BY <1>1, <3>1, <3>2
  <2>2. i = b * q + r
    BY <1>2, <1>4
  <2>3. i = s * (n * q + (j - 1)) + off
    <3> DEFINE k == j - 1
    <3>1. k \in Int /\ q \in Int /\ b * q + off + k * s = i
      BY <1>2, <1>4
    <3> HIDE DEF q, k
    <3>2. s * (n * q + k) = s * n * q + k * s
      BY <3>1
    <3> QED
      BY <3>1, <3>2 DEF k
  <2>4. n * q + (j - 1) \in Nat
    BY <1>2
  <2> HIDE DEF b, q, r
  <2>5. i \div b = q
    BY <1>1, <1>2, <1>3, <2>1, <2>2, DivModIs
  <2>6. i % s = off
    BY <1>3, <2>3, <2>4, DivModIs
  <2> QED
    BY <2>5, <2>6
<1>5. ASSUME q = i \div b, off = i % s
      PROVE  \E j \in 1..n : i = base + off + (j - 1) * s
  <2> DEFINE u == (i \div s) % n
  <2>1. i % b = s * u + off
    BY <1>3, <1>5, DivModProduct
  <2>2. i \div s \in Nat /\ i = (b * (i \div b)) + (i % b)
    <3> HIDE DEF b
    <3> QED
      BY <1>1, <1>3, DivMod
  <2>3. u \in 0..(n - 1)
    BY <2>2, DivMod
  <2> HIDE DEF u
  <2>4. i = base + off + u * s
    BY <1>2, <1>5, <2>1, <2>2, <2>3
  <2>5. u + 1 \in 1..n /\ (u + 1) - 1 = u
    BY <2>3
  <2> QED
    BY <2>4, <2>5
<1> QED
  BY <1>4, <1>5 DEF HoldsBySteps

(* A group stays inside its replica. *)
LEMMA GroupsStayInside ==
  ASSUME NEW s \in Nat \ {0}, NEW n \in Nat \ {0}, NEW m \in Nat \ {0},
         NEW base \in 0..(s * n * m - 1), base % (s * n) = 0,
         NEW off \in 0..(s - 1), NEW j \in 1..n
  PROVE  base + off + (j - 1) * s \in 0..(s * n * m - 1)
<1> DEFINE b == s * n
           q == base \div b
           r == off + (j - 1) * s
<1>1. b \in Nat \ {0}
  BY PositiveProduct
<1>2. r \in 0..(b - 1)
  <2>1. (j - 1) * s \in Nat /\ (j - 1) * s <= (n - 1) * s
    OBVIOUS
  <2>2. (n - 1) * s = b - s
    OBVIOUS
  <2> HIDE DEF b
  <2> QED
    BY <1>1, <2>1, <2>2
<1>3. base \in Nat /\ base % b = 0 /\ base < b * m
  OBVIOUS
<1> HIDE DEF b, r
<1>4. q \in Nat /\ base = b * q
  BY <1>1, <1>3, DivMod
<1> HIDE DEF q
<1>5. q + 1 <= m
  <2>1. SUFFICES ASSUME q >= m PROVE FALSE
    BY <1>4
  <2>2. b * q >= b * m
    BY <1>1, <1>4, <2>1
  <2>3. b * m \in Int
    BY <1>1
  <2> QED
    BY <1>3, <1>4, <2>2, <2>3
<1>6. b * (q + 1) <= b * m /\ b * (q + 1) = b * q + b
  BY <1>1, <1>4, <1>5
<1>7. b * m \in Int
  BY <1>1
<1>8. base + r \in 0..(b * m - 1)
  BY <1>1, <1>2, <1>3, <1>4, <1>6, <1>7
<1> QED
  <2>1. base + r = base + off + (j - 1) * s
    <3>1. (j - 1) * s \in Int
      OBVIOUS
    <3> QED
      BY <1>3, <3>1 DEF r
  <2> QED
    BY <1>8, <2>1 DEF b

(***************************************************************************)
(* Two ranks differ only in the coordinate of a kind exactly when they are *)
(* in one block and at one offset.                                         *)
(***************************************************************************)
Outer(rep, kind) ==
    CASE kind = "TP" -> rep.EP * (rep.DP * rep.PP)
      [] kind = "EP" -> rep.DP * rep.PP
      [] kind = "DP" -> rep.PP
      [] kind = "PP" -> 1

LEMMA BlocksFill ==
  ASSUME NEW rep, SizesKnown(rep), NEW kind \in Kinds
  PROVE  /\ Stride(rep, kind) \in Nat \ {0} /\ rep[kind] \in Nat \ {0} /\ Outer(rep, kind) \in Nat \ {0}
         /\ BlockLength(rep, kind) = Stride(rep, kind) * rep[kind]
         /\ WorldSize(rep) = Stride(rep, kind) * rep[kind] * Outer(rep, kind)
<1> DEFINE a == rep.TP
           b == rep.EP
           c == rep.DP
           d == rep.PP
<1>1. a \in Nat \ {0} /\ b \in Nat \ {0} /\ c \in Nat \ {0} /\ d \in Nat \ {0}
  BY DEF SizesKnown, Kinds
<1>2. WorldSize(rep) = a * d * c * b
  BY DEF WorldSize
<1>3. rep[kind] \in Nat \ {0}
  BY DEF SizesKnown
<1>4. BlockLength(rep, kind) = Stride(rep, kind) * rep[kind]
  BY DEF BlockLength
<1>5. CASE kind = "TP"
  <2>1. Stride(rep, kind) = 1 /\ rep[kind] = a /\ Outer(rep, kind) = b * (c * d)
    BY <1>5, Strides DEF Outer
  <2> HIDE DEF a, b, c, d
  <2>2. b * (c * d) \in Nat \ {0} /\ a * d * c * b = 1 * a * (b * (c * d))
    BY <1>1, PositiveProduct
  <2> QED
    BY <1>2, <1>3, <1>4, <2>1, <2>2
<1>6. CASE kind = "EP"
  <2>1. Stride(rep, kind) = a /\ rep[kind] = b /\ Outer(rep, kind) = c * d
    BY <1>6, Strides DEF Outer
  <2> HIDE DEF a, b, c, d
  <2>2. c * d \in Nat \ {0} /\ a * d * c * b = a * b * (c * d)
    BY <1>1, PositiveProduct
  <2> QED
    BY <1>1, <1>2, <1>3, <1>4, <2>1, <2>2
<1>7. CASE kind = "DP"
  <2>1. Stride(rep, kind) = a * b /\ rep[kind] = c /\ Outer(rep, kind) = d
    BY <1>7, Strides DEF Outer
  <2> HIDE DEF a, b, c, d
  <2>2. a * b \in Nat \ {0} /\ a * d * c * b = a * b * c * d
    BY <1>1, PositiveProduct
  <2> QED
    BY <1>1, <1>2, <1>3, <1>4, <2>1, <2>2
<1>8. CASE kind = "PP"
  <2>1. Stride(rep, kind) = a * (b * c) /\ rep[kind] = d /\ Outer(rep, kind) = 1
    BY <1>8, Strides DEF Outer
  <2> HIDE DEF a, b, c, d
  <2>2. a * (b * c) \in Nat \ {0} /\ a * d * c * b = a * (b * c) * d * 1
    BY <1>1, PositiveProduct
  <2> QED
    BY <1>1, <1>2, <1>3, <1>4, <2>1, <2>2
<1> QED
  BY <1>5, <1>6, <1>7, <1>8 DEF Kinds

LEMMA TogetherIsSameGroup ==
  ASSUME NEW rep, SizesKnown(rep), NEW kind \in Kinds,
         NEW i \in 0..(WorldSize(rep) - 1), NEW j \in 0..(WorldSize(rep) - 1)
  PROVE  Together(rep, i, j, kind) <=>
            /\ i \div BlockLength(rep, kind) = j \div BlockLength(rep, kind)
            /\ i % Stride(rep, kind) = j % Stride(rep, kind)
<1> DEFINE a == rep.TP
           b == rep.EP
           c == rep.DP
           d == rep.PP
           same(other) == Coordinate(rep, i, other) = Coordinate(rep, j, other)
<1>1. a \in Nat \ {0} /\ b \in Nat \ {0} /\ c \in Nat \ {0} /\ d \in Nat \ {0} /\ i \in Nat /\ j \in Nat
  BY BlocksFill DEF SizesKnown, Kinds
<1>2. /\ same("TP") <=> i % a = j % a
      /\ same("EP") <=> (i \div a) % b = (j \div a) % b
      /\ same("DP") <=> (i \div (a * b)) % c = (j \div (a * b)) % c
      /\ same("PP") <=> i \div (a * b * c) = j \div (a * b * c)
  BY DEF Coordinate
<1>3. Together(rep, i, j, kind) <=> \A other \in Kinds \ {kind} : same(other)
  BY DEF Together
<1>4. BlockLength(rep, kind) = Stride(rep, kind) * rep[kind]
  BY DEF BlockLength
<1>5. a * b \in Nat \ {0} /\ a * b * c \in Nat \ {0} /\ a * (b * c) = a * b * c
  <2> HIDE DEF a, b, c, d
  <2> QED
    BY <1>1, PositiveProduct
<1> HIDE DEF same
<1>6. CASE kind = "TP"
  <2>1. Together(rep, i, j, kind) <=> same("EP") /\ same("DP") /\ same("PP")
    BY <1>3, <1>6 DEF Kinds
  <2>2. Stride(rep, kind) = 1 /\ BlockLength(rep, kind) = 1 * a
    BY <1>4, <1>6, Strides
  <2> HIDE DEF a, b, c, d
  <2>3. i % 1 = j % 1 /\ 1 * a = a
    BY <1>1
  <2>4. SameQuotients(i, j, a, b)
    BY <1>1, SameQuotient
  <2>5. SameQuotients(i, j, a * b, c)
    BY <1>1, <1>5, SameQuotient
  <2> QED
    BY <1>2, <2>1, <2>2, <2>3, <2>4, <2>5 DEF SameQuotients
<1>7. CASE kind = "EP"
  <2>1. Together(rep, i, j, kind) <=> same("TP") /\ same("DP") /\ same("PP")
    BY <1>3, <1>7 DEF Kinds
  <2>2. Stride(rep, kind) = a /\ BlockLength(rep, kind) = a * b
    BY <1>4, <1>7, Strides
  <2> HIDE DEF a, b, c, d
  <2>3. SameQuotients(i, j, a * b, c)
    BY <1>1, <1>5, SameQuotient
  <2> QED
    BY <1>2, <2>1, <2>2, <2>3 DEF SameQuotients
<1>8. CASE kind = "DP"
  <2>1. Together(rep, i, j, kind) <=> same("TP") /\ same("EP") /\ same("PP")
    BY <1>3, <1>8 DEF Kinds
  <2>2. Stride(rep, kind) = a * b /\ BlockLength(rep, kind) = a * b * c
    BY <1>4, <1>8, Strides
  <2> HIDE DEF a, b, c, d
  <2>3. SameRemainders(i, j, a, b)
    BY <1>1, SameRemainder
  <2> QED
    BY <1>2, <2>1, <2>2, <2>3 DEF SameRemainders
<1>9. CASE kind = "PP"
  <2>1. Together(rep, i, j, kind) <=> same("TP") /\ same("EP") /\ same("DP")
    BY <1>3, <1>9 DEF Kinds
  <2>2. Stride(rep, kind) = a * b * c
    BY <1>5, <1>9, Strides
  <2>3. i \div BlockLength(rep, kind) = 0 /\ j \div BlockLength(rep, kind) = 0
    <3> DEFINE w == BlockLength(rep, kind)
    <3>1. WorldSize(rep) = w /\ w \in Nat \ {0}
      <4>1. Outer(rep, kind) = 1
        BY <1>9 DEF Outer
      <4>2. w \in Nat \ {0}
        BY BlocksFill, PositiveProduct
      <4>3. WorldSize(rep) = w * 1
        BY <4>1, BlocksFill
      <4> QED
        BY <4>2, <4>3
    <3> HIDE DEF w
    <3>2. i = w * 0 + i /\ j = w * 0 + j /\ i \in 0..(w - 1) /\ j \in 0..(w - 1)
      BY <1>1, <3>1
    <3>3. i \div w = 0
      BY <1>1, <3>1, <3>2, DivModIs
    <3>4. j \div w = 0
      BY <1>1, <3>1, <3>2, DivModIs
    <3> QED
      BY <3>3, <3>4 DEF w
  <2> HIDE DEF a, b, c, d
  <2>4. SameRemainders(i, j, a, b)
    BY <1>1, SameRemainder
  <2>5. SameRemainders(i, j, a * b, c)
    BY <1>1, <1>5, SameRemainder
  <2> QED
    BY <1>2, <2>1, <2>2, <2>3, <2>4, <2>5 DEF SameRemainders
<1> QED
  BY <1>6, <1>7, <1>8, <1>9 DEF Kinds

Group(rep, kind, base, off) ==
    [j \in 1..rep[kind] |-> <<rep.id, base + off + (j - 1) * Stride(rep, kind)>>]

Indices(rep) == 0..(WorldSize(rep) - 1)

LEMMA GroupsAre ==
  ASSUME NEW rep, SizesKnown(rep), NEW kind \in Kinds, rep[kind] # 1
  PROVE  \A g : g \in Groups(rep, kind) <=>
            \E base \in Indices(rep), off \in 0..(Stride(rep, kind) - 1) :
                base % BlockLength(rep, kind) = 0 /\ g = Group(rep, kind, base, off)
  BY DEF Groups, Group, Indices

LEMMA HoldsIndex ==
  ASSUME NEW rep, SizesKnown(rep), NEW kind \in Kinds,
         NEW base \in Indices(rep), base % BlockLength(rep, kind) = 0,
         NEW off \in 0..(Stride(rep, kind) - 1)
  PROVE  /\ Range(Group(rep, kind, base, off)) \subseteq {<<rep.id, i>> : i \in Indices(rep)}
         /\ \A i \in Indices(rep) : <<rep.id, i>> \in Range(Group(rep, kind, base, off)) <=>
                /\ base \div BlockLength(rep, kind) = i \div BlockLength(rep, kind)
                /\ off = i % Stride(rep, kind)
<1> DEFINE s == Stride(rep, kind)
           n == rep[kind]
           m == Outer(rep, kind)
<1>1. /\ s \in Nat \ {0} /\ n \in Nat \ {0} /\ m \in Nat \ {0}
      /\ BlockLength(rep, kind) = s * n /\ WorldSize(rep) = s * n * m
  BY BlocksFill
<1>2. Range(Group(rep, kind, base, off)) = {<<rep.id, base + off + (j - 1) * s>> : j \in 1..n}
  BY DEF Range, Group
<1>3. base \in 0..(s * n * m - 1) /\ Indices(rep) = 0..(s * n * m - 1) /\ base % (s * n) = 0 /\ off \in 0..(s - 1)
  BY <1>1 DEF Indices
<1> HIDE DEF s, n, m
<1>4. \A j \in 1..n : base + off + (j - 1) * s \in 0..(s * n * m - 1)
  BY <1>1, <1>3, GroupsStayInside
<1>5. ASSUME NEW i \in Indices(rep)
      PROVE  <<rep.id, i>> \in Range(Group(rep, kind, base, off)) <=>
                \E j \in 1..n : i = base + off + (j - 1) * s
  BY <1>2
<1>6. ASSUME NEW i \in 0..(s * n * m - 1)
      PROVE  HoldsBySteps(s, n, base, off, i)
  BY <1>1, <1>3, MembersOfGroups
<1>7. Range(Group(rep, kind, base, off)) \subseteq {<<rep.id, i>> : i \in Indices(rep)}
  BY <1>2, <1>3, <1>4
<1>8. ASSUME NEW i \in Indices(rep)
      PROVE  <<rep.id, i>> \in Range(Group(rep, kind, base, off)) <=>
                /\ base \div BlockLength(rep, kind) = i \div BlockLength(rep, kind)
                /\ off = i % Stride(rep, kind)
  <2>1. (\E j \in 1..n : i = base + off + (j - 1) * s)
                <=> base \div (s * n) = i \div (s * n) /\ off = i % s
    BY <1>3, <1>6 DEF HoldsBySteps
  <2> QED
    BY <1>1, <1>5, <2>1 DEF s
<1> QED
  BY <1>7, <1>8

(* The one group of a rank. *)
LEMMA GroupOfARank ==
  ASSUME NEW rep, SizesKnown(rep), NEW kind \in Kinds, rep[kind] # 1, NEW i \in Indices(rep)
  PROVE  \E g \in Groups(rep, kind) :
            /\ \A h \in Groups(rep, kind) : <<rep.id, i>> \in Range(h) <=> h = g
            /\ Range(g) = {<<rep.id, j>> : j \in {j \in Indices(rep) : Together(rep, i, j, kind)}}
<1> DEFINE b == BlockLength(rep, kind)
           s == Stride(rep, kind)
           base == b * (i \div b)
           off == i % s
           g == Group(rep, kind, base, off)
<1>1. b \in Nat \ {0} /\ s \in Nat \ {0} /\ WorldSize(rep) \in Nat \ {0} /\ i \in Nat
  <2>1. b \in Nat \ {0} /\ s \in Nat \ {0}
    BY BlocksFill, PositiveProduct
  <2>2. WorldSize(rep) = b * Outer(rep, kind) /\ Outer(rep, kind) \in Nat \ {0}
    BY BlocksFill
  <2>3. WorldSize(rep) \in Nat \ {0}
    <3> HIDE DEF b
    <3> QED
      BY <2>1, <2>2, PositiveProduct
  <2> QED
    BY <2>1, <2>3 DEF Indices
<1>2. base \in Indices(rep) /\ base \div b = i \div b /\ base % b = 0
  <2> DEFINE q == i \div b
             r == i % b
  <2> HIDE DEF b
  <2>1. q \in Nat /\ r \in 0..(b - 1) /\ i = b * q + r
    BY <1>1, DivMod
  <2>2. base = b * q
    OBVIOUS
  <2> HIDE DEF q, r, base
  <2>3. base \in Nat /\ base = b * q + 0 /\ 0 \in 0..(b - 1)
    BY <1>1, <2>1, <2>2
  <2>4. base \div b = q /\ base % b = 0
    BY <1>1, <2>1, <2>3, DivModIs
  <2>5. base <= i
    BY <1>1, <2>1, <2>2, <2>3
  <2> QED
    BY <1>1, <2>3, <2>4, <2>5 DEF q, Indices
<1>3. off \in 0..(s - 1)
  <2> HIDE DEF s
  <2> QED
    BY <1>1, DivMod
<1> HIDE DEF base, off
<1>4. g \in Groups(rep, kind)
  BY <1>2, <1>3, GroupsAre
<1>5. ASSUME NEW h \in Groups(rep, kind), <<rep.id, i>> \in Range(h) PROVE h = g
  <2>1. PICK start \in Indices(rep), o \in 0..(s - 1) : start % b = 0 /\ h = Group(rep, kind, start, o)
    BY GroupsAre
  <2>2. start \div b = i \div b /\ o = i % s
    BY <1>5, <2>1, HoldsIndex
  <2>3. start \in Nat /\ start = b * (start \div b)
    <3>1. start \in Nat
      BY <1>1 DEF Indices
    <3> HIDE DEF b
    <3>2. start = (b * (start \div b)) + (start % b) /\ start \div b \in Nat
      BY <1>1, <3>1, DivMod
    <3> QED
      BY <1>1, <2>1, <3>1, <3>2
  <2>4. start = base /\ o = off
    BY <2>2, <2>3 DEF base, off
  <2> QED
    BY <2>1, <2>4
<1>6. <<rep.id, i>> \in Range(g)
  BY <1>2, <1>3, HoldsIndex DEF off
<1>7. ASSUME NEW j \in Indices(rep)
      PROVE  <<rep.id, j>> \in Range(g) <=> Together(rep, i, j, kind)
  <2>1. <<rep.id, j>> \in Range(g) <=> base \div b = j \div b /\ off = j % s
    BY <1>2, <1>3, HoldsIndex
  <2>2. Together(rep, i, j, kind) <=> i \div b = j \div b /\ i % s = j % s
    BY TogetherIsSameGroup DEF Indices
  <2>3. base \div b = i \div b /\ off = i % s
    BY <1>2 DEF off
  <2> QED
    BY <2>1, <2>2, <2>3
<1>8. Range(g) \subseteq {<<rep.id, j>> : j \in Indices(rep)}
  BY <1>2, <1>3, HoldsIndex
<1>9. Range(g) = {<<rep.id, j>> : j \in {j \in Indices(rep) : Together(rep, i, j, kind)}}
  <2> HIDE DEF g
  <2> QED
    BY <1>7, <1>8
<1> QED
  <2> HIDE DEF g
  <2> QED
    BY <1>4, <1>5, <1>6, <1>9

(***************************************************************************)
(* Replica.groups(kind), for any parallel sizes: every rank is in exactly  *)
(* one group of each kind whose size is above 1, and shares it with the    *)
(* ranks that differ from it in that kind's coordinate alone.              *)
(***************************************************************************)
THEOREM GroupsPartition == Spec => []GroupsPartitionRanks
<1>1. ASSUME PlacementInv
      PROVE  GroupsPartitionRanks
  <2>1. ASSUME NEW k \in DOMAIN replicas, NEW kind \in Kinds
        PROVE  LET rep == replicas[k]
                   groups == Groups(rep, kind)
                   indices == 0..(WorldSize(rep) - 1)
               IN  IF rep[kind] = 1 THEN groups = {}
                   ELSE \A i \in indices :
                        /\ Cardinality({g \in groups : <<rep.id, i>> \in Range(g)}) = 1
                        /\ \A g \in groups : <<rep.id, i>> \in Range(g) =>
                            Range(g) = {<<rep.id, j>> : j \in {j \in indices : Together(rep, i, j, kind)}}
    <3> DEFINE rep == replicas[k]
    <3>1. SizesKnown(rep)
      BY <1>1, <2>1, ReplicasKnown DEF PlacementInv
    <3>2. CASE rep[kind] = 1
      BY <3>2 DEF Groups
    <3>3. CASE rep[kind] # 1
      <4> HIDE DEF rep
      <4>1. ASSUME NEW i \in Indices(rep)
            PROVE  /\ Cardinality({g \in Groups(rep, kind) : <<rep.id, i>> \in Range(g)}) = 1
                   /\ \A g \in Groups(rep, kind) : <<rep.id, i>> \in Range(g) =>
                        Range(g) = {<<rep.id, j>> : j \in {j \in Indices(rep) : Together(rep, i, j, kind)}}
        <5>1. PICK g \in Groups(rep, kind) :
                /\ \A h \in Groups(rep, kind) : <<rep.id, i>> \in Range(h) <=> h = g
                /\ Range(g) = {<<rep.id, j>> : j \in {j \in Indices(rep) : Together(rep, i, j, kind)}}
          BY <2>1, <3>1, <3>3, GroupOfARank
        <5>2. {h \in Groups(rep, kind) : <<rep.id, i>> \in Range(h)} = {g}
          BY <5>1
        <5>3. Cardinality({g}) = 1
          BY FS_Singleton
        <5> QED
          BY <5>1, <5>2, <5>3
      <4> QED
        BY <3>3, <4>1 DEF rep, Indices
    <3> QED
      BY <3>2, <3>3
  <2> QED
    BY <2>1 DEF GroupsPartitionRanks
<1> QED
  BY <1>1, PlacementInvInit, PlacementInvStep, PTL DEF Spec

-----------------------------------------------------------------------------
(***************************************************************************)
(* packed on whole groups.  Where every domain has a multiple of n GPUs,   *)
(* the GPUs of the domains up to any one of them are a multiple of n, so   *)
(* n consecutive GPUs of the pool that start at a multiple of n cannot     *)
(* cross from one domain into the next.                                    *)
(***************************************************************************)
LEMMA MultiplesAdd ==
  ASSUME NEW n \in Nat \ {0}, NEW a \in Nat, NEW b \in Nat, a % n = 0, b % n = 0
  PROVE  (a + b) % n = 0
<1> DEFINE p == a \div n
           q == b \div n
<1>1. p \in Nat /\ q \in Nat /\ a = n * p /\ b = n * q
  BY DivMod
<1> HIDE DEF p, q
<1>2. a + b \in Nat /\ a + b = n * (p + q) + 0 /\ p + q \in Nat /\ 0 \in 0..(n - 1)
  BY <1>1
<1> QED
  BY <1>2, DivModIs

Below(m) == {x \in Gpu : domain[x] # None /\ domain[x] < m}

InDomain(d) == {g \in Gpu : domain[g] = d /\ d # None}

LEMMA WholeDomains ==
  ASSUME DomainsKnown, NEW n \in Nat \ {0},
         \A i \in DOMAIN DomainIds : Divides(n, Len(Members(DomainIds[i])))
  PROVE  \A m \in Nat : Cardinality(Below(m)) % n = 0
<1> DEFINE ids == Range(domain) \ {None}
           bad == {m \in Nat : Cardinality(Below(m)) % n # 0}
           m == Min(bad)
<1>1. ids \in SUBSET Nat /\ IsFiniteSet(ids)
  <2>1. domain \in Surjection(Gpu, Range(domain))
    BY DEF DomainsKnown, Surjection, Range
  <2>2. IsFiniteSet(Range(domain))
    BY <2>1, FS_Surjection, GpusAreOrdered
  <2> QED
    BY <2>2, FS_Subset DEF DomainsKnown, Range
<1>2. ToSet(DomainIds) = ids
  BY <1>1, NumbersSorted DEF DomainIds
<1>3. ASSUME NEW d
      PROVE  /\ InDomain(d) \in SUBSET Nat /\ IsFiniteSet(InDomain(d))
             /\ Cardinality(InDomain(d)) \in Nat
             /\ d # None => Len(Members(d)) = Cardinality(InDomain(d))
  <2>1. InDomain(d) \in SUBSET Gpu
    BY DEF InDomain
  <2>2. d # None => Members(d) = Sorted(InDomain(d))
    BY DEF Members, InDomain
  <2>3. InDomain(d) \in SUBSET Nat /\ IsFiniteSet(InDomain(d))
    BY <2>1, FS_Subset, GpusAreOrdered
  <2> QED
    BY <2>2, <2>3, NumbersSorted, FS_CardinalityType
<1>4. ASSUME NEW d \in Nat PROVE Cardinality(InDomain(d)) % n = 0
  <2>1. CASE d \in ids
    <3>1. PICK i \in DOMAIN DomainIds : DomainIds[i] = d
      BY <1>2, <2>1 DEF ToSet
    <3>2. Divides(n, Len(Members(d)))
      BY <3>1
    <3>3. Len(Members(d)) = Cardinality(InDomain(d))
      BY <1>3, <2>1
    <3> QED
      BY <3>2, <3>3 DEF Divides
  <2>2. CASE d \notin ids
    <3>1. InDomain(d) = {}
      BY <2>2 DEF Range, DomainsKnown, InDomain
    <3>2. 0 % n = 0
      BY DivModIs
    <3> QED
      BY <3>1, <3>2, FS_EmptySet
  <2> QED
    BY <2>1, <2>2
<1>5. SUFFICES ASSUME bad # {} PROVE FALSE
  OBVIOUS
<1>6. m \in bad /\ \A k \in bad : m <= k
  BY <1>5, LeastNatural
<1> HIDE DEF m
<1>7. m # 0
  <2>1. SUFFICES ASSUME m = 0 PROVE FALSE
    OBVIOUS
  <2>2. \A x \in Gpu : domain[x] # None => domain[x] \in Nat
    BY DEF DomainsKnown
  <2>3. Below(0) = {}
    BY <2>2 DEF Below
  <2>4. 0 % n = 0
    BY DivModIs
  <2> QED
    BY <1>6, <2>1, <2>3, <2>4, FS_EmptySet
<1>8. m - 1 \in Nat /\ m - 1 \notin bad
  BY <1>6, <1>7
<1>9. PICK k \in Nat : m = k + 1 /\ Cardinality(Below(k)) % n = 0
  BY <1>6, <1>8
<1>10. Below(m) = Below(k) \cup InDomain(k) /\ Below(k) \cap InDomain(k) = {} /\ Below(k) \subseteq Gpu
  <2>1. \A x \in Gpu : domain[x] # None => domain[x] \in Nat
    BY DEF DomainsKnown
  <2>2. \A x \in Gpu : x \in Below(m) <=> x \in Below(k) \/ x \in InDomain(k)
    BY <1>9, <2>1 DEF Below, InDomain
  <2> QED
    BY <2>1, <2>2 DEF Below, InDomain
<1>11. Cardinality(InDomain(k)) \in Nat /\ IsFiniteSet(InDomain(k)) /\ Cardinality(InDomain(k)) % n = 0
  BY <1>3, <1>4
<1> HIDE DEF bad
<1>12. IsFiniteSet(Below(k)) /\ Cardinality(Below(k)) \in Nat
  BY <1>10, FS_Subset, FS_CardinalityType, GpusAreOrdered
<1>13. Cardinality(Below(m)) = Cardinality(Below(k)) + Cardinality(InDomain(k))
  <2>1. Cardinality(Below(k) \cap InDomain(k)) = 0
    BY <1>10, FS_EmptySet
  <2>2. Cardinality(Below(k) \cup InDomain(k)) =
            Cardinality(Below(k)) + Cardinality(InDomain(k)) - Cardinality(Below(k) \cap InDomain(k))
    BY <1>11, <1>12, FS_Union
  <2> QED
    BY <1>10, <1>11, <1>12, <2>1, <2>2
<1>14. (Cardinality(Below(k)) + Cardinality(InDomain(k))) % n = 0
  BY <1>9, <1>11, <1>12, MultiplesAdd
<1> QED
  BY <1>6, <1>13, <1>14 DEF bad

(* n consecutive GPUs of the pool, from a multiple of n on. *)
LEMMA PoolKeepsTogether ==
  ASSUME DomainsKnown, NEW n \in Nat \ {0},
         \A i \in DOMAIN DomainIds : Divides(n, Len(Members(DomainIds[i]))),
         NEW i \in Nat, i % n = 0, NEW j \in 0..(n - 1), i + j + 1 <= Len(Pool)
  PROVE  domain[Pool[i + j + 1]] = domain[Pool[i + 1]]
<1> DEFINE g == Pool[i + 1]
           h == Pool[i + j + 1]
           size == Cardinality(Gpu)
<1>1. /\ size \in Nat /\ Len(Pool) = size /\ Pool \in Bijection(1..size, Gpu)
      /\ \A k, l \in 1..size : k < l => TakenBefore(Pool[k], Pool[l])
      /\ \A k \in 1..size : Cardinality(Earlier(Gpu, PoolOrder, Pool[k])) = k - 1
  <2>1. Pool = Listed(Gpu, PoolOrder)
    BY DEF Pool, PoolOrder
  <2>2. /\ size \in Nat /\ Pool \in Bijection(1..size, Gpu)
        /\ \A k, l \in 1..size : k < l => <<Pool[k], Pool[l]>> \in PoolOrder
        /\ \A k \in 1..size : Cardinality(Earlier(Gpu, PoolOrder, Pool[k])) = k - 1
    BY <2>1, ListedOnce, PoolIsOrdered, GpusAreOrdered
  <2>3. Len(Pool) = size
    BY PoolLists
  <2>4. \A k \in 1..size : Pool[k] \in Gpu
    BY <2>2 DEF Bijection, Injection
  <2> QED
    BY <2>2, <2>3, <2>4, PoolIsOrdered
<1> HIDE DEF size
<1>2. i + 1 \in 1..size /\ i + j + 1 \in 1..size
  BY <1>1
<1>3. g \in Gpu /\ h \in Gpu
  BY <1>1, <1>2 DEF Bijection, Injection
<1>4. Cardinality(Earlier(Gpu, PoolOrder, g)) = i /\ Cardinality(Earlier(Gpu, PoolOrder, h)) = i + j
  BY <1>1, <1>2
<1>5. j # 0 => TakenBefore(g, h)
  BY <1>1, <1>2
<1> HIDE DEF g, h
<1>6. SUFFICES ASSUME domain[h] # domain[g] PROVE FALSE
  BY DEF g, h
<1>7. TakenBefore(g, h)
  BY <1>5, <1>6 DEF g, h
<1>8. \A x \in Gpu : domain[x] # None => domain[x] \in Nat
  BY DEF DomainsKnown
<1>9. domain[g] # None /\ domain[g] \in Nat /\ (domain[h] # None => domain[g] < domain[h])
  BY <1>3, <1>6, <1>7, <1>8 DEF TakenBefore
<1> DEFINE B == Below(domain[g] + 1)
           X == Earlier(Gpu, PoolOrder, g)
           Y == Earlier(Gpu, PoolOrder, h)
<1>10. X \cup {g} \subseteq B /\ g \notin X
  <2>1. ASSUME NEW x \in X PROVE x \in B /\ x # g
    <3>1. x \in Gpu /\ TakenBefore(x, g)
      BY <1>3, PoolIsOrdered DEF Earlier
    <3>2. domain[x] = domain[g] \/ (domain[x] # None /\ domain[x] < domain[g])
      BY <1>9, <3>1 DEF TakenBefore
    <3>3. x # g
      BY <1>3, <3>1, GpusAreOrdered DEF TakenBefore
    <3> QED
      BY <1>8, <1>9, <3>1, <3>2, <3>3 DEF Below
  <2>2. g \in B
    BY <1>3, <1>9 DEF Below
  <2> QED
    BY <2>1, <2>2
<1>11. B \subseteq Y
  <2>1. ASSUME NEW x \in B PROVE x \in Y
    <3>1. x \in Gpu /\ domain[x] # None /\ domain[x] \in Nat /\ domain[x] <= domain[g]
      BY <1>8, <1>9 DEF Below
    <3>2. TakenBefore(x, h)
      BY <1>3, <1>8, <1>9, <3>1 DEF TakenBefore
    <3> QED
      BY <1>3, <3>1, <3>2, PoolIsOrdered DEF Earlier
  <2> QED
    BY <2>1
<1>12. B \subseteq Gpu /\ X \subseteq Gpu /\ Y \subseteq Gpu
  BY DEF Below, Earlier
<1>13. Cardinality(B) % n = 0
  BY <1>9, WholeDomains
<1> HIDE DEF B, X, Y
<1>14. IsFiniteSet(B) /\ IsFiniteSet(X) /\ IsFiniteSet(Y) /\ Cardinality(B) \in Nat
  BY <1>12, FS_Subset, FS_CardinalityType, GpusAreOrdered
<1>15. Cardinality(X \cup {g}) = Cardinality(X) + 1 /\ Cardinality(X \cup {g}) <= Cardinality(B)
  BY <1>10, <1>14, FS_AddElement, FS_Subset
<1>16. Cardinality(B) <= Cardinality(Y)
  BY <1>11, <1>14, FS_Subset
<1>17. Cardinality(X) = i /\ Cardinality(Y) = i + j
  BY <1>4 DEF X, Y
<1>18. PICK p \in Nat, q \in Nat : i = n * p /\ Cardinality(B) = n * q
  <2>1. \E p \in Nat : i = n * p
    BY MultipleOf
  <2>2. \E q \in Nat : Cardinality(B) = n * q
    BY <1>13, <1>14, MultipleOf
  <2> QED
    BY <2>1, <2>2
<1>19. n * p < n * q /\ n * q < n * p + n
  <2>1. i < Cardinality(B) /\ Cardinality(B) < i + n
    BY <1>14, <1>15, <1>16, <1>17
  <2> QED
    BY <1>18, <2>1
<1> QED
  BY <1>19, NoMultipleBetween

(* The replicas start at multiples of n. *)
LEMMA OffsetsAligned ==
  ASSUME replicas \in {c.replicas : c \in Calls}, NEW n \in Nat \ {0},
         \A k \in DOMAIN replicas : Divides(n, WorldSize(replicas[k]))
  PROVE  \A k \in DOMAIN replicas : Offset(RankLists, k) % n = 0
<1> DEFINE bad == {k \in DOMAIN replicas : Offset(RankLists, k) % n # 0}
           m == Min(bad)
<1>1. Len(replicas) \in Nat /\ DOMAIN replicas = 1..Len(replicas)
  BY ReplicasKnown
<1>2. SUFFICES ASSUME bad # {} PROVE FALSE
  OBVIOUS
<1>3. m \in bad /\ \A k \in bad : m <= k
  <2>1. bad \in SUBSET Nat
    BY <1>1
  <2> HIDE DEF bad
  <2> QED
    BY <1>2, <2>1, LeastNatural
<1> HIDE DEF m
<1>4. m \in 1..Len(replicas) /\ Offset(RankLists, m) % n # 0
  BY <1>1, <1>3
<1>5. m # 1
  <2>1. Offset(RankLists, 1) = 0
    BY <1>1, <1>4, RanksLay
  <2>2. 0 % n = 0
    BY DivModIs
  <2> QED
    BY <1>4, <2>1, <2>2
<1>6. m - 1 \in DOMAIN replicas /\ m - 1 \notin bad
  BY <1>1, <1>3, <1>4, <1>5
<1>7. Offset(RankLists, m - 1) \in Nat /\ Offset(RankLists, m - 1) % n = 0
  BY <1>6, RanksLay
<1>8. WorldSize(replicas[m - 1]) \in Nat /\ WorldSize(replicas[m - 1]) % n = 0
  BY <1>6, ReplicasKnown DEF Divides
<1>9. Offset(RankLists, m) = Offset(RankLists, m - 1) + WorldSize(replicas[m - 1])
  BY <1>1, <1>4, <1>5, RanksLay
<1>10. (Offset(RankLists, m - 1) + WorldSize(replicas[m - 1])) % n = 0
  BY <1>7, <1>8, MultiplesAdd
<1> QED
  BY <1>4, <1>9, <1>10

LEMMA AlignedGroupsStay ==
  ASSUME ChoiceInv, policy = "packed", step = "placed",
         NEW k \in DOMAIN replicas, NEW g \in Groups(replicas[k], "TP"), Aligned(Len(g))
  PROVE  Cardinality(DomainsSpanned(g)) = 1
<1> DEFINE rep == replicas[k]
           n == rep.TP
           o == Offset(RankLists, k)
<1>1. /\ replicas \in {c.replicas : c \in Calls} /\ DomainsKnown /\ SizesKnown(rep)
      /\ next = Len(Ranks) + 1
  BY ReplicasKnown DEF ChoiceInv, ChosenInv, PlacementInv
<1>2. n \in Nat \ {0} /\ rep["TP"] = n /\ n # 1
  BY <1>1 DEF SizesKnown, Kinds, Groups
<1>3. /\ Stride(rep, "TP") = 1 /\ BlockLength(rep, "TP") = n
      /\ WorldSize(rep) = 1 * n * Outer(rep, "TP") /\ Outer(rep, "TP") \in Nat \ {0}
  BY <1>1, <1>2, Strides, BlocksFill DEF Kinds
<1>4. PICK base \in Indices(rep) : base % n = 0 /\ g = Group(rep, "TP", base, 0)
  <2>1. PICK base \in Indices(rep), off \in 0..(1 - 1) :
            base % BlockLength(rep, "TP") = 0 /\ g = Group(rep, "TP", base, off)
    BY <1>1, <1>2, <1>3, GroupsAre DEF Kinds
  <2>2. off = 0 /\ base % n = 0
    BY <1>3, <2>1
  <2> QED
    BY <2>1, <2>2
<1>5. g = [j \in 1..n |-> <<rep.id, base + 0 + (j - 1) * 1>>]
  BY <1>2, <1>3, <1>4 DEF Group
<1>6. WorldSize(rep) \in Nat /\ base \in 0..(WorldSize(rep) - 1)
  BY <1>1, <1>4, ReplicasKnown DEF Indices
<1>7. /\ Len(Ranks) \in Nat /\ o \in Nat /\ o + WorldSize(rep) <= Len(Ranks)
      /\ \A j \in 1..WorldSize(rep) : Ranks[o + j] = <<rep.id, j - 1>>
  BY <1>1, RanksLay
<1> HIDE DEF rep, n, o
<1>8. Len(g) = n /\ DOMAIN g = 1..n
  <2> DEFINE S == {<<rep.id, base + 0 + (j - 1) * 1>> : j \in 1..n}
  <2>1. \A j \in 1..n : <<rep.id, base + 0 + (j - 1) * 1>> \in S
    OBVIOUS
  <2> HIDE DEF S
  <2>2. g \in Seq(S)
    BY <1>2, <1>5, <2>1
  <2> QED
    BY <1>2, <1>5, <2>2
<1>9. /\ \A i \in DOMAIN DomainIds : Divides(n, Len(Members(DomainIds[i])))
      /\ \A l \in DOMAIN replicas : Divides(n, WorldSize(replicas[l]))
  BY <1>8 DEF Aligned
<1>10. o % n = 0
  BY <1>1, <1>2, <1>9, OffsetsAligned DEF o
<1>11. base \in Nat /\ o + base \in Nat /\ (o + base) % n = 0
  BY <1>2, <1>4, <1>6, <1>7, <1>10, MultiplesAdd
<1>12. base + n <= WorldSize(rep)
  <2> DEFINE m == Outer(rep, "TP")
  <2>1. m \in Nat \ {0} /\ WorldSize(rep) = n * m
    BY <1>2, <1>3
  <2>2. PICK q \in Nat : base = n * q
    BY <1>2, <1>4, <1>11, MultipleOf
  <2> HIDE DEF m
  <2>3. q < m
    <3>1. SUFFICES ASSUME q >= m PROVE FALSE
      BY <2>1, <2>2
    <3>2. n * q >= n * m
      BY <1>2, <2>1, <2>2, <3>1
    <3> QED
      BY <1>6, <2>1, <2>2, <3>2
  <2>4. n * (q + 1) <= n * m /\ n * (q + 1) = n * q + n
    BY <1>2, <2>1, <2>3
  <2> QED
    BY <1>6, <2>1, <2>2, <2>4
<1>13. ASSUME NEW j \in 1..n
       PROVE  domain[mapping[g[j]]] = domain[Pool[o + base + 1]]
  <2>1. g[j] = <<rep.id, (base + j) - 1>> /\ base + j \in 1..WorldSize(rep)
    BY <1>2, <1>5, <1>6, <1>12
  <2>2. g[j] = Ranks[o + (base + j)]
    BY <1>7, <2>1
  <2>3. o + (base + j) \in Placed
    BY <1>1, <1>2, <1>6, <1>7, <2>1 DEF Placed
  <2>4. o + (base + j) <= Len(Pool) /\ mapping[g[j]] = Pool[o + (base + j)]
    BY <2>2, <2>3 DEF ChoiceInv, PackedInv
  <2>5. PICK i \in 0..(n - 1) : j = i + 1
    BY <1>2
  <2>6. o + (base + j) = (o + base) + i + 1
    BY <1>2, <1>7, <1>11, <2>5
  <2>7. domain[Pool[(o + base) + i + 1]] = domain[Pool[(o + base) + 1]]
    BY <1>1, <1>2, <1>9, <1>11, <2>4, <2>6, PoolKeepsTogether
  <2> QED
    BY <2>4, <2>6, <2>7
<1>14. DomainsSpanned(g) = {domain[Pool[o + base + 1]]}
  <2>1. DomainsSpanned(g) = {domain[mapping[g[j]]] : j \in 1..n}
    BY <1>8 DEF DomainsSpanned, Range
  <2>2. 1 \in 1..n
    BY <1>2
  <2> QED
    BY <1>13, <2>1, <2>2
<1> QED
  BY <1>14, FS_Singleton

(***************************************************************************)
(* The promise of the rank layout, for any fabric and any deployment: packed *)
(* keeps a TP group inside one scale-up domain where the domains and the   *)
(* replicas hold whole groups.                                             *)
(***************************************************************************)
THEOREM AlignedGroupsTogether == Spec => []PackedKeepsAlignedTpGroups
<1>1. ChoiceInv => PackedKeepsAlignedTpGroups
  BY AlignedGroupsStay DEF PackedKeepsAlignedTpGroups
<1> QED
  BY <1>1, ChoiceInit, ChoiceStep, PTL DEF Spec
=============================================================================
