----------------------------- MODULE Placement -----------------------------
(***************************************************************************)
(* Placing the ranks of a deployment on the GPUs of a fabric: Placement    *)
(* and the policies packed, spread, explicit and fragmented of             *)
(* src/engine/placement/placement.py.  Each policy hands ranks to assign() *)
(* one at a time and ends with validate().                                 *)
(*                                                                         *)
(* GPUs are numbers, sorted as GpuIds are.  Of the fabric only its GPUs    *)
(* and their scale-up domains matter; a GPU may be in none.                *)
(***************************************************************************)
EXTENDS Deployment, Functions, Listing

CONSTANTS Gpu,              \* the GPUs of the fabric
          Calls,            \* possible calls: a policy, replicas, and the
                            \* domain of each GPU, which may be None
          Stranger,         \* a GPU that is not in the fabric
          None

ASSUME GpusAreOrdered == Gpu \subseteq Nat /\ IsFiniteSet(Gpu)
ASSUME StrangerIsUnknown == Stranger \notin Gpu /\ None \notin Gpu /\ Stranger # None
ASSUME CallsType ==
    \A c \in Calls :
        /\ c.policy \in {"packed", "spread", "explicit", "fragmented"}
        /\ c.domain \in [Gpu -> Nat \cup {None}]
        /\ c.replicas \in Seq({c.replicas[k] : k \in DOMAIN c.replicas})
        /\ \A k \in DOMAIN c.replicas, kind \in Kinds : c.replicas[k][kind] \in Nat \ {0}

VARIABLES replicas, domain, policy,     \* the arguments, never changed
          step,
          mapping,                      \* Placement.mapping
          next,                         \* position in deployment.ranks
          di, cursors,                  \* locals of spread
          free                          \* local of fragmented, as a set

arguments == <<replicas, domain, policy>>
spreading == <<di, cursors>>
vars == <<arguments, step, mapping, next, spreading, free>>

Ranks == DeploymentRanks(replicas)

Sorted(S) == Listed(S, {p \in S \X S : p[1] < p[2]})

(* The ids of the domains, in order, and the members of each, in order. *)
DomainIds == Sorted(Range(domain) \ {None})

Members(d) == Sorted({g \in Gpu : domain[g] = d})

Init ==
    /\ \E c \in Calls : policy = c.policy /\ replicas = c.replicas /\ domain = c.domain
    /\ step = "start"
    /\ mapping = [r \in {} |-> None]
    /\ next = 1
    /\ di = 0 /\ cursors = <<>>
    /\ free = {}

-----------------------------------------------------------------------------
(***************************************************************************)
(* assign(rank, gpu) refuses a GPU that is taken and a rank that is        *)
(* already placed; either exception leaves the policy.                     *)
(***************************************************************************)
Refused_Gpu(rank, gpu) == gpu \in Range(mapping)    \* mutant: a rank may be placed again

Refused(rank, gpu) == gpu \in Range(mapping) \/ rank \in DOMAIN mapping

Assign(rank, gpu) ==
    IF Refused(rank, gpu)
      THEN step' = "raised" /\ UNCHANGED <<mapping, next>>
      ELSE /\ mapping' = [r \in DOMAIN mapping \cup {rank} |->
                            IF r = rank THEN gpu ELSE mapping[r]]
           /\ next' = next + 1
           /\ UNCHANGED step

RanksLeft == next <= Len(Ranks)

(***************************************************************************)
(* packed: the members of the domains one after the other, then the GPUs   *)
(* that are in none.                                                       *)
(***************************************************************************)
TakenBefore(g, h) ==
    IF domain[g] = domain[h] THEN g < h
    ELSE domain[h] = None \/ (domain[g] # None /\ domain[g] < domain[h])

Pool == Listed(Gpu, {p \in Gpu \X Gpu : TakenBefore(p[1], p[2])})

PackedAssign ==
    /\ step = "placing" /\ policy = "packed"
    /\ RanksLeft
    /\ IF next <= Len(Pool)
         THEN Assign(Ranks[next], Pool[next])
         ELSE step' = "raised" /\ UNCHANGED <<mapping, next>>
    /\ UNCHANGED <<arguments, spreading, free>>

(***************************************************************************)
(* spread: round-robin over the domains, passing those that are full; a    *)
(* rank that every domain has refused ends it.  GPUs outside the domains   *)
(* are only used where there are no domains at all.                        *)
(***************************************************************************)
Doms == IF DomainIds = <<>> THEN <<Sorted(Gpu)>>
        ELSE [i \in DOMAIN DomainIds |-> Members(DomainIds[i])]

(* The domains in the order they are tried in for the next rank. *)
Turn_FromFirst(k) == k + 1      \* mutant: the round starts at the first domain for every rank

Turn(k) == ((di + k) % Len(Doms)) + 1

Turns_ButLast == 0..(Len(Doms) - 2)     \* mutant: the last domain of the round is not tried

Turns == 0..(Len(Doms) - 1)

SpreadAssign ==
    LET open == {k \in Turns : cursors[Turn(k)] < Len(Doms[Turn(k)])}
        d == Turn(Min(open))
    IN  /\ step = "placing" /\ policy = "spread"
        /\ RanksLeft
        /\ IF open = {} THEN step' = "raised" /\ UNCHANGED <<mapping, next, spreading>>
           ELSE /\ Assign(Ranks[next], Doms[d][cursors[d] + 1])
                /\ di' = di + Min(open) + 1
                /\ cursors' = IF next' = next THEN cursors ELSE [cursors EXCEPT ![d] = @ + 1]
        /\ UNCHANGED <<arguments, free>>

(***************************************************************************)
(* explicit: the caller's map, which may lack a rank (None), name a GPU    *)
(* twice or name one that is not there.                                    *)
(***************************************************************************)
ExplicitAssign ==
    /\ step = "placing" /\ policy = "explicit"
    /\ RanksLeft
    /\ \E given \in Gpu \cup {Stranger, None} :
         IF given = None
           THEN step' = "raised" /\ UNCHANGED <<mapping, next>>
           ELSE Assign(Ranks[next], given)
    /\ UNCHANGED <<arguments, spreading, free>>

(***************************************************************************)
(* fragmented: the GPUs are shuffled and the first n_busy taken away, so   *)
(* any set of them may be left, in any order.                              *)
(***************************************************************************)
FragmentedStart ==
    /\ step = "start" /\ policy = "fragmented"
    /\ free' \in SUBSET Gpu
    /\ step' = IF Cardinality(free') < Len(Ranks) THEN "raised" ELSE "placing"
    /\ UNCHANGED <<arguments, mapping, next, spreading>>

FragmentedAssign ==
    /\ step = "placing" /\ policy = "fragmented"
    /\ RanksLeft
    /\ \E gpu \in free : Assign(Ranks[next], gpu) /\ free' = free \ {gpu}
    /\ UNCHANGED <<arguments, spreading>>

Start ==
    /\ step = "start" /\ policy # "fragmented"
    /\ step' = "placing"
    /\ cursors' = IF policy = "spread" THEN [i \in DOMAIN Doms |-> 0] ELSE cursors
    /\ UNCHANGED <<arguments, mapping, next, di, free>>

(***************************************************************************)
(* validate(): no GPU twice, none that the fabric does not have.           *)
(***************************************************************************)
Valid_AnyGpu == IsInjective(mapping)    \* mutant: unknown GPUs are not looked for

Valid == IsInjective(mapping) /\ Range(mapping) \subseteq Gpu

Validate ==
    /\ step = "placing"
    /\ ~RanksLeft
    /\ step' = IF Valid THEN "placed" ELSE "raised"
    /\ UNCHANGED <<arguments, mapping, next, spreading, free>>

Ended == step \in {"placed", "raised"} /\ UNCHANGED vars

Next ==
    \/ Start \/ PackedAssign \/ SpreadAssign \/ ExplicitAssign
    \/ FragmentedStart \/ FragmentedAssign \/ Validate
    \/ Ended

Spec == Init /\ [][Next]_vars

-----------------------------------------------------------------------------
(***************************************************************************)
(* Types; spread's cursors count the GPUs it has taken in each domain.     *)
(***************************************************************************)
TypeOK ==
    /\ step \in {"start", "placing", "placed", "raised"}
    /\ next \in 1..(Len(Ranks) + 1)
    /\ DOMAIN mapping = {Ranks[i] : i \in 1..(next - 1)}
    /\ Range(mapping) \subseteq Gpu \cup {Stranger}
    /\ free \subseteq Gpu
    /\ policy = "spread" /\ step # "start" =>
        \A i \in DOMAIN Doms :
            cursors[i] = Cardinality(Range(mapping) \cap ToSet(Doms[i]))

(***************************************************************************)
(* "Two ranks on one GPU is a configuration error": what a policy returns  *)
(* places every rank of the deployment, each on a GPU of its own that the  *)
(* fabric has.                                                             *)
(***************************************************************************)
PlacedIsInjective ==
    step = "placed" =>
        /\ DOMAIN mapping = ToSet(Ranks)
        /\ Cardinality(Range(mapping)) = Len(Ranks)
        /\ Range(mapping) \subseteq Gpu

(***************************************************************************)
(* A policy that chooses GPUs itself refuses a deployment only when it is  *)
(* larger than what the policy may use, or names a replica twice.          *)
(***************************************************************************)
Usable ==
    CASE policy = "packed" -> Cardinality(Gpu)
      [] policy = "fragmented" -> Cardinality(free)
      [] policy = "spread" -> Cardinality(UNION {ToSet(Doms[i]) : i \in DOMAIN Doms})

RefusalIsJustified ==
    step = "raised" /\ policy # "explicit" =>
        Len(Ranks) > Usable \/ ~IsInjective(Ranks)

(***************************************************************************)
(* Round-robin: a domain is ahead of another by more than one rank only    *)
(* when the other is full.                                                 *)
(***************************************************************************)
SpreadIsEven ==
    policy = "spread" =>
        \A d, e \in DOMAIN cursors :
            cursors[d] > cursors[e] + 1 => cursors[e] = Len(Doms[e])

(***************************************************************************)
(* groups(kind) partitions the ranks of a replica, and two ranks are in    *)
(* one group exactly when they differ in that dimension alone.             *)
(***************************************************************************)
GroupsPartitionRanks ==
    step = "start" =>
        \A k \in DOMAIN replicas, kind \in Kinds :
            LET rep == replicas[k]
                groups == Groups(rep, kind)
                indices == 0..(WorldSize(rep) - 1)
            IN  IF rep[kind] = 1 THEN groups = {}
                ELSE \A i \in indices :
                        /\ Cardinality({g \in groups : <<rep.id, i>> \in Range(g)}) = 1
                        /\ \A g \in groups : <<rep.id, i>> \in Range(g) =>
                            Range(g) = {<<rep.id, j>> : j \in {j \in indices : Together(rep, i, j, kind)}}

(* domains_spanned; None is a domain like any other. *)
DomainsSpanned(group) == {domain[mapping[r]] : r \in Range(group)}

(***************************************************************************)
(* The rank layout "makes TP groups contiguous so a packed placement keeps *)
(* them inside one scale-up domain": it does, where every domain and every *)
(* replica holds a whole number of them.                                   *)
(***************************************************************************)
Divides(n, m) == m % n = 0

Aligned(n) ==
    /\ \A i \in DOMAIN DomainIds : Divides(n, Len(Members(DomainIds[i])))
    /\ \A k \in DOMAIN replicas : Divides(n, WorldSize(replicas[k]))

PackedKeepsAlignedTpGroups ==
    policy = "packed" /\ step = "placed" =>
        \A g \in UNION {Groups(replicas[k], "TP") : k \in DOMAIN replicas} :
            Aligned(Len(g)) => Cardinality(DomainsSpanned(g)) = 1
=============================================================================
