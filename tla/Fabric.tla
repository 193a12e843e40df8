------------------------------- MODULE Fabric -------------------------------
(***************************************************************************)
(* The inventory half of src/engine/physical/topology.py: what a Fabric    *)
(* holds besides the adjacency lists that FabricPaths searches.  A fabric  *)
(* is a record of five dicts, each a function of what it has as keys:      *)
(*    machines   machine id   -> [gpus, nics]                              *)
(*    domains    domain id    -> the GPUs of a ScaleUpDomain               *)
(*    gpuDomain  GPU          -> domain id           (_gpu_domain)         *)
(*    gpuNic     GPU          -> NIC                 (_gpu_nic)            *)
(*    links      <<src, dst>> -> [class, bw, lat]    (_links)              *)
(***************************************************************************)
EXTENDS Naturals, Sequences, FiniteSetsExt, Functions

Gpu(machine, i) == <<"gpu", machine, i>>
Nic(machine, i) == <<"nic", machine, i>>
Switch(tier, i) == <<tier, i, 0>>

IsGpu(n) == n[1] = "gpu"
IsNic(n) == n[1] = "nic"
IsSwitch(n) == ~IsGpu(n) /\ ~IsNic(n)

Classes == {"scale_up", "egress", "scale_out"}

NoFabric == [machines |-> <<>>, domains |-> <<>>, gpuDomain |-> <<>>,
             gpuNic |-> <<>>, links |-> <<>>]

(***************************************************************************)
(* A dict after d[key] = value for each <<key, value>> in turn: a key that *)
(* comes again is overwritten in silence.                                  *)
(***************************************************************************)
Dict(entries) ==
    LET lastOf(k) == Max({i \in DOMAIN entries : entries[i][1] = k})
    IN  [k \in {entries[i][1] : i \in DOMAIN entries} |-> entries[lastOf(k)][2]]

Gpus(fab) == UNION {fab.machines[m].gpus : m \in DOMAIN fab.machines}

(* The nodes _adj can reach or leave from: switches exist only as these. *)
Endpoints(fab) == {l[1] : l \in DOMAIN fab.links} \cup {l[2] : l \in DOMAIN fab.links}

SameDomain(fab, a, b) ==
    /\ {a, b} \subseteq DOMAIN fab.gpuDomain
    /\ fab.gpuDomain[a] = fab.gpuDomain[b]

-----------------------------------------------------------------------------
(***************************************************************************)
(* The shortest paths, as FabricPaths shows equal_cost_paths to return     *)
(* them and path() to be one of them: distances in hops from a node, and   *)
(* the nodes and links on any shortest path between two.                   *)
(***************************************************************************)
Distances(fab, a) ==
    LET n == Cardinality(Endpoints(fab))
        after[k \in 0..n] ==
            IF k = 0 THEN [m \in {a} |-> 0]
            ELSE LET near == after[k - 1]
                     found == {l[2] : l \in {l \in DOMAIN fab.links : l[1] \in DOMAIN near}}
                 IN  IF found \subseteq DOMAIN near THEN near
                     ELSE [m \in DOMAIN near \cup found |->
                            IF m \in DOMAIN near THEN near[m] ELSE k]
    IN  after[n]

OnTheWay(from, to, n) ==
    /\ n \in DOMAIN from \cap DOMAIN to
    /\ \A m \in DOMAIN from \cap DOMAIN to : from[n] + to[n] <= from[m] + to[m]

RouteNodes(fab, a, b) ==
    LET from == Distances(fab, a)
        to == Distances(fab, b)
    IN  {n \in Endpoints(fab) : OnTheWay(from, to, n)}

RouteLinks(fab, a, b) ==
    LET from == Distances(fab, a)
        on == RouteNodes(fab, a, b)
    IN  {l \in DOMAIN fab.links : {l[1], l[2]} \subseteq on /\ from[l[2]] = from[l[1]] + 1}

-----------------------------------------------------------------------------
(***************************************************************************)
(* What placement.py says of a group of ranks, here of the sequence of the *)
(* GPUs they are on: how many are in each domain (None is one, for GPUs    *)
(* without domain), and the links of an exchange, which asks for paths     *)
(* from the ranks that come first to the later ones only.                  *)
(***************************************************************************)
DomainOf(fab, g) == IF g \in DOMAIN fab.gpuDomain THEN <<fab.gpuDomain[g]>> ELSE <<>>

DomainsSpanned(fab, group) == {DomainOf(fab, g) : g \in Range(group)}

ShapeCounts(fab, group) ==
    [d \in DomainsSpanned(fab, group) |-> Cardinality({i \in DOMAIN group : DomainOf(fab, group[i]) = d})]

InducedLinks(fab, group) ==
    LET later == {p \in (DOMAIN group) \X (DOMAIN group) : p[1] < p[2]}
    IN  UNION {RouteLinks(fab, group[p[1]], group[p[2]]) : p \in later}
=============================================================================
