------------------------------ MODULE Builders ------------------------------
(***************************************************************************)
(* The fabrics that are built from a few parameters: build_node_scale and  *)
(* build_rack_scale of src/engine/physical/builders.py, and the blueprints *)
(* single_tier_fabric and clos_fat_tree_fabric of                          *)
(* src/engine/infragraph/blueprints.py, which wire their machines with     *)
(* code of their own and are meant to agree with the former.               *)
(*                                                                         *)
(* p is a record of the parameters: platform, gpus and nics per machine    *)
(* (or tray), and what else the platform takes.                            *)
(***************************************************************************)
EXTENDS Fabric

CONSTANTS ScaleUp, ScaleOut,    \* [bw, lat] of the links of a class
          NicGbps, EgressLat

ASSUME SpeedsType == {ScaleUp, ScaleOut} \subseteq [bw : Nat \ {0}, lat : Nat]
ASSUME NicGbpsType == NicGbps \in Nat \ {0} /\ NicGbps % 8 = 0 /\ EgressLat \in Nat

Egress == [bw |-> NicGbps \div 8, lat |-> EgressLat]    \* gbps_to_GBps

(* add_link with bidirectional = True, once for each pair. *)
TwoWay(pairs, class, speed) ==
    [l \in pairs \cup {<<p[2], p[1]>> : p \in pairs} |->
        [class |-> class, bw |-> speed.bw, lat |-> speed.lat]]

(* Links, and more of them later: of two that join the same nodes, the later one stays. *)
Added(links, more) ==
    [l \in DOMAIN links \cup DOMAIN more |-> IF l \in DOMAIN more THEN more[l] ELSE links[l]]

GpusOf(mid, p) == {Gpu(mid, i) : i \in 0..(p.gpus - 1)}
NicsOf(mid, p) == {Nic(mid, i) : i \in 0..(p.nics - 1)}
GpusIn(mids, p) == UNION {GpusOf(m, p) : m \in mids}
NicsIn(mids, p) == UNION {NicsOf(m, p) : m \in mids}

(* add_machine for each of mids, and add_domain for each of domains. *)
Inventory(mids, p, domains, binding, links) ==
    [machines |-> [m \in mids |-> [gpus |-> GpusOf(m, p), nics |-> NicsOf(m, p)]],
     domains |-> domains,
     gpuDomain |-> [g \in UNION Range(domains) |-> CHOOSE d \in DOMAIN domains : g \in domains[d]],
     gpuNic |-> binding,
     links |-> links]

-----------------------------------------------------------------------------
(***************************************************************************)
(* builders.py: GPUs share the NICs of their machine round-robin, and the  *)
(* GPUs of a domain are meshed, whatever machines they are in.             *)
(***************************************************************************)
Binding(mids, p) ==
    [g \in (IF p.nics = 0 THEN {} ELSE GpusIn(mids, p)) |-> Nic(g[2], g[3] % p.nics)]

(* mutant: the links of all GPUs go to the first NIC of the machine *)
EgressLinks_First(binding) ==
    TwoWay({<<g, Nic(g[2], 0)>> : g \in DOMAIN binding}, "egress", Egress)

EgressLinks(binding) ==
    TwoWay({<<g, binding[g]>> : g \in DOMAIN binding}, "egress", Egress)

(* mutant: the machine is taken for the domain *)
Meshed_Chassis(gpus) == {e \in gpus \X gpus : e[1] # e[2] /\ e[1][2] = e[2][2]}

Meshed(gpus) == {e \in gpus \X gpus : e[1] # e[2]}

Assembled(mids, p, domains, scaleOut) ==
    LET binding == Binding(mids, p)
        mesh == UNION {Meshed(domains[d]) : d \in DOMAIN domains}
    IN  Inventory(mids, p, domains, binding,
            Added(Added(EgressLinks(binding), TwoWay(mesh, "scale_up", ScaleUp)), scaleOut))

NodeScale(p) ==
    LET mids == 0..(p.machines - 1)
    IN  Assembled(mids, p, [m \in mids |-> GpusOf(m, p)],
            TwoWay({<<n, Switch("leaf", 0)>> : n \in NicsIn(mids, p)}, "scale_out", ScaleOut))

RackScale(p) ==
    LET mids == 0..(p.racks * p.trays - 1)
        racks == 0..(p.racks - 1)
        rackOf(mid) == mid \div p.trays
        toSpine == IF p.racks > 1 THEN {<<Switch("leaf", r), Switch("spine", 0)>> : r \in racks}
                   ELSE {}
    IN  Assembled(mids, p, [r \in racks |-> GpusIn({m \in mids : rackOf(m) = r}, p)],
            Added(TwoWay({<<n, Switch("leaf", rackOf(n[2]))>> : n \in NicsIn(mids, p)},
                         "scale_out", ScaleOut),
                  TwoWay(toSpine, "scale_out", [ScaleOut EXCEPT !.bw = 4 * @])))

-----------------------------------------------------------------------------
(***************************************************************************)
(* blueprints.py: one machine after the other, each a domain of its own,   *)
(* on the leaf that is given.                                              *)
(***************************************************************************)
(* mutant: GPUs are dealt out in blocks *)
NicIndex_Blocks(i, p) == (i * p.nics) \div p.gpus

NicIndex(i, p) == i % p.nics

WiredMachines(leaf, p) ==
    LET mids == DOMAIN leaf
        gpuIndices == 0..(p.gpus - 1)
        bound == IF p.nics = 0 THEN {} ELSE mids \X gpuIndices
        nicOf(m, i) == Nic(m, NicIndex(i, p))
        peers == {<<Gpu(e[1], e[2]), Gpu(e[1], e[3])>> :
                    e \in {e \in mids \X gpuIndices \X gpuIndices : e[2] < e[3]}}
    IN  Inventory(mids, p, [m \in mids |-> GpusOf(m, p)],
            [g \in {Gpu(e[1], e[2]) : e \in bound} |-> nicOf(g[2], g[3])],
            Added(Added(TwoWay(peers, "scale_up", ScaleUp),
                        TwoWay({<<Gpu(e[1], e[2]), nicOf(e[1], e[2])>> : e \in bound},
                               "egress", Egress)),
                  TwoWay({<<n, leaf[n[2]]>> : n \in NicsIn(mids, p)}, "scale_out", ScaleOut)))

SingleTier(p) == WiredMachines([m \in 0..(p.machines - 1) |-> Switch("leaf", 0)], p)

(***************************************************************************)
(* radix leaves of radix/2 hosts each, all linked to all radix/2 spines; a *)
(* ratio of aggregates, the oversubscription narrows the uplinks.          *)
(***************************************************************************)
UplinkGBps_PerLink(p) == ScaleOut.bw \div p.oversubscription    \* mutant: NICs are not counted

UplinkGBps(p) == (p.nics * ScaleOut.bw) \div p.oversubscription

LeafSpine(p) ==
    LET half == p.radix \div 2
        hosts == WiredMachines([m \in 0..(p.radix * half - 1) |-> Switch("leaf", m \div half)], p)
        pairs == {<<Switch("leaf", i), Switch("spine", j)>> :
                    i \in 0..(p.radix - 1), j \in 0..(half - 1)}
    IN  [hosts EXCEPT !.links =
            Added(@, TwoWay(pairs, "scale_out", [ScaleOut EXCEPT !.bw = UplinkGBps(p)]))]

(* NotImplementedError for more than two tiers, ValueError for an odd radix. *)
BuildRaises(p) ==
    p.platform = "clos" /\ (p.depth > 2 \/ (p.depth # 1 /\ p.radix % 2 # 0))

FatTree(p) ==
    IF p.depth = 1 THEN SingleTier([machines |-> p.radix, gpus |-> p.gpus, nics |-> p.nics])
    ELSE LeafSpine(p)

FabricOf(p) ==
    CASE p.platform = "node" -> NodeScale(p)
      [] p.platform = "rack" -> RackScale(p)
      [] p.platform = "single" -> SingleTier(p)
      [] p.platform = "clos" -> FatTree(p)

-----------------------------------------------------------------------------
(***************************************************************************)
(* What is promised of a built fabric.                                     *)
(*                                                                         *)
(* A GPU is one hop from its domain, and leaves it through its own NIC and *)
(* enters another through that of its peer: no third GPU and no other NIC  *)
(* is ever on a shortest path.  "Communication inside a machine is two     *)
(* distinct paths with different physics."                                 *)
(***************************************************************************)
RoutesThroughOwnNics(fab) ==
    \A a, b \in Gpus(fab) :
        LET onRoute == {n \in RouteNodes(fab, a, b) : ~IsSwitch(n)}
        IN  IF SameDomain(fab, a, b)
              THEN onRoute \subseteq {a, b}
              ELSE onRoute = IF {a, b} \subseteq DOMAIN fab.gpuNic
                             THEN {a, b, fab.gpuNic[a], fab.gpuNic[b]} ELSE {}

(***************************************************************************)
(* "A shape of (n,) is one scale-up domain": a group whose shape has one   *)
(* part stays on scale-up links, any other one uses egress and scale-out.  *)
(***************************************************************************)
ShapeIsWhatLinksShow(fab, group) ==
    LET classes == {fab.links[l].class : l \in InducedLinks(fab, group)}
        shape == ShapeCounts(fab, group)
    IN  /\ SumFunction(shape) = Len(group)
        /\ IF Cardinality(DOMAIN shape) = 1 THEN classes = {"scale_up"}
           ELSE {"egress", "scale_out"} \subseteq classes

(***************************************************************************)
(* "Any two hosts are at most two switch-hops apart: one hop (their shared *)
(* leaf) if they sit behind the same leaf, otherwise leaf -> spine ->      *)
(* leaf", over any of the spines.                                          *)
(***************************************************************************)
SwitchesBetween(fab, a, b) == {n \in RouteNodes(fab, a, b) : IsSwitch(n)}

LeavesBelow(fab, g) == {l[2] : l \in {l \in DOMAIN fab.links : l[1] = fab.gpuNic[g] /\ IsSwitch(l[2])}}

OverLeafAndSpines(fab, p) ==
    \A a, b \in DOMAIN fab.gpuNic :
        ~SameDomain(fab, a, b) =>
            LET leaves == LeavesBelow(fab, a) \cup LeavesBelow(fab, b)
            IN  SwitchesBetween(fab, a, b) =
                    IF Cardinality(leaves) = 1 THEN leaves
                    ELSE leaves \cup {Switch("spine", j) : j \in 0..(p.radix \div 2 - 1)}

(***************************************************************************)
(* "At 4:1 the SUM of a leaf's uplinks is a quarter of the SUM of its      *)
(* downlinks", and where a host has one NIC no switch has more than radix  *)
(* links.                                                                  *)
(***************************************************************************)
LinksOf(fab, s) == {l \in DOMAIN fab.links : l[1] = s}

SumOfLinks(fab, links) == SumFunction([l \in links |-> fab.links[l].bw])

Subscribed(fab, p) ==
    \A i \in 0..(p.radix - 1) :
        LET links == LinksOf(fab, Switch("leaf", i))
            up == {l \in links : IsSwitch(l[2])}
        IN  SumOfLinks(fab, up) * p.oversubscription = SumOfLinks(fab, links \ up)

WithinRadix(fab, p) ==
    \A s \in {n \in Endpoints(fab) : IsSwitch(n)} :
        p.nics <= 1 => Cardinality(LinksOf(fab, s)) <= p.radix
=============================================================================
