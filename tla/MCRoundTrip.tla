---------------------------- MODULE MCRoundTrip -----------------------------
(***************************************************************************)
(* Instances of RoundTrip: built fabrics of every platform, and a machine  *)
(* of two GPUs whose document is edited.                                   *)
(***************************************************************************)
EXTENDS RoundTrip

Slow == [bw |-> 48, lat |-> 5000]
Fast == [bw |-> 400, lat |-> 936]

MachinePlans(platform, machines, edited) ==
    [platform : {platform}, machines : machines, gpus : 1..3, nics : 0..2, edited : {edited}]

EditedPlans ==
    {[platform |-> "node", machines |-> 1, gpus |-> 1, nics |-> 1, edited |-> TRUE],
     [platform |-> "node", machines |-> 1, gpus |-> 2, nics |-> 1, edited |-> TRUE],
     [platform |-> "node", machines |-> 2, gpus |-> 1, nics |-> 1, edited |-> TRUE]}

MCPlans ==
    MachinePlans("node", 1..3, FALSE) \cup MachinePlans("single", {2}, FALSE)
    \cup [platform : {"rack"}, racks : 1..2, trays : 1..2, gpus : 1..2, nics : 0..2,
          edited : {FALSE}]
    \cup [platform : {"clos"}, radix : {2, 3}, depth : 0..3, gpus : 1..2, nics : 1..2,
          oversubscription : {1, 4}, edited : {FALSE}]
    \cup [platform : {"clos"}, radix : {4}, depth : {2}, gpus : {1}, nics : {1},
          oversubscription : {1}, edited : {FALSE}]
    \cup EditedPlans

G0 == NameOf(Gpu(0, 0))
G1 == NameOf(Gpu(0, 1))
N0 == NameOf(Nic(0, 0))
N1 == NameOf(Nic(0, 1))
Leaf == NameOf(Switch("leaf", 0))
Leaf1 == <<"leaf", 0, "asic", 1>>

(* The strings "0" and "1". *)
Text0 == -1
Text1 == -2

(* Known and unknown kinds, names that are there already, a second asic of *)
(* a switch; then indices of GPUs, machines and switches that are strings. *)
MCComponents ==
    [label : {LabelOf(Gpu(0, 0)), LabelOf(Gpu(0, 1))}, domain : {None, 0, 1}]
    \cup [label : {LabelOf(Nic(0, 1)), Leaf1, <<"machine", 0, "asic", 0>>, <<"leaf", 0, "nic", 0>>},
          domain : {None}]
    \cup [label : {LabelOf(Gpu(0, Text1)), LabelOf(Gpu(Text0, 0)), LabelOf(Gpu(Text0, 1))}, domain : {0}]
    \cup [label : {LabelOf(Gpu(0, 0))}, domain : {Text0}]
    \cup [label : {LabelOf(Nic(0, Text1)), LabelOf(Nic(Text0, 0)), <<"leaf", Text0, "asic", 1>>},
          domain : {None}]

MCDomains ==
    [id : {0, 1}, members : {{}, {G0}, {G1}, {G0, G1}, {G0, N0}, {N1}}]
    \cup [id : {Text0}, members : {{}, {G0}}]

(* Edges that are there already, that point the other way, of other data.  *)
MCEdges ==
    [src : {G0}, dst : {N0, N1}, type : {"egress"}, bw : {7}, lat : {1}]
    \cup [src : {N0}, dst : {Leaf, Leaf1}, type : {"scale_out"}, bw : {7}, lat : {1}]
    \cup [src : {N1}, dst : {G1}, type : {"egress", "ring"}, bw : {0, 7}, lat : {1}]
=============================================================================
