----------------------------- MODULE InfraGraph -----------------------------
(***************************************************************************)
(* src/engine/infragraph: the document a fabric is written to (emit.py),   *)
(* the rules a document has to pass (validate.py) and the fabric it is     *)
(* read as (parse.py).  A document is                                      *)
(*    fields      every required field is there and the version is known   *)
(*    components  in order: [label, domain], where the label is            *)
(*                <<instance, index, component, index>> and domain is the  *)
(*                attribute scale_up_domain or None                        *)
(*    domains     in order: [id, members]                                  *)
(*    edges       in order: [src, dst, type, bw, lat]                      *)
(* Devices only group components, and the labels carry what they add.      *)
(*                                                                         *)
(* JSON lets an index or a domain id be a number or a string: the number n *)
(* is n, and the string of n is -(n + 1).  Members and the ends of edges   *)
(* are names, labels as an f-string prints them: a number and its string   *)
(* print alike.                                                            *)
(***************************************************************************)
EXTENDS Fabric, Listing, Integers

CONSTANT None

ASSUME NoneIsNoDomain == None \notin Int

Label == {"leaf", "machine", "spine"} \X Int \X {"gpu", "nic", "asic"} \X Int

Name == {"leaf", "machine", "spine"} \X Nat \X {"gpu", "nic", "asic"} \X Nat

IsText(i) == i < 0

Digits(i) == IF IsText(i) THEN -(i + 1) ELSE i

Printed(label) == <<label[1], Digits(label[2]), label[3], Digits(label[4])>>

(* What sorted() raises on: "0" cannot be compared with 0. *)
Mixed(indices) == \E i, j \in indices : IsText(i) /\ ~IsText(j)

Component == [label : Label, domain : Int \cup {None}]

Domain == [id : Int, members : SUBSET Name]

(* "ring" stands for every type that is not the name of a link class. *)
Edge == [src : Name, dst : Name, type : Classes \cup {"ring"}, bw : Nat, lat : Nat]

Seen(seq) == {seq[i] : i \in DOMAIN seq}

Names(doc) == {Printed(c.label) : c \in Seen(doc.components)}

NodeOf(label) == IF label[3] = "asic" THEN Switch(label[1], label[2])
                 ELSE <<label[3], label[2], label[4]>>

LabelOf(node) == IF IsSwitch(node) THEN <<node[1], node[2], "asic", 0>>
                 ELSE <<"machine", node[2], node[1], node[3]>>

NameOf(node) == Printed(LabelOf(node))

-----------------------------------------------------------------------------
(***************************************************************************)
(* to_infragraph.  Components are listed by their numbers, edges by their  *)
(* names: as strings these are in the order of PlaceOf as long as no index *)
(* has two digits.  A reader can tell the order of edges only where a GPU  *)
(* has two NICs, of which the last is bound.  Each sorted() of the emitter *)
(* raises where it has a number and a string to compare.                   *)
(***************************************************************************)
PlaceOf(name) ==
    LET rank == [leaf |-> 0, machine |-> 1, spine |-> 2, asic |-> 0, gpu |-> 1, nic |-> 2]
    IN  <<rank[name[1]], name[2], rank[name[3]], name[4]>>

(* The attribute scale_up_domain. *)
AttrOf_Machine(fab, node) == IF IsGpu(node) THEN node[2] ELSE None  \* mutant: a machine is a domain

AttrOf(fab, node) ==
    IF IsGpu(node) /\ node \in DOMAIN fab.gpuDomain THEN fab.gpuDomain[node] ELSE None

SwitchIndices(fab, tier) == {n[2] : n \in {n \in Endpoints(fab) : n[1] = tier}}

Unwritable(fab) ==
    \/ Mixed(DOMAIN fab.machines)
    \/ \E m \in DOMAIN fab.machines :
            \E nodes \in {fab.machines[m].gpus, fab.machines[m].nics} : Mixed({n[3] : n \in nodes})
    \/ \E tier \in {"leaf", "spine"} : Mixed(SwitchIndices(fab, tier))
    \/ Mixed(DOMAIN fab.domains)

Emitted(fab) ==
    LET inMachines == UNION {fab.machines[m].gpus \cup fab.machines[m].nics :
                                m \in DOMAIN fab.machines}
        switches == {n \in Endpoints(fab) : IsSwitch(n)}
        place(n) == PlaceOf(NameOf(n))
        nodes == ListedBy([n \in inMachines |-> place(n)])
                 \o ListedBy([n \in switches |-> place(n)])
        ids == ListedBy([d \in DOMAIN fab.domains |-> <<Digits(d)>>])
        edges == ListedBy([l \in DOMAIN fab.links |-> place(l[1]) \o place(l[2])])
    IN  [fields |-> TRUE,
         components |-> [i \in DOMAIN nodes |->
            [label |-> LabelOf(nodes[i]), domain |-> AttrOf(fab, nodes[i])]],
         domains |-> [i \in DOMAIN ids |->
            [id |-> ids[i], members |-> {NameOf(g) : g \in fab.domains[ids[i]]}]],
         edges |-> [i \in DOMAIN edges |->
            LET link == fab.links[edges[i]]
            IN  [src |-> NameOf(edges[i][1]), dst |-> NameOf(edges[i][2]),
                 type |-> link.class, bw |-> link.bw, lat |-> link.lat]]]

-----------------------------------------------------------------------------
(***************************************************************************)
(* validate_infragraph, rule by rule.                                      *)
(***************************************************************************)
KnownKind(label) == IF label[1] = "machine" THEN label[3] \in {"gpu", "nic"} ELSE label[3] = "asic"

ComponentsValid(doc) ==
    /\ \A i, j \in DOMAIN doc.components :
            i # j => Printed(doc.components[i].label) # Printed(doc.components[j].label)
    /\ \A name \in Names(doc) : KnownKind(name)

(* gpu_domain_attr and domain_members, which a second entry of one id      *)
(* overwrites.                                                             *)
DomainAttr(doc) ==
    LET gpus == {c \in Seen(doc.components) : c.label[3] = "gpu" /\ c.domain # None}
    IN  [name \in {Printed(c.label) : c \in gpus} |->
            (CHOOSE c \in gpus : Printed(c.label) = name).domain]

DomainMembers(doc) == Dict([i \in DOMAIN doc.domains |-> <<doc.domains[i].id, doc.domains[i].members>>])

MembersKnown(doc) == \A d \in Seen(doc.domains) : d.members \subseteq Names(doc)

MembershipTwice(doc) ==
    LET attr == DomainAttr(doc)
        listed == DomainMembers(doc)
    IN  /\ \A n \in DOMAIN attr : attr[n] \in DOMAIN listed /\ n \in listed[attr[n]]
        /\ \A d \in DOMAIN listed : \A n \in listed[d] : n \in DOMAIN attr /\ attr[n] = d

EndpointsKnown_Src(doc) == \A e \in Seen(doc.edges) : e.src \in Names(doc)  \* mutant: dst is not checked

EndpointsKnown(doc) == \A e \in Seen(doc.edges) : {e.src, e.dst} \subseteq Names(doc)

EdgesValid(doc) ==
    /\ \A i, j \in DOMAIN doc.edges :
            i # j => <<doc.edges[i].src, doc.edges[i].dst>> # <<doc.edges[j].src, doc.edges[j].dst>>
    /\ \A e \in Seen(doc.edges) : e.type \in Classes /\ e.bw > 0

NoneIsolated_Anything(doc) == TRUE      \* mutant: components need no edge

NoneIsolated(doc) == Names(doc) \subseteq UNION {{e.src, e.dst} : e \in Seen(doc.edges)}

Accepted(doc) ==
    /\ doc.fields
    /\ ComponentsValid(doc)
    /\ MembersKnown(doc) /\ MembershipTwice(doc)
    /\ EndpointsKnown(doc) /\ EdgesValid(doc)
    /\ NoneIsolated(doc)

-----------------------------------------------------------------------------
(***************************************************************************)
(* _reconstruct_fabric raises on what it cannot look up, on a kind it does *)
(* not know, and where the machines, or the GPUs or the NICs of a machine, *)
(* cannot be sorted: some indices are numbers and some are strings.        *)
(***************************************************************************)
MixedIndices(doc) ==
    LET inMachines == {l \in {c.label : c \in Seen(doc.components)} : l[3] \in {"gpu", "nic"}}
    IN  \/ Mixed({l[2] : l \in inMachines})
        \/ \E k \in inMachines :
                Mixed({l[4] : l \in {l \in inMachines : <<l[2], l[3]>> = <<k[2], k[3]>>}})

ParseRaises(doc) ==
    \/ ~doc.fields
    \/ \E n \in Names(doc) : n[3] # "asic" /\ ~KnownKind(n)
    \/ MixedIndices(doc)
    \/ ~(UNION {d.members : d \in Seen(doc.domains)} \subseteq Names(doc))
    \/ ~(UNION {{e.src, e.dst} : e \in Seen(doc.edges)} \subseteq Names(doc))
    \/ \E e \in Seen(doc.edges) : e.type \notin Classes

(* "The reverse (nic -> gpu) edge must not overwrite it." *)
Binds_BothWays(e) == e.type = "egress"      \* mutant: any egress edge binds

Binds(e) == e.type = "egress" /\ e.src[3] = "gpu" /\ e.dst[3] = "nic"

(* The dict from names to nodes. *)
NodeNamed(doc) ==
    Dict([i \in DOMAIN doc.components |->
            LET label == doc.components[i].label IN <<Printed(label), NodeOf(label)>>])

Parsed(doc) ==
    LET named == NodeNamed(doc)
        nodes == {NodeOf(c.label) : c \in Seen(doc.components)}
        mids == {n[2] : n \in {n \in nodes : ~IsSwitch(n)}}
        entries == [i \in DOMAIN doc.domains |->
                        [id |-> doc.domains[i].id,
                         members |-> {named[n] : n \in doc.domains[i].members}]]
        lastOf(g) == Max({i \in DOMAIN entries : g \in entries[i].members})
        ends(e) == <<named[e.src], named[e.dst]>>
        binding == {i \in DOMAIN doc.edges : Binds(doc.edges[i])}
    IN  [machines |-> [m \in mids |->
                        [gpus |-> {n \in nodes : IsGpu(n) /\ n[2] = m},
                         nics |-> {n \in nodes : IsNic(n) /\ n[2] = m}]],
         domains |-> Dict([i \in DOMAIN entries |-> <<entries[i].id, entries[i].members>>]),
         gpuDomain |-> [g \in UNION {d.members : d \in Seen(entries)} |-> entries[lastOf(g)].id],
         gpuNic |-> Dict([i \in binding |-> ends(doc.edges[i])]),
         links |-> Dict([i \in DOMAIN doc.edges |->
            LET e == doc.edges[i]
            IN  <<ends(e), [class |-> e.type, bw |-> e.bw, lat |-> e.lat]>>])]

-----------------------------------------------------------------------------
(***************************************************************************)
(* A fabric says what its document says: every component is there, every   *)
(* edge is a link with its data, and either way to ask for the domain of a *)
(* GPU, domain_of and the members of the domains, gives the one that the   *)
(* document lists it in.                                                   *)
(***************************************************************************)
ComponentsKept(doc, fab) ==
    {NodeOf(c.label) : c \in Seen(doc.components)} =
        Endpoints(fab) \cup UNION {fab.machines[m].gpus \cup fab.machines[m].nics : m \in DOMAIN fab.machines}

EdgesKept(doc, fab) ==
    LET named == NodeNamed(doc)
    IN  \A e \in Seen(doc.edges) :
            fab.links[<<named[e.src], named[e.dst]>>] = [class |-> e.type, bw |-> e.bw, lat |-> e.lat]

MembershipAgrees(fab) ==
    /\ \A g \in DOMAIN fab.gpuDomain : g \in fab.domains[fab.gpuDomain[g]]
    /\ \A d \in DOMAIN fab.domains : \A g \in fab.domains[d] : fab.gpuDomain[g] = d

DomainsKept(doc, fab) ==
    /\ MembershipAgrees(fab)
    /\ DomainAttr(doc) = [n \in {NameOf(g) : g \in DOMAIN fab.gpuDomain} |->
                            fab.gpuDomain[NodeNamed(doc)[n]]]

(* What the rules let through and the parser does not represent. *)
OneAsicPerSwitch(doc) ==
    \A c, d \in Seen(doc.components) : NodeOf(c.label) = NodeOf(d.label) => c.label = d.label

(* What sorts while it is read and not when it is written again: switches  *)
(* of one tier, or domains, with numbers and strings for indices.          *)
MixedInTiers(doc) ==
    LET indices(tier) == {c.label[2] : c \in {c \in Seen(doc.components) : c.label[1] = tier}}
    IN  \/ \E tier \in {"leaf", "spine"} : Mixed(indices(tier))
        \/ Mixed({d.id : d \in Seen(doc.domains)})

EachDomainOnce(doc) == \A i, j \in DOMAIN doc.domains : doc.domains[i].id = doc.domains[j].id => i = j

OneNicPerGpu(doc) ==
    \A d, e \in Seen(doc.edges) : Binds(d) /\ Binds(e) /\ d.src = e.src => d.dst = e.dst
=============================================================================
