----------------------------- MODULE RoundTrip ------------------------------
(***************************************************************************)
(* src/engine/cli/infragraph.py, and what it is there to show: a fabric is *)
(* built, written as a document, read back and compared.  Before it is     *)
(* read, the document may be edited by hand or by another tool, as the     *)
(* validator expects documents "to arrive from elsewhere"; what is then    *)
(* read is a fabric like any other, and is written and read once more.     *)
(***************************************************************************)
EXTENDS Builders, InfraGraph, SequencesExt

CONSTANTS Plans,            \* parameters of the fabrics that are built
          MaxEdits,         \* bound: edits of a document
          NewComponents, NewDomains, NewEdges   \* what an edit may add

(***************************************************************************)
(* Every machine has a GPU or a NIC.  Capacities are whole numbers here,   *)
(* so an oversubscription divides what the NICs of a host carry.           *)
(***************************************************************************)
MachinesAreBuilt(p) ==
    p.gpus \in Nat /\ p.nics \in Nat /\ p.gpus + p.nics > 0

ASSUME PlansType ==
    \A p \in Plans :
        /\ p.platform \in {"node", "rack", "single", "clos"}
        /\ MachinesAreBuilt(p) /\ p.edited \in BOOLEAN
        /\ p.platform \in {"node", "single"} => p.machines \in Nat
        /\ p.platform = "rack" => p.racks \in Nat /\ p.trays \in Nat
        /\ p.platform = "clos" =>
               p.radix \in Nat /\ p.depth \in Nat
               /\ p.oversubscription \in Nat \ {0} /\ UplinkGBps(p) > 0
               /\ (p.nics * ScaleOut.bw) % p.oversubscription = 0

ASSUME EditsType ==
    /\ MaxEdits \in Nat
    /\ NewComponents \subseteq Component
    /\ NewDomains \subseteq Domain
    /\ NewEdges \subseteq Edge

VARIABLES plan, fabric, doc, back,
          stage,            \* where the program is
          edits,            \* how often the document was edited
          ok                \* main's verdict

vars == <<plan, fabric, doc, back, stage, edits, ok>>

NoDocument == [fields |-> FALSE, components |-> <<>>, domains |-> <<>>, edges |-> <<>>]

Init ==
    /\ plan \in Plans
    /\ fabric = NoFabric /\ doc = NoDocument /\ back = NoFabric
    /\ stage = "start" /\ edits = 0 /\ ok = FALSE

Build ==
    /\ stage = "start"
    /\ IF BuildRaises(plan) THEN stage' = "raised" /\ UNCHANGED fabric
       ELSE stage' = "built" /\ fabric' = FabricOf(plan)
    /\ UNCHANGED <<plan, doc, back, edits, ok>>

(***************************************************************************)
(* write_infragraph: no document is written where the emitter raises.      *)
(***************************************************************************)
Write ==
    /\ stage \in {"built", "adopted"}
    /\ IF Unwritable(fabric) THEN stage' = "unwritten" /\ UNCHANGED doc
       ELSE /\ stage' = IF stage = "built" THEN "written" ELSE "rewritten"
            /\ doc' = Emitted(fabric)
    /\ UNCHANGED <<plan, fabric, back, edits, ok>>

(***************************************************************************)
(* One edit: a field is lost, a component, domain or edge is removed,      *)
(* added or replaced.                                                      *)
(***************************************************************************)
EditsOf(seq, new) ==
    {RemoveAt(seq, i) : i \in DOMAIN seq}
    \cup {InsertAt(seq, i, x) : i \in {1, Len(seq) + 1}, x \in new}
    \cup {ReplaceAt(seq, i, x) : i \in DOMAIN seq, x \in new}

Edit ==
    /\ stage = "written" /\ plan.edited
    /\ edits < MaxEdits
    /\ edits' = edits + 1
    /\ \/ doc' = [doc EXCEPT !.fields = FALSE]
       \/ \E c \in EditsOf(doc.components, NewComponents) : doc' = [doc EXCEPT !.components = c]
       \/ \E d \in EditsOf(doc.domains, NewDomains) : doc' = [doc EXCEPT !.domains = d]
       \/ \E e \in EditsOf(doc.edges, NewEdges) : doc' = [doc EXCEPT !.edges = e]
    /\ UNCHANGED <<plan, fabric, back, stage, ok>>

(***************************************************************************)
(* read_infragraph: InfraGraphError for a document that is refused; any    *)
(* other exception comes from the reconstruction.                          *)
(***************************************************************************)
Read ==
    /\ stage \in {"written", "rewritten"}
    /\ IF ~Accepted(doc) THEN stage' = "refused" /\ UNCHANGED back
       ELSE IF ParseRaises(doc) THEN stage' = "crashed" /\ UNCHANGED back
       ELSE /\ stage' = IF stage = "written" /\ edits > 0 THEN "read" ELSE "reread"
            /\ back' = Parsed(doc)
    /\ UNCHANGED <<plan, fabric, doc, edits, ok>>

(* What was read from a document of others is the fabric from now on. *)
Adopt ==
    /\ stage = "read"
    /\ fabric' = back
    /\ stage' = "adopted"
    /\ UNCHANGED <<plan, doc, back, edits, ok>>

(***************************************************************************)
(* main: the numbers of GPUs and of links, by class, are the same.         *)
(***************************************************************************)
ClassCounts(fab) ==
    [c \in Classes |-> Cardinality({l \in DOMAIN fab.links : fab.links[l].class = c})]

Compare ==
    /\ stage = "reread"
    /\ ok' = (/\ Cardinality(Gpus(fabric)) = Cardinality(Gpus(back))
              /\ ClassCounts(fabric) = ClassCounts(back))
    /\ stage' = "compared"
    /\ UNCHANGED <<plan, fabric, doc, back, edits>>

Ended ==
    /\ stage \in {"raised", "unwritten", "refused", "crashed", "compared"}
    /\ UNCHANGED vars

Next == Build \/ Write \/ Edit \/ Read \/ Adopt \/ Compare \/ Ended

Spec == Init /\ [][Next]_vars

-----------------------------------------------------------------------------
(***************************************************************************)
(* "Round-trip must be lossless for everything the fabric model            *)
(* represents": a built fabric is read back as it was, and main says so,   *)
(* unless it has a GPU or NIC without any link, which is refused.          *)
(***************************************************************************)
HasIsolated(fab) ==
    ~(UNION {fab.machines[m].gpus \cup fab.machines[m].nics : m \in DOMAIN fab.machines}
        \subseteq Endpoints(fab))

BuiltFabricsRoundTrip ==
    /\ stage = "compared" /\ edits = 0 => ok /\ back = fabric
    /\ stage \in {"refused", "crashed", "unwritten"} /\ edits = 0 => HasIsolated(fabric)

(***************************************************************************)
(* The validator promises "never both accepted and then failed mid-parse". *)
(* The parser breaks that where the indices it sorts together, those of    *)
(* the machines or those of a machine's GPUs or NICs, are numbers and      *)
(* strings, and in no other case.                                          *)
(***************************************************************************)
AcceptedDocumentsParse == stage = "crashed" => MixedIndices(doc)

(***************************************************************************)
(* Nothing in an accepted document is dropped or overwritten in silence,   *)
(* except by a second asic of a switch or a second entry of a domain.      *)
(***************************************************************************)
NothingVanishes ==
    stage = "read" =>
        /\ ComponentsKept(doc, back)
        /\ OneAsicPerSwitch(doc) => EdgesKept(doc, back)
        /\ EachDomainOnce(doc) => DomainsKept(doc, back)

(***************************************************************************)
(* What was read from elsewhere survives a round trip of its own: it is    *)
(* written, accepted and read as the same fabric, except for the NIC of a  *)
(* GPU that has two, unless the switches of a tier or the domains mix      *)
(* numbers and strings, on which the emitter raises, and unless a domain   *)
(* that came twice left its two records of membership in disagreement.     *)
(***************************************************************************)
Unbound(fab) == [fab EXCEPT !.gpuNic = <<>>]

SecondReadAgrees ==
    /\ stage = "compared" =>
        /\ ok
        /\ MembershipAgrees(fabric) => Unbound(back) = Unbound(fabric)
        /\ MembershipAgrees(fabric) /\ OneNicPerGpu(doc) => back = fabric
    /\ stage \in {"refused", "crashed"} /\ back # NoFabric => ~MembershipAgrees(fabric)
    /\ stage = "unwritten" => MixedInTiers(doc)

(***************************************************************************)
(* The built fabrics are what the other components take them for: routes   *)
(* follow the domains, group shapes tell which links a group uses, and a   *)
(* leaf-spine fabric has its paths and capacities (see Builders).          *)
(***************************************************************************)
FabricIsBuilt == stage = "built"

RoutesFollowDomains == FabricIsBuilt => RoutesThroughOwnNics(fabric)

ShapeTellsTheLinks ==
    FabricIsBuilt /\ DOMAIN fabric.gpuNic # {} =>
        \A group \in UNION {[1..k -> Gpus(fabric)] : k \in {2, 3}} :
            IsInjective(group) => ShapeIsWhatLinksShow(fabric, group)

LeafSpineFabric ==
    FabricIsBuilt /\ plan.platform = "clos" /\ plan.depth # 1 =>
        /\ OverLeafAndSpines(fabric, plan)
        /\ Subscribed(fabric, plan)
        /\ WithinRadix(fabric, plan)

(***************************************************************************)
(* single_tier_fabric has "the same shape as build_node_scale()".          *)
(***************************************************************************)
SingleTierIsNodeScale ==
    FabricIsBuilt /\ plan.platform = "node" => fabric = SingleTier(plan)

(***************************************************************************)
(* "A duplicate would silently overwrite the first edge's capacity rather  *)
(* than erroring": every edge of an accepted document is a link.           *)
(***************************************************************************)
EveryEdgeIsALink == stage = "read" => EdgesKept(doc, back)

(***************************************************************************)
(* "The redundancy is what lets us catch a malformed document instead of   *)
(* silently trusting one side of it": the two records of membership agree  *)
(* in whatever is read.                                                    *)
(***************************************************************************)
OneMembership == stage = "read" => MembershipAgrees(back)
=============================================================================
