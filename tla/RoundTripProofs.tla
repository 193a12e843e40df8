-------------------------- MODULE RoundTripProofs --------------------------
(***************************************************************************)
(* Proofs about the round trip of a fabric through a document.             *)
(***************************************************************************)
EXTENDS RoundTrip, DataLemmas

-----------------------------------------------------------------------------
(***************************************************************************)
(* Nodes, labels and names: a node has one label, which says all of it; a  *)
(* label has one name, which says all but what is a number and what is a   *)
(* string.                                                                 *)
(***************************************************************************)
Node == ({"gpu", "nic"} \X Int \X Int) \cup ({"leaf", "spine"} \X Int \X {0})

LEMMA Nodes ==
  ASSUME NEW n \in Node
  PROVE  /\ n = <<n[1], n[2], n[3]>> /\ n[2] \in Int /\ n[3] \in Int
         /\ ~IsSwitch(n) => n[1] \in {"gpu", "nic"}
         /\ IsSwitch(n) => n[1] \in {"leaf", "spine"} /\ n[3] = 0
BY DEF Node, IsSwitch, IsGpu, IsNic

LEMMA DigitsAre ==
  /\ \A i \in Int : Digits(i) \in Nat
  /\ \A i, j \in Int : Digits(i) = Digits(j) /\ (IsText(i) <=> IsText(j)) => i = j
BY DEF Digits, IsText

(* What can be sorted is told apart by its digits. *)
LEMMA UnmixedDigits ==
  ASSUME NEW S, S \subseteq Int, ~Mixed(S)
  PROVE  \A i, j \in S : Digits(i) = Digits(j) => i = j
<1>1. \A i, j \in S : IsText(i) <=> IsText(j)
  BY DEF Mixed
<1> QED
  BY <1>1, DigitsAre

LEMMA UnmixedPart ==
  ASSUME NEW S, NEW T, S \subseteq T, ~Mixed(T)
  PROVE  ~Mixed(S)
BY DEF Mixed

LEMMA NumbersUnmixed ==
  ASSUME NEW S, S \subseteq Nat
  PROVE  ~Mixed(S)
BY DEF Mixed, IsText

LEMMA PrintedLabels ==
  ASSUME NEW l \in Label
  PROVE  /\ Printed(l) \in Name /\ Printed(l)[1] = l[1] /\ Printed(l)[3] = l[3]
         /\ KnownKind(Printed(l)) <=> KnownKind(l)
<1>1. /\ l[1] \in {"leaf", "machine", "spine"} /\ l[3] \in {"gpu", "nic", "asic"}
      /\ Digits(l[2]) \in Nat /\ Digits(l[4]) \in Nat
  BY DigitsAre DEF Label
<1> QED
  BY <1>1 DEF Printed, Name, KnownKind

LEMMA LabelsOfNodes ==
  ASSUME NEW n \in Node
  PROVE  /\ LabelOf(n) \in Label /\ KnownKind(LabelOf(n)) /\ NodeOf(LabelOf(n)) = n
         /\ LabelOf(n)[3] = "gpu" <=> IsGpu(n)
         /\ LabelOf(n)[3] = "nic" <=> IsNic(n)
<1>1. CASE IsSwitch(n)
  BY <1>1, Nodes DEF LabelOf, NodeOf, Label, KnownKind, Switch, IsSwitch, IsGpu, IsNic
<1>2. CASE ~IsSwitch(n)
  BY <1>2, Nodes DEF LabelOf, NodeOf, Label, KnownKind, Switch, IsSwitch, IsGpu, IsNic
<1> QED
  BY <1>1, <1>2

LEMMA NamesOfNodes ==
  ASSUME NEW n \in Node
  PROVE  /\ NameOf(n) \in Name /\ KnownKind(NameOf(n))
         /\ NameOf(n)[3] = "gpu" <=> IsGpu(n)
         /\ NameOf(n)[3] = "nic" <=> IsNic(n)
BY LabelsOfNodes, PrintedLabels DEF NameOf

LEMMA NodesOfLabels ==
  ASSUME NEW l \in Label, KnownKind(l)
  PROVE  /\ NodeOf(l) \in Node
         /\ l[3] = "gpu" <=> IsGpu(NodeOf(l))
         /\ l[3] = "nic" <=> IsNic(NodeOf(l))
         /\ l[3] # "asic" => LabelOf(NodeOf(l)) = l
<1>1. /\ l = <<l[1], l[2], l[3], l[4]>> /\ l[2] \in Int /\ l[4] \in Int
      /\ l[1] \in {"leaf", "machine", "spine"} /\ l[3] \in {"gpu", "nic", "asic"}
  BY DEF Label
<1>2. CASE l[3] = "asic"
  BY <1>1, <1>2 DEF NodeOf, Node, KnownKind, Switch, IsSwitch, IsGpu, IsNic
<1>3. CASE l[3] # "asic"
  BY <1>1, <1>3 DEF LabelOf, NodeOf, Node, KnownKind, Switch, IsSwitch, IsGpu, IsNic
<1> QED
  BY <1>1, <1>2, <1>3

-----------------------------------------------------------------------------
(***************************************************************************)
(* A dict of distinct keys has each key with the value it came with; where *)
(* keys come again, each still has one of the values it came with.         *)
(***************************************************************************)
PlacesOf(entries, k) == {i \in DOMAIN entries : entries[i][1] = k}

LEMMA DictEntries ==
  ASSUME NEW entries
  PROVE  Dict(entries) = [k \in {entries[i][1] : i \in DOMAIN entries} |->
                            entries[Max(PlacesOf(entries, k))][2]]
BY DEF Dict, PlacesOf

LEMMA DictOfDistinct ==
  ASSUME NEW entries, DOMAIN entries \subseteq Int,
         \A i, j \in DOMAIN entries : entries[i][1] = entries[j][1] => i = j
  PROVE  \A i \in DOMAIN entries : Dict(entries)[entries[i][1]] = entries[i][2]
<1> TAKE i \in DOMAIN entries
<1>1. PlacesOf(entries, entries[i][1]) = {i}
  BY DEF PlacesOf
<1>2. Max(PlacesOf(entries, entries[i][1])) = i
  BY <1>1, OnlyOne
<1> QED
  BY <1>2, DictEntries

LEMMA DictHasEntries ==
  ASSUME NEW n \in Nat, NEW entries, DOMAIN entries \subseteq 1..n
  PROVE  \A k \in DOMAIN Dict(entries) :
            \E i \in DOMAIN entries : entries[i][1] = k /\ Dict(entries)[k] = entries[i][2]
<1> SUFFICES ASSUME NEW k \in DOMAIN Dict(entries)
             PROVE  \E i \in DOMAIN entries : entries[i][1] = k /\ Dict(entries)[k] = entries[i][2]
  OBVIOUS
<1>1. k \in {entries[i][1] : i \in DOMAIN entries}
  BY DictEntries
<1>2. PlacesOf(entries, k) \in SUBSET (1..n) /\ PlacesOf(entries, k) # {}
  BY <1>1 DEF PlacesOf
<1>3. Max(PlacesOf(entries, k)) \in PlacesOf(entries, k)
  BY <1>2, LargestNatural
<1>4. Dict(entries)[k] = entries[Max(PlacesOf(entries, k))][2]
  BY <1>1, DictEntries
<1> QED
  BY <1>3, <1>4 DEF PlacesOf

LEMMA DictKeys ==
  ASSUME NEW entries
  PROVE  DOMAIN Dict(entries) = {entries[i][1] : i \in DOMAIN entries}
BY DictEntries

-----------------------------------------------------------------------------
(***************************************************************************)
(* What the fabrics have in common that are built or read: every node of a *)
(* machine carries its number, links are between nodes of machines and     *)
(* switches, and a GPU is bound to a NIC it has a link to.                 *)
(***************************************************************************)
MachineNodes(fab) ==
    UNION {fab.machines[m].gpus \cup fab.machines[m].nics : m \in DOMAIN fab.machines}

Switches(fab) == {n \in Endpoints(fab) : IsSwitch(n)}

Uplinks(fab) ==
    {l \in DOMAIN fab.links : fab.links[l].class = "egress" /\ IsGpu(l[1]) /\ IsNic(l[2])}

FiveDicts(fab) ==
    fab = [machines |-> fab.machines, domains |-> fab.domains, gpuDomain |-> fab.gpuDomain,
           gpuNic |-> fab.gpuNic, links |-> fab.links]

MachinesSound(fab) ==
    /\ DOMAIN fab.machines \subseteq Int /\ IsFiniteSet(DOMAIN fab.machines)
    /\ fab.machines = [m \in DOMAIN fab.machines |->
                         [gpus |-> fab.machines[m].gpus, nics |-> fab.machines[m].nics]]
    /\ \A m \in DOMAIN fab.machines :
        /\ IsFiniteSet(fab.machines[m].gpus) /\ IsFiniteSet(fab.machines[m].nics)
        /\ fab.machines[m].gpus \cup fab.machines[m].nics # {}
        /\ \A n \in fab.machines[m].gpus : n \in Node /\ IsGpu(n) /\ n[2] = m
        /\ \A n \in fab.machines[m].nics : n \in Node /\ IsNic(n) /\ n[2] = m

LinksSound(fab) ==
    /\ IsFiniteSet(DOMAIN fab.links)
    /\ DOMAIN fab.links \subseteq Node \X Node
    /\ fab.links \in [DOMAIN fab.links -> [class : Classes, bw : Nat \ {0}, lat : Nat]]
    /\ \A n \in Endpoints(fab) : ~IsSwitch(n) => n \in MachineNodes(fab)

DomainsSound(fab) ==
    /\ DOMAIN fab.domains \subseteq Int /\ IsFiniteSet(DOMAIN fab.domains)
    /\ fab.domains \in [DOMAIN fab.domains -> SUBSET Gpus(fab)]

NicsSound(fab) ==
    /\ fab.gpuNic = [g \in {l[1] : l \in Uplinks(fab)} |-> fab.gpuNic[g]]
    /\ \A g \in DOMAIN fab.gpuNic : <<g, fab.gpuNic[g]>> \in Uplinks(fab)

Structured(fab) ==
    FiveDicts(fab) /\ MachinesSound(fab) /\ LinksSound(fab) /\ DomainsSound(fab) /\ NicsSound(fab)

(* The GPUs of the domains have that domain, and no others have one. *)
Membered(fab) ==
    /\ fab.gpuDomain \in [UNION Range(fab.domains) -> DOMAIN fab.domains]
    /\ \A d \in DOMAIN fab.domains : \A g \in fab.domains[d] : fab.gpuDomain[g] = d

NodesIn(fab) == MachineNodes(fab) \cup Switches(fab)

LEMMA NodesInFabric ==
  ASSUME NEW fab, Structured(fab)
  PROVE  /\ IsFiniteSet(MachineNodes(fab)) /\ IsFiniteSet(Switches(fab))
         /\ NodesIn(fab) \subseteq Node
         /\ \A n \in MachineNodes(fab) : ~IsSwitch(n)
         /\ \A n \in Switches(fab) : IsSwitch(n)
         /\ Endpoints(fab) \subseteq NodesIn(fab)
<1>1. IsFiniteSet(MachineNodes(fab))
  <2> DEFINE nodes == [m \in DOMAIN fab.machines |-> fab.machines[m].gpus \cup fab.machines[m].nics]
  <2>1. \A m \in DOMAIN fab.machines : IsFiniteSet(nodes[m])
    BY FS_Union DEF Structured, MachinesSound
  <2>2. nodes \in Surjection(DOMAIN fab.machines, Range(nodes)) /\ IsFiniteSet(DOMAIN fab.machines)
    BY DEF Surjection, Range, Structured, MachinesSound
  <2>3. IsFiniteSet(Range(nodes))
    BY <2>2, FS_Surjection
  <2>4. \A T \in Range(nodes) : IsFiniteSet(T)
    BY <2>1 DEF Range
  <2>5. IsFiniteSet(UNION Range(nodes))
    BY <2>3, <2>4, FS_UNION
  <2>6. MachineNodes(fab) = UNION Range(nodes)
    BY DEF MachineNodes, Range
  <2> QED
    BY <2>5, <2>6
<1>2. IsFiniteSet(Endpoints(fab))
  <2> DEFINE first == [l \in DOMAIN fab.links |-> l[1]]
             second == [l \in DOMAIN fab.links |-> l[2]]
  <2>1. first \in Surjection(DOMAIN fab.links, Range(first)) /\ IsFiniteSet(DOMAIN fab.links)
    BY DEF Surjection, Range, Structured, LinksSound
  <2>2. second \in Surjection(DOMAIN fab.links, Range(second))
    BY DEF Surjection, Range
  <2>3. IsFiniteSet(Range(first)) /\ IsFiniteSet(Range(second))
    BY <2>1, <2>2, FS_Surjection
  <2>4. Endpoints(fab) = Range(first) \cup Range(second)
    BY DEF Endpoints, Range
  <2> QED
    BY <2>3, <2>4, FS_Union
<1>3. IsFiniteSet(Switches(fab))
  <2>1. Switches(fab) \in SUBSET Endpoints(fab)
    BY DEF Switches
  <2> QED
    BY <1>2, <2>1, FS_Subset
<1>4. \A n \in MachineNodes(fab) : n \in Node /\ ~IsSwitch(n)
  BY DEF MachineNodes, Structured, MachinesSound, IsSwitch
<1>5. Endpoints(fab) \subseteq Node
  BY DEF Endpoints, Structured, LinksSound
<1>6. Endpoints(fab) \subseteq NodesIn(fab)
  BY DEF Structured, LinksSound, NodesIn, Switches
<1> QED
  BY <1>1, <1>3, <1>4, <1>5, <1>6 DEF NodesIn, Switches

-----------------------------------------------------------------------------
(***************************************************************************)
(* What is emitted: every node once, every domain once, every link once.   *)
(***************************************************************************)
PlaceOfNode(n) == PlaceOf(NameOf(n))

NodeList(fab) ==
    ListedBy([n \in MachineNodes(fab) |-> PlaceOfNode(n)])
    \o ListedBy([n \in Switches(fab) |-> PlaceOfNode(n)])

IdList(fab) == ListedBy([d \in DOMAIN fab.domains |-> <<Digits(d)>>])

LinkList(fab) == ListedBy([l \in DOMAIN fab.links |-> PlaceOfNode(l[1]) \o PlaceOfNode(l[2])])

ComponentOf(fab, n) == [label |-> LabelOf(n), domain |-> AttrOf(fab, n)]

MembersOf(fab, d) == {NameOf(g) : g \in fab.domains[d]}

DomainIn(fab, d) == [id |-> d, members |-> MembersOf(fab, d)]

EdgeOf(fab, l) ==
    [src |-> NameOf(l[1]), dst |-> NameOf(l[2]),
     type |-> fab.links[l].class, bw |-> fab.links[l].bw, lat |-> fab.links[l].lat]

LEMMA EmittedIs ==
  ASSUME NEW fab
  PROVE  Emitted(fab) =
            [fields |-> TRUE,
             components |-> [i \in DOMAIN NodeList(fab) |-> ComponentOf(fab, NodeList(fab)[i])],
             domains |-> [i \in DOMAIN IdList(fab) |-> DomainIn(fab, IdList(fab)[i])],
             edges |-> [i \in DOMAIN LinkList(fab) |-> EdgeOf(fab, LinkList(fab)[i])]]
BY DEF Emitted, NodeList, IdList, LinkList, ComponentOf, MembersOf, DomainIn, EdgeOf,
       MachineNodes, Switches, PlaceOfNode

LEMMA PlacesOfNodes ==
  /\ \A n \in Node : PlaceOfNode(n) \in [1..4 -> Nat]
  /\ \A m, n \in Node : PlaceOfNode(m) = PlaceOfNode(n) => NameOf(m) = NameOf(n)
<1> DEFINE rank == [leaf |-> 0, machine |-> 1, spine |-> 2, asic |-> 0, gpu |-> 1, nic |-> 2]
<1>1. \A n \in Node : NameOf(n) = IF IsSwitch(n) THEN <<n[1], Digits(n[2]), "asic", 0>>
                                   ELSE <<"machine", Digits(n[2]), n[1], Digits(n[3])>>
  <2>1. Digits(0) = 0
    BY DEF Digits, IsText
  <2> QED
    BY <2>1 DEF NameOf, LabelOf, Printed
<1>2. \A n \in Node : PlaceOfNode(n) = IF IsSwitch(n) THEN <<rank[n[1]], Digits(n[2]), 0, 0>>
                                        ELSE <<1, Digits(n[2]), rank[n[1]], Digits(n[3])>>
  BY <1>1, Nodes DEF PlaceOfNode, PlaceOf
<1>3. \A n \in Node : Digits(n[2]) \in Nat /\ Digits(n[3]) \in Nat
  BY Nodes, DigitsAre
<1>4. ASSUME NEW n \in Node PROVE PlaceOfNode(n) \in [1..4 -> Nat]
  <2>1. CASE IsSwitch(n)
    BY <1>2, <1>3, <2>1, Nodes
  <2>2. CASE ~IsSwitch(n)
    BY <1>2, <1>3, <2>2, Nodes
  <2> QED
    BY <2>1, <2>2
<1>5. ASSUME NEW m \in Node, NEW n \in Node, PlaceOfNode(m) = PlaceOfNode(n)
      PROVE  NameOf(m) = NameOf(n)
  BY <1>1, <1>2, <1>5, Nodes
<1> QED
  BY <1>4, <1>5

(***************************************************************************)
(* In a fabric that can be written, no two nodes have one name.            *)
(***************************************************************************)
LEMMA NamesDiffer ==
  ASSUME NEW fab, Structured(fab), ~Unwritable(fab),
         NEW m \in NodesIn(fab), NEW n \in NodesIn(fab), NameOf(m) = NameOf(n)
  PROVE  m = n
<1>1. m \in Node /\ n \in Node
  BY NodesInFabric
<1>2. /\ IsSwitch(m) <=> IsSwitch(n)
      /\ m[1] = n[1] /\ Digits(m[2]) = Digits(n[2]) /\ Digits(m[3]) = Digits(n[3])
  BY <1>1, Nodes DEF NameOf, LabelOf, Printed
<1>3. CASE IsSwitch(m)
  <2>1. m[1] \in {"leaf", "spine"} /\ m \in Endpoints(fab) /\ n \in Endpoints(fab)
    BY <1>1, <1>2, <1>3, Nodes, NodesInFabric DEF NodesIn, Switches
  <2>2. m[2] \in SwitchIndices(fab, m[1]) /\ n[2] \in SwitchIndices(fab, m[1])
    BY <1>2, <2>1 DEF SwitchIndices
  <2>3. SwitchIndices(fab, m[1]) \subseteq Int /\ ~Mixed(SwitchIndices(fab, m[1]))
    BY <2>1, NodesInFabric, Nodes DEF SwitchIndices, Unwritable
  <2>4. m[2] = n[2]
    BY <1>2, <2>2, <2>3, UnmixedDigits
  <2> QED
    BY <1>1, <1>2, <1>3, <2>4, Nodes
<1>4. CASE ~IsSwitch(m)
  <2>1. \A x \in {m, n} : \E i \in DOMAIN fab.machines :
            /\ i = x[2]
            /\ IsGpu(x) => x \in fab.machines[i].gpus
            /\ IsNic(x) => x \in fab.machines[i].nics
    BY <1>2, <1>4 DEF NodesIn, Switches, MachineNodes, Structured, MachinesSound, IsGpu, IsNic
  <2>2. m[2] = n[2] /\ m[2] \in DOMAIN fab.machines
    <3>1. m[2] \in DOMAIN fab.machines /\ n[2] \in DOMAIN fab.machines
      BY <2>1
    <3>2. DOMAIN fab.machines \subseteq Int /\ ~Mixed(DOMAIN fab.machines)
      BY DEF Structured, MachinesSound, Unwritable
    <3> QED
      BY <1>2, <3>1, <3>2, UnmixedDigits
  <2>3. PICK nodes \in {fab.machines[m[2]].gpus, fab.machines[m[2]].nics} : m \in nodes /\ n \in nodes
    BY <1>1, <1>2, <1>4, <2>1, <2>2 DEF IsSwitch, IsGpu, IsNic
  <2>4. nodes \subseteq Node
    BY <2>2, <2>3 DEF Structured, MachinesSound
  <2>5. {x[3] : x \in nodes} \subseteq Int /\ ~Mixed({x[3] : x \in nodes})
    BY <2>2, <2>3, <2>4, Nodes DEF Unwritable
  <2>6. m[3] = n[3]
    BY <1>2, <2>3, <2>5, UnmixedDigits
  <2> QED
    BY <1>1, <1>2, <2>2, <2>6, Nodes
<1> QED
  BY <1>3, <1>4

LEMMA JoinedLists ==
  ASSUME NEW S, NEW T, S \cap T = {}, NEW s, NEW t, Lists(s, S), Lists(t, T)
  PROVE  Lists(s \o t, S \cup T)
<1> DEFINE m == Len(s)
           n == Len(t)
           list == s \o t
<1>1. s \in Seq(S) /\ t \in Seq(T) /\ m \in Nat /\ n \in Nat
  BY DEF Lists
<1>2. Len(list) = m + n /\ list \in Seq(S \cup T)
  BY <1>1
<1>3. \A i \in 1..(m + n) : list[i] = IF i <= m THEN s[i] ELSE t[i - m]
  BY <1>1
<1> HIDE DEF list
<1>4. \A x \in S \cup T : \E i \in 1..(m + n) : list[i] = x
  <2> TAKE x \in S \cup T
  <2>1. CASE x \in S
    <3>1. PICK i \in 1..m : s[i] = x
      BY <2>1 DEF Lists
    <3> QED
      BY <1>1, <1>3, <3>1
  <2>2. CASE x \in T
    <3>1. PICK i \in 1..n : t[i] = x
      BY <2>2 DEF Lists
    <3>2. m + i \in 1..(m + n) /\ ~(m + i <= m) /\ (m + i) - m = i
      BY <1>1, <3>1
    <3> QED
      BY <1>3, <3>1, <3>2
  <2> QED
    BY <2>1, <2>2
<1>5. ASSUME NEW i \in 1..(m + n), NEW j \in 1..(m + n), list[i] = list[j]
      PROVE  i = j
  <2>1. \A k \in 1..(m + n) : IF k <= m THEN k \in 1..m /\ list[k] = s[k] /\ s[k] \in S
                              ELSE k - m \in 1..n /\ list[k] = t[k - m] /\ t[k - m] \in T
    BY <1>1, <1>3 DEF Lists
  <2>2. (i <= m) <=> (j <= m)
    BY <1>5, <2>1
  <2>3. CASE i <= m
    BY <1>5, <2>1, <2>2, <2>3 DEF Lists
  <2>4. CASE ~(i <= m)
    <3>1. i - m = j - m
      BY <1>5, <2>1, <2>2, <2>4 DEF Lists
    <3> QED
      BY <1>1, <3>1
  <2> QED
    BY <2>3, <2>4
<1>6. Len(list) \in Nat /\ list \in [1..Len(list) -> S \cup T]
  BY <1>1, <1>2
<1>7. Lists(list, S \cup T)
  <2> HIDE DEF m, n
  <2> QED
    BY <1>2, <1>4, <1>5, <1>6 DEF Lists
<1> QED
  BY <1>7 DEF list

LEMMA NodeListLists ==
  ASSUME NEW fab, Structured(fab), ~Unwritable(fab)
  PROVE  Lists(NodeList(fab), NodesIn(fab))
<1> DEFINE key(S) == [n \in S |-> PlaceOfNode(n)]
<1>1. \A S \in SUBSET NodesIn(fab) : /\ key(S) \in [S -> [1..4 -> Nat]]
                                    /\ \A x, y \in S : key(S)[x] = key(S)[y] => x = y
  BY PlacesOfNodes, NodesInFabric, NamesDiffer
<1>2. ASSUME NEW S \in SUBSET NodesIn(fab), IsFiniteSet(S) PROVE Lists(ListedBy(key(S)), S)
  <2>1. /\ key(S) \in [S -> [1..4 -> Nat]]
        /\ \A x, y \in S : key(S)[x] = key(S)[y] => x = y
    BY <1>1
  <2> HIDE DEF key
  <2> QED
    BY <1>2, <2>1, KeysList
<1>3. MachineNodes(fab) \cap Switches(fab) = {}
  BY NodesInFabric
<1>4. MachineNodes(fab) \subseteq NodesIn(fab) /\ Switches(fab) \subseteq NodesIn(fab)
  BY DEF NodesIn
<1>5. Lists(ListedBy(key(MachineNodes(fab))), MachineNodes(fab))
  <2> HIDE DEF key
  <2> QED
    BY <1>2, <1>4, NodesInFabric
<1>6. Lists(ListedBy(key(Switches(fab))), Switches(fab))
  <2> HIDE DEF key
  <2> QED
    BY <1>2, <1>4, NodesInFabric
<1>7. NodeList(fab) = ListedBy(key(MachineNodes(fab))) \o ListedBy(key(Switches(fab)))
  BY DEF NodeList
<1> HIDE DEF key
<1> QED
  BY <1>3, <1>5, <1>6, <1>7, JoinedLists DEF NodesIn

LEMMA IdListLists ==
  ASSUME NEW fab, Structured(fab), ~Unwritable(fab)
  PROVE  Lists(IdList(fab), DOMAIN fab.domains)
<1> DEFINE S == DOMAIN fab.domains
           key == [d \in S |-> <<Digits(d)>>]
<1>1. S \subseteq Int /\ IsFiniteSet(S) /\ ~Mixed(S)
  BY DEF Structured, DomainsSound, Unwritable
<1>2. key \in [S -> [1..1 -> Nat]]
  <2>1. \A d \in S : Digits(d) \in Nat
    BY <1>1, DigitsAre
  <2>2. \A d \in S : <<Digits(d)>> \in [1..1 -> Nat]
    BY <2>1
  <2> QED
    BY <2>2
<1>3. \A x, y \in S : key[x] = key[y] => x = y
  <2>1. \A x, y \in S : key[x] = key[y] => Digits(x) = Digits(y)
    OBVIOUS
  <2> QED
    BY <1>1, <2>1, UnmixedDigits
<1> HIDE DEF key, S
<1>4. Lists(ListedBy(key), S)
  BY <1>1, <1>2, <1>3, KeysList
<1> QED
  BY <1>4 DEF IdList, key, S

LEMMA Concatenation ==
  ASSUME NEW m \in Nat, NEW x \in Seq(Nat), NEW y \in Seq(Nat), Len(x) = m, Len(y) = m
  PROVE  /\ x \o y \in [1..(m + m) -> Nat]
         /\ \A i \in 1..m : (x \o y)[i] = x[i] /\ (x \o y)[i + m] = y[i]
<1>1. x \o y \in Seq(Nat) /\ Len(x \o y) = m + m
  OBVIOUS
<1>2. \A i \in 1..(m + m) : (x \o y)[i] = IF i <= m THEN x[i] ELSE y[i - m]
  OBVIOUS
<1>3. \A i \in 1..m : i \in 1..(m + m) /\ i + m \in 1..(m + m) /\ i <= m /\ ~(i + m <= m) /\ (i + m) - m = i
  OBVIOUS
<1>4. x \o y \in [1..(m + m) -> Nat]
  <2> DEFINE z == x \o y
  <2>1. z \in Seq(Nat) /\ Len(z) = m + m
    BY <1>1
  <2> HIDE DEF z
  <2>2. z \in [1..Len(z) -> Nat]
    BY <2>1
  <2>3. z \in [1..(m + m) -> Nat]
    BY <2>1, <2>2
  <2> QED
    BY <2>3 DEF z
<1> QED
  BY <1>2, <1>3, <1>4

Both(x, y) == x \o y

Tuples(m) == [1..m -> Nat]

LEMMA JoinedTuples ==
  ASSUME NEW m \in Nat, NEW a \in Tuples(m), NEW b \in Tuples(m),
         NEW c \in Tuples(m), NEW d \in Tuples(m)
  PROVE  /\ Both(a, b) \in Tuples(m + m)
         /\ Both(a, b) = Both(c, d) => a = c /\ b = d
<1>1. \A x \in Tuples(m) : x \in Seq(Nat) /\ Len(x) = m
  BY DEF Tuples
<1>2. \A x, y \in Tuples(m) :
        /\ Both(x, y) \in [1..(m + m) -> Nat]
        /\ \A i \in 1..m : Both(x, y)[i] = x[i] /\ Both(x, y)[i + m] = y[i]
  BY <1>1, Concatenation DEF Both
<1>3. ASSUME Both(a, b) = Both(c, d) PROVE a = c /\ b = d
  <2>1. \A i \in 1..m : Both(a, b)[i] = a[i] /\ Both(a, b)[i + m] = b[i]
    BY <1>2
  <2>2. \A i \in 1..m : Both(c, d)[i] = c[i] /\ Both(c, d)[i + m] = d[i]
    BY <1>2
  <2>3. \A i \in 1..m : a[i] = c[i] /\ b[i] = d[i]
    BY <1>3, <2>1, <2>2
  <2> QED
    BY <2>3 DEF Tuples
<1> QED
  BY <1>2, <1>3 DEF Tuples

Place4 == Tuples(4)

Place8 == Tuples(8)

LEMMA PairsOfPlaces ==
  ASSUME NEW a \in Place4, NEW b \in Place4, NEW c \in Place4, NEW d \in Place4
  PROVE  /\ Both(a, b) \in Place8
         /\ Both(a, b) = Both(c, d) => a = c /\ b = d
<1>1. PICK m \in Nat, n \in Nat : m = 4 /\ n = 8
  OBVIOUS
<1>2. m \in Nat /\ n = m + m
  BY <1>1
<1>3. Place4 = Tuples(m) /\ Place8 = Tuples(n)
  BY <1>1 DEF Place4, Place8
<1>4. a \in Tuples(m) /\ b \in Tuples(m) /\ c \in Tuples(m) /\ d \in Tuples(m)
  BY <1>3
<1>5. /\ Both(a, b) \in Tuples(m + m)
      /\ Both(a, b) = Both(c, d) => a = c /\ b = d
  BY <1>2, <1>4, JoinedTuples
<1> QED
  BY <1>2, <1>3, <1>5

LEMMA LinkListLists ==
  ASSUME NEW fab, Structured(fab), ~Unwritable(fab)
  PROVE  Lists(LinkList(fab), DOMAIN fab.links)
<1> DEFINE S == DOMAIN fab.links
           key == [l \in S |-> Both(PlaceOfNode(l[1]), PlaceOfNode(l[2]))]
<1>1. S \subseteq Node \X Node /\ IsFiniteSet(S)
  BY DEF Structured, LinksSound
<1>2. \A l \in S : /\ l[1] \in Node /\ l[2] \in Node /\ l = <<l[1], l[2]>>
                  /\ l[1] \in NodesIn(fab) /\ l[2] \in NodesIn(fab)
  BY <1>1, NodesInFabric DEF Endpoints
<1>3. \A l \in S : PlaceOfNode(l[1]) \in Place4 /\ PlaceOfNode(l[2]) \in Place4
  BY <1>2, PlacesOfNodes DEF Place4, Tuples
<1>4. \A l \in S : Both(PlaceOfNode(l[1]), PlaceOfNode(l[2])) \in [1..8 -> Nat]
  BY <1>3, PairsOfPlaces DEF Place8, Tuples
<1>5. key \in [S -> [1..8 -> Nat]]
  BY <1>4
<1>6. ASSUME NEW x \in S, NEW y \in S, key[x] = key[y] PROVE x = y
  <2>1. Both(PlaceOfNode(x[1]), PlaceOfNode(x[2])) = Both(PlaceOfNode(y[1]), PlaceOfNode(y[2]))
    BY <1>6
  <2>2. PlaceOfNode(x[1]) = PlaceOfNode(y[1]) /\ PlaceOfNode(x[2]) = PlaceOfNode(y[2])
    <3>1. /\ PlaceOfNode(x[1]) \in Place4 /\ PlaceOfNode(x[2]) \in Place4
          /\ PlaceOfNode(y[1]) \in Place4 /\ PlaceOfNode(y[2]) \in Place4
      BY <1>3
    <3> QED
      BY ONLY <3>1, <2>1, PairsOfPlaces
  <2>3. x[1] = y[1] /\ x[2] = y[2]
    <3>1. NameOf(x[1]) = NameOf(y[1]) /\ NameOf(x[2]) = NameOf(y[2])
      BY <1>2, <2>2, PlacesOfNodes
    <3> QED
      BY <1>2, <3>1, NamesDiffer
  <2> QED
    BY <1>2, <2>3
<1> HIDE DEF key, S
<1>7. Lists(ListedBy(key), S)
  BY <1>1, <1>5, <1>6, KeysList
<1> QED
  BY <1>7 DEF LinkList, Both, key, S

-----------------------------------------------------------------------------
(***************************************************************************)
(* What is read, part by part.                                             *)
(***************************************************************************)
NodesOf(file) == {NodeOf(c.label) : c \in Seen(file.components)}

At(file, n) == NodeNamed(file)[n]

EndsOf(file, e) == <<At(file, e.src), At(file, e.dst)>>

DataOf(e) == [class |-> e.type, bw |-> e.bw, lat |-> e.lat]

NodeMembers(file, i) == {At(file, n) : n \in file.domains[i].members}

EntriesWith(file, g) == {i \in DOMAIN file.domains : g \in NodeMembers(file, i)}

LinkEntries(file) == [i \in DOMAIN file.edges |-> <<EndsOf(file, file.edges[i]), DataOf(file.edges[i])>>]

NicEntries(file) ==
    [i \in {i \in DOMAIN file.edges : Binds(file.edges[i])} |-> EndsOf(file, file.edges[i])]

DomainEntries(file) == [i \in DOMAIN file.domains |-> <<file.domains[i].id, NodeMembers(file, i)>>]

LEMMA LastEntry ==
  ASSUME NEW file, file.domains \in Seq(Domain), NEW g, EntriesWith(file, g) # {}
  PROVE  /\ Max(EntriesWith(file, g)) \in DOMAIN file.domains
         /\ g \in NodeMembers(file, Max(EntriesWith(file, g)))
<1>1. Len(file.domains) \in Nat /\ DOMAIN file.domains = 1..Len(file.domains)
  OBVIOUS
<1>2. EntriesWith(file, g) \in SUBSET (1..Len(file.domains))
  BY <1>1 DEF EntriesWith
<1>3. Max(EntriesWith(file, g)) \in EntriesWith(file, g)
  BY <1>1, <1>2, LargestNatural
<1> QED
  BY <1>3 DEF EntriesWith

LEMMA ParsedIs ==
  ASSUME NEW file, file.domains \in Seq(Domain)
  PROVE  Parsed(file) =
    [machines |-> [m \in {n[2] : n \in {n \in NodesOf(file) : ~IsSwitch(n)}} |->
                    [gpus |-> {n \in NodesOf(file) : IsGpu(n) /\ n[2] = m},
                     nics |-> {n \in NodesOf(file) : IsNic(n) /\ n[2] = m}]],
     domains |-> Dict(DomainEntries(file)),
     gpuDomain |-> [g \in UNION {NodeMembers(file, i) : i \in DOMAIN file.domains} |->
                        file.domains[Max(EntriesWith(file, g))].id],
     gpuNic |-> Dict(NicEntries(file)),
     links |-> Dict(LinkEntries(file))]
<1> DEFINE entries == [i \in DOMAIN file.domains |->
                        [id |-> file.domains[i].id,
                         members |-> {At(file, n) : n \in file.domains[i].members}]]
           nodes == {NodeOf(c.label) : c \in Seen(file.components)}
<1>1. Parsed(file) =
    [machines |-> [m \in {n[2] : n \in {n \in nodes : ~IsSwitch(n)}} |->
                    [gpus |-> {n \in nodes : IsGpu(n) /\ n[2] = m},
                     nics |-> {n \in nodes : IsNic(n) /\ n[2] = m}]],
     domains |-> Dict([i \in DOMAIN entries |-> <<entries[i].id, entries[i].members>>]),
     gpuDomain |-> [g \in UNION {d.members : d \in Seen(entries)} |->
                        entries[Max({i \in DOMAIN entries : g \in entries[i].members})].id],
     gpuNic |-> Dict([i \in {i \in DOMAIN file.edges : Binds(file.edges[i])} |->
                        <<At(file, file.edges[i].src), At(file, file.edges[i].dst)>>]),
     links |-> Dict([i \in DOMAIN file.edges |->
                        <<<<At(file, file.edges[i].src), At(file, file.edges[i].dst)>>,
                          [class |-> file.edges[i].type, bw |-> file.edges[i].bw,
                           lat |-> file.edges[i].lat]>>])]
  BY DEF Parsed, At
<1>2. /\ DOMAIN entries = DOMAIN file.domains
      /\ \A i \in DOMAIN entries : entries[i].id = file.domains[i].id
                                 /\ entries[i].members = NodeMembers(file, i)
  BY DEF NodeMembers
<1> HIDE DEF entries
<1>3. [i \in DOMAIN entries |-> <<entries[i].id, entries[i].members>>] = DomainEntries(file)
  BY <1>2 DEF DomainEntries
<1>4. UNION {d.members : d \in Seen(entries)} = UNION {NodeMembers(file, i) : i \in DOMAIN file.domains}
  BY <1>2 DEF Seen
<1>5. \A g \in UNION {NodeMembers(file, i) : i \in DOMAIN file.domains} :
        entries[Max({i \in DOMAIN entries : g \in entries[i].members})].id
            = file.domains[Max(EntriesWith(file, g))].id
  <2> TAKE g \in UNION {NodeMembers(file, i) : i \in DOMAIN file.domains}
  <2>1. {i \in DOMAIN entries : g \in entries[i].members} = EntriesWith(file, g)
    BY <1>2 DEF EntriesWith
  <2>2. EntriesWith(file, g) # {}
    BY DEF EntriesWith
  <2>3. Max(EntriesWith(file, g)) \in DOMAIN entries
    BY <1>2, <2>2, LastEntry
  <2> QED
    BY <1>2, <2>1, <2>3
<1> QED
  BY <1>1, <1>3, <1>4, <1>5 DEF NodesOf, LinkEntries, NicEntries, EndsOf, DataOf

GpusAt(file, m) == {n \in NodesOf(file) : IsGpu(n) /\ n[2] = m}

NicsAt(file, m) == {n \in NodesOf(file) : IsNic(n) /\ n[2] = m}

Machines(file) ==
    [m \in {n[2] : n \in {n \in NodesOf(file) : ~IsSwitch(n)}} |->
        [gpus |-> GpusAt(file, m), nics |-> NicsAt(file, m)]]

DomainOfGpu(file) ==
    [g \in UNION {NodeMembers(file, i) : i \in DOMAIN file.domains} |->
        file.domains[Max(EntriesWith(file, g))].id]

LEMMA ParsedParts ==
  ASSUME NEW file, file.domains \in Seq(Domain), NEW fab, fab = Parsed(file)
  PROVE  /\ FiveDicts(fab)
         /\ fab.machines = Machines(file)
         /\ fab.domains = Dict(DomainEntries(file))
         /\ fab.gpuDomain = DomainOfGpu(file)
         /\ fab.gpuNic = Dict(NicEntries(file))
         /\ fab.links = Dict(LinkEntries(file))
<1>1. fab = [machines |-> Machines(file), domains |-> Dict(DomainEntries(file)),
             gpuDomain |-> DomainOfGpu(file), gpuNic |-> Dict(NicEntries(file)),
             links |-> Dict(LinkEntries(file))]
  BY ParsedIs DEF Machines, GpusAt, NicsAt, DomainOfGpu
<1> QED
  BY <1>1 DEF FiveDicts

(***************************************************************************)
(* A document with names, domains and edges of the kinds there are, which  *)
(* is what anyone may hand to the reader.                                  *)
(***************************************************************************)
Readable(file) ==
    /\ file.components \in Seq(Seen(file.components))
    /\ \A c \in Seen(file.components) : c.label \in Label
    /\ file.domains \in Seq(Domain)
    /\ file.edges \in Seq(Edge)

(* Where no name comes twice, the dict has each node at its name. *)
NamedOnce(file) ==
    /\ file.components \in Seq(Seen(file.components))
    /\ \A i, j \in DOMAIN file.components :
            Printed(file.components[i].label) = Printed(file.components[j].label) => i = j

LEMMA NamedNodes ==
  ASSUME NEW file, NamedOnce(file)
  PROVE  \A c \in Seen(file.components) : At(file, Printed(c.label)) = NodeOf(c.label)
<1> DEFINE entries == [i \in DOMAIN file.components |->
                        <<Printed(file.components[i].label), NodeOf(file.components[i].label)>>]
<1>1. NodeNamed(file) = Dict(entries)
  BY DEF NodeNamed
<1>2. /\ DOMAIN entries = DOMAIN file.components
      /\ \A i \in DOMAIN file.components : /\ entries[i][1] = Printed(file.components[i].label)
                                           /\ entries[i][2] = NodeOf(file.components[i].label)
  OBVIOUS
<1> HIDE DEF entries
<1>3. DOMAIN entries \subseteq Int
  BY <1>2 DEF NamedOnce
<1>4. \A i \in DOMAIN entries : Dict(entries)[entries[i][1]] = entries[i][2]
  BY <1>2, <1>3, DictOfDistinct DEF NamedOnce
<1> QED
  BY <1>1, <1>2, <1>4 DEF At, Seen

LEMMA AcceptedNames ==
  ASSUME NEW file, Readable(file), Accepted(file)
  PROVE  /\ IsFiniteSet(Seen(file.components))
         /\ \A n \in Names(file) : \E c \in Seen(file.components) :
                /\ c.label \in Label /\ KnownKind(c.label)
                /\ n = Printed(c.label) /\ At(file, n) = NodeOf(c.label)
         /\ \A n \in Names(file) :
                /\ KnownKind(n) /\ n \in Name /\ At(file, n) \in Node
                /\ At(file, n) \in NodesOf(file)
                /\ n[3] = "gpu" <=> IsGpu(At(file, n))
                /\ n[3] = "nic" <=> IsNic(At(file, n))
                /\ n[3] # "asic" => NameOf(At(file, n)) = n
         /\ NodesOf(file) \subseteq Node
         /\ NodesOf(file) = {At(file, n) : n \in Names(file)}
         /\ \A m, n \in Names(file) : At(file, m) = At(file, n) /\ m[3] # "asic" => m = n
<1>1. NamedOnce(file)
  BY DEF Readable, Accepted, ComponentsValid, NamedOnce
<1>2. ASSUME NEW c \in Seen(file.components)
      PROVE  /\ c.label \in Label /\ KnownKind(c.label) /\ Printed(c.label) \in Names(file)
             /\ At(file, Printed(c.label)) = NodeOf(c.label)
  <2>1. c.label \in Label /\ Printed(c.label) \in Names(file)
    BY DEF Readable, Names
  <2>2. KnownKind(c.label)
    BY <2>1, PrintedLabels DEF Accepted, ComponentsValid
  <2> QED
    BY <1>1, <2>1, <2>2, NamedNodes
<1>3. \A n \in Names(file) : \E c \in Seen(file.components) :
         /\ c.label \in Label /\ KnownKind(c.label)
         /\ n = Printed(c.label) /\ At(file, n) = NodeOf(c.label)
  BY <1>2 DEF Names
<1>4. ASSUME NEW n \in Names(file)
      PROVE  /\ KnownKind(n) /\ n \in Name /\ At(file, n) \in Node
             /\ At(file, n) \in NodesOf(file)
             /\ n[3] = "gpu" <=> IsGpu(At(file, n))
             /\ n[3] = "nic" <=> IsNic(At(file, n))
             /\ n[3] # "asic" => NameOf(At(file, n)) = n
  <2>1. PICK c \in Seen(file.components) :
            /\ c.label \in Label /\ KnownKind(c.label)
            /\ n = Printed(c.label) /\ At(file, n) = NodeOf(c.label)
    BY <1>3
  <2>2. KnownKind(n) /\ n \in Name /\ n[3] = c.label[3]
    BY <2>1, PrintedLabels
  <2>3. /\ NodeOf(c.label) \in Node
        /\ c.label[3] = "gpu" <=> IsGpu(NodeOf(c.label))
        /\ c.label[3] = "nic" <=> IsNic(NodeOf(c.label))
        /\ c.label[3] # "asic" => LabelOf(NodeOf(c.label)) = c.label
    BY <2>1, NodesOfLabels
  <2> QED
    BY <2>1, <2>2, <2>3 DEF NodesOf, NameOf
<1>5. IsFiniteSet(Seen(file.components))
  <2> DEFINE comp == [i \in 1..Len(file.components) |-> file.components[i]]
  <2>1. Len(file.components) \in Nat /\ DOMAIN file.components = 1..Len(file.components)
    BY DEF Readable
  <2>2. IsFiniteSet(1..Len(file.components))
    BY <2>1, FS_Interval
  <2>3. comp \in Surjection(1..Len(file.components), Seen(file.components))
    BY <2>1 DEF Surjection, Seen
  <2> QED
    BY <2>2, <2>3, FS_Surjection
<1>6. ASSUME NEW m \in Names(file), NEW n \in Names(file), At(file, m) = At(file, n), m[3] # "asic"
      PROVE  m = n
  <2>1. m[3] \in {"gpu", "nic"} /\ n[3] \in {"gpu", "nic", "asic"}
    BY <1>4, <1>6 DEF Name
  <2>2. n[3] # "asic"
    BY <1>4, <1>6, <2>1
  <2> QED
    BY <1>4, <1>6, <2>2
<1>7. NodesOf(file) = {At(file, n) : n \in Names(file)}
  <2>1. \A c \in Seen(file.components) : \E n \in Names(file) : NodeOf(c.label) = At(file, n)
    BY <1>2
  <2> QED
    BY <1>4, <2>1 DEF NodesOf
<1>8. NodesOf(file) \subseteq Node
  BY <1>4, <1>7
<1> QED
  BY <1>3, <1>4, <1>5, <1>6, <1>7, <1>8

LEMMA AcceptedEdges ==
  ASSUME NEW file, Readable(file), Accepted(file)
  PROVE  /\ DOMAIN file.edges = 1..Len(file.edges) /\ Len(file.edges) \in Nat
         /\ \A i \in DOMAIN file.edges :
                LET e == file.edges[i]
                IN  /\ e.src \in Names(file) /\ e.dst \in Names(file)
                    /\ EndsOf(file, e) \in NodesOf(file) \X NodesOf(file)
                    /\ DataOf(e) \in [class : Classes, bw : Nat \ {0}, lat : Nat]
                    /\ Binds(e) <=> (DataOf(e).class = "egress"
                                     /\ IsGpu(EndsOf(file, e)[1]) /\ IsNic(EndsOf(file, e)[2]))
<1>1. DOMAIN file.edges = 1..Len(file.edges) /\ Len(file.edges) \in Nat
  BY DEF Readable
<1>2. ASSUME NEW i \in DOMAIN file.edges
      PROVE  LET e == file.edges[i]
             IN  /\ e.src \in Names(file) /\ e.dst \in Names(file)
                 /\ EndsOf(file, e) \in NodesOf(file) \X NodesOf(file)
                 /\ DataOf(e) \in [class : Classes, bw : Nat \ {0}, lat : Nat]
                 /\ Binds(e) <=> (DataOf(e).class = "egress"
                                  /\ IsGpu(EndsOf(file, e)[1]) /\ IsNic(EndsOf(file, e)[2]))
  <2> DEFINE e == file.edges[i]
  <2>1. e \in Edge /\ e \in Seen(file.edges)
    BY DEF Readable, Seen
  <2>2. e.src \in Names(file) /\ e.dst \in Names(file)
    BY <2>1 DEF Accepted, EndpointsKnown
  <2>3. e.type \in Classes /\ e.bw > 0 /\ e.bw \in Nat /\ e.lat \in Nat
    BY <2>1 DEF Accepted, EdgesValid, Edge
  <2>4. EndsOf(file, e) \in NodesOf(file) \X NodesOf(file)
    BY <2>2, AcceptedNames DEF EndsOf
  <2>5. DataOf(e) \in [class : Classes, bw : Nat \ {0}, lat : Nat]
    BY <2>3 DEF DataOf
  <2>6. Binds(e) <=> (DataOf(e).class = "egress" /\ IsGpu(EndsOf(file, e)[1]) /\ IsNic(EndsOf(file, e)[2]))
    BY <2>2, AcceptedNames DEF Binds, DataOf, EndsOf
  <2> QED
    BY <2>2, <2>4, <2>5, <2>6
<1> QED
  BY <1>1, <1>2

LEMMA ParsedMachines ==
  ASSUME NEW file, Readable(file), Accepted(file), NEW fab, fab = Parsed(file)
  PROVE  /\ MachinesSound(fab)
         /\ MachineNodes(fab) = {n \in NodesOf(file) : ~IsSwitch(n)}
         /\ Gpus(fab) = {n \in NodesOf(file) : IsGpu(n)}
<1> DEFINE nodes == {n \in NodesOf(file) : ~IsSwitch(n)}
           mids == {n[2] : n \in nodes}
<1>1. fab.machines = [m \in mids |-> [gpus |-> GpusAt(file, m), nics |-> NicsAt(file, m)]]
  <2>1. fab.machines = Machines(file)
    BY ParsedParts DEF Readable
  <2> QED
    BY <2>1 DEF Machines
<1>2. IsFiniteSet(NodesOf(file))
  <2> DEFINE node == [c \in Seen(file.components) |-> NodeOf(c.label)]
  <2>1. node \in Surjection(Seen(file.components), NodesOf(file))
    BY DEF Surjection, NodesOf
  <2> QED
    BY <2>1, AcceptedNames, FS_Surjection
<1>3. \A n \in NodesOf(file) : n \in Node /\ n[2] \in Int
  BY AcceptedNames, Nodes
<1>4. IsFiniteSet(mids) /\ mids \subseteq Int
  <2> DEFINE mid == [n \in nodes |-> n[2]]
  <2>1. IsFiniteSet(nodes)
    BY <1>2, FS_Subset
  <2>2. mid \in Surjection(nodes, mids)
    BY DEF Surjection
  <2> QED
    BY <1>3, <2>1, <2>2, FS_Surjection
<1>5. /\ DOMAIN fab.machines = mids
      /\ \A m \in mids : fab.machines[m].gpus = GpusAt(file, m) /\ fab.machines[m].nics = NicsAt(file, m)
  BY <1>1
<1>6. \A m \in mids : IsFiniteSet(GpusAt(file, m)) /\ IsFiniteSet(NicsAt(file, m))
  <2> TAKE m \in mids
  <2>1. GpusAt(file, m) \in SUBSET NodesOf(file) /\ NicsAt(file, m) \in SUBSET NodesOf(file)
    BY DEF GpusAt, NicsAt
  <2> QED
    BY <1>2, <2>1, FS_Subset
<1>7. \A m \in mids : GpusAt(file, m) \cup NicsAt(file, m) # {}
  BY DEF IsSwitch, GpusAt, NicsAt
<1>8. \A m \in mids : /\ \A n \in GpusAt(file, m) : n \in Node /\ IsGpu(n) /\ n[2] = m
                      /\ \A n \in NicsAt(file, m) : n \in Node /\ IsNic(n) /\ n[2] = m
  BY <1>3 DEF GpusAt, NicsAt
<1>9. MachinesSound(fab)
  <2> HIDE DEF mids
  <2>1. fab.machines = [m \in DOMAIN fab.machines |->
                         [gpus |-> fab.machines[m].gpus, nics |-> fab.machines[m].nics]]
    BY <1>1, <1>5
  <2>2. \A m \in DOMAIN fab.machines :
            /\ fab.machines[m].gpus = GpusAt(file, m) /\ fab.machines[m].nics = NicsAt(file, m)
            /\ m \in mids
    BY <1>5
  <2>3. DOMAIN fab.machines \subseteq Int /\ IsFiniteSet(DOMAIN fab.machines)
    BY <1>4, <1>5
  <2>4. \A m \in DOMAIN fab.machines :
            /\ IsFiniteSet(fab.machines[m].gpus) /\ IsFiniteSet(fab.machines[m].nics)
            /\ fab.machines[m].gpus \cup fab.machines[m].nics # {}
    BY <1>6, <1>7, <2>2
  <2>5. \A m \in DOMAIN fab.machines :
            /\ \A n \in fab.machines[m].gpus : n \in Node /\ IsGpu(n) /\ n[2] = m
            /\ \A n \in fab.machines[m].nics : n \in Node /\ IsNic(n) /\ n[2] = m
    BY <1>8, <2>2
  <2> QED
    BY <2>1, <2>3, <2>4, <2>5 DEF MachinesSound
<1>10. MachineNodes(fab) = nodes
  <2>1. \A n \in nodes : n[2] \in mids /\ n \in GpusAt(file, n[2]) \cup NicsAt(file, n[2])
    BY DEF IsSwitch, GpusAt, NicsAt
  <2>2. \A m \in mids : GpusAt(file, m) \cup NicsAt(file, m) \subseteq nodes
    BY DEF IsSwitch, IsGpu, IsNic, GpusAt, NicsAt
  <2> HIDE DEF mids, nodes
  <2> QED
    BY <1>5, <2>1, <2>2 DEF MachineNodes
<1>11. Gpus(fab) = {n \in NodesOf(file) : IsGpu(n)}
  <2> DEFINE gpus == {n \in NodesOf(file) : IsGpu(n)}
  <2>1. \A n \in gpus : n[2] \in mids /\ n \in GpusAt(file, n[2])
    BY DEF IsSwitch, GpusAt
  <2>2. \A m \in mids : GpusAt(file, m) \subseteq gpus
    BY DEF GpusAt
  <2> HIDE DEF mids, gpus
  <2>3. Gpus(fab) = gpus
    BY <1>5, <2>1, <2>2 DEF Gpus
  <2> QED
    BY <2>3 DEF gpus
<1> QED
  BY <1>9, <1>10, <1>11

(***************************************************************************)
(* The links and bindings that are read.                                   *)
(***************************************************************************)
LEMMA ParsedLinks ==
  ASSUME NEW file, Readable(file), Accepted(file), NEW fab, fab = Parsed(file)
  PROVE  /\ LinksSound(fab) /\ Endpoints(fab) = NodesOf(file)
         /\ DOMAIN fab.links = {EndsOf(file, file.edges[i]) : i \in DOMAIN file.edges}
         /\ \A l \in DOMAIN fab.links : \E i \in DOMAIN file.edges :
                EndsOf(file, file.edges[i]) = l /\ fab.links[l] = DataOf(file.edges[i])
<1> DEFINE entries == LinkEntries(file)
           edges == file.edges
<1>1. /\ DOMAIN entries = DOMAIN edges
      /\ \A i \in DOMAIN edges : entries[i][1] = EndsOf(file, edges[i]) /\ entries[i][2] = DataOf(edges[i])
  BY DEF LinkEntries
<1>2. fab.links = Dict(entries)
  BY ParsedParts DEF Readable
<1>3. DOMAIN edges = 1..Len(edges) /\ Len(edges) \in Nat
  BY AcceptedEdges
<1> HIDE DEF entries
<1>4. DOMAIN fab.links = {EndsOf(file, edges[i]) : i \in DOMAIN edges}
  <2>1. DOMAIN fab.links = {entries[i][1] : i \in DOMAIN entries}
    BY <1>2, DictKeys
  <2> QED
    BY <1>1, <2>1
<1>5. \A l \in DOMAIN fab.links : \E i \in DOMAIN edges :
         EndsOf(file, edges[i]) = l /\ fab.links[l] = DataOf(edges[i])
  BY <1>1, <1>2, <1>3, DictHasEntries
<1>6. IsFiniteSet(DOMAIN fab.links)
  <2> DEFINE ends == [i \in 1..Len(edges) |-> EndsOf(file, edges[i])]
  <2>1. IsFiniteSet(1..Len(edges))
    BY <1>3, FS_Interval
  <2>2. ends \in Surjection(1..Len(edges), DOMAIN fab.links)
    BY <1>3, <1>4 DEF Surjection
  <2> QED
    BY <2>1, <2>2, FS_Surjection
<1>7. \A i \in DOMAIN edges :
        /\ EndsOf(file, edges[i]) \in Node \X Node
        /\ EndsOf(file, edges[i]) \in NodesOf(file) \X NodesOf(file)
        /\ DataOf(edges[i]) \in [class : Classes, bw : Nat \ {0}, lat : Nat]
  BY AcceptedEdges, AcceptedNames
<1>8. DOMAIN fab.links \subseteq Node \X Node
  BY <1>4, <1>7
<1>9. fab.links \in [DOMAIN fab.links -> [class : Classes, bw : Nat \ {0}, lat : Nat]]
  <2>1. fab.links = [l \in DOMAIN fab.links |-> fab.links[l]]
    BY <1>2, DictEntries
  <2>2. \A l \in DOMAIN fab.links : fab.links[l] \in [class : Classes, bw : Nat \ {0}, lat : Nat]
    BY <1>5, <1>7
  <2> QED
    BY <2>1, <2>2
<1>10. Endpoints(fab) = NodesOf(file)
  <2>1. Endpoints(fab) \subseteq NodesOf(file)
    BY <1>4, <1>7 DEF Endpoints
  <2>2. ASSUME NEW n \in Names(file) PROVE At(file, n) \in Endpoints(fab)
    <3>1. PICK e \in Seen(edges) : n \in {e.src, e.dst}
      BY DEF Accepted, NoneIsolated
    <3>2. PICK i \in DOMAIN edges : e = edges[i]
      BY DEF Seen
    <3>3. EndsOf(file, e) \in DOMAIN fab.links
      BY <1>4, <3>2
    <3> QED
      BY <3>1, <3>3 DEF Endpoints, EndsOf
  <2>3. NodesOf(file) = {At(file, n) : n \in Names(file)}
    BY AcceptedNames
  <2> QED
    BY <2>1, <2>2, <2>3
<1>11. \A n \in Endpoints(fab) : ~IsSwitch(n) => n \in MachineNodes(fab)
  BY <1>10, ParsedMachines
<1> QED
  BY <1>4, <1>5, <1>6, <1>8, <1>9, <1>10, <1>11 DEF LinksSound

LEMMA ParsedNics ==
  ASSUME NEW file, Readable(file), Accepted(file), NEW fab, fab = Parsed(file)
  PROVE  /\ NicsSound(fab)
         /\ Uplinks(fab) = {EndsOf(file, file.edges[i]) : i \in {i \in DOMAIN file.edges : Binds(file.edges[i])}}
<1> DEFINE edges == file.edges
           bound == {i \in DOMAIN edges : Binds(edges[i])}
           entries == NicEntries(file)
<1>1. \A i \in DOMAIN edges : /\ edges[i].src \in Names(file) /\ edges[i].dst \in Names(file)
                              /\ edges[i].type = DataOf(edges[i]).class
  BY AcceptedEdges DEF DataOf
<1>2. \A i \in DOMAIN edges :
         Binds(edges[i]) <=> (DataOf(edges[i]).class = "egress"
                              /\ IsGpu(EndsOf(file, edges[i])[1]) /\ IsNic(EndsOf(file, edges[i])[2]))
  BY AcceptedEdges
<1>3. Uplinks(fab) \subseteq {EndsOf(file, edges[i]) : i \in bound}
  <2> SUFFICES ASSUME NEW l \in Uplinks(fab) PROVE \E i \in bound : l = EndsOf(file, edges[i])
    OBVIOUS
  <2>1. l \in DOMAIN fab.links /\ fab.links[l].class = "egress" /\ IsGpu(l[1]) /\ IsNic(l[2])
    BY DEF Uplinks
  <2>2. PICK i \in DOMAIN edges : EndsOf(file, edges[i]) = l /\ fab.links[l] = DataOf(edges[i])
    BY <2>1, ParsedLinks
  <2> QED
    BY <1>2, <2>1, <2>2
<1>4. ASSUME NEW i \in bound PROVE EndsOf(file, edges[i]) \in Uplinks(fab)
  <2> DEFINE l == EndsOf(file, edges[i])
  <2>1. l \in DOMAIN fab.links
    BY ParsedLinks
  <2>2. PICK j \in DOMAIN edges : EndsOf(file, edges[j]) = l /\ fab.links[l] = DataOf(edges[j])
    BY <2>1, ParsedLinks
  <2>3. At(file, edges[i].src) = At(file, edges[j].src) /\ At(file, edges[i].dst) = At(file, edges[j].dst)
    BY <2>2 DEF EndsOf
  <2>4. edges[i].src[3] # "asic" /\ edges[i].dst[3] # "asic"
    BY DEF Binds
  <2>5. edges[i].src = edges[j].src /\ edges[i].dst = edges[j].dst
    BY <1>1, <2>3, <2>4, AcceptedNames
  <2>6. i = j
    BY <2>5 DEF Accepted, EdgesValid
  <2> QED
    BY <1>2, <2>1, <2>2, <2>6 DEF Uplinks
<1>5. Uplinks(fab) = {EndsOf(file, edges[i]) : i \in bound}
  BY <1>3, <1>4
<1>6. fab.gpuNic = Dict(entries)
  BY ParsedParts DEF Readable
<1>7. DOMAIN entries = bound /\ \A i \in bound : entries[i] = EndsOf(file, edges[i])
  BY DEF NicEntries
<1>8. Len(edges) \in Nat /\ bound \subseteq 1..Len(edges)
  BY AcceptedEdges
<1> HIDE DEF entries, bound
<1>9. DOMAIN fab.gpuNic = {l[1] : l \in Uplinks(fab)}
  <2>1. DOMAIN fab.gpuNic = {entries[i][1] : i \in DOMAIN entries}
    BY <1>6, DictKeys
  <2> QED
    BY <1>5, <1>7, <2>1
<1>10. fab.gpuNic = [g \in DOMAIN fab.gpuNic |-> fab.gpuNic[g]]
  BY <1>6, DictEntries
<1>11. \A g \in DOMAIN fab.gpuNic : <<g, fab.gpuNic[g]>> \in Uplinks(fab)
  <2> TAKE g \in DOMAIN fab.gpuNic
  <2>1. PICK i \in DOMAIN entries : entries[i][1] = g /\ fab.gpuNic[g] = entries[i][2]
    <3> DEFINE n == Len(edges)
    <3>1. n \in Nat /\ DOMAIN entries \subseteq 1..n
      BY <1>7, <1>8
    <3> HIDE DEF n
    <3>2. \A k \in DOMAIN Dict(entries) :
            \E i \in DOMAIN entries : entries[i][1] = k /\ Dict(entries)[k] = entries[i][2]
      BY <3>1, DictHasEntries
    <3> QED
      BY <1>6, <3>2
  <2>2. <<g, fab.gpuNic[g]>> = EndsOf(file, edges[i])
    BY <1>7, <2>1 DEF EndsOf
  <2> QED
    BY <1>5, <1>7, <2>2
<1> QED
  BY <1>5, <1>9, <1>10, <1>11 DEF NicsSound, bound

-----------------------------------------------------------------------------
(***************************************************************************)
(* The domains that are read are those the validator has looked at.        *)
(***************************************************************************)
LEMMA AttributesAreOfGpus ==
  ASSUME NEW file
  PROVE  \A n \in DOMAIN DomainAttr(file) : n \in Names(file) /\ n[3] = "gpu"
BY DEF DomainAttr, Names, Printed

DomainsOfEntries(file, fab) ==
    /\ DOMAIN fab.domains = {file.domains[i].id : i \in DOMAIN file.domains}
    /\ DOMAIN fab.domains = DOMAIN DomainMembers(file)
    /\ fab.domains = [d \in DOMAIN fab.domains |-> fab.domains[d]]
    /\ \A d \in DOMAIN fab.domains :
        /\ fab.domains[d] = {At(file, n) : n \in DomainMembers(file)[d]}
        /\ \A n \in DomainMembers(file)[d] :
                n \in DOMAIN DomainAttr(file) /\ DomainAttr(file)[n] = d

LEMMA DomainsRead ==
  ASSUME NEW file, Readable(file), Accepted(file), NEW fab, fab = Parsed(file)
  PROVE  DomainsOfEntries(file, fab)
<1> DEFINE entries == DomainEntries(file)
           named == [i \in DOMAIN file.domains |-> <<file.domains[i].id, file.domains[i].members>>]
<1>1. fab.domains = Dict(entries) /\ DomainMembers(file) = Dict(named)
  BY ParsedParts DEF Readable, DomainMembers
<1>2. /\ DOMAIN entries = DOMAIN file.domains /\ DOMAIN named = DOMAIN file.domains
      /\ \A i \in DOMAIN file.domains :
            /\ entries[i][1] = file.domains[i].id /\ named[i][1] = file.domains[i].id
            /\ entries[i][2] = {At(file, n) : n \in named[i][2]}
  BY DEF DomainEntries, NodeMembers
<1>3. Len(file.domains) \in Nat /\ DOMAIN file.domains = 1..Len(file.domains)
  BY DEF Readable
<1> HIDE DEF entries, named
<1>4. DOMAIN fab.domains = {file.domains[i].id : i \in DOMAIN file.domains}
  <2>1. DOMAIN fab.domains = {entries[i][1] : i \in DOMAIN entries}
    BY <1>1, DictKeys
  <2> QED
    BY <1>2, <2>1
<1>5. DOMAIN DomainMembers(file) = {file.domains[i].id : i \in DOMAIN file.domains}
  <2>1. DOMAIN DomainMembers(file) = {named[i][1] : i \in DOMAIN named}
    BY <1>1, DictKeys
  <2> QED
    BY <1>2, <2>1
<1>6. ASSUME NEW d \in DOMAIN fab.domains
      PROVE  fab.domains[d] = {At(file, n) : n \in DomainMembers(file)[d]}
  <2> DEFINE places == PlacesOf(entries, d)
  <2>1. places = PlacesOf(named, d)
    BY <1>2 DEF PlacesOf
  <2>2. places \in SUBSET (1..Len(file.domains)) /\ places # {}
    BY <1>2, <1>3, <1>4, <1>6 DEF PlacesOf
  <2>3. Max(places) \in places
    BY <1>3, <2>2, LargestNatural
  <2>4. Max(places) \in DOMAIN file.domains
    BY <1>3, <2>2, <2>3
  <2>5. d \in {entries[i][1] : i \in DOMAIN entries} /\ d \in {named[i][1] : i \in DOMAIN named}
    BY <1>2, <1>4, <1>6
  <2>6. fab.domains[d] = entries[Max(places)][2]
    BY <1>1, <2>5, DictEntries
  <2>7. DomainMembers(file)[d] = named[Max(places)][2]
    BY <1>1, <2>1, <2>5, DictEntries
  <2> QED
    BY <1>2, <2>4, <2>6, <2>7
<1>7. ASSUME NEW d \in DOMAIN fab.domains, NEW n \in DomainMembers(file)[d]
      PROVE  n \in DOMAIN DomainAttr(file) /\ DomainAttr(file)[n] = d
  BY <1>4, <1>5, <1>7 DEF Accepted, MembershipTwice
<1>8. fab.domains = [d \in DOMAIN fab.domains |-> fab.domains[d]]
  BY <1>1, DictEntries
<1> QED
  BY <1>4, <1>5, <1>6, <1>7, <1>8 DEF DomainsOfEntries

(***************************************************************************)
(* The domain that is noted for a GPU is that of one of the entries it is  *)
(* listed in.                                                              *)
(***************************************************************************)
GpuDomainsOfEntries(file, fab) ==
    /\ fab.gpuDomain = [g \in DOMAIN fab.gpuDomain |-> fab.gpuDomain[g]]
    /\ \A g \in DOMAIN fab.gpuDomain : \E i \in DOMAIN file.domains :
            g \in NodeMembers(file, i) /\ fab.gpuDomain[g] = file.domains[i].id
    /\ \A i \in DOMAIN file.domains : NodeMembers(file, i) \subseteq DOMAIN fab.gpuDomain
    /\ \A d \in DOMAIN fab.domains : \E i \in DOMAIN file.domains :
            file.domains[i].id = d /\ fab.domains[d] = NodeMembers(file, i)

LEMMA NotedDomain ==
  ASSUME NEW file, Readable(file), Accepted(file), NEW fab, fab = Parsed(file)
  PROVE  GpuDomainsOfEntries(file, fab)
<1>1. fab.gpuDomain = DomainOfGpu(file) /\ fab.domains = Dict(DomainEntries(file))
  BY ParsedParts DEF Readable
<1>2. /\ fab.gpuDomain = [g \in DOMAIN fab.gpuDomain |-> fab.gpuDomain[g]]
      /\ DOMAIN fab.gpuDomain = UNION {NodeMembers(file, i) : i \in DOMAIN file.domains}
      /\ \A g \in DOMAIN fab.gpuDomain :
            fab.gpuDomain[g] = file.domains[Max(EntriesWith(file, g))].id
  BY <1>1 DEF DomainOfGpu
<1>3. ASSUME NEW g \in DOMAIN fab.gpuDomain
      PROVE  \E i \in DOMAIN file.domains :
                g \in NodeMembers(file, i) /\ fab.gpuDomain[g] = file.domains[i].id
  <2>1. EntriesWith(file, g) # {}
    BY <1>2 DEF EntriesWith
  <2> QED
    BY <1>2, <2>1, LastEntry DEF Readable
<1>4. \A i \in DOMAIN file.domains : NodeMembers(file, i) \subseteq DOMAIN fab.gpuDomain
  BY <1>2
<1>5. ASSUME NEW d \in DOMAIN fab.domains
      PROVE  \E i \in DOMAIN file.domains :
                file.domains[i].id = d /\ fab.domains[d] = NodeMembers(file, i)
  <2> DEFINE entries == DomainEntries(file)
             n == Len(file.domains)
  <2>1. n \in Nat /\ DOMAIN entries = DOMAIN file.domains /\ DOMAIN file.domains = 1..n
    BY DEF Readable, DomainEntries
  <2>2. \A i \in DOMAIN file.domains :
            entries[i][1] = file.domains[i].id /\ entries[i][2] = NodeMembers(file, i)
    BY DEF DomainEntries
  <2> HIDE DEF entries, n
  <2>3. \A k \in DOMAIN Dict(entries) :
            \E i \in DOMAIN entries : entries[i][1] = k /\ Dict(entries)[k] = entries[i][2]
    BY <2>1, DictHasEntries
  <2>4. fab.domains = Dict(entries)
    BY <1>1 DEF entries
  <2>5. PICK i \in DOMAIN entries : entries[i][1] = d /\ Dict(entries)[d] = entries[i][2]
    BY <2>3, <2>4
  <2> QED
    BY <2>1, <2>2, <2>4, <2>5
<1> QED
  BY <1>2, <1>3, <1>4, <1>5 DEF GpuDomainsOfEntries

LEMMA ParsedStructured ==
  ASSUME NEW file, Readable(file), Accepted(file), NEW fab, fab = Parsed(file)
  PROVE  /\ Structured(fab) /\ ~HasIsolated(fab)
         /\ MembershipAgrees(fab) => Membered(fab)
<1>0. DomainsOfEntries(file, fab) /\ GpuDomainsOfEntries(file, fab)
  BY DomainsRead, NotedDomain
<1>1. FiveDicts(fab)
  BY ParsedParts DEF Readable
<1>2. MachinesSound(fab) /\ LinksSound(fab) /\ NicsSound(fab)
  BY ParsedMachines, ParsedLinks, ParsedNics
<1>3. DomainsSound(fab)
  <2>1. Len(file.domains) \in Nat /\ DOMAIN file.domains = 1..Len(file.domains)
    BY DEF Readable
  <2>2. DOMAIN fab.domains = {file.domains[i].id : i \in DOMAIN file.domains}
    BY <1>0 DEF DomainsOfEntries
  <2>3. DOMAIN fab.domains \subseteq Int
    <3>1. \A i \in DOMAIN file.domains : file.domains[i] \in Domain
      BY DEF Readable
    <3> QED
      BY <2>2, <3>1 DEF Domain
  <2>4. IsFiniteSet(DOMAIN fab.domains)
    <3> DEFINE id == [i \in 1..Len(file.domains) |-> file.domains[i].id]
    <3>1. IsFiniteSet(1..Len(file.domains))
      <4>1. 1 \in Int /\ Len(file.domains) \in Int
        BY <2>1
      <4> QED
        BY <4>1, FS_Interval
    <3>2. id \in Surjection(1..Len(file.domains), DOMAIN fab.domains)
      BY <2>1, <2>2 DEF Surjection
    <3> QED
      BY <3>1, <3>2, FS_Surjection
  <2>5. ASSUME NEW d \in DOMAIN fab.domains PROVE fab.domains[d] \subseteq Gpus(fab)
    <3>1. fab.domains[d] = {At(file, n) : n \in DomainMembers(file)[d]}
      BY <1>0 DEF DomainsOfEntries
    <3>2. \A n \in DomainMembers(file)[d] : n \in Names(file) /\ n[3] = "gpu"
      BY <1>0, AttributesAreOfGpus DEF DomainsOfEntries
    <3>3. \A n \in DomainMembers(file)[d] : At(file, n) \in NodesOf(file) /\ IsGpu(At(file, n))
      BY <3>2, AcceptedNames
    <3> QED
      BY <3>1, <3>3, ParsedMachines
  <2>6. fab.domains = [d \in DOMAIN fab.domains |-> fab.domains[d]]
    BY <1>0 DEF DomainsOfEntries
  <2>7. fab.domains \in [DOMAIN fab.domains -> SUBSET Gpus(fab)]
    BY <2>5, <2>6
  <2> QED
    BY <2>3, <2>4, <2>7 DEF DomainsSound
<1>4. ~HasIsolated(fab)
  <2>1. MachineNodes(fab) \subseteq Endpoints(fab)
    BY ParsedMachines, ParsedLinks
  <2> QED
    BY <2>1 DEF HasIsolated, MachineNodes
<1>5. ASSUME MembershipAgrees(fab) PROVE Membered(fab)
  <2>1. \A g \in DOMAIN fab.gpuDomain :
            fab.gpuDomain[g] \in DOMAIN fab.domains /\ g \in fab.domains[fab.gpuDomain[g]]
    BY <1>0, <1>5 DEF MembershipAgrees, DomainsOfEntries, GpuDomainsOfEntries
  <2>2. DOMAIN fab.gpuDomain \subseteq UNION Range(fab.domains)
    BY <2>1 DEF Range
  <2>3. UNION Range(fab.domains) \subseteq DOMAIN fab.gpuDomain
    <3>1. \A d \in DOMAIN fab.domains : fab.domains[d] \subseteq DOMAIN fab.gpuDomain
      BY <1>0 DEF GpuDomainsOfEntries
    <3> QED
      BY <3>1 DEF Range
  <2>4. DOMAIN fab.gpuDomain = UNION Range(fab.domains)
    BY <2>2, <2>3
  <2>5. fab.gpuDomain \in [UNION Range(fab.domains) -> DOMAIN fab.domains]
    <3>1. fab.gpuDomain = [g \in DOMAIN fab.gpuDomain |-> fab.gpuDomain[g]]
      BY <1>0 DEF GpuDomainsOfEntries
    <3> QED
      BY <2>1, <2>4, <3>1
  <2> QED
    BY <1>5, <2>5 DEF Membered, MembershipAgrees
<1> QED
  BY <1>1, <1>2, <1>3, <1>4, <1>5 DEF Structured

-----------------------------------------------------------------------------
(***************************************************************************)
(* Nothing that is accepted vanishes.                                      *)
(***************************************************************************)
LEMMA ReadComponents ==
  ASSUME NEW file, Readable(file), Accepted(file), NEW fab, fab = Parsed(file)
  PROVE  ComponentsKept(file, fab)
<1>1. Endpoints(fab) = NodesOf(file) /\ MachineNodes(fab) \subseteq NodesOf(file)
  BY ParsedLinks, ParsedMachines
<1> QED
  BY <1>1 DEF ComponentsKept, NodesOf, MachineNodes

LEMMA ReadEdges ==
  ASSUME NEW file, Readable(file), Accepted(file), NEW fab, fab = Parsed(file),
         OneAsicPerSwitch(file)
  PROVE  EdgesKept(file, fab)
<1> DEFINE entries == LinkEntries(file)
           edges == file.edges
<1>1. /\ DOMAIN entries = DOMAIN edges
      /\ \A i \in DOMAIN edges : entries[i][1] = EndsOf(file, edges[i]) /\ entries[i][2] = DataOf(edges[i])
  BY DEF LinkEntries
<1>2. fab.links = Dict(entries)
  BY ParsedParts DEF Readable
<1>3. DOMAIN edges \subseteq Int
  BY AcceptedEdges
<1>4. ASSUME NEW i \in DOMAIN edges, NEW j \in DOMAIN edges, EndsOf(file, edges[i]) = EndsOf(file, edges[j])
      PROVE  i = j
  <2>1. /\ edges[i].src \in Names(file) /\ edges[i].dst \in Names(file)
        /\ edges[j].src \in Names(file) /\ edges[j].dst \in Names(file)
    BY AcceptedEdges
  <2>2. At(file, edges[i].src) = At(file, edges[j].src) /\ At(file, edges[i].dst) = At(file, edges[j].dst)
    BY <1>4 DEF EndsOf
  <2>3. edges[i].src = edges[j].src /\ edges[i].dst = edges[j].dst
    <3>1. \A m, n \in Names(file) : At(file, m) = At(file, n) => m = n
      BY AcceptedNames DEF OneAsicPerSwitch
    <3> QED
      BY <2>1, <2>2, <3>1
  <2> QED
    BY <2>3 DEF Accepted, EdgesValid
<1> HIDE DEF entries
<1>5. \A i \in DOMAIN entries : Dict(entries)[entries[i][1]] = entries[i][2]
  BY <1>1, <1>3, <1>4, DictOfDistinct
<1>6. \A i \in DOMAIN edges : fab.links[EndsOf(file, edges[i])] = DataOf(edges[i])
  BY <1>1, <1>2, <1>5
<1> QED
  BY <1>6 DEF EdgesKept, Seen, EndsOf, DataOf, At

LEMMA ReadDomains ==
  ASSUME NEW file, Readable(file), Accepted(file), NEW fab, fab = Parsed(file),
         EachDomainOnce(file)
  PROVE  DomainsKept(file, fab)
<1> DEFINE attr == DomainAttr(file)
           listed == DomainMembers(file)
<1>0. DomainsOfEntries(file, fab) /\ GpuDomainsOfEntries(file, fab)
  BY DomainsRead, NotedDomain
<1>1. \A i \in DOMAIN file.domains : listed[file.domains[i].id] = file.domains[i].members
  <2> DEFINE named == [i \in DOMAIN file.domains |-> <<file.domains[i].id, file.domains[i].members>>]
  <2>1. listed = Dict(named)
    BY DEF DomainMembers
  <2>2. /\ DOMAIN named = DOMAIN file.domains
        /\ \A i \in DOMAIN file.domains : /\ named[i][1] = file.domains[i].id
                                          /\ named[i][2] = file.domains[i].members
    OBVIOUS
  <2>3. DOMAIN named \subseteq Int
    BY <2>2 DEF Readable
  <2> HIDE DEF named, listed
  <2>4. \A i \in DOMAIN named : Dict(named)[named[i][1]] = named[i][2]
    BY <2>2, <2>3, DictOfDistinct DEF EachDomainOnce
  <2> QED
    BY <2>1, <2>2, <2>4
<1>2. ASSUME NEW i \in DOMAIN file.domains
      PROVE  /\ file.domains[i].id \in DOMAIN fab.domains
             /\ fab.domains[file.domains[i].id] = NodeMembers(file, i)
             /\ \A n \in file.domains[i].members :
                    n \in DOMAIN attr /\ attr[n] = file.domains[i].id
  <2>1. file.domains[i].id \in DOMAIN fab.domains
    BY <1>0 DEF DomainsOfEntries
  <2> HIDE DEF listed, attr
  <2> QED
    BY <1>0, <1>1, <2>1 DEF NodeMembers, listed, attr, DomainsOfEntries
<1>3. \A m, n \in DOMAIN attr : At(file, m) = At(file, n) => m = n
  BY AttributesAreOfGpus, AcceptedNames
<1>4. \A n \in DOMAIN attr : NameOf(At(file, n)) = n
  BY AttributesAreOfGpus, AcceptedNames
<1> HIDE DEF attr, listed
<1>5. ASSUME NEW g \in DOMAIN fab.gpuDomain
      PROVE  \E i \in DOMAIN file.domains : \E n \in file.domains[i].members :
                /\ g = At(file, n) /\ n \in DOMAIN attr
                /\ fab.gpuDomain[g] = file.domains[i].id /\ attr[n] = file.domains[i].id
  <2>1. PICK i \in DOMAIN file.domains :
            g \in NodeMembers(file, i) /\ fab.gpuDomain[g] = file.domains[i].id
    BY <1>0 DEF GpuDomainsOfEntries
  <2>2. PICK n \in file.domains[i].members : g = At(file, n)
    BY <2>1 DEF NodeMembers
  <2> QED
    BY <1>2, <2>1, <2>2
<1>6. ASSUME NEW n \in DOMAIN attr
      PROVE  At(file, n) \in DOMAIN fab.gpuDomain /\ fab.gpuDomain[At(file, n)] = attr[n]
  <2>1. attr[n] \in DOMAIN listed /\ n \in listed[attr[n]]
    BY DEF Accepted, MembershipTwice, attr, listed
  <2>2. attr[n] \in DOMAIN fab.domains
    BY <1>0, <2>1 DEF listed, DomainsOfEntries
  <2>3. PICK i \in DOMAIN file.domains : file.domains[i].id = attr[n]
    BY <1>0, <2>2 DEF DomainsOfEntries
  <2>4. n \in file.domains[i].members
    BY <1>1, <2>1, <2>3
  <2>5. At(file, n) \in DOMAIN fab.gpuDomain
    BY <1>0, <2>4 DEF NodeMembers, GpuDomainsOfEntries
  <2>6. PICK m \in DOMAIN attr : At(file, n) = At(file, m) /\ fab.gpuDomain[At(file, n)] = attr[m]
    BY <1>5, <2>5
  <2> QED
    BY <1>3, <2>5, <2>6
<1>7. MembershipAgrees(fab)
  <2>1. ASSUME NEW g \in DOMAIN fab.gpuDomain PROVE g \in fab.domains[fab.gpuDomain[g]]
    BY <1>2, <1>5 DEF NodeMembers
  <2>2. ASSUME NEW d \in DOMAIN fab.domains, NEW g \in fab.domains[d]
        PROVE  fab.gpuDomain[g] = d
    <3>1. PICK n \in listed[d] : g = At(file, n)
      BY <1>0 DEF listed, DomainsOfEntries
    <3>2. n \in DOMAIN attr /\ attr[n] = d
      BY <1>0 DEF listed, attr, DomainsOfEntries
    <3> QED
      BY <1>6, <3>1, <3>2
  <2> QED
    BY <2>1, <2>2 DEF MembershipAgrees
<1>8. attr = [n \in {NameOf(g) : g \in DOMAIN fab.gpuDomain} |-> fab.gpuDomain[At(file, n)]]
  <2>1. DOMAIN attr = {NameOf(g) : g \in DOMAIN fab.gpuDomain}
    <3>1. \A g \in DOMAIN fab.gpuDomain : NameOf(g) \in DOMAIN attr
      BY <1>4, <1>5
    <3>2. \A n \in DOMAIN attr : \E g \in DOMAIN fab.gpuDomain : n = NameOf(g)
      BY <1>4, <1>6
    <3> QED
      BY <3>1, <3>2
  <2>2. attr = [n \in DOMAIN attr |-> attr[n]]
    BY DEF attr, DomainAttr
  <2> QED
    BY <1>6, <2>1, <2>2
<1> QED
  BY <1>7, <1>8 DEF DomainsKept, attr, At

-----------------------------------------------------------------------------
(***************************************************************************)
(* The document of a sound fabric.                                         *)
(***************************************************************************)
ListedComponents(fab, file) ==
    /\ file.components \in Seq(Seen(file.components))
    /\ Seen(file.components) = {ComponentOf(fab, n) : n \in NodesIn(fab)}
    /\ \A i, j \in DOMAIN file.components :
            Printed(file.components[i].label) = Printed(file.components[j].label) => i = j

ListedDomains(fab, file) ==
    /\ file.domains \in Seq(Seen(file.domains))
    /\ \A i \in DOMAIN file.domains : \E d \in DOMAIN fab.domains : file.domains[i] = DomainIn(fab, d)
    /\ \A d \in DOMAIN fab.domains : \E i \in DOMAIN file.domains : file.domains[i] = DomainIn(fab, d)
    /\ \A i, j \in DOMAIN file.domains : file.domains[i].id = file.domains[j].id => i = j

ListedEdges(fab, file) ==
    /\ file.edges \in Seq(Seen(file.edges))
    /\ \A i \in DOMAIN file.edges : \E l \in DOMAIN fab.links : file.edges[i] = EdgeOf(fab, l)
    /\ \A l \in DOMAIN fab.links : \E i \in DOMAIN file.edges : file.edges[i] = EdgeOf(fab, l)
    /\ \A i, j \in DOMAIN file.edges :
            file.edges[i].src = file.edges[j].src /\ file.edges[i].dst = file.edges[j].dst => i = j

FieldsOf(fab, file) ==
    /\ file.fields
    /\ file.components = [i \in 1..Len(NodeList(fab)) |-> ComponentOf(fab, NodeList(fab)[i])]
    /\ file.domains = [i \in 1..Len(IdList(fab)) |-> DomainIn(fab, IdList(fab)[i])]
    /\ file.edges = [i \in 1..Len(LinkList(fab)) |-> EdgeOf(fab, LinkList(fab)[i])]

LEMMA EmittedFields ==
  ASSUME NEW fab, Structured(fab), ~Unwritable(fab), NEW file, file = Emitted(fab)
  PROVE  FieldsOf(fab, file)
<1>1. /\ DOMAIN NodeList(fab) = 1..Len(NodeList(fab))
      /\ DOMAIN IdList(fab) = 1..Len(IdList(fab))
      /\ DOMAIN LinkList(fab) = 1..Len(LinkList(fab))
  BY NodeListLists, IdListLists, LinkListLists DEF Lists
<1>2. file = [fields |-> TRUE,
             components |-> [i \in DOMAIN NodeList(fab) |-> ComponentOf(fab, NodeList(fab)[i])],
             domains |-> [i \in DOMAIN IdList(fab) |-> DomainIn(fab, IdList(fab)[i])],
             edges |-> [i \in DOMAIN LinkList(fab) |-> EdgeOf(fab, LinkList(fab)[i])]]
  BY EmittedIs
<1> QED
  BY <1>1, <1>2 DEF FieldsOf

LEMMA EmittedComponents ==
  ASSUME NEW fab, Structured(fab), ~Unwritable(fab), NEW file, file = Emitted(fab)
  PROVE  ListedComponents(fab, file)
<1> DEFINE nodes == NodeList(fab)
           k == Len(nodes)
           comps == file.components
<1>1. Lists(nodes, NodesIn(fab)) /\ NodesIn(fab) \subseteq Node
  BY NodeListLists, NodesInFabric
<1>2. k \in Nat /\ comps = [i \in 1..k |-> ComponentOf(fab, nodes[i])]
  <2>1. k \in Nat
    BY <1>1 DEF Lists
  <2>2. FieldsOf(fab, file)
    BY EmittedFields
  <2> QED
    BY <2>1, <2>2 DEF FieldsOf
<1>3. \A i \in 1..k : nodes[i] \in NodesIn(fab)
  BY <1>1 DEF Lists
<1>4. \A x \in NodesIn(fab) : \E i \in 1..k : nodes[i] = x
  BY <1>1 DEF Lists
<1>5. \A i, j \in 1..k : nodes[i] = nodes[j] => i = j
  BY <1>1 DEF Lists
<1> HIDE DEF nodes, k, comps
<1>6. comps \in Seq(Seen(comps))
  <2>1. \A i \in 1..k : comps[i] \in Seen(comps)
    BY <1>2 DEF Seen
  <2>2. comps \in [1..k -> Seen(comps)]
    BY <1>2, <2>1
  <2> QED
    BY <1>2, <2>2
<1>7. Seen(comps) = {ComponentOf(fab, n) : n \in NodesIn(fab)}
  <2>1. \A i \in 1..k : comps[i] = ComponentOf(fab, nodes[i])
    BY <1>2
  <2>2. DOMAIN comps = 1..k
    BY <1>2
  <2>3. ASSUME NEW c \in Seen(comps) PROVE \E n \in NodesIn(fab) : c = ComponentOf(fab, n)
    BY <1>3, <2>1, <2>2 DEF Seen
  <2>4. ASSUME NEW n \in NodesIn(fab) PROVE ComponentOf(fab, n) \in Seen(comps)
    BY <1>4, <2>1, <2>2 DEF Seen
  <2> QED
    BY <2>3, <2>4
<1>8. ASSUME NEW i \in DOMAIN comps, NEW j \in DOMAIN comps,
             Printed(comps[i].label) = Printed(comps[j].label)
      PROVE  i = j
  <2>1. i \in 1..k /\ j \in 1..k
    BY <1>2
  <2>2. Printed(comps[i].label) = NameOf(nodes[i]) /\ Printed(comps[j].label) = NameOf(nodes[j])
    BY <1>2, <2>1 DEF ComponentOf, NameOf
  <2>3. nodes[i] \in NodesIn(fab) /\ nodes[j] \in NodesIn(fab)
    BY <1>3, <2>1
  <2>4. nodes[i] = nodes[j]
    BY <1>8, <2>2, <2>3, NamesDiffer
  <2> QED
    BY <1>5, <2>1, <2>4
<1> QED
  BY <1>6, <1>7, <1>8 DEF ListedComponents, comps

LEMMA EmittedDomains ==
  ASSUME NEW fab, Structured(fab), ~Unwritable(fab), NEW file, file = Emitted(fab)
  PROVE  ListedDomains(fab, file)
<1> DEFINE ids == IdList(fab)
           k == Len(ids)
           entries == file.domains
<1>1. Lists(ids, DOMAIN fab.domains)
  BY IdListLists
<1>2. k \in Nat /\ entries = [i \in 1..k |-> DomainIn(fab, ids[i])]
  <2>1. k \in Nat
    BY <1>1 DEF Lists
  <2>2. FieldsOf(fab, file)
    BY EmittedFields
  <2> QED
    BY <2>1, <2>2 DEF FieldsOf
<1>3. /\ \A i \in 1..k : ids[i] \in DOMAIN fab.domains
      /\ \A x \in DOMAIN fab.domains : \E i \in 1..k : ids[i] = x
      /\ \A i, j \in 1..k : ids[i] = ids[j] => i = j
  BY <1>1 DEF Lists
<1> HIDE DEF ids, k, entries
<1>4. DOMAIN entries = 1..k /\ Len(entries) = k
  BY <1>2
<1>5. \A i \in 1..k : entries[i] = DomainIn(fab, ids[i])
  BY <1>2
<1>6. \A i \in 1..k : entries[i].id = ids[i]
  <2>1. \A d : DomainIn(fab, d).id = d
    BY DEF DomainIn
  <2> QED
    BY <1>5, <2>1
<1>7. \A i, j \in DOMAIN entries : entries[i].id = entries[j].id => i = j
  BY <1>3, <1>4, <1>6
<1>8. /\ \A i \in DOMAIN entries : \E d \in DOMAIN fab.domains : entries[i] = DomainIn(fab, d)
      /\ \A d \in DOMAIN fab.domains : \E i \in DOMAIN entries : entries[i] = DomainIn(fab, d)
  BY <1>3, <1>4, <1>5
<1>9. entries \in Seq(Seen(entries))
  <2>1. \A i \in 1..k : entries[i] \in Seen(entries)
    BY <1>4 DEF Seen
  <2>2. entries \in [1..k -> Seen(entries)]
    BY <1>2, <2>1
  <2> QED
    BY <1>2, <2>2
<1> QED
  BY <1>7, <1>8, <1>9 DEF ListedDomains, entries

LEMMA EmittedEdges ==
  ASSUME NEW fab, Structured(fab), ~Unwritable(fab), NEW file, file = Emitted(fab)
  PROVE  ListedEdges(fab, file)
<1> DEFINE links == LinkList(fab)
           k == Len(links)
           edges == file.edges
<1>1. Lists(links, DOMAIN fab.links)
  BY LinkListLists
<1>2. k \in Nat /\ edges = [i \in 1..k |-> EdgeOf(fab, links[i])]
  <2>1. k \in Nat
    BY <1>1 DEF Lists
  <2>2. FieldsOf(fab, file)
    BY EmittedFields
  <2> QED
    BY <2>1, <2>2 DEF FieldsOf
<1>3. /\ \A i \in 1..k : links[i] \in DOMAIN fab.links
      /\ \A x \in DOMAIN fab.links : \E i \in 1..k : links[i] = x
      /\ \A i, j \in 1..k : links[i] = links[j] => i = j
  BY <1>1 DEF Lists
<1>4. \A l \in DOMAIN fab.links :
         l[1] \in NodesIn(fab) /\ l[2] \in NodesIn(fab) /\ l = <<l[1], l[2]>>
  BY NodesInFabric DEF Structured, LinksSound, Endpoints
<1> HIDE DEF links, k, edges
<1>5. DOMAIN edges = 1..k /\ Len(edges) = k
  BY <1>2
<1>6. \A i \in 1..k : edges[i] = EdgeOf(fab, links[i])
  BY <1>2
<1>7. \A i \in 1..k : edges[i].src = NameOf(links[i][1]) /\ edges[i].dst = NameOf(links[i][2])
  <2>1. \A l : EdgeOf(fab, l).src = NameOf(l[1]) /\ EdgeOf(fab, l).dst = NameOf(l[2])
    BY DEF EdgeOf
  <2> QED
    BY <1>6, <2>1
<1>8. ASSUME NEW i \in DOMAIN edges, NEW j \in DOMAIN edges,
             edges[i].src = edges[j].src, edges[i].dst = edges[j].dst
      PROVE  i = j
  <2>1. links[i] \in DOMAIN fab.links /\ links[j] \in DOMAIN fab.links
    BY <1>3, <1>5
  <2>2. links[i][1] = links[j][1] /\ links[i][2] = links[j][2]
    BY <1>4, <1>5, <1>7, <1>8, <2>1, NamesDiffer
  <2>3. links[i] = links[j]
    BY <1>4, <2>1, <2>2
  <2> QED
    BY <1>3, <1>5, <2>3
<1>9. /\ \A i \in DOMAIN edges : \E l \in DOMAIN fab.links : edges[i] = EdgeOf(fab, l)
      /\ \A l \in DOMAIN fab.links : \E i \in DOMAIN edges : edges[i] = EdgeOf(fab, l)
  BY <1>3, <1>5, <1>6
<1>10. edges \in Seq(Seen(edges))
  <2>1. \A i \in 1..k : edges[i] \in Seen(edges)
    BY <1>5 DEF Seen
  <2>2. edges \in [1..k -> Seen(edges)]
    BY <1>2, <2>1
  <2> QED
    BY <1>2, <2>2
<1> QED
  BY <1>8, <1>9, <1>10 DEF ListedEdges, edges

LEMMA EmittedNames ==
  ASSUME NEW fab, Structured(fab), ~Unwritable(fab), NEW file, file = Emitted(fab)
  PROVE  /\ Names(file) = {NameOf(n) : n \in NodesIn(fab)}
         /\ NodesOf(file) = NodesIn(fab)
         /\ \A c \in Seen(file.components) : c.label \in Label
         /\ \A n \in Names(file) : KnownKind(n)
         /\ \A n \in NodesIn(fab) : At(file, NameOf(n)) = n
<1>1. Seen(file.components) = {ComponentOf(fab, n) : n \in NodesIn(fab)} /\ NamedOnce(file)
  BY EmittedComponents DEF ListedComponents, NamedOnce
<1>2. \A n : ComponentOf(fab, n).label = LabelOf(n)
  BY DEF ComponentOf
<1>3. Names(file) = {NameOf(n) : n \in NodesIn(fab)}
  BY <1>1, <1>2 DEF Names, NameOf
<1>4. \A n \in NodesIn(fab) : /\ KnownKind(NameOf(n))
                              /\ LabelOf(n) \in Label /\ NodeOf(LabelOf(n)) = n
  BY NodesInFabric, NamesOfNodes, LabelsOfNodes
<1>5. NodesOf(file) = NodesIn(fab)
  BY <1>1, <1>2, <1>4 DEF NodesOf
<1>6. ASSUME NEW n \in NodesIn(fab) PROVE At(file, NameOf(n)) = n
  <2>1. ComponentOf(fab, n) \in Seen(file.components)
    BY <1>1
  <2> QED
    BY <1>1, <1>2, <1>4, <2>1, NamedNodes DEF NameOf
<1> QED
  BY <1>1, <1>2, <1>3, <1>4, <1>5, <1>6

LEMMA EmittedReadable ==
  ASSUME NEW fab, Structured(fab), ~Unwritable(fab), NEW file, file = Emitted(fab)
  PROVE  Readable(file)
<1>1. /\ file.components \in Seq(Seen(file.components))
      /\ \A c \in Seen(file.components) : c.label \in Label
  BY EmittedComponents, EmittedNames DEF ListedComponents
<1>2. file.domains \in Seq(Domain)
  <2>1. ASSUME NEW d \in DOMAIN fab.domains PROVE DomainIn(fab, d) \in Domain
    <3>1. d \in Int /\ fab.domains[d] \subseteq Gpus(fab)
      BY DEF Structured, DomainsSound
    <3>2. Gpus(fab) \subseteq Node
      BY DEF Gpus, Structured, MachinesSound
    <3>3. MembersOf(fab, d) \subseteq Name
      BY <3>1, <3>2, NamesOfNodes DEF MembersOf
    <3> QED
      BY <3>1, <3>3 DEF DomainIn, Domain
  <2>2. ListedDomains(fab, file)
    BY EmittedDomains
  <2>3. \A i \in DOMAIN file.domains : file.domains[i] \in Domain
    BY <2>1, <2>2 DEF ListedDomains
  <2>4. Seen(file.domains) \subseteq Domain
    BY <2>3 DEF Seen
  <2> QED
    BY <2>2, <2>4 DEF ListedDomains
<1>3. file.edges \in Seq(Edge)
  <2>1. ASSUME NEW l \in DOMAIN fab.links PROVE EdgeOf(fab, l) \in Edge
    <3>1. l[1] \in Node /\ l[2] \in Node
      BY DEF Structured, LinksSound
    <3>2. fab.links[l] \in [class : Classes, bw : Nat \ {0}, lat : Nat]
      BY DEF Structured, LinksSound
    <3>3. fab.links[l].class \in Classes /\ fab.links[l].bw \in Nat /\ fab.links[l].lat \in Nat
      BY <3>2
    <3>4. NameOf(l[1]) \in Name /\ NameOf(l[2]) \in Name
      BY <3>1, NamesOfNodes
    <3> QED
      BY <3>3, <3>4 DEF EdgeOf, Edge
  <2>2. ListedEdges(fab, file)
    BY EmittedEdges
  <2>3. \A i \in DOMAIN file.edges : file.edges[i] \in Edge
    BY <2>1, <2>2 DEF ListedEdges
  <2>4. Seen(file.edges) \subseteq Edge
    BY <2>3 DEF Seen
  <2> QED
    BY <2>2, <2>4 DEF ListedEdges
<1> QED
  BY <1>1, <1>2, <1>3 DEF Readable

(* The labels that are sorted when a document is read. *)
LabelsInMachines(file) ==
    {l \in {c.label : c \in Seen(file.components)} : l[3] \in {"gpu", "nic"}}

LEMMA MixedIndicesAre ==
  ASSUME NEW file
  PROVE  MixedIndices(file) <=>
            \/ Mixed({l[2] : l \in LabelsInMachines(file)})
            \/ \E k \in LabelsInMachines(file) :
                Mixed({l[4] : l \in {l \in LabelsInMachines(file) : <<l[2], l[3]>> = <<k[2], k[3]>>}})
BY DEF MixedIndices, LabelsInMachines

LEMMA UnmixedIndices ==
  ASSUME NEW fab, Structured(fab), ~Unwritable(fab), NEW file, file = Emitted(fab)
  PROVE  ~MixedIndices(file)
<1> DEFINE labels == LabelsInMachines(file)
<1>1. ASSUME NEW l \in labels
      PROVE  /\ l[2] \in DOMAIN fab.machines
             /\ l[3] = "gpu" => \E n \in fab.machines[l[2]].gpus : l[4] = n[3]
             /\ l[3] = "nic" => \E n \in fab.machines[l[2]].nics : l[4] = n[3]
  <2>1. Seen(file.components) = {ComponentOf(fab, n) : n \in NodesIn(fab)}
    BY EmittedComponents DEF ListedComponents
  <2>2. PICK n \in NodesIn(fab) : l = LabelOf(n)
    BY <2>1 DEF ComponentOf, LabelsInMachines
  <2>3. l[3] \in {"gpu", "nic"}
    BY DEF LabelsInMachines
  <2>4. ~IsSwitch(n) /\ n \in Node
    BY <2>2, <2>3, NodesInFabric, LabelsOfNodes DEF IsSwitch
  <2>5. l[2] = n[2] /\ l[3] = n[1] /\ l[4] = n[3]
    BY <2>2, <2>4 DEF LabelOf
  <2>6. PICK m \in DOMAIN fab.machines : n \in fab.machines[m].gpus \cup fab.machines[m].nics
    BY <2>4 DEF NodesIn, Switches, MachineNodes
  <2> QED
    BY <2>3, <2>5, <2>6 DEF Structured, MachinesSound, IsGpu, IsNic
<1> HIDE DEF labels
<1>2. ~Mixed({l[2] : l \in labels})
  <2>1. {l[2] : l \in labels} \subseteq DOMAIN fab.machines /\ ~Mixed(DOMAIN fab.machines)
    BY <1>1 DEF Unwritable
  <2> QED
    BY <2>1, UnmixedPart
<1>3. ASSUME NEW k \in labels
      PROVE  ~Mixed({l[4] : l \in {l \in labels : <<l[2], l[3]>> = <<k[2], k[3]>>}})
  <2> DEFINE together == {l[4] : l \in {l \in labels : <<l[2], l[3]>> = <<k[2], k[3]>>}}
             gpus == fab.machines[k[2]].gpus
             nics == fab.machines[k[2]].nics
  <2>1. k[2] \in DOMAIN fab.machines /\ k[3] \in {"gpu", "nic"}
    BY <1>1 DEF labels, LabelsInMachines
  <2>2. ~Mixed({n[3] : n \in gpus}) /\ ~Mixed({n[3] : n \in nics})
    BY <2>1 DEF Unwritable
  <2>3. k[3] = "gpu" => together \subseteq {n[3] : n \in gpus}
    BY <1>1
  <2>4. k[3] = "nic" => together \subseteq {n[3] : n \in nics}
    BY <1>1
  <2> HIDE DEF together, gpus, nics
  <2>5. ~Mixed(together)
    BY <2>1, <2>2, <2>3, <2>4, UnmixedPart
  <2> QED
    BY <2>5 DEF together
<1> QED
  BY <1>2, <1>3, MixedIndicesAre DEF labels

(***************************************************************************)
(* What was read can be written again, unless the switches of a tier or    *)
(* the domains of its document mix numbers and strings.                    *)
(***************************************************************************)
LEMMA ReadIsWritable ==
  ASSUME NEW file, Readable(file), Accepted(file), ~MixedIndices(file), ~MixedInTiers(file),
         NEW fab, fab = Parsed(file)
  PROVE  ~Unwritable(fab)
<1> DEFINE labels == LabelsInMachines(file)
<1>1. \A n \in NodesOf(file) : \E c \in Seen(file.components) :
         /\ n = NodeOf(c.label) /\ c.label \in Label /\ KnownKind(c.label)
  <2> TAKE n \in NodesOf(file)
  <2>1. PICK name \in Names(file) : n = At(file, name)
    BY AcceptedNames
  <2> QED
    BY <2>1, AcceptedNames
<1>2. ASSUME NEW n \in NodesOf(file), ~IsSwitch(n)
      PROVE  \E l \in labels : l[2] = n[2] /\ l[3] = n[1] /\ l[4] = n[3]
  <2>1. PICK c \in Seen(file.components) :
            n = NodeOf(c.label) /\ c.label \in Label /\ KnownKind(c.label)
    BY <1>1
  <2>2. c.label[3] \in {"gpu", "nic"}
    BY <1>2, <2>1, NodesOfLabels DEF IsSwitch
  <2>3. c.label[2] = n[2] /\ c.label[3] = n[1] /\ c.label[4] = n[3]
    BY <2>1, <2>2 DEF NodeOf
  <2> QED
    BY <2>2, <2>3 DEF LabelsInMachines
<1>3. /\ fab.machines = Machines(file)
      /\ Endpoints(fab) = NodesOf(file)
      /\ DOMAIN fab.domains = {file.domains[i].id : i \in DOMAIN file.domains}
  BY ParsedParts, ParsedLinks, DomainsRead DEF Readable, DomainsOfEntries
<1> HIDE DEF labels
<1>4. ~Mixed(DOMAIN fab.machines)
  <2>1. DOMAIN fab.machines \subseteq {l[2] : l \in labels}
    BY <1>2, <1>3 DEF Machines
  <2>2. ~Mixed({l[2] : l \in labels})
    BY MixedIndicesAre DEF labels
  <2> QED
    BY <2>1, <2>2, UnmixedPart
<1>5. ASSUME NEW m \in DOMAIN fab.machines, NEW kind \in {"gpu", "nic"},
             NEW nodes, \A n \in nodes : n \in NodesOf(file) /\ n[1] = kind /\ n[2] = m
      PROVE  ~Mixed({n[3] : n \in nodes})
  <2>1. \A n \in nodes : \E l \in labels : l[2] = m /\ l[3] = kind /\ l[4] = n[3]
    BY <1>2, <1>5 DEF IsSwitch, IsGpu, IsNic
  <2>2. CASE nodes = {}
    BY <2>2 DEF Mixed
  <2>3. CASE nodes # {}
    <3>1. PICK k \in labels : k[2] = m /\ k[3] = kind
      BY <2>1, <2>3
    <3> DEFINE together == {l[4] : l \in {l \in labels : <<l[2], l[3]>> = <<k[2], k[3]>>}}
    <3>2. {n[3] : n \in nodes} \subseteq together
      BY <2>1, <3>1
    <3>3. ~Mixed(together)
      BY MixedIndicesAre DEF labels
    <3> HIDE DEF together
    <3> QED
      BY <3>2, <3>3, UnmixedPart
  <2> QED
    BY <2>2, <2>3
<1>6. ASSUME NEW m \in DOMAIN fab.machines,
             NEW nodes \in {fab.machines[m].gpus, fab.machines[m].nics}
      PROVE  ~Mixed({n[3] : n \in nodes})
  <2>1. fab.machines[m].gpus = GpusAt(file, m) /\ fab.machines[m].nics = NicsAt(file, m)
    BY <1>3 DEF Machines
  <2>2. ~Mixed({n[3] : n \in GpusAt(file, m)})
    BY <1>5 DEF GpusAt, IsGpu
  <2>3. ~Mixed({n[3] : n \in NicsAt(file, m)})
    BY <1>5 DEF NicsAt, IsNic
  <2> QED
    BY <2>1, <2>2, <2>3
<1>7. ASSUME NEW tier \in {"leaf", "spine"} PROVE ~Mixed(SwitchIndices(fab, tier))
  <2> DEFINE indices == {c.label[2] : c \in {c \in Seen(file.components) : c.label[1] = tier}}
  <2>1. ~Mixed(indices)
    BY DEF MixedInTiers
  <2>2. ASSUME NEW n \in Endpoints(fab), n[1] = tier
        PROVE  \E c \in Seen(file.components) : c.label[1] = tier /\ c.label[2] = n[2]
    <3>1. PICK c \in Seen(file.components) :
            n = NodeOf(c.label) /\ c.label \in Label /\ KnownKind(c.label)
      BY <1>1, <1>3
    <3>2. c.label[3] = "asic"
      BY <2>2, <3>1 DEF NodeOf, Label
    <3> QED
      BY <2>2, <3>1, <3>2 DEF NodeOf, Switch
  <2>3. SwitchIndices(fab, tier) \subseteq indices
    BY <2>2 DEF SwitchIndices
  <2> HIDE DEF indices
  <2> QED
    BY <2>1, <2>3, UnmixedPart
<1>8. ~Mixed(DOMAIN fab.domains)
  <2>1. DOMAIN fab.domains \subseteq {d.id : d \in Seen(file.domains)}
    BY <1>3 DEF Seen
  <2>2. ~Mixed({d.id : d \in Seen(file.domains)})
    BY DEF MixedInTiers
  <2> QED
    BY <2>1, <2>2, UnmixedPart
<1> QED
  BY <1>4, <1>6, <1>7, <1>8 DEF Unwritable

(* What is accepted does not fail in the middle, but for such indices. *)
LEMMA AcceptedParses ==
  ASSUME NEW file, Accepted(file), ~MixedIndices(file)
  PROVE  ~ParseRaises(file)
<1>1. file.fields /\ \A n \in Names(file) : KnownKind(n)
  BY DEF Accepted, ComponentsValid
<1>2. UNION {d.members : d \in Seen(file.domains)} \subseteq Names(file)
  BY DEF Accepted, MembersKnown
<1>3. UNION {{e.src, e.dst} : e \in Seen(file.edges)} \subseteq Names(file)
  BY DEF Accepted, EndpointsKnown
<1>4. \A e \in Seen(file.edges) : e.type \in Classes
  BY DEF Accepted, EdgesValid
<1> QED
  BY <1>1, <1>2, <1>3, <1>4 DEF ParseRaises


LEMMA EmittedMembership ==
  ASSUME NEW fab, Structured(fab), ~Unwritable(fab), Membered(fab), NEW file, file = Emitted(fab)
  PROVE  MembersKnown(file) /\ MembershipTwice(file)
<1>1. /\ ListedDomains(fab, file)
      /\ Seen(file.components) = {ComponentOf(fab, n) : n \in NodesIn(fab)}
  BY EmittedDomains, EmittedComponents DEF ListedComponents
<1>2. \A d \in DOMAIN fab.domains : d \in Int /\ \A g \in fab.domains[d] :
         g \in Gpus(fab) /\ g \in DOMAIN fab.gpuDomain /\ fab.gpuDomain[g] = d
  BY DEF Structured, DomainsSound, Membered, Range
<1>3. \A g \in Gpus(fab) : g \in NodesIn(fab) /\ g \in Node /\ IsGpu(g)
  BY DEF Gpus, NodesIn, MachineNodes, Structured, MachinesSound
<1>4. \A g \in DOMAIN fab.gpuDomain : /\ fab.gpuDomain[g] \in DOMAIN fab.domains
                                      /\ g \in fab.domains[fab.gpuDomain[g]]
  <2> TAKE g \in DOMAIN fab.gpuDomain
  <2>1. fab.gpuDomain[g] \in DOMAIN fab.domains /\ g \in UNION Range(fab.domains)
    BY DEF Membered
  <2>2. PICK d \in DOMAIN fab.domains : g \in fab.domains[d]
    BY <2>1 DEF Range
  <2> QED
    BY <1>2, <2>1, <2>2
<1>5. MembersKnown(file)
  <2>1. \A d \in DOMAIN fab.domains : DomainIn(fab, d).members \subseteq Names(file)
    <3>1. \A d : DomainIn(fab, d).members = {NameOf(g) : g \in fab.domains[d]}
      BY DEF DomainIn, MembersOf
    <3> QED
      BY <1>2, <1>3, <3>1, EmittedNames
  <2>2. \A i \in DOMAIN file.domains : file.domains[i].members \subseteq Names(file)
    BY <1>1, <2>1 DEF ListedDomains
  <2> QED
    BY <2>2 DEF MembersKnown, Seen
<1>6. /\ \A n \in NodesIn(fab) : /\ ComponentOf(fab, n).label = LabelOf(n)
                                 /\ Printed(ComponentOf(fab, n).label) = NameOf(n)
                                 /\ ComponentOf(fab, n).domain = AttrOf(fab, n)
      /\ NodesIn(fab) \subseteq Node
  <2>1. \A n : ComponentOf(fab, n).label = LabelOf(n) /\ ComponentOf(fab, n).domain = AttrOf(fab, n)
    BY DEF ComponentOf
  <2> QED
    BY <2>1, NodesInFabric DEF NameOf
<1> DEFINE attr == DomainAttr(file)
           listed == DomainMembers(file)
           gpus == {c \in Seen(file.components) : c.label[3] = "gpu" /\ c.domain # None}
<1>7. \A c : c \in gpus <=> \E g \in DOMAIN fab.gpuDomain : c = ComponentOf(fab, g)
  <2>1. ASSUME NEW c \in gpus PROVE \E g \in DOMAIN fab.gpuDomain : c = ComponentOf(fab, g)
    <3>1. PICK n \in NodesIn(fab) : c = ComponentOf(fab, n)
      BY <1>1
    <3> QED
      BY <1>6, <3>1 DEF AttrOf
  <2>2. ASSUME NEW g \in DOMAIN fab.gpuDomain PROVE ComponentOf(fab, g) \in gpus
    <3>1. g \in Gpus(fab) /\ fab.gpuDomain[g] \in Int
      BY <1>2, <1>4
    <3>2. g \in NodesIn(fab) /\ g \in Node /\ IsGpu(g)
      BY <1>3, <3>1
    <3>3. LabelOf(g)[3] = "gpu" /\ AttrOf(fab, g) # None
      BY <3>1, <3>2, LabelsOfNodes, NoneIsNoDomain DEF AttrOf
    <3> QED
      BY <1>1, <1>6, <3>2, <3>3
  <2> QED
    BY <2>1, <2>2
<1>8. /\ DOMAIN attr = {NameOf(g) : g \in DOMAIN fab.gpuDomain}
      /\ \A g \in DOMAIN fab.gpuDomain : attr[NameOf(g)] = fab.gpuDomain[g]
  <2>1. attr = [n \in {Printed(c.label) : c \in gpus} |->
                    (CHOOSE c \in gpus : Printed(c.label) = n).domain]
    BY DEF DomainAttr
  <2>2. \A g \in DOMAIN fab.gpuDomain :
            /\ g \in NodesIn(fab) /\ g \in Node /\ IsGpu(g)
            /\ Printed(ComponentOf(fab, g).label) = NameOf(g)
            /\ ComponentOf(fab, g).domain = fab.gpuDomain[g]
    BY <1>2, <1>3, <1>4, <1>6 DEF AttrOf
  <2> HIDE DEF gpus, attr
  <2>3. {Printed(c.label) : c \in gpus} = {NameOf(g) : g \in DOMAIN fab.gpuDomain}
    <3>1. \A c \in gpus : \E g \in DOMAIN fab.gpuDomain : Printed(c.label) = NameOf(g)
      BY <1>7, <2>2
    <3>2. \A g \in DOMAIN fab.gpuDomain : \E c \in gpus : Printed(c.label) = NameOf(g)
      BY <1>7, <2>2
    <3> QED
      BY <3>1, <3>2
  <2>4. ASSUME NEW g \in DOMAIN fab.gpuDomain PROVE attr[NameOf(g)] = fab.gpuDomain[g]
    <3> DEFINE c == CHOOSE c \in gpus : Printed(c.label) = NameOf(g)
    <3>1. \E x \in gpus : Printed(x.label) = NameOf(g)
      BY <1>7, <2>2
    <3>2. c \in gpus /\ Printed(c.label) = NameOf(g)
      BY <3>1
    <3>3. attr[NameOf(g)] = c.domain
      BY <2>1, <2>3
    <3> HIDE DEF c
    <3>4. PICK h \in DOMAIN fab.gpuDomain : c = ComponentOf(fab, h)
      BY <1>7, <3>2
    <3>5. h = g
      BY <2>2, <3>2, <3>4, NamesDiffer
    <3> QED
      BY <2>2, <3>3, <3>4, <3>5
  <2> QED
    BY <2>1, <2>3, <2>4
<1>9. /\ DOMAIN listed = DOMAIN fab.domains
      /\ \A d \in DOMAIN fab.domains : listed[d] = {NameOf(g) : g \in fab.domains[d]}
  <2> DEFINE named == [i \in DOMAIN file.domains |-> <<file.domains[i].id, file.domains[i].members>>]
  <2>1. listed = Dict(named)
    BY DEF DomainMembers
  <2>2. /\ DOMAIN named = DOMAIN file.domains
        /\ \A i \in DOMAIN file.domains : /\ named[i][1] = file.domains[i].id
                                          /\ named[i][2] = file.domains[i].members
    OBVIOUS
  <2>3. DOMAIN named \subseteq Int
    BY <1>1, <2>2 DEF ListedDomains
  <2>4. \A d : DomainIn(fab, d).id = d /\ DomainIn(fab, d).members = {NameOf(g) : g \in fab.domains[d]}
    BY DEF DomainIn, MembersOf
  <2> HIDE DEF named, listed
  <2>5. \A i \in DOMAIN named : Dict(named)[named[i][1]] = named[i][2]
    <3>1. \A i, j \in DOMAIN named : named[i][1] = named[j][1] => i = j
      BY <1>1, <2>2 DEF ListedDomains
    <3> QED
      BY <2>3, <3>1, DictOfDistinct
  <2>6. DOMAIN listed = {named[i][1] : i \in DOMAIN named}
    BY <2>1, DictKeys
  <2>7. ASSUME NEW d \in DOMAIN fab.domains
        PROVE  d \in DOMAIN listed /\ listed[d] = {NameOf(g) : g \in fab.domains[d]}
    <3>1. PICK i \in DOMAIN file.domains : file.domains[i] = DomainIn(fab, d)
      BY <1>1 DEF ListedDomains
    <3>2. named[i][1] = d /\ named[i][2] = {NameOf(g) : g \in fab.domains[d]}
      BY <2>2, <2>4, <3>1
    <3> QED
      BY <2>1, <2>2, <2>5, <2>6, <3>2
  <2>8. ASSUME NEW d \in DOMAIN listed PROVE d \in DOMAIN fab.domains
    <3>1. PICK i \in DOMAIN file.domains : d = file.domains[i].id
      BY <2>2, <2>6
    <3>2. PICK e \in DOMAIN fab.domains : file.domains[i] = DomainIn(fab, e)
      BY <1>1 DEF ListedDomains
    <3> QED
      BY <2>4, <3>1, <3>2
  <2> QED
    BY <2>7, <2>8
<1> HIDE DEF attr, listed, gpus
<1>10. \A n \in DOMAIN attr : attr[n] \in DOMAIN listed /\ n \in listed[attr[n]]
  BY <1>4, <1>8, <1>9
<1>11. \A d \in DOMAIN listed : \A n \in listed[d] : n \in DOMAIN attr /\ attr[n] = d
  BY <1>2, <1>8, <1>9
<1> QED
  BY <1>5, <1>10, <1>11 DEF MembershipTwice, attr, listed


(* The document of a sound fabric is refused only for a node without link. *)
LEMMA EmittedAccepted ==
  ASSUME NEW fab, Structured(fab), ~Unwritable(fab), Membered(fab), ~HasIsolated(fab),
         NEW file, file = Emitted(fab)
  PROVE  Accepted(file)
<1>1. /\ ListedComponents(fab, file) /\ ListedEdges(fab, file)
      /\ file.fields
  BY EmittedComponents, EmittedEdges, EmittedFields DEF FieldsOf
<1>2. /\ Names(file) = {NameOf(n) : n \in NodesIn(fab)}
      /\ \A n \in Names(file) : KnownKind(n)
  BY EmittedNames
<1>3. ComponentsValid(file)
  BY <1>1, <1>2 DEF ComponentsValid, ListedComponents
<1>4. MembersKnown(file) /\ MembershipTwice(file)
  BY EmittedMembership
<1>5. ASSUME NEW l \in DOMAIN fab.links
      PROVE  LET e == EdgeOf(fab, l)
             IN  e.src \in Names(file) /\ e.dst \in Names(file) /\ e.type \in Classes /\ e.bw > 0
  <2>1. fab.links[l] \in [class : Classes, bw : Nat \ {0}, lat : Nat]
    BY DEF Structured, LinksSound
  <2>2. fab.links[l].class \in Classes /\ fab.links[l].bw > 0
    BY <2>1
  <2>3. l[1] \in NodesIn(fab) /\ l[2] \in NodesIn(fab)
    BY NodesInFabric DEF Endpoints
  <2> QED
    BY <1>2, <2>2, <2>3 DEF EdgeOf
<1>6. \A e \in Seen(file.edges) : \E l \in DOMAIN fab.links : e = EdgeOf(fab, l)
  BY <1>1 DEF ListedEdges, Seen
<1>7. EndpointsKnown(file)
  BY <1>5, <1>6 DEF EndpointsKnown
<1>8. EdgesValid(file)
  <2>1. \A e \in Seen(file.edges) : e.type \in Classes /\ e.bw > 0
    BY <1>5, <1>6
  <2>2. \A i, j \in DOMAIN file.edges :
            i # j => <<file.edges[i].src, file.edges[i].dst>> # <<file.edges[j].src, file.edges[j].dst>>
    BY <1>1 DEF ListedEdges
  <2> QED
    BY <2>1, <2>2 DEF EdgesValid
<1>9. NoneIsolated(file)
  <2>1. NodesIn(fab) \subseteq Endpoints(fab)
    BY DEF HasIsolated, NodesIn, Switches, MachineNodes
  <2>2. ASSUME NEW n \in NodesIn(fab)
        PROVE  \E e \in Seen(file.edges) : NameOf(n) \in {e.src, e.dst}
    <3>1. PICK l \in DOMAIN fab.links : n = l[1] \/ n = l[2]
      BY <2>1 DEF Endpoints
    <3>2. PICK i \in DOMAIN file.edges : file.edges[i] = EdgeOf(fab, l)
      BY <1>1 DEF ListedEdges
    <3>3. EdgeOf(fab, l).src = NameOf(l[1]) /\ EdgeOf(fab, l).dst = NameOf(l[2])
      BY DEF EdgeOf
    <3> QED
      BY <3>1, <3>2, <3>3 DEF Seen
  <2> QED
    BY <1>2, <2>2 DEF NoneIsolated
<1> QED
  BY <1>1, <1>3, <1>4, <1>7, <1>8, <1>9 DEF Accepted

-----------------------------------------------------------------------------
(***************************************************************************)
(* The document of a sound fabric is read as that fabric.                  *)
(***************************************************************************)
LEMMA ReadMachines ==
  ASSUME NEW fab, Structured(fab), ~Unwritable(fab), NEW file, file = Emitted(fab), NEW copy, copy = Parsed(file)
  PROVE  copy.machines = fab.machines
<1>1. copy.machines = Machines(file)
  BY EmittedReadable, ParsedParts DEF Readable
<1>2. NodesOf(file) = NodesIn(fab)
  BY EmittedNames
<1>3. \A n \in NodesIn(fab) : ~IsSwitch(n) => n \in MachineNodes(fab)
  BY NodesInFabric DEF NodesIn
<1>4. \A m \in DOMAIN fab.machines :
        /\ \A n \in fab.machines[m].gpus : n \in Node /\ IsGpu(n) /\ ~IsNic(n) /\ ~IsSwitch(n) /\ n[2] = m
        /\ \A n \in fab.machines[m].nics : n \in Node /\ IsNic(n) /\ ~IsGpu(n) /\ ~IsSwitch(n) /\ n[2] = m
        /\ fab.machines[m].gpus \cup fab.machines[m].nics # {}
  BY DEF Structured, MachinesSound, IsSwitch, IsGpu, IsNic
<1>5. {n[2] : n \in {n \in NodesOf(file) : ~IsSwitch(n)}} = DOMAIN fab.machines
  <2>1. ASSUME NEW n \in NodesOf(file), ~IsSwitch(n) PROVE n[2] \in DOMAIN fab.machines
    BY <1>2, <1>3, <1>4, <2>1 DEF MachineNodes
  <2>2. ASSUME NEW m \in DOMAIN fab.machines
        PROVE  \E n \in NodesOf(file) : ~IsSwitch(n) /\ n[2] = m
    BY <1>2, <1>4 DEF NodesIn, MachineNodes
  <2> QED
    BY <2>1, <2>2
<1>6. ASSUME NEW m \in DOMAIN fab.machines
      PROVE  GpusAt(file, m) = fab.machines[m].gpus /\ NicsAt(file, m) = fab.machines[m].nics
  <2>1. ASSUME NEW n \in NodesIn(fab), n[2] = m, IsGpu(n) \/ IsNic(n)
        PROVE  n \in fab.machines[m].gpus \cup fab.machines[m].nics
    BY <1>3, <1>4, <2>1 DEF MachineNodes, IsSwitch
  <2>2. fab.machines[m].gpus \cup fab.machines[m].nics \subseteq NodesIn(fab)
    BY DEF NodesIn, MachineNodes
  <2> QED
    BY <1>2, <1>4, <2>1, <2>2 DEF GpusAt, NicsAt
<1>7. fab.machines = [m \in DOMAIN fab.machines |->
                        [gpus |-> fab.machines[m].gpus, nics |-> fab.machines[m].nics]]
  BY DEF Structured, MachinesSound
<1> QED
  BY <1>1, <1>5, <1>6, <1>7 DEF Machines

LEMMA ReadLinks ==
  ASSUME NEW fab, Structured(fab), ~Unwritable(fab), NEW file, file = Emitted(fab), NEW copy, copy = Parsed(file)
  PROVE  copy.links = fab.links
<1> DEFINE entries == LinkEntries(file)
<1>1. copy.links = Dict(entries)
  BY EmittedReadable, ParsedParts DEF Readable
<1>2. ListedEdges(fab, file)
  BY EmittedEdges
<1>3. ASSUME NEW l \in DOMAIN fab.links
      PROVE  EndsOf(file, EdgeOf(fab, l)) = l /\ DataOf(EdgeOf(fab, l)) = fab.links[l]
  <2>1. l[1] \in Node /\ l[2] \in Node /\ l = <<l[1], l[2]>>
    BY DEF Structured, LinksSound
  <2>2. At(file, NameOf(l[1])) = l[1] /\ At(file, NameOf(l[2])) = l[2]
    BY NodesInFabric, EmittedNames DEF Endpoints
  <2>3. EndsOf(file, EdgeOf(fab, l)) = l
    BY <2>1, <2>2 DEF EndsOf, EdgeOf
  <2>4. fab.links[l] \in [class : Classes, bw : Nat \ {0}, lat : Nat]
    BY DEF Structured, LinksSound
  <2>5. DataOf(EdgeOf(fab, l)) = fab.links[l]
    BY <2>4 DEF DataOf, EdgeOf
  <2> QED
    BY <2>3, <2>5
<1>4. /\ DOMAIN entries = DOMAIN file.edges
      /\ \A i \in DOMAIN file.edges : /\ entries[i][1] = EndsOf(file, file.edges[i])
                                      /\ entries[i][2] = DataOf(file.edges[i])
  BY DEF LinkEntries
<1> HIDE DEF entries
<1>5. \A i \in DOMAIN entries : entries[i][1] \in DOMAIN fab.links
                                /\ file.edges[i] = EdgeOf(fab, entries[i][1])
                                /\ entries[i][2] = fab.links[entries[i][1]]
  <2> TAKE i \in DOMAIN entries
  <2>1. PICK l \in DOMAIN fab.links : file.edges[i] = EdgeOf(fab, l)
    BY <1>2, <1>4 DEF ListedEdges
  <2> QED
    BY <1>3, <1>4, <2>1
<1>6. \A l \in DOMAIN fab.links : \E i \in DOMAIN entries : entries[i][1] = l
  <2> TAKE l \in DOMAIN fab.links
  <2>1. PICK i \in DOMAIN file.edges : file.edges[i] = EdgeOf(fab, l)
    BY <1>2 DEF ListedEdges
  <2> QED
    BY <1>3, <1>4, <2>1
<1>7. \A i, j \in DOMAIN entries : entries[i][1] = entries[j][1] => i = j
  <2>1. \A i, j \in DOMAIN entries :
            entries[i][1] = entries[j][1] => file.edges[i] = file.edges[j]
    BY <1>5
  <2> QED
    BY <1>2, <1>4, <2>1 DEF ListedEdges
<1>8. DOMAIN entries \subseteq Int
  BY <1>2, <1>4 DEF ListedEdges
<1>9. \A i \in DOMAIN entries : Dict(entries)[entries[i][1]] = entries[i][2]
  BY <1>7, <1>8, DictOfDistinct
<1>10. DOMAIN copy.links = DOMAIN fab.links
  <2>1. DOMAIN copy.links = {entries[i][1] : i \in DOMAIN entries}
    BY <1>1, DictKeys
  <2> QED
    BY <1>5, <1>6, <2>1
<1>11. \A l \in DOMAIN fab.links : copy.links[l] = fab.links[l]
  BY <1>1, <1>5, <1>6, <1>9
<1>12. copy.links = [l \in DOMAIN copy.links |-> copy.links[l]]
  BY <1>1, DictEntries
<1>13. fab.links = [l \in DOMAIN fab.links |-> fab.links[l]]
  BY DEF Structured, LinksSound
<1> QED
  BY <1>10, <1>11, <1>12, <1>13


LEMMA ReadBackDomains ==
  ASSUME NEW fab, Structured(fab), ~Unwritable(fab), NEW file, file = Emitted(fab), NEW copy, copy = Parsed(file)
  PROVE  /\ copy.domains = fab.domains
         /\ Membered(fab) => copy.gpuDomain = fab.gpuDomain
<1> DEFINE entries == DomainEntries(file)
<1>1. copy.domains = Dict(entries) /\ copy.gpuDomain = DomainOfGpu(file)
  BY EmittedReadable, ParsedParts DEF Readable
<1>2. ListedDomains(fab, file)
  BY EmittedDomains
<1>3. ASSUME NEW d \in DOMAIN fab.domains
      PROVE  /\ DomainIn(fab, d).id = d
             /\ {At(file, n) : n \in DomainIn(fab, d).members} = fab.domains[d]
  <2>1. fab.domains[d] \subseteq NodesIn(fab)
    BY DEF Gpus, Structured, DomainsSound, NodesIn, MachineNodes
  <2>2. \A g \in fab.domains[d] : At(file, NameOf(g)) = g
    BY <2>1, EmittedNames
  <2>3. DomainIn(fab, d).members = {NameOf(g) : g \in fab.domains[d]}
    BY DEF DomainIn, MembersOf
  <2>4. DomainIn(fab, d).id = d
    BY DEF DomainIn
  <2> QED
    BY <2>2, <2>3, <2>4
<1>4. /\ DOMAIN entries = DOMAIN file.domains
      /\ \A i \in DOMAIN file.domains : /\ entries[i][1] = file.domains[i].id
                                        /\ entries[i][2] = NodeMembers(file, i)
  BY DEF DomainEntries
<1> HIDE DEF entries
<1>5. \A i \in DOMAIN file.domains :
         /\ file.domains[i].id \in DOMAIN fab.domains
         /\ NodeMembers(file, i) = fab.domains[file.domains[i].id]
  <2> TAKE i \in DOMAIN file.domains
  <2>1. PICK d \in DOMAIN fab.domains : file.domains[i] = DomainIn(fab, d)
    BY <1>2 DEF ListedDomains
  <2>2. NodeMembers(file, i) = {At(file, n) : n \in DomainIn(fab, d).members}
    BY <2>1 DEF NodeMembers
  <2> QED
    BY <1>3, <2>1, <2>2
<1>6. \A d \in DOMAIN fab.domains : \E i \in DOMAIN file.domains : file.domains[i].id = d
  <2> TAKE d \in DOMAIN fab.domains
  <2>1. PICK i \in DOMAIN file.domains : file.domains[i] = DomainIn(fab, d)
    BY <1>2 DEF ListedDomains
  <2> QED
    BY <1>3, <2>1
<1>7. copy.domains = fab.domains
  <2>1. \A i, j \in DOMAIN entries : entries[i][1] = entries[j][1] => i = j
    BY <1>2, <1>4 DEF ListedDomains
  <2>2. DOMAIN entries \subseteq Int
    BY <1>2, <1>4 DEF ListedDomains
  <2>3. \A i \in DOMAIN entries : Dict(entries)[entries[i][1]] = entries[i][2]
    BY <2>1, <2>2, DictOfDistinct
  <2>4. DOMAIN copy.domains = {entries[i][1] : i \in DOMAIN entries}
    BY <1>1, DictKeys
  <2>5. DOMAIN copy.domains = DOMAIN fab.domains
    BY <1>4, <1>5, <1>6, <2>4
  <2>6. \A d \in DOMAIN fab.domains : copy.domains[d] = fab.domains[d]
    BY <1>1, <1>4, <1>5, <1>6, <2>3
  <2>7. copy.domains = [d \in DOMAIN copy.domains |-> copy.domains[d]]
    BY <1>1, DictEntries
  <2>8. fab.domains = [d \in DOMAIN fab.domains |-> fab.domains[d]]
    BY DEF Structured, DomainsSound
  <2> QED
    BY <2>5, <2>6, <2>7, <2>8
<1>8. ASSUME Membered(fab) PROVE copy.gpuDomain = fab.gpuDomain
  <2>1. /\ fab.gpuDomain = [g \in UNION Range(fab.domains) |-> fab.gpuDomain[g]]
        /\ \A d \in DOMAIN fab.domains : \A g \in fab.domains[d] : fab.gpuDomain[g] = d
    BY <1>8 DEF Membered
  <2>2. UNION {NodeMembers(file, i) : i \in DOMAIN file.domains} = UNION Range(fab.domains)
    <3>1. ASSUME NEW i \in DOMAIN file.domains PROVE NodeMembers(file, i) \in Range(fab.domains)
      BY <1>5 DEF Range
    <3>2. ASSUME NEW d \in DOMAIN fab.domains
          PROVE  \E i \in DOMAIN file.domains : NodeMembers(file, i) = fab.domains[d]
      BY <1>5, <1>6
    <3> QED
      BY <3>1, <3>2 DEF Range
  <2>3. ASSUME NEW g \in UNION {NodeMembers(file, i) : i \in DOMAIN file.domains}
        PROVE  file.domains[Max(EntriesWith(file, g))].id = fab.gpuDomain[g]
    <3> DEFINE i == Max(EntriesWith(file, g))
    <3>1. EntriesWith(file, g) # {}
      BY DEF EntriesWith
    <3>2. i \in DOMAIN file.domains /\ g \in NodeMembers(file, i)
      BY <3>1, LastEntry, EmittedReadable DEF Readable
    <3> HIDE DEF i
    <3>3. file.domains[i].id = fab.gpuDomain[g]
      BY <1>5, <2>1, <3>2
    <3> QED
      BY <3>3 DEF i
  <2> QED
    BY <1>1, <2>1, <2>2, <2>3 DEF DomainOfGpu
<1> QED
  BY <1>7, <1>8

(* Every GPU has at most one NIC that it has a link to. *)
OneNic(fab) == \A k, l \in Uplinks(fab) : k[1] = l[1] => k = l

LEMMA ReadNics ==
  ASSUME NEW fab, Structured(fab), ~Unwritable(fab), NEW file, file = Emitted(fab), Accepted(file),
         NEW copy, copy = Parsed(file)
  PROVE  /\ OneNic(fab) => copy.gpuNic = fab.gpuNic
         /\ OneNicPerGpu(file) => OneNic(fab)
<1>1. copy.links = fab.links
  BY ReadLinks
<1>2. Uplinks(copy) = Uplinks(fab)
  BY <1>1 DEF Uplinks
<1>3. /\ NicsSound(copy) /\ NicsSound(fab)
      /\ Uplinks(copy) = {EndsOf(file, file.edges[i]) : i \in {i \in DOMAIN file.edges : Binds(file.edges[i])}}
  BY EmittedReadable, ParsedNics DEF Structured
<1>4. ASSUME OneNic(fab) PROVE copy.gpuNic = fab.gpuNic
  <2>1. /\ copy.gpuNic = [g \in {l[1] : l \in Uplinks(fab)} |-> copy.gpuNic[g]]
        /\ fab.gpuNic = [g \in {l[1] : l \in Uplinks(fab)} |-> fab.gpuNic[g]]
    BY <1>2, <1>3 DEF NicsSound
  <2>2. ASSUME NEW g \in {l[1] : l \in Uplinks(fab)} PROVE copy.gpuNic[g] = fab.gpuNic[g]
    <3>1. <<g, copy.gpuNic[g]>> \in Uplinks(fab) /\ <<g, fab.gpuNic[g]>> \in Uplinks(fab)
      BY <1>2, <1>3, <2>1 DEF NicsSound
    <3>2. <<g, copy.gpuNic[g]>> = <<g, fab.gpuNic[g]>>
      BY <1>4, <3>1 DEF OneNic
    <3> QED
      BY <3>2
  <2> QED
    BY <2>1, <2>2
<1>5. ASSUME OneNicPerGpu(file) PROVE OneNic(fab)
  <2> SUFFICES ASSUME NEW k \in Uplinks(fab), NEW l \in Uplinks(fab), k[1] = l[1] PROVE k = l
    BY DEF OneNic
  <2>1. PICK i \in DOMAIN file.edges : Binds(file.edges[i]) /\ k = EndsOf(file, file.edges[i])
    BY <1>2, <1>3
  <2>2. PICK j \in DOMAIN file.edges : Binds(file.edges[j]) /\ l = EndsOf(file, file.edges[j])
    BY <1>2, <1>3
  <2>3. At(file, file.edges[i].src) = At(file, file.edges[j].src)
    BY <2>1, <2>2 DEF EndsOf
  <2>4. /\ file.edges[i].src \in Names(file) /\ file.edges[j].src \in Names(file)
        /\ file.edges[i].src[3] # "asic"
    BY <2>1, EmittedReadable, AcceptedEdges DEF Binds
  <2>5. file.edges[i].src = file.edges[j].src
    BY <2>3, <2>4, EmittedReadable, AcceptedNames
  <2>6. file.edges[i].dst = file.edges[j].dst
    BY <1>5, <2>1, <2>2, <2>5 DEF OneNicPerGpu, Seen
  <2> QED
    BY <2>1, <2>2, <2>5, <2>6 DEF EndsOf
<1> QED
  BY <1>4, <1>5

LEMMA ReadBack ==
  ASSUME NEW fab, Structured(fab), ~Unwritable(fab), NEW file, file = Emitted(fab), Accepted(file),
         NEW copy, copy = Parsed(file)
  PROVE  /\ Gpus(fab) = Gpus(copy) /\ ClassCounts(fab) = ClassCounts(copy)
         /\ Membered(fab) => Unbound(copy) = Unbound(fab)
         /\ Membered(fab) /\ OneNicPerGpu(file) => copy = fab
         /\ Membered(fab) /\ OneNic(fab) => copy = fab
<1>1. copy.machines = fab.machines /\ copy.links = fab.links /\ copy.domains = fab.domains
  BY ReadMachines, ReadLinks, ReadBackDomains
<1>2. Membered(fab) => copy.gpuDomain = fab.gpuDomain
  BY ReadBackDomains
<1>3. OneNic(fab) => copy.gpuNic = fab.gpuNic
  BY ReadNics
<1>4. FiveDicts(fab) /\ FiveDicts(copy)
  BY EmittedReadable, ParsedStructured DEF Structured
<1>5. Gpus(fab) = Gpus(copy) /\ ClassCounts(fab) = ClassCounts(copy)
  BY <1>1 DEF Gpus, ClassCounts
<1>6. ASSUME Membered(fab) PROVE Unbound(copy) = Unbound(fab)
  BY <1>1, <1>2, <1>4, <1>6 DEF FiveDicts, Unbound
<1>7. ASSUME Membered(fab), OneNic(fab) PROVE copy = fab
  BY <1>1, <1>2, <1>3, <1>4, <1>7 DEF FiveDicts
<1>8. OneNicPerGpu(file) => OneNic(fab)
  BY ReadNics
<1> QED
  BY <1>5, <1>6, <1>7, <1>8


-----------------------------------------------------------------------------
(***************************************************************************)
(* What is built: machines of the GPUs and NICs that the parameters say,   *)
(* and switches of a few numbers.                                          *)
(***************************************************************************)
LEMMA BuiltMachine ==
  ASSUME NEW p, MachinesAreBuilt(p), NEW m \in Nat
  PROVE  /\ IsFiniteSet(GpusOf(m, p)) /\ IsFiniteSet(NicsOf(m, p))
         /\ GpusOf(m, p) \cup NicsOf(m, p) # {}
         /\ \A n \in GpusOf(m, p) : n \in Node /\ IsGpu(n) /\ n[2] = m /\ n[3] \in Nat
         /\ \A n \in NicsOf(m, p) : n \in Node /\ IsNic(n) /\ n[2] = m /\ n[3] \in Nat
<1>1. p.gpus \in Nat /\ p.nics \in Nat /\ p.gpus + p.nics > 0
  BY DEF MachinesAreBuilt
<1>2. /\ \A n \in GpusOf(m, p) : n \in Node /\ IsGpu(n) /\ n[2] = m /\ n[3] \in Nat
      /\ \A n \in NicsOf(m, p) : n \in Node /\ IsNic(n) /\ n[2] = m /\ n[3] \in Nat
  BY <1>1 DEF GpusOf, NicsOf, Gpu, Nic, Node, IsGpu, IsNic
<1>3. IsFiniteSet(GpusOf(m, p))
  <2> DEFINE S == 0..(p.gpus - 1)
             gpu == [i \in S |-> Gpu(m, i)]
  <2>1. IsFiniteSet(S)
    BY <1>1, FS_Interval
  <2>2. gpu \in Surjection(S, GpusOf(m, p))
    BY DEF Surjection, GpusOf
  <2> QED
    BY <2>1, <2>2, FS_Surjection
<1>4. IsFiniteSet(NicsOf(m, p))
  <2> DEFINE S == 0..(p.nics - 1)
             nic == [i \in S |-> Nic(m, i)]
  <2>1. IsFiniteSet(S)
    BY <1>1, FS_Interval
  <2>2. nic \in Surjection(S, NicsOf(m, p))
    BY DEF Surjection, NicsOf
  <2> QED
    BY <2>1, <2>2, FS_Surjection
<1>5. GpusOf(m, p) \cup NicsOf(m, p) # {}
  <2>1. CASE p.gpus > 0
    <3>1. 0 \in 0..(p.gpus - 1)
      BY <1>1, <2>1
    <3>2. Gpu(m, 0) \in GpusOf(m, p)
      BY <3>1 DEF GpusOf
    <3> QED
      BY <3>2
  <2>2. CASE p.nics > 0
    <3>1. 0 \in 0..(p.nics - 1)
      BY <1>1, <2>2
    <3>2. Nic(m, 0) \in NicsOf(m, p)
      BY <3>1 DEF NicsOf
    <3> QED
      BY <3>2
  <2> QED
    BY <1>1, <2>1, <2>2
<1> QED
  BY <1>2, <1>3, <1>4, <1>5

(* Machines by number, of finitely many. *)
Numbered(mids) == mids \subseteq Nat /\ IsFiniteSet(mids)

Tiers(k) == {"leaf", "spine"} \X (0..k) \X {0}

BuiltNodes(mids, p, k) == GpusIn(mids, p) \cup NicsIn(mids, p) \cup Tiers(k)

LEMMA TiersAre ==
  ASSUME NEW k \in Nat
  PROVE  /\ \A n \in Tiers(k) : n \in Node /\ IsSwitch(n) /\ n[2] \in Nat
         /\ \A i \in 0..k : Switch("leaf", i) \in Tiers(k) /\ Switch("spine", i) \in Tiers(k)
         /\ IsFiniteSet(Tiers(k))
<1>1. \A n \in Tiers(k) : n \in Node /\ IsSwitch(n) /\ n[2] \in Nat
  BY DEF Tiers, Node, IsSwitch, IsGpu, IsNic
<1>2. \A i \in 0..k : Switch("leaf", i) \in Tiers(k) /\ Switch("spine", i) \in Tiers(k)
  BY DEF Tiers, Switch
<1>3. IsFiniteSet(Tiers(k))
  <2> DEFINE P == {"leaf", "spine"} \X (0..k)
             node == [x \in P |-> <<x[1], x[2], 0>>]
  <2>1. IsFiniteSet({"leaf"}) /\ IsFiniteSet({"spine"}) /\ IsFiniteSet(0..k)
    <3>1. \A x : IsFiniteSet({x})
      BY FS_Singleton
    <3>2. IsFiniteSet(0..k)
      BY FS_Interval
    <3> QED
      BY <3>1, <3>2
  <2>2. IsFiniteSet({"leaf"} \cup {"spine"})
    BY <2>1, FS_Union
  <2>3. {"leaf"} \cup {"spine"} = {"leaf", "spine"}
    OBVIOUS
  <2>4. IsFiniteSet(P)
    BY <2>1, <2>2, <2>3, FS_Product
  <2>5. node \in Surjection(P, Tiers(k))
    <3>1. \A x \in P : node[x] \in Tiers(k)
      BY DEF Tiers
    <3>2. ASSUME NEW n \in Tiers(k) PROVE \E x \in P : node[x] = n
      <4>1. n[1] \in {"leaf", "spine"} /\ n[2] \in 0..k /\ n = <<n[1], n[2], 0>>
        BY DEF Tiers
      <4>2. <<n[1], n[2]>> \in P /\ node[<<n[1], n[2]>>] = n
        BY <4>1
      <4> QED
        BY <4>2
    <3> QED
      BY <3>1, <3>2 DEF Surjection
  <2> QED
    BY <2>4, <2>5, FS_Surjection
<1> QED
  BY <1>1, <1>2, <1>3

LEMMA BuiltNodesAre ==
  ASSUME NEW p, MachinesAreBuilt(p), NEW mids, Numbered(mids), NEW k \in Nat
  PROVE  /\ IsFiniteSet(BuiltNodes(mids, p, k))
         /\ \A n \in GpusIn(mids, p) : n \in Node /\ IsGpu(n) /\ n[2] \in mids /\ n \in GpusOf(n[2], p)
         /\ \A n \in NicsIn(mids, p) : n \in Node /\ IsNic(n) /\ n[2] \in mids /\ n \in NicsOf(n[2], p)
         /\ \A n \in BuiltNodes(mids, p, k) :
                n \in Node /\ (~IsSwitch(n) => n \in GpusIn(mids, p) \cup NicsIn(mids, p))
<1>1. mids \subseteq Nat /\ IsFiniteSet(mids)
  BY DEF Numbered
<1>2. /\ \A n \in GpusIn(mids, p) : n \in Node /\ IsGpu(n) /\ n[2] \in mids /\ n \in GpusOf(n[2], p)
      /\ \A n \in NicsIn(mids, p) : n \in Node /\ IsNic(n) /\ n[2] \in mids /\ n \in NicsOf(n[2], p)
  BY <1>1, BuiltMachine DEF GpusIn, NicsIn
<1>3. IsFiniteSet(GpusIn(mids, p))
  <2> DEFINE gpus == [m \in mids |-> GpusOf(m, p)]
  <2>1. gpus \in Surjection(mids, Range(gpus))
    BY DEF Surjection, Range
  <2>2. IsFiniteSet(Range(gpus))
    BY <1>1, <2>1, FS_Surjection
  <2>3. \A T \in Range(gpus) : IsFiniteSet(T)
    <3>1. \A m \in mids : IsFiniteSet(GpusOf(m, p))
      BY <1>1, BuiltMachine
    <3> QED
      BY <3>1 DEF Range
  <2>4. GpusIn(mids, p) = UNION Range(gpus)
    BY DEF GpusIn, Range
  <2> QED
    BY <2>2, <2>3, <2>4, FS_UNION
<1>4. IsFiniteSet(NicsIn(mids, p))
  <2> DEFINE nics == [m \in mids |-> NicsOf(m, p)]
  <2>1. nics \in Surjection(mids, Range(nics))
    BY DEF Surjection, Range
  <2>2. IsFiniteSet(Range(nics))
    BY <1>1, <2>1, FS_Surjection
  <2>3. \A T \in Range(nics) : IsFiniteSet(T)
    <3>1. \A m \in mids : IsFiniteSet(NicsOf(m, p))
      BY <1>1, BuiltMachine
    <3> QED
      BY <3>1 DEF Range
  <2>4. NicsIn(mids, p) = UNION Range(nics)
    BY DEF NicsIn, Range
  <2> QED
    BY <2>2, <2>3, <2>4, FS_UNION
<1>5. IsFiniteSet(GpusIn(mids, p) \cup NicsIn(mids, p))
  BY <1>3, <1>4, FS_Union
<1>6. IsFiniteSet(BuiltNodes(mids, p, k))
  BY <1>5, TiersAre, FS_Union DEF BuiltNodes
<1>7. \A n \in BuiltNodes(mids, p, k) :
         n \in Node /\ (~IsSwitch(n) => n \in GpusIn(mids, p) \cup NicsIn(mids, p))
  BY <1>2, TiersAre DEF BuiltNodes
<1> QED
  BY <1>2, <1>6, <1>7

-----------------------------------------------------------------------------
(***************************************************************************)
(* Links are built in parts.  Of these, one has the links of the GPUs to   *)
(* the NICs they are bound to, and the others have no uplink.              *)
(***************************************************************************)
PartOn(nodes, part) ==
    /\ DOMAIN part \subseteq nodes \X nodes
    /\ part \in [DOMAIN part -> [class : Classes, bw : Nat \ {0}, lat : Nat]]

IsUplink(l) == IsGpu(l[1]) /\ IsNic(l[2])

NoUplinks(part) == \A l \in DOMAIN part : ~IsUplink(l)

Bound(part, binding) ==
    /\ \A g \in DOMAIN binding :
            /\ <<g, binding[g]>> \in DOMAIN part /\ IsUplink(<<g, binding[g]>>)
            /\ part[<<g, binding[g]>>].class = "egress"
    /\ \A l \in DOMAIN part : IsUplink(l) => l[1] \in DOMAIN binding /\ l = <<l[1], binding[l[1]]>>

LEMMA TwoWayPart ==
  ASSUME NEW nodes, NEW pairs, pairs \subseteq nodes \X nodes,
         NEW class \in Classes, NEW speed \in [bw : Nat \ {0}, lat : Nat]
  PROVE  PartOn(nodes, TwoWay(pairs, class, speed))
<1>1. [class |-> class, bw |-> speed.bw, lat |-> speed.lat] \in [class : Classes, bw : Nat \ {0}, lat : Nat]
  OBVIOUS
<1>2. pairs \cup {<<e[2], e[1]>> : e \in pairs} \subseteq nodes \X nodes
  OBVIOUS
<1> QED
  BY <1>1, <1>2 DEF TwoWay, PartOn

(* Links that do not join a GPU and a NIC. *)
LEMMA TwoWayPlain ==
  ASSUME NEW pairs, NEW class, NEW speed,
         \A e \in pairs : (IsGpu(e[1]) => ~IsNic(e[2])) /\ (IsGpu(e[2]) => ~IsNic(e[1]))
  PROVE  NoUplinks(TwoWay(pairs, class, speed))
<1>1. DOMAIN TwoWay(pairs, class, speed) = pairs \cup {<<e[2], e[1]>> : e \in pairs}
  BY DEF TwoWay
<1>2. \A l \in pairs \cup {<<e[2], e[1]>> : e \in pairs} : ~IsUplink(l)
  BY DEF IsUplink
<1> QED
  BY <1>1, <1>2 DEF NoUplinks

LEMMA TwoWayBound ==
  ASSUME NEW binding, \A g \in DOMAIN binding : IsGpu(g) /\ IsNic(binding[g]), NEW speed,
         NEW part, part = TwoWay({<<g, binding[g]>> : g \in DOMAIN binding}, "egress", speed)
  PROVE  Bound(part, binding)
<1> DEFINE pairs == {<<g, binding[g]>> : g \in DOMAIN binding}
<1>1. /\ DOMAIN part = pairs \cup {<<e[2], e[1]>> : e \in pairs}
      /\ \A l \in DOMAIN part : part[l].class = "egress"
  BY DEF TwoWay
<1>2. \A l \in {<<e[2], e[1]>> : e \in pairs} : ~IsUplink(l)
  BY DEF IsUplink, IsGpu, IsNic
<1>3. \A g \in DOMAIN binding : IsUplink(<<g, binding[g]>>)
  BY DEF IsUplink
<1>4. \A g \in DOMAIN binding : <<g, binding[g]>> \in pairs
  OBVIOUS
<1>5. \A l \in pairs : l[1] \in DOMAIN binding /\ l = <<l[1], binding[l[1]]>>
  OBVIOUS
<1> HIDE DEF pairs
<1>6. \A g \in DOMAIN binding : <<g, binding[g]>> \in DOMAIN part
  BY <1>1, <1>4
<1>7. \A l \in DOMAIN part : IsUplink(l) => l[1] \in DOMAIN binding /\ l = <<l[1], binding[l[1]]>>
  BY <1>1, <1>2, <1>5
<1> QED
  BY <1>1, <1>3, <1>6, <1>7 DEF Bound

LEMMA AddedPart ==
  ASSUME NEW nodes, NEW f, PartOn(nodes, f), NEW g, PartOn(nodes, g)
  PROVE  PartOn(nodes, Added(f, g))
<1>1. DOMAIN Added(f, g) \subseteq nodes \X nodes
  BY DEF PartOn, Added
<1>2. \A l \in DOMAIN Added(f, g) : Added(f, g)[l] \in [class : Classes, bw : Nat \ {0}, lat : Nat]
  BY DEF PartOn, Added
<1>3. Added(f, g) = [l \in DOMAIN Added(f, g) |-> Added(f, g)[l]]
  BY DEF Added
<1> QED
  BY <1>1, <1>2, <1>3 DEF PartOn

LEMMA AddedPlain ==
  ASSUME NEW f, NoUplinks(f), NEW g, NoUplinks(g)
  PROVE  NoUplinks(Added(f, g))
BY DEF NoUplinks, Added

LEMMA AddedBound ==
  ASSUME NEW binding, NEW f, NEW g,
         \/ Bound(f, binding) /\ NoUplinks(g)
         \/ NoUplinks(f) /\ Bound(g, binding)
  PROVE  Bound(Added(f, g), binding)
<1>1. /\ DOMAIN Added(f, g) = DOMAIN f \cup DOMAIN g
      /\ \A l \in DOMAIN Added(f, g) : Added(f, g)[l] = IF l \in DOMAIN g THEN g[l] ELSE f[l]
  BY DEF Added
<1> QED
  BY <1>1 DEF Bound, NoUplinks


(***************************************************************************)
(* An inventory with such links, and with domains that share no GPU.       *)
(***************************************************************************)
Separate(domains) ==
    \A c, d \in DOMAIN domains : \A g \in domains[c] \cap domains[d] : c = d

LEMMA InventorySound ==
  ASSUME NEW p, MachinesAreBuilt(p), NEW mids, Numbered(mids), NEW k \in Nat,
         NEW domains, domains \in [DOMAIN domains -> SUBSET GpusIn(mids, p)],
         Numbered(DOMAIN domains), Separate(domains),
         NEW binding, binding = [g \in DOMAIN binding |-> binding[g]],
         NEW links, PartOn(BuiltNodes(mids, p, k), links), Bound(links, binding),
         NEW fab, fab = Inventory(mids, p, domains, binding, links)
  PROVE  Structured(fab) /\ ~Unwritable(fab) /\ Membered(fab) /\ OneNic(fab)
<1> DEFINE nodes == BuiltNodes(mids, p, k)
<1>0. fab = [machines |-> [m \in mids |-> [gpus |-> GpusOf(m, p), nics |-> NicsOf(m, p)]],
             domains |-> domains,
             gpuDomain |-> [g \in UNION Range(domains) |-> CHOOSE d \in DOMAIN domains : g \in domains[d]],
             gpuNic |-> binding,
             links |-> links]
  BY DEF Inventory
<1>1. /\ fab.machines = [m \in mids |-> [gpus |-> GpusOf(m, p), nics |-> NicsOf(m, p)]]
      /\ fab.domains = domains /\ fab.gpuNic = binding /\ fab.links = links
      /\ fab.gpuDomain = [g \in UNION Range(domains) |-> CHOOSE d \in DOMAIN domains : g \in domains[d]]
  BY <1>0
<1>2. FiveDicts(fab)
  BY <1>0 DEF FiveDicts
<1>3. /\ DOMAIN fab.machines = mids
      /\ \A m \in mids : fab.machines[m].gpus = GpusOf(m, p) /\ fab.machines[m].nics = NicsOf(m, p)
  BY <1>1
<1>4. MachineNodes(fab) = GpusIn(mids, p) \cup NicsIn(mids, p) /\ Gpus(fab) = GpusIn(mids, p)
  <2>1. MachineNodes(fab) = UNION {GpusOf(m, p) \cup NicsOf(m, p) : m \in mids}
    BY <1>3 DEF MachineNodes
  <2>2. Gpus(fab) = GpusIn(mids, p)
    BY <1>3 DEF Gpus, GpusIn
  <2> QED
    BY <2>1, <2>2 DEF GpusIn, NicsIn
<1>5. MachinesSound(fab)
  <2>1. mids \subseteq Nat /\ IsFiniteSet(mids)
    BY DEF Numbered
  <2>2. fab.machines = [m \in DOMAIN fab.machines |->
                         [gpus |-> fab.machines[m].gpus, nics |-> fab.machines[m].nics]]
    BY <1>1, <1>3
  <2>3. \A m \in mids :
            /\ IsFiniteSet(GpusOf(m, p)) /\ IsFiniteSet(NicsOf(m, p))
            /\ GpusOf(m, p) \cup NicsOf(m, p) # {}
            /\ \A n \in GpusOf(m, p) : n \in Node /\ IsGpu(n) /\ n[2] = m
            /\ \A n \in NicsOf(m, p) : n \in Node /\ IsNic(n) /\ n[2] = m
    BY <2>1, BuiltMachine
  <2> QED
    BY <1>3, <2>1, <2>2, <2>3 DEF MachinesSound
<1>6. LinksSound(fab)
  <2>1. /\ IsFiniteSet(nodes)
        /\ \A n \in nodes : n \in Node /\ (~IsSwitch(n) => n \in GpusIn(mids, p) \cup NicsIn(mids, p))
    BY BuiltNodesAre
  <2>2. DOMAIN links \subseteq nodes \X nodes
    BY DEF PartOn
  <2> HIDE DEF nodes
  <2>3. IsFiniteSet(nodes \X nodes) /\ DOMAIN links \in SUBSET (nodes \X nodes)
    BY <2>1, <2>2, FS_Product
  <2>4. IsFiniteSet(DOMAIN links)
    BY <2>3, FS_Subset
  <2>5. DOMAIN links \subseteq Node \X Node
    BY <2>1, <2>2
  <2>6. Endpoints(fab) \subseteq nodes
    BY <1>1, <2>2 DEF Endpoints
  <2>7. \A n \in Endpoints(fab) : ~IsSwitch(n) => n \in MachineNodes(fab)
    BY <1>4, <2>1, <2>6
  <2> QED
    BY <1>1, <2>4, <2>5, <2>7 DEF LinksSound, PartOn
<1>7. DomainsSound(fab)
  BY <1>1, <1>4 DEF DomainsSound, Numbered
<1>8. Uplinks(fab) = {<<g, binding[g]>> : g \in DOMAIN binding}
  <2>1. \A l \in Uplinks(fab) : l[1] \in DOMAIN binding /\ l = <<l[1], binding[l[1]]>>
    BY <1>1 DEF Uplinks, Bound, IsUplink
  <2>2. \A g \in DOMAIN binding : <<g, binding[g]>> \in Uplinks(fab)
    BY <1>1 DEF Uplinks, Bound, IsUplink
  <2> QED
    BY <2>1, <2>2
<1>9. NicsSound(fab)
  <2>1. {l[1] : l \in Uplinks(fab)} = DOMAIN binding
    <3>1. \A l \in Uplinks(fab) : l[1] \in DOMAIN binding
      BY <1>8
    <3>2. ASSUME NEW g \in DOMAIN binding PROVE \E l \in Uplinks(fab) : l[1] = g
      <4>1. <<g, binding[g]>> \in Uplinks(fab)
        BY <1>8
      <4>2. <<g, binding[g]>>[1] = g
        OBVIOUS
      <4> QED
        BY <4>1, <4>2
    <3> QED
      BY <3>1, <3>2
  <2> QED
    BY <1>1, <1>8, <2>1 DEF NicsSound
<1>10. OneNic(fab)
  BY <1>8 DEF OneNic
<1>11. Membered(fab)
  <2>1. ASSUME NEW d \in DOMAIN domains, NEW g \in domains[d]
        PROVE  (CHOOSE c \in DOMAIN domains : g \in domains[c]) = d
    BY DEF Separate
  <2>2. \A g \in UNION Range(domains) :
            (CHOOSE c \in DOMAIN domains : g \in domains[c]) \in DOMAIN domains
    BY <2>1 DEF Range
  <2>3. \A d \in DOMAIN domains : \A g \in domains[d] : g \in UNION Range(domains)
    BY DEF Range
  <2>4. fab.gpuDomain \in [UNION Range(domains) -> DOMAIN domains]
    BY <1>1, <2>2
  <2>5. \A d \in DOMAIN domains : \A g \in domains[d] : fab.gpuDomain[g] = d
    BY <1>1, <2>1, <2>3
  <2> QED
    BY <1>1, <2>4, <2>5 DEF Membered
<1>12. ~Unwritable(fab)
  <2>1. mids \subseteq Nat /\ DOMAIN domains \subseteq Nat
    BY DEF Numbered
  <2>2. ~Mixed(DOMAIN fab.machines) /\ ~Mixed(DOMAIN fab.domains)
    BY <1>1, <1>3, <2>1, NumbersUnmixed
  <2>3. ASSUME NEW m \in mids
        PROVE  ~Mixed({n[3] : n \in GpusOf(m, p)}) /\ ~Mixed({n[3] : n \in NicsOf(m, p)})
    <3>1. {n[3] : n \in GpusOf(m, p)} \subseteq Nat /\ {n[3] : n \in NicsOf(m, p)} \subseteq Nat
      BY <2>1, BuiltMachine
    <3> QED
      BY <3>1, NumbersUnmixed
  <2>4. ASSUME NEW tier \in {"leaf", "spine"} PROVE ~Mixed(SwitchIndices(fab, tier))
    <3>1. Endpoints(fab) \subseteq nodes
      BY <1>1 DEF Endpoints, PartOn
    <3>2. \A n \in nodes : n[1] = tier => n[2] \in Nat
      BY BuiltNodesAre, TiersAre DEF BuiltNodes, IsGpu, IsNic
    <3> HIDE DEF nodes
    <3>3. SwitchIndices(fab, tier) \subseteq Nat
      BY <3>1, <3>2 DEF SwitchIndices
    <3> QED
      BY <3>3, NumbersUnmixed
  <2> QED
    BY <1>3, <2>2, <2>3, <2>4 DEF Unwritable
<1> QED
  BY <1>2, <1>5, <1>6, <1>7, <1>9, <1>10, <1>11, <1>12 DEF Structured


-----------------------------------------------------------------------------
(***************************************************************************)
(* The speeds, and the numbers of switches.                                *)
(***************************************************************************)
Speeds == [bw : Nat \ {0}, lat : Nat]

LEMMA SpeedsAre ==
  /\ ScaleUp \in Speeds /\ ScaleOut \in Speeds /\ Egress \in Speeds
  /\ \A b \in Nat \ {0} : [ScaleOut EXCEPT !.bw = b] \in Speeds
  /\ [ScaleOut EXCEPT !.bw = 4 * @] \in Speeds
<1>1. ScaleUp \in Speeds /\ ScaleOut \in Speeds
  BY SpeedsType DEF Speeds
<1>2. Egress \in Speeds
  <2>1. NicGbps \in Nat \ {0} /\ (NicGbps % 8) = 0 /\ EgressLat \in Nat
    BY NicGbpsType
  <2>2. NicGbps \div 8 \in Nat \ {0}
    BY <2>1
  <2> QED
    BY <2>1, <2>2 DEF Egress, Speeds
<1>3. \A b \in Nat \ {0} : [ScaleOut EXCEPT !.bw = b] \in Speeds
  BY <1>1 DEF Speeds
<1>4. 4 * ScaleOut.bw \in Nat \ {0}
  BY <1>1 DEF Speeds
<1>5. [ScaleOut EXCEPT !.bw = 4 * @] \in Speeds
  BY <1>1, <1>4 DEF Speeds
<1> QED
  BY <1>1, <1>2, <1>3, <1>5

QuotientBelow(m, a, b) == b > 0 /\ m \div b \in 0..(a - 1)

LEMMA QuotientIsBelow ==
  ASSUME NEW a \in Nat, NEW b \in Nat, NEW m \in 0..(a * b - 1)
  PROVE  QuotientBelow(m, a, b)
<1>1. a * b \in Nat /\ m \in Nat /\ m < a * b
  OBVIOUS
<1>2. b > 0
  <2>1. CASE b = 0
    <3>1. a * b = 0
      BY <2>1
    <3> QED
      BY <1>1, <3>1
  <2> QED
    BY <2>1
<1> DEFINE q == m \div b
<1>3. q \in Nat /\ b * q <= m
  <2>1. /\ m \div b \in Nat /\ (m % b) \in 0..(b - 1)
        /\ m = (b * (m \div b)) + (m % b)
    BY <1>1, <1>2, DivMod
  <2>2. b * (m \div b) \in Nat /\ (m % b) \in Nat
    BY <2>1
  <2> QED
    BY <1>1, <2>1, <2>2
<1> HIDE DEF q
<1>4. q < a
  <2> SUFFICES ASSUME q >= a PROVE FALSE
    BY <1>3
  <2>1. PICK d \in Nat : q = a + d
    BY <1>3
  <2>2. b * q = (a * b) + (b * d) /\ b * d \in Nat
    BY <2>1
  <2> QED
    BY <1>1, <1>3, <2>2
<1>5. q \in 0..(a - 1)
  BY <1>3, <1>4
<1> QED
  BY <1>2, <1>5 DEF q, QuotientBelow


-----------------------------------------------------------------------------
(***************************************************************************)
(* The platforms.                                                          *)
(***************************************************************************)
Sound(fab) == Structured(fab) /\ ~Unwritable(fab) /\ Membered(fab) /\ OneNic(fab)

LEMMA BoundGpus ==
  ASSUME NEW p, MachinesAreBuilt(p), NEW mids, Numbered(mids), NEW binding, binding = Binding(mids, p)
  PROVE  /\ binding = [g \in DOMAIN binding |-> binding[g]]
         /\ \A g \in DOMAIN binding :
                /\ g \in GpusIn(mids, p) /\ binding[g] \in NicsIn(mids, p)
                /\ IsGpu(g) /\ IsNic(binding[g])
<1>1. /\ DOMAIN binding = IF p.nics = 0 THEN {} ELSE GpusIn(mids, p)
      /\ \A g \in DOMAIN binding : binding[g] = Nic(g[2], g[3] % p.nics)
      /\ binding = [g \in DOMAIN binding |-> binding[g]]
  BY DEF Binding
<1>2. ASSUME NEW g \in DOMAIN binding
      PROVE  /\ g \in GpusIn(mids, p) /\ binding[g] \in NicsIn(mids, p)
             /\ IsGpu(g) /\ IsNic(binding[g])
  <2>1. g \in GpusIn(mids, p) /\ p.nics \in Nat /\ p.nics # 0
    BY <1>1 DEF MachinesAreBuilt
  <2>2. g \in Node /\ IsGpu(g) /\ g[2] \in mids
    BY <2>1, BuiltNodesAre
  <2>3. g[3] \in Nat
    <3>1. g[2] \in Nat /\ g \in GpusOf(g[2], p)
      BY <2>1, BuiltNodesAre DEF Numbered
    <3> QED
      BY <3>1, BuiltMachine
  <2>4. (g[3] % p.nics) \in 0..(p.nics - 1)
    BY <2>1, <2>3, DivMod
  <2>5. binding[g] \in NicsOf(g[2], p)
    BY <1>1, <2>4 DEF NicsOf
  <2>6. binding[g] \in NicsIn(mids, p)
    BY <2>2, <2>5 DEF NicsIn
  <2> QED
    BY <2>1, <2>2, <2>6, BuiltNodesAre
<1> QED
  BY <1>1, <1>2

LEMMA AssembledSound ==
  ASSUME NEW p, MachinesAreBuilt(p), NEW mids, Numbered(mids), NEW k \in Nat,
         NEW domains, domains \in [DOMAIN domains -> SUBSET GpusIn(mids, p)],
         Numbered(DOMAIN domains), Separate(domains),
         NEW scaleOut, PartOn(BuiltNodes(mids, p, k), scaleOut), NoUplinks(scaleOut)
  PROVE  Sound(Assembled(mids, p, domains, scaleOut))
<1> DEFINE nodes == BuiltNodes(mids, p, k)
           binding == Binding(mids, p)
           mesh == UNION {Meshed(domains[d]) : d \in DOMAIN domains}
           egress == EgressLinks(binding)
           meshed == TwoWay(mesh, "scale_up", ScaleUp)
           links == Added(Added(egress, meshed), scaleOut)
<1>1. Assembled(mids, p, domains, scaleOut) = Inventory(mids, p, domains, binding, links)
  BY DEF Assembled
<1>2. /\ GpusIn(mids, p) \subseteq nodes /\ NicsIn(mids, p) \subseteq nodes
      /\ \A g \in GpusIn(mids, p) : IsGpu(g) /\ ~IsNic(g)
  BY BuiltNodesAre DEF BuiltNodes, IsGpu, IsNic
<1>3. /\ binding = [g \in DOMAIN binding |-> binding[g]]
      /\ \A g \in DOMAIN binding :
                /\ g \in GpusIn(mids, p) /\ binding[g] \in NicsIn(mids, p)
                /\ IsGpu(g) /\ IsNic(binding[g])
  BY BoundGpus
<1> HIDE DEF binding
<1>4. PartOn(nodes, egress) /\ Bound(egress, binding)
  <2> DEFINE pairs == {<<g, binding[g]>> : g \in DOMAIN binding}
  <2>1. egress = TwoWay(pairs, "egress", Egress)
    BY DEF EgressLinks
  <2>2. pairs \subseteq nodes \X nodes
    BY <1>2, <1>3
  <2>3. "egress" \in Classes /\ Egress \in [bw : Nat \ {0}, lat : Nat]
    BY SpeedsAre DEF Classes, Speeds
  <2>4. Bound(egress, binding)
    BY <1>3, <2>1, TwoWayBound
  <2> HIDE DEF pairs, egress, nodes
  <2>5. PartOn(nodes, egress)
    BY <2>1, <2>2, <2>3, TwoWayPart
  <2> QED
    BY <2>4, <2>5
<1>5. PartOn(nodes, meshed) /\ NoUplinks(meshed)
  <2>1. \A e \in mesh : e[1] \in GpusIn(mids, p) /\ e[2] \in GpusIn(mids, p) /\ e = <<e[1], e[2]>>
    BY DEF Meshed
  <2>2. mesh \subseteq nodes \X nodes
    BY <1>2, <2>1
  <2>3. \A e \in mesh : (IsGpu(e[1]) => ~IsNic(e[2])) /\ (IsGpu(e[2]) => ~IsNic(e[1]))
    BY <1>2, <2>1
  <2>4. "scale_up" \in Classes /\ ScaleUp \in [bw : Nat \ {0}, lat : Nat]
    BY SpeedsAre DEF Classes, Speeds
  <2> HIDE DEF mesh, nodes
  <2> QED
    BY <2>2, <2>3, <2>4, TwoWayPart, TwoWayPlain
<1> HIDE DEF egress, meshed, nodes
<1>6. PartOn(nodes, links) /\ Bound(links, binding)
  <2>1. PartOn(nodes, Added(egress, meshed)) /\ Bound(Added(egress, meshed), binding)
    BY <1>4, <1>5, AddedPart, AddedBound
  <2>2. PartOn(nodes, scaleOut)
    BY DEF nodes
  <2> QED
    BY <2>1, <2>2, AddedPart, AddedBound
<1> HIDE DEF links
<1>7. PartOn(BuiltNodes(mids, p, k), links)
  BY <1>6 DEF nodes
<1> QED
  BY <1>1, <1>3, <1>6, <1>7, InventorySound DEF Sound

(* Every NIC of the machines is linked to a switch of those that there are. *)
LEMMA NicLinks ==
  ASSUME NEW p, MachinesAreBuilt(p), NEW mids, Numbered(mids), NEW k \in Nat,
         NEW leaf, \A m \in mids : leaf[m] \in Tiers(k), NEW part,
         part = TwoWay({<<n, leaf[n[2]]>> : n \in NicsIn(mids, p)}, "scale_out", ScaleOut)
  PROVE  PartOn(BuiltNodes(mids, p, k), part) /\ NoUplinks(part)
<1> DEFINE pairs == {<<n, leaf[n[2]]>> : n \in NicsIn(mids, p)}
           nodes == BuiltNodes(mids, p, k)
<1>1. \A n \in NicsIn(mids, p) : n \in nodes /\ leaf[n[2]] \in nodes
                                 /\ IsNic(n) /\ IsSwitch(leaf[n[2]])
  BY BuiltNodesAre, TiersAre DEF BuiltNodes
<1>2. pairs \subseteq nodes \X nodes
  BY <1>1
<1>3. \A e \in pairs : (IsGpu(e[1]) => ~IsNic(e[2])) /\ (IsGpu(e[2]) => ~IsNic(e[1]))
  BY <1>1 DEF IsSwitch, IsNic, IsGpu
<1>4. "scale_out" \in Classes /\ ScaleOut \in [bw : Nat \ {0}, lat : Nat]
  BY SpeedsAre DEF Classes, Speeds
<1>5. part = TwoWay(pairs, "scale_out", ScaleOut)
  OBVIOUS
<1> HIDE DEF pairs, nodes
<1>6. PartOn(nodes, part) /\ NoUplinks(part)
  BY <1>2, <1>3, <1>4, <1>5, TwoWayPart, TwoWayPlain
<1> QED
  BY <1>6 DEF nodes


LEMMA IntervalNumbered ==
  ASSUME NEW n \in Int
  PROVE  Numbered(0..(n - 1))
BY FS_Interval DEF Numbered

LEMMA MachineDomains ==
  ASSUME NEW p, MachinesAreBuilt(p), NEW mids, Numbered(mids),
         NEW domains, domains = [m \in mids |-> GpusOf(m, p)]
  PROVE  /\ domains \in [DOMAIN domains -> SUBSET GpusIn(mids, p)]
         /\ Numbered(DOMAIN domains) /\ Separate(domains)
<1>1. DOMAIN domains = mids /\ \A m \in mids : domains[m] = GpusOf(m, p)
  OBVIOUS
<1>2. \A m \in mids : GpusOf(m, p) \subseteq GpusIn(mids, p)
  BY DEF GpusIn
<1>3. \A m \in mids : \A g \in GpusOf(m, p) : g[2] = m
  BY BuiltMachine DEF Numbered
<1>4. Separate(domains)
  BY <1>1, <1>3 DEF Separate
<1> QED
  BY <1>1, <1>2, <1>4

LEMMA NodeScaleSound ==
  ASSUME NEW p, MachinesAreBuilt(p), p.machines \in Nat
  PROVE  Sound(NodeScale(p))
<1> DEFINE mids == 0..(p.machines - 1)
           domains == [m \in mids |-> GpusOf(m, p)]
           leaf == [m \in mids |-> Switch("leaf", 0)]
           scaleOut == TwoWay({<<n, Switch("leaf", 0)>> : n \in NicsIn(mids, p)},
                              "scale_out", ScaleOut)
<1>1. NodeScale(p) = Assembled(mids, p, domains, scaleOut)
  BY DEF NodeScale
<1>2. Numbered(mids)
  BY IntervalNumbered
<1> HIDE DEF mids
<1>3. /\ domains \in [DOMAIN domains -> SUBSET GpusIn(mids, p)]
      /\ Numbered(DOMAIN domains) /\ Separate(domains)
  BY <1>2, MachineDomains
<1>4. PICK k \in Nat : k = 0
  OBVIOUS
<1>5. \A m \in mids : leaf[m] \in Tiers(k)
  BY <1>4, TiersAre
<1>6. scaleOut = TwoWay({<<n, leaf[n[2]]>> : n \in NicsIn(mids, p)}, "scale_out", ScaleOut)
  <2>1. \A n \in NicsIn(mids, p) : leaf[n[2]] = Switch("leaf", 0)
    BY <1>2, BuiltNodesAre
  <2>2. {<<n, Switch("leaf", 0)>> : n \in NicsIn(mids, p)} = {<<n, leaf[n[2]]>> : n \in NicsIn(mids, p)}
    BY <2>1
  <2> QED
    BY <2>2
<1> HIDE DEF domains, leaf, scaleOut
<1>7. PartOn(BuiltNodes(mids, p, k), scaleOut) /\ NoUplinks(scaleOut)
  BY <1>2, <1>4, <1>5, <1>6, NicLinks
<1> QED
  BY <1>1, <1>2, <1>3, <1>4, <1>7, AssembledSound

LEMMA RackScaleSound ==
  ASSUME NEW p, MachinesAreBuilt(p), p.racks \in Nat, p.trays \in Nat
  PROVE  Sound(RackScale(p))
<1> DEFINE mids == 0..(p.racks * p.trays - 1)
           racks == 0..(p.racks - 1)
           mine(r) == {m \in mids : m \div p.trays = r}
           domains == [r \in racks |-> GpusIn(mine(r), p)]
           leaf == [m \in mids |-> Switch("leaf", m \div p.trays)]
           toLeaf == TwoWay({<<n, Switch("leaf", n[2] \div p.trays)>> : n \in NicsIn(mids, p)},
                            "scale_out", ScaleOut)
           pairs == IF p.racks > 1 THEN {<<Switch("leaf", r), Switch("spine", 0)>> : r \in racks}
                    ELSE {}
           toSpine == TwoWay(pairs, "scale_out", [ScaleOut EXCEPT !.bw = 4 * @])
<1>1. RackScale(p) = Assembled(mids, p, domains, Added(toLeaf, toSpine))
  BY DEF RackScale
<1>2. Numbered(mids) /\ Numbered(racks)
  BY IntervalNumbered
<1>3. \A m \in mids : m \div p.trays \in racks
  <2> TAKE m \in mids
  <2>1. QuotientBelow(m, p.racks, p.trays)
    BY QuotientIsBelow
  <2> QED
    BY <2>1 DEF QuotientBelow
<1>4. racks \subseteq 0..p.racks /\ 0 \in 0..p.racks
  OBVIOUS
<1> HIDE DEF mids, racks
<1>5. /\ domains \in [DOMAIN domains -> SUBSET GpusIn(mids, p)]
      /\ Numbered(DOMAIN domains) /\ Separate(domains)
  <2>1. \A r \in racks : GpusIn(mine(r), p) \subseteq GpusIn(mids, p)
    BY DEF GpusIn
  <2>2. \A r \in racks : \A g \in GpusIn(mine(r), p) : g[2] \div p.trays = r
    <3>1. \A m \in mids : \A g \in GpusOf(m, p) : g[2] = m
      BY <1>2, BuiltMachine DEF Numbered
    <3> QED
      BY <3>1 DEF GpusIn
  <2>3. DOMAIN domains = racks /\ \A r \in racks : domains[r] = GpusIn(mine(r), p)
    OBVIOUS
  <2> HIDE DEF mine
  <2>4. Separate(domains)
    BY <2>2, <2>3 DEF Separate
  <2> QED
    BY <1>2, <2>1, <2>3, <2>4
<1>6. PICK k \in Nat : k = p.racks
  OBVIOUS
<1>7. \A m \in mids : leaf[m] \in Tiers(k)
  BY <1>3, <1>4, <1>6, TiersAre
<1>8. toLeaf = TwoWay({<<n, leaf[n[2]]>> : n \in NicsIn(mids, p)}, "scale_out", ScaleOut)
  <2>1. \A n \in NicsIn(mids, p) : leaf[n[2]] = Switch("leaf", n[2] \div p.trays)
    BY <1>2, BuiltNodesAre
  <2>2. {<<n, Switch("leaf", n[2] \div p.trays)>> : n \in NicsIn(mids, p)}
            = {<<n, leaf[n[2]]>> : n \in NicsIn(mids, p)}
    BY <2>1
  <2> QED
    BY <2>2
<1> DEFINE nodes == BuiltNodes(mids, p, k)
<1>9. PartOn(nodes, toSpine) /\ NoUplinks(toSpine)
  <2>1. \A e \in pairs : e \in nodes \X nodes /\ IsSwitch(e[1]) /\ IsSwitch(e[2])
    BY <1>4, <1>6, TiersAre DEF BuiltNodes
  <2>2. pairs \subseteq nodes \X nodes
    BY <2>1
  <2>3. \A e \in pairs : (IsGpu(e[1]) => ~IsNic(e[2])) /\ (IsGpu(e[2]) => ~IsNic(e[1]))
    BY <2>1 DEF IsSwitch
  <2>4. "scale_out" \in Classes /\ [ScaleOut EXCEPT !.bw = 4 * @] \in [bw : Nat \ {0}, lat : Nat]
    BY SpeedsAre DEF Classes, Speeds
  <2> HIDE DEF pairs, nodes
  <2> QED
    BY <2>2, <2>3, <2>4, TwoWayPart, TwoWayPlain
<1> HIDE DEF domains, leaf, toLeaf, toSpine, nodes
<1>10. PartOn(nodes, toLeaf) /\ NoUplinks(toLeaf)
  BY <1>2, <1>6, <1>7, <1>8, NicLinks DEF nodes
<1> DEFINE scaleOut == Added(toLeaf, toSpine)
<1>11. PartOn(nodes, scaleOut) /\ NoUplinks(scaleOut)
  BY <1>9, <1>10, AddedPart, AddedPlain
<1> HIDE DEF scaleOut
<1>12. Sound(Assembled(mids, p, domains, scaleOut))
  BY <1>2, <1>5, <1>6, <1>11, AssembledSound DEF nodes
<1> QED
  BY <1>1, <1>12 DEF scaleOut


(***************************************************************************)
(* The machines of a blueprint are wired as those of build_node_scale.     *)
(***************************************************************************)
Peers(mids, p) ==
    LET gpuIndices == 0..(p.gpus - 1)
    IN  {<<Gpu(e[1], e[2]), Gpu(e[1], e[3])>> : e \in {e \in mids \X gpuIndices \X gpuIndices : e[2] < e[3]}}

ToLeaf(leaf, mids, p) == TwoWay({<<n, leaf[n[2]]>> : n \in NicsIn(mids, p)}, "scale_out", ScaleOut)

WiredLinks(leaf, mids, p) ==
    Added(Added(TwoWay(Peers(mids, p), "scale_up", ScaleUp), EgressLinks(Binding(mids, p))),
          ToLeaf(leaf, mids, p))

LEMMA WiredIs ==
  ASSUME NEW p, MachinesAreBuilt(p), NEW leaf, NEW mids, mids = DOMAIN leaf, Numbered(mids)
  PROVE  WiredMachines(leaf, p) =
            Inventory(mids, p, [m \in mids |-> GpusOf(m, p)], Binding(mids, p), WiredLinks(leaf, mids, p))
<1> DEFINE gpuIndices == 0..(p.gpus - 1)
           bound == IF p.nics = 0 THEN {} ELSE mids \X gpuIndices
           wired == [g \in {Gpu(e[1], e[2]) : e \in bound} |-> Nic(g[2], NicIndex(g[3], p))]
           pairs == {<<Gpu(e[1], e[2]), Nic(e[1], NicIndex(e[2], p))>> : e \in bound}
           binding == Binding(mids, p)
<1>1. WiredMachines(leaf, p) =
        Inventory(mids, p, [m \in mids |-> GpusOf(m, p)], wired,
            Added(Added(TwoWay(Peers(mids, p), "scale_up", ScaleUp), TwoWay(pairs, "egress", Egress)),
                  ToLeaf(leaf, mids, p)))
  BY DEF WiredMachines, Peers, ToLeaf
<1>2. \A e \in mids \X gpuIndices : Gpu(e[1], e[2])[2] = e[1] /\ Gpu(e[1], e[2])[3] = e[2]
  BY DEF Gpu
<1>3. {Gpu(e[1], e[2]) : e \in mids \X gpuIndices} = GpusIn(mids, p)
  <2>1. ASSUME NEW e \in mids \X gpuIndices PROVE Gpu(e[1], e[2]) \in GpusIn(mids, p)
    <3>1. Gpu(e[1], e[2]) \in GpusOf(e[1], p)
      BY DEF GpusOf
    <3> QED
      BY <3>1 DEF GpusIn
  <2>2. ASSUME NEW g \in GpusIn(mids, p) PROVE \E e \in mids \X gpuIndices : g = Gpu(e[1], e[2])
    <3>1. PICK m \in mids : g \in GpusOf(m, p)
      BY DEF GpusIn
    <3>2. PICK i \in gpuIndices : g = Gpu(m, i)
      BY <3>1 DEF GpusOf
    <3>3. <<m, i>> \in mids \X gpuIndices /\ g = Gpu(<<m, i>>[1], <<m, i>>[2])
      BY <3>2
    <3> QED
      BY <3>3
  <2> QED
    BY <2>1, <2>2
<1>4. {Gpu(e[1], e[2]) : e \in bound} = DOMAIN binding
  <2>1. DOMAIN binding = IF p.nics = 0 THEN {} ELSE GpusIn(mids, p)
    BY DEF Binding
  <2> QED
    BY <1>3, <2>1
<1>5. wired = binding
  <2>1. \A g \in DOMAIN binding : binding[g] = Nic(g[2], NicIndex(g[3], p))
    BY DEF Binding, NicIndex
  <2>2. binding = [g \in DOMAIN binding |-> binding[g]]
    BY DEF Binding
  <2> HIDE DEF binding, bound
  <2> QED
    BY <1>4, <2>1, <2>2
<1>6. pairs = {<<g, binding[g]>> : g \in DOMAIN binding}
  <2>1. \A g \in DOMAIN binding : binding[g] = Nic(g[2], NicIndex(g[3], p))
    BY DEF Binding, NicIndex
  <2>2. \A e \in bound : e \in mids \X gpuIndices
    OBVIOUS
  <2>3. \A e \in bound : Gpu(e[1], e[2]) \in DOMAIN binding
    BY <1>4
  <2>4. \A g \in DOMAIN binding : \E e \in bound : g = Gpu(e[1], e[2])
    BY <1>4
  <2> HIDE DEF binding, bound
  <2>5. \A e \in bound : Nic(e[1], NicIndex(e[2], p)) = binding[Gpu(e[1], e[2])]
    BY <1>2, <2>1, <2>2, <2>3
  <2>6. \A e \in bound : \E g \in DOMAIN binding :
            <<Gpu(e[1], e[2]), Nic(e[1], NicIndex(e[2], p))>> = <<g, binding[g]>>
    BY <2>3, <2>5
  <2>7. \A g \in DOMAIN binding : \E e \in bound :
            <<Gpu(e[1], e[2]), Nic(e[1], NicIndex(e[2], p))>> = <<g, binding[g]>>
    BY <2>4, <2>5
  <2> QED
    BY <2>6, <2>7
<1>7. EgressLinks(binding) = TwoWay(pairs, "egress", Egress)
  BY <1>6 DEF EgressLinks
<1> HIDE DEF wired, pairs, binding
<1> QED
  BY <1>1, <1>5, <1>7 DEF WiredLinks, binding

Mesh(mids, p) == UNION {Meshed(GpusOf(m, p)) : m \in mids}

LEMMA PeersMesh ==
  ASSUME NEW p, MachinesAreBuilt(p), NEW mids, Numbered(mids)
  PROVE  /\ TwoWay(Peers(mids, p), "scale_up", ScaleUp) = TwoWay(Mesh(mids, p), "scale_up", ScaleUp)
         /\ \A e \in Peers(mids, p) : e[1] \in GpusIn(mids, p) /\ e[2] \in GpusIn(mids, p) /\ e = <<e[1], e[2]>>
<1> DEFINE gpuIndices == 0..(p.gpus - 1)
           peers == Peers(mids, p)
           mesh == Mesh(mids, p)
<1>1. \A e : e \in peers <=> \E m \in mids : \E i, j \in gpuIndices : i < j /\ e = <<Gpu(m, i), Gpu(m, j)>>
  <2>1. ASSUME NEW e \in peers
        PROVE  \E m \in mids : \E i, j \in gpuIndices : i < j /\ e = <<Gpu(m, i), Gpu(m, j)>>
    <3>1. PICK t \in {e1 \in mids \X gpuIndices \X gpuIndices : e1[2] < e1[3]} :
                e = <<Gpu(t[1], t[2]), Gpu(t[1], t[3])>>
      BY DEF Peers
    <3> QED
      BY <3>1
  <2>2. ASSUME NEW m \in mids, NEW i \in gpuIndices, NEW j \in gpuIndices, i < j
        PROVE  <<Gpu(m, i), Gpu(m, j)>> \in peers
    <3> DEFINE t == <<m, i, j>>
    <3>1. t \in {e1 \in mids \X gpuIndices \X gpuIndices : e1[2] < e1[3]}
      BY <2>2
    <3>2. <<Gpu(m, i), Gpu(m, j)>> = <<Gpu(t[1], t[2]), Gpu(t[1], t[3])>>
      OBVIOUS
    <3> QED
      BY <3>1, <3>2 DEF Peers
  <2> QED
    BY <2>1, <2>2
<1>2. \A e : e \in mesh <=> \E m \in mids : \E i, j \in gpuIndices : i # j /\ e = <<Gpu(m, i), Gpu(m, j)>>
  <2>1. ASSUME NEW e \in mesh
        PROVE  \E m \in mids : \E i, j \in gpuIndices : i # j /\ e = <<Gpu(m, i), Gpu(m, j)>>
    <3>1. PICK m \in mids : e \in Meshed(GpusOf(m, p))
      BY DEF Mesh
    <3>2. e[1] \in GpusOf(m, p) /\ e[2] \in GpusOf(m, p) /\ e[1] # e[2] /\ e = <<e[1], e[2]>>
      BY <3>1 DEF Meshed
    <3>3. PICK i \in gpuIndices : e[1] = Gpu(m, i)
      BY <3>2 DEF GpusOf
    <3>4. PICK j \in gpuIndices : e[2] = Gpu(m, j)
      BY <3>2 DEF GpusOf
    <3> QED
      BY <3>2, <3>3, <3>4
  <2>2. ASSUME NEW m \in mids, NEW i \in gpuIndices, NEW j \in gpuIndices, i # j
        PROVE  <<Gpu(m, i), Gpu(m, j)>> \in mesh
    <3>1. Gpu(m, i) \in GpusOf(m, p) /\ Gpu(m, j) \in GpusOf(m, p)
      BY DEF GpusOf
    <3>2. Gpu(m, i) # Gpu(m, j)
      BY <2>2 DEF Gpu
    <3>3. <<Gpu(m, i), Gpu(m, j)>> \in Meshed(GpusOf(m, p))
      BY <3>1, <3>2 DEF Meshed
    <3> QED
      BY <3>3 DEF Mesh
  <2> QED
    BY <2>1, <2>2
<1>3. gpuIndices \subseteq Int
  OBVIOUS
<1> HIDE DEF peers, mesh, gpuIndices
<1>4. peers \cup {<<e[2], e[1]>> : e \in peers} = mesh
  <2>1. peers \subseteq mesh
    BY <1>1, <1>2, <1>3
  <2>2. \A e \in peers : <<e[2], e[1]>> \in mesh
    <3> TAKE e \in peers
    <3>1. PICK m \in mids, i \in gpuIndices, j \in gpuIndices : i < j /\ e = <<Gpu(m, i), Gpu(m, j)>>
      BY <1>1
    <3>2. j # i /\ <<e[2], e[1]>> = <<Gpu(m, j), Gpu(m, i)>>
      BY <1>3, <3>1
    <3> QED
      BY <1>2, <3>2
  <2>3. ASSUME NEW e \in mesh PROVE e \in peers \/ \E f \in peers : e = <<f[2], f[1]>>
    <3>1. PICK m \in mids, i \in gpuIndices, j \in gpuIndices : i # j /\ e = <<Gpu(m, i), Gpu(m, j)>>
      BY <1>2
    <3>2. CASE i < j
      BY <1>1, <3>1, <3>2
    <3>3. CASE j < i
      <4>1. <<Gpu(m, j), Gpu(m, i)>> \in peers
        BY <1>1, <3>3
      <4> QED
        BY <3>1, <4>1
    <3> QED
      BY <1>3, <3>1, <3>2, <3>3
  <2> QED
    BY <2>1, <2>2, <2>3
<1>5. mesh \cup {<<e[2], e[1]>> : e \in mesh} = mesh
  <2>1. \A e \in mesh : <<e[2], e[1]>> \in mesh
    <3> TAKE e \in mesh
    <3>1. PICK m \in mids, i \in gpuIndices, j \in gpuIndices : i # j /\ e = <<Gpu(m, i), Gpu(m, j)>>
      BY <1>2
    <3>2. j # i /\ <<e[2], e[1]>> = <<Gpu(m, j), Gpu(m, i)>>
      BY <3>1
    <3> QED
      BY <1>2, <3>2
  <2> QED
    BY <2>1
<1>6. TwoWay(peers, "scale_up", ScaleUp) = TwoWay(mesh, "scale_up", ScaleUp)
  BY <1>4, <1>5 DEF TwoWay
<1>7. \A e \in peers : e[1] \in GpusIn(mids, p) /\ e[2] \in GpusIn(mids, p) /\ e = <<e[1], e[2]>>
  <2>1. \A m \in mids : \A i \in gpuIndices : Gpu(m, i) \in GpusIn(mids, p)
    BY DEF GpusIn, GpusOf, gpuIndices
  <2> QED
    BY <1>1, <2>1
<1> QED
  BY <1>6, <1>7 DEF peers, mesh


LEMMA WiredLinksSound ==
  ASSUME NEW p, MachinesAreBuilt(p), NEW mids, Numbered(mids), NEW k \in Nat,
         NEW leaf, \A m \in mids : leaf[m] \in Tiers(k)
  PROVE  /\ PartOn(BuiltNodes(mids, p, k), WiredLinks(leaf, mids, p))
         /\ Bound(WiredLinks(leaf, mids, p), Binding(mids, p))
<1> DEFINE nodes == BuiltNodes(mids, p, k)
           binding == Binding(mids, p)
           peers == Peers(mids, p)
           egress == EgressLinks(binding)
           meshed == TwoWay(peers, "scale_up", ScaleUp)
           toLeaf == ToLeaf(leaf, mids, p)
<1>1. /\ GpusIn(mids, p) \subseteq nodes /\ NicsIn(mids, p) \subseteq nodes
      /\ \A g \in GpusIn(mids, p) : IsGpu(g) /\ ~IsNic(g)
  BY BuiltNodesAre DEF BuiltNodes, IsGpu, IsNic
<1>2. \A g \in DOMAIN binding :
                /\ g \in GpusIn(mids, p) /\ binding[g] \in NicsIn(mids, p)
                /\ IsGpu(g) /\ IsNic(binding[g])
  BY BoundGpus
<1> HIDE DEF binding
<1>3. PartOn(nodes, egress) /\ Bound(egress, binding)
  <2> DEFINE pairs == {<<g, binding[g]>> : g \in DOMAIN binding}
  <2>1. egress = TwoWay(pairs, "egress", Egress)
    BY DEF EgressLinks
  <2>2. pairs \subseteq nodes \X nodes
    BY <1>1, <1>2
  <2>3. "egress" \in Classes /\ Egress \in [bw : Nat \ {0}, lat : Nat]
    BY SpeedsAre DEF Classes, Speeds
  <2>4. Bound(egress, binding)
    BY <1>2, <2>1, TwoWayBound
  <2> HIDE DEF pairs, egress, nodes
  <2>5. PartOn(nodes, egress)
    BY <2>1, <2>2, <2>3, TwoWayPart
  <2> QED
    BY <2>4, <2>5
<1>4. PartOn(nodes, meshed) /\ NoUplinks(meshed)
  <2>1. \A e \in peers : e[1] \in GpusIn(mids, p) /\ e[2] \in GpusIn(mids, p) /\ e = <<e[1], e[2]>>
    BY PeersMesh
  <2>2. peers \subseteq nodes \X nodes
    BY <1>1, <2>1
  <2>3. \A e \in peers : (IsGpu(e[1]) => ~IsNic(e[2])) /\ (IsGpu(e[2]) => ~IsNic(e[1]))
    BY <1>1, <2>1
  <2>4. "scale_up" \in Classes /\ ScaleUp \in [bw : Nat \ {0}, lat : Nat]
    BY SpeedsAre DEF Classes, Speeds
  <2> HIDE DEF peers, nodes
  <2> QED
    BY <2>2, <2>3, <2>4, TwoWayPart, TwoWayPlain
<1>5. PartOn(nodes, toLeaf) /\ NoUplinks(toLeaf)
  BY NicLinks DEF ToLeaf
<1>6. WiredLinks(leaf, mids, p) = Added(Added(meshed, egress), toLeaf)
  BY DEF WiredLinks, binding
<1> HIDE DEF egress, meshed, nodes, toLeaf
<1>7. PartOn(nodes, Added(meshed, egress)) /\ Bound(Added(meshed, egress), binding)
  BY <1>3, <1>4, AddedPart, AddedBound
<1>8. /\ PartOn(nodes, Added(Added(meshed, egress), toLeaf))
      /\ Bound(Added(Added(meshed, egress), toLeaf), binding)
  BY <1>5, <1>7, AddedPart, AddedBound
<1> QED
  BY <1>6, <1>8 DEF nodes, binding

LEMMA WiredInventorySound ==
  ASSUME NEW p, MachinesAreBuilt(p), NEW mids, Numbered(mids), NEW k \in Nat,
         NEW links, PartOn(BuiltNodes(mids, p, k), links), Bound(links, Binding(mids, p)),
         NEW fab, fab = Inventory(mids, p, [m \in mids |-> GpusOf(m, p)], Binding(mids, p), links)
  PROVE  Sound(fab)
<1> DEFINE domains == [m \in mids |-> GpusOf(m, p)]
           binding == Binding(mids, p)
<1>1. /\ domains \in [DOMAIN domains -> SUBSET GpusIn(mids, p)]
      /\ Numbered(DOMAIN domains) /\ Separate(domains)
  BY MachineDomains
<1>2. binding = [g \in DOMAIN binding |-> binding[g]]
  BY BoundGpus
<1>3. fab = Inventory(mids, p, domains, binding, links) /\ Bound(links, binding)
  OBVIOUS
<1> HIDE DEF domains, binding
<1> QED
  BY <1>1, <1>2, <1>3, InventorySound DEF Sound

LEMMA SingleTierSound ==
  ASSUME NEW p, MachinesAreBuilt(p), p.machines \in Nat
  PROVE  Sound(SingleTier(p))
<1> DEFINE mids == 0..(p.machines - 1)
           leaf == [m \in mids |-> Switch("leaf", 0)]
<1>1. SingleTier(p) = WiredMachines(leaf, p)
  BY DEF SingleTier
<1>2. Numbered(mids) /\ mids = DOMAIN leaf
  BY IntervalNumbered
<1>3. PICK k \in Nat : k = 0
  OBVIOUS
<1>4. \A m \in mids : leaf[m] \in Tiers(k)
  BY <1>3, TiersAre
<1> HIDE DEF mids, leaf
<1>5. /\ PartOn(BuiltNodes(mids, p, k), WiredLinks(leaf, mids, p))
      /\ Bound(WiredLinks(leaf, mids, p), Binding(mids, p))
  BY <1>2, <1>3, <1>4, WiredLinksSound
<1>6. WiredMachines(leaf, p) =
         Inventory(mids, p, [m \in mids |-> GpusOf(m, p)], Binding(mids, p), WiredLinks(leaf, mids, p))
  BY <1>2, WiredIs
<1> QED
  BY <1>1, <1>2, <1>3, <1>5, <1>6, WiredInventorySound

LEMMA InventoryWithLinks ==
  ASSUME NEW mids, NEW p, NEW domains, NEW binding, NEW wired, NEW links,
         NEW fab, fab = Inventory(mids, p, domains, binding, wired)
  PROVE  /\ fab.links = wired
         /\ [fab EXCEPT !.links = links] = Inventory(mids, p, domains, binding, links)
<1> DEFINE machines == [m \in mids |-> [gpus |-> GpusOf(m, p), nics |-> NicsOf(m, p)]]
           gpuDomain == [g \in UNION Range(domains) |-> CHOOSE d \in DOMAIN domains : g \in domains[d]]
<1>1. \A l : Inventory(mids, p, domains, binding, l) =
         [machines |-> machines, domains |-> domains, gpuDomain |-> gpuDomain,
          gpuNic |-> binding, links |-> l]
  BY DEF Inventory
<1> HIDE DEF machines, gpuDomain
<1> QED
  BY <1>1

LEMMA LeafSpineSound ==
  ASSUME NEW p, MachinesAreBuilt(p), p.radix \in Nat, UplinkGBps(p) \in Nat \ {0}
  PROVE  Sound(LeafSpine(p))
<1> DEFINE half == p.radix \div 2
           mids == 0..(p.radix * half - 1)
           leaf == [m \in mids |-> Switch("leaf", m \div half)]
           hosts == WiredMachines(leaf, p)
           speed == [ScaleOut EXCEPT !.bw = UplinkGBps(p)]
           pairs == {<<Switch("leaf", i), Switch("spine", j)>> : i \in 0..(p.radix - 1), j \in 0..(half - 1)}
           toSpine == TwoWay(pairs, "scale_out", speed)
<1>1. LeafSpine(p) = [hosts EXCEPT !.links = Added(hosts.links, toSpine)]
  BY DEF LeafSpine
<1>2. half \in Nat /\ half <= p.radix
  OBVIOUS
<1> HIDE DEF half
<1>3. Numbered(mids) /\ mids = DOMAIN leaf
  BY <1>2, IntervalNumbered
<1>4. \A m \in mids : m \div half \in 0..(p.radix - 1)
  <2> TAKE m \in mids
  <2>1. QuotientBelow(m, p.radix, half)
    BY <1>2, QuotientIsBelow
  <2> QED
    BY <2>1 DEF QuotientBelow
<1>5. 0..(p.radix - 1) \subseteq 0..p.radix /\ 0..(half - 1) \subseteq 0..p.radix
  BY <1>2
<1>6. PICK k \in Nat : k = p.radix
  OBVIOUS
<1>7. \A i \in 0..k : Switch("leaf", i) \in Tiers(k) /\ Switch("spine", i) \in Tiers(k)
  BY TiersAre
<1>8. \A m \in mids : leaf[m] \in Tiers(k)
  BY <1>4, <1>5, <1>6, <1>7
<1> DEFINE nodes == BuiltNodes(mids, p, k)
<1>9. PartOn(nodes, toSpine) /\ NoUplinks(toSpine)
  <2>1. \A e \in pairs : e \in Tiers(k) \X Tiers(k)
    BY <1>5, <1>6, <1>7
  <2>2. pairs \subseteq nodes \X nodes
    BY <2>1 DEF BuiltNodes
  <2>3. \A e \in pairs : (IsGpu(e[1]) => ~IsNic(e[2])) /\ (IsGpu(e[2]) => ~IsNic(e[1]))
    BY <2>1, TiersAre DEF IsSwitch
  <2>4. "scale_out" \in Classes /\ speed \in [bw : Nat \ {0}, lat : Nat]
    BY SpeedsAre DEF Classes, Speeds
  <2> HIDE DEF pairs, nodes, speed
  <2> QED
    BY <2>2, <2>3, <2>4, TwoWayPart, TwoWayPlain
<1> DEFINE binding == Binding(mids, p)
           wired == WiredLinks(leaf, mids, p)
           links == Added(wired, toSpine)
           domains == [m \in mids |-> GpusOf(m, p)]
<1> HIDE DEF mids, leaf, toSpine
<1>10. PartOn(nodes, wired) /\ Bound(wired, binding)
  BY <1>3, <1>8, WiredLinksSound
<1>11. hosts = Inventory(mids, p, domains, binding, wired)
  BY <1>3, WiredIs
<1>12. LeafSpine(p) = Inventory(mids, p, domains, binding, links)
  BY <1>1, <1>11, InventoryWithLinks
<1> HIDE DEF nodes, wired, hosts
<1>13. PartOn(nodes, links) /\ Bound(links, binding)
  BY <1>9, <1>10, AddedPart, AddedBound
<1> HIDE DEF links
<1> QED
  BY <1>3, <1>6, <1>12, <1>13, WiredInventorySound DEF nodes

LEMMA BuiltSound ==
  ASSUME NEW p \in Plans, ~BuildRaises(p)
  PROVE  Sound(FabricOf(p))
<1>1. /\ p.platform \in {"node", "rack", "single", "clos"}
      /\ MachinesAreBuilt(p)
      /\ p.platform \in {"node", "single"} => p.machines \in Nat
      /\ p.platform = "rack" => p.racks \in Nat /\ p.trays \in Nat
      /\ p.platform = "clos" =>
             p.radix \in Nat /\ p.depth \in Nat
             /\ p.oversubscription \in Nat \ {0} /\ UplinkGBps(p) > 0
  BY PlansType
<1>2. CASE p.platform = "node"
  BY <1>1, <1>2, NodeScaleSound DEF FabricOf
<1>3. CASE p.platform = "rack"
  BY <1>1, <1>3, RackScaleSound DEF FabricOf
<1>4. CASE p.platform = "single"
  BY <1>1, <1>4, SingleTierSound DEF FabricOf
<1>5. CASE p.platform = "clos"
  <2>1. FabricOf(p) = FatTree(p)
    BY <1>5 DEF FabricOf
  <2>2. UplinkGBps(p) \in Nat \ {0}
    <3>1. p.nics \in Nat /\ ScaleOut.bw \in Nat /\ p.oversubscription \in Nat \ {0}
      BY <1>1, <1>5, SpeedsAre DEF MachinesAreBuilt, Speeds
    <3>2. p.nics * ScaleOut.bw \in Nat
      BY <3>1
    <3>3. UplinkGBps(p) \in Nat
      BY <3>1, <3>2, DivMod DEF UplinkGBps
    <3> QED
      BY <1>1, <1>5, <3>3
  <2>3. CASE p.depth = 1
    <3> DEFINE q == [machines |-> p.radix, gpus |-> p.gpus, nics |-> p.nics]
    <3>1. FatTree(p) = SingleTier(q)
      BY <2>3 DEF FatTree
    <3>2. MachinesAreBuilt(q) /\ q.machines \in Nat
      BY <1>1, <1>5 DEF MachinesAreBuilt
    <3> HIDE DEF q
    <3> QED
      BY <2>1, <3>1, <3>2, SingleTierSound
  <2>4. CASE p.depth # 1
    <3>1. FatTree(p) = LeafSpine(p)
      BY <2>4 DEF FatTree
    <3> QED
      BY <1>1, <1>5, <2>1, <2>2, <3>1, LeafSpineSound
  <2> QED
    BY <2>3, <2>4
<1> QED
  BY <1>1, <1>2, <1>3, <1>4, <1>5


-----------------------------------------------------------------------------
(***************************************************************************)
(* The two ways to build machines on one switch agree.                     *)
(***************************************************************************)
LEMMA AddedCommutes ==
  ASSUME NEW f, NEW g, DOMAIN f \cap DOMAIN g = {}
  PROVE  Added(f, g) = Added(g, f)
<1>1. DOMAIN f \cup DOMAIN g = DOMAIN g \cup DOMAIN f
  OBVIOUS
<1>2. \A l \in DOMAIN f \cup DOMAIN g :
         (IF l \in DOMAIN g THEN g[l] ELSE f[l]) = (IF l \in DOMAIN f THEN f[l] ELSE g[l])
  OBVIOUS
<1> QED
  BY <1>1, <1>2 DEF Added

LEMMA SameShape ==
  ASSUME NEW p, MachinesAreBuilt(p), p.machines \in Nat
  PROVE  NodeScale(p) = SingleTier(p)
<1> DEFINE mids == 0..(p.machines - 1)
           domains == [m \in mids |-> GpusOf(m, p)]
           leaf == [m \in mids |-> Switch("leaf", 0)]
           binding == Binding(mids, p)
           egress == EgressLinks(binding)
           mesh == UNION {Meshed(domains[d]) : d \in DOMAIN domains}
           meshed == TwoWay(mesh, "scale_up", ScaleUp)
           scaleOut == TwoWay({<<n, Switch("leaf", 0)>> : n \in NicsIn(mids, p)},
                              "scale_out", ScaleOut)
<1>1. NodeScale(p) = Inventory(mids, p, domains, binding, Added(Added(egress, meshed), scaleOut))
  BY DEF NodeScale, Assembled
<1>2. SingleTier(p) = WiredMachines(leaf, p)
  BY DEF SingleTier
<1>3. Numbered(mids) /\ mids = DOMAIN leaf
  BY IntervalNumbered
<1> HIDE DEF mids
<1>4. mesh = Mesh(mids, p)
  <2>1. DOMAIN domains = mids /\ \A m \in mids : domains[m] = GpusOf(m, p)
    OBVIOUS
  <2> HIDE DEF domains
  <2> QED
    BY <2>1 DEF Mesh
<1>5. meshed = TwoWay(Peers(mids, p), "scale_up", ScaleUp)
  BY <1>3, <1>4, PeersMesh
<1>6. scaleOut = ToLeaf(leaf, mids, p)
  <2>1. \A n \in NicsIn(mids, p) : leaf[n[2]] = Switch("leaf", 0)
    BY <1>3, BuiltNodesAre
  <2>2. {<<n, Switch("leaf", 0)>> : n \in NicsIn(mids, p)} = {<<n, leaf[n[2]]>> : n \in NicsIn(mids, p)}
    BY <2>1
  <2> QED
    BY <2>2 DEF ToLeaf
<1>7. SingleTier(p) = Inventory(mids, p, domains, binding, WiredLinks(leaf, mids, p))
  BY <1>2, <1>3, WiredIs
<1>8. WiredLinks(leaf, mids, p) = Added(Added(meshed, egress), scaleOut)
  BY <1>5, <1>6 DEF WiredLinks
<1>9. DOMAIN egress \cap DOMAIN meshed = {}
  <2>1. \A g \in DOMAIN binding : IsGpu(g) /\ ~IsGpu(binding[g])
    BY <1>3, BoundGpus DEF IsGpu, IsNic
  <2>2. \A e \in Mesh(mids, p) : IsGpu(e[1]) /\ IsGpu(e[2])
    <3>1. \A m \in mids : \A g \in GpusOf(m, p) : IsGpu(g)
      BY <1>3, BuiltMachine DEF Numbered
    <3> QED
      BY <3>1 DEF Mesh, Meshed
  <2> HIDE DEF binding, mesh
  <2>3. \A l \in DOMAIN egress : ~(IsGpu(l[1]) /\ IsGpu(l[2]))
    <3>1. DOMAIN egress = {<<g, binding[g]>> : g \in DOMAIN binding}
            \cup {<<e[2], e[1]>> : e \in {<<g, binding[g]>> : g \in DOMAIN binding}}
      BY DEF EgressLinks, TwoWay
    <3>2. \A e \in {<<g, binding[g]>> : g \in DOMAIN binding} : IsGpu(e[1]) /\ ~IsGpu(e[2])
      BY <2>1
    <3> QED
      BY <3>1, <3>2
  <2>4. \A l \in DOMAIN meshed : IsGpu(l[1]) /\ IsGpu(l[2])
    <3>1. DOMAIN meshed = mesh \cup {<<e[2], e[1]>> : e \in mesh}
      BY DEF TwoWay
    <3> QED
      BY <1>4, <2>2, <3>1
  <2> QED
    BY <2>3, <2>4
<1> HIDE DEF egress, meshed, scaleOut, domains, binding, leaf
<1>10. Added(egress, meshed) = Added(meshed, egress)
  BY <1>9, AddedCommutes
<1> QED
  BY <1>1, <1>7, <1>8, <1>10


-----------------------------------------------------------------------------
(***************************************************************************)
(* The inductive invariant: at every stage, which fabric and which         *)
(* document there are and what is known of them.  Unless the document was  *)
(* edited the fabric is the one that was built; after that it is the one   *)
(* that was read, of which less is known.                                  *)
(***************************************************************************)
ReadFabric(fab) ==
    /\ Structured(fab) /\ ~HasIsolated(fab)
    /\ MembershipAgrees(fab) => Membered(fab)

KnownFabric == IF edits = 0 THEN Sound(fabric) ELSE ReadFabric(fabric)

Shaped(file) ==
    file = [fields |-> file.fields, components |-> file.components,
            domains |-> file.domains, edges |-> file.edges]

ProgramInv ==
    /\ plan \in Plans /\ edits \in Nat
    /\ stage \in {"start", "raised", "built", "written", "read", "adopted", "rewritten",
                  "reread", "compared", "refused", "crashed", "unwritten"}
    /\ stage \in {"start", "built"} => edits = 0
    /\ stage \in {"start", "built", "written"} => back = NoFabric
    /\ stage \in {"read", "adopted", "rewritten", "unwritten"} => edits > 0

AsRead(fab, file) ==
    Readable(file) /\ Accepted(file) /\ ~MixedIndices(file) /\ fab = Parsed(file)

FirstInv ==
    /\ stage = "built" => ~BuildRaises(plan) /\ fabric = FabricOf(plan)
    /\ stage = "written" =>
            /\ Sound(fabric) /\ Readable(doc) /\ Shaped(doc)
            /\ edits = 0 => doc = Emitted(fabric)
    /\ stage = "read" => AsRead(back, doc)

SecondInv ==
    /\ stage \in {"adopted", "rewritten", "reread", "compared"} => KnownFabric
    /\ stage = "adopted" => AsRead(fabric, doc)
    /\ stage \in {"rewritten", "reread", "compared"} => doc = Emitted(fabric) /\ ~Unwritable(fabric)
    /\ stage \in {"reread", "compared"} => Accepted(doc) /\ back = Parsed(doc)
    /\ stage = "compared" => ok

EndInv ==
    /\ stage = "refused" => ~Accepted(doc)
    /\ stage = "crashed" => Accepted(doc) /\ ParseRaises(doc)
    /\ stage \in {"refused", "crashed"} =>
            /\ edits = 0 => back = NoFabric
            /\ edits = 0 \/ back # NoFabric =>
                    KnownFabric /\ doc = Emitted(fabric) /\ ~Unwritable(fabric)
    /\ stage = "unwritten" => MixedInTiers(doc)

RoundTripInv == ProgramInv /\ FirstInv /\ SecondInv /\ EndInv


-----------------------------------------------------------------------------
(***************************************************************************)
(* An edit leaves a document that anyone may hand to the reader.           *)
(***************************************************************************)
LEMMA InSeen ==
  ASSUME NEW S, NEW seq \in Seq(S)
  PROVE  seq \in Seq(Seen(seq)) /\ Seen(seq) \subseteq S
<1>1. Len(seq) \in Nat /\ seq \in [1..Len(seq) -> S]
  OBVIOUS
<1>2. seq \in [1..Len(seq) -> Seen(seq)]
  BY <1>1 DEF Seen
<1>3. Seen(seq) \subseteq S
  BY <1>1 DEF Seen
<1> QED
  BY <1>1, <1>2, <1>3

LEMMA EditedSeq ==
  ASSUME NEW S, NEW seq \in Seq(S), NEW new, new \subseteq S, NEW edited \in EditsOf(seq, new)
  PROVE  edited \in Seq(S)
<1>1. Len(seq) \in Nat /\ DOMAIN seq = 1..Len(seq)
  OBVIOUS
<1>2. ASSUME NEW i \in DOMAIN seq, edited = RemoveAt(seq, i)
      PROVE  edited \in Seq(S)
  <2>1. SubSeq(seq, 1, i - 1) \in Seq(S) /\ SubSeq(seq, i + 1, Len(seq)) \in Seq(S)
    BY <1>1
  <2> QED
    BY <1>2, <2>1 DEF RemoveAt
<1>3. ASSUME NEW i \in {1, Len(seq) + 1}, NEW x \in new, edited = InsertAt(seq, i, x)
      PROVE  edited \in Seq(S)
  <2>1. SubSeq(seq, 1, i - 1) \in Seq(S) /\ SubSeq(seq, i, Len(seq)) \in Seq(S)
    BY <1>1
  <2>2. <<x>> \in Seq(S)
    OBVIOUS
  <2> QED
    BY <1>3, <2>1, <2>2 DEF InsertAt
<1>4. ASSUME NEW i \in DOMAIN seq, NEW x \in new, edited = ReplaceAt(seq, i, x)
      PROVE  edited \in Seq(S)
  BY <1>1, <1>4 DEF ReplaceAt
<1> QED
  BY <1>2, <1>3, <1>4 DEF EditsOf

LEMMA EditReadable ==
  ASSUME Edit, Readable(doc), Shaped(doc)
  PROVE  Readable(doc') /\ Shaped(doc')
<1>1. CASE doc' = [doc EXCEPT !.fields = FALSE]
  <2>1. /\ doc'.components = doc.components /\ doc'.domains = doc.domains /\ doc'.edges = doc.edges
        /\ Shaped(doc')
    BY <1>1 DEF Shaped
  <2> QED
    BY <2>1 DEF Readable
<1>2. ASSUME NEW c \in EditsOf(doc.components, NewComponents), doc' = [doc EXCEPT !.components = c]
      PROVE  Readable(doc') /\ Shaped(doc')
  <2>1. /\ doc'.components = c /\ doc'.domains = doc.domains /\ doc'.edges = doc.edges
        /\ Shaped(doc')
    BY <1>2 DEF Shaped
  <2> DEFINE S == Seen(doc.components) \cup NewComponents
  <2>2. \A x \in S : x.label \in Label
    BY EditsType DEF Readable, Component
  <2>3. doc.components \in Seq(S) /\ NewComponents \subseteq S
    BY DEF Readable
  <2> HIDE DEF S
  <2>4. c \in Seq(S)
    BY <2>3, EditedSeq
  <2>5. c \in Seq(Seen(c)) /\ Seen(c) \subseteq S
    BY <2>4, InSeen
  <2> QED
    BY <2>1, <2>2, <2>5 DEF Readable
<1>3. ASSUME NEW d \in EditsOf(doc.domains, NewDomains), doc' = [doc EXCEPT !.domains = d]
      PROVE  Readable(doc') /\ Shaped(doc')
  <2>1. /\ doc'.components = doc.components /\ doc'.domains = d /\ doc'.edges = doc.edges
        /\ Shaped(doc')
    BY <1>3 DEF Shaped
  <2>2. doc.domains \in Seq(Domain) /\ NewDomains \subseteq Domain
    BY EditsType DEF Readable
  <2>3. d \in Seq(Domain)
    BY <2>2, EditedSeq
  <2> QED
    BY <2>1, <2>3 DEF Readable
<1>4. ASSUME NEW e \in EditsOf(doc.edges, NewEdges), doc' = [doc EXCEPT !.edges = e]
      PROVE  Readable(doc') /\ Shaped(doc')
  <2>1. /\ doc'.components = doc.components /\ doc'.domains = doc.domains /\ doc'.edges = e
        /\ Shaped(doc')
    BY <1>4 DEF Shaped
  <2>2. doc.edges \in Seq(Edge) /\ NewEdges \subseteq Edge
    BY EditsType DEF Readable
  <2>3. e \in Seq(Edge)
    BY <2>2, EditedSeq
  <2> QED
    BY <2>1, <2>3 DEF Readable
<1> QED
  BY <1>1, <1>2, <1>3, <1>4 DEF Edit

-----------------------------------------------------------------------------
(***************************************************************************)
(* Every step keeps the invariant.                                         *)
(***************************************************************************)
USE DEF ProgramInv, FirstInv, SecondInv, EndInv, RoundTripInv, KnownFabric

LEMMA InitKeeps ==
  ASSUME Init
  PROVE  RoundTripInv
BY DEF Init

LEMMA BuildKeeps ==
  ASSUME RoundTripInv, Build
  PROVE  RoundTripInv'
BY DEF Build

LEMMA WriteKeeps ==
  ASSUME RoundTripInv, Write
  PROVE  RoundTripInv'
<1>1. UNCHANGED <<plan, fabric, back, edits, ok>>
  BY DEF Write
<1>2. CASE stage = "built"
  <2>1. Sound(fabric)
    BY <1>2, BuiltSound
  <2>2. stage' = "written" /\ doc' = Emitted(fabric) /\ edits = 0 /\ back = NoFabric
    BY <1>2, <2>1 DEF Write, Sound
  <2>3. Readable(doc')
    BY <2>1, <2>2, EmittedReadable DEF Sound
  <2>4. Shaped(doc')
    BY <2>2, EmittedIs DEF Shaped
  <2> QED
    BY <1>1, <2>1, <2>2, <2>3, <2>4
<1>3. CASE stage = "adopted" /\ Unwritable(fabric)
  <2>1. stage' = "unwritten" /\ doc' = doc /\ MixedInTiers(doc)
    BY <1>3, ReadIsWritable DEF Write, AsRead
  <2> QED
    BY <1>1, <1>3, <2>1
<1>4. CASE stage = "adopted" /\ ~Unwritable(fabric)
  BY <1>1, <1>4 DEF Write
<1> QED
  BY <1>2, <1>3, <1>4 DEF Write

LEMMA EditKeeps ==
  ASSUME RoundTripInv, Edit
  PROVE  RoundTripInv'
<1>1. stage = "written" /\ edits' = edits + 1 /\ UNCHANGED <<plan, fabric, back, stage, ok>>
  BY DEF Edit
<1>2. Readable(doc') /\ Shaped(doc')
  BY <1>1, EditReadable
<1> QED
  BY <1>1, <1>2

LEMMA ReadKeeps ==
  ASSUME RoundTripInv, Read
  PROVE  RoundTripInv'
<1>1. UNCHANGED <<plan, fabric, doc, edits, ok>> /\ stage \in {"written", "rewritten"}
  BY DEF Read
<1>2. stage = "rewritten" =>
         KnownFabric /\ doc = Emitted(fabric) /\ ~Unwritable(fabric) /\ edits > 0
  OBVIOUS
<1>3. stage = "written" => /\ back = NoFabric /\ Readable(doc)
                           /\ edits = 0 => /\ KnownFabric /\ doc = Emitted(fabric)
                                           /\ ~Unwritable(fabric)
  BY DEF Sound
<1>4. CASE ~Accepted(doc)
  <2>1. stage' = "refused" /\ back' = back
    BY <1>4 DEF Read
  <2> QED
    BY <1>1, <1>2, <1>3, <1>4, <2>1
<1>5. CASE Accepted(doc) /\ ParseRaises(doc)
  <2>1. stage' = "crashed" /\ back' = back
    BY <1>5 DEF Read
  <2> QED
    BY <1>1, <1>2, <1>3, <1>5, <2>1
<1>6. CASE Accepted(doc) /\ ~ParseRaises(doc)
  <2>1. back' = Parsed(doc)
        /\ stage' = IF stage = "written" /\ edits > 0 THEN "read" ELSE "reread"
    BY <1>6 DEF Read
  <2>2. CASE stage = "written" /\ edits > 0
    <3>1. AsRead(back', doc')
      BY <1>1, <1>3, <1>6, <2>1, <2>2 DEF AsRead, ParseRaises
    <3> QED
      BY <1>1, <1>3, <2>1, <2>2, <3>1
  <2>3. CASE ~(stage = "written" /\ edits > 0)
    <3>1. stage' = "reread" /\ KnownFabric /\ doc = Emitted(fabric) /\ ~Unwritable(fabric)
      BY <1>1, <1>2, <1>3, <2>1, <2>3
    <3> QED
      BY <1>1, <1>6, <2>1, <3>1
  <2> QED
    BY <2>2, <2>3
<1> QED
  BY <1>4, <1>5, <1>6

LEMMA AdoptKeeps ==
  ASSUME RoundTripInv, Adopt
  PROVE  RoundTripInv'
<1>1. /\ stage = "read" /\ stage' = "adopted" /\ fabric' = back
      /\ UNCHANGED <<plan, doc, back, edits, ok>>
  BY DEF Adopt
<1>2. ReadFabric(fabric')
  BY <1>1, ParsedStructured DEF ReadFabric, AsRead
<1>3. AsRead(fabric', doc')
  BY <1>1
<1> QED
  BY <1>1, <1>2, <1>3

LEMMA CompareKeeps ==
  ASSUME RoundTripInv, Compare
  PROVE  RoundTripInv'
<1>1. /\ stage = "reread" /\ stage' = "compared" /\ UNCHANGED <<plan, fabric, doc, back, edits>>
      /\ ok' = (/\ Cardinality(Gpus(fabric)) = Cardinality(Gpus(back))
                /\ ClassCounts(fabric) = ClassCounts(back))
  BY DEF Compare
<1>2. /\ Structured(fabric) /\ ~Unwritable(fabric)
      /\ doc = Emitted(fabric) /\ Accepted(doc) /\ back = Parsed(doc)
  BY <1>1 DEF Sound, ReadFabric
<1>3. Gpus(fabric) = Gpus(back) /\ ClassCounts(fabric) = ClassCounts(back)
  BY <1>2, ReadBack
<1>4. ok'
  BY <1>1, <1>3
<1> QED
  BY <1>1, <1>4

LEMMA StepKeeps ==
  ASSUME RoundTripInv, [Next]_vars
  PROVE  RoundTripInv'
<1>1. CASE UNCHANGED vars
  BY <1>1 DEF vars
<1> QED
  BY <1>1, BuildKeeps, WriteKeeps, EditKeeps, ReadKeeps, AdoptKeeps, CompareKeeps DEF Next, Ended

HIDE DEF ProgramInv, FirstInv, SecondInv, EndInv, RoundTripInv, KnownFabric

(***************************************************************************)
(* The bookkeeping of a round trip, whatever is built, edited and read:    *)
(* at every stage, what is known of the fabric, of the document and of     *)
(* what was read from it. The theorems that follow are its consequences.   *)
(***************************************************************************)
THEOREM RoundTripInvariant == Spec => []RoundTripInv
<1>1. Init => RoundTripInv
  BY InitKeeps
<1>2. RoundTripInv /\ [Next]_vars => RoundTripInv'
  BY StepKeeps
<1> QED
  BY <1>1, <1>2, PTL DEF Spec

LEMMA BuiltAndBack ==
  ASSUME RoundTripInv
  PROVE  BuiltFabricsRoundTrip
<1>1. ASSUME stage = "compared", edits = 0 PROVE ok /\ back = fabric
  <2>1. Sound(fabric) /\ doc = Emitted(fabric) /\ Accepted(doc) /\ back = Parsed(doc) /\ ok
    BY <1>1 DEF RoundTripInv, ProgramInv, SecondInv, KnownFabric
  <2> QED
    BY <2>1, ReadBack DEF Sound
<1>2. ASSUME stage \in {"refused", "crashed"}, edits = 0 PROVE HasIsolated(fabric)
  <2>1. Structured(fabric) /\ ~Unwritable(fabric) /\ Membered(fabric) /\ doc = Emitted(fabric)
    BY <1>2 DEF RoundTripInv, EndInv, KnownFabric, Sound
  <2>2. ~Accepted(doc) \/ (Accepted(doc) /\ ParseRaises(doc))
    BY <1>2 DEF RoundTripInv, EndInv
  <2>3. ~MixedIndices(doc)
    BY <2>1, UnmixedIndices
  <2>4. ~Accepted(doc)
    BY <2>2, <2>3, AcceptedParses
  <2> QED
    BY <2>1, <2>4, EmittedAccepted
<1>3. ~(stage = "unwritten" /\ edits = 0)
  BY DEF RoundTripInv, ProgramInv
<1> QED
  BY <1>1, <1>2, <1>3 DEF BuiltFabricsRoundTrip

(***************************************************************************)
(* main's check, for every fabric that the builders and blueprints can     *)
(* build: what is written is read as the fabric it was, and it is refused  *)
(* only for a GPU or NIC without any link.                                 *)
(***************************************************************************)
THEOREM BuiltReadBack == Spec => []BuiltFabricsRoundTrip
BY RoundTripInvariant, BuiltAndBack, PTL

LEMMA NoLateFailure ==
  ASSUME RoundTripInv
  PROVE  AcceptedDocumentsParse
<1>1. stage = "crashed" => Accepted(doc) /\ ParseRaises(doc)
  BY DEF RoundTripInv, EndInv
<1> QED
  BY <1>1, AcceptedParses DEF AcceptedDocumentsParse

(***************************************************************************)
(* How far the validator's promise holds, of every document that is        *)
(* accepted: the reconstruction fails only where the indices of machines,  *)
(* or of a machine's GPUs or NICs, are numbers and strings.                *)
(***************************************************************************)
THEOREM AcceptedParse == Spec => []AcceptedDocumentsParse
BY RoundTripInvariant, NoLateFailure, PTL

LEMMA ReadKeepsAll ==
  ASSUME RoundTripInv
  PROVE  NothingVanishes
<1>1. stage = "read" => Readable(doc) /\ Accepted(doc) /\ back = Parsed(doc)
  BY DEF RoundTripInv, FirstInv, AsRead
<1>2. stage = "read" => ComponentsKept(doc, back)
  BY <1>1, ReadComponents
<1>3. stage = "read" /\ OneAsicPerSwitch(doc) => EdgesKept(doc, back)
  BY <1>1, ReadEdges
<1>4. stage = "read" /\ EachDomainOnce(doc) => DomainsKept(doc, back)
  BY <1>1, ReadDomains
<1> QED
  BY <1>2, <1>3, <1>4 DEF NothingVanishes

(***************************************************************************)
(* What is read from an accepted document has all of its components,       *)
(* edges and domains, but for what a second asic or a second entry of a    *)
(* domain overwrites.                                                      *)
(***************************************************************************)
THEOREM ReadInFull == Spec => []NothingVanishes
BY RoundTripInvariant, ReadKeepsAll, PTL

LEMMA ReadTwice ==
  ASSUME RoundTripInv
  PROVE  SecondReadAgrees
<1>1. ASSUME stage = "compared"
      PROVE  /\ ok
             /\ MembershipAgrees(fabric) => Unbound(back) = Unbound(fabric)
             /\ MembershipAgrees(fabric) /\ OneNicPerGpu(doc) => back = fabric
  <2>1. /\ ok /\ Structured(fabric) /\ ~Unwritable(fabric)
        /\ doc = Emitted(fabric) /\ Accepted(doc) /\ back = Parsed(doc)
        /\ MembershipAgrees(fabric) => Membered(fabric)
    BY <1>1 DEF RoundTripInv, SecondInv, KnownFabric, Sound, ReadFabric
  <2> QED
    BY <2>1, ReadBack
<1>2. ASSUME stage \in {"refused", "crashed"}, back # NoFabric PROVE ~MembershipAgrees(fabric)
  <2>1. /\ edits # 0 /\ ReadFabric(fabric) /\ doc = Emitted(fabric) /\ ~Unwritable(fabric)
        /\ ~Accepted(doc) \/ (Accepted(doc) /\ ParseRaises(doc))
    BY <1>2 DEF RoundTripInv, EndInv, KnownFabric
  <2>2. ~MixedIndices(doc)
    BY <2>1, UnmixedIndices DEF ReadFabric
  <2>3. ~Accepted(doc)
    BY <2>1, <2>2, AcceptedParses
  <2> QED
    BY <2>1, <2>3, EmittedAccepted DEF ReadFabric
<1>3. stage = "unwritten" => MixedInTiers(doc)
  BY DEF RoundTripInv, EndInv
<1> QED
  BY <1>1, <1>2, <1>3 DEF SecondReadAgrees

(***************************************************************************)
(* A fabric that was read from any accepted document whatever survives a   *)
(* round trip of its own, if its two records of membership agree and       *)
(* neither the switches of a tier nor the domains mix numbers and strings. *)
(***************************************************************************)
THEOREM SecondRoundTrip == Spec => []SecondReadAgrees
BY RoundTripInvariant, ReadTwice, PTL

LEMMA NodeScaleIsSingleTier ==
  ASSUME RoundTripInv
  PROVE  SingleTierIsNodeScale
<1> SUFFICES ASSUME stage = "built", plan.platform = "node" PROVE fabric = SingleTier(plan)
  BY DEF SingleTierIsNodeScale, FabricIsBuilt
<1>1. fabric = NodeScale(plan)
  BY DEF RoundTripInv, FirstInv, FabricOf
<1>2. MachinesAreBuilt(plan) /\ plan.machines \in Nat
  BY PlansType DEF RoundTripInv, ProgramInv
<1> QED
  BY <1>1, <1>2, SameShape

(***************************************************************************)
(* single_tier_fabric and build_node_scale, which wire their machines with *)
(* code of their own, give the same fabric for every number of machines,   *)
(* GPUs and NICs.                                                          *)
(***************************************************************************)
THEOREM OneShape == Spec => []SingleTierIsNodeScale
BY RoundTripInvariant, NodeScaleIsSingleTier, PTL
=============================================================================
