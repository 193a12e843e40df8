---------------------------- MODULE FabricPaths ----------------------------
(***************************************************************************)
(* Routing in Fabric of src/engine/physical/topology.py: links are added   *)
(* one by one, and then a route between two GPUs is asked for.             *)
(* equal_cost_paths keeps every minimum-hop path, path() the first that    *)
(* its breadth-first search meets, and route() picks one of the former in  *)
(* PER_FLOW_ECMP mode.  Fabric has what a link carries besides its ends.   *)
(*                                                                         *)
(* Nodes are numbers, to be sorted as their names are.  A link is written  *)
(* <<src, dst, place>>, with its place in the list _adj[src]: nothing      *)
(* keeps two links with the same ends apart but that, and parse() adds     *)
(* some where an edge runs to two asics of one switch.                     *)
(***************************************************************************)
EXTENDS Naturals, Sequences, SequencesExt, FiniteSets, Listing

CONSTANTS Node,         \* GPUs, NICs and switches
          LinkChoice,   \* the links a builder or a document may add
          Questions,    \* pairs of nodes between which a route is asked for
          MaxLinks,     \* bound: add_link is not called any more with this many links
          MaxDigest,    \* bound: what the SHA-256 of a flow key may come to
          None

ASSUME NodesAreOrdered == Node \subseteq Nat /\ IsFiniteSet(Node)
ASSUME LinkChoiceType == LinkChoice \subseteq Node \X Node
ASSUME QuestionsType == Questions \subseteq Node \X Node
ASSUME BoundsType == MaxLinks \in Nat /\ MaxDigest \in Nat
ASSUME NoneIsNoNode == None \notin Node

VARIABLES adj,                  \* _adj: the links by src, in the order of the calls
          op,                   \* where the program is
          ends,                 \* the arguments a and b
          queue, cur,           \* q and cur
          todo,                 \* the links of cur that are not looked at yet
          dist, preds, paths,   \* locals and result of equal_cost_paths
          chosen,               \* the path route() picks in PER_FLOW_ECMP mode
          prev, single          \* local and result of path()

search == <<queue, cur, todo>>
equalCost == <<dist, preds, paths, chosen>>
firstFound == <<prev, single>>
vars == <<adj, op, ends, search, equalCost, firstFound>>

(* path() and equal_cost_paths() raise ValueError where there is no path. *)
NoRoute == <<None>>

Init ==
    /\ adj = [n \in Node |-> <<>>]
    /\ op = "build" /\ ends = <<None, None>>
    /\ queue = <<>> /\ cur = None /\ todo = <<>>
    /\ dist = <<>> /\ preds = <<>> /\ paths = <<>> /\ chosen = NoRoute
    /\ prev = <<>> /\ single = NoRoute

Links == UNION {ToSet(adj[n]) : n \in Node}

-----------------------------------------------------------------------------
(***************************************************************************)
(* add_link: a link that is there already comes once more.  Builders add   *)
(* both directions at once, the parser one.                                *)
(***************************************************************************)
Added(lists, src, dst) ==
    [lists EXCEPT ![src] = Append(@, <<src, dst, Len(@) + 1>>)]

AddLink(src, dst, bidirectional) ==
    /\ op = "build"
    /\ Cardinality(Links) < MaxLinks
    /\ adj' = IF bidirectional THEN Added(Added(adj, src, dst), dst, src)
              ELSE Added(adj, src, dst)
    /\ UNCHANGED <<op, ends, search, equalCost, firstFound>>

(***************************************************************************)
(* The loop of both searches: the next node of the queue, whose links are  *)
(* then looked at one after the other.                                     *)
(***************************************************************************)
Rest_Peek == queue                      \* mutant: the node stays in the queue

Rest == Tail(queue)

Popleft ==
    /\ op \in {"equal_cost", "path"} /\ todo = <<>> /\ queue # <<>>
    /\ cur' = Head(queue) /\ todo' = adj[Head(queue)] /\ queue' = Rest
    /\ UNCHANGED <<adj, op, ends, equalCost, firstFound>>

Put(f, n, x) == [m \in DOMAIN f \cup {n} |-> IF m = n THEN x ELSE f[m]]

(***************************************************************************)
(* equal_cost_paths: the distance of each node, and every link by which a  *)
(* path of that length arrives.                                            *)
(***************************************************************************)
StartEqualCost(a, b) ==
    /\ op = "build"
    /\ ends' = <<a, b>>
    /\ IF a = b THEN paths' = << <<>> >> /\ op' = "route" /\ UNCHANGED <<dist, queue>>
       ELSE dist' = [n \in {a} |-> 0] /\ queue' = <<a>> /\ op' = "equal_cost" /\ UNCHANGED paths
    /\ UNCHANGED <<adj, cur, todo, preds, chosen, firstFound>>

LookEqualCost ==
    LET lk == Head(todo)
        n == lk[2]
        nd == dist[cur] + 1
    IN  /\ op = "equal_cost" /\ todo # <<>>
        /\ todo' = Tail(todo)
        /\ \/ /\ n \notin DOMAIN dist
              /\ dist' = Put(dist, n, nd) /\ preds' = Put(preds, n, <<lk>>)
              /\ queue' = Append(queue, n)
           \/ /\ n \in DOMAIN dist /\ dist[n] = nd
              /\ preds' = [preds EXCEPT ![n] = Append(@, lk)]
              /\ UNCHANGED <<dist, queue>>
           \/ /\ n \in DOMAIN dist /\ dist[n] # nd
              /\ UNCHANGED <<dist, preds, queue>>
        /\ UNCHANGED <<adj, op, ends, cur, paths, chosen, firstFound>>

(* backtrack(b, []): the paths through each of preds, in that order. *)
Backtrack ==
    LET to[n \in DOMAIN dist] ==
            IF n = ends[1] THEN << <<>> >>
            ELSE FlattenSeq([i \in DOMAIN preds[n] |->
                    LET lk == preds[n][i]
                        before == to[lk[1]]
                    IN  [j \in DOMAIN before |-> Append(before[j], lk)]])
    IN  to[ends[2]]

(* paths.sort, by the ids of the links: all start at a, so that where two  *)
(* paths first differ it is in the far end of a link.  Ids do not tell     *)
(* links with the same ends apart.                                         *)
Ids(p) == [k \in DOMAIN p |-> p[k][2]]

Ordered_AsFound(ps) == ps    \* mutant: the paths are left in the order they were found

Ordered(ps) ==
    LET at == ListedBy([i \in DOMAIN ps |-> Append(Ids(ps[i]), i)])    \* a stable sort
    IN  [i \in DOMAIN ps |-> ps[at[i]]]

EndEqualCost ==
    /\ op = "equal_cost" /\ todo = <<>> /\ queue = <<>>
    /\ paths' = IF ends[2] \in DOMAIN dist THEN Ordered(Backtrack) ELSE <<>>
    /\ op' = "route"
    /\ UNCHANGED <<adj, ends, search, dist, preds, chosen, firstFound>>

(***************************************************************************)
(* route(PER_FLOW_ECMP, flow_key, a, b): the digest of the key, modulo the *)
(* number of paths, is the index.                                          *)
(***************************************************************************)
Route ==
    /\ op = "route"
    /\ IF paths = <<>> THEN UNCHANGED chosen
       ELSE \E digest \in 0..MaxDigest : chosen' = paths[(digest % Len(paths)) + 1]
    /\ op' = "routed"
    /\ UNCHANGED <<adj, ends, search, dist, preds, paths, firstFound>>

(***************************************************************************)
(* path(), which route() returns in SINGLE_PATH mode: each node is reached *)
(* from where it was first seen, and the search is over when that is b.    *)
(***************************************************************************)
StartPath ==
    /\ op = "routed"
    /\ IF ends[1] = ends[2] THEN single' = <<>> /\ op' = "done" /\ UNCHANGED queue
       ELSE queue' = <<ends[1]>> /\ op' = "path" /\ UNCHANGED single
    /\ UNCHANGED <<adj, ends, cur, todo, equalCost, prev>>

Traced(from) ==
    LET to[n \in {ends[1]} \cup DOMAIN from] ==
            IF n = ends[1] THEN <<>> ELSE Append(to[from[n][1]], from[n])
    IN  to[ends[2]]

Enqueued_Front(n) == <<n>> \o queue     \* mutant: what is seen last is visited next

Enqueued(n) == Append(queue, n)

LookPath ==
    LET lk == Head(todo)
        n == lk[2]
    IN  /\ op = "path" /\ todo # <<>>
        /\ todo' = Tail(todo)
        /\ IF n \in {ends[1]} \cup DOMAIN prev THEN UNCHANGED <<prev, single, op, queue>>
           ELSE /\ prev' = Put(prev, n, lk)
                /\ IF n = ends[2]
                     THEN single' = Traced(prev') /\ op' = "done" /\ UNCHANGED queue
                     ELSE queue' = Enqueued(n) /\ UNCHANGED <<single, op>>
        /\ UNCHANGED <<adj, ends, cur, equalCost>>

NoPath ==
    /\ op = "path" /\ todo = <<>> /\ queue = <<>>
    /\ op' = "done"
    /\ UNCHANGED <<adj, ends, search, equalCost, firstFound>>

Query ==
    Popleft \/ LookEqualCost \/ EndEqualCost \/ Route \/ StartPath \/ LookPath \/ NoPath

Done == op = "done" /\ UNCHANGED vars

Next ==
    \/ \E l \in LinkChoice, bidirectional \in BOOLEAN : AddLink(l[1], l[2], bidirectional)
    \/ \E pair \in Questions : StartEqualCost(pair[1], pair[2])
    \/ Query
    \/ Done

(***************************************************************************)
(* A call in progress goes on; nobody has to make one.                     *)
(***************************************************************************)
Spec == Init /\ [][Next]_vars /\ WF_vars(Query)

-----------------------------------------------------------------------------
(***************************************************************************)
(* Reference: the shortest ways to the destination, a way being a sequence *)
(* of links of which each starts where the last one ends.                  *)
(***************************************************************************)
Ways(k) ==
    {w \in [1..k -> Links] :
        /\ w[1][1] = ends[1] /\ w[k][2] = ends[2]
        /\ \A i \in 1..(k - 1) : w[i][2] = w[i + 1][1]}

Shortest ==
    LET hops == {k \in 1..(Cardinality(Node) - 1) : Ways(k) # {}}
    IN  IF ends[1] = ends[2] THEN {<<>>}
        ELSE IF hops = {} THEN {} ELSE Ways(Min(hops))

(***************************************************************************)
(* equal_cost_paths returns every minimum-hop path once, sorted by the ids *)
(* of the links: the list of these ids depends on which nodes are linked   *)
(* and not on the order the links were added in, so that the nodes a flow  *)
(* key leads through are reproducible.  Where a link was added several     *)
(* times there is a path over each, and only the ids are the same.         *)
(***************************************************************************)
EqualCostIsAllShortest ==
    op = "route" =>
        /\ ToSet(paths) = Shortest
        /\ \A i, j \in DOMAIN paths :
             i < j => paths[i] # paths[j] /\ ~Lower(Ids(paths[j]), Ids(paths[i]))

(***************************************************************************)
(* The modes agree on what a route is: path() fails exactly where          *)
(* equal_cost_paths does, and what it returns, like what route() selects,  *)
(* is one of the equal-cost paths.                                         *)
(***************************************************************************)
RoutesAreEqualCost ==
    op = "done" =>
        IF paths = <<>> THEN single = NoRoute /\ chosen = NoRoute
        ELSE {single, chosen} \subseteq ToSet(paths)

(***************************************************************************)
(* Every search ends, whatever cycles the fabric has.                      *)
(***************************************************************************)
SearchEnds == op = "equal_cost" ~> op = "done"
=============================================================================
