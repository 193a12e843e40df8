# Formal models of dc-sim

dc-sim places the ranks of an LLM serving deployment on the GPUs of a fabric and prices what
they send each other: an isolated collective through ASTRA-sim, and a set of concurrent
transfers through a flow-level network model of its own. This directory holds TLA+ models of
it, TLC runs and TLAPS proofs. Paths below are relative to the repository; `engine/` stands
for `src/engine/`.

## 1. Inventory

| Part | State | Operations | Hard behaviour | Correct when |
|---|---|---|---|---|
| allocator, `engine/network/allocator.py` | locals of one call: unfixed flows, capacity left, rates, bottlenecks | `max_min_fair_share`, `verify_conservation` | ties broken by hash-seeded set order; clamped subtraction; links of capacity 0 | the result is the max-min fair allocation, whatever the order; the loop ends |
| flow network, `engine/network/model.py` | time, revision, flows (state, bytes left, times), current allocation | `submit`, `advance_to`, `next_completion_time_ns`, `run_to_idle` | every admission and completion revises the others; several completions at an instant; rounding | rates are never stale, no completion is early, no due completion is left, calls return |
| host of the network (not in the repository) | event queue that cannot cancel | pops events, compares `revision` | stale events, ties | exactly one live event; every flow completes |
| transfers, `engine/network/transfers.py` | pending transfers, completions collected | `run_transfers`, `isolated_durations`, `analyse` | completions on the way to an admission; starved flows | nothing dropped, only starved flows missing, company never helps |
| fabric, `engine/physical/topology.py` | `_links`, `_adj`, machines, domains, NIC bindings | `add_*`, `path`, `equal_cost_paths`, `route`, `link_set` | insertion order, cycles, one link added twice | the routing modes agree, results depend on the links alone |
| builders, `engine/physical/builders.py` | none | `build_node_scale`, `build_rack_scale` | NICs shared round-robin, domains across machines | a route leaves and enters a domain through the NICs of its own two GPUs |
| blueprints, `engine/infragraph/blueprints.py` | none | `single_tier_fabric`, `clos_fat_tree_fabric` | wires machines again with its own code; ratio of aggregates | agrees with the builders; every spine is used; oversubscribed as asked |
| InfraGraph, `engine/infragraph/` emit, validate, parse | none (documents) | `to_infragraph`, `validate_infragraph`, `from_infragraph` | documents of other tools; names that fall together; membership written twice | lossless; what is accepted parses; nothing vanishes |
| deployment, `engine/logical/deployment.py` | replicas | `ranks`, `groups` | strides of four nested dimensions | groups partition the ranks |
| placement, `engine/placement/placement.py` | mapping rank -> GPU | `assign`, `validate`, `packed`, `spread`, `explicit`, `fragmented` | domains of different sizes, GPUs in none, wrong input | injective, on the fabric, refuses only what does not fit |
| cost estimates, `engine/cost/` | cache, counters, config files | `estimate` of `AstraSimBackend` and `FallbackBackend`, `emit_config_pair` | stale cache and files, partial failure, dimensions dropped in silence, printed keys | an answer is for the request |
| command line, `engine/cli/` | none | `infragraph.py` builds, writes, reads, compares; `place.py` prints | - | the comparison agrees with the data |
| `tools/` | none | measuring and linting scripts | - | - |

How they meet: a builder, a blueprint or a document makes a fabric; placement maps ranks to
its GPUs; a transfer between two GPUs is routed by the fabric and submitted to a flow
network over the fabric's links; the network asks the allocator for rates at each change. A
host simulator drives the network through one event and the revision number. The shape of a
group under a placement is what the cost backend is asked about. Everything runs on one
thread: what interleaves is the calls of the callers, the branches of `advance_to`, the
host's events, and, for the cost backend and the documents, files that others write.

`PROJECT.json` lists the hazards at their lines, each with the properties that would catch
it.

## 2. Modules

    MaxMinFair ----------- FairAllocation          what the allocator promises
         |                       ^ implements
    ProgressiveFilling ----------+                 how it computes it

    FlowNetwork                                    model.py, callers left open
         +--- TransferRun                          run_transfers drives it
         +--- HostEvents                           an external host drives it
    Topologies                                     small fabrics for the three

    Fabric                                         what a Fabric holds; routes, shapes
         +--- Builders ----+
         +--- InfraGraph --+--- RoundTrip          built, written, edited, read
    FabricPaths                                    the searches, step by step
    Deployment --- Placement                       ranks, groups, policies
    CostEstimates                                  cache, configs, fallback
    Listing                                        sorted(), for Placement and InfraGraph

    proofs: DataLemmas                             sums, divisions, sorting, joined lists
            ProgressiveFillingProofs
            NetworkProofs                          FlowNetwork, TransferRun and HostEvents
            FabricPathsProofs, PlacementProofs, CostProofs
            RoundTripProofs --- RoutesProofs       documents; routes of built fabrics

The `MC` modules only define the values that the .cfg files give to the constants. An
operator whose comment begins with "mutant" is a plausible bug in the definition that
follows it; no specification uses it.

### MaxMinFair, FairAllocation, ProgressiveFilling

`MaxMinFair` states max-min fairness by the bottleneck condition (`Bottlenecked`: every
constrained flow crosses a saturated link on which nobody has a higher rate).
`FairAllocation` is the promise: a request comes, fair rates go back, in one step.
`ProgressiveFilling` is the code: `Prologue` (allocator.py 60-77), one `FillRound` per
iteration (83-112), `Unconstrain` for `best_link is None` (95-99), `Return`. `Offering` is
the set of links the scan considers and `FillRound` takes any with the smallest share,
because dict order follows a set of strings. Shares are integers: a round picks the rate
with `rate * live flows = remaining`, and the instances only have capacities for which it
exists (a missing one would be a deadlock).

### FlowNetwork

| Code (model.py) | Action |
|---|---|
| `submit` 104-121, `_drain`, `_reallocate` | `Submit`, one action |
| `advance_to` 173-182 | `AdvanceTo` |
| loop head, completion due, `_drain(nxt)` 184-188 | `DrainToNext` |
| finished flows, `_reallocate` 197-206 | `CompleteFinished` |
| nothing finished, `nxt < to_ns` 195-196 | `Nudge` |
| nothing finished, `nxt >= to_ns` 193-194, 208 | `BreakUnfinished` |
| nothing due 186-187, 208 | `FinishAdvance` |

The allocation is the constant function `FairRate`, indexed by the set of flows in flight;
the MC modules check with an ASSUME that the tables they use meet `Bottlenecked`. Bytes and
rates are integers. A float that is drained to 0 may keep a residue above the 1e-9 of the
completion test: for the flows of `Inexact`, a drain to exactly 0 chooses one of three
residue classes (none; so small that `now + residue / rate` is `now`; visible to the
ceiling). Rejected calls change nothing and are left out, as are the bottleneck labels of
completions.

### TransferRun, HostEvents

`TransferRun` is the loop of `run_transfers` around `FlowNetwork`: `AdvanceToSubmit` and
`Admit` for each transfer in (submit_ns, key) order, then `AdvanceToNext` and `Collect` of
`run_to_idle`. `HostEvents` is the host that the module docstring of model.py (13-17) is
written for: it advances, then submits; it pushes one event for the predicted completion
after each call, and drops popped events of another revision. It is external and modelled
from that strategy.

### Fabric, FabricPaths

`Fabric` is the inventory of a fabric as a record of its dicts (machines, domains,
`_gpu_domain`, `_gpu_nic`, `_links`), with `Dict` for a dict that is filled in an order, the
shortest routes between two GPUs, and what placement.py asks of it (`domains_spanned`, the
counts of `group_shape`, `induced_links`).

`FabricPaths` is how routes are found. Links are added in any order and as often as a caller
likes (`AddLink`): `add_link` appends to `_adj` whatever is there already, and parse.py adds
a link twice where its edges run to two asics of one switch. A link is therefore written
with its place in the list of its source, and a path is a sequence of links. Then a query
runs. Both searches take nodes from the queue (`Popleft`) and look at their links one by
one. `equal_cost_paths` is `StartEqualCost`, `LookEqualCost` for each link and
`EndEqualCost` with back-tracking and sort; then come the choice of `route()` for any digest
(`Route`) and `path()` (`StartPath`, `LookPath` for each link, `NoPath`). Nodes are numbers,
which stand for the order of link ids; ids do not tell links with the same ends apart, so
the sort leaves these as they were found.

### Builders, InfraGraph, RoundTrip

`Builders` gives the fabric that each builder and blueprint returns, as a function of its
parameters. `Assembled` is what builders.py shares between its two platforms,
`WiredMachines` the `_wire_machines` of blueprints.py, kept apart because they are two
pieces of code that have to agree.

`InfraGraph` has the document (`Emitted`), the rules of the validator in order (`Accepted`)
and the reading (`ParseRaises`, `Parsed`). A name is the tuple <<instance, index, component,
index>>, so the regular expression for names is left out, and the presence of all required
fields is one flag. An index or a domain id may be a number or a string. A number and its
string print alike in a name, and the validator compares components by their names; but they
cannot be sorted together.
`MixedIndices` are those that parse.py sorts (machine ids, the GPUs and the NICs of a
machine), `Unwritable` those that emit.py does (these, the switches of a tier, the domains).

`RoundTrip` composes them as the command `cli/infragraph.py` does: `Build`, `Write`, `Read`,
`Compare`. Between `Write` and `Read` others may `Edit` the document, since the validator
"defends against documents this project did not write"; a fabric that was read from such a
document is adopted, written and read once more. Where the emitter raises, nothing is
written (stage "unwritten").

### Deployment, Placement

`Groups` is the stride and block arithmetic of `Replica.groups`. A behaviour of `Placement`
is one call of one policy: one step per rank, then `Validate`. The shuffle of `fragmented`
is any order of any set of free GPUs.

### CostEstimates

One action per step of `AstraSimBackend.estimate` that can fail or be overtaken: `Estimate`
counts and derives the topology, `Hit`, `WriteNetwork`, `WriteSystem`, `Verify`, `Run`, and
the failures `WriteFails`, `NoTrace`, `RunFails`; `Fallback` is `FallbackBackend` after
NotExpressible. A duration is represented by what was simulated, so two results are equal
when ASTRA-sim was asked the same. `%g` in the cache key rounds to multiples of
`Resolution`, so different fabrics may share an entry. ASTRA-sim itself, edits by hand and
trace generation are external. Both files, which are named by the shape alone, may be edited
at any time: `EditSystem` changes the number of dimensions of a system config (`verify` and
the rank guard speak of nothing else in it), `EditNetwork` replaces a network config by
another of one or two dimensions. The history variable `edited` has the shapes whose network
config is not the one that was written, and an answer says by `asWritten` whether its was.

## 3. Runs

| Run | Instance | Shows |
|---|---|---|
| `filling` | 3 flows, 3 links, every route, capacities 0, 6, 12, unlimited | `LevelBelowShares`, `NoFlowAboveItsLinks`, `BottleneckIsTight`, `RatesOnlyRise`; implements `FairAllocation` (`ReturnsFairRates`); `Returns` |
| `network` | parking lot (3 flows, 2 links, the flow on both inexact) and a flow without links, sizes 5, 12, times 0..4 | `AllocationIsCurrent`, `FlowBudget`, `AdvanceLeavesNothingDue`, `RevisionGuardsPrediction` (for predictions that come from bytes left to move), `AdvanceReturns` |
| `transfers` | parking lot and a transfer over a failed link, 3 sizes, 4 submit times, two modes | `NothingDropped`, `NeverFasterThanAlone`, `OnlyStarvedAreMissing`, `NoCompletionPassed`, `RunReturns` |
| `host` | parking lot, sizes 0, 5, 12, times 0..6 | `OneLiveEvent`, `EveryFlowCompletes` |
| `paths` | 5 nodes, 8 pairs of them to link, fewer than 5 links before a last call, one-way and two-way, repeated or not | `EqualCostIsAllShortest`, `RoutesAreEqualCost`, `SearchEnds` |
| `roundtrip` | every builder and blueprint with up to 3 machines, or radix 2 to 4, 1..3 GPUs and 0..2 NICs each; every document two edits away from three small fabrics, with numbers and strings for indices | built fabrics: `RoutesFollowDomains`, `ShapeTellsTheLinks`, `LeafSpineFabric`, `SingleTierIsNodeScale`, `BuiltFabricsRoundTrip`; documents: `AcceptedDocumentsParse`, `NothingVanishes`, `SecondReadAgrees` |
| `placement` | packed and spread: 6 GPUs in 2 domains or none, all 729 divisions, every replica up to 8 ranks and pairs of replicas; explicit and fragmented: every map and every free set, up to 4 ranks | `PlacedIsInjective`, `RefusalIsJustified`, `SpreadIsEven`, `GroupsPartitionRanks`, `PackedKeepsAlignedTpGroups` |
| `cost` | 3 shapes, 4 fabrics of which two print alike, 4 calls, 2 edits of either config | `AnswerIsForTheRequest`, `NoDimensionDropped`, `AnswerCoversTheGroup` |

Runs that end in a violation show where the code disagrees with what it says of itself:

| Run | Statement | What happens |
|---|---|---|
| `ecmp_raises` | transfers.py:71 "PER_FLOW_ECMP disperses them" | `_links_for` passes `route` its arguments in the wrong order, every such run raises |
| `rounding_hangs` | model.py:192 "nudge forward to avoid spinning" | called with `to_ns = nxt`, the nudge is never reached and `run_to_idle` spins |
| `asics_collapse` | validate.py:106-107 a duplicate edge would overwrite a capacity, so it is refused | two asics of a switch are one node; edges that differ by name overwrite each other in `_links`, and stay side by side in `_adj` |
| `domain_twice` | validate.py:82-84 membership is recorded twice to catch a malformed document | of two entries of one domain only the last is compared, both are read: `domain_of` and the members disagree |

`transfers` and `host` leave out unlinked and inexact flows: with either, no caller that
advances to the predicted time is sure to make progress. `network` has both, since
`advance_to` alone returns. `NothingVanishes` and `SecondReadAgrees` state what holds beside
the two InfraGraph findings and name the documents they except.

### Seen while modelling, without a run of its own

- A transfer that stays on its GPU has infinite rate: `run_to_idle` repeats for it the same
  call as in `rounding_hangs`. Where it does complete, in `advance_to`, it is a nanosecond
  late, not "immediately" (allocator.py:57-58).
- Packed placement splits TP groups where a domain does not hold a whole number of them,
  against "inside one domain wherever they fit" (placement.py:102);
  `PackedKeepsAlignedTpGroups` has the condition under which it does not.
- `spread` does not split a group whose stride is a multiple of the number of domains,
  against "Maximally splits every group" (placement.py:123).
- `induced_links` asks for paths from earlier to later ranks only, so it has one direction
  of every link of "a fully-connected exchange" (placement.py:65); `InducedLinks` models it
  so.
- GPUs in no domain count as one domain, None, in `group_shape`, although no scale-up link
  connects them.
- A document in which the indices of the machines, or those of one machine's GPUs or NICs,
  are both numbers and strings is accepted and then fails in a sort (parse.py:59-61),
  against validate.py:12-15. `AcceptedDocumentsParse` names this as its exception
  (`MixedIndices`) and says that there is no other.
- With such indices of switches, or such domain ids, it is the emitter that raises
  (emit.py:47, 85), on a fabric that was read without complaint; `SecondReadAgrees` says
  that nothing else is unwritable.
- `verify` "catches a hand-edited config before it produces a wrong number"
  (astra_config.py:161-162) only where the edit changes the number of dimensions. An edit of
  the network config that keeps this and the number of ranks is simulated, and its answer
  memoised: [2, 2] with other bandwidths, or [4] for [2, 2] when the system config has one
  entry too. `AnswerIsForTheRequest` says what then still holds, and that no other edit does
  harm.
- A GPU with egress edges to two NICs is bound to the last in document order, which another
  writing may change (`OneNicPerGpu`).
- A fabric with an unconnected GPU (alone in its domain, in a machine without NICs) can be
  built and written but is refused when read.
- In a fat tree whose machines have several NICs a leaf has more links than its radix
  (`WithinRadix` is stated for one); depth 0 builds two tiers.
- The hit rate of the cost cache (astra_backend.py:10-11) also falls at shapes that are
  refused before any key is looked up.

### Bounds and why they are enough

- Three flows on two or three links are the smallest case in which a completion changes
  rates in both directions: when the flow on both links of the parking lot ends, both others
  speed up, and its own rate depends on both. Requests of `filling` range over every route,
  so one-link, nested, disjoint and parking-lot cases are all there.
- Capacities 6 and 12 divide by 1, 2 and 3, so every share of three flows is whole; 0 is a
  failed link and `Inf` one that never constrains.
- `MaxTime` bounds the times callers use, not completions: 4 ns (6 in `host`) lets a flow
  start, be slowed down twice and finish. `transfers` takes its times from `SubmitTimes`,
  and `LimitNs` is beyond every completion. Sizes 5 and 12 give completions that do and do
  not fall on whole nanoseconds at rates 2, 3, 4 and 6; size 0 (in `transfers` and `host`)
  completes at once.
- `MaxLinks` is 5: calls stop once five one-way links are there, so six when the last is
  two-way; a repeated link counts. Eight of the ten pairs of five nodes are offered: links
  that lead from 1 to 5 in two to four hops, and back only as the reverse of another. They
  contain the smallest graph on which a depth-first order finds a longer path, two
  equal-cost paths, cycles back, and a link twice at each place of a path. Links from a node
  to itself are left out of the instance, not of the proofs. `MaxDigest` reaches every index
  of the lists of paths that occur.
- Machines of 1..3 GPUs and 0..2 NICs are the cases in which NICs are fewer than, as many as
  and more than GPUs, divide them and do not; 1 and 2 racks are without and with a spine;
  radix 2 and 4 have one and two spines, 3 is refused. Edges are sorted by the numbers in
  their names (`PlaceOf`), strings of two-digit indices sort otherwise; the order tells a
  reader only which of two NICs a GPU is bound to.
- Two edits are what a consistent change of the redundant membership takes (the list and the
  attribute), and of adding a component together with its edge. The pools of new components,
  domains and edges hold for each rule something that breaks it and something that does not,
  and the strings "0" and "1" for indices of GPUs, NICs, machines, switches and domains.
- Two replicas, one of them perhaps named twice, and shapes with every dimension at 1 or 2
  (TP up to 4) give groups of every stride that fits eight ranks; six GPUs make them fit and
  not fit.
- Four calls are one to fill the cache, one to hit it and two that fail or belong to another
  fabric. `Resolution` 10 makes 400 and 404 print alike, 300 not. An edited network config
  has other numbers, or the ranks of another shape, or the right ranks only without its
  second dimension; two edits change both files of a shape.

### Fairness

`FlowNetwork`: weak fairness of the loop steps only; callers need not call again.
`TransferRun` and `ProgressiveFilling`: weak fairness of the program's own steps, one thread
that nothing blocks. `FabricPaths`: of the search steps. `HostEvents`: of the host's own
loop, not of arrivals. None of these assumes a choice: tie-breaks and residues are left
open, and `rounding_hangs` is a behaviour that is fair. `Placement`, `RoundTrip` and
`CostEstimates` state no liveness: they are straight lines of steps. Deadlock is checked in
every run.

## 4. Proofs

For all values of the constants that meet the named assumptions:

| Theorem | Statement |
|---|---|
| `ProgressiveFillingProofs!TypeCorrect` | `Spec => []TypeOK` |
| `ProgressiveFillingProofs!LevelSafe` | `Spec => []LevelBelowShares` |
| `ProgressiveFillingProofs!RatesRise` | `Spec => RatesOnlyRise` |
| `ProgressiveFillingProofs!WithinLinks` | `Spec => []NoFlowAboveItsLinks` |
| `ProgressiveFillingProofs!BottlenecksHold` | `Spec => []BottleneckIsTight` |
| `ProgressiveFillingProofs!NoneStarved` | `Spec => []StarvedByALink` |
| `ProgressiveFillingProofs!FillingIsFair` | `Spec => ReturnsFairRates`, the refinement of `FairAllocation` |
| `NetworkProofs!TypeCorrect` | `Spec => []TypeOK` |
| `NetworkProofs!AllocationCurrent` | `Spec => []AllocationIsCurrent` |
| `NetworkProofs!FlowBudgetHolds` | `Spec => []FlowBudget` |
| `NetworkProofs!RevisionGuards` | `Spec => RevisionGuardsPrediction` |
| `NetworkProofs!NothingLeftDue` | `Spec => AdvanceLeavesNothingDue` |
| `NetworkProofs!OneEventIsLive` | `HostSpec => []OneLiveEvent` |
| `NetworkProofs!NothingIsDropped` | `RunSpec => []NothingDropped` |
| `NetworkProofs!NoneIsMissing` | `RunSpec => []OnlyStarvedAreMissing` |
| `NetworkProofs!NeverFaster` | `RunSpec => []NeverFasterThanAlone` |
| `NetworkProofs!NonePassed` | `RunSpec /\ ExactAndLinked => NoCompletionPassed` |
| `FabricPathsProofs!RoutingInvariant` | `Spec => []RoutingInv` |
| `FabricPathsProofs!AllShortestWays` | `Spec => []EqualCostIsAllShortest` |
| `FabricPathsProofs!ModesAgree` | `Spec => []RoutesAreEqualCost` |
| `PlacementProofs!TypeCorrect` | `Spec => []TypeOK` |
| `PlacementProofs!PlacedOnOwnGpus` | `Spec => []PlacedIsInjective` |
| `PlacementProofs!RefusalsJustified` | `Spec => []RefusalIsJustified` |
| `PlacementProofs!SpreadEven` | `Spec => []SpreadIsEven` |
| `PlacementProofs!GroupsPartition` | `Spec => []GroupsPartitionRanks` |
| `PlacementProofs!AlignedGroupsTogether` | `Spec => []PackedKeepsAlignedTpGroups` |
| `CostProofs!AnswersAreForRequests` | `Spec => []AnswerIsForTheRequest` |
| `CostProofs!DimensionsKept` | `Spec => []NoDimensionDropped` |
| `CostProofs!AnswersCoverGroups` | `Spec => []AnswerCoversTheGroup` |
| `RoundTripProofs!RoundTripInvariant` | `Spec => []RoundTripInv` |
| `RoundTripProofs!BuiltReadBack` | `Spec => []BuiltFabricsRoundTrip` |
| `RoundTripProofs!AcceptedParse` | `Spec => []AcceptedDocumentsParse` |
| `RoundTripProofs!ReadInFull` | `Spec => []NothingVanishes` |
| `RoundTripProofs!SecondRoundTrip` | `Spec => []SecondReadAgrees` |
| `RoundTripProofs!OneShape` | `Spec => []SingleTierIsNodeScale` |
| `RoutesProofs!BuiltRoutesFollowDomains` | `Spec => []RoutesFollowDomains` |
| `RoutesProofs!BuiltShapesTell` | `Spec => [](EveryShapeTells /\ ShapeTellsTheLinks)` |
| `RoutesProofs!BuiltLeafSpines` | `Spec => []LeafSpineFabric` |

**Sums and orders.** Sums over finite sets, integer division and Python's `sorted` are
needed by several proofs; `DataLemmas` states them once. A sum is a fold of the community
modules and so a recursive function over finite sets; the lemmas get at it through the
equation of that function and induction on the cardinality. `ListedBy` lists every element
once, in the order of the keys, if no two keys are the same (`KeysList`). Lists that list
disjoint sets once, joined one after the other, list the union once (`FlattenLists`).

**Allocator.** `LevelBelowShares` (a link's remaining capacity covers its remaining flows at
the last rate) is inductive only together with the types, with `Untouched` (a link that no
fixed flow crosses is not charged) and with `Disjoint` (no flow is both fixed and unfixed);
their conjunction is `Level`. The step that matters is `Fix`: the best share times the flows
it takes from a link is at most what the link has, because the best share is the smallest.
That rates rise follows, since a new rate is a share of a link the level was below. That no
flow exceeds its links follows because a link's remaining capacity never grows. For the
bottlenecks, `Tight` adds the account of each link: what it has left is its capacity less
the rates of the flows that are fixed on it. The link a round takes is used up by that
round, and its flows are the last fixed on it, with rates that had only risen. A bottleneck
for every flow and links whose loads do not exceed them are what `FairAllocation` asks for,
and every other step is a stutter: `FillingIsFair`. `NoneStarved` gives the flow network its
assumption `FairRateStarves`.

**Network.** `Sound` is the types and `AllocationIsCurrent`; neither is inductive alone,
because the types of what a drain leaves rest on the rates being those of the flows in
flight, and these on the types. The lemma `NextIsLater` says a prediction is never in the
past. For `FlowBudget`, `BudgetInv` adds `Timely`: a flow in flight has started, a completed
one has a completion time. One drain credits at most capacity times its length
(`LeftBound`), which is where `FairRateType`, the assumption that no rate exceeds a link of
the flow's route, enters. `WithinLinks` is that assumption's counterpart on the allocator's
side.

**Revision.** A prediction is a rounded-up quotient, and the core of `RevisionGuards` is
arithmetic: draining for `dt` at rate `a` takes exactly `dt` from `CeilDiv(rem, a)` as long
as no more than it passes (`CeilDivShift`). So every flow's due time stays (`DueStays`), and
with it their minimum, unless the allocation changes, which `_reallocate` never does without
the revision. `RevisionInv` adds to `Sound` that a residue is all a flow has left
(`SliverIsLast`) and that after a drain to a prediction some flow is finished
(`DueFinishes`), without which the loop could leave something due behind.

**Host.** `HostInv` bounds the revision of every queued event by the network's, and says in
which phases none is live. It is inductive because the network never turns the revision back
(`RevisionRises`); it needs nothing of what the revision guards.

**Transfers.** `RunInv` is `BudgetInv` with the types of the run, `Accounted` (what is
collected lags behind the network by exactly what the call in progress has completed) and
`Settled` (a completed transfer has no bytes left). `NeverFaster` is `FlowBudget` for the
narrowest link of the route: bytes over capacity, rounded up, is at most the time taken
(`CeilDivLeast`). `NoneIsMissing` adds that a run which returns has admitted everybody:
`run_to_idle` gives up only when nothing is predicted or the limit is passed, and with
nothing predicted every flow in flight has rate 0, so a link without capacity. `NonePassed`
is about runs without rounding in which every transfer crosses a link (`ExactAndLinked`);
outside these a nudge does pass a prediction of "now". `PunctualInv` adds that a drain has
finished somebody, so that no nudge is taken, and that a transfer is submitted at the
instant the network was advanced to.

**Routing.** `Layers` says what `dist` and `preds` are at any time: the start has distance
0, and every other node that is known has the links it is reached by, from one step nearer,
each of them once: a link that was added twice is two links, told apart by their places in
`_adj` (`Placed`), so nothing is assumed of what was added. When the search is over nothing
is known that a link leads further from, or that a link would reach sooner (`Complete`).
Then the ways, chains of links (`Chained`), that gain one in distance at each link (`Tight`)
are the shortest ways of the reference (`ShortestAre`): a way cannot gain more, and no
distance is beyond the number of nodes less one (`DistanceBound`), where the reference
stops. Back-tracking is a recursive function; a function that solves its equation exists
because each step back is one nearer to the start (`BackExists`), and by the same descent it
lists each tight way to a node once (`BackLists`). Sorting keeps that, and puts none after
one with lower ids (`OrderedLists`); among ways with the same ids, which run over different
links with the same ends, the order is the one they were found in. While the search runs,
`Searching` says that the queue holds at most two distances, the nearer first (`Fifo`), that
nothing is known two steps beyond it (`Nearby`), that a node which does not wait is done
with (`Followed`), and that no node was reached yet from one that waits (`NotYet`), so that
what is left to look at of a node's links was not listed before. `path()` is compared with
the distances of the first search, which end with it in the state: `Tracing` says that from
where a node was first seen leads back one step nearer, which holds because an unmet node is
always further than one that still waits (`UnmetAreFar`); so its answer is tight.
`RoutingInv` joins these with what is returned; it held in all states of the instance of
`paths` before it was proved.

**Placement.** The policies differ only in the GPU they hand to `assign`. `PlacementInv`
says that the ranks before `next` are placed, each once, on different GPUs; `AssignKeeps`
proves it for any GPU, and each policy cites it. The number of GPUs then follows from the
bijection between positions and GPUs. `ChoiceInv` adds what each policy has chosen so far:
packed a prefix of its pool, fragmented GPUs that are not free any more, and spread from
each domain the first members, as many as the turns that came to it or all of them
(`InTurn`, which is a statement about `di` and its remainder by the number of domains). A
refusal is then a counting argument, and evenness one about quotients. `GroupsPartition` is
the arithmetic of strides: an index is a coordinate in each of four nested dimensions, and
members of a group have all but one in common. For `AlignedGroupsTogether`, a
tensor-parallel group is a run of ranks whose first position is a multiple of its length,
and so is the position in the pool at which each domain starts; GPUs in no domain come last,
and they are one domain (None) for `domains_spanned`.

**Cost.** `CostInv` relates every key of the cache to its answer. It says that from
`WriteNetwork` to the run the network file is the request's topology unless its shape is in
`edited`, that any network file has one or two dimensions, and that the system file has one
or two entries, whoever edits it. The guard on the number of ranks then decides: of a
network config as it was written, a second dimension is larger than one, so a product over
the first alone cannot be the product over both (`GuardKeepsDimensions`). Of an edited one
it decides the number of ranks and nothing else, which is why the theorems say of such
answers only what their properties say. An expressible shape is even, so its sum is the
product of its dimensions (`EvenGroups`).

**Documents.** `Sound` says what the builders guarantee of a fabric: its five dicts agree on
machines, links, domains and NICs (`Structured`), `_gpu_domain` says what the domains say
(`Membered`), and no GPU has two NICs (`OneNic`). `BuiltSound` proves it of each platform,
for every number of machines, GPUs, NICs and switches. `ReadFabric` is less and is what
reading any accepted document gives (`ParsedStructured`): membership may disagree, and a GPU
may have two NICs. All indices that are built are numbers (`NumbersUnmixed`); of a fabric
that is read, those of its GPUs and NICs sort, because its document was parsed
(`ReadIsWritable`). Both are needed, since `RoundTripInv` follows a document that was built
until it is edited, and afterwards one of which nothing is known but that it was accepted.
Two lemmas carry the theorems: what is emitted of a structured fabric is accepted unless
something is isolated or membership disagrees (`EmittedAccepted`), and reading it gives the
fabric again (`ReadBack`). They rest on nodes having different names unless the fabric is
`Unwritable` (`NamesDiffer`: only a number and its string print alike), and on lists that
are sorted by them having every element once. `AcceptedParse` is the validator's rules one
by one against the lookups and the sorts of the reading. `OneShape` compares the two
wirings: `i % nics` and the search for it (`SameShape`).

**Built routes.** A function of the nodes that is 0 at the start alone, that no link raises
by more than one, and that is one less at some neighbour before each other node, is what a
breadth-first search finds (`IsDistance`, `DistancesAre`). So a route needs no search to be
reasoned about, only the function. `Wired` says how each platform is wired: GPUs to the GPUs
of their domain and to their own NIC, NICs to a leaf, leaves to all spines or to none;
`SingleTierRoutable`, `RackScaleRoutable` and `LeafSpineRoutable` prove it of the builders.
From the wiring `Hops` gives the distance from a GPU in closed form: another GPU is 1, 4 or
6 hops away, by whether it shares the domain, the leaf or neither. A node is on a shortest
route if its distances from both ends add up to that, and what this leaves is the ends,
their NICs, their leaves and the spines (`WaysAre`, `RouteBetweenDomains`).
`EveryShapeTells` says what `ShapeTellsTheLinks` says of two and three GPUs of groups of any
size: the parts of a shape add up to the group, with one part all links are scale-up ones,
and with two some pair of members communicates by egress and scale-out links.
`BuiltLeafSpines` counts the links of a leaf by bijections with machines, NICs and spines
(`NicsBelowCount`, `SwitchCounts`) and adds their capacities (`Capacities`).

Assumptions on constants other than their types, each checked on the instances:
`FairRateStarves` (proved of the allocator), `NoRatesIsNone` (the absence of rates is no
table of rates), `CallsType` (parallel sizes are positive), `PlansType` (a platform has the
parameters its builder takes, machines are not empty, an uplink carries something, and,
since capacities are whole numbers here and floats in the code, an oversubscription divides
what the NICs of a host carry), `EditsType` (what others may add to a document has the
fields of its kind), `NetworkEditsType` (an edited network config can be read and has one or
two dimensions), `NoneIsNoDomain` (the absence of a domain is no domain id).

Every safety property that a passing run checks is stated by a theorem. Model-checked only
is liveness (`Returns`, `AdvanceReturns`, `RunReturns`, `EveryFlowCompletes`, `SearchEnds`),
which the provers do not reach. `Fabric` defines routes by distances (`RouteNodes`), as a
stage of a round trip needs them, and `FabricPaths` computes them by the searches of the
code; `AllShortestWays` and `DistancesAre` each prove their own side, and no theorem joins
the two.

## 5. Not modelled

- Floating point, beyond residue classes and `%g`; `MIN_RATE`, which is 0 here. In
  particular shares of links are exact, so the drift of repeated subtraction in the
  allocator (allocator.py:112) is not seen.
- The single path that `induced_links` asks for: `InducedLinks` has the links of all
  shortest routes, which is more.
- `analyse`, `spray_routes`, `link_utilisation` and the `summary` methods: they divide or
  print what is modelled and change nothing.
- `cli/place.py`, which calls the policies in turn and prints.
- The formula of `MockBackend`, and of ASTRA-sim's output everything but the number of ranks
  that reported.
- `tools/`: scripts that measure ASTRA-sim or check the direction of imports.
- The required fields of a document one by one, its device table and the regular expression
  for names; other arguments that raise before any state changes.

## 6. Plan

Done, in this order: allocator, flow network, its drivers, routing, placement, cost, fabrics
and documents, and proofs of every safety property of a passing run. Next:

1. `TransferRun` over a `Fabric` and a placement, so that routes and rates come from the
   builders; it needs an allocator as an operator, and rates with denominators.
2. A theorem that the nodes of the paths `FabricPaths` returns are `RouteNodes` of the same
   links, so that what is proved of built routes holds of the paths of the code.
