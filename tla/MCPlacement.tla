---------------------------- MODULE MCPlacement ----------------------------
(***************************************************************************)
(* Instances of Placement.                                                 *)
(***************************************************************************)
EXTENDS Placement

Replica(name, tp, ep, dp, pp) ==
    [id |-> name, TP |-> tp, EP |-> ep, DP |-> dp, PP |-> pp]

(* Shapes of up to 8 ranks, pairs of replicas, one named twice. *)
Shapes == {Replica("a", tp, ep, dp, pp) : tp \in 1..4, ep \in 1..2, dp \in 1..2, pp \in 1..2}
MCDeployments ==
    {<<s>> : s \in {s \in Shapes : WorldSize(s) <= 8}} \cup
    {<<Replica("a", 2, 1, 1, 1), Replica(name, 1, 1, 2, 1)>> : name \in {"a", "b"}}

SixGpus == 0..5

CallsOf(policies, deployments, maps) ==
    [policy : policies, replicas : deployments, domain : maps]

(* Every division into two domains for the policies that look at domains,  *)
(* one for those that do not, whose calls branch at every rank.            *)
MCCalls ==
    CallsOf({"packed", "spread"}, MCDeployments, [SixGpus -> {0, 1, None}]) \cup
    CallsOf({"explicit", "fragmented"},
            {d \in MCDeployments : Len(DeploymentRanks(d)) <= 4},
            {[g \in SixGpus |-> g \div 3]})
=============================================================================
