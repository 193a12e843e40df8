---------------------------- MODULE Deployment ----------------------------
(***************************************************************************)
(* The logical side, src/engine/logical/deployment.py: a deployment is a   *)
(* sequence of replicas, each with its parallel sizes, and the ranks of a  *)
(* replica are partitioned into groups by each kind of parallelism.        *)
(*                                                                         *)
(* A replica is a record [id, TP, EP, DP, PP], where id stands for its     *)
(* pool and replica_id; a rank is <<id, index>>.                           *)
(***************************************************************************)
EXTENDS Naturals, Sequences, FiniteSets, SequencesExt

(* Rank layout: TP is innermost, then EP, DP and PP. *)
KindOrder_EpInnermost == <<"EP", "TP", "DP", "PP">>     \* mutant: EP before TP

KindOrder == <<"TP", "EP", "DP", "PP">>

Kinds == {"TP", "EP", "DP", "PP"}

WorldSize(replica) == replica.TP * replica.PP * replica.DP * replica.EP

RanksOf(replica) == [i \in 1..WorldSize(replica) |-> <<replica.id, i - 1>>]

DeploymentRanks(replicas) == FlattenSeq([k \in DOMAIN replicas |-> RanksOf(replicas[k])])

(* The product of the sizes of the kinds inside the given one. *)
Stride(replica, kind) ==
    LET inner[k \in 1..(Len(KindOrder) + 1)] ==
            IF k > Len(KindOrder) \/ KindOrder[k] = kind THEN 1
            ELSE replica[KindOrder[k]] * inner[k + 1]
    IN  inner[1]

(***************************************************************************)
(* Replica.groups(kind): blocks of stride * n ranks, and in each block one *)
(* group per offset.  A kind of size 1 has no groups.                      *)
(***************************************************************************)
BlockLength_OfGroup(replica, kind) == replica[kind]    \* mutant: a block is as long as a group

BlockLength(replica, kind) == Stride(replica, kind) * replica[kind]

Groups(replica, kind) ==
    LET n == replica[kind]
        stride == Stride(replica, kind)
        bases == {b \in 0..(WorldSize(replica) - 1) : b % BlockLength(replica, kind) = 0}
    IN  IF n = 1 THEN {}
        ELSE {[j \in 1..n |-> <<replica.id, base + off + (j - 1) * stride>>] :
                base \in bases, off \in 0..(stride - 1)}

-----------------------------------------------------------------------------
(***************************************************************************)
(* Reference: the coordinate of a rank in each dimension of the layout.    *)
(***************************************************************************)
Coordinate(replica, index, kind) ==
    CASE kind = "TP" -> index % replica.TP
      [] kind = "EP" -> (index \div replica.TP) % replica.EP
      [] kind = "DP" -> (index \div (replica.TP * replica.EP)) % replica.DP
      [] kind = "PP" -> index \div (replica.TP * replica.EP * replica.DP)

Together(replica, i, j, kind) ==
    \A other \in Kinds \ {kind} :
        Coordinate(replica, i, other) = Coordinate(replica, j, other)
=============================================================================
