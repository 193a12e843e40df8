------------------------------- MODULE MCCost -------------------------------
(***************************************************************************)
(* Instances of CostEstimates.                                             *)
(***************************************************************************)
EXTENDS CostEstimates

MCShapes == {<<4>>, <<2, 2>>, <<3, 1>>}

L(class, bw, lat) == [class |-> class, bw |-> bw, lat |-> lat]

(* The second fabric has a slower scale-up link, the third no scale-out,   *)
(* the fourth a scale-up link that prints like the first's.                *)
MCLinks == [f \in {"f1", "f2", "f3", "f4"} |->
    CASE f = "f1" -> {L("scale_up", 400, 9), L("egress", 50, 20), L("scale_out", 50, 50)}
      [] f = "f2" -> {L("scale_up", 400, 9), L("scale_up", 300, 9),
                      L("egress", 50, 20), L("scale_out", 40, 50)}
      [] f = "f4" -> {L("scale_up", 404, 9), L("egress", 50, 20), L("scale_out", 50, 50)}
      [] OTHER -> {L("scale_up", 400, 9), L("egress", 100, 20)}]

(* An edit of the numbers, of the dimensions with the ranks of both shapes *)
(* kept, and one that has them only once its second dimension is dropped.  *)
MCNetworkEdits ==
    {[npus |-> <<2, 2>>, bw |-> <<7, 7>>, lat |-> <<9, 70>>],
     [npus |-> <<4>>, bw |-> <<400>>, lat |-> <<9>>],
     [npus |-> <<4, 2>>, bw |-> <<400, 50>>, lat |-> <<9, 70>>]}

MCDefaultBw == [c \in Classes |-> IF c = "scale_up" THEN 400 ELSE 50]
=============================================================================
