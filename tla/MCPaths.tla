------------------------------ MODULE MCPaths ------------------------------
(***************************************************************************)
(* An instance of FabricPaths: links between five nodes, repeated ones     *)
(* among them.                                                             *)
(***************************************************************************)
EXTENDS FabricPaths

FiveNodes == 1..5

(* From 1 to 5, in two to four hops: what leads back is only added as the  *)
(* reverse of another link.                                                *)
Onward == {e \in FiveNodes \X FiveNodes : e[1] < e[2]} \ {<<1, 4>>, <<1, 5>>}

OneGpuPair == {<<1, 5>>, <<1, 1>>}
=============================================================================
