--------------------------- MODULE MCMissionGraph ---------------------------
(* Every graph of three identifiers with up to four edges, the first two   *)
(* of which may be given to build_graph with unknown ends.                 *)
EXTENDS MissionGraph

MCEdgeLists == BoundedSeq(Ids \X Ids, 2)
=============================================================================
