--------------------------- MODULE MCMissionWalks ---------------------------
(* Graphs of three nodes for the mission walks: a chain (one node per pass, *)
(* the failure of the first leaves the last pending), a join and a fork     *)
(* (nodes ready together), independent nodes, and a cycle, which            *)
(* validate_graph refuses.                                                  *)
EXTENDS MissionWalks

Chain == << <<1, 2>>, <<2, 3>> >>
Fork == << <<1, 2>>, <<1, 3>> >>
Join == << <<1, 3>>, <<2, 3>> >>
Flat == << >>
Cycle == << <<1, 2>>, <<2, 1>> >>

SomeGraphs == {Chain, Join, Cycle}
AllGraphs == {Chain, Fork, Join, Flat, Cycle}
OnlyChain == {Chain}
=============================================================================
