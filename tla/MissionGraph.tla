---------------------------- MODULE MissionGraph ----------------------------
(***************************************************************************)
(* The construction of a mission's graph (mission/mission_graph.py):       *)
(* build_graph with any list of nodes and edges, then add_node and         *)
(* add_edge.  The algorithms of MissionGraphOps are compared, on every     *)
(* graph that can be built, with reference definitions that do not use an  *)
(* in-degree: reachability along the edges.                                *)
(***************************************************************************)
EXTENDS MissionGraphOps

CONSTANTS Ids,        \* node identifiers
          EdgeLists,  \* edge lists given to build_graph
          MaxEdges    \* bound on the edges of a mission

ASSUME IdsAssumption == IsFiniteSet(Ids)
ASSUME EdgeListsAssumption == EdgeLists \subseteq Seq(Ids \X Ids)

VARIABLES built,         \* build_graph was called: "non", or whether its edges
                         \* joined known nodes ("sain") or not ("douteux")
          missionNodes,  \* identifiers of mission.nodes
          missionEdges,  \* mission.edges
          dependsOn      \* node.depends_on of each node, as a set

graphVars == <<built, missionNodes, missionEdges, dependsOn>>

GraphInit ==
  /\ built = "non"
  /\ missionNodes = {}
  /\ missionEdges = << >>
  /\ dependsOn = [n \in Ids |-> {}]

\* build_graph: the lists replace what was there and depends_on is derived
\* from the edges.
BuildGraph ==
  /\ built = "non"
  /\ \E ns \in SUBSET Ids, es \in EdgeLists :
       /\ built' = IF EndpointsKnown(ns, es) THEN "sain" ELSE "douteux"
       /\ missionNodes' = ns
       /\ missionEdges' = es
       /\ dependsOn' = [n \in Ids |-> IF n \in ns THEN Sources(es, n) ELSE {}]

\* add_node: appended as it is, with its own empty depends_on.  A node comes
\* with an identifier of its own (uuid4); the list would hold a second one
\* twice.
AddNode(n) ==
  /\ built # "non"
  /\ n \notin missionNodes
  /\ missionNodes' = missionNodes \cup {n}
  /\ UNCHANGED <<built, missionEdges, dependsOn>>

\* add_edge: refused unless both ends are nodes; no cycle check.
AddEdge(s, t) ==
  /\ built # "non"
  /\ Len(missionEdges) < MaxEdges
  /\ s \in missionNodes /\ t \in missionNodes
  /\ missionEdges' = Append(missionEdges, <<s, t>>)
  /\ dependsOn' = [dependsOn EXCEPT ![t] = @ \cup {s}]
  /\ UNCHANGED <<built, missionNodes>>

GraphNext ==
  \/ BuildGraph
  \/ \E n \in Ids : AddNode(n)
  \/ \E s, t \in Ids : AddEdge(s, t)

GraphSpec == GraphInit /\ [][GraphNext]_graphVars

-----------------------------------------------------------------------------
(* Reference definitions.                                                  *)

Acyclic == \A n \in Ids : n \notin Descendants(Ids, missionEdges, n)

Ancestors(n) == {m \in Ids : n \in Descendants(Ids, missionEdges, m)}

\* validate_graph accepts exactly the graphs whose edges join nodes and that
\* have no cycle: counting the visited identifiers does not confuse an
\* unknown identifier that was visited with a node that was not, nor does an
\* edge listed twice count for one.
ValidateIsExact ==
  ValidGraph(missionNodes, missionEdges) <=> EndpointsKnown(missionNodes, missionEdges) /\ Acyclic

\* topological_sort lists no identifier twice and every dependency before the
\* node that depends on it; it lists every node when the graph is valid.
TopologicalSortIsSound ==
  LET order == TopologicalSort(missionNodes, missionEdges)
      index(n) == CHOOSE i \in DOMAIN order : order[i] = n
  IN /\ IsInjective(order)
     /\ \A n \in ToSet(order) : \A m \in Ancestors(n) :
          m \in ToSet(order) /\ index(m) < index(n)
     /\ ValidGraph(missionNodes, missionEdges) => ToSet(order) = missionNodes

\* get_parallel_groups of a valid graph puts each node in one group, and no
\* group holds a node together with one of its ancestors: nodes of a group may
\* run at the same time.  If it was built with known ends, the groups (taken
\* from the edges) are the successive answers of get_ready_nodes (taken from
\* depends_on) when everything completes: the two copies of the graph agree,
\* whatever nodes and edges were added afterwards.
GroupsAreParallel ==
  ValidGraph(missionNodes, missionEdges) =>
    LET groups == ParallelGroups(missionNodes, missionEdges)
        earlier(j) == UNION {groups[i] : i \in 1..(j-1)}
    IN /\ UNION ToSet(groups) = missionNodes
       /\ \A i, j \in DOMAIN groups : i # j => groups[i] \cap groups[j] = {}
       /\ \A j \in DOMAIN groups : \A n \in groups[j] : \A m \in Ancestors(n) :
            m \in earlier(j)
       /\ built = "sain" => \A j \in DOMAIN groups :
            groups[j] = {n \in missionNodes \ earlier(j) : dependsOn[n] \subseteq earlier(j)}
=============================================================================
