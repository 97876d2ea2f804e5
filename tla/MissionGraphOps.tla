--------------------------- MODULE MissionGraphOps ---------------------------
(***************************************************************************)
(* The algorithms of mission/mission_graph.py and the level computation of *)
(* mission/dependency_resolver.py, as operators on a list of node          *)
(* identifiers (a set here: the order of the list is not used) and a list  *)
(* of edges.  An edge is <<source, target>>: target depends on source.     *)
(* The same edge may be listed twice, and before validation an edge may    *)
(* name an identifier that is not a node.                                  *)
(***************************************************************************)
EXTENDS Naturals, FiniteSets, Sequences, SequencesExt

Sources(edges, n) == {edges[i][1] : i \in {j \in DOMAIN edges : edges[j][2] = n}}
Targets(edges, n) == {edges[i][2] : i \in {j \in DOMAIN edges : edges[j][1] = n}}

\* How many times the edge <<u, v>> is listed.
Multiplicity(edges, u, v) == Cardinality({i \in DOMAIN edges : edges[i] = <<u, v>>})

\* Every identifier reached from n along at least one edge.
Descendants(ids, edges, n) ==
  LET step[i \in 1..Cardinality(ids)] ==
        IF i = 1 THEN Targets(edges, n)
        ELSE step[i-1] \cup UNION {Targets(edges, m) : m \in step[i-1]}
  IN step[Cardinality(ids)]

\* Edges whose two ends are nodes: the first loop of validate_graph.
EndpointsKnown(nodes, edges) ==
  \A i \in DOMAIN edges : edges[i][1] \in nodes /\ edges[i][2] \in nodes

-----------------------------------------------------------------------------
(* Kahn's algorithm, as _detect_cycles and topological_sort write it.      *)

\* The identifiers that get an in-degree: the nodes and every edge target.
KahnIds(nodes, edges) == nodes \cup {edges[i][2] : i \in DOMAIN edges}

KahnStart(nodes, edges) ==
  LET ids == KahnIds(nodes, edges)
      degree == [v \in ids |-> Cardinality({i \in DOMAIN edges : edges[i][2] = v})]
  IN [degree |-> degree,
      queue  |-> SetToSeq({v \in ids : degree[v] = 0}),
      order  |-> << >>]

\* Mutant of KahnTurn: a target is queued whatever degree it has left.
KahnTurnEager(edges, k) ==
  LET u == Head(k.queue)
      degree == [v \in DOMAIN k.degree |-> k.degree[v] - Multiplicity(edges, u, v)]
  IN [degree |-> degree, queue |-> Tail(k.queue) \o SetToSeq(Targets(edges, u)),
      order |-> Append(k.order, u)]

\* One turn of the while loop: pop, visit, lower the in-degree of each
\* outgoing edge, queue what reaches zero.
KahnTurn(edges, k) ==
  LET u == Head(k.queue)
      degree == [v \in DOMAIN k.degree |-> k.degree[v] - Multiplicity(edges, u, v)]
      freed == {v \in Targets(edges, u) : degree[v] = 0}
  IN [degree |-> degree, queue |-> Tail(k.queue) \o SetToSeq(freed),
      order |-> Append(k.order, u)]

\* The state of the loop when the queue is empty.  Each identifier is queued
\* at most once, so that many turns are enough.
Kahn(nodes, edges) ==
  LET n == Cardinality(KahnIds(nodes, edges))
      turn[i \in 0..n] ==
        IF i = 0 THEN KahnStart(nodes, edges)
        ELSE IF turn[i-1].queue = << >> THEN turn[i-1]
        ELSE KahnTurn(edges, turn[i-1])
  IN turn[n]

TopologicalSort(nodes, edges) == Kahn(nodes, edges).order

DetectCycles(nodes, edges) ==
  Len(Kahn(nodes, edges).order) # Cardinality(nodes)

\* Mutant of ValidGraph: validation trusts the cycle count alone.
ValidByCountOnly(nodes, edges) == ~DetectCycles(nodes, edges)

\* validate_graph returns no issue.
ValidGraph(nodes, edges) ==
  EndpointsKnown(nodes, edges) /\ ~DetectCycles(nodes, edges)

-----------------------------------------------------------------------------
(* get_parallel_groups: breadth-first levels of a graph whose edges have   *)
(* known ends.                                                             *)

LevelStart(nodes, edges) ==
  LET degree == [v \in nodes |-> Cardinality({i \in DOMAIN edges : edges[i][2] = v})]
  IN [degree |-> degree, current |-> {v \in nodes : degree[v] = 0}, groups |-> << >>]

\* Mutant of LevelTurn: the next level takes every target of this one.
LevelTurnEager(edges, l) ==
  LET lost(v) == Cardinality({i \in DOMAIN edges :
                                edges[i][1] \in l.current /\ edges[i][2] = v})
      degree == [v \in DOMAIN l.degree |->
                   IF lost(v) > l.degree[v] THEN 0 ELSE l.degree[v] - lost(v)]
  IN [degree  |-> degree,
      current |-> {v \in DOMAIN degree : lost(v) > 0},
      groups  |-> Append(l.groups, l.current)]

\* One turn of the loop: the current level is output, its outgoing edges
\* lower the in-degrees, and what reaches zero is the next level.
LevelTurn(edges, l) ==
  LET lost(v) == Cardinality({i \in DOMAIN edges :
                                edges[i][1] \in l.current /\ edges[i][2] = v})
      degree == [v \in DOMAIN l.degree |-> l.degree[v] - lost(v)]
  IN [degree  |-> degree,
      current |-> {v \in DOMAIN degree : degree[v] = 0 /\ lost(v) > 0},
      groups  |-> Append(l.groups, l.current)]

ParallelGroups(nodes, edges) ==
  LET n == Cardinality(nodes)
      turn[i \in 0..n] ==
        IF i = 0 THEN LevelStart(nodes, edges)
        ELSE IF turn[i-1].current = {} THEN turn[i-1]
        ELSE LevelTurn(edges, turn[i-1])
  IN turn[n].groups
=============================================================================
