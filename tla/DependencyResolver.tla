-------------------------- MODULE DependencyResolver --------------------------
(***************************************************************************)
(* DependencyResolver (mission/dependency_resolver.py) as operators on the *)
(* edges of a mission and the status of each of its nodes.  depends_on is  *)
(* read off the edges: MissionGraph shows that the two agree.              *)
(***************************************************************************)
EXTENDS MissionGraphOps

NodeStatus == {"pending", "ready", "running", "completed", "failed", "blocked", "skipped"}

\* _dependencies_satisfied: every dependency exists and is completed.
DependenciesSatisfied(edges, node, n) ==
  \A d \in Sources(edges, n) : d \in DOMAIN node /\ node[d] = "completed"

\* Mutant of GetReadyNodes: the dependencies are not looked at.
GetPendingNodes(edges, node) ==
  {n \in DOMAIN node : node[n] \notin {"completed", "failed", "running", "blocked"}}

\* get_ready_nodes.
GetReadyNodes(edges, node) ==
  {n \in DOMAIN node :
     /\ node[n] \notin {"completed", "failed", "running", "blocked"}
     /\ DependenciesSatisfied(edges, node, n)}

\* mark_completed.
MarkCompleted(node, n) == [node EXCEPT ![n] = "completed"]

\* mark_failed: the node fails and its direct dependents that are still
\* pending are blocked.
MarkFailed(edges, node, n) ==
  [m \in DOMAIN node |->
     IF m = n THEN "failed"
     ELSE IF m \in Targets(edges, n) /\ node[m] = "pending" THEN "blocked"
     ELSE node[m]]

\* get_progress, as execute_step reads it: completed + failed + skipped
\* reach the total; a blocked or pending node is never counted.
AllSettled(node) == \A n \in DOMAIN node : node[n] \in {"completed", "failed", "skipped"}
NoneFailed(node) == \A n \in DOMAIN node : node[n] # "failed"
=============================================================================
