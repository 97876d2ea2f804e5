---------------------------- MODULE GraphExecutor ----------------------------
(***************************************************************************)
(* GraphExecutor (mission/graph_executor.py) on one mission: start_mission *)
(* and execute_step, cut at the points where another thread can act.       *)
(*                                                                         *)
(* A walker is a task that drives the mission: a coroutine of the event    *)
(* loop (HttpTasks) or a thread of the autonomous orchestrator             *)
(* (AutoTasks).  Which walker does what, and when, is in MissionWalks; the *)
(* actions here are the code of the executor itself, run by walker w.      *)
(*                                                                         *)
(* A job is the call of _executer_sous_portillon for one node.  Behind the *)
(* gate (module Portillon) a job is let in or refused; here that is a      *)
(* choice.  A job that outlives the step timeout of the pool is "stray":   *)
(* nobody reads its result any more, but its thread goes on.               *)
(***************************************************************************)
EXTENDS DependencyResolver, Integers

CONSTANTS Nodes,        \* identifiers, numbered in list order
          Graphs,       \* the edge lists a mission may have
          HttpTasks,    \* coroutines that may serve /start or /resume
          AutoTasks,    \* orchestrator threads bound to this mission
          Limits,       \* what _limite_de_concurrence may answer
          MaxAttempts,  \* DEFAULT_MAX_ATTEMPTS of retry_policy
          MaxPasses,    \* MAX_EXECUTION_PASSES of the two walks
          Verdicts,     \* Aegis verdicts on starting this mission
          StoreFails    \* whether a write to the mission store may raise

ASSUME NodesAssumption == Nodes \subseteq Nat /\ IsFiniteSet(Nodes)
ASSUME GraphsAssumption == Graphs \subseteq Seq(Nodes \X Nodes)
ASSUME TasksDisjoint == HttpTasks \cap AutoTasks = {}
ASSUME LimitsAssumption == Limits \subseteq Nat \ {0}
ASSUME BoundsAssumption == MaxAttempts \in Nat \ {0} /\ MaxPasses \in Nat \ {0}
ASSUME VerdictsAssumption == Verdicts \subseteq {"allow", "deny", "human"}
ASSUME StoreFailsAssumption == StoreFails \in BOOLEAN

Walkers == HttpTasks \cup AutoTasks

VARIABLES edges,     \* mission.edges
          status,    \* mission.status
          node,      \* status of each node
          started,   \* mission.started_at is set
          attempts,  \* mission.metadata["attempts"]
          brief,     \* mission.metadata holds a retry_brief
          snapshot,  \* a workspace snapshot of this mission is kept
          disk,      \* the document of MagasinMissions
          episodes,  \* episodes written to memory: <<attempt, success>>
          pc,        \* where each walker is
          ready,     \* its list of ready nodes not yet marked
          places,    \* its max_workers for the current step
          passes,    \* passes of its current walk
          seen,      \* what it read of the progress before closing
          retried,   \* an autonomous walker already used its retry
          job        \* job[w][n]: the call for node n made by walker w

mission == <<status, node, started, attempts, brief>>
walk == <<pc, ready, places, passes, seen, retried>>
vars == <<edges, mission, snapshot, disk, episodes, walk, job>>

MissionStatus == {"created", "validated", "ready", "running", "paused",
                  "completed", "failed", "cancelled"}
Terminal == {"completed", "failed", "cancelled"}

Live == {"waiting", "running"}
Stray == {"strayWaiting", "strayRunning"}
JobState == {"none", "queued", "ok", "ko"} \cup Live \cup Stray

\* What persister writes: the whole mission.
Document == [status |-> status, node |-> node, started |-> started,
             attempts |-> attempts, brief |-> brief]

First(S) == CHOOSE n \in S : \A m \in S : n <= m

Goto(w, label) == pc' = [pc EXCEPT ![w] = label]

\* Where a walker ends: the coroutine may serve another request, the
\* orchestrator thread has returned.
Rest(w) == IF w \in HttpTasks THEN "idle" ELSE "done"

\* _rendre_durable at the end of an action: the document is the mission as
\* the action leaves it; if the store raises, the disk keeps what it had and
\* the exception unwinds the walker.
Rendre(w, label) ==
  \/ disk' = Document' /\ Goto(w, label)
  \/ StoreFails /\ disk' = disk /\ Goto(w, Rest(w))

-----------------------------------------------------------------------------
(* start_mission                                                           *)

\* The status test, made before the lock is taken.
StartCheck(w) ==
  /\ pc[w] = "startcheck"
  /\ Goto(w, IF status \in {"ready", "validated"} THEN "launch" ELSE Rest(w))
  /\ UNCHANGED <<edges, mission, snapshot, disk, episodes, ready, places, passes,
                 seen, retried, job>>

\* Under the lock: the status is overwritten, whatever it has become.
Launch(w) ==
  /\ pc[w] = "launch"
  /\ status' = "running"
  /\ started' = TRUE
  /\ Goto(w, "durable")
  /\ UNCHANGED <<edges, node, attempts, brief, snapshot, disk, episodes, ready,
                 places, passes, seen, retried, job>>

\* started_at is made durable, then the workspace, if there is one, is
\* fingerprinted.
Durable(w) ==
  /\ pc[w] = "durable"
  /\ UNCHANGED mission
  /\ Rendre(w, "check")
  /\ \/ snapshot' = snapshot
     \/ pc'[w] = "check" /\ snapshot' = TRUE
  /\ passes' = [passes EXCEPT ![w] = 0]
  /\ UNCHANGED <<edges, episodes, ready, places, seen, retried, job>>

-----------------------------------------------------------------------------
(* execute_step                                                            *)

\* Mutant of Select: a pass with nothing ready is neither counted nor the last.
SelectForEver(w) ==
  /\ pc[w] = "select"
  /\ ready' = [ready EXCEPT ![w] = GetReadyNodes(edges, node)]
  /\ Goto(w, IF ready'[w] = {} THEN "check" ELSE "mark")
  /\ UNCHANGED <<edges, mission, snapshot, disk, episodes, places, passes, seen,
                 retried, job>>

\* get_ready_nodes.  With no node ready the step returns 0 and the walk
\* leaves its loop.
Select(w) ==
  /\ pc[w] = "select"
  /\ ready' = [ready EXCEPT ![w] = GetReadyNodes(edges, node)]
  /\ IF ready'[w] = {}
     THEN Goto(w, "exit") /\ passes' = [passes EXCEPT ![w] = @ + 1]
     ELSE Goto(w, "mark") /\ UNCHANGED passes
  /\ UNCHANGED <<edges, mission, snapshot, disk, episodes, places, seen, retried, job>>

\* The ready nodes are marked running, the limit is measured, and the nodes
\* are handed to the pool or to the sequential loop.
Mark(w) ==
  /\ pc[w] = "mark"
  /\ node' = [n \in Nodes |-> IF n \in ready[w] THEN "running" ELSE node[n]]
  /\ \E l \in Limits :
       places' = [places EXCEPT ![w] = IF l < Cardinality(ready[w])
                                       THEN l ELSE Cardinality(ready[w])]
  /\ job' = [job EXCEPT ![w] = [n \in Nodes |->
                                  IF n \in ready[w] THEN "queued" ELSE job[w][n]]]
  /\ Goto(w, "run")
  /\ UNCHANGED <<edges, status, started, attempts, brief, snapshot, disk, episodes,
                 ready, passes, seen, retried>>

Jobs(w, states) == {n \in ready[w] : job[w][n] \in states}

SetJob(w, n, state) ==
  /\ job' = [job EXCEPT ![w][n] = state]
  /\ UNCHANGED <<edges, mission, snapshot, disk, episodes, walk>>

\* A thread of the pool, or the sequential loop, takes the next node.
Take(w) ==
  /\ pc[w] = "run"
  /\ Jobs(w, {"queued"}) # {}
  /\ Cardinality(Jobs(w, Live)) < places[w]
  /\ SetJob(w, First(Jobs(w, {"queued"})), "waiting")

\* The gate lets the job in, and execute_node starts.
LetIn(w, n) ==
  \/ job[w][n] = "waiting" /\ SetJob(w, n, "running")
  \/ job[w][n] = "strayWaiting" /\ SetJob(w, n, "strayRunning")

\* The gate refused: the node is saturated, which counts as a failure.
Saturate(w, n) ==
  \/ job[w][n] = "waiting" /\ SetJob(w, n, "ko")
  \/ job[w][n] = "strayWaiting" /\ SetJob(w, n, "none")

\* execute_node returned True or False, or raised.
Return(w, n) ==
  \/ job[w][n] = "running" /\ \E r \in {"ok", "ko"} : SetJob(w, n, r)
  \/ job[w][n] = "strayRunning" /\ SetJob(w, n, "none")

\* Every node has answered.
Harvest(w) ==
  /\ pc[w] = "run"
  /\ Jobs(w, {"queued"} \cup Live) = {}
  /\ Goto(w, "collect")
  /\ places' = [places EXCEPT ![w] = 0]
  /\ UNCHANGED <<edges, mission, snapshot, disk, episodes, ready, passes, seen,
                 retried, job>>

\* The pool's step timeout: what has not started is cancelled, what has is
\* no longer waited for.  The sequential loop has no such timeout.
StepTimeout(w) ==
  /\ pc[w] = "run"
  /\ places[w] > 1
  /\ Jobs(w, {"queued"} \cup Live) # {}
  /\ job' = [job EXCEPT ![w] = [n \in Nodes |->
               CASE n \in ready[w] /\ job[w][n] = "running" -> "strayRunning"
                 [] n \in ready[w] /\ job[w][n] = "waiting" -> "strayWaiting"
                 [] n \in ready[w] /\ job[w][n] = "queued" -> "ko"
                 [] OTHER -> job[w][n]]]
  /\ Goto(w, "collect")
  /\ places' = [places EXCEPT ![w] = 0]
  /\ UNCHANGED <<edges, mission, snapshot, disk, episodes, ready, passes, seen,
                 retried>>

\* results.get(node_id, False): a node absent from the results has failed.
Succeeded(w, n) == job[w][n] = "ok"

\* The verdict of one node, in list order, and its write to the store.  If
\* the write raises, the nodes after it keep their mark "running".
Collect(w) ==
  /\ pc[w] = "collect"
  /\ ready[w] # {}
  /\ LET n == First(ready[w]) IN
       /\ node' = IF Succeeded(w, n) THEN MarkCompleted(node, n)
                                     ELSE MarkFailed(edges, node, n)
       /\ UNCHANGED <<status, started, attempts, brief>>
       /\ Rendre(w, "collect")
       /\ ready' = [ready EXCEPT ![w] = IF pc'[w] = "collect" THEN @ \ {n} ELSE {}]
       /\ job' = [job EXCEPT ![w] = [m \in Nodes |->
                    IF job[w][m] \in Stray \/ m \in ready'[w] THEN job[w][m] ELSE "none"]]
  /\ UNCHANGED <<edges, snapshot, episodes, places, passes, seen, retried>>

\* Where a walker goes after a pass: the coroutine gives the loop back.
AfterPass(w) == IF w \in HttpTasks THEN "sleep" ELSE "check"

\* The progress is read before the lock.
Tally(w) ==
  /\ pc[w] = "collect"
  /\ ready[w] = {}
  /\ passes' = [passes EXCEPT ![w] = @ + 1]
  /\ IF AllSettled(node)
     THEN /\ seen' = [seen EXCEPT ![w] = IF NoneFailed(node) THEN "success" ELSE "failure"]
          /\ Goto(w, "close")
     ELSE Goto(w, AfterPass(w)) /\ UNCHANGED seen
  /\ UNCHANGED <<edges, mission, snapshot, disk, episodes, ready, places, retried, job>>

\* _suggest_retry after _verify_workspace: the brief is left when the
\* snapshot contradicts a reported success and an attempt is left.
MayContradict(w) == snapshot /\ seen[w] = "success" /\ attempts < MaxAttempts

\* Mutant of Close: the status of one node decides for all of them.
CloseOnFirst(w) ==
  /\ pc[w] = "close"
  /\ status' = IF node[First(Nodes)] = "completed" THEN "completed" ELSE "failed"
  /\ snapshot' = FALSE
  /\ UNCHANGED <<node, started, attempts, brief>>
  /\ Rendre(w, AfterPass(w))
  /\ seen' = [seen EXCEPT ![w] = "open"]
  /\ UNCHANGED <<edges, episodes, ready, places, passes, retried, job>>

\* Under the lock: the mission is closed unless it is already completed or
\* failed.  A cancelled or paused mission is closed all the same.
Close(w) ==
  /\ pc[w] = "close"
  /\ \/ /\ status \in {"failed", "completed"}
        /\ Goto(w, AfterPass(w))
        /\ UNCHANGED <<mission, snapshot, disk>>
     \/ /\ status \notin {"failed", "completed"}
        /\ status' = IF seen[w] = "success" THEN "completed" ELSE "failed"
        /\ \/ MayContradict(w) /\ brief' = TRUE
           \/ brief' = brief
        /\ snapshot' = FALSE
        /\ UNCHANGED <<node, started, attempts>>
        /\ Rendre(w, AfterPass(w))
  /\ seen' = [seen EXCEPT ![w] = "open"]
  /\ UNCHANGED <<edges, episodes, ready, places, passes, retried, job>>

ExecuteStep(w) ==
  \/ Select(w) \/ Mark(w) \/ Take(w) \/ Harvest(w) \/ StepTimeout(w)
  \/ Collect(w) \/ Tally(w) \/ Close(w)

JobStep(w, n) == LetIn(w, n) \/ Saturate(w, n) \/ Return(w, n)
=============================================================================
