---------------------------- MODULE MissionWalks ----------------------------
(***************************************************************************)
(* One mission, driven by its two walks: _run_mission_steps of             *)
(* mission/routes.py, a coroutine per /start or /resume request, and       *)
(* _execute_via_dag of the autonomous orchestrator, in a thread.  Composes *)
(* GraphExecutor with the request handlers, the retry of retry_policy and  *)
(* the restart of the process on the document of the mission store.        *)
(*                                                                         *)
(* The handlers are `async def` without an await before their walk, and    *)
(* execute_step is synchronous: between two `await asyncio.sleep(0)` a     *)
(* coroutine holds the event loop, and no other request is served.  The    *)
(* orchestrator's thread runs at the same time as the loop.                *)
(***************************************************************************)
EXTENDS GraphExecutor

\* Mutant of LoopFree: an await inside the step lets other requests in.
LoopShared(h) == h \in HttpTasks

\* The event loop is at h's disposal: no other coroutine is between two of
\* its awaits.
LoopFree(h) == \A g \in HttpTasks \ {h} : pc[g] \in {"idle", "sleep"}

LoopIdle == \A g \in HttpTasks : pc[g] \in {"idle", "sleep"}

Init ==
  /\ edges \in Graphs
  /\ status = IF ValidGraph(Nodes, edges) THEN "ready" ELSE "created"
  /\ node = [n \in Nodes |-> "pending"]
  /\ started = FALSE /\ attempts = 1 /\ brief = FALSE /\ snapshot = FALSE
  /\ disk = Document
  /\ episodes = {}
  /\ pc = [w \in Walkers |-> IF w \in HttpTasks THEN "idle" ELSE "build"]
  /\ ready = [w \in Walkers |-> {}]
  /\ places = [w \in Walkers |-> 0]
  /\ passes = [w \in Walkers |-> 0]
  /\ seen = [w \in Walkers |-> "open"]
  /\ retried = [w \in Walkers |-> FALSE]
  /\ job = [w \in Walkers |-> [n \in Nodes |-> "none"]]

-----------------------------------------------------------------------------
(* The loop of a walk                                                      *)

\* Mutant of KeepsWalking: the pause is not looked at.
KeepsWalkingPaused(w) == status \notin Terminal /\ passes[w] < MaxPasses

\* The loop condition.  The coroutine also stops on a paused mission, the
\* orchestrator does not.
KeepsWalking(w) ==
  /\ status \notin Terminal
  /\ w \in HttpTasks => status # "paused"
  /\ passes[w] < MaxPasses

Check(w) ==
  /\ pc[w] \in {"check", "sleep"}
  /\ Goto(w, IF KeepsWalking(w) THEN "select" ELSE "exit")
  /\ UNCHANGED <<edges, mission, snapshot, disk, episodes, ready, places, passes,
                 seen, retried, job>>

\* After the loop.  The coroutine records the episode of a mission it finds
\* terminal and looks for a retry; the orchestrator looks for one retry,
\* whatever the status.
Exit(w) ==
  /\ pc[w] = "exit"
  /\ episodes' = IF w \in HttpTasks /\ status \in Terminal
                 THEN episodes \cup {<<attempts, status = "completed">>} ELSE episodes
  /\ Goto(w, IF (w \in HttpTasks /\ status \notin Terminal) \/ retried[w]
             THEN Rest(w) ELSE "reprise")
  /\ passes' = [passes EXCEPT ![w] = 0]
  /\ UNCHANGED <<edges, mission, snapshot, disk, ready, places, seen, retried, job>>

-----------------------------------------------------------------------------
(* preparer_reprise                                                        *)

\* Mutant of Reprise: the brief is read, not popped.
RepriseKeepsBrief(w) ==
  /\ pc[w] = "reprise"
  /\ IF ~brief
     THEN Goto(w, Rest(w)) /\ UNCHANGED <<mission, retried>>
     ELSE /\ attempts' = attempts + 1
          /\ node' = [n \in Nodes |-> "pending"]
          /\ status' = IF ValidGraph(Nodes, edges) THEN "ready" ELSE status
          /\ retried' = [retried EXCEPT ![w] = w \in AutoTasks]
          /\ Goto(w, "rearm")
          /\ UNCHANGED <<started, brief>>
  /\ UNCHANGED <<edges, snapshot, disk, episodes, ready, places, passes, seen, job>>

\* The brief is popped, the attempt counted, every node goes back to
\* pending and the graph is rebuilt, which makes the mission ready.
Reprise(w) ==
  /\ pc[w] = "reprise"
  /\ IF ~brief
     THEN Goto(w, Rest(w)) /\ UNCHANGED <<mission, retried>>
     ELSE /\ brief' = FALSE
          /\ attempts' = attempts + 1
          /\ node' = [n \in Nodes |-> "pending"]
          /\ status' = IF ValidGraph(Nodes, edges) THEN "ready" ELSE status
          /\ retried' = [retried EXCEPT ![w] = w \in AutoTasks]
          /\ Goto(w, "rearm")
          /\ UNCHANGED started
  /\ UNCHANGED <<edges, snapshot, disk, episodes, ready, places, passes, seen, job>>

\* mission.status = READY, once more, before start_mission.
Rearm(w) ==
  /\ pc[w] = "rearm"
  /\ status' = "ready"
  /\ Goto(w, "startcheck")
  /\ UNCHANGED <<edges, node, started, attempts, brief, snapshot, disk, episodes,
                 ready, places, passes, seen, retried, job>>

\* _execute_via_dag: build_graph resets the status of the mission, whatever
\* has happened to it since it was registered.
AutoBuild(w) ==
  /\ pc[w] = "build"
  /\ IF ValidGraph(Nodes, edges)
     THEN status' = "ready" /\ Goto(w, "startcheck")
     ELSE UNCHANGED status /\ Goto(w, Rest(w))
  /\ UNCHANGED <<edges, node, started, attempts, brief, snapshot, disk, episodes,
                 ready, places, passes, seen, retried, job>>

-----------------------------------------------------------------------------
(* The request handlers                                                    *)

\* POST /start: Aegis first, whatever the status, then start_mission.
HttpStart(h) ==
  /\ pc[h] = "idle" /\ LoopFree(h)
  /\ \E verdict \in Verdicts :
       \/ verdict = "deny" /\ status' = "failed" /\ UNCHANGED pc
       \/ verdict = "human" /\ status' = "paused" /\ UNCHANGED pc
       \/ verdict = "allow" /\ UNCHANGED status /\ Goto(h, "startcheck")
  /\ UNCHANGED <<edges, node, started, attempts, brief, snapshot, disk, episodes,
                 ready, places, passes, seen, retried, job>>

\* POST /pause: not written to the store.
HttpPause ==
  /\ LoopIdle
  /\ status = "running"
  /\ status' = "paused"
  /\ UNCHANGED <<edges, node, started, attempts, brief, snapshot, disk, episodes,
                 walk, job>>

\* Mutant of HttpResume: any unfinished mission may be resumed.
HttpResumeAny(h) ==
  /\ pc[h] = "idle" /\ LoopFree(h)
  /\ status # "completed"
  /\ status' = "running"
  /\ started' = TRUE
  /\ passes' = [passes EXCEPT ![h] = 0]
  /\ Goto(h, "check")
  /\ UNCHANGED <<edges, node, attempts, brief, snapshot, disk, episodes, ready,
                 places, seen, retried, job>>

\* Mutant of HttpResume: the resumed walk starts the graph over.
HttpResumeFromScratch(h) ==
  /\ pc[h] = "idle" /\ LoopFree(h)
  /\ status = "paused"
  /\ status' = "running"
  /\ started' = TRUE
  /\ node' = [n \in Nodes |-> "pending"]
  /\ passes' = [passes EXCEPT ![h] = 0]
  /\ Goto(h, "check")
  /\ UNCHANGED <<edges, attempts, brief, snapshot, disk, episodes, ready, places,
                 seen, retried, job>>

\* POST /resume: a new walk; nothing is written to the store before it.
HttpResume(h) ==
  /\ pc[h] = "idle" /\ LoopFree(h)
  /\ status = "paused"
  /\ status' = "running"
  /\ started' = TRUE
  /\ passes' = [passes EXCEPT ![h] = 0]
  /\ Goto(h, "check")
  /\ UNCHANGED <<edges, node, attempts, brief, snapshot, disk, episodes, ready,
                 places, seen, retried, job>>

\* cancel_mission of the executor, called by POST /cancel, which records the
\* episode unless the store raised, and by cancel_goal, which does not.
Cancel ==
  /\ LoopIdle
  /\ status # "completed"
  /\ status' = "cancelled"
  /\ UNCHANGED <<node, started, attempts, brief>>
  /\ \/ /\ disk' = Document'
        /\ \/ episodes' = episodes \cup {<<attempts, FALSE>>}
           \/ AutoTasks # {} /\ episodes' = episodes
     \/ StoreFails /\ disk' = disk /\ episodes' = episodes
  /\ UNCHANGED <<edges, snapshot, walk, job>>

\* The process dies and starts again: the walkers and their threads are
\* gone, the mission is read back from the store, and nothing resumes it.
Restart ==
  /\ status' = disk.status /\ node' = disk.node /\ started' = disk.started
  /\ attempts' = disk.attempts /\ brief' = disk.brief
  /\ snapshot' = FALSE
  /\ pc' = [w \in Walkers |-> Rest(w)]
  /\ ready' = [w \in Walkers |-> {}]
  /\ places' = [w \in Walkers |-> 0]
  /\ passes' = [w \in Walkers |-> 0]
  /\ seen' = [w \in Walkers |-> "open"]
  /\ job' = [w \in Walkers |-> [n \in Nodes |-> "none"]]
  /\ UNCHANGED <<edges, disk, episodes, retried>>

-----------------------------------------------------------------------------

\* What walker w does.  A coroutine needs the event loop; its jobs do not.
WalkerStep(w) ==
  /\ w \in HttpTasks => LoopFree(w)
  /\ \/ StartCheck(w) \/ Launch(w) \/ Durable(w)
     \/ Check(w) \/ ExecuteStep(w) \/ Exit(w)
     \/ Reprise(w) \/ Rearm(w) \/ AutoBuild(w)

Next ==
  \/ \E w \in Walkers : WalkerStep(w)
  \/ \E w \in Walkers, n \in Nodes : JobStep(w, n)
  \/ \E h \in HttpTasks : HttpStart(h) \/ HttpResume(h)
  \/ HttpPause \/ Cancel \/ Restart

Spec == Init /\ [][Next]_vars

\* A walker that can move does: the thread is scheduled, and asyncio serves
\* its ready coroutines in turn, so one that is repeatedly able to take the
\* loop takes it (strong fairness).  Jobs progress: the gate has a deadline and
\* execute_node the time limit of the task executor.  No request is ever
\* obliged to come, and the process is not obliged to restart.
Fairness ==
  /\ \A w \in Walkers : SF_vars(WalkerStep(w))
  /\ \A w \in Walkers : WF_vars(\E n \in Nodes : JobStep(w, n))

FairSpec == Spec /\ Fairness

-----------------------------------------------------------------------------
(* Properties                                                              *)

\* A node is handed out, waits at the gate or executes only while every
\* dependency is completed: no reset by a retry, no late thread of a timed
\* out step and no second walk puts a running node before its inputs.
DependencyOrder ==
  \A w \in Walkers, n \in Nodes :
    job[w][n] # "none" => DependenciesSatisfied(edges, node, n)

\* A node is executed by at most one thread at a time, and a thread the step
\* stopped waiting for belongs to a node that will never be ready again: its
\* late effects cannot meet another execution of the same node.
OneExecution ==
  \A n \in Nodes :
    /\ \A v, w \in Walkers :
         job[v][n] \in Live \cup Stray /\ job[w][n] \in Live \cup Stray => v = w
    /\ \A w \in Walkers : job[w][n] \in Stray => node[n] \in {"failed", "running"}

\* A mission that says completed has all its nodes completed, in memory and
\* in the document a restart would read.
CompletedIsTrue ==
  /\ status = "completed" => \A n \in Nodes : node[n] = "completed"
  /\ disk.status = "completed" => \A n \in Nodes : disk.node[n] = "completed"

\* A mission is attempted at most MaxAttempts times, and a retry is pending
\* only for a mission that has an attempt left.
RetryBounded ==
  /\ attempts <= MaxAttempts
  /\ brief => attempts < MaxAttempts

\* A node whose completion is durable is not executed again in the same
\* attempt, across pauses, resumed walks and restarts of the process.
NoRedo ==
  \A w \in Walkers, n \in Nodes :
    job[w][n] \in Live \cup Stray =>
      disk.node[n] # "completed" \/ disk.attempts < attempts

\* Pausing is not cosmetic: while a mission driven by requests is paused, no
\* walk hands out or executes a node.
PauseStops ==
  status = "paused" =>
    \A w \in Walkers : /\ pc[w] \in {"idle", "sleep", "exit", "reprise", "startcheck"}
                       /\ \A n \in Nodes : job[w][n] \notin {"queued"} \cup Live

\* No walk revives a mission whose cancellation is durable, unless its last
\* attempt had already left a retry brief: otherwise only the Aegis check of a
\* later /start moves it.
CancelIsDurable ==
  [][status = "cancelled" /\ disk.status = "cancelled" /\ ~brief
       => status' \in {"cancelled", "paused", "failed"}]_vars

\* Every walk ends: the request that started it is answered.
WalkEnds == \A w \in Walkers : pc[w] # Rest(w) ~> pc[w] = Rest(w)

-----------------------------------------------------------------------------
(* What a document or a comment of the repository says, and the code does  *)
(* not do.                                                                 *)

\* "Statuts depuis lesquels plus rien ne bougera" (routes.py, on
\* STATUTS_TERMINAUX) and "aucune tâche nouvelle n'est engagée après
\* l'annulation" (cancel_goal): a cancelled mission stays cancelled.
CancelIsFinal == [][status = "cancelled" => status' = "cancelled"]_vars

\* "mission/graph state is never written from more than one thread at a time"
\* (execute_step): no two walkers are in the parts of a step that mark nodes,
\* apply verdicts and close the mission.
OneWriter ==
  \A v, w \in Walkers :
    {pc[v], pc[w]} \subseteq {"mark", "collect", "close"} => v = w
=============================================================================
