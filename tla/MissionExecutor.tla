--------------------------- MODULE MissionExecutor ---------------------------
(***************************************************************************)
(* One node, from the call of execute_node (mission/node_execution.py) to  *)
(* its return: ExecutionController, MissionExecutor, the state machine of  *)
(* the execution, the shared TaskScheduler and the durable run ledger      *)
(* (runs/registre.py).                                                     *)
(*                                                                         *)
(* An execution e owns one state machine sm[e] and one task object task[e].*)
(* The scheduler keys task objects by task id, `{node_id}-task`: Key[e].   *)
(* Two executions of one node would share the object registered last; one  *)
(* walk alone never does that (OneExecution of MissionWalks).  Everything  *)
(* but the inference itself runs under the lock of MissionExecutor, so an  *)
(* action is one critical section and the inference is the state "infer".  *)
(***************************************************************************)
EXTENDS Integers, Sequences, FiniteSets, SequencesExt

CONSTANTS Execs,        \* the executions started
          TaskIds,      \* ids of tasks
          Key,          \* the task id of each execution
          MaxRetries,   \* max_retries_per_task of ExecutionMeta
          MaxExecutions, \* MAX_RETAINED_EXECUTIONS of the controller
          MaxTasks,     \* MAX_RETAINED_TASKS of the scheduler
          RescueLimit,  \* _EVICT_RESCUE_LIMIT of the scheduler
          MaxAssignments, \* MAX_RETAINED_ASSIGNMENTS of the coordinator
          Agents,       \* the names _select_best_agent may return
          Comptes,      \* those registered with the coordinator
          Default,      \* "default", which no registry knows
          Criteria,     \* validation criteria a task may have
          LedgerFails   \* whether a call to the run ledger may raise

ASSUME ExecsAssumption == IsFiniteSet(Execs)
ASSUME KeyAssumption == Key \in [Execs -> TaskIds]
ASSUME MaxRetriesAssumption == MaxRetries \in Nat
ASSUME CapsAssumption ==
  MaxExecutions \in Nat \ {0} /\ MaxTasks \in Nat \ {0} /\ RescueLimit \in Nat
ASSUME AgentsAssumption ==
  Comptes \subseteq Agents /\ Default \in Agents \ Comptes /\ MaxAssignments \in Nat \ {0}
ASSUME CriteriaAssumption ==
  Criteria \subseteq SUBSET {"result_present", "no_errors", "needs_human_review"}
ASSUME LedgerFailsAssumption == LedgerFails \in BOOLEAN

VARIABLES sm,        \* state machine of each execution
          task,      \* status of each task object
          errors,    \* whether task.errors is non-empty
          retries,   \* task.retries
          tasks,     \* the scheduler: task objects, oldest first
          opened,    \* executions started in this process, oldest first
          tracked,   \* executions with an entry in MissionExecutor._runs (its
                     \* cap never drops one that finalize can still look up)
          run,       \* status of each run in the ledger
          loads,     \* _agent_loads, of the agents in Comptes
          assigned,  \* _assignments: its task ids, oldest first
          agentOf,   \* _assignments: the agent under each id it had
          agent,     \* task.assigned_agent of each task object
          busy,      \* agents marked BUSY in the agent registry
          pc,        \* where each execute_node is
          obj,       \* the task object its inference works on
          calls,     \* inferences each execute_node has started
          dropped    \* executions whose task the scheduler dropped unfinished

engine == <<sm, task, errors, retries>>
registries == <<tasks, opened, tracked>>
agents == <<loads, assigned, agentOf, agent, busy>>
vars == <<engine, registries, run, agents, pc, obj, calls, dropped>>

Returned == {"true", "false", "raised", "leaked", "gone"}
Labels == {"new", "unattended", "call", "infer", "close", "closeKo"} \cup Returned

States == {"created", "planning", "ready", "running", "paused", "waiting_approval",
           "validating", "completed", "failed", "cancelled"}
TerminalStates == {"completed", "failed", "cancelled"}
TaskStates == {"pending", "running", "completed", "failed"}
TerminalTasks == {"completed", "failed"}
RunStates == {"none", "en_attente", "en_cours", "reussi", "echoue", "perdu"}
Terminaux == {"reussi", "echoue", "perdu"}

-----------------------------------------------------------------------------
(* ExecutionStateMachine                                                   *)

ValidTransitions ==
  [created          |-> {"planning", "cancelled"},
   planning         |-> {"ready", "failed", "cancelled"},
   ready            |-> {"running", "cancelled"},
   running          |-> {"paused", "waiting_approval", "validating", "failed",
                         "completed", "cancelled"},
   waiting_approval |-> {"running", "failed", "cancelled"},
   paused           |-> {"running", "cancelled"},
   validating       |-> {"completed", "running", "failed", "cancelled"},
   completed        |-> {},
   failed           |-> {"running", "cancelled"},
   cancelled        |-> {}]

\* transition() accepts the state already current.
CanTransition(from, to) == to = from \/ to \in ValidTransitions[from]

-----------------------------------------------------------------------------
(* The bounded registries                                                  *)

\* What an OrderedDict of starts holds under a cap of n.
Latest(n) == {opened[i] : i \in {j \in DOMAIN opened : j > Len(opened) - n}}

\* The executions the controller can look up.
Known == Latest(MaxExecutions)

\* The objects registered under a task id: at most one.
GetTask(id) == {o \in Execs : o \in Range(tasks) /\ Key[o] = id}

\* _evict_oldest: the oldest task is dropped, except that the first
\* RescueLimit unfinished ones met go back to the end of the queue.
EvictOldest(q, st) ==
  LET rotate[i \in 0..RescueLimit] ==
        IF i = 0 THEN q
        ELSE LET p == rotate[i - 1]
             IN  IF st[Head(p)] \notin TerminalTasks THEN Append(Tail(p), Head(p)) ELSE p
  IN  IF Len(q) > MaxTasks THEN Tail(rotate[RescueLimit]) ELSE q

\* register_task: an object registered under the same id is replaced.
RegisterTask(e, st) ==
  EvictOldest(Append(SelectSeq(tasks, LAMBDA o : Key[o] # Key[e]), e), st)

\* The registered object of an id takes the status, besides the object o
\* that execute_task holds.
Mark(id, o, s) == [x \in Execs |-> IF x = o \/ x \in GetTask(id) THEN s ELSE task[x]]

-----------------------------------------------------------------------------
(* AgentCoordinator.  Which agent is chosen is an input: the matcher, the  *)
(* keywords and the loads rank them.                                       *)

\* Mutant of LoadAfter: a task id that was assigned before is not counted.
LoadAfterOnce(id, a) ==
  IF a \in Comptes /\ id \notin Range(assigned) THEN [loads EXCEPT ![a] = @ + 1] ELSE loads

\* The load of an agent that was never registered is not kept.
LoadAfter(id, a) == IF a \in Comptes THEN [loads EXCEPT ![a] = @ + 1] ELSE loads

\* assign: an assignment under the same id is replaced, the oldest dropped.
Assign(id, a) ==
  LET ids == Append(SelectSeq(assigned, LAMBDA i : i # id), id)
  IN  /\ loads' = LoadAfter(id, a)
      /\ assigned' = IF Len(ids) > MaxAssignments THEN Tail(ids) ELSE ids
      /\ agentOf' = [agentOf EXCEPT ![id] = a]

\* release_agent: whatever agent the id is assigned to now.
ReleaseAgent(id) ==
  IF id \in Range(assigned) /\ agentOf[id] \in Comptes
  THEN [loads EXCEPT ![agentOf[id]] = IF @ = 0 THEN 0 ELSE @ - 1]
  ELSE loads

-----------------------------------------------------------------------------
(* The run ledger: a terminal status is never rewritten                    *)

Changer(e, s) == [run EXCEPT ![e] = IF run[e] \in Terminaux THEN run[e] ELSE s]

-----------------------------------------------------------------------------
Init ==
  /\ sm = [e \in Execs |-> "created"]
  /\ task = [e \in Execs |-> "pending"]
  /\ errors = [e \in Execs |-> FALSE]
  /\ retries = [e \in Execs |-> 0]
  /\ tasks = <<>> /\ opened = <<>> /\ tracked = {}
  /\ run = [e \in Execs |-> "none"]
  /\ loads = [a \in Comptes |-> 0]
  /\ assigned = <<>> /\ agentOf = [id \in TaskIds |-> Default]
  /\ agent = [o \in Execs |-> Default] /\ busy = {}
  /\ pc = [e \in Execs |-> "new"]
  /\ obj = [e \in Execs |-> e]
  /\ calls = [e \in Execs |-> 0]
  /\ dropped = {}

Goto(e, label) == pc' = [pc EXCEPT ![e] = label]

\* ExecutionController.start: the run is opened and started in the ledger
\* (best effort), the task registered, the oldest execution forgotten.
\* execute_node goes on with it, POST /execution/start leaves it there.
Start(e) ==
  /\ pc[e] = "new"
  /\ sm' = [sm EXCEPT ![e] = "ready"]
  /\ tasks' = RegisterTask(e, task)
  /\ dropped' = dropped \cup {o \in (Range(tasks) \cup {e}) \ Range(tasks') :
                              task[o] \notin TerminalTasks}
  /\ opened' = Append(opened, e)
  /\ \/ run' = [run EXCEPT ![e] = "en_cours"] /\ tracked' = tracked \cup {e}
     \/ LedgerFails /\ run' = run /\ tracked' = tracked
     \/ LedgerFails /\ run' = [run EXCEPT ![e] = "en_attente"] /\ tracked' = tracked
  /\ Goto(e, "call") \/ Goto(e, "unattended")
  /\ UNCHANGED <<task, errors, retries, agents, obj, calls>>

-----------------------------------------------------------------------------
(* execute_task                                                            *)

\* The `while task.status == PENDING` of execute_node: call again, or close.
\* It looks at its own task object, whichever the scheduler handed out.
After(e, st, label) == Goto(e, IF st[e] = "pending" THEN "call" ELSE label)

\* Mutant of Refused: the exception is caught inside the loop.
RefusedInLoop(e) ==
  /\ pc[e] = "call"
  /\ \/ e \notin Known
     \/ GetTask(Key[e]) # {} /\ ~CanTransition(sm[e], "running")
  /\ UNCHANGED vars

\* The controller has forgotten the execution, or its state machine may not
\* go to RUNNING: ValueError.
Refused(e) ==
  /\ pc[e] = "call"
  /\ \/ e \notin Known
     \/ GetTask(Key[e]) # {} /\ ~CanTransition(sm[e], "running")
  /\ Goto(e, "raised")
  /\ UNCHANGED <<engine, registries, run, agents, obj, calls, dropped>>

\* The scheduler has forgotten the task: "not_found", and nothing changes.
NotFound(e) ==
  /\ pc[e] = "call"
  /\ e \in Known
  /\ GetTask(Key[e]) = {}
  /\ After(e, task, "close")
  /\ UNCHANGED <<engine, registries, run, agents, obj, calls, dropped>>

\* _refuser_pour_budget: the task fails, the state machine does not move.
OverBudget(e) ==
  /\ pc[e] = "call"
  /\ e \in Known
  /\ \E o \in GetTask(Key[e]) :
       /\ task' = [task EXCEPT ![o] = "failed"]
       /\ errors' = [errors EXCEPT ![o] = TRUE]
  /\ After(e, task', "close")
  /\ UNCHANGED <<sm, retries, registries, run, agents, obj, calls, dropped>>

\* The bookkeeping before the inference, up to the release of the lock.
Begin(e) ==
  /\ pc[e] = "call"
  /\ e \in Known
  /\ CanTransition(sm[e], "running")
  /\ \E o \in GetTask(Key[e]) :
       /\ sm' = [sm EXCEPT ![e] = "running"]
       /\ task' = [task EXCEPT ![o] = "running"]
       /\ errors' = [errors EXCEPT ![o] = FALSE]
       /\ obj' = [obj EXCEPT ![e] = o]
  /\ \E a \in Agents :
       /\ Assign(Key[e], a)
       /\ agent' = [agent EXCEPT ![obj'[e]] = a]
       /\ busy' = busy \cup ({a} \ {Default})
  /\ calls' = [calls EXCEPT ![e] = @ + 1]
  /\ Goto(e, "infer")
  /\ UNCHANGED <<retries, registries, run, dropped>>

\* _maybe_finalize_state, given the state machine and the tasks so far: the
\* terminal state it asks for, or the current one when it does nothing.
Outcome(e, state, st) ==
  IF \/ state \in TerminalStates
     \/ e \notin Latest(MaxTasks)
     \/ \A o \in GetTask(Key[e]) : st[o] \notin TerminalTasks
  THEN state
  ELSE IF \E o \in GetTask(Key[e]) : st[o] = "failed" THEN "failed" ELSE "completed"

\* The common end: update_task, release_agent, _sync_agent_released (a task to
\* be retried keeps its agent BUSY), _maybe_finalize_state, whose transition
\* may raise, and the return to execute_node.
Settle(e, state, s, label) ==
  /\ task' = Mark(Key[e], obj[e], s)
  /\ loads' = ReleaseAgent(Key[e])
  /\ busy' = IF s = "pending" THEN busy ELSE busy \ {agent[obj[e]]}
  /\ UNCHANGED <<assigned, agentOf, agent>>
  /\ IF CanTransition(state, Outcome(e, state, task'))
     THEN /\ sm' = [sm EXCEPT ![e] = Outcome(e, state, task')]
          /\ After(e, task', label)
     ELSE /\ sm' = [sm EXCEPT ![e] = state]
          /\ Goto(e, "raised")

\* Mutant of Retry: the counter of the task does not move.
RetryUncounted(e, again, s) ==
  IF again /\ retries[obj[e]] < MaxRetries
  THEN s = "pending" /\ UNCHANGED retries
  ELSE s = "failed" /\ UNCHANGED retries

\* One more attempt if the ceiling of the mission allows it.
Retry(e, again, s) ==
  IF again /\ retries[obj[e]] < MaxRetries
  THEN s = "pending" /\ retries' = [retries EXCEPT ![obj[e]] = @ + 1]
  ELSE s = "failed" /\ UNCHANGED retries

\* RuntimeUnavailableError; the taxonomy says whether the cause is one to
\* retry.
Unavailable(e) ==
  /\ pc[e] = "infer"
  /\ errors' = [errors EXCEPT ![obj[e]] = TRUE]
  /\ \E again \in BOOLEAN, s \in {"pending", "failed"} :
       Retry(e, again, s) /\ Settle(e, sm[e], s, "closeKo")
  /\ UNCHANGED <<registries, run, obj, calls, dropped>>

\* Any other exception of the task executor crosses execute_task.
Crash(e) ==
  /\ pc[e] = "infer"
  /\ Goto(e, "leaked")
  /\ UNCHANGED <<engine, registries, run, agents, obj, calls, dropped>>

\* ValidationEngine._evaluate
Evaluate(result, errs, criteria) ==
  IF \/ "result_present" \in criteria /\ ~result
     \/ "no_errors" \in criteria /\ errs
  THEN "fail"
  ELSE IF "needs_human_review" \in criteria /\ result THEN "needs_review"
  ELSE IF result THEN (IF errs THEN "retry" ELSE "pass")
  ELSE IF errs THEN "fail" ELSE "needs_review"

\* The inference answered while the execution was paused or cancelled:
\* the transition to VALIDATING raises, before anything is released.
Unwelcome(e) ==
  /\ pc[e] = "infer"
  /\ ~CanTransition(sm[e], "validating")
  /\ Goto(e, "leaked")
  /\ UNCHANGED <<engine, registries, run, agents, obj, calls, dropped>>

\* Mutant of Answer: the answer is kept whatever the state of the execution.
AnswerAlways(e) ==
  /\ pc[e] = "infer"
  /\ \E result \in BOOLEAN, criteria \in Criteria :
       \/ /\ Evaluate(result, errors[obj[e]], criteria) = "pass"
          /\ Settle(e, "validating", "completed", "close")
          /\ UNCHANGED <<errors, retries>>
       \/ /\ Evaluate(result, errors[obj[e]], criteria) = "fail"
          /\ Settle(e, "validating", "failed", "close")
          /\ UNCHANGED <<errors, retries>>
  /\ UNCHANGED <<registries, run, obj, calls, dropped>>

\* The inference answered: validation, and what follows from it.
Answer(e) ==
  /\ pc[e] = "infer"
  /\ CanTransition(sm[e], "validating")
  /\ \E result \in BOOLEAN, criteria \in Criteria :
       LET verdict == Evaluate(result, errors[obj[e]], criteria)
       IN  \/ /\ verdict = "pass"
              /\ Settle(e, "validating", "completed", "close")
              /\ UNCHANGED <<errors, retries>>
           \/ /\ verdict \in {"retry", "fail"}
              /\ \E st \in {"pending", "failed"} :
                   /\ Retry(e, verdict = "retry", st)
                   /\ Settle(e, "validating", st, "close")
              /\ UNCHANGED errors
           \* VALIDATING to WAITING_APPROVAL is no transition: it raises.
           \/ /\ verdict = "needs_review"
              /\ sm' = [sm EXCEPT ![e] = "validating"]
              /\ Goto(e, "leaked")
              /\ UNCHANGED <<task, errors, retries, agents>>
  /\ UNCHANGED <<registries, run, obj, calls, dropped>>

\* Mutant of CloseRun: whatever is finalized is recorded as a success.
CloseRunOnSuccess(e) == Changer(e, "reussi")

\* _clore_le_run: what the ledger is told.
CloseRun(e) == Changer(e, IF sm[e] = "completed" THEN "reussi" ELSE "echoue")

\* controller.finalize, best effort, and the return of execute_node.
Finalize(e) ==
  /\ pc[e] \in {"close", "closeKo"}
  /\ IF e \in Known /\ e \in tracked
     THEN /\ tracked' = tracked \ {e}
          /\ run' = CloseRun(e) \/ (LedgerFails /\ run' = run)
     ELSE UNCHANGED <<tracked, run>>
  /\ Goto(e, IF pc[e] = "close" /\ task[e] = "completed" THEN "true" ELSE "false")
  /\ UNCHANGED <<engine, tasks, opened, agents, obj, calls, dropped>>

-----------------------------------------------------------------------------
(* Requests on one execution, and the death of the process                 *)

Pause(e) ==
  /\ e \in Known /\ sm[e] = "running"
  /\ sm' = [sm EXCEPT ![e] = "paused"]
  /\ UNCHANGED <<task, errors, retries, registries, run, agents, pc, obj, calls, dropped>>

Resume(e) ==
  /\ e \in Known /\ sm[e] = "paused"
  /\ sm' = [sm EXCEPT ![e] = "running"]
  /\ UNCHANGED <<task, errors, retries, registries, run, agents, pc, obj, calls, dropped>>

Cancel(e) ==
  /\ e \in Known /\ sm[e] \notin TerminalStates
  /\ sm' = [sm EXCEPT ![e] = "cancelled"]
  /\ UNCHANGED <<task, errors, retries, registries, run, agents, pc, obj, calls, dropped>>

\* The process dies with its registries and a new one reconciles the
\* ledger: a run left open is lost, unless its bearer cannot be told dead.
Restart ==
  /\ \E lost \in SUBSET {e \in Execs : run[e] \in {"en_attente", "en_cours"}} :
       run' = [e \in Execs |-> IF e \in lost THEN Changer(e, "perdu")[e] ELSE run[e]]
  /\ tasks' = <<>> /\ opened' = <<>> /\ tracked' = {}
  /\ loads' = [a \in Comptes |-> 0]
  /\ assigned' = <<>> /\ agentOf' = [id \in TaskIds |-> Default]
  /\ agent' = [o \in Execs |-> Default] /\ busy' = {}
  /\ sm' = [e \in Execs |-> "created"] /\ task' = [e \in Execs |-> "pending"]
  /\ errors' = [e \in Execs |-> FALSE] /\ retries' = [e \in Execs |-> 0]
  /\ obj' = [e \in Execs |-> e] /\ calls' = [e \in Execs |-> 0]
  /\ UNCHANGED dropped
  /\ pc' = [e \in Execs |-> CASE pc[e] \in {"new", "true", "false", "raised"} -> pc[e]
                            [] pc[e] = "leaked" -> "raised"
                            [] OTHER -> "gone"]

Step(e) ==
  \/ Refused(e) \/ NotFound(e) \/ OverBudget(e) \/ Begin(e)
  \/ Unavailable(e) \/ Crash(e) \/ Unwelcome(e) \/ Answer(e)
  \/ Finalize(e)

Next ==
  \/ \E e \in Execs :
       Start(e) \/ Step(e) \/ Pause(e) \/ Resume(e) \/ Cancel(e)
  \/ Restart

Spec == Init /\ [][Next]_vars

\* The thread of execute_node is scheduled, and an inference ends: the task
\* executor bounds it.  No request is obliged to come.
Fairness == \A e \in Execs : WF_vars(Step(e))

FairSpec == Spec /\ Fairness

-----------------------------------------------------------------------------
(* Properties                                                              *)

\* The durable ledger says what the node was told: a run closed as a success
\* is one whose execute_node returned True, a run closed as a failure one
\* whose execute_node returned False, and neither is rewritten by the
\* reconciliation of a later process.  The one exception is a task that
\* left the scheduler before it was finished: its success is recorded as a
\* failure.
LedgerIsTrue ==
  \A e \in Execs :
    /\ run[e] = "reussi" => pc[e] = "true"
    /\ run[e] = "echoue" => pc[e] = "false" \/ e \in dropped

\* The retry loop of execute_node is bounded by max_retries_per_task,
\* whatever mix of runtime failures, retries and user requests it meets: at
\* most one inference more than the ceiling.
AttemptsBounded == \A e \in Execs : calls[e] <= MaxRetries + 1

\* An agent that works is never taken for idle: the load the coordinator
\* ranks it by is at least the number of its inferences under way, although
\* release_agent looks its assignment up by task id minutes after assign,
\* retries replace it, the cap drops the oldest and max(0, ...) would hide a
\* release too many.
AgentsAreCounted ==
  \A a \in Comptes :
    Cardinality({e \in Execs : pc[e] = "infer" /\ agent[obj[e]] = a}) <= loads[a]

\* "NEEDS_REVIEW (WAITING_APPROVAL) frees the agent": an agent whose only task
\* ended in a verdict for a human has no load and is not BUSY.
ReviewFreesAgent ==
  \A e \in Execs :
    /\ pc[e] = "leaked" /\ sm[e] = "validating"
    /\ \A f \in Execs \ {e} : agent[obj[f]] # agent[obj[e]]
    => agent[obj[e]] \notin busy /\ (agent[obj[e]] \in Comptes => loads[agent[obj[e]]] = 0)

\* Cancelling an execution holds, although execute_task reads its state
\* before an inference of many minutes and acts on it after: the execution
\* stays cancelled for the life of the process, no other inference is
\* started for it, and the answer that arrives afterwards makes neither its
\* node nor its run a success.  (A task dropped by the scheduler no longer
\* completes its execution, which can be cancelled after its success.)
CancelHolds ==
  [][\A e \in Execs \ dropped :
       sm[e] = "cancelled" => /\ sm'[e] = "cancelled" \/ opened' = <<>>
                              /\ calls'[e] <= calls[e]
                              /\ pc'[e] # "true" /\ run'[e] # "reussi"]_vars

\* execute_node returns: no sequence of failures, refusals or pauses, and no
\* execution forgotten by the controller, keeps its loop going for ever.
\* Only a task that left the scheduler unfinished can: execute_task answers
\* "not_found" and the loop sees its own object still pending.
NodeReturns ==
  \A e \in Execs : (pc[e] = "call") ~> (pc[e] \in Returned \/ e \in dropped)
=============================================================================
