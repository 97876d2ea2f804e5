# A TLA+ verification project for Hermes OS

Hermes OS plans a goal as a *mission* (a graph of nodes), walks the graph, hands
every node to an execution engine that calls a language-model runtime, and keeps
what happened in a durable store and a durable run ledger. This project models
the path a mission takes through the backend: from the registry and the graph,
through the walk and the machine-wide gate, down to the inference of one node, the
graphics card and the agent session it runs on, and the record that is left of it;
and beside that path the consent of a human, the workflows of tools and the update of
the installation. TLC
checks the models on small instances; TLAPS proves every
safety property of the passing runs for every value of the constants.

Contents: [the system](#1-the-system) · [modules](#2-modules-and-the-code-they-model)
· [runs](#3-runs-what-tlc-checks) · [fairness](#4-fairness) ·
[proofs](#5-proofs-what-tlaps-shows) · [findings](#6-where-the-code-and-its-documentation-disagree)
· [limits](#7-what-is-not-modelled) · [plan](#8-plan) · [how to run](#9-running-the-project)

## 1. The system

### Components on the path of a mission

| Component | State | Operations | What makes it correct |
|---|---|---|---|
| `Portillon` (`mission/graph_executor.py`) | one counter and a condition variable for the whole machine | `place(limite, delai)`: enter, wait, give up, leave | the counter is the number of threads inside; nobody runs beyond a limit in force; every wait ends |
| `MissionGraph` (`mission/mission_graph.py`) | nodes, edges, `depends_on` of every node | `build_graph`, `add_node`, `add_edge`, `validate_graph`, `_detect_cycles`, `topological_sort` | validation accepts exactly the graphs that can be executed; both copies of the graph agree |
| `DependencyResolver` (`mission/dependency_resolver.py`) | status of the nodes | `get_ready_nodes`, `mark_completed`, `mark_failed`, `get_progress`, `get_parallel_groups` | a node is ready only after all its dependencies |
| `GraphExecutor` (same file as the gate) | mission status, `started_at`, snapshots | `start_mission`, `execute_step`, `cancel_mission`, durable writes | one execution per node, a verdict per node, a truthful close |
| Walks and requests (`mission/routes.py`, `autonomous/autonomous_orchestrator.py`, `mission/retry_policy.py`) | one coroutine per request, one thread per autonomous mission, `attempts`, `retry_brief` | `/start`, `/pause`, `/resume`, `/cancel`, `_run_mission_steps`, `_execute_via_dag`, `preparer_reprise` | bounded retries, a pause that stops work, a cancellation that lasts, a walk that ends |
| Mission store (`mission/persistance.py`) | one JSON document per mission | write at each durable point, read after a restart | nothing durable is done twice; the document is true |
| `execute_node` (`mission/node_execution.py`) | its own task object | the retry loop of one node | it returns, after a bounded number of inferences |
| `ExecutionController`, `MissionExecutor` (`execution/`) | state machine per execution, `_runs`, caps | `start`, `execute_task`, `finalize`, `pause`, `resume`, `cancel` | a cancellation holds through an inference; load is given back |
| `TaskScheduler` (`execution/task_scheduler.py`) | ordered dictionary of tasks under a cap | `register_task`, `_evict_oldest`, `get_task`, `update_task` | no task still needed is lost silently |
| Mission registry `_RegistreMissions` (`mission/routes.py`) | a bounded cache in insertion order before the store | `__setitem__`, `__getitem__`, `_relire`, `persister`, `_evincer`, `_hydrater` | what the store accepted is always found; an active mission is never evicted |
| Resource manager and admission (`runtime/resources/`, `execution/task_executor.py`) | reservations, a cached measure of the card | `can_allocate`, `reserve_resources`, `release_resources`, the wait of `execute` | the models loaded and promised fit; no reservation outlives its task |
| Agent sessions (`ral/adapters/sessions_de_mission.py`, `hermes_agent_acp.py`) | an agent process per key, its identifier, its lost turns, locks | `disponible_pour`, `tour`, `repartir_a_neuf`, `fermer`, purge, replay | the cap holds, no process is left behind, a call returns |
| Run ledger (`runs/registre.py`, `runs/reconciliation.py`) | one row per run | `ouvrir`, `demarrer`, `clore`, reconciliation at start-up | the ledger says what the node was told |

How they interact: a request (coroutine of the event loop) or the orchestrator
(thread) *walks* a mission by calling `execute_step` until nothing is left. A step
asks the resolver for the ready nodes, runs them in a pool (each one behind the
gate), and applies the verdicts through the resolver. Running a node is a call of
`execute_node`, which registers a task with the scheduler, opens a run in the ledger
and calls `execute_task` as long as its task is pending. Shared state: the
mission object (event loop and orchestrator thread), the gate (every pool of every
mission), the scheduler and the controller (every node), the two durable records.

### Components beside it

*Approvals* (`security/approvals.py`, used by `agents/aegis.py`): a table of requests;
callers consume a consent or queue a request, humans decide; a consent must serve as
often as it was granted. *Self update* (`maj/`): directories of code and of state, a
backup, a mark of the installed version; an update must end in the new version or in
the old one, and say which. *Workflows* (`workflows/`): `run()` walks a graph of tools
wave by wave, halts at the gates no human has opened, writes one row at the end and takes
the run up again when it is called with its `run_id`; a node runs when it is reached and
allowed, once, and nothing behind a closed gate runs. HTTP and MCP both call it, and
nothing keeps two calls for one run apart. All three are modelled.

The rest of the runtime abstraction layer (circuit breakers, router, broker),
checkpoints, the Studio night queue, programme and loop, conversation, memory
and evolution, the API, MCP, voice and front end. `PROJECT.json` lists each with its
status and why it is or is not modelled yet.

### What is hard here

- *Interleaving.* Nodes run in pool threads, walks in coroutines and threads, requests
  between two awaits. Status tests are made outside the lock that protects the
  assignment (`start_mission`), and the progress is read before the lock under which
  it is used (`execute_step`).
- *A lock released for minutes.* `execute_task` drops its lock for the inference;
  pause, cancel and eviction happen meanwhile.
- *Timeouts that do not stop.* A step timeout stops waiting for a thread, which goes on.
- *Caps.* Scheduler and controller forget their oldest entries; the former rescues a
  limited number of unfinished ones.
- *Partial failure and crash.* A write to the store may raise in the middle of the
  verdicts of a step; a ledger call is best effort; the process may die anywhere.
- *Wake-ups.* The gate notifies one waiter, and waiters have different limits.
- *Test and act in two transactions.* A session of the approvals table reads a row and
  later writes it without testing it again; the registry reads the store outside its lock;
  the cap on agent sessions is tested long before the session is registered; a workflow
  loads its row, awaits its tools and writes the whole row over.
- *Promises against measures.* VRAM is promised before a model is loaded, the counter is
  cached, and a request that was given up on goes on.

Every hazard, at its line and with the properties that address it, is in
`PROJECT.json` under `hazards`.

## 2. Modules and the code they model

| Module | Models | State and actions |
|---|---|---|
| `Portillon` | class `Portillon`, `_executer_sous_portillon`, `_limite_de_concurrence` | `occupees`, where each thread is (`libre`, `teste`, `dort`, `dedans`), its limit, its deadline. One action per critical section: ask, test (enter, sleep or give up), wake, deadline, leave with its `notify` |
| `MissionGraphOps` | the pure algorithms: adjacency, in-degrees, Kahn's queue, levels, `depends_on` | operators and folds, used by the next three modules |
| `MissionGraph` | construction and validation of a graph | `missionNodes`, `missionEdges`, `dependsOn`; `build_graph`, `add_node`, `add_edge` |
| `DependencyResolver` | readiness, marking, the one-level cascade, progress | operators on the statuses of the nodes |
| `GraphExecutor` | `start_mission`, `execute_step`, its pool, its timeout, its durable writes | one action per stretch of code between two points where another thread can act |
| `MissionWalks` | composition: walks, requests, retry, restart | extends `GraphExecutor`; a coroutine holds the event loop between two awaits, the orchestrator's thread runs beside it |
| `MissionExecutor` | `execute_node`, controller, executor, state machine, scheduler, coordinator of agents, ledger, reconciliation | one action per critical section; the inference is the state `infer`. `Assign` and `ReleaseAgent` keep the table of assignments under its cap, the load of every registered agent and who is BUSY |
| `MissionsDurables` | abstract: what the registry promises to a lookup | which missions were ever accepted by the store, whether there is one, and what each thread has of its mission; a lookup finds it, misses it or cannot read it |
| `RegistreMissions` | `_RegistreMissions`, the store it uses, the threads that hold `Mission` objects | the cache (`ordre`, `objet`), the store (`disque`), the objects; each operation as its part on the store and its part under the lock; restarts |
| `VramAdmission` | `ResourceManager`, the default policy, `GPUMonitor`, and the admission, reservation and release in `RealTaskExecutor.execute` | `reserves`, the cached measure and its kind (figures, a card without figures, no card found), what Ollama holds; one action per turn of the wait and per call |
| `SessionsDeMission` | the registry of agent sessions, the ACP client, `_par_le_harnais` and the rule on lost turns | the entries with the life of each agent, the registry lock and the session locks, `_identifiants`, `_tours_perdus`; one action per stretch between two awaits |
| `Approvals` | `record_pending`, `decide`, `consume_approval`, `_depenser`, `_consommer_une_portee` as `_apply_human_consent` calls them | the rows, and for each operation a reading and a writing |
| `MiseAJour` | `appliquer`, `sauvegarder`, `restaurer`, `_revenir`, `_elaguer`, and `maj/code.py`, `maj/version.py` | what every directory of code and state holds, the mark, the backup; one action per directory, each of which may fail, and the death of the process |
| `WorkflowEngine` | `run`, `_ready_nodes`, `_execute_wave`, `_execute_node`, `_structural_waves` of `workflows/engine.py`, with the row of `run_store.py` and the validation of `schema.py` | the stored row, and for every call its results, approvals, pending gates and the wave it runs; one action per turn of the loop, per tool called or returning, per save; calls that are lost |
| `*_proofs` | — | inductive invariants and theorems; `Mission_proofs` is about `MissionGraph` and `MissionWalks`, `Admission_proofs` about `Portillon` and `VramAdmission`, each of the others about the module it is named after |
| `MC*` | — | constants for TLC |

`PROJECT.json` maps every definition to its lines.

### Abstractions, and why they are sound for the properties stated

- *Gate inside a step.* In `GraphExecutor` the gate lets a job in or refuses it, freely;
  any behaviour the real gate allows is included. The gate itself is `Portillon`.
- *Dependencies off the edges.* The code reads readiness from `depends_on`, the model
  from the edges; the last conjunct of `GroupsAreParallel` shows that the two agree for a
  graph built with known ends, whatever is added to it later.
- *Mission creation is Init.* A mission enters `MissionWalks` as its creation leaves it:
  `ready` if its graph is valid, `created` otherwise, and already in the store.
- *Verdicts of the outside world are inputs*: the answer of an inference, the class of a
  failure (retry or not), the budget, the verdict of Aegis, whether the workspace
  contradicts a reported success, whether a write raises.
- *One task per execution*, as `execute_node` creates it. Which agent is assigned is any of
  `Agents`; those in `Comptes` are registered and have a load, and `Default` is the one
  the registry of the Cockpit does not know.
- *Lookup and first critical section merged.* `execute_task` of the controller looks the
  execution up and then enters the executor; only another start could come between, and
  it commutes with the entry as far as the properties can tell. `_runs` is capped by
  `MAX_RETAINED_TASKS`, which is not below the controller's cap, so it never drops an entry
  that `finalize` can still look up.
- *Dropped tasks.* `dropped` is a history variable: executions whose task left the
  scheduler unfinished (more than `_EVICT_RESCUE_LIMIT` unfinished tasks at the cap). It
  is never read by an action. `LedgerIsTrue`, `CancelHolds` and `NodeReturns` exempt
  exactly these, and say what happens to them: the loop of `execute_node` meets
  `not_found` with its own object still pending and does not end, and a success is
  closed as a failure. In the code it takes 512 retained tasks of which the seventeen
  oldest are unfinished.
- *Registry.* A mission is reduced to whether its status is terminal, which is all that
  eviction reads. The cache after a deletion is stated by the ranks of what stays (`Garder`),
  a form of `SelectSeq` the provers can reason about. `cree_le` is taken to be distinct. What
  a holder does between two durable points is any change of status. `Anciennes` is what the
  store holds when the process starts; `Pannes` says whether its calls may raise.
- *Sessions.* Closing a client is one step: it forgets its session and terminates the
  process before it awaits anything. The chat, which uses the same registry from another
  event loop, is left out, and so is the text of a turn. `pertes`, a history variable,
  counts lost turns of a session under the imposed model.
- *VRAM.* What each model takes and one capacity. `config` is what the process was wired with,
  and never changes: the models whose size the code knows (it runs the others without admission
  or reservation), those the harness may change to, and whether there is a cloud. Ollama is external.
  `aveugle` is a history variable, never read by an action: what first went round the
  promises, a cached reading that missed a model, no reading at all, or a model loaded that
  nobody reserved (of unknown size, fallen back to from the cloud, changed after its
  admission, or asked for by a request given up before the load).
- *Approvals.* SQLite under SQLAlchemy as the code configures it: a SELECT opens no
  transaction, an UPDATE names the row and the columns that changed. `croisees` and
  `doublees` are history variables that say on which row, or for which action, two
  operations overlapped.
- *Update.* What a directory holds is the version that wrote it, nothing, or a broken
  copy. Every file operation may fail, with what it worked on as it was or broken. A backup
  is a directory of its own: its name is the time to the second, and two updates within one
  second, of which one would merge its copies into the other's, are left out. The version
  installed is that of the package; a caller of `appliquer` may name another, which is
  then the one that is marked.
- *Graph.* Nodes have distinct identifiers, which they do as they are made (`uuid4`); in a
  list with one twice `_detect_cycles` counts it once and answers that there is a cycle.
- *Workflows.* One run and one definition, which does not change between calls. A tool
  returns success or failure; a reference to a result resolves when that node succeeded,
  and `CannotCall` lets any node fail before its tool is called. `overlapped` and `lost`
  are history variables: a call began while another was active, a call ended without
  writing the row. Another fresh call is another run and touches nothing of this one.
- *Bounds.* `MaxPasses` stands for `MAX_EXECUTION_PASSES`, `MaxAttempts` for
  `DEFAULT_MAX_ATTEMPTS`, `MaxTasks`, `MaxExecutions` and `RescueLimit` for the retention
  constants, `Maximum` for `MAX_MISSIONS_EN_MEMOIRE`, `Plafond` and `PlafondTours` for
  `PLAFOND_SESSIONS` and `PLAFOND_TOURS_PERDUS`, `Gardees` for `SAUVEGARDES_GARDEES`, `MaxParallel`
  for `workflow_max_parallel`; each is a constant of the code, given a small value. Bounds of the models alone are
  `MaxObjets`, `MaxRestarts`, `MaxAgents`, `MaxCalls`, `MaxRoots`, `MaxRows`, `MaxVersion`
  and `MaxEssais`, each named in its guard. `MissionWalks`, `MissionExecutor`,
  `Portillon` and `VramAdmission` need none: a run may take any number of requests,
  restarts and failures.

## 3. Runs: what TLC checks

| Run | Instance | States | Result |
|---|---|---|---|
| `portillon` | 3 threads; capacities 0 (raised to 1), 2 and the fallback 3 | 7,184 | holds |
| `mission_graph` | all graphs on 3 identifiers with up to 4 edges, 2 of them given to `build_graph` with possibly unknown ends | about 40,000 | holds |
| `http_walks` | 2 request coroutines, 3 nodes (chain, join, cycle), limits 1 and 2, 2 attempts, every Aegis verdict, failing writes, restarts | 196,960 | holds |
| `auto_walk` | the orchestrator's thread with cancellations on five graphs, failing writes, restarts | 86,128 | holds |
| `mission_executor` | 2 executions, one retry, every cap 1 so that each start evicts, failing ledger, two agents of which one is registered, restarts | 205,151 | holds |
| `sessions` | 2 calls at a time, 3 in all, a project key and a mission key, cap 1, one lost turn, 2 agents, 2 workspaces | 403,109 | holds |
| `vram` | 2 tasks, 2 models that do not fit together; all sizes known, or one unknown with the cloud; failing and cached readings, a change of model | 382,792 | holds |
| `registre` | 2 threads, 2 missions, a cache of 1, 4 objects, 1 restart, with and without a store, calls that raise | 2,542,666 | holds |
| `approvals` | 2 callers, 2 humans, 2 actions of which a tree covers one, a budget of 2, 2 rows | 8,512,387 | holds |
| `mise_a_jour` | 2 roots, 2 directories, 2 versions, 1 backup kept, 2 updates | 704,138 | holds |
| `workflow` | all 448 workflows of 3 nodes with upward edges of any condition and up to 2 gates, 3 calls, 2 slots | 3,230,906 | holds |
| `cancel_is_final` | a request and the orchestrator's thread on a chain of three | — | violated: section 6 |

What the passing runs show:

- **portillon.** `CounterIsExact`: the counter is the number of threads inside, although a
  place may be refused, awaited and given back in any order. `Bounded`: any group of
  threads inside together is no larger than the largest limit its members were admitted under. `WaitEnds`:
  every request for a place ends in a place or a refusal, although `notify` may wake a
  thread that cannot use the place.
- **mission_graph.** `ValidateIsExact`: `validate_graph` accepts a graph exactly when its
  ends are known and it has no cycle in the sense of reachability, duplicate edges
  included. `TopologicalSortIsSound`: the order lists every node once, after its
  predecessors. `GroupsAreParallel`: no node shares a group with an ancestor, and the
  groups, computed from the edges, are what the resolver finds ready pass after pass,
  computed from `depends_on`: the two copies of the graph agree.
- **http_walks.** `DependencyOrder`, `OneExecution` (late threads included),
  `CompletedIsTrue` in memory and on disk, `RetryBounded`, `NoRedo` (a completion that is
  durable is not repeated in the same attempt, across restarts), `PauseStops`,
  `CancelIsDurable` (no walk revives a mission whose cancellation is on disk, save through
  a retry brief that was already there), `WalkEnds`.
- **auto_walk.** `WalkEnds` for the thread, whose loop does not look at the pause and whose builder overwrites the status.
- **mission_executor.** `LedgerIsTrue`, `AttemptsBounded`, `CancelHolds`, `NodeReturns`, and
  `AgentsAreCounted`: the load an agent is ranked by is never below the inferences it has
  under way, although the release finds the agent by a task id that was assigned anew,
  or dropped, since. (It may be above: `ReviewFreesAgent`, section 6.)
- **sessions.** `CapHolds`: sessions not reopened by a replay stay within the cap although
  test and registration are an opening apart. `NoStrayAgent`: no closing that races with a
  turn leaves a process behind; the one that does stay is that of an opening that timed
  out, which the model sets apart. `SameExperimentBounded`: the imposed model does not
  lose turn after turn in one session, and by how much other calls of the key can exceed
  the rule. `CallEnds`: every call returns.
- **vram.** `FitsUnlessBlind`: a promise hands over to the counter without a gap for every
  grant made on a reading that saw what nobody has promised. `JamaisLInverse` and
  `CarteIllisibleRefuse` of section 6 are what it exempts and the documentation does not.
  `TaskEnds`: every execution ends and leaves no reservation.
- **registre.** `ActiveStays`, `BoundedUnlessActive`, and `NothingDurableIsLost`: the
  specification `MissionsDurables` under the mapping `Etat`, `Sujet`, `Acceptees`. A lookup is
  two steps, the miss in the cache and the reading of the store, with evictions, other
  lookups and hydration in between; while the store is open and readable none of them ends
  in a `KeyError` for a mission one write of which was accepted. Which *state* of the
  mission it is given is another matter: `LastStateIsServed`, section 6.
- **approvals.** `WithinGrant`, `DecisionStands` and `OneRequest` hold for every row and
  action on which no reading and writing overlapped: the overlaps are the only way in
  which they fail.
- **mise_a_jour.** `OutcomeIsTrue`, `MarkIsHonest` (deaths included), `CodeFirst`.
- **workflow.** `RecordIsOneRun`: whatever calls a run took, its row is the outcome of one
  walk of the graph under the stored approvals, so that recomputing skipped nodes on a
  resumption is safe. `GateHolds`: no tool is called at or behind a gate nobody opened, even
  when calls overlap or die. `OnceUnlessDisturbed` and `StoredStays`: calls that follow each
  other call each tool once, and take no approval or result from the row.
  `FreshWavesAsSimulated`: a wave of the first call lies within one that `simulate()` shows.

Why the bounds are enough: three nodes are the fewest with a chain in which a failure
does not reach the end, a join, and two nodes in one step, so that a timeout leaves
stray threads beside a finished one; two attempts give a retry; two walkers the races
between requests; caps of one an eviction at every start. Larger instances of
`MissionExecutor` were explored for safety: three executions with caps of 2 and
`RescueLimit` 0, 1 and 2 (1.4 to 2.0 million states, the agents left out) without an error. In the other
modules two actors and a cap of one make every race for the last place happen; three
calls are the fewest in which a second call finds a lost turn and a third the session
it leaves; two rows and two humans give a decision on a row that is being spent;
two updates give one that starts from what a dead one left; three calls give a workflow
two gates that are opened one after the other, or by two resumptions that overlap. `MiseAJour` was also explored
with three versions and three updates (10,130,712 states) without an error. Deadlock is not
an error in the mission models, where a finished mission may rest for ever; in
`portillon` and `vram` it is checked.

Outside what the passing runs assume: `http_walks` and `auto_walk` have one kind of
walker each. With both on one mission (`OneWriter`, section 6) the two are inside the writing parts of
`execute_step` together, and `OneExecution`, `DependencyOrder`, `CompletedIsTrue` and `NoRedo`
fail as well. With one task id for two executions `AttemptsBounded` and `AgentsAreCounted`
fail; that needs two walks on one mission too.

## 4. Fairness

- *Portillon*: weak fairness of the test, the one-second ceiling of `wait`, the deadline
  and the exit. The ceiling and the deadline are timers of the code; a thread inside
  leaves because `execute_node` returns (`NodeReturns`). Nobody must ask for a place.
- *MissionWalks*: strong fairness of each walker's steps, since asyncio serves ready
  coroutines in turn and the operating system schedules the thread; weak fairness of the
  jobs, which the gate's deadline and the time limit of the task executor bound. No
  request, failure or restart is ever obliged to happen.
- *MissionExecutor*: weak fairness of each `execute_node`; the inference is bounded by
  the executor's time limit.
- *SessionsDeMission*: weak fairness of each call. The event loop runs every coroutine that
  can proceed, `asyncio.Lock` serves its waiters in order, and every exchange with an agent
  has a deadline. Weak fairness is enough since the number of calls is bounded.
- *VramAdmission*: weak fairness of each task; the wait has a deadline and a call to a
  runtime a budget. Nothing is asked of Ollama or of the probes.

## 5. Proofs: what TLAPS shows

Eight modules, 9,168 obligations. A theorem names the definition the run checks, so
that the run shows it on a small instance and the theorem for every value of the
constants. What the constants are assumed to satisfy stands with their declaration and
is evaluated by TLC: sets of nodes, tasks, threads, identifiers and missions are finite;
caps and bounds are natural numbers, not zero where the code's constant is not; there is
at least one mission and one model; the lists of edges are lists of pairs of
identifiers. The theorems about the retries and the record of a node, and those about walks
made by requests, have a further premise, `Regime`, said below.

**Induction over data.** The provers cannot use the library's induction theorems, whose
parameter is an operator. Where a loop or a recursive function is concerned, the property
is given as the *set* of the numbers of turns after which it holds; a set of numbers that
has 0 and with every number the next is `Nat`, because its complement would have a least
member (`LeastExists`, from the well-foundedness of `<`). That a recursive function obeys
its defining equation is proved the same way, from the existence of a run of every
length.

**The gate** (`Admission_proofs`, 951 obligations with the card), for any finite set of
threads and any integer capacities: `GateTypeCorrect`, `GateCounterExact`, `GateBounded`.
The inductive invariant is `TypeOK /\ CounterIsExact /\ Bounded`: `Bounded` alone is not
inductive, because the test compares the *counter* with the limit, and only
`CounterIsExact` turns that into a statement about threads; `CounterIsExact` in turn is
what makes the `max(0, ...)` of `_sortir` a plain decrement. Two lemmas say what entering
and leaving do to the set of threads inside and to its cardinality.

**The card** (`Admission_proofs`), for any finite sets of tasks and models, any sizes and configurations:
`CardFitsUnlessBlind`, models of unknown size and cards without a reading included. The lemmas before it say what a sum over a finite set does when an
element joins or leaves, over a union, a part and an image. `FitsUnlessBlind` alone is not
inductive: a task that starts anew, or whose fallback picks another model, must not carry
a promise with it, and `PastAdmission` says that only a task beyond its admission holds one.
The step that matters is the reservation, where the code adds a measure (what the card
held when it was read) and a sum over *tasks*, and the card has to hold a set of *models*:
two tasks on one model are promised twice and loaded once, and a model that is resident
and promised counts once.

**The graph** (`Mission_proofs`, 2,793 obligations with the walks), for any identifiers and
any lists of edges, duplicates and unknown ends included: `GraphValidateIsExact`,
`GraphSortIsSound`, `GraphGroupsAreParallel`. Three loops:

- Kahn's queue: its invariant ties the in-degree left of a node to the edges from nodes not
  yet visited (counted with multiplicity), and the queue to the nodes with none left. At
  the end what was not visited is *circular*: each waits for another of the rest, and a
  finite set like that contains a cycle; conversely the order visited descends along the
  edges, which excludes one.
- reachability, the reference definition: the sets of the recursion grow until they are
  closed, and the result is the least closed set.
- the levels: the groups are the waves of nodes whose sources lie in earlier waves, which
  is what the resolver finds ready when it reads `depends_on`; `GraphInvariant` says the
  two copies of the graph agree.

**The walks** (`Mission_proofs`). `WalksRetryBounded` holds for every mix of coroutines and
threads: a brief is left only below the bound, in memory and in the document. The others
hold when requests are the only walkers (`Regime == AutoTasks = {}`); with both kinds they
fail (section 3). `RequestsInvariant` is the inductive invariant; from it follow
`RequestsKeepDependencyOrder`, `RequestsExecuteOnce`, `RequestsCompletedIsTrue`,
`RequestsRedoNothing`, `RequestsPauseStops` and the action property
`RequestsCancelIsDurable`. Its parts: `OneActive`, at most one coroutine is between two of
its awaits, which is what the event loop gives; `Turn`, what a walker knows where it is,
since nobody changes the mission under it; `Placed`, what its jobs say of their nodes;
`Exclusive`, no node has jobs of two walkers, threads left behind by a timeout included;
`Sound`, a mission completed or up for a retry has all nodes completed, and nodes that wait
for each other never start; `Kept`, the document is never ahead of the memory in an
attempt. That an invalid graph cannot be completed (`InvalidIsCircular`) comes from the
graph lemmas, which is why the two share a module.

**The execution of a node** (`MissionExecutor_proofs`, 819 obligations), for any
number of executions, retries, caps and criteria under `Regime`: distinct task ids, and
`MaxExecutions <= MaxTasks` (both are 512 in the code). Theorems:
`ExecutorAttemptsBounded`, `ExecutorLedgerIsTrue`, and the action property
`ExecutorCancelHolds`. The inductive invariant has, besides types, four parts for every
execution:

- `Counted`: inferences started = retries of the task (one more while inferring), which
  ties a counter inside a shared object to the loop that must end;
- `Placed`: where `execute_node` is agrees with its task object and the registries;
- `Concluded`: a success means a completed state machine unless the engine has forgotten
  the execution, in which case `finalize` can no longer write the ledger. This is where
  `MaxExecutions <= MaxTasks` is needed: with the caps the other way round a success that
  the executor has forgotten would be looked up and closed as a failure;
- `Recorded`: the ledger agrees with the return value.

`ExecutorAgentsAreCounted`, under the same `Regime` and for any agents and any cap on the
assignments, needs to know which agent a release finds: as long as an inference is under way,
its task id, if it is in the table of assignments at all, points to the agent the task was
given. A release that comes after the cap dropped the assignment finds none, so that a
load may stay too high; never is another agent's taken down, and `max(0, ...)` never acts.

**The registry** (`RegistreMissions_proofs`, 1,057 obligations), for any finite set of
missions, any threads and any bound: `RegistryIsDurable` is the refinement, initial states
map to initial states and every step to a step of `MissionsDurables` or a stutter
(`ThreadRefines` goes through the steps of a thread; a write the store accepts is the step
`Accepter`, because a thread that writes holds an object of its mission, which has a status);
`ActiveIsKept` and `CacheIsBounded` are action properties. The invariant behind them: types, `Made` (no object
is known before it is made, so those of a hydration are new and cannot alias a cached one),
`Holds` (a thread about to write or to cache an object has one) and `Queued` (every id in
the order of the cache has an object). Three lemmas: what is
evicted has ended, what an insertion leaves in the cache, and that hydration numbers its
objects afresh. `CacheIsBounded` is a count: if a terminal mission stays, its rank among the
terminal ones is beyond the excess, so that as many as the excess have left; that every
rank is taken (`RankExists`) is an induction.

**The sessions** (`SessionsDeMission_proofs`, 1,379 obligations), for any finite sets of calls
and keys and any caps: `SessionCap`, `NoAgentIsStray` and `LostTurnsAreBounded`. `CapHolds` alone is not inductive:
an opening registers without a test. `Locked` says that the registry lock is held exactly
by the call that opens, `Room` that as long as it is held the key has no entry and one
place is free, `Replayed` that only a call that found its client closed skips the test;
`NoStrayAgent` needs the same to know that the only unregistered agent is the holder's.

**The approvals** (`Approvals_proofs`, 719 obligations), for any actions, callers, humans and
budgets: `ApprovalsInvariant`, `ConsentIsCounted`, `DecisionsAreFinal`, `QueueIsDeduplicated`. The parts: `Inserted`,
`Reading` (what a session read of a row still holds unless the row was written meanwhile)
and `Accounts` (served plus left stays within the grant). `Reading` is what makes the
writing of a stale value harmless when nothing overlapped.

**The update** (`MiseAJour_proofs`, 203 obligations), for any roots, directories, versions and
numbers of updates and backups: `OutcomesAreTrue`, `MarksAreHonest`, `CodeComesFirst`. The
parts: `Sauvee` (the backup holds what the disk held), `Avance` (the way forward, step by
step), `Recule` (the way back: what left the loop is as it was, unless a failure was noted)
and what the mark may be.

**The workflows** (`WorkflowEngine_proofs`, 1,247 obligations), for any set of valid
workflows, any calls and slots: `RowIsOneRun`, `NothingPassesAGate`, `EachToolOnce`,
`WavesAsSimulated` and the action property `RowOnlyGrows`. None of them is inductive alone.
`OneRun`: what a call holds is part of one run under its approvals (a decided node was
reached and allowed, a noted gate reached and closed, the wave reached, allowed and
undecided), which a save completes and a resumption takes over. `GatesHold`: everything ever
touched lies in a set closed under predecessors whose gates a human opened. `InTurn`: as
long as no two calls overlapped, the active one holds all that is stored. `Accounted`: what
was executed is in the active call or in the row. For the waves `Staged`: after *k*
structural waves a first call has decided only nodes of these, those it passed over cannot
be reached any more, and its wave is the *k*-th.

Also in the modules above: `LostTurnsAreBounded` needs to know which session belongs to which key
(`OneOwner`), since the code counts per key what is lost per session, and that a lost turn
and the calls past the decision of the rule stay within the bound together (`Within`);
`QueueIsDeduplicated` needs `Queue`, no request waits while an attempt is between its look
and its insertion.

Only model-checked: liveness (`WaitEnds`, `WalkEnds`, `NodeReturns`, `CallEnds`, `TaskEnds`),
which rests on fairness and ENABLED and is out of the prover's reach. Every other property
of a passing run is a theorem.

## 6. Where the code and its documentation disagree

`cancel_is_final` is a run and the entry of `findings`. Twelve more claims are stated as
properties, without the exemptions of the passing runs, and TLC refutes each within
seconds (`tlc -config <cfg> <module>`):

| Property | cfg, module | The claim | Where the code departs from it |
|---|---|---|---|
| `OneWriter` | `MCOneWriter.cfg`, `MCMissionWalks` | `mission/graph_executor.py:421` | `autonomous/autonomous_orchestrator.py:495`, `mission/routes.py:1018` |
| `ReviewFreesAgent` | `MCReviewFreesAgent.cfg`, `MCMissionExecutor` | `execution/mission_executor.py:231` | `execution/mission_executor.py:586`, `execution/execution_state.py:28` |
| `JamaisLInverse` | `MCJamaisLInverse.cfg`, `MCVram` | `runtime/resources/resource_manager.py:159` | `runtime/resources/gpu_monitor.py:60` |
| `CarteIllisibleRefuse` | `MCCarteIllisible.cfg`, `MCVram` | `runtime/resources/gpu_monitor.py:38`, `124` | `runtime/resources/gpu_monitor.py:130`, `256`, `allocation_policy.py:61` |
| `LastStateIsServed` | `MCDernierEtat.cfg`, `MCRegistre` | `mission/persistance.py:186`, `mission/routes.py:103` | `mission/routes.py:233` |
| `VisibleIsStored` | `MCVisible.cfg`, `MCRegistre` | `mission/routes.py:150` | `mission/routes.py:156` |
| `OneShot` | `MCOneShot.cfg`, `MCApprovals` | `security/approvals.py:11` | `security/approvals.py:368` |
| `NoDuplicates` | `MCNoDuplicates.cfg`, `MCApprovals` | `security/approvals.py:193` | `security/approvals.py:199` |
| `OnlyPendingIsDecided` | `MCOnlyPending.cfg`, `MCApprovals` | `security/approvals.py:264` | `security/approvals.py:285` |
| `ApprovalsAreCumulative` | `MCCumulative.cfg`, `MCWorkflow` | `workflows/run_store.py:27` | `workflows/engine.py:157` |
| `SimulationBounds` | `MCSimulation.cfg`, `MCWorkflow` | `workflows/engine.py:115` | `workflows/engine.py:155` |
| `NoOldStateUnderNewCode` | `MCAncienEtat.cfg`, `MCMiseAJour` | `maj/mise_a_jour.py:446` | `maj/mise_a_jour.py:463` |

What the traces show:

- *`cancel_is_final`.* Cancelled is listed among the statuses "from which nothing moves";
  the orchestrator's builder sets a mission cancelled before its walk back to ready, and
  `execute_step` closes a cancelled mission as completed or failed.
- *`OneWriter`.* "mission/graph state is never written from more than one thread at a
  time" (`execute_step`). The orchestrator's thread does not look at a pause; `/resume` then
  walks the same mission from the event loop, and both hand out the same nodes.
- *`ReviewFreesAgent`.* A verdict for a human "frees the agent": the transition it asks for
  does not exist, `execute_task` raises before the release, and the agent stays BUSY with the
  load of a task that is over.
- *`JamaisLInverse`.* `can_allocate` refuses too often, "never the other way round": a
  measure of up to two seconds ago misses a model that was loaded and whose reservation was
  released since.
- *`CarteIllisibleRefuse`.* A card that no probe can read is said to be reported as such, and
  refused. Outside Windows its capacity is not found either, which is what no card looks
  like, and everything is granted.
- *`LastStateIsServed`.* "The last state counts": of two lookups of one mission after a restart,
  the one that was slower to take the lock puts the object it read first into the cache, over
  the one that was changed and persisted meanwhile. Later lookups see the old status, and
  the next `persister` of that object writes it over the row.
- *`VisibleIsStored`.* `__setitem__` writes first because "we do not want a mission visible
  in memory and absent from the disk", then logs a failing write and caches the mission.
- *`OneShot`, `NoDuplicates`, `OnlyPendingIsDecided`.* An approval "is consumed the first time it is
  used"; re-refusing an action "returns the existing pending row"; "only a PENDING entry can be
  decided". Each is a SELECT and a later write without a condition, and two sessions whose
  SELECTs come before either write break each of the three. `WithinGrant`, `OneRequest` and
  `DecisionStands` show that this is the only way.
- *`ApprovalsAreCumulative`.* Approvals of a run are "cumulative across every resume call"; of two
  resumptions that overlap, the one that ends last writes the row over, and the approval of
  the other is gone, with the result of the node it opened.
- *`SimulationBounds`.* The structural waves are "an upper bound on parallelism"; a
  resumption takes as its first wave everything whose predecessors are decided, at whatever
  depth.
- *`NoOldStateUnderNewCode`.* The code is put back first because old state under new code is "the only
  one that nothing can read"; when that fails, the state is put back all the same. The
  outcome is reported as fatal.

Others were met while modelling and are not stated as properties:

- The architecture document says a failure blocks every dependent down the chain
  (`MISSION_GRAPH_ARCHITECTURE.md:68`); `mark_failed` blocks the direct ones only. The rest
  stay pending, and the mission keeps its status `running`.
- `start_mission` insists that `started_at` be durable before any work
  (`graph_executor.py:380`); `/resume` sets it in memory and walks (`mission/routes.py:1016`).
- An exception other than `RuntimeUnavailableError` leaves the state machine of a finished
  node `RUNNING` (`mission_executor.py:431`), which the comment at line 513 describes as
  the defect that was removed.
- A `persister` that fails raises, but the status it could not write is visible in the cache.
- A comment in `SessionsDeMission.tour` announces that an agent that dies in the middle of a
  turn is replayed; `_prompt` turns every exception into a lost turn, so that only a
  client found closed is replayed. A replay looks at no cap, and runs on the model the
  agent has by default.
- The mark at the end of `appliquer` has no handler: an error there leaves the new version
  installed and unmarked. `_elaguer` keeps the newest by name, so a clock that was put back
  makes it prune the backup just taken; the manifest check then makes a roll back fatal
  instead of silently partial. A directory that a failed update created stays after it.
- `consume_approval` looks only at the last decided of the approved rows: one that has
  expired hides an older one that still lives.

## 7. What is not modelled

- Texts, figures, events and reports; how an agent, runtime, model or skill is chosen.
- The contents of the workspace verification and the fingerprints of governing files:
  their verdict is an input.
- Feedback, optimisation and checkpoints of the execution controller; dependencies and
  `build_plan` of the scheduler, which the mission engine does not use.
- Registry and walks are not composed: `MissionWalks` assumes one object per mission, which
  `ActiveStays` shows to hold for an active mission as long as no thread puts back an
  object it held from before. `__delitem__`, `pop` and `clear` of the registry have no
  caller outside the tests.
- `_fermer_session_de_mission` closes a session from the thread that ends the mission, on an
  event loop of its own (`graph_executor.py:750-763`). The model has one loop: an
  `asyncio.Lock` that another loop holds, on which such a call can hang or raise, is not in
  it, and `CallEnds` says nothing of that case.
- The chat as a user of the agent sessions; late text of a turn that was given up, which
  the next turn of the same agent may collect.
- `places_disponibles`, from which the gate takes its capacity, is an input of `Portillon`.
- A self update has no caller but the tests at this commit; two of them at once, which no
  lock prevents, are not modelled.
- The recovery manager and the runtime router are built only by tests; the checkpoints
  and the programme are worked through by one thread. The night queue is in the plan.
- Everything else beside the path of a mission (section 1): input and output, text,
  storage and the front end, which make up most of the repository.

## 8. Plan

Done: the gate, the graph, the walks, the execution of a node, the registry with its
abstract specification, the admission of VRAM, the agent sessions, the approvals, the
workflows and the self update; for each of them every safety property proved. Next, in
order of importance:

1. Abstract specifications: the gate as a counting semaphore of varying size, and
   `MissionExecutor` as an abstract run (opened, then one outcome), with refinement
   mappings checked by TLC and then proved.
2. The walk of the orchestrator alone (`HttpTasks = {}`): the properties of `RequestsInvariant`
   for a thread whose builder overwrites the status.
3. The hazard without a property: `started_at` set by `/resume` and lost by a restart before
   the first node works.
4. The composition of the registry with the walks, and of the gate with `VramAdmission`
   through `places_disponibles`.
5. The Studio night queue and its arbitration of the card (`studio/file_de_nuit.py`,
   `studio/arbitrage.py`): the continuity of plans that depend on one another, the stop
   after three failures in a row, a journal cut short by a death, two nights started at
   once.
6. Checkpoints and the programme, should they become concurrent.

## 9. Running the project

In this directory: `tlc -config MCPortillon.cfg MCPortillon`, and likewise for every pair
of `runs` in `PROJECT.json`; `tlapm Admission_proofs.tla` and
likewise for every `*_proofs` module. The mutants in `PROJECT.json` replace the body of one
definition by a faulty one that stands next to it in the module; each property is
violated by its mutant.
