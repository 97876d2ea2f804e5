--------------------------- MODULE WorkflowEngine ---------------------------
(***************************************************************************)
(* workflows/engine.py: run() walks a graph of tools wave by wave, halts at *)
(* the gates no human has opened, writes the whole run once at the end     *)
(* (workflows/run_store.py) and takes it up again when it is called with   *)
(* its run_id.  One run is followed, with every call made for it.  Calls   *)
(* come from HTTP and from MCP: nothing keeps two of them apart.           *)
(***************************************************************************)
EXTENDS Naturals, FiniteSets

CONSTANTS Nodes,
          Workflows,    \* definitions: edges, gated nodes, $steps references
          MaxCalls,     \* bound: the calls of run() made for the run
          MaxParallel   \* settings.workflow_max_parallel

\* Calls are numbered in the order they are made; the first has no run_id.
Calls == 1..MaxCalls

Conditions == {"always", "on_success", "on_failure"}

\* _validate: known conditions, known ends, no cycle (a cycle is a set of
\* nodes each of which has a predecessor in the set).
Validate(w) ==
  /\ w.edges \subseteq Nodes \X Nodes \X Conditions
  /\ ~ \E S \in SUBSET Nodes \ {{}} :
        \A n \in S : \E m \in S, k \in Conditions : <<m, n, k>> \in w.edges

ASSUME FiniteAssumption ==
  /\ IsFiniteSet(Nodes) /\ Nodes # {}
  /\ MaxCalls \in Nat \ {0} /\ MaxParallel \in Nat
ASSUME WorkflowsAssumption ==
  \A w \in Workflows : /\ Validate(w)
                       /\ w.gated \subseteq Nodes
                       /\ w.refs \in [Nodes -> SUBSET Nodes]

VARIABLES workflow,
          record,      \* the row of workflow_runs, or NoRecord
          pc,          \* new, loop, wave, over
          results,     \* node_results of a call
          approved,    \* approved_nodes_total of a call
          pending,     \* pending_nodes of a call
          queued,      \* nodes of the wave that wait for the semaphore
          running,     \* nodes of the wave whose tool is running
          outcome,     \* what the nodes of the wave returned
          executions,  \* history: how often the tool of a node was called
          granted,     \* history: every node a human approved in a call
          overlapped,  \* history: a call began while another was active
          lost         \* history: a call ended without writing the row

call == <<pc, results, approved, pending, queued, running, outcome>>
history == <<executions, granted, overlapped, lost>>
vars == <<workflow, record, call, history>>

NoRecord == [status |-> "none"]
Decided == {"success", "failed"}
Nothing == [n \in Nodes |-> "none"]
Active(c) == pc[c] \in {"loop", "wave"}
NextCall(c) == pc[c] = "new" /\ \A d \in Calls : d < c => pc[d] # "new"

Init ==
  /\ workflow \in Workflows
  /\ record = NoRecord
  /\ pc = [c \in Calls |-> "new"]
  /\ results = [c \in Calls |-> Nothing]
  /\ approved = [c \in Calls |-> {}]
  /\ pending = [c \in Calls |-> {}]
  /\ queued = [c \in Calls |-> {}]
  /\ running = [c \in Calls |-> {}]
  /\ outcome = [c \in Calls |-> Nothing]
  /\ executions = [n \in Nodes |-> 0]
  /\ granted = {} /\ overlapped = FALSE /\ lost = FALSE

-----------------------------------------------------------------------------
(* The graph.                                                              *)

Incoming(w, n) == {e \in w.edges : e[2] = n}
Predecessors(w, n) == {e[1] : e \in Incoming(w, n)}

EdgeSatisfied(e, r) ==
  \/ e[3] = "always"
  \/ e[3] = "on_success" /\ r[e[1]] = "success"
  \/ e[3] = "on_failure" /\ r[e[1]] = "failed"

\* Mutant of Done: a skipped node is taken as settled.
DoneOrSkipped(r) == {n \in Nodes : r[n] \in Decided \cup {"skipped"}}

Done(r) == {n \in Nodes : r[n] \in Decided}

\* Mutant of Reachable: one finished predecessor is enough.
ReachableByAny(w, r, n) ==
  Incoming(w, n) = {} \/ \E e \in Incoming(w, n) : e[1] \in Done(r) /\ EdgeSatisfied(e, r)

\* The test of _ready_nodes: every predecessor finished, one edge satisfied.
Reachable(w, r, n) ==
  \/ Incoming(w, n) = {}
  \/ /\ Predecessors(w, n) \subseteq Done(r)
     /\ \E e \in Incoming(w, n) : EdgeSatisfied(e, r)

\* A node leaves `remaining` when it is decided or noted as pending.
Remaining(c) == Nodes \ (Done(results[c]) \cup pending[c])
ReadyNodes(c) == {n \in Remaining(c) : Reachable(workflow, results[c], n)}

\* _structural_waves: the i-th wave is the nodes whose in-degree reaches zero
\* when the earlier waves are taken away.
StructuralDone(w) ==
  LET before[k \in 0..Cardinality(Nodes)] ==
        IF k = 0 THEN {}
        ELSE before[k-1] \cup {n \in Nodes : Predecessors(w, n) \subseteq before[k-1]}
  IN before
StructuralWave(w, i) == StructuralDone(w)[i] \ StructuralDone(w)[i-1]

Waves == 1..Cardinality(Nodes)

-----------------------------------------------------------------------------
(* run().                                                                  *)

Begin(c, r, A) ==
  /\ pc' = [pc EXCEPT ![c] = "loop"]
  /\ results' = [results EXCEPT ![c] = r]
  /\ approved' = [approved EXCEPT ![c] = A]
  /\ overlapped' = (overlapped \/ \E d \in Calls : Active(d))
  /\ UNCHANGED <<workflow, record, pending, queued, running, outcome, executions, lost>>

\* Without run_id: a new identifier, nothing decided.  Another fresh call is
\* another run; this one is known to its callers when the first call returns.
Fresh(c) ==
  /\ c = 1 /\ pc[c] = "new"
  /\ \E A \in SUBSET workflow.gated : Begin(c, Nothing, A) /\ granted' = A

\* Mutant of Resume: what awaits validation is taken as validated.
ResumeOpens(c) ==
  /\ NextCall(c) /\ record # NoRecord
  /\ \E A \in SUBSET workflow.gated :
       /\ Begin(c, [n \in Nodes |-> IF record.results[n] = "awaiting_validation"
                                    THEN "success" ELSE record.results[n]],
                record.approved \cup A)
       /\ granted' = granted \cup A

\* Mutant of Resume: the stored results are not taken over.
ResumeFromScratch(c) ==
  /\ NextCall(c) /\ record # NoRecord
  /\ \E A \in SUBSET workflow.gated : /\ Begin(c, Nothing, record.approved \cup A)
                                      /\ granted' = granted \cup A

\* Mutant of Resume: approvals of earlier calls are not taken over.
ResumeForgets(c) ==
  /\ NextCall(c) /\ record # NoRecord
  /\ \E A \in SUBSET workflow.gated : /\ Begin(c, record.results, A)
                                      /\ granted' = granted \cup A

\* With run_id: what is stored is loaded as it is, the approvals accumulate.
\* An unknown run_id raises and changes nothing.
Resume(c) ==
  /\ NextCall(c) /\ record # NoRecord
  /\ \E A \in SUBSET workflow.gated :
       /\ Begin(c, record.results, record.approved \cup A)
       /\ granted' = granted \cup A

\* One turn of the loop: the ready nodes are taken; a gate that is not
\* approved is noted and blocks what follows it, the others form the wave.
Wave(c) ==
  LET ready == ReadyNodes(c)
      closed == (ready \cap workflow.gated) \ approved[c]
  IN /\ pc[c] = "loop" /\ ready # {}
     /\ results' = [results EXCEPT ![c] = [n \in Nodes |->
                      IF n \in closed THEN "awaiting_validation" ELSE @[n]]]
     /\ pending' = [pending EXCEPT ![c] = @ \cup closed]
     /\ queued' = [queued EXCEPT ![c] = ready \ closed]
     /\ pc' = [pc EXCEPT ![c] = IF ready = closed THEN "loop" ELSE "wave"]
     /\ UNCHANGED <<workflow, record, approved, running, outcome, history>>

Slots == IF MaxParallel = 0 THEN 1 ELSE MaxParallel
Admitted(c, n) == /\ pc[c] = "wave" /\ n \in queued[c]
                  /\ Cardinality(running[c]) < Slots

\* _execute_node up to the call of the tool.  Parameters that refer to a
\* result resolve against what earlier waves decided.
CallTool(c, n) ==
  /\ Admitted(c, n)
  /\ \A m \in workflow.refs[n] : results[c][m] = "success"
  /\ queued' = [queued EXCEPT ![c] = @ \ {n}]
  /\ running' = [running EXCEPT ![c] = @ \cup {n}]
  /\ executions' = [executions EXCEPT ![n] = @ + 1]
  /\ UNCHANGED <<workflow, record, pc, results, approved, pending, outcome,
                 granted, overlapped, lost>>

\* An unknown action, a reference that cannot be resolved, a missing key: the
\* node fails and no tool is called.
CannotCall(c, n) ==
  /\ Admitted(c, n)
  /\ queued' = [queued EXCEPT ![c] = @ \ {n}]
  /\ outcome' = [outcome EXCEPT ![c][n] = "failed"]
  /\ UNCHANGED <<workflow, record, pc, results, approved, pending, running, history>>

\* The tool returns, or raises: a failed node, not a failed run.
ToolReturns(c, n) ==
  /\ n \in running[c]
  /\ running' = [running EXCEPT ![c] = @ \ {n}]
  /\ \E s \in Decided : outcome' = [outcome EXCEPT ![c][n] = s]
  /\ UNCHANGED <<workflow, record, pc, results, approved, pending, queued, history>>

\* gather returns: the results of the wave are written back together.
WaveEnds(c) ==
  /\ pc[c] = "wave" /\ queued[c] = {} /\ running[c] = {}
  /\ results' = [results EXCEPT ![c] = [n \in Nodes |->
                   IF outcome[c][n] # "none" THEN outcome[c][n] ELSE @[n]]]
  /\ outcome' = [outcome EXCEPT ![c] = Nothing]
  /\ pc' = [pc EXCEPT ![c] = "loop"]
  /\ UNCHANGED <<workflow, record, approved, pending, queued, running, history>>

\* _overall_status.
OverallStatus(r, p) ==
  LET statuses == {r[n] : n \in Nodes}
  IN CASE p # {} -> "awaiting_validation"
       [] p = {} /\ statuses \subseteq {"success", "skipped"} -> "completed"
       [] p = {} /\ "failed" \in statuses /\ "success" \in statuses -> "partially_successful"
       [] OTHER -> "failed"

\* run() is left, and its local variables are gone.
Leave(c) ==
  /\ pc' = [pc EXCEPT ![c] = "over"]
  /\ results' = [results EXCEPT ![c] = Nothing]
  /\ approved' = [approved EXCEPT ![c] = {}]
  /\ pending' = [pending EXCEPT ![c] = {}]
  /\ queued' = [queued EXCEPT ![c] = {}]
  /\ running' = [running EXCEPT ![c] = {}]
  /\ outcome' = [outcome EXCEPT ![c] = Nothing]
  /\ UNCHANGED <<workflow, executions, granted, overlapped>>

Stored(c, r) == [results |-> r, approved |-> approved[c], pending |-> pending[c],
                 status |-> OverallStatus(r, pending[c])]

\* Nothing is reachable any more: the rest is skipped, and the row is written
\* over, whoever wrote it last.
Save(c) ==
  /\ pc[c] = "loop" /\ ReadyNodes(c) = {}
  /\ record' = Stored(c, [n \in Nodes |-> IF n \in Remaining(c) THEN "skipped"
                                         ELSE results[c][n]])
  /\ Leave(c)
  /\ UNCHANGED lost

\* The process ends, or run() raises (a message that cannot be published in a
\* wave of one node, a result that is not JSON): nothing of the call is stored.
Lost(c) ==
  /\ Active(c)
  /\ Leave(c)
  /\ lost' = TRUE
  /\ UNCHANGED record

Step(c) ==
  \/ Wave(c) \/ WaveEnds(c) \/ Save(c)
  \/ \E n \in Nodes : CallTool(c, n) \/ CannotCall(c, n) \/ ToolReturns(c, n)

Next == \E c \in Calls : Fresh(c) \/ Resume(c) \/ Step(c) \/ Lost(c)

Spec == Init /\ [][Next]_vars

-----------------------------------------------------------------------------
\* What is stored is the outcome of one run of the whole graph under the
\* stored approvals, however many calls it took: a node is decided exactly
\* when run() would have reached and been allowed it, awaits validation exactly
\* when only its gate is closed, and is skipped otherwise.  This is what makes
\* a resumption that recomputes skipped nodes safe (run, "Only success/failed").
RecordIsOneRun ==
  record # NoRecord =>
    /\ \A n \in Nodes :
         LET reached == Reachable(workflow, record.results, n)
             closed == n \in workflow.gated \ record.approved
         IN /\ record.results[n] \in Decided <=> reached /\ ~ closed
            /\ record.results[n] = "awaiting_validation" <=> reached /\ closed
            /\ record.results[n] = "skipped" <=> ~ reached
    /\ record.pending = {n \in Nodes : record.results[n] = "awaiting_validation"}

\* No tool is called at or behind a gate that no human has opened, across
\* resumptions, overlapping calls and lost calls (human_validation in run):
\* what was executed lies in a set closed under predecessors in which every
\* gate was opened.
GateHolds ==
  \E S \in SUBSET Nodes :
    /\ {n \in Nodes : executions[n] > 0} \subseteq S
    /\ \A n \in S : Predecessors(workflow, n) \subseteq S
    /\ S \cap workflow.gated \subseteq granted

\* "without re-executing already-finished nodes" (run_store.py): while calls
\* follow each other and none is lost, each tool is called at most once.
OnceUnlessDisturbed == ~ overlapped /\ ~ lost => \A n \in Nodes : executions[n] <= 1

\* "a node approved on one resume stays approved on the next" (run_store.py),
\* and a decided result stays as it is: as long as no two calls overlapped, a
\* save adds to the row and takes nothing from it, lost calls in between or not.
StoredStays ==
  [][record # NoRecord /\ ~ overlapped =>
       /\ record.approved \subseteq record'.approved
       /\ \A n \in Done(record.results) : record'.results[n] = record.results[n]]_vars

\* simulate() tells what runs together: a wave of a call that starts a run is
\* part of one structural wave (_structural_waves).
FreshWavesAsSimulated ==
  \E i \in Waves :
    queued[1] \cup running[1] \cup {n \in Nodes : outcome[1][n] # "none"}
      \subseteq StructuralWave(workflow, i)

-----------------------------------------------------------------------------
\* What the documentation says without the exemptions.

\* "Cumulative across every resume call": when every call has written the row,
\* it holds all that humans approved.
ApprovalsAreCumulative ==
  record # NoRecord /\ ~ lost /\ (\A c \in Calls : ~ Active(c)) => granted \subseteq record.approved

\* The waves of simulate() are "an upper bound on parallelism": no wave of any call, a resumption
\* included, is larger than the largest of them.
SimulationBounds ==
  \A c \in Calls : \E i \in Waves :
    Cardinality(queued[c] \cup running[c]) <= Cardinality(StructuralWave(workflow, i))
=============================================================================
