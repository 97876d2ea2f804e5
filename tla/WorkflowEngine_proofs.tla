----------------------- MODULE WorkflowEngine_proofs -----------------------
(***************************************************************************)
(* Proofs about WorkflowEngine, for any finite set of nodes, any valid     *)
(* definitions and any number of calls: the stored row is the outcome of   *)
(* one run of the graph, no tool is called behind a closed gate, and calls *)
(* that follow each other neither repeat a tool nor take anything from the *)
(* row.                                                                    *)
(***************************************************************************)
EXTENDS WorkflowEngine, FiniteSetTheorems, WellFoundedInduction, TLAPS

Statuses == Decided \cup {"skipped", "awaiting_validation"}

\* What save_run writes.
Row == [results : [Nodes -> Statuses], approved : SUBSET Nodes,
        pending : SUBSET Nodes,
        status : {"completed", "failed", "partially_successful", "awaiting_validation"}]

Typed ==
  /\ workflow \in Workflows
  /\ record = NoRecord \/ record \in Row
  /\ pc \in [Calls -> {"new", "loop", "wave", "over"}]
  /\ results \in [Calls -> [Nodes -> Statuses \cup {"none"}]]
  /\ approved \in [Calls -> SUBSET Nodes]
  /\ pending \in [Calls -> SUBSET Nodes]
  /\ queued \in [Calls -> SUBSET Nodes]
  /\ running \in [Calls -> SUBSET Nodes]
  /\ outcome \in [Calls -> [Nodes -> Decided \cup {"none"}]]
  /\ executions \in [Nodes -> Nat]
  /\ granted \subseteq Nodes
  /\ overlapped \in BOOLEAN
  /\ lost \in BOOLEAN

\* The nodes of a call's wave that have answered, and the whole wave.
Answered(c) == {n \in Nodes : outcome[c][n] # "none"}
InWave(c) == queued[c] \cup running[c] \cup Answered(c)

Closed(c) == workflow.gated \ approved[c]

\* Where a call stands: outside a wave none is under way, a node of the wave
\* is in one place, and a call that has not begun or is over notes no gate.
Placed(c) ==
  /\ pc[c] # "wave" => InWave(c) = {}
  /\ queued[c] \cap (running[c] \cup Answered(c)) = {}
  /\ running[c] \cap Answered(c) = {}
  /\ ~ Active(c) => pending[c] = {}

\* What a call holds is part of one run under its approvals: every decided
\* node was reached and allowed, every noted gate was reached and is closed,
\* and its wave consists of nodes that are reached, allowed and undecided.
PartOfOneRun(c) ==
  /\ \A n \in Done(results[c]) : Reachable(workflow, results[c], n) /\ n \notin Closed(c)
  /\ \A n \in pending[c] : /\ results[c][n] = "awaiting_validation"
                           /\ Reachable(workflow, results[c], n) /\ n \in Closed(c)
  /\ \A n \in InWave(c) : /\ Reachable(workflow, results[c], n) /\ n \notin Closed(c)
                          /\ n \notin Done(results[c]) /\ n \notin pending[c]

OneRun == \A c \in Calls : Placed(c) /\ PartOfOneRun(c)

\* What is decided, or under way, anywhere.
Touched ==
  {n \in Nodes : \/ executions[n] > 0
                 \/ record # NoRecord /\ n \in Done(record.results)
                 \/ \E c \in Calls : n \in Done(results[c]) \cup InWave(c)}

\* GateHolds for everything touched, and approvals come from humans.
GatesHold ==
  /\ record # NoRecord => record.approved \subseteq granted
  /\ \A c \in Calls : approved[c] \subseteq granted
  /\ \E S \in SUBSET Nodes :
       /\ Touched \subseteq S
       /\ \A n \in S : Predecessors(workflow, n) \subseteq S
       /\ S \cap workflow.gated \subseteq granted

\* Before the first call nothing has happened; as long as no two calls
\* overlapped, at most one is active, and it holds all that is stored.
InTurn ==
  /\ 1 \in Calls /\ pc[1] = "new" =>
       /\ record = NoRecord /\ granted = {}
       /\ \A c \in Calls : pc[c] = "new"
       /\ \A n \in Nodes : executions[n] = 0
  /\ ~ overlapped =>
       /\ \A c, d \in Calls : Active(c) /\ Active(d) => c = d
       /\ record # NoRecord => \A c \in Calls : Active(c) =>
            /\ record.approved \subseteq approved[c]
            /\ \A n \in Done(record.results) : results[c][n] = record.results[n]

\* If moreover no call was lost, what has been executed is what the active
\* call, or else the row, accounts for.
Accounted ==
  ~ overlapped /\ ~ lost =>
    /\ \A n \in Nodes : executions[n] <= 1
    /\ \A c \in Calls : Active(c) => \A n \in Nodes :
         executions[n] > 0 => n \in Done(results[c]) \cup running[c] \cup Answered(c)
    /\ (\A c \in Calls : ~ Active(c)) => \A n \in Nodes :
         executions[n] > 0 => record # NoRecord /\ n \in Done(record.results)

IInv == Typed /\ RecordIsOneRun /\ OneRun /\ GatesHold /\ InTurn /\ Accounted

-----------------------------------------------------------------------------
(* The graph.                                                              *)

Results == [Nodes -> Statuses \cup {"none"}]

\* A node that is reached stays reached while decided nodes keep their result.
LEMMA ReachableGrows ==
  ASSUME NEW w \in Workflows, NEW r \in Results, NEW s \in Results, NEW n \in Nodes,
         \A m \in Done(r) : s[m] = r[m],
         Reachable(w, r, n)
  PROVE  Reachable(w, s, n)
<1>1. \A e \in Incoming(w, n) : e[1] \in Nodes
  BY WorkflowsAssumption DEF Validate, Incoming
<1>2. Done(r) \subseteq Done(s)
  BY DEF Done
<1>3. \A e \in Incoming(w, n) : EdgeSatisfied(e, r) => EdgeSatisfied(e, s)
  BY <1>1 DEF EdgeSatisfied, Done, Decided
<1> QED BY <1>2, <1>3 DEF Reachable

\* Whether a node is reached depends on decided results alone.
LEMMA ReachableByDecided ==
  ASSUME NEW w \in Workflows, NEW r \in Results, NEW s \in Results, NEW n \in Nodes,
         \A m \in Done(r) \cup Done(s) : s[m] = r[m]
  PROVE  Reachable(w, r, n) <=> Reachable(w, s, n)
BY ReachableGrows

\* The predecessors of a reached node are decided.
LEMMA ReachedFromDone ==
  ASSUME NEW w \in Workflows, NEW r, NEW n \in Nodes, Reachable(w, r, n)
  PROVE  Predecessors(w, n) \subseteq Done(r)
BY DEF Reachable, Predecessors

-----------------------------------------------------------------------------
(* Types.                                                                  *)

LEMMA GatedNodes == \A w \in Workflows : w.gated \subseteq Nodes
BY WorkflowsAssumption

LEMMA NoRecordIsNoRow == NoRecord \notin Row
BY DEF NoRecord, Row

LEMMA InitTyped == Init => Typed
<1> SUFFICES ASSUME Init PROVE Typed
  OBVIOUS
<1>1. Nothing \in [Nodes -> Decided \cup {"none"}] /\ Nothing \in [Nodes -> Statuses \cup {"none"}]
  BY DEF Nothing
<1> QED BY <1>1 DEF Init, Typed

LEMMA StoredTyped ==
  ASSUME Typed, NEW c \in Calls, pc[c] = "loop",
         \A n \in Nodes \ Remaining(c) : results[c][n] # "none"
  PROVE  Stored(c, [n \in Nodes |-> IF n \in Remaining(c) THEN "skipped"
                                    ELSE results[c][n]]) \in Row
<1> DEFINE r == [n \in Nodes |-> IF n \in Remaining(c) THEN "skipped" ELSE results[c][n]]
<1>1. r \in [Nodes -> Statuses]
  BY DEF Typed, Statuses
<1>2. OverallStatus(r, pending[c]) \in
        {"completed", "failed", "partially_successful", "awaiting_validation"}
  BY DEF OverallStatus
<1> QED BY <1>1, <1>2 DEF Stored, Row, Typed

\* Outside the wave a node that is not among the remaining ones has a status.
LEMMA SettledHasStatus ==
  ASSUME Typed, OneRun, NEW c \in Calls, NEW n \in Nodes \ Remaining(c)
  PROVE  results[c][n] # "none"
BY DEF OneRun, PartOfOneRun, Remaining, Done, Decided

LEMMA TypeStep == ASSUME Typed, OneRun, [Next]_vars PROVE Typed'
<1>1. CASE UNCHANGED vars
  BY <1>1 DEF Typed, vars, call, history
<1>2. ASSUME NEW c \in Calls, NEW r \in Results, NEW A \in SUBSET Nodes,
             Begin(c, r, A), granted' \subseteq Nodes
      PROVE  Typed'
  BY <1>2 DEF Begin, Typed, Results
<1>3. ASSUME NEW c \in Calls, Fresh(c) PROVE Typed'
  <2>1. Nothing \in Results
    BY DEF Nothing, Results
  <2> QED BY <1>2, <1>3, <2>1, GatedNodes DEF Fresh, Typed
<1>4. ASSUME NEW c \in Calls, Resume(c) PROVE Typed'
  <2>1. record \in Row /\ record.results \in Results
    BY <1>4 DEF Resume, Typed, Row, Results, NoRecord
  <2>2. PICK A \in SUBSET workflow.gated :
          Begin(c, record.results, record.approved \cup A) /\ granted' = granted \cup A
    BY <1>4 DEF Resume
  <2>3. record.approved \cup A \in SUBSET Nodes /\ granted' \subseteq Nodes
    BY <2>1, <2>2, GatedNodes DEF Typed, Row
  <2> QED BY <1>2, <2>1, <2>2, <2>3
<1>5. ASSUME NEW c \in Calls, Wave(c) PROVE Typed'
  BY <1>5 DEF Wave, Typed, ReadyNodes, Remaining, history, Statuses
<1>6. ASSUME NEW c \in Calls, WaveEnds(c) PROVE Typed'
  BY <1>6 DEF WaveEnds, Typed, history, Statuses, Nothing
<1>7. ASSUME NEW c \in Calls, Leave(c), record' = NoRecord \/ record' \in Row, lost' \in BOOLEAN
      PROVE  Typed'
  BY <1>7 DEF Leave, Typed, Nothing
<1>8. ASSUME NEW c \in Calls, Save(c) PROVE Typed'
  BY <1>7, <1>8, StoredTyped, SettledHasStatus DEF Save, Typed
<1>9. ASSUME NEW c \in Calls, Lost(c) PROVE Typed'
  BY <1>7, <1>9 DEF Lost, Typed
<1>10. ASSUME NEW c \in Calls, NEW n \in Nodes, CallTool(c, n) PROVE Typed'
  BY <1>10 DEF CallTool, Typed
<1>11. ASSUME NEW c \in Calls, NEW n \in Nodes, CannotCall(c, n) PROVE Typed'
  BY <1>11 DEF CannotCall, Typed, history, Decided
<1>12. ASSUME NEW c \in Calls, NEW n \in Nodes, ToolReturns(c, n) PROVE Typed'
  BY <1>12 DEF ToolReturns, Typed, history
<1> QED BY <1>1, <1>3, <1>4, <1>5, <1>6, <1>8, <1>9, <1>10, <1>11, <1>12
        DEF Next, Step

-----------------------------------------------------------------------------
(* What a call holds is part of one run.                                   *)

\* A call none of whose variables moves.
Same(d) ==
  /\ pc'[d] = pc[d] /\ results'[d] = results[d] /\ approved'[d] = approved[d]
  /\ pending'[d] = pending[d] /\ queued'[d] = queued[d]
  /\ running'[d] = running[d] /\ outcome'[d] = outcome[d]

LEMMA SameKeeps ==
  ASSUME NEW d \in Calls, workflow' = workflow, Same(d), Placed(d), PartOfOneRun(d)
  PROVE  Placed(d)' /\ PartOfOneRun(d)'
<1>1. InWave(d)' = InWave(d) /\ Answered(d)' = Answered(d) /\ Closed(d)' = Closed(d)
  BY DEF InWave, Answered, Closed, Same
<1>2. Active(d)' <=> Active(d)
  BY DEF Active, Same
<1>3. Placed(d)'
  BY <1>1, <1>2 DEF Placed, Same
<1>4. PartOfOneRun(d)'
  BY <1>1 DEF PartOfOneRun, Same
<1> QED BY <1>3, <1>4

\* A step moves the variables of one call, and never the definition.
LEMMA OneCallMoves ==
  ASSUME Typed, NEW c \in Calls, Fresh(c) \/ Resume(c) \/ Step(c) \/ Lost(c)
  PROVE  workflow' = workflow /\ \A d \in Calls \ {c} : Same(d)
<1>1. CASE Fresh(c) \/ Resume(c)
  BY <1>1 DEF Fresh, Resume, Begin, Typed, Same
<1>2. CASE Wave(c)
  BY <1>2 DEF Wave, Typed, Same
<1>3. CASE WaveEnds(c)
  BY <1>3 DEF WaveEnds, Typed, Same
<1>4. CASE Save(c) \/ Lost(c)
  BY <1>4 DEF Save, Lost, Leave, Typed, Same
<1>5. ASSUME NEW n \in Nodes, CallTool(c, n) \/ CannotCall(c, n) \/ ToolReturns(c, n)
      PROVE  workflow' = workflow /\ \A d \in Calls \ {c} : Same(d)
  BY <1>5 DEF CallTool, CannotCall, ToolReturns, Typed, Same
<1> QED BY <1>1, <1>2, <1>3, <1>4, <1>5 DEF Step

\* A call that begins with decided nodes that were reached and allowed.
LEMMA BeginOneRun ==
  ASSUME Typed, OneRun, NEW c \in Calls, pc[c] = "new",
         NEW r \in Results, NEW A \in SUBSET Nodes, Begin(c, r, A),
         \A n \in Done(r) : Reachable(workflow, r, n) /\ n \notin workflow.gated \ A
  PROVE  Placed(c)' /\ PartOfOneRun(c)'
<1>1. InWave(c) = {} /\ pending[c] = {}
  BY DEF OneRun, Placed, Active
<1>2. pc'[c] = "loop" /\ results'[c] = r /\ approved'[c] = A
  BY DEF Begin, Typed
<1>3. InWave(c)' = {} /\ pending'[c] = {}
  BY <1>1 DEF Begin, InWave, Answered
<1>4. Placed(c)'
  BY <1>2, <1>3 DEF Placed, InWave, Active
<1>5. PartOfOneRun(c)'
  BY <1>2, <1>3 DEF PartOfOneRun, Closed, Begin
<1> QED BY <1>4, <1>5

LEMMA WaveOneRun ==
  ASSUME Typed, OneRun, NEW c \in Calls, Wave(c)
  PROVE  Placed(c)' /\ PartOfOneRun(c)'
<1> DEFINE closed == (ReadyNodes(c) \cap workflow.gated) \ approved[c]
           r == [n \in Nodes |-> IF n \in closed THEN "awaiting_validation" ELSE results[c][n]]
<1>1. /\ InWave(c) = {} /\ running[c] = {} /\ Answered(c) = {} /\ queued[c] = {}
  BY DEF OneRun, Placed, Wave, InWave
<1>2. /\ results'[c] = r /\ r \in Results /\ pending'[c] = pending[c] \cup closed
      /\ queued'[c] = ReadyNodes(c) \ closed /\ running'[c] = {}
      /\ pc'[c] = IF ReadyNodes(c) = closed THEN "loop" ELSE "wave"
      /\ Answered(c)' = {} /\ Closed(c)' = Closed(c)
  BY <1>1 DEF Wave, Typed, Results, Statuses, Answered, Closed
<1>3. InWave(c)' = ReadyNodes(c) \ closed
  BY <1>2 DEF InWave
<1>4. ReadyNodes(c) \subseteq Nodes \ (Done(results[c]) \cup pending[c])
  BY DEF ReadyNodes, Remaining
<1>5. Done(r) = Done(results[c]) /\ \A m \in Done(r) : r[m] = results[c][m]
  BY <1>4 DEF Done, Decided
<1>6. \A n \in Nodes : Reachable(workflow, r, n) <=> Reachable(workflow, results[c], n)
  BY <1>2, <1>5, ReachableByDecided DEF Typed, Results
<1>7. Placed(c)'
  BY <1>2, <1>3, <1>4 DEF Placed, Active
<1>8. \A n \in Done(r) : Reachable(workflow, r, n) /\ n \notin Closed(c)
  BY <1>5, <1>6 DEF OneRun, PartOfOneRun, Done
<1>9. ASSUME NEW n \in pending[c] \cup closed
      PROVE  r[n] = "awaiting_validation" /\ Reachable(workflow, r, n) /\ n \in Closed(c)
  BY <1>4, <1>6 DEF OneRun, PartOfOneRun, ReadyNodes, Closed, Typed
<1>10. ASSUME NEW n \in ReadyNodes(c) \ closed
       PROVE  /\ Reachable(workflow, r, n) /\ n \notin Closed(c)
              /\ n \notin Done(r) /\ n \notin pending[c] \cup closed
  BY <1>4, <1>5, <1>6 DEF ReadyNodes, Closed
<1>11. workflow' = workflow
  BY DEF Wave
<1>12. PartOfOneRun(c)'
  BY <1>2, <1>3, <1>8, <1>9, <1>10, <1>11 DEF PartOfOneRun
<1> QED BY <1>7, <1>12

LEMMA WaveEndsOneRun ==
  ASSUME Typed, OneRun, NEW c \in Calls, WaveEnds(c)
  PROVE  Placed(c)' /\ PartOfOneRun(c)'
<1> DEFINE r == [n \in Nodes |-> IF outcome[c][n] # "none" THEN outcome[c][n]
                                 ELSE results[c][n]]
<1>1. /\ results'[c] = r /\ r \in Results /\ pending'[c] = pending[c]
      /\ pc'[c] = "loop" /\ InWave(c)' = {} /\ Closed(c)' = Closed(c)
      /\ workflow' = workflow
  BY DEF WaveEnds, Typed, Results, Statuses, InWave, Answered, Closed, Nothing
<1>2. Answered(c) \cap (Done(results[c]) \cup pending[c]) = {}
  BY DEF OneRun, PartOfOneRun, InWave
<1>3. Done(r) = Done(results[c]) \cup Answered(c)
  BY <1>2 DEF Done, Answered, Typed, Decided
<1>4. \A m \in Done(results[c]) : r[m] = results[c][m]
  BY <1>2 DEF Answered, Done
<1>5. \A n \in Nodes : Reachable(workflow, results[c], n) => Reachable(workflow, r, n)
  BY <1>1, <1>4, ReachableGrows DEF Typed, Results
<1>6. Placed(c)'
  BY <1>1 DEF Placed, InWave, Active
<1>7. \A n \in Done(r) : Reachable(workflow, r, n) /\ n \notin Closed(c)
  BY <1>3, <1>5 DEF OneRun, PartOfOneRun, InWave, Done
<1>8. \A n \in pending[c] : /\ r[n] = "awaiting_validation"
                            /\ Reachable(workflow, r, n) /\ n \in Closed(c)
  BY <1>2, <1>5 DEF OneRun, PartOfOneRun, Answered, Typed
<1>9. PartOfOneRun(c)'
  BY <1>1, <1>7, <1>8 DEF PartOfOneRun
<1> QED BY <1>6, <1>9

\* Inside a wave the nodes only move from one place to the next.
LEMMA InsideWaveOneRun ==
  ASSUME Typed, OneRun, NEW c \in Calls, NEW n \in Nodes,
         CallTool(c, n) \/ CannotCall(c, n) \/ ToolReturns(c, n)
  PROVE  Placed(c)' /\ PartOfOneRun(c)'
<1>1. /\ workflow' = workflow /\ results' = results /\ pending' = pending
      /\ approved' = approved /\ pc' = pc
  BY DEF CallTool, CannotCall, ToolReturns
<1>2. pc[c] = "wave"
  BY DEF CallTool, CannotCall, ToolReturns, Admitted, OneRun, Placed, InWave
<1>3. /\ InWave(c)' = InWave(c)
      /\ (queued[c] \cap (running[c] \cup Answered(c)) = {})'
      /\ (running[c] \cap Answered(c) = {})'
  <2>1. CASE CallTool(c, n)
    BY <2>1 DEF CallTool, Admitted, Typed, OneRun, Placed, InWave, Answered
  <2>2. CASE CannotCall(c, n)
    BY <2>2 DEF CannotCall, Admitted, Typed, OneRun, Placed, InWave, Answered
  <2>3. CASE ToolReturns(c, n)
    BY <2>3 DEF ToolReturns, Typed, OneRun, Placed, InWave, Answered, Decided
  <2> QED BY <2>1, <2>2, <2>3
<1>4. Placed(c)'
  BY <1>1, <1>2, <1>3 DEF Placed, Active
<1>5. PartOfOneRun(c)'
  BY <1>1, <1>3 DEF PartOfOneRun, OneRun, Closed
<1> QED BY <1>4, <1>5

LEMMA LeaveOneRun ==
  ASSUME Typed, NEW c \in Calls, Leave(c)
  PROVE  Placed(c)' /\ PartOfOneRun(c)'
<1>1. /\ pc'[c] = "over" /\ results'[c] = Nothing /\ pending'[c] = {}
      /\ queued'[c] = {} /\ running'[c] = {} /\ outcome'[c] = Nothing
  BY DEF Leave, Typed
<1>2. InWave(c)' = {} /\ Answered(c)' = {} /\ Done(results[c])' = {}
  BY <1>1 DEF InWave, Answered, Done, Nothing, Decided
<1> QED BY <1>1, <1>2 DEF Placed, PartOfOneRun, Active

LEMMA OneRunStep == ASSUME Typed, RecordIsOneRun, OneRun, [Next]_vars PROVE OneRun'
<1>1. CASE UNCHANGED vars
  <2>1. \A d \in Calls : Same(d) /\ workflow' = workflow
    BY <1>1 DEF vars, call, Same
  <2> QED BY <2>1, SameKeeps DEF OneRun
<1>2. ASSUME NEW c \in Calls, Fresh(c) \/ Resume(c) \/ Step(c) \/ Lost(c)
      PROVE  OneRun'
  <2>1. \A d \in Calls \ {c} : Placed(d)' /\ PartOfOneRun(d)'
    BY <1>2, OneCallMoves, SameKeeps DEF OneRun
  <2>2. CASE Fresh(c)
    <3>1. PICK A \in SUBSET workflow.gated : Begin(c, Nothing, A)
      BY <2>2 DEF Fresh
    <3>2. Nothing \in Results /\ Done(Nothing) = {}
      BY DEF Nothing, Results, Done, Decided
    <3>3. A \in SUBSET Nodes /\ pc[c] = "new"
      BY <2>2, GatedNodes DEF Typed, Fresh
    <3> QED BY <2>1, <3>1, <3>2, <3>3, BeginOneRun DEF OneRun
  <2>3. CASE Resume(c)
    <3>1. PICK A \in SUBSET workflow.gated : Begin(c, record.results, record.approved \cup A)
      BY <2>3 DEF Resume
    <3>2. record \in Row /\ record # NoRecord /\ pc[c] = "new"
      BY <2>3 DEF Resume, Typed, NextCall
    <3>3. record.results \in Results /\ record.approved \cup A \in SUBSET Nodes
      BY <3>2, GatedNodes DEF Row, Results, Typed
    <3>4. \A n \in Done(record.results) :
            /\ Reachable(workflow, record.results, n)
            /\ n \notin workflow.gated \ (record.approved \cup A)
      BY <3>2 DEF RecordIsOneRun, Done
    <3> QED BY <2>1, <3>1, <3>2, <3>3, <3>4, BeginOneRun DEF OneRun
  <2>4. CASE Wave(c)
    BY <2>1, <2>4, WaveOneRun DEF OneRun
  <2>5. CASE WaveEnds(c)
    BY <2>1, <2>5, WaveEndsOneRun DEF OneRun
  <2>6. CASE Save(c) \/ Lost(c)
    BY <2>1, <2>6, LeaveOneRun DEF OneRun, Save, Lost
  <2>7. ASSUME NEW n \in Nodes, CallTool(c, n) \/ CannotCall(c, n) \/ ToolReturns(c, n)
        PROVE  OneRun'
    BY <2>1, <2>7, InsideWaveOneRun DEF OneRun
  <2> QED BY <1>2, <2>2, <2>3, <2>4, <2>5, <2>6, <2>7 DEF Step
<1> QED BY <1>1, <1>2 DEF Next

-----------------------------------------------------------------------------
(* The row is the outcome of one run.                                      *)

\* What save_run writes, in terms of what the call holds.
LEMMA SavedRow ==
  ASSUME Typed, OneRun, NEW c \in Calls, Save(c)
  PROVE  /\ record' \in Row /\ record' # NoRecord /\ workflow' = workflow
         /\ record'.approved = approved[c] /\ record'.pending = pending[c]
         /\ record'.results = [n \in Nodes |-> IF n \in Remaining(c) THEN "skipped"
                                               ELSE results[c][n]]
         /\ Done(record'.results) = Done(results[c])
         /\ \A m \in Done(results[c]) : record'.results[m] = results[c][m]
<1>1. record' \in Row
  BY StoredTyped, SettledHasStatus DEF Save
<1>2. /\ record'.approved = approved[c] /\ record'.pending = pending[c]
      /\ record'.results = [n \in Nodes |-> IF n \in Remaining(c) THEN "skipped"
                                            ELSE results[c][n]]
  BY DEF Save, Stored
<1>3. Done(record'.results) = Done(results[c])
  BY <1>2 DEF Done, Remaining, Decided
<1>4. \A m \in Done(results[c]) : record'.results[m] = results[c][m]
  BY <1>2 DEF Done, Remaining
<1> QED BY <1>1, <1>2, <1>3, <1>4, NoRecordIsNoRow DEF Save, Leave

LEMMA SaveRecord ==
  ASSUME Typed, OneRun, NEW c \in Calls, Save(c)
  PROVE  RecordIsOneRun'
<1> DEFINE r == results[c]
           s == record'.results
<1>1. \A n \in Nodes : s[n] = IF n \in Remaining(c) THEN "skipped" ELSE r[n]
  BY SavedRow
<1>2. \A n \in Nodes : Reachable(workflow, s, n) <=> Reachable(workflow, r, n)
  <2>1. r \in Results /\ s \in Results
    BY SavedRow DEF Typed, Row, Results
  <2> QED BY <2>1, SavedRow, ReachableByDecided DEF Typed
<1>3. \A n \in Remaining(c) : ~ Reachable(workflow, r, n)
  BY DEF Save, ReadyNodes
<1>4. ASSUME NEW n \in Nodes
      PROVE  /\ s[n] \in Decided <=> Reachable(workflow, r, n) /\ n \notin Closed(c)
             /\ s[n] = "awaiting_validation" <=> Reachable(workflow, r, n) /\ n \in Closed(c)
             /\ s[n] = "skipped" <=> ~ Reachable(workflow, r, n)
             /\ s[n] = "awaiting_validation" <=> n \in pending[c]
  <2>1. CASE n \in Remaining(c)
    BY <1>1, <1>3, <2>1 DEF Decided, Remaining
  <2>2. CASE n \in Done(r)
    BY <1>1, <2>2 DEF Remaining, OneRun, PartOfOneRun, Done, Decided
  <2>3. CASE n \in pending[c]
    BY <1>1, <2>3 DEF Remaining, OneRun, PartOfOneRun, Decided
  <2> QED BY <2>1, <2>2, <2>3 DEF Remaining
<1>5. record'.pending = {n \in Nodes : s[n] = "awaiting_validation"}
  BY <1>4, SavedRow DEF Typed
<1>6. \A n \in Nodes : n \in Closed(c) <=> n \in workflow'.gated \ record'.approved
  BY SavedRow DEF Closed
<1>7. workflow' = workflow
  BY SavedRow
<1>8. ASSUME NEW n \in Nodes
      PROVE  LET reached == Reachable(workflow', s, n)
                 closed == n \in workflow'.gated \ record'.approved
             IN /\ s[n] \in Decided <=> reached /\ ~ closed
                /\ s[n] = "awaiting_validation" <=> reached /\ closed
                /\ s[n] = "skipped" <=> ~ reached
  BY <1>2, <1>4, <1>6, <1>7
<1> QED BY <1>5, <1>8 DEF RecordIsOneRun

\* Only a save writes the row.
LEMMA OnlySaveWrites ==
  ASSUME NEW c \in Calls, Fresh(c) \/ Resume(c) \/ Step(c) \/ Lost(c), ~ Save(c)
  PROVE  record' = record /\ workflow' = workflow
BY DEF Fresh, Resume, Begin, Step, Lost, Leave, Wave, WaveEnds, CallTool, CannotCall,
       ToolReturns

LEMMA RecordStep ==
  ASSUME Typed, RecordIsOneRun, OneRun, [Next]_vars PROVE RecordIsOneRun'
<1>1. CASE record' = record /\ workflow' = workflow
  BY <1>1 DEF RecordIsOneRun
<1>2. ASSUME NEW c \in Calls, Save(c) PROVE RecordIsOneRun'
  BY <1>2, SaveRecord
<1> QED BY <1>1, <1>2, OnlySaveWrites DEF Next, vars

-----------------------------------------------------------------------------
(* Gates.                                                                  *)

\* Everything touched after a step was touched before, or is in the wave that
\* the step forms.
LEMMA TouchedGrows ==
  ASSUME Typed, OneRun, NEW c \in Calls, Fresh(c) \/ Resume(c) \/ Step(c) \/ Lost(c)
  PROVE  \/ Touched' \subseteq Touched
         \/ Wave(c) /\ Touched' \subseteq Touched \cup (ReadyNodes(c) \ Closed(c))
<1> DEFINE T(d) == Done(results[d]) \cup InWave(d)
<1>1. \A d \in Calls \ {c} : T(d)' = T(d)
  BY OneCallMoves DEF Same, InWave, Answered
<1>2. \A d \in Calls : T(d) \subseteq Touched
  BY DEF Touched, Done, InWave, Answered, Typed
<1>3. record # NoRecord => Done(record.results) \subseteq Touched
  BY DEF Touched, Done
<1>4. ASSUME NEW X,
             \A n \in Nodes : executions'[n] > 0 => executions[n] > 0 \/ n \in X,
             record' # NoRecord => Done(record'.results) \subseteq X,
             T(c)' \subseteq X, Touched \subseteq X
      PROVE  Touched' \subseteq X
  BY <1>1, <1>2, <1>4 DEF Touched
<1>5. CASE Fresh(c)
  <2>1. Done(Nothing) = {}
    BY DEF Done, Nothing, Decided
  <2>2. T(c)' \subseteq Touched
    BY <1>2, <1>5, <2>1 DEF Fresh, Begin, Typed, InWave, Answered
  <2> QED BY <1>3, <1>4, <1>5, <2>2 DEF Fresh, Begin
<1>6. CASE Resume(c)
  <2>1. T(c)' \subseteq Touched
    BY <1>2, <1>3, <1>6 DEF Resume, Begin, Typed, InWave, Answered
  <2> QED BY <1>3, <1>4, <1>6, <2>1 DEF Resume, Begin
<1>7. CASE Wave(c)
  <2>1. T(c)' \subseteq Touched \cup (ReadyNodes(c) \ Closed(c))
    <3>1. Done(results'[c]) \subseteq Done(results[c])
      BY <1>7 DEF Wave, Typed, Done, Decided
    <3>2. InWave(c)' \subseteq InWave(c) \cup (ReadyNodes(c) \ Closed(c))
      BY <1>7 DEF Wave, Typed, InWave, Answered, Closed
    <3> QED BY <1>2, <3>1, <3>2
  <2> QED BY <1>3, <1>4, <1>7, <2>1 DEF Wave, history
<1>8. CASE WaveEnds(c)
  <2>1. Done(results'[c]) \subseteq Done(results[c]) \cup Answered(c)
    BY <1>8 DEF WaveEnds, Typed, Done, Answered, Decided
  <2>2. InWave(c)' \subseteq InWave(c)
    BY <1>8 DEF WaveEnds, Typed, InWave, Answered, Nothing
  <2>3. T(c)' \subseteq Touched
    BY <1>2, <2>1, <2>2 DEF InWave
  <2> QED BY <1>3, <1>4, <1>8, <2>3 DEF WaveEnds, history
<1>9. CASE Save(c) \/ Lost(c)
  <2>1. Done(Nothing) = {} /\ \A n \in Nodes : Nothing[n] = "none"
    BY DEF Done, Nothing, Decided
  <2>2. T(c)' = {}
    BY <1>9, <2>1 DEF Save, Lost, Leave, Typed, InWave, Answered
  <2>3. record' # NoRecord => Done(record'.results) \subseteq Touched
    BY <1>2, <1>3, <1>9, SavedRow DEF Lost
  <2> QED BY <1>4, <1>9, <2>2, <2>3 DEF Save, Lost, Leave
<1>10. ASSUME NEW n \in Nodes, CallTool(c, n) \/ CannotCall(c, n) \/ ToolReturns(c, n)
       PROVE  Touched' \subseteq Touched
  <2>1. InWave(c)' \subseteq InWave(c) /\ results' = results /\ record' = record
    BY <1>10 DEF CallTool, CannotCall, ToolReturns, Admitted, Typed, InWave, Answered
  <2>2. n \in InWave(c)
    BY <1>10 DEF CallTool, CannotCall, ToolReturns, Admitted, InWave
  <2>3. \A m \in Nodes : executions'[m] > 0 => executions[m] > 0 \/ m \in InWave(c)
    BY <1>10, <2>2 DEF CallTool, CannotCall, ToolReturns, Typed, history
  <2> QED BY <1>2, <1>3, <1>4, <2>1, <2>3
<1> QED BY <1>5, <1>6, <1>7, <1>8, <1>9, <1>10 DEF Step

\* Approvals of calls and of the row are those humans gave.
LEMMA ApprovalsGranted ==
  ASSUME Typed, OneRun, GatesHold, InTurn, NEW c \in Calls,
         Fresh(c) \/ Resume(c) \/ Step(c) \/ Lost(c)
  PROVE  /\ granted \subseteq granted'
         /\ record' # NoRecord => record'.approved \subseteq granted'
         /\ \A d \in Calls : approved'[d] \subseteq granted'
<1>1. CASE Fresh(c)
  <2>1. granted = {} /\ record' = NoRecord
    BY <1>1 DEF Fresh, Begin, InTurn
  <2> QED BY <1>1, <2>1 DEF Fresh, Begin, Typed, GatesHold
<1>2. CASE Resume(c)
  BY <1>2 DEF Resume, Begin, Typed, GatesHold
<1>3. CASE Save(c)
  BY <1>3, SavedRow DEF Save, Leave, Typed, GatesHold
<1>4. CASE Lost(c)
  BY <1>4 DEF Lost, Leave, Typed, GatesHold
<1>5. CASE Wave(c) \/ WaveEnds(c)
  BY <1>5 DEF Wave, WaveEnds, GatesHold, history
<1>6. ASSUME NEW n \in Nodes, CallTool(c, n) \/ CannotCall(c, n) \/ ToolReturns(c, n)
      PROVE  /\ granted \subseteq granted'
             /\ record' # NoRecord => record'.approved \subseteq granted'
             /\ \A d \in Calls : approved'[d] \subseteq granted'
  BY <1>6 DEF CallTool, CannotCall, ToolReturns, GatesHold, history
<1> QED BY <1>1, <1>2, <1>3, <1>4, <1>5, <1>6 DEF Step

LEMMA GatesStep == ASSUME Typed, OneRun, GatesHold, InTurn, [Next]_vars PROVE GatesHold'
<1>1. CASE UNCHANGED vars
  <2>1. Touched' = Touched
    BY <1>1 DEF Touched, InWave, Answered, vars, call, history
  <2> QED BY <1>1, <2>1 DEF GatesHold, vars, call, history
<1>2. ASSUME NEW c \in Calls, Fresh(c) \/ Resume(c) \/ Step(c) \/ Lost(c)
      PROVE  GatesHold'
  <2>1. PICK S \in SUBSET Nodes :
          /\ Touched \subseteq S
          /\ \A n \in S : Predecessors(workflow, n) \subseteq S
          /\ S \cap workflow.gated \subseteq granted
    BY DEF GatesHold
  <2>2. workflow' = workflow
    BY <1>2, OneCallMoves
  <2>3. CASE Touched' \subseteq Touched
    BY <1>2, <2>1, <2>2, <2>3, ApprovalsGranted DEF GatesHold
  <2>4. CASE Wave(c) /\ Touched' \subseteq Touched \cup (ReadyNodes(c) \ Closed(c))
    <3> DEFINE S2 == S \cup (ReadyNodes(c) \ Closed(c))
    <3>1. S2 \in SUBSET Nodes
      BY DEF ReadyNodes, Remaining
    <3>2. ASSUME NEW n \in ReadyNodes(c) PROVE Predecessors(workflow, n) \subseteq S
      <4>1. Predecessors(workflow, n) \subseteq Done(results[c])
        BY ReachedFromDone DEF ReadyNodes, Remaining, Typed
      <4>2. Done(results[c]) \subseteq Touched
        BY DEF Touched, Done
      <4> QED BY <2>1, <4>1, <4>2
    <3>3. S2 \cap workflow.gated \subseteq granted
      BY <2>1 DEF Closed, GatesHold
    <3>4. \A n \in S2 : Predecessors(workflow, n) \subseteq S2
      BY <2>1, <3>2
    <3>5. Touched' \subseteq S2
      BY <2>1, <2>4
    <3> QED BY <1>2, <2>2, <3>1, <3>3, <3>4, <3>5, ApprovalsGranted DEF GatesHold
  <2> QED BY <1>2, <2>3, <2>4, TouchedGrows
<1> QED BY <1>1, <1>2 DEF Next

-----------------------------------------------------------------------------
(* Calls that follow each other.                                           *)

\* Which calls are active, before and after a step.
LEMMA ActiveMoves ==
  ASSUME Typed, OneRun, NEW c \in Calls, Fresh(c) \/ Resume(c) \/ Step(c) \/ Lost(c)
  PROVE  /\ \A d \in Calls \ {c} : Active(d)' <=> Active(d)
         /\ Step(c) => Active(c)
         /\ Save(c) \/ Lost(c) => Active(c) /\ ~ Active(c)'
         /\ pc'[c] # "new"
<1>1. \A d \in Calls \ {c} : Active(d)' <=> Active(d)
  BY OneCallMoves DEF Same, Active
<1>2. Step(c) => pc[c] \in {"loop", "wave"}
  BY DEF Step, Wave, WaveEnds, Save, CallTool, CannotCall, ToolReturns, Admitted,
         OneRun, Placed, InWave
<1>3. Save(c) \/ Lost(c) => pc[c] \in {"loop", "wave"} /\ pc'[c] = "over"
  BY DEF Save, Lost, Leave, Typed, Active
<1>4. pc'[c] # "new"
  <2>1. CASE Fresh(c) \/ Resume(c)
    BY <2>1 DEF Fresh, Resume, Begin, Typed
  <2>2. CASE Lost(c)
    BY <1>3, <2>2
  <2>3. CASE Step(c)
    BY <1>2, <2>3 DEF Step, Wave, WaveEnds, Save, Leave, CallTool, CannotCall,
       ToolReturns, Typed
  <2> QED BY <2>1, <2>2, <2>3
<1> QED BY <1>1, <1>2, <1>3, <1>4 DEF Active

\* A resumption, or a step of any call, happens only after the first call began.
LEMMA FirstComesFirst ==
  ASSUME Typed, InTurn, OneRun, NEW c \in Calls, Fresh(c) \/ Resume(c) \/ Step(c) \/ Lost(c)
  PROVE  1 \in Calls => pc'[1] # "new"
<1> SUFFICES ASSUME 1 \in Calls PROVE pc'[1] # "new"
  OBVIOUS
<1>1. CASE c = 1
  BY <1>1, ActiveMoves
<1>2. CASE c # 1
  <2>1. pc[1] # "new"
    <3>1. CASE Resume(c)
      BY <3>1 DEF Resume, InTurn
    <3>2. CASE Step(c) \/ Lost(c)
      BY <3>2, ActiveMoves DEF Lost, InTurn, Active
    <3> QED BY <1>2, <3>1, <3>2 DEF Fresh
  <2>2. pc'[1] = pc[1]
    BY <1>2, OneCallMoves DEF Same
  <2> QED BY <2>1, <2>2
<1> QED BY <1>1, <1>2

\* As long as no two calls overlapped, a call that begins is alone.
LEMMA BeginsAlone ==
  ASSUME Typed, OneRun, NEW c \in Calls, NEW r, NEW A, Begin(c, r, A), ~ overlapped'
  PROVE  \A d \in Calls : ~ Active(d) /\ (Active(d)' => d = c)
<1>1. \A d \in Calls : ~ Active(d)
  BY DEF Begin, Typed
<1>2. \A d \in Calls \ {c} : pc'[d] = pc[d]
  BY DEF Begin, Typed
<1> QED BY <1>1, <1>2 DEF Active

\* The second half of InTurn.
Follows ==
  ~ overlapped =>
       /\ \A c, d \in Calls : Active(c) /\ Active(d) => c = d
       /\ record # NoRecord => \A c \in Calls : Active(c) =>
            /\ record.approved \subseteq approved[c]
            /\ \A n \in Done(record.results) : results[c][n] = record.results[n]

LEMMA FollowsStep ==
  ASSUME Typed, OneRun, InTurn, NEW c \in Calls, Fresh(c) \/ Resume(c) \/ Step(c) \/ Lost(c)
  PROVE  Follows'
<1> SUFFICES ASSUME ~ overlapped' PROVE Follows'
  BY DEF Follows
<1>0. Follows
  BY DEF InTurn, Follows
<1>1. CASE Fresh(c)
  <2>1. PICK A \in SUBSET workflow.gated : Begin(c, Nothing, A)
    BY <1>1 DEF Fresh
  <2>2. record' = NoRecord
    BY <1>1, <2>1 DEF Fresh, Begin, InTurn
  <2> QED BY <2>1, <2>2, BeginsAlone DEF Follows
<1>2. CASE Resume(c)
  <2>1. PICK A \in SUBSET workflow.gated : Begin(c, record.results, record.approved \cup A)
    BY <1>2 DEF Resume
  <2>2. /\ results'[c] = record.results /\ approved'[c] = record.approved \cup A
        /\ record' = record
    BY <2>1 DEF Begin, Typed
  <2> QED BY <2>1, <2>2, BeginsAlone DEF Follows
<1>3. CASE Step(c) \/ Lost(c)
  <2>1. Active(c) /\ overlapped' = overlapped
    BY <1>3, ActiveMoves DEF Step, Lost, Leave, Wave, WaveEnds, Save, CallTool, CannotCall,
       ToolReturns, history
  <2>2. \A d \in Calls : Active(d)' => d = c
    BY <1>0, <1>3, <2>1, ActiveMoves DEF Follows
  <2>3. CASE Save(c) \/ Lost(c)
    BY <2>2, <2>3, ActiveMoves DEF Follows
  <2>4. CASE Step(c) /\ ~ Save(c)
    <3>1. record' = record /\ approved'[c] = approved[c]
      BY <2>4, OnlySaveWrites DEF Step, Wave, WaveEnds, CallTool, CannotCall, ToolReturns
    <3>2. \A n \in Done(results[c]) : results'[c][n] = results[c][n]
      <4>1. CASE Wave(c)
        BY <4>1 DEF Wave, Typed, ReadyNodes, Remaining, Done
      <4>2. CASE WaveEnds(c)
        BY <4>2 DEF WaveEnds, Typed, OneRun, PartOfOneRun, InWave, Answered, Done
      <4> QED BY <2>4, <4>1, <4>2 DEF Step, CallTool, CannotCall, ToolReturns
    <3>3. record # NoRecord => \A n \in Done(record.results) : n \in Done(results[c])
      BY <1>0, <2>1 DEF Follows, Done
    <3> QED BY <1>0, <2>1, <2>2, <3>1, <3>2, <3>3 DEF Follows
  <2> QED BY <1>3, <2>3, <2>4
<1> QED BY <1>1, <1>2, <1>3

LEMMA InTurnStep == ASSUME Typed, OneRun, InTurn, [Next]_vars PROVE InTurn'
<1>1. CASE UNCHANGED vars
  <2>1. \A c \in Calls : Active(c)' <=> Active(c)
    BY <1>1 DEF Active, vars, call
  <2> QED BY <1>1, <2>1 DEF InTurn, vars, call, history
<1>2. ASSUME NEW c \in Calls, Fresh(c) \/ Resume(c) \/ Step(c) \/ Lost(c) PROVE InTurn'
  BY <1>2, FollowsStep, FirstComesFirst DEF InTurn, Follows
<1> QED BY <1>1, <1>2 DEF Next

LEMMA AccountedStep ==
  ASSUME Typed, OneRun, InTurn, Accounted, [Next]_vars PROVE Accounted'
<1>1. CASE UNCHANGED vars
  <2>1. \A c \in Calls : (Active(c)' <=> Active(c)) /\ Answered(c)' = Answered(c)
    BY <1>1 DEF Active, Answered, vars, call
  <2> QED BY <1>1, <2>1 DEF Accounted, vars, call, history
<1>2. ASSUME NEW c \in Calls, Fresh(c) \/ Resume(c) \/ Step(c) \/ Lost(c),
             ~ overlapped', ~ lost'
      PROVE  Accounted'
  <2>0. ~ overlapped /\ ~ lost
    BY <1>2 DEF Typed, Fresh, Resume, Begin, Step, Lost, Leave, Wave, WaveEnds, Save, CallTool,
       CannotCall, ToolReturns, history
  <2>1. /\ \A n \in Nodes : executions[n] <= 1
        /\ \A d \in Calls : Active(d) => \A n \in Nodes :
             executions[n] > 0 => n \in Done(results[d]) \cup running[d] \cup Answered(d)
        /\ (\A d \in Calls : ~ Active(d)) => \A n \in Nodes :
             executions[n] > 0 => record # NoRecord /\ n \in Done(record.results)
    BY <2>0 DEF Accounted
  <2>2. CASE Fresh(c)
    <3>1. executions' = executions /\ \A n \in Nodes : executions[n] = 0
      BY <2>2 DEF Fresh, Begin, InTurn
    <3> QED BY <3>1 DEF Accounted
  <2>3. CASE Resume(c)
    <3>1. PICK A \in SUBSET workflow.gated : Begin(c, record.results, record.approved \cup A)
      BY <2>3 DEF Resume
    <3>2. results'[c] = record.results /\ executions' = executions
      BY <3>1 DEF Begin, Typed
    <3>3. \A d \in Calls : ~ Active(d) /\ (Active(d)' => d = c)
      BY <1>2, <3>1, BeginsAlone
    <3>4. Active(c)'
      BY <3>1 DEF Begin, Typed, Active
    <3> QED BY <2>1, <3>2, <3>3, <3>4 DEF Accounted
  <2>4. CASE Lost(c)
    BY <1>2, <2>4 DEF Lost
  <2>5. CASE Step(c)
    <3>1. Active(c) /\ \A d \in Calls : Active(d)' => d = c
      BY <2>0, <2>5, ActiveMoves DEF InTurn
    <3>2. CASE Save(c)
      <4>1. executions' = executions
        BY <3>2 DEF Save, Leave
      <4>2. running[c] = {} /\ Answered(c) = {}
        BY <3>2 DEF Save, OneRun, Placed, InWave
      <4>3. ~ Active(c)'
        BY <2>5, <3>2, ActiveMoves
      <4> QED BY <2>1, <3>1, <3>2, <4>1, <4>2, <4>3, SavedRow DEF Accounted
    <3>3. CASE Wave(c)
      <4>1. /\ executions' = executions /\ running' = running /\ Answered(c)' = Answered(c)
            /\ Done(results[c]) \subseteq Done(results'[c]) /\ Active(c)'
        BY <3>3 DEF Wave, Typed, ReadyNodes, Remaining, Done, Answered, Active, history
      <4> QED BY <2>1, <3>1, <4>1 DEF Accounted
    <3>4. CASE WaveEnds(c)
      <4>1. /\ executions' = executions /\ running[c] = {} /\ Active(c)'
            /\ Done(results[c]) \cup Answered(c) \subseteq Done(results'[c])
        BY <3>4 DEF WaveEnds, Typed, Done, Answered, Active, history, Decided
      <4> QED BY <2>1, <3>1, <4>1 DEF Accounted
    <3>5. ASSUME NEW n \in Nodes, CallTool(c, n) PROVE Accounted'
      <4>1. n \in queued[c] /\ results' = results /\ Answered(c)' = Answered(c) /\ Active(c)'
        BY <3>5 DEF CallTool, Admitted, Answered, Active
      <4>2. n \notin Done(results[c]) \cup running[c] \cup Answered(c)
        BY <4>1 DEF OneRun, PartOfOneRun, Placed, InWave
      <4>3. executions[n] = 0
        BY <2>1, <3>1, <4>2 DEF Typed
      <4>4. /\ running'[c] = running[c] \cup {n}
            /\ executions' = [executions EXCEPT ![n] = @ + 1]
        BY <3>5 DEF CallTool, Typed
      <4>5. \A m \in Nodes : executions'[m] <= 1
        BY <2>1, <4>3, <4>4 DEF Typed
      <4>6. \A m \in Nodes : executions'[m] > 0 =>
              m \in (Done(results[c]) \cup running[c] \cup Answered(c))'
        BY <2>1, <3>1, <4>1, <4>4 DEF Typed
      <4> QED BY <3>1, <4>1, <4>5, <4>6 DEF Accounted
    <3>6. ASSUME NEW n \in Nodes, CannotCall(c, n) \/ ToolReturns(c, n) PROVE Accounted'
      <4>1. /\ executions' = executions /\ results' = results
            /\ running[c] \cup Answered(c) \subseteq running'[c] \cup Answered(c)'
        BY <3>6 DEF CannotCall, ToolReturns, Admitted, Answered, Typed, history, Decided
      <4>2. Active(c)'
        BY <3>1, <3>6 DEF CannotCall, ToolReturns, Active
      <4> QED BY <2>1, <3>1, <4>1, <4>2 DEF Accounted
    <3> QED BY <2>5, <3>2, <3>3, <3>4, <3>5, <3>6 DEF Step
  <2> QED BY <1>2, <2>2, <2>3, <2>4, <2>5
<1> QED BY <1>1, <1>2 DEF Next, Accounted

-----------------------------------------------------------------------------
(* The waves of a call that starts a run.                                  *)

\* A call that starts a run takes one structural wave after the other: after k
\* of them, what it has decided, noted or under way lies in the first k, what
\* it passed over there cannot be reached any more, and its wave is the k-th.
\* No structural wave it took was empty, so that they are at most the nodes.
Taken == Done(results[1]) \cup pending[1] \cup InWave(1)

StagedAt(k) ==
  /\ Cardinality(StructuralDone(workflow)[k]) >= k
  /\ Taken \subseteq StructuralDone(workflow)[k]
  /\ \A n \in StructuralDone(workflow)[k] \ Taken : ~ Reachable(workflow, results[1], n)
  /\ InWave(1) # {} => k > 0 /\ InWave(1) \cap StructuralDone(workflow)[k-1] = {}

Staged == \E k \in 0..Cardinality(Nodes) : StagedAt(k)

\* Every nonempty set of numbers has a least member.
LEMMA LeastNumber ==
  ASSUME NEW T \in SUBSET Nat, T # {}
  PROVE  \E x \in T : \A y \in T : x <= y
<1>1. IsWellFoundedOn(OpToRel(<, Nat), Nat)
  BY NatLessThanWellFounded
<1>2. PICK x \in T : \A y \in T : ~ (<<y, x>> \in OpToRel(<, Nat))
  BY <1>1, WFMin
<1>3. \A y \in T : ~ (y < x)
  BY <1>2 DEF OpToRel
<1> QED BY <1>3

\* Induction, for a property given as the set of numbers that have it.
LEMMA InductionSet ==
  ASSUME NEW S \in SUBSET Nat, 0 \in S, \A k \in S : k + 1 \in S
  PROVE  S = Nat
<1> SUFFICES ASSUME Nat \ S # {} PROVE FALSE
  OBVIOUS
<1>1. PICK x \in Nat \ S : \A y \in Nat \ S : x <= y
  BY LeastNumber
<1>2. x - 1 \in Nat /\ ~ (x <= x - 1)
  BY <1>1
<1>3. x - 1 \in S
  BY <1>1, <1>2
<1>4. (x - 1) + 1 = x
  BY <1>1
<1> QED BY <1>1, <1>3, <1>4

\* What a structural wave adds to the earlier ones.
Ahead(w, B) == B \cup {n \in Nodes : Predecessors(w, n) \subseteq B}

\* The recursion of StructuralDone, for as many waves as one likes.
WaveRun(w, k, f) == f = [i \in 0..k |-> IF i = 0 THEN {} ELSE Ahead(w, f[i-1])]

\* It has a run of any length.
LEMMA WaveRunExists ==
  ASSUME NEW w, NEW n \in Nat
  PROVE  \E f : WaveRun(w, n, f)
<1> DEFINE S == {k \in Nat : \E f : WaveRun(w, k, f)}
<1>1. 0 \in S
  <2> DEFINE f == [i \in 0..0 |-> {}]
  <2>1. WaveRun(w, 0, f)
    BY DEF WaveRun
  <2> QED BY <2>1
<1>2. ASSUME NEW k \in S PROVE k + 1 \in S
  <2>1. PICK f : WaveRun(w, k, f)
    OBVIOUS
  <2>2. f = [i \in 0..k |-> IF i = 0 THEN {} ELSE Ahead(w, f[i-1])]
    BY <2>1 DEF WaveRun
  <2> DEFINE h == [i \in 0..(k+1) |-> IF i = k + 1 THEN Ahead(w, f[k]) ELSE f[i]]
  <2>3. \A i \in 0..k : h[i] = f[i]
    OBVIOUS
  <2>4. \A i \in 0..(k+1) : h[i] = IF i = 0 THEN {} ELSE Ahead(w, h[i-1])
    <3> TAKE i \in 0..(k+1)
    <3>1. CASE i = k + 1
      <4>1. h[i] = Ahead(w, f[k]) /\ i - 1 = k /\ i # 0 /\ h[k] = f[k]
        BY <2>3, <3>1
      <4> QED BY <4>1
    <3>2. CASE i = 0
      BY <2>2, <2>3, <3>2
    <3>3. CASE i \in 1..k
      <4>1. i \in 0..k /\ i - 1 \in 0..k /\ i # 0
        BY <3>3
      <4>2. h[i] = f[i] /\ h[i-1] = f[i-1]
        BY <2>3, <4>1
      <4> QED BY <2>2, <4>1, <4>2
    <3> QED BY <3>1, <3>2, <3>3
  <2>5. h = [i \in 0..(k+1) |-> IF i = 0 THEN {} ELSE Ahead(w, h[i-1])]
    BY <2>4
  <2>6. WaveRun(w, k + 1, h)
    BY <2>5 DEF WaveRun
  <2> QED BY <2>6
<1>3. S = Nat
  BY <1>1, <1>2, InductionSet
<1> QED BY <1>3

\* StructuralDone follows its recursion, stays within the nodes, and holds the
\* predecessors of what its next wave adds.
LEMMA StructuralLaw ==
  ASSUME NEW w, NEW N \in Nat, N = Cardinality(Nodes), NEW B, B = StructuralDone(w)
  PROVE  /\ B[0] = {}
         /\ \A k \in 0..N : B[k] \subseteq Nodes
         /\ \A k \in 1..N : B[k] = Ahead(w, B[k-1])
         /\ \A k \in 1..N : \A n \in B[k] : Predecessors(w, n) \subseteq B[k-1]
<1>1. WaveRun(w, N, B)
  <2>1. \E f : WaveRun(w, N, f)
    BY WaveRunExists
  <2> DEFINE g == CHOOSE f : WaveRun(w, N, f)
  <2>2. WaveRun(w, N, g)
    BY <2>1
  <2>3. B = g
    BY DEF StructuralDone, WaveRun, Ahead
  <2> QED BY <2>2, <2>3
<1>2. B[0] = {} /\ \A k \in 1..N : B[k] = Ahead(w, B[k-1])
  <2>1. \A k \in 0..N : B[k] = IF k = 0 THEN {} ELSE Ahead(w, B[k-1])
    BY <1>1 DEF WaveRun
  <2> QED BY <2>1
<1> DEFINE S == {k \in Nat : k <= N => B[k] \subseteq Nodes}
           T == {k \in Nat : k < N => \A n \in B[k+1] : Predecessors(w, n) \subseteq B[k]}
<1>3. \A k \in Nat : k < N => B[k+1] = Ahead(w, B[k])
  <2> TAKE k \in Nat
  <2> HAVE k < N
  <2>1. k + 1 \in 1..N /\ (k + 1) - 1 = k
    OBVIOUS
  <2> QED BY <1>2, <2>1
<1>4. S = Nat
  <2>1. 0 \in S
    BY <1>2
  <2>2. ASSUME NEW k \in S PROVE k + 1 \in S
    BY <1>3 DEF Ahead
  <2> QED BY <2>1, <2>2, InductionSet
<1>5. T = Nat
  <2>1. 0 \in T
    BY <1>2, <1>3 DEF Ahead
  <2>2. ASSUME NEW k \in T PROVE k + 1 \in T
    <3> SUFFICES ASSUME k + 1 < N, NEW n \in B[(k + 1) + 1] PROVE Predecessors(w, n) \subseteq B[k+1]
      OBVIOUS
    <3>1. B[(k + 1) + 1] = Ahead(w, B[k+1]) /\ B[k+1] = Ahead(w, B[k]) /\ k < N
      BY <1>3
    <3>2. CASE n \in B[k+1]
      BY <3>1, <3>2 DEF Ahead
    <3>3. CASE Predecessors(w, n) \subseteq B[k+1]
      BY <3>3
    <3> QED BY <3>1, <3>2, <3>3 DEF Ahead
  <2> QED BY <2>1, <2>2, InductionSet
<1>6. ASSUME NEW k \in 1..N, NEW n \in B[k] PROVE Predecessors(w, n) \subseteq B[k-1]
  <2>1. k - 1 \in T /\ (k - 1) + 1 = k /\ k - 1 < N
    BY <1>5
  <2> QED BY <2>1
<1>7. \A k \in 0..N : B[k] \subseteq Nodes
  BY <1>4
<1> QED BY <1>2, <1>6, <1>7

\* The nodes are counted by a number.
LEMMA NodeCount == Cardinality(Nodes) \in Nat /\ 1 \in Calls
BY FiniteAssumption, FS_CardinalityType DEF Calls

\* A step that leaves the first call's view alone.
LEMMA StagedSame ==
  ASSUME Staged, workflow' = workflow, results'[1] = results[1], pending'[1] = pending[1],
         InWave(1)' = InWave(1)
  PROVE  Staged'
<1>1. PICK k \in 0..Cardinality(Nodes) : StagedAt(k)
  BY DEF Staged
<1>2. Taken' = Taken
  BY DEF Taken
<1>3. StagedAt(k)'
  BY <1>1, <1>2 DEF StagedAt
<1> QED BY <1>3 DEF Staged

\* A call that holds nothing is before the first wave.
LEMMA StagedNothing ==
  ASSUME Done(results'[1]) = {}, pending'[1] = {}, InWave(1)' = {}
  PROVE  Staged'
<1>1. Taken' = {}
  BY DEF Taken
<1>2. StructuralDone(workflow')[0] = {}
  BY NodeCount, StructuralLaw
<1>3. 0 \in 0..Cardinality(Nodes) /\ Cardinality({}) = 0
  BY NodeCount, FS_EmptySet
<1>4. StagedAt(0)'
  BY <1>1, <1>2, <1>3 DEF StagedAt
<1> QED BY <1>3, <1>4 DEF Staged

\* The loop takes the next structural wave: what is ready was not ready before
\* the last wave ended, and its predecessors lie in the waves taken so far.
LEMMA StagedWave ==
  ASSUME Typed, OneRun, Staged, Wave(1)
  PROVE  Staged'
<1> DEFINE N == Cardinality(Nodes)
           B == StructuralDone(workflow)
           R == ReadyNodes(1)
           closed == (R \cap workflow.gated) \ approved[1]
           r == [n \in Nodes |-> IF n \in closed THEN "awaiting_validation" ELSE results[1][n]]
<1>1. PICK k \in 0..N : StagedAt(k)
  BY DEF Staged
<1>2. N \in Nat /\ 1 \in Calls /\ k \in Nat
  BY NodeCount
<1>3. /\ InWave(1) = {} /\ running[1] = {} /\ Answered(1) = {} /\ queued[1] = {}
  BY <1>2 DEF OneRun, Placed, Wave, InWave
<1>4. /\ results'[1] = r /\ r \in Results /\ pending'[1] = pending[1] \cup closed
      /\ queued'[1] = R \ closed /\ running'[1] = {} /\ Answered(1)' = {}
      /\ workflow' = workflow /\ R # {}
  BY <1>2, <1>3 DEF Wave, Typed, Results, Statuses, Answered
<1>5. InWave(1)' = R \ closed
  BY <1>4 DEF InWave
<1>6. R \subseteq Nodes \ (Done(results[1]) \cup pending[1])
  BY DEF ReadyNodes, Remaining
<1>7. Done(r) = Done(results[1]) /\ \A m \in Done(r) : r[m] = results[1][m]
  BY <1>6 DEF Done, Decided
<1>8. \A n \in Nodes : Reachable(workflow, r, n) <=> Reachable(workflow, results[1], n)
  BY <1>2, <1>4, <1>7, ReachableByDecided DEF Typed, Results
<1>9. Taken = Done(results[1]) \cup pending[1]
  BY <1>3 DEF Taken
<1>10. Taken' = Taken \cup R
  BY <1>4, <1>5, <1>7, <1>9 DEF Taken
<1>11. R \cap B[k] = {}
  <2>1. \A n \in R : Reachable(workflow, results[1], n) /\ n \notin Taken
    BY <1>6, <1>9 DEF ReadyNodes
  <2> QED BY <1>1, <2>1 DEF StagedAt
<1>12. \A n \in R : Predecessors(workflow, n) \subseteq B[k]
  <2>1. \A n \in R : Predecessors(workflow, n) \subseteq Done(results[1])
    BY <1>6, ReachedFromDone DEF ReadyNodes, Typed
  <2> QED BY <1>1, <1>9, <2>1 DEF StagedAt
<1>13. /\ \A i \in 0..N : B[i] \subseteq Nodes
       /\ \A i \in 1..N : B[i] = Ahead(workflow, B[i-1])
  BY <1>2, StructuralLaw
<1>14. IsFiniteSet(Nodes) /\ Cardinality(B[k]) >= k /\ Taken \subseteq B[k]
  BY <1>1, FiniteAssumption DEF StagedAt
<1> HIDE DEF N, B, R, closed, r
<1>15. k + 1 \in 1..N /\ (k + 1) - 1 = k
  <2>1. ASSUME k = N PROVE FALSE
    <3>1. Cardinality(B[k]) <= N /\ (Cardinality(B[k]) = N => B[k] = Nodes) /\ Cardinality(B[k]) \in Nat
      BY <1>13, <1>14, FS_Subset, FS_CardinalityType DEF N
    <3>2. B[k] = Nodes
      BY <1>2, <1>14, <2>1, <3>1
    <3> QED BY <1>4, <1>6, <1>11, <3>2
  <2> QED BY <1>2, <2>1
<1>16. B[k+1] = Ahead(workflow, B[k]) /\ B[k+1] \subseteq Nodes /\ k + 1 \in 0..N
  BY <1>2, <1>13, <1>15
<1>17. B[k] \cup R \subseteq B[k+1]
  BY <1>6, <1>12, <1>16 DEF Ahead
<1>18. Cardinality(B[k+1]) >= k + 1
  <2>1. IsFiniteSet(B[k+1]) /\ B[k] \subseteq B[k+1] /\ B[k] # B[k+1]
    BY <1>4, <1>11, <1>14, <1>16, <1>17, FS_Subset
  <2>2. /\ Cardinality(B[k]) \in Nat /\ Cardinality(B[k+1]) \in Nat
        /\ Cardinality(B[k]) <= Cardinality(B[k+1]) /\ Cardinality(B[k]) # Cardinality(B[k+1])
    BY <2>1, FS_Subset, FS_CardinalityType
  <2> QED BY <1>2, <1>14, <2>2
<1>19. ASSUME NEW n \in B[k+1] \ Taken' PROVE ~ Reachable(workflow, r, n)
  <2>1. n \in Nodes /\ n \notin R /\ n \notin Done(results[1]) \cup pending[1]
    BY <1>9, <1>10, <1>16
  <2>2. ~ Reachable(workflow, results[1], n)
    BY <2>1 DEF R, ReadyNodes, Remaining
  <2> QED BY <1>8, <2>1, <2>2
<1>20. InWave(1)' \cap B[k] = {}
  BY <1>5, <1>11
<1>21. Taken' \subseteq B[k+1]
  BY <1>10, <1>14, <1>17
<1>22. B = StructuralDone(workflow')
  BY <1>4 DEF B
<1>23. StagedAt(k + 1)'
  BY <1>4, <1>15, <1>18, <1>19, <1>20, <1>21, <1>22, <1>2 DEF StagedAt
<1> QED BY <1>16, <1>23 DEF Staged, N

\* gather returns: what the wave decided changes nothing for the nodes passed
\* over, whose predecessors lie in earlier waves.
LEMMA StagedWaveEnds ==
  ASSUME Typed, OneRun, Staged, WaveEnds(1)
  PROVE  Staged'
<1> DEFINE N == Cardinality(Nodes)
           B == StructuralDone(workflow)
           r == [n \in Nodes |-> IF outcome[1][n] # "none" THEN outcome[1][n]
                                 ELSE results[1][n]]
<1>1. PICK k \in 0..N : StagedAt(k)
  BY DEF Staged
<1>2. N \in Nat /\ 1 \in Calls /\ k \in Nat
  BY NodeCount
<1>3. /\ results'[1] = r /\ pending'[1] = pending[1] /\ InWave(1)' = {}
      /\ workflow' = workflow /\ InWave(1) = Answered(1)
  BY <1>2 DEF WaveEnds, Typed, InWave, Answered, Nothing
<1>4. Answered(1) \cap (Done(results[1]) \cup pending[1]) = {}
  BY <1>2 DEF OneRun, PartOfOneRun, InWave
<1>5. Done(r) = Done(results[1]) \cup Answered(1)
  BY <1>2, <1>4 DEF Done, Answered, Typed, Decided
<1>6. \A m \in Done(results[1]) : r[m] = results[1][m]
  BY <1>4 DEF Answered, Done
<1>7. Taken' = Taken
  BY <1>3, <1>5 DEF Taken
<1>8. workflow \in Workflows /\ B[0] = {} /\ \A i \in 0..N : B[i] \subseteq Nodes
  BY <1>2, StructuralLaw DEF Typed
<1>9. \A i \in 1..N : \A n \in B[i] : Predecessors(workflow, n) \subseteq B[i-1]
  BY <1>2, StructuralLaw
<1> HIDE DEF N, B, r
<1>10. ASSUME NEW n \in B[k] \ Taken, Reachable(workflow, r, n) PROVE FALSE
  <2>1. k \in 1..N /\ n \in Nodes
    BY <1>2, <1>8, <1>10
  <2>2. Predecessors(workflow, n) \subseteq Done(r) \cap B[k-1]
    BY <1>8, <1>9, <1>10, <2>1, ReachedFromDone
  <2>3. InWave(1) \cap B[k-1] = {}
    BY <1>1 DEF StagedAt, B
  <2>4. Predecessors(workflow, n) \subseteq Done(results[1])
    BY <1>3, <1>5, <2>2, <2>3
  <2>5. \A e \in Incoming(workflow, n) : EdgeSatisfied(e, r) => EdgeSatisfied(e, results[1])
    <3>1. \A e \in Incoming(workflow, n) : e[1] \in Done(results[1])
      BY <2>4 DEF Predecessors
    <3> QED BY <1>6, <3>1 DEF EdgeSatisfied
  <2>6. Reachable(workflow, results[1], n)
    BY <1>10, <2>4, <2>5 DEF Reachable
  <2> QED BY <1>1, <1>10, <2>6 DEF StagedAt, B
<1>11. StagedAt(k)'
  BY <1>1, <1>3, <1>7, <1>10 DEF StagedAt, B
<1> QED BY <1>1, <1>11 DEF Staged, N

\* Every step keeps the first call on the structural waves.
LEMMA StagedStep == ASSUME Typed, OneRun, InTurn, Staged, [Next]_vars PROVE Staged'
<1>0. 1 \in Calls /\ Done(Nothing) = {}
  BY NodeCount DEF Done, Nothing, Decided
<1>1. CASE UNCHANGED vars
  BY <1>1, StagedSame DEF vars, call, InWave, Answered
<1>2. ASSUME NEW c \in Calls, c # 1, Fresh(c) \/ Resume(c) \/ Step(c) \/ Lost(c) PROVE Staged'
  <2>1. workflow' = workflow /\ Same(1)
    BY <1>0, <1>2, OneCallMoves
  <2>2. InWave(1)' = InWave(1)
    BY <2>1 DEF Same, InWave, Answered
  <2> QED BY <2>1, <2>2, StagedSame DEF Same
<1>3. CASE Fresh(1)
  <2>1. InWave(1) = {} /\ pending[1] = {}
    BY <1>0, <1>3 DEF Fresh, OneRun, Placed, Active
  <2>2. results'[1] = Nothing /\ pending'[1] = {} /\ InWave(1)' = {}
    BY <1>0, <1>3, <2>1 DEF Fresh, Begin, Typed, InWave, Answered
  <2> QED BY <1>0, <2>2, StagedNothing
<1>4. CASE Resume(1)
  BY <1>0, <1>4 DEF Resume, NextCall, InTurn
<1>5. CASE Save(1) \/ Lost(1)
  <2>1. results'[1] = Nothing /\ pending'[1] = {} /\ InWave(1)' = {}
    BY <1>0, <1>5 DEF Save, Lost, Leave, Typed, InWave, Answered, Nothing
  <2> QED BY <1>0, <2>1, StagedNothing
<1>6. ASSUME NEW n \in Nodes, CallTool(1, n) \/ CannotCall(1, n) \/ ToolReturns(1, n)
      PROVE  Staged'
  <2>1. workflow' = workflow /\ results' = results /\ pending' = pending
    BY <1>6 DEF CallTool, CannotCall, ToolReturns
  <2>2. InWave(1)' = InWave(1)
    <3>1. CASE CallTool(1, n)
      BY <1>0, <3>1 DEF CallTool, Admitted, Typed, InWave, Answered
    <3>2. CASE CannotCall(1, n)
      <4>1. n \in queued[1] /\ queued'[1] = queued[1] \ {n} /\ running' = running
        BY <1>0, <3>2 DEF CannotCall, Admitted, Typed
      <4>2. Answered(1)' = Answered(1) \cup {n}
        BY <1>0, <3>2 DEF CannotCall, Typed, Answered
      <4> QED BY <4>1, <4>2 DEF InWave
    <3>3. CASE ToolReturns(1, n)
      <4>1. n \in running[1] /\ running'[1] = running[1] \ {n} /\ queued' = queued
        BY <1>0, <3>3 DEF ToolReturns, Typed
      <4>2. Answered(1)' = Answered(1) \cup {n}
        BY <1>0, <3>3 DEF ToolReturns, Typed, Answered, Decided
      <4> QED BY <4>1, <4>2 DEF InWave
    <3> QED BY <1>6, <3>1, <3>2, <3>3
  <2> QED BY <2>1, <2>2, StagedSame
<1> QED BY <1>1, <1>2, <1>3, <1>4, <1>5, <1>6, StagedWave, StagedWaveEnds DEF Next, Step

-----------------------------------------------------------------------------
(* Theorems.                                                               *)

LEMMA InitIInv == Init => IInv
<1> SUFFICES ASSUME Init PROVE IInv
  OBVIOUS
<1>1. Typed
  BY InitTyped
<1>2. RecordIsOneRun
  BY DEF Init, RecordIsOneRun
<1>3. /\ Done(Nothing) = {}
      /\ \A c \in Calls : /\ InWave(c) = {} /\ Answered(c) = {} /\ results[c] = Nothing
                          /\ ~ Active(c) /\ pending[c] = {}
  BY DEF Init, InWave, Answered, Nothing, Done, Decided, Active
<1>4. OneRun
  BY <1>3 DEF OneRun, Placed, PartOfOneRun, InWave
<1>5. GatesHold
  <2>1. Touched = {}
    BY <1>3 DEF Touched, Init
  <2> QED BY <2>1 DEF GatesHold, Init
<1>6. InTurn
  BY <1>3 DEF InTurn, Init
<1>7. Accounted
  BY DEF Accounted, Init
<1> QED BY <1>1, <1>2, <1>4, <1>5, <1>6, <1>7 DEF IInv

\* The inductive invariant of run(), its resumptions and its losses.
THEOREM WorkflowInvariant == Spec => []IInv
<1>1. IInv /\ [Next]_vars => IInv'
  BY TypeStep, RecordStep, OneRunStep, GatesStep, InTurnStep, AccountedStep DEF IInv
<1> QED BY <1>1, InitIInv, PTL DEF Spec

\* Whatever calls a run took, the row of workflow_runs is the outcome of one
\* walk of the graph under the stored approvals (run, _ready_nodes, save_run).
THEOREM RowIsOneRun == Spec => []RecordIsOneRun
<1>1. IInv => RecordIsOneRun
  BY DEF IInv
<1> QED BY <1>1, WorkflowInvariant, PTL

\* No tool is called at or behind a gate that no human has opened
\* (human_validation in run), overlapping and lost calls included.
THEOREM NothingPassesAGate == Spec => []GateHolds
<1>1. IInv => GateHolds
  <2> SUFFICES ASSUME IInv PROVE GateHolds
    OBVIOUS
  <2>1. PICK S \in SUBSET Nodes :
          /\ Touched \subseteq S
          /\ \A n \in S : Predecessors(workflow, n) \subseteq S
          /\ S \cap workflow.gated \subseteq granted
    BY DEF IInv, GatesHold
  <2>2. {n \in Nodes : executions[n] > 0} \subseteq S
    BY <2>1 DEF Touched
  <2> QED BY <2>1, <2>2 DEF GateHolds
<1> QED BY <1>1, WorkflowInvariant, PTL

\* Calls that follow each other, none of them lost, call each tool at most once
\* (the `done` that run takes over from the stored results).
THEOREM EachToolOnce == Spec => []OnceUnlessDisturbed
<1>1. IInv => OnceUnlessDisturbed
  BY DEF IInv, Accounted, OnceUnlessDisturbed
<1> QED BY <1>1, WorkflowInvariant, PTL

\* A save takes no approval and no decided result from the row as long as no
\* two calls overlapped (save_run writes the row over).
THEOREM RowOnlyGrows == Spec => StoredStays
<1>1. ASSUME IInv, [Next]_vars, record # NoRecord, ~ overlapped
      PROVE  /\ record.approved \subseteq record'.approved
             /\ \A n \in Done(record.results) : record'.results[n] = record.results[n]
  <2>1. CASE record' = record
    BY <2>1
  <2>2. ASSUME NEW c \in Calls, Save(c)
        PROVE  /\ record.approved \subseteq record'.approved
               /\ \A n \in Done(record.results) : record'.results[n] = record.results[n]
    <3>1. Active(c)
      BY <2>2 DEF Save, Active
    <3>2. /\ record.approved \subseteq approved[c]
          /\ \A n \in Done(record.results) : results[c][n] = record.results[n]
      BY <1>1, <3>1 DEF IInv, InTurn
    <3>3. Done(record.results) \subseteq Done(results[c])
      BY <3>2 DEF Done
    <3> QED BY <1>1, <2>2, <3>2, <3>3, SavedRow DEF IInv
  <2> QED BY <1>1, <2>1, <2>2, OnlySaveWrites DEF Next, vars
<1> QED BY <1>1, WorkflowInvariant, PTL DEF Spec, StoredStays

\* The waves of a call that starts a run are parts of the structural waves that
\* simulate() announces, for any graph, any gates and any edge conditions.
THEOREM WavesAsSimulated == Spec => []FreshWavesAsSimulated
<1>1. Init => Staged
  <2> SUFFICES ASSUME Init PROVE Staged
    OBVIOUS
  <2>1. /\ 1 \in Calls /\ 0 \in 0..Cardinality(Nodes) /\ Cardinality({}) = 0
        /\ StructuralDone(workflow)[0] = {}
    BY NodeCount, StructuralLaw, FS_EmptySet
  <2>2. Taken = {} /\ InWave(1) = {}
    BY <2>1 DEF Init, Taken, InWave, Answered, Done, Nothing, Decided
  <2>3. StagedAt(0)
    BY <2>1, <2>2 DEF StagedAt
  <2> QED BY <2>1, <2>3 DEF Staged
<1>2. IInv /\ Staged /\ [Next]_vars => Staged'
  BY StagedStep DEF IInv
<1>3. Staged => FreshWavesAsSimulated
  <2> SUFFICES ASSUME Staged PROVE FreshWavesAsSimulated
    OBVIOUS
  <2>1. PICK k \in 0..Cardinality(Nodes) : StagedAt(k)
    BY DEF Staged
  <2>2. InWave(1) = queued[1] \cup running[1] \cup {n \in Nodes : outcome[1][n] # "none"}
    BY DEF InWave, Answered
  <2>3. CASE InWave(1) = {}
    <3>1. 1 \in Waves
      <4>1. Cardinality(Nodes) # 0
        BY FiniteAssumption, FS_EmptySet
      <4> QED BY <4>1, NodeCount DEF Waves
    <3> QED BY <2>2, <2>3, <3>1 DEF FreshWavesAsSimulated
  <2>4. CASE InWave(1) # {}
    <3>1. k \in Waves
      BY <2>1, <2>4, NodeCount DEF StagedAt, Waves
    <3>2. InWave(1) \subseteq StructuralWave(workflow, k)
      BY <2>1, <2>4 DEF StagedAt, Taken, StructuralWave
    <3> QED BY <2>2, <3>1, <3>2 DEF FreshWavesAsSimulated
  <2> QED BY <2>3, <2>4
<1> QED BY <1>1, <1>2, <1>3, WorkflowInvariant, PTL DEF Spec
=============================================================================
