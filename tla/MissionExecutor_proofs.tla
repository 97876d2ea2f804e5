----------------------- MODULE MissionExecutor_proofs -----------------------
(***************************************************************************)
(* Proofs about MissionExecutor, for any number of executions and any      *)
(* retry ceiling, when no two executions have the same task id and the     *)
(* controller remembers no more executions than the scheduler tasks.       *)
(***************************************************************************)
EXTENDS MissionExecutor, FiniteSetTheorems, TLAPS

\* No execution of a node starts while another one of that node may still
\* be running, and the caps are as in the code, where both are 512.
Regime ==
  /\ \A e, f \in Execs : Key[e] = Key[f] => e = f
  /\ MaxExecutions <= MaxTasks

\* The types the argument needs.
Shape ==
  /\ sm \in [Execs -> States]
  /\ task \in [Execs -> TaskStates]
  /\ retries \in [Execs -> 0..MaxRetries]
  /\ opened \in Seq(Execs)
  /\ run \in [Execs -> RunStates]
  /\ pc \in [Execs -> Labels]
  /\ obj \in [Execs -> Execs]
  /\ calls \in [Execs -> Nat]

\* While execute_node loops, the inferences it started are counted by the
\* retries of its task.
Counted(e) ==
  /\ obj[e] = e
  /\ pc[e] = "new" => calls[e] = 0 /\ retries[e] = 0
  /\ pc[e] = "call" => calls[e] = retries[e]
  /\ pc[e] = "infer" => calls[e] = retries[e] + 1
  /\ calls[e] <= retries[e] + 1

\* The task object and the registries say where execute_node is.
Placed(e) ==
  /\ pc[e] = "new" => /\ sm[e] = "created" /\ task[e] = "pending"
                      /\ run[e] = "none" /\ e \notin Range(opened)
  /\ pc[e] = "call" => task[e] = "pending"
  /\ pc[e] = "infer" => task[e] = "running"
  /\ pc[e] = "closeKo" => task[e] = "failed"
  /\ pc[e] \in {"call", "infer"} => e \in Range(tasks) \/ e \in dropped

\* A success is a completed execution, unless the engine has forgotten it.
Concluded(e) ==
  /\ sm[e] = "completed" => task[e] = "completed" /\ pc[e] \in {"close", "true"}
  /\ /\ pc[e] = "true" \/ (pc[e] = "close" /\ task[e] = "completed")
     /\ e \notin dropped
     => \/ sm[e] = "completed"
        \/ sm[e] \in {"created", "validating"} /\ e \notin Latest(MaxTasks)

\* What is in the ledger.
Recorded(e) ==
  /\ run[e] = "reussi" => pc[e] = "true"
  /\ run[e] = "echoue" => pc[e] = "false" \/ (pc[e] = "true" /\ e \in dropped)

IInv ==
  Shape /\ \A e \in Execs : Counted(e) /\ Placed(e) /\ Concluded(e) /\ Recorded(e)

\* Under distinct ids the scheduler hands an execution its own task object,
\* or none.
LEMMA OwnTask ==
  ASSUME Regime, NEW e \in Execs
  PROVE  GetTask(Key[e]) = IF e \in Range(tasks) THEN {e} ELSE {}
BY DEF Regime, GetTask

\* An execution the controller knows has not left _execution_tasks.
LEMMA KnownIsOwned ==
  ASSUME Regime, Shape
  PROVE  Known \subseteq Latest(MaxTasks)
BY CapsAssumption DEF Regime, Shape, Known, Latest

\* Starting e puts no other execution back in a bounded registry.
LEMMA LatestShrinks ==
  ASSUME Shape, NEW e \in Execs, opened' = Append(opened, e)
  PROVE  /\ Latest(MaxTasks)' \subseteq Latest(MaxTasks) \cup {e}
         /\ opened' \in Seq(Execs)
         /\ Range(opened') \subseteq Range(opened) \cup {e}
BY CapsAssumption DEF Shape, Latest, Range

\* The end of execute_task: it marks its own task, and leaves the state
\* machine where it was unless it finds the task finished.
LEMMA SettleMoves ==
  ASSUME Regime, Shape, NEW e \in Execs, obj[e] = e,
         NEW state \in States, NEW s \in TaskStates, NEW label,
         Settle(e, state, s, label)
  PROVE  /\ task' = [task EXCEPT ![e] = s]
         /\ \/ /\ pc' = [pc EXCEPT ![e] = "raised"]
               /\ sm' = [sm EXCEPT ![e] = state]
               /\ ~ CanTransition(state, Outcome(e, state, task'))
            \/ /\ pc' = [pc EXCEPT ![e] = IF s = "pending" THEN "call" ELSE label]
               /\ sm' = [sm EXCEPT ![e] = Outcome(e, state, task')]
<1>1. task' = [task EXCEPT ![e] = s]
  BY OwnTask DEF Settle, Mark, Shape
<1> QED
  BY <1>1 DEF Settle, After, Goto, Shape

\* What _maybe_finalize_state asks for once the task has the status s.
LEMMA OutcomeIs ==
  ASSUME Regime, Shape, NEW e \in Execs, NEW state \in States, NEW s \in TaskStates,
         task' = [task EXCEPT ![e] = s]
  PROVE  Outcome(e, state, task') =
           IF \/ state \in TerminalStates
              \/ e \notin Latest(MaxTasks)
              \/ e \notin Range(tasks)
              \/ s \notin TerminalTasks
           THEN state ELSE s
<1>1. task'[e] = s
  BY DEF Shape
<1>2. CASE e \in Range(tasks)
  <2>1. GetTask(Key[e]) = {e}
    BY <1>2, OwnTask
  <2> QED
    BY <1>1, <1>2, <2>1 DEF Outcome, TerminalTasks
<1>3. CASE e \notin Range(tasks)
  <2>1. GetTask(Key[e]) = {}
    BY <1>3, OwnTask
  <2> QED
    BY <1>3, <2>1 DEF Outcome
<1> QED
  BY <1>2, <1>3

\* A counted retry stays within the ceiling.
LEMMA RetriesTyped ==
  ASSUME NEW r \in [Execs -> 0..MaxRetries], NEW e \in Execs, r[e] < MaxRetries
  PROVE  [r EXCEPT ![e] = @ + 1] \in [Execs -> 0..MaxRetries]
<1>1. r[e] + 1 \in 0..MaxRetries
  BY MaxRetriesAssumption
<1> QED
  BY <1>1

\* The empty engine satisfies the invariant.
LEMMA InitIInv == Init => IInv
<1> SUFFICES ASSUME Init PROVE IInv
  OBVIOUS
<1>1. Shape
  BY MaxRetriesAssumption DEF Init, Shape, States, TaskStates, RunStates, Labels
<1>2. ASSUME NEW e \in Execs PROVE Counted(e) /\ Placed(e) /\ Concluded(e) /\ Recorded(e)
  BY <1>2 DEF Init, Counted, Placed, Concluded, Recorded, Range
<1> QED
  BY <1>1, <1>2 DEF IInv

\* Every step of the engine preserves the invariant.  Steps of e touch the
\* state of e alone; only a start and a restart change the registries.
LEMMA StepIInv ==
  ASSUME Regime, IInv, [Next]_vars
  PROVE  IInv'
<1> DEFINE Part(x) == Counted(x) /\ Placed(x) /\ Concluded(x) /\ Recorded(x)
<1> USE MaxRetriesAssumption DEF Labels, Returned, States, TaskStates, RunStates
<1>0. Shape /\ \A x \in Execs : Part(x)
  BY DEF IInv
<1>1. ASSUME NEW e \in Execs, Start(e) PROVE IInv'
  <2>1. /\ Latest(MaxTasks)' \subseteq Latest(MaxTasks) \cup {e}
        /\ opened' \in Seq(Execs)
        /\ Range(opened') \subseteq Range(opened) \cup {e}
    BY <1>0, <1>1, LatestShrinks DEF Start
  <2>2. Shape'
    <3>1. run' \in [Execs -> RunStates]
      BY <1>0, <1>1 DEF Shape, Start
    <3>2. sm' \in [Execs -> States] /\ pc' \in [Execs -> Labels]
      <4>1. sm' = [sm EXCEPT ![e] = "ready"] /\ sm \in [Execs -> States]
        BY <1>0, <1>1 DEF Shape, Start
      <4>2. \E l \in {"call", "unattended"} : pc' = [pc EXCEPT ![e] = l]
        BY <1>1 DEF Start, Goto
      <4>3. pc \in [Execs -> Labels]
        BY <1>0 DEF Shape
      <4> QED
        BY <4>1, <4>2, <4>3
    <3>3. UNCHANGED <<task, retries, obj, calls>>
      BY <1>1 DEF Start
    <3> QED
      BY <1>0, <2>1, <3>1, <3>2, <3>3 DEF Shape
  <2>3. ASSUME NEW x \in Execs PROVE Counted(x)'
    BY <1>0, <1>1, <2>3 DEF Shape, Counted, Start, Goto
  <2>4. ASSUME NEW x \in Execs PROVE Placed(x)'
    BY <1>0, <1>1, <2>1, <2>4 DEF Shape, Placed, Start, Goto, TerminalTasks
  <2>5. ASSUME NEW x \in Execs PROVE Concluded(x)' /\ Recorded(x)'
    BY <1>0, <1>1, <2>1, <2>5 DEF Shape, Placed, Concluded, Recorded, Start, Goto
  <2> QED
    BY <2>2, <2>3, <2>4, <2>5 DEF IInv
<1>2. ASSUME NEW e \in Execs, Refused(e) PROVE IInv'
  <2>1. /\ UNCHANGED <<sm, task, retries, tasks, opened, run, obj, calls, dropped>>
        /\ pc[e] = "call" /\ pc' = [pc EXCEPT ![e] = "raised"]
    BY <1>2 DEF Refused, Goto, engine, registries
  <2>2. Shape'
    BY <1>0, <2>1 DEF Shape
  <2>3. ASSUME NEW x \in Execs PROVE Part(x)'
    BY <1>0, <2>1, <2>3 DEF Shape, Counted, Placed, Concluded, Recorded, Latest
  <2> QED
    BY <2>2, <2>3 DEF IInv
<1>3. ASSUME NEW e \in Execs, NotFound(e) PROVE IInv'
  <2>1. /\ UNCHANGED <<sm, task, retries, tasks, opened, run, obj, calls, dropped>>
        /\ UNCHANGED pc
    BY <1>0, <1>3 DEF NotFound, After, Goto, engine, registries, Shape, Placed
  <2>2. Shape'
    BY <1>0, <2>1 DEF Shape
  <2>3. ASSUME NEW x \in Execs PROVE Part(x)'
    BY <1>0, <2>1, <2>3 DEF Counted, Placed, Concluded, Recorded, Latest
  <2> QED
    BY <2>2, <2>3 DEF IInv
<1>4. ASSUME NEW e \in Execs, OverBudget(e) PROVE IInv'
  <2>1. /\ UNCHANGED <<sm, retries, tasks, opened, run, obj, calls, dropped>>
        /\ pc[e] = "call"
        /\ task' = [task EXCEPT ![e] = "failed"]
    BY <1>4, OwnTask DEF OverBudget, registries
  <2>2. pc' = [pc EXCEPT ![e] = "close"]
    BY <1>0, <1>4, <2>1 DEF OverBudget, After, Goto, Shape
  <2>3. Shape'
    BY <1>0, <2>1, <2>2 DEF Shape
  <2>4. ASSUME NEW x \in Execs PROVE Part(x)'
    BY <1>0, <2>1, <2>2, <2>4 DEF Shape, Counted, Placed, Concluded, Recorded, Latest
  <2> QED
    BY <2>3, <2>4 DEF IInv
<1>5. ASSUME NEW e \in Execs, Begin(e) PROVE IInv'
  <2>1. /\ UNCHANGED <<retries, tasks, opened, run, dropped>>
        /\ pc[e] = "call" /\ pc' = [pc EXCEPT ![e] = "infer"]
        /\ task' = [task EXCEPT ![e] = "running"]
        /\ sm' = [sm EXCEPT ![e] = "running"]
        /\ obj' = [obj EXCEPT ![e] = e]
        /\ calls' = [calls EXCEPT ![e] = @ + 1]
    <3>1. PICK o \in GetTask(Key[e]) :
            /\ sm' = [sm EXCEPT ![e] = "running"]
            /\ task' = [task EXCEPT ![o] = "running"]
            /\ obj' = [obj EXCEPT ![e] = o]
      BY <1>5 DEF Begin
    <3>2. o = e
      BY <3>1, OwnTask
    <3> QED
      BY <1>5, <3>1, <3>2 DEF Begin, Goto, registries
  <2>2. Shape'
    BY <1>0, <2>1 DEF Shape
  <2>3. ASSUME NEW x \in Execs PROVE Part(x)'
    BY <1>0, <2>1, <2>3 DEF Shape, Counted, Placed, Concluded, Recorded, Latest
  <2> QED
    BY <2>2, <2>3 DEF IInv
<1>6. ASSUME NEW e \in Execs, Unavailable(e) PROVE IInv'
  <2>1. PICK again \in BOOLEAN, s \in {"pending", "failed"} :
          Retry(e, again, s) /\ Settle(e, sm[e], s, "closeKo")
    BY <1>6 DEF Unavailable
  <2>2. /\ UNCHANGED <<tasks, opened, run, obj, calls, dropped>>
        /\ pc[e] = "infer" /\ obj[e] = e /\ sm[e] \in States
    BY <1>0, <1>6 DEF Unavailable, registries, Counted, Shape
  <2>3. /\ s = "pending" => retries[e] < MaxRetries /\ retries' = [retries EXCEPT ![e] = @ + 1]
        /\ s = "failed" => UNCHANGED retries
    BY <2>1, <2>2 DEF Retry
  <2>4. /\ task' = [task EXCEPT ![e] = s]
        /\ \E l \in {"raised", IF s = "pending" THEN "call" ELSE "closeKo"}, t \in {sm[e], s} :
             /\ pc' = [pc EXCEPT ![e] = l]
             /\ sm' = [sm EXCEPT ![e] = t]
             /\ t # sm[e] => t = "failed"
    BY <1>0, <2>1, <2>2, SettleMoves, OutcomeIs DEF TerminalTasks
  <2>5. Shape'
    <3>1. retries' \in [Execs -> 0..MaxRetries]
      BY <1>0, <2>3, RetriesTyped DEF Shape
    <3>2. task' \in [Execs -> TaskStates] /\ sm' \in [Execs -> States]
      BY <1>0, <2>2, <2>4 DEF Shape
    <3>3. pc' \in [Execs -> Labels]
      BY <1>0, <2>4 DEF Shape
    <3> QED
      BY <1>0, <2>2, <3>1, <3>2, <3>3 DEF Shape
  <2>6. ASSUME NEW x \in Execs PROVE Counted(x)'
    BY <1>0, <2>2, <2>3, <2>4, <2>6 DEF Shape, Counted
  <2>7. ASSUME NEW x \in Execs PROVE Placed(x)' /\ Concluded(x)' /\ Recorded(x)'
    BY <1>0, <2>2, <2>4, <2>7 DEF Shape, Placed, Concluded, Recorded, Latest
  <2> QED
    BY <2>5, <2>6, <2>7 DEF IInv
<1>7. ASSUME NEW e \in Execs, Crash(e) \/ Unwelcome(e) PROVE IInv'
  <2>1. /\ UNCHANGED <<sm, task, retries, tasks, opened, run, obj, calls, dropped>>
        /\ pc[e] = "infer" /\ pc' = [pc EXCEPT ![e] = "leaked"]
    BY <1>7 DEF Crash, Unwelcome, Goto, engine, registries
  <2>2. Shape'
    BY <1>0, <2>1 DEF Shape
  <2>3. ASSUME NEW x \in Execs PROVE Part(x)'
    BY <1>0, <2>1, <2>3 DEF Shape, Counted, Placed, Concluded, Recorded, Latest
  <2> QED
    BY <2>2, <2>3 DEF IInv
<1>8. ASSUME NEW e \in Execs, Answer(e) PROVE IInv'
  <2>1. /\ UNCHANGED <<tasks, opened, run, obj, calls, dropped>>
        /\ pc[e] = "infer" /\ obj[e] = e /\ task[e] = "running"
        /\ e \in Range(tasks) \/ e \in dropped
    BY <1>0, <1>8 DEF Answer, registries, Counted, Placed
  <2>2. CASE Settle(e, "validating", "completed", "close") /\ UNCHANGED retries
    <3>1. /\ task' = [task EXCEPT ![e] = "completed"]
          /\ pc' = [pc EXCEPT ![e] = "close"]
          /\ sm' = [sm EXCEPT ![e] = IF e \notin Latest(MaxTasks) \/ e \notin Range(tasks)
                                     THEN "validating" ELSE "completed"]
      BY <1>0, <2>1, <2>2, SettleMoves, OutcomeIs
         DEF TerminalTasks, TerminalStates, CanTransition, ValidTransitions
    <3>2. Shape'
      BY <1>0, <2>1, <2>2, <3>1 DEF Shape
    <3>3. ASSUME NEW x \in Execs PROVE Part(x)'
      BY <1>0, <2>1, <2>2, <3>1, <3>3
         DEF Shape, Counted, Placed, Concluded, Recorded, Latest
    <3> QED
      BY <3>2, <3>3 DEF IInv
  <2>3. ASSUME NEW v, NEW s \in {"pending", "failed"},
               Retry(e, v = "retry", s), Settle(e, "validating", s, "close")
        PROVE  IInv'
    <3>1. /\ s = "pending" => retries[e] < MaxRetries /\ retries' = [retries EXCEPT ![e] = @ + 1]
          /\ s = "failed" => UNCHANGED retries
      BY <2>1, <2>3 DEF Retry
    <3>2. /\ task' = [task EXCEPT ![e] = s]
          /\ \E l \in {"raised", IF s = "pending" THEN "call" ELSE "close"},
                t \in {"validating", "failed"} :
               /\ pc' = [pc EXCEPT ![e] = l]
               /\ sm' = [sm EXCEPT ![e] = t]
      BY <1>0, <2>1, <2>3, SettleMoves, OutcomeIs DEF TerminalTasks
    <3>3. Shape'
      <4>1. retries' \in [Execs -> 0..MaxRetries]
        <5>1. CASE s = "pending"
          BY <1>0, <3>1, <5>1, RetriesTyped DEF Shape
        <5>2. CASE s = "failed"
          BY <1>0, <3>1, <5>2 DEF Shape
        <5> QED
          BY <2>3, <5>1, <5>2
      <4>2. task' \in [Execs -> TaskStates] /\ sm' \in [Execs -> States]
        BY <1>0, <3>2 DEF Shape
      <4>3. pc' \in [Execs -> Labels]
        BY <1>0, <3>2 DEF Shape
      <4> QED
        BY <1>0, <2>1, <4>1, <4>2, <4>3 DEF Shape
    <3>4. ASSUME NEW x \in Execs PROVE Counted(x)'
      BY <1>0, <2>1, <3>1, <3>2, <3>4 DEF Shape, Counted
    <3>5. ASSUME NEW x \in Execs PROVE Placed(x)' /\ Concluded(x)' /\ Recorded(x)'
      BY <1>0, <2>1, <3>2, <3>5 DEF Shape, Placed, Concluded, Recorded, Latest
    <3> QED
      BY <3>3, <3>4, <3>5 DEF IInv
  <2>4. CASE /\ sm' = [sm EXCEPT ![e] = "validating"]
             /\ pc' = [pc EXCEPT ![e] = "leaked"]
             /\ UNCHANGED <<task, retries>>
    <3>1. Shape'
      BY <1>0, <2>1, <2>4 DEF Shape
    <3>2. ASSUME NEW x \in Execs PROVE Part(x)'
      BY <1>0, <2>1, <2>4, <3>2 DEF Shape, Counted, Placed, Concluded, Recorded, Latest
    <3> QED
      BY <3>1, <3>2 DEF IInv
  <2> QED
    BY <1>8, <2>2, <2>3, <2>4 DEF Answer, Goto
<1>9. ASSUME NEW e \in Execs, Finalize(e) PROVE IInv'
  <2>1. /\ UNCHANGED <<sm, task, retries, tasks, opened, obj, calls, dropped>>
        /\ pc[e] \in {"close", "closeKo"}
        /\ pc' = [pc EXCEPT ![e] = IF pc[e] = "close" /\ task[e] = "completed"
                                   THEN "true" ELSE "false"]
    BY <1>9 DEF Finalize, Goto, engine
  <2>2. \/ UNCHANGED run
        \/ /\ e \in Latest(MaxTasks)
           /\ run' = [run EXCEPT ![e] = IF run[e] \in Terminaux THEN run[e]
                                        ELSE IF sm[e] = "completed" THEN "reussi" ELSE "echoue"]
    BY <1>0, <1>9, KnownIsOwned DEF Finalize, CloseRun, Changer
  <2>3. Shape'
    BY <1>0, <2>1, <2>2 DEF Shape
  <2>4. ASSUME NEW x \in Execs PROVE Counted(x)' /\ Placed(x)' /\ Concluded(x)'
    <3>1. Counted(x)'
      BY <1>0, <2>1, <2>4 DEF Shape, Counted
    <3>2. run'[e] = "none" \/ pc'[e] # "new"
      BY <1>0, <2>1 DEF Shape
    <3>3. run'[x] = run[x] \/ x = e
      BY <1>0, <2>2, <2>4 DEF Shape
    <3>4. Placed(x)'
      BY <1>0, <2>1, <2>4, <3>2, <3>3 DEF Shape, Placed
    <3>5. Concluded(x)'
      BY <1>0, <2>1, <2>4 DEF Shape, Placed, Concluded, Latest
    <3> QED
      BY <3>1, <3>4, <3>5
  <2>5. ASSUME NEW x \in Execs PROVE Recorded(x)'
    BY <1>0, <2>1, <2>2, <2>5 DEF Shape, Placed, Concluded, Recorded, Terminaux
  <2> QED
    BY <2>3, <2>4, <2>5 DEF IInv
<1>10. ASSUME NEW e \in Execs, Pause(e) \/ Resume(e) \/ Cancel(e) PROVE IInv'
  <2>1. /\ UNCHANGED <<task, retries, tasks, opened, run, pc, obj, calls, dropped>>
        /\ e \in Latest(MaxTasks)
        /\ sm[e] # "completed"
        /\ \E t \in {"paused", "running", "cancelled"} : sm' = [sm EXCEPT ![e] = t]
    BY <1>0, <1>10, KnownIsOwned DEF Pause, Resume, Cancel, registries, TerminalStates
  <2>2. e \in Range(opened)
    BY <1>0, <2>1 DEF Latest, Range
  <2>3. Shape'
    BY <1>0, <2>1 DEF Shape
  <2>4. ASSUME NEW x \in Execs PROVE Part(x)'
    BY <1>0, <2>1, <2>2, <2>4 DEF Shape, Counted, Placed, Concluded, Recorded, Latest
  <2> QED
    BY <2>3, <2>4 DEF IInv
<1>11. ASSUME Restart PROVE IInv'
  <2>1. Shape'
    BY <1>0, <1>11 DEF Shape, Restart, Changer
  <2>2. ASSUME NEW x \in Execs
        PROVE  /\ run'[x] # run[x] => run'[x] = "perdu" /\ run[x] # "none"
               /\ Latest(MaxTasks)' = {} /\ Range(opened') = {}
    <3>1. Latest(MaxTasks)' = {} /\ Range(opened') = {}
      BY <1>11 DEF Restart, Latest, Range
    <3>2. PICK lost \in SUBSET {y \in Execs : run[y] \in {"en_attente", "en_cours"}} :
            run' = [y \in Execs |-> IF y \in lost THEN Changer(y, "perdu")[y] ELSE run[y]]
      BY <1>11 DEF Restart
    <3>3. x \in lost => Changer(x, "perdu")[x] = "perdu"
      BY <1>0, <2>2, <3>2 DEF Changer, Shape, Terminaux
    <3> QED
      BY <2>2, <3>1, <3>2, <3>3
  <2>3. ASSUME NEW x \in Execs PROVE Part(x)'
    BY <1>0, <1>11, <2>2, <2>3 DEF Shape, Counted, Placed, Concluded, Recorded, Restart
  <2> QED
    BY <2>1, <2>3 DEF IInv
<1>12. CASE UNCHANGED vars
  <2>1. Shape'
    BY <1>0, <1>12 DEF Shape, vars, engine, registries
  <2>2. ASSUME NEW x \in Execs PROVE Part(x)'
    BY <1>0, <1>12, <2>2 DEF vars, engine, registries, Counted, Placed, Concluded, Recorded, Latest
  <2> QED
    BY <2>1, <2>2 DEF IInv
<1> QED
  BY <1>1, <1>2, <1>3, <1>4, <1>5, <1>6, <1>7, <1>8, <1>9, <1>10, <1>11, <1>12
     DEF Next, Step

\* The invariant holds throughout.
LEMMA Invariance == Regime => (Spec => []IInv)
<1> SUFFICES ASSUME Regime PROVE Spec => []IInv
  OBVIOUS
<1>1. IInv /\ [Next]_vars => IInv'
  BY StepIInv
<1> QED
  BY InitIInv, <1>1, PTL DEF Spec

\* node_execution.py: "Naturally bounded: execute_task() itself stops
\* returning PENDING once its own retry ceiling is hit."  With distinct task
\* ids no execute_node starts more than max_retries_per_task + 1 inferences.
THEOREM ExecutorAttemptsBounded == Regime => (Spec => []AttemptsBounded)
<1> SUFFICES ASSUME Regime PROVE Spec => []AttemptsBounded
  OBVIOUS
<1>1. IInv => AttemptsBounded
  BY MaxRetriesAssumption DEF IInv, Shape, Counted, AttemptsBounded
<1> QED
  BY Invariance, <1>1, PTL

\* The run ledger written by _clore_le_run agrees with what execute_node
\* returned, through evictions, failures of the ledger and restarts.
THEOREM ExecutorLedgerIsTrue == Regime => (Spec => []LedgerIsTrue)
<1> SUFFICES ASSUME Regime PROVE Spec => []LedgerIsTrue
  OBVIOUS
<1>1. IInv => LedgerIsTrue
  BY DEF IInv, Recorded, LedgerIsTrue
<1> QED
  BY Invariance, <1>1, PTL

\* What any step leaves of a cancelled execution.
LEMMA CancelStep ==
  ASSUME Regime, IInv, [Next]_vars, NEW x \in Execs, x \notin dropped, sm[x] = "cancelled"
  PROVE  /\ sm'[x] = "cancelled" \/ opened' = <<>>
         /\ calls'[x] <= calls[x]
         /\ pc'[x] # "true" /\ run'[x] # "reussi"
<1> DEFINE Kept == /\ sm'[x] = "cancelled" \/ opened' = <<>>
                   /\ calls'[x] <= calls[x]
                   /\ pc'[x] # "true" /\ run'[x] # "reussi"
<1> USE DEF States, TaskStates, RunStates, Labels, Returned
<1>0. /\ Shape /\ Counted(x)
      /\ pc[x] # "true" /\ run[x] # "reussi" /\ pc[x] # "new"
      /\ ~ (pc[x] = "close" /\ task[x] = "completed")
  BY DEF IInv, Concluded, Recorded, Placed
<1>1. ASSUME NEW e \in Execs, Start(e) PROVE Kept
  BY <1>0, <1>1 DEF Start, Goto, Shape
<1>2. ASSUME NEW e \in Execs, Refused(e) \/ Crash(e) \/ Unwelcome(e) PROVE Kept
  BY <1>0, <1>2 DEF Refused, Crash, Unwelcome, Goto, Shape, engine, registries
<1>3. ASSUME NEW e \in Execs, NotFound(e) PROVE Kept
  BY <1>0, <1>3 DEF NotFound, After, Goto, Shape, engine
<1>4. ASSUME NEW e \in Execs, OverBudget(e) PROVE Kept
  BY <1>0, <1>4 DEF OverBudget, After, Goto, Shape
<1>5. ASSUME NEW e \in Execs, Begin(e) PROVE Kept
  <2>1. e # x
    BY <1>5 DEF Begin, CanTransition, ValidTransitions
  <2> QED
    BY <1>0, <1>5, <2>1 DEF Begin, Goto, Shape
<1>6. ASSUME NEW e \in Execs, Unavailable(e) PROVE Kept
  <2>1. PICK s \in {"pending", "failed"} : Settle(e, sm[e], s, "closeKo")
    BY <1>6 DEF Unavailable
  <2>2. obj[e] = e /\ sm[e] \in States /\ UNCHANGED <<run, calls>>
    BY <1>0, <1>6 DEF IInv, Counted, Shape, Unavailable
  <2>3. /\ sm'[x] = "cancelled"
        /\ pc'[x] \in {pc[x], "raised", "call", "closeKo"}
    <3>2. sm[e] = "cancelled" => Outcome(e, sm[e], task') = "cancelled"
      BY DEF Outcome, TerminalStates
    <3>3. \/ /\ pc' = [pc EXCEPT ![e] = "raised"]
             /\ sm' = [sm EXCEPT ![e] = sm[e]]
          \/ /\ pc' = [pc EXCEPT ![e] = IF s = "pending" THEN "call" ELSE "closeKo"]
             /\ sm' = [sm EXCEPT ![e] = Outcome(e, sm[e], task')]
      BY <1>0, <2>1, <2>2, SettleMoves
    <3> QED
      BY <1>0, <3>2, <3>3 DEF Shape
  <2> QED
    BY <1>0, <2>2, <2>3 DEF Shape
<1>7. ASSUME NEW e \in Execs, Answer(e) PROVE Kept
  <2>1. e # x
    BY <1>7 DEF Answer, CanTransition, ValidTransitions
  <2>2. sm'[x] = sm[x] /\ pc'[x] = pc[x]
    BY <1>0, <1>7, <2>1 DEF Answer, Settle, After, Goto, Shape
  <2> QED
    BY <1>0, <1>7, <2>2 DEF Answer, Shape
<1>8. ASSUME NEW e \in Execs, Finalize(e) PROVE Kept
  <2>1. pc'[x] # "true" /\ sm'[x] = "cancelled" /\ calls' = calls
    BY <1>0, <1>8 DEF Finalize, Goto, Shape, engine
  <2>2. run'[x] # "reussi"
    BY <1>0, <1>8 DEF Finalize, CloseRun, Changer, Shape
  <2> QED
    BY <1>0, <2>1, <2>2 DEF Shape
<1>9. ASSUME NEW e \in Execs, Pause(e) \/ Resume(e) \/ Cancel(e) PROVE Kept
  BY <1>0, <1>9 DEF Pause, Resume, Cancel, Shape
<1>10. ASSUME Restart PROVE Kept
  BY <1>0, <1>10 DEF Restart, Changer, Shape, Terminaux
<1>11. CASE UNCHANGED vars
  BY <1>0, <1>11 DEF vars, engine, registries, Shape
<1> QED
  BY <1>1, <1>2, <1>3, <1>4, <1>5, <1>6, <1>7, <1>8, <1>9, <1>10, <1>11 DEF Next, Step

\* A cancellation that arrives while execute_task waits for the model, its
\* lock released, is not undone by what execute_task does afterwards.
THEOREM ExecutorCancelHolds == Regime => (Spec => CancelHolds)
<1> SUFFICES ASSUME Regime PROVE Spec => CancelHolds
  OBVIOUS
<1>1. IInv /\ [Next]_vars =>
        [\A e \in Execs \ dropped :
           sm[e] = "cancelled" => /\ sm'[e] = "cancelled" \/ opened' = <<>>
                                  /\ calls'[e] <= calls[e]
                                  /\ pc'[e] # "true" /\ run'[e] # "reussi"]_vars
  BY CancelStep
<1> QED
  BY Invariance, <1>1, PTL DEF Spec, CancelHolds

-----------------------------------------------------------------------------
(* The load of the agents.                                                 *)

\* The inferences an agent has under way.
Working(a) == {e \in Execs : pc[e] = "infer" /\ agent[obj[e]] = a}

\* What the coordinator knows, and AgentsAreCounted: release_agent finds,
\* under the task id, the agent the inference was counted for.
Assigned ==
  /\ loads \in [Comptes -> Nat]
  /\ agent \in [Execs -> Agents]
  /\ agentOf \in [TaskIds -> Agents]
  /\ \A e \in Execs : pc[e] = "infer" => agentOf[Key[e]] = agent[e]
  /\ AgentsAreCounted

\* The inferences of an agent are finitely many.
LEMMA WorkingIsFinite ==
  ASSUME NEW a
  PROVE  IsFiniteSet(Working(a)) /\ Cardinality(Working(a)) \in Nat
BY ExecsAssumption, FS_Subset, FS_CardinalityType DEF Working

\* Where the agents are left alone and no inference begins, none is owed.
LEMMA AgentsIdle ==
  ASSUME Assigned, UNCHANGED <<loads, agentOf, agent>>,
         \A x \in Execs : pc'[x] = "infer" => pc[x] = "infer" /\ obj'[x] = obj[x]
  PROVE  Assigned'
<1>1. ASSUME NEW a \in Comptes
      PROVE  Cardinality(Working(a)') <= loads'[a]
  <2>1. Working(a)' \subseteq Working(a)
    BY DEF Working
  <2>2. /\ Cardinality(Working(a)') <= Cardinality(Working(a))
        /\ Cardinality(Working(a)') \in Nat /\ Cardinality(Working(a)) \in Nat
    BY <2>1, WorkingIsFinite, FS_Subset, FS_CardinalityType
  <2>3. Cardinality(Working(a)) <= loads[a] /\ loads[a] \in Nat
    BY <1>1 DEF Assigned, AgentsAreCounted, Working
  <2> QED
    BY <2>2, <2>3
<1>2. AgentsAreCounted'
  BY <1>1 DEF AgentsAreCounted, Working
<1> QED
  BY <1>2 DEF Assigned

\* assign counts the inference that begins, and touches the assignment of no
\* other one, since task ids are distinct.
LEMMA AgentsBegin ==
  ASSUME Regime, IInv, Assigned, NEW e \in Execs, NEW a \in Agents,
         pc[e] = "call", pc' = [pc EXCEPT ![e] = "infer"], obj' = [obj EXCEPT ![e] = e],
         Assign(Key[e], a), agent' = [agent EXCEPT ![e] = a]
  PROVE  Assigned'
<1>1. /\ obj \in [Execs -> Execs] /\ \A x \in Execs : obj[x] = x
      /\ pc \in [Execs -> Labels]
  BY DEF IInv, Shape, Counted
<1>2. Key[e] \in TaskIds /\ \A x \in Execs : Key[x] \in TaskIds
  BY KeyAssumption
<1>3. /\ agentOf' = [agentOf EXCEPT ![Key[e]] = a]
      /\ loads' = IF a \in Comptes THEN [loads EXCEPT ![a] = @ + 1] ELSE loads
  BY DEF Assign, LoadAfter
<1>4. loads' \in [Comptes -> Nat] /\ agent' \in [Execs -> Agents]
      /\ agentOf' \in [TaskIds -> Agents]
  BY <1>2, <1>3 DEF Assigned
<1>5. ASSUME NEW x \in Execs, pc'[x] = "infer" PROVE agentOf'[Key[x]] = agent'[x]
  <2>1. CASE x = e
    BY <1>2, <1>3, <2>1 DEF Assigned
  <2>2. CASE x # e
    <3>1. Key[x] # Key[e] /\ pc[x] = "infer"
      BY <1>1, <1>5, <2>2 DEF Regime
    <3> QED
      BY <1>2, <1>3, <1>5, <2>2, <3>1 DEF Assigned
  <2> QED
    BY <2>1, <2>2
<1>6. ASSUME NEW b \in Comptes PROVE Cardinality(Working(b)') <= loads'[b]
  <2>1. /\ IsFiniteSet(Working(b)) /\ Cardinality(Working(b)) \in Nat
        /\ Cardinality(Working(b)) <= loads[b] /\ loads[b] \in Nat
    BY <1>6, WorkingIsFinite DEF Assigned, AgentsAreCounted, Working
  <2>2. \A x \in Execs : x # e => (x \in Working(b)' <=> x \in Working(b))
    BY <1>1 DEF Working, Assigned
  <2>3. e \notin Working(b) /\ (e \in Working(b)' <=> a = b)
    BY <1>1 DEF Working, Assigned
  <2>4. CASE a = b
    <3>1. Working(b)' = Working(b) \cup {e}
      BY <2>2, <2>3, <2>4 DEF Working
    <3>2. Cardinality(Working(b)') = Cardinality(Working(b)) + 1
      BY <2>1, <2>3, <3>1, FS_AddElement
    <3>3. loads'[b] = loads[b] + 1
      BY <1>3, <1>6, <2>4 DEF Assigned
    <3> QED
      BY <2>1, <3>2, <3>3
  <2>5. CASE a # b
    <3>1. Working(b)' = Working(b)
      BY <2>2, <2>3, <2>5 DEF Working
    <3>2. loads'[b] = loads[b]
      BY <1>3, <1>6, <2>5 DEF Assigned
    <3> QED
      BY <2>1, <3>1, <3>2
  <2> QED
    BY <2>4, <2>5
<1>7. AgentsAreCounted'
  BY <1>6 DEF AgentsAreCounted, Working
<1> QED
  BY <1>4, <1>5, <1>7 DEF Assigned

\* release_agent takes off at most the inference that ends.
LEMMA AgentsSettle ==
  ASSUME IInv, Assigned, NEW e \in Execs, NEW l, l # "infer",
         pc[e] = "infer", pc' = [pc EXCEPT ![e] = l],
         loads' = ReleaseAgent(Key[e]), UNCHANGED <<agentOf, agent, obj>>
  PROVE  Assigned'
<1>1. /\ obj[e] = e /\ \A x \in Execs : obj[x] = x
      /\ pc \in [Execs -> Labels]
  BY DEF IInv, Shape, Counted
<1>2. agentOf[Key[e]] = agent[e] /\ agent[e] \in Agents
  BY DEF Assigned
<1>3. \/ loads' = loads
      \/ /\ agent[e] \in Comptes
         /\ loads' = [loads EXCEPT ![agent[e]] = IF @ = 0 THEN 0 ELSE @ - 1]
  BY <1>2 DEF ReleaseAgent
<1>0. loads \in [Comptes -> Nat]
  BY DEF Assigned
<1> DEFINE less == IF loads[agent[e]] = 0 THEN 0 ELSE loads[agent[e]] - 1
<1>a. ASSUME agent[e] \in Comptes
      PROVE  less \in Nat /\ less >= loads[agent[e]] - 1
  <2>1. loads[agent[e]] \in Nat
    BY <1>0, <1>a
  <2> QED
    BY <2>1
<1>b. \/ loads' = loads
      \/ agent[e] \in Comptes /\ loads' = [loads EXCEPT ![agent[e]] = less]
  BY <1>3
<1> HIDE DEF less
<1>4. loads' \in [Comptes -> Nat]
  BY <1>0, <1>a, <1>b
<1>5. \A x \in Execs : pc'[x] = "infer" => pc[x] = "infer"
  BY <1>1
<1>6. ASSUME NEW b \in Comptes PROVE Cardinality(Working(b)') <= loads'[b]
  <2>1. /\ IsFiniteSet(Working(b)) /\ Cardinality(Working(b)) \in Nat
        /\ Cardinality(Working(b)) <= loads[b] /\ loads[b] \in Nat
    BY <1>6, WorkingIsFinite DEF Assigned, AgentsAreCounted, Working
  <2>2. \A x \in Execs : x # e => (x \in Working(b)' <=> x \in Working(b))
    BY <1>1 DEF Working
  <2>3. e \notin Working(b)' /\ (e \in Working(b) <=> agent[e] = b)
    BY <1>1 DEF Working
  <2>4. CASE agent[e] = b
    <3>1. Working(b)' = Working(b) \ {e} /\ e \in Working(b)
      BY <2>2, <2>3, <2>4 DEF Working
    <3>2. Cardinality(Working(b)') = Cardinality(Working(b)) - 1
      BY <2>1, <3>1, FS_RemoveElement
    <3>3. loads'[b] >= loads[b] - 1
      <4>1. less >= loads[b] - 1
        BY <1>a, <1>6, <2>4
      <4>2. loads'[b] = loads[b] \/ loads'[b] = less
        BY <1>0, <1>b, <1>6, <2>4
      <4>3. loads[b] >= loads[b] - 1
        BY <2>1
      <4> QED
        BY <4>1, <4>2, <4>3
    <3>4. loads'[b] \in Nat
      BY <1>4, <1>6
    <3> QED
      BY <2>1, <3>2, <3>3, <3>4
  <2>5. CASE agent[e] # b
    <3>1. Working(b)' = Working(b)
      BY <2>2, <2>3, <2>5 DEF Working
    <3>2. loads'[b] = loads[b]
      BY <1>3, <1>6, <2>5 DEF Assigned
    <3> QED
      BY <2>1, <3>1, <3>2
  <2> QED
    BY <2>4, <2>5
<1>7. AgentsAreCounted'
  BY <1>6 DEF AgentsAreCounted, Working
<1> QED
  BY <1>4, <1>5, <1>7 DEF Assigned

\* Every step keeps the account of the agents.
LEMMA StepAssigned ==
  ASSUME Regime, IInv, Assigned, [Next]_vars
  PROVE  Assigned'
<1>0. pc \in [Execs -> Labels] /\ \A x \in Execs : obj[x] = x
  BY DEF IInv, Shape, Counted
<1>1. ASSUME NEW e \in Execs, NEW l, l # "infer", pc' = [pc EXCEPT ![e] = l],
             UNCHANGED <<agents, obj>>
      PROVE  Assigned'
  <2>1. \A x \in Execs : pc'[x] = "infer" => pc[x] = "infer" /\ obj'[x] = obj[x]
    BY <1>0, <1>1
  <2> QED
    BY <1>1, <2>1, AgentsIdle DEF agents
<1>2. ASSUME NEW e \in Execs, NEW state, NEW s, NEW label \in {"close", "closeKo"},
             pc[e] = "infer", Settle(e, state, s, label), UNCHANGED obj
      PROVE  Assigned'
  <2>1. PICK l \in {"call", "close", "closeKo", "raised"} : pc' = [pc EXCEPT ![e] = l]
    BY <1>2 DEF Settle, After, Goto
  <2>2. loads' = ReleaseAgent(Key[e]) /\ UNCHANGED <<agentOf, agent, obj>>
    BY <1>2 DEF Settle
  <2>3. l # "infer"
    BY <2>1
  <2> QED
    BY <1>2, <2>1, <2>2, <2>3, AgentsSettle
<1>3. ASSUME NEW e \in Execs, Start(e) PROVE Assigned'
  <2>1. PICK l \in {"call", "unattended"} : pc' = [pc EXCEPT ![e] = l]
    BY <1>3 DEF Start, Goto
  <2>2. UNCHANGED <<agents, obj>> /\ l # "infer"
    BY <1>3, <2>1 DEF Start
  <2> QED
    BY <1>1, <2>1, <2>2
<1>4. ASSUME NEW e \in Execs, Refused(e) \/ Crash(e) \/ Unwelcome(e) PROVE Assigned'
  BY <1>1, <1>4 DEF Refused, Crash, Unwelcome, Goto
<1>5. ASSUME NEW e \in Execs, NotFound(e) \/ OverBudget(e) PROVE Assigned'
  <2>1. PICK l \in {"call", "close"} : pc' = [pc EXCEPT ![e] = l]
    BY <1>5 DEF NotFound, OverBudget, After, Goto
  <2>2. UNCHANGED <<agents, obj>> /\ l # "infer"
    BY <1>5, <2>1 DEF NotFound, OverBudget
  <2> QED
    BY <1>1, <2>1, <2>2
<1>6. ASSUME NEW e \in Execs, Begin(e) PROVE Assigned'
  <2>1. PICK o \in GetTask(Key[e]) : obj' = [obj EXCEPT ![e] = o]
    BY <1>6 DEF Begin
  <2>2. o = e
    BY <2>1, OwnTask
  <2>3. obj'[e] = e
    BY <2>1, <2>2 DEF IInv, Shape
  <2>4. PICK a \in Agents : Assign(Key[e], a) /\ agent' = [agent EXCEPT ![e] = a]
    BY <1>6, <2>3 DEF Begin
  <2>5. pc[e] = "call" /\ pc' = [pc EXCEPT ![e] = "infer"]
    BY <1>6 DEF Begin, Goto
  <2> QED
    BY <2>1, <2>2, <2>4, <2>5, AgentsBegin
<1>7. ASSUME NEW e \in Execs, Unavailable(e) PROVE Assigned'
  BY <1>2, <1>7 DEF Unavailable
<1>8. ASSUME NEW e \in Execs, Answer(e) PROVE Assigned'
  <2>1. pc[e] = "infer" /\ UNCHANGED obj
    BY <1>8 DEF Answer
  <2>2. \/ \E s \in {"completed", "pending", "failed"} : Settle(e, "validating", s, "close")
        \/ pc' = [pc EXCEPT ![e] = "leaked"] /\ UNCHANGED agents
    BY <1>8 DEF Answer, Goto
  <2>3. CASE \E s \in {"completed", "pending", "failed"} : Settle(e, "validating", s, "close")
    BY <1>2, <2>1, <2>3
  <2>4. CASE pc' = [pc EXCEPT ![e] = "leaked"] /\ UNCHANGED agents
    BY <1>1, <2>1, <2>4
  <2> QED
    BY <2>2, <2>3, <2>4
<1>9. ASSUME NEW e \in Execs, Finalize(e) PROVE Assigned'
  <2>1. PICK l \in {"true", "false"} : pc' = [pc EXCEPT ![e] = l]
    BY <1>9 DEF Finalize, Goto
  <2>2. UNCHANGED <<agents, obj>> /\ l # "infer"
    BY <1>9, <2>1 DEF Finalize
  <2> QED
    BY <1>1, <2>1, <2>2
<1>10. ASSUME NEW e \in Execs, Pause(e) \/ Resume(e) \/ Cancel(e) PROVE Assigned'
  <2>1. UNCHANGED <<agents, obj, pc>>
    BY <1>10 DEF Pause, Resume, Cancel
  <2> QED
    BY <2>1, AgentsIdle DEF agents
<1>11. ASSUME Restart PROVE Assigned'
  <2>1. /\ loads' = [a \in Comptes |-> 0] /\ agentOf' = [id \in TaskIds |-> Default]
        /\ agent' = [o \in Execs |-> Default]
    BY <1>11 DEF Restart
  <2>2. \A x \in Execs : pc'[x] # "infer"
    BY <1>11 DEF Restart
  <2>3. \A a : {x \in Execs : pc'[x] = "infer" /\ agent'[obj'[x]] = a} = {}
    BY <2>2
  <2>4. AgentsAreCounted'
    BY <2>1, <2>3, FS_EmptySet DEF AgentsAreCounted
  <2> QED
    BY <2>1, <2>2, <2>4, AgentsAssumption DEF Assigned
<1>12. CASE UNCHANGED vars
  <2>1. UNCHANGED <<agents, obj, pc>>
    BY <1>12 DEF vars
  <2> QED
    BY <2>1, AgentsIdle DEF agents
<1> QED
  BY <1>3, <1>4, <1>5, <1>6, <1>7, <1>8, <1>9, <1>10, <1>11, <1>12 DEF Next, Step

\* _agent_loads never counts an agent for less than the inferences it has
\* under way, for any number of agents and executions and any cap on the
\* assignments: a release looked up by task id after the inference lands on
\* the agent that inference was counted for, or on none.
THEOREM ExecutorAgentsAreCounted == Regime => (Spec => []AgentsAreCounted)
<1> SUFFICES ASSUME Regime PROVE Spec => []AgentsAreCounted
  OBVIOUS
<1>1. Init => Assigned
  <2> SUFFICES ASSUME Init PROVE Assigned
    OBVIOUS
  <2>1. \A a : {e \in Execs : pc[e] = "infer" /\ agent[obj[e]] = a} = {}
    BY DEF Init
  <2>2. AgentsAreCounted
    <3>1. \A a \in Comptes : loads[a] = 0
      BY DEF Init
    <3> QED
      BY <2>1, <3>1, FS_EmptySet DEF AgentsAreCounted
  <2> QED
    BY <2>2, AgentsAssumption DEF Init, Assigned
<1>2. IInv /\ Assigned /\ [Next]_vars => Assigned'
  BY StepAssigned
<1>3. Assigned => AgentsAreCounted
  BY DEF Assigned
<1> QED
  BY Invariance, <1>1, <1>2, <1>3, PTL DEF Spec
=============================================================================
