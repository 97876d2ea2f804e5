------------------------------ MODULE Portillon ------------------------------
(***************************************************************************)
(* The gate that counts the mission nodes running on the whole machine     *)
(* (class Portillon of mission/graph_executor.py) and the method that      *)
(* runs one node behind it (_executer_sous_portillon).                     *)
(*                                                                         *)
(* A thread is a worker of some mission's pool, or the thread that walks   *)
(* a graph sequentially.  Every entry brings its own limit, measured by    *)
(* _limite_de_concurrence at the start of the step: two threads may wait   *)
(* behind the same gate with different limits.                             *)
(*                                                                         *)
(* The condition variable is modelled with its lock: a thread is "teste"   *)
(* when it is about to evaluate the loop condition under the lock, "dort"  *)
(* when it sleeps in wait().  notify() wakes at most one sleeper; the      *)
(* one-second ceiling on wait() wakes any of them.                         *)
(***************************************************************************)
EXTENDS Integers, FiniteSets

CONSTANTS Threads,      \* the threads that may want a place
          Capacities,   \* what ResourceManager may answer, as given
          Repli         \* the constant used when the capacity is not known

ASSUME ThreadsFinite == IsFiniteSet(Threads)
ASSUME CapacitiesAreInts == Capacities \subseteq Int
ASSUME RepliIsInt == Repli \in Int

VARIABLES occupees,   \* Portillon._occupees
          pc,         \* where each thread is
          limite,     \* the limit its step measured
          expire      \* whether its deadline has passed

vars == <<occupees, pc, limite, expire>>

AtLeastOne(n) == IF n < 1 THEN 1 ELSE n

\* _limite_de_concurrence: the capacity ResourceManager answers, the constant
\* when it answers nothing or raises; never less than one.
Limits == {AtLeastOne(c) : c \in Capacities \cup {Repli}}

Inside == {t \in Threads : pc[t] = "dedans"}
Sleepers == {t \in Threads : pc[t] = "dort"}

\* Types of the state; the counter of places is never negative.
TypeOK ==
  /\ occupees \in Nat
  /\ pc \in [Threads -> {"libre", "teste", "dort", "dedans"}]
  /\ limite \in [Threads -> Limits]
  /\ expire \in [Threads -> BOOLEAN]

Init ==
  /\ occupees = 0
  /\ pc = [t \in Threads |-> "libre"]
  /\ limite \in [Threads -> Limits]
  /\ expire = [t \in Threads |-> FALSE]

-----------------------------------------------------------------------------

\* A step measures its limit and hands a node to the thread, which calls
\* place() and takes the lock of the condition.
Demander(t) ==
  /\ pc[t] = "libre"
  /\ pc' = [pc EXCEPT ![t] = "teste"]
  /\ \E l \in Limits : limite' = [limite EXCEPT ![t] = l]
  /\ expire' = [expire EXCEPT ![t] = FALSE]
  /\ UNCHANGED occupees

\* Mutant of Entrer: the loop condition lets one node too many in.
EntrerUnDeTrop(t) ==
  /\ pc[t] = "teste"
  /\ occupees <= limite[t]
  /\ occupees' = occupees + 1
  /\ pc' = [pc EXCEPT ![t] = "dedans"]
  /\ UNCHANGED <<limite, expire>>

\* _entrer, loop condition false: the place is taken.
Entrer(t) ==
  /\ pc[t] = "teste"
  /\ occupees < limite[t]
  /\ occupees' = occupees + 1
  /\ pc' = [pc EXCEPT ![t] = "dedans"]
  /\ UNCHANGED <<limite, expire>>

\* _entrer, no place and time left: wait() releases the lock.
Attendre(t) ==
  /\ pc[t] = "teste"
  /\ occupees >= limite[t]
  /\ ~expire[t]
  /\ pc' = [pc EXCEPT ![t] = "dort"]
  /\ UNCHANGED <<occupees, limite, expire>>

\* Mutant of Renoncer: the refused thread gives back a place it never had
\* (the finally of place() without its test).
RenoncerEtSortir(t) ==
  /\ pc[t] = "teste"
  /\ occupees >= limite[t]
  /\ expire[t]
  /\ occupees' = AtLeastOne(occupees) - 1
  /\ pc' = [pc EXCEPT ![t] = "libre"]
  /\ UNCHANGED <<limite, expire>>

\* _entrer, no place and no time left: place() yields False, the node is
\* reported saturated and fails, and _sortir is not called.
Renoncer(t) ==
  /\ pc[t] = "teste"
  /\ occupees >= limite[t]
  /\ expire[t]
  /\ pc' = [pc EXCEPT ![t] = "libre"]
  /\ UNCHANGED <<occupees, limite, expire>>

\* Mutant of Reveil: wait() without a timeout, only notify() wakes.
ReveilJamais(t) ==
  /\ pc[t] = "dort" /\ pc[t] = "teste"
  /\ UNCHANGED vars

\* The ceiling of one second on wait() (or its deadline) is reached.
Reveil(t) ==
  /\ pc[t] = "dort"
  /\ pc' = [pc EXCEPT ![t] = "teste"]
  /\ UNCHANGED <<occupees, limite, expire>>

\* The step timeout of a waiting thread passes.
Echeance(t) ==
  /\ pc[t] \in {"teste", "dort"}
  /\ ~expire[t]
  /\ expire' = [expire EXCEPT ![t] = TRUE]
  /\ UNCHANGED <<occupees, pc, limite>>

\* notify(): one sleeper, if there is one, is moved out of wait().
Notify(t, woken) ==
  IF Sleepers = {}
  THEN woken = t /\ pc' = [pc EXCEPT ![t] = "libre"]
  ELSE woken \in Sleepers /\ pc' = [pc EXCEPT ![t] = "libre", ![woken] = "teste"]

\* _sortir, at the end of the node whether it returned or raised.
Sortir(t) ==
  /\ pc[t] = "dedans"
  /\ occupees' = IF occupees - 1 < 0 THEN 0 ELSE occupees - 1
  /\ \E woken \in Threads : Notify(t, woken)
  /\ UNCHANGED <<limite, expire>>

Next ==
  \E t \in Threads :
    \/ Demander(t)
    \/ Entrer(t)
    \/ Attendre(t)
    \/ Renoncer(t)
    \/ Reveil(t)
    \/ Echeance(t)
    \/ Sortir(t)

Spec == Init /\ [][Next]_vars

\* A runnable thread is scheduled, wait() honours its timeout, time passes
\* (the deadline of a waiting thread is reached) and a node returns: each
\* node is bounded by the budget of the task executor.  No thread is obliged
\* to ask for a place.
Fairness ==
  \A t \in Threads :
    /\ WF_vars(Entrer(t) \/ Attendre(t) \/ Renoncer(t))
    /\ WF_vars(Reveil(t))
    /\ WF_vars(Echeance(t))
    /\ WF_vars(Sortir(t))

FairSpec == Spec /\ Fairness

-----------------------------------------------------------------------------

\* The counter is the number of threads between _entrer and _sortir: no
\* place is lost or given back twice, whatever the order of refusals,
\* wake-ups and exits, and the clamp max(0, ...) of _sortir never acts.
CounterIsExact == occupees = Cardinality(Inside)

\* R-4, the defect the gate closes: the nodes running at one time, over all
\* missions, are never more than some limit in force for one of them.  Stated
\* for every group of running threads, so that it survives any exit.
Bounded ==
  \A S \in SUBSET Inside :
    S # {} => \E t \in S : Cardinality(S) <= limite[t]

\* A thread that waits ends up inside or refused: neither a notify() that
\* woke a thread with a smaller limit nor a waiter that gave up strands it.
WaitEnds == \A t \in Threads : (pc[t] \in {"teste", "dort"}) ~> (pc[t] \in {"dedans", "libre"})
=============================================================================
