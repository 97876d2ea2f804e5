--------------------------- MODULE MissionsDurables ---------------------------
(***************************************************************************)
(* What _RegistreMissions promises to those who look a mission up by its   *)
(* id (mission/routes.py): one whose document the store has accepted is    *)
(* found by every lookup, through evictions and restarts, as long as the   *)
(* store is open and can be read; one that only memory holds may           *)
(* disappear.  There is no cache here, and no order of insertion.          *)
(***************************************************************************)
CONSTANTS Missions, Threads

VARIABLES durables,  \* missions whose document was accepted once
          ouvert,    \* whether this process has a store
          etat,      \* of each thread: what it has of its mission
          sujet      \* of each thread: its mission

vars == <<durables, ouvert, etat, sujet>>

Init ==
  /\ durables \in SUBSET Missions
  /\ ouvert \in BOOLEAN
  /\ etat = [t \in Threads |-> "repos"]
  /\ sujet \in [Threads -> Missions]

Passe(t, avant, apres) == etat[t] = avant /\ etat' = [etat EXCEPT ![t] = apres]

Concerne(t) == \E m \in Missions : sujet' = [sujet EXCEPT ![t] = m]

\* A mission is created, or is found in memory at once, or is looked for.
Demander(t) ==
  /\ Passe(t, "repos", "tient") \/ Passe(t, "repos", "cherche")
  /\ Concerne(t)
  /\ UNCHANGED <<durables, ouvert>>

Trouver(t) == Passe(t, "cherche", "tient") /\ UNCHANGED <<durables, ouvert, sujet>>

\* KeyError: there is nothing to find.
Manquer(t) ==
  /\ Passe(t, "cherche", "absente")
  /\ sujet[t] \notin durables \/ ~ouvert
  /\ UNCHANGED <<durables, ouvert, sujet>>

\* KeyError: the store is there and does not answer.
Illisible(t) ==
  /\ Passe(t, "cherche", "illisible")
  /\ ouvert
  /\ UNCHANGED <<durables, ouvert, sujet>>

Accepter(t) ==
  /\ etat[t] = "tient" /\ ouvert
  /\ durables' = durables \cup {sujet[t]}
  /\ UNCHANGED <<ouvert, etat, sujet>>

Rendre(t) ==
  /\ \E e \in {"tient", "absente", "illisible"} : Passe(t, e, "repos")
  /\ Concerne(t)
  /\ UNCHANGED <<durables, ouvert>>

Redemarrer ==
  /\ etat' = [t \in Threads |-> "repos"]
  /\ sujet' \in [Threads -> Missions]
  /\ ouvert' \in BOOLEAN
  /\ UNCHANGED durables

Next ==
  \/ \E t \in Threads : \/ Demander(t) \/ Trouver(t) \/ Manquer(t) \/ Illisible(t)
                        \/ Accepter(t) \/ Rendre(t)
  \/ Redemarrer

Spec == Init /\ [][Next]_vars
=============================================================================
