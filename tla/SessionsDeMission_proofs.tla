------------------------ MODULE SessionsDeMission_proofs ------------------------
(***************************************************************************)
(* For any set of calls and keys and any caps: the cap on sessions holds,  *)
(* no agent process is left behind, and the rule on lost turns bounds what *)
(* one session may lose.                                                   *)
(***************************************************************************)
EXTENDS SessionsDeMission, FiniteSetTheorems, TLAPS

\* What the two invariants need to know of the types.
Typed ==
  /\ entrees \in [Keys -> 0..MaxAgents]
  /\ reprise \in [Keys -> BOOLEAN]
  /\ verrou \in SUBSET Callers
  /\ nb \in 0..MaxAgents
  /\ etat \in [Agents -> Etats]
  /\ pc \in [Callers -> Labels]
  /\ cle \in [Callers -> Keys]
  /\ client \in [Callers -> 0..MaxAgents]
  /\ rejoue \in [Callers -> BOOLEAN]

\* The registry lock is held exactly by the call that opens an agent.
Locked ==
  /\ \A c \in Callers : c \in verrou <=> pc[c] = "ouvre"
  /\ \A c, d \in verrou : c = d

\* While it is held the key has no entry, and there is room for the one to
\* come, unless this is a replay.
Room ==
  \A c \in verrou :
    /\ client[c] \in Agents
    /\ entrees[cle[c]] = Aucun
    /\ rejoue[c] = FALSE => Cardinality(Ouvertes(entrees)) < Plafond

\* Only a call that found its client closed opens without a look at the cap.
Replayed == \A c \in Callers : pc[c] = "rouvre" => rejoue[c] = TRUE

IInv == Typed /\ Locked /\ Room /\ Replayed /\ NoStrayAgent /\ CapHolds

\* The sessions that the cap counts.
Comptees(e, r) == {k \in Ouvertes(e) : ~ r[k]}

LEMMA Finiteness ==
  ASSUME NEW e, NEW r
  PROVE  /\ IsFiniteSet(Ouvertes(e)) /\ Cardinality(Ouvertes(e)) \in Nat
         /\ IsFiniteSet(Comptees(e, r)) /\ Cardinality(Comptees(e, r)) \in Nat
         /\ Cardinality(Comptees(e, r)) <= Cardinality(Ouvertes(e))
  <1>1. Ouvertes(e) \subseteq Keys /\ Comptees(e, r) \subseteq Ouvertes(e)
    BY DEF Ouvertes, Comptees
  <1>2. QED  BY <1>1, CallersAssumption, FS_Subset, FS_CardinalityType

\* Closing any keys: no entry appears, and an agent loses its entry only if it
\* is closed.
LEMMA Closing ==
  ASSUME Typed, NEW K, Depiler(K)
  PROVE  /\ entrees' \in [Keys -> 0..MaxAgents]
         /\ reprise' \in [Keys -> BOOLEAN]
         /\ \A k \in Keys : entrees'[k] \in {Aucun, entrees[k]}
         /\ \A k \in Keys : k \in K => entrees'[k] = Aucun
         /\ \A k \in Keys : entrees'[k] # entrees[k] => entrees[k] \in AgentsDe(K)
         /\ Comptees(entrees', reprise') \subseteq Comptees(entrees, reprise)
         /\ entrees' = Sans(K)
  <1>1. entrees' = Sans(K) /\ reprise' = [k \in Keys |-> reprise[k] /\ k \notin K]
    BY DEF Depiler
  <1>2. \A k \in Keys : entrees'[k] = IF k \in K THEN Aucun ELSE entrees[k]
    BY <1>1 DEF Sans
  <1>3. entrees' \in [Keys -> 0..MaxAgents]
    BY <1>1, BoundsAssumption DEF Sans, Typed, Aucun
  <1>4. reprise' \in [Keys -> BOOLEAN]
    BY <1>1
  <1>5. \A k \in Keys : k \notin K => (reprise'[k] <=> reprise[k])
    BY <1>1
  <1>6. \A k \in Keys : entrees'[k] # entrees[k] => entrees[k] \in AgentsDe(K)
    BY <1>2 DEF AgentsDe
  <1>7. Comptees(entrees', reprise') \subseteq Comptees(entrees, reprise)
    BY <1>2, <1>5 DEF Comptees, Ouvertes
  <1>8. QED  BY <1>1, <1>2, <1>3, <1>4, <1>6, <1>7

LEMMA CapAfterClosing ==
  ASSUME CapHolds, Comptees(entrees', reprise') \subseteq Comptees(entrees, reprise)
  PROVE  CapHolds'
  <1>1. CapHolds <=> Cardinality(Comptees(entrees, reprise)) <= Plafond
    BY DEF CapHolds, Comptees
  <1>2. CapHolds' <=> Cardinality(Comptees(entrees', reprise')) <= Plafond
    BY DEF CapHolds, Comptees, Ouvertes
  <1>3. Cardinality(Comptees(entrees', reprise')) <= Cardinality(Comptees(entrees, reprise))
    BY Finiteness, FS_Subset
  <1>4. QED
    BY <1>1, <1>2, <1>3, Finiteness, PlafondsAssumption

\* An action that closes the keys K while nobody holds the lock, and moves one
\* call to a place that does not hold it.
LEMMA ClosingStep ==
  ASSUME IInv, NEW K, Fermer(K), verrou = {}, verrou' = {}, nb' = nb,
         pc' \in [Callers -> Labels], cle' \in [Callers -> Keys],
         client' \in [Callers -> 0..MaxAgents], rejoue' \in [Callers -> BOOLEAN],
         \A c \in Callers : pc'[c] \notin {"ouvre", "rouvre"} \/
                            (pc'[c] = pc[c] /\ rejoue'[c] = rejoue[c])
  PROVE  IInv'
  <1>1. Depiler(K) /\ etat' = FermerClients(K)
    BY DEF Fermer
  <1>2. etat' \in [Agents -> Etats]
    BY <1>1 DEF IInv, Typed, FermerClients, Etats
  <1>3. Typed'
    BY <1>1, <1>2, Closing DEF IInv, Typed
  <1>4. Locked' /\ Room' /\ Replayed'
    BY DEF IInv, Locked, Room, Replayed
  <1>5. NoStrayAgent'
    <2> SUFFICES ASSUME NEW a \in Agents, etat'[a] = "vivant"
                 PROVE  \E k \in Keys : entrees'[k] = a
      BY DEF NoStrayAgent
    <2>1. a \notin AgentsDe(K) /\ etat[a] = "vivant"
      BY <1>1 DEF FermerClients
    <2>2. PICK k \in Keys : entrees[k] = a
      BY <2>1 DEF IInv, NoStrayAgent
    <2>3. QED  BY <1>1, <2>1, <2>2, Closing DEF IInv
  <1>6. CapHolds'
    BY <1>1, Closing, CapAfterClosing DEF IInv
  <1>7. QED  BY <1>3, <1>4, <1>5, <1>6 DEF IInv

\* Starting an agent on a key that the closing leaves without an entry.
LEMMA LaunchStep ==
  ASSUME IInv, NEW c \in Callers, NEW K, verrou = {}, Lancer(c, K),
         Sans(K)[cle[c]] = Aucun,
         rejoue[c] = FALSE => Cardinality(Ouvertes(Sans(K))) < Plafond
  PROVE  IInv'
  <1>1. /\ Depiler(K) /\ nb < MaxAgents /\ nb' = nb + 1
        /\ etat' = [FermerClients(K) EXCEPT ![nb + 1] = "vivant"]
        /\ client' = [client EXCEPT ![c] = nb + 1]
        /\ verrou' = {c} /\ pc' = [pc EXCEPT ![c] = "ouvre"]
        /\ cle' = cle /\ rejoue' = rejoue
    BY DEF Lancer, Aller
  <1>2. nb + 1 \in Agents
    BY <1>1, BoundsAssumption DEF IInv, Typed, Agents
  <1>3. FermerClients(K) \in [Agents -> Etats]
    BY DEF IInv, Typed, FermerClients, Etats
  <1>4. etat' \in [Agents -> Etats]
    BY <1>1, <1>3 DEF Etats
  <1>5. nb' \in 0..MaxAgents /\ client' \in [Callers -> 0..MaxAgents]
    BY <1>1, <1>2, BoundsAssumption DEF IInv, Typed, Agents
  <1>6. pc' \in [Callers -> Labels]
    BY <1>1 DEF IInv, Typed, Labels
  <1>7. Typed'
    BY <1>1, <1>4, <1>5, <1>6, Closing DEF IInv, Typed
  <1>8. Locked' /\ Replayed'
    BY <1>1 DEF IInv, Typed, Locked, Replayed
  <1>9. Room'
    <2>1. entrees' = Sans(K)
      BY <1>1, Closing DEF IInv
    <2>2. Ouvertes(entrees') = Ouvertes(Sans(K))
      BY <2>1
    <2>3. client'[c] = nb + 1
      BY <1>1 DEF IInv, Typed
    <2>4. QED  BY <1>1, <1>2, <2>1, <2>2, <2>3 DEF Room, Ouvertes
  <1>10. NoStrayAgent'
    <2> SUFFICES ASSUME NEW a \in Agents, etat'[a] = "vivant"
                 PROVE  \/ \E k \in Keys : entrees'[k] = a
                        \/ \E d \in verrou' : pc'[d] = "ouvre" /\ client'[d] = a
      BY DEF NoStrayAgent
    <2>1. CASE a = nb + 1
      BY <1>1, <2>1 DEF IInv, Typed
    <2>2. CASE a # nb + 1
      <3>1. a \notin AgentsDe(K) /\ etat[a] = "vivant"
        BY <1>1, <1>3, <2>2 DEF FermerClients
      <3>2. PICK k \in Keys : entrees[k] = a
        BY <3>1 DEF IInv, NoStrayAgent
      <3>3. QED  BY <1>1, <3>1, <3>2, Closing DEF IInv
    <2>3. QED  BY <2>1, <2>2
  <1>11. CapHolds'
    BY <1>1, Closing, CapAfterClosing DEF IInv
  <1>12. QED  BY <1>7, <1>8, <1>9, <1>10, <1>11 DEF IInv

\* A step that opens and closes nothing, and leaves the holder of the lock
\* where it is.
LEMMA QuietStep ==
  ASSUME IInv, entrees' = entrees, reprise' = reprise, verrou' = verrou, nb' = nb,
         etat' = etat,
         pc' \in [Callers -> Labels], cle' \in [Callers -> Keys],
         client' \in [Callers -> 0..MaxAgents], rejoue' \in [Callers -> BOOLEAN],
         \A c \in Callers :
           /\ pc[c] = "ouvre" => /\ pc'[c] = "ouvre" /\ cle'[c] = cle[c]
                                 /\ client'[c] = client[c] /\ rejoue'[c] = rejoue[c]
           /\ pc'[c] = "ouvre" => pc[c] = "ouvre"
           /\ pc'[c] = "rouvre" => rejoue'[c] = TRUE
  PROVE  IInv'
  <1>1. Typed'
    BY DEF IInv, Typed
  <1>2. Locked' /\ Replayed'
    BY DEF IInv, Typed, Locked, Replayed
  <1>3. Ouvertes(entrees') = Ouvertes(entrees)
    OBVIOUS
  <1>4. Room'
    BY <1>3 DEF IInv, Typed, Locked, Room
  <1>5. NoStrayAgent'
    BY DEF IInv, Typed, Locked, NoStrayAgent
  <1>6. CapHolds'
    BY CapAfterClosing DEF IInv
  <1>7. QED  BY <1>1, <1>2, <1>4, <1>5, <1>6 DEF IInv

\* The agent answered: its entry replaces the hold of the lock, and takes the
\* room that was kept for it.
LEMMA OpenedStep ==
  ASSUME IInv, NEW c \in Callers, OuvertureReussie(c)
  PROVE  IInv'
  <1> DEFINE k == cle[c]
             a == client[c]
  <1>1. /\ pc[c] = "ouvre" /\ etat' = etat /\ nb' = nb
        /\ entrees' = [entrees EXCEPT ![k] = a]
        /\ reprise' = [reprise EXCEPT ![k] = rejoue[c]]
        /\ verrou' = {} /\ cle' = cle /\ client' = client /\ rejoue' = rejoue
        /\ pc' = [pc EXCEPT ![c] = IF rejoue[c] THEN "attend" ELSE "modele"]
    BY DEF OuvertureReussie, Aller
  <1>2. /\ c \in verrou /\ verrou = {c} /\ k \in Keys /\ a \in Agents
        /\ entrees[k] = Aucun
        /\ rejoue[c] = FALSE => Cardinality(Ouvertes(entrees)) < Plafond
    BY <1>1 DEF IInv, Typed, Locked, Room
  <1>3. a \in 0..MaxAgents /\ a # Aucun
    BY <1>2, BoundsAssumption DEF Agents, Aucun
  <1>4. Typed'
    <2>1. entrees' \in [Keys -> 0..MaxAgents]
      BY <1>1, <1>2, <1>3 DEF IInv, Typed
    <2>2. reprise' \in [Keys -> BOOLEAN]
      BY <1>1, <1>2 DEF IInv, Typed
    <2>3. pc' \in [Callers -> Labels]
      BY <1>1 DEF IInv, Typed, Labels
    <2>4. QED  BY <1>1, <2>1, <2>2, <2>3 DEF IInv, Typed
  <1>5. Locked' /\ Room' /\ Replayed'
    BY <1>1, <1>2 DEF IInv, Typed, Locked, Room, Replayed
  <1>6. NoStrayAgent'
    <2> SUFFICES ASSUME NEW b \in Agents, etat'[b] = "vivant"
                 PROVE  \E j \in Keys : entrees'[j] = b
      BY DEF NoStrayAgent
    <2>1. CASE b = a
      BY <1>1, <1>2, <2>1 DEF IInv, Typed
    <2>2. CASE b # a
      <3>1. PICK j \in Keys : entrees[j] = b
        BY <1>1, <1>2, <2>2 DEF IInv, NoStrayAgent
      <3>2. j # k
        BY <1>2, <3>1, BoundsAssumption DEF Agents, Aucun
      <3>3. QED  BY <1>1, <3>1, <3>2 DEF IInv, Typed
    <2>3. QED  BY <2>1, <2>2
  <1>7. CapHolds'
    <2>1. CapHolds <=> Cardinality(Comptees(entrees, reprise)) <= Plafond
      BY DEF CapHolds, Comptees
    <2>2. CapHolds' <=> Cardinality(Comptees(entrees', reprise')) <= Plafond
      BY DEF CapHolds, Comptees, Ouvertes
    <2>3. \A j \in Keys : j # k => /\ entrees'[j] = entrees[j]
                                   /\ reprise'[j] <=> reprise[j]
      BY <1>1 DEF IInv, Typed
    <2>4. k \notin Ouvertes(entrees)
      BY <1>2 DEF Ouvertes
    <2>5. CASE rejoue[c] = TRUE
      <3>1. reprise'[k] = TRUE
        BY <1>1, <1>2, <2>5 DEF IInv, Typed
      <3>2. Comptees(entrees', reprise') \subseteq Comptees(entrees, reprise)
        BY <2>3, <3>1 DEF Comptees, Ouvertes
      <3>3. QED  BY <3>2, CapAfterClosing DEF IInv
    <2>6. CASE rejoue[c] = FALSE
      <3>1. Comptees(entrees', reprise') \subseteq Ouvertes(entrees) \cup {k}
        BY <2>3 DEF Comptees, Ouvertes
      <3>2. /\ IsFiniteSet(Ouvertes(entrees) \cup {k})
            /\ Cardinality(Ouvertes(entrees) \cup {k}) = Cardinality(Ouvertes(entrees)) + 1
        BY <2>4, Finiteness, FS_AddElement
      <3>3. Cardinality(Comptees(entrees', reprise')) <= Cardinality(Ouvertes(entrees)) + 1
        BY <3>1, <3>2, FS_Subset
      <3>4. /\ Cardinality(Ouvertes(entrees)) \in Nat
            /\ Cardinality(Comptees(entrees', reprise')) \in Nat
        BY Finiteness
      <3>5. QED  BY <1>2, <2>2, <2>6, <3>3, <3>4, PlafondsAssumption
    <2>7. QED  BY <2>5, <2>6 DEF IInv, Typed
  <1>8. QED  BY <1>4, <1>5, <1>6, <1>7 DEF IInv

\* The opening failed: the process, if it lives, is set apart, and the lock is
\* given back.
LEMMA FailedOpeningStep ==
  ASSUME IInv, NEW c \in Callers, OuvertureRatee(c)
  PROVE  IInv'
  <1>1. /\ pc[c] = "ouvre" /\ nb' = nb /\ entrees' = entrees /\ reprise' = reprise
        /\ verrou' = {} /\ cle' = cle /\ client' = client /\ rejoue' = rejoue
        /\ pc' = [pc EXCEPT ![c] = "ferme"]
        /\ etat' = [etat EXCEPT ![client[c]] =
                      IF etat[client[c]] = "vivant" THEN "orphelin" ELSE etat[client[c]]]
    BY DEF OuvertureRatee, Aller
  <1>2. verrou = {c} /\ client[c] \in Agents
    BY <1>1 DEF IInv, Typed, Locked, Room
  <1>3. etat' \in [Agents -> Etats]
    BY <1>1, <1>2 DEF IInv, Typed, Etats
  <1>4. Typed'
    BY <1>1, <1>3 DEF IInv, Typed, Labels
  <1>5. Locked' /\ Room' /\ Replayed'
    BY <1>1, <1>2 DEF IInv, Typed, Locked, Room, Replayed
  <1>6. NoStrayAgent'
    BY <1>1, <1>2 DEF IInv, Typed, NoStrayAgent
  <1>7. CapHolds'
    BY <1>1, CapAfterClosing DEF IInv
  <1>8. QED  BY <1>4, <1>5, <1>6, <1>7 DEF IInv

LEMMA DeathStep ==
  ASSUME IInv, NEW b \in Agents, AgentMeurt(b)
  PROVE  IInv'
  <1>1. /\ entrees' = entrees /\ reprise' = reprise /\ verrou' = verrou /\ nb' = nb
        /\ pc' = pc /\ cle' = cle /\ client' = client /\ rejoue' = rejoue
        /\ etat' = [etat EXCEPT ![b] = "mort"]
    BY DEF AgentMeurt, locals
  <1>2. etat' \in [Agents -> Etats]
    BY <1>1 DEF IInv, Typed, Etats
  <1>3. Typed' /\ Locked' /\ Replayed'
    BY <1>1, <1>2 DEF IInv, Typed, Locked, Replayed
  <1>4. Room'
    BY <1>1 DEF IInv, Room, Ouvertes
  <1>5. NoStrayAgent'
    BY <1>1 DEF IInv, Typed, NoStrayAgent
  <1>6. CapHolds'
    BY <1>1, CapAfterClosing DEF IInv
  <1>7. QED  BY <1>3, <1>4, <1>5, <1>6 DEF IInv

\* What the end of a call and a move of one call do to the locals.
LEMMA Moves ==
  ASSUME Typed, NEW c \in Callers
  PROVE  /\ \A l \in Labels : Aller(c, l) => /\ pc' \in [Callers -> Labels] /\ pc'[c] = l
                                            /\ \A d \in Callers \ {c} : pc'[d] = pc[d]
         /\ Rendre(c) => /\ pc' \in [Callers -> Labels] /\ pc'[c] = "idle"
                         /\ cle' \in [Callers -> Keys]
                         /\ client' \in [Callers -> 0..MaxAgents]
                         /\ rejoue' \in [Callers -> BOOLEAN]
                         /\ \A d \in Callers \ {c} :
                              /\ pc'[d] = pc[d] /\ cle'[d] = cle[d]
                              /\ client'[d] = client[d] /\ rejoue'[d] = rejoue[d]
  <1>1. AnyKey \in Keys
    BY DEF AnyKey, Typed
  <1>2. Aucun \in 0..MaxAgents
    BY BoundsAssumption DEF Aucun
  <1>3. ASSUME NEW l \in Labels, Aller(c, l)
        PROVE  /\ pc' \in [Callers -> Labels] /\ pc'[c] = l
               /\ \A d \in Callers \ {c} : pc'[d] = pc[d]
    BY <1>3 DEF Aller, Typed
  <1>4. "idle" \in Labels
    BY DEF Labels
  <1>5. ASSUME Rendre(c)
        PROVE  /\ cle' \in [Callers -> Keys] /\ client' \in [Callers -> 0..MaxAgents]
               /\ rejoue' \in [Callers -> BOOLEAN] /\ Aller(c, "idle")
               /\ \A d \in Callers \ {c} : /\ cle'[d] = cle[d] /\ client'[d] = client[d]
                                           /\ rejoue'[d] = rejoue[d]
    BY <1>1, <1>2, <1>5 DEF Rendre, Typed
  <1>6. QED  BY <1>3, <1>4, <1>5

LEMMA InitInv == Init => IInv
  <1> SUFFICES ASSUME Init PROVE IInv
    OBVIOUS
  <1>1. AnyKey \in Keys
    BY CallersAssumption DEF AnyKey
  <1>2. Typed
    <2>1. 0 \in 0..MaxAgents
      BY BoundsAssumption
    <2>2. /\ entrees \in [Keys -> 0..MaxAgents] /\ reprise \in [Keys -> BOOLEAN]
          /\ client \in [Callers -> 0..MaxAgents] /\ rejoue \in [Callers -> BOOLEAN]
          /\ nb \in 0..MaxAgents
      BY <2>1 DEF Init, Aucun
    <2>3. /\ verrou \in SUBSET Callers /\ etat \in [Agents -> Etats]
          /\ pc \in [Callers -> Labels] /\ cle \in [Callers -> Keys]
      BY <1>1 DEF Init, Etats, Labels
    <2>4. QED  BY <2>2, <2>3 DEF Typed
  <1>3. Locked /\ Room /\ Replayed /\ NoStrayAgent
    BY DEF Init, Locked, Room, Replayed, NoStrayAgent
  <1>4. Comptees(entrees, reprise) = {}
    BY DEF Init, Comptees, Ouvertes
  <1>5. CapHolds
    BY <1>4, FS_EmptySet, PlafondsAssumption DEF CapHolds, Comptees
  <1>6. QED  BY <1>2, <1>3, <1>5 DEF IInv

\* Every step keeps the invariant.
LEMMA StepInv == IInv /\ [Next]_vars => IInv'
  <1> SUFFICES ASSUME IInv, [Next]_vars PROVE IInv'
    OBVIOUS
  <1>t. /\ Typed /\ Locked /\ Replayed
        /\ pc \in [Callers -> Labels] /\ cle \in [Callers -> Keys]
        /\ client \in [Callers -> 0..MaxAgents] /\ rejoue \in [Callers -> BOOLEAN]
    BY DEF IInv, Typed
  <1>l. {"idle", "dispo", "neuf", "tour", "modele", "bascule", "attend", "parle",
         "rouvre", "ferme"} \subseteq Labels
    BY DEF Labels
  <1>1. ASSUME NEW c \in Callers, Appel(c) PROVE IInv'
    <2>1. /\ UNCHANGED <<entrees, reprise, verrou, nb, etat, client, rejoue>>
          /\ cle' \in [Callers -> Keys] /\ Aller(c, "dispo") /\ pc[c] = "idle"
          /\ \A d \in Callers \ {c} : cle'[d] = cle[d]
      BY <1>1, <1>t DEF Appel, fiches
    <2>2. QED  BY <1>t, <1>l, <2>1, Moves, QuietStep DEF Replayed
  <1>2. ASSUME NEW c \in Callers, Disponible(c) PROVE IInv'
    <2>1. /\ Fermer(Expirees) /\ verrou = {} /\ pc[c] = "dispo"
          /\ UNCHANGED <<verrou, nb, cle, client, rejoue>>
          /\ Aller(c, "neuf") \/ Aller(c, "tour")
      BY <1>2 DEF Disponible
    <2>2. QED  BY <1>t, <1>l, <2>1, Moves, ClosingStep
  <1>3. ASSUME NEW c \in Callers, Ecarte(c) PROVE IInv'
    <2>1. Fermer(Expirees) /\ verrou = {} /\ UNCHANGED <<verrou, nb>> /\ Rendre(c)
      BY <1>3 DEF Ecarte
    <2>2. QED  BY <1>t, <2>1, Moves, ClosingStep
  <1>4. ASSUME NEW c \in Callers, RepartirANeuf(c) PROVE IInv'
    <2>1. /\ Fermer({cle[c]}) /\ verrou = {} /\ UNCHANGED <<verrou, nb, cle, client, rejoue>>
          /\ Aller(c, "tour")
      BY <1>4 DEF RepartirANeuf
    <2>2. QED  BY <1>t, <1>l, <2>1, Moves, ClosingStep
  <1>5. ASSUME NEW c \in Callers, TourSurEntree(c) PROVE IInv'
    <2> DEFINE a == Sans(AFermer(c))[cle[c]]
    <2>1. /\ Fermer(AFermer(c)) /\ verrou = {} /\ UNCHANGED <<verrou, nb, cle, rejoue>>
          /\ client' = [client EXCEPT ![c] = a]
          /\ Aller(c, "attend") \/ Aller(c, "modele")
      BY <1>5 DEF TourSurEntree
    <2>2. a \in 0..MaxAgents
      BY <1>t, BoundsAssumption DEF Sans, Typed, Aucun
    <2>3. client' \in [Callers -> 0..MaxAgents]
      BY <1>t, <2>1, <2>2
    <2>4. QED  BY <1>t, <1>l, <2>1, <2>3, Moves, ClosingStep
  <1>6. ASSUME NEW c \in Callers, NEW K, LancementRate(c, K), verrou = {} PROVE IInv'
    <2>1. Fermer(K) /\ UNCHANGED <<verrou, nb, cle, client, rejoue>> /\ Aller(c, "ferme")
      BY <1>6 DEF LancementRate
    <2>2. QED  BY <1>t, <1>l, <1>6, <2>1, Moves, ClosingStep
  <1>7. ASSUME NEW c \in Callers, TourOuvre(c) PROVE IInv'
    <2>1. /\ verrou = {} /\ Sans(AFermer(c))[cle[c]] = Aucun
          /\ Cardinality(Ouvertes(Sans(AFermer(c)))) < Plafond
          /\ Lancer(c, AFermer(c)) \/ LancementRate(c, AFermer(c))
      BY <1>7 DEF TourOuvre
    <2>2. QED  BY <1>6, <2>1, LaunchStep
  <1>8. ASSUME NEW c \in Callers, TourPlein(c) PROVE IInv'
    <2>1. /\ Fermer(AFermer(c)) /\ verrou = {} /\ UNCHANGED <<verrou, nb, cle, client, rejoue>>
          /\ Aller(c, "ferme")
      BY <1>8 DEF TourPlein
    <2>2. QED  BY <1>t, <1>l, <2>1, Moves, ClosingStep
  <1>9. ASSUME NEW c \in Callers, ChoisirModele(c) \/ Parler(c) PROVE IInv'
    <2>1. /\ UNCHANGED <<entrees, reprise, verrou, nb, etat, cle, client, rejoue>>
          /\ pc[c] \in {"modele", "attend"}
          /\ Aller(c, "bascule") \/ Aller(c, "parle")
      BY <1>9 DEF ChoisirModele, Parler, Prendre, fiches
    <2>2. QED  BY <1>t, <1>l, <2>1, Moves, QuietStep DEF Replayed
  <1>10. ASSUME NEW c \in Callers, Bascule(c) PROVE IInv'
    <2>1. /\ UNCHANGED <<entrees, reprise, verrou, nb, etat, cle, client>>
          /\ pc[c] = "bascule"
          /\ rejoue' = [rejoue EXCEPT ![c] = (etat[client[c]] = "ferme")]
          /\ Aller(c, IF etat[client[c]] = "ferme" THEN "rouvre" ELSE "attend")
      BY <1>10 DEF Bascule
    <2>2. /\ rejoue' \in [Callers -> BOOLEAN]
          /\ \A d \in Callers \ {c} : rejoue'[d] = rejoue[d]
      BY <1>t, <2>1
    <2>3. etat[client[c]] = "ferme" => rejoue'[c] = TRUE
      BY <1>t, <2>1
    <2>4. /\ pc' \in [Callers -> Labels] /\ \A d \in Callers \ {c} : pc'[d] = pc[d]
          /\ pc'[c] \in {"rouvre", "attend"} /\ (pc'[c] = "rouvre" => rejoue'[c] = TRUE)
      BY <1>t, <1>l, <2>1, <2>3, Moves
    <2>5. QED  BY <1>t, <2>1, <2>2, <2>4, QuietStep DEF Replayed
  <1>11. ASSUME NEW c \in Callers, TourRendu(c) PROVE IInv'
    <2>1. /\ UNCHANGED <<entrees, reprise, verrou, nb, etat>> /\ pc[c] = "parle" /\ Rendre(c)
      BY <1>11 DEF TourRendu
    <2>2. QED  BY <1>t, <2>1, Moves, QuietStep DEF Replayed
  <1>12. ASSUME NEW c \in Callers, Reprendre(c) PROVE IInv'
    <2>1. /\ pc[c] = "rouvre" /\ verrou = {}
          /\ Lancer(c, {cle[c]}) \/ LancementRate(c, {cle[c]})
      BY <1>12 DEF Reprendre
    <2>2. Sans({cle[c]})[cle[c]] = Aucun /\ rejoue[c] = TRUE
      BY <1>t, <2>1 DEF Sans, Replayed
    <2>3. QED  BY <1>6, <2>1, <2>2, LaunchStep
  <1>13. ASSUME NEW c \in Callers, FermerApresEchec(c) PROVE IInv'
    <2>1. Fermer({cle[c]}) /\ verrou = {} /\ UNCHANGED <<verrou, nb>> /\ Rendre(c)
      BY <1>13 DEF FermerApresEchec
    <2>2. QED  BY <1>t, <2>1, Moves, ClosingStep
  <1>14. ASSUME NEW k \in Keys, FinDeMission(k) PROVE IInv'
    <2>1. /\ Fermer({k}) /\ verrou = {} /\ UNCHANGED <<verrou, nb, pc, cle, client, rejoue>>
      BY <1>14 DEF FinDeMission, locals
    <2>2. QED  BY <1>t, <2>1, ClosingStep
  <1>15. ASSUME NEW k \in Keys, TempsPasse(k) \/ Demenage(k) PROVE IInv'
    <2>1. UNCHANGED <<entrees, reprise, verrou, nb, etat, pc, cle, client, rejoue>>
      BY <1>15 DEF TempsPasse, Demenage, locals, fiches
    <2>2. QED  BY <1>t, <2>1, QuietStep DEF Replayed
  <1>16. CASE UNCHANGED vars
    <2>1. UNCHANGED <<entrees, reprise, verrou, nb, etat, pc, cle, client, rejoue>>
      BY <1>16 DEF vars, locals, fiches
    <2>2. QED  BY <1>t, <2>1, QuietStep DEF Replayed
  <1>17. QED
    BY <1>1, <1>2, <1>3, <1>4, <1>5, <1>7, <1>8, <1>9, <1>10, <1>11, <1>12, <1>13, <1>14,
       <1>15, <1>16, OpenedStep, FailedOpeningStep, DeathStep DEF Next, Step

\* At most Plafond sessions are open, apart from those a replay reopened,
\* although the test and the registration of a session are an await apart.
THEOREM SessionCap == Spec => []CapHolds
  <1>1. IInv => CapHolds
    BY DEF IInv
  <1>2. QED  BY InitInv, StepInv, <1>1, PTL DEF Spec

\* No agent process runs without an entry, outside an opening.
THEOREM NoAgentIsStray == Spec => []NoStrayAgent
  <1>1. IInv => NoStrayAgent
    BY DEF IInv
  <1>2. QED  BY InitInv, StepInv, <1>1, PTL DEF Spec

------------------------------------------------------------------------------
(* The rule on lost turns.  The count of the rule belongs to a key and the *)
(* turns are lost in a session, so the argument follows which session      *)
(* belongs to which key, and which calls are past the decision of the rule.*)

\* The calls of k that the rule let go on with the imposed model.
Engages(k) ==
  {c \in Callers : /\ cle[c] = k /\ choix[c] = "impose"
                   /\ pc[c] \notin {"idle", "dispo", "neuf", "ferme"}}

\* Where a call has an agent with a session, and where it has none.
Servi == {"modele", "bascule", "attend", "parle", "rouvre"}
SansAgent == {"idle", "dispo", "neuf", "tour"}

CountsTyped ==
  /\ ident \in [Keys -> 0..MaxAgents]
  /\ perdus \in [Keys -> Nat]
  /\ sid \in [Agents -> 0..MaxAgents]
  /\ choix \in [Callers -> {"impose", "secours"}]
  /\ pertes \in [Agents -> Nat]

\* Only the numbers given so far are in use.
Numbered ==
  /\ \A k \in Keys : entrees[k] <= nb /\ ident[k] <= nb
  /\ \A c \in Callers : client[c] <= nb
  /\ \A a \in Agents : sid[a] <= nb /\ (a > nb => sid[a] = Aucun /\ pertes[a] = 0)

\* The agent being opened is nobody else's, and its session is yet to come.
Unshared ==
  \A c \in verrou :
    /\ sid[client[c]] = Aucun /\ pertes[client[c]] = 0
    /\ \A a \in Agents : sid[a] # client[c]
    /\ \A k \in Keys : entrees[k] # client[c] /\ ident[k] # client[c]
    /\ \A d \in Callers \ {c} : client[d] # client[c]

Served ==
  /\ \A c \in Callers : pc[c] \in SansAgent => client[c] = Aucun
  /\ \A c \in Callers : pc[c] \in Servi => client[c] # Aucun /\ sid[client[c]] # Aucun
  /\ \A k \in Keys : entrees[k] # Aucun => sid[entrees[k]] = ident[k] /\ ident[k] # Aucun

\* o gives each agent and each session the key it was created for.
Owned(o) ==
  /\ \A k \in Keys : /\ entrees[k] # Aucun => o[entrees[k]] = k
                     /\ ident[k] # Aucun => o[ident[k]] = k
  /\ \A c \in Callers : client[c] # Aucun => o[client[c]] = cle[c]
  /\ \A a \in Agents : sid[a] # Aucun => o[sid[a]] = o[a]

OneOwner == \E o \in [Agents -> Keys] : Owned(o)

\* The present session of a key lost no more turns than the rule counts, and
\* the calls under way cannot take it past the bound.
Within(k) ==
  ident[k] # Aucun =>
    /\ pertes[ident[k]] <= perdus[k]
    /\ pertes[ident[k]] + Cardinality(Engages(k)) < PlafondTours + Cardinality(Callers)

Counts ==
  CountsTyped /\ Numbered /\ Unshared /\ Served /\ OneOwner /\ \A k \in Keys : Within(k)

LEMMA EngagesFinite ==
  /\ Cardinality(Callers) \in Nat
  /\ \A k : /\ IsFiniteSet(Engages(k)) /\ Cardinality(Engages(k)) \in Nat
            /\ Cardinality(Engages(k)) <= Cardinality(Callers)
  <1>1. Cardinality(Callers) \in Nat
    BY CallersAssumption, FS_CardinalityType
  <1>2. ASSUME NEW k PROVE Engages(k) \in SUBSET Callers
    BY DEF Engages
  <1>3. ASSUME NEW k
        PROVE  /\ IsFiniteSet(Engages(k)) /\ Cardinality(Engages(k)) \in Nat
               /\ Cardinality(Engages(k)) <= Cardinality(Callers)
    <2>1. IsFiniteSet(Engages(k)) /\ Cardinality(Engages(k)) <= Cardinality(Callers)
      BY <1>2, CallersAssumption, FS_Subset
    <2>2. QED  BY <2>1, FS_CardinalityType
  <1>4. QED  BY <1>1, <1>3

\* A call that does not move, or moves without opening, losing or deciding
\* anything the rule forbids.
Unmoved(c) ==
  /\ pc'[c] = pc[c] /\ cle'[c] = cle[c] /\ client'[c] = client[c] /\ choix'[c] = choix[c]

Moved(c) ==
  /\ c \notin verrou'
  /\ \/ client'[c] = Aucun
     \/ cle'[c] = cle[c] /\ client'[c] \in {client[c], entrees[cle[c]]}
  /\ pc'[c] \in SansAgent => client'[c] = Aucun
  /\ pc'[c] \in Servi => client'[c] # Aucun /\ sid[client'[c]] # Aucun
  /\ \A k \in Keys : c \in Engages(k)' =>
       c \in Engages(k) \/ perdus[k] < PlafondTours \/ ident[k] = Aucun

LEMMA CalmStep ==
  ASSUME IInv, IInv', Counts,
         UNCHANGED <<ident, perdus, sid, pertes, nb>>,
         \A k \in Keys : entrees'[k] \in {Aucun, entrees[k]},
         verrou' \subseteq verrou,
         choix' \in [Callers -> {"impose", "secours"}],
         \A c \in Callers : Unmoved(c) \/ Moved(c)
  PROVE  Counts'
  <1>t. /\ client \in [Callers -> 0..MaxAgents] /\ client' \in [Callers -> 0..MaxAgents]
        /\ entrees \in [Keys -> 0..MaxAgents] /\ entrees' \in [Keys -> 0..MaxAgents]
        /\ cle \in [Callers -> Keys] /\ nb \in Nat /\ verrou \in SUBSET Callers
    BY BoundsAssumption DEF IInv, Typed
  <1>c. CountsTyped /\ Numbered /\ Unshared /\ Served /\ OneOwner /\ \A k \in Keys : Within(k)
    BY DEF Counts
  <1>m. \A c \in Callers :
          /\ client'[c] \in {Aucun, client[c], entrees[cle[c]]}
          /\ c \in verrou' => Unmoved(c)
          /\ client'[c] # Aucun => cle'[c] = cle[c]
    BY DEF Unmoved, Moved
  <1>1. CountsTyped'
    BY <1>c DEF CountsTyped
  <1>2. Numbered'
    BY <1>c, <1>t, <1>m DEF Numbered, Aucun
  <1>3. Unshared'
    <2> SUFFICES ASSUME NEW c \in verrou' PROVE
           /\ sid[client'[c]] = Aucun /\ pertes[client'[c]] = 0
           /\ \A a \in Agents : sid[a] # client'[c]
           /\ \A k \in Keys : entrees'[k] # client'[c] /\ ident[k] # client'[c]
           /\ \A d \in Callers \ {c} : client'[d] # client'[c]
      BY DEF Unshared
    <2>1. c \in verrou /\ c \in Callers /\ client'[c] = client[c]
      BY <1>t, <1>m DEF Unmoved
    <2>2. client[c] # Aucun
      BY <2>1 DEF IInv, Room, Agents, Aucun
    <2>3. QED  BY <1>c, <1>m, <1>t, <2>1, <2>2 DEF Unshared
  <1>4. Served'
    BY <1>c DEF Served, Unmoved, Moved
  <1>5. OneOwner'
    <2>1. PICK o \in [Agents -> Keys] : Owned(o)
      BY <1>c DEF OneOwner
    <2>2. Owned(o)'
      BY <1>m, <1>t, <2>1 DEF Owned
    <2>3. QED  BY <2>2 DEF OneOwner
  <1>6. ASSUME NEW k \in Keys PROVE Within(k)'
    <2>1. CASE ident[k] = Aucun
      BY <2>1 DEF Within
    <2>2. CASE ident[k] # Aucun
      <3>0. ident[k] \in Agents /\ pertes[ident[k]] \in Nat /\ perdus[k] \in Nat
        BY <1>c, <2>2, BoundsAssumption DEF CountsTyped, Agents, Aucun
      <3>1. CASE Engages(k)' \subseteq Engages(k)
        <4>1. Cardinality(Engages(k)') <= Cardinality(Engages(k))
          BY <3>1, EngagesFinite, FS_Subset
        <4>2. IsFiniteSet(Engages(k)') /\ Cardinality(Engages(k)') \in Nat
          BY <3>1, EngagesFinite, FS_Subset, FS_CardinalityType
        <4>3. QED  BY <1>c, <2>2, <3>0, <4>1, <4>2, EngagesFinite, PlafondsAssumption DEF Within
      <3>2. CASE perdus[k] < PlafondTours
        <4>1. Engages(k)' \in SUBSET Callers
          BY DEF Engages
        <4>2. Cardinality(Engages(k)') <= Cardinality(Callers) /\ Cardinality(Engages(k)') \in Nat
          BY <4>1, CallersAssumption, FS_Subset, FS_CardinalityType
        <4>3. QED  BY <1>c, <2>2, <3>0, <3>2, <4>2, EngagesFinite, PlafondsAssumption DEF Within
      <3>3. CASE perdus[k] >= PlafondTours
        <4>1. ASSUME NEW c \in Callers, c \in Engages(k)' PROVE c \in Engages(k)
          <5>1. CASE Unmoved(c)
            BY <4>1, <5>1 DEF Unmoved, Engages
          <5>2. CASE Moved(c)
            BY <2>2, <3>0, <3>3, <4>1, <5>2, PlafondsAssumption DEF Moved
          <5>3. QED  BY <5>1, <5>2
        <4>2. Engages(k)' \subseteq Engages(k)
          BY <4>1 DEF Engages
        <4>3. QED  BY <3>1, <4>2
      <3>4. QED  BY <3>0, <3>2, <3>3, PlafondsAssumption
    <2>3. QED  BY <2>1, <2>2
  <1>7. QED  BY <1>1, <1>2, <1>3, <1>4, <1>5, <1>6 DEF Counts

\* A new agent takes the next number, which nothing refers to yet.
LEMMA LaunchCounts ==
  ASSUME IInv, IInv', Counts, NEW c \in Callers, NEW K, Lancer(c, K), verrou = {},
         pc[c] \in {"tour", "rouvre"}
  PROVE  Counts'
  <1>t. /\ client \in [Callers -> 0..MaxAgents] /\ pc \in [Callers -> Labels]
        /\ entrees \in [Keys -> 0..MaxAgents] /\ cle \in [Callers -> Keys]
        /\ nb \in Nat /\ nb < MaxAgents /\ nb + 1 \in Agents /\ MaxAgents \in Nat
    BY BoundsAssumption DEF IInv, Typed, Lancer, Agents
  <1>c. CountsTyped /\ Numbered /\ Served /\ OneOwner /\ \A k \in Keys : Within(k)
    BY DEF Counts
  <1>1. /\ UNCHANGED <<ident, perdus, sid, cle, choix, pertes>>
        /\ nb' = nb + 1 /\ verrou' = {c}
        /\ client' = [client EXCEPT ![c] = nb + 1]
        /\ pc' = [pc EXCEPT ![c] = "ouvre"]
    BY DEF Lancer, Aller
  <1>2. \A k \in Keys : entrees'[k] \in {Aucun, entrees[k]}
    BY Closing DEF Lancer, IInv
  <1>3. \A d \in Callers : client'[d] = IF d = c THEN nb + 1 ELSE client[d]
    BY <1>1, <1>t
  <1>4. CountsTyped'
    BY <1>1, <1>c DEF CountsTyped
  <1>5. Numbered'
    <2>1. \A k \in Keys : entrees'[k] <= nb + 1 /\ ident[k] <= nb + 1
      BY <1>2, <1>c, <1>t DEF Numbered, CountsTyped, Aucun
    <2>2. \A d \in Callers : client'[d] <= nb + 1
      BY <1>3, <1>c, <1>t DEF Numbered
    <2>3. \A a \in Agents : sid[a] <= nb + 1 /\ (a > nb + 1 => sid[a] = Aucun /\ pertes[a] = 0)
      BY <1>c, <1>t DEF Numbered, CountsTyped, Agents
    <2>4. QED  BY <1>1, <2>1, <2>2, <2>3 DEF Numbered
  <1>6. Unshared'
    <2>1. client'[c] = nb + 1 /\ sid[nb + 1] = Aucun /\ pertes[nb + 1] = 0
      BY <1>3, <1>c, <1>t DEF Numbered
    <2>2. \A a \in Agents : sid[a] # nb + 1
      BY <1>c, <1>t DEF Numbered, CountsTyped
    <2>3. \A k \in Keys : entrees'[k] # nb + 1 /\ ident[k] # nb + 1
      BY <1>2, <1>c, <1>t DEF Numbered, CountsTyped, Aucun
    <2>4. \A d \in Callers \ {c} : client'[d] # nb + 1
      BY <1>3, <1>c, <1>t DEF Numbered
    <2>5. QED  BY <1>1, <2>1, <2>2, <2>3, <2>4 DEF Unshared
  <1>7. Served'
    BY <1>1, <1>2, <1>3, <1>c, <1>t DEF Served, SansAgent, Servi
  <1>8. OneOwner'
    <2>1. PICK o \in [Agents -> Keys] : Owned(o)
      BY <1>c DEF OneOwner
    <2>2. PICK p \in [Agents -> Keys] :
             p[nb + 1] = cle[c] /\ \A a \in Agents : a <= nb => p[a] = o[a]
      <3>1. [o EXCEPT ![nb + 1] = cle[c]] \in [Agents -> Keys]
        BY <1>t, <2>1
      <3>2. \A a \in Agents : a <= nb => a # nb + 1
        BY <1>t
      <3>3. QED  BY <1>t, <2>1, <3>1, <3>2
    <2>n. /\ \A k \in Keys : /\ entrees'[k] # Aucun => entrees'[k] = entrees[k] /\ entrees[k] \in Agents
                             /\ ident[k] # Aucun => ident[k] \in Agents
                             /\ entrees[k] <= nb /\ ident[k] <= nb
          /\ \A d \in Callers : client[d] <= nb /\ (client[d] # Aucun => client[d] \in Agents)
          /\ \A a \in Agents : sid[a] <= nb /\ (sid[a] # Aucun => sid[a] \in Agents /\ a <= nb)
      <3>1. \A x \in 0..MaxAgents : x # Aucun => x \in Agents
        BY DEF Agents, Aucun
      <3>2. ASSUME NEW a \in Agents
            PROVE  sid[a] <= nb /\ (sid[a] # Aucun => sid[a] \in Agents /\ a <= nb)
        <4>1. a > nb \/ a <= nb
          BY <1>t DEF Agents
        <4>2. sid[a] \in 0..MaxAgents
          BY <1>c DEF CountsTyped
        <4>3. sid[a] <= nb /\ (a > nb => sid[a] = Aucun)
          BY <1>c DEF Numbered
        <4>4. QED  BY <3>1, <4>1, <4>2, <4>3
      <3>3. QED  BY <1>2, <1>c, <1>t, <3>1, <3>2 DEF Numbered, CountsTyped
    <2>3. \A k \in Keys : /\ entrees'[k] # Aucun => p[entrees'[k]] = k
                          /\ ident[k] # Aucun => p[ident[k]] = k
      BY <2>1, <2>2, <2>n DEF Owned
    <2>4. \A d \in Callers : client'[d] # Aucun => p[client'[d]] = cle[d]
      BY <1>3, <2>1, <2>2, <2>n DEF Owned
    <2>5. \A a \in Agents : sid[a] # Aucun => p[sid[a]] = p[a]
      BY <2>1, <2>2, <2>n DEF Owned
    <2>6. Owned(p)'
      BY <1>1, <2>3, <2>4, <2>5 DEF Owned
    <2>7. QED  BY <2>2, <2>6 DEF OneOwner
  <1>9. ASSUME NEW k \in Keys PROVE Within(k)'
    <2>1. Engages(k)' = Engages(k)
      BY <1>1, <1>t DEF Engages
    <2>2. QED  BY <1>1, <1>c, <2>1 DEF Within
  <1>10. QED  BY <1>4, <1>5, <1>6, <1>7, <1>8, <1>9 DEF Counts

\* The agent serves the session of its key again, or a new one that lost no
\* turn.
LEMMA OpenedCounts ==
  ASSUME IInv, IInv', Counts, NEW c \in Callers, OuvertureReussie(c)
  PROVE  Counts'
  <1> DEFINE k == cle[c]
             a == client[c]
  <1>t. /\ client \in [Callers -> 0..MaxAgents] /\ pc \in [Callers -> Labels]
        /\ entrees \in [Keys -> 0..MaxAgents] /\ cle \in [Callers -> Keys]
        /\ nb \in Nat /\ k \in Keys
    BY BoundsAssumption DEF IInv, Typed
  <1>c. CountsTyped /\ Numbered /\ Unshared /\ Served /\ OneOwner /\ \A j \in Keys : Within(j)
    BY DEF Counts
  <1>v. c \in verrou /\ a \in Agents /\ pc[c] = "ouvre"
    BY DEF OuvertureReussie, IInv, Locked, Room
  <1>f. /\ pertes[a] = 0
        /\ \A j \in Keys : entrees[j] # a /\ ident[j] # a
        /\ \A d \in Callers \ {c} : client[d] # a
    BY <1>c, <1>v DEF Unshared
  <1>1. PICK s \in {a} \cup ({ident[k]} \ {Aucun}) :
           sid' = [sid EXCEPT ![a] = s] /\ ident' = [ident EXCEPT ![k] = s]
    BY DEF OuvertureReussie
  <1>2. /\ UNCHANGED <<perdus, nb, cle, client, choix, pertes>>
        /\ verrou' = {} /\ entrees' = [entrees EXCEPT ![k] = a]
        /\ pc' = [pc EXCEPT ![c] = IF rejoue[c] THEN "attend" ELSE "modele"]
    BY DEF OuvertureReussie, Aller
  <1> HIDE DEF k, a
  <1>3. s \in Agents /\ s \in 0..MaxAgents /\ s # Aucun /\ s <= nb /\ a <= nb
    BY <1>1, <1>c, <1>v, <1>t DEF CountsTyped, Numbered, Agents, Aucun, a
  <1>4. /\ \A j \in Keys : /\ entrees'[j] = IF j = k THEN a ELSE entrees[j]
                           /\ ident'[j] = IF j = k THEN s ELSE ident[j]
        /\ \A b \in Agents : sid'[b] = IF b = a THEN s ELSE sid[b]
    BY <1>1, <1>2, <1>c, <1>t, <1>v DEF CountsTyped
  <1>5. CountsTyped'
    BY <1>1, <1>2, <1>3, <1>c DEF CountsTyped
  <1>6. Numbered'
    <2>1. \A j \in Keys : entrees'[j] <= nb /\ ident'[j] <= nb
      BY <1>3, <1>4, <1>c DEF Numbered
    <2>2. \A b \in Agents : sid'[b] <= nb /\ (b > nb => sid'[b] = Aucun /\ pertes[b] = 0)
      BY <1>3, <1>4, <1>c, <1>v, <1>t DEF Numbered, Agents
    <2>3. QED  BY <1>2, <1>c, <2>1, <2>2 DEF Numbered
  <1>7. Unshared'
    BY <1>2 DEF Unshared
  <1>8. Served'
    <2>1. \A d \in Callers : pc'[d] \in SansAgent => client[d] = Aucun
      BY <1>2, <1>c, <1>t DEF Served, SansAgent
    <2>2. ASSUME NEW d \in Callers, pc'[d] \in Servi
          PROVE  client[d] # Aucun /\ sid'[client[d]] # Aucun
      <3>1. CASE d = c
        BY <1>3, <1>4, <1>v, <3>1 DEF a, Agents, Aucun
      <3>2. CASE d # c
        <4>1. client[d] # Aucun /\ client[d] # a /\ sid[client[d]] # Aucun /\ client[d] \in Agents
          BY <1>2, <1>c, <1>f, <1>t, <2>2, <3>2 DEF Served, Agents, Aucun
        <4>2. QED  BY <1>4, <4>1
      <3>3. QED  BY <3>1, <3>2
    <2>3. ASSUME NEW j \in Keys, entrees'[j] # Aucun
          PROVE  sid'[entrees'[j]] = ident'[j] /\ ident'[j] # Aucun
      <3>1. CASE j = k
        BY <1>3, <1>4, <1>v, <3>1
      <3>2. CASE j # k
        <4>1. entrees'[j] = entrees[j] /\ entrees[j] \in Agents /\ entrees[j] # a
          BY <1>4, <1>f, <1>t, <2>3, <3>2 DEF Agents, Aucun
        <4>2. QED  BY <1>4, <1>c, <2>3, <3>2, <4>1 DEF Served
      <3>3. QED  BY <3>1, <3>2
    <2>4. QED  BY <1>2, <2>1, <2>2, <2>3 DEF Served
  <1>9. OneOwner'
    <2>1. PICK o \in [Agents -> Keys] : Owned(o)
      BY <1>c DEF OneOwner
    <2>2. o[a] = k /\ o[s] = k
      BY <1>1, <1>v, <1>t, <2>1 DEF Owned, a, k, Agents, Aucun
    <2>3. Owned(o)'
      BY <1>2, <1>4, <2>1, <2>2 DEF Owned
    <2>4. QED  BY <2>3 DEF OneOwner
  <1>10. ASSUME NEW j \in Keys PROVE Within(j)'
    <2>1. Engages(j)' = Engages(j)
      BY <1>2, <1>t, <1>v DEF Engages
    <2>2. CASE j = k /\ s = a
      BY <1>2, <1>4, <1>c, <1>f, <1>t, <2>1, <2>2, EngagesFinite, PlafondsAssumption
         DEF Within, CountsTyped
    <2>3. CASE ~ (j = k /\ s = a)
      BY <1>1, <1>2, <1>4, <1>c, <2>1, <2>3 DEF Within
    <2>4. QED  BY <2>2, <2>3
  <1>11. QED  BY <1>5, <1>6, <1>7, <1>8, <1>9, <1>10 DEF Counts

\* The turn ends: one more loss takes one more call out of the game, and a
\* success, which only a registered agent can bring, starts both counts anew.
LEMMA EndedCounts ==
  ASSUME IInv, IInv', Counts, NEW c \in Callers, TourRendu(c)
  PROVE  Counts'
  <1> DEFINE k == cle[c]
             a == client[c]
             s == sid[a]
  <1>t. /\ client \in [Callers -> 0..MaxAgents] /\ pc \in [Callers -> Labels]
        /\ entrees \in [Keys -> 0..MaxAgents] /\ cle \in [Callers -> Keys]
        /\ nb \in Nat /\ k \in Keys /\ verrou \in SUBSET Callers
    BY BoundsAssumption DEF IInv, Typed
  <1>c. CountsTyped /\ Numbered /\ Unshared /\ Served /\ OneOwner /\ \A j \in Keys : Within(j)
    BY DEF Counts
  <1>v. pc[c] = "parle" /\ c \notin verrou /\ a \in Agents /\ s \in Agents
    <2>1. pc[c] = "parle" /\ c \notin verrou /\ a # Aucun /\ s # Aucun
      BY <1>c DEF TourRendu, IInv, Locked, Served, Servi
    <2>2. a \in Agents
      BY <1>t, <2>1 DEF Agents, Aucun
    <2>3. QED  BY <1>c, <2>1, <2>2 DEF CountsTyped, Agents, Aucun
  <1>1. PICK abouti \in BOOLEAN :
           /\ abouti => etat[a] = "vivant"
           /\ perdus' = [perdus EXCEPT ![k] = IF abouti THEN 0 ELSE @ + 1]
           /\ pertes' = [pertes EXCEPT ![s] =
                           CASE abouti -> 0
                             [] ~abouti /\ choix[c] = "impose" -> @ + 1
                             [] OTHER -> @]
    BY DEF TourRendu, Noter
  <1>2. /\ UNCHANGED <<entrees, ident, verrou, nb, sid>>
        /\ pc' = [pc EXCEPT ![c] = "idle"] /\ cle' = [cle EXCEPT ![c] = AnyKey]
        /\ client' = [client EXCEPT ![c] = Aucun]
        /\ choix' = [choix EXCEPT ![c] = "impose"]
    BY DEF TourRendu, Rendre, Aller
  <1>3. PICK o \in [Agents -> Keys] : Owned(o)
    BY <1>c DEF OneOwner
  <1>o. o[a] = k /\ o[s] = k
    <2>1. client[c] # Aucun => o[client[c]] = cle[c]
      BY <1>3 DEF Owned
    <2>2. a \in Agents /\ sid[a] # Aucun => o[sid[a]] = o[a]
      BY <1>3 DEF Owned
    <2>3. QED  BY <1>v, <1>c, <2>1, <2>2 DEF CountsTyped, Agents, Aucun
  <1>r. ASSUME abouti PROVE ident[k] = s
    <2>1. ASSUME NEW d \in verrou, client[d] = a PROVE FALSE
      BY <1>c, <1>t, <1>v, <2>1 DEF Unshared
    <2>2. PICK j \in Keys : entrees[j] = a
      BY <1>1, <1>r, <1>v, <2>1 DEF IInv, NoStrayAgent
    <2>3. j = k
      BY <1>3, <1>o, <1>v, <2>2 DEF Owned, Agents, Aucun
    <2>4. QED  BY <1>c, <1>v, <2>2, <2>3 DEF Served, Agents, Aucun
  <1> HIDE DEF k, a, s
  <1>4. \A j \in Keys : perdus'[j] = IF j = k THEN (IF abouti THEN 0 ELSE perdus[j] + 1) ELSE perdus[j]
    BY <1>1, <1>c, <1>t DEF CountsTyped
  <1>5. \A b \in Agents : b # s => pertes'[b] = pertes[b]
    BY <1>1, <1>c DEF CountsTyped
  <1>6. /\ abouti => pertes'[s] = 0
        /\ ~ abouti => pertes'[s] = IF choix[c] = "impose" THEN pertes[s] + 1 ELSE pertes[s]
    <2>1. CASE abouti
      BY <1>1, <1>c, <1>v, <2>1 DEF CountsTyped
    <2>2. CASE ~ abouti
      BY <1>1, <1>c, <1>v, <2>2 DEF CountsTyped
    <2>3. QED  BY <2>1, <2>2
  <1>7. pertes' \in [Agents -> Nat] /\ perdus' \in [Keys -> Nat]
    <2>1. pertes[s] \in Nat
      BY <1>c, <1>v DEF CountsTyped
    <2>2. pertes'[s] \in Nat
      BY <1>6, <2>1
    <2>3. DOMAIN pertes' = Agents /\ DOMAIN perdus' = Keys
      BY <1>1, <1>c DEF CountsTyped
    <2>4. \A b \in Agents : pertes'[b] \in Nat
      BY <1>5, <2>2, <1>c DEF CountsTyped
    <2>5. \A j \in Keys : perdus'[j] \in Nat
      BY <1>4, <1>c DEF CountsTyped
    <2>6. pertes' = [b \in Agents |-> pertes'[b]] /\ perdus' = [j \in Keys |-> perdus'[j]]
      BY <1>1, <1>c DEF CountsTyped
    <2>7. QED  BY <2>4, <2>5, <2>6
  <1>8. CountsTyped'
    BY <1>2, <1>7, <1>c DEF CountsTyped
  <1>9. \A d \in Callers : client'[d] = IF d = c THEN Aucun ELSE client[d]
    BY <1>2, <1>t
  <1>10. Numbered'
    <2>1. s <= nb
      BY <1>c, <1>v DEF s, Numbered
    <2>2. \A b \in Agents : b > nb => pertes'[b] = pertes[b]
      BY <1>5, <1>t, <2>1 DEF Agents
    <2>3. QED  BY <1>2, <1>9, <1>c, <1>t, <2>2 DEF Numbered, Aucun
  <1>11. Unshared'
    <2>1. ASSUME NEW d \in verrou
          PROVE  /\ d # c /\ client'[d] = client[d] /\ client[d] # Aucun
                 /\ pertes'[client[d]] = pertes[client[d]]
      <3>1. d # c /\ client'[d] = client[d]
        BY <1>9, <1>t, <1>v, <2>1
      <3>2. client[d] \in Agents /\ client[d] # s
        BY <1>c, <1>v, <2>1 DEF IInv, Room, Unshared, s
      <3>3. QED  BY <1>5, <3>1, <3>2 DEF Agents, Aucun
    <2>2. QED  BY <1>2, <1>9, <1>c, <1>t, <2>1 DEF Unshared
  <1>12. Served'
    BY <1>2, <1>9, <1>c, <1>t DEF Served, SansAgent, Servi
  <1>13. OneOwner'
    <2>1. Owned(o)'
      BY <1>2, <1>3, <1>9, <1>t DEF Owned
    <2>2. QED  BY <2>1 DEF OneOwner
  <1>14. ASSUME NEW j \in Keys PROVE Within(j)'
    <2>0. ident[j] # Aucun => /\ ident[j] \in Agents /\ pertes[ident[j]] \in Nat
                              /\ perdus[j] \in Nat /\ o[ident[j]] = j
      BY <1>3, <1>c DEF CountsTyped, Owned, Agents, Aucun
    <2>1. Engages(j)' = Engages(j) \ {c}
      BY <1>2, <1>t DEF Engages
    <2>2. /\ Cardinality(Engages(j)) \in Nat
          /\ Cardinality(Engages(j)') =
               IF c \in Engages(j) THEN Cardinality(Engages(j)) - 1 ELSE Cardinality(Engages(j))
      BY <2>1, EngagesFinite, FS_RemoveElement
    <2>3. c \in Engages(k) <=> choix[c] = "impose"
      BY <1>v, <1>t DEF Engages, k
    <2>4. CASE j # k
      <3>1. ident[j] # Aucun => ident[j] # s /\ pertes'[ident[j]] = pertes[ident[j]]
        BY <1>5, <1>o, <2>0, <2>4
      <3>2. c \notin Engages(j)
        BY <2>4 DEF Engages, k
      <3>3. QED  BY <1>2, <1>4, <1>c, <2>2, <2>4, <3>1, <3>2 DEF Within
    <2>5. CASE j = k /\ abouti
      <3>1. ident[j] = s /\ pertes'[s] = 0 /\ perdus'[j] = 0
        BY <1>4, <1>6, <1>r, <2>5
      <3>2. Cardinality(Engages(j)') \in Nat /\ Cardinality(Engages(j)') <= Cardinality(Callers)
        <4>1. Engages(j)' \in SUBSET Callers
          BY DEF Engages
        <4>2. QED  BY <4>1, CallersAssumption, FS_Subset, FS_CardinalityType
      <3>3. QED  BY <1>2, <3>1, <3>2, EngagesFinite, PlafondsAssumption DEF Within
    <2>6. CASE j = k /\ ~ abouti
      <3>1. perdus'[j] = perdus[j] + 1
        BY <1>4, <2>6
      <3>2. CASE ident[j] = s
        BY <1>2, <1>6, <1>c, <2>0, <2>2, <2>3, <2>6, <3>1, <3>2, EngagesFinite, PlafondsAssumption
           DEF Within
      <3>3. CASE ident[j] # s
        BY <1>2, <1>5, <1>c, <2>0, <2>2, <3>1, <3>3, EngagesFinite, PlafondsAssumption DEF Within
      <3>4. QED  BY <3>2, <3>3
    <2>7. QED  BY <2>4, <2>5, <2>6
  <1>15. QED  BY <1>8, <1>10, <1>11, <1>12, <1>13, <1>14 DEF Counts

\* A fresh session: the key has none until the next opening.
LEMMA RenewedCounts ==
  ASSUME IInv, IInv', Counts, NEW c \in Callers, RepartirANeuf(c)
  PROVE  Counts'
  <1> DEFINE k == cle[c]
  <1>t. /\ client \in [Callers -> 0..MaxAgents] /\ pc \in [Callers -> Labels]
        /\ entrees \in [Keys -> 0..MaxAgents] /\ cle \in [Callers -> Keys]
        /\ nb \in Nat /\ k \in Keys
    BY BoundsAssumption DEF IInv, Typed
  <1>c. CountsTyped /\ Numbered /\ Served /\ OneOwner /\ \A j \in Keys : Within(j)
    BY DEF Counts
  <1>1. /\ UNCHANGED <<verrou, nb, sid, cle, client, choix, pertes>>
        /\ pc[c] = "neuf" /\ verrou = {} /\ pc' = [pc EXCEPT ![c] = "tour"]
        /\ ident' = [ident EXCEPT ![k] = Aucun] /\ perdus' = [perdus EXCEPT ![k] = 0]
    BY DEF RepartirANeuf, Aller
  <1>2. entrees'[k] = Aucun /\ \A j \in Keys : entrees'[j] \in {Aucun, entrees[j]}
    <2>1. Depiler({k}) /\ Typed
      BY DEF RepartirANeuf, Fermer, IInv
    <2>2. QED  BY <1>t, <2>1, Closing
  <1> HIDE DEF k
  <1>3. \A j \in Keys : /\ ident'[j] = IF j = k THEN Aucun ELSE ident[j]
                        /\ perdus'[j] = IF j = k THEN 0 ELSE perdus[j]
    BY <1>1, <1>c DEF CountsTyped
  <1>4. CountsTyped'
    BY <1>1, <1>c, <1>t, BoundsAssumption DEF CountsTyped, Aucun
  <1>5. Numbered'
    BY <1>1, <1>2, <1>3, <1>c, <1>t DEF Numbered, Aucun
  <1>6. Unshared'
    BY <1>1 DEF Unshared
  <1>7. Served'
    <2>1. \A d \in Callers : pc'[d] \in SansAgent => client[d] = Aucun
      BY <1>1, <1>c, <1>t DEF Served, SansAgent
    <2>2. \A d \in Callers : pc'[d] \in Servi => client[d] # Aucun /\ sid[client[d]] # Aucun
      BY <1>1, <1>c, <1>t DEF Served, Servi
    <2>3. \A j \in Keys : entrees'[j] # Aucun => sid[entrees'[j]] = ident'[j] /\ ident'[j] # Aucun
      BY <1>2, <1>3, <1>c DEF Served
    <2>4. QED  BY <1>1, <2>1, <2>2, <2>3 DEF Served
  <1>8. OneOwner'
    <2>1. PICK o \in [Agents -> Keys] : Owned(o)
      BY <1>c DEF OneOwner
    <2>2. Owned(o)'
      BY <1>1, <1>2, <1>3, <2>1 DEF Owned
    <2>3. QED  BY <2>2 DEF OneOwner
  <1>9. ASSUME NEW j \in Keys PROVE Within(j)'
    <2>1. CASE j = k
      BY <1>3, <2>1 DEF Within
    <2>2. CASE j # k
      <3>1. Engages(j)' = Engages(j)
        BY <1>1, <1>t, <2>2 DEF Engages, k
      <3>2. QED  BY <1>1, <1>3, <1>c, <2>2, <3>1 DEF Within
    <2>3. QED  BY <2>1, <2>2
  <1>10. QED  BY <1>4, <1>5, <1>6, <1>7, <1>8, <1>9 DEF Counts

\* Nothing is open, numbered or lost at the start.
LEMMA InitCounts == Init => Counts
  <1> SUFFICES ASSUME Init PROVE Counts
    OBVIOUS
  <1>1. Aucun \in 0..MaxAgents /\ Aucun <= 0 /\ Aucun = 0
    BY BoundsAssumption DEF Aucun
  <1>2. CountsTyped
    BY <1>1 DEF Init, CountsTyped
  <1>3. Numbered /\ Unshared
    BY <1>1 DEF Init, Numbered, Unshared
  <1>4. Served
    BY DEF Init, Served, Servi
  <1>5. OneOwner
    <2>1. AnyKey \in Keys
      BY CallersAssumption DEF AnyKey
    <2>2. [a \in Agents |-> AnyKey] \in [Agents -> Keys] /\ Owned([a \in Agents |-> AnyKey])
      BY <2>1 DEF Init, Owned
    <2>3. QED  BY <2>2 DEF OneOwner
  <1>6. \A k \in Keys : Within(k)
    BY DEF Init, Within
  <1>7. QED  BY <1>2, <1>3, <1>4, <1>5, <1>6 DEF Counts

\* What the closing of any keys leaves of the registry.
LEMMA ClosesOnly ==
  ASSUME IInv, NEW K, Fermer(K)
  PROVE  \A k \in Keys : entrees'[k] \in {Aucun, entrees[k]}
  BY Closing DEF Fermer, IInv

\* Every step keeps the counts.
LEMMA StepCounts ==
  ASSUME IInv, IInv', Counts, [Next]_vars
  PROVE  Counts'
  <1>t. /\ pc \in [Callers -> Labels] /\ cle \in [Callers -> Keys]
        /\ client \in [Callers -> 0..MaxAgents] /\ entrees \in [Keys -> 0..MaxAgents]
        /\ verrou \in SUBSET Callers /\ Locked /\ Locked'
        /\ choix \in [Callers -> {"impose", "secours"}] /\ Served
        /\ perdus \in [Keys -> Nat]
    BY DEF IInv, Typed, Counts, CountsTyped
  <1>k. AnyKey \in Keys
    BY CallersAssumption DEF AnyKey
  \* A call that returns without having lost a turn.
  <1>r. ASSUME NEW c \in Callers, Rendre(c), c \notin verrou',
               UNCHANGED <<ident, perdus, sid, pertes, nb>>, verrou' \subseteq verrou,
               \A k \in Keys : entrees'[k] \in {Aucun, entrees[k]}
        PROVE  Counts'
    <2>1. choix' \in [Callers -> {"impose", "secours"}]
      BY <1>r, <1>t DEF Rendre
    <2>2. Moved(c) /\ \A d \in Callers \ {c} : Unmoved(d)
      BY <1>r, <1>t DEF Rendre, Aller, Moved, Unmoved, Servi, Engages
    <2>3. QED  BY <1>r, <2>1, <2>2, CalmStep
  \* A call that goes on with what it has, or gives up.
  <1>g. ASSUME NEW c \in Callers, NEW l \in Labels, pc' = [pc EXCEPT ![c] = l],
               UNCHANGED <<ident, perdus, sid, pertes, nb, cle, client, choix>>,
               verrou' \subseteq verrou, c \notin verrou',
               \A k \in Keys : entrees'[k] \in {Aucun, entrees[k]},
               l = "ferme" \/ (l \in Servi /\ pc[c] \in Servi)
        PROVE  Counts'
    <2>1. Moved(c)
      BY <1>g, <1>t DEF Moved, Served, SansAgent, Servi, Engages
    <2>2. \A d \in Callers \ {c} : Unmoved(d)
      BY <1>g, <1>t DEF Unmoved
    <2>3. QED  BY <1>g, <1>t, <2>1, <2>2, CalmStep
  \* No call is concerned.
  <1>u. ASSUME UNCHANGED <<ident, perdus, sid, pertes, nb, pc, cle, client, choix, verrou>>,
               \A k \in Keys : entrees'[k] \in {Aucun, entrees[k]}
        PROVE  Counts'
    <2>1. \A c \in Callers : Unmoved(c)
      BY <1>u DEF Unmoved
    <2>2. QED  BY <1>u, <1>t, <2>1, CalmStep
  <1>1. ASSUME NEW c \in Callers, Appel(c) PROVE Counts'
    <2>1. /\ UNCHANGED <<ident, perdus, sid, pertes, nb, client, choix, verrou, entrees>>
          /\ pc[c] = "idle" /\ pc' = [pc EXCEPT ![c] = "dispo"]
          /\ \A d \in Callers \ {c} : cle'[d] = cle[d]
      BY <1>1, <1>t DEF Appel, Aller, fiches
    <2>2. c \notin verrou
      BY <1>t, <2>1 DEF Locked
    <2>3. Moved(c)
      BY <1>t, <2>1, <2>2 DEF Moved, Served, SansAgent, Servi, Engages
    <2>4. \A d \in Callers \ {c} : Unmoved(d)
      BY <1>t, <2>1 DEF Unmoved
    <2>5. QED  BY <1>t, <2>1, <2>3, <2>4, CalmStep
  <1>2. ASSUME NEW c \in Callers, Disponible(c) PROVE Counts'
    <2>1. /\ UNCHANGED <<ident, perdus, sid, pertes, nb, client, cle, verrou>>
          /\ verrou = {} /\ pc[c] = "dispo"
          /\ pc' = [pc EXCEPT ![c] = IF Repartir(c) THEN "neuf" ELSE "tour"]
          /\ choix' = [choix EXCEPT ![c] = ApresDesToursPerdus(c)]
          /\ \A k \in Keys : entrees'[k] \in {Aucun, entrees[k]}
      BY <1>2, ClosesOnly DEF Disponible, Aller
    <2>2. choix' \in [Callers -> {"impose", "secours"}]
      BY <1>t, <2>1 DEF ApresDesToursPerdus
    <2>3. ASSUME NEW k \in Keys, c \in Engages(k)' PROVE perdus[k] < PlafondTours
      <3>1. k = cle[c] /\ pc'[c] = "tour" /\ choix'[c] = "impose"
        BY <1>t, <2>1, <2>3 DEF Engages
      <3>2. ~ Repartir(c) /\ ApresDesToursPerdus(c) = "impose"
        BY <1>t, <2>1, <3>1
      <3>3. ~ (perdus[k] >= PlafondTours)
        BY <3>1, <3>2 DEF Repartir, ApresDesToursPerdus
      <3>4. QED  BY <1>t, <3>3, PlafondsAssumption
    <2>4. Moved(c)
      <3>1. client[c] = Aucun /\ pc'[c] \in {"neuf", "tour"}
        BY <1>t, <2>1 DEF Served, SansAgent
      <3>2. QED  BY <2>1, <2>3, <3>1 DEF Moved, Servi
    <2>5. \A d \in Callers \ {c} : Unmoved(d)
      BY <1>t, <2>1 DEF Unmoved
    <2>6. QED  BY <2>1, <2>2, <2>4, <2>5, CalmStep
  <1>3. ASSUME NEW c \in Callers, Ecarte(c) PROVE Counts'
    BY <1>3, <1>r, ClosesOnly DEF Ecarte
  <1>4. ASSUME NEW c \in Callers, TourSurEntree(c) PROVE Counts'
    <2> DEFINE a == Sans(AFermer(c))[cle[c]]
    <2>1. /\ UNCHANGED <<ident, perdus, sid, pertes, nb, cle, choix, verrou>>
          /\ verrou = {} /\ pc[c] = "tour" /\ a # Aucun
          /\ client' = [client EXCEPT ![c] = a]
          /\ \A k \in Keys : entrees'[k] \in {Aucun, entrees[k]}
      BY <1>4, ClosesOnly DEF TourSurEntree
    <2>2. PICK l \in {"attend", "modele"} : pc' = [pc EXCEPT ![c] = l]
      BY <1>4 DEF TourSurEntree, Aller
    <2>3. a = entrees[cle[c]]
      BY <1>t, <2>1 DEF Sans
    <2>4. sid[a] # Aucun
      BY <1>t, <2>1, <2>3 DEF Served
    <2>5. Moved(c)
      BY <1>t, <2>1, <2>2, <2>3, <2>4 DEF Moved, SansAgent, Servi, Engages
    <2>6. \A d \in Callers \ {c} : Unmoved(d)
      BY <1>t, <2>1, <2>2 DEF Unmoved
    <2>7. QED  BY <1>t, <2>1, <2>5, <2>6, CalmStep
  <1>5. ASSUME NEW c \in Callers, NEW K, LancementRate(c, K), verrou = {} PROVE Counts'
    <2>1. /\ UNCHANGED <<ident, perdus, sid, pertes, nb, cle, client, choix, verrou>>
          /\ pc' = [pc EXCEPT ![c] = "ferme"]
          /\ \A k \in Keys : entrees'[k] \in {Aucun, entrees[k]}
      BY <1>5, ClosesOnly DEF LancementRate, Aller
    <2>2. QED  BY <1>5, <1>g, <2>1 DEF Labels
  <1>6. ASSUME NEW c \in Callers, TourOuvre(c) \/ Reprendre(c) PROVE Counts'
    <2>1. /\ verrou = {} /\ pc[c] \in {"tour", "rouvre"}
          /\ \E K : Lancer(c, K) \/ LancementRate(c, K)
      BY <1>6 DEF TourOuvre, Reprendre
    <2>2. QED  BY <1>5, <2>1, LaunchCounts
  <1>7. ASSUME NEW c \in Callers, TourPlein(c) PROVE Counts'
    <2>1. /\ UNCHANGED <<ident, perdus, sid, pertes, nb, cle, client, choix, verrou>>
          /\ pc' = [pc EXCEPT ![c] = "ferme"] /\ verrou = {}
          /\ \A k \in Keys : entrees'[k] \in {Aucun, entrees[k]}
      BY <1>7, ClosesOnly DEF TourPlein, Aller
    <2>2. QED  BY <1>g, <2>1 DEF Labels
  <1>8. ASSUME NEW c \in Callers, OuvertureRatee(c) PROVE Counts'
    <2>1. /\ UNCHANGED <<ident, perdus, sid, pertes, nb, cle, client, choix, entrees>>
          /\ pc' = [pc EXCEPT ![c] = "ferme"] /\ verrou' = {}
      BY <1>8 DEF OuvertureRatee, Aller
    <2>2. QED  BY <1>g, <2>1 DEF Labels
  <1>9. ASSUME NEW c \in Callers, ChoisirModele(c) \/ Bascule(c) \/ Parler(c) PROVE Counts'
    <2>1. /\ UNCHANGED <<ident, perdus, sid, pertes, nb, cle, client, choix, entrees, verrou>>
          /\ pc[c] \in {"modele", "bascule", "attend"}
      BY <1>9 DEF ChoisirModele, Parler, Bascule, Prendre, fiches
    <2>2. PICK l \in {"bascule", "rouvre", "attend", "parle"} : pc' = [pc EXCEPT ![c] = l]
      BY <1>9 DEF ChoisirModele, Parler, Bascule, Aller
    <2>3. c \notin verrou
      BY <1>t, <2>1 DEF Locked
    <2>4. QED  BY <1>g, <2>1, <2>2, <2>3 DEF Labels, Servi
  <1>10. ASSUME NEW c \in Callers, FermerApresEchec(c) PROVE Counts'
    BY <1>10, <1>r, ClosesOnly DEF FermerApresEchec
  <1>11. ASSUME NEW k \in Keys, FinDeMission(k) PROVE Counts'
    BY <1>11, <1>u, ClosesOnly DEF FinDeMission, locals
  <1>12. ASSUME NEW k \in Keys, TempsPasse(k) \/ Demenage(k) PROVE Counts'
    BY <1>12, <1>u DEF TempsPasse, Demenage, locals, fiches
  <1>13. ASSUME NEW a \in Agents, AgentMeurt(a) PROVE Counts'
    BY <1>13, <1>u DEF AgentMeurt, locals
  <1>14. CASE UNCHANGED vars
    BY <1>14, <1>u DEF vars, locals, fiches
  <1>15. QED
    BY <1>1, <1>2, <1>3, <1>4, <1>6, <1>7, <1>8, <1>9, <1>10, <1>11, <1>12, <1>13, <1>14,
       OpenedCounts, EndedCounts, RenewedCounts DEF Next, Step

\* The rule on lost turns ends the experiment that fails, for any number of
\* calls and keys: a session loses at most one turn per call beyond
\* PLAFOND_TOURS_PERDUS before its model or the session itself is changed.
THEOREM LostTurnsAreBounded == Spec => []SameExperimentBounded
  <1>1. Counts => SameExperimentBounded
    <2> SUFFICES ASSUME Counts, NEW k \in Keys, ident[k] # Aucun
                 PROVE  pertes[ident[k]] < PlafondTours + Cardinality(Callers)
      BY DEF SameExperimentBounded
    <2>1. pertes[ident[k]] + Cardinality(Engages(k)) < PlafondTours + Cardinality(Callers)
      BY DEF Counts, Within
    <2>2. pertes[ident[k]] \in Nat
      BY DEF Counts, CountsTyped, Agents, Aucun
    <2>3. QED  BY <2>1, <2>2, EngagesFinite, PlafondsAssumption
  <1>2. IInv /\ IInv' /\ Counts /\ [Next]_vars => Counts'
    BY StepCounts
  <1>3. QED  BY InitInv, InitCounts, StepInv, <1>1, <1>2, PTL DEF Spec
=============================================================================
