-------------------------- MODULE SessionsDeMission --------------------------
(***************************************************************************)
(* The registry of live agent sessions (ral/adapters/sessions_de_mission), *)
(* the client that drives one agent process (ral/adapters/                 *)
(* hermes_agent_acp) and the task executor that uses both                  *)
(* (_par_le_harnais and _apres_des_tours_perdus of execution/              *)
(* task_executor).                                                         *)
(*                                                                         *)
(* All the calls are coroutines of one event loop, so an action runs from  *)
(* one await to the next.  Awaits that only wait for a process to end      *)
(* (closing a client) are folded into the action that closes: the client   *)
(* drops its session and terminates the process before it waits.  Opening  *)
(* an agent, switching its model and the turn itself are separate steps.   *)
(*                                                                         *)
(* Two calls may share a key: the executor gives up on a coroutine that    *)
(* outlives its budget without stopping it, and the retry starts another.  *)
(* An agent is a process and the client object that owns it; its number is *)
(* the order of creation, and a session it creates takes the same number.  *)
(***************************************************************************)
EXTENDS Integers, FiniteSets

CONSTANTS Callers,      \* coroutines that run _par_le_harnais
          Keys,         \* what cle_de_session returns
          MissionKeys,  \* the keys of the form mission:<id>
          Plafond,      \* PLAFOND_SESSIONS
          PlafondTours, \* PLAFOND_TOURS_PERDUS
          MaxAgents,    \* bound: agent processes created
          MaxCalls,     \* bound: calls made
          MaxRoots      \* bound: successive workspaces of one key

ASSUME CallersAssumption == IsFiniteSet(Callers) /\ IsFiniteSet(Keys) /\ Keys # {}
ASSUME MissionKeysAssumption == MissionKeys \subseteq Keys
ASSUME PlafondsAssumption == Plafond \in Nat \ {0} /\ PlafondTours \in Nat \ {0}
ASSUME BoundsAssumption ==
  MaxAgents \in Nat /\ MaxCalls \in Nat /\ MaxRoots \in Nat \ {0}

VARIABLES entrees,   \* _entrees: the agent registered for each key
          espace,    \* the workspace of each entry
          expire,    \* its derniere_activite is older than the time to live
          reprise,   \* it was opened by the replay of a turn
          ident,     \* _identifiants: survives the closing of the agent
          perdus,    \* _tours_perdus
          verrou,    \* _verrou: who holds it
          nb,        \* agents created so far
          etat,      \* what became of each agent
          sid,       \* the session each agent serves
          modele,    \* session.modele of each agent
          tient,     \* session.verrou of each agent: who holds it
          pc, cle, client, vue, choix, rejoue,  \* of each call
          racine,    \* the present workspace of each key
          secours,   \* the model table names a fallback other than the model
          appels,    \* calls made so far
          pertes     \* history: lost turns in a row of a session, model imposed

fiches == <<entrees, espace, expire, reprise, etat, modele>>
locals == <<pc, cle, client, vue, choix, rejoue>>
monde == <<racine, secours, appels>>
vars == <<fiches, ident, perdus, verrou, nb, sid, tient, locals, monde, pertes>>

Aucun == 0
AnyKey == CHOOSE k \in Keys : TRUE
Agents == 1..MaxAgents
Etats == {"absent", "vivant", "mort", "ferme", "orphelin"}
Labels == {"idle", "dispo", "neuf", "tour", "ouvre", "modele", "bascule",
           "attend", "parle", "rouvre", "ferme"}

Init ==
  /\ entrees = [k \in Keys |-> Aucun]
  /\ espace = [k \in Keys |-> 1]
  /\ expire = [k \in Keys |-> FALSE]
  /\ reprise = [k \in Keys |-> FALSE]
  /\ ident = [k \in Keys |-> Aucun]
  /\ perdus = [k \in Keys |-> 0]
  /\ verrou = {}
  /\ nb = 0
  /\ etat = [a \in Agents |-> "absent"]
  /\ sid = [a \in Agents |-> Aucun]
  /\ modele = [a \in Agents |-> ""]
  /\ tient = [a \in Agents |-> {}]
  /\ pc = [c \in Callers |-> "idle"]
  /\ cle = [c \in Callers |-> AnyKey]
  /\ client = [c \in Callers |-> Aucun]
  /\ vue = [c \in Callers |-> 1]
  /\ choix = [c \in Callers |-> "impose"]
  /\ rejoue = [c \in Callers |-> FALSE]
  /\ racine = [k \in Keys |-> 1]
  /\ secours \in BOOLEAN
  /\ appels = 0
  /\ pertes = [a \in Agents |-> 0]

------------------------------------------------------------------------------
\* Closing and opening.

Ouvertes(e) == {k \in Keys : e[k] # Aucun}

\* The registry once the keys K are popped, and the agents of K.
Sans(K) == [k \in Keys |-> IF k \in K THEN Aucun ELSE entrees[k]]
AgentsDe(K) == {entrees[k] : k \in K} \ {Aucun}

\* _purger: derniere_activite is written when an agent is opened and when a
\* turn ends, so a turn longer than the time to live is purged as well.
Expirees == {k \in Ouvertes(entrees) : expire[k]}

Depiler(K) ==
  /\ entrees' = Sans(K)
  /\ espace' = [k \in Keys |-> IF k \in K THEN 1 ELSE espace[k]]
  /\ expire' = [k \in Keys |-> expire[k] /\ k \notin K]
  /\ reprise' = [k \in Keys |-> reprise[k] /\ k \notin K]

\* The client of each key of K forgets its session, then the process is
\* terminated.
FermerClients(K) ==
  [a \in Agents |-> IF a \in AgentsDe(K) THEN "ferme" ELSE etat[a]]
SansModele(K) ==
  [a \in Agents |-> IF a \in AgentsDe(K) THEN "" ELSE modele[a]]

\* Mutant of Fermer: the entry goes, its process stays.
PopsOnly(K) == Depiler(K) /\ UNCHANGED <<etat, modele>>

\* _fermer_sans_verrou for every key of K.
Fermer(K) ==
  /\ Depiler(K)
  /\ etat' = FermerClients(K)
  /\ modele' = SansModele(K)

Aller(c, label) == pc' = [pc EXCEPT ![c] = label]

\* The call is over; what it held is gone with its frame.
Rendre(c) ==
  /\ Aller(c, "idle")
  /\ cle' = [cle EXCEPT ![c] = AnyKey]
  /\ client' = [client EXCEPT ![c] = Aucun]
  /\ vue' = [vue EXCEPT ![c] = 1]
  /\ choix' = [choix EXCEPT ![c] = "impose"]
  /\ rejoue' = [rejoue EXCEPT ![c] = FALSE]

\* _ouvrir once the keys K are closed, up to its first await: a process
\* starts, the registry lock is held.
Lancer(c, K) ==
  /\ nb < MaxAgents
  /\ Depiler(K)
  /\ nb' = nb + 1
  /\ etat' = [FermerClients(K) EXCEPT ![nb + 1] = "vivant"]
  /\ modele' = SansModele(K)
  /\ client' = [client EXCEPT ![c] = nb + 1]
  /\ verrou' = {c}
  /\ Aller(c, "ouvre")
  /\ UNCHANGED <<ident, perdus, sid, tient, cle, vue, choix, rejoue, monde,
                 pertes>>

\* The agent is not installed, or its process cannot be created.
LancementRate(c, K) ==
  /\ Fermer(K)
  /\ Aller(c, "ferme")
  /\ UNCHANGED <<ident, perdus, verrou, nb, sid, tient, cle, client, vue, choix,
                 rejoue, monde, pertes>>

\* The agent answered: session/resume gives back the session asked for or a
\* new one, session/new a new one.  The replayed turn follows at once; any
\* other first selects its model.
OuvertureReussie(c) ==
  LET k == cle[c]
      a == client[c]
  IN  /\ pc[c] = "ouvre"
      /\ etat[a] = "vivant"
      /\ \E s \in {a} \cup ({ident[k]} \ {Aucun}) :
           /\ sid' = [sid EXCEPT ![a] = s]
           /\ ident' = [ident EXCEPT ![k] = s]
      /\ entrees' = [entrees EXCEPT ![k] = a]
      /\ espace' = [espace EXCEPT ![k] = vue[c]]
      /\ expire' = [expire EXCEPT ![k] = FALSE]
      /\ reprise' = [reprise EXCEPT ![k] = rejoue[c]]
      /\ verrou' = {}
      /\ Aller(c, IF rejoue[c] THEN "attend" ELSE "modele")
      /\ UNCHANGED <<perdus, nb, etat, modele, tient, cle, client, vue, choix, rejoue, monde, pertes>>

\* Mutant of OuvertureRatee: the exception leaves the lock taken.
KeepsTheLock(c) ==
  /\ pc[c] = "ouvre"
  /\ etat' = [etat EXCEPT ![client[c]] = IF @ = "vivant" THEN "orphelin" ELSE @]
  /\ Aller(c, "ferme")
  /\ UNCHANGED <<entrees, espace, expire, reprise, modele, ident, perdus, verrou, nb,
                 sid, tient, cle, client, vue, choix, rejoue, monde, pertes>>

\* No answer in DELAI_ETABLISSEMENT_S, or the agent died: the exception leaves
\* the lock, and a process still alive keeps running without an entry.
OuvertureRatee(c) ==
  /\ pc[c] = "ouvre"
  /\ etat' = [etat EXCEPT ![client[c]] = IF @ = "vivant" THEN "orphelin" ELSE @]
  /\ verrou' = {}
  /\ Aller(c, "ferme")
  /\ UNCHANGED <<entrees, espace, expire, reprise, modele, ident, perdus, nb, sid,
                 tient, cle, client, vue, choix, rejoue, monde, pertes>>

------------------------------------------------------------------------------
\* The call: _par_le_harnais.

Appel(c) ==
  /\ pc[c] = "idle"
  /\ appels < MaxCalls
  /\ appels' = appels + 1
  /\ \E k \in Keys :
       /\ cle' = [cle EXCEPT ![c] = k]
       /\ vue' = [vue EXCEPT ![c] = racine[k]]
  /\ Aller(c, "dispo")
  /\ UNCHANGED <<fiches, ident, perdus, verrou, nb, sid, tient, client, choix, rejoue, racine, secours, pertes>>

\* disponible_pour: the key is served already, or there is room.
Servie(c) ==
  \/ Sans(Expirees)[cle[c]] # Aucun
  \/ Cardinality(Ouvertes(Sans(Expirees))) < Plafond

\* The rule on lost turns: the fallback model, or else a fresh session.
Repartir(c) == perdus[cle[c]] >= PlafondTours /\ ~secours

ApresDesToursPerdus(c) ==
  IF perdus[cle[c]] >= PlafondTours /\ secours THEN "secours" ELSE "impose"

\* disponible_pour, then the rule on lost turns, with no await in between.
Disponible(c) ==
  /\ pc[c] = "dispo"
  /\ verrou = {}
  /\ Servie(c)
  /\ Fermer(Expirees)
  /\ choix' = [choix EXCEPT ![c] = ApresDesToursPerdus(c)]
  /\ Aller(c, IF Repartir(c) THEN "neuf" ELSE "tour")
  /\ UNCHANGED <<ident, perdus, verrou, nb, sid, tient, cle, client, vue, rejoue, monde, pertes>>

\* The cap is reached, or the agent is not installed: the disposable mode.
Ecarte(c) ==
  /\ pc[c] = "dispo"
  /\ verrou = {}
  /\ Sans(Expirees)[cle[c]] = Aucun
  /\ Fermer(Expirees)
  /\ Rendre(c)
  /\ UNCHANGED <<ident, perdus, verrou, nb, sid, tient, monde, pertes>>

\* Mutant of RepartirANeuf: the identifier stays, and is resumed.
KeepsTheIdentifier(c) ==
  /\ pc[c] = "neuf"
  /\ verrou = {}
  /\ Fermer({cle[c]})
  /\ perdus' = [perdus EXCEPT ![cle[c]] = 0]
  /\ Aller(c, "tour")
  /\ UNCHANGED <<ident, verrou, nb, sid, tient, cle, client, vue, choix, rejoue,
                 monde, pertes>>

\* repartir_a_neuf: the identifier goes too, or the session would be resumed.
RepartirANeuf(c) ==
  /\ pc[c] = "neuf"
  /\ verrou = {}
  /\ Fermer({cle[c]})
  /\ ident' = [ident EXCEPT ![cle[c]] = Aucun]
  /\ perdus' = [perdus EXCEPT ![cle[c]] = 0]
  /\ Aller(c, "tour")
  /\ UNCHANGED <<verrou, nb, sid, tient, cle, client, vue, choix, rejoue, monde,
                 pertes>>

------------------------------------------------------------------------------
\* SessionsDeMission.tour.

\* What its first critical section closes: the purge, and the session of the
\* key when its workspace has changed.
AFermer(c) ==
  Expirees \cup {k \in Ouvertes(entrees) : k = cle[c] /\ espace[k] # vue[c]}

\* The key has a session: no await separates this section from the request
\* to switch models, or from the turn when the model is already the one.
TourSurEntree(c) ==
  LET a == Sans(AFermer(c))[cle[c]]
  IN  /\ pc[c] = "tour"
      /\ verrou = {}
      /\ a # Aucun
      /\ Fermer(AFermer(c))
      /\ client' = [client EXCEPT ![c] = a]
      /\ Aller(c, IF modele[a] = choix[c] THEN "attend" ELSE "modele")
      /\ UNCHANGED <<ident, perdus, verrou, nb, sid, tient, cle, vue, choix, rejoue, monde, pertes>>

\* Mutant of TourOuvre: the cap is not looked at.
TestsNothing(c) ==
  /\ pc[c] = "tour"
  /\ verrou = {}
  /\ Sans(AFermer(c))[cle[c]] = Aucun
  /\ Lancer(c, AFermer(c)) \/ LancementRate(c, AFermer(c))

TourOuvre(c) ==
  /\ pc[c] = "tour"
  /\ verrou = {}
  /\ Sans(AFermer(c))[cle[c]] = Aucun
  /\ Cardinality(Ouvertes(Sans(AFermer(c)))) < Plafond
  /\ Lancer(c, AFermer(c)) \/ LancementRate(c, AFermer(c))

\* The slot found by disponible_pour is gone: an exception for the caller.
TourPlein(c) ==
  /\ pc[c] = "tour"
  /\ verrou = {}
  /\ Sans(AFermer(c))[cle[c]] = Aucun
  /\ Cardinality(Ouvertes(Sans(AFermer(c)))) >= Plafond
  /\ Fermer(AFermer(c))
  /\ Aller(c, "ferme")
  /\ UNCHANGED <<ident, perdus, verrou, nb, sid, tient, cle, client, vue, choix,
                 rejoue, monde, pertes>>

Prendre(c) ==
  /\ tient[client[c]] = {}
  /\ tient' = [tient EXCEPT ![client[c]] = {c}]
  /\ UNCHANGED <<fiches, ident, perdus, verrou, nb, sid, cle, client, vue, choix,
                 rejoue, monde, pertes>>

\* choisir_modele waits for the session lock, then asks the agent.
ChoisirModele(c) == pc[c] = "modele" /\ Prendre(c) /\ Aller(c, "bascule")

\* A refusal only leaves the model as it was.  The turn is then requested: a
\* client closed in the meantime has no session and raises, and that is the
\* one way into the replay.
Bascule(c) ==
  LET a == client[c]
  IN  /\ pc[c] = "bascule"
      /\ \/ etat[a] = "vivant" /\ modele' = [modele EXCEPT ![a] = choix[c]]
         \/ UNCHANGED modele
      /\ tient' = [tient EXCEPT ![a] = {}]
      /\ rejoue' = [rejoue EXCEPT ![c] = (etat[a] = "ferme")]
      /\ Aller(c, IF etat[a] = "ferme" THEN "rouvre" ELSE "attend")
      /\ UNCHANGED <<entrees, espace, expire, reprise, etat, ident, perdus, verrou, nb,
                     sid, cle, client, vue, choix, monde, pertes>>

\* _prompt: one turn at a time on an agent.
Parler(c) == pc[c] = "attend" /\ Prendre(c) /\ Aller(c, "parle")

\* noter: the count belongs to the key, which outlives its sessions.
Noter(c, abouti) ==
  perdus' = [perdus EXCEPT ![cle[c]] = IF abouti THEN 0 ELSE @ + 1]

\* The turn returns: an answer, or a Tour that did not succeed (no answer in
\* time, the process dead or terminated: _prompt raises for none of them).
TourRendu(c) ==
  LET a == client[c]
  IN  /\ pc[c] = "parle"
      /\ \E abouti \in BOOLEAN :
           /\ abouti => etat[a] = "vivant"
           /\ Noter(c, abouti)
           /\ pertes' = [pertes EXCEPT ![sid[a]] =
                           CASE abouti -> 0
                             [] ~abouti /\ choix[c] = "impose" -> @ + 1
                             [] OTHER -> @]
      /\ tient' = [tient EXCEPT ![a] = {}]
      /\ expire' = [k \in Keys |-> expire[k] /\ entrees[k] # a]
      /\ Rendre(c)
      /\ UNCHANGED <<entrees, espace, reprise, etat, modele, ident, verrou, nb, sid,
                     monde>>

\* The replay: close, open again without a look at the cap, same message.
Reprendre(c) ==
  /\ pc[c] = "rouvre"
  /\ verrou = {}
  /\ Lancer(c, {cle[c]}) \/ LancementRate(c, {cle[c]})

\* An exception of tour: the caller closes the session of the key.
FermerApresEchec(c) ==
  /\ pc[c] = "ferme"
  /\ verrou = {}
  /\ Fermer({cle[c]})
  /\ Rendre(c)
  /\ UNCHANGED <<ident, perdus, verrou, nb, sid, tient, monde, pertes>>

------------------------------------------------------------------------------
\* What happens around the calls.

\* _fermer_session_de_mission: only the session of a single mission, and
\* nothing at all when the registry lock is held by another loop.
FinDeMission(k) ==
  /\ k \in MissionKeys
  /\ entrees[k] # Aucun
  /\ verrou = {}
  /\ Fermer({k})
  /\ UNCHANGED <<ident, perdus, verrou, nb, sid, tient, locals, monde, pertes>>

\* TTL_INACTIVITE_S without the end of a turn.
TempsPasse(k) ==
  /\ entrees[k] # Aucun
  /\ ~expire[k]
  /\ expire' = [expire EXCEPT ![k] = TRUE]
  /\ UNCHANGED <<entrees, espace, reprise, etat, modele, ident, perdus, verrou, nb,
                 sid, tient, locals, monde, pertes>>

AgentMeurt(a) ==
  /\ etat[a] = "vivant"
  /\ etat' = [etat EXCEPT ![a] = "mort"]
  /\ UNCHANGED <<entrees, espace, expire, reprise, modele, ident, perdus, verrou, nb,
                 sid, tient, locals, monde, pertes>>

\* A project is given another directory; that of a mission alone is fixed.
Demenage(k) ==
  /\ k \notin MissionKeys
  /\ racine[k] < MaxRoots
  /\ racine' = [racine EXCEPT ![k] = @ + 1]
  /\ UNCHANGED <<fiches, ident, perdus, verrou, nb, sid, tient, locals, secours,
                 appels, pertes>>

Step(c) ==
  \/ Disponible(c) \/ Ecarte(c) \/ RepartirANeuf(c)
  \/ TourSurEntree(c) \/ TourOuvre(c) \/ TourPlein(c)
  \/ OuvertureReussie(c) \/ OuvertureRatee(c)
  \/ ChoisirModele(c) \/ Bascule(c) \/ Parler(c) \/ TourRendu(c)
  \/ Reprendre(c) \/ FermerApresEchec(c)

Next ==
  \/ \E c \in Callers : Appel(c) \/ Step(c)
  \/ \E k \in Keys : FinDeMission(k) \/ TempsPasse(k) \/ Demenage(k)
  \/ \E a \in Agents : AgentMeurt(a)

Spec == Init /\ [][Next]_vars

\* The event loop runs every coroutine that can proceed, asyncio.Lock serves
\* its waiters in order, and every exchange with an agent has a deadline
\* (DELAI_ETABLISSEMENT_S, the budget of the turn).  Nothing obliges a call to
\* be made, an agent to die or a mission to end.
Fairness == \A c \in Callers : WF_vars(Step(c))

FairSpec == Spec /\ Fairness

------------------------------------------------------------------------------
\* The cap on sessions holds across the await of an opening: the test and the
\* registration are far apart, and a purge, a closing, a renewal and another
\* opening may all be waiting for the lock.  Only the sessions that a replay
\* reopened, which the code does not test, can come on top.
CapHolds ==
  Cardinality({k \in Ouvertes(entrees) : ~reprise[k]}) <= Plafond

\* No agent process is left behind by the closings that race with turns: one
\* that runs is registered, or is being opened by the holder of the registry
\* lock, or is the process of an opening that failed (set apart by `etat`).
NoStrayAgent ==
  \A a \in Agents : etat[a] = "vivant" =>
    \/ \E k \in Keys : entrees[k] = a
    \/ \E c \in verrou : pc[c] = "ouvre" /\ client[c] = a

\* The rule on lost turns: the imposed model does not lose turn after turn in
\* one session.  A call decides before its turn, so each other call of the
\* same key can add one to the PlafondTours that the rule counts.
SameExperimentBounded ==
  \A k \in Keys : ident[k] # Aucun =>
    pertes[ident[k]] < PlafondTours + Cardinality(Callers)

\* A call always comes back, whatever is closed, dies or expires under it.
CallEnds == \A c \in Callers : pc[c] # "idle" ~> pc[c] = "idle"
=============================================================================
