--------------------------- MODULE RegistreMissions ---------------------------
(***************************************************************************)
(* The registry of missions (_RegistreMissions of mission/routes.py): a    *)
(* bounded cache, in insertion order, in front of the durable store        *)
(* (MagasinMissions of mission/persistance.py), used by request threads    *)
(* and by the threads that walk missions.                                  *)
(*                                                                         *)
(* A thread works on a Mission object; the cache maps an id to an object   *)
(* and the store to a document.  Reading the store makes a new object.  Of *)
(* a mission only the status matters here, and of the status whether it is *)
(* terminal.  The store is read and written outside the lock of the        *)
(* registry, so each operation is two steps with others in between.        *)
(***************************************************************************)
EXTENDS Integers, Sequences, FiniteSets, Functions

CONSTANTS Missions,    \* mission ids
          Threads,     \* request threads and walks
          Maximum,     \* MAX_MISSIONS_EN_MEMOIRE
          Anciennes,   \* missions in the store when the process starts
          Pannes,      \* whether a call to the store may raise
          MaxObjets,   \* bound: Mission objects created
          MaxRestarts  \* bound: restarts of the process

ASSUME MissionsAssumption == IsFiniteSet(Missions) /\ Missions # {}
ASSUME BoundsAssumption ==
  Maximum \in Nat \ {0} /\ MaxObjets \in Nat /\ MaxRestarts \in Nat
ASSUME StoreAssumption == Anciennes \in Seq(Missions) /\ Pannes \in BOOLEAN

VARIABLES ordre,    \* the ids in the cache, oldest first
          objet,    \* the object cached for each id
          hydrate,  \* _hydrate
          magasin,  \* whether the store could be opened
          disque,   \* the document of each mission in the store
          nb,       \* objects created
          statut,   \* the status of each object
          creees,   \* missions created so far, in that order
          pc, id, tenu,  \* of each thread: its mission and its object
          lus,      \* of each thread: the documents tous() returned
          restarts

cache == <<ordre, objet, hydrate>>
locals == <<pc, id, tenu, lus>>
vars == <<cache, magasin, disque, nb, statut, creees, locals, restarts>>

Aucun == 0
Objets == 1..MaxObjets
Statuts == {"actif", "terminal"}
Labels == {"idle", "cree", "cache", "relit", "tient", "persiste", "hydrate",
           "absente", "illisible"}
AnyMission == CHOOSE m \in Missions : TRUE
RienLu == [m \in Missions |-> "absent"]

Init ==
  /\ ordre = <<>>
  /\ objet = [m \in Missions |-> Aucun]
  /\ hydrate = FALSE
  /\ magasin \in BOOLEAN
  /\ disque = [m \in Missions |-> IF m \in Range(Anciennes) THEN "actif" ELSE "absent"]
  /\ nb = 0
  /\ statut = [o \in Objets |-> "actif"]
  /\ creees = Anciennes
  /\ pc = [t \in Threads |-> "idle"]
  /\ id = [t \in Threads |-> AnyMission]
  /\ tenu = [t \in Threads |-> Aucun]
  /\ lus = [t \in Threads |-> RienLu]
  /\ restarts = 0

------------------------------------------------------------------------------
\* _evincer on the order s of ids, ob mapping them to objects: the oldest
\* terminal missions go until the bound is met, active ones never do.
Terminale(ob, st, m) == st[ob[m]] = "terminal"

\* Mutant of Evinces: the loop stops one entry too early.
EvictsOneLess(s, ob, st) ==
  {s[i] : i \in {j \in 1..Len(s) :
     /\ Terminale(ob, st, s[j])
     /\ Cardinality({h \in 1..j : Terminale(ob, st, s[h])}) < Len(s) - Maximum}}

Evinces(s, ob, st) ==
  {s[i] : i \in {j \in 1..Len(s) :
     /\ Terminale(ob, st, s[j])
     /\ Cardinality({h \in 1..j : Terminale(ob, st, s[h])}) <= Len(s) - Maximum}}

\* The ids of s that are in S, in the order of s: what stays of a dictionary
\* when keys are deleted.  Stated by ranks, since the provers know nothing of
\* SelectSeq.
Garder(s, S) ==
  LET K == {i \in 1..Len(s) : s[i] \in S}
  IN  [k \in 1..Cardinality(K) |->
         s[CHOOSE i \in K : Cardinality({j \in K : j <= i}) = k]]

\* Insert the missions of s at the end, in that order, then evict.
Inserer(s, ob, st) ==
  LET rangs == Garder(ordre, Missions \ Range(s)) \o s
      dehors == Evinces(rangs, ob, st)
  IN  /\ ordre' = Garder(rangs, Missions \ dehors)
      /\ objet' = [m \in Missions |-> IF m \in dehors THEN Aucun ELSE ob[m]]

Aller(t, label) == pc' = [pc EXCEPT ![t] = label]

Oublier(t) ==
  /\ Aller(t, "idle")
  /\ id' = [id EXCEPT ![t] = AnyMission]
  /\ tenu' = [tenu EXCEPT ![t] = Aucun]
  /\ lus' = [lus EXCEPT ![t] = RienLu]

------------------------------------------------------------------------------
\* __setitem__: the store first, its failure only logged.

Creer(t) ==
  /\ pc[t] = "idle"
  /\ nb < MaxObjets
  /\ nb' = nb + 1
  /\ \E m \in Missions \ Range(creees) :
       /\ creees' = Append(creees, m)
       /\ id' = [id EXCEPT ![t] = m]
  /\ tenu' = [tenu EXCEPT ![t] = nb + 1]
  /\ Aller(t, "cree")
  /\ UNCHANGED <<cache, magasin, disque, statut, lus, restarts>>

\* enregistrer: INSERT OR REPLACE of the whole document.
Enregistrer(t) ==
  /\ magasin
  /\ disque' = [disque EXCEPT ![id[t]] = statut[tenu[t]]]

EcrireCreation(t) ==
  /\ pc[t] = "cree"
  /\ Enregistrer(t) \/ ((Pannes \/ ~magasin) /\ UNCHANGED disque)
  /\ Aller(t, "cache")
  /\ UNCHANGED <<cache, magasin, nb, statut, creees, id, tenu, lus, restarts>>

\* The critical section common to __setitem__, persister and _relire.
MettreEnCache(t) ==
  /\ pc[t] = "cache"
  /\ Inserer(<<id[t]>>, [objet EXCEPT ![id[t]] = tenu[t]], statut)
  /\ Aller(t, "tient")
  /\ UNCHANGED <<hydrate, magasin, disque, nb, statut, creees, id, tenu, lus, restarts>>

------------------------------------------------------------------------------
\* __getitem__ and _relire.

Trouver(t) ==
  /\ pc[t] = "idle"
  /\ \E m \in Missions :
       /\ m \in Range(creees)
       /\ id' = [id EXCEPT ![t] = m]
       /\ tenu' = [tenu EXCEPT ![t] = objet[m]]
       /\ Aller(t, IF objet[m] # Aucun THEN "tient" ELSE "relit")
  /\ UNCHANGED <<cache, magasin, disque, nb, statut, creees, lus, restarts>>

Relire(t) ==
  /\ pc[t] = "relit"
  /\ magasin
  /\ disque[id[t]] # "absent"
  /\ nb < MaxObjets
  /\ nb' = nb + 1
  /\ statut' = [statut EXCEPT ![nb + 1] = disque[id[t]]]
  /\ tenu' = [tenu EXCEPT ![t] = nb + 1]
  /\ Aller(t, "cache")
  /\ UNCHANGED <<cache, magasin, disque, creees, id, lus, restarts>>

\* Mutant of Absente: a mission that left the cache is not read again.
AbsenteDuCache(t) ==
  /\ pc[t] = "relit"
  /\ Aller(t, "absente")
  /\ UNCHANGED <<cache, magasin, disque, nb, statut, creees, id, tenu, lus, restarts>>

\* No store, or no row: KeyError.
Absente(t) ==
  /\ pc[t] = "relit"
  /\ ~magasin \/ disque[id[t]] = "absent"
  /\ Aller(t, "absente")
  /\ UNCHANGED <<cache, magasin, disque, nb, statut, creees, id, tenu, lus, restarts>>

\* lire() raised: logged, and KeyError too.
LectureImpossible(t) ==
  /\ pc[t] = "relit"
  /\ magasin /\ Pannes
  /\ Aller(t, "illisible")
  /\ UNCHANGED <<cache, magasin, disque, nb, statut, creees, id, tenu, lus, restarts>>

------------------------------------------------------------------------------
\* A holder changes the status of its object: start, end, cancel, retry.
Muter(t) ==
  /\ pc[t] = "tient"
  /\ \E s \in Statuts : statut' = [statut EXCEPT ![tenu[t]] = s]
  /\ Aller(t, "persiste")
  /\ UNCHANGED <<cache, magasin, disque, nb, creees, id, tenu, lus, restarts>>

\* persister: the store, then the cache; a refusal is raised to the caller.
Persister(t) ==
  /\ pc[t] = "persiste"
  /\ Enregistrer(t) \/ (~magasin /\ UNCHANGED disque)
  /\ Aller(t, "cache")
  /\ UNCHANGED <<cache, magasin, nb, statut, creees, id, tenu, lus, restarts>>

PersisterEchoue(t) ==
  /\ pc[t] = "persiste"
  /\ magasin /\ Pannes
  /\ Oublier(t)
  /\ UNCHANGED <<cache, magasin, disque, nb, statut, creees, restarts>>

\* The caller is done with the mission, or with the KeyError.
Lacher(t) ==
  /\ pc[t] \in {"tient", "absente", "illisible"}
  /\ Oublier(t)
  /\ UNCHANGED <<cache, magasin, disque, nb, statut, creees, restarts>>

------------------------------------------------------------------------------
\* _hydrater: once, at the first listing; the flag before the reading.
HydraterLit(t) ==
  /\ pc[t] = "idle"
  /\ ~hydrate
  /\ hydrate' = TRUE
  /\ \/ magasin /\ Aller(t, "hydrate") /\ lus' = [lus EXCEPT ![t] = disque]
     \/ (Pannes \/ ~magasin) /\ UNCHANGED <<pc, lus>>
  /\ UNCHANGED <<ordre, objet, magasin, disque, nb, statut, creees, id, tenu, restarts>>

\* tous()[:maximum]: the most recently created, those already cached left
\* alone.
Rang(m) == CHOOSE i \in 1..Len(creees) : creees[i] = m
Parmi(t, m) ==
  /\ lus[t][m] # "absent"
  /\ Cardinality({n \in Missions : lus[t][n] # "absent" /\ Rang(n) > Rang(m)}) < Maximum

\* Mutant of Recentes: hydration replaces what is cached.
Overwrites(t) == {m \in Missions : Parmi(t, m)}

Recentes(t) == {m \in Missions : Parmi(t, m) /\ objet[m] = Aucun}

HydraterInsere(t) ==
  LET S == Recentes(t)
      ob == [m \in Missions |->
               IF m \in S THEN nb + Cardinality({n \in S : n = m \/ Rang(n) < Rang(m)})
                          ELSE objet[m]]
      st == [o \in Objets |->
               IF \E m \in S : ob[m] = o THEN lus[t][CHOOSE m \in S : ob[m] = o]
                                        ELSE statut[o]]
  IN  /\ pc[t] = "hydrate"
      /\ nb + Cardinality(S) <= MaxObjets
      /\ nb' = nb + Cardinality(S)
      /\ statut' = st
      /\ Inserer(Garder(creees, S), ob, st)
      /\ Oublier(t)
      /\ UNCHANGED <<hydrate, magasin, disque, creees, restarts>>

------------------------------------------------------------------------------
\* The process dies at any point; only the store remains.
Redemarrage ==
  /\ restarts < MaxRestarts
  /\ restarts' = restarts + 1
  /\ ordre' = <<>>
  /\ objet' = [m \in Missions |-> Aucun]
  /\ hydrate' = FALSE
  /\ magasin' \in BOOLEAN
  /\ pc' = [t \in Threads |-> "idle"]
  /\ id' = [t \in Threads |-> AnyMission]
  /\ tenu' = [t \in Threads |-> Aucun]
  /\ lus' = [t \in Threads |-> RienLu]
  /\ UNCHANGED <<disque, nb, statut, creees>>

Next ==
  \/ \E t \in Threads :
       \/ Creer(t) \/ EcrireCreation(t) \/ MettreEnCache(t)
       \/ Trouver(t) \/ Relire(t) \/ Absente(t) \/ LectureImpossible(t)
       \/ Muter(t) \/ Persister(t) \/ PersisterEchoue(t) \/ Lacher(t)
       \/ HydraterLit(t) \/ HydraterInsere(t)
  \/ Redemarrage

Spec == Init /\ [][Next]_vars

------------------------------------------------------------------------------
\* A step replaces or drops the cached object of an active mission only by
\* putting back another object of the same mission.
ActiveStep ==
  \A m \in Missions :
    /\ restarts' = restarts
    /\ objet[m] # Aucun /\ statut[objet[m]] = "actif"
    /\ objet'[m] # objet[m]
    => \E t \in Threads : /\ pc[t] = "cache" /\ pc'[t] = "tient"
                          /\ id[t] = m /\ tenu[t] # objet[m]

\* The cached object of an active mission is dropped or replaced in one case
\* only: a thread puts back another object of the same mission that it read or
\* was given before.  No insertion of another mission, no lookup that finds it
\* and no hydration, even one that read the store long before, does so.
ActiveStays == [][ActiveStep]_vars

\* An insertion leaves the cache within its bound, or holding active missions
\* only.
BoundedUnlessActive ==
  [][ordre' # ordre => \/ Len(ordre') <= Maximum
                       \/ \A m \in Range(ordre') : statut'[objet'[m]] = "actif"]_vars

\* What a lookup sees of the registry: see MissionsDurables.
Etat ==
  [t \in Threads |-> CASE pc[t] \in {"idle", "hydrate"} -> "repos"
                      [] pc[t] = "relit" -> "cherche"
                      [] pc[t] \in {"cree", "cache", "tient", "persiste"} -> "tient"
                      [] OTHER -> pc[t]]
Sujet == [t \in Threads |-> IF Etat[t] = "repos" THEN AnyMission ELSE id[t]]
Acceptees == {m \in Missions : disque[m] # "absent"}

Durables == INSTANCE MissionsDurables
              WITH durables <- Acceptees, ouvert <- magasin, etat <- Etat, sujet <- Sujet

\* The registry implements the promise to those who look a mission up: while
\* the store is open and readable, no lookup answers KeyError for a mission one
\* write of which was ever accepted, whatever was evicted, put back or
\* hydrated between the miss in the cache and the reading of the store, in
\* this process or a later one.
NothingDurableIsLost == Durables!Spec

\* "c'est le dernier etat qui fait foi": with a store that accepts every
\* write, a cached mission that no thread is writing or putting back has the
\* status of its row.
LastStateIsServed ==
  \A m \in Missions :
    /\ objet[m] # Aucun /\ disque[m] # "absent"
    /\ \A t \in Threads : id[t] = m => pc[t] \notin {"persiste", "cache"}
    => statut[objet[m]] = disque[m]

\* "si la base refuse, on ne veut pas d'une mission visible en memoire et
\* absente du disque": a cached mission has a row, if there is a store.
VisibleIsStored ==
  \A m \in Missions : magasin /\ objet[m] # Aucun => disque[m] # "absent"
=============================================================================
