------------------------ MODULE RegistreMissions_proofs ------------------------
(***************************************************************************)
(* Proofs about RegistreMissions, for any missions, threads and bound of   *)
(* the cache: the registry implements the promise of MissionsDurables, an  *)
(* active mission is never evicted by the insertion of another one, and    *)
(* the cache exceeds its bound with active missions only.                  *)
(***************************************************************************)
EXTENDS RegistreMissions, FiniteSetTheorems, WellFoundedInduction, TLAPS

\* Documents as tous() returns them and as the store keeps them.
Documents == Statuts \cup {"absent"}

\* The types of the variables both theorems rest on.
Typed ==
  /\ objet \in [Missions -> 0..MaxObjets]
  /\ disque \in [Missions -> Documents]
  /\ nb \in 0..MaxObjets
  /\ statut \in [Objets -> Statuts]
  /\ pc \in [Threads -> Labels]
  /\ id \in [Threads -> Missions]
  /\ tenu \in [Threads -> 0..MaxObjets]
  /\ lus \in [Threads -> [Missions -> Documents]]
  /\ restarts \in Nat

\* No object is known before it is made: those that hydration makes are new.
Made ==
  /\ \A m \in Missions : objet[m] <= nb
  /\ \A t \in Threads : tenu[t] <= nb

\* A thread that will write or cache an object has one.
Holds ==
  \A t \in Threads :
    pc[t] \in {"cree", "cache", "tient", "persiste"} => tenu[t] # Aucun

\* The cache holds missions, and every id in its order has an object.
Queued ==
  /\ ordre \in Seq(Missions)
  /\ creees \in Seq(Missions)
  /\ \A m \in Range(ordre) : objet[m] # Aucun

IInv == Typed /\ Made /\ Holds /\ Queued

------------------------------------------------------------------------------
(* Subsequences                                                            *)

\* Every nonempty set of numbers has a least member.
LEMMA LeastExists ==
  ASSUME NEW T \in SUBSET Nat, T # {}
  PROVE  \E x \in T : \A y \in T : x <= y
  <1>1. IsWellFoundedOn(OpToRel(<, Nat), Nat)
    BY NatLessThanWellFounded
  <1>2. PICK x \in T : \A y \in T : ~ (<<y, x>> \in OpToRel(<, Nat))
    BY <1>1, WFMin
  <1>3. \A y \in T : ~ (y < x)
    BY <1>2 DEF OpToRel
  <1> QED
    BY <1>3

\* The members of K up to i: as many as the rank of i.
Jusque(K, i) == {j \in K : j <= i}

LEMMA PlacesType ==
  ASSUME NEW n \in Nat, NEW K \in SUBSET (1..n)
  PROVE  IsFiniteSet(K) /\ Cardinality(K) \in 0..n
  <1>1. IsFiniteSet(1..n) /\ Cardinality(1..n) = n
    BY FS_Interval
  <1>2. IsFiniteSet(K) /\ Cardinality(K) <= n
    BY <1>1, FS_Subset
  <1>3. Cardinality(K) \in Nat
    BY <1>2, FS_CardinalityType
  <1>4. QED  BY <1>2, <1>3

LEMMA RankType ==
  ASSUME NEW n \in Nat, NEW K \in SUBSET (1..n), NEW i \in Int
  PROVE  IsFiniteSet(Jusque(K, i)) /\ Cardinality(Jusque(K, i)) \in 0..Cardinality(K)
  <1>1. Jusque(K, i) \in SUBSET K
    BY DEF Jusque
  <1>2. IsFiniteSet(K)
    BY PlacesType
  <1>3. IsFiniteSet(Jusque(K, i)) /\ Cardinality(Jusque(K, i)) <= Cardinality(K)
    BY <1>1, <1>2, FS_Subset
  <1>4. Cardinality(K) \in Nat /\ Cardinality(Jusque(K, i)) \in Nat
    BY <1>2, <1>3, FS_CardinalityType
  <1>5. QED  BY <1>3, <1>4

\* Every rank is taken: it is that of the first number up to which there are
\* enough members.
LEMMA RankExists ==
  ASSUME NEW n \in Nat, NEW K \in SUBSET (1..n), NEW k \in 1..Cardinality(K)
  PROVE  \E i \in K : Cardinality(Jusque(K, i)) = k
  <1> DEFINE T == {i \in 0..n : Cardinality(Jusque(K, i)) >= k}
  <1>1. T \in SUBSET Nat /\ T # {}
    <2>0. \A j \in K : j <= n
      OBVIOUS
    <2>1. Jusque(K, n) = K
      BY <2>0 DEF Jusque
    <2>2. n \in 0..n /\ Cardinality(Jusque(K, n)) >= k
      BY <2>1, PlacesType
    <2>3. QED  BY <2>2
  <1>2. PICK i \in T : \A j \in T : i <= j
    BY <1>1, LeastExists
  <1>3. i # 0
    <2>0. \A j \in K : ~ (j <= 0)
      OBVIOUS
    <2>1. Jusque(K, 0) = {}
      BY <2>0 DEF Jusque
    <2>2. Cardinality(Jusque(K, 0)) = 0
      BY <2>1, FS_EmptySet
    <2>3. QED  BY <1>2, <2>2
  <1>4. i \in 1..n /\ Cardinality(Jusque(K, i)) >= k
    BY <1>2, <1>3
  <1>5. i - 1 \in 0..n /\ i - 1 \notin T
    BY <1>2, <1>4
  <1>6. ~ (Cardinality(Jusque(K, i - 1)) >= k)
    BY <1>5
  <1> HIDE DEF T
  <1>7. /\ IsFiniteSet(Jusque(K, i - 1)) /\ Cardinality(Jusque(K, i - 1)) \in Nat
        /\ Cardinality(Jusque(K, i)) \in Nat
    <2>1. i \in Int /\ i - 1 \in Int
      BY <1>4
    <2>2. IsFiniteSet(Jusque(K, i)) /\ Cardinality(Jusque(K, i)) \in 0..Cardinality(K)
      BY <2>1, RankType
    <2>3. IsFiniteSet(Jusque(K, i - 1)) /\ Cardinality(Jusque(K, i - 1)) \in 0..Cardinality(K)
      BY <2>1, RankType
    <2>4. QED  BY <2>2, <2>3
  <1>8. i \in K
    <2> SUFFICES ASSUME i \notin K PROVE FALSE
      OBVIOUS
    <2>1. \A j \in K : j <= i <=> j <= i - 1
      BY <1>4
    <2>2. Jusque(K, i) = Jusque(K, i - 1)
      BY <2>1 DEF Jusque
    <2>3. QED  BY <2>2, <1>4, <1>6
  <1>9. Jusque(K, i) = Jusque(K, i - 1) \cup {i} /\ i \notin Jusque(K, i - 1)
    <2>1. \A j \in K : j <= i <=> j <= i - 1 \/ j = i
      BY <1>4
    <2>2. ~ (i <= i - 1) /\ i <= i
      BY <1>4
    <2>3. QED  BY <2>1, <2>2, <1>8 DEF Jusque
  <1>10. Cardinality(Jusque(K, i)) = Cardinality(Jusque(K, i - 1)) + 1
    BY <1>7, <1>9, FS_AddElement
  <1>11. QED  BY <1>4, <1>6, <1>7, <1>8, <1>10

\* The members of a sequence are what its places hold.
LEMMA RangeIs ==
  ASSUME NEW s \in Seq(Missions)
  PROVE  /\ Range(s) \in SUBSET Missions
         /\ \A i \in 1..Len(s) : s[i] \in Range(s)
         /\ \A m \in Range(s) : \E i \in 1..Len(s) : s[i] = m
  <1>1. DOMAIN s = 1..Len(s) /\ \A i \in 1..Len(s) : s[i] \in Missions
    OBVIOUS
  <1>2. QED  BY <1>1 DEF Range

\* What Garder leaves of a sequence: ids of it that were to be kept, as many as
\* there were places with such an id.
LEMMA GarderIs ==
  ASSUME NEW s \in Seq(Missions), NEW S
  PROVE  /\ Garder(s, S) \in Seq(Missions)
         /\ Len(Garder(s, S)) = Cardinality({i \in 1..Len(s) : s[i] \in S})
         /\ \A m \in Range(Garder(s, S)) : \E i \in 1..Len(s) : s[i] = m /\ m \in S
  <1> DEFINE K == {i \in 1..Len(s) : s[i] \in S}
             R(k) == CHOOSE i \in K : Cardinality(Jusque(K, i)) = k
             g == [k \in 1..Cardinality(K) |-> s[R(k)]]
  <1>0. Len(s) \in Nat /\ \A i \in 1..Len(s) : s[i] \in Missions
    OBVIOUS
  <1>1. Garder(s, S) = g
    BY DEF Garder, Jusque
  <1>2. \A i \in K : i \in 1..Len(s) /\ s[i] \in S
    OBVIOUS
  <1>3. K \in SUBSET (1..Len(s))
    OBVIOUS
  <1> HIDE DEF K
  <1>4. Cardinality(K) \in Nat
    BY <1>0, <1>3, PlacesType
  <1>5. \A k \in 1..Cardinality(K) : R(k) \in K
    <2> TAKE k \in 1..Cardinality(K)
    <2>1. \E i \in K : Cardinality(Jusque(K, i)) = k
      BY <1>0, <1>3, RankExists
    <2>2. QED  BY <2>1
  <1> HIDE DEF R
  <1>6. g \in [1..Cardinality(K) -> Missions]
    BY <1>0, <1>2, <1>5
  <1>7. g \in Seq(Missions) /\ Len(g) = Cardinality(K)
    BY <1>4, <1>6
  <1>8. \A m \in Range(g) : \E i \in 1..Len(s) : s[i] = m /\ m \in S
    BY <1>2, <1>5 DEF Range
  <1> HIDE DEF g
  <1>9. QED  BY <1>1, <1>7, <1>8 DEF K

------------------------------------------------------------------------------
(* What is inserted and evicted                                            *)

\* What _evincer removes has ended: the guard of its loop.
LEMMA EvictedHasEnded ==
  ASSUME NEW s, NEW ob, NEW st, NEW m \in Evinces(s, ob, st)
  PROVE  st[ob[m]] = "terminal"
  BY DEF Evinces, Terminale

\* Where the objects of an insertion come from.
LEMMA InsererTypes ==
  ASSUME NEW s, NEW st, NEW ob \in [Missions -> 0..MaxObjets], Inserer(s, ob, st)
  PROVE  /\ objet' \in [Missions -> 0..MaxObjets]
         /\ \A m \in Missions : objet'[m] \in {Aucun, ob[m]}
         /\ \A m \in Missions : objet'[m] # ob[m] => st[ob[m]] = "terminal"
  <1> DEFINE rangs == Garder(ordre, Missions \ Range(s)) \o s
             dehors == Evinces(rangs, ob, st)
  <1>1. objet' = [m \in Missions |-> IF m \in dehors THEN Aucun ELSE ob[m]]
    BY DEF Inserer
  <1>2. \A m \in dehors : st[ob[m]] = "terminal"
    BY EvictedHasEnded
  <1> HIDE DEF dehors
  <1>3. Aucun \in 0..MaxObjets
    BY BoundsAssumption DEF Aucun
  <1>4. QED  BY <1>1, <1>2, <1>3

\* Hydration numbers the objects it makes after those that exist.
LEMMA HydrationIsFresh ==
  ASSUME NEW S \in SUBSET Missions, NEW T \in SUBSET S, NEW m \in T
  PROVE  Cardinality(T) \in 1..Cardinality(S) /\ Cardinality(S) \in Nat
  <1>1. IsFiniteSet(S) /\ IsFiniteSet(T)
    BY MissionsAssumption, FS_Subset
  <1>2. Cardinality(T) \in Nat /\ Cardinality(S) \in Nat
    BY <1>1, FS_CardinalityType
  <1>3. Cardinality(T) <= Cardinality(S)
    BY <1>1, FS_Subset
  <1>4. Cardinality(T) # 0
    BY <1>1, FS_EmptySet
  <1>5. QED  BY <1>2, <1>3, <1>4

\* The objects of a hydration: those cached keep theirs and their status, the
\* others get new ones, with the status of a document that exists.
LEMMA HydrationObjects ==
  ASSUME IInv, NEW t \in Threads, HydraterInsere(t)
  PROVE  \E ob \in [Missions -> 0..MaxObjets] : \E s \in Seq(Missions) :
           /\ Inserer(s, ob, statut')
           /\ \A m \in Range(s) : ob[m] # Aucun
           /\ statut' \in [Objets -> Statuts]
           /\ nb' \in 0..MaxObjets /\ nb <= nb'
           /\ \A m \in Missions : ob[m] <= nb'
           /\ \A m \in Missions : objet[m] # Aucun => ob[m] = objet[m]
           /\ \A o \in 1..nb : statut'[o] = statut[o]
  <1> DEFINE S == Recentes(t)
             T(m) == {n \in S : n = m \/ Rang(n) < Rang(m)}
             ob == [m \in Missions |-> IF m \in S THEN nb + Cardinality(T(m)) ELSE objet[m]]
             st == [o \in Objets |->
                      IF \E m \in S : ob[m] = o THEN lus[t][CHOOSE m \in S : ob[m] = o]
                                               ELSE statut[o]]
  <1>1. /\ nb + Cardinality(S) <= MaxObjets
        /\ nb' = nb + Cardinality(S)
        /\ statut' = st
        /\ Inserer(Garder(creees, S), ob, st)
    BY DEF HydraterInsere
  <1>2. S \in SUBSET Missions /\ \A m \in S : lus[t][m] \in Statuts /\ objet[m] = Aucun
    BY DEF Recentes, Parmi, IInv, Typed, Documents
  <1>3. \A m \in S : Cardinality(T(m)) \in 1..Cardinality(S)
    <2> TAKE m \in S
    <2>1. T(m) \in SUBSET S /\ m \in T(m)
      OBVIOUS
    <2> HIDE DEF S, T
    <2>2. QED  BY <1>2, <2>1, HydrationIsFresh
  <1>4. Cardinality(S) \in Nat
    <2>1. IsFiniteSet(S)
      BY <1>2, MissionsAssumption, FS_Subset
    <2>2. QED  BY <2>1, FS_CardinalityType
  <1> HIDE DEF S, T
  <1>5. nb \in 0..MaxObjets /\ MaxObjets \in Nat
    BY BoundsAssumption DEF IInv, Typed
  <1>6. ob \in [Missions -> 0..MaxObjets]
    <2> SUFFICES ASSUME NEW m \in Missions
                 PROVE  (IF m \in S THEN nb + Cardinality(T(m)) ELSE objet[m]) \in 0..MaxObjets
      OBVIOUS
    <2>1. CASE m \in S
      BY <2>1, <1>1, <1>3, <1>4, <1>5
    <2>2. CASE m \notin S
      BY <2>2 DEF IInv, Typed
    <2>3. QED  BY <2>1, <2>2
  <1>7. \A m \in S : ob[m] > nb /\ ob[m] <= nb'
    BY <1>1, <1>2, <1>3, <1>4, <1>5
  <1>8. \A m \in Missions : ob[m] <= nb'
    <2> SUFFICES ASSUME NEW m \in Missions, m \notin S PROVE ob[m] <= nb'
      BY <1>7
    <2>1. ob[m] = objet[m] /\ objet[m] <= nb /\ objet[m] \in 0..MaxObjets
      BY DEF IInv, Typed, Made
    <2>2. QED  BY <2>1, <1>1, <1>4, <1>5
  <1>9. \A m \in Missions : objet[m] # Aucun => ob[m] = objet[m]
    BY <1>2
  <1> HIDE DEF ob
  <1>10. st \in [Objets -> Statuts]
    <2> SUFFICES ASSUME NEW o \in Objets
                 PROVE  (IF \E m \in S : ob[m] = o THEN lus[t][CHOOSE m \in S : ob[m] = o]
                                                  ELSE statut[o]) \in Statuts
      OBVIOUS
    <2>1. statut[o] \in Statuts
      BY DEF IInv, Typed
    <2>2. QED  BY <2>1, <1>2
  <1>11. \A o \in 1..nb : st[o] = statut[o]
    <2> TAKE o \in 1..nb
    <2>1. o \in Objets /\ o <= nb
      BY <1>5 DEF Objets
    <2>2. ~ \E m \in S : ob[m] = o
      BY <2>1, <1>7, <1>5, <1>6, <1>2
    <2>3. QED  BY <2>1, <2>2
  <1>12. nb' \in 0..MaxObjets /\ nb <= nb'
    BY <1>1, <1>4, <1>5
  <1>13. /\ Garder(creees, S) \in Seq(Missions)
         /\ \A m \in Range(Garder(creees, S)) : ob[m] # Aucun
    <2>1. creees \in Seq(Missions)
      BY DEF IInv, Queued
    <2>2. /\ Garder(creees, S) \in Seq(Missions)
          /\ \A m \in Range(Garder(creees, S)) : m \in S
      BY <2>1, GarderIs
    <2>3. \A m \in S : ob[m] # Aucun
      BY <1>2, <1>5, <1>6, <1>7 DEF Aucun
    <2>4. QED  BY <2>2, <2>3
  <1> HIDE DEF st
  <1>14. QED  BY <1>1, <1>6, <1>8, <1>9, <1>10, <1>11, <1>12, <1>13

------------------------------------------------------------------------------
LEMMA InitIInv == Init => IInv
  <1> SUFFICES ASSUME Init PROVE IInv
    OBVIOUS
  <1>1. Typed
    BY BoundsAssumption, MissionsAssumption
       DEF Init, Typed, Documents, RienLu, Aucun, Objets, Statuts, Labels, AnyMission
  <1>2. Made /\ Holds
    BY BoundsAssumption DEF Init, Made, Holds, Aucun
  <1>3. Queued
    BY StoreAssumption DEF Init, Queued, Range
  <1>4. QED  BY <1>1, <1>2, <1>3 DEF IInv

\* A step that only moves the locals of one thread, which drops its object.
LEMMA OublierKeeps ==
  ASSUME IInv, NEW t \in Threads, Oublier(t)
  PROVE  /\ pc' \in [Threads -> Labels]
         /\ id' \in [Threads -> Missions]
         /\ tenu' \in [Threads -> 0..MaxObjets]
         /\ lus' \in [Threads -> [Missions -> Documents]]
         /\ \A u \in Threads : u # t => pc'[u] = pc[u] /\ tenu'[u] = tenu[u]
         /\ pc'[t] = "idle" /\ tenu'[t] = Aucun
  <1>1. AnyMission \in Missions
    BY DEF IInv, Typed, AnyMission
  <1>2. Aucun \in 0..MaxObjets
    BY BoundsAssumption DEF Aucun
  <1>3. RienLu \in [Missions -> Documents]
    BY DEF RienLu, Documents
  <1>4. QED
    BY <1>1, <1>2, <1>3 DEF IInv, Typed, Oublier, Aller, Labels

\* One step of one thread.
LEMMA ThreadKeeps ==
  ASSUME IInv, NEW t \in Threads,
         \/ Creer(t) \/ EcrireCreation(t) \/ MettreEnCache(t)
         \/ Trouver(t) \/ Relire(t) \/ Absente(t) \/ LectureImpossible(t)
         \/ Muter(t) \/ Persister(t) \/ PersisterEchoue(t) \/ Lacher(t)
         \/ HydraterLit(t) \/ HydraterInsere(t)
  PROVE  Typed' /\ Made' /\ Holds'
  <1> USE BoundsAssumption DEF Aucun, Objets, Documents
  <1>t. pc[t] \in Labels /\ id[t] \in Missions /\ tenu[t] \in 0..MaxObjets /\ tenu[t] <= nb
    BY DEF IInv, Typed, Made
  <1>1. CASE Creer(t)
    BY <1>1, <1>t DEF IInv, Typed, Made, Holds, Creer, Aller, cache, Labels
  <1>2. CASE EcrireCreation(t)
    <2>1. tenu[t] \in Objets /\ statut[tenu[t]] \in Statuts
      BY <1>2, <1>t DEF EcrireCreation, IInv, Typed, Holds
    <2>2. QED
      BY <1>2, <1>t, <2>1
         DEF IInv, Typed, Made, Holds, EcrireCreation, Enregistrer, Aller, cache, Labels
  <1>3. CASE MettreEnCache(t)
    <2> DEFINE ob == [objet EXCEPT ![id[t]] = tenu[t]]
    <2>1. ob \in [Missions -> 0..MaxObjets] /\ \A m \in Missions : ob[m] <= nb
      BY <1>t DEF IInv, Typed, Made
    <2>2. Inserer(<<id[t]>>, ob, statut)
      BY <1>3 DEF MettreEnCache
    <2> HIDE DEF ob
    <2>3. /\ objet' \in [Missions -> 0..MaxObjets]
          /\ \A m \in Missions : objet'[m] \in {Aucun, ob[m]}
      BY <2>1, <2>2, InsererTypes
    <2>4. \A m \in Missions : objet'[m] <= nb
      <3> TAKE m \in Missions
      <3>1. nb \in 0..MaxObjets /\ 0 <= nb
        BY DEF IInv, Typed
      <3>2. objet'[m] = Aucun \/ objet'[m] = ob[m]
        BY <2>3
      <3>3. QED  BY <2>1, <3>1, <3>2
    <2>5. QED
      BY <1>3, <2>3, <2>4 DEF IInv, Typed, Made, Holds, MettreEnCache, Aller, Labels
  <1>4. CASE Trouver(t)
    <2>1. PICK m \in Missions :
             /\ id' = [id EXCEPT ![t] = m]
             /\ tenu' = [tenu EXCEPT ![t] = objet[m]]
             /\ Aller(t, IF objet[m] # Aucun THEN "tient" ELSE "relit")
      BY <1>4 DEF Trouver
    <2>2. QED
      BY <1>4, <2>1 DEF IInv, Typed, Made, Holds, Trouver, Aller, cache, Labels
  <1>5. CASE Relire(t)
    <2>1. disque[id[t]] \in Statuts
      BY <1>5, <1>t DEF Relire, IInv, Typed
    <2>2. QED
      BY <1>5, <1>t, <2>1 DEF IInv, Typed, Made, Holds, Relire, Aller, cache, Labels
  <1>a. CASE Absente(t) \/ LectureImpossible(t)
    <2>1. /\ UNCHANGED <<objet, disque, nb, statut, id, tenu, lus, restarts>>
          /\ \E l \in {"absente", "illisible"} : pc' = [pc EXCEPT ![t] = l]
      BY <1>a DEF Absente, LectureImpossible, Aller, cache
    <2>2. QED  BY <2>1 DEF IInv, Typed, Made, Holds, Labels
  <1>6. CASE PersisterEchoue(t) \/ Lacher(t)
    <2>1. Oublier(t) /\ UNCHANGED <<cache, magasin, disque, nb, statut, creees, restarts>>
      BY <1>6 DEF PersisterEchoue, Lacher
    <2>2. Typed' /\ Holds'
      BY <2>1, OublierKeeps DEF IInv, Typed, Holds, cache
    <2>3. \A u \in Threads : tenu'[u] <= nb
      <3> TAKE u \in Threads
      <3>1. tenu'[u] = Aucun \/ tenu'[u] = tenu[u]
        BY <2>1, OublierKeeps
      <3>2. tenu[u] <= nb /\ 0 <= nb
        BY DEF IInv, Made, Typed
      <3>3. QED  BY <3>1, <3>2
    <2>4. QED
      BY <2>1, <2>2, <2>3 DEF IInv, Made, cache
  <1>7. CASE Muter(t)
    BY <1>7, <1>t DEF IInv, Typed, Made, Holds, Muter, Aller, cache, Labels, Statuts
  <1>8. CASE Persister(t)
    <2>1. tenu[t] \in Objets /\ statut[tenu[t]] \in Statuts
      BY <1>8, <1>t DEF Persister, IInv, Typed, Holds
    <2>2. QED
      BY <1>8, <1>t, <2>1
         DEF IInv, Typed, Made, Holds, Persister, Enregistrer, Aller, cache, Labels
  <1>9. CASE HydraterLit(t)
    BY <1>9, <1>t DEF IInv, Typed, Made, Holds, HydraterLit, Aller, Labels
  <1>10. CASE HydraterInsere(t)
    <2>1. PICK ob \in [Missions -> 0..MaxObjets] : \E s \in Seq(Missions) :
           /\ Inserer(s, ob, statut')
           /\ statut' \in [Objets -> Statuts]
           /\ nb' \in 0..MaxObjets /\ nb <= nb'
           /\ \A m \in Missions : ob[m] <= nb'
      BY <1>10, HydrationObjects
    <2>2. /\ objet' \in [Missions -> 0..MaxObjets]
          /\ \A m \in Missions : objet'[m] \in {Aucun, ob[m]}
      BY <2>1, InsererTypes
    <2>3. Oublier(t) /\ disque' = disque /\ restarts' = restarts
      BY <1>10 DEF HydraterInsere
    <2>4. Typed'
      BY <2>1, <2>2, <2>3, OublierKeeps DEF IInv, Typed
    <2>5. Made'
      <3>1. \A m \in Missions : objet'[m] <= nb'
        <4> TAKE m \in Missions
        <4>1. objet'[m] = Aucun \/ objet'[m] = ob[m]
          BY <2>2
        <4>2. QED  BY <4>1, <2>1
      <3>2. \A u \in Threads : tenu'[u] <= nb'
        <4> TAKE u \in Threads
        <4>1. tenu'[u] = Aucun \/ tenu'[u] = tenu[u]
          BY <2>3, OublierKeeps
        <4>2. tenu[u] <= nb /\ nb \in Nat /\ tenu[u] \in Nat
          BY DEF IInv, Made, Typed
        <4>3. QED  BY <4>1, <4>2, <2>1
      <3>3. QED  BY <3>1, <3>2 DEF Made
    <2>6. Holds'
      BY <2>3, OublierKeeps DEF IInv, Holds
    <2>7. QED  BY <2>4, <2>5, <2>6
  <1>11. QED
    BY <1>1, <1>2, <1>3, <1>4, <1>5, <1>a, <1>6, <1>7, <1>8, <1>9, <1>10

LEMMA NextKeeps == IInv /\ [Next]_vars => Typed' /\ Made' /\ Holds'
  <1> SUFFICES ASSUME IInv, [Next]_vars PROVE Typed' /\ Made' /\ Holds'
    OBVIOUS
  <1>1. CASE Redemarrage
    <2>1. AnyMission \in Missions \/ Threads = {}
      BY DEF IInv, Typed, AnyMission
    <2>2. QED
      BY <1>1, <2>1, BoundsAssumption
         DEF IInv, Typed, Made, Holds, Redemarrage, Documents, RienLu, Aucun, Labels
  <1>2. CASE vars' = vars
    BY <1>2 DEF IInv, Typed, Made, Holds, vars, cache, locals
  <1>3. QED
    BY <1>1, <1>2, ThreadKeeps DEF Next

\* An insertion orders missions that have objects, if those it inserts and those
\* cached before have them.
LEMMA InsertionQueues ==
  ASSUME NEW s \in Seq(Missions), NEW st, NEW ob \in [Missions -> 0..MaxObjets],
         Inserer(s, ob, st), ordre \in Seq(Missions),
         \A m \in Range(s) : ob[m] # Aucun, \A m \in Range(ordre) : ob[m] # Aucun
  PROVE  /\ ordre' \in Seq(Missions)
         /\ \A m \in Range(ordre') : m \in Missions /\ objet'[m] = ob[m] /\ ob[m] # Aucun
  <1> DEFINE garde == Garder(ordre, Missions \ Range(s))
             rangs == garde \o s
             dehors == Evinces(rangs, ob, st)
  <1>1. /\ ordre' = Garder(rangs, Missions \ dehors)
        /\ objet' = [m \in Missions |-> IF m \in dehors THEN Aucun ELSE ob[m]]
    BY DEF Inserer
  <1>2. /\ garde \in Seq(Missions)
        /\ \A m \in Range(garde) : \E i \in 1..Len(ordre) : ordre[i] = m
    <2> DEFINE reste == Missions \ Range(s)
    <2> HIDE DEF reste
    <2>1. /\ Garder(ordre, reste) \in Seq(Missions)
          /\ \A m \in Range(Garder(ordre, reste)) :
               \E i \in 1..Len(ordre) : ordre[i] = m /\ m \in reste
      BY GarderIs
    <2>2. QED  BY <2>1 DEF reste
  <1> HIDE DEF garde
  <1>3. rangs \in Seq(Missions)
    BY <1>2
  <1>4. \A i \in 1..Len(rangs) : ob[rangs[i]] # Aucun
    <2> TAKE i \in 1..Len(rangs)
    <2>1. CASE i <= Len(garde)
      <3>1. rangs[i] = garde[i] /\ i \in 1..Len(garde)
        BY <1>2, <2>1
      <3>2. PICK j \in 1..Len(ordre) : ordre[j] = rangs[i]
        <4>1. garde[i] \in Range(garde)
          BY <1>2, <3>1, RangeIs
        <4>2. QED  BY <1>2, <3>1, <4>1
      <3>3. QED  BY <3>2, RangeIs
    <2>2. CASE ~ (i <= Len(garde))
      <3>1. rangs[i] = s[i - Len(garde)] /\ i - Len(garde) \in 1..Len(s)
        BY <1>2, <2>2
      <3>2. QED  BY <3>1, RangeIs
    <2>3. QED  BY <2>1, <2>2
  <1> HIDE DEF rangs, dehors
  <1>5. /\ ordre' \in Seq(Missions)
        /\ \A m \in Range(ordre') :
             \E i \in 1..Len(rangs) : rangs[i] = m /\ m \in Missions \ dehors
    BY <1>1, <1>3, GarderIs
  <1>6. QED  BY <1>1, <1>4, <1>5

LEMMA NextKeepsQueued == IInv /\ [Next]_vars => Queued'
  <1> SUFFICES ASSUME IInv, [Next]_vars PROVE Queued'
    OBVIOUS
  <1> USE DEF Aucun
  <1>0. Queued /\ Typed /\ Made
    BY DEF IInv
  <1>1. ASSUME NEW t \in Threads, Creer(t) PROVE Queued'
    BY <1>0, <1>1 DEF Creer, cache, Queued
  <1>2. ASSUME NEW t \in Threads, MettreEnCache(t) PROVE Queued'
    <2> DEFINE ob == [objet EXCEPT ![id[t]] = tenu[t]]
    <2>1. ob \in [Missions -> 0..MaxObjets] /\ id[t] \in Missions /\ tenu[t] # Aucun
      BY <1>0, <1>2 DEF IInv, Typed, Holds, MettreEnCache
    <2>2. ob[id[t]] = tenu[t] /\ \A m \in Missions : m # id[t] => ob[m] = objet[m]
      BY <1>0, <2>1 DEF Typed
    <2>3. Inserer(<<id[t]>>, ob, statut) /\ creees' = creees
      BY <1>2 DEF MettreEnCache
    <2> HIDE DEF ob
    <2>4. /\ <<id[t]>> \in Seq(Missions)
          /\ \A m \in Range(<<id[t]>>) : ob[m] # Aucun
      BY <2>1, <2>2 DEF Range
    <2>5. \A m \in Range(ordre) : ob[m] # Aucun
      <3>1. Range(ordre) \in SUBSET Missions
        BY <1>0, RangeIs DEF Queued
      <3>2. QED  BY <1>0, <2>1, <2>2, <3>1 DEF Queued
    <2>6. /\ ordre' \in Seq(Missions)
          /\ \A m \in Range(ordre') : objet'[m] # Aucun
      BY <1>0, <2>1, <2>3, <2>4, <2>5, InsertionQueues DEF Queued
    <2>7. QED  BY <1>0, <2>3, <2>6 DEF Queued
  <1>3. ASSUME NEW t \in Threads, HydraterInsere(t) PROVE Queued'
    <2>1. PICK ob \in [Missions -> 0..MaxObjets] : \E s \in Seq(Missions) :
           /\ Inserer(s, ob, statut')
           /\ \A m \in Range(s) : ob[m] # Aucun
           /\ \A m \in Missions : objet[m] # Aucun => ob[m] = objet[m]
      BY <1>3, HydrationObjects
    <2>2. PICK s \in Seq(Missions) :
           /\ Inserer(s, ob, statut')
           /\ \A m \in Range(s) : ob[m] # Aucun
      BY <2>1
    <2>3. \A m \in Range(ordre) : ob[m] # Aucun
      <3>1. Range(ordre) \in SUBSET Missions
        BY <1>0, RangeIs DEF Queued
      <3>2. QED  BY <1>0, <2>1, <3>1 DEF Queued
    <2>4. /\ ordre' \in Seq(Missions)
          /\ \A m \in Range(ordre') : objet'[m] # Aucun
      BY <1>0, <2>2, <2>3, InsertionQueues DEF Queued
    <2>5. creees' = creees
      BY <1>3 DEF HydraterInsere
    <2>6. QED  BY <1>0, <2>4, <2>5 DEF Queued
  <1>4. CASE Redemarrage
    BY <1>0, <1>4 DEF Redemarrage, Queued, Range
  <1>5. CASE UNCHANGED <<ordre, objet, creees>>
    BY <1>0, <1>5 DEF Queued
  <1>6. QED
    BY <1>1, <1>2, <1>3, <1>4, <1>5
       DEF Next, vars, cache, EcrireCreation, Trouver, Relire, Absente, LectureImpossible, Muter,
           Persister, PersisterEchoue, Lacher, HydraterLit

LEMMA NextKeepsIInv == IInv /\ [Next]_vars => IInv'
  BY NextKeeps, NextKeepsQueued DEF IInv

\* The inductive invariant: the objects in the cache and in the hands of the
\* threads exist, and whoever writes or caches has one.
THEOREM RegistryInvariant == Spec => []IInv
  BY InitIInv, NextKeepsIInv, PTL DEF Spec

------------------------------------------------------------------------------
\* A thread alone moves: so do its state and its mission.
LEMMA MoveIs ==
  ASSUME IInv, NEW t \in Threads, NEW l \in Labels, Aller(t, l),
         \A u \in Threads : u # t => id'[u] = id[u]
  PROVE  /\ Etat' = [Etat EXCEPT ![t] = Etat'[t]]
         /\ Sujet' = [Sujet EXCEPT ![t] = Sujet'[t]]
         /\ pc'[t] = l
  <1>1. /\ pc'[t] = l /\ \A u \in Threads : u # t => pc'[u] = pc[u]
    BY DEF IInv, Typed, Aller
  <1>2. \A u \in Threads : u # t => Etat'[u] = Etat[u]
    BY <1>1 DEF Etat
  <1>3. \A u \in Threads : u # t => Sujet'[u] = Sujet[u]
    BY <1>2 DEF Sujet
  <1>4. /\ Etat = [u \in Threads |-> Etat[u]] /\ Etat' = [u \in Threads |-> Etat'[u]]
        /\ Sujet = [u \in Threads |-> Sujet[u]] /\ Sujet' = [u \in Threads |-> Sujet'[u]]
    BY DEF Etat, Sujet
  <1>5. QED  BY <1>1, <1>2, <1>3, <1>4

\* The mission of a thread is one of the missions.
LEMMA SujetType ==
  ASSUME IInv
  PROVE  Sujet \in [Threads -> Missions]
  BY MissionsAssumption DEF Sujet, AnyMission, IInv, Typed

LEMMA SujetNextType ==
  ASSUME IInv'
  PROVE  Sujet' \in [Threads -> Missions]
  BY MissionsAssumption DEF Sujet, AnyMission, IInv, Typed

\* A write that the store accepts adds the mission of its thread.
LEMMA WriteAccepts ==
  ASSUME IInv, NEW t \in Threads, pc[t] \in {"cree", "persiste"}, Enregistrer(t)
  PROVE  Acceptees' = Acceptees \cup {Sujet[t]} /\ magasin
  <1>1. tenu[t] \in Objets /\ id[t] \in Missions
    BY BoundsAssumption DEF IInv, Typed, Holds, Aucun, Objets
  <1>2. statut[tenu[t]] # "absent"
    BY <1>1 DEF IInv, Typed, Statuts
  <1>3. disque' = [disque EXCEPT ![id[t]] = statut[tenu[t]]] /\ magasin
    BY DEF Enregistrer
  <1>4. Sujet[t] = id[t]
    BY DEF Sujet, Etat
  <1>5. QED  BY <1>1, <1>2, <1>3, <1>4 DEF Acceptees, IInv, Typed

\* Every step of a thread is a step of MissionsDurables, or none.
LEMMA ThreadRefines ==
  ASSUME IInv, IInv', NEW t \in Threads,
         \/ Creer(t) \/ EcrireCreation(t) \/ MettreEnCache(t)
         \/ Trouver(t) \/ Relire(t) \/ Absente(t) \/ LectureImpossible(t)
         \/ Muter(t) \/ Persister(t) \/ PersisterEchoue(t) \/ Lacher(t)
         \/ HydraterLit(t) \/ HydraterInsere(t)
  PROVE  Durables!Next \/ UNCHANGED <<Acceptees, magasin, Etat, Sujet>>
  <1>0. /\ pc \in [Threads -> Labels] /\ id \in [Threads -> Missions]
        /\ Sujet' \in [Threads -> Missions]
    BY SujetNextType DEF IInv, Typed
  <1>l. \A l \in {"idle", "cree", "cache", "relit", "tient", "persiste", "hydrate",
                   "absente", "illisible"} : l \in Labels
    BY DEF Labels
  <1>s. disque' = disque => Acceptees' = Acceptees
    BY DEF Acceptees
  <1>m. ASSUME NEW l \in Labels, Aller(t, l), \A u \in Threads : u # t => id'[u] = id[u]
        PROVE  /\ Etat' = [Etat EXCEPT ![t] = Etat'[t]]
               /\ Sujet' = [Sujet EXCEPT ![t] = Sujet'[t]]
               /\ Sujet'[t] \in Missions
               /\ pc'[t] = l
    BY <1>0, <1>m, MoveIs
  <1>o. Oublier(t) => \A u \in Threads : u # t => id'[u] = id[u]
    BY <1>0 DEF Oublier
  <1>k. ASSUME id' = id, NEW l \in Labels, Aller(t, l), Etat'[t] = Etat[t]
        PROVE  UNCHANGED <<Etat, Sujet>>
    <2>1. Etat' = [Etat EXCEPT ![t] = Etat[t]]
      BY <1>k, <1>m
    <2>2. Etat' = Etat
      BY <2>1 DEF Etat
    <2>3. QED  BY <2>2, <1>k DEF Sujet
  <1>1. CASE Creer(t) \/ Trouver(t)
    <2>1. PICK l \in {"cree", "tient", "relit"} : Aller(t, l)
      BY <1>1 DEF Creer, Trouver
    <2>2. /\ pc[t] = "idle" /\ UNCHANGED <<disque, magasin>>
          /\ \A u \in Threads : u # t => id'[u] = id[u]
      BY <1>0, <1>1 DEF Creer, Trouver
    <2>3. /\ Etat' = [Etat EXCEPT ![t] = Etat'[t]]
          /\ Sujet' = [Sujet EXCEPT ![t] = Sujet'[t]]
          /\ Sujet'[t] \in Missions
          /\ pc'[t] = l
      BY <1>l, <1>m, <2>1, <2>2
    <2>4. Etat[t] = "repos" /\ Etat'[t] \in {"tient", "cherche"}
      BY <2>1, <2>2, <2>3 DEF Etat
    <2>5. Durables!Demander(t)
      BY <1>s, <2>2, <2>3, <2>4 DEF Durables!Demander, Durables!Passe, Durables!Concerne
    <2>6. QED  BY <2>5 DEF Durables!Next
  <1>2. CASE EcrireCreation(t) \/ Persister(t)
    <2>1. /\ pc[t] \in {"cree", "persiste"} /\ Aller(t, "cache")
          /\ Enregistrer(t) \/ disque' = disque
          /\ UNCHANGED <<magasin, id>>
      BY <1>2 DEF EcrireCreation, Persister
    <2>2. Etat[t] = "tient" /\ Etat'[t] = "tient"
      BY <1>0, <2>1 DEF Etat, Aller
    <2>3. UNCHANGED <<Etat, Sujet>>
      BY <1>k, <1>l, <2>1, <2>2
    <2>4. CASE Enregistrer(t)
      <3>1. Acceptees' = Acceptees \cup {Sujet[t]} /\ magasin
        BY <2>1, <2>4, WriteAccepts
      <3>2. Durables!Accepter(t)
        BY <2>1, <2>2, <2>3, <3>1 DEF Durables!Accepter
      <3>3. QED  BY <3>2 DEF Durables!Next
    <2>5. CASE disque' = disque
      BY <1>s, <2>1, <2>3, <2>5
    <2>6. QED  BY <2>1, <2>4, <2>5
  <1>3. CASE MettreEnCache(t) \/ Muter(t)
    <2>1. PICK l \in {"tient", "persiste"} :
            /\ pc[t] \in {"cache", "tient"} /\ Aller(t, l)
            /\ UNCHANGED <<disque, magasin, id>>
      BY <1>3 DEF MettreEnCache, Muter
    <2>2. Etat'[t] = Etat[t]
      BY <1>0, <2>1 DEF Etat, Aller
    <2>3. UNCHANGED <<Etat, Sujet>>
      BY <1>k, <1>l, <2>1, <2>2
    <2>4. QED  BY <1>s, <2>1, <2>3
  <1>4. CASE Relire(t) \/ Absente(t) \/ LectureImpossible(t)
    <2>1. /\ pc[t] = "relit" /\ UNCHANGED <<disque, magasin, id>>
          /\ \/ Aller(t, "cache")
             \/ Aller(t, "absente") /\ (~magasin \/ disque[id[t]] = "absent")
             \/ Aller(t, "illisible") /\ magasin
      BY <1>4 DEF Relire, Absente, LectureImpossible
    <2>2. PICK l \in {"cache", "absente", "illisible"} :
            /\ Aller(t, l)
            /\ l = "absente" => ~magasin \/ disque[id[t]] = "absent"
            /\ l = "illisible" => magasin
      BY <2>1
    <2>3. /\ Etat' = [Etat EXCEPT ![t] = Etat'[t]] /\ pc'[t] = l
          /\ Sujet' = [Sujet EXCEPT ![t] = Sujet'[t]]
      BY <1>l, <1>m, <2>1, <2>2
    <2>4. /\ Etat[t] = "cherche" /\ Sujet[t] = id[t] /\ Sujet'[t] = id[t]
          /\ Etat'[t] = IF l = "cache" THEN "tient" ELSE l
      BY <2>1, <2>2, <2>3 DEF Etat, Sujet
    <2>5. Sujet' = Sujet
      BY <2>3, <2>4 DEF Sujet
    <2>6. CASE l = "cache"
      <3>1. Durables!Trouver(t)
        BY <1>s, <2>1, <2>3, <2>4, <2>5, <2>6 DEF Durables!Trouver, Durables!Passe
      <3>2. QED  BY <3>1 DEF Durables!Next
    <2>7. CASE l = "absente"
      <3>1. Sujet[t] \notin Acceptees \/ ~magasin
        BY <2>2, <2>4, <2>7 DEF Acceptees
      <3>2. Durables!Manquer(t)
        BY <1>s, <2>1, <2>3, <2>4, <2>5, <2>7, <3>1 DEF Durables!Manquer, Durables!Passe
      <3>3. QED  BY <3>2 DEF Durables!Next
    <2>8. CASE l = "illisible"
      <3>1. Durables!Illisible(t)
        BY <1>s, <2>1, <2>2, <2>3, <2>4, <2>5, <2>8 DEF Durables!Illisible, Durables!Passe
      <3>2. QED  BY <3>1 DEF Durables!Next
    <2>9. QED  BY <2>2, <2>6, <2>7, <2>8
  <1>5. CASE PersisterEchoue(t) \/ Lacher(t)
    <2>1. /\ pc[t] \in {"persiste", "tient", "absente", "illisible"}
          /\ Oublier(t) /\ Aller(t, "idle") /\ UNCHANGED <<disque, magasin>>
      BY <1>5 DEF PersisterEchoue, Lacher, Oublier
    <2>2. /\ Etat' = [Etat EXCEPT ![t] = Etat'[t]] /\ pc'[t] = "idle"
          /\ Sujet' = [Sujet EXCEPT ![t] = Sujet'[t]] /\ Sujet'[t] \in Missions
      BY <1>l, <1>m, <1>o, <2>1
    <2>3. Etat[t] \in {"tient", "absente", "illisible"} /\ Etat'[t] = "repos"
      BY <2>1, <2>2 DEF Etat
    <2>4. Durables!Rendre(t)
      BY <1>s, <2>1, <2>2, <2>3 DEF Durables!Rendre, Durables!Passe, Durables!Concerne
    <2>5. QED  BY <2>4 DEF Durables!Next
  <1>6. CASE HydraterLit(t)
    <2>1. /\ pc[t] = "idle" /\ UNCHANGED <<disque, magasin, id>>
          /\ Aller(t, "hydrate") \/ pc' = pc
      BY <1>6 DEF HydraterLit
    <2>2. CASE Aller(t, "hydrate")
      <3>1. Etat'[t] = Etat[t]
        BY <1>0, <2>1, <2>2 DEF Etat, Aller
      <3>2. QED  BY <1>k, <1>l, <1>s, <2>1, <2>2, <3>1
    <2>3. CASE pc' = pc
      BY <1>s, <2>1, <2>3 DEF Etat, Sujet
    <2>4. QED  BY <2>1, <2>2, <2>3
  <1>7. CASE HydraterInsere(t)
    <2>1. /\ pc[t] = "hydrate" /\ Oublier(t) /\ Aller(t, "idle")
          /\ UNCHANGED <<disque, magasin>>
      BY <1>7 DEF HydraterInsere, Oublier
    <2>2. /\ Etat' = [Etat EXCEPT ![t] = Etat'[t]] /\ pc'[t] = "idle"
          /\ Sujet' = [Sujet EXCEPT ![t] = Sujet'[t]]
      BY <1>l, <1>m, <1>o, <2>1
    <2>3. Etat[t] = "repos" /\ Etat'[t] = "repos"
      BY <2>1, <2>2 DEF Etat
    <2>4. Sujet[t] = AnyMission /\ Sujet'[t] = AnyMission
      BY <2>3 DEF Sujet
    <2>5. Etat' = Etat /\ Sujet' = Sujet
      <3>1. Etat' = [Etat EXCEPT ![t] = Etat[t]] /\ Sujet' = [Sujet EXCEPT ![t] = Sujet[t]]
        BY <2>2, <2>3, <2>4
      <3>2. QED  BY <3>1 DEF Etat, Sujet
    <2>6. QED  BY <1>s, <2>1, <2>5
  <1>8. QED
    BY <1>1, <1>2, <1>3, <1>4, <1>5, <1>6, <1>7

\* The registry implements MissionsDurables for every number of threads and
\* missions, every bound of the cache and every content of the store at the
\* start: through evictions, hydration, failing calls and restarts, no lookup
\* of a mission whose document the store accepted ends in a KeyError while the
\* store is open and readable.
THEOREM RegistryIsDurable == Spec => NothingDurableIsLost
  <1>1. Init => Durables!Init
    <2> SUFFICES ASSUME Init PROVE Durables!Init
      OBVIOUS
    <2>1. Sujet \in [Threads -> Missions]
      BY InitIInv, SujetType
    <2>2. Etat = [t \in Threads |-> "repos"]
      BY DEF Init, Etat
    <2>3. Acceptees \in SUBSET Missions /\ magasin \in BOOLEAN
      BY DEF Init, Acceptees
    <2>4. QED  BY <2>1, <2>2, <2>3 DEF Durables!Init
  <1>2. IInv /\ IInv' /\ [Next]_vars => [Durables!Next]_(Durables!vars)
    <2> SUFFICES ASSUME IInv, IInv', [Next]_vars
                 PROVE  Durables!Next \/ UNCHANGED <<Acceptees, magasin, Etat, Sujet>>
      BY DEF Durables!vars
    <2>1. CASE Redemarrage
      <3>1. Acceptees' = Acceptees /\ magasin' \in BOOLEAN
        BY <2>1 DEF Redemarrage, Acceptees
      <3>2. Etat' = [t \in Threads |-> "repos"]
        BY <2>1 DEF Redemarrage, Etat
      <3>3. Sujet' \in [Threads -> Missions]
        BY SujetNextType
      <3>4. Durables!Redemarrer
        BY <3>1, <3>2, <3>3 DEF Durables!Redemarrer
      <3>5. QED  BY <3>4 DEF Durables!Next
    <2>2. CASE UNCHANGED vars
      BY <2>2 DEF vars, locals, Acceptees, Etat, Sujet
    <2>3. QED
      BY <2>1, <2>2, ThreadRefines DEF Next
  <1>3. QED
    BY <1>1, <1>2, RegistryInvariant, PTL DEF Spec, NothingDurableIsLost, Durables!Spec

------------------------------------------------------------------------------
\* An insertion that leaves the objects of active missions as they are keeps
\* them in the cache.
LEMMA InsertionKeepsActive ==
  ASSUME NEW s, NEW st, NEW ob \in [Missions -> 0..MaxObjets], Inserer(s, ob, st),
         NEW m \in Missions, st[ob[m]] = "actif"
  PROVE  objet'[m] = ob[m]
  BY InsererTypes

LEMMA StepKeepsActive == IInv /\ [Next]_vars => [ActiveStep]_vars
  <1> SUFFICES ASSUME IInv, Next,
                      NEW m \in Missions, restarts' = restarts,
                      objet[m] # Aucun, statut[objet[m]] = "actif",
                      objet'[m] # objet[m]
               PROVE  \E t \in Threads : /\ pc[t] = "cache" /\ pc'[t] = "tient"
                                         /\ id[t] = m /\ tenu[t] # objet[m]
    BY DEF ActiveStep
  <1>0. ~ Redemarrage
    BY DEF Redemarrage, IInv, Typed
  <1>1. PICK t \in Threads : MettreEnCache(t) \/ HydraterInsere(t)
    BY <1>0 DEF Next, Creer, EcrireCreation, Trouver, Relire, Absente, LectureImpossible, Muter,
                Persister, PersisterEchoue, Lacher, HydraterLit, cache
  <1>2. CASE MettreEnCache(t)
    <2> DEFINE ob == [objet EXCEPT ![id[t]] = tenu[t]]
    <2>1. ob \in [Missions -> 0..MaxObjets] /\ Inserer(<<id[t]>>, ob, statut)
      BY <1>2 DEF MettreEnCache, IInv, Typed
    <2>2. pc[t] = "cache" /\ pc'[t] = "tient"
      BY <1>2 DEF MettreEnCache, Aller, IInv, Typed
    <2>3. ob[m] = objet[m] => FALSE
      <3> SUFFICES ASSUME ob[m] = objet[m] PROVE FALSE
        OBVIOUS
      <3> HIDE DEF ob
      <3>1. QED  BY <2>1, InsertionKeepsActive
    <2>4. id[t] = m /\ tenu[t] # objet[m]
      BY <2>3 DEF IInv, Typed
    <2>5. QED  BY <2>2, <2>4
  <1>3. CASE HydraterInsere(t)
    <2>1. PICK ob \in [Missions -> 0..MaxObjets] : \E s \in Seq(Missions) :
           /\ Inserer(s, ob, statut')
           /\ \A n \in Missions : objet[n] # Aucun => ob[n] = objet[n]
           /\ \A o \in 1..nb : statut'[o] = statut[o]
      BY <1>3, HydrationObjects
    <2>2. objet[m] \in 1..nb
      BY DEF IInv, Typed, Made, Aucun
    <2>3. ob[m] = objet[m] /\ statut'[ob[m]] = "actif"
      BY <2>1, <2>2
    <2>4. objet'[m] = ob[m]
      BY <2>1, <2>3, InsertionKeepsActive
    <2>5. QED  BY <2>3, <2>4
  <1>4. QED  BY <1>1, <1>2, <1>3

\* For every bound of the cache and any number of threads, the object of an
\* active mission leaves the cache only for another object of that mission,
\* put back by a thread that held it.
THEOREM ActiveIsKept == Spec => ActiveStays
  BY StepKeepsActive, RegistryInvariant, PTL DEF Spec, ActiveStays

------------------------------------------------------------------------------
\* After an insertion the cache is within its bound, or every terminal mission
\* has left it.  If one stays, its rank among the terminal ones is beyond the
\* excess, so that as many as the excess had a lower rank and have left.
LEMMA InsertionIsBounded ==
  ASSUME NEW s \in Seq(Missions), NEW st, NEW ob \in [Missions -> 0..MaxObjets],
         Inserer(s, ob, st), ordre \in Seq(Missions)
  PROVE  \/ Len(ordre') <= Maximum
         \/ \A m \in Range(ordre') : m \in Missions /\ ~ Terminale(ob, st, m)
  <1> DEFINE reste == Missions \ Range(s)
             rangs == Garder(ordre, reste) \o s
             dehors == Evinces(rangs, ob, st)
             L == Len(rangs)
             T == {j \in 1..L : Terminale(ob, st, rangs[j])}
             E == {j \in T : Cardinality(Jusque(T, j)) <= L - Maximum}
             K == {i \in 1..L : rangs[i] \in Missions \ dehors}
  <1>1. ordre' = Garder(rangs, Missions \ dehors)
    BY DEF Inserer
  <1>2. rangs \in Seq(Missions)
    <2> HIDE DEF reste
    <2>1. Garder(ordre, reste) \in Seq(Missions)
      BY GarderIs
    <2>2. QED  BY <2>1
  <1>3. dehors = {rangs[j] : j \in E}
    <2>1. \A j \in 1..L : {h \in 1..j : Terminale(ob, st, rangs[h])} = Jusque(T, j)
      <3> HIDE DEF rangs
      <3>1. L \in Nat
        BY <1>2
      <3> HIDE DEF L
      <3> TAKE j \in 1..L
      <3>2. \A h : h \in 1..j <=> h \in 1..L /\ h <= j
        BY <3>1
      <3>3. QED  BY <3>2 DEF Jusque
    <2> HIDE DEF rangs
    <2>2. QED  BY <2>1 DEF Evinces
  <1> HIDE DEF rangs, dehors
  <1>4. L \in Nat /\ Maximum \in Nat
    BY <1>2, BoundsAssumption
  <1>5. /\ Len(ordre') = Cardinality(K)
        /\ \A m \in Range(ordre') : \E i \in 1..L : rangs[i] = m /\ m \in Missions \ dehors
    BY <1>1, <1>2, GarderIs
  <1>6. T \in SUBSET (1..L) /\ K \in SUBSET (1..L) /\ E \in SUBSET T
    OBVIOUS
  <1>7. K \cap E = {}
    BY <1>3
  <1>8. \A i \in K \cap T : Cardinality(Jusque(T, i)) > L - Maximum
    <2> TAKE i \in K \cap T
    <2>1. i \notin E
      BY <1>7
    <2>2. i \in Int
      BY <1>4
    <2>3. Cardinality(Jusque(T, i)) \in 0..Cardinality(T) /\ Cardinality(T) \in Nat
      <3> HIDE DEF L, T, E, K
      <3>1. Cardinality(Jusque(T, i)) \in 0..Cardinality(T)
        BY <1>4, <1>6, <2>2, RankType
      <3>2. Cardinality(T) \in 0..L
        BY <1>4, <1>6, PlacesType
      <3>3. QED  BY <1>4, <3>1, <3>2
    <2>4. QED  BY <1>4, <2>1, <2>3
  <1>9. \A j \in T : Cardinality(Jusque(T, j)) <= L - Maximum => j \in E
    OBVIOUS
  <1>10. ASSUME NEW m \in Range(ordre'), ~ (m \in Missions /\ ~ Terminale(ob, st, m))
         PROVE  \E i \in K : i \in T
    <2>1. PICK i \in 1..L : rangs[i] = m /\ m \in Missions \ dehors
      BY <1>5
    <2>2. QED  BY <2>1, <1>10
  <1> HIDE DEF L, T, E, K
  <1>11. SUFFICES ASSUME NEW i \in K, i \in T PROVE Len(ordre') <= Maximum
    BY <1>10
  <1>12. /\ IsFiniteSet(K) /\ Cardinality(K) \in 0..L
         /\ IsFiniteSet(T) /\ Cardinality(T) \in 0..L
    BY <1>4, <1>6, PlacesType
  <1>13. CASE L <= Maximum
    BY <1>4, <1>5, <1>12, <1>13
  <1>14. CASE ~ (L <= Maximum)
    <2> DEFINE n == L - Maximum
    <2>1. n \in Nat /\ n >= 1
      BY <1>4, <1>14
    <2>2. Cardinality(Jusque(T, i)) \in 0..Cardinality(T) /\ i \in 1..L
      <3>1. i \in 1..L /\ i \in Int
        BY <1>4, <1>6
      <3>2. QED  BY <1>4, <1>6, <3>1, RankType
    <2>3. n \in 1..Cardinality(T)
      BY <1>4, <1>8, <1>11, <1>12, <2>1, <2>2
    <2>4. PICK j \in T : Cardinality(Jusque(T, j)) = n
      BY <1>4, <1>6, <2>3, RankExists
    <2>5. Jusque(T, j) \subseteq E
      <3> SUFFICES ASSUME NEW h \in Jusque(T, j) PROVE h \in E
        OBVIOUS
      <3>1. h \in T /\ h <= j /\ h \in Int /\ j \in Int
        BY <1>4, <1>6 DEF Jusque
      <3>2. \A g \in T : g \in Int
        BY <1>4, <1>6
      <3>3. Jusque(T, h) \in SUBSET Jusque(T, j)
        <4>1. \A g \in T : g <= h => g <= j
          BY <3>1, <3>2
        <4>2. QED  BY <4>1 DEF Jusque
      <3>4. IsFiniteSet(Jusque(T, j))
        BY <1>4, <1>6, <3>1, RankType
      <3>5. Cardinality(Jusque(T, h)) <= n
        BY <2>4, <3>3, <3>4, FS_Subset
      <3>6. QED  BY <1>9, <3>1, <3>5
    <2> DEFINE J == Jusque(T, j)
    <2>6. J \in SUBSET (1..L) /\ K \cap J = {}
      BY <1>6, <1>7, <2>5
    <2>7. Cardinality(J) = n
      BY <2>4
    <2> HIDE DEF J
    <2>8. IsFiniteSet(J)
      BY <1>4, <2>6, PlacesType
    <2>9. Cardinality(K \cup J) = Cardinality(K) + n
      <3>1. Cardinality(K \cup J) = Cardinality(K) + Cardinality(J) - Cardinality(K \cap J)
        BY <1>12, <2>8, FS_Union
      <3>2. Cardinality(K \cap J) = 0
        BY <2>6, FS_EmptySet
      <3>3. QED  BY <1>12, <2>1, <2>7, <3>1, <3>2
    <2>10. Cardinality(K \cup J) \in 0..L
      <3>1. K \cup J \in SUBSET (1..L)
        BY <1>6, <2>6
      <3>2. QED  BY <1>4, <3>1, PlacesType
    <2>11. QED
      BY <1>4, <1>5, <1>12, <2>9, <2>10
  <1>15. QED  BY <1>13, <1>14

\* A mission in the cache that is not terminal is active.
LEMMA InsertionLeavesActive ==
  ASSUME IInv, NEW s \in Seq(Missions), NEW st \in [Objets -> Statuts],
         NEW ob \in [Missions -> 0..MaxObjets], Inserer(s, ob, st),
         \A m \in Range(s) : ob[m] # Aucun, \A m \in Range(ordre) : ob[m] # Aucun
  PROVE  \/ Len(ordre') <= Maximum
         \/ \A m \in Range(ordre') : st[objet'[m]] = "actif"
  <1>1. ordre \in Seq(Missions)
    BY DEF IInv, Queued
  <1>2. SUFFICES ASSUME \A m \in Range(ordre') : m \in Missions /\ ~ Terminale(ob, st, m),
                        NEW m \in Range(ordre')
                 PROVE  st[objet'[m]] = "actif"
    BY <1>1, InsertionIsBounded
  <1>3. m \in Missions /\ objet'[m] = ob[m] /\ ob[m] # Aucun
    BY <1>1, InsertionQueues
  <1>4. ob[m] \in Objets
    BY <1>3, BoundsAssumption DEF Objets, Aucun
  <1>5. st[ob[m]] \in Statuts /\ st[ob[m]] # "terminal"
    BY <1>2, <1>4 DEF Terminale
  <1>6. QED  BY <1>3, <1>5 DEF Statuts

\* What BoundedUnlessActive asks of a step.
BoundedStep ==
  ordre' # ordre => \/ Len(ordre') <= Maximum
                    \/ \A m \in Range(ordre') : statut'[objet'[m]] = "actif"

LEMMA StepIsBounded == IInv /\ [Next]_vars => BoundedStep
  <1> SUFFICES ASSUME IInv, [Next]_vars, ordre' # ordre
               PROVE  \/ Len(ordre') <= Maximum
                      \/ \A m \in Range(ordre') : statut'[objet'[m]] = "actif"
    BY DEF BoundedStep
  <1>0. Typed /\ Range(ordre) \in SUBSET Missions
    BY RangeIs DEF IInv, Queued
  <1>1. CASE Redemarrage
    BY <1>1, BoundsAssumption DEF Redemarrage
  <1>2. ASSUME NEW t \in Threads, MettreEnCache(t)
        PROVE  \/ Len(ordre') <= Maximum
               \/ \A m \in Range(ordre') : statut'[objet'[m]] = "actif"
    <2> DEFINE ob == [objet EXCEPT ![id[t]] = tenu[t]]
    <2>1. ob \in [Missions -> 0..MaxObjets] /\ id[t] \in Missions /\ tenu[t] # Aucun
      BY <1>0, <1>2 DEF IInv, Typed, Holds, MettreEnCache
    <2>2. ob[id[t]] = tenu[t] /\ \A m \in Missions : m # id[t] => ob[m] = objet[m]
      BY <1>0, <2>1 DEF Typed
    <2>3. Inserer(<<id[t]>>, ob, statut) /\ statut' = statut
      BY <1>2 DEF MettreEnCache
    <2> HIDE DEF ob
    <2>4. /\ <<id[t]>> \in Seq(Missions)
          /\ \A m \in Range(<<id[t]>>) : ob[m] # Aucun
      BY <2>1, <2>2 DEF Range
    <2>5. \A m \in Range(ordre) : ob[m] # Aucun
      BY <1>0, <2>1, <2>2 DEF IInv, Queued
    <2>6. statut \in [Objets -> Statuts]
      BY <1>0 DEF Typed
    <2>7. QED  BY <2>1, <2>3, <2>4, <2>5, <2>6, InsertionLeavesActive
  <1>3. ASSUME NEW t \in Threads, HydraterInsere(t)
        PROVE  \/ Len(ordre') <= Maximum
               \/ \A m \in Range(ordre') : statut'[objet'[m]] = "actif"
    <2>1. PICK ob \in [Missions -> 0..MaxObjets] : \E s \in Seq(Missions) :
           /\ Inserer(s, ob, statut')
           /\ \A m \in Range(s) : ob[m] # Aucun
           /\ statut' \in [Objets -> Statuts]
           /\ \A m \in Missions : objet[m] # Aucun => ob[m] = objet[m]
      BY <1>3, HydrationObjects
    <2>2. PICK s \in Seq(Missions) :
           /\ Inserer(s, ob, statut')
           /\ \A m \in Range(s) : ob[m] # Aucun
      BY <2>1
    <2>3. \A m \in Range(ordre) : ob[m] # Aucun
      BY <1>0, <2>1 DEF IInv, Queued
    <2>4. QED  BY <2>1, <2>2, <2>3, InsertionLeavesActive
  <1>4. QED
    BY <1>1, <1>2, <1>3
       DEF Next, vars, cache, Creer, EcrireCreation, Trouver, Relire, Absente, LectureImpossible, Muter,
           Persister, PersisterEchoue, Lacher, HydraterLit

\* For every bound, any threads and any missions: whenever the order of the cache
\* changes, it ends within its bound or with active missions only, so that memory
\* grows with the missions at work and never with those that ended.
THEOREM CacheIsBounded == Spec => BoundedUnlessActive
  <1>1. IInv /\ [Next]_vars => [BoundedStep]_vars
    BY StepIsBounded
  <1>2. QED
    BY <1>1, RegistryInvariant, PTL DEF Spec, BoundedUnlessActive, BoundedStep
=============================================================================
