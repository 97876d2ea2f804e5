--------------------------- MODULE Approvals_proofs ---------------------------
(***************************************************************************)
(* Proofs about Approvals, for any actions, callers, humans and rows: as   *)
(* long as no two operations on a row overlap, the row lets through no     *)
(* more attempts than its decision granted, and the decision stands.       *)
(***************************************************************************)
EXTENDS Approvals, FiniteSetTheorems, TLAPS

Statuts == {"absente", "pending", "approved", "refused", "used"}
Portees == {"action", "arborescence"}
Labels == {"idle", "portee", "attente", "insere", "depense"}
Ligne == [fp : Actions, statut : Statuts, portee : Portees, usages : Int,
          perimee : BOOLEAN]

Typed ==
  /\ ligne \in [Rows -> Ligne]
  /\ nb \in Nat
  /\ pc \in [Callers -> Labels]
  /\ action \in [Callers -> Actions]
  /\ tient \in [Qui -> 0..MaxRows]
  /\ vu \in [Callers -> Int]
  /\ octroi \in [Rows -> Int]
  /\ servis \in [Rows -> Int]

\* Rows are inserted in order, and only those inserted are read.
Inserted ==
  /\ \A r \in Rows : r > nb => ligne[r].statut = "absente"
  /\ \A q \in Qui : tient[q] <= nb

\* A caller holds a row exactly while it is about to spend it; unless the row
\* was written meanwhile, what the caller or the human read still holds.
Reading ==
  /\ \A c \in Callers : (pc[c] = "depense") <=> (tient[c] # Aucune)
  /\ \A c \in Callers : tient[c] \in Rows \ croisees =>
       /\ ligne[tient[c]].statut = "approved"
       /\ vu[c] = ligne[tient[c]].usages
       /\ vu[c] > 0
  /\ \A h \in Humans : tient[h] \in Rows \ croisees => ligne[tient[h]].statut = "pending"

\* What a row has served and what it still offers stay within its grant.
Accounts ==
  \A r \in Rows \ croisees :
    /\ ligne[r].statut \in {"absente", "pending"} => servis[r] = 0 /\ octroi[r] = 0
    /\ ligne[r].statut = "approved" => servis[r] + ligne[r].usages <= octroi[r]
    /\ servis[r] <= octroi[r]

IInv == Typed /\ Inserted /\ Reading /\ Accounts

------------------------------------------------------------------------------
LEMMA InitIInv == Init => IInv
  <1> SUFFICES ASSUME Init PROVE IInv
    OBVIOUS
  <1>1. UneAction \in Actions
    BY ApprovalsAssumption DEF UneAction
  <1>2. Vierge \in Ligne /\ Vierge.statut = "absente"
    BY <1>1 DEF Vierge, Ligne, Statuts, Portees
  <1>3. Typed
    BY <1>1, <1>2, ApprovalsAssumption DEF Init, Typed, Labels, Aucune
  <1>4. Inserted
    BY <1>2 DEF Init, Inserted, Aucune
  <1>5. Reading
    BY DEF Init, Reading, Aucune, Rows, Qui
  <1>6. Accounts
    BY <1>2 DEF Init, Accounts
  <1>7. QED  BY <1>3, <1>4, <1>5, <1>6 DEF IInv

\* A step of a caller that only reads, or that gives its row back.
LEMMA RendreKeeps ==
  ASSUME IInv, NEW c \in Callers, Rendre(c)
  PROVE  /\ pc' \in [Callers -> Labels] /\ action' \in [Callers -> Actions]
         /\ tient' \in [Qui -> 0..MaxRows] /\ vu' \in [Callers -> Int]
         /\ pc'[c] = "idle" /\ tient'[c] = Aucune
         /\ \A d \in Callers \ {c} : pc'[d] = pc[d] /\ vu'[d] = vu[d]
         /\ \A q \in Qui \ {c} : tient'[q] = tient[q]
  <1>1. UneAction \in Actions
    BY ApprovalsAssumption DEF UneAction
  <1>2. QED
    BY <1>1, ApprovalsAssumption DEF IInv, Typed, Rendre, Aller, Labels, Aucune, Qui

LEMMA TenirKeeps ==
  ASSUME IInv, NEW c \in Callers, NEW r \in Rows, ligne[r].statut = "approved",
         Vivante(r), Tenir(c, r), UNCHANGED <<ligne, nb, octroi, servis, croisees>>,
         action' \in [Callers -> Actions]
  PROVE  IInv'
  <1>0. ligne[r] \in Ligne
    BY DEF IInv, Typed
  <1>1. ligne[r].usages \in Int /\ ligne[r].usages > 0
    BY <1>0 DEF Vivante, Ligne
  <1>r. r \in 0..MaxRows /\ r <= nb /\ r # Aucune
    <2>1. r \in 1..MaxRows /\ nb \in Nat
      BY DEF IInv, Typed, Rows
    <2>2. ~ (r > nb)
      BY DEF IInv, Inserted
    <2>3. QED  BY <2>1, <2>2, ApprovalsAssumption DEF Aucune
  <1>2. Typed'
    BY <1>1, <1>r DEF IInv, Typed, Tenir, Aller, Labels
  <1>3. Inserted'
    BY <1>r DEF IInv, Typed, Inserted, Tenir
  <1>4. Reading'
    BY <1>1, <1>r, ApprovalsAssumption
       DEF IInv, Typed, Reading, Tenir, Aller, Rows, Aucune, Qui, Labels
  <1>5. Accounts'
    BY DEF IInv, Accounts
  <1>6. QED  BY <1>2, <1>3, <1>4, <1>5 DEF IInv

\* A caller that moves on without a row.
LEMMA MovesOn ==
  ASSUME IInv, NEW c \in Callers, NEW l \in Labels \ {"depense"},
         pc[c] # "depense", Aller(c, l),
         UNCHANGED <<ligne, nb, tient, vu, octroi, servis, croisees>>,
         action' \in [Callers -> Actions]
  PROVE  IInv'
  <1>1. Typed'
    BY DEF IInv, Typed, Aller
  <1>2. Reading'
    BY DEF IInv, Typed, Reading, Aller
  <1>3. Inserted' /\ Accounts'
    BY DEF IInv, Inserted, Accounts
  <1>4. QED  BY <1>1, <1>2, <1>3 DEF IInv

LEMMA LireExactKeeps ==
  ASSUME IInv, NEW c \in Callers, LireExact(c) PROVE IInv'
  <1>1. action' \in [Callers -> Actions] /\ pc[c] = "idle"
        /\ UNCHANGED <<ligne, nb, octroi, servis, croisees>>
    BY DEF LireExact, IInv, Typed, historique
  <1>2. CASE \E r \in Rows : ligne[r].statut = "approved" /\ Vivante(r) /\ Tenir(c, r)
    BY <1>1, <1>2, TenirKeeps
  <1>3. CASE Aller(c, "portee") /\ UNCHANGED <<tient, vu>>
    BY <1>1, <1>3, MovesOn DEF Labels
  <1>4. QED
    BY <1>2, <1>3 DEF LireExact, Derniere, Approuvees

LEMMA LirePorteeKeeps ==
  ASSUME IInv, NEW c \in Callers, LirePortee(c) PROVE IInv'
  <1>1. action' \in [Callers -> Actions] /\ pc[c] = "portee"
        /\ UNCHANGED <<ligne, nb, octroi, servis, croisees>>
    BY DEF LirePortee, IInv, Typed, historique
  <1>2. CASE \E r \in Rows : ligne[r].statut = "approved" /\ Vivante(r) /\ Tenir(c, r)
    BY <1>1, <1>2, TenirKeeps
  <1>3. CASE Aller(c, "attente") /\ UNCHANGED <<tient, vu>>
    BY <1>1, <1>3, MovesOn DEF Labels
  <1>4. QED
    BY <1>2, <1>3 DEF LirePortee, Derniere, Approuvees

\* A commit on the row r that q holds: if the row is not marked as written in
\* the middle of another operation, nobody else holds it.
LEMMA CroiserExcludes ==
  ASSUME NEW q \in Qui, NEW r, Croiser(q, r)
  PROVE  /\ croisees \subseteq croisees'
         /\ r \notin croisees' => r \notin croisees /\ \A p \in Qui \ {q} : tient[p] # r
         /\ \A x : x # r => (x \in croisees' <=> x \in croisees)
  BY DEF Croiser

LEMMA DepenserKeeps ==
  ASSUME IInv, NEW c \in Callers, Depenser(c) PROVE IInv'
  <1> DEFINE r == tient[c]
  <1>1. /\ pc[c] = "depense" /\ Croiser(c, r) /\ Rendre(c) /\ nb' = nb /\ octroi' = octroi
        /\ servis' = [servis EXCEPT ![r] = @ + 1]
        /\ ligne' = [ligne EXCEPT ![r].usages = vu[c] - 1,
                                  ![r].statut = IF vu[c] - 1 <= 0 THEN "used" ELSE @]
    BY DEF Depenser
  <1>2. c \in Qui /\ r \in Rows /\ vu[c] \in Int
    BY <1>1 DEF IInv, Typed, Reading, Qui, Rows, Aucune
  <1>3. ligne \in [Rows -> Ligne] /\ ligne[r] \in Ligne
    BY <1>2 DEF IInv, Typed
  <1>4. ligne' \in [Rows -> Ligne]
    BY <1>1, <1>2, <1>3 DEF Ligne, Statuts
  <1>5. /\ \A s \in Rows : s # r => ligne'[s] = ligne[s]
        /\ ligne'[r].usages = vu[c] - 1
        /\ ligne'[r].statut = IF vu[c] - 1 <= 0 THEN "used" ELSE ligne[r].statut
    BY <1>1, <1>2, <1>3 DEF Ligne
  <1>6. /\ \A s \in Rows : s # r => servis'[s] = servis[s]
        /\ servis'[r] = servis[r] + 1
        /\ servis' \in [Rows -> Int]
    BY <1>1, <1>2 DEF IInv, Typed
  <1>7. /\ croisees \subseteq croisees'
        /\ r \notin croisees' => r \notin croisees /\ \A p \in Qui \ {c} : tient[p] # r
        /\ \A x : x # r => (x \in croisees' <=> x \in croisees)
    BY <1>1, <1>2, CroiserExcludes
  <1>8. /\ pc' \in [Callers -> Labels] /\ action' \in [Callers -> Actions]
        /\ tient' \in [Qui -> 0..MaxRows] /\ vu' \in [Callers -> Int]
        /\ pc'[c] = "idle" /\ tient'[c] = Aucune
        /\ \A d \in Callers \ {c} : pc'[d] = pc[d] /\ vu'[d] = vu[d]
        /\ \A q \in Qui \ {c} : tient'[q] = tient[q]
    BY <1>1, RendreKeeps
  <1> HIDE DEF r
  <1>9. Typed'
    BY <1>1, <1>4, <1>6, <1>8 DEF IInv, Typed
  <1>10. Inserted'
    <2>1. \A s \in Rows : s > nb => ligne'[s].statut = "absente"
      <3>1. r <= nb /\ nb \in Nat /\ r \in Int
        BY <1>2 DEF r, IInv, Typed, Inserted, Rows
      <3>2. QED  BY <3>1, <1>5 DEF IInv, Inserted, Rows
    <2>2. \A q \in Qui : tient'[q] <= nb
      BY <1>8 DEF IInv, Typed, Inserted, Aucune
    <2>3. QED  BY <1>1, <2>1, <2>2 DEF Inserted
  <1>11. Reading'
    <2>1. \A d \in Callers : (pc'[d] = "depense") <=> (tient'[d] # Aucune)
      BY <1>8 DEF IInv, Reading, Qui
    <2>2. ASSUME NEW d \in Callers, tient'[d] \in Rows \ croisees'
          PROVE  /\ ligne'[tient'[d]].statut = "approved"
                 /\ vu'[d] = ligne'[tient'[d]].usages
                 /\ vu'[d] > 0
      <3>1. d # c /\ tient'[d] = tient[d] /\ d \in Qui
        BY <2>2, <1>8 DEF Rows, Aucune, Qui
      <3>2. tient[d] # r /\ tient[d] \in Rows \ croisees
        BY <2>2, <3>1, <1>7
      <3>3. QED  BY <3>1, <3>2, <1>5, <1>8 DEF IInv, Reading
    <2>3. ASSUME NEW h \in Humans, tient'[h] \in Rows \ croisees'
          PROVE  ligne'[tient'[h]].statut = "pending"
      <3>1. h # c /\ tient'[h] = tient[h] /\ h \in Qui
        BY <2>3, <1>8, ApprovalsAssumption DEF Qui
      <3>2. tient[h] # r /\ tient[h] \in Rows \ croisees
        BY <2>3, <3>1, <1>7
      <3>3. QED  BY <3>1, <3>2, <1>5 DEF IInv, Reading
    <2>4. QED  BY <2>1, <2>2, <2>3 DEF Reading
  <1>12. Accounts'
    <2> SUFFICES ASSUME NEW s \in Rows \ croisees'
                 PROVE  /\ ligne'[s].statut \in {"absente", "pending"}
                             => servis'[s] = 0 /\ octroi'[s] = 0
                        /\ ligne'[s].statut = "approved"
                             => servis'[s] + ligne'[s].usages <= octroi'[s]
                        /\ servis'[s] <= octroi'[s]
      BY DEF Accounts
    <2>1. CASE s # r
      BY <2>1, <1>1, <1>5, <1>6, <1>7 DEF IInv, Accounts
    <2>2. CASE s = r
      <3>1. s \in Rows \ croisees
        BY <2>2, <1>7
      <3>2. ligne[s].statut = "approved" /\ vu[c] = ligne[s].usages /\ vu[c] > 0
        BY <2>2, <3>1 DEF r, IInv, Reading
      <3>3. servis[s] + ligne[s].usages <= octroi[s]
        BY <3>1, <3>2 DEF IInv, Accounts
      <3>4. servis[s] \in Int /\ octroi[s] \in Int
        BY DEF IInv, Typed
      <3>5. QED  BY <2>2, <3>2, <3>3, <3>4, <1>1, <1>2, <1>5, <1>6
    <2>3. QED  BY <2>1, <2>2
  <1>13. QED  BY <1>9, <1>10, <1>11, <1>12 DEF IInv

LEMMA InsererKeeps ==
  ASSUME IInv, NEW c \in Callers, Inserer(c) PROVE IInv'
  <1> DEFINE r == nb + 1
             neuve == [Vierge EXCEPT !.fp = action[c], !.statut = "pending"]
  <1>1. /\ pc[c] = "insere" /\ Rendre(c) /\ nb < MaxRows /\ nb' = nb + 1
        /\ ligne' = [ligne EXCEPT ![r] = neuve]
        /\ octroi' = octroi /\ servis' = servis /\ croisees' = croisees
    BY DEF Inserer
  <1>2. nb \in Nat /\ MaxRows \in Nat /\ r \in Rows /\ r > nb
    BY <1>1, ApprovalsAssumption DEF IInv, Typed, Rows
  <1>3. neuve \in Ligne /\ neuve.statut = "pending"
    <2>1. UneAction \in Actions /\ action[c] \in Actions
      BY ApprovalsAssumption DEF UneAction, IInv, Typed
    <2>2. Vierge \in Ligne
      BY <2>1 DEF Vierge, Ligne, Statuts, Portees
    <2>3. \A v \in Ligne, a \in Actions :
             LET n == [v EXCEPT !.fp = a, !.statut = "pending"]
             IN  n \in Ligne /\ n.statut = "pending"
      BY DEF Ligne, Statuts
    <2>4. QED  BY <2>1, <2>2, <2>3
  <1>4. /\ pc' \in [Callers -> Labels] /\ action' \in [Callers -> Actions]
        /\ tient' \in [Qui -> 0..MaxRows] /\ vu' \in [Callers -> Int]
        /\ pc'[c] = "idle" /\ tient'[c] = Aucune
        /\ \A d \in Callers \ {c} : pc'[d] = pc[d] /\ vu'[d] = vu[d]
        /\ \A q \in Qui \ {c} : tient'[q] = tient[q]
    BY <1>1, RendreKeeps
  <1>5. tient[c] = Aucune
    BY <1>1 DEF IInv, Reading
  <1>6. ligne[r].statut = "absente"
    BY <1>2 DEF IInv, Inserted
  <1> HIDE DEF neuve, r
  <1>7. ligne \in [Rows -> Ligne] /\ ligne' \in [Rows -> Ligne]
    BY <1>1, <1>2, <1>3 DEF IInv, Typed
  <1>8. ligne'[r].statut = "pending" /\ \A s \in Rows : s # r => ligne'[s] = ligne[s]
    BY <1>1, <1>2, <1>3, <1>7
  <1>9. \A q \in Qui : tient'[q] = tient[q] /\ tient[q] # r /\ tient[q] <= nb'
    BY <1>1, <1>2, <1>4, <1>5 DEF r, IInv, Typed, Inserted
  <1>10. Typed'
    BY <1>1, <1>2, <1>4, <1>7 DEF IInv, Typed
  <1>11. Inserted'
    BY <1>1, <1>2, <1>8, <1>9 DEF r, IInv, Inserted, Rows
  <1>12. Reading'
    <2>1. \A d \in Callers : (pc'[d] = "depense") <=> (tient'[d] # Aucune)
      BY <1>4 DEF IInv, Reading, Qui
    <2>2. \A d \in Callers : d # c \/ tient'[d] \notin Rows
      BY <1>4 DEF Rows, Aucune
    <2>3. QED
      BY <1>1, <1>4, <1>8, <1>9, <2>1, <2>2 DEF IInv, Reading, Qui
  <1>13. Accounts'
    BY <1>1, <1>2, <1>6, <1>8 DEF IInv, Typed, Accounts
  <1>14. QED  BY <1>10, <1>11, <1>12, <1>13 DEF IInv

LEMMA DeciderKeeps ==
  ASSUME IInv, NEW h \in Humans, NEW st \in {"approved", "refused"}, NEW po \in Portees,
         NEW u \in Nat, Decider(h, st, po, u)
  PROVE  IInv'
  <1> DEFINE r == tient[h]
             neuve == [fp |-> ligne[r].fp, statut |-> st, usages |-> u,
                       portee |-> IF po = "action" THEN ligne[r].portee ELSE po,
                       perimee |-> FALSE]
  <1>1. /\ r # Aucune /\ Croiser(h, r) /\ nb' = nb
        /\ ligne' = [ligne EXCEPT ![r] = neuve]
        /\ octroi' = IF st = "approved" THEN [octroi EXCEPT ![r] = u] ELSE octroi
        /\ tient' = [tient EXCEPT ![h] = Aucune]
        /\ pc' = pc /\ action' = action /\ vu' = vu /\ servis' = servis
    BY DEF Decider
  <1>2. h \in Qui /\ h \notin Callers /\ r \in Rows
    BY <1>1, ApprovalsAssumption DEF IInv, Typed, Qui, Rows, Aucune
  <1>3. ligne \in [Rows -> Ligne] /\ ligne[r] \in Ligne
    BY <1>2 DEF IInv, Typed
  <1>4. neuve \in Ligne /\ neuve.statut = st /\ neuve.usages = u
    <2>1. /\ st \in Statuts /\ ligne[r].fp \in Actions
          /\ (IF po = "action" THEN ligne[r].portee ELSE po) \in Portees
      BY <1>3 DEF Statuts, Ligne
    <2>2. QED  BY <2>1 DEF Ligne
  <1> HIDE DEF neuve
  <1>5. /\ ligne' \in [Rows -> Ligne]
        /\ ligne'[r].statut = st /\ ligne'[r].usages = u
        /\ \A s \in Rows : s # r => ligne'[s] = ligne[s]
    BY <1>1, <1>2, <1>3, <1>4
  <1>6. /\ octroi' \in [Rows -> Int]
        /\ \A s \in Rows : s # r => octroi'[s] = octroi[s]
        /\ octroi'[r] = IF st = "approved" THEN u ELSE octroi[r]
    BY <1>1, <1>2 DEF IInv, Typed
  <1>7. /\ croisees \subseteq croisees'
        /\ r \notin croisees' => r \notin croisees /\ \A p \in Qui \ {h} : tient[p] # r
        /\ \A x : x # r => (x \in croisees' <=> x \in croisees)
    BY <1>1, <1>2, CroiserExcludes
  <1>8. /\ tient' \in [Qui -> 0..MaxRows] /\ tient'[h] = Aucune
        /\ \A q \in Qui \ {h} : tient'[q] = tient[q]
    BY <1>1, <1>2, ApprovalsAssumption DEF IInv, Typed, Aucune
  <1> HIDE DEF r
  <1>9. Typed'
    BY <1>1, <1>5, <1>6, <1>8 DEF IInv, Typed
  <1>10. Inserted'
    <2>1. r <= nb /\ nb \in Nat /\ r \in Int
      BY <1>2 DEF r, IInv, Typed, Inserted, Rows
    <2>2. \A s \in Rows : s > nb => ligne'[s].statut = "absente"
      BY <2>1, <1>5 DEF IInv, Inserted, Rows
    <2>3. \A q \in Qui : tient'[q] <= nb
      BY <2>1, <1>8 DEF IInv, Typed, Inserted, Aucune
    <2>4. QED  BY <1>1, <2>2, <2>3 DEF Inserted
  <1>11. Reading'
    <2>1. \A d \in Callers : tient'[d] = tient[d]
      BY <1>2, <1>8 DEF Qui
    <2>2. ASSUME NEW d \in Callers, tient'[d] \in Rows \ croisees'
          PROVE  /\ ligne'[tient'[d]].statut = "approved"
                 /\ vu'[d] = ligne'[tient'[d]].usages
                 /\ vu'[d] > 0
      <3>1. tient[d] # r /\ tient[d] \in Rows \ croisees
        BY <2>1, <2>2, <1>2, <1>7 DEF Qui
      <3>2. QED  BY <2>1, <3>1, <1>1, <1>5 DEF IInv, Reading
    <2>3. ASSUME NEW g \in Humans, tient'[g] \in Rows \ croisees'
          PROVE  ligne'[tient'[g]].statut = "pending"
      <3>1. g # h /\ tient'[g] = tient[g]
        BY <2>3, <1>8 DEF Rows, Aucune, Qui
      <3>2. tient[g] # r /\ tient[g] \in Rows \ croisees
        BY <2>3, <3>1, <1>7 DEF Qui
      <3>3. QED  BY <3>1, <3>2, <1>5 DEF IInv, Reading
    <2>4. QED  BY <1>1, <2>1, <2>2, <2>3 DEF IInv, Reading
  <1>12. Accounts'
    <2> SUFFICES ASSUME NEW s \in Rows \ croisees'
                 PROVE  /\ ligne'[s].statut \in {"absente", "pending"}
                             => servis'[s] = 0 /\ octroi'[s] = 0
                        /\ ligne'[s].statut = "approved"
                             => servis'[s] + ligne'[s].usages <= octroi'[s]
                        /\ servis'[s] <= octroi'[s]
      BY DEF Accounts
    <2>1. CASE s # r
      BY <2>1, <1>1, <1>5, <1>6, <1>7 DEF IInv, Accounts
    <2>2. CASE s = r
      <3>1. s \in Rows \ croisees
        BY <2>2, <1>7
      <3>2. ligne[s].statut = "pending"
        BY <2>2, <3>1 DEF r, IInv, Reading
      <3>3. servis[s] = 0 /\ octroi[s] = 0
        BY <3>1, <3>2 DEF IInv, Accounts
      <3>4. QED  BY <2>2, <3>3, <1>1, <1>5, <1>6
    <2>3. QED  BY <2>1, <2>2
  <1>13. QED  BY <1>9, <1>10, <1>11, <1>12 DEF IInv

LEMMA DecideLitKeeps ==
  ASSUME IInv, NEW h \in Humans, DecideLit(h) PROVE IInv'
  <1>1. PICK r \in Rows : ligne[r].statut = "pending" /\ tient' = [tient EXCEPT ![h] = r]
    BY DEF DecideLit
  <1>2. UNCHANGED <<ligne, nb, pc, action, vu, octroi, servis, croisees>>
    BY DEF DecideLit, historique
  <1>3. r \in 0..MaxRows /\ r <= nb
    <2>1. r \in 1..MaxRows /\ nb \in Nat
      BY DEF IInv, Typed, Rows
    <2>2. ~ (r > nb)
      BY <1>1 DEF IInv, Inserted
    <2>3. QED  BY <2>1, <2>2, ApprovalsAssumption
  <1>4. h \in Qui /\ h \notin Callers
    BY ApprovalsAssumption DEF Qui
  <1>5. tient' \in [Qui -> 0..MaxRows] /\ tient'[h] = r
        /\ \A q \in Qui \ {h} : tient'[q] = tient[q]
    BY <1>1, <1>3, <1>4 DEF IInv, Typed
  <1>6. Typed'
    BY <1>2, <1>5 DEF IInv, Typed
  <1>7. Inserted'
    BY <1>2, <1>3, <1>5 DEF IInv, Inserted
  <1>8. Reading'
    BY <1>1, <1>2, <1>4, <1>5 DEF IInv, Reading, Qui
  <1>9. Accounts'
    BY <1>2 DEF IInv, Accounts
  <1>10. QED  BY <1>6, <1>7, <1>8, <1>9 DEF IInv

LEMMA PerimerKeeps ==
  ASSUME IInv, NEW r \in Rows, Perimer(r) PROVE IInv'
  <1>1. ligne' = [ligne EXCEPT ![r].perimee = TRUE]
        /\ UNCHANGED <<nb, pc, action, tient, vu, octroi, servis, croisees>>
    BY DEF Perimer, historique
  <1>2. ligne \in [Rows -> Ligne]
    BY DEF IInv, Typed
  <1>3. /\ ligne' \in [Rows -> Ligne]
        /\ \A s \in Rows : ligne'[s].statut = ligne[s].statut /\ ligne'[s].usages = ligne[s].usages
    BY <1>1, <1>2 DEF Ligne
  <1>4. QED
    BY <1>1, <1>3 DEF IInv, Typed, Inserted, Reading, Accounts

LEMMA NextKeepsIInv == IInv /\ [Next]_vars => IInv'
  <1> SUFFICES ASSUME IInv, [Next]_vars PROVE IInv'
    OBVIOUS
  <1>1. ASSUME NEW c \in Callers, DejaDemandee(c) PROVE IInv'
    <2>1. Rendre(c) /\ pc[c] = "attente"
          /\ UNCHANGED <<ligne, nb, octroi, servis, croisees>>
      BY <1>1 DEF DejaDemandee, historique
    <2>2. tient[c] = Aucune
      BY <2>1 DEF IInv, Reading
    <2>3. /\ pc' \in [Callers -> Labels] /\ action' \in [Callers -> Actions]
          /\ tient' \in [Qui -> 0..MaxRows] /\ vu' \in [Callers -> Int]
          /\ pc'[c] = "idle" /\ tient'[c] = Aucune
          /\ \A d \in Callers \ {c} : pc'[d] = pc[d] /\ vu'[d] = vu[d]
          /\ \A q \in Qui : tient'[q] = tient[q]
      BY <2>1, <2>2, RendreKeeps
    <2>4. Typed' /\ Inserted' /\ Accounts'
      BY <2>1, <2>3 DEF IInv, Typed, Inserted, Accounts
    <2>5. Reading'
      BY <2>1, <2>3 DEF IInv, Reading, Qui, Rows, Aucune
    <2>6. QED  BY <2>4, <2>5 DEF IInv
  <1>2. ASSUME NEW c \in Callers, PasEncoreDemandee(c) PROVE IInv'
    <2>1. Aller(c, "insere") /\ pc[c] = "attente"
          /\ UNCHANGED <<ligne, nb, tient, vu, action, octroi, servis, croisees>>
      BY <1>2 DEF PasEncoreDemandee, historique
    <2>2. QED  BY <2>1, MovesOn DEF Labels, IInv, Typed
  <1>3. ASSUME NEW h \in Humans, DecideEcrit(h) PROVE IInv'
    BY <1>3, DeciderKeeps, ApprovalsAssumption DEF DecideEcrit, Portees
  <1>4. CASE vars' = vars
    BY <1>4 DEF IInv, Typed, Inserted, Reading, Accounts, vars
  <1>5. QED
    BY <1>1, <1>2, <1>3, <1>4, LireExactKeeps, LirePorteeKeeps, DepenserKeeps,
       InsererKeeps, DecideLitKeeps, PerimerKeeps DEF Next

\* The inductive invariant: readings that nobody disturbed are still true, and
\* what a row served plus what it still offers is what its decision granted.
THEOREM ApprovalsInvariant == Spec => []IInv
  BY InitIInv, NextKeepsIInv, PTL DEF Spec

\* One consent is one use (or as many as a tree was given) for any number of
\* callers and humans, as long as no two operations on the row overlap.
THEOREM ConsentIsCounted == Spec => []WithinGrant
  <1>1. IInv => WithinGrant
    BY DEF IInv, Accounts, WithinGrant
  <1>2. QED  BY <1>1, ApprovalsInvariant, PTL

\* The one-step form of DecisionStands, for one row.
LEMMA StepStands ==
  ASSUME IInv, [Next]_vars, NEW r \in Rows \ croisees'
  PROVE  /\ ligne[r].statut \in {"refused", "used"} => ligne'[r].statut = ligne[r].statut
         /\ ligne[r].statut = "approved" => /\ ligne'[r].statut \in {"approved", "used"}
                                            /\ ligne'[r].usages <= ligne[r].usages
  <1>0. ligne \in [Rows -> Ligne] /\ ligne[r].usages \in Int
    BY DEF IInv, Typed, Ligne
  <1>1. CASE ligne' = ligne
    BY <1>0, <1>1
  <1>2. ASSUME NEW c \in Callers, Depenser(c) PROVE
          \/ ligne'[r] = ligne[r]
          \/ /\ ligne[r].statut = "approved"
             /\ ligne'[r].statut \in {"approved", "used"}
             /\ ligne'[r].usages <= ligne[r].usages
    <2>1. tient[c] \in Rows /\ vu[c] \in Int
      BY <1>2 DEF Depenser, IInv, Typed, Reading, Rows, Aucune, Qui
    <2>2. ligne' = [ligne EXCEPT ![tient[c]].usages = vu[c] - 1,
                                 ![tient[c]].statut = IF vu[c] - 1 <= 0 THEN "used" ELSE @]
      BY <1>2 DEF Depenser
    <2>3. CASE tient[c] # r
      BY <1>0, <2>1, <2>2, <2>3
    <2>4. CASE tient[c] = r
      <3>1. r \notin croisees
        BY <1>2, CroiserExcludes DEF Depenser, Qui
      <3>2. ligne[r].statut = "approved" /\ vu[c] = ligne[r].usages
        BY <2>4, <3>1 DEF IInv, Reading
      <3>3. /\ ligne'[r].usages = vu[c] - 1
            /\ ligne'[r].statut = IF vu[c] - 1 <= 0 THEN "used" ELSE ligne[r].statut
        BY <1>0, <2>1, <2>2, <2>4 DEF Ligne
      <3>4. QED  BY <2>1, <3>2, <3>3
    <2>5. QED  BY <2>3, <2>4
  <1>3. ASSUME NEW c \in Callers, Inserer(c) PROVE
          ligne'[r] = ligne[r] \/ ligne[r].statut = "absente"
    <2>1. nb + 1 \in Int /\ nb + 1 > nb
      BY DEF IInv, Typed
    <2>2. CASE r = nb + 1
      BY <2>1, <2>2 DEF IInv, Inserted
    <2>3. CASE r # nb + 1
      BY <1>0, <1>3, <2>3 DEF Inserer
    <2>4. QED  BY <2>2, <2>3
  <1>4. ASSUME NEW h \in Humans, DecideEcrit(h) PROVE
          ligne'[r] = ligne[r] \/ ligne[r].statut = "pending"
    <2>1. PICK st, po, u : Decider(h, st, po, u)
      BY <1>4 DEF DecideEcrit
    <2>2. CASE tient[h] # r
      BY <1>0, <2>1, <2>2 DEF Decider
    <2>3. CASE tient[h] = r
      <3>1. Croiser(h, r)
        BY <2>1, <2>3 DEF Decider
      <3>2. r \notin croisees
        BY <3>1, CroiserExcludes DEF Qui
      <3>3. QED  BY <2>3, <3>2 DEF IInv, Reading
    <2>4. QED  BY <2>2, <2>3
  <1>5. ASSUME NEW s \in Rows, Perimer(s) PROVE
          ligne'[r].statut = ligne[r].statut /\ ligne'[r].usages = ligne[r].usages
    BY <1>0, <1>5 DEF Perimer, Ligne
  <1>6. QED
    <2>1. CASE \E c \in Callers : Depenser(c)
      BY <1>0, <1>2, <2>1
    <2>2. CASE \E c \in Callers : Inserer(c)
      BY <1>0, <1>3, <2>2
    <2>3. CASE \E h \in Humans : DecideEcrit(h)
      BY <1>0, <1>4, <2>3
    <2>4. CASE \E s \in Rows : Perimer(s)
      BY <1>0, <1>5, <2>4
    <2>5. CASE \/ \E c \in Callers : \/ LireExact(c) \/ LirePortee(c)
                                    \/ DejaDemandee(c) \/ PasEncoreDemandee(c)
               \/ \E h \in Humans : DecideLit(h)
               \/ vars' = vars
      BY <1>1, <2>5 DEF LireExact, LirePortee, DejaDemandee, PasEncoreDemandee, DecideLit, vars
    <2>6. QED  BY <2>1, <2>2, <2>3, <2>4, <2>5 DEF Next

\* Under the same proviso a decision is final: refused and spent rows never
\* live again, and an approved one only shrinks.
THEOREM DecisionsAreFinal == Spec => DecisionStands
  <1>1. IInv /\ [Next]_vars =>
          [\A r \in Rows \ croisees' :
             /\ ligne[r].statut \in {"refused", "used"} => ligne'[r].statut = ligne[r].statut
             /\ ligne[r].statut = "approved" => /\ ligne'[r].statut \in {"approved", "used"}
                                                /\ ligne'[r].usages <= ligne[r].usages]_vars
    BY StepStands
  <1>2. QED
    BY <1>1, ApprovalsInvariant, PTL DEF Spec, DecisionStands

------------------------------------------------------------------------------
\* The queue: an action has at most one request, and none while an attempt is
\* between its look at the queue and its insertion.
Queue ==
  /\ \A a \in Actions \ doublees : \A r, s \in EnAttente(a) : r = s
  /\ \A c \in Callers : pc[c] = "insere" /\ action[c] \notin doublees
                          => EnAttente(action[c]) = {}

\* A step that queues nothing, and after which an attempt about to insert was
\* so before or has just found the queue empty.
LEMMA NothingQueued ==
  ASSUME IInv, Queue, doublees' = doublees,
         \A a \in Actions : EnAttente(a)' \subseteq EnAttente(a),
         \A c \in Callers : pc'[c] = "insere" =>
           /\ action'[c] = action[c]
           /\ pc[c] = "insere" \/ EnAttente(action[c]) = {}
  PROVE  Queue'
  <1>1. ASSUME NEW a \in Actions \ doublees', NEW r \in EnAttente(a)', NEW s \in EnAttente(a)'
        PROVE  r = s
    BY <1>1 DEF Queue
  <1>2. ASSUME NEW c \in Callers, pc'[c] = "insere", action'[c] \notin doublees'
        PROVE  EnAttente(action[c])' = {}
    <2>1. action[c] \in Actions /\ action'[c] = action[c]
      BY <1>2 DEF IInv, Typed
    <2>2. EnAttente(action[c]) = {}
      BY <1>2, <2>1 DEF Queue
    <2>3. \A a \in Actions : EnAttente(a) = {} => EnAttente(a)' = {}
      OBVIOUS
    <2>4. {r \in Rows : ligne'[r].statut = "pending" /\ ligne'[r].fp = action[c]} = {}
      BY <2>1, <2>2, <2>3 DEF EnAttente
    <2>5. QED  BY <2>1, <2>4 DEF EnAttente
  <1>3. QED  BY <1>1, <1>2 DEF Queue

\* What is pending after a step was pending before, if no row becomes so.
LEMMA NoneAppears ==
  ASSUME \A r \in Rows : ligne'[r].statut = "pending" =>
           ligne[r].statut = "pending" /\ ligne'[r].fp = ligne[r].fp
  PROVE  \A a \in Actions : EnAttente(a)' \subseteq EnAttente(a)
  BY DEF EnAttente

\* The one action that queues: the row it adds is alone for its action unless
\* another attempt was about to insert the same one.
LEMMA InsererQueue ==
  ASSUME IInv, Queue, NEW c \in Callers, Inserer(c) PROVE Queue'
  <1> DEFINE a == action[c]
             neuve == [Vierge EXCEPT !.fp = a, !.statut = "pending"]
  <1>1. a \in Actions /\ nb + 1 \in Rows
    BY ApprovalsAssumption DEF IInv, Typed, Inserer, Rows
  <1>2. neuve.fp = a /\ neuve.statut = "pending"
    BY DEF Vierge
  <1>3. ligne' = [ligne EXCEPT ![nb + 1] = neuve] /\ ligne \in [Rows -> Ligne]
    BY DEF Inserer, IInv, Typed
  <1> HIDE DEF neuve
  <1>4. \A r \in Rows : ligne'[r] = IF r = nb + 1 THEN neuve ELSE ligne[r]
    BY <1>3
  <1>5. doublees' = IF \E d \in Callers \ {c} : pc[d] = "insere" /\ action[d] = a
                      THEN doublees \cup {a} ELSE doublees
    BY DEF Inserer
  <1>6. pc[c] = "insere" /\ pc'[c] = "idle"
        /\ \A d \in Callers \ {c} : pc'[d] = pc[d] /\ action'[d] = action[d]
    BY DEF Inserer, Rendre, Aller, IInv, Typed
  <1> HIDE DEF a
  <1>7. ASSUME NEW b \in Actions, b # a PROVE EnAttente(b)' \subseteq EnAttente(b)
    BY <1>2, <1>4, <1>7 DEF EnAttente
  <1>8. ASSUME a \notin doublees' PROVE EnAttente(a) = {}
    BY <1>5, <1>6, <1>8 DEF Queue, a
  <1>9. ASSUME NEW b \in Actions \ doublees', NEW r \in EnAttente(b)', NEW s \in EnAttente(b)'
        PROVE  r = s
    <2>1. CASE b = a
      <3>1. EnAttente(a) = {}
        BY <1>8, <1>9, <2>1
      <3>2. ASSUME NEW t \in Rows, t \in EnAttente(b)' PROVE t = nb + 1
        BY <1>4, <2>1, <3>1, <3>2 DEF EnAttente
      <3>3. QED  BY <1>9, <3>2 DEF EnAttente
    <2>2. CASE b # a
      BY <1>5, <1>7, <1>9, <2>2 DEF Queue
    <2>3. QED  BY <2>1, <2>2
  <1>10. ASSUME NEW d \in Callers, pc'[d] = "insere", action'[d] \notin doublees'
         PROVE  EnAttente(action[d])' = {} /\ action'[d] = action[d]
    <2>1. d # c /\ pc[d] = "insere" /\ action'[d] = action[d] /\ action[d] \in Actions
      BY <1>6, <1>10 DEF IInv, Typed
    <2>2. action[d] # a
      BY <1>5, <1>10, <2>1
    <2>3. EnAttente(action[d]) = {}
      BY <1>5, <1>10, <2>1 DEF Queue
    <2>4. \A b \in Actions : b # a /\ EnAttente(b) = {} => 
             \A r \in Rows : ~(ligne'[r].statut = "pending" /\ ligne'[r].fp = b)
      BY <1>7 DEF EnAttente
    <2>5. \A r \in Rows : ~(ligne'[r].statut = "pending" /\ ligne'[r].fp = action[d])
      BY <2>1, <2>2, <2>3, <2>4
    <2>6. \A r \in Rows : ~(ligne'[r].statut = "pending" /\ ligne'[r].fp = action'[d])
      BY <2>1, <2>5
    <2>7. QED  BY <2>1, <2>6 DEF EnAttente
  <1>11. QED  BY <1>9, <1>10 DEF Queue

LEMMA NextKeepsQueue == IInv /\ Queue /\ [Next]_vars => Queue'
  <1> SUFFICES ASSUME IInv, Queue, [Next]_vars PROVE Queue'
    OBVIOUS
  <1>0. ligne \in [Rows -> Ligne] /\ pc \in [Callers -> Labels]
        /\ action \in [Callers -> Actions] /\ tient \in [Qui -> 0..MaxRows]
    BY DEF IInv, Typed
  <1>1. ASSUME UNCHANGED <<ligne, doublees>>,
               \A c \in Callers : pc'[c] = "insere" =>
                 /\ action'[c] = action[c]
                 /\ pc[c] = "insere" \/ EnAttente(action[c]) = {}
        PROVE  Queue'
    BY <1>1, NothingQueued, NoneAppears
  <1>2. ASSUME NEW c \in Callers, LireExact(c) PROVE Queue'
    BY <1>0, <1>1, <1>2 DEF LireExact, Tenir, Aller, historique
  <1>3. ASSUME NEW c \in Callers, LirePortee(c) PROVE Queue'
    BY <1>0, <1>1, <1>3 DEF LirePortee, Tenir, Aller, historique
  <1>4. ASSUME NEW c \in Callers, Depenser(c) PROVE Queue'
    <2>1. \A r \in Rows : ligne'[r].statut = "pending" =>
             ligne[r].statut = "pending" /\ ligne'[r].fp = ligne[r].fp
      BY <1>0, <1>4 DEF Depenser, Ligne
    <2>2. doublees' = doublees
          /\ \A d \in Callers : pc'[d] = "insere" => action'[d] = action[d] /\ pc[d] = "insere"
      BY <1>0, <1>4 DEF Depenser, Rendre, Aller
    <2>3. QED  BY <2>1, <2>2, NothingQueued, NoneAppears
  <1>5. ASSUME NEW c \in Callers, DejaDemandee(c) PROVE Queue'
    BY <1>0, <1>1, <1>5 DEF DejaDemandee, Rendre, Aller, historique
  <1>6. ASSUME NEW c \in Callers, PasEncoreDemandee(c) PROVE Queue'
    <2>1. UNCHANGED <<ligne, doublees, action>> /\ EnAttente(action[c]) = {}
          /\ pc' = [pc EXCEPT ![c] = "insere"]
      BY <1>6 DEF PasEncoreDemandee, Aller, historique
    <2>2. \A d \in Callers : pc'[d] = "insere" => d = c \/ pc[d] = "insere"
      BY <1>0, <2>1
    <2>3. QED  BY <1>1, <2>1, <2>2
  <1>7. ASSUME NEW h \in Humans, DecideLit(h) PROVE Queue'
    BY <1>1, <1>7 DEF DecideLit, historique
  <1>8. ASSUME NEW h \in Humans, DecideEcrit(h) PROVE Queue'
    <2>1. PICK statut \in {"approved", "refused"}, portee \in Portees, u \in Int :
             Decider(h, statut, portee, u)
      BY <1>8, ApprovalsAssumption DEF DecideEcrit, Portees
    <2>2. \A r \in Rows : ligne'[r].statut = "pending" =>
             ligne[r].statut = "pending" /\ ligne'[r].fp = ligne[r].fp
      BY <1>0, <2>1 DEF Decider, Ligne
    <2>3. UNCHANGED <<pc, action, doublees>>
      BY <2>1 DEF Decider
    <2>4. QED  BY <2>2, <2>3, NothingQueued, NoneAppears
  <1>9. ASSUME NEW r \in Rows, Perimer(r) PROVE Queue'
    <2>1. \A s \in Rows : ligne'[s].statut = "pending" =>
             ligne[s].statut = "pending" /\ ligne'[s].fp = ligne[s].fp
      BY <1>0, <1>9 DEF Perimer, Ligne
    <2>2. UNCHANGED <<pc, action, doublees>>
      BY <1>9 DEF Perimer, historique
    <2>3. QED  BY <2>1, <2>2, NothingQueued, NoneAppears
  <1>10. CASE vars' = vars
    BY <1>1, <1>10 DEF vars
  <1>11. QED
    BY <1>2, <1>3, <1>4, <1>5, <1>6, <1>7, <1>8, <1>9, <1>10, InsererQueue DEF Next

\* record_pending looks at the queue and inserts in two steps; two requests
\* for one action wait together only where two attempts overlapped there, for
\* any number of callers, humans, actions and rows.
THEOREM QueueIsDeduplicated == Spec => []OneRequest
  <1>1. Init => Queue
    <2> SUFFICES ASSUME Init PROVE Queue
      OBVIOUS
    <2>1. \A r \in Rows : ligne[r].statut # "pending"
      BY DEF Init, Vierge
    <2>2. \A a : EnAttente(a) = {}
      BY <2>1 DEF EnAttente
    <2>3. QED  BY <2>2 DEF Init, Queue
  <1>2. IInv /\ Queue => OneRequest
    <2> SUFFICES ASSUME Queue, NEW a \in Actions \ doublees
                 PROVE  Cardinality(EnAttente(a)) <= 1
      BY DEF OneRequest
    <2>1. CASE EnAttente(a) = {}
      BY <2>1, FS_EmptySet
    <2>2. CASE \E r \in EnAttente(a) : TRUE
      <3>1. PICK r \in EnAttente(a) : EnAttente(a) = {r}
        BY <2>2 DEF Queue
      <3>2. QED  BY <3>1, FS_Singleton
    <2>3. QED  BY <2>1, <2>2
  <1>3. QED  BY <1>1, <1>2, NextKeepsQueue, ApprovalsInvariant, PTL DEF Spec
=============================================================================
