---------------------------- MODULE MiseAJour_proofs ----------------------------
(***************************************************************************)
(* For any set of roots and directories, any versions and any number of    *)
(* updates: what an update reports is what the disk holds, and the mark    *)
(* names only versions that were checked.                                  *)
(***************************************************************************)
EXTENDS MiseAJour, TLAPS

Retour == {"rendCode", "cherche", "rendEtat", "rendMarque", "bilan"}

Typed ==
  /\ code \in [Racines -> Contenus]
  /\ etat \in [Dossiers -> Contenus]
  /\ marque \in 0..MaxVersion
  /\ gardees \in Nat
  /\ pc \in Labels
  /\ vers \in Versions
  /\ racines \in SUBSET Racines
  /\ copie \in [etat : [Dossiers -> Contenus], code : [Racines -> Contenus],
                version : 0..MaxVersion, la : BOOLEAN]
  /\ echecs \in SUBSET {"code", "etat"}
  /\ issue \in Issues
  /\ essais \in Nat
  /\ avant \in [code : [Racines -> Contenus], etat : [Dossiers -> Contenus],
                marque : 0..MaxVersion]
  /\ valides \in SUBSET Versions
  /\ rendus \in SUBSET Dossiers

\* The backup holds what the disk held when the update began.
Sauvee ==
  /\ pc = "sauve" => \A r \in Racines : copie.code[r] = Absent
  /\ pc \notin {"idle", "sauve"} =>
       copie.etat = avant.etat /\ copie.version = avant.marque
  /\ pc \notin {"idle", "sauve", "sauveCode"} =>
       \A r \in Racines : copie.code[r] = IF r \in racines THEN avant.code[r] ELSE Absent

\* The way forward.
Avance ==
  /\ pc \in {"sauve", "sauveCode"} =>
       code = avant.code /\ etat = avant.etat
  /\ pc # "idle" => \A r \in Racines \ racines : code[r] = avant.code[r]
  /\ pc \in {"remplace", "rendCode"} => reste \subseteq racines
  /\ pc = "remplace" => /\ \A r \in racines : r \in reste \/ code[r] = vers
                        /\ etat = avant.etat
  /\ pc \in {"migre", "installe", "verifie", "marque"} => Installee

\* The way back: what is not in the loop any more is as it was, unless a
\* failure was noted.
Recule ==
  /\ pc = "rendCode" =>
       \A r \in racines : avant.code[r] # Absent => r \in reste \/ code[r] = avant.code[r]
  /\ pc \in Retour \ {"rendCode"} /\ "code" \notin echecs =>
       \A r \in racines : avant.code[r] # Absent => code[r] = avant.code[r]
  /\ pc = "rendEtat" =>
       \A d \in Dossiers : avant.etat[d] # Absent => d \in reste \/ etat[d] = avant.etat[d]
  /\ pc \in {"rendMarque", "bilan"} /\ "etat" \notin echecs =>
       \A d \in Dossiers : avant.etat[d] # Absent => etat[d] = avant.etat[d]
  /\ pc \notin Retour \cup {"idle"} => rendus = {} /\ echecs = {}
  /\ pc \in {"rendCode", "cherche"} => rendus = {}

\* The mark, and the other places that remember a mark.
Marquee ==
  /\ marque # 0 => marque \in valides
  /\ avant.marque # 0 => avant.marque \in valides
  /\ pc = "marque" => vers \in valides
  /\ pc \notin {"idle", "bilan"} => marque = avant.marque
  /\ pc = "bilan" /\ "etat" \notin echecs => marque = avant.marque
  /\ pc # "idle" => issue = "aucune"

\* The inductive invariant.
IInv == Typed /\ Sauvee /\ Avance /\ Recule /\ Marquee /\ OutcomeIsTrue

LEMMA InitInv == Init => IInv
  <1> SUFFICES ASSUME Init PROVE IInv
    OBVIOUS
  <1> USE NombresAssumption
  <1>1. 1 \in Versions /\ 1 \in Nat
    BY DEF Versions
  <1>2. Typed
    BY <1>1 DEF Init, Typed, Contenus, Versions, Labels, Issues, SansCopie, Absent
  <1>3. Sauvee /\ Avance /\ Recule /\ Marquee /\ OutcomeIsTrue
    BY <1>1 DEF Init, Sauvee, Avance, Recule, Marquee, OutcomeIsTrue, Retour
  <1>4. QED  BY <1>2, <1>3 DEF IInv

\* Every step keeps the types.
LEMMA TypedStep == Typed /\ [Next]_vars => Typed'
  <1> SUFFICES ASSUME Typed, [Next]_vars PROVE Typed'
    OBVIOUS
  <1> USE NombresAssumption DEF Typed, Aller, Clore, Revenir, disque, appel, histoire
  <1>0. \A v \in Versions : v \in Contenus /\ v \in 0..MaxVersion
    BY DEF Versions, Contenus
  <1>00. Absent \in Contenus /\ Casse \in Contenus /\ 0 \in 0..MaxVersion
    BY DEF Contenus
  <1>s. SansCopie \in [etat : [Dossiers -> Contenus], code : [Racines -> Contenus],
                       version : 0..MaxVersion, la : BOOLEAN]
    BY <1>00 DEF SansCopie
  <1>1. CASE Appliquer  BY <1>1, <1>s DEF Appliquer, Labels, Issues
  <1>2. CASE Sauvegarder
    <2>1. copie' \in [etat : [Dossiers -> Contenus], code : [Racines -> Contenus],
                      version : 0..MaxVersion, la : BOOLEAN]
      BY <1>2 DEF Sauvegarder
    <2>2. gardees' \in Nat
      BY <1>2 DEF Sauvegarder
    <2>3. QED  BY <1>2, <2>1, <2>2 DEF Sauvegarder, Labels
  <1>3. CASE SauvegardeRatee  BY <1>3 DEF SauvegardeRatee, Labels, Issues
  <1>4. CASE SauvegarderCode  BY <1>4, <1>00 DEF SauvegarderCode, Labels, Issues
  <1>5. ASSUME NEW r \in Racines, Remplacer(r) \/ RemplacementRate(r) \/ RendreCode(r)
        PROVE  Typed'
    <2>1. \E c \in Contenus : code' = [code EXCEPT ![r] = c]
      BY <1>5, <1>0, <1>00 DEF Remplacer, RemplacementRate, RendreCode
    <2>2. code' \in [Racines -> Contenus]
      BY <2>1
    <2>3. QED  BY <1>5, <2>2 DEF Remplacer, RemplacementRate, RendreCode, Labels
  <1>6. CASE Remplace \/ CodeRendu \/ EtatRendu \/ Chercher
    BY <1>6 DEF Remplace, CodeRendu, EtatRendu, Chercher, Labels
  <1>7. ASSUME NEW l, NEW m \in Labels, Travail(l, m)
        PROVE  Typed'
    <2>1. etat' \in [Dossiers -> Contenus]
      BY <1>7, <1>0, <1>00 DEF Travail
    <2>2. QED  BY <1>7, <2>1 DEF Travail, Labels
  <1>8. CASE Migrer \/ Installer
    BY <1>7, <1>8 DEF Migrer, Installer, Labels
  <1>9. CASE Verifier  BY <1>9 DEF Verifier, Labels
  <1>10. CASE Marquer  BY <1>10, <1>0, <1>00 DEF Marquer, Labels, Issues
  <1>11. CASE RendreMarque \/ Bilan
    BY <1>11, <1>00 DEF RendreMarque, Bilan, Labels, Issues
  <1>12. ASSUME NEW d \in Dossiers, RendreDossier(d) \/ Utiliser(d)
         PROVE  Typed'
    <2>1. \E c \in Contenus : etat' = [etat EXCEPT ![d] = c]
      BY <1>12, <1>0, <1>00 DEF RendreDossier, Utiliser
    <2>2. etat' \in [Dossiers -> Contenus]
      BY <2>1
    <2>3. QED  BY <1>12, <2>2 DEF RendreDossier, Utiliser, Labels, Issues
  <1>13. CASE Mourir  BY <1>13, <1>s DEF Mourir, Labels, Issues
  <1>14. CASE UNCHANGED vars  BY <1>14 DEF vars
  <1>15. QED
    BY <1>1, <1>2, <1>3, <1>4, <1>5, <1>6, <1>8, <1>9, <1>10, <1>11, <1>12, <1>13,
       <1>14 DEF Next

\* Every step keeps the rest.
LEMMA StepInv == IInv /\ [Next]_vars => IInv'
  <1> SUFFICES ASSUME IInv, [Next]_vars PROVE IInv'
    OBVIOUS
  <1> DEFINE Reste == Sauvee /\ Avance /\ Recule /\ Marquee /\ OutcomeIsTrue
  <1>t. Typed /\ Typed'
    BY TypedStep DEF IInv
  <1>a. Absent = 0 /\ Casse = -1 /\ 0 \notin Versions
    BY DEF Absent, Casse, Versions
  <1> SUFFICES Reste'
    BY <1>t DEF IInv
  <1> USE <1>t DEF IInv, Typed, Sauvee, Avance, Recule, Marquee, OutcomeIsTrue, CommeAvant,
          Installee, Retour, Aller, Clore, Revenir, disque, appel, histoire
  <1>1. CASE Appliquer  BY <1>1 DEF Appliquer, SansCopie
  <1>2. CASE Sauvegarder
    <2>1. copie'.etat = etat /\ copie'.version = marque /\ copie'.code = copie.code
      BY <1>2 DEF Sauvegarder
    <2>2. Installee' \/ racines' # {}
      BY <1>2 DEF Sauvegarder
    <2>3. QED  BY <1>2, <2>1, <2>2 DEF Sauvegarder
  <1>3. CASE SauvegardeRatee  BY <1>3 DEF SauvegardeRatee
  <1>4. CASE SauvegarderCode  BY <1>4 DEF SauvegarderCode
  <1>5. ASSUME NEW r \in Racines, Remplacer(r) PROVE Reste'
    <2>1. \A s \in Racines : code'[s] = IF s = r THEN vers ELSE code[s]
      BY <1>5 DEF Remplacer
    <2>2. QED  BY <1>5, <2>1 DEF Remplacer
  <1>6. ASSUME NEW r \in Racines, RemplacementRate(r) PROVE Reste'
    <2>1. \A s \in Racines \ {r} : code'[s] = code[s]
      BY <1>6 DEF RemplacementRate
    <2>2. \A s \in racines : avant.code[s] # Absent => s \in Presents(copie.code)
      BY <1>6 DEF RemplacementRate, Presents
    <2>3. reste' = Presents(copie.code) \cap racines /\ pc' = "rendCode"
      BY <1>6 DEF RemplacementRate
    <2>4. QED  BY <1>6, <2>1, <2>2, <2>3 DEF RemplacementRate
  <1>7. ASSUME NEW r \in Racines, RendreCode(r) PROVE Reste'
    <2>1. \A s \in Racines \ {r} : code'[s] = code[s]
      BY <1>7 DEF RendreCode
    <2>2. code'[r] = copie.code[r] \/ "code" \in echecs'
      BY <1>7 DEF RendreCode
    <2>3. QED  BY <1>7, <2>1, <2>2 DEF RendreCode
  <1>8. CASE Remplace  BY <1>8 DEF Remplace
  <1>9. CASE CodeRendu  BY <1>9 DEF CodeRendu
  <1>10. CASE EtatRendu  BY <1>10 DEF EtatRendu
  <1>11. CASE Chercher  BY <1>11 DEF Chercher, Presents
  <1>12. CASE Migrer  BY <1>12 DEF Migrer, Travail, Presents
  <1>13. CASE Installer  BY <1>13 DEF Installer, Travail, Presents
  <1>14. CASE Verifier  BY <1>14 DEF Verifier, Presents
  <1>15. CASE Marquer  BY <1>15 DEF Marquer
  <1>16. CASE RendreMarque  BY <1>16 DEF RendreMarque
  <1>17. CASE Bilan  BY <1>17 DEF Bilan
  <1>18. ASSUME NEW d \in Dossiers, RendreDossier(d) PROVE Reste'
    BY <1>18 DEF RendreDossier
  <1>19. ASSUME NEW d \in Dossiers, Utiliser(d) PROVE Reste'
    BY <1>19 DEF Utiliser
  <1>20. CASE Mourir  BY <1>20 DEF Mourir
  <1>21. CASE UNCHANGED vars  BY <1>21 DEF vars
  <1>22. QED
    BY <1>1, <1>2, <1>3, <1>4, <1>5, <1>6, <1>7, <1>8, <1>9, <1>10, <1>11, <1>12, <1>13,
       <1>14, <1>15, <1>16, <1>17, <1>18, <1>19, <1>20, <1>21 DEF Next

\* What appliquer reports is what the disk holds, whatever raises and wherever
\* the process dies.
THEOREM OutcomesAreTrue == Spec => []OutcomeIsTrue
  <1>1. IInv => OutcomeIsTrue
    BY DEF IInv
  <1>2. QED  BY InitInv, StepInv, <1>1, PTL DEF Spec

\* The mark names only versions that a self-check accepted.
THEOREM MarksAreHonest == Spec => []MarkIsHonest
  <1>1. IInv => MarkIsHonest
    BY DEF IInv, Marquee, MarkIsHonest
  <1>2. QED  BY InitInv, StepInv, <1>1, PTL DEF Spec

\* A roll back puts the state back only once the code is, or has failed.
THEOREM CodeComesFirst == Spec => []CodeFirst
  <1>1. IInv => CodeFirst
    BY DEF IInv, Typed, Labels, Recule, CodeFirst, Retour
  <1>2. QED  BY InitInv, StepInv, <1>1, PTL DEF Spec
=============================================================================
