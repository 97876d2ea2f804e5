------------------------------- MODULE MiseAJour -------------------------------
(***************************************************************************)
(* The self update (maj/mise_a_jour, maj/code, maj/paquet, maj/version):   *)
(* back up the state and the code, replace the code, migrate, check, mark, *)
(* or put code and state back.                                             *)
(*                                                                         *)
(* What a directory holds is the version that wrote it, absent, or broken  *)
(* (emptied, or copied in part).  Any operation on files may raise, and    *)
(* the process may die between two of them; nothing resumes an update, so  *)
(* the next one starts from what lies on the disk.  Nothing else writes to *)
(* these directories while an update runs.                                 *)
(***************************************************************************)
EXTENDS Integers

CONSTANTS Racines,    \* top directories of the code
          Dossiers,   \* directories under the root of the state
          MaxVersion, \* versions are 1..MaxVersion
          Gardees,    \* SAUVEGARDES_GARDEES
          MaxEssais   \* bound: updates tried

ASSUME RacinesAssumption == Racines # {}
ASSUME NombresAssumption ==
  MaxVersion \in Nat \ {0} /\ Gardees \in Nat \ {0} /\ MaxEssais \in Nat

VARIABLES code, etat,  \* what each directory holds
          marque,      \* version.json
          gardees,     \* directories under `sauvegardes`
          pc, vers,
          racines,     \* those the package replaces, {} without a package
          reste,       \* what the loop of the present step has still to do
          copie,       \* Sauvegarde and SauvegardeCode, and what they point to
          echecs,      \* of _revenir
          issue,
          essais,
          avant,       \* history: the disk when the update began
          valides,     \* history: versions a self-check accepted
          rendus       \* history: state directories this roll back put back

disque == <<code, etat, marque, gardees>>
appel == <<pc, vers, racines, reste, copie, echecs, issue>>
histoire == <<essais, avant, valides, rendus>>
vars == <<disque, appel, histoire>>

Absent == 0
Casse == -1
Versions == 1..MaxVersion
Contenus == Versions \cup {Absent, Casse}
Labels == {"idle", "sauve", "sauveCode", "remplace", "migre", "installe", "verifie",
           "marque", "rendCode", "cherche", "rendEtat", "rendMarque", "bilan"}
Issues == {"aucune", "reussie", "revenue", "fatal", "echec", "levee", "interrompue"}

Presents(f) == {x \in DOMAIN f : f[x] # Absent}
SansCopie == [etat |-> [d \in Dossiers |-> Absent], code |-> [r \in Racines |-> Absent],
              version |-> 0, la |-> FALSE]

\* An installation, older than the marking of versions or not.
Init ==
  /\ code \in [Racines -> {Absent, 1}] /\ Presents(code) # {}
  /\ etat \in [Dossiers -> {Absent, 1}]
  /\ marque \in {0, 1}
  /\ gardees = 0
  /\ pc = "idle" /\ vers = 1 /\ racines = {} /\ reste = {}
  /\ copie = SansCopie /\ echecs = {} /\ issue = "aucune"
  /\ essais = 0
  /\ avant = [code |-> code, etat |-> etat, marque |-> marque]
  /\ valides = {1}
  /\ rendus = {}

Aller(label) == pc' = label

Clore(i) == Aller("idle") /\ issue' = i

\* Mutant of Revenir: only the state is put back.
StateOnly ==
  /\ Aller("cherche")
  /\ reste' = {}

\* _revenir: the code first if it was saved, then the state.
Revenir ==
  /\ Aller(IF racines # {} THEN "rendCode" ELSE "cherche")
  /\ reste' = Presents(copie.code) \cap racines

------------------------------------------------------------------------------
\* verifier_la_compatibilite: an unmarked state accepts every version, a
\* marked one no older version, and a floor of the package may refuse it.
Compatible(v) == marque = 0 \/ v >= marque

\* appliquer, up to the backup: the package is read and compared first.
Appliquer ==
  /\ pc = "idle"
  /\ essais < MaxEssais
  /\ essais' = essais + 1
  /\ avant' = [code |-> code, etat |-> etat, marque |-> marque]
  /\ rendus' = {}
  /\ copie' = SansCopie /\ echecs' = {} /\ reste' = {}
  /\ \E v \in Versions, R \in SUBSET Racines :
       /\ vers' = v /\ racines' = R
       /\ \/ Compatible(v) /\ Aller("sauve") /\ issue' = "aucune"
          \/ Clore("echec")      \* the package or the versions are refused
  /\ UNCHANGED <<disque, valides>>

\* sauvegarder and _elaguer: the oldest by name go, so a clock that was put
\* back makes the new backup the one that goes.
Sauvegarder ==
  /\ pc = "sauve"
  /\ \E la \in BOOLEAN :
       /\ la \/ gardees >= Gardees
       /\ copie' = [etat |-> etat, code |-> copie.code, version |-> marque, la |-> la]
  /\ gardees' = IF gardees < Gardees THEN gardees + 1 ELSE Gardees
  /\ Aller(IF racines = {} THEN "migre" ELSE "sauveCode")
  /\ UNCHANGED <<code, etat, marque, vers, racines, reste, echecs, issue, histoire>>

\* The copy raises: a partial directory may stay, and nothing is pruned.
SauvegardeRatee ==
  /\ pc = "sauve"
  /\ gardees' \in {gardees, gardees + 1}
  /\ Clore("echec")
  /\ UNCHANGED <<code, etat, marque, vers, racines, reste, copie, echecs, histoire>>

\* code.sauvegarder: under the directory of the state backup, which mkdir
\* makes again if the pruning took it.
SauvegarderCode ==
  /\ pc = "sauveCode"
  /\ \/ /\ copie' = [copie EXCEPT !.code =
                       [r \in Racines |-> IF r \in racines THEN code[r] ELSE Absent]]
        /\ reste' = racines
        /\ Aller("remplace") /\ UNCHANGED issue
     \/ Clore("echec") /\ UNCHANGED <<copie, reste>>
  /\ gardees' \in {gardees, IF copie.la THEN gardees ELSE gardees + 1}
  /\ UNCHANGED <<code, etat, marque, vers, racines, echecs, histoire>>

------------------------------------------------------------------------------
\* code.remplacer, one root: emptied, then copied.
Remplacer(r) ==
  /\ pc = "remplace"
  /\ r \in reste
  /\ code' = [code EXCEPT ![r] = vers]
  /\ reste' = reste \ {r}
  /\ UNCHANGED <<etat, marque, gardees, pc, vers, racines, copie, echecs, issue, histoire>>

RemplacementRate(r) ==
  /\ pc = "remplace"
  /\ r \in reste
  /\ \E c \in {code[r], Casse} : code' = [code EXCEPT ![r] = c]
  /\ Revenir
  /\ UNCHANGED <<etat, marque, gardees, vers, racines, copie, echecs, issue, histoire>>

Remplace ==
  /\ pc = "remplace"
  /\ reste = {}
  /\ Aller("migre")
  /\ UNCHANGED <<disque, vers, racines, reste, copie, echecs, issue, histoire>>

\* The injected works, `migrer` and `installer`: they may rewrite and create
\* directories of the state, and one that raises may leave any of them broken.
Travail(label, suite) ==
  /\ pc = label
  /\ \/ /\ \E D \in SUBSET Dossiers :
             etat' = [d \in Dossiers |-> IF d \in D THEN vers ELSE etat[d]]
        /\ Aller(suite) /\ UNCHANGED reste
     \/ /\ \E f \in [Dossiers -> {"laisse", "migre", "casse"}] :
             etat' = [d \in Dossiers |-> CASE f[d] = "laisse" -> etat[d]
                                           [] f[d] = "migre" -> vers
                                           [] f[d] = "casse" -> Casse]
        /\ Revenir
  /\ UNCHANGED <<code, marque, gardees, vers, racines, copie, echecs, issue, histoire>>

Migrer == Travail("migre", "installe")
Installer == Travail("installe", "verifie")

\* Mutant of Verifier: the version is marked before the verdict.
MarksFirst ==
  /\ pc = "verifie"
  /\ marque' = vers
  /\ \/ Aller("marque") /\ valides' = valides \cup {vers} /\ UNCHANGED reste
     \/ Revenir /\ UNCHANGED valides
  /\ UNCHANGED <<code, etat, gardees, vers, racines, copie, echecs, issue, essais,
                 avant, rendus>>

\* The self-check accepts, refuses or raises.
Verifier ==
  /\ pc = "verifie"
  /\ \/ Aller("marque") /\ valides' = valides \cup {vers} /\ UNCHANGED reste
     \/ Revenir /\ UNCHANGED valides
  /\ UNCHANGED <<disque, vers, racines, copie, echecs, issue, essais, avant, rendus>>

\* ecrire_version_installee: the file is emptied, then written.  No handler
\* surrounds this call: if it raises, appliquer raises.
Marquer ==
  /\ pc = "marque"
  /\ \/ marque' = vers /\ Clore("reussie")
     \/ marque' \in {marque, 0} /\ Clore("levee")
  /\ UNCHANGED <<code, etat, gardees, vers, racines, reste, copie, echecs, histoire>>

------------------------------------------------------------------------------
\* code.restaurer, one root; its failure ends the loop and is noted.
RendreCode(r) ==
  /\ pc = "rendCode"
  /\ r \in reste
  /\ \/ /\ code' = [code EXCEPT ![r] = copie.code[r]]
        /\ reste' = reste \ {r}
        /\ UNCHANGED <<pc, echecs>>
     \/ /\ \E c \in {code[r], Casse} : code' = [code EXCEPT ![r] = c]
        /\ echecs' = echecs \cup {"code"}
        /\ Aller("cherche") /\ reste' = {}
  /\ UNCHANGED <<etat, marque, gardees, vers, racines, copie, issue, histoire>>

CodeRendu ==
  /\ pc = "rendCode"
  /\ reste = {}
  /\ Aller("cherche")
  /\ UNCHANGED <<disque, vers, racines, reste, copie, echecs, issue, histoire>>

\* restaurer looks for the backup and for all that it announces before it
\* writes; the backup of the code makes the directory exist.
CopieComplete ==
  \/ copie.la
  \/ Presents(copie.etat) = {} /\ racines # {}

Chercher ==
  /\ pc = "cherche"
  /\ IF CopieComplete
       THEN Aller("rendEtat") /\ reste' = Presents(copie.etat) /\ UNCHANGED echecs
       ELSE Aller("bilan") /\ echecs' = echecs \cup {"etat"} /\ UNCHANGED reste
  /\ UNCHANGED <<disque, vers, racines, copie, issue, histoire>>

\* Mutant of RendreDossier: a directory that cannot be put back is skipped.
SkipsTheFailure(d) ==
  /\ pc = "rendEtat"
  /\ d \in reste
  /\ \/ etat' = [etat EXCEPT ![d] = copie.etat[d]]
     \/ \E c \in {etat[d], Casse} : etat' = [etat EXCEPT ![d] = c]
  /\ rendus' = rendus \cup {d} /\ reste' = reste \ {d}
  /\ UNCHANGED <<code, marque, gardees, pc, vers, racines, copie, echecs, issue,
                 essais, avant, valides>>

\* One directory: removed, then copied; a failure ends the loop.
RendreDossier(d) ==
  /\ pc = "rendEtat"
  /\ d \in reste
  /\ \/ /\ etat' = [etat EXCEPT ![d] = copie.etat[d]]
        /\ rendus' = rendus \cup {d}
        /\ reste' = reste \ {d}
        /\ UNCHANGED <<pc, echecs>>
     \/ /\ \E c \in {etat[d], Casse} : etat' = [etat EXCEPT ![d] = c]
        /\ echecs' = echecs \cup {"etat"}
        /\ Aller("bilan") /\ reste' = {} /\ UNCHANGED rendus
  /\ UNCHANGED <<code, marque, gardees, vers, racines, copie, issue, essais, avant,
                 valides>>

EtatRendu ==
  /\ pc = "rendEtat"
  /\ reste = {}
  /\ Aller(IF copie.version # 0 THEN "rendMarque" ELSE "bilan")
  /\ UNCHANGED <<disque, vers, racines, reste, copie, echecs, issue, histoire>>

RendreMarque ==
  /\ pc = "rendMarque"
  /\ \/ marque' = copie.version /\ UNCHANGED echecs
     \/ marque' \in {marque, 0} /\ echecs' = echecs \cup {"etat"}
  /\ Aller("bilan")
  /\ UNCHANGED <<code, etat, gardees, vers, racines, reste, copie, issue, histoire>>

Bilan ==
  /\ pc = "bilan"
  /\ Clore(IF echecs # {} THEN "fatal" ELSE "revenue")
  /\ UNCHANGED <<disque, vers, racines, reste, copie, echecs, histoire>>

------------------------------------------------------------------------------
\* The process dies; what it knew is lost.
Mourir ==
  /\ pc # "idle"
  /\ Clore("interrompue")
  /\ copie' = SansCopie /\ echecs' = {} /\ reste' = {}
  /\ UNCHANGED <<disque, vers, racines, histoire>>

\* The application creates a directory of its state.
Utiliser(d) ==
  /\ pc = "idle"
  /\ etat[d] = Absent
  /\ \E r \in Racines : code[r] \in Versions /\ etat' = [etat EXCEPT ![d] = code[r]]
  /\ issue' = "aucune"
  /\ UNCHANGED <<code, marque, gardees, pc, vers, racines, reste, copie, echecs, histoire>>

Next ==
  \/ Appliquer \/ Sauvegarder \/ SauvegardeRatee \/ SauvegarderCode
  \/ \E r \in Racines : Remplacer(r) \/ RemplacementRate(r) \/ RendreCode(r)
  \/ Remplace \/ Migrer \/ Installer \/ Verifier \/ Marquer
  \/ CodeRendu \/ Chercher \/ EtatRendu \/ RendreMarque \/ Bilan
  \/ \E d \in Dossiers : RendreDossier(d) \/ Utiliser(d)
  \/ Mourir

Spec == Init /\ [][Next]_vars

------------------------------------------------------------------------------
\* The directories that existed hold what they held, and so does the mark.
CommeAvant ==
  /\ \A r \in Racines : avant.code[r] # Absent => code[r] = avant.code[r]
  /\ \A d \in Dossiers : avant.etat[d] # Absent => etat[d] = avant.etat[d]
  /\ marque = avant.marque

\* All of the package is in place and the state is as good as it was.
Installee ==
  /\ \A r \in Racines : code[r] = IF r \in racines THEN vers ELSE avant.code[r]
  /\ \A d \in Dossiers : etat[d] \in {vers, avant.etat[d]}

\* What appliquer reports is what the disk holds: a success has all of the
\* package and the mark, a return has everything that existed before the
\* update back, a refusal changed nothing, an exception of the marking left
\* the new version without its mark, and everything else is called fatal.
\* (A root or a directory that did not exist before may stay after a return.)
OutcomeIsTrue ==
  /\ issue = "reussie" => Installee /\ marque = vers
  /\ issue = "revenue" => CommeAvant
  /\ issue = "echec" => code = avant.code /\ etat = avant.etat /\ marque = avant.marque
  /\ issue = "levee" => Installee /\ marque \in {avant.marque, 0}

\* The mark never names a version that no self-check accepted, through failed
\* updates, returns and deaths of the process at any point.
MarkIsHonest == marque # 0 => marque \in valides

\* Old state is not put back under new code: while a roll back restores the
\* state, every root it saved is back, or its failure is already noted.
CodeFirst ==
  rendus # {} /\ "code" \notin echecs /\ pc # "idle" =>
    \A r \in racines : avant.code[r] # Absent => code[r] = avant.code[r]

\* "restaurer un etat ancien sous un code neuf donnerait le seul etat que rien
\* ne sait lire": no state directory is put back while a root still holds the
\* version that is being given up.
NoOldStateUnderNewCode ==
  rendus # {} => \A r \in racines : avant.code[r] \notin {Absent, vers} => code[r] # vers
=============================================================================
