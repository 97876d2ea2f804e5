------------------------------- MODULE Approvals -------------------------------
(***************************************************************************)
(* The queue of human approvals (security/approvals.py), as AegisAgent     *)
(* uses it (agents/aegis.py): callers whose action needs a human yes look  *)
(* for one, spend it or queue a request, while humans decide requests.     *)
(*                                                                         *)
(* Each operation runs in a session of its own on an SQLite file.  A       *)
(* SELECT opens no transaction, and the UPDATE of a commit names only the  *)
(* row and the columns that changed, so every operation is a reading and,  *)
(* later, a writing that does not test what was read.                      *)
(*                                                                         *)
(* A fingerprint stands for an action; an approval of a tree               *)
(* (PORTEE_ARBORESCENCE) covers the actions whose path lies below its      *)
(* root; all actions have one action_type.                                 *)
(***************************************************************************)
EXTENDS Integers, FiniteSets, FiniteSetsExt

CONSTANTS Actions,    \* fingerprints
          Couvertes,  \* those whose target_path an approved root covers
          Callers,    \* threads in _apply_human_consent
          Humans,     \* requests of decide
          Usages,     \* usages a human may give a tree (1 to MAX_USAGES_PORTEE)
          MaxRows     \* bound: rows of the table

ASSUME ApprovalsAssumption ==
  /\ Couvertes \subseteq Actions /\ Actions # {}
  /\ Callers \cap Humans = {}
  /\ Usages \subseteq Nat \ {0} /\ MaxRows \in Nat

VARIABLES ligne,   \* the rows of pending_approvals
          rang,    \* the order of decided_at
          nb,      \* rows inserted
          pc,      \* what each caller does
          action,  \* the action each caller attempts
          tient,   \* the row each caller or human has read, 0 for none
          vu,      \* usages_restants of that row when read
          octroi,  \* history: usages the decisions on each row granted
          servis,  \* history: attempts each row let through
          croisees, \* history: rows written while another operation held a reading
          doublees \* history: actions queued while another attempt was about to

vars == <<ligne, rang, nb, pc, action, tient, vu, octroi, servis, croisees, doublees>>
historique == <<octroi, servis, croisees, doublees>>

Rows == 1..MaxRows
Aucune == 0
Qui == Callers \cup Humans
UneAction == CHOOSE a \in Actions : TRUE
Vierge == [fp |-> UneAction, statut |-> "absente", portee |-> "action",
           usages |-> 0, perimee |-> FALSE]

Init ==
  /\ ligne = [r \in Rows |-> Vierge]
  /\ rang = [r \in Rows |-> 0]
  /\ nb = 0
  /\ pc = [c \in Callers |-> "idle"]
  /\ action = [c \in Callers |-> UneAction]
  /\ tient = [q \in Qui |-> Aucune]
  /\ vu = [c \in Callers |-> 0]
  /\ octroi = [r \in Rows |-> 0]
  /\ servis = [r \in Rows |-> 0]
  /\ croisees = {}
  /\ doublees = {}

------------------------------------------------------------------------------
\* _vivante
Vivante(r) == ~ ligne[r].perimee /\ ligne[r].usages > 0

\* The place of a decision taken now on r in the order of decided_at.
Suivant(r) == 1 + Max({0} \cup {rang[s] : s \in Rows \ {r}})

\* r comes first in R by ORDER BY decided_at DESC.
Derniere(R, r) == r \in R /\ \A s \in R : rang[s] <= rang[r]

Approuvees == {r \in Rows : ligne[r].statut = "approved"}

\* A commit on r by q while another session holds a reading of r.
Croiser(q, r) ==
  croisees' = IF \E p \in Qui \ {q} : tient[p] = r THEN croisees \cup {r} ELSE croisees

Aller(c, label) == pc' = [pc EXCEPT ![c] = label]

Rendre(c) ==
  /\ Aller(c, "idle")
  /\ action' = [action EXCEPT ![c] = UneAction]
  /\ tient' = [tient EXCEPT ![c] = Aucune]
  /\ vu' = [vu EXCEPT ![c] = 0]

Tenir(c, r) ==
  /\ tient' = [tient EXCEPT ![c] = r]
  /\ vu' = [vu EXCEPT ![c] = ligne[r].usages]
  /\ Aller(c, "depense")

------------------------------------------------------------------------------
\* _apply_human_consent: consume_approval, then record_pending.

\* consume_approval: only the last decided of the approved rows is looked at.
LireExact(c) ==
  /\ pc[c] = "idle"
  /\ \E a \in Actions :
       LET R == {r \in Approuvees : ligne[r].fp = a}
       IN  /\ action' = [action EXCEPT ![c] = a]
           /\ \/ \E r \in Rows : Derniere(R, r) /\ Vivante(r) /\ Tenir(c, r)
              \/ /\ ~ \E r \in Rows : Derniere(R, r) /\ Vivante(r)
                 /\ Aller(c, "portee")
                 /\ UNCHANGED <<tient, vu>>
  /\ UNCHANGED <<ligne, rang, nb, historique>>

\* _consommer_une_portee: the last decided of those that live and cover.
LirePortee(c) ==
  LET R == {r \in Approuvees : /\ ligne[r].portee = "arborescence"
                               /\ Vivante(r)
                               /\ action[c] \in Couvertes}
  IN  /\ pc[c] = "portee"
      /\ \/ \E r \in Rows : Derniere(R, r) /\ Tenir(c, r)
         \/ R = {} /\ Aller(c, "attente") /\ UNCHANGED <<tient, vu>>
      /\ UNCHANGED <<ligne, rang, nb, action, historique>>

\* Mutant of Depenser: the usage is not written.
NeverUsed(c) ==
  LET r == tient[c]
  IN  /\ pc[c] = "depense"
      /\ UNCHANGED <<ligne, octroi>>
      /\ servis' = [servis EXCEPT ![r] = @ + 1]
      /\ Croiser(c, r)
      /\ Rendre(c)
      /\ UNCHANGED <<rang, nb, doublees>>

\* _depenser: only the columns that changed are written, so the status of the
\* row is left alone while usages remain.
Depenser(c) ==
  LET r == tient[c]
  IN  /\ pc[c] = "depense"
      /\ ligne' = [ligne EXCEPT ![r].usages = vu[c] - 1,
                                ![r].statut = IF vu[c] - 1 <= 0 THEN "used" ELSE @]
      /\ servis' = [servis EXCEPT ![r] = @ + 1]
      /\ Croiser(c, r)
      /\ Rendre(c)
      /\ UNCHANGED <<rang, nb, octroi, doublees>>

EnAttente(a) == {r \in Rows : ligne[r].statut = "pending" /\ ligne[r].fp = a}

\* record_pending: the existing request, or MultipleResultsFound.
DejaDemandee(c) ==
  /\ pc[c] = "attente"
  /\ EnAttente(action[c]) # {}
  /\ Rendre(c)
  /\ UNCHANGED <<ligne, rang, nb, historique>>

\* Mutant of PasEncoreDemandee: the queue is not looked at.
NoDedup(c) ==
  /\ pc[c] = "attente"
  /\ Aller(c, "insere")
  /\ UNCHANGED <<ligne, rang, nb, action, tient, vu, historique>>

PasEncoreDemandee(c) ==
  /\ pc[c] = "attente"
  /\ EnAttente(action[c]) = {}
  /\ Aller(c, "insere")
  /\ UNCHANGED <<ligne, rang, nb, action, tient, vu, historique>>

Inserer(c) ==
  /\ pc[c] = "insere"
  /\ nb < MaxRows
  /\ nb' = nb + 1
  /\ ligne' = [ligne EXCEPT ![nb + 1] = [Vierge EXCEPT !.fp = action[c],
                                                       !.statut = "pending"]]
  /\ doublees' = IF \E d \in Callers \ {c} : pc[d] = "insere" /\ action[d] = action[c]
                   THEN doublees \cup {action[c]} ELSE doublees
  /\ Rendre(c)
  /\ UNCHANGED <<rang, octroi, servis, croisees>>

------------------------------------------------------------------------------
\* Mutant of DecideLit: an entry already decided may be decided.
AnyEntry(h) ==
  /\ tient[h] = Aucune
  /\ \E r \in Rows : /\ ligne[r].statut # "absente"
                     /\ tient' = [tient EXCEPT ![h] = r]
  /\ UNCHANGED <<ligne, rang, nb, pc, action, vu, historique>>

\* decide: only a PENDING entry is decided, as the session read it.
DecideLit(h) ==
  /\ tient[h] = Aucune
  /\ \E r \in Rows : /\ ligne[r].statut = "pending"
                     /\ tient' = [tient EXCEPT ![h] = r]
  /\ UNCHANGED <<ligne, rang, nb, pc, action, vu, historique>>

\* The row was read with the scope "action": a decision that leaves it so does
\* not write that column.  The expires_at of a refused row is never read.
Decider(h, statut, portee, usages) ==
  LET r == tient[h]
  IN  /\ r # Aucune
      /\ ligne' = [ligne EXCEPT ![r] =
                     [fp |-> ligne[r].fp, statut |-> statut, usages |-> usages,
                      portee |-> IF portee = "action" THEN ligne[r].portee ELSE portee,
                      perimee |-> FALSE]]
      /\ rang' = [rang EXCEPT ![r] = Suivant(r)]
      /\ octroi' = IF statut = "approved" THEN [octroi EXCEPT ![r] = usages] ELSE octroi
      /\ Croiser(h, r)
      /\ tient' = [tient EXCEPT ![h] = Aucune]
      /\ UNCHANGED <<nb, pc, action, vu, servis, doublees>>

DecideEcrit(h) ==
  \/ Decider(h, "approved", "action", 1)
  \/ \E u \in Usages : Decider(h, "approved", "arborescence", u)
  \/ Decider(h, "refused", "action", 1)

\* The clock passes expires_at.
Perimer(r) ==
  /\ ligne[r].statut = "approved"
  /\ ~ ligne[r].perimee
  /\ ligne' = [ligne EXCEPT ![r].perimee = TRUE]
  /\ UNCHANGED <<rang, nb, pc, action, tient, vu, historique>>

Next ==
  \/ \E c \in Callers :
       \/ LireExact(c) \/ LirePortee(c) \/ Depenser(c)
       \/ DejaDemandee(c) \/ PasEncoreDemandee(c) \/ Inserer(c)
  \/ \E h \in Humans : DecideLit(h) \/ DecideEcrit(h)
  \/ \E r \in Rows : Perimer(r)

Spec == Init /\ [][Next]_vars

------------------------------------------------------------------------------
\* A row lets through as many attempts as its decision granted, whatever the
\* order of attempts, decisions and expiries, unless two operations on that
\* row overlapped, one reading it before the other wrote: the reading and the
\* writing of _depenser and of decide are not one transaction, and that is the
\* only way one consent serves twice.
WithinGrant == \A r \in Rows : servis[r] <= octroi[r] \/ r \in croisees

\* A decision stands: once decided, a row is only ever spent, and a spent or
\* refused one never lives again, unless two operations on it overlapped.
DecisionStands ==
  [][\A r \in Rows \ croisees' :
       /\ ligne[r].statut \in {"refused", "used"} => ligne'[r].statut = ligne[r].statut
       /\ ligne[r].statut = "approved" => /\ ligne'[r].statut \in {"approved", "used"}
                                          /\ ligne'[r].usages <= ligne[r].usages]_vars

\* Re-refusing an action queues nothing new: two requests for one action wait
\* together only if two attempts were between their look at the queue and
\* their insertion at the same moment; record_pending then raises for every
\* later attempt until one of the two is decided.
OneRequest == \A a \in Actions : Cardinality(EnAttente(a)) <= 1 \/ a \in doublees

------------------------------------------------------------------------------
\* What the documentation says without the exemptions.

\* "One-shot. An approval is consumed the first time it is used": no attempts
\* beyond those granted, whoever reads the row while another spends it.
OneShot == \A r \in Rows : servis[r] <= octroi[r]

\* "Re-refusing the same action returns the existing pending row rather than
\* piling up duplicates", two attempts at once included.
NoDuplicates == \A a \in Actions : Cardinality(EnAttente(a)) <= 1

\* "Only a PENDING entry can be decided": a refused or spent row stays so,
\* whatever a second human read before.
OnlyPendingIsDecided ==
  [][\A r \in Rows :
       ligne[r].statut \in {"refused", "used"} => ligne'[r].statut = ligne[r].statut]_vars
=============================================================================
