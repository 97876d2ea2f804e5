---------------------------- MODULE VramAdmission ----------------------------
(***************************************************************************)
(* The admission of local models on one graphics card: ResourceManager,    *)
(* its policy and the cached GPU counter (runtime/resources), and the part *)
(* of RealTaskExecutor.execute that waits for room, reserves it, runs the  *)
(* model and gives the room back (execution/task_executor).                *)
(*                                                                         *)
(* Tasks are threads.  Ollama is external: a request loads its model when  *)
(* it is not resident, the model stays resident after the answer until its *)
(* keep_alive runs out or somebody unloads it, and a request the executor  *)
(* has given up on goes on.                                                *)
(***************************************************************************)
EXTENDS Integers, FiniteSets, Functions

CONSTANTS Tasks,    \* the threads that execute a task
          Models,   \* local models
          Size,     \* what each takes on the card, in some unit
          Cap,      \* max_vram_usage_pct of the card, in the same unit
          Configurations

ASSUME SetsAssumption == IsFiniteSet(Tasks) /\ IsFiniteSet(Models) /\ Models # {}
ASSUME SizeAssumption == Size \in [Models -> Nat \ {0}] /\ Cap \in Nat
\* What service_registry wires when the process starts: the models
\* vram_gb_for has a size for, those the harness may fall back to after lost
\* turns, and whether tasks may be assigned to the cloud.
ASSUME ConfigurationsAssumption ==
  Configurations \subseteq
    [connus : SUBSET Models, secours : SUBSET Models, cloud : BOOLEAN]

VARIABLES config,    \* the configuration of this process
          resident,  \* the models Ollama holds on the card
          vus,       \* those the cached measure of the card counted
          releve,    \* what kind of reading it is
          perimee,   \* it is older than _update_interval_s
          reserves,  \* tasks with an allocation that is not released
          tardifs,   \* models of requests abandoned before they were loaded
          etape, modele,
          nuage,     \* assigned to the cloud: observes and reserves nothing
          charge,    \* the model its inference runs on
          attente,   \* how much of vram_wait_s is spent, and tried_unload
          aveugle    \* history: what first escaped the promises

carte == <<resident, tardifs>>
mesure == <<vus, releve, perimee>>
locals == <<etape, modele, nuage, charge, attente>>
vramVars == <<config, carte, mesure, reserves, locals, aveugle>>

Labels == {"idle", "nuage", "admet", "evince", "reserve", "lance", "infer", "fin"}
\* A reading with figures; a card whose occupation no probe could read; no
\* capacity found, which is also what a card that no probe reads looks like
\* on any system but Windows.
Releves == {"mesuree", "illisible", "absente"}
\* "essai" is past half with tried_unload; its value matters no more at "tout".
Attentes == {"debut", "moitie", "essai", "tout"}
\* Nothing, a cached reading, no reading, or any other way round the promises.
Aveuglements == {"non", "cache", "sonde", "autre"}
AnyModel == CHOOSE m \in Models : TRUE

Poids(S) == SumFunctionOnSet(Size, S)
Promis == {modele[t] : t \in reserves}

\* Mutant of OctetsReserves: admission looks at the card alone.
ForgetsPromises == 0

\* _octets_reserves: two tasks of one model are counted twice.
OctetsReserves == SumFunctionOnSet([t \in Tasks |-> Size[modele[t]]], reserves)

VramInit ==
  /\ config \in Configurations
  /\ resident = {} /\ tardifs = {}
  /\ vus = {} /\ releve = "absente" /\ perimee = TRUE
  /\ reserves = {}
  /\ etape = [t \in Tasks |-> "idle"]
  /\ modele = [t \in Tasks |-> AnyModel]
  /\ nuage = [t \in Tasks |-> FALSE]
  /\ charge = [t \in Tasks |-> AnyModel]
  /\ attente = [t \in Tasks |-> "debut"]
  /\ aveugle = "non"

------------------------------------------------------------------------------
\* GPUMonitor.poll: a fresh cache is returned as it is; otherwise the probes
\* are asked, and may all fail.  v and k are what the caller reads.
Poll(v, k) ==
  /\ IF perimee THEN v = IF k = "mesuree" THEN resident ELSE {}
                ELSE v = vus /\ k = releve
  /\ vus' = v
  /\ releve' = k
  /\ perimee' = FALSE

\* can_allocate of the manager and of the default policy: no capacity is no
\* constraint, a capacity without figures is refused.
CanAllocate(t, v, k) ==
  \/ k = "absente"
  \/ k = "mesuree" /\ Poids(v) + OctetsReserves + Size[modele[t]] <= Cap

Aller(t, label) == etape' = [etape EXCEPT ![t] = label]

\* The admission returns or raises, and its local variables are gone.
Quitter(t, label) ==
  /\ Aller(t, label)
  /\ attente' = [attente EXCEPT ![t] = "debut"]

Avec(Q(_, _)) == \E v \in SUBSET Models, k \in Releves : Poll(v, k) /\ Q(v, k)

\* The first reason is kept.
Aveugler(raison) == aveugle' = IF aveugle = "non" THEN raison ELSE aveugle

------------------------------------------------------------------------------
\* RealTaskExecutor.execute.

Resoudre(t) == \E m \in Models : modele' = [modele EXCEPT ![t] = m]

\* The baseline of ObservationPhysique polls the card before the admission.
Execute(t) ==
  /\ etape[t] = "idle"
  /\ \/ Aller(t, "admet") /\ Resoudre(t) /\ Avec(LAMBDA v, k : TRUE)
       /\ UNCHANGED nuage
     \/ config.cloud /\ Aller(t, "nuage") /\ nuage' = [nuage EXCEPT ![t] = TRUE]
       /\ UNCHANGED <<modele, mesure>>
  /\ UNCHANGED <<carte, reserves, charge, attente, aveugle>>

\* The cloud answers, or fails: then the local fallback, which is resolved
\* now, asks for admission and reserves nothing.
Cloud(t) ==
  /\ etape[t] = "nuage"
  /\ \/ Aller(t, "fin") /\ UNCHANGED modele
     \/ Aller(t, "admet") /\ Resoudre(t)
  /\ UNCHANGED <<carte, mesure, reserves, nuage, charge, attente, aveugle>>

\* vram_gb_for has no size for the model: admission returns at once, there is
\* nothing to reserve, and the model is launched all the same.
TailleInconnue(t) ==
  /\ etape[t] = "admet"
  /\ modele[t] \notin config.connus
  /\ Aller(t, "lance")
  /\ UNCHANGED <<carte, mesure, reserves, modele, nuage, charge, attente, aveugle>>

\* _check_vram_admission, one turn of its loop.
Admis(t) ==
  /\ etape[t] = "admet"
  /\ modele[t] \in config.connus
  /\ Avec(LAMBDA v, k : CanAllocate(t, v, k))
  /\ Quitter(t, IF nuage[t] THEN "lance" ELSE "reserve")
  /\ UNCHANGED <<carte, reserves, modele, nuage, charge, aveugle>>

\* Mutant of Refuse: the wait has no deadline.
WaitsForEver(t) == etape[t] = "admet" /\ attente[t] \notin Attentes /\ UNCHANGED vramVars

Refuse(t) ==
  /\ etape[t] = "admet"
  /\ modele[t] \in config.connus
  /\ attente[t] = "tout"
  /\ Avec(LAMBDA v, k : ~CanAllocate(t, v, k))
  /\ Quitter(t, "fin")
  /\ UNCHANGED <<carte, reserves, modele, nuage, charge, aveugle>>

\* Past half of the wait, once: free the card actively.
AssezAttendu(t) ==
  /\ etape[t] = "admet"
  /\ modele[t] \in config.connus
  /\ attente[t] = "moitie"
  /\ Avec(LAMBDA v, k : ~CanAllocate(t, v, k))
  /\ attente' = [attente EXCEPT ![t] = "essai"]
  /\ Aller(t, "evince")
  /\ UNCHANGED <<carte, reserves, modele, nuage, charge, aveugle>>

EnUsage(m) == \E t \in Tasks : etape[t] = "infer" /\ charge[t] = m

\* _try_free_vram_actively: the largest other resident model.  Ollama unloads
\* a model that is answering only afterwards, which KeepAlive covers.
EvinceLePlusGros(t) ==
  LET autres == resident \ {modele[t]}
  IN  /\ etape[t] = "evince"
      /\ \/ \E m \in autres :
              /\ \A n \in autres : Size[n] <= Size[m]
              /\ resident' = IF EnUsage(m) THEN resident ELSE resident \ {m}
         \/ UNCHANGED resident      \* nothing to unload, or the call failed
      /\ Aller(t, "admet")
      /\ UNCHANGED <<tardifs, mesure, reserves, modele, nuage, charge, attente, aveugle>>

\* reserve_resources decides again, under the lock of the manager.
Reserve(t) ==
  /\ etape[t] = "reserve"
  /\ \E v \in SUBSET Models, k \in Releves :
       /\ Poll(v, k)
       /\ IF CanAllocate(t, v, k)
            THEN /\ reserves' = reserves \cup {t}
                 /\ Aveugler(IF k # "mesuree" THEN "sonde"
                             ELSE IF resident \subseteq v \cup Promis THEN "non" ELSE "cache")
                 /\ Aller(t, "lance")
            ELSE /\ Aller(t, "fin")
                 /\ UNCHANGED <<reserves, aveugle>>
  /\ UNCHANGED <<carte, modele, nuage, charge, attente>>

\* The request reaches Ollama.  In the harness the rule on lost turns may have
\* replaced the model that was admitted.
Charge(t) ==
  /\ etape[t] = "lance"
  /\ \E m \in {modele[t]} \cup (IF nuage[t] THEN {} ELSE config.secours) :
       /\ resident' = resident \cup {m}
       /\ charge' = [charge EXCEPT ![t] = m]
       /\ Aveugler(IF m \in resident \cup Promis THEN "non" ELSE "autre")
  /\ Aller(t, "infer")
  /\ UNCHANGED <<tardifs, mesure, reserves, modele, nuage, attente>>

\* An answer, an error, or the budget of the call: future.result gives up and
\* the request stays with Ollama, its model loaded or not.
Issue(t) ==
  /\ \/ etape[t] = "infer" /\ UNCHANGED tardifs
     \/ etape[t] = "lance" /\ tardifs' \in {tardifs, tardifs \cup {modele[t]}}
  /\ Aller(t, "fin")
  /\ charge' = [charge EXCEPT ![t] = AnyModel]
  /\ UNCHANGED <<resident, mesure, reserves, modele, nuage, attente, aveugle>>

\* The finally clause: a last reading of the card, then the release.
Liberer(t) ==
  /\ etape[t] = "fin"
  /\ IF nuage[t] THEN UNCHANGED mesure ELSE Avec(LAMBDA v, k : TRUE)
  /\ reserves' = reserves \ {t}
  /\ Aller(t, "idle")
  /\ modele' = [modele EXCEPT ![t] = AnyModel]
  /\ nuage' = [nuage EXCEPT ![t] = FALSE]
  /\ UNCHANGED <<carte, charge, attente, aveugle>>

------------------------------------------------------------------------------
\* Time, and Ollama on its own.

Attend(t) ==
  /\ etape[t] = "admet"
  /\ modele[t] \in config.connus
  /\ attente[t] # "tout"
  /\ attente' = [attente EXCEPT ![t] = IF @ = "debut" THEN "moitie" ELSE "tout"]
  /\ UNCHANGED <<carte, mesure, reserves, etape, modele, nuage, charge, aveugle>>

MesureVieillit ==
  /\ ~perimee
  /\ perimee' = TRUE
  /\ vus' = {} /\ releve' = "absente"      \* never read again
  /\ UNCHANGED <<carte, reserves, locals, aveugle>>

\* A request nobody waits for any more loads its model.
ChargeTardive(m) ==
  /\ m \in tardifs
  /\ tardifs' = tardifs \ {m}
  /\ resident' = resident \cup {m}
  /\ Aveugler(IF m \in resident \cup Promis THEN "non" ELSE "autre")
  /\ UNCHANGED <<mesure, reserves, locals>>

KeepAlive(m) ==
  /\ m \in resident
  /\ ~EnUsage(m)
  /\ resident' = resident \ {m}
  /\ UNCHANGED <<tardifs, mesure, reserves, locals, aveugle>>

Step(t) ==
  \/ Cloud(t) \/ TailleInconnue(t) \/ Admis(t) \/ Refuse(t)
  \/ AssezAttendu(t) \/ EvinceLePlusGros(t) \/ Reserve(t)
  \/ Charge(t) \/ Issue(t) \/ Liberer(t) \/ Attend(t)

VramNext ==
  /\ UNCHANGED config
  /\ \/ \E t \in Tasks : Execute(t) \/ Step(t)
     \/ \E m \in Models : ChargeTardive(m) \/ KeepAlive(m)
     \/ MesureVieillit

VramSpec == VramInit /\ [][VramNext]_vramVars

\* Threads run, the deadline of the admission comes, a call to a runtime ends
\* or exceeds its budget.  Nothing is asked of Ollama or of the probes.
VramFairness == \A t \in Tasks : WF_vramVars(Step(t) /\ UNCHANGED config)

VramFairSpec == VramSpec /\ VramFairness

------------------------------------------------------------------------------
\* What the card holds and what is promised fits, through every interleaving
\* of waiting, eviction, reservation, loading, release and late requests: a
\* promise hands over to the counter without a gap, for every grant made on a
\* reading of the card that saw what nobody has promised.  It is silent once a
\* grant was made on a cached reading that missed a model ("cache") or without
\* a reading ("sonde"), and once a model was loaded that nobody reserved: of
\* unknown size, fallen back to from the cloud, changed after its admission,
\* or asked for by a request abandoned before the load ("autre").
FitsUnlessBlind == aveugle = "non" => Poids(resident \cup Promis) <= Cap

\* "On refuse ainsi parfois une allocation qui aurait tenu -- jamais
\* l'inverse": no grant of can_allocate, cached readings included, puts more
\* on the card than it holds.
JamaisLInverse == aveugle \in {"non", "cache"} => Poids(resident \cup Promis) <= Cap

\* "Quand aucune sonde ne repond mais que la carte existe, le moniteur le dit",
\* and admission refuses: the card is not overfilled because no probe
\* answers.
CarteIllisibleRefuse == aveugle \in {"non", "sonde"} => Poids(resident) <= Cap

\* Every execution ends, whatever the probes say, and leaves no reservation:
\* the manager has no expiry, so one that survived would be lost capacity.
TaskEnds ==
  \A t \in Tasks : etape[t] # "idle" ~> etape[t] = "idle" /\ t \notin reserves
=============================================================================
