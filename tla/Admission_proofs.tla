-------------------------- MODULE Admission_proofs --------------------------
(***************************************************************************)
(* Proofs about the two admissions that missions share on a machine.       *)
(*                                                                         *)
(* The gate (Portillon), for any finite set of threads and any measured    *)
(* capacities: its counter is exact and the running nodes are bounded.     *)
(* The bound on the running threads alone is not inductive: the thread     *)
(* whose limit justifies it may leave first.  Bounded states it for every  *)
(* non-empty group of running threads (the last of a group to enter saw    *)
(* all the others inside), and with the exact counter that is inductive.   *)
(*                                                                         *)
(* The card (VramAdmission), for any finite sets of tasks and models: what *)
(* is resident or promised fits, unless the history variable says that     *)
(* something bypassed the promises.  It needs that a reservation is held   *)
(* only past the admission, so that its model does not change, and facts   *)
(* about sums over finite sets, which are proved first by induction on the *)
(* number of elements.                                                     *)
(***************************************************************************)
EXTENDS Portillon, VramAdmission, FiniteSetTheorems, WellFoundedInduction, TLAPS

-----------------------------------------------------------------------------
(* The gate                                                                *)

\* Every limit a step may measure is a positive integer: the gate never
\* refuses for ever on an idle machine.
LEMMA LimitsPositive == \A l \in Limits : l \in Nat /\ l >= 1
BY CapacitiesAreInts, RepliIsInt DEF Limits, AtLeastOne

\* The threads inside are finitely many, so that they can be counted.
LEMMA InsideFinite == IsFiniteSet(Inside) /\ Cardinality(Inside) \in Nat
<1>1. Inside \subseteq Threads
  BY DEF Inside
<1> QED BY <1>1, ThreadsFinite, FS_Subset, FS_CardinalityType

\* The type of the state: the counter of _occupees stays a natural number.
LEMMA TypeStep == ASSUME TypeOK, [Next]_vars PROVE TypeOK'
<1>1. CASE UNCHANGED vars
  BY <1>1 DEF TypeOK, vars
<1>2. ASSUME NEW t \in Threads, Demander(t) PROVE TypeOK'
  BY <1>2 DEF TypeOK, Demander
<1>3. ASSUME NEW t \in Threads, Entrer(t) PROVE TypeOK'
  BY <1>3 DEF TypeOK, Entrer
<1>4. ASSUME NEW t \in Threads, Attendre(t) PROVE TypeOK'
  BY <1>4 DEF TypeOK, Attendre
<1>5. ASSUME NEW t \in Threads, Renoncer(t) PROVE TypeOK'
  BY <1>5 DEF TypeOK, Renoncer
<1>6. ASSUME NEW t \in Threads, Reveil(t) PROVE TypeOK'
  BY <1>6 DEF TypeOK, Reveil
<1>7. ASSUME NEW t \in Threads, Echeance(t) PROVE TypeOK'
  BY <1>7 DEF TypeOK, Echeance
<1>8. ASSUME NEW t \in Threads, Sortir(t) PROVE TypeOK'
  <2>1. occupees' \in Nat
    BY <1>8 DEF TypeOK, Sortir
  <2>2. pc' \in [Threads -> {"libre", "teste", "dort", "dedans"}]
    BY <1>8 DEF TypeOK, Sortir, Notify
  <2> QED BY <1>8, <2>1, <2>2 DEF TypeOK, Sortir
<1> QED BY <1>1, <1>2, <1>3, <1>4, <1>5, <1>6, <1>7, <1>8 DEF Next

-----------------------------------------------------------------------------

\* What an action that neither enters nor leaves does to the running threads.
LEMMA SameInside ==
  ASSUME TypeOK, CounterIsExact, Bounded, Inside' = Inside, occupees' = occupees,
         \A t \in Inside : limite'[t] = limite[t]
  PROVE  CounterIsExact' /\ Bounded'
<1>1. CounterIsExact'
  BY DEF CounterIsExact
<1>2. Bounded'
  BY DEF Bounded
<1> QED BY <1>1, <1>2

\* _entrer: the entrant found fewer threads inside than its limit.
LEMMA EnterStep ==
  ASSUME TypeOK, CounterIsExact, Bounded, NEW t \in Threads, Entrer(t)
  PROVE  CounterIsExact' /\ Bounded'
<1>1. t \notin Inside /\ Inside' = Inside \cup {t}
  BY DEF TypeOK, Entrer, Inside
<1>2. Cardinality(Inside \cup {t}) = Cardinality(Inside) + 1
  BY <1>1, InsideFinite, FS_AddElement
<1>3. CounterIsExact'
  BY <1>1, <1>2 DEF CounterIsExact, Entrer
<1>4. limite' = limite /\ limite[t] \in Nat /\ Cardinality(Inside) + 1 <= limite[t]
  BY LimitsPositive, InsideFinite DEF TypeOK, Entrer, CounterIsExact
<1>5. ASSUME NEW S \in SUBSET (Inside \cup {t}), S # {}
      PROVE  \E u \in S : Cardinality(S) <= limite[u]
  <2>1. CASE t \in S
    <3>1. IsFiniteSet(Inside \cup {t})
      BY InsideFinite, FS_AddElement
    <3>2. Cardinality(S) <= Cardinality(Inside) + 1 /\ Cardinality(S) \in Nat
      BY <1>2, <3>1, FS_Subset, FS_CardinalityType
    <3> QED BY <1>4, <2>1, <3>2, InsideFinite
  <2>2. CASE t \notin S
    BY <1>5, <2>2 DEF Bounded
  <2> QED BY <2>1, <2>2
<1> QED BY <1>1, <1>3, <1>4, <1>5 DEF Bounded

\* _sortir: the place given back is one that was held, so the clamp at zero
\* does not act, and every remaining group was already bounded.
LEMMA LeaveStep ==
  ASSUME TypeOK, CounterIsExact, Bounded, NEW t \in Threads, Sortir(t)
  PROVE  CounterIsExact' /\ Bounded'
<1>1. t \in Inside /\ Inside' = Inside \ {t}
  BY DEF TypeOK, Sortir, Notify, Inside, Sleepers
<1>2. Cardinality(Inside \ {t}) = Cardinality(Inside) - 1 /\ Cardinality(Inside \ {t}) \in Nat
  BY <1>1, InsideFinite, FS_RemoveElement, FS_CardinalityType
<1>3. CounterIsExact'
  BY <1>1, <1>2, InsideFinite DEF CounterIsExact, Sortir
<1>4. Bounded'
  BY <1>1 DEF Bounded, Sortir
<1> QED BY <1>3, <1>4

\* The inductive invariant: the counter and the bound need each other, since
\* an entrant compares its limit with the counter.
IInv == TypeOK /\ CounterIsExact /\ Bounded

\* An idle gate satisfies the invariant.
LEMMA InitIInv == ASSUME Init PROVE IInv
<1>1. TypeOK
  BY DEF Init, TypeOK
<1>2. Inside = {}
  BY DEF Init, Inside
<1>3. CounterIsExact
  BY <1>2, FS_EmptySet DEF Init, CounterIsExact
<1>4. Bounded
  BY <1>2 DEF Bounded
<1> QED BY <1>1, <1>3, <1>4 DEF IInv

\* Every step of _entrer, _sortir and the waits preserves the invariant.
LEMMA StepIInv == ASSUME IInv, [Next]_vars PROVE IInv'
<1> USE DEF IInv
<1>1. TypeOK'
  BY TypeStep
<1>2. CounterIsExact' /\ Bounded'
  <2>1. CASE UNCHANGED vars
    BY <2>1, SameInside DEF vars, Inside
  <2>2. ASSUME NEW t \in Threads, Demander(t) PROVE CounterIsExact' /\ Bounded'
    BY <2>2, SameInside DEF TypeOK, Demander, Inside
  <2>3. ASSUME NEW t \in Threads, Entrer(t) PROVE CounterIsExact' /\ Bounded'
    BY <2>3, EnterStep
  <2>4. ASSUME NEW t \in Threads, Attendre(t) PROVE CounterIsExact' /\ Bounded'
    BY <2>4, SameInside DEF TypeOK, Attendre, Inside
  <2>5. ASSUME NEW t \in Threads, Renoncer(t) PROVE CounterIsExact' /\ Bounded'
    BY <2>5, SameInside DEF TypeOK, Renoncer, Inside
  <2>6. ASSUME NEW t \in Threads, Reveil(t) PROVE CounterIsExact' /\ Bounded'
    BY <2>6, SameInside DEF TypeOK, Reveil, Inside
  <2>7. ASSUME NEW t \in Threads, Echeance(t) PROVE CounterIsExact' /\ Bounded'
    BY <2>7, SameInside DEF TypeOK, Echeance, Inside
  <2>8. ASSUME NEW t \in Threads, Sortir(t) PROVE CounterIsExact' /\ Bounded'
    BY <2>8, LeaveStep
  <2> QED BY <2>1, <2>2, <2>3, <2>4, <2>5, <2>6, <2>7, <2>8 DEF Next
<1> QED BY <1>1, <1>2

\* The gate keeps an exact count of the threads it let in (Portillon._entrer
\* and _sortir), for every set of threads and every capacity.
THEOREM GateCounterExact == Spec => []CounterIsExact
<1>1. IInv => CounterIsExact
  BY DEF IInv
<1> QED BY <1>1, InitIInv, StepIInv, PTL DEF Spec

\* R-4 closed for every machine: no group of nodes running at the same time
\* is larger than the largest limit one of them was admitted under.
THEOREM GateBounded == Spec => []Bounded
<1>1. IInv => Bounded
  BY DEF IInv
<1> QED BY <1>1, InitIInv, StepIInv, PTL DEF Spec

\* The state of the gate keeps its type.
THEOREM GateTypeCorrect == Spec => []TypeOK
<1>1. IInv => TypeOK
  BY DEF IInv
<1> QED BY <1>1, InitIInv, StepIInv, PTL DEF Spec

-----------------------------------------------------------------------------
(* Sums over finite sets                                                   *)

\* Every nonempty set of numbers has a least member.
LEMMA LeastExists ==
  ASSUME NEW T \in SUBSET Nat, T # {}
  PROVE  \E x \in T : \A y \in T : x <= y
<1>1. IsWellFoundedOn(OpToRel(<, Nat), Nat)
  BY NatLessThanWellFounded
<1>2. PICK x \in T : \A y \in T : ~ (<<y, x>> \in OpToRel(<, Nat))
  BY <1>1, WFMin
<1>3. \A y \in T : ~ (y < x)
  BY <1>2 DEF OpToRel
<1> QED
  BY <1>3

\* Induction, for a property given as the set of numbers that have it.
LEMMA InductionSet ==
  ASSUME NEW S \in SUBSET Nat, 0 \in S, \A k \in S : k + 1 \in S
  PROVE  S = Nat
<1> SUFFICES ASSUME Nat \ S # {} PROVE FALSE
  OBVIOUS
<1>1. PICK x \in Nat \ S : \A y \in Nat \ S : x <= y
  BY LeastExists
<1>2. x - 1 \in Nat /\ ~ (x <= x - 1)
  BY <1>1
<1>3. x - 1 \in S
  BY <1>1, <1>2
<1>4. (x - 1) + 1 = x
  BY <1>1
<1> QED
  BY <1>1, <1>3, <1>4

\* Induction over the subsets of a finite set, one element at a time.
LEMMA SubsetInduction ==
  ASSUME NEW U, IsFiniteSet(U), NEW P \in SUBSET (SUBSET U), {} \in P,
         \A S \in P : \A x \in U : S \cup {x} \in P
  PROVE  P = SUBSET U
<1> DEFINE N == {k \in Nat : \A S \in SUBSET U : Cardinality(S) = k => S \in P}
<1>0. \A S \in SUBSET U : IsFiniteSet(S) /\ Cardinality(S) \in Nat
  BY FS_Subset, FS_CardinalityType
<1>1. 0 \in N
  BY <1>0, FS_EmptySet
<1>2. ASSUME NEW k \in N PROVE k + 1 \in N
  <2> SUFFICES ASSUME NEW S \in SUBSET U, Cardinality(S) = k + 1 PROVE S \in P
    OBVIOUS
  <2>1. PICK x \in S : TRUE
    BY <1>0, FS_EmptySet
  <2>2. Cardinality(S \ {x}) = k
    BY <1>0, <2>1, FS_RemoveElement
  <2>3. S \ {x} \in P
    BY <2>2
  <2>4. (S \ {x}) \cup {x} = S /\ x \in U
    BY <2>1
  <2> QED
    BY <2>3, <2>4
<1>3. N = Nat
  <2> HIDE DEF N
  <2> QED BY <1>1, <1>2, InductionSet DEF N
<1> QED
  BY <1>0, <1>3

\* The element a fold takes next.
Pick(s) == CHOOSE x \in s : TRUE

\* The recursion of SumFunctionOnSet, over a family of sets.
SumRun(f, D, F) ==
  F = [s \in D |-> IF s = {} THEN 0 ELSE f[Pick(s)] + F[s \ {Pick(s)}]]

UpTo(U, n) == {s \in SUBSET U : Cardinality(s) <= n}

\* It has a solution over the subsets of a finite set.
LEMMA SumRunExists ==
  ASSUME NEW f, NEW U, IsFiniteSet(U)
  PROVE  \E F : SumRun(f, SUBSET U, F)
<1> DEFINE N == {n \in Nat : \E F : SumRun(f, UpTo(U, n), F)}
<1>0. \A s \in SUBSET U : IsFiniteSet(s) /\ Cardinality(s) \in Nat
  BY FS_Subset, FS_CardinalityType
<1>a. \A s \in SUBSET U : Cardinality(s) = 0 <=> s = {}
  BY <1>0, FS_EmptySet
<1>b. ASSUME NEW s \in SUBSET U, s # {}
      PROVE  Pick(s) \in s /\ s \ {Pick(s)} \in SUBSET U /\ Cardinality(s \ {Pick(s)}) = Cardinality(s) - 1
  <2>1. Pick(s) \in s
    BY <1>b DEF Pick
  <2> QED
    BY <1>0, <2>1, FS_RemoveElement
<1>1. 0 \in N
  <2> DEFINE F == [s \in UpTo(U, 0) |-> 0]
  <2>1. \A s \in UpTo(U, 0) : s = {}
    BY <1>0, <1>a DEF UpTo
  <2>2. SumRun(f, UpTo(U, 0), F)
    BY <2>1 DEF SumRun
  <2> QED
    BY <2>2
<1>2. ASSUME NEW n \in N PROVE n + 1 \in N
  <2>1. PICK F : SumRun(f, UpTo(U, n), F)
    OBVIOUS
  <2> DEFINE value(G, s) == IF s = {} THEN 0 ELSE f[Pick(s)] + G[s \ {Pick(s)}]
             H == [s \in UpTo(U, n + 1) |-> IF Cardinality(s) <= n THEN F[s] ELSE value(F, s)]
  <2>2. UpTo(U, n) \subseteq UpTo(U, n + 1) /\ \A s \in UpTo(U, n) : H[s] = F[s]
    BY <1>0 DEF UpTo
  <2>3. \A s \in UpTo(U, n) : F[s] = value(F, s)
    BY <2>1 DEF SumRun
  <2>4. \A s \in UpTo(U, n + 1) : s # {} => s \ {Pick(s)} \in UpTo(U, n)
    BY <1>0, <1>b DEF UpTo
  <2>5. \A s \in UpTo(U, n + 1) : value(H, s) = value(F, s)
    BY <2>2, <2>4
  <2>6. ASSUME NEW s \in UpTo(U, n + 1) PROVE H[s] = value(H, s)
    <3>1. CASE Cardinality(s) <= n
      <4>1. s \in UpTo(U, n)
        BY <3>1 DEF UpTo
      <4> HIDE DEF value, H
      <4> QED
        BY <2>2, <2>3, <2>5, <4>1
    <3>2. CASE ~ (Cardinality(s) <= n)
      <4>1. H[s] = value(F, s)
        BY <3>2
      <4> HIDE DEF value, H
      <4> QED
        BY <2>5, <4>1
    <3> QED
      BY <3>1, <3>2
  <2>7. H = [s \in UpTo(U, n + 1) |-> H[s]]
    OBVIOUS
  <2>8. SumRun(f, UpTo(U, n + 1), H)
    <3> HIDE DEF H
    <3> QED
      BY <2>6, <2>7 DEF SumRun
  <2> QED
    BY <2>8
<1>3. N = Nat
  <2> HIDE DEF N
  <2> QED BY <1>1, <1>2, InductionSet DEF N
<1>4. UpTo(U, Cardinality(U)) = SUBSET U /\ Cardinality(U) \in Nat
  <2> HIDE DEF N
  <2>1. \A s \in SUBSET U : Cardinality(s) <= Cardinality(U)
    BY FS_Subset
  <2>2. Cardinality(U) \in Nat
    BY FS_CardinalityType
  <2> QED
    BY <2>1, <2>2 DEF UpTo
<1>5. Cardinality(U) \in N
  <2> HIDE DEF N
  <2> QED BY <1>3, <1>4
<1>6. \E F : SumRun(f, UpTo(U, Cardinality(U)), F)
  BY <1>5
<1> QED
  BY <1>4, <1>6

\* The sum is the value of such a solution.
LEMMA SumIsRun ==
  ASSUME NEW f, NEW S, IsFiniteSet(S)
  PROVE  \E F : SumRun(f, SUBSET S, F) /\ SumFunctionOnSet(f, S) = F[S]
<1>1. \E F : SumRun(f, SUBSET S, F)
  BY SumRunExists
<1> DEFINE F == CHOOSE F : SumRun(f, SUBSET S, F)
<1>2. SumRun(f, SUBSET S, F)
  BY <1>1
<1>3. SumFunctionOnSet(f, S) = F[S]
  BY DEF SumFunctionOnSet, FoldFunctionOnSet, MapThenFoldSet, SumRun, Pick
<1> QED
  BY <1>2, <1>3

\* A set of n + 1 elements without one of them.
LEMMA OneLess ==
  ASSUME NEW T, IsFiniteSet(T), NEW n \in Nat, Cardinality(T) = n + 1
  PROVE  T # {} /\ Pick(T) \in T /\ \A x \in T : Cardinality(T \ {x}) = n
<1>1. T # {}
  BY FS_EmptySet
<1>2. Pick(T) \in T
  BY <1>1 DEF Pick
<1>3. \A x \in T : Cardinality(T \ {x}) = Cardinality(T) - 1
  BY FS_RemoveElement
<1> QED
  BY <1>1, <1>2, <1>3

\* Two solutions agree where both are defined.
LEMMA SumRunsAgree ==
  ASSUME NEW f, NEW S, IsFiniteSet(S), NEW T, NEW F, NEW G,
         SumRun(f, SUBSET S, F), SumRun(f, SUBSET T, G),
         NEW s \in SUBSET S, s \in SUBSET T
  PROVE  F[s] = G[s]
<1> DEFINE N == {n \in Nat : \A r \in SUBSET S : r \in SUBSET T /\ Cardinality(r) = n => F[r] = G[r]}
<1>0. \A r \in SUBSET S : IsFiniteSet(r) /\ Cardinality(r) \in Nat
  BY FS_Subset, FS_CardinalityType
<1>1. 0 \in N
  <2>1. \A r \in SUBSET S : Cardinality(r) = 0 => r = {}
    BY <1>0, FS_EmptySet
  <2>2. F[{}] = 0 /\ G[{}] = 0
    BY DEF SumRun
  <2> QED
    BY <2>1, <2>2
<1>2. ASSUME NEW n \in N PROVE n + 1 \in N
  <2> SUFFICES ASSUME NEW r \in SUBSET S, r \in SUBSET T, Cardinality(r) = n + 1 PROVE F[r] = G[r]
    OBVIOUS
  <2>1. r # {} /\ Pick(r) \in r
    BY <1>0, OneLess
  <2>3. Cardinality(r \ {Pick(r)}) = n
    BY <1>0, <2>1, OneLess
  <2>4. F[r \ {Pick(r)}] = G[r \ {Pick(r)}]
    BY <2>3
  <2> HIDE DEF N
  <2>5. /\ F[r] = f[Pick(r)] + F[r \ {Pick(r)}]
        /\ G[r] = f[Pick(r)] + G[r \ {Pick(r)}]
    BY <2>1 DEF SumRun
  <2> QED
    BY <2>4, <2>5
<1>3. N = Nat
  <2> HIDE DEF N
  <2> QED BY <1>1, <1>2, InductionSet DEF N
<1> QED
  BY <1>0, <1>3

\* A sum takes its picked element and then the rest.
LEMMA SumUnfold ==
  ASSUME NEW f, NEW S, IsFiniteSet(S)
  PROVE  SumFunctionOnSet(f, S) =
           IF S = {} THEN 0 ELSE f[Pick(S)] + SumFunctionOnSet(f, S \ {Pick(S)})
<1>1. PICK F : SumRun(f, SUBSET S, F) /\ SumFunctionOnSet(f, S) = F[S]
  BY SumIsRun
<1>2. F[S] = IF S = {} THEN 0 ELSE f[Pick(S)] + F[S \ {Pick(S)}]
  BY <1>1 DEF SumRun
<1> DEFINE R == S \ {Pick(S)}
<1>3. IsFiniteSet(R) /\ R \in SUBSET S
  BY FS_Subset
<1> HIDE DEF R
<1>4. PICK G : SumRun(f, SUBSET R, G) /\ SumFunctionOnSet(f, R) = G[R]
  BY <1>3, SumIsRun
<1>5. F[R] = G[R]
  BY <1>1, <1>3, <1>4, SumRunsAgree
<1> QED
  BY <1>1, <1>2, <1>4, <1>5 DEF R

\* A sum of numbers is a number.
LEMMA SumType ==
  ASSUME NEW U, NEW f \in [U -> Nat], NEW S \in SUBSET U, IsFiniteSet(S)
  PROVE  SumFunctionOnSet(f, S) \in Nat
<1> DEFINE Sum(T) == SumFunctionOnSet(f, T)
           N == {n \in Nat : \A T \in SUBSET S : Cardinality(T) = n => Sum(T) \in Nat}
<1>0. \A T \in SUBSET S : IsFiniteSet(T) /\ Cardinality(T) \in Nat
  BY FS_Subset, FS_CardinalityType
<1>a. \A T \in SUBSET S : Sum(T) = IF T = {} THEN 0 ELSE f[Pick(T)] + Sum(T \ {Pick(T)})
  BY <1>0, SumUnfold
<1> HIDE DEF Sum
<1>1. 0 \in N
  <2>1. \A T \in SUBSET S : Cardinality(T) = 0 => T = {}
    BY <1>0, FS_EmptySet
  <2>2. Sum({}) = 0
    BY <1>a
  <2> QED
    BY <2>1, <2>2
<1>2. ASSUME NEW n \in N PROVE n + 1 \in N
  <2> SUFFICES ASSUME NEW T \in SUBSET S, Cardinality(T) = n + 1 PROVE Sum(T) \in Nat
    OBVIOUS
  <2>1. T # {}
    BY <1>0, OneLess
  <2>2. Pick(T) \in T
    BY <1>0, OneLess
  <2>3. Cardinality(T \ {Pick(T)}) = n
    BY <1>0, <2>2, OneLess
  <2>4. Sum(T \ {Pick(T)}) \in Nat /\ f[Pick(T)] \in Nat
    BY <2>2, <2>3
  <2> QED
    BY <1>a, <2>1, <2>4
<1>3. N = Nat
  <2> HIDE DEF N
  <2> QED BY <1>1, <1>2, InductionSet DEF N
<1> QED
  BY <1>0, <1>3 DEF Sum

\* Any element may be taken first.
LEMMA SumRemove ==
  ASSUME NEW U, NEW f \in [U -> Nat], NEW S \in SUBSET U, IsFiniteSet(S), NEW e \in S
  PROVE  SumFunctionOnSet(f, S) = f[e] + SumFunctionOnSet(f, S \ {e})
<1> DEFINE Sum(T) == SumFunctionOnSet(f, T)
           N == {n \in Nat : \A T \in SUBSET S : Cardinality(T) = n =>
                   \A x \in T : Sum(T) = f[x] + Sum(T \ {x})}
<1>0. \A T \in SUBSET S : IsFiniteSet(T) /\ Cardinality(T) \in Nat
  BY FS_Subset, FS_CardinalityType
<1>a. \A T \in SUBSET S : Sum(T) = IF T = {} THEN 0 ELSE f[Pick(T)] + Sum(T \ {Pick(T)})
  BY <1>0, SumUnfold
<1>b. \A T \in SUBSET S : Sum(T) \in Nat
  BY <1>0, SumType
<1> HIDE DEF Sum
<1>1. 0 \in N
  <2>1. \A T \in SUBSET S : Cardinality(T) = 0 => T = {}
    BY <1>0, FS_EmptySet
  <2> QED
    BY <2>1
<1>2. ASSUME NEW n \in N PROVE n + 1 \in N
  <2>n. \A T \in SUBSET S : Cardinality(T) = n => \A x \in T : Sum(T) = f[x] + Sum(T \ {x})
    OBVIOUS
  <2> SUFFICES ASSUME NEW T \in SUBSET S, Cardinality(T) = n + 1, NEW x \in T
               PROVE  Sum(T) = f[x] + Sum(T \ {x})
    OBVIOUS
  <2> DEFINE c == Pick(T)
  <2>1. c \in T
    BY DEF Pick
  <2>2. Sum(T) = f[c] + Sum(T \ {c})
    BY <1>a
  <2>r. n \in Nat
    OBVIOUS
  <2> HIDE DEF N, c
  <2>3. CASE x = c
    BY <2>2, <2>3
  <2>4. CASE x # c
    <3>1. x \in T \ {c} /\ c \in T \ {x}
      BY <2>1, <2>4
    <3>2. /\ Cardinality(T \ {c}) = n /\ T \ {c} \in SUBSET S
          /\ Cardinality(T \ {x}) = n /\ T \ {x} \in SUBSET S
      BY <1>0, <2>r, <2>1, OneLess
    <3>3. Sum(T \ {c}) = f[x] + Sum((T \ {c}) \ {x})
      BY <2>n, <3>1, <3>2
    <3>4. Sum(T \ {x}) = f[c] + Sum((T \ {x}) \ {c})
      BY <2>n, <3>1, <3>2
    <3>5. PICK V \in SUBSET S : V = (T \ {c}) \ {x} /\ V = (T \ {x}) \ {c}
      OBVIOUS
    <3>6. f[x] \in Nat /\ f[c] \in Nat /\ Sum(V) \in Nat
      BY <1>b, <2>1
    <3>7. Sum(T) = f[c] + (f[x] + Sum(V)) /\ Sum(T \ {x}) = f[c] + Sum(V)
      BY <2>2, <3>3, <3>4, <3>5
    <3> QED
      BY <3>6, <3>7
  <2> QED
    BY <2>3, <2>4
<1>3. N = Nat
  <2> HIDE DEF N
  <2> QED BY <1>1, <1>2, InductionSet DEF N
<1>4. Sum(S) = f[e] + Sum(S \ {e})
  BY <1>0, <1>3
<1> QED
  BY <1>4 DEF Sum

\* One element more.
LEMMA SumAdd ==
  ASSUME NEW U, NEW f \in [U -> Nat], NEW S \in SUBSET U, IsFiniteSet(S), NEW e \in U
  PROVE  /\ SumFunctionOnSet(f, S) \in Nat /\ SumFunctionOnSet(f, S \cup {e}) \in Nat
         /\ f[e] \in Nat
         /\ SumFunctionOnSet(f, S \cup {e}) =
              IF e \in S THEN SumFunctionOnSet(f, S) ELSE SumFunctionOnSet(f, S) + f[e]
<1>1. IsFiniteSet(S \cup {e}) /\ S \cup {e} \in SUBSET U
  BY FS_AddElement
<1>2. /\ SumFunctionOnSet(f, S) \in Nat /\ SumFunctionOnSet(f, S \cup {e}) \in Nat
      /\ f[e] \in Nat
  BY <1>1, SumType
<1>3. CASE e \in S
  <2>1. S \cup {e} = S
    BY <1>3
  <2> QED
    BY <1>2, <1>3, <2>1
<1>4. CASE e \notin S
  <2> DEFINE T == S \cup {e}
  <2>1. T \ {e} = S /\ e \in T
    BY <1>4
  <2>2. SumFunctionOnSet(f, T) = f[e] + SumFunctionOnSet(f, T \ {e})
    BY <1>1, <2>1, SumRemove
  <2> QED
    BY <1>2, <1>4, <2>1, <2>2
<1> QED
  BY <1>3, <1>4

\* A union weighs at least as much as a part of it and at most as much as its
\* parts together.
LEMMA SumUnion ==
  ASSUME NEW U, IsFiniteSet(U), NEW f \in [U -> Nat], NEW S \in SUBSET U, NEW T \in SUBSET U
  PROVE  /\ SumFunctionOnSet(f, S) <= SumFunctionOnSet(f, S \cup T)
         /\ SumFunctionOnSet(f, S \cup T) <= SumFunctionOnSet(f, S) + SumFunctionOnSet(f, T)
<1> DEFINE Sum(V) == SumFunctionOnSet(f, V)
           P == {V \in SUBSET U : Sum(S) <= Sum(S \cup V) /\ Sum(S \cup V) <= Sum(S) + Sum(V)}
<1>0. ASSUME NEW V \in SUBSET U PROVE IsFiniteSet(V) /\ Sum(V) \in Nat
  <2>1. IsFiniteSet(V)
    BY FS_Subset
  <2> QED
    BY <2>1, SumType
<1>1. ASSUME NEW V \in SUBSET U, NEW x \in U
      PROVE  f[x] \in Nat /\ Sum(V \cup {x}) = IF x \in V THEN Sum(V) ELSE Sum(V) + f[x]
  <2>1. IsFiniteSet(V)
    BY <1>0
  <2> QED
    BY <2>1, SumAdd
<1>2. {} \in P
  <2>1. Sum({}) = 0
    BY <1>0, SumUnfold
  <2>2. S \cup {} = S
    OBVIOUS
  <2> HIDE DEF Sum
  <2> QED
    BY <1>0, <2>1, <2>2
<1> HIDE DEF Sum
<1>3. ASSUME NEW V \in P, NEW x \in U PROVE V \cup {x} \in P
  <2>1. V \in SUBSET U /\ S \cup V \in SUBSET U /\ S \cup (V \cup {x}) = (S \cup V) \cup {x}
    OBVIOUS
  <2>2. Sum(S) <= Sum(S \cup V) /\ Sum(S \cup V) <= Sum(S) + Sum(V)
    OBVIOUS
  <2>3. Sum(V \cup {x}) = IF x \in V THEN Sum(V) ELSE Sum(V) + f[x]
    BY <1>1, <2>1
  <2>4. Sum(S \cup (V \cup {x})) = IF x \in S \cup V THEN Sum(S \cup V) ELSE Sum(S \cup V) + f[x]
    BY <1>1, <2>1
  <2>5. /\ Sum(S) \in Nat /\ Sum(V) \in Nat /\ Sum(S \cup V) \in Nat /\ f[x] \in Nat
    BY <1>0, <1>1, <2>1
  <2>6. /\ Sum(S) <= Sum(S \cup (V \cup {x}))
        /\ Sum(S \cup (V \cup {x})) <= Sum(S) + Sum(V \cup {x})
    <3>1. CASE x \in V
      BY <2>2, <2>3, <2>4, <2>5, <3>1
    <3>2. CASE x \notin V /\ x \in S
      BY <2>2, <2>3, <2>4, <2>5, <3>2
    <3>3. CASE x \notin V /\ x \notin S
      BY <2>2, <2>3, <2>4, <2>5, <3>3
    <3> QED
      BY <3>1, <3>2, <3>3
  <2> QED
    BY <2>1, <2>6
<1>4. P = SUBSET U
  <2>1. P \in SUBSET (SUBSET U)
    OBVIOUS
  <2> HIDE DEF P
  <2> QED BY <1>2, <1>3, <2>1, SubsetInduction
<1> QED
  BY <1>4 DEF Sum

\* A part weighs no more than the whole.
LEMMA SumPart ==
  ASSUME NEW U, IsFiniteSet(U), NEW f \in [U -> Nat], NEW T \in SUBSET U, NEW S \in SUBSET T
  PROVE  SumFunctionOnSet(f, S) <= SumFunctionOnSet(f, T)
<1>1. S \cup T = T /\ S \in SUBSET U
  OBVIOUS
<1> QED
  BY <1>1, SumUnion

\* What is named by g, each counted once, weighs no more than each naming.
LEMMA SumImage ==
  ASSUME NEW U, IsFiniteSet(U), NEW f \in [U -> Nat], NEW A, IsFiniteSet(A),
         NEW g \in [A -> U], NEW h, h = [a \in A |-> f[g[a]]], NEW R \in SUBSET A
  PROVE  SumFunctionOnSet(f, {g[a] : a \in R}) <= SumFunctionOnSet(h, R)
<1> DEFINE Img(V) == {g[a] : a \in V}
           F(V) == SumFunctionOnSet(f, V)
           H(V) == SumFunctionOnSet(h, V)
           P == {V \in SUBSET A : F(Img(V)) <= H(V)}
<1>0. h \in [A -> Nat] /\ \A a \in A : h[a] = f[g[a]] /\ h[a] \in Nat
  OBVIOUS
<1>1. /\ \A V \in SUBSET A : IsFiniteSet(V) /\ H(V) \in Nat
      /\ \A V \in SUBSET U : IsFiniteSet(V) /\ F(V) \in Nat
  <2>1. /\ \A V \in SUBSET A : IsFiniteSet(V)
        /\ \A V \in SUBSET U : IsFiniteSet(V)
    BY FS_Subset
  <2>2. \A V \in SUBSET A : H(V) \in Nat
    BY <1>0, <2>1, SumType
  <2>3. \A V \in SUBSET U : F(V) \in Nat
    BY <2>1, SumType
  <2> QED
    BY <2>1, <2>2, <2>3
<1>2. ASSUME NEW V \in SUBSET U, NEW x \in U
      PROVE  F(V \cup {x}) = IF x \in V THEN F(V) ELSE F(V) + f[x]
  <2>1. IsFiniteSet(V)
    BY <1>1
  <2> QED
    BY <2>1, SumAdd
<1>3. ASSUME NEW V \in SUBSET A, NEW x \in A
      PROVE  H(V \cup {x}) = IF x \in V THEN H(V) ELSE H(V) + h[x]
  <2>1. IsFiniteSet(V)
    BY <1>1
  <2> QED
    BY <1>0, <2>1, SumAdd
<1>4. Img({}) = {} /\ F({}) = 0 /\ H({}) = 0
  BY <1>1, SumUnfold
<1>5. \A V \in SUBSET A : Img(V) \in SUBSET U
  OBVIOUS
<1>6. ASSUME NEW V \in SUBSET A, NEW x \in A
      PROVE  Img(V \cup {x}) = Img(V) \cup {g[x]} /\ (x \in V => g[x] \in Img(V))
  OBVIOUS
<1> HIDE DEF F, H, Img
<1>7. {} \in P
  BY <1>4
<1>8. ASSUME NEW V \in P, NEW x \in A PROVE V \cup {x} \in P
  <2>1. V \in SUBSET A /\ F(Img(V)) <= H(V) /\ g[x] \in U
    OBVIOUS
  <2>2. F(Img(V \cup {x})) = IF g[x] \in Img(V) THEN F(Img(V)) ELSE F(Img(V)) + f[g[x]]
    BY <1>2, <1>5, <1>6, <2>1
  <2>3. H(V \cup {x}) = IF x \in V THEN H(V) ELSE H(V) + f[g[x]]
    BY <1>0, <1>3, <2>1
  <2>4. F(Img(V)) \in Nat /\ H(V) \in Nat /\ f[g[x]] \in Nat
    BY <1>0, <1>1, <1>5, <2>1
  <2>5. F(Img(V \cup {x})) <= H(V \cup {x})
    BY <1>6, <2>1, <2>2, <2>3, <2>4
  <2> QED
    BY <2>1, <2>5
<1>9. P = SUBSET A
  <2>1. P \in SUBSET (SUBSET A)
    OBVIOUS
  <2> HIDE DEF P
  <2> QED BY <1>7, <1>8, <2>1, SubsetInduction
<1>10. F(Img(R)) <= H(R)
  BY <1>9
<1> QED
  BY <1>10 DEF F, H, Img

-----------------------------------------------------------------------------
(* The card                                                                *)

Configured == config \in Configurations

VramTyped ==
  /\ resident \in SUBSET Models
  /\ reserves \in SUBSET Tasks
  /\ etape \in [Tasks -> Labels]
  /\ modele \in [Tasks -> Models]
  /\ aveugle \in Aveuglements

\* A task with a reservation is past its admission, and keeps its model.
PastAdmission == \A t \in reserves : etape[t] \in {"lance", "infer", "fin"}

VramInv == VramTyped /\ PastAdmission /\ FitsUnlessBlind

\* The model of a task that has none is one of the models.
LEMMA AnyIsModel == AnyModel \in Models
BY SetsAssumption DEF AnyModel

\* What is promised are models.
LEMMA PromisedModels == ASSUME VramTyped PROVE Promis \in SUBSET Models
BY DEF VramTyped, Promis

\* Less on the card and less promised weighs no more.
LEMMA LighterFits ==
  ASSUME VramTyped, FitsUnlessBlind, aveugle' = "non" => aveugle = "non",
         resident' \cup Promis' \subseteq resident \cup Promis
  PROVE  FitsUnlessBlind'
<1> DEFINE T == resident \cup Promis
           S == resident' \cup Promis'
<1>1. T \in SUBSET Models /\ S \in SUBSET T
  BY PromisedModels DEF VramTyped
<1> SUFFICES ASSUME aveugle' = "non" PROVE Poids(S) <= Cap
  BY DEF FitsUnlessBlind, Poids
<1>2. Poids(T) <= Cap
  BY DEF FitsUnlessBlind
<1> HIDE DEF S, T
<1>3. S \in SUBSET Models
  BY <1>1
<1>4. IsFiniteSet(Models) /\ Size \in [Models -> Nat]
  BY SetsAssumption, SizeAssumption
<1>5. Poids(S) <= Poids(T)
  BY <1>1, <1>4, SumPart DEF Poids
<1>6. Poids(S) \in Nat /\ Poids(T) \in Nat
  <2>1. IsFiniteSet(S) /\ IsFiniteSet(T)
    BY <1>1, <1>3, <1>4, FS_Subset
  <2> QED BY <1>1, <1>3, <1>4, <2>1, SumType DEF Poids
<1> QED BY <1>2, <1>5, <1>6, SizeAssumption

\* A step of one task that neither loads nor reserves.
LEMMA VramMove ==
  ASSUME VramInv, NEW t \in Tasks, NEW l \in Labels, Aller(t, l),
         modele' \in [Tasks -> Models], \A u \in Tasks \ {t} : modele'[u] = modele[u],
         resident' \subseteq resident, reserves' \subseteq reserves, aveugle' = aveugle,
         t \in reserves' => l \in {"lance", "infer", "fin"} /\ modele'[t] = modele[t]
  PROVE  VramInv'
<1>1. VramTyped'
  BY DEF VramInv, VramTyped, Aller
<1>2. PastAdmission'
  BY DEF VramInv, VramTyped, PastAdmission, Aller
<1>3. Promis' \subseteq Promis
  BY DEF VramInv, VramTyped, Promis
<1>4. FitsUnlessBlind'
  BY <1>3, LighterFits DEF VramInv
<1> QED BY <1>1, <1>2, <1>4 DEF VramInv

\* Loading a model that is promised, or already there, adds nothing.
LEMMA VramLoad ==
  ASSUME VramInv, NEW m \in Models, resident' = resident \cup {m},
         Aveugler(IF m \in resident \cup Promis THEN "non" ELSE "autre"),
         reserves' = reserves, modele' = modele
  PROVE  FitsUnlessBlind' /\ aveugle' \in Aveuglements
<1>1. Promis' = Promis
  BY DEF Promis
<1>2. aveugle' \in Aveuglements
  BY DEF VramInv, VramTyped, Aveugler, Aveuglements
<1>3. CASE aveugle' # "non"
  BY <1>2, <1>3 DEF FitsUnlessBlind
<1>4. CASE aveugle' = "non"
  <2>1. m \in resident \cup Promis /\ aveugle = "non"
    BY <1>4 DEF Aveugler
  <2>2. resident' \cup Promis' \subseteq resident \cup Promis
    BY <1>1, <2>1
  <2>3. FitsUnlessBlind'
    BY <2>1, <2>2, LighterFits DEF VramInv
  <2> QED BY <1>2, <2>3
<1> QED BY <1>3, <1>4

\* What reserve_resources records of a grant.
Constat(v, k) ==
  IF k # "mesuree" THEN "sonde"
  ELSE IF resident \subseteq v \cup Promis THEN "non" ELSE "cache"

\* reserve_resources grants what fits beside the measure and the promises: what
\* is on the card was measured or is promised, and two promises of one model
\* are counted twice, never less than once.
LEMMA VramGrant ==
  ASSUME VramInv, NEW t \in Tasks, NEW v \in SUBSET Models, NEW k, CanAllocate(t, v, k),
         reserves' = reserves \cup {t}, modele' = modele, resident' = resident,
         Aveugler(Constat(v, k))
  PROVE  FitsUnlessBlind'
<1> SUFFICES ASSUME aveugle' = "non" PROVE Poids(resident' \cup Promis') <= Cap
  BY DEF FitsUnlessBlind, Poids
<1>1. resident \subseteq v \cup Promis /\ k = "mesuree"
  BY DEF Aveugler, Constat
<1>2. Promis' = Promis \cup {modele[t]}
  BY DEF Promis
<1>3. modele[t] \in Models /\ Promis \in SUBSET Models
  BY PromisedModels DEF VramInv, VramTyped
<1> DEFINE S == resident' \cup Promis'
           V == v \cup Promis
           T == V \cup {modele[t]}
           h == [u \in Tasks |-> Size[modele[u]]]
<1>4. /\ IsFiniteSet(Models) /\ IsFiniteSet(Tasks) /\ Size \in [Models -> Nat]
      /\ Cap \in Nat /\ Size[modele[t]] \in Nat
  BY <1>3, SetsAssumption, SizeAssumption
<1>5. T \in SUBSET Models /\ S \in SUBSET T /\ V \in SUBSET Models
  BY <1>1, <1>2, <1>3
<1>6. h \in [Tasks -> Nat]
  BY <1>4 DEF VramInv, VramTyped
<1>7. Poids(Promis) <= OctetsReserves
  BY <1>4, SumImage DEF Poids, OctetsReserves, Promis, VramInv, VramTyped
<1>8. OctetsReserves \in Nat
  <2>1. reserves \in SUBSET Tasks /\ IsFiniteSet(reserves)
    BY <1>4, FS_Subset DEF VramInv, VramTyped
  <2> HIDE DEF h
  <2>2. SumFunctionOnSet(h, reserves) \in Nat
    BY <1>6, <2>1, SumType
  <2> QED BY <2>2 DEF OctetsReserves, h
<1> HIDE DEF S, T, V, h
<1>9. S \in SUBSET Models
  BY <1>5
<1>10. /\ IsFiniteSet(S) /\ IsFiniteSet(T) /\ IsFiniteSet(V) /\ IsFiniteSet(v) /\ IsFiniteSet(Promis)
  BY <1>3, <1>4, <1>5, <1>9, FS_Subset
<1>11. /\ Poids(S) \in Nat /\ Poids(T) \in Nat /\ Poids(V) \in Nat /\ Poids(v) \in Nat
       /\ Poids(Promis) \in Nat
  BY <1>3, <1>4, <1>5, <1>9, <1>10, SumType DEF Poids
<1>12. Poids(S) <= Poids(T)
  BY <1>4, <1>5, SumPart DEF Poids
<1>13. Poids(T) <= Poids(V) + Size[modele[t]]
  <2>1. Poids(T) = IF modele[t] \in V THEN Poids(V) ELSE Poids(V) + Size[modele[t]]
    BY <1>3, <1>4, <1>5, <1>10, SumAdd DEF Poids, T
  <2> QED BY <1>4, <1>11, <2>1
<1>14. Poids(V) <= Poids(v) + Poids(Promis)
  BY <1>3, <1>4, SumUnion DEF Poids, V
<1>15. Poids(v) + OctetsReserves + Size[modele[t]] <= Cap
  BY <1>1 DEF CanAllocate
<1>16. Poids(S) <= Cap
  BY <1>4, <1>7, <1>8, <1>11, <1>12, <1>13, <1>14, <1>15
<1> QED BY <1>16 DEF S

\* Every step keeps the card within its capacity, and reservations past their
\* admission.
LEMMA VramStep ==
  ASSUME VramInv, Configured, [VramNext]_vramVars
  PROVE  VramInv' /\ Configured'
<1>t. /\ resident \in SUBSET Models /\ reserves \in SUBSET Tasks
      /\ etape \in [Tasks -> Labels] /\ modele \in [Tasks -> Models] /\ aveugle \in Aveuglements
  BY DEF VramInv, VramTyped
<1>r. \A t \in reserves : etape[t] \in {"lance", "infer", "fin"}
  BY DEF VramInv, PastAdmission
<1>l. \A l \in {"idle", "nuage", "admet", "evince", "reserve", "lance", "infer", "fin"} : l \in Labels
  BY DEF Labels
<1>1. ASSUME NEW t \in Tasks, Execute(t) PROVE VramInv'
  <2>1. PICK l \in {"admet", "nuage"} :
          Aller(t, l) /\ (Resoudre(t) \/ UNCHANGED modele)
    BY <1>1 DEF Execute
  <2>3. modele' \in [Tasks -> Models] /\ \A u \in Tasks \ {t} : modele'[u] = modele[u]
    BY <1>t, <2>1 DEF Resoudre
  <2>2. UNCHANGED <<resident, reserves, aveugle>> /\ t \notin reserves
    BY <1>1, <1>r DEF Execute, carte
  <2> QED BY <1>l, <2>1, <2>2, <2>3, VramMove
<1>14. ASSUME NEW t \in Tasks, Cloud(t) PROVE VramInv'
  <2>1. PICK l \in {"admet", "fin"} :
          Aller(t, l) /\ (Resoudre(t) \/ UNCHANGED modele)
    BY <1>14 DEF Cloud
  <2>2. modele' \in [Tasks -> Models] /\ \A u \in Tasks \ {t} : modele'[u] = modele[u]
    BY <1>t, <2>1 DEF Resoudre
  <2>3. UNCHANGED <<resident, reserves, aveugle>> /\ t \notin reserves
    BY <1>14, <1>r DEF Cloud, carte
  <2> QED BY <1>l, <2>1, <2>2, <2>3, VramMove
<1>2. ASSUME NEW t \in Tasks, TailleInconnue(t) \/ Admis(t) \/ Refuse(t) \/ AssezAttendu(t)
      PROVE  VramInv'
  <2>1. PICK l \in {"admet", "reserve", "lance", "evince", "fin"} : Aller(t, l)
    BY <1>2 DEF TailleInconnue, Admis, Refuse, AssezAttendu, Quitter
  <2>2. UNCHANGED <<resident, reserves, modele, aveugle>> /\ t \notin reserves
    BY <1>2, <1>r DEF TailleInconnue, Admis, Refuse, AssezAttendu, Quitter, carte
  <2> QED BY <1>t, <1>l, <2>1, <2>2, VramMove
<1>3. ASSUME NEW t \in Tasks, EvinceLePlusGros(t) PROVE VramInv'
  <2>1. Aller(t, "admet") /\ resident' \subseteq resident
    BY <1>3 DEF EvinceLePlusGros
  <2>2. UNCHANGED <<reserves, modele, aveugle>> /\ t \notin reserves
    BY <1>3, <1>r DEF EvinceLePlusGros
  <2> QED BY <1>t, <1>l, <2>1, <2>2, VramMove
<1>4. ASSUME NEW t \in Tasks, Reserve(t) PROVE VramInv'
  <2>1. PICK v \in SUBSET Models, k \in Releves :
          IF CanAllocate(t, v, k)
            THEN /\ reserves' = reserves \cup {t}
                 /\ Aveugler(Constat(v, k))
                 /\ Aller(t, "lance")
            ELSE /\ Aller(t, "fin")
                 /\ UNCHANGED <<reserves, aveugle>>
    BY <1>4 DEF Reserve, Constat
  <2>2. UNCHANGED <<resident, modele>> /\ t \notin reserves
    BY <1>4, <1>r DEF Reserve, carte
  <2>3. CASE CanAllocate(t, v, k)
    <3>1. /\ reserves' = reserves \cup {t} /\ Aller(t, "lance")
          /\ Aveugler(Constat(v, k))
      BY <2>1, <2>3
    <3>2. FitsUnlessBlind'
      BY <2>2, <2>3, <3>1, VramGrant
    <3>3. VramTyped'
      <4>1. aveugle' \in Aveuglements
        BY <1>t, <3>1 DEF Aveugler, Constat, Aveuglements
      <4> QED BY <1>t, <1>l, <2>2, <3>1, <4>1 DEF VramTyped, Aller
    <3>4. PastAdmission'
      BY <1>t, <1>r, <3>1 DEF PastAdmission, Aller
    <3> QED BY <3>2, <3>3, <3>4 DEF VramInv
  <2>4. CASE ~ CanAllocate(t, v, k)
    <3>1. Aller(t, "fin") /\ UNCHANGED <<reserves, aveugle>>
      BY <2>1, <2>4
    <3> QED BY <1>t, <1>l, <2>2, <3>1, VramMove
  <2> QED BY <2>3, <2>4
<1>5. ASSUME NEW t \in Tasks, Charge(t) PROVE VramInv'
  <2>1. PICK m \in {modele[t]} \cup (IF nuage[t] THEN {} ELSE config.secours) :
          /\ resident' = resident \cup {m}
          /\ Aveugler(IF m \in resident \cup Promis THEN "non" ELSE "autre")
    BY <1>5 DEF Charge
  <2>2. UNCHANGED <<reserves, modele>> /\ Aller(t, "infer") /\ m \in Models
    BY <1>5, <1>t, ConfigurationsAssumption DEF Charge, Configured
  <2>3. FitsUnlessBlind' /\ aveugle' \in Aveuglements
    BY <2>1, <2>2, VramLoad
  <2>4. VramTyped'
    BY <1>t, <1>l, <2>1, <2>2, <2>3 DEF VramTyped, Aller
  <2>5. PastAdmission'
    BY <1>t, <1>r, <2>2 DEF PastAdmission, Aller
  <2> QED BY <2>3, <2>4, <2>5 DEF VramInv
<1>6. ASSUME NEW t \in Tasks, Issue(t) PROVE VramInv'
  <2>1. Aller(t, "fin") /\ UNCHANGED <<resident, reserves, modele, aveugle>>
    BY <1>6 DEF Issue
  <2> QED BY <1>t, <1>l, <2>1, VramMove
<1>7. ASSUME NEW t \in Tasks, Liberer(t) PROVE VramInv'
  <2>1. /\ Aller(t, "idle") /\ reserves' = reserves \ {t}
        /\ modele' = [modele EXCEPT ![t] = AnyModel] /\ UNCHANGED <<resident, aveugle>>
    BY <1>7 DEF Liberer, carte
  <2> QED BY <1>t, <1>l, <2>1, AnyIsModel, VramMove
<1>8. ASSUME UNCHANGED <<reserves, etape, modele, aveugle>>, resident' \subseteq resident
      PROVE  VramInv'
  <2>1. Promis' = Promis
    BY <1>8 DEF Promis
  <2>2. FitsUnlessBlind'
    BY <1>8, <2>1, LighterFits DEF VramInv
  <2> QED BY <1>8, <2>2 DEF VramInv, VramTyped, PastAdmission
<1>9. ASSUME NEW t \in Tasks, Attend(t) PROVE VramInv'
  BY <1>8, <1>9 DEF Attend, carte
<1>10. ASSUME NEW m \in Models, ChargeTardive(m) PROVE VramInv'
  <2>1. /\ resident' = resident \cup {m}
        /\ Aveugler(IF m \in resident \cup Promis THEN "non" ELSE "autre")
        /\ UNCHANGED <<reserves, etape, modele>>
    BY <1>10 DEF ChargeTardive, locals
  <2>2. FitsUnlessBlind' /\ aveugle' \in Aveuglements
    BY <2>1, VramLoad
  <2>3. VramTyped' /\ PastAdmission'
    BY <1>t, <1>r, <2>1, <2>2 DEF VramTyped, PastAdmission
  <2> QED BY <2>2, <2>3 DEF VramInv
<1>11. ASSUME NEW m \in Models, KeepAlive(m) PROVE VramInv'
  BY <1>8, <1>11 DEF KeepAlive, locals
<1>12. ASSUME MesureVieillit PROVE VramInv'
  BY <1>8, <1>12 DEF MesureVieillit, locals, carte
<1>13. ASSUME UNCHANGED vramVars PROVE VramInv'
  BY <1>8, <1>13 DEF vramVars, locals, carte
<1>15. Configured'
  BY DEF Configured, VramNext, vramVars
<1> QED
  BY <1>1, <1>2, <1>3, <1>4, <1>5, <1>6, <1>7, <1>9, <1>10, <1>11, <1>12, <1>13, <1>14, <1>15
  DEF VramNext, Step

\* What is on the card and what is promised fits on every card, for any models,
\* known or not to vram_gb_for, any number of tasks and any answers of the
\* probes, until a grant was made without a true reading or a model was loaded
\* that nobody reserved (reserve_resources, _octets_reserves, release).
THEOREM CardFitsUnlessBlind == VramSpec => []FitsUnlessBlind
<1>1. VramInit => VramInv /\ Configured
  <2> SUFFICES ASSUME VramInit PROVE VramInv
    BY DEF VramInit, Configured
  <2>1. VramTyped /\ PastAdmission
    BY AnyIsModel DEF VramInit, VramTyped, PastAdmission, Labels, Aveuglements
  <2>2. Poids({}) = 0
    BY SumUnfold, FS_EmptySet DEF Poids
  <2>3. resident \cup Promis = {}
    BY DEF VramInit, Promis
  <2>4. FitsUnlessBlind
    BY <2>2, <2>3, SizeAssumption DEF FitsUnlessBlind
  <2> QED BY <2>1, <2>4 DEF VramInv
<1>2. VramInv => FitsUnlessBlind
  BY DEF VramInv
<1> QED BY <1>1, <1>2, VramStep, PTL DEF VramSpec
=============================================================================
