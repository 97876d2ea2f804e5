--------------------------- MODULE Mission_proofs ---------------------------
(***************************************************************************)
(* Proofs about the mission: the algorithms of MissionGraphOps for every   *)
(* finite graph, the construction of a graph (MissionGraph) and the walks  *)
(* (MissionWalks), for any graph, any number of requests and any limits.   *)
(* Of the walks, the bound on attempts holds for every mix of requests and *)
(* threads; the other results are about a mission driven by requests       *)
(* alone, where the event loop keeps all walks but one between two steps.  *)
(*                                                                         *)
(* The algorithms are recursive functions.  What they compute is proved    *)
(* from a run of the recursion that is shown to exist, by induction on     *)
(* the set of the numbers of turns after which the loop's invariant holds. *)
(***************************************************************************)
EXTENDS MissionGraph, MissionWalks, FiniteSetTheorems, WellFoundedInduction, TLAPS

-----------------------------------------------------------------------------
(* Kahn's algorithm: _detect_cycles and topological_sort                   *)

\* Every nonempty set of numbers has a least member.
LEMMA LeastExists ==
  ASSUME NEW T \in SUBSET Nat, T # {}
  PROVE  \E x \in T : \A y \in T : x <= y
<1>1. IsWellFoundedOn(OpToRel(<, Nat), Nat)
  BY NatLessThanWellFounded
<1>2. PICK x \in T : \A y \in T : ~ (<<y, x>> \in OpToRel(<, Nat))
  BY <1>1, WFMin
<1>3. \A y \in T : ~ (y < x)
  BY <1>2 DEF OpToRel
<1> QED
  BY <1>3

\* Induction, for a property given as the set of numbers that have it.
LEMMA InductionSet ==
  ASSUME NEW S \in SUBSET Nat, 0 \in S, \A k \in S : k + 1 \in S
  PROVE  S = Nat
<1> SUFFICES ASSUME Nat \ S # {} PROVE FALSE
  OBVIOUS
<1>1. PICK x \in Nat \ S : \A y \in Nat \ S : x <= y
  BY LeastExists
<1>2. x - 1 \in Nat /\ ~ (x <= x - 1)
  BY <1>1
<1>3. x - 1 \in S
  BY <1>1, <1>2
<1>4. (x - 1) + 1 = x
  BY <1>1
<1> QED
  BY <1>1, <1>3, <1>4

\* The loop of _detect_cycles, for as many turns as one likes.
KahnRun(nodes, g, k, f) ==
  f = [i \in 0..k |-> IF i = 0 THEN KahnStart(nodes, g)
                      ELSE IF f[i-1].queue = << >> THEN f[i-1]
                      ELSE KahnTurn(g, f[i-1])]

\* The loop has a run of any length.
LEMMA KahnRunExists ==
  ASSUME NEW nodes, NEW g, NEW n \in Nat
  PROVE  \E f : KahnRun(nodes, g, n, f)
<1> DEFINE S == {k \in Nat : \E f : KahnRun(nodes, g, k, f)}
<1>1. 0 \in S
  <2> DEFINE f == [i \in 0..0 |-> KahnStart(nodes, g)]
  <2>1. KahnRun(nodes, g, 0, f)
    BY DEF KahnRun
  <2> QED
    BY <2>1
<1>2. ASSUME NEW k \in S PROVE k + 1 \in S
  <2>1. PICK f : KahnRun(nodes, g, k, f)
    OBVIOUS
  <2> DEFINE next(x) == IF x.queue = << >> THEN x ELSE KahnTurn(g, x)
  <2>2. f = [i \in 0..k |-> IF i = 0 THEN KahnStart(nodes, g) ELSE next(f[i-1])]
    BY <2>1 DEF KahnRun
  <2> DEFINE h == [i \in 0..(k+1) |-> IF i = k + 1 THEN next(f[k]) ELSE f[i]]
  <2>3. \A i \in 0..k : h[i] = f[i]
    OBVIOUS
  <2> HIDE DEF next
  <2>4. \A i \in 0..(k+1) : h[i] = IF i = 0 THEN KahnStart(nodes, g) ELSE next(h[i-1])
    <3> TAKE i \in 0..(k+1)
    <3>1. CASE i = k + 1
      <4>1. h[i] = next(f[k]) /\ i - 1 = k /\ i # 0 /\ h[k] = f[k]
        BY <2>3, <3>1
      <4> QED
        BY <4>1
    <3>2. CASE i = 0
      BY <2>2, <2>3, <3>2
    <3>3. CASE i \in 1..k
      <4>1. i \in 0..k /\ i - 1 \in 0..k /\ i # 0
        BY <3>3
      <4>2. h[i] = f[i] /\ h[i-1] = f[i-1]
        BY <2>3, <4>1
      <4> QED
        BY <2>2, <4>1, <4>2
    <3> QED
      BY <3>1, <3>2, <3>3
  <2>5. h = [i \in 0..(k+1) |-> IF i = 0 THEN KahnStart(nodes, g) ELSE next(h[i-1])]
    BY <2>4
  <2>6. KahnRun(nodes, g, k + 1, h)
    BY <2>5 DEF KahnRun, next
  <2> QED
    BY <2>6
<1>3. S = Nat
  BY <1>1, <1>2, InductionSet
<1> QED
  BY <1>3

\* Kahn is the last state of such a run.
LEMMA KahnIsRun ==
  ASSUME NEW nodes, NEW g, IsFiniteSet(KahnIds(nodes, g))
  PROVE  \E f : /\ KahnRun(nodes, g, Cardinality(KahnIds(nodes, g)), f)
                /\ Kahn(nodes, g) = f[Cardinality(KahnIds(nodes, g))]
<1>1. PICK n \in Nat : n = Cardinality(KahnIds(nodes, g))
  BY FS_CardinalityType
<1>2. \E f : KahnRun(nodes, g, n, f)
  BY KahnRunExists
<1> DEFINE f == CHOOSE f : KahnRun(nodes, g, n, f)
<1>3. KahnRun(nodes, g, n, f)
  BY <1>2
<1>4. Kahn(nodes, g) = f[n]
  BY <1>1 DEF Kahn, KahnRun
<1> QED
  BY <1>1, <1>3, <1>4

-----------------------------------------------------------------------------

Elems(s) == {s[i] : i \in 1..Len(s)}
Distinct(s) == \A i, j \in 1..Len(s) : s[i] = s[j] => i = j

\* The edges to v whose source has not been visited.
Left(g, visited, v) == {j \in DOMAIN g : g[j][2] = v /\ g[j][1] \notin visited}

EdgesInto(ids, g) == \A j \in DOMAIN g : g[j][2] \in ids

\* Every source is listed before its target.
Sorted(g, s) ==
  \A p \in 1..Len(s) : Sources(g, s[p]) \subseteq {s[q] : q \in 1..(p-1)}

\* The state of the loop after i turns: the in-degree counts what is left,
\* and the identifiers at zero are those visited or queued, each once.
KahnInv(ids, g, i, k) ==
  /\ k.order \in Seq(ids) /\ Distinct(k.order)
  /\ k.queue \in Seq(ids) /\ Distinct(k.queue)
  /\ Elems(k.order) \cap Elems(k.queue) = {}
  /\ k.degree = [v \in ids |-> Cardinality(Left(g, Elems(k.order), v))]
  /\ {v \in ids : k.degree[v] = 0} = Elems(k.order) \cup Elems(k.queue)
  /\ Sorted(g, k.order)
  /\ k.queue = << >> \/ Len(k.order) = i

\* SetToSeq lists each member of a finite set once.
LEMMA ListOfSet ==
  ASSUME NEW ids, IsFiniteSet(ids), NEW S \in SUBSET ids
  PROVE  /\ SetToSeq(S) \in Seq(ids) /\ Distinct(SetToSeq(S)) /\ Elems(SetToSeq(S)) = S
<1>0. IsFiniteSet(S)
  BY FS_Subset
<1>1. PICK n \in Nat : n = Cardinality(S)
  BY <1>0, FS_CardinalityType
<1>2. \E f \in [1..n -> S] : IsInjective(f)
  BY <1>0, <1>1, FS_CardinalityType DEF ExistsBijection, Bijection, Injection
<1>3. SetToSeq(S) \in [1..n -> S] /\ IsInjective(SetToSeq(S))
  BY <1>1, <1>2 DEF SetToSeq
<1>4. SetToSeq(S) \in Seq(ids) /\ Len(SetToSeq(S)) = n
  BY <1>3
<1>5. SetToSeq(S) \in Surjection(1..n, S)
  <2>1. SetToSeq(S) \in Injection(1..n, S)
    BY <1>3 DEF Injection
  <2>2. Cardinality(1..n) = n
    BY FS_Interval
  <2> QED
    BY <1>0, <1>1, <2>1, <2>2, FS_Injection
<1> QED
  BY <1>3, <1>4, <1>5 DEF Distinct, Elems, IsInjective, Surjection

\* What is left to count is finite.
LEMMA LeftIsFinite ==
  ASSUME NEW all, NEW g \in Seq(all \X all), NEW W, NEW v
  PROVE  IsFiniteSet(Left(g, W, v)) /\ Cardinality(Left(g, W, v)) \in Nat
<1>1. DOMAIN g = 1..Len(g) /\ Len(g) \in Nat
  OBVIOUS
<1>2. IsFiniteSet(DOMAIN g)
  BY <1>1, FS_Interval
<1>3. Left(g, W, v) \in SUBSET DOMAIN g
  BY DEF Left
<1> QED
  BY <1>2, <1>3, FS_Subset, FS_CardinalityType

\* Visiting u takes its edges to v away, as many as are listed.
LEMMA LeftAfterVisit ==
  ASSUME NEW all, NEW g \in Seq(all \X all), NEW W, NEW u, u \notin W, NEW v
  PROVE  /\ Cardinality(Left(g, W \cup {u}, v)) = Cardinality(Left(g, W, v)) - Multiplicity(g, u, v)
         /\ Multiplicity(g, u, v) \in Nat
         /\ Multiplicity(g, u, v) = 0 <=> v \notin Targets(g, u)
<1> DEFINE M == {i \in DOMAIN g : g[i] = <<u, v>>}
<1>1. \A i \in DOMAIN g : g[i] \in all \X all
  OBVIOUS
<1>2. \A i \in DOMAIN g : g[i] = <<u, v>> <=> g[i][1] = u /\ g[i][2] = v
  BY <1>1
<1>3. M \subseteq Left(g, W, v) /\ Left(g, W \cup {u}, v) = Left(g, W, v) \ M
  BY <1>2 DEF Left
<1>4. IsFiniteSet(Left(g, W, v)) /\ IsFiniteSet(M)
  BY <1>3, LeftIsFinite, FS_Subset
<1>5. Cardinality(Left(g, W, v) \ M) = Cardinality(Left(g, W, v)) - Cardinality(Left(g, W, v) \cap M)
  BY <1>4, FS_Difference
<1>6. Left(g, W, v) \cap M = M
  BY <1>3
<1>7. Cardinality(M) = Multiplicity(g, u, v) /\ Cardinality(M) \in Nat
  BY <1>4, FS_CardinalityType DEF Multiplicity
<1>8. Cardinality(M) = 0 <=> M = {}
  BY <1>4, FS_EmptySet
<1>9. M = {} <=> v \notin Targets(g, u)
  BY <1>2 DEF Targets
<1> QED
  BY <1>3, <1>5, <1>6, <1>7, <1>8, <1>9

\* The loop's invariant holds before the first turn.
LEMMA KahnStartInv ==
  ASSUME NEW all, NEW g \in Seq(all \X all), NEW nodes, NEW ids, ids = KahnIds(nodes, g),
         IsFiniteSet(ids)
  PROVE  KahnInv(ids, g, 0, KahnStart(nodes, g))
<1> DEFINE degree == [v \in ids |-> Cardinality({i \in DOMAIN g : g[i][2] = v})]
           zero == {v \in ids : degree[v] = 0}
           k == KahnStart(nodes, g)
<1>2. k = [degree |-> degree, queue |-> SetToSeq(zero), order |-> << >>]
  BY DEF KahnStart
<1>3. k.degree = degree /\ k.queue = SetToSeq(zero) /\ k.order = << >>
  BY <1>2
<1>4. SetToSeq(zero) \in Seq(ids) /\ Distinct(SetToSeq(zero)) /\ Elems(SetToSeq(zero)) = zero
  BY ListOfSet
<1>6. Elems(<< >>) = {} /\ Distinct(<< >>) /\ << >> \in Seq(ids) /\ Len(<< >>) = 0
      /\ Sorted(g, << >>)
  BY DEF Elems, Distinct, Sorted
<1>7. degree = [v \in ids |-> Cardinality(Left(g, {}, v))]
  <2>1. \A v \in ids : Left(g, {}, v) = {i \in DOMAIN g : g[i][2] = v}
    BY DEF Left
  <2> QED
    BY <2>1
<1> HIDE DEF degree, zero, k
<1>8. zero = {v \in ids : degree[v] = 0}
  BY DEF zero
<1>9. KahnInv(ids, g, 0, k)
  BY <1>3, <1>4, <1>6, <1>7, <1>8 DEF KahnInv
<1> QED
  BY <1>9 DEF k

\* Two lists without a common element, one after the other.
LEMMA JoinLists ==
  ASSUME NEW ids, NEW a \in Seq(ids), NEW b \in Seq(ids), Distinct(a), Distinct(b),
         Elems(a) \cap Elems(b) = {}
  PROVE  /\ a \o b \in Seq(ids) /\ Distinct(a \o b) /\ Elems(a \o b) = Elems(a) \cup Elems(b)
<1> DEFINE c == a \o b
<1>1. /\ c \in Seq(ids) /\ Len(c) = Len(a) + Len(b) /\ Len(a) \in Nat /\ Len(b) \in Nat
      /\ \A i \in 1..Len(c) : c[i] = IF i <= Len(a) THEN a[i] ELSE b[i - Len(a)]
  OBVIOUS
<1> HIDE DEF c
<1>2. \A i \in 1..Len(c) : /\ i <= Len(a) => i \in 1..Len(a) /\ c[i] = a[i] /\ c[i] \in Elems(a)
                           /\ ~ (i <= Len(a)) => /\ i - Len(a) \in 1..Len(b) /\ c[i] = b[i - Len(a)]
                                                 /\ c[i] \in Elems(b)
  BY <1>1 DEF Elems
<1>3. Distinct(c)
  <2> SUFFICES ASSUME NEW i \in 1..Len(c), NEW j \in 1..Len(c), c[i] = c[j] PROVE i = j
    BY DEF Distinct
  <2>1. CASE i <= Len(a) /\ j <= Len(a)
    BY <1>2, <2>1 DEF Distinct
  <2>2. CASE ~ (i <= Len(a)) /\ ~ (j <= Len(a))
    <3>1. i - Len(a) = j - Len(a)
      BY <1>2, <2>2 DEF Distinct
    <3> QED
      BY <1>1, <3>1
  <2>3. CASE (i <= Len(a)) # (j <= Len(a))
    BY <1>2, <2>3
  <2> QED
    BY <2>1, <2>2, <2>3
<1>4. ASSUME NEW x \in Elems(a) PROVE x \in Elems(c)
  <2>1. PICK i \in 1..Len(a) : x = a[i]
    BY DEF Elems
  <2>2. i \in 1..Len(c) /\ c[i] = x
    BY <1>1, <2>1
  <2> QED
    BY <2>2 DEF Elems
<1>5. ASSUME NEW x \in Elems(b) PROVE x \in Elems(c)
  <2>1. PICK i \in 1..Len(b) : x = b[i]
    BY DEF Elems
  <2>2. i + Len(a) \in 1..Len(c) /\ ~ (i + Len(a) <= Len(a)) /\ (i + Len(a)) - Len(a) = i
    BY <1>1, <2>1
  <2>3. c[i + Len(a)] = x
    BY <1>1, <2>1, <2>2
  <2> QED
    BY <2>2, <2>3 DEF Elems
<1>6. ASSUME NEW x \in Elems(c) PROVE x \in Elems(a) \cup Elems(b)
  BY <1>2 DEF Elems
<1> QED
  BY <1>1, <1>3, <1>4, <1>5, <1>6 DEF c

\* One turn: the head of the queue is visited, and what is queued had edges
\* left before and has none now, so it was neither queued nor visited.
LEMMA KahnTurnInv ==
  ASSUME NEW all, NEW ids, IsFiniteSet(ids), NEW g \in Seq(all \X all), EdgesInto(ids, g), NEW i \in Nat, NEW k,
         KahnInv(ids, g, i, k), k.queue # << >>
  PROVE  KahnInv(ids, g, i + 1, KahnTurn(g, k))
<1> DEFINE u == Head(k.queue)
           W == Elems(k.order)
           Q == Elems(k.queue)
           degree == [v \in DOMAIN k.degree |-> k.degree[v] - Multiplicity(g, u, v)]
           freed == {v \in Targets(g, u) : degree[v] = 0}
           t == KahnTurn(g, k)
<1>1. t.degree = degree /\ t.queue = Tail(k.queue) \o SetToSeq(freed) /\ t.order = Append(k.order, u)
  BY DEF KahnTurn
<1>2. /\ k.order \in Seq(ids) /\ k.queue \in Seq(ids) /\ Len(k.order) = i
      /\ Distinct(k.order) /\ Distinct(k.queue) /\ W \cap Q = {}
      /\ k.degree = [v \in ids |-> Cardinality(Left(g, W, v))]
      /\ {v \in ids : k.degree[v] = 0} = W \cup Q
  BY DEF KahnInv
<1>3. /\ u \in ids /\ u \in Q /\ Tail(k.queue) \in Seq(ids)
      /\ Len(Tail(k.queue)) = Len(k.queue) - 1
      /\ \A j \in 1..(Len(k.queue) - 1) : Tail(k.queue)[j] = k.queue[j + 1]
      /\ u = k.queue[1] /\ Len(k.queue) \in Nat \ {0}
  BY <1>2 DEF Elems
<1>4. Distinct(Tail(k.queue)) /\ Elems(Tail(k.queue)) = Q \ {u}
  <2>1. Distinct(Tail(k.queue))
    BY <1>2, <1>3 DEF Distinct
  <2>2. ASSUME NEW x \in Elems(Tail(k.queue)) PROVE x \in Q \ {u}
    <3>1. PICK j \in 1..(Len(k.queue) - 1) : x = k.queue[j + 1]
      BY <1>3 DEF Elems
    <3>2. j + 1 \in 1..Len(k.queue) /\ 1 \in 1..Len(k.queue) /\ j + 1 # 1
      BY <1>3
    <3> QED
      BY <1>2, <1>3, <3>1, <3>2 DEF Distinct, Elems
  <2>3. ASSUME NEW x \in Q \ {u} PROVE x \in Elems(Tail(k.queue))
    <3>1. PICK j \in 1..Len(k.queue) : x = k.queue[j]
      BY DEF Elems
    <3>2. j - 1 \in 1..(Len(k.queue) - 1) /\ (j - 1) + 1 = j
      BY <1>3, <3>1
    <3>3. Tail(k.queue)[j - 1] = x
      BY <1>3, <3>1, <3>2
    <3> QED
      BY <1>3, <3>2, <3>3 DEF Elems
  <2> QED
    BY <2>1, <2>2, <2>3
<1>5. /\ t.order \in Seq(ids) /\ Len(t.order) = i + 1
      /\ \A j \in 1..i : t.order[j] = k.order[j]
      /\ t.order[i + 1] = u
  BY <1>1, <1>2, <1>3
<1>6. u \notin W
  BY <1>2, <1>3
<1>7. Distinct(t.order) /\ Elems(t.order) = W \cup {u}
  <2>1. \A j \in 1..i : k.order[j] \in W
    BY <1>2 DEF Elems
  <2>2. Distinct(t.order)
    BY <1>2, <1>5, <1>6, <2>1 DEF Distinct
  <2>3. ASSUME NEW x \in Elems(t.order) PROVE x \in W \cup {u}
    <3> HIDE DEF W, t, u
    <3>1. PICK j \in 1..(i + 1) : x = t.order[j]
      BY <1>5 DEF Elems
    <3>2. j \in 1..i \/ j = i + 1
      OBVIOUS
    <3> QED
      BY <1>5, <2>1, <3>1, <3>2
  <2>4. ASSUME NEW x \in W \cup {u} PROVE x \in Elems(t.order)
    <3>1. CASE x = u
      BY <1>5, <3>1 DEF Elems
    <3>2. CASE x \in W
      <4>1. PICK j \in 1..i : x = k.order[j]
        BY <1>2, <3>2 DEF Elems
      <4>2. j \in 1..(i + 1) /\ t.order[j] = x
        BY <1>5, <4>1
      <4> QED
        BY <1>5, <4>2 DEF Elems
    <3> QED
      BY <3>1, <3>2
  <2> QED
    BY <2>2, <2>3, <2>4
<1>8. /\ degree = [v \in ids |-> Cardinality(Left(g, W \cup {u}, v))]
      /\ \A v \in ids : /\ k.degree[v] \in Nat /\ degree[v] \in Nat
                        /\ degree[v] = k.degree[v] - Multiplicity(g, u, v)
                        /\ Multiplicity(g, u, v) \in Nat
                        /\ Multiplicity(g, u, v) = 0 <=> v \notin Targets(g, u)
  <2>1. DOMAIN k.degree = ids
    BY <1>2
  <2>2. \A v \in ids : degree[v] = k.degree[v] - Multiplicity(g, u, v)
    BY <2>1
  <2>3. \A v \in ids : k.degree[v] = Cardinality(Left(g, W, v))
    BY <1>2
  <2> HIDE DEF W, u
  <2>4. ASSUME NEW v \in ids
        PROVE  /\ Cardinality(Left(g, W \cup {u}, v)) = Cardinality(Left(g, W, v)) - Multiplicity(g, u, v)
               /\ Multiplicity(g, u, v) \in Nat
               /\ Multiplicity(g, u, v) = 0 <=> v \notin Targets(g, u)
               /\ Cardinality(Left(g, W \cup {u}, v)) \in Nat
               /\ Cardinality(Left(g, W, v)) \in Nat
    <3>1. Cardinality(Left(g, W \cup {u}, v)) \in Nat /\ Cardinality(Left(g, W, v)) \in Nat
      BY LeftIsFinite
    <3>2. u \in ids /\ u \notin W
      BY <1>3, <1>6
    <3> QED
      BY <3>1, <3>2, LeftAfterVisit
  <2>5. \A v \in ids : degree[v] = Cardinality(Left(g, W \cup {u}, v))
    BY <2>2, <2>3, <2>4
  <2>6. degree = [v \in ids |-> degree[v]]
    BY <2>1
  <2>7. degree = [v \in ids |-> Cardinality(Left(g, W \cup {u}, v))]
    BY <2>5, <2>6
  <2> QED
    BY <2>2, <2>3, <2>4, <2>5, <2>7
<1> HIDE DEF u, W, Q, degree, t
<1>9. Targets(g, u) \subseteq ids
  BY DEF Targets, EdgesInto
<1>10. \A v \in ids : /\ v \in freed <=> degree[v] = 0 /\ k.degree[v] # 0
                      /\ k.degree[v] = 0 => degree[v] = 0
  <2> TAKE v \in ids
  <2>1. PICK a, b, m \in Nat : a = k.degree[v] /\ b = degree[v] /\ m = Multiplicity(g, u, v)
    BY <1>8
  <2>2. b = a - m
    BY <1>8, <2>1
  <2>3. m = 0 <=> v \notin Targets(g, u)
    BY <1>8, <2>1
  <2>4. b = 0 /\ a # 0 <=> b = 0 /\ m # 0
    BY <2>2
  <2>5. a = 0 => b = 0
    BY <2>2
  <2> QED
    BY <2>1, <2>3, <2>4, <2>5
<1>11. freed \cap (W \cup Q) = {} /\ freed \subseteq ids
  BY <1>2, <1>9, <1>10
<1>12. {v \in ids : degree[v] = 0} = W \cup Q \cup freed
  BY <1>2, <1>10, <1>11
<1>13. /\ SetToSeq(freed) \in Seq(ids) /\ Distinct(SetToSeq(freed)) /\ Elems(SetToSeq(freed)) = freed
  BY <1>11, ListOfSet
<1> HIDE DEF freed
<1>14. t.queue \in Seq(ids) /\ Distinct(t.queue) /\ Elems(t.queue) = (Q \ {u}) \cup freed
  <2>1. PICK a, b \in Seq(ids) : a = Tail(k.queue) /\ b = SetToSeq(freed)
    BY <1>3, <1>13
  <2>2. Distinct(a) /\ Distinct(b) /\ Elems(a) = Q \ {u} /\ Elems(b) = freed
    BY <1>4, <1>13, <2>1
  <2>3. Elems(a) \cap Elems(b) = {}
    BY <1>11, <2>2
  <2>4. a \o b \in Seq(ids) /\ Distinct(a \o b) /\ Elems(a \o b) = Elems(a) \cup Elems(b)
    BY <2>2, <2>3, JoinLists
  <2> QED
    BY <1>1, <2>1, <2>2, <2>4
<1>15. Elems(t.order) \cap Elems(t.queue) = {}
  BY <1>2, <1>6, <1>7, <1>11, <1>14, <1>3
<1>16. {v \in ids : t.degree[v] = 0} = Elems(t.order) \cup Elems(t.queue)
  BY <1>1, <1>3, <1>7, <1>12, <1>14
<1>17. Sorted(g, t.order)
  <2> SUFFICES ASSUME NEW p \in 1..Len(t.order)
               PROVE  Sources(g, t.order[p]) \subseteq {t.order[q] : q \in 1..(p-1)}
    BY DEF Sorted
  <2>1. CASE p \in 1..i
    <3>1. Sources(g, k.order[p]) \subseteq {k.order[q] : q \in 1..(p-1)}
      BY <1>2, <2>1 DEF KahnInv, Sorted
    <3>2. \A q \in 1..(p-1) : t.order[q] = k.order[q]
      BY <1>5, <2>1
    <3> QED
      BY <1>5, <2>1, <3>1, <3>2
  <2>2. CASE p = i + 1
    <3>1. Left(g, W, u) = {}
      <4>1. k.degree[u] = 0 /\ k.degree[u] = Cardinality(Left(g, W, u))
        BY <1>2, <1>3
      <4> QED
        BY <4>1, LeftIsFinite, FS_EmptySet
    <3>2. Sources(g, u) \subseteq W
      BY <3>1 DEF Left, Sources
    <3>3. W = {k.order[q] : q \in 1..i}
      BY <1>2 DEF W, Elems
    <3>4. W \subseteq {t.order[q] : q \in 1..i}
      BY <1>5, <3>3
    <3>5. t.order[p] = u /\ p - 1 = i
      BY <1>5, <2>2
    <3> QED
      BY <3>2, <3>4, <3>5
  <2> QED
    BY <1>5, <2>1, <2>2
<1>18. KahnInv(ids, g, i + 1, t)
  BY <1>17, <1>1, <1>5, <1>7, <1>8, <1>14, <1>15, <1>16 DEF KahnInv
<1> QED
  BY <1>18 DEF t

\* Every state of the loop satisfies the invariant.
LEMMA KahnRunInv ==
  ASSUME NEW all, NEW g \in Seq(all \X all), NEW nodes, NEW ids, ids = KahnIds(nodes, g),
         IsFiniteSet(ids),
         NEW n \in Nat, NEW f, KahnRun(nodes, g, n, f)
  PROVE  \A i \in 0..n : KahnInv(ids, g, i, f[i])
<1> DEFINE S == {i \in Nat : i <= n => KahnInv(ids, g, i, f[i])}
<1>1. \A i \in 0..n : f[i] = IF i = 0 THEN KahnStart(nodes, g)
                            ELSE IF f[i-1].queue = << >> THEN f[i-1]
                            ELSE KahnTurn(g, f[i-1])
  BY DEF KahnRun
<1>2. 0 \in S
  <2>1. f[0] = KahnStart(nodes, g)
    BY <1>1
  <2>2. KahnInv(ids, g, 0, f[0])
    BY <2>1, KahnStartInv
  <2> QED
    BY <2>2
<1>e. EdgesInto(ids, g)
  BY DEF EdgesInto, KahnIds
<1>3. ASSUME NEW i \in S, i + 1 <= n PROVE KahnInv(ids, g, i + 1, f[i + 1])
  <2>1. i \in Nat /\ KahnInv(ids, g, i, f[i]) /\ i + 1 \in 0..n /\ (i + 1) - 1 = i /\ i + 1 # 0
    BY <1>3
  <2>2. CASE f[i].queue = << >>
    <3>1. f[i + 1] = f[i]
      BY <1>1, <2>1, <2>2
    <3> QED
      BY <2>1, <2>2, <3>1 DEF KahnInv
  <2>3. CASE f[i].queue # << >>
    <3>1. f[i + 1] = KahnTurn(g, f[i])
      BY <1>1, <2>1, <2>3
    <3> QED
      BY <1>e, <2>1, <2>3, <3>1, KahnTurnInv
  <2> QED
    BY <2>2, <2>3
<1>4. \A i \in S : i + 1 \in S
  BY <1>3
<1>5. S = Nat
  BY <1>2, <1>4, InductionSet
<1> QED
  BY <1>5


\* The loop's invariant holds when as many turns as identifiers are done.
LEMMA KahnEndInv ==
  ASSUME NEW all, NEW g \in Seq(all \X all), NEW nodes, NEW ids, ids = KahnIds(nodes, g),
         IsFiniteSet(ids)
  PROVE  KahnInv(ids, g, Cardinality(ids), Kahn(nodes, g))
<1>1. PICK c \in Nat : c = Cardinality(ids)
  BY FS_CardinalityType
<1>2. PICK f : KahnRun(nodes, g, c, f) /\ Kahn(nodes, g) = f[c]
  BY <1>1, KahnIsRun
<1>3. c \in 0..c
  OBVIOUS
<1>4. KahnInv(ids, g, c, f[c])
  BY <1>2, <1>3, KahnRunInv
<1> QED
  BY <1>1, <1>2, <1>4

\* What validate_graph rejects has a set of nodes that wait for each other.
LEMMA RejectedIsCircular ==
  ASSUME NEW nodes, IsFiniteSet(nodes), NEW g \in Seq(nodes \X nodes), ~ ValidGraph(nodes, g)
  PROVE  \E U \in SUBSET nodes : U # {} /\ \A n \in U : Sources(g, n) \cap U # {}
<1>0. PICK c \in Nat : c = Cardinality(nodes)
  BY FS_CardinalityType
<1>1. PICK k : k = Kahn(nodes, g) /\ KahnInv(nodes, g, c, k)
  <2>1. \A j \in DOMAIN g : g[j][2] \in nodes
    OBVIOUS
  <2>2. KahnIds(nodes, g) = nodes
    BY <2>1 DEF KahnIds
  <2> QED
    BY <1>0, <2>2, KahnEndInv
<1>2. Len(k.order) # c
  <2>1. EndpointsKnown(nodes, g)
    BY DEF EndpointsKnown
  <2> QED
    BY <1>0, <1>1, <2>1 DEF ValidGraph, DetectCycles
<1>3. k.queue = << >> /\ Elems(k.queue) = {}
  BY <1>1, <1>2 DEF KahnInv, Elems
<1> DEFINE W == Elems(k.order)
           U == nodes \ W
<1>4. U # {}
  <2> SUFFICES ASSUME nodes \subseteq W PROVE FALSE
    OBVIOUS
  <2>1. k.order \in Seq(nodes) /\ Distinct(k.order)
    BY <1>1 DEF KahnInv
  <2>2. PICK m \in Nat : m = Len(k.order)
    BY <2>1
  <2>3. k.order \in [1..m -> nodes]
    BY <2>1, <2>2
  <2>4. k.order \in Bijection(1..m, nodes)
    BY <2>1, <2>2, <2>3 DEF Distinct, Elems, Bijection, Injection, Surjection, IsInjective
  <2>5. Cardinality(nodes) = m
    BY <2>4, FS_CountingElements DEF ExistsBijection
  <2> QED
    BY <1>0, <1>2, <2>2, <2>5
<1>5. ASSUME NEW n \in U PROVE Sources(g, n) \cap U # {}
  <2>1. k.degree[n] # 0
    BY <1>1, <1>3 DEF KahnInv
  <2>2. k.degree[n] = Cardinality(Left(g, W, n))
    BY <1>1 DEF KahnInv
  <2>3. Left(g, W, n) # {}
    BY <2>1, <2>2, FS_EmptySet
  <2>4. PICK j \in DOMAIN g : g[j][2] = n /\ g[j][1] \notin W
    BY <2>3 DEF Left
  <2>5. g[j][1] \in nodes
    OBVIOUS
  <2> QED
    BY <2>4, <2>5 DEF Sources
<1> QED
  BY <1>4, <1>5

-----------------------------------------------------------------------------
(* Descendants is the least set that holds the targets of n and the targets *)
(* of its elements.                                                         *)

Closed(g, S) == \A m \in S : Targets(g, m) \subseteq S

Grow(g, S) == S \cup UNION {Targets(g, m) : m \in S}

\* The sets of the recursion in Descendants, up to k.
ReachRun(g, n, k, f) == f = [i \in 1..k |-> IF i = 1 THEN Targets(g, n) ELSE Grow(g, f[i-1])]

\* The recursion of Descendants has a run of any length.
LEMMA ReachRunExists ==
  ASSUME NEW g, NEW n, NEW c \in Nat
  PROVE  \E f : ReachRun(g, n, c, f)
<1> DEFINE S == {k \in Nat : \E f : ReachRun(g, n, k, f)}
<1>1. 0 \in S
  <2> DEFINE f == [i \in 1..0 |-> {}]
  <2>1. ReachRun(g, n, 0, f)
    BY DEF ReachRun
  <2> QED
    BY <2>1
<1>2. ASSUME NEW k \in S PROVE k + 1 \in S
  <2>1. PICK f : ReachRun(g, n, k, f)
    OBVIOUS
  <2>2. f = [i \in 1..k |-> IF i = 1 THEN Targets(g, n) ELSE Grow(g, f[i-1])]
    BY <2>1 DEF ReachRun
  <2> DEFINE h == [i \in 1..(k+1) |-> IF i # k + 1 THEN f[i]
                                      ELSE IF i = 1 THEN Targets(g, n) ELSE Grow(g, f[k])]
  <2>3. \A i \in 1..k : h[i] = f[i]
    OBVIOUS
  <2>4. \A i \in 1..(k+1) : h[i] = IF i = 1 THEN Targets(g, n) ELSE Grow(g, h[i-1])
    <3> TAKE i \in 1..(k+1)
    <3>1. CASE i = k + 1 /\ i = 1
      BY <3>1
    <3>2. CASE i = k + 1 /\ i # 1
      <4>1. h[i] = Grow(g, f[k]) /\ i - 1 = k /\ k \in 1..k
        BY <3>2
      <4>2. h[k] = f[k]
        BY <2>3, <4>1
      <4> QED
        BY <3>2, <4>1, <4>2
    <3>3. CASE i \in 1..k
      <4>1. h[i] = f[i] /\ (i # 1 => i - 1 \in 1..k)
        BY <2>3, <3>3
      <4>2. i # 1 => h[i-1] = f[i-1]
        BY <2>3, <4>1
      <4> QED
        BY <2>2, <3>3, <4>1, <4>2
    <3> QED
      BY <3>1, <3>2, <3>3
  <2>5. ReachRun(g, n, k + 1, h)
    <3> HIDE DEF h
    <3>1. h = [i \in 1..(k+1) |-> h[i]]
      BY DEF h
    <3> QED
      BY <2>4, <3>1 DEF ReachRun
  <2> QED
    BY <2>5
<1>3. S = Nat
  BY <1>1, <1>2, InductionSet
<1> QED
  BY <1>3

\* Descendants is the last set of such a run.
LEMMA DescendantsIsRun ==
  ASSUME NEW ids, IsFiniteSet(ids), NEW g, NEW n
  PROVE  \E f : ReachRun(g, n, Cardinality(ids), f) /\ Descendants(ids, g, n) = f[Cardinality(ids)]
<1>1. PICK c \in Nat : c = Cardinality(ids)
  BY FS_CardinalityType
<1>2. \E f : ReachRun(g, n, c, f)
  BY ReachRunExists
<1> DEFINE f == CHOOSE f : ReachRun(g, n, c, f)
<1>3. ReachRun(g, n, c, f)
  BY <1>2
<1>4. Descendants(ids, g, n) = f[c]
  BY <1>1 DEF Descendants, ReachRun, Grow
<1> QED
  BY <1>1, <1>3, <1>4

\* A set that grows gains an element, and one that does not is closed.
LEMMA GrowsOrClosed ==
  ASSUME NEW ids, IsFiniteSet(ids), NEW g \in Seq(ids \X ids), NEW S \in SUBSET ids
  PROVE  /\ S \subseteq Grow(g, S) /\ Grow(g, S) \in SUBSET ids
         /\ Closed(g, S) => Grow(g, S) = S
         /\ ~ Closed(g, S) => Cardinality(Grow(g, S)) > Cardinality(S)
         /\ Cardinality(S) \in Nat /\ Cardinality(Grow(g, S)) \in Nat
<1>1. \A m : Targets(g, m) \subseteq ids
  <2>1. \A j \in DOMAIN g : g[j][2] \in ids
    OBVIOUS
  <2> QED
    BY <2>1 DEF Targets
<1>2. S \subseteq Grow(g, S) /\ Grow(g, S) \in SUBSET ids
  BY <1>1 DEF Grow
<1>3. Closed(g, S) => Grow(g, S) = S
  BY DEF Grow, Closed
<1>4. IsFiniteSet(Grow(g, S)) /\ IsFiniteSet(S)
  BY <1>2, FS_Subset
<1>5. Cardinality(S) \in Nat /\ Cardinality(Grow(g, S)) \in Nat
  BY <1>4, FS_CardinalityType
<1>6. ASSUME ~ Closed(g, S) PROVE Cardinality(Grow(g, S)) > Cardinality(S)
  <2>1. Grow(g, S) # S
    BY <1>6 DEF Grow, Closed
  <2>2. /\ Cardinality(S) <= Cardinality(Grow(g, S))
        /\ Cardinality(Grow(g, S)) = Cardinality(S) => Grow(g, S) = S
    BY <1>2, <1>4, FS_Subset
  <2> QED
    BY <1>5, <2>1, <2>2
<1> QED
  BY <1>2, <1>3, <1>5, <1>6

\* Descendants is the least closed set that holds the targets of n: a set of
\* identifiers cannot grow more often than there are identifiers.
LEMMA DescendantsLeast ==
  ASSUME NEW ids, IsFiniteSet(ids), NEW g \in Seq(ids \X ids), NEW n \in ids
  PROVE  /\ Descendants(ids, g, n) \in SUBSET ids
         /\ Targets(g, n) \subseteq Descendants(ids, g, n)
         /\ Closed(g, Descendants(ids, g, n))
         /\ \A C : Targets(g, n) \subseteq C /\ Closed(g, C) => Descendants(ids, g, n) \subseteq C
<1>1. PICK c \in Nat : c = Cardinality(ids) /\ c # 0
  BY FS_CardinalityType, FS_EmptySet
<1>2. PICK f : ReachRun(g, n, c, f) /\ Descendants(ids, g, n) = f[c]
  BY <1>1, DescendantsIsRun
<1>3. \A i \in 1..c : f[i] = IF i = 1 THEN Targets(g, n) ELSE Grow(g, f[i-1])
  BY <1>2 DEF ReachRun
<1>4. Targets(g, n) \in SUBSET ids
  <2>1. \A j \in DOMAIN g : g[j][2] \in ids
    OBVIOUS
  <2> QED
    BY <2>1 DEF Targets
<1> DEFINE Good(i) == /\ f[i] \in SUBSET ids /\ Targets(g, n) \subseteq f[i]
                      /\ Closed(g, f[i]) \/ Cardinality(f[i]) >= i
                      /\ \A C : Targets(g, n) \subseteq C /\ Closed(g, C) => f[i] \subseteq C
           S == {k \in Nat : k + 1 <= c => Good(k + 1)}
<1>5. 0 \in S
  <2>1. f[1] = Targets(g, n)
    BY <1>1, <1>3
  <2>2. Closed(g, f[1]) \/ Cardinality(f[1]) >= 1
    <3>1. CASE Targets(g, n) = {}
      BY <2>1, <3>1 DEF Closed
    <3>2. CASE Targets(g, n) # {}
      <4>1. IsFiniteSet(Targets(g, n))
        BY <1>4, FS_Subset
      <4>2. Cardinality(Targets(g, n)) \in Nat /\ Cardinality(Targets(g, n)) # 0
        BY <3>2, <4>1, FS_CardinalityType, FS_EmptySet
      <4> QED
        BY <2>1, <4>2
    <3> QED
      BY <3>1, <3>2
  <2>3. Good(1)
    BY <1>4, <2>1, <2>2
  <2> QED
    BY <2>3
<1>6. ASSUME NEW k \in S PROVE k + 1 \in S
  <2> SUFFICES ASSUME (k + 1) + 1 <= c PROVE Good((k + 1) + 1)
    OBVIOUS
  <2>1. PICK i \in Nat : i = k + 1
    OBVIOUS
  <2>2. Good(i) /\ i + 1 <= c /\ i >= 1
    BY <2>1
  <2>3. f[i + 1] = Grow(g, f[i])
    <3>1. i + 1 \in 1..c /\ i + 1 # 1 /\ (i + 1) - 1 = i
      BY <1>1, <2>1, <2>2
    <3> QED
      BY <1>3, <3>1
  <2>4. /\ f[i] \subseteq Grow(g, f[i]) /\ Grow(g, f[i]) \in SUBSET ids
        /\ Closed(g, f[i]) => Grow(g, f[i]) = f[i]
        /\ ~ Closed(g, f[i]) => Cardinality(Grow(g, f[i])) > Cardinality(f[i])
        /\ Cardinality(f[i]) \in Nat /\ Cardinality(Grow(g, f[i])) \in Nat
    BY <2>2, GrowsOrClosed
  <2>5. Closed(g, f[i + 1]) \/ Cardinality(f[i + 1]) >= i + 1
    BY <2>2, <2>3, <2>4
  <2>6. ASSUME NEW C, Targets(g, n) \subseteq C, Closed(g, C) PROVE f[i + 1] \subseteq C
    <3>1. f[i] \subseteq C
      BY <2>2, <2>6
    <3> QED
      BY <2>3, <2>6, <3>1 DEF Grow, Closed
  <2>7. Good(i + 1)
    BY <2>2, <2>3, <2>4, <2>5, <2>6
  <2> QED
    BY <2>1, <2>7
<1>7. S = Nat
  BY <1>5, <1>6, InductionSet
<1>8. Good(c)
  <2>1. c - 1 \in S /\ (c - 1) + 1 = c
    BY <1>1, <1>7
  <2> QED
    BY <1>1, <2>1
<1>9. Closed(g, f[c])
  <2> SUFFICES ASSUME Cardinality(f[c]) >= c PROVE Closed(g, f[c])
    BY <1>8
  <2>1. Cardinality(f[c]) \in Nat /\ Cardinality(f[c]) <= c
    BY <1>1, <1>8, FS_Subset, FS_CardinalityType
  <2>2. f[c] = ids
    BY <1>1, <1>8, <2>1, FS_Subset
  <2>3. \A m : Targets(g, m) \subseteq ids
    <3>1. \A j \in DOMAIN g : g[j][2] \in ids
      OBVIOUS
    <3> QED
      BY <3>1 DEF Targets
  <2> QED
    BY <2>2, <2>3 DEF Closed
<1> QED
  BY <1>2, <1>8, <1>9

\* What is reached from the target of an edge is reached from its source.
LEMMA EdgeDescends ==
  ASSUME NEW ids, IsFiniteSet(ids), NEW g \in Seq(ids \X ids), NEW m \in ids, NEW n \in Targets(g, m)
  PROVE  /\ n \in ids /\ n \in Descendants(ids, g, m)
         /\ Descendants(ids, g, n) \subseteq Descendants(ids, g, m)
<1>1. n \in ids
  <2>1. \A j \in DOMAIN g : g[j][2] \in ids
    OBVIOUS
  <2> QED
    BY <2>1 DEF Targets
<1>2. n \in Descendants(ids, g, m) /\ Closed(g, Descendants(ids, g, m))
  BY DescendantsLeast
<1>3. Targets(g, n) \subseteq Descendants(ids, g, m)
  BY <1>2 DEF Closed
<1> QED
  BY <1>1, <1>2, <1>3, DescendantsLeast

\* Among nodes that wait for each other, one is its own descendant: otherwise
\* each source has more descendants than its target.
LEMMA CircularHasCycle ==
  ASSUME NEW ids, IsFiniteSet(ids), NEW g \in Seq(ids \X ids), NEW U \in SUBSET ids, U # {},
         \A n \in U : Sources(g, n) \cap U # {}
  PROVE  \E n \in ids : n \in Descendants(ids, g, n)
<1> SUFFICES ASSUME \A n \in ids : n \notin Descendants(ids, g, n) PROVE FALSE
  OBVIOUS
<1> DEFINE D(n) == Descendants(ids, g, n)
<1>1. PICK c \in Nat : c = Cardinality(ids)
  BY FS_CardinalityType
<1>2. \A n \in ids : D(n) \in SUBSET ids
  BY DescendantsLeast
<1> HIDE DEF D
<1>3. \A n \in ids : IsFiniteSet(D(n)) /\ Cardinality(D(n)) \in Nat /\ Cardinality(D(n)) <= c
  BY <1>1, <1>2, FS_Subset, FS_CardinalityType
<1> DEFINE T == {c - Cardinality(D(n)) : n \in U}
<1>4. T \in SUBSET Nat /\ T # {}
  BY <1>3
<1>5. PICK x \in T : \A y \in T : x <= y
  BY <1>4, LeastExists
<1>6. PICK n \in U : x = c - Cardinality(D(n))
  BY <1>5
<1>7. PICK m \in U : m \in Sources(g, n)
  BY <1>6
<1>8. n \in Targets(g, m)
  BY <1>7 DEF Sources, Targets
<1>9. n \in D(m) /\ D(n) \subseteq D(m) /\ n \notin D(n)
  BY <1>8, EdgeDescends DEF D
<1>10. Cardinality(D(n)) < Cardinality(D(m))
  <2>1. Cardinality(D(n)) <= Cardinality(D(m)) /\ (Cardinality(D(m)) = Cardinality(D(n)) => D(m) = D(n))
    BY <1>3, <1>9, FS_Subset
  <2> QED
    BY <1>3, <1>9, <2>1
<1>11. c - Cardinality(D(m)) \in T
  BY <1>7
<1>12. PICK a \in Nat, b \in Nat : a = Cardinality(D(n)) /\ b = Cardinality(D(m)) /\ a <= c /\ b <= c
  BY <1>3
<1>13. c - a <= c - b
  <2>1. x <= c - b
    BY <1>5, <1>11, <1>12
  <2> QED
    BY <1>6, <1>12, <2>1
<1> QED
  BY <1>10, <1>12, <1>13

\* A sorted list holds what an element of it depends on, directly or not, and
\* holds it before that element.
LEMMA SortedDescends ==
  ASSUME NEW ids, IsFiniteSet(ids), NEW g \in Seq(ids \X ids),
         NEW s \in Seq(ids), Distinct(s), Sorted(g, s),
         NEW m \in ids, NEW r \in 1..Len(s), s[r] \in Descendants(ids, g, m)
  PROVE  \E q \in 1..(r-1) : s[q] = m
<1>1. ASSUME NEW x, NEW y \in Targets(g, x), NEW p \in 1..Len(s), y = s[p]
      PROVE  \E q \in 1..(p-1) : s[q] = x
  <2>1. x \in Sources(g, s[p])
    BY <1>1 DEF Sources, Targets
  <2> QED
    BY <2>1 DEF Sorted
<1>2. PICK q \in 1..Len(s) : s[q] = m
  <2> SUFFICES ASSUME m \notin Elems(s) PROVE FALSE
    BY DEF Elems
  <2> DEFINE C == ids \ Elems(s)
  <2>1. ASSUME NEW x \in C, NEW y \in Targets(g, x) PROVE y \in C
    <3>1. y \in ids
      BY <2>1, EdgeDescends
    <3>2. ASSUME y \in Elems(s) PROVE FALSE
      <4>1. PICK p \in 1..Len(s) : y = s[p]
        BY <3>2 DEF Elems
      <4>2. PICK o \in 1..(p-1) : s[o] = x
        BY <1>1, <4>1
      <4>3. o \in 1..Len(s)
        BY <4>1, <4>2
      <4> QED
        BY <2>1, <4>2, <4>3 DEF Elems
    <3> QED
      BY <3>1, <3>2
  <2>2. Closed(g, C) /\ Targets(g, m) \subseteq C
    BY <2>1 DEF Closed
  <2>3. Descendants(ids, g, m) \subseteq C
    BY <2>2, DescendantsLeast
  <2> QED
    BY <2>3 DEF Elems
<1>3. q < r
  <2> DEFINE C == ids \ {s[p] : p \in 1..q}
  <2>1. ASSUME NEW x \in C \cup {m}, NEW y \in Targets(g, x) PROVE y \in C
    <3>1. y \in ids
      BY <2>1, EdgeDescends
    <3>2. ASSUME NEW p \in 1..q, y = s[p] PROVE FALSE
      <4>1. p \in 1..Len(s)
        BY <1>2
      <4>2. PICK o \in 1..(p-1) : s[o] = x
        BY <1>1, <3>2, <4>1
      <4>3. o \in 1..q /\ o \in 1..Len(s) /\ o # q
        BY <1>2, <4>1, <4>2
      <4>4. x = m
        BY <2>1, <4>2, <4>3
      <4> QED
        BY <1>2, <4>2, <4>3, <4>4 DEF Distinct
    <3> QED
      BY <3>1, <3>2
  <2>2. Closed(g, C) /\ Targets(g, m) \subseteq C
    BY <2>1 DEF Closed
  <2>3. Descendants(ids, g, m) \subseteq C
    BY <2>2, DescendantsLeast
  <2> QED
    BY <1>2, <2>3
<1> QED
  BY <1>2, <1>3

\* A graph whose ends are known is a list of pairs of nodes.
LEMMA KnownEndpoints ==
  ASSUME NEW ids, NEW nodes \in SUBSET ids, NEW g \in Seq(ids \X ids), EndpointsKnown(nodes, g)
  PROVE  g \in Seq(nodes \X nodes)
<1>1. \A i \in 1..Len(g) : g[i] \in ids \X ids
  OBVIOUS
<1>2. \A i \in 1..Len(g) : g[i] = <<g[i][1], g[i][2]>> /\ g[i][1] \in nodes /\ g[i][2] \in nodes
  BY <1>1 DEF EndpointsKnown
<1>3. \A i \in 1..Len(g) : g[i] \in nodes \X nodes
  BY <1>2
<1>4. g = [i \in 1..Len(g) |-> g[i]] /\ Len(g) \in Nat
  OBVIOUS
<1> QED
  BY <1>3, <1>4

\* topological_sort lists every node of a valid graph.
LEMMA ValidIsAll ==
  ASSUME NEW ids, IsFiniteSet(ids), NEW nodes \in SUBSET ids, NEW g \in Seq(ids \X ids),
         ValidGraph(nodes, g)
  PROVE  /\ KahnIds(nodes, g) = nodes /\ g \in Seq(nodes \X nodes)
         /\ Elems(TopologicalSort(nodes, g)) = nodes
<1>1. g \in Seq(nodes \X nodes)
  BY KnownEndpoints DEF ValidGraph
<1>2. KahnIds(nodes, g) = nodes
  <2>1. \A j \in DOMAIN g : g[j][2] \in nodes
    BY <1>1
  <2> QED
    BY <2>1 DEF KahnIds
<1>3. IsFiniteSet(nodes)
  BY FS_Subset
<1> DEFINE s == TopologicalSort(nodes, g)
<1>4. s \in Seq(nodes) /\ Distinct(s) /\ Len(s) = Cardinality(nodes)
  <2>1. KahnInv(nodes, g, Cardinality(nodes), Kahn(nodes, g))
    BY <1>2, <1>3, KahnEndInv
  <2>2. Len(s) = Cardinality(nodes)
    BY DEF ValidGraph, DetectCycles, TopologicalSort
  <2> QED
    BY <2>1, <2>2 DEF KahnInv, TopologicalSort
<1> HIDE DEF s
<1>5. PICK c \in Nat : c = Cardinality(nodes)
  BY <1>3, FS_CardinalityType
<1>6. s \in Injection(1..c, nodes)
  BY <1>4, <1>5 DEF Injection, IsInjective, Distinct
<1>7. s \in Surjection(1..c, nodes)
  <2>1. Cardinality(1..c) = c
    BY FS_Interval
  <2> QED
    BY <1>3, <1>5, <1>6, <2>1, FS_Injection
<1>8. Elems(s) = nodes
  BY <1>4, <1>5, <1>7 DEF Elems, Surjection
<1> QED
  BY <1>1, <1>2, <1>8 DEF s

\* validate_graph accepts exactly the graphs with known ends and no cycle.
LEMMA ValidIsAcyclic ==
  ASSUME NEW ids, IsFiniteSet(ids), NEW nodes \in SUBSET ids, NEW g \in Seq(ids \X ids)
  PROVE  ValidGraph(nodes, g) <=> /\ EndpointsKnown(nodes, g)
                                  /\ \A n \in ids : n \notin Descendants(ids, g, n)
<1>1. ASSUME ValidGraph(nodes, g), NEW n \in ids, n \in Descendants(ids, g, n) PROVE FALSE
  <2>1. /\ KahnIds(nodes, g) = nodes /\ g \in Seq(nodes \X nodes)
        /\ Elems(TopologicalSort(nodes, g)) = nodes
    BY <1>1, ValidIsAll
  <2>2. PICK s : s = TopologicalSort(nodes, g)
    OBVIOUS
  <2>3. s \in Seq(nodes) /\ Distinct(s) /\ Sorted(g, s)
    BY <2>1, <2>2, KahnEndInv, FS_Subset DEF KahnInv, TopologicalSort
  <2>4. n \in nodes
    <3> SUFFICES ASSUME n \notin nodes PROVE FALSE
      OBVIOUS
    <3>1. \A j \in DOMAIN g : g[j][1] \in nodes
      BY <2>1
    <3>2. Targets(g, n) = {} /\ Closed(g, {})
      BY <3>1 DEF Targets, Closed
    <3>3. Descendants(ids, g, n) \subseteq {}
      BY <3>2, DescendantsLeast
    <3> QED
      BY <1>1, <3>3
  <2>5. PICK r \in 1..Len(s) : s[r] = n
    BY <2>1, <2>2, <2>4 DEF Elems
  <2>6. s \in Seq(ids)
    BY <2>3
  <2>7. PICK q \in 1..(r-1) : s[q] = n
    BY <1>1, <2>3, <2>5, <2>6, SortedDescends
  <2>8. q \in 1..Len(s) /\ q # r
    BY <2>3, <2>5, <2>7
  <2> QED
    BY <2>3, <2>5, <2>7, <2>8 DEF Distinct
<1>2. ASSUME EndpointsKnown(nodes, g), ~ ValidGraph(nodes, g)
      PROVE  \E n \in ids : n \in Descendants(ids, g, n)
  <2>1. g \in Seq(nodes \X nodes) /\ IsFiniteSet(nodes)
    BY <1>2, KnownEndpoints, FS_Subset
  <2>2. \E U \in SUBSET nodes : U # {} /\ \A n \in U : Sources(g, n) \cap U # {}
    BY <1>2, <2>1, RejectedIsCircular
  <2>3. PICK U \in SUBSET ids : U # {} /\ \A n \in U : Sources(g, n) \cap U # {}
    BY <2>2
  <2> QED
    BY <2>3, CircularHasCycle
<1>3. ValidGraph(nodes, g) => EndpointsKnown(nodes, g)
  BY DEF ValidGraph
<1> QED
  BY <1>1, <1>2, <1>3

-----------------------------------------------------------------------------
(* get_parallel_groups                                                      *)

LevelRun(nodes, g, k, f) ==
  f = [i \in 0..k |-> IF i = 0 THEN LevelStart(nodes, g)
                      ELSE IF f[i-1].current = {} THEN f[i-1]
                      ELSE LevelTurn(g, f[i-1])]

\* The loop over levels has a run of any length.
LEMMA LevelRunExists ==
  ASSUME NEW nodes, NEW g, NEW n \in Nat
  PROVE  \E f : LevelRun(nodes, g, n, f)
<1> DEFINE S == {k \in Nat : \E f : LevelRun(nodes, g, k, f)}
<1>1. 0 \in S
  <2> DEFINE f == [i \in 0..0 |-> LevelStart(nodes, g)]
  <2>1. LevelRun(nodes, g, 0, f)
    BY DEF LevelRun
  <2> QED
    BY <2>1
<1>2. ASSUME NEW k \in S PROVE k + 1 \in S
  <2>1. PICK f : LevelRun(nodes, g, k, f)
    OBVIOUS
  <2> DEFINE next(x) == IF x.current = {} THEN x ELSE LevelTurn(g, x)
  <2>2. f = [i \in 0..k |-> IF i = 0 THEN LevelStart(nodes, g) ELSE next(f[i-1])]
    BY <2>1 DEF LevelRun
  <2> DEFINE h == [i \in 0..(k+1) |-> IF i = k + 1 THEN next(f[k]) ELSE f[i]]
  <2>3. \A i \in 0..k : h[i] = f[i]
    OBVIOUS
  <2> HIDE DEF next
  <2>4. \A i \in 0..(k+1) : h[i] = IF i = 0 THEN LevelStart(nodes, g) ELSE next(h[i-1])
    <3> TAKE i \in 0..(k+1)
    <3>1. CASE i = k + 1
      <4>1. h[i] = next(f[k]) /\ i - 1 = k /\ i # 0 /\ h[k] = f[k]
        BY <2>3, <3>1
      <4> QED
        BY <4>1
    <3>2. CASE i = 0
      BY <2>2, <2>3, <3>2
    <3>3. CASE i \in 1..k
      <4>1. i \in 0..k /\ i - 1 \in 0..k /\ i # 0
        BY <3>3
      <4>2. h[i] = f[i] /\ h[i-1] = f[i-1]
        BY <2>3, <4>1
      <4> QED
        BY <2>2, <4>1, <4>2
    <3> QED
      BY <3>1, <3>2, <3>3
  <2>5. h = [i \in 0..(k+1) |-> IF i = 0 THEN LevelStart(nodes, g) ELSE next(h[i-1])]
    BY <2>4
  <2>6. LevelRun(nodes, g, k + 1, h)
    BY <2>5 DEF LevelRun, next
  <2> QED
    BY <2>6
<1>3. S = Nat
  BY <1>1, <1>2, InductionSet
<1> QED
  BY <1>3

\* ParallelGroups is read off the last state of such a run.
LEMMA GroupsAreRun ==
  ASSUME NEW nodes, NEW g, IsFiniteSet(nodes)
  PROVE  \E f : /\ LevelRun(nodes, g, Cardinality(nodes), f)
                /\ ParallelGroups(nodes, g) = f[Cardinality(nodes)].groups
<1>1. PICK n \in Nat : n = Cardinality(nodes)
  BY FS_CardinalityType
<1>2. \E f : LevelRun(nodes, g, n, f)
  BY LevelRunExists
<1> DEFINE f == CHOOSE f : LevelRun(nodes, g, n, f)
<1>3. LevelRun(nodes, g, n, f)
  BY <1>2
<1>4. ParallelGroups(nodes, g) = f[n].groups
  BY <1>1 DEF ParallelGroups, LevelRun
<1> QED
  BY <1>1, <1>3, <1>4

\* What is listed before the j-th group.
Before(s, j) == UNION {s[i] : i \in 1..(j-1)}

\* Each group is what is ready once the groups before it are completed.
Waves(nodes, g, s) ==
  \A j \in 1..Len(s) :
    s[j] = {v \in nodes \ Before(s, j) : Sources(g, v) \subseteq Before(s, j)}

Out(s) == Before(s, Len(s) + 1)

\* The state of the loop after i turns: the in-degree counts the edges from
\* what is not yet in a group, and the identifiers at zero are those in a
\* group and those of the current level.
LevelInv(nodes, g, i, l) ==
  /\ l.groups \in Seq(SUBSET nodes)
  /\ l.current \in SUBSET nodes /\ Out(l.groups) \cap l.current = {}
  /\ l.degree = [v \in nodes |-> Cardinality(Left(g, Out(l.groups), v))]
  /\ {v \in nodes : l.degree[v] = 0} = Out(l.groups) \cup l.current
  /\ Waves(nodes, g, l.groups)
  /\ l.current = {} \/ Cardinality(Out(l.groups)) >= i

\* The loop's invariant holds before the first turn.
LEMMA LevelStartInv ==
  ASSUME NEW nodes, IsFiniteSet(nodes), NEW g \in Seq(nodes \X nodes)
  PROVE  LevelInv(nodes, g, 0, LevelStart(nodes, g))
<1> DEFINE degree == [v \in nodes |-> Cardinality({i \in DOMAIN g : g[i][2] = v})]
           l == LevelStart(nodes, g)
<1>1. l.degree = degree /\ l.current = {v \in nodes : degree[v] = 0} /\ l.groups = << >>
  BY DEF LevelStart
<1>2. << >> \in Seq(SUBSET nodes) /\ Len(<< >>) = 0 /\ Out(<< >>) = {} /\ Waves(nodes, g, << >>)
  BY DEF Before, Out, Waves
<1>3. degree = [v \in nodes |-> Cardinality(Left(g, {}, v))]
  <2>1. \A v \in nodes : Left(g, {}, v) = {i \in DOMAIN g : g[i][2] = v}
    BY DEF Left
  <2> QED
    BY <2>1
<1>4. Cardinality({}) >= 0
  BY FS_EmptySet
<1> HIDE DEF degree, l
<1>5. LevelInv(nodes, g, 0, l)
  BY <1>1, <1>2, <1>3, <1>4 DEF LevelInv
<1> QED
  BY <1>5 DEF l

Lost(g, L, v) == {j \in DOMAIN g : g[j][1] \in L /\ g[j][2] = v}

\* Taking a whole level away, as LeftAfterVisit for one identifier.
LEMMA LeftAfterLevel ==
  ASSUME NEW all, NEW g \in Seq(all \X all), NEW W, NEW L, L \cap W = {}, NEW v
  PROVE  /\ Cardinality(Left(g, W \cup L, v)) = Cardinality(Left(g, W, v)) - Cardinality(Lost(g, L, v))
         /\ Cardinality(Lost(g, L, v)) \in Nat
<1> DEFINE M == Lost(g, L, v)
<1>1. M \subseteq Left(g, W, v) /\ Left(g, W \cup L, v) = Left(g, W, v) \ M
  BY DEF Left, Lost
<1>2. IsFiniteSet(Left(g, W, v)) /\ IsFiniteSet(M)
  BY <1>1, LeftIsFinite, FS_Subset
<1>3. Cardinality(Left(g, W, v) \ M) = Cardinality(Left(g, W, v)) - Cardinality(Left(g, W, v) \cap M)
  BY <1>2, FS_Difference
<1>4. Left(g, W, v) \cap M = M
  BY <1>1
<1> QED
  BY <1>1, <1>2, <1>3, <1>4, FS_CardinalityType

\* A turn keeps it: a level goes out whole.
LEMMA LevelTurnInv ==
  ASSUME NEW nodes, IsFiniteSet(nodes), NEW g \in Seq(nodes \X nodes), NEW i \in Nat, NEW l,
         LevelInv(nodes, g, i, l), l.current # {}
  PROVE  LevelInv(nodes, g, i + 1, LevelTurn(g, l))
<1> DEFINE out == Out(l.groups)
           L == l.current
           lost(v) == Cardinality({j \in DOMAIN g : g[j][1] \in l.current /\ g[j][2] = v})
           degree == [v \in DOMAIN l.degree |-> l.degree[v] - lost(v)]
           t == LevelTurn(g, l)
<1>1. /\ t.degree = degree /\ t.current = {v \in DOMAIN degree : degree[v] = 0 /\ lost(v) > 0}
      /\ t.groups = Append(l.groups, L)
  BY DEF LevelTurn
<1>2. /\ l.groups \in Seq(SUBSET nodes) /\ L \in SUBSET nodes /\ out \cap L = {}
      /\ l.degree = [v \in nodes |-> Cardinality(Left(g, out, v))]
      /\ {v \in nodes : l.degree[v] = 0} = out \cup L
      /\ Waves(nodes, g, l.groups) /\ Cardinality(out) >= i
  BY DEF LevelInv
<1>3. PICK n \in Nat : n = Len(l.groups)
  BY <1>2
<1>4. /\ t.groups \in Seq(SUBSET nodes) /\ Len(t.groups) = n + 1
      /\ \A j \in 1..n : t.groups[j] = l.groups[j]
      /\ t.groups[n + 1] = L
  BY <1>1, <1>2, <1>3
<1>5. ASSUME NEW j \in 1..(n+1) PROVE Before(t.groups, j) = Before(l.groups, j)
  <2>1. \A k \in 1..(j-1) : t.groups[k] = l.groups[k]
    BY <1>4
  <2> QED
    BY <2>1 DEF Before
<1>6. Out(t.groups) = out \cup L
  <2>1. out = UNION {l.groups[k] : k \in 1..n}
    BY <1>3 DEF Before, Out
  <2>2. Out(t.groups) = UNION {t.groups[k] : k \in 1..(n+1)}
    BY <1>4 DEF Before, Out
  <2>3. UNION {t.groups[k] : k \in 1..(n+1)} = (UNION {t.groups[k] : k \in 1..n}) \cup t.groups[n+1]
    <3>1. 1..(n+1) = (1..n) \cup {n+1}
      OBVIOUS
    <3> QED
      BY <3>1
  <2>4. {t.groups[k] : k \in 1..n} = {l.groups[k] : k \in 1..n}
    BY <1>4
  <2> QED
    BY <1>4, <2>1, <2>2, <2>3, <2>4
<1> HIDE DEF out, L, t
<1>7. \A v \in nodes : /\ l.degree[v] \in Nat /\ lost(v) \in Nat
                       /\ l.degree[v] - lost(v) = Cardinality(Left(g, out \cup L, v))
                       /\ Cardinality(Left(g, out \cup L, v)) \in Nat
  <2> TAKE v \in nodes
  <2>1. l.degree[v] = Cardinality(Left(g, out, v)) /\ Cardinality(Left(g, out, v)) \in Nat
    BY <1>2, LeftIsFinite
  <2>2. Cardinality(Left(g, out \cup L, v)) \in Nat
    BY LeftIsFinite
  <2>3. lost(v) = Cardinality(Lost(g, L, v))
    BY DEF L, Lost
  <2>4. L \cap out = {}
    BY <1>2
  <2> HIDE DEF lost
  <2>5. /\ Cardinality(Left(g, out \cup L, v)) = Cardinality(Left(g, out, v)) - Cardinality(Lost(g, L, v))
        /\ Cardinality(Lost(g, L, v)) \in Nat
    BY <2>4, LeftAfterLevel
  <2> QED
    BY <2>1, <2>2, <2>3, <2>5
<1> HIDE DEF lost
<1>8. degree = [v \in nodes |-> Cardinality(Left(g, out \cup L, v))] /\ DOMAIN degree = nodes
  <2>1. DOMAIN l.degree = nodes
    BY <1>2
  <2> QED
    BY <1>7, <2>1
<1>9. \A v \in nodes : degree[v] = l.degree[v] - lost(v) /\ degree[v] \in Nat
  BY <1>7, <1>8
<1> HIDE DEF degree
<1>10. \A v \in nodes : /\ v \in t.current <=> degree[v] = 0 /\ l.degree[v] # 0
                        /\ l.degree[v] = 0 => degree[v] = 0
  <2> TAKE v \in nodes
  <2>1. PICK a, b, m \in Nat : a = l.degree[v] /\ b = degree[v] /\ m = lost(v)
    BY <1>7, <1>9
  <2>2. b = a - m
    BY <1>9, <2>1
  <2>3. v \in t.current <=> b = 0 /\ m > 0
    BY <1>1, <1>8, <2>1
  <2>4. b = 0 /\ a # 0 <=> b = 0 /\ m > 0
    BY <2>2
  <2>5. a = 0 => b = 0
    BY <2>2
  <2> QED
    BY <2>1, <2>3, <2>4, <2>5
<1>11. t.current \in SUBSET nodes
  BY <1>1, <1>8
<1>12. (out \cup L) \cap t.current = {} /\ {v \in nodes : degree[v] = 0} = (out \cup L) \cup t.current
  BY <1>2, <1>10, <1>11
<1>13. Waves(nodes, g, t.groups)
  <2> SUFFICES ASSUME NEW j \in 1..Len(t.groups)
               PROVE  t.groups[j] = {v \in nodes \ Before(t.groups, j) : Sources(g, v) \subseteq Before(t.groups, j)}
    BY DEF Waves
  <2>1. CASE j \in 1..n
    BY <1>2, <1>3, <1>4, <1>5, <2>1 DEF Waves
  <2>2. CASE j = n + 1
    <3>1. Before(t.groups, j) = out /\ t.groups[j] = L
      BY <1>3, <1>4, <1>5, <2>2 DEF out, Out
    <3>2. \A v \in nodes : l.degree[v] = 0 <=> Sources(g, v) \subseteq out
      <4> TAKE v \in nodes
      <4>1. l.degree[v] = 0 <=> Left(g, out, v) = {}
        BY <1>2, LeftIsFinite, FS_EmptySet
      <4>2. Left(g, out, v) = {} <=> Sources(g, v) \subseteq out
        BY DEF Left, Sources
      <4> QED
        BY <4>1, <4>2
    <3>3. L = {v \in nodes \ out : Sources(g, v) \subseteq out}
      BY <1>2, <3>2
    <3> QED
      BY <3>1, <3>3
  <2> QED
    BY <1>4, <2>1, <2>2
<1>14. Cardinality(out \cup L) >= i + 1
  <2>1. out \in SUBSET nodes /\ IsFiniteSet(out \cup L) /\ IsFiniteSet(out)
    BY <1>2, FS_Subset
  <2>2. Cardinality(out) \in Nat /\ Cardinality(out \cup L) \in Nat
    BY <2>1, FS_CardinalityType
  <2>3. out \cup L # out
    BY <1>2 DEF L
  <2>4. /\ Cardinality(out) <= Cardinality(out \cup L)
        /\ Cardinality(out \cup L) = Cardinality(out) => out \cup L = out
    BY <2>1, FS_Subset
  <2> QED
    BY <1>2, <2>2, <2>3, <2>4
<1>15. LevelInv(nodes, g, i + 1, t)
  <2>1. t.degree = degree
    BY <1>1
  <2>2. t.degree = [v \in nodes |-> Cardinality(Left(g, Out(t.groups), v))]
    BY <1>6, <1>8, <2>1
  <2>3. /\ Out(t.groups) \cap t.current = {}
        /\ {v \in nodes : t.degree[v] = 0} = Out(t.groups) \cup t.current
        /\ Cardinality(Out(t.groups)) >= i + 1
    BY <1>6, <1>12, <1>14, <2>1
  <2> QED
    BY <1>4, <1>11, <1>13, <2>2, <2>3 DEF LevelInv
<1> QED
  BY <1>15 DEF t

\* It holds after every turn.
LEMMA LevelRunInv ==
  ASSUME NEW nodes, IsFiniteSet(nodes), NEW g \in Seq(nodes \X nodes), NEW n \in Nat, NEW f,
         LevelRun(nodes, g, n, f)
  PROVE  \A i \in 0..n : LevelInv(nodes, g, i, f[i])
<1> DEFINE S == {i \in Nat : i <= n => LevelInv(nodes, g, i, f[i])}
<1>1. \A i \in 0..n : f[i] = IF i = 0 THEN LevelStart(nodes, g)
                            ELSE IF f[i-1].current = {} THEN f[i-1]
                            ELSE LevelTurn(g, f[i-1])
  BY DEF LevelRun
<1>2. 0 \in S
  <2>1. f[0] = LevelStart(nodes, g)
    BY <1>1
  <2>2. LevelInv(nodes, g, 0, f[0])
    BY <2>1, LevelStartInv
  <2> QED
    BY <2>2
<1>3. ASSUME NEW i \in S, i + 1 <= n PROVE LevelInv(nodes, g, i + 1, f[i + 1])
  <2>1. i \in Nat /\ LevelInv(nodes, g, i, f[i]) /\ i + 1 \in 0..n /\ (i + 1) - 1 = i /\ i + 1 # 0
    BY <1>3
  <2>2. CASE f[i].current = {}
    <3>1. f[i + 1] = f[i]
      BY <1>1, <2>1, <2>2
    <3> QED
      BY <2>1, <2>2, <3>1 DEF LevelInv
  <2>3. CASE f[i].current # {}
    <3>1. f[i + 1] = LevelTurn(g, f[i])
      BY <1>1, <2>1, <2>3
    <3> QED
      BY <2>1, <2>3, <3>1, LevelTurnInv
  <2> QED
    BY <2>2, <2>3
<1>4. \A i \in S : i + 1 \in S
  BY <1>3
<1>5. S = Nat
  BY <1>2, <1>4, InductionSet
<1> QED
  BY <1>5

\* The groups of a valid graph are waves, and they hold every node.
LEMMA GroupsAreWaves ==
  ASSUME NEW ids, IsFiniteSet(ids), NEW nodes \in SUBSET ids, NEW g \in Seq(ids \X ids),
         ValidGraph(nodes, g)
  PROVE  LET s == ParallelGroups(nodes, g)
         IN s \in Seq(SUBSET nodes) /\ Waves(nodes, g, s) /\ Out(s) = nodes
<1>1. g \in Seq(nodes \X nodes) /\ IsFiniteSet(nodes)
  BY ValidIsAll, FS_Subset
<1>2. PICK c \in Nat : c = Cardinality(nodes)
  BY <1>1, FS_CardinalityType
<1>3. PICK l : ParallelGroups(nodes, g) = l.groups /\ LevelInv(nodes, g, c, l)
  <2>1. PICK f : LevelRun(nodes, g, c, f) /\ ParallelGroups(nodes, g) = f[c].groups
    BY <1>1, <1>2, GroupsAreRun
  <2>2. c \in 0..c
    OBVIOUS
  <2> QED
    BY <1>1, <2>1, <2>2, LevelRunInv
<1> DEFINE out == Out(l.groups)
<1>4. /\ out \in SUBSET nodes /\ out \cap l.current = {} /\ l.current \in SUBSET nodes
      /\ l.degree = [v \in nodes |-> Cardinality(Left(g, out, v))]
      /\ {v \in nodes : l.degree[v] = 0} = out \cup l.current
      /\ l.current = {} \/ Cardinality(out) >= c
  BY <1>3 DEF LevelInv
<1> HIDE DEF out
<1>5. l.current = {}
  <2> SUFFICES ASSUME Cardinality(out) >= c PROVE l.current = {}
    BY <1>4
  <2>1. Cardinality(out) \in Nat /\ Cardinality(out) <= c
    BY <1>1, <1>2, <1>4, FS_Subset, FS_CardinalityType
  <2>2. out = nodes
    BY <1>1, <1>2, <1>4, <2>1, FS_Subset
  <2> QED
    BY <1>4, <2>2
<1>6. out = nodes
  <2> DEFINE U == nodes \ out
  <2> SUFFICES ASSUME U # {} PROVE FALSE
    BY <1>4
  <2>1. ASSUME NEW n \in U PROVE Sources(g, n) \cap U # {}
    <3>1. l.degree[n] # 0
      BY <1>4, <1>5
    <3>2. Left(g, out, n) # {}
      BY <1>4, <3>1, FS_EmptySet
    <3>3. PICK j \in DOMAIN g : g[j][2] = n /\ g[j][1] \notin out
      BY <3>2 DEF Left
    <3>4. g[j][1] \in nodes
      BY <1>1
    <3> QED
      BY <3>3, <3>4 DEF Sources
  <2>2. \E n \in ids : n \in Descendants(ids, g, n)
    BY <2>1, CircularHasCycle
  <2> QED
    BY <2>2, ValidIsAcyclic
<1> QED
  BY <1>3, <1>6 DEF LevelInv, out

\* In waves, what a node depends on, directly or not, is in an earlier group.
LEMMA WavesDescend ==
  ASSUME NEW ids, IsFiniteSet(ids), NEW nodes \in SUBSET ids, NEW g \in Seq(ids \X ids),
         NEW s \in Seq(SUBSET nodes), Waves(nodes, g, s),
         NEW j \in 1..Len(s), NEW n \in s[j], NEW m \in ids, n \in Descendants(ids, g, m)
  PROVE  m \in Before(s, j)
<1> SUFFICES ASSUME m \notin Before(s, j) PROVE FALSE
  OBVIOUS
<1> DEFINE C == ids \ (Before(s, j) \cup s[j])
<1>1. ASSUME NEW x \in ids, x \notin Before(s, j), NEW y \in Targets(g, x) PROVE y \in C
  <2>1. y \in ids /\ x \in Sources(g, y)
    BY <1>1, EdgeDescends DEF Sources, Targets
  <2>2. ASSUME NEW i \in 1..j, y \in s[i] PROVE FALSE
    <3>1. i \in 1..Len(s)
      OBVIOUS
    <3>2. Sources(g, y) \subseteq Before(s, i)
      BY <2>2, <3>1 DEF Waves
    <3>3. Before(s, i) \subseteq Before(s, j)
      BY DEF Before
    <3> QED
      BY <1>1, <2>1, <3>2, <3>3
  <2>3. ASSUME y \in Before(s, j) PROVE \E i \in 1..j : y \in s[i]
    <3>1. PICK i \in 1..(j-1) : y \in s[i]
      BY <2>3 DEF Before
    <3> QED
      BY <3>1
  <2>4. j \in 1..j
    OBVIOUS
  <2> QED
    BY <2>1, <2>2, <2>3, <2>4
<1>2. Closed(g, C) /\ Targets(g, m) \subseteq C
  BY <1>1 DEF Closed
<1>3. Descendants(ids, g, m) \subseteq C
  <2> HIDE DEF C
  <2> QED
    BY <1>2, DescendantsLeast
<1> QED
  BY <1>3

\* No node is in two groups.
LEMMA WavesDisjoint ==
  ASSUME NEW nodes, NEW g, NEW s \in Seq(SUBSET nodes), Waves(nodes, g, s),
         NEW i \in 1..Len(s), NEW j \in 1..Len(s), i # j
  PROVE  s[i] \cap s[j] = {}
<1>1. ASSUME NEW p \in 1..Len(s), NEW q \in 1..Len(s), p < q PROVE s[p] \cap s[q] = {}
  <2>1. p \in 1..(q-1)
    BY <1>1
  <2>2. s[p] \subseteq Before(s, q)
    BY <2>1 DEF Before
  <2> QED
    BY <2>2 DEF Waves
<1>2. i < j \/ j < i
  OBVIOUS
<1> QED
  BY <1>1, <1>2

-----------------------------------------------------------------------------
(* The construction of a graph                                             *)

\* The construction keeps two copies of the graph.  When build_graph was given
\* known ends, depends_on is what the edges say: in particular a node that is
\* added later is the target of no edge yet.
GraphInv ==
  /\ missionNodes \in SUBSET Ids
  /\ missionEdges \in Seq(Ids \X Ids)
  /\ dependsOn \in [Ids -> SUBSET Ids]
  /\ built = "sain" =>
       /\ EndpointsKnown(missionNodes, missionEdges)
       /\ \A n \in Ids : dependsOn[n] = Sources(missionEdges, n)

\* The sources of an edge list are identifiers.
LEMMA SourcesAreIds ==
  ASSUME NEW g \in Seq(Ids \X Ids), NEW n
  PROVE  Sources(g, n) \in SUBSET Ids
BY DEF Sources

\* Every operation keeps the two copies in step.
LEMMA GraphStep == GraphInv /\ [GraphNext]_graphVars => GraphInv'
<1> SUFFICES ASSUME GraphInv, [GraphNext]_graphVars PROVE GraphInv'
  OBVIOUS
<1>1. CASE BuildGraph
  <2>1. PICK ns \in SUBSET Ids, es \in EdgeLists :
          /\ built' = IF EndpointsKnown(ns, es) THEN "sain" ELSE "douteux"
          /\ missionNodes' = ns
          /\ missionEdges' = es
          /\ dependsOn' = [n \in Ids |-> IF n \in ns THEN Sources(es, n) ELSE {}]
    BY <1>1 DEF BuildGraph
  <2>2. es \in Seq(Ids \X Ids)
    BY EdgeListsAssumption
  <2>3. \A n \in Ids : Sources(es, n) \in SUBSET Ids
    BY <2>2, SourcesAreIds
  <2>4. ASSUME EndpointsKnown(ns, es), NEW n \in Ids, n \notin ns
        PROVE  Sources(es, n) = {}
    BY <2>4 DEF EndpointsKnown, Sources
  <2>5. built' = "sain" => EndpointsKnown(ns, es)
    BY <2>1
  <2>6. dependsOn' \in [Ids -> SUBSET Ids]
    BY <2>1, <2>3
  <2>7. built' = "sain" => \A n \in Ids : dependsOn'[n] = Sources(es, n)
    BY <2>1, <2>4, <2>5
  <2> QED
    BY <2>1, <2>2, <2>5, <2>6, <2>7 DEF GraphInv
<1>2. ASSUME NEW n \in Ids, AddNode(n) PROVE GraphInv'
  BY <1>2 DEF GraphInv, AddNode, EndpointsKnown
<1>3. ASSUME NEW s \in Ids, NEW t \in Ids, AddEdge(s, t) PROVE GraphInv'
  <2> DEFINE g == missionEdges
  <2>1. /\ s \in missionNodes /\ t \in missionNodes
        /\ missionEdges' = Append(g, <<s, t>>)
        /\ dependsOn' = [dependsOn EXCEPT ![t] = @ \cup {s}]
        /\ built' = built /\ missionNodes' = missionNodes
    BY <1>3 DEF AddEdge
  <2>2. g \in Seq(Ids \X Ids)
    BY DEF GraphInv
  <2>3. /\ missionEdges' \in Seq(Ids \X Ids)
        /\ DOMAIN missionEdges' = DOMAIN g \cup {Len(g) + 1}
        /\ \A i \in DOMAIN g : missionEdges'[i] = g[i]
        /\ missionEdges'[Len(g) + 1] = <<s, t>>
    BY <2>1, <2>2
  <2>4. EndpointsKnown(missionNodes, g) => EndpointsKnown(missionNodes', missionEdges')
    BY <2>1, <2>3 DEF EndpointsKnown
  <2>5. ASSUME NEW n \in Ids
        PROVE  Sources(missionEdges', n) = IF n = t THEN Sources(g, n) \cup {s} ELSE Sources(g, n)
    BY <2>3 DEF Sources
  <2>6. dependsOn' \in [Ids -> SUBSET Ids]
    BY <2>1 DEF GraphInv
  <2>7. built' = "sain" => \A n \in Ids : dependsOn'[n] = Sources(missionEdges', n)
    BY <2>1, <2>5 DEF GraphInv
  <2> QED
    BY <2>1, <2>3, <2>4, <2>6, <2>7 DEF GraphInv
<1>4. CASE UNCHANGED graphVars
  BY <1>4 DEF graphVars, GraphInv
<1> QED
  BY <1>1, <1>2, <1>3, <1>4 DEF GraphNext

\* The two copies of a mission's graph agree as long as build_graph was given
\* known ends, whatever add_node and add_edge do afterwards.
THEOREM GraphInvariant == GraphSpec => []GraphInv
<1>1. GraphInit => GraphInv
  BY DEF GraphInit, GraphInv
<1> QED
  BY <1>1, GraphStep, PTL DEF GraphSpec

\* validate_graph (mission_graph.py) accepts exactly the graphs with known ends
\* and no cycle, for any number of identifiers and any list of edges.
THEOREM GraphValidateIsExact == GraphSpec => []ValidateIsExact
<1>1. GraphInv => ValidateIsExact
  <2> SUFFICES ASSUME GraphInv PROVE ValidateIsExact
    OBVIOUS
  <2>1. missionNodes \in SUBSET Ids /\ missionEdges \in Seq(Ids \X Ids)
    BY DEF GraphInv
  <2> QED
    BY <2>1, IdsAssumption, ValidIsAcyclic DEF ValidateIsExact, Acyclic
<1> QED
  BY <1>1, GraphInvariant, PTL

\* topological_sort lists each identifier once and after all of its ancestors;
\* an order it gives for a valid graph lists exactly the nodes.
THEOREM GraphSortIsSound == GraphSpec => []TopologicalSortIsSound
<1>1. GraphInv => TopologicalSortIsSound
  <2> SUFFICES ASSUME GraphInv PROVE TopologicalSortIsSound
    OBVIOUS
  <2> DEFINE ids == KahnIds(missionNodes, missionEdges)
             s == TopologicalSort(missionNodes, missionEdges)
             index(n) == CHOOSE i \in DOMAIN s : s[i] = n
  <2>1. missionNodes \in SUBSET Ids /\ missionEdges \in Seq(Ids \X Ids) /\ IsFiniteSet(Ids)
    BY IdsAssumption DEF GraphInv
  <2>2. ids \in SUBSET Ids /\ IsFiniteSet(ids)
    <3>1. ids \in SUBSET Ids
      BY <2>1 DEF KahnIds
    <3> QED
      BY <2>1, <3>1, FS_Subset
  <2>3. s \in Seq(ids) /\ Distinct(s) /\ Sorted(missionEdges, s)
    BY <2>1, <2>2, KahnEndInv DEF KahnInv, TopologicalSort
  <2>4. s \in Seq(Ids) /\ DOMAIN s = 1..Len(s) /\ Len(s) \in Nat
    BY <2>2, <2>3
  <2>5. ToSet(s) = Elems(s)
    BY <2>4 DEF ToSet, Elems
  <2>6. IsInjective(s)
    BY <2>3, <2>4 DEF IsInjective, Distinct
  <2>7. ASSUME NEW i \in 1..Len(s) PROVE index(s[i]) = i
    BY <2>3, <2>4 DEF Distinct
  <2> HIDE DEF s, index
  <2>8. ASSUME NEW n \in ToSet(s), NEW m \in Ancestors(n)
        PROVE  m \in ToSet(s) /\ index(m) < index(n)
    <3>1. PICK r \in 1..Len(s) : s[r] = n
      BY <2>5 DEF Elems
    <3>2. m \in Ids /\ s[r] \in Descendants(Ids, missionEdges, m)
      BY <3>1 DEF Ancestors
    <3>3. PICK q \in 1..(r-1) : s[q] = m
      BY <2>1, <2>3, <2>4, <3>2, SortedDescends
    <3>4. q \in 1..Len(s) /\ q < r
      BY <2>4
    <3>5. index(s[q]) = q /\ index(s[r]) = r
      BY <2>7, <3>4
    <3> QED
      BY <2>5, <3>1, <3>3, <3>4, <3>5 DEF Elems
  <2>9. ValidGraph(missionNodes, missionEdges) => ToSet(s) = missionNodes
    BY <2>1, <2>5, ValidIsAll DEF s
  <2> QED
    BY <2>6, <2>8, <2>9 DEF TopologicalSortIsSound, s, index
<1> QED
  BY <1>1, GraphInvariant, PTL

\* get_parallel_groups of a valid graph: each node in one group, after all of
\* its ancestors; with known ends, the groups taken from the edges are the
\* answers of get_ready_nodes taken from depends_on.
THEOREM GraphGroupsAreParallel == GraphSpec => []GroupsAreParallel
<1>1. GraphInv => GroupsAreParallel
  <2> SUFFICES ASSUME GraphInv, ValidGraph(missionNodes, missionEdges) PROVE GroupsAreParallel
    BY DEF GroupsAreParallel
  <2> DEFINE s == ParallelGroups(missionNodes, missionEdges)
             earlier(j) == UNION {s[i] : i \in 1..(j-1)}
  <2>1. missionNodes \in SUBSET Ids /\ missionEdges \in Seq(Ids \X Ids) /\ IsFiniteSet(Ids)
    BY IdsAssumption DEF GraphInv
  <2>2. s \in Seq(SUBSET missionNodes) /\ Waves(missionNodes, missionEdges, s) /\ Out(s) = missionNodes
    BY <2>1, GroupsAreWaves
  <2> HIDE DEF s
  <2>3. DOMAIN s = 1..Len(s) /\ Len(s) \in Nat /\ \A j \in 1..Len(s) : s[j] \subseteq missionNodes
    BY <2>2
  <2>4. \A j : earlier(j) = Before(s, j)
    BY DEF Before
  <2>5. UNION ToSet(s) = missionNodes
    BY <2>2, <2>3 DEF ToSet, Out, Before
  <2>6. \A i, j \in DOMAIN s : i # j => s[i] \cap s[j] = {}
    BY <2>2, <2>3, WavesDisjoint
  <2>7. ASSUME NEW j \in DOMAIN s, NEW n \in s[j], NEW m \in Ancestors(n) PROVE m \in earlier(j)
    <3>1. m \in Ids /\ n \in Descendants(Ids, missionEdges, m)
      BY DEF Ancestors
    <3> QED
      BY <2>1, <2>2, <2>3, <2>4, <3>1, WavesDescend
  <2>8. ASSUME built = "sain", NEW j \in DOMAIN s
        PROVE  s[j] = {n \in missionNodes \ earlier(j) : dependsOn[n] \subseteq earlier(j)}
    <3>1. s[j] = {v \in missionNodes \ Before(s, j) : Sources(missionEdges, v) \subseteq Before(s, j)}
      BY <2>2, <2>3 DEF Waves
    <3>2. \A v \in missionNodes : dependsOn[v] = Sources(missionEdges, v)
      BY <2>1, <2>8 DEF GraphInv
    <3> QED
      BY <2>4, <3>1, <3>2
  <2> QED
    BY <2>5, <2>6, <2>7, <2>8 DEF GroupsAreParallel, s
<1> QED
  BY <1>1, GraphInvariant, PTL

-----------------------------------------------------------------------------
(* The walks                                                               *)

\* No thread of the orchestrator is bound to the mission.
Regime == AutoTasks = {}

Labels == {"idle", "startcheck", "launch", "durable", "check", "select", "mark",
           "run", "collect", "close", "sleep", "exit", "reprise", "rearm"}
Resting == {"idle", "sleep"}
InStep == {"run", "collect"}
Started == {"running", "failed"}
Reached == {"pending", "running", "completed", "failed", "blocked"}

Typed ==
  /\ edges \in Graphs
  /\ status \in MissionStatus
  /\ node \in [Nodes -> Reached]
  /\ attempts \in Nat /\ brief \in BOOLEAN
  /\ disk.status \in MissionStatus
  /\ disk.node \in [Nodes -> Reached]
  /\ disk.attempts \in Nat /\ disk.brief \in BOOLEAN
  /\ pc \in [HttpTasks -> Labels]
  /\ ready \in [HttpTasks -> SUBSET Nodes]
  /\ seen \in [HttpTasks -> {"open", "success", "failure"}]
  /\ job \in [HttpTasks -> [Nodes -> JobState]]

\* At most one coroutine is between two of its awaits.
OneActive ==
  \A g, h \in HttpTasks : pc[g] \notin Resting /\ pc[h] \notin Resting => g = h

AllDone(nodes) == \A n \in Nodes : nodes[n] = "completed"

\* A set of nodes each of which waits for another one of the set.
Circular(U) == \A n \in U : Sources(edges, n) \cap U # {}

\* What a mission says of itself, in memory or in the document: completed, or
\* to be retried, only with every node completed; and the nodes that wait for
\* each other never start.
Sound(state, nodes, again) ==
  /\ state = "completed" \/ again = TRUE => AllDone(nodes)
  /\ \A U \in SUBSET Nodes : Circular(U) => \A n \in U : nodes[n] \in {"pending", "blocked"}

\* The document is never ahead of the memory in an attempt.
Kept ==
  /\ disk.attempts <= attempts
  /\ disk.attempts = attempts =>
       \A n \in Nodes : disk.node[n] = "completed" => node[n] = "completed"

\* What walker w knows where it is: nobody changes the mission under it.
Turn(w) ==
  /\ pc[w] = "launch" => status \in {"ready", "validated"}
  /\ pc[w] \in {"durable", "check"} => status = "running"
  /\ pc[w] \in {"select", "mark", "run", "collect", "close"} =>
       status \notin Terminal \cup {"paused"}
  /\ pc[w] = "mark" => ready[w] = GetReadyNodes(edges, node) /\ ready[w] # {}
  /\ pc[w] \in InStep => \A n \in ready[w] : node[n] = "running"
  /\ pc[w] = "close" => (seen[w] = "success" => AllDone(node))
  /\ pc[w] = "reprise" => status \in Terminal
  /\ pc[w] = "rearm" => status = "ready"

\* Where the jobs of w can be, and what they say of their nodes.
Placed(w) ==
  \A n \in Nodes :
    /\ job[w][n] # "none" => node[n] \in Started /\ DependenciesSatisfied(edges, node, n)
    /\ job[w][n] \notin {"none"} \cup Stray => pc[w] \in InStep /\ n \in ready[w]
    /\ job[w][n] \in {"queued"} \cup Live => pc[w] = "run"

\* A node has the jobs of one walker at most.
Exclusive ==
  \A v, w \in HttpTasks : v # w =>
    \A n \in Nodes : job[v][n] # "none" =>
      job[w][n] = "none" /\ ~ (pc[w] \in InStep /\ n \in ready[w])

IInv ==
  /\ Typed /\ OneActive
  /\ Sound(status, node, brief) /\ Sound(disk.status, disk.node, disk.brief)
  /\ Kept /\ Exclusive
  /\ \A w \in HttpTasks : Turn(w) /\ Placed(w)

-----------------------------------------------------------------------------
(* The bound on attempts, for every mix of requests and threads            *)

\* RetryBounded in memory and in the document.
AttemptsInv ==
  /\ attempts \in Nat /\ disk.attempts \in Nat
  /\ brief \in BOOLEAN /\ disk.brief \in BOOLEAN
  /\ attempts <= MaxAttempts /\ disk.attempts <= MaxAttempts
  /\ brief = TRUE => attempts < MaxAttempts
  /\ disk.brief = TRUE => disk.attempts < MaxAttempts

\* A step that leaves the attempts alone, and writes the document or not.
LEMMA AttemptsStay ==
  ASSUME AttemptsInv, UNCHANGED <<attempts, brief>>, disk' = disk \/ disk' = Document'
  PROVE  AttemptsInv'
BY DEF AttemptsInv, Document

LEMMA AttemptsStep == AttemptsInv /\ [Next]_vars => AttemptsInv'
<1> SUFFICES ASSUME AttemptsInv, [Next]_vars PROVE AttemptsInv'
  OBVIOUS
<1>1. ASSUME NEW w \in Walkers,
             StartCheck(w) \/ Launch(w) \/ Durable(w) \/ Check(w) \/ Exit(w) \/ Rearm(w) \/ AutoBuild(w)
      PROVE  AttemptsInv'
  BY <1>1, AttemptsStay DEF StartCheck, Launch, Durable, Check, Exit, Rearm, AutoBuild, Rendre, mission
<1>2. ASSUME NEW w \in Walkers,
             Select(w) \/ Mark(w) \/ Take(w) \/ Harvest(w) \/ StepTimeout(w) \/ Collect(w) \/ Tally(w)
      PROVE  AttemptsInv'
  BY <1>2, AttemptsStay DEF Select, Mark, Take, Harvest, StepTimeout, Collect, Tally, SetJob,
     Rendre, mission
<1>3. ASSUME NEW w \in Walkers, Close(w) PROVE AttemptsInv'
  <2>1. CASE UNCHANGED <<mission, disk>>
    BY <2>1, AttemptsStay DEF mission
  <2>2. CASE /\ attempts' = attempts
             /\ (attempts < MaxAttempts /\ brief' = TRUE) \/ brief' = brief
             /\ disk' = disk \/ disk' = Document'
    <3>1. disk' = Document' => disk'.attempts = attempts' /\ disk'.brief = brief'
      BY DEF Document
    <3>2. attempts' \in Nat /\ brief' \in BOOLEAN /\ attempts' <= MaxAttempts
          /\ (brief' = TRUE => attempts' < MaxAttempts)
      BY <2>2 DEF AttemptsInv
    <3> QED
      BY <2>2, <3>1, <3>2 DEF AttemptsInv
  <2> QED
    BY <1>3, <2>1, <2>2 DEF Close, MayContradict, Rendre
<1>4. ASSUME NEW w \in Walkers, Reprise(w) PROVE AttemptsInv'
  <2>1. CASE UNCHANGED <<mission, disk>>
    BY <2>1, AttemptsStay DEF mission
  <2>2. CASE brief = TRUE /\ brief' = FALSE /\ attempts' = attempts + 1 /\ disk' = disk
    <3>1. attempts' \in Nat /\ attempts' <= MaxAttempts
      BY <2>2, BoundsAssumption DEF AttemptsInv
    <3>2. brief' \in BOOLEAN /\ ~ (brief' = TRUE)
      BY <2>2
    <3> QED
      BY <2>2, <3>1, <3>2 DEF AttemptsInv
  <2>3. brief = TRUE \/ ~ brief
    BY DEF AttemptsInv
  <2> QED
    BY <1>4, <2>1, <2>2, <2>3 DEF Reprise
<1>5. ASSUME NEW w \in Walkers, NEW n \in Nodes, JobStep(w, n) PROVE AttemptsInv'
  BY <1>5, AttemptsStay DEF JobStep, LetIn, Saturate, Return, SetJob, mission
<1>6. ASSUME NEW h \in HttpTasks, HttpStart(h) \/ HttpResume(h) PROVE AttemptsInv'
  BY <1>6, AttemptsStay DEF HttpStart, HttpResume
<1>7. CASE HttpPause \/ Cancel
  BY <1>7, AttemptsStay DEF HttpPause, Cancel
<1>8. CASE Restart
  BY <1>8 DEF Restart, AttemptsInv
<1>9. CASE UNCHANGED vars
  BY <1>9, AttemptsStay DEF vars, mission
<1> QED
  BY <1>1, <1>2, <1>3, <1>4, <1>5, <1>6, <1>7, <1>8, <1>9 DEF Next, WalkerStep, ExecuteStep

\* DEFAULT_MAX_ATTEMPTS bounds the attempts of a mission whatever walks,
\* coroutines and threads, race for its retry brief, and across restarts.
THEOREM WalksRetryBounded == Spec => []RetryBounded
<1>1. Init => AttemptsInv
  <2> SUFFICES ASSUME Init PROVE AttemptsInv
    OBVIOUS
  <2>1. attempts = 1 /\ brief = FALSE /\ disk.attempts = 1 /\ disk.brief = FALSE
    <3>1. attempts = 1 /\ brief = FALSE /\ disk = Document
      BY DEF Init
    <3> QED
      BY <3>1 DEF Document
  <2>2. 1 \in Nat /\ 1 <= MaxAttempts
    BY BoundsAssumption
  <2> QED
    BY <2>1, <2>2 DEF AttemptsInv
<1>2. AttemptsInv => RetryBounded
  BY DEF AttemptsInv, RetryBounded
<1> QED
  BY <1>1, <1>2, AttemptsStep, PTL DEF Spec

-----------------------------------------------------------------------------
(* The mission driven by requests                                          *)


LEMMA FirstIsIn ==
  ASSUME NEW S \in SUBSET Nodes, S # {}
  PROVE  First(S) \in S
<1>1. \E x \in S : \A y \in S : x <= y
  BY NodesAssumption, LeastExists
<1> QED
  BY <1>1 DEF First

LEMMA OnlyRequests ==
  ASSUME Regime
  PROVE  /\ Walkers = HttpTasks
         /\ \A w \in HttpTasks : Rest(w) = "idle" /\ AfterPass(w) = "sleep"
BY DEF Regime, Walkers, Rest, AfterPass

\* Dependencies stay satisfied while no completed node is reset.
LEMMA DependenciesKept ==
  ASSUME Typed, Typed', edges' = edges, NEW n \in Nodes,
         DependenciesSatisfied(edges, node, n),
         \A m \in Nodes : node[m] = "completed" => node'[m] = "completed"
  PROVE  DependenciesSatisfied(edges, node, n)'
BY DEF Typed, DependenciesSatisfied

\* The memory after the step is sound and no completed node of the same
\* attempt is lost: so is the document, written or not.
LEMMA DocumentKept ==
  ASSUME IInv, edges' = edges, Sound(status, node, brief)',
         status' \in MissionStatus, node' \in [Nodes -> Reached],
         attempts' \in Nat, brief' \in BOOLEAN,
         disk' = disk \/ disk' = Document',
         \/ attempts' = attempts + 1
         \/ /\ attempts' = attempts
            /\ \A m \in Nodes : node[m] = "completed" => node'[m] = "completed"
  PROVE  /\ Sound(disk.status, disk.node, disk.brief)' /\ Kept'
         /\ disk'.status \in MissionStatus /\ disk'.node \in [Nodes -> Reached]
         /\ disk'.attempts \in Nat /\ disk'.brief \in BOOLEAN
<1>1. CASE disk' = disk
  <2>1. Sound(disk.status, disk.node, disk.brief)'
    BY <1>1 DEF IInv, Sound, Circular, AllDone
  <2>2. Kept'
    BY <1>1 DEF IInv, Typed, Kept
  <2> QED
    BY <1>1, <2>1, <2>2 DEF IInv, Typed
<1>2. CASE disk' = Document'
  <2>1. /\ disk'.status = status' /\ disk'.node = node'
        /\ disk'.attempts = attempts' /\ disk'.brief = brief'
    BY <1>2 DEF Document
  <2>2. Sound(disk.status, disk.node, disk.brief)'
    BY <2>1 DEF Sound, AllDone
  <2>3. Kept'
    BY <2>1 DEF Kept
  <2> QED
    BY <2>1, <2>2, <2>3
<1> QED
  BY <1>1, <1>2

\* What a step of w leaves of the walkers that wait.
Alone(w) ==
  \A v \in HttpTasks \ {w} :
    /\ pc[v] \in Resting /\ pc'[v] = pc[v]
    /\ ready'[v] = ready[v] /\ seen'[v] = seen[v] /\ job'[v] = job[v]
    /\ \A n \in Nodes : job[v][n] # "none" =>
         node'[n] \in Started /\ DependenciesSatisfied(edges, node, n)'

\* The nodes w has a claim on.
Claims(w) == {n \in Nodes : job[w][n] # "none" \/ (pc[w] \in InStep /\ n \in ready[w])}

\* A step of one walker: it is enough to look at that walker.
LEMMA OneWalker ==
  ASSUME IInv, NEW w \in HttpTasks, Alone(w), Typed',
         Sound(status, node, brief)', Sound(disk.status, disk.node, disk.brief)', Kept',
         Turn(w)', Placed(w)',
         \A n \in Claims(w)' : n \in Claims(w) \/ \A v \in HttpTasks \ {w} : job[v][n] = "none"
  PROVE  IInv'
<1>1. OneActive'
  BY DEF OneActive, Alone
<1>2. ASSUME NEW v \in HttpTasks, v # w PROVE Turn(v)'
  BY <1>2 DEF Alone, Turn, Resting, InStep
<1>3. ASSUME NEW v \in HttpTasks, v # w PROVE Placed(v)'
  <2>1. Placed(v)
    BY DEF IInv
  <2> QED
    BY <1>3, <2>1 DEF Alone, Placed, Resting, InStep
<1>4. Exclusive'
  <2> SUFFICES ASSUME NEW u \in HttpTasks, NEW v \in HttpTasks, u # v, NEW n \in Nodes,
                      job'[u][n] # "none"
               PROVE  n \notin Claims(v)'
    BY DEF Exclusive, Claims
  <2>1. \A x, y \in HttpTasks : x # y /\ job[x][n] # "none" => n \notin Claims(y)
    BY DEF IInv, Exclusive, Claims
  <2>2. \A x \in HttpTasks \ {w} : (n \in Claims(x)' <=> job[x][n] # "none") /\ job'[x] = job[x]
    BY DEF Alone, Claims, Resting, InStep
  <2>3. CASE v = w
    <3>1. job[u][n] # "none"
      BY <2>2, <2>3
    <3> QED
      BY <2>1, <2>3, <3>1
  <2>4. CASE v # w /\ u = w
    <3>1. n \in Claims(w)'
      BY <2>4 DEF Claims
    <3>2. n \in Claims(w) => job[v][n] = "none"
      BY <2>1, <2>4
    <3> QED
      BY <2>2, <2>4, <3>1, <3>2
  <2>5. CASE v # w /\ u # w
    BY <2>1, <2>2, <2>5 DEF Claims
  <2> QED
    BY <2>3, <2>4, <2>5
<1> QED
  BY <1>1, <1>2, <1>3, <1>4 DEF IInv

\* The other walkers wait, and a step that resets no completed node and
\* settles none of their nodes leaves them alone.
LEMMA LeftAlone ==
  ASSUME IInv, Typed', edges' = edges, NEW w \in HttpTasks, LoopFree(w),
         \A v \in HttpTasks \ {w} :
           /\ pc'[v] = pc[v] /\ ready'[v] = ready[v] /\ seen'[v] = seen[v] /\ job'[v] = job[v]
           /\ \A n \in Nodes : job[v][n] # "none" => node'[n] \in Started,
         \A m \in Nodes : node[m] = "completed" => node'[m] = "completed"
  PROVE  Alone(w)
<1> SUFFICES ASSUME NEW v \in HttpTasks \ {w}, NEW n \in Nodes, job[v][n] # "none"
             PROVE  DependenciesSatisfied(edges, node, n)'
  BY DEF Alone, LoopFree, Resting
<1>1. DependenciesSatisfied(edges, node, n)
  BY DEF IInv, Placed
<1> QED
  BY <1>1, DependenciesKept DEF IInv

\* A walker that only moves: the mission, the document and the jobs stay.
LEMMA QuietMove ==
  ASSUME IInv, NEW w \in HttpTasks, LoopFree(w), NEW l \in Labels,
         pc' = [pc EXCEPT ![w] = l],
         ready' \in [HttpTasks -> SUBSET Nodes],
         seen' \in [HttpTasks -> {"open", "success", "failure"}],
         \A v \in HttpTasks \ {w} : ready'[v] = ready[v] /\ seen'[v] = seen[v],
         UNCHANGED <<edges, status, node, attempts, brief, disk, job>>,
         Turn(w)',
         l \in InStep => pc[w] \in InStep /\ ready'[w] = ready[w],
         pc[w] \in InStep /\ l \notin InStep => \A n \in Nodes : job[w][n] \in {"none"} \cup Stray,
         pc[w] = "run" /\ l # "run" => \A n \in Nodes : job[w][n] \notin {"queued"} \cup Live
  PROVE  IInv'
<1>1. pc \in [HttpTasks -> Labels] /\ pc' \in [HttpTasks -> Labels] /\ pc'[w] = l
      /\ \A v \in HttpTasks \ {w} : pc'[v] = pc[v]
  BY DEF IInv, Typed
<1>2. Typed'
  BY <1>1 DEF IInv, Typed
<1>3. Alone(w)
  <2>1. \A v \in HttpTasks, n \in Nodes : job[v][n] # "none" => node[n] \in Started
    BY DEF IInv, Placed
  <2> QED
    BY <1>1, <1>2, <2>1, LeftAlone
<1>4. Sound(status, node, brief)' /\ Sound(disk.status, disk.node, disk.brief)' /\ Kept'
  BY DEF IInv, Sound, AllDone, Circular, Kept
<1>5. Placed(w)'
  <2>1. Placed(w)
    BY DEF IInv
  <2> QED
    BY <1>1, <2>1 DEF Placed, InStep
<1>6. Claims(w)' \subseteq Claims(w)
  BY <1>1 DEF Claims
<1> QED
  BY <1>2, <1>3, <1>4, <1>5, <1>6, OneWalker

\* The same with the walker's list and reading unchanged, outside a step.
LEMMA PlainMove ==
  ASSUME IInv, NEW w \in HttpTasks, LoopFree(w), NEW l \in Labels \ InStep,
         pc' = [pc EXCEPT ![w] = l], pc[w] \notin InStep,
         UNCHANGED <<edges, status, node, attempts, brief, disk, job, ready, seen>>,
         l \notin {"mark", "close"},
         l = "launch" => status \in {"ready", "validated"},
         l \in {"durable", "check"} => status = "running",
         l = "select" => status \notin Terminal \cup {"paused"},
         l = "reprise" => status \in Terminal,
         l = "rearm" => status = "ready"
  PROVE  IInv'
<1>1. pc'[w] = l /\ ready \in [HttpTasks -> SUBSET Nodes]
      /\ seen \in [HttpTasks -> {"open", "success", "failure"}]
  BY DEF IInv, Typed
<1>2. Turn(w)'
  BY <1>1 DEF Turn, InStep
<1>3. pc[w] # "run"
  BY DEF InStep
<1> QED
  BY <1>1, <1>2, <1>3, QuietMove

LEMMA StartCheckKeeps ==
  ASSUME Regime, IInv, NEW w \in HttpTasks, LoopFree(w), StartCheck(w) PROVE IInv'
<1>1. pc[w] \notin InStep /\ UNCHANGED <<edges, status, node, attempts, brief, disk, job, ready, seen>>
  BY DEF StartCheck, InStep, mission
<1>2. CASE status \in {"ready", "validated"} /\ pc' = [pc EXCEPT ![w] = "launch"]
  <2>1. "launch" \in Labels \ InStep
    BY DEF Labels, InStep
  <2> QED
    BY <1>1, <1>2, <2>1, PlainMove
<1>3. CASE pc' = [pc EXCEPT ![w] = "idle"]
  <2>1. "idle" \in Labels \ InStep
    BY DEF Labels, InStep
  <2> QED
    BY <1>1, <1>3, <2>1, PlainMove
<1> QED
  BY <1>2, <1>3, OnlyRequests DEF StartCheck, Goto

LEMMA CheckKeeps ==
  ASSUME Regime, IInv, NEW w \in HttpTasks, LoopFree(w), Check(w) PROVE IInv'
<1>1. pc[w] \notin InStep /\ UNCHANGED <<edges, status, node, attempts, brief, disk, job, ready, seen>>
  BY DEF Check, InStep, mission
<1>2. CASE status \notin Terminal \cup {"paused"} /\ pc' = [pc EXCEPT ![w] = "select"]
  <2>1. "select" \in Labels \ InStep
    BY DEF Labels, InStep
  <2> QED
    BY <1>1, <1>2, <2>1, PlainMove
<1>3. CASE pc' = [pc EXCEPT ![w] = "exit"]
  <2>1. "exit" \in Labels \ InStep
    BY DEF Labels, InStep
  <2> QED
    BY <1>1, <1>3, <2>1, PlainMove
<1> QED
  BY <1>2, <1>3 DEF Check, Goto, KeepsWalking

LEMMA ExitKeeps ==
  ASSUME Regime, IInv, NEW w \in HttpTasks, LoopFree(w), Exit(w) PROVE IInv'
<1>1. pc[w] \notin InStep /\ UNCHANGED <<edges, status, node, attempts, brief, disk, job, ready, seen>>
  BY DEF Exit, InStep, mission
<1>2. CASE status \in Terminal /\ pc' = [pc EXCEPT ![w] = "reprise"]
  <2>1. "reprise" \in Labels \ InStep
    BY DEF Labels, InStep
  <2> QED
    BY <1>1, <1>2, <2>1, PlainMove
<1>3. CASE pc' = [pc EXCEPT ![w] = "idle"]
  <2>1. "idle" \in Labels \ InStep
    BY DEF Labels, InStep
  <2> QED
    BY <1>1, <1>3, <2>1, PlainMove
<1> QED
  BY <1>2, <1>3, OnlyRequests DEF Exit, Goto

\* get_ready_nodes: the list is right until the nodes are marked.
LEMMA SelectKeeps ==
  ASSUME Regime, IInv, NEW w \in HttpTasks, LoopFree(w), Select(w) PROVE IInv'
<1>t. ready \in [HttpTasks -> SUBSET Nodes] /\ pc \in [HttpTasks -> Labels]
      /\ node \in [Nodes -> Reached] /\ seen \in [HttpTasks -> {"open", "success", "failure"}]
  BY DEF IInv, Typed
<1>1. /\ pc[w] = "select"
      /\ ready' = [ready EXCEPT ![w] = GetReadyNodes(edges, node)]
      /\ UNCHANGED <<edges, status, node, attempts, brief, disk, job, seen>>
      /\ pc' = [pc EXCEPT ![w] = IF GetReadyNodes(edges, node) = {} THEN "exit" ELSE "mark"]
  <2>1. ready' = [ready EXCEPT ![w] = GetReadyNodes(edges, node)]
    BY DEF Select
  <2>2. ready'[w] = GetReadyNodes(edges, node)
    BY <1>t, <2>1
  <2> QED
    BY <2>1, <2>2 DEF Select, Goto, mission
<1>2. GetReadyNodes(edges, node) \in SUBSET Nodes
  BY <1>t DEF GetReadyNodes
<1>3. ready' \in [HttpTasks -> SUBSET Nodes] /\ \A v \in HttpTasks \ {w} : ready'[v] = ready[v]
  BY <1>1, <1>2, <1>t
<1>4. status \notin Terminal \cup {"paused"}
  BY <1>1 DEF IInv, Turn
<1>5. PICK l \in {"exit", "mark"} : pc' = [pc EXCEPT ![w] = l]
                                   /\ (l = "mark" => GetReadyNodes(edges, node) # {})
  BY <1>1
<1>6. pc'[w] = l
  BY <1>5, <1>t
<1>7. Turn(w)'
  <2>1. pc'[w] = "mark" => /\ ready'[w] = GetReadyNodes(edges, node) /\ ready'[w] # {}
                          /\ GetReadyNodes(edges, node)' = GetReadyNodes(edges, node)
    BY <1>1, <1>5, <1>6, <1>t DEF GetReadyNodes, DependenciesSatisfied
  <2> QED
    BY <1>1, <1>4, <1>6, <2>1 DEF Turn, InStep
<1>8. l \in Labels /\ l \notin InStep /\ pc[w] \notin InStep /\ pc[w] # "run"
  BY <1>1 DEF Labels, InStep
<1> QED
  BY <1>1, <1>3, <1>5, <1>7, <1>8, <1>t, QuietMove

LEMMA HarvestKeeps ==
  ASSUME Regime, IInv, NEW w \in HttpTasks, LoopFree(w), Harvest(w) PROVE IInv'
<1>t. ready \in [HttpTasks -> SUBSET Nodes] /\ pc \in [HttpTasks -> Labels]
      /\ seen \in [HttpTasks -> {"open", "success", "failure"}]
  BY DEF IInv, Typed
<1>1. /\ pc[w] = "run" /\ pc' = [pc EXCEPT ![w] = "collect"]
      /\ UNCHANGED <<edges, status, node, attempts, brief, disk, job, ready, seen>>
      /\ Jobs(w, {"queued"} \cup Live) = {}
  BY DEF Harvest, Goto, mission
<1>2. \A n \in Nodes : job[w][n] \notin {"queued"} \cup Live
  BY <1>1 DEF IInv, Placed, Jobs, Live, Stray
<1>3. pc'[w] = "collect"
  BY <1>1, <1>t
<1>4. Turn(w)'
  BY <1>1, <1>3 DEF IInv, Turn, InStep
<1> QED
  BY <1>1, <1>2, <1>4, <1>t, QuietMove DEF Labels, InStep

\* The verdict of all the nodes is in: an all-completed mission is seen so.
LEMMA TallyKeeps ==
  ASSUME Regime, IInv, NEW w \in HttpTasks, LoopFree(w), Tally(w) PROVE IInv'
<1>t. ready \in [HttpTasks -> SUBSET Nodes] /\ pc \in [HttpTasks -> Labels]
      /\ seen \in [HttpTasks -> {"open", "success", "failure"}]
      /\ node \in [Nodes -> Reached]
  BY DEF IInv, Typed
<1>1. /\ pc[w] = "collect" /\ ready[w] = {}
      /\ UNCHANGED <<edges, status, node, attempts, brief, disk, job, ready>>
  BY DEF Tally, mission
<1>2. \A n \in Nodes : job[w][n] \in {"none"} \cup Stray
  BY <1>1 DEF IInv, Placed
<1>3. status \notin Terminal \cup {"paused"}
  BY <1>1 DEF IInv, Turn
<1>4. CASE pc' = [pc EXCEPT ![w] = "sleep"] /\ seen' = seen
  <2>1. pc'[w] = "sleep"
    BY <1>4, <1>t
  <2>2. Turn(w)'
    BY <2>1 DEF Turn, InStep
  <2> QED
    BY <1>1, <1>2, <1>4, <1>t, <2>2, QuietMove DEF Labels, InStep
<1>5. ASSUME pc' = [pc EXCEPT ![w] = "close"], AllSettled(node),
             seen' = [seen EXCEPT ![w] = IF NoneFailed(node) THEN "success" ELSE "failure"]
      PROVE  IInv'
  <2>1. pc'[w] = "close" /\ seen'[w] = IF NoneFailed(node) THEN "success" ELSE "failure"
    BY <1>5, <1>t
  <2>2. NoneFailed(node) => AllDone(node)
    <3>1. \A n \in Nodes : node[n] # "skipped"
      BY <1>t DEF Reached
    <3> QED
      BY <1>5, <1>t, <3>1 DEF AllSettled, NoneFailed, AllDone
  <2>3. Turn(w)'
    BY <1>1, <1>3, <2>1, <2>2 DEF Turn, InStep, AllDone
  <2>4. seen' \in [HttpTasks -> {"open", "success", "failure"}]
        /\ \A v \in HttpTasks \ {w} : seen'[v] = seen[v]
    BY <1>5, <1>t
  <2> QED
    BY <1>1, <1>2, <1>5, <1>t, <2>3, <2>4, QuietMove DEF Labels, InStep
<1> QED
  BY <1>4, <1>5, OnlyRequests DEF Tally, Goto

\* A walker moves outside its step and may change what the mission says of
\* itself, in memory and in the document; the nodes and the jobs stay.
LEMMA StatusMove ==
  ASSUME IInv, NEW w \in HttpTasks, LoopFree(w), NEW l \in Labels \ InStep,
         pc[w] \notin InStep, pc' = [pc EXCEPT ![w] = l],
         UNCHANGED <<edges, node, attempts, ready, job>>,
         seen' \in [HttpTasks -> {"open", "success", "failure"}],
         \A v \in HttpTasks \ {w} : seen'[v] = seen[v],
         status' \in MissionStatus, brief' \in BOOLEAN,
         status' = "completed" \/ brief' = TRUE => AllDone(node),
         disk' = disk \/ disk' = Document',
         Turn(w)'
  PROVE  IInv'
<1>1. pc \in [HttpTasks -> Labels] /\ pc' \in [HttpTasks -> Labels] /\ pc'[w] = l
      /\ \A v \in HttpTasks \ {w} : pc'[v] = pc[v]
  BY DEF IInv, Typed
<1>2. Sound(status, node, brief)'
  BY DEF IInv, Sound, AllDone, Circular
<1>3. node' \in [Nodes -> Reached] /\ attempts' \in Nat /\ attempts' = attempts
      /\ \A m \in Nodes : node[m] = "completed" => node'[m] = "completed"
  BY DEF IInv, Typed
<1>4. /\ Sound(disk.status, disk.node, disk.brief)' /\ Kept'
      /\ disk'.status \in MissionStatus /\ disk'.node \in [Nodes -> Reached]
      /\ disk'.attempts \in Nat /\ disk'.brief \in BOOLEAN
  BY <1>2, <1>3, DocumentKept
<1>5. Typed'
  BY <1>1, <1>3, <1>4 DEF IInv, Typed
<1>6. Alone(w)
  <2>1. \A v \in HttpTasks, n \in Nodes : job[v][n] # "none" => node[n] \in Started
    BY DEF IInv, Placed
  <2> QED
    BY <1>1, <1>5, <2>1, LeftAlone
<1>7. Placed(w)'
  <2>1. Placed(w)
    BY DEF IInv
  <2> QED
    BY <1>1, <2>1 DEF Placed, InStep
<1>8. Claims(w)' \subseteq Claims(w)
  BY <1>1 DEF Claims
<1> QED
  BY <1>2, <1>4, <1>5, <1>6, <1>7, <1>8, OneWalker

LEMMA LaunchKeeps ==
  ASSUME Regime, IInv, NEW w \in HttpTasks, LoopFree(w), Launch(w) PROVE IInv'
<1>1. /\ pc[w] \notin InStep /\ pc' = [pc EXCEPT ![w] = "durable"]
      /\ UNCHANGED <<edges, node, attempts, brief, disk, ready, seen, job>>
      /\ status' = "running"
  BY DEF Launch, Goto, InStep
<1>2. pc'[w] = "durable" /\ brief \in BOOLEAN
      /\ seen \in [HttpTasks -> {"open", "success", "failure"}]
      /\ (brief = TRUE => AllDone(node))
  BY <1>1 DEF IInv, Typed, Sound
<1>3. Turn(w)'
  BY <1>1, <1>2 DEF Turn, InStep
<1>4. status' \in MissionStatus /\ "durable" \in Labels \ InStep
  BY <1>1 DEF MissionStatus, Labels, InStep
<1>5. status' = "completed" \/ brief' = TRUE => AllDone(node)
  BY <1>1, <1>2
<1> QED
  BY <1>1, <1>2, <1>3, <1>4, <1>5, StatusMove

LEMMA DurableKeeps ==
  ASSUME Regime, IInv, NEW w \in HttpTasks, LoopFree(w), Durable(w) PROVE IInv'
<1>1. /\ pc[w] = "durable"
      /\ UNCHANGED <<edges, status, node, attempts, brief, ready, seen, job>>
      /\ disk' = disk \/ disk' = Document'
      /\ \E l \in {"check", "idle"} : pc' = [pc EXCEPT ![w] = l]
  BY OnlyRequests DEF Durable, Rendre, Goto, mission
<1>2. PICK l \in {"check", "idle"} : pc' = [pc EXCEPT ![w] = l]
  BY <1>1
<1>3. /\ pc'[w] = l /\ brief \in BOOLEAN /\ status \in MissionStatus
      /\ seen \in [HttpTasks -> {"open", "success", "failure"}]
      /\ (status = "completed" \/ brief = TRUE => AllDone(node))
  BY <1>2 DEF IInv, Typed, Sound
<1>4. status = "running"
  BY <1>1 DEF IInv, Turn
<1>5. Turn(w)'
  BY <1>1, <1>3, <1>4 DEF Turn, InStep
<1>6. l \in Labels \ InStep /\ pc[w] \notin InStep
  BY <1>1 DEF Labels, InStep
<1> QED
  BY <1>1, <1>2, <1>3, <1>5, <1>6, StatusMove

\* Before start_mission the mission is made ready, which it already is.
LEMMA RearmKeeps ==
  ASSUME Regime, IInv, NEW w \in HttpTasks, LoopFree(w), Rearm(w) PROVE IInv'
<1>1. /\ pc[w] \notin InStep /\ pc' = [pc EXCEPT ![w] = "startcheck"]
      /\ UNCHANGED <<edges, node, attempts, brief, disk, ready, seen, job>>
      /\ status' = "ready"
  BY DEF Rearm, Goto, InStep
<1>2. pc'[w] = "startcheck" /\ brief \in BOOLEAN
      /\ seen \in [HttpTasks -> {"open", "success", "failure"}]
      /\ (brief = TRUE => AllDone(node))
  BY <1>1 DEF IInv, Typed, Sound
<1>3. Turn(w)'
  BY <1>1, <1>2 DEF Turn, InStep
<1>4. status' \in MissionStatus /\ "startcheck" \in Labels \ InStep
  BY <1>1 DEF MissionStatus, Labels, InStep
<1>5. status' = "completed" \/ brief' = TRUE => AllDone(node)
  BY <1>1, <1>2
<1> QED
  BY <1>1, <1>2, <1>3, <1>4, <1>5, StatusMove

\* The verdict read before the lock still holds under it.
LEMMA CloseKeeps ==
  ASSUME Regime, IInv, NEW w \in HttpTasks, LoopFree(w), Close(w) PROVE IInv'
<1>1. /\ pc[w] = "close"
      /\ UNCHANGED <<edges, node, attempts, ready, job>>
      /\ disk' = disk \/ disk' = Document'
      /\ seen' = [seen EXCEPT ![w] = "open"]
      /\ status' = status \/ status' = "failed" \/ (seen[w] = "success" /\ status' = "completed")
      /\ brief' = brief \/ (seen[w] = "success" /\ brief' = TRUE)
      /\ \E l \in {"sleep", "idle"} : pc' = [pc EXCEPT ![w] = l]
  BY OnlyRequests DEF Close, MayContradict, Rendre, Goto, mission
<1>2. PICK l \in {"sleep", "idle"} : pc' = [pc EXCEPT ![w] = l]
  BY <1>1
<1>3. /\ pc'[w] = l /\ brief \in BOOLEAN /\ status \in MissionStatus
      /\ seen \in [HttpTasks -> {"open", "success", "failure"}]
      /\ (status = "completed" \/ brief = TRUE => AllDone(node))
      /\ (seen[w] = "success" => AllDone(node))
  BY <1>1, <1>2 DEF IInv, Typed, Sound, Turn
<1>4. /\ seen' \in [HttpTasks -> {"open", "success", "failure"}]
      /\ \A v \in HttpTasks \ {w} : seen'[v] = seen[v]
  BY <1>1, <1>3
<1>5. Turn(w)'
  BY <1>2, <1>3 DEF Turn, InStep
<1>6. l \in Labels \ InStep /\ pc[w] \notin InStep /\ status' \in MissionStatus
  BY <1>1, <1>3 DEF Labels, InStep, MissionStatus
<1>7. brief' \in BOOLEAN
  BY <1>1, <1>3
<1>8. status' = "completed" \/ brief' = TRUE => AllDone(node)
  BY <1>1, <1>3
<1> QED
  BY <1>1, <1>2, <1>4, <1>5, <1>6, <1>7, <1>8, StatusMove

LEMMA HttpStartKeeps ==
  ASSUME Regime, IInv, NEW h \in HttpTasks, HttpStart(h) PROVE IInv'
<1>1. /\ pc[h] = "idle" /\ LoopFree(h)
      /\ UNCHANGED <<edges, node, attempts, brief, disk, ready, seen, job>>
      /\ status' = status \/ status' \in {"failed", "paused"}
      /\ pc' = pc \/ pc' = [pc EXCEPT ![h] = "startcheck"]
  BY DEF HttpStart, Goto
<1>2. PICK l \in {"idle", "startcheck"} : pc' = [pc EXCEPT ![h] = l]
  <2>1. pc = [pc EXCEPT ![h] = "idle"]
    BY <1>1 DEF IInv, Typed
  <2> QED
    BY <1>1, <2>1
<1>3. /\ pc'[h] = l /\ brief \in BOOLEAN /\ status \in MissionStatus
      /\ seen \in [HttpTasks -> {"open", "success", "failure"}]
      /\ (status = "completed" \/ brief = TRUE => AllDone(node))
  BY <1>2 DEF IInv, Typed, Sound
<1>4. Turn(h)'
  BY <1>3 DEF Turn, InStep
<1>5. l \in Labels \ InStep /\ pc[h] \notin InStep /\ status' \in MissionStatus
  BY <1>1, <1>3 DEF Labels, InStep, MissionStatus
<1>6. status' = "completed" \/ brief' = TRUE => AllDone(node)
  BY <1>1, <1>3
<1> QED
  BY <1>1, <1>2, <1>3, <1>4, <1>5, <1>6, StatusMove

LEMMA HttpResumeKeeps ==
  ASSUME Regime, IInv, NEW h \in HttpTasks, HttpResume(h) PROVE IInv'
<1>1. /\ pc[h] \notin InStep /\ LoopFree(h) /\ pc' = [pc EXCEPT ![h] = "check"]
      /\ UNCHANGED <<edges, node, attempts, brief, disk, ready, seen, job>>
      /\ status' = "running"
  BY DEF HttpResume, Goto, InStep
<1>2. pc'[h] = "check" /\ brief \in BOOLEAN
      /\ seen \in [HttpTasks -> {"open", "success", "failure"}]
      /\ (brief = TRUE => AllDone(node))
  BY <1>1 DEF IInv, Typed, Sound
<1>3. Turn(h)'
  BY <1>1, <1>2 DEF Turn, InStep
<1>4. status' \in MissionStatus /\ "check" \in Labels \ InStep
  BY <1>1 DEF MissionStatus, Labels, InStep
<1>5. status' = "completed" \/ brief' = TRUE => AllDone(node)
  BY <1>1, <1>2
<1> QED
  BY <1>1, <1>2, <1>3, <1>4, <1>5, StatusMove

\* Every coroutine waits: a request that is only a status change.
LEMMA RequestKeeps ==
  ASSUME IInv, HttpPause \/ Cancel PROVE IInv'
<1>1. /\ \A v \in HttpTasks : pc[v] \in Resting
      /\ UNCHANGED <<edges, node, attempts, brief, pc, ready, seen, job>>
      /\ status' \in {"paused", "cancelled"}
      /\ disk' = disk \/ disk' = Document'
  BY DEF HttpPause, Cancel, LoopIdle, Resting, walk
<1>2. status' \in MissionStatus
  BY <1>1 DEF MissionStatus
<1>3. Sound(status, node, brief)'
  BY <1>1 DEF IInv, Sound, AllDone, Circular
<1>4. node' \in [Nodes -> Reached] /\ attempts' \in Nat /\ attempts' = attempts /\ brief' \in BOOLEAN
      /\ \A m \in Nodes : node[m] = "completed" => node'[m] = "completed"
  BY <1>1 DEF IInv, Typed
<1>5. /\ Sound(disk.status, disk.node, disk.brief)' /\ Kept'
      /\ disk'.status \in MissionStatus /\ disk'.node \in [Nodes -> Reached]
      /\ disk'.attempts \in Nat /\ disk'.brief \in BOOLEAN
  BY <1>1, <1>2, <1>3, <1>4, DocumentKept
<1>6. Typed' /\ OneActive' /\ Exclusive'
  BY <1>1, <1>2, <1>5 DEF IInv, Typed, OneActive, Exclusive
<1>7. ASSUME NEW v \in HttpTasks PROVE Turn(v)' /\ Placed(v)'
  <2>1. Placed(v)
    BY DEF IInv
  <2>2. Placed(v)'
    BY <1>1, <2>1 DEF Placed, DependenciesSatisfied
  <2>3. Turn(v)'
    BY <1>1 DEF Turn, InStep, Resting
  <2> QED
    BY <2>2, <2>3
<1> QED
  BY <1>3, <1>5, <1>6, <1>7 DEF IInv

\* A restart reads the document back, and nobody walks.
LEMMA RestartKeeps ==
  ASSUME Regime, IInv, Restart PROVE IInv'
<1>1. /\ status' = disk.status /\ node' = disk.node /\ attempts' = disk.attempts
      /\ brief' = disk.brief /\ UNCHANGED <<edges, disk>>
      /\ pc' = [w \in HttpTasks |-> "idle"]
      /\ ready' = [w \in HttpTasks |-> {}]
      /\ seen' = [w \in HttpTasks |-> "open"]
      /\ job' = [w \in HttpTasks |-> [n \in Nodes |-> "none"]]
  BY OnlyRequests DEF Restart
<1>2. Typed'
  BY <1>1 DEF IInv, Typed, Labels, JobState
<1>3. OneActive' /\ Exclusive'
  BY <1>1 DEF OneActive, Exclusive, Resting
<1>4. Sound(status, node, brief)' /\ Sound(disk.status, disk.node, disk.brief)'
  BY <1>1 DEF IInv, Sound, AllDone, Circular
<1>5. Kept'
  BY <1>1 DEF IInv, Typed, Kept
<1>6. ASSUME NEW v \in HttpTasks PROVE Turn(v)' /\ Placed(v)'
  <2>1. pc'[v] = "idle" /\ \A n \in Nodes : job'[v][n] = "none"
    BY <1>1
  <2>2. Turn(v)'
    BY <2>1 DEF Turn, InStep
  <2>3. Placed(v)'
    BY <2>1 DEF Placed, Live
  <2> QED
    BY <2>2, <2>3
<1> QED
  BY <1>2, <1>3, <1>4, <1>5, <1>6 DEF IInv

\* One job of w moves on, whoever holds the loop: it ends, its thread goes on
\* unread, or it is one of those the current step of w waits for.
LEMMA JobMove ==
  ASSUME IInv, NEW w \in HttpTasks, NEW n \in Nodes, NEW s \in JobState,
         job' = [job EXCEPT ![w][n] = s],
         UNCHANGED <<edges, status, node, attempts, brief, disk, pc, ready, seen>>,
         \/ job[w][n] \in Stray /\ s \in {"none"} \cup Stray
         \/ job[w][n] \in {"queued"} \cup Live
  PROVE  IInv'
<1>1. job \in [HttpTasks -> [Nodes -> JobState]]
  BY DEF IInv, Typed
<1>2. /\ job' \in [HttpTasks -> [Nodes -> JobState]]
      /\ job'[w][n] = s
      /\ \A v \in HttpTasks, m \in Nodes : v # w \/ m # n => job'[v][m] = job[v][m]
  BY <1>1
<1>3. job[w][n] # "none"
  BY DEF Stray, Live
<1>4. Typed' /\ OneActive'
  BY <1>2 DEF IInv, Typed, OneActive
<1>5. Sound(status, node, brief)' /\ Sound(disk.status, disk.node, disk.brief)' /\ Kept'
  BY DEF IInv, Sound, AllDone, Circular, Kept
<1>6. Exclusive'
  BY <1>2, <1>3 DEF IInv, Exclusive
<1>7. ASSUME NEW v \in HttpTasks PROVE Turn(v)'
  <2>1. Turn(v)
    BY DEF IInv
  <2> QED
    BY <2>1 DEF Turn, AllDone
<1>8. ASSUME NEW v \in HttpTasks PROVE Placed(v)'
  <2> SUFFICES ASSUME NEW m \in Nodes
               PROVE  /\ job'[v][m] # "none" =>
                           node[m] \in Started /\ DependenciesSatisfied(edges, node, m)
                      /\ job'[v][m] \notin {"none"} \cup Stray => pc[v] \in InStep /\ m \in ready[v]
                      /\ job'[v][m] \in {"queued"} \cup Live => pc[v] = "run"
    BY DEF Placed, DependenciesSatisfied
  <2>1. Placed(v) /\ Placed(w)
    BY DEF IInv
  <2>2. CASE v = w /\ m = n
    <3>1. node[m] \in Started /\ DependenciesSatisfied(edges, node, m)
      BY <1>3, <2>1, <2>2 DEF Placed
    <3>2. job[w][n] \in {"queued"} \cup Live => pc[w] = "run" /\ pc[w] \in InStep /\ n \in ready[w]
      BY <2>1 DEF Placed, Live, Stray, InStep
    <3>3. s \in {"none"} \cup Stray => s \notin {"queued"} \cup Live
      BY DEF Live, Stray
    <3> QED
      BY <1>2, <2>2, <3>1, <3>2, <3>3
  <2>3. CASE v # w \/ m # n
    BY <1>2, <2>1, <2>3 DEF Placed
  <2> QED
    BY <2>2, <2>3
<1> QED
  BY <1>4, <1>5, <1>6, <1>7, <1>8 DEF IInv

LEMMA JobStepKeeps ==
  ASSUME IInv, NEW w \in HttpTasks, NEW n \in Nodes, JobStep(w, n) PROVE IInv'
<1>1. \E s \in JobState :
        /\ SetJob(w, n, s)
        /\ \/ job[w][n] \in Stray /\ s \in {"none"} \cup Stray
           \/ job[w][n] \in {"queued"} \cup Live
  BY DEF JobStep, LetIn, Saturate, Return, JobState, Stray, Live
<1> QED
  BY <1>1, JobMove DEF SetJob, mission, walk

LEMMA TakeKeeps ==
  ASSUME Regime, IInv, NEW w \in HttpTasks, LoopFree(w), Take(w) PROVE IInv'
<1>1. Jobs(w, {"queued"}) \in SUBSET Nodes
  BY DEF IInv, Typed, Jobs
<1>2. PICK n \in Jobs(w, {"queued"}) : SetJob(w, n, "waiting")
  BY <1>1, FirstIsIn DEF Take
<1>3. n \in Nodes /\ job[w][n] = "queued" /\ "waiting" \in JobState
  BY <1>1, <1>2 DEF Jobs, JobState, Live
<1> QED
  BY <1>2, <1>3, JobMove DEF SetJob, mission, walk

\* The pool's timeout: what was cancelled has answered, what had started goes
\* on as a stray thread, and the list of nodes to collect is the same.
LEMMA StepTimeoutKeeps ==
  ASSUME Regime, IInv, NEW w \in HttpTasks, LoopFree(w), StepTimeout(w) PROVE IInv'
<1>1. /\ pc[w] = "run" /\ pc' = [pc EXCEPT ![w] = "collect"]
      /\ UNCHANGED <<edges, status, node, attempts, brief, disk, ready, seen>>
      /\ job' = [job EXCEPT ![w] = [n \in Nodes |->
               CASE n \in ready[w] /\ job[w][n] = "running" -> "strayRunning"
                 [] n \in ready[w] /\ job[w][n] = "waiting" -> "strayWaiting"
                 [] n \in ready[w] /\ job[w][n] = "queued" -> "ko"
                 [] OTHER -> job[w][n]]]
  BY DEF StepTimeout, Goto, mission
<1>2. job \in [HttpTasks -> [Nodes -> JobState]] /\ pc \in [HttpTasks -> Labels]
  BY DEF IInv, Typed
<1>3. /\ pc' \in [HttpTasks -> Labels] /\ pc'[w] = "collect"
      /\ \A v \in HttpTasks \ {w} : pc'[v] = pc[v] /\ job'[v] = job[v]
  BY <1>1, <1>2 DEF Labels
<1>4. \A n \in Nodes : job'[w][n] =
               CASE n \in ready[w] /\ job[w][n] = "running" -> "strayRunning"
                 [] n \in ready[w] /\ job[w][n] = "waiting" -> "strayWaiting"
                 [] n \in ready[w] /\ job[w][n] = "queued" -> "ko"
                 [] OTHER -> job[w][n]
  BY <1>1, <1>2
<1>5. \A n \in Nodes : /\ job'[w][n] \in JobState
                       /\ job'[w][n] # "none" => job[w][n] # "none"
                       /\ job'[w][n] \notin {"none"} \cup Stray => job[w][n] \notin {"none"} \cup Stray
                       /\ n \in ready[w] => job'[w][n] \notin {"queued"} \cup Live
                       /\ n \notin ready[w] => job'[w][n] = job[w][n]
  <2> SUFFICES ASSUME NEW n \in Nodes
               PROVE  /\ job'[w][n] \in JobState
                      /\ job'[w][n] # "none" => job[w][n] # "none"
                      /\ job'[w][n] \notin {"none"} \cup Stray => job[w][n] \notin {"none"} \cup Stray
                      /\ n \in ready[w] => job'[w][n] \notin {"queued"} \cup Live
                      /\ n \notin ready[w] => job'[w][n] = job[w][n]
    OBVIOUS
  <2>1. job[w][n] \in JobState
    BY <1>2
  <2> QED
    BY <1>4, <2>1 DEF JobState, Live, Stray
<1>6. job' \in [HttpTasks -> [Nodes -> JobState]]
  <2>1. job'[w] \in [Nodes -> JobState]
    <3>1. job'[w] = [n \in Nodes |-> job'[w][n]]
      BY <1>1, <1>2
    <3> QED
      BY <1>5, <3>1
  <2> QED
    BY <1>1, <1>2, <1>3, <2>1
<1>7. Typed'
  BY <1>1, <1>3, <1>6 DEF IInv, Typed
<1>8. Sound(status, node, brief)' /\ Sound(disk.status, disk.node, disk.brief)' /\ Kept'
  BY <1>1 DEF IInv, Sound, AllDone, Circular, Kept
<1>9. Alone(w)
  <2>1. \A v \in HttpTasks, n \in Nodes : job[v][n] # "none" => node[n] \in Started
    BY DEF IInv, Placed
  <2> QED
    BY <1>1, <1>3, <1>7, <2>1, LeftAlone
<1>10. Turn(w)'
  BY <1>1, <1>3 DEF IInv, Turn, InStep
<1>11. Placed(w)'
  <2>1. Placed(w)
    BY DEF IInv
  <2> SUFFICES ASSUME NEW n \in Nodes
               PROVE  /\ job'[w][n] # "none" =>
                           node[n] \in Started /\ DependenciesSatisfied(edges, node, n)
                      /\ job'[w][n] \notin {"none"} \cup Stray => n \in ready[w]
                      /\ job'[w][n] \notin {"queued"} \cup Live
    BY <1>1, <1>3 DEF Placed, DependenciesSatisfied, InStep
  <2>2. job[w][n] \in {"queued"} \cup Live => n \in ready[w]
    BY <2>1 DEF Placed, Live, Stray
  <2> QED
    BY <1>5, <2>1, <2>2 DEF Placed
<1>12. Claims(w)' \subseteq Claims(w)
  BY <1>1, <1>3, <1>5 DEF Claims, InStep
<1> QED
  BY <1>7, <1>8, <1>9, <1>10, <1>11, <1>12, OneWalker

\* Nodes that are ready wait for none of the nodes of a circular set, and
\* nobody has a job for them.
LEMMA ReadyIsFree ==
  ASSUME IInv, NEW n \in GetReadyNodes(edges, node)
  PROVE  /\ n \in Nodes /\ node[n] = "pending"
         /\ DependenciesSatisfied(edges, node, n)
         /\ \A v \in HttpTasks : job[v][n] = "none"
         /\ \A U \in SUBSET Nodes : Circular(U) => n \notin U
<1>1. /\ n \in Nodes /\ node[n] = "pending" /\ DependenciesSatisfied(edges, node, n)
  BY DEF IInv, Typed, GetReadyNodes, Reached
<1>2. \A v \in HttpTasks : job[v][n] = "none"
  BY <1>1 DEF IInv, Placed, Started
<1>3. ASSUME NEW U \in SUBSET Nodes, Circular(U), n \in U PROVE FALSE
  <2>1. PICK d \in Sources(edges, n) : d \in U
    BY <1>3 DEF Circular
  <2>2. node[d] = "completed"
    BY <1>1, <2>1 DEF DependenciesSatisfied
  <2>3. node[d] \in {"pending", "blocked"}
    BY <1>3, <2>1 DEF IInv, Sound
  <2> QED
    BY <2>2, <2>3
<1> QED
  BY <1>1, <1>2, <1>3

\* The nodes are still ready when they are marked: the coroutine has not
\* given the loop back since it listed them.
LEMMA MarkKeeps ==
  ASSUME Regime, IInv, NEW w \in HttpTasks, LoopFree(w), Mark(w) PROVE IInv'
<1>1. /\ pc[w] = "mark" /\ pc' = [pc EXCEPT ![w] = "run"]
      /\ node' = [n \in Nodes |-> IF n \in ready[w] THEN "running" ELSE node[n]]
      /\ job' = [job EXCEPT ![w] = [n \in Nodes |->
                                  IF n \in ready[w] THEN "queued" ELSE job[w][n]]]
      /\ UNCHANGED <<edges, status, attempts, brief, disk, ready, seen>>
  BY DEF Mark, Goto
<1>2. /\ job \in [HttpTasks -> [Nodes -> JobState]] /\ pc \in [HttpTasks -> Labels]
      /\ node \in [Nodes -> Reached] /\ ready[w] \in SUBSET Nodes
      /\ attempts \in Nat /\ brief \in BOOLEAN /\ status \in MissionStatus
  BY DEF IInv, Typed
<1>3. /\ pc' \in [HttpTasks -> Labels] /\ pc'[w] = "run"
      /\ \A v \in HttpTasks \ {w} : pc'[v] = pc[v] /\ job'[v] = job[v]
  BY <1>1, <1>2 DEF Labels
<1>4. /\ status \notin Terminal \cup {"paused"}
      /\ ready[w] = GetReadyNodes(edges, node) /\ ready[w] # {}
  BY <1>1 DEF IInv, Turn
<1>5. \A n \in ready[w] :
         /\ n \in Nodes /\ node[n] = "pending"
         /\ DependenciesSatisfied(edges, node, n)
         /\ \A v \in HttpTasks : job[v][n] = "none"
         /\ \A U \in SUBSET Nodes : Circular(U) => n \notin U
  BY <1>4, ReadyIsFree
<1>6. /\ node' \in [Nodes -> Reached]
      /\ \A n \in Nodes : node'[n] = IF n \in ready[w] THEN "running" ELSE node[n]
      /\ \A m \in Nodes : node[m] = "completed" => node'[m] = "completed"
  BY <1>1, <1>2, <1>5 DEF Reached
<1>7. /\ job' \in [HttpTasks -> [Nodes -> JobState]]
      /\ \A n \in Nodes : job'[w][n] = IF n \in ready[w] THEN "queued" ELSE job[w][n]
  BY <1>1, <1>2 DEF JobState
<1>8. Sound(status, node, brief)'
  <2>1. ~ (status = "completed" \/ brief = TRUE)
    <3>1. PICK n \in ready[w] : TRUE
      BY <1>4
    <3>2. ~ AllDone(node)
      BY <1>5, <3>1 DEF AllDone
    <3> QED
      BY <3>2 DEF IInv, Sound
  <2>2. ASSUME NEW U \in SUBSET Nodes, Circular(U), NEW n \in U
        PROVE  node'[n] \in {"pending", "blocked"}
    <3>1. node[n] \in {"pending", "blocked"}
      BY <2>2 DEF IInv, Sound
    <3>2. n \notin ready[w]
      BY <1>5, <2>2
    <3> QED
      BY <1>6, <3>1, <3>2
  <2> QED
    BY <1>1, <2>1, <2>2 DEF Sound, Circular
<1>9. /\ Sound(disk.status, disk.node, disk.brief)' /\ Kept'
      /\ disk'.status \in MissionStatus /\ disk'.node \in [Nodes -> Reached]
      /\ disk'.attempts \in Nat /\ disk'.brief \in BOOLEAN
  BY <1>1, <1>2, <1>6, <1>8, DocumentKept
<1>10. Typed'
  BY <1>1, <1>3, <1>6, <1>7, <1>9 DEF IInv, Typed
<1>11. Alone(w)
  <2>1. \A v \in HttpTasks, n \in Nodes : job[v][n] # "none" => node[n] \in Started
    BY DEF IInv, Placed
  <2>2. \A v \in HttpTasks, n \in Nodes : job[v][n] # "none" => node'[n] \in Started
    BY <1>6, <2>1 DEF Started
  <2> QED
    BY <1>1, <1>3, <1>6, <1>10, <2>2, LeftAlone
<1>12. Turn(w)'
  BY <1>1, <1>2, <1>3, <1>4, <1>6 DEF Turn, InStep
<1>13. Placed(w)'
  <2> SUFFICES ASSUME NEW n \in Nodes
               PROVE  /\ job'[w][n] # "none" =>
                           node'[n] \in Started /\ DependenciesSatisfied(edges, node, n)'
                      /\ job'[w][n] \notin {"none"} \cup Stray => n \in ready[w]
    BY <1>1, <1>3 DEF Placed, InStep
  <2>1. Placed(w) /\ Typed
    BY DEF IInv
  <2>2. CASE n \in ready[w]
    <3>1. DependenciesSatisfied(edges, node, n)'
      BY <1>1, <1>5, <1>6, <1>10, <2>1, <2>2, DependenciesKept
    <3> QED
      BY <1>6, <2>2, <3>1 DEF Started
  <2>3. CASE n \notin ready[w]
    <3>1. job'[w][n] = job[w][n] /\ node'[n] = node[n]
      BY <1>6, <1>7, <2>3
    <3>2. job[w][n] \in {"none"} \cup Stray
      BY <1>1, <2>1 DEF Placed, InStep
    <3>3. job[w][n] # "none" => DependenciesSatisfied(edges, node, n)'
      BY <1>1, <1>6, <1>10, <2>1, DependenciesKept DEF Placed
    <3> QED
      BY <2>1, <3>1, <3>2, <3>3 DEF Placed
  <2> QED
    BY <2>2, <2>3
<1>14. \A n \in Claims(w)' : n \in Claims(w) \/ \A v \in HttpTasks \ {w} : job[v][n] = "none"
  <2> SUFFICES ASSUME NEW n \in Claims(w)', n \notin Claims(w)
               PROVE  n \in ready[w]
    BY <1>5
  <2> QED
    BY <1>1, <1>7 DEF Claims
<1> QED
  BY <1>8, <1>9, <1>10, <1>11, <1>12, <1>13, <1>14, OneWalker

\* The verdict of one node: its own walker waits for it, so no other has a job
\* for it, and only nodes that have not started are blocked by its failure.
LEMMA CollectKeeps ==
  ASSUME Regime, IInv, NEW w \in HttpTasks, LoopFree(w), Collect(w) PROVE IInv'
<1>t. /\ job \in [HttpTasks -> [Nodes -> JobState]] /\ pc \in [HttpTasks -> Labels]
      /\ node \in [Nodes -> Reached] /\ ready \in [HttpTasks -> SUBSET Nodes]
      /\ attempts \in Nat /\ brief \in BOOLEAN /\ status \in MissionStatus
  BY DEF IInv, Typed
<1>1. pc[w] = "collect" /\ ready[w] # {} /\ ready[w] \in SUBSET Nodes
  BY <1>t DEF Collect
<1>2. PICK n \in ready[w] :
       /\ node' = IF Succeeded(w, n) THEN MarkCompleted(node, n)
                                     ELSE MarkFailed(edges, node, n)
       /\ UNCHANGED <<status, started, attempts, brief>>
       /\ Rendre(w, "collect")
       /\ ready' = [ready EXCEPT ![w] = IF pc'[w] = "collect" THEN @ \ {n} ELSE {}]
       /\ job' = [job EXCEPT ![w] = [m \in Nodes |->
                    IF job[w][m] \in Stray \/ m \in ready'[w] THEN job[w][m] ELSE "none"]]
  BY <1>1, FirstIsIn DEF Collect
<1>3. UNCHANGED <<edges, seen>> /\ (disk' = disk \/ disk' = Document')
  BY <1>2 DEF Collect, Rendre
<1>4. PICK l \in {"collect", "idle"} : pc' = [pc EXCEPT ![w] = l]
  BY <1>2, OnlyRequests DEF Rendre, Goto
<1>5. pc' \in [HttpTasks -> Labels] /\ pc'[w] = l /\ \A v \in HttpTasks \ {w} : pc'[v] = pc[v]
  BY <1>4, <1>t DEF Labels
<1>6. /\ ready' \in [HttpTasks -> SUBSET Nodes]
      /\ ready'[w] = IF l = "collect" THEN ready[w] \ {n} ELSE {}
      /\ \A v \in HttpTasks \ {w} : ready'[v] = ready[v]
  BY <1>2, <1>5, <1>t
<1>7. /\ job' \in [HttpTasks -> [Nodes -> JobState]]
      /\ \A m \in Nodes : job'[w][m] =
           IF job[w][m] \in Stray \/ m \in ready'[w] THEN job[w][m] ELSE "none"
      /\ \A v \in HttpTasks \ {w} : job'[v] = job[v]
  BY <1>2, <1>t DEF JobState
<1>8. /\ n \in Nodes
      /\ status \notin Terminal \cup {"paused"}
      /\ \A m \in ready[w] : node[m] = "running"
  BY <1>1, <1>2 DEF IInv, Turn, InStep
<1>9. /\ node' \in [Nodes -> Reached]
      /\ node'[n] = IF Succeeded(w, n) THEN "completed" ELSE "failed"
      /\ \A m \in Nodes \ {n} :
           node'[m] = node[m] \/ (node[m] = "pending" /\ node'[m] = "blocked")
  <2>1. CASE Succeeded(w, n) /\ node' = [node EXCEPT ![n] = "completed"]
    BY <1>8, <1>t, <2>1 DEF Reached
  <2>2. CASE /\ ~ Succeeded(w, n)
             /\ node' = [m \in Nodes |->
                           IF m = n THEN "failed"
                           ELSE IF m \in Targets(edges, n) /\ node[m] = "pending" THEN "blocked"
                           ELSE node[m]]
    BY <1>8, <1>t, <2>2 DEF Reached
  <2>3. DOMAIN node = Nodes
    BY <1>t
  <2> QED
    BY <1>2, <2>1, <2>2, <2>3 DEF MarkCompleted, MarkFailed
<1>10. \A m \in Nodes : node[m] = "completed" => node'[m] = "completed"
  BY <1>2, <1>8, <1>9
<1>11. Sound(status, node, brief)'
  <2>1. ~ (status = "completed" \/ brief = TRUE)
    <3>1. ~ AllDone(node)
      BY <1>2, <1>8 DEF AllDone
    <3> QED
      BY <3>1 DEF IInv, Sound
  <2>2. ASSUME NEW U \in SUBSET Nodes, Circular(U), NEW m \in U
        PROVE  node'[m] \in {"pending", "blocked"}
    <3>1. node[m] \in {"pending", "blocked"}
      BY <2>2 DEF IInv, Sound
    <3>2. m # n
      BY <1>2, <1>8, <3>1
    <3> QED
      BY <1>9, <3>1, <3>2
  <2> QED
    BY <1>2, <1>3, <2>1, <2>2 DEF Sound, Circular
<1>12. /\ Sound(disk.status, disk.node, disk.brief)' /\ Kept'
       /\ disk'.status \in MissionStatus /\ disk'.node \in [Nodes -> Reached]
       /\ disk'.attempts \in Nat /\ disk'.brief \in BOOLEAN
  BY <1>2, <1>3, <1>9, <1>10, <1>11, <1>t, DocumentKept
<1>13. Typed'
  BY <1>2, <1>3, <1>5, <1>6, <1>7, <1>9, <1>12 DEF IInv, Typed
<1>14. Alone(w)
  <2> SUFFICES ASSUME NEW v \in HttpTasks \ {w}, NEW m \in Nodes, job[v][m] # "none"
               PROVE  node'[m] \in Started
    BY <1>3, <1>5, <1>6, <1>7, <1>10, <1>13, LeftAlone
  <2>1. node[m] \in Started
    BY DEF IInv, Placed
  <2>2. m # n
    BY <1>1, <1>2 DEF IInv, Exclusive, InStep
  <2> QED
    BY <1>9, <2>1, <2>2 DEF Started
<1>15. Turn(w)'
  <2>1. CASE l = "idle"
    BY <1>5, <2>1 DEF Turn, InStep
  <2>2. CASE l = "collect"
    <3>1. \A m \in ready'[w] : node'[m] = "running"
      BY <1>6, <1>8, <1>9, <1>t, <2>2
    <3> QED
      BY <1>2, <1>5, <1>8, <2>2, <3>1 DEF Turn, InStep
  <2> QED
    BY <2>1, <2>2
<1>16. Placed(w)'
  <2> SUFFICES ASSUME NEW m \in Nodes
               PROVE  /\ job'[w][m] # "none" =>
                           node'[m] \in Started /\ DependenciesSatisfied(edges, node, m)'
                      /\ job'[w][m] \notin {"none"} \cup Stray => l = "collect" /\ m \in ready'[w]
                      /\ job'[w][m] \notin {"queued"} \cup Live
    BY <1>5 DEF Placed, InStep
  <2>1. Placed(w) /\ Typed
    BY DEF IInv
  <2>2. job[w][m] \notin {"queued"} \cup Live
    BY <1>1, <2>1 DEF Placed
  <2>3. job'[w][m] # "none" => DependenciesSatisfied(edges, node, m)'
    BY <1>3, <1>7, <1>10, <1>13, <2>1, DependenciesKept DEF Placed
  <2>4. job'[w][m] # "none" => node'[m] \in Started
    <3>1. CASE m = n
      <4>1. n \notin ready'[w]
        BY <1>6
      <4>2. job'[w][n] # "none" => ~ Succeeded(w, n)
        BY <1>7, <1>8, <4>1 DEF Succeeded, Stray
      <4> QED
        BY <1>9, <3>1, <4>2 DEF Started
    <3>2. CASE m # n
      BY <1>7, <1>9, <2>1, <3>2 DEF Placed, Started
    <3> QED
      BY <3>1, <3>2
  <2>5. m \in ready'[w] => l = "collect"
    BY <1>6
  <2>6. "none" \notin {"queued"} \cup Live
    BY DEF Live
  <2> QED
    BY <1>7, <2>2, <2>3, <2>4, <2>5, <2>6
<1>17. Claims(w)' \subseteq Claims(w)
  BY <1>1, <1>5, <1>6, <1>7 DEF Claims, InStep
<1> QED
  BY <1>11, <1>12, <1>13, <1>14, <1>15, <1>16, <1>17, OneWalker

\* What validate_graph rejects has a set of nodes that wait for each other.
LEMMA InvalidIsCircular ==
  ASSUME NEW g \in Graphs, ~ ValidGraph(Nodes, g)
  PROVE  \E U \in SUBSET Nodes : U # {} /\ \A n \in U : Sources(g, n) \cap U # {}
BY NodesAssumption, GraphsAssumption, RejectedIsCircular

\* A retry starts over from a mission whose nodes are all completed: its graph
\* has no circular wait, so it is ready again, and no job is left.
LEMMA RepriseKeeps ==
  ASSUME Regime, IInv, NEW w \in HttpTasks, LoopFree(w), Reprise(w) PROVE IInv'
<1>1. pc[w] = "reprise" /\ UNCHANGED <<edges, disk, ready, seen, job>> /\ brief \in BOOLEAN
  BY DEF Reprise, IInv, Typed
<1>2. CASE ~ brief
  <2>1. pc' = [pc EXCEPT ![w] = "idle"] /\ UNCHANGED <<status, node, attempts, brief>>
    BY <1>2, OnlyRequests DEF Reprise, Goto, mission
  <2>2. "idle" \in Labels \ InStep /\ pc[w] \notin InStep
    BY <1>1 DEF Labels, InStep
  <2> QED
    BY <1>1, <2>1, <2>2, PlainMove
<1>3. CASE brief = TRUE
  <2>t. /\ job \in [HttpTasks -> [Nodes -> JobState]] /\ pc \in [HttpTasks -> Labels]
        /\ node \in [Nodes -> Reached] /\ attempts \in Nat /\ edges \in Graphs
    BY DEF IInv, Typed
  <2>1. AllDone(node)
    BY <1>3 DEF IInv, Sound
  <2>2. ValidGraph(Nodes, edges)
    <3> SUFFICES ASSUME ~ ValidGraph(Nodes, edges) PROVE FALSE
      OBVIOUS
    <3>1. PICK U \in SUBSET Nodes : U # {} /\ \A n \in U : Sources(edges, n) \cap U # {}
      BY <2>t, InvalidIsCircular
    <3>2. PICK n \in U : TRUE
      BY <3>1
    <3>3. node[n] \in {"pending", "blocked"}
      BY <3>1 DEF IInv, Sound, Circular
    <3> QED
      BY <2>1, <3>2, <3>3 DEF AllDone
  <2>3. /\ status' = "ready" /\ attempts' = attempts + 1 /\ brief' = FALSE
        /\ node' = [n \in Nodes |-> "pending"] /\ pc' = [pc EXCEPT ![w] = "rearm"]
    BY <1>3, <2>2 DEF Reprise, Goto
  <2>4. \A v \in HttpTasks, n \in Nodes : job[v][n] = "none"
    BY <2>1 DEF AllDone, IInv, Placed, Started
  <2>5. /\ pc' \in [HttpTasks -> Labels] /\ pc'[w] = "rearm"
        /\ \A v \in HttpTasks \ {w} : pc'[v] = pc[v]
    BY <2>3, <2>t DEF Labels
  <2>6. Sound(status, node, brief)'
    <3>1. ~ (status' = "completed" \/ brief' = TRUE)
      BY <2>3
    <3>2. \A n \in Nodes : node'[n] = "pending"
      BY <2>3
    <3> QED
      BY <3>1, <3>2 DEF Sound
  <2>7. status' \in MissionStatus /\ node' \in [Nodes -> Reached] /\ attempts' \in Nat
    BY <2>3, <2>t DEF MissionStatus, Reached
  <2>8. brief' \in BOOLEAN
    BY <2>3
  <2>9. /\ Sound(disk.status, disk.node, disk.brief)' /\ Kept'
        /\ disk'.status \in MissionStatus /\ disk'.node \in [Nodes -> Reached]
        /\ disk'.attempts \in Nat /\ disk'.brief \in BOOLEAN
    BY <1>1, <2>3, <2>6, <2>7, <2>8, DocumentKept
  <2>10. Typed'
    BY <1>1, <2>5, <2>7, <2>8, <2>9 DEF IInv, Typed
  <2>11. Alone(w)
    BY <1>1, <2>4, <2>5 DEF Alone, LoopFree, Resting
  <2>12. Turn(w)'
    BY <2>3, <2>5 DEF Turn, InStep
  <2>13. Placed(w)'
    BY <1>1, <2>4 DEF Placed, Live
  <2>14. Claims(w)' \subseteq Claims(w)
    BY <1>1, <2>5 DEF Claims, InStep
  <2> QED
    BY <2>6, <2>9, <2>10, <2>11, <2>12, <2>13, <2>14, OneWalker
<1> QED
  BY <1>1, <1>2, <1>3

LEMMA InitKeeps == ASSUME Regime, Init PROVE IInv
<1>1. /\ edges \in Graphs /\ status \in {"ready", "created"} /\ attempts = 1 /\ brief = FALSE
      /\ node = [n \in Nodes |-> "pending"] /\ disk = Document
      /\ pc = [w \in HttpTasks |-> "idle"]
      /\ ready = [w \in HttpTasks |-> {}]
      /\ seen = [w \in HttpTasks |-> "open"]
      /\ job = [w \in HttpTasks |-> [n \in Nodes |-> "none"]]
  <2>1. pc = [w \in HttpTasks |-> "idle"]
    BY OnlyRequests DEF Init
  <2> QED
    BY <2>1, OnlyRequests DEF Init
<1>2. disk.status = status /\ disk.node = node /\ disk.attempts = attempts /\ disk.brief = brief
  BY <1>1 DEF Document
<1>3. brief \in BOOLEAN /\ ~ (brief = TRUE)
  BY <1>1
<1>4. Typed
  BY <1>1, <1>2, <1>3 DEF Typed, Labels, JobState, MissionStatus, Reached
<1>5. OneActive /\ Exclusive
  BY <1>1 DEF OneActive, Exclusive, Resting
<1>6. Sound(status, node, brief)
  <2>1. \A n \in Nodes : node[n] = "pending"
    BY <1>1
  <2>2. status # "completed"
    BY <1>1
  <2> QED
    BY <1>3, <2>1, <2>2 DEF Sound
<1>7. Sound(disk.status, disk.node, disk.brief) /\ Kept
  <2>1. Sound(disk.status, disk.node, disk.brief)
    BY <1>2, <1>6
  <2>2. Kept
    BY <1>1, <1>2 DEF Kept
  <2> QED
    BY <2>1, <2>2
<1>8. ASSUME NEW w \in HttpTasks PROVE Turn(w) /\ Placed(w)
  <2>1. pc[w] = "idle" /\ \A n \in Nodes : job[w][n] = "none"
    BY <1>1
  <2>2. Turn(w)
    BY <2>1 DEF Turn, InStep
  <2>3. Placed(w)
    BY <2>1 DEF Placed, Live
  <2> QED
    BY <2>2, <2>3
<1> QED
  BY <1>4, <1>5, <1>6, <1>7, <1>8 DEF IInv

LEMMA StepKeeps == ASSUME Regime, IInv, [Next]_vars PROVE IInv'
<1>1. ASSUME NEW w \in Walkers, WalkerStep(w) PROVE IInv'
  <2>1. w \in HttpTasks /\ LoopFree(w)
    BY <1>1, OnlyRequests DEF WalkerStep
  <2>2. pc[w] # "build"
    BY <2>1 DEF IInv, Typed, Labels
  <2>3. ~ AutoBuild(w)
    BY <2>2 DEF AutoBuild
  <2> QED
    BY <1>1, <2>1, <2>3, StartCheckKeeps, LaunchKeeps, DurableKeeps, CheckKeeps, ExitKeeps,
       SelectKeeps, MarkKeeps, TakeKeeps, HarvestKeeps, StepTimeoutKeeps, CollectKeeps,
       TallyKeeps, CloseKeeps, RepriseKeeps, RearmKeeps DEF WalkerStep, ExecuteStep
<1>2. ASSUME NEW w \in Walkers, NEW n \in Nodes, JobStep(w, n) PROVE IInv'
  BY <1>2, OnlyRequests, JobStepKeeps
<1>3. ASSUME NEW h \in HttpTasks, HttpStart(h) \/ HttpResume(h) PROVE IInv'
  BY <1>3, HttpStartKeeps, HttpResumeKeeps
<1>4. CASE HttpPause \/ Cancel
  BY <1>4, RequestKeeps
<1>5. CASE Restart
  BY <1>5, RestartKeeps
<1>6. CASE UNCHANGED vars
  <2>1. /\ UNCHANGED <<edges, status, node, attempts, brief, disk, pc, ready, seen, job>>
    BY <1>6 DEF vars, mission, walk
  <2>2. Typed' /\ OneActive' /\ Kept' /\ Exclusive'
    BY <2>1 DEF IInv, Typed, OneActive, Kept, Exclusive
  <2>3. Sound(status, node, brief)' /\ Sound(disk.status, disk.node, disk.brief)'
    BY <2>1 DEF IInv, Sound, AllDone, Circular
  <2>4. ASSUME NEW w \in HttpTasks PROVE Turn(w)' /\ Placed(w)'
    <3>1. Turn(w) /\ Placed(w)
      BY DEF IInv
    <3>2. Turn(w)'
      BY <2>1, <3>1 DEF Turn, AllDone, GetReadyNodes, DependenciesSatisfied
    <3>3. Placed(w)'
      BY <2>1, <3>1 DEF Placed, DependenciesSatisfied
    <3> QED
      BY <3>2, <3>3
  <2> QED
    BY <2>2, <2>3, <2>4 DEF IInv
<1> QED
  BY <1>1, <1>2, <1>3, <1>4, <1>5, <1>6 DEF Next

\* The walks of requests alone keep IInv.
THEOREM RequestsInvariant == Regime => (Spec => []IInv)
<1> SUFFICES ASSUME Regime PROVE Spec => []IInv
  OBVIOUS
<1>1. Init => IInv
  BY InitKeeps
<1>2. IInv /\ [Next]_vars => IInv'
  BY StepKeeps
<1> QED
  BY <1>1, <1>2, PTL DEF Spec

\* Whatever requests, timeouts and restarts interleave, a node is handed to
\* the pool, waits or executes only with its dependencies completed
\* (get_ready_nodes, execute_step, preparer_reprise).
THEOREM RequestsKeepDependencyOrder == Regime => (Spec => []DependencyOrder)
<1> SUFFICES ASSUME Regime PROVE Spec => []DependencyOrder
  OBVIOUS
<1>1. IInv => DependencyOrder
  BY OnlyRequests DEF IInv, Placed, DependencyOrder
<1>2. Spec => []IInv
  BY RequestsInvariant
<1> QED
  BY <1>1, <1>2, PTL

\* No node is executed by two threads, the stray threads of a timed out step
\* of execute_step included, and those belong to nodes that are not run again.
THEOREM RequestsExecuteOnce == Regime => (Spec => []OneExecution)
<1> SUFFICES ASSUME Regime PROVE Spec => []OneExecution
  OBVIOUS
<1>1. IInv => OneExecution
  <2> SUFFICES ASSUME IInv PROVE OneExecution
    OBVIOUS
  <2>1. "none" \notin Live \cup Stray
    BY DEF Live, Stray
  <2>2. ASSUME NEW n \in Nodes, NEW v \in HttpTasks, NEW w \in HttpTasks,
               job[v][n] # "none", job[w][n] # "none"
        PROVE  v = w
    BY <2>2 DEF IInv, Exclusive
  <2>3. ASSUME NEW n \in Nodes, NEW w \in HttpTasks, job[w][n] # "none"
        PROVE  node[n] \in {"failed", "running"}
    BY <2>3 DEF IInv, Placed, Started
  <2> QED
    BY <2>1, <2>2, <2>3, OnlyRequests DEF OneExecution
<1>2. Spec => []IInv
  BY RequestsInvariant
<1> QED
  BY <1>1, <1>2, PTL

\* The verdict of execute_step is true of every node, in memory and in the
\* document of MagasinMissions, whatever the order of the writes.
THEOREM RequestsCompletedIsTrue == Regime => (Spec => []CompletedIsTrue)
<1> SUFFICES ASSUME Regime PROVE Spec => []CompletedIsTrue
  OBVIOUS
<1>1. IInv => CompletedIsTrue
  BY DEF IInv, Sound, AllDone, CompletedIsTrue
<1>2. Spec => []IInv
  BY RequestsInvariant
<1> QED
  BY <1>1, <1>2, PTL

\* A node whose completion is in the document is not executed again in the
\* same attempt: not after a pause, a second request or a restart.
THEOREM RequestsRedoNothing == Regime => (Spec => []NoRedo)
<1> SUFFICES ASSUME Regime PROVE Spec => []NoRedo
  OBVIOUS
<1>1. IInv => NoRedo
  <2> SUFFICES ASSUME IInv, NEW w \in HttpTasks, NEW n \in Nodes, job[w][n] \in Live \cup Stray
               PROVE  disk.node[n] # "completed" \/ disk.attempts < attempts
    BY OnlyRequests DEF NoRedo
  <2>1. job[w][n] # "none"
    BY DEF Live, Stray
  <2>2. node[n] # "completed"
    BY <2>1 DEF IInv, Placed, Started
  <2>3. /\ attempts \in Nat /\ disk.attempts \in Nat /\ disk.attempts <= attempts
        /\ disk.attempts = attempts => disk.node[n] # "completed"
    BY <2>2 DEF IInv, Typed, Kept
  <2> QED
    BY <2>3
<1>2. Spec => []IInv
  BY RequestsInvariant
<1> QED
  BY <1>1, <1>2, PTL

\* After POST /pause no walk of a request is inside a step and no thread it
\* waits for executes a node.
THEOREM RequestsPauseStops == Regime => (Spec => []PauseStops)
<1> SUFFICES ASSUME Regime PROVE Spec => []PauseStops
  OBVIOUS
<1>1. IInv => PauseStops
  <2> SUFFICES ASSUME IInv, status = "paused", NEW w \in HttpTasks
               PROVE  /\ pc[w] \in {"idle", "sleep", "exit", "reprise", "startcheck"}
                      /\ \A n \in Nodes : job[w][n] \notin {"queued"} \cup Live
    BY OnlyRequests DEF PauseStops
  <2>1. pc[w] \in Labels /\ Turn(w) /\ Placed(w)
    BY DEF IInv, Typed
  <2>2. pc[w] \in {"idle", "sleep", "exit", "reprise", "startcheck"}
    BY <2>1 DEF Turn, Labels
  <2> QED
    BY <2>1, <2>2 DEF Placed
<1>2. Spec => []IInv
  BY RequestsInvariant
<1> QED
  BY <1>1, <1>2, PTL

\* No step of a walk moves a mission whose cancellation is in the document
\* and that has no retry brief: start_mission and execute_step overwrite the
\* status without reading it, but only where it cannot be cancelled.
THEOREM RequestsCancelIsDurable == Regime => (Spec => CancelIsDurable)
<1> SUFFICES ASSUME Regime PROVE Spec => CancelIsDurable
  OBVIOUS
<1>1. ASSUME IInv, [Next]_vars, status = "cancelled", disk.status = "cancelled", ~ brief
      PROVE  status' \in {"cancelled", "paused", "failed"}
  <2>1. ASSUME NEW w \in Walkers, WalkerStep(w) PROVE status' = status
    <3>1. Turn(w) /\ pc[w] \in Labels
      BY <1>1, OnlyRequests DEF IInv, Typed
    <3>2. pc[w] \notin {"launch", "close", "rearm", "build"}
      BY <1>1, <3>1 DEF Turn, Terminal, Labels
    <3>3. ~ Launch(w) /\ ~ Close(w) /\ ~ Rearm(w) /\ ~ AutoBuild(w)
      BY <3>2 DEF Launch, Close, Rearm, AutoBuild
    <3>4. Reprise(w) => status' = status
      BY <1>1 DEF Reprise, mission
    <3>5. StartCheck(w) \/ Durable(w) \/ Check(w) \/ Exit(w) => status' = status
      BY DEF StartCheck, Durable, Check, Exit, mission
    <3>6. Select(w) \/ Mark(w) \/ Take(w) \/ Harvest(w) \/ StepTimeout(w) \/ Collect(w) \/ Tally(w)
          => status' = status
      BY DEF Select, Mark, Take, Harvest, StepTimeout, Collect, Tally, SetJob, mission
    <3> QED
      BY <2>1, <3>3, <3>4, <3>5, <3>6 DEF WalkerStep, ExecuteStep
  <2>2. ASSUME NEW w \in Walkers, NEW n \in Nodes, JobStep(w, n) PROVE status' = status
    BY <2>2 DEF JobStep, LetIn, Saturate, Return, SetJob, mission
  <2>3. ASSUME NEW h \in HttpTasks, HttpStart(h) \/ HttpResume(h)
        PROVE  status' \in {"cancelled", "paused", "failed"}
    BY <1>1, <2>3 DEF HttpStart, HttpResume
  <2>4. HttpPause \/ Cancel \/ Restart => status' = "cancelled"
    BY <1>1 DEF HttpPause, Cancel, Restart
  <2>5. UNCHANGED vars => status' = status
    BY DEF vars, mission
  <2> QED
    BY <1>1, <2>1, <2>2, <2>3, <2>4, <2>5 DEF Next
<1>2. IInv /\ [Next]_vars =>
        [status = "cancelled" /\ disk.status = "cancelled" /\ ~brief
           => status' \in {"cancelled", "paused", "failed"}]_vars
  BY <1>1
<1>3. Spec => []IInv
  BY RequestsInvariant
<1> QED
  BY <1>2, <1>3, PTL DEF Spec, CancelIsDurable
=============================================================================
