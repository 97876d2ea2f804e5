----------------------------- MODULE MCWorkflow -----------------------------
(* Small instances of WorkflowEngine for TLC.                              *)
EXTENDS WorkflowEngine

\* Every graph over three nodes in which edges go upwards, with at most two
\* gates; the last node refers to the result of the first when the second
\* depends on it.
Pairs == {<<1, 2>>, <<1, 3>>, <<2, 3>>}
Graphs ==
  {[edges |-> {<<p[1], p[2], f[p]>> : p \in {q \in Pairs : f[q] # "none"}},
    gated |-> g,
    refs |-> [n \in Nodes |-> IF n = 3 /\ f[<<1, 2>>] # "none" THEN {1} ELSE {}]] :
     f \in [Pairs -> Conditions \cup {"none"}],
     g \in {S \in SUBSET Nodes : Cardinality(S) <= 2}}

\* 1; 2 -> 3; 2 -> 4 -> 5, with gates at 1, 3 and 5: opened together after a
\* first call, they form one wave.
Forked ==
  {[edges |-> {<<2, 3, "always">>, <<2, 4, "always">>, <<4, 5, "always">>},
    gated |-> {1, 3, 5},
    refs |-> [n \in Nodes |-> {}]]}
=============================================================================
