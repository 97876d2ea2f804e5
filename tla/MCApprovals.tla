----------------------------- MODULE MCApprovals -----------------------------
(* Small instances of Approvals for TLC.  Callers are interchangeable, and   *)
(* so are humans; no liveness property is checked.                           *)
EXTENDS Approvals, TLC

Interchangeable == Permutations(Callers) \cup Permutations(Humans)
=============================================================================
