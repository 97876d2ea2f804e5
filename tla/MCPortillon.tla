---------------------------- MODULE MCPortillon ----------------------------
(* The gate with three threads whose steps measured different capacities:  *)
(* a full card (0, raised to one place), two places, and no answer at all. *)
EXTENDS Portillon

MCCapacities == {0, 2}
============================================================================
