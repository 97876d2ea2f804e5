----------------------------- MODULE MCMiseAJour -----------------------------
(* Small instances of MiseAJour for TLC.  Neither the roots nor the          *)
(* directories are told apart.                                               *)
EXTENDS MiseAJour, TLC

Interchangeable == Permutations(Racines) \cup Permutations(Dossiers)
=============================================================================
