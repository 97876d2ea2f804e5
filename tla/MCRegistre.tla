----------------------------- MODULE MCRegistre -----------------------------
(* Small instances of RegistreMissions for TLC.                            *)
EXTENDS RegistreMissions, TLC

\* A process that starts on an empty store, and on one with a mission.
Vierge == <<>>
UneMission == <<"a">>

\* Threads differ in nothing.
ThreadSymmetry == Permutations(Threads)
=============================================================================
