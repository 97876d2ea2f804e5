----------------------------- MODULE MCSessions -----------------------------
(* Small instances of SessionsDeMission for TLC.                           *)
EXTENDS SessionsDeMission
=============================================================================
