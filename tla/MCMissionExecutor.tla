-------------------------- MODULE MCMissionExecutor --------------------------
(* Small instances of MissionExecutor for TLC.                             *)
EXTENDS MissionExecutor

OneKeyEach == [e \in Execs |-> e]

DefaultOrReview == {{"result_present"}, {"needs_human_review"}}
=============================================================================
