-------------------------- MODULE MCRolloutRecorder --------------------------
(* RolloutRecorder: two callers, two items, failing writes, a crash and a resume. *)
EXTENDS RolloutRecorder
=============================================================================
