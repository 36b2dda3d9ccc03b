---------------------------- MODULE MCUnifiedExec ----------------------------
(* UnifiedExec on small instances: a store of two, and one with network guards. *)
EXTENDS UnifiedExec, TLC

(* Commands that are neither in the background nor managed are interchangeable. *)
CommandSymmetry == Permutations(Cmds \ (Background \cup Managed))
=============================================================================
