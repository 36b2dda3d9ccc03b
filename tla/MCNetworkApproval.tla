-------------------------- MODULE MCNetworkApproval --------------------------
(* NetworkApproval: two requests to one host from two calls, one of them dropped. *)
EXTENDS NetworkApproval
=============================================================================
