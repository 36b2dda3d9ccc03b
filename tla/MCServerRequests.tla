-------------------------- MODULE MCServerRequests --------------------------
(* ServerRequests: two connections, one turn with a request, and a token refresh. *)
EXTENDS ServerRequests
=============================================================================
