---------------------------- MODULE MCSessionTurn ----------------------------
(* SessionTurn on small instances. *)
EXTENDS SessionTurn
===============================================================================
