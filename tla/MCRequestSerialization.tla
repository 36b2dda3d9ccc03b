------------------------ MODULE MCRequestSerialization ------------------------
(* RequestSerialization on a small instance. *)
EXTENDS RequestSerialization
===============================================================================
