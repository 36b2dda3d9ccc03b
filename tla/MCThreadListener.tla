-------------------------- MODULE MCThreadListener --------------------------
(* ThreadListener: two connections that resume and leave a thread, loaded    *)
(* twice.  The connections are interchangeable: which of them started the     *)
(* thread is fixed.                                                           *)
EXTENDS ThreadListener

MCInit == Init /\ told = {CHOOSE c \in Conns : TRUE}

MCFairSpec == MCInit /\ [][Next]_vars /\ Fairness
=============================================================================
