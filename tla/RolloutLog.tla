----------------------------- MODULE RolloutLog -----------------------------
(***************************************************************************)
(* What the rollout of a thread promises about the items a session records *)
(* (rollout/src/recorder.rs): they reach the file in the order they were   *)
(* accepted, each once and none skipped; a barrier (flush, persist or      *)
(* shutdown) that succeeds confirms only what is in the file; items are    *)
(* given up only when the recorder ends, by a shutdown or a crash.         *)
(*                                                                         *)
(* RolloutRecorder is shown to implement this specification.               *)
(***************************************************************************)
EXTENDS Naturals, Sequences

CONSTANT Items     \* what is recorded

VARIABLES
    running,       \* the recorder accepts items
    accepted,      \* the items accepted and not given up
    written,       \* the items in the file
    confirmed      \* how many of them a barrier has confirmed

vars == <<running, accepted, written, confirmed>>

Init ==
    /\ running = TRUE
    /\ accepted = <<>>
    /\ written = <<>>
    /\ confirmed = 0

Accept ==
    /\ running
    /\ \E x \in Items : accepted' = Append(accepted, x)
    /\ UNCHANGED <<running, written, confirmed>>

Write ==
    /\ running
    /\ Len(written) < Len(accepted)
    /\ written' = Append(written, accepted[Len(written) + 1])
    /\ UNCHANGED <<running, accepted, confirmed>>

(* A barrier succeeds; a shutdown ends the recorder with the same step, and   *)
(* gives up what was accepted behind it.                                       *)
Confirm ==
    /\ running
    /\ confirmed' \in confirmed .. Len(written)
    /\ \/ UNCHANGED <<running, accepted>>
       \/ running' = FALSE /\ accepted' = written
    /\ UNCHANGED written

Crash ==
    /\ running
    /\ running' = FALSE
    /\ accepted' = written
    /\ UNCHANGED <<written, confirmed>>

Resume ==
    /\ ~running
    /\ running' = TRUE
    /\ UNCHANGED <<accepted, written, confirmed>>

Next == Accept \/ Write \/ Confirm \/ Crash \/ Resume

Spec == Init /\ [][Next]_vars
=============================================================================
