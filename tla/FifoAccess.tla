------------------------------ MODULE FifoAccess ------------------------------
(***************************************************************************)
(* What the app server promises about requests that name the same resource *)
(* (a thread, a process, a watch, a global table): handlers of two         *)
(* conflicting requests never overlap and run in the order the requests    *)
(* arrived; only shared reads of one resource may overlap.  A request that *)
(* has not started may be abandoned (its connection went away).            *)
(*                                                                         *)
(* RequestSerialization is shown to implement this specification.          *)
(***************************************************************************)
EXTENDS Naturals

CONSTANTS Ids,      \* request numbers, in order of arrival
          Request,  \* what a request may be: records with conn, key, access
          NoRequest, \* a request that has not arrived
          NoKey     \* the key of a request that is not serialized

VARIABLES input,    \* the requests that have arrived
          phase     \* what has become of each of them

vars == <<input, phase>>

(* Two requests conflict unless both only read the resource they share. *)
Conflict(q, r) ==
    /\ input[q].key = input[r].key
    /\ input[q].key # NoKey
    /\ ~(input[q].access = "SharedRead" /\ input[r].access = "SharedRead")

Earlier(q, r) == q < r

Init ==
    /\ input = [r \in Ids |-> NoRequest]
    /\ phase = [r \in Ids |-> "absent"]

Arrive(r) ==
    /\ phase[r] = "absent"
    /\ \A q \in Ids : Earlier(q, r) => phase[q] # "absent"
    /\ phase' = [phase EXCEPT ![r] = "waiting"]
    /\ \E m \in Request : input' = [input EXCEPT ![r] = m]

Start(r) ==
    /\ phase[r] = "waiting"
    /\ \A q \in Ids : Earlier(q, r) /\ Conflict(q, r) => phase[q] = "over"
    /\ phase' = [phase EXCEPT ![r] = "active"]
    /\ UNCHANGED input

End(r) ==
    /\ phase[r] = "active"
    /\ phase' = [phase EXCEPT ![r] = "over"]
    /\ UNCHANGED input

(* A request that is refused on arrival. *)
Refuse(r) ==
    /\ phase[r] = "absent"
    /\ \A q \in Ids : Earlier(q, r) => phase[q] # "absent"
    /\ phase' = [phase EXCEPT ![r] = "over"]
    /\ \E m \in Request : input' = [input EXCEPT ![r] = m]

(* A waiting request that will not start: its connection is gone. *)
Abandon(r) ==
    /\ phase[r] = "waiting"
    /\ phase' = [phase EXCEPT ![r] = "over"]
    /\ UNCHANGED input

Next == \E r \in Ids : Arrive(r) \/ Refuse(r) \/ Start(r) \/ End(r) \/ Abandon(r)

SafeSpec == Init /\ [][Next]_vars

(* Whatever waits is eventually started or given up, whatever runs ends. *)
Spec ==
    /\ SafeSpec
    /\ \A r \in Ids : WF_vars(Start(r) \/ Abandon(r))
    /\ \A r \in Ids : WF_vars(End(r))
===============================================================================
