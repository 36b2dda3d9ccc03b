---------------------- MODULE RequestSerializationProofs ----------------------
(***************************************************************************)
(* For every number of requests, keys and connections: the properties of   *)
(* RequestSerialization follow from one inductive invariant, IInv, and the *)
(* specification implements the safety part of FifoAccess.                 *)
(***************************************************************************)
EXTENDS RequestSerialization, TLAPS

Left == {"taken", "running", "done", "skipped"}

(* Requests are numbered as they arrive. *)
ArrivalInv ==
    \A r \in Ids : /\ (status[r] = "unsent") <=> (r > sent)
                   /\ r <= sent => input[r] \in Request
                   /\ r > sent => input[r] = NoRequest

(* Queues hold exactly the queued requests of their key, oldest first. *)
QueueInv ==
    /\ \A k \in Keys : \A i \in 1..Len(queues[k]) :
          /\ status[queues[k][i]] = "queued"
          /\ input[queues[k][i]].key = k
    /\ \A k \in Keys : \A i, j \in 1..Len(queues[k]) :
          i < j => queues[k][i] < queues[k][j]
    /\ \A r \in Ids : status[r] = "queued" =>
          /\ Serialized(r)
          /\ \E i \in 1..Len(queues[KeyOf(r)]) : queues[KeyOf(r)][i] = r

(* A drain task joins the serialized requests that left its queue. *)
BatchInv ==
    /\ \A d \in Ids : drainer[d] # "none" => KeyOf(d) \in Keys
    /\ \A d \in Ids : \A r \in batch[d] :
          drainer[d] = "join" /\ KeyOf(r) = KeyOf(d) /\ status[r] \in Left
    /\ \A r \in Ids : status[r] \in {"taken", "running"} /\ Serialized(r) =>
          \E d \in Ids : r \in batch[d]
    /\ \A d \in Ids : \A q, r \in batch[d] : q # r => IsRead(q) /\ IsRead(r)

(* What is still queued arrived after everything that left the same queue. *)
OrderInv ==
    \A q, r \in Ids :
        KeyOf(q) = KeyOf(r) /\ status[q] = "queued" /\ status[r] \in Left => r < q

(* Running handlers hold a token of their connection. *)
TokenInv ==
    \A r \in Ids : status[r] = "running" => r \in tokens[input[r].conn]

(* The processor loop, the connections and the gates. *)
LoopInv ==
    /\ closing \in Conns <=> loop \in {"closing", "draining"}
    /\ closing \in Conns => conn[closing] = "removed"
    /\ loop = "draining" => ~accepting[closing]
    /\ \A c \in Conns : conn[c] = "removed" => c = closing
    /\ \A c \in Conns : conn[c] = "closed" =>
          ~accepting[c] /\ tokens[c] = {} /\ c \notin resources
    /\ \A r \in Ids : status[r] \in {"queued", "taken", "running"} =>
          conn[input[r].conn] \in {"initialized", "removed", "closed"}
    /\ loop = "exited" /\ shutdown # "forced" =>
          \A c \in Conns : Connected(c) => ~accepting[c] /\ tokens[c] = {}

IInv ==
    /\ TypeOK
    /\ ArrivalInv
    /\ QueueInv
    /\ OneDrainerPerQueue
    /\ BatchInv
    /\ OrderInv
    /\ ConflictsInOrder
    /\ TokenInv
    /\ LoopInv

USE MaxRequestsAssumption, NoKeyAssumption, NoConnAssumption, SingleClientAssumption

-------------------------------------------------------------------------------
(* The invariant holds initially: nothing has arrived. *)
LEMMA InitInv == Init => IInv
<1> SUFFICES ASSUME Init PROVE IInv
    OBVIOUS
<1>1. TypeOK
    BY DEF Init, TypeOK, Ids, Request, NoRequest, Access, Statuses, Settled
<1>2. ArrivalInv /\ OrderInv /\ ConflictsInOrder /\ TokenInv
    BY DEF Init, ArrivalInv, OrderInv, ConflictsInOrder, TokenInv, Ids, Left
<1>3. QueueInv /\ BatchInv /\ OneDrainerPerQueue
    BY DEF Init, QueueInv, BatchInv, OneDrainerPerQueue, Ids
<1>4. LoopInv
    BY DEF Init, LoopInv, Ids
<1> QED BY <1>1, <1>2, <1>3, <1>4 DEF IInv

(* Steps of the gate and the handlers keep the invariant. *)
LEMMA GateStepInv ==
    ASSUME IInv, NEW r \in Ids,
           Admit(r) \/ TurnAway(r) \/ HandlerRegisters(r) \/ HandlerReturns(r)
    PROVE  IInv'
<1> USE DEF queueVars, gateVars, loopVars
<1> DEFINE Same == UNCHANGED <<input, sent, queues, present, drainer, batch, accepting,
                               conn, loop, closing, shutdown>>
<1>0. TypeOK /\ ArrivalInv /\ QueueInv /\ OneDrainerPerQueue /\ BatchInv /\ OrderInv
         /\ ConflictsInOrder /\ TokenInv /\ LoopInv
    BY DEF IInv
<1>1. Same /\ \/ UNCHANGED status
              \/ /\ status[r] \in {"taken", "running"}
                 /\ \E s \in {"running", "done", "skipped"} :
                        status' = [status EXCEPT ![r] = s]
    BY DEF Admit, TurnAway, HandlerRegisters, HandlerReturns
<1>2. input[r] \in [conn : Conns \cup {NoConn}, key : Keys \cup {NoKey}, access : Access]
    BY <1>0 DEF TypeOK, Request, NoRequest, Access
<1>3. \A q \in Ids : status[q] # "unsent" => input[q].conn \in Conns
    BY <1>0 DEF TypeOK, ArrivalInv, Request, Ids
<1>a. tokens \in [Conns -> SUBSET Ids] /\ resources \in SUBSET Conns /\ status \in [Ids -> Statuses]
    BY <1>0 DEF TypeOK
<1>b. \/ /\ status[r] \in {"taken", "running"}
         /\ \E S \in SUBSET Ids :
               /\ tokens' = [tokens EXCEPT ![input[r].conn] = S]
               /\ status'[r] = "running" => r \in S /\ accepting[input[r].conn]
               /\ S \subseteq tokens[input[r].conn] \cup {r}
               /\ status'[r] # "running" => S \subseteq tokens[input[r].conn]
               /\ \A q \in tokens[input[r].conn] : q # r => q \in S
         /\ UNCHANGED resources
      \/ UNCHANGED <<tokens, status, resources>> 
      \/ UNCHANGED <<tokens, status>> /\ status[r] = "running"
         /\ resources' = resources \cup {input[r].conn}
    <2>1. CASE Admit(r)
        <3> DEFINE S == tokens[input[r].conn] \cup {r}
        <3> S \in SUBSET Ids /\ tokens' = [tokens EXCEPT ![input[r].conn] = S]
            BY <1>a, <1>3, <2>1 DEF Admit
        <3> QED BY <2>1, <1>a DEF Admit, MayStart
    <2>2. CASE TurnAway(r)
        <3> DEFINE S == tokens[input[r].conn]
        <3> S \in SUBSET Ids /\ tokens' = [tokens EXCEPT ![input[r].conn] = S]
            BY <1>a, <1>3, <2>2 DEF TurnAway
        <3> QED BY <2>2, <1>a DEF TurnAway
    <2>3. CASE HandlerReturns(r)
        <3> DEFINE S == tokens[input[r].conn] \ {r}
        <3> S \in SUBSET Ids /\ tokens' = [tokens EXCEPT ![input[r].conn] = S]
            BY <1>a, <1>3, <2>3 DEF HandlerReturns, DropToken
        <3> QED BY <2>3, <1>a DEF HandlerReturns
    <2> QED BY <2>1, <2>2, <2>3 DEF HandlerRegisters
<1>4. TypeOK'
    <2>1. status' \in [Ids -> Statuses] /\ tokens' \in [Conns -> SUBSET Ids] /\ resources' \in SUBSET Conns
        BY <1>a, <1>b, <1>1, <1>3 DEF Statuses, Settled
    <2> QED BY <1>0, <1>1, <2>1 DEF TypeOK
<1>5. ArrivalInv' /\ QueueInv' /\ OneDrainerPerQueue'
    <2>1. ArrivalInv'
        BY <1>0, <1>1 DEF TypeOK, ArrivalInv
    <2>2. QueueInv'
        BY <1>0, <1>1 DEF TypeOK, QueueInv, KeyOf, Serialized
    <2>3. OneDrainerPerQueue'
        BY <1>0, <1>1 DEF OneDrainerPerQueue, KeyOf
    <2> QED BY <2>1, <2>2, <2>3
<1>6. BatchInv'
    BY <1>0, <1>1 DEF TypeOK, BatchInv, KeyOf, Serialized, IsRead, Left
<1>7. OrderInv'
    BY <1>0, <1>1 DEF TypeOK, OrderInv, KeyOf, Left
<1>8. ConflictsInOrder'
    <2> SUFFICES ASSUME NEW p \in Ids, NEW q \in 1..(p - 1),
                        Conflict(q, p), status'[p] \in Left
                 PROVE  status'[q] \in Settled
        BY <1>1 DEF ConflictsInOrder, Conflict, Serialized, IsRead, Left
    <2>1. status[p] \in Left
        BY <1>1, <1>a DEF Left
    <2>2. status[q] \in Settled /\ q \in Ids
        BY <2>1, <1>0 DEF ConflictsInOrder, Left, Ids
    <2> QED BY <2>2, <1>1, <1>a DEF Settled
<1>9. TokenInv'
    <2> SUFFICES ASSUME NEW q \in Ids, status'[q] = "running"
                 PROVE  q \in tokens'[input[q].conn]
        BY <1>1 DEF TokenInv
    <2>1. CASE q = r
        BY <2>1, <1>0, <1>1, <1>3, <1>a, <1>b DEF TokenInv
    <2>2. CASE q # r
        <3>1. status[q] = "running" /\ q \in tokens[input[q].conn] /\ input[q].conn \in Conns
            BY <2>2, <1>0, <1>1, <1>3, <1>a DEF TokenInv
        <3> QED BY <2>2, <3>1, <1>b, <1>a
    <2> QED BY <2>1, <2>2
<1>10. LoopInv'
    <2>1. \A c \in Conns : ~accepting[c] /\ tokens[c] = {} => tokens'[c] = {} /\ (c \notin resources => c \notin resources')
        BY <1>0, <1>1, <1>3, <1>a, <1>b DEF TokenInv
    <2>2. \A q \in Ids : status'[q] \in {"queued", "taken", "running"} => status[q] \in {"queued", "taken", "running"}
        BY <1>1, <1>a
    <2> QED BY <1>0, <1>1, <2>1, <2>2 DEF LoopInv, Connected
<1> QED BY <1>4, <1>5, <1>6, <1>7, <1>8, <1>9, <1>10 DEF IInv

(* Steps of the processor loop other than Dispatch keep the invariant. *)
LEMMA LoopStepInv ==
    ASSUME IInv,
           \/ \E c \in Conns : \/ ConnectionOpened(c) \/ Initialize(c)
                               \/ ConnectionClosed(c) \/ ExitGateShutdown(c)
           \/ GateShutdown \/ Cleanup \/ Signal \/ LoopEnds \/ Exit
    PROVE  IInv'
<1> USE DEF queueVars, gateVars, loopVars
<1>0. TypeOK /\ ArrivalInv /\ QueueInv /\ OneDrainerPerQueue /\ BatchInv /\ OrderInv
         /\ ConflictsInOrder /\ TokenInv /\ LoopInv
    BY DEF IInv
<1>1. UNCHANGED <<input, sent, status, queues, present, drainer, batch, tokens>>
    BY DEF ConnectionOpened, Initialize, ConnectionClosed, ExitGateShutdown, GateShutdown,
       Cleanup, Signal, LoopEnds, Exit
<1>2. /\ conn \in [Conns -> {"new", "opened", "initialized", "removed", "closed"}]
      /\ accepting \in [Conns -> BOOLEAN]
      /\ tokens \in [Conns -> SUBSET Ids]
      /\ resources \in SUBSET Conns
      /\ loop \in {"recv", "closing", "draining", "exiting", "exited"}
      /\ closing \in Conns \cup {NoConn}
      /\ shutdown \in {"no", "requested", "forced"}
    BY <1>0 DEF TypeOK
<1>3. /\ conn' \in [Conns -> {"new", "opened", "initialized", "removed", "closed"}]
      /\ accepting' \in [Conns -> BOOLEAN]
      /\ resources' \in SUBSET Conns
      /\ loop' \in {"recv", "closing", "draining", "exiting", "exited"}
      /\ closing' \in Conns \cup {NoConn}
      /\ shutdown' \in {"no", "requested", "forced"}
    BY <1>2 DEF ConnectionOpened, Initialize, ConnectionClosed, ExitGateShutdown,
       GateShutdown, Cleanup, Signal, LoopEnds, Exit
<1>4. TypeOK'
    BY <1>0, <1>1, <1>3 DEF TypeOK
<1>5. ArrivalInv' /\ QueueInv' /\ OneDrainerPerQueue' /\ BatchInv' /\ OrderInv'
         /\ ConflictsInOrder' /\ TokenInv'
    BY <1>0, <1>1 DEF ArrivalInv, QueueInv, OneDrainerPerQueue, BatchInv, OrderInv,
       ConflictsInOrder, TokenInv, Conflict, Serialized, IsRead, KeyOf
<1>6. LoopInv'
    <2>1. \A r \in Ids : status[r] # "unsent" => input[r].conn \in Conns
        BY <1>0 DEF TypeOK, ArrivalInv, Request, Ids
    <2>2. \A r \in Ids : status[r] \in {"queued", "taken", "running"} =>
              conn[input[r].conn] \in {"initialized", "removed", "closed"}
        BY <1>0 DEF LoopInv
    <2>3. CASE \E c \in Conns : ConnectionOpened(c) \/ Initialize(c)
        BY <2>1, <2>2, <2>3, <1>0, <1>1, <1>2 DEF ConnectionOpened, Initialize, LoopInv, Connected
    <2>4. CASE \E c \in Conns : ConnectionClosed(c)
        BY <2>1, <2>2, <2>4, <1>0, <1>1, <1>2 DEF ConnectionClosed, LoopInv, Connected
    <2>5. CASE \E c \in Conns : ExitGateShutdown(c)
        BY <2>1, <2>2, <2>5, <1>0, <1>1, <1>2 DEF ExitGateShutdown, LoopInv, Connected
    <2>6. CASE GateShutdown
        BY <2>1, <2>2, <2>6, <1>0, <1>1, <1>2 DEF GateShutdown, LoopInv, Connected
    <2>7. CASE Cleanup
        BY <2>1, <2>2, <2>7, <1>0, <1>1, <1>2 DEF Cleanup, HandlersGone, LoopInv, Connected
    <2>8. CASE Signal \/ LoopEnds \/ Exit
        BY <2>1, <2>2, <2>8, <1>0, <1>1, <1>2 DEF Signal, LoopEnds, Exit, HandlersGone, LoopInv, Connected
    <2> QED BY <2>3, <2>4, <2>5, <2>6, <2>7, <2>8
<1> QED BY <1>4, <1>5, <1>6 DEF IInv

(***************************************************************************)
(* A drain task that gives up its queue or finishes a batch keeps the      *)
(* invariant: only the map entry, the task and its batch change.           *)
(***************************************************************************)
LEMMA DrainReturnsInv ==
    ASSUME IInv, NEW d \in Ids, DrainReturns(d) \/ Joined(d)
    PROVE  IInv'
<1> USE DEF queueVars, gateVars, loopVars
<1>0. TypeOK /\ ArrivalInv /\ QueueInv /\ OneDrainerPerQueue /\ BatchInv /\ OrderInv
         /\ ConflictsInOrder /\ TokenInv /\ LoopInv
    BY DEF IInv
<1>1. UNCHANGED <<input, sent, status, queues, accepting, tokens, resources,
                  conn, loop, closing, shutdown>>
    BY DEF DrainReturns, Joined
<1>2. /\ drainer \in [Ids -> {"none", "lock", "join"}]
      /\ batch \in [Ids -> SUBSET Ids]
      /\ present \in SUBSET Keys
      /\ queues \in [Keys -> Seq(Ids)]
    BY <1>0 DEF TypeOK
<1>3. TypeOK'
    <2>1. /\ drainer' \in [Ids -> {"none", "lock", "join"}]
          /\ batch' \in [Ids -> SUBSET Ids]
          /\ present' \in SUBSET Keys
        BY <1>2 DEF DrainReturns, Joined, RemoveEntry
    <2> QED BY <1>0, <1>1, <2>1 DEF TypeOK
<1>4. ArrivalInv' /\ QueueInv' /\ OrderInv' /\ ConflictsInOrder' /\ TokenInv' /\ LoopInv'
    <2>1. ArrivalInv' /\ TokenInv' /\ OrderInv'
        BY <1>0, <1>1 DEF ArrivalInv, TokenInv, OrderInv, KeyOf
    <2>2. QueueInv'
        BY <1>0, <1>1 DEF QueueInv, Serialized, KeyOf
    <2>3. ConflictsInOrder'
        BY <1>0, <1>1 DEF ConflictsInOrder, Conflict, Serialized, IsRead, KeyOf
    <2>4. LoopInv'
        BY <1>0, <1>1 DEF LoopInv, Connected
    <2> QED BY <2>1, <2>2, <2>3, <2>4
<1>5. CASE DrainReturns(d)
    <2>1. /\ drainer[d] = "lock"
          /\ drainer' = [drainer EXCEPT ![d] = "none"]
          /\ batch' = batch
          /\ present' = present \ {KeyOf(d)}
          /\ KeyOf(d) \in present => queues[KeyOf(d)] = <<>>
        BY <1>5 DEF DrainReturns, RemoveEntry
    <2>2. OneDrainerPerQueue'
        BY <1>0, <1>1, <1>2, <2>1 DEF OneDrainerPerQueue, KeyOf
    <2>3. BatchInv'
        BY <1>0, <1>1, <1>2, <2>1 DEF BatchInv, KeyOf, Serialized, IsRead
    <2> QED BY <1>3, <1>4, <2>2, <2>3 DEF IInv
<1>6. CASE Joined(d)
    <2>1. /\ drainer[d] = "join"
          /\ drainer' = [drainer EXCEPT ![d] = "lock"]
          /\ batch' = [batch EXCEPT ![d] = {}]
          /\ present' = present
          /\ \A r \in batch[d] : status[r] \in Settled
        BY <1>6 DEF Joined, BatchSettled
    <2>2. OneDrainerPerQueue'
        BY <1>0, <1>1, <1>2, <2>1 DEF OneDrainerPerQueue, KeyOf
    <2>3. BatchInv'
        BY <1>0, <1>1, <1>2, <2>1 DEF BatchInv, KeyOf, Serialized, IsRead, Settled
    <2> QED BY <1>3, <1>4, <2>2, <2>3 DEF IInv
<1> QED BY <1>5, <1>6

(***************************************************************************)
(* Taking a batch keeps the invariant.  The queue is sorted by arrival, so *)
(* what stays behind is younger than what leaves; the task that takes has  *)
(* joined its last batch and is the only one of its key, so everything     *)
(* that left the queue before is settled.                                  *)
(***************************************************************************)
LEMMA TakeInv ==
    ASSUME IInv, NEW d \in Ids, Take(d)
    PROVE  IInv'
<1> USE DEF queueVars, gateVars, loopVars
<1> DEFINE k == KeyOf(d)
           q == queues[k]
<1>0. TypeOK /\ ArrivalInv /\ QueueInv /\ OneDrainerPerQueue /\ BatchInv /\ OrderInv
         /\ ConflictsInOrder /\ TokenInv /\ LoopInv
    BY DEF IInv
<1>1. PICK n \in 1..Len(q) :
         /\ BatchLength(q, n)
         /\ queues' = [queues EXCEPT ![k] = SubSeq(q, n + 1, Len(q))]
         /\ batch' = [batch EXCEPT ![d] = {q[i] : i \in 1..n}]
         /\ status' = [r \in Ids |-> IF r \in {q[i] : i \in 1..n} THEN "taken" ELSE status[r]]
    BY DEF Take
<1> DEFINE took == {q[i] : i \in 1..n}
<1>2. /\ UNCHANGED <<input, sent, present, accepting, tokens, resources,
                     conn, loop, closing, shutdown>>
      /\ drainer[d] = "lock" /\ k \in present
      /\ drainer' = [drainer EXCEPT ![d] = "join"]
    BY DEF Take
<1>3. /\ drainer \in [Ids -> {"none", "lock", "join"}]
      /\ batch \in [Ids -> SUBSET Ids]
      /\ present \in SUBSET Keys
      /\ queues \in [Keys -> Seq(Ids)]
      /\ status \in [Ids -> Statuses]
      /\ k \in Keys /\ q \in Seq(Ids)
    BY <1>0, <1>2 DEF TypeOK
<1>4. /\ took \subseteq Ids
      /\ \A r \in took : status[r] = "queued" /\ KeyOf(r) = k
      /\ \A r \in took, s \in took : r # s => IsRead(r) /\ IsRead(s)
    <2>1. \A i \in 1..n : q[i] \in Ids /\ status[q[i]] = "queued" /\ KeyOf(q[i]) = k
        BY <1>0, <1>1, <1>3 DEF QueueInv, KeyOf
    <2>2. \A i, j \in 1..n : i # j => IsRead(q[i]) /\ IsRead(q[j])
        BY <1>1 DEF BatchLength
    <2> QED BY <2>1, <2>2
<1>5. /\ queues'[k] \in Seq(Ids)
      /\ Len(queues'[k]) = Len(q) - n
      /\ \A i \in 1..Len(queues'[k]) : queues'[k][i] = q[n + i]
    BY <1>1, <1>3
<1>6. TypeOK'
    <2>1. queues' \in [Keys -> Seq(Ids)]
        BY <1>1, <1>3, <1>5
    <2>2. status' \in [Ids -> Statuses] /\ batch' \in [Ids -> SUBSET Ids]
             /\ drainer' \in [Ids -> {"none", "lock", "join"}]
        BY <1>1, <1>2, <1>3, <1>4 DEF Statuses
    <2> QED BY <1>0, <1>2, <2>1, <2>2 DEF TypeOK
<1>7. \A r \in Ids : status'[r] = IF r \in took THEN "taken" ELSE status[r]
    BY <1>1
<1>8. \A i, j \in 1..Len(q) : i < j => q[i] < q[j]
    BY <1>0, <1>3 DEF QueueInv
<1>9. \A i \in 1..Len(q) : q[i] \in Ids /\ (q[i] \in took <=> i <= n)
    <2> SUFFICES ASSUME NEW i \in 1..Len(q)
                 PROVE  q[i] \in Ids /\ (q[i] \in took <=> i <= n)
        OBVIOUS
    <2>1. Len(q) \in Nat /\ n \in 1..Len(q) /\ q[i] \in Ids /\ q[i] \in Nat
        BY <1>1, <1>3 DEF Ids
    <2>2. i <= n => q[i] \in took
        BY <2>1
    <2>3. ASSUME q[i] \in took PROVE i <= n
        <3>1. PICK j \in 1..n : q[j] = q[i]
            BY <2>3
        <3>2. ~(j < i)
            BY <2>1, <3>1, <1>8
        <3> QED BY <2>1, <3>1, <3>2
    <2> QED BY <2>1, <2>2, <2>3
<1>10. \A r \in Ids : KeyOf(r) = k => status[r] \notin {"taken", "running"}
    <2> SUFFICES ASSUME NEW r \in Ids, KeyOf(r) = k, status[r] \in {"taken", "running"}
                 PROVE  FALSE
        OBVIOUS
    <2>1. Serialized(r)
        BY <1>3 DEF Serialized, KeyOf
    <2>2. PICK e \in Ids : r \in batch[e]
        BY <2>1, <1>0 DEF BatchInv
    <2>3. drainer[e] = "join" /\ KeyOf(e) = k
        BY <2>2, <1>0 DEF BatchInv
    <2>4. e = d
        BY <2>3, <1>0, <1>2 DEF OneDrainerPerQueue
    <2> QED BY <2>3, <2>4, <1>2
<1>11. ArrivalInv' /\ TokenInv' /\ LoopInv'
    <2>1. ArrivalInv'
        BY <1>0, <1>2, <1>4, <1>7 DEF ArrivalInv
    <2>2. TokenInv'
        BY <1>0, <1>2, <1>7 DEF TokenInv
    <2>3. LoopInv'
        BY <1>0, <1>2, <1>4, <1>7 DEF LoopInv, Connected
    <2> QED BY <2>1, <2>2, <2>3
<1>12. QueueInv'
    <2>1. \A j \in Keys : j # k => queues'[j] = queues[j]
        BY <1>1, <1>3
    <2>2. ASSUME NEW j \in Keys, NEW i \in 1..Len(queues'[j])
          PROVE  status'[queues'[j][i]] = "queued" /\ input[queues'[j][i]].key = j
        <3>1. CASE j = k
            <4>1. n + i \in 1..Len(q) /\ queues'[k][i] = q[n + i] /\ ~(n + i <= n)
                BY <3>1, <1>1, <1>3, <1>5
            <4>2. q[n + i] \in Ids /\ q[n + i] \notin took
                BY <4>1, <1>9
            <4>3. status[q[n + i]] = "queued" /\ input[q[n + i]].key = k
                BY <4>1, <1>0, <1>3 DEF QueueInv
            <4> QED BY <3>1, <4>1, <4>2, <4>3, <1>7
        <3>2. CASE j # k
            <4>1. queues[j] \in Seq(Ids) /\ queues'[j] = queues[j]
                BY <3>2, <2>1, <1>3
            <4>2. queues[j][i] \in Ids /\ status[queues[j][i]] = "queued"
                     /\ KeyOf(queues[j][i]) = j
                BY <4>1, <1>0 DEF QueueInv, KeyOf
            <4> QED BY <3>2, <4>1, <4>2, <1>4, <1>7 DEF KeyOf
        <3> QED BY <3>1, <3>2
    <2>3. ASSUME NEW j \in Keys, NEW i \in 1..Len(queues'[j]), NEW m \in 1..Len(queues'[j]),
                 i < m
          PROVE  queues'[j][i] < queues'[j][m]
        <3>1. CASE j = k
            <4>1. n + i \in 1..Len(q) /\ n + m \in 1..Len(q) /\ n + i < n + m
                <5>1. i \in 1..(Len(q) - n) /\ m \in 1..(Len(q) - n) /\ i < m
                    BY <3>1, <2>3, <1>5
                <5>2. Len(q) \in Nat /\ n \in Nat
                    BY <1>1, <1>3
                <5> QED BY <5>1, <5>2
            <4>2. q[n + i] < q[n + m]
                BY <4>1, <1>8
            <4> QED BY <3>1, <4>2, <1>5
        <3>2. CASE j # k
            <4>1. queues'[j] = queues[j]
                BY <3>2, <2>1
            <4>2. i \in 1..Len(queues[j]) /\ m \in 1..Len(queues[j]) /\ i < m
                BY <4>1, <2>3
            <4>3. QueueInv
                BY <1>0
            <4>4. queues[j][i] < queues[j][m]
                BY <4>2, <4>3 DEF QueueInv
            <4> QED BY <4>1, <4>4
        <3> QED BY <3>1, <3>2
    <2>4. ASSUME NEW r \in Ids, status'[r] = "queued"
          PROVE  Serialized(r) /\ \E i \in 1..Len(queues'[KeyOf(r)]) : queues'[KeyOf(r)][i] = r
        <3>1. status[r] = "queued" /\ r \notin took
            BY <2>4, <1>7
        <3>2. Serialized(r)
            BY <3>1, <1>0 DEF QueueInv
        <3>3. PICK i \in 1..Len(queues[KeyOf(r)]) : queues[KeyOf(r)][i] = r
            BY <3>1, <1>0 DEF QueueInv
        <3>4. KeyOf(r) \in Keys
            BY <3>2, <1>0, <3>1 DEF TypeOK, Request, NoRequest, Serialized, KeyOf
        <3>5. CASE KeyOf(r) # k
            BY <3>2, <3>3, <3>4, <3>5, <2>1
        <3>6. CASE KeyOf(r) = k
            <4>1. i > n /\ i \in 1..Len(q) /\ q[i] = r
                BY <3>1, <3>3, <3>6, <1>1, <1>3
            <4>2. i - n \in 1..Len(queues'[k]) /\ queues'[k][i - n] = r
                BY <4>1, <1>1, <1>3, <1>5
            <4> QED BY <3>2, <3>6, <4>2
        <3> QED BY <3>5, <3>6
    <2> QED BY <2>2, <2>3, <2>4, <1>2 DEF QueueInv, Serialized, KeyOf
<1>13. OneDrainerPerQueue'
    <2>1. \A j \in Keys : j # k => queues'[j] = queues[j]
        BY <1>1, <1>3
    <2> QED BY <1>0, <1>2, <1>3, <2>1 DEF OneDrainerPerQueue, KeyOf
<1>14. BatchInv'
    <2>1. batch' = [batch EXCEPT ![d] = took]
        BY <1>1
    <2>2. batch[d] = {}
        BY <1>0, <1>2, <1>3 DEF BatchInv
    <2>3. \A r \in Ids : status[r] \in Left => status'[r] = status[r]
        BY <1>4, <1>7 DEF Left
    <2> HIDE DEF took, q, k
    <2> QED BY <1>0, <1>2, <1>3, <1>4, <1>7, <2>1, <2>2, <2>3
            DEF BatchInv, KeyOf, Serialized, IsRead, Left, k
<1>15. OrderInv'
    <2> SUFFICES ASSUME NEW p \in Ids, NEW r \in Ids, KeyOf(p) = KeyOf(r),
                        status'[p] = "queued", status'[r] \in Left
                 PROVE  r < p
        BY <1>2 DEF OrderInv, KeyOf
    <2>1. status[p] = "queued" /\ p \notin took
        BY <1>7
    <2>2. CASE r \notin took
        BY <2>1, <2>2, <1>0, <1>7 DEF OrderInv
    <2>3. CASE r \in took
        <3>1. KeyOf(p) = k
            BY <2>3, <1>4
        <3>2. PICK i \in 1..Len(q) : q[i] = p
            BY <3>1, <2>1, <1>0 DEF QueueInv
        <3>3. PICK j \in 1..n : q[j] = r
            BY <2>3
        <3>4. j < i
            BY <2>1, <3>2, <3>3, <1>1, <1>3, <1>9
        <3>5. j \in 1..Len(q)
            BY <1>1, <1>3
        <3> QED BY <3>2, <3>3, <3>4, <3>5, <1>8
    <2> QED BY <2>2, <2>3
<1>16. ConflictsInOrder'
    <2> SUFFICES ASSUME NEW r \in Ids, NEW p \in 1..(r - 1),
                        Conflict(p, r), status'[r] \in Left
                 PROVE  status'[p] \in Settled
        BY <1>2 DEF ConflictsInOrder, Conflict, Serialized, IsRead, Left
    <2>0. p \in Ids /\ p < r /\ KeyOf(p) = KeyOf(r)
        BY DEF Ids, Conflict, KeyOf
    <2>1. CASE r \notin took
        <3>1. status[p] \in Settled
            BY <2>0, <2>1, <1>0, <1>7 DEF ConflictsInOrder, Left
        <3> QED BY <2>0, <3>1, <1>4, <1>7 DEF Settled
    <2>2. CASE r \in took
        <3>1. KeyOf(p) = k /\ status[r] = "queued"
            BY <2>0, <2>2, <1>4
        <3>2. p \notin took
            <4>1. r # p
                BY <2>0 DEF Ids
            <4> QED BY <4>1, <2>2, <1>4 DEF Conflict
        <3>3. status[p] # "queued"
            <4> SUFFICES ASSUME status[p] = "queued" PROVE FALSE
                OBVIOUS
            <4>1. PICK i \in 1..Len(q) : q[i] = p
                BY <3>1, <2>0, <1>0 DEF QueueInv
            <4>2. PICK j \in 1..n : q[j] = r
                BY <2>2
            <4>3. j < i
                BY <3>2, <4>1, <4>2, <1>1, <1>3, <1>9
            <4>4. j \in 1..Len(q)
                BY <1>1, <1>3
            <4>5. r < p
                BY <4>1, <4>2, <4>3, <4>4, <1>8
            <4> QED BY <2>0, <4>5 DEF Ids
        <3>4. status[p] \notin {"taken", "running"}
            BY <1>10, <2>0, <3>1
        <3>5. status[p] # "unsent"
            BY <2>0, <3>1, <1>0, <1>3 DEF ArrivalInv, TypeOK, Ids
        <3> QED BY <2>0, <3>2, <3>3, <3>4, <3>5, <1>3, <1>7 DEF Statuses
    <2> QED BY <2>1, <2>2
<1> QED BY <1>6, <1>11, <1>12, <1>13, <1>14, <1>15, <1>16 DEF IInv

(***************************************************************************)
(* An arriving request keeps the invariant: it gets the largest number so  *)
(* far, so it is younger than all requests of its key, and its queue gets  *)
(* a drain task exactly when the key had no entry.                         *)
(***************************************************************************)
LEMMA DispatchInv ==
    ASSUME IInv, Dispatch
    PROVE  IInv'
<1> USE DEF queueVars, gateVars, loopVars
<1> DEFINE r == sent + 1
<1>0. TypeOK /\ ArrivalInv /\ QueueInv /\ OneDrainerPerQueue /\ BatchInv /\ OrderInv
         /\ ConflictsInOrder /\ TokenInv /\ LoopInv
    BY DEF IInv
<1>1. PICK m \in Request :
        /\ input' = [input EXCEPT ![r] = m]
        /\ \/ /\ \E s \in {"dropped", "rejected"} : status' = [status EXCEPT ![r] = s]
              /\ UNCHANGED queueVars
           \/ /\ conn[m.conn] = "initialized"
              /\ m.key # NoKey
              /\ Enqueue(r, m.key)
           \/ /\ conn[m.conn] = "initialized"
              /\ m.key = NoKey
              /\ status' = [status EXCEPT ![r] = "taken"]
              /\ UNCHANGED queueVars
    BY DEF Dispatch, HasScope
<1>2. /\ UNCHANGED <<accepting, tokens, resources, conn, loop, closing, shutdown>>
      /\ sent' = sent + 1 /\ sent < MaxRequests
    BY DEF Dispatch, HasScope
<1>3. /\ r \in Ids /\ sent \in Nat /\ MaxRequests \in Nat
      /\ input \in [Ids -> Request \cup {NoRequest}]
      /\ drainer \in [Ids -> {"none", "lock", "join"}]
      /\ batch \in [Ids -> SUBSET Ids]
      /\ present \in SUBSET Keys
      /\ queues \in [Keys -> Seq(Ids)]
      /\ status \in [Ids -> Statuses]
    BY <1>0, <1>2 DEF TypeOK, Ids
<1>4. /\ status[r] = "unsent"
      /\ \A p \in Ids : p # r => input'[p] = input[p] /\ status'[p] = status[p]
      /\ input'[r] = m
      /\ status'[r] \in {"dropped", "rejected", "queued", "taken"}
      /\ status' = [status EXCEPT ![r] = status'[r]]
      /\ status'[r] \in {"queued", "taken"} => conn[m.conn] = "initialized"
    <2>1. PICK s \in {"dropped", "rejected", "queued", "taken"} :
             /\ status' = [status EXCEPT ![r] = s]
             /\ s \in {"queued", "taken"} => conn[m.conn] = "initialized"
        <3>1. CASE Enqueue(r, m.key) /\ conn[m.conn] = "initialized"
            BY <3>1 DEF Enqueue
        <3> QED BY <3>1, <1>1
    <2>2. status[r] = "unsent"
        BY <1>0, <1>3 DEF ArrivalInv
    <2>3. \A p \in Ids : p # r => input'[p] = input[p]
        BY <1>1, <1>3
    <2>4. input'[r] = m
        BY <1>1, <1>3
    <2> QED BY <2>1, <2>2, <2>3, <2>4, <1>3
<1>5. \A p \in Ids : p # r /\ status[p] # "unsent" => p < r
    BY <1>0, <1>3 DEF ArrivalInv, Ids
<1>6. drainer[r] = "none" /\ batch[r] = {} /\ \A d \in Ids : r \notin batch[d]
    <2>1. KeyOf(r) = NoKey
        BY <1>0, <1>3, <1>4 DEF ArrivalInv, KeyOf, NoRequest
    <2>2. \A d \in Ids : r \notin batch[d]
        BY <1>0, <1>3, <1>4 DEF BatchInv, Left
    <2>3. drainer[r] = "none"
        BY <2>1, <1>0, <1>3 DEF BatchInv
    <2> QED BY <2>2, <2>3, <1>0, <1>3 DEF BatchInv
<1>7. ArrivalInv'
    BY <1>0, <1>2, <1>3, <1>4 DEF ArrivalInv, Ids
<1>8. TokenInv' /\ LoopInv'
    <2>1. TokenInv'
        BY <1>0, <1>2, <1>4 DEF TokenInv
    <2>2. \A p \in Ids : status'[p] \in {"queued", "taken", "running"} =>
              conn[input'[p].conn] \in {"initialized", "removed", "closed"}
        <3> SUFFICES ASSUME NEW p \in Ids, status'[p] \in {"queued", "taken", "running"}
                     PROVE  conn[input'[p].conn] \in {"initialized", "removed", "closed"}
            OBVIOUS
        <3>1. CASE p = r
            BY <3>1, <1>4
        <3>2. CASE p # r
            BY <3>2, <1>0, <1>4 DEF LoopInv
        <3> QED BY <3>1, <3>2
    <2> QED BY <1>0, <1>2, <2>1, <2>2 DEF LoopInv, Connected
<1>9. OrderInv'
    <2> SUFFICES ASSUME NEW q \in Ids, NEW p \in Ids, input'[q].key = input'[p].key,
                        status'[q] = "queued", status'[p] \in Left
                 PROVE  p < q
        BY DEF OrderInv, KeyOf
    <2>1. CASE q = r
        <3>1. p # r /\ status[p] # "unsent"
            BY <2>1, <1>4 DEF Left
        <3> QED BY <2>1, <3>1, <1>5
    <2>2. CASE q # r /\ p # r
        BY <2>2, <1>0, <1>4 DEF OrderInv, KeyOf
    <2>3. CASE q # r /\ p = r
        <3>1. input'[q].key = NoKey
            BY <2>3, <1>1, <1>3, <1>4 DEF Enqueue, Left
        <3> QED BY <2>3, <3>1, <1>0, <1>4 DEF QueueInv, Serialized
    <2> QED BY <2>1, <2>2, <2>3
<1>10. ConflictsInOrder'
    <2> SUFFICES ASSUME NEW p \in Ids, NEW q \in 1..(p - 1),
                        Conflict(q, p)', status'[p] \in Left
                 PROVE  status'[q] \in Settled
        BY DEF ConflictsInOrder, Left
    <2>1. q \in Ids /\ q < p
        BY DEF Ids
    <2>2. CASE p = r
        BY <2>1, <2>2, <1>1, <1>3, <1>4 DEF Enqueue, Left, Conflict, Serialized
    <2>3. CASE p # r
        <3>1. q # r
            BY <2>1, <2>3, <1>4, <1>5 DEF Left, Ids
        <3>2. Conflict(q, p) /\ status[p] \in Left
            BY <2>1, <2>3, <3>1, <1>4 DEF Conflict, Serialized, IsRead
        <3> QED BY <2>1, <3>1, <3>2, <1>0, <1>4 DEF ConflictsInOrder, Left
    <2> QED BY <2>2, <2>3
<1>11. CASE m.key # NoKey /\ Enqueue(r, m.key)
    <2> DEFINE k == m.key
    <2>1. /\ status' = [status EXCEPT ![r] = "queued"]
          /\ queues' = [queues EXCEPT ![k] = Append(queues[k], r)]
          /\ present' = present \cup {k}
          /\ drainer' = [drainer EXCEPT ![r] = IF k \notin present THEN "lock" ELSE "none"]
          /\ batch' = batch
        BY <1>11 DEF Enqueue, SpawnsDrainer
    <2>2. k \in Keys /\ queues[k] \in Seq(Ids)
        BY <1>3, <1>11 DEF Request
    <2>3. TypeOK'
        <3>1. queues' \in [Keys -> Seq(Ids)]
            BY <1>3, <2>1, <2>2
        <3>2. /\ input' \in [Ids -> Request \cup {NoRequest}]
              /\ drainer' \in [Ids -> {"none", "lock", "join"}]
              /\ present' \in SUBSET Keys
              /\ status' \in [Ids -> Statuses]
              /\ sent' \in 0..MaxRequests
            BY <1>1, <1>2, <1>3, <2>1, <2>2 DEF Statuses
        <3> QED BY <1>0, <1>2, <2>1, <3>1, <3>2 DEF TypeOK
    <2>4. /\ Len(queues'[k]) = Len(queues[k]) + 1 /\ Len(queues[k]) \in Nat
          /\ queues'[k][Len(queues[k]) + 1] = r
          /\ \A i \in 1..Len(queues[k]) : queues'[k][i] = queues[k][i]
          /\ \A j \in Keys : j # k => queues'[j] = queues[j]
        BY <1>3, <2>1, <2>2
    <2>5. \A j \in Keys : \A i \in 1..Len(queues[j]) :
             queues[j][i] \in Ids /\ queues[j][i] # r /\ queues[j][i] < r
        <3> SUFFICES ASSUME NEW j \in Keys, NEW i \in 1..Len(queues[j])
                     PROVE  queues[j][i] \in Ids /\ queues[j][i] # r /\ queues[j][i] < r
            OBVIOUS
        <3>1. queues[j][i] \in Ids
            BY <1>3
        <3>2. status[queues[j][i]] = "queued"
            BY <1>0 DEF QueueInv
        <3> QED BY <3>1, <3>2, <1>4, <1>5
    <2>6. QueueInv'
        <3>1. ASSUME NEW j \in Keys, NEW i \in 1..Len(queues'[j])
              PROVE  status'[queues'[j][i]] = "queued" /\ input'[queues'[j][i]].key = j
            <4>1. CASE j = k /\ i = Len(queues[k]) + 1
                BY <4>1, <2>1, <2>4, <1>3, <1>4
            <4>2. CASE ~(j = k /\ i = Len(queues[k]) + 1)
                <5>1. i \in 1..Len(queues[j]) /\ queues'[j][i] = queues[j][i]
                    BY <4>2, <2>4
                <5>2. status[queues[j][i]] = "queued" /\ input[queues[j][i]].key = j
                    BY <5>1, <1>0 DEF QueueInv
                <5> QED BY <5>1, <5>2, <2>5, <1>4
            <4> QED BY <4>1, <4>2
        <3>2. ASSUME NEW j \in Keys, NEW i \in 1..Len(queues'[j]), NEW h \in 1..Len(queues'[j]),
                     i < h
              PROVE  queues'[j][i] < queues'[j][h]
            <4>1. i \in 1..Len(queues[j]) /\ queues'[j][i] = queues[j][i]
                BY <3>2, <2>4
            <4>2. CASE j = k /\ h = Len(queues[k]) + 1
                BY <4>1, <4>2, <2>4, <2>5
            <4>3. CASE ~(j = k /\ h = Len(queues[k]) + 1)
                <5>1. h \in 1..Len(queues[j]) /\ queues'[j][h] = queues[j][h]
                    BY <4>3, <2>4
                <5> QED BY <3>2, <4>1, <5>1, <1>0 DEF QueueInv
            <4> QED BY <4>2, <4>3
        <3>3. ASSUME NEW p \in Ids, status'[p] = "queued"
              PROVE  /\ input'[p].key # NoKey
                     /\ \E i \in 1..Len(queues'[input'[p].key]) : queues'[input'[p].key][i] = p
            <4>1. CASE p = r
                BY <4>1, <1>4, <1>11, <2>4
            <4>2. CASE p # r
                <5>1. status[p] = "queued" /\ input'[p] = input[p]
                    BY <3>3, <4>2, <1>4
                <5>2. KeyOf(p) # NoKey /\ KeyOf(p) \in Keys
                    BY <5>1, <1>0, <1>3 DEF QueueInv, Serialized, KeyOf, Request, NoRequest
                <5>3. PICK i \in 1..Len(queues[KeyOf(p)]) : queues[KeyOf(p)][i] = p
                    BY <5>1, <1>0 DEF QueueInv
                <5>4. i \in 1..Len(queues'[KeyOf(p)]) /\ queues'[KeyOf(p)][i] = p
                    BY <5>2, <5>3, <2>4
                <5> QED BY <5>1, <5>2, <5>4 DEF KeyOf
            <4> QED BY <4>1, <4>2
        <3> QED BY <3>1, <3>2, <3>3 DEF QueueInv, Serialized, KeyOf
    <2>7. OneDrainerPerQueue'
        <3>1. \A d \in Ids : d # r => drainer'[d] = drainer[d] /\ input'[d] = input[d]
            BY <1>3, <1>4, <2>1
        <3>2. drainer'[r] = (IF k \notin present THEN "lock" ELSE "none") /\ input'[r].key = k
            BY <1>3, <1>4, <2>1
        <3>3. \A j \in present' : \E d \in Ids : drainer'[d] # "none" /\ input'[d].key = j
            <4> SUFFICES ASSUME NEW j \in present'
                         PROVE  \E d \in Ids : drainer'[d] # "none" /\ input'[d].key = j
                OBVIOUS
            <4>1. CASE j \in present
                <5>1. PICK d \in Ids : drainer[d] # "none" /\ input[d].key = j
                    BY <4>1, <1>0 DEF OneDrainerPerQueue, KeyOf
                <5> QED BY <5>1, <3>1, <1>6
            <4>2. CASE j \notin present
                BY <4>2, <3>2, <2>1, <1>3
            <4> QED BY <4>1, <4>2
        <3>4. ASSUME NEW d \in Ids, drainer'[d] # "none"
              PROVE  /\ input'[d].key \in present'
                     /\ \A e \in Ids : drainer'[e] # "none" /\ input'[e].key = input'[d].key => e = d
            BY <3>1, <3>2, <3>4, <2>1, <1>0 DEF OneDrainerPerQueue, KeyOf
        <3>5. \A j \in Keys : queues'[j] # <<>> => j \in present'
            BY <2>1, <2>4, <1>0 DEF OneDrainerPerQueue
        <3> QED BY <3>3, <3>4, <3>5 DEF OneDrainerPerQueue, KeyOf
    <2>8. BatchInv'
        <3>1. \A d \in Ids : d # r => drainer'[d] = drainer[d]
            BY <1>3, <2>1
        <3>2. \A d \in Ids : \A p \in batch[d] : p \in Ids /\ p # r /\ d # r
            BY <1>3, <1>6
        <3> QED BY <3>1, <3>2, <2>1, <2>2, <1>0, <1>3, <1>4
                DEF BatchInv, KeyOf, Serialized, IsRead, Left
    <2> QED BY <1>7, <1>8, <1>9, <1>10, <2>3, <2>6, <2>7, <2>8 DEF IInv
<1>12. CASE /\ UNCHANGED <<queues, present, drainer, batch>>
            /\ status' = [status EXCEPT ![r] = status'[r]]
            /\ status'[r] = "taken" => m.key = NoKey
            /\ status'[r] # "queued"
    <2>1. TypeOK'
        <3>1. /\ input' \in [Ids -> Request \cup {NoRequest}]
              /\ status' \in [Ids -> Statuses]
              /\ sent' \in 0..MaxRequests
            <4>1. status' \in [Ids -> Statuses]
                BY <1>3, <1>4 DEF Statuses, Settled
            <4>2. input' \in [Ids -> Request \cup {NoRequest}]
                BY <1>1, <1>3
            <4> QED BY <4>1, <4>2, <1>2, <1>3
        <3> QED BY <1>0, <1>2, <1>12, <3>1 DEF TypeOK
    <2>2. \A j \in Keys : \A i \in 1..Len(queues[j]) : queues[j][i] \in Ids /\ queues[j][i] # r
        BY <1>0, <1>3, <1>4 DEF QueueInv
    <2>3. QueueInv'
        <3>1. \A p \in Ids : status'[p] = "queued" => p # r /\ status[p] = "queued"
            BY <1>4, <1>12
        <3>2. \A j \in Keys : \A i \in 1..Len(queues[j]) :
                 status'[queues[j][i]] = "queued" /\ input'[queues[j][i]].key = j
            BY <2>2, <1>0, <1>4 DEF QueueInv
        <3>3. ASSUME NEW p \in Ids, status'[p] = "queued"
              PROVE  Serialized(p)' /\ \E i \in 1..Len(queues[KeyOf(p)']) : queues[KeyOf(p)'][i] = p
            <4>1. p # r /\ status[p] = "queued"
                BY <3>1, <3>3
            <4>2. KeyOf(p)' = KeyOf(p) /\ (Serialized(p)' <=> Serialized(p))
                BY <4>1, <1>4 DEF KeyOf, Serialized
            <4> QED BY <4>1, <4>2, <1>0 DEF QueueInv
        <3> QED BY <3>2, <3>3, <1>0, <1>12 DEF QueueInv
    <2>4. OneDrainerPerQueue'
        BY <1>0, <1>4, <1>6, <1>12 DEF OneDrainerPerQueue, KeyOf
    <2>5. BatchInv'
        <3>1. \A d \in Ids : \A p \in batch[d] : p \in Ids /\ p # r /\ d # r
            BY <1>3, <1>6
        <3> QED BY <3>1, <1>0, <1>3, <1>4, <1>6, <1>12
                DEF BatchInv, KeyOf, Serialized, IsRead, Left
    <2> QED BY <1>7, <1>8, <1>9, <1>10, <2>1, <2>3, <2>4, <2>5 DEF IInv
<1> QED BY <1>1, <1>3, <1>11, <1>12

-------------------------------------------------------------------------------
(* Every step keeps the invariant. *)
LEMMA NextInv == IInv /\ [Next]_vars => IInv'
<1> SUFFICES ASSUME IInv, [Next]_vars PROVE IInv'
    OBVIOUS
<1>1. CASE UNCHANGED vars
    BY <1>1 DEF vars, queueVars, gateVars, loopVars, IInv, TypeOK, ArrivalInv, QueueInv,
       OneDrainerPerQueue, BatchInv, OrderInv, ConflictsInOrder, TokenInv, LoopInv,
       Conflict, Serialized, IsRead, KeyOf, Connected
<1>2. CASE Next
    BY <1>2, GateStepInv, LoopStepInv, DrainReturnsInv, TakeInv, DispatchInv DEF Next
<1> QED BY <1>1, <1>2

(* The inductive invariant holds in every reachable state. *)
THEOREM Inductive == Spec => []IInv
    BY InitInv, NextInv, PTL DEF Spec

(* State is well typed: queues, gates, drain tasks and loop, for all constants. *)
THEOREM TypeCorrect == Spec => []TypeOK
<1>1. IInv => TypeOK
    BY DEF IInv
<1> QED BY <1>1, Inductive, PTL

(***************************************************************************)
(* Conflicting requests run one after the other in the order of arrival,   *)
(* for any number of requests, keys and connections.                       *)
(***************************************************************************)
THEOREM Serialization == Spec => []ConflictsInOrder
<1>1. IInv => ConflictsInOrder
    BY DEF IInv
<1> QED BY <1>1, Inductive, PTL

(* Every queue is drained by exactly one task, so no request is stranded. *)
THEOREM SingleDrainer == Spec => []OneDrainerPerQueue
<1>1. IInv => OneDrainerPerQueue
    BY DEF IInv
<1> QED BY <1>1, Inductive, PTL

(* A closed connection has no running handler and keeps no registered state. *)
THEOREM CloseSafety == Spec => []ClosedIsQuiet
<1>1. IInv => ClosedIsQuiet
    <2> SUFFICES ASSUME IInv, NEW c \in Conns, conn[c] = "closed"
                 PROVE  /\ ~accepting[c] /\ c \notin resources
                        /\ \A r \in Ids : input[r].conn = c => status[r] # "running"
        BY DEF ClosedIsQuiet
    <2> QED BY DEF IInv, LoopInv, TokenInv
<1> QED BY <1>1, Inductive, PTL

(* After an exit that was not forced no handler is running. *)
THEOREM ExitSafety == Spec => []GracefulExitIsQuiet
<1>1. IInv => GracefulExitIsQuiet
    <2> SUFFICES ASSUME IInv, loop = "exited", shutdown # "forced",
                        NEW r \in Ids, status[r] = "running"
                 PROVE  FALSE
        BY DEF GracefulExitIsQuiet
    <2>0. TypeOK /\ ArrivalInv /\ TokenInv /\ LoopInv
        BY DEF IInv
    <2>1. input[r].conn \in Conns /\ r \in tokens[input[r].conn]
        BY <2>0 DEF TypeOK, ArrivalInv, TokenInv, Request, Ids
    <2>2. conn[input[r].conn] # "removed"
        BY <2>0, <2>1 DEF LoopInv
    <2>3. conn[input[r].conn] \in {"initialized", "closed"}
        BY <2>0, <2>1, <2>2 DEF LoopInv
    <2> QED BY <2>0, <2>1, <2>3 DEF LoopInv, Connected
<1> QED BY <1>1, Inductive, PTL

-------------------------------------------------------------------------------
(* The phases of FifoAccess by status. *)
LEMMA PhaseOf ==
    ASSUME NEW s \in Statuses
    PROVE  /\ Phase(s) = "absent" <=> s = "unsent"
           /\ Phase(s) = "waiting" <=> s \in {"queued", "taken"}
           /\ Phase(s) = "active" <=> s = "running"
           /\ Phase(s) = "over" <=> s \in Settled
    BY DEF Phase, Statuses, Settled

(* A change of one status is a change of one phase. *)
LEMMA PhaseChange ==
    ASSUME TypeOK, NEW r \in Ids, NEW s, status' = [status EXCEPT ![r] = s]
    PROVE  phases' = [phases EXCEPT ![r] = Phase(s)]
<1>1. \A p \in Ids : status'[p] = IF p = r THEN s ELSE status[p]
    BY DEF TypeOK
<1>2. phases' = [p \in Ids |-> Phase(status'[p])]
    BY DEF phases
<1>3. [phases EXCEPT ![r] = Phase(s)]
         = [p \in Ids |-> IF p = r THEN Phase(s) ELSE Phase(status[p])]
    BY DEF phases
<1>4. \A p \in Ids : Phase(status'[p]) = IF p = r THEN Phase(s) ELSE Phase(status[p])
    BY <1>1
<1> QED BY <1>2, <1>3, <1>4

(***************************************************************************)
(* Under the invariant every step of the server is a step of FifoAccess or *)
(* leaves it alone; admitting a handler is the step that needs the proof.  *)
(***************************************************************************)
LEMMA RefinementStep == IInv /\ [Next]_vars => [FA!Next]_(FA!vars)
<1> SUFFICES ASSUME IInv, [Next]_vars PROVE FA!Next \/ UNCHANGED <<input, phases>>
    BY DEF FA!vars
<1> USE DEF queueVars, gateVars, loopVars
<1>0. TypeOK /\ ArrivalInv /\ QueueInv /\ ConflictsInOrder
    BY DEF IInv
<1>1. status \in [Ids -> Statuses]
    BY <1>0 DEF TypeOK
<1>2. ASSUME UNCHANGED <<input, status>> PROVE UNCHANGED <<input, phases>>
    BY <1>2 DEF phases
<1>3. CASE Dispatch
    <2> DEFINE r == sent + 1
    <2>1. PICK m \in Request, s \in {"dropped", "rejected", "queued", "taken"} :
             input' = [input EXCEPT ![r] = m] /\ status' = [status EXCEPT ![r] = s]
        <3>1. PICK m \in Request :
                /\ input' = [input EXCEPT ![r] = m]
                /\ \/ \E s \in {"dropped", "rejected", "taken"} : status' = [status EXCEPT ![r] = s]
                   \/ Enqueue(r, m.key)
            BY <1>3 DEF Dispatch, HasScope
        <3>2. CASE Enqueue(r, m.key)
            <4>1. status' = [status EXCEPT ![r] = "queued"]
                BY <3>2 DEF Enqueue
            <4> QED BY <3>1, <4>1
        <3> QED BY <3>1, <3>2
    <2>2. r \in Ids /\ sent \in Nat /\ status[r] = "unsent"
        BY <1>0, <1>3 DEF Dispatch, HasScope, TypeOK, ArrivalInv, Ids
    <2>3. \A q \in Ids : q < r => status[q] # "unsent"
        BY <1>0, <2>2 DEF ArrivalInv, Ids
    <2>4. phases' = [phases EXCEPT ![r] = Phase(s)] /\ Phase(s) \in {"waiting", "over"}
        BY <1>0, <2>1, <2>2, PhaseChange DEF Phase
    <2>5. phases[r] = "absent" /\ \A q \in Ids : FA!Earlier(q, r) => phases[q] # "absent"
        BY <2>2, <2>3, <1>1, PhaseOf DEF phases, FA!Earlier
    <2>6. FA!Arrive(r) \/ FA!Refuse(r)
        BY <2>1, <2>4, <2>5 DEF FA!Arrive, FA!Refuse
    <2> QED BY <2>2, <2>6 DEF FA!Next
<1>4. ASSUME NEW r \in Ids, Admit(r) PROVE FA!Next
    <2>1. status[r] = "taken" /\ status' = [status EXCEPT ![r] = "running"] /\ input' = input
        BY <1>4 DEF Admit
    <2>2. phases' = [phases EXCEPT ![r] = "active"] /\ phases[r] = "waiting"
        BY <1>0, <2>1, PhaseChange DEF Phase, phases
    <2>3. ASSUME NEW q \in Ids, FA!Earlier(q, r), FA!Conflict(q, r) PROVE phases[q] = "over"
        <3>1. q \in 1..(r - 1) /\ Conflict(q, r)
            BY <2>3 DEF FA!Earlier, FA!Conflict, Conflict, Serialized, IsRead, Ids
        <3>2. status[q] \in Settled
            BY <3>1, <2>1, <1>0 DEF ConflictsInOrder
        <3> QED BY <3>2, <1>1, PhaseOf DEF phases
    <2> QED BY <2>1, <2>2, <2>3 DEF FA!Start, FA!Next
<1>5. ASSUME NEW r \in Ids, TurnAway(r) PROVE FA!Next
    <2>1. status[r] = "taken" /\ status' = [status EXCEPT ![r] = "skipped"] /\ input' = input
        BY <1>5 DEF TurnAway
    <2>2. phases' = [phases EXCEPT ![r] = Phase(status'[r])] /\ status'[r] \in Settled
        BY <1>0, <1>1, <2>1, PhaseChange DEF Settled
    <2>3. Phase(status'[r]) = "over" /\ phases[r] = "waiting"
        BY <2>1, <2>2, <1>1, PhaseOf DEF phases, Statuses
    <2> QED BY <2>1, <2>2, <2>3 DEF FA!Abandon, FA!Next
<1>6. ASSUME NEW r \in Ids, HandlerReturns(r) PROVE FA!Next
    <2>1. status[r] = "running" /\ status' = [status EXCEPT ![r] = "done"] /\ input' = input
        BY <1>6 DEF HandlerReturns
    <2>2. phases' = [phases EXCEPT ![r] = Phase(status'[r])] /\ status'[r] \in Settled
        BY <1>0, <1>1, <2>1, PhaseChange DEF Settled
    <2>3. Phase(status'[r]) = "over" /\ phases[r] = "active"
        BY <2>1, <2>2, <1>1, PhaseOf DEF phases, Statuses
    <2> QED BY <2>1, <2>2, <2>3 DEF FA!End, FA!Next
<1>7. ASSUME NEW d \in Ids, Take(d) PROVE UNCHANGED <<input, phases>>
    <2> DEFINE q == queues[KeyOf(d)]
    <2>1. PICK n \in 1..Len(q) :
             status' = [r \in Ids |-> IF r \in {q[i] : i \in 1..n} THEN "taken" ELSE status[r]]
        BY <1>7 DEF Take
    <2>2. KeyOf(d) \in Keys /\ q \in Seq(Ids) /\ input' = input
        <3>1. KeyOf(d) \in present /\ input' = input
            BY <1>7 DEF Take
        <3> QED BY <1>0, <3>1 DEF TypeOK
    <2>3. \A i \in 1..n : status[q[i]] = "queued"
        BY <1>0, <2>2 DEF QueueInv
    <2>4. \A r \in Ids : Phase(status'[r]) = Phase(status[r])
        <3> SUFFICES ASSUME NEW r \in Ids PROVE Phase(status'[r]) = Phase(status[r])
            OBVIOUS
        <3>1. CASE r \in {q[i] : i \in 1..n}
            <4>1. status'[r] = "taken" /\ status[r] = "queued"
                BY <3>1, <2>1, <2>3
            <4> QED BY <4>1 DEF Phase
        <3>2. CASE r \notin {q[i] : i \in 1..n}
            BY <3>2, <2>1
        <3> QED BY <3>1, <3>2
    <2> QED BY <2>2, <2>4 DEF phases
<1>8. CASE UNCHANGED vars
    BY <1>2, <1>8 DEF vars
<1>9. CASE \/ \E c \in Conns : \/ ConnectionOpened(c) \/ Initialize(c)
                               \/ ConnectionClosed(c) \/ ExitGateShutdown(c)
           \/ GateShutdown \/ Cleanup \/ Signal \/ LoopEnds \/ Exit
           \/ \E r \in Ids : DrainReturns(r) \/ Joined(r) \/ HandlerRegisters(r)
    BY <1>2, <1>9 DEF ConnectionOpened, Initialize, ConnectionClosed, ExitGateShutdown,
       GateShutdown, Cleanup, Signal, LoopEnds, Exit, DrainReturns, Joined, HandlerRegisters
<1> QED BY <1>3, <1>4, <1>5, <1>6, <1>7, <1>8, <1>9 DEF Next

(***************************************************************************)
(* The app server's queues, drain tasks and gates implement ordered access *)
(* to every resource (the safety part of FifoAccess).                      *)
(***************************************************************************)
THEOREM Refinement == Spec => FA!SafeSpec
<1>1. Init => FA!Init
    BY DEF Init, FA!Init, phases, Phase
<1> QED BY <1>1, RefinementStep, Inductive, PTL DEF Spec, FA!SafeSpec
===============================================================================
