------------------------- MODULE RequestSerialization -------------------------
(***************************************************************************)
(* The request path of the app server: the processor loop that receives    *)
(* transport events, the per-resource request queues with their drain      *)
(* tasks (RequestSerializationQueues) and the per-connection gate that     *)
(* every initialized request passes (ConnectionRpcGate).                   *)
(*                                                                         *)
(* Operators called Mut_X are faulty variants of X, the mistakes the       *)
(* properties are meant to catch; no specification here uses them.         *)
(*                                                                         *)
(* Processes: the processor loop (one), one drain task per queue that was  *)
(* created, one task per request that has no serialization scope, and one  *)
(* handler per admitted request.  Critical sections of the two mutexes are *)
(* single steps; everything between them interleaves.                      *)
(***************************************************************************)
EXTENDS Naturals, Sequences, FiniteSets

CONSTANTS
    MaxRequests,       \* bound: requests the clients send altogether
    Keys,              \* RequestSerializationQueueKey
    NoKey,             \* serialization_scope() = None
    Conns,             \* connection ids
    NoConn,            \* no connection
    SingleClientMode   \* shutdown_when_no_connections

ASSUME MaxRequestsAssumption == MaxRequests \in Nat
ASSUME NoKeyAssumption == NoKey \notin Keys
ASSUME NoConnAssumption == NoConn \notin Conns
ASSUME SingleClientAssumption == SingleClientMode \in BOOLEAN

Ids == 1..MaxRequests
Access == {"Exclusive", "SharedRead"}

(***************************************************************************)
(* A request as the scheduler sees it.  from_scope gives shared access to  *)
(* the global scope only; the model lets any key be read-shared, which     *)
(* contains the real assignments.  Without a key the access is immaterial. *)
(***************************************************************************)
Request == [conn : Conns, key : Keys, access : Access]
           \cup [conn : Conns, key : {NoKey}, access : {"Exclusive"}]
NoRequest == [conn |-> NoConn, key |-> NoKey, access |-> "Exclusive"]

VARIABLES
    input,       \* the requests that arrived, numbered in order of arrival
    sent,        \* how many of them have arrived
    status,      \* what has become of each request
    queues,      \* key -> waiting requests (RequestSerializationQueues.inner)
    present,     \* the keys that have an entry in that map
    drainer,     \* drain task spawned by the enqueue of a request: its state
    batch,       \* drain task -> the requests it took out and now joins
    conn,        \* life of each connection, as the loop's map records it
    accepting,   \* gate: may handlers of this connection start?
    tokens,      \* gate: the handlers that hold a TaskTracker token
    resources,   \* connections that own watches, processes, subscriptions
    loop,        \* control state of the processor loop
    closing,     \* the connection connection_closed is working on
    shutdown     \* ShutdownState: "no", "requested", "forced"

queueVars == <<queues, present, drainer, batch>>
gateVars  == <<accepting, tokens>>
loopVars  == <<conn, loop, closing, shutdown>>
vars == <<input, sent, status, queueVars, gateVars, resources, loopVars>>

Settled == {"done", "skipped", "rejected", "dropped"}
Statuses == {"unsent", "queued", "taken", "running"} \cup Settled

\* Type correctness: every request record, queue, gate and loop state is one the code can represent.
TypeOK ==
    /\ input \in [Ids -> Request \cup {NoRequest}]
    /\ sent \in 0..MaxRequests
    /\ status \in [Ids -> Statuses]
    /\ queues \in [Keys -> Seq(Ids)]
    /\ present \in SUBSET Keys
    /\ drainer \in [Ids -> {"none", "lock", "join"}]
    /\ batch \in [Ids -> SUBSET Ids]
    /\ conn \in [Conns -> {"new", "opened", "initialized", "removed", "closed"}]
    /\ accepting \in [Conns -> BOOLEAN]
    /\ tokens \in [Conns -> SUBSET Ids]
    /\ resources \in SUBSET Conns
    /\ loop \in {"recv", "closing", "draining", "exiting", "exited"}
    /\ closing \in Conns \cup {NoConn}
    /\ shutdown \in {"no", "requested", "forced"}

Init ==
    /\ input = [r \in Ids |-> NoRequest]
    /\ sent = 0
    /\ status = [r \in Ids |-> "unsent"]
    /\ queues = [k \in Keys |-> <<>>]
    /\ present = {}
    /\ drainer = [r \in Ids |-> "none"]
    /\ batch = [r \in Ids |-> {}]
    /\ conn = [c \in Conns |-> "new"]
    /\ accepting = [c \in Conns |-> TRUE]
    /\ tokens = [c \in Conns |-> {}]
    /\ resources = {}
    /\ loop = "recv"
    /\ closing = NoConn
    /\ shutdown = "no"

-------------------------------------------------------------------------------
(* Connections and requests arriving at the processor loop. *)

Connected(c) == conn[c] \in {"opened", "initialized"}

ConnectionOpened(c) ==
    /\ loop = "recv"
    /\ conn[c] = "new"
    /\ conn' = [conn EXCEPT ![c] = "opened"]
    /\ UNCHANGED <<input, sent, status, queueVars, gateVars, resources,
                   loop, closing, shutdown>>

(* The initialize request: handled in the loop itself, outside gate and queues. *)
Initialize(c) ==
    /\ loop = "recv"
    /\ conn[c] = "opened"
    /\ conn' = [conn EXCEPT ![c] = "initialized"]
    /\ UNCHANGED <<input, sent, status, queueVars, gateVars, resources,
                   loop, closing, shutdown>>

(***************************************************************************)
(* enqueue: append to the queue of the key, or create it and spawn its     *)
(* drain task.  The spawn follows the unlock, but nobody else creates or   *)
(* removes this key's entry in between, so it is part of the step; the     *)
(* delay before the task runs is the delay before its first Take.          *)
(***************************************************************************)
Mut_SpawnsDrainer(k) == TRUE
SpawnsDrainer(k) == k \notin present

Enqueue(r, k) ==
    /\ status' = [status EXCEPT ![r] = "queued"]
    /\ queues' = [queues EXCEPT ![k] = Append(@, r)]
    /\ present' = present \cup {k}
    /\ drainer' = [drainer EXCEPT ![r] = IF SpawnsDrainer(k) THEN "lock" ELSE "none"]
    /\ UNCHANGED batch

(* serialization_scope() gave a scope. *)
Mut_HasScope(m) == TRUE
HasScope(m) == m.key # NoKey

(***************************************************************************)
(* One request message: dropped when the connection is unknown (already    *)
(* removed from the loop's map), refused when it is not initialized or did *)
(* not enable the experimental API the request belongs to,                 *)
(* queued under its scope's key, or spawned on a task of its own when it   *)
(* has no scope.                                                           *)
(***************************************************************************)
Dispatch ==
    /\ loop = "recv"
    /\ sent < MaxRequests
    /\ sent' = sent + 1
    /\ \E m \in Request :
       LET r == sent + 1
           c == m.conn
           k == m.key
       IN /\ input' = [input EXCEPT ![r] = m]
          /\ \/ /\ conn[c] = "closed"
                /\ status' = [status EXCEPT ![r] = "dropped"]
                /\ UNCHANGED queueVars
             \/ /\ Connected(c)
                /\ status' = [status EXCEPT ![r] = "rejected"]
                /\ UNCHANGED queueVars
             \/ /\ conn[c] = "initialized"
                /\ HasScope(m)
                /\ Enqueue(r, k)
             \/ /\ conn[c] = "initialized"
                /\ ~HasScope(m)
                /\ status' = [status EXCEPT ![r] = "taken"]
                /\ UNCHANGED queueVars
    /\ UNCHANGED <<gateVars, resources, loopVars>>

-------------------------------------------------------------------------------
(* Drain tasks.  A task is named by the request whose enqueue spawned it. *)

KeyOf(d) == input[d].key
IsRead(r) == input[r].access = "SharedRead"

(* How many requests leave the front of queue q together. *)
Mut_BatchLength(q, n) ==
    n = IF IsRead(q[1]) THEN Len(q) ELSE 1

BatchLength(q, n) ==
    /\ n \in 1..Len(q)
    /\ \/ ~IsRead(q[1]) /\ n = 1
       \/ /\ \A i \in 1..n : IsRead(q[i])
          /\ n < Len(q) => ~IsRead(q[n + 1])

(* drain, under the lock: take the head and, if it reads, the reads behind it. *)
Take(d) ==
    /\ drainer[d] = "lock"
    /\ KeyOf(d) \in present
    /\ LET q == queues[KeyOf(d)]
       IN \E n \in 1..Len(q) :
            LET took == {q[i] : i \in 1..n}
            IN /\ BatchLength(q, n)
               /\ queues' = [queues EXCEPT ![KeyOf(d)] = SubSeq(q, n + 1, Len(q))]
               /\ batch' = [batch EXCEPT ![d] = took]
               /\ status' = [r \in Ids |-> IF r \in took THEN "taken" ELSE status[r]]
    /\ drainer' = [drainer EXCEPT ![d] = "join"]
    /\ UNCHANGED <<input, sent, present, gateVars, resources, loopVars>>

(* drain, under the lock: no entry, or an empty queue whose entry is removed. *)
Mut_RemoveEntry(k) == present
RemoveEntry(k) == present \ {k}

DrainReturns(d) ==
    /\ drainer[d] = "lock"
    /\ KeyOf(d) \in present => queues[KeyOf(d)] = <<>>
    /\ present' = RemoveEntry(KeyOf(d))
    /\ drainer' = [drainer EXCEPT ![d] = "none"]
    /\ UNCHANGED <<input, sent, status, queues, batch, gateVars, resources, loopVars>>

(* join_all: every request of the batch has run or was turned away. *)
Mut_BatchSettled(d) == TRUE
BatchSettled(d) == \A r \in batch[d] : status[r] \in Settled

Joined(d) ==
    /\ drainer[d] = "join"
    /\ BatchSettled(d)
    /\ drainer' = [drainer EXCEPT ![d] = "lock"]
    /\ batch' = [batch EXCEPT ![d] = {}]
    /\ UNCHANGED <<input, sent, status, queues, present, gateVars, resources, loopVars>>

-------------------------------------------------------------------------------
(* ConnectionRpcGate::run and the handlers it lets through. *)

Mut_MayStart(r) == TRUE
MayStart(r) == accepting[input[r].conn]

Admit(r) ==
    /\ status[r] = "taken"
    /\ MayStart(r)
    /\ status' = [status EXCEPT ![r] = "running"]
    /\ tokens' = [tokens EXCEPT ![input[r].conn] = @ \cup {r}]
    /\ UNCHANGED <<input, sent, queueVars, accepting, resources, loopVars>>

TurnAway(r) ==
    /\ status[r] = "taken"
    /\ ~MayStart(r)
    /\ status' = [status EXCEPT ![r] = "skipped"]
    /\ UNCHANGED <<input, sent, queueVars, gateVars, resources, loopVars>>

(***************************************************************************)
(* A handler may register state that belongs to its connection: file       *)
(* watches, exec processes, thread subscriptions.                          *)
(***************************************************************************)
HandlerRegisters(r) ==
    /\ status[r] = "running"
    /\ resources' = resources \cup {input[r].conn}
    /\ UNCHANGED <<input, sent, status, queueVars, gateVars, loopVars>>

Mut_DropToken(r) == tokens
DropToken(r) == [tokens EXCEPT ![input[r].conn] = @ \ {r}]

HandlerReturns(r) ==
    /\ status[r] = "running"
    /\ status' = [status EXCEPT ![r] = "done"]
    /\ tokens' = DropToken(r)
    /\ UNCHANGED <<input, sent, queueVars, accepting, resources, loopVars>>

-------------------------------------------------------------------------------
(***************************************************************************)
(* A connection closes: the loop removes it from its map and runs          *)
(* connection_closed to the end before it looks at another event.          *)
(***************************************************************************)
ConnectionClosed(c) ==
    /\ loop = "recv"
    /\ Connected(c)
    /\ conn' = [conn EXCEPT ![c] = "removed"]
    /\ loop' = "closing"
    /\ closing' = c
    /\ UNCHANGED <<input, sent, status, queueVars, gateVars, resources, shutdown>>

(* ConnectionRpcGate::shutdown under its lock: accepting = false, tasks.close(). *)
GateShutdown ==
    /\ loop = "closing"
    /\ accepting' = [accepting EXCEPT ![closing] = FALSE]
    /\ loop' = "draining"
    /\ UNCHANGED <<input, sent, status, queueVars, tokens, resources, conn, closing,
                   shutdown>>

(* tasks.wait() returns once the tracker is closed and no token is left. *)
Mut_HandlersGone(c) == ~accepting[c]
HandlersGone(c) == ~accepting[c] /\ tokens[c] = {}

(***************************************************************************)
(* tasks.wait() returned: the per-connection state of the outgoing sender, *)
(* the file watches, the exec processes and the thread subscriptions is    *)
(* dropped.  In single-client mode losing the last connection ends the     *)
(* loop.                                                                   *)
(***************************************************************************)
Cleanup ==
    /\ loop = "draining"
    /\ HandlersGone(closing)
    /\ resources' = resources \ {closing}
    /\ conn' = [conn EXCEPT ![closing] = "closed"]
    /\ loop' = IF SingleClientMode /\ \A c \in Conns : ~Connected(c)
               THEN "exiting" ELSE "recv"
    /\ closing' = NoConn
    /\ UNCHANGED <<input, sent, status, queueVars, gateVars, shutdown>>

-------------------------------------------------------------------------------
(* Shutdown of the whole server. *)

(***************************************************************************)
(* ShutdownState::on_signal: the first signal asks, a second forceable one *)
(* forces.  update() sees that before the next select, and a forced exit   *)
(* skips the gates.                                                        *)
(***************************************************************************)
Signal ==
    /\ loop = "recv"
    /\ \/ /\ shutdown = "no"
          /\ shutdown' = "requested"
          /\ UNCHANGED loop
       \/ /\ shutdown = "requested"
          /\ shutdown' = "forced"
          /\ loop' = "exited"
    /\ UNCHANGED <<input, sent, status, queueVars, gateVars, resources, conn, closing>>

(***************************************************************************)
(* The loop ends: the transport channel closed, or update() says Finish    *)
(* (requested, with no assistant turn running: the turn count is the       *)
(* environment's).                                                         *)
(***************************************************************************)
LoopEnds ==
    /\ loop = "recv"
    /\ loop' = "exiting"
    /\ UNCHANGED <<input, sent, status, queueVars, gateVars, resources, conn, closing,
                   shutdown>>

(* join_all over the remaining connections: each gate's critical section. *)
ExitGateShutdown(c) ==
    /\ loop = "exiting"
    /\ Connected(c)
    /\ accepting[c]
    /\ accepting' = [accepting EXCEPT ![c] = FALSE]
    /\ UNCHANGED <<input, sent, status, queueVars, tokens, resources, loopVars>>

Exit ==
    /\ loop = "exiting"
    /\ \A c \in Conns : Connected(c) => HandlersGone(c)
    /\ loop' = "exited"
    /\ UNCHANGED <<input, sent, status, queueVars, gateVars, resources, conn, closing,
                   shutdown>>

-------------------------------------------------------------------------------
DrainStep(d) == Take(d) \/ DrainReturns(d) \/ Joined(d)
GateStep(r) == Admit(r) \/ TurnAway(r)

Next ==
    \/ \E c \in Conns : ConnectionOpened(c) \/ Initialize(c) \/ ConnectionClosed(c)
    \/ Dispatch
    \/ \E r \in Ids : Take(r) \/ DrainReturns(r) \/ Joined(r)
    \/ \E r \in Ids : Admit(r) \/ TurnAway(r) \/ HandlerRegisters(r) \/ HandlerReturns(r)
    \/ GateShutdown \/ Cleanup
    \/ Signal \/ LoopEnds \/ Exit
    \/ \E c \in Conns : ExitGateShutdown(c)

(***************************************************************************)
(* Fairness: the runtime polls a task that can make progress (drain tasks, *)
(* gate, the processor loop inside connection_closed and at exit) and a    *)
(* handler returns.  Nothing is assumed about clients and signals.         *)
(***************************************************************************)
Fairness ==
    /\ \A r \in Ids : WF_vars(DrainStep(r)) /\ WF_vars(GateStep(r))
    /\ \A r \in Ids : WF_vars(HandlerReturns(r))
    /\ WF_vars(GateShutdown \/ Cleanup)
    /\ WF_vars(Exit) /\ \A c \in Conns : WF_vars(ExitGateShutdown(c))

Spec == Init /\ [][Next]_vars
FairSpec == Spec /\ Fairness

-------------------------------------------------------------------------------
(* Correctness. *)

Serialized(r) == input[r].key # NoKey
Conflict(q, r) ==
    /\ Serialized(q)
    /\ input[q].key = input[r].key
    /\ ~(IsRead(q) /\ IsRead(r))

(***************************************************************************)
(* Conflicting requests take effect one after the other in the order they  *)
(* arrived: once a request has left its queue, every earlier request it    *)
(* conflicts with is over.  Implies that an exclusive handler runs alone.  *)
(* About RequestSerializationQueues::drain against enqueue.                *)
(***************************************************************************)
ConflictsInOrder ==
    \A r \in Ids : \A q \in 1..(r - 1) :
        Conflict(q, r) /\ status[r] \in {"taken", "running", "done", "skipped"}
            => status[q] \in Settled

(***************************************************************************)
(* A key has an entry in the queue map exactly while one, and only one,    *)
(* drain task works on it: no request is stranded in a queue nobody        *)
(* drains, and no two tasks take from the same queue.                      *)
(* About the spawn decision in enqueue and the removal in drain.           *)
(***************************************************************************)
OneDrainerPerQueue ==
    /\ \A k \in present : \E d \in Ids : drainer[d] # "none" /\ KeyOf(d) = k
    /\ \A d \in Ids : drainer[d] # "none" =>
          /\ KeyOf(d) \in present
          /\ \A e \in Ids : drainer[e] # "none" /\ KeyOf(e) = KeyOf(d) => e = d
    /\ \A k \in Keys : queues[k] # <<>> => k \in present

(***************************************************************************)
(* After connection_closed no handler of the connection runs or can still  *)
(* start, and nothing a handler registered for the connection survives.    *)
(* About the order gate.shutdown().await before the cleanup calls.         *)
(***************************************************************************)
ClosedIsQuiet ==
    \A c \in Conns : conn[c] = "closed" =>
        /\ ~accepting[c]
        /\ c \notin resources
        /\ \A r \in Ids : input[r].conn = c => status[r] # "running"

(***************************************************************************)
(* Unless shutdown was forced, no handler is running once the processor    *)
(* task has ended, whatever was still queued.  About the join_all over the *)
(* gates at the end of the processor loop.                                 *)
(***************************************************************************)
GracefulExitIsQuiet ==
    loop = "exited" /\ shutdown # "forced" =>
        \A r \in Ids : status[r] # "running"

(***************************************************************************)
(* Every request that arrives is answered, refused or turned away: none    *)
(* waits forever, neither a writer behind a stream of readers nor one      *)
(* queued behind a closed connection.  About drain and the gate together.  *)
(***************************************************************************)
EveryRequestSettles ==
    \A r \in Ids : (sent >= r) ~> (status[r] \in Settled)

(***************************************************************************)
(* connection_closed and the exit sequence terminate: the single processor *)
(* loop is never blocked for good on a gate.  About tasks.wait().          *)
(***************************************************************************)
LoopComesBack ==
    /\ (loop \in {"closing", "draining"}) ~> (loop \in {"recv", "exiting"})
    /\ (loop = "exiting") ~> (loop = "exited")

(***************************************************************************)
(* The mapping to FifoAccess: a request waits while it is queued or taken. *)
(***************************************************************************)
Phase(s) ==
    CASE s = "unsent" -> "absent"
      [] s \in {"queued", "taken"} -> "waiting"
      [] s = "running" -> "active"
      [] OTHER -> "over"

phases == [r \in Ids |-> Phase(status[r])]

FA == INSTANCE FifoAccess WITH phase <- phases

(***************************************************************************)
(* Queues, drain tasks and gates implement FifoAccess, the specification   *)
(* of ordered access with its progress conditions.                         *)
(***************************************************************************)
ImplementsFifoAccess == FA!Spec
===============================================================================
