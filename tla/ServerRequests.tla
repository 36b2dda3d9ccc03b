--------------------------- MODULE ServerRequests ---------------------------
(***************************************************************************)
(* The requests the app server sends to its clients: approvals and         *)
(* questions of a thread, sent and resolved in the order of the thread's   *)
(* listener (app-server/src/outgoing_message.rs, bespoke_event_handling.rs, *)
(* thread_state.rs), and the refresh of external auth, which a client      *)
(* request waits for (message_processor.rs).  The processor loop alone     *)
(* delivers replies, and it waits for the requests of a connection it      *)
(* closes.  Subscriptions are those of module ThreadListener, reduced to    *)
(* joining (with a replay), attaching (without) and leaving.  One listener  *)
(* is followed, until it is told to stop: by the teardown of the thread, or *)
(* by the listener of a thread loaded again after its session ended.        *)
(***************************************************************************)
EXTENDS Naturals, Sequences, FiniteSets

CONSTANTS
    Conns,     \* client connections
    None,      \* no connection
    MaxAsks,   \* requests of the thread (a bound of the model)
    MaxTurns,  \* turns of the thread (a bound of the model)
    MaxJoins   \* resumes, attachments and unsubscribes (a bound of the model)

ASSUME NoneIsNoConnection == None \notin Conns
ASSUME BoundsAreNaturals == {MaxAsks, MaxTurns, MaxJoins} \subseteq Nat

Asks == 1 .. MaxAsks
Refresh == 0
Ids == {Refresh} \cup Asks

VARIABLES
    live, subs,       \* the open connections, and those subscribed to the thread
    joined,           \* the subscribers whose replay is complete
    callbacks,        \* request_id_to_callback
    shot,             \* what the oneshot of a request holds
    responder,        \* the task that waits for the reply to a request of the thread
    calls,            \* the requests that are dynamic tool calls
    last,             \* what was last sent to a connection about a request of the thread
    lis, queue,       \* the listener task, and its commands
    stopped,          \* how far the thread is torn down, or that its listener is superseded
    loop, refresh,    \* the processor loop, and the client request that refreshes auth
    turn,             \* the core runs a turn
    events,           \* the events of the core on their way to the listener
    asks, turns, joins

clientVars == <<live, subs, joined>>
reqVars    == <<callbacks, shot, responder, last>>
lisVars    == <<lis, queue, stopped>>
coreVars   == <<turn, calls, events, asks, turns>>
vars == <<clientVars, reqVars, lisVars, loop, refresh, coreVars, joins>>

Selecting == [pc |-> "select", id |-> 0, to |-> {}, conn |-> None, ids |-> {}]
Commands == [kind : {"resume"}, conn : Conns] \cup [kind : {"resolve"}, id : Asks]
Events == [kind : {"start", "end", "abort"}, id : {0}] \cup [kind : {"ask"}, id : Asks]

\* The sets the variables range over.
TypeOK ==
    /\ live \subseteq Conns /\ subs \subseteq live /\ joined \subseteq subs
    /\ callbacks \subseteq Ids
    /\ shot \in [Ids -> {"none", "answer", "transition", "dropped"}]
    /\ \A i \in callbacks : shot[i] = "none"
    /\ responder \in [Asks -> {"off", "wait", "command", "await", "done"}]
    /\ last \in [Conns -> [Asks -> {"none", "request", "resolved"}]]
    /\ lis \in [pc : {"select", "register", "send", "replay", "done"}, id : Ids, to : SUBSET Conns,
                conn : Conns \cup {None}, ids : SUBSET Asks]
    /\ queue \in Seq(Commands)
    /\ stopped \in {"no", "cancelled", "removed", "signalled", "superseded"}
    /\ loop \in [pc : {"idle", "gate"}, conn : Conns \cup {None}]
    /\ refresh \in [pc : {"idle", "wait", "done"}, conn : Conns \cup {None}]
    /\ turn \in BOOLEAN /\ calls \subseteq Asks
    /\ events \in Seq(Events)
    /\ asks \in 0 .. MaxAsks /\ turns \in 0 .. MaxTurns /\ joins \in 0 .. MaxJoins

(* The thread was started by one connection. *)
Init ==
    /\ live = Conns /\ subs \in {{c} : c \in Conns} /\ joined = subs
    /\ callbacks = {} /\ shot = [i \in Ids |-> "none"]
    /\ responder = [i \in Asks |-> "off"]
    /\ last = [c \in Conns |-> [i \in Asks |-> "none"]]
    /\ lis = Selecting /\ queue = <<>> /\ stopped = "no"
    /\ loop = [pc |-> "idle", conn |-> None] /\ refresh = [pc |-> "idle", conn |-> None]
    /\ turn = FALSE /\ calls = {} /\ events = <<>>
    /\ asks = 0 /\ turns = 0 /\ joins = 0

-----------------------------------------------------------------------------
(* The core: a turn asks for approvals, answers or dynamic tool calls, and     *)
(* ends with or without them.                                                   *)

CoreStep ==
    /\ stopped # "superseded"
    /\ \/ /\ ~turn /\ turns < MaxTurns
          /\ turn' = TRUE /\ turns' = turns + 1
          /\ events' = Append(events, [kind |-> "start", id |-> 0]) /\ UNCHANGED <<asks, calls>>
       \/ /\ turn /\ asks < MaxAsks
          /\ asks' = asks + 1 /\ calls' \in {calls, calls \cup {asks + 1}}
          /\ events' = Append(events, [kind |-> "ask", id |-> asks + 1]) /\ UNCHANGED <<turn, turns>>
       \/ /\ turn
          /\ turn' = FALSE
          /\ \E kind \in {"end", "abort"} : events' = Append(events, [kind |-> kind, id |-> 0])
          /\ UNCHANGED <<asks, calls, turns>>
    /\ UNCHANGED <<clientVars, reqVars, lisVars, loop, refresh, joins>>

-----------------------------------------------------------------------------
(* OutgoingMessageSender *)

(* cancel_requests_for_thread: the callbacks of the thread, and only those. *)
CancelRequests(how) ==
    /\ callbacks' = callbacks \ Asks
    /\ shot' = [i \in Ids |-> IF i \in callbacks \cap Asks THEN how ELSE shot[i]]

(* notify_client_response, notify_client_error: the reply that comes first,   *)
(* from whichever connection, takes the callback; the loop delivers it.        *)
ClientReplies(c, i) ==
    /\ loop.pc = "idle" /\ c \in live /\ i \in callbacks
    /\ callbacks' = callbacks \ {i}
    /\ shot' = [shot EXCEPT ![i] = "answer"]
    /\ UNCHANGED <<clientVars, responder, last, lisVars, loop, refresh, coreVars, joins>>

-----------------------------------------------------------------------------
(* The listener task, one event or command at a time; commands come first. *)

(* Its cancel channel has not fired, and the sender of its commands is there. *)
Told == stopped \in {"signalled", "superseded"}
Serving == ~Told /\ lis.pc # "done"

(* TurnStarted, TurnComplete and TurnAborted abort what is pending. *)
TakeTransition(kinds) ==
    /\ lis.pc = "select" /\ ~Told /\ queue = <<>>
    /\ events # <<>> /\ Head(events).kind \in kinds
    /\ events' = Tail(events)
    /\ CancelRequests("transition")
    /\ UNCHANGED <<clientVars, responder, last, lisVars, loop, refresh, turn, calls, asks, turns, joins>>

TakeTurnEvent == TakeTransition({"start", "end"})
TakeTurnAborted == TakeTransition({"abort"})

(* Requests are sent in the order in which they were asked, so the counter of  *)
(* the sender gives each the number its event carries.                          *)
NextId == Head(events).id

(* The listener notes who is subscribed when the event comes. *)
TakeAsk ==
    /\ lis.pc = "select" /\ ~Told /\ queue = <<>>
    /\ events # <<>> /\ Head(events).kind = "ask"
    /\ events' = Tail(events)
    /\ lis' = [pc |-> "register", id |-> NextId, to |-> subs, conn |-> None, ids |-> {}]
    /\ UNCHANGED <<clientVars, reqVars, queue, stopped, loop, refresh, turn, calls, asks, turns, joins>>

(* send_request_to_connections: the callback first, then one connection after  *)
(* the other, while replies may come in already; then the task is spawned.      *)
RegisterCallback ==
    /\ lis.pc = "register"
    /\ callbacks' = callbacks \cup {lis.id}
    /\ lis' = [lis EXCEPT !.pc = "send"]
    /\ UNCHANGED <<clientVars, shot, responder, last, queue, stopped, loop, refresh, coreVars, joins>>

SendRequest ==
    /\ lis.pc = "send"
    /\ IF lis.to = {}
         THEN /\ responder' = [responder EXCEPT ![lis.id] = "wait"]
              /\ lis' = Selecting
              /\ UNCHANGED last
         ELSE \E c \in lis.to :
              /\ last' = [last EXCEPT ![c][lis.id] = "request"]
              /\ lis' = [lis EXCEPT !.to = @ \ {c}]
              /\ UNCHANGED responder
    /\ UNCHANGED <<clientVars, callbacks, shot, queue, stopped, loop, refresh, coreVars, joins>>

(* resolve_pending_server_request, then the completion. *)
Resolved(i) == [c \in Conns |-> IF c \in subs THEN [last[c] EXCEPT ![i] = "resolved"] ELSE last[c]]

TakeResolve ==
    /\ lis.pc = "select" /\ ~Told /\ queue # <<>> /\ Head(queue).kind = "resolve"
    /\ last' = Resolved(Head(queue).id)
    /\ responder' = [responder EXCEPT ![Head(queue).id] = "done"]
    /\ queue' = Tail(queue)
    /\ UNCHANGED <<clientVars, callbacks, shot, lis, stopped, loop, refresh, coreVars, joins>>

(* handle_pending_thread_resume_request: subscribe, answer, replay. *)
TakeResume ==
    LET c == Head(queue).conn IN
    /\ lis.pc = "select" /\ ~Told /\ queue # <<>> /\ Head(queue).kind = "resume"
    /\ queue' = Tail(queue)
    /\ IF c \in live
         THEN /\ subs' = subs \cup {c}
              /\ lis' = [pc |-> "replay", id |-> 0, to |-> {}, conn |-> c, ids |-> callbacks \cap Asks]
         ELSE UNCHANGED <<subs, lis>>
    /\ UNCHANGED <<live, joined, reqVars, stopped, loop, refresh, coreVars, joins>>

(* replay_requests_to_connection_for_thread, in the order of the ids. *)
Mut_Replay ==
    /\ lis.pc = "replay"
    /\ lis' = Selecting /\ joined' = joined \cup ({lis.conn} \cap subs)
    /\ UNCHANGED <<live, subs, reqVars, queue, stopped, loop, refresh, coreVars, joins>>

Replay ==
    /\ lis.pc = "replay"
    /\ IF lis.ids = {}
         THEN lis' = Selecting /\ joined' = joined \cup ({lis.conn} \cap subs) /\ UNCHANGED last
         ELSE LET i == CHOOSE i \in lis.ids : \A j \in lis.ids : i <= j IN
              /\ last' = [last EXCEPT ![lis.conn][i] = "request"]
              /\ lis' = [lis EXCEPT !.ids = @ \ {i}]
              /\ UNCHANGED joined
    /\ UNCHANGED <<live, subs, callbacks, shot, responder, queue, stopped, loop, refresh, coreVars, joins>>

(* The thread is torn down (finalize_thread_teardown), even if its shutdown     *)
(* timed out: its requests are cancelled, then its entry is removed, then the   *)
(* listener is cancelled.                                                       *)
TeardownCancels ==
    /\ stopped = "no"
    /\ CancelRequests("dropped")
    /\ stopped' = "cancelled"
    /\ UNCHANGED <<clientVars, responder, last, lis, queue, loop, refresh, coreVars, joins>>

TeardownRemoves ==
    /\ stopped = "cancelled"
    /\ stopped' = "removed"
    /\ subs' = {} /\ joined' = {}
    /\ UNCHANGED <<live, reqVars, lis, queue, loop, refresh, coreVars, joins>>

TeardownSignals ==
    /\ stopped = "removed"
    /\ stopped' = "signalled"
    /\ UNCHANGED <<clientVars, reqVars, lis, queue, loop, refresh, coreVars, joins>>

(* set_listener, for a thread loaded again: its session ended, which aborts the  *)
(* turn first (agent control closes a child), and the next listener takes over   *)
(* the subscribers and the channel for commands.                                 *)
Superseded ==
    /\ stopped = "no" /\ ~turn
    /\ stopped' = "superseded"
    /\ UNCHANGED <<clientVars, reqVars, lis, queue, loop, refresh, coreVars, joins>>

(* The listener stops when it is told to, and when the entry it watches is gone *)
(* and it has nothing to do; what is queued goes with its completion senders.   *)
MayEnd == lis.pc = "select" /\ (Told \/ (stopped = "removed" /\ queue = <<>> /\ events = <<>>))

Mut_ListenerEnds ==
    /\ MayEnd
    /\ lis' = [lis EXCEPT !.pc = "done"]
    /\ UNCHANGED <<clientVars, reqVars, queue, stopped, loop, refresh, coreVars, joins>>

ListenerEnds ==
    /\ MayEnd
    /\ lis' = [lis EXCEPT !.pc = "done"]
    /\ queue' = <<>>
    /\ responder' = [i \in Asks |-> IF \E n \in DOMAIN queue : queue[n] = [kind |-> "resolve", id |-> i]
                                     THEN "done" ELSE responder[i]]
    /\ UNCHANGED <<clientVars, callbacks, shot, last, stopped, loop, refresh, coreVars, joins>>

-----------------------------------------------------------------------------
(* on_..._response: the task that waits for the reply to an approval or a       *)
(* question, whatever the reply is, has the listener resolve the request before *)
(* it passes the answer on.  The task of a dynamic tool call does not: it is    *)
(* done with the reply.                                                         *)

Mut_ResponderWakes(i) ==
    /\ responder[i] = "wait" /\ shot[i] # "none"
    /\ responder' = [responder EXCEPT ![i] = IF i \in calls \/ shot[i] = "transition" THEN "done" ELSE "command"]
    /\ UNCHANGED <<clientVars, callbacks, shot, last, lisVars, loop, refresh, coreVars, joins>>

ResponderWakes(i) ==
    /\ responder[i] = "wait" /\ shot[i] # "none"
    /\ responder' = [responder EXCEPT ![i] = IF i \in calls THEN "done" ELSE "command"]
    /\ UNCHANGED <<clientVars, callbacks, shot, last, lisVars, loop, refresh, coreVars, joins>>

Mut_ResponderCommands(i) ==
    /\ responder[i] = "command"
    /\ last' = Resolved(i)
    /\ responder' = [responder EXCEPT ![i] = "done"]
    /\ UNCHANGED <<clientVars, callbacks, shot, lisVars, loop, refresh, coreVars, joins>>

(* resolve_server_request_on_thread_listener: without a listener the task goes   *)
(* on; what the listener of a thread loaded again does is not followed.          *)
ResponderCommands(i) ==
    /\ responder[i] = "command"
    /\ IF Serving
         THEN /\ queue' = Append(queue, [kind |-> "resolve", id |-> i])
              /\ responder' = [responder EXCEPT ![i] = "await"]
         ELSE responder' = [responder EXCEPT ![i] = "done"] /\ UNCHANGED queue
    /\ UNCHANGED <<clientVars, callbacks, shot, last, lis, stopped, loop, refresh, coreVars, joins>>

-----------------------------------------------------------------------------
(* The clients and the processor loop. *)

(* thread/resume of a running thread is left to the listener. *)
Resume(c) ==
    /\ Serving /\ joins < MaxJoins /\ c \in live /\ loop.conn # c
    /\ [kind |-> "resume", conn |-> c] \notin {queue[n] : n \in DOMAIN queue}
    /\ joins' = joins + 1
    /\ queue' = Append(queue, [kind |-> "resume", conn |-> c])
    /\ UNCHANGED <<clientVars, reqVars, lis, stopped, loop, refresh, coreVars>>

(* ensure_conversation_listener subscribes without a replay. *)
Attach(c) ==
    /\ stopped \in {"no", "cancelled"} /\ joins < MaxJoins /\ c \in live \ subs /\ loop.conn # c
    /\ joins' = joins + 1
    /\ subs' = subs \cup {c}
    /\ UNCHANGED <<live, joined, reqVars, lisVars, loop, refresh, coreVars>>

Unsubscribe(c) ==
    /\ joins < MaxJoins /\ c \in subs /\ loop.conn # c
    /\ joins' = joins + 1
    /\ subs' = subs \ {c} /\ joined' = joined \ {c}
    /\ UNCHANGED <<live, reqVars, lisVars, loop, refresh, coreVars>>

(* connection_closed: rpc_gate.shutdown waits for the requests of the         *)
(* connection, and the loop with it.                                           *)
ConnectionClosed(c) ==
    /\ loop.pc = "idle" /\ c \in live
    /\ loop' = [pc |-> "gate", conn |-> c]
    /\ UNCHANGED <<clientVars, reqVars, lisVars, refresh, coreVars, joins>>

GateDrained ==
    LET c == loop.conn IN
    /\ loop.pc = "gate" /\ ~(refresh.pc = "wait" /\ refresh.conn = c)
    /\ live' = live \ {c} /\ subs' = subs \ {c} /\ joined' = joined \ {c}
    /\ loop' = [pc |-> "idle", conn |-> None]
    /\ UNCHANGED <<reqVars, lisVars, refresh, coreVars, joins>>

(* ExternalAuthRefreshBridge::refresh: a request to every connection, for a   *)
(* bounded time.                                                               *)
RefreshAsk(c) ==
    /\ refresh.pc = "idle" /\ c \in live /\ loop.conn # c
    /\ refresh' = [pc |-> "wait", conn |-> c]
    /\ callbacks' = callbacks \cup {Refresh}
    /\ UNCHANGED <<clientVars, shot, responder, last, lisVars, loop, coreVars, joins>>

RefreshReply ==
    /\ refresh.pc = "wait" /\ shot[Refresh] # "none"
    /\ refresh' = [pc |-> "done", conn |-> None]
    /\ UNCHANGED <<clientVars, reqVars, lisVars, loop, coreVars, joins>>

Mut_RefreshTimeout ==
    /\ refresh.pc = "wait" /\ Refresh \notin callbacks
    /\ refresh' = [pc |-> "done", conn |-> None]
    /\ UNCHANGED <<clientVars, reqVars, lisVars, loop, coreVars, joins>>

RefreshTimeout ==
    /\ refresh.pc = "wait"
    /\ refresh' = [pc |-> "done", conn |-> None]
    /\ callbacks' = callbacks \ {Refresh}
    /\ UNCHANGED <<clientVars, shot, responder, last, lisVars, loop, coreVars, joins>>

-----------------------------------------------------------------------------

ListenerStep == \/ TakeTurnEvent \/ TakeTurnAborted \/ TakeAsk \/ RegisterCallback \/ SendRequest
                \/ TakeResolve \/ TakeResume \/ Replay \/ ListenerEnds
TeardownStep == TeardownRemoves \/ TeardownSignals
ResponderStep(i) == ResponderWakes(i) \/ ResponderCommands(i)

Next ==
    \/ CoreStep \/ ListenerStep \/ TeardownCancels \/ TeardownStep \/ Superseded
    \/ \E i \in Asks : ResponderStep(i)
    \/ \E c \in Conns : Resume(c) \/ Attach(c) \/ Unsubscribe(c) \/ ConnectionClosed(c) \/ RefreshAsk(c)
    \/ \E c \in Conns, i \in Ids : ClientReplies(c, i)
    \/ GateDrained \/ RefreshReply \/ RefreshTimeout

Spec == Init /\ [][Next]_vars

FairSpec ==
    /\ Spec
    /\ WF_vars(ListenerStep) /\ WF_vars(TeardownStep) /\ WF_vars(GateDrained)
    /\ WF_vars(RefreshReply \/ RefreshTimeout)
    /\ \A i \in Asks : WF_vars(ResponderStep(i))

-----------------------------------------------------------------------------
(* Properties *)

(* A subscriber that joined with a resume, or started the thread, has every   *)
(* pending request of the thread in hand whenever the listener rests: a        *)
(* request whose only recipient left stays answerable by whoever resumes.      *)
OpenRequestsAreShown ==
    lis.pc = "select" => \A c \in joined : \A i \in callbacks \cap Asks : last[c][i] = "request"

(* When the task of an approval or a question ends while the listener serves    *)
(* the thread, no subscriber is left with the request open: each that was sent  *)
(* it has been sent serverRequest/resolved too, whether it was answered, aborted *)
(* or dropped, and also if it joined in between.  Dynamic tool calls and what   *)
(* is left when the listener is told to stop are not resolved.                  *)
NoRequestLeftOpen ==
    [][\A i \in Asks \ calls, c \in subs :
         responder[i] # "done" /\ responder'[i] = "done" /\ Serving
            => last'[c][i] # "request"]_vars

(* serverRequest/resolved is ordered after the request itself: no connection   *)
(* is sent a request after it was told that the request is resolved, neither    *)
(* by the first sending nor by a replay.                                        *)
ResolvedIsLast ==
    [][\A c \in Conns, i \in Asks : last[c][i] = "resolved" => last'[c][i] = "resolved"]_vars

(* A request that was answered, aborted or dropped ends: its task passes the    *)
(* answer on, or gives up, and nothing waits for a listener that is gone or     *)
(* superseded.                                                                  *)
RespondersFinish == \A i \in Asks : (responder[i] # "off" /\ shot[i] # "none") ~> responder[i] = "done"

(* The loop that closes a connection comes back, though it waits for a request  *)
(* that waits for a reply only the loop could deliver.                          *)
LoopComesBack == loop.pc = "gate" ~> loop.pc = "idle"
=============================================================================
