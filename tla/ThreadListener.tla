--------------------------- MODULE ThreadListener ---------------------------
(***************************************************************************)
(* One thread of the app server: who is subscribed to it                   *)
(* (app-server/src/thread_state.rs), the listener task that serves its     *)
(* subscribers, and the unloading of a thread nobody is subscribed to      *)
(* (request_processors/thread_lifecycle.rs, thread_processor.rs).  Client  *)
(* requests for the thread are serialized (module RequestSerialization), so *)
(* they form one actor, "handler"; the processor loop is another, "loop".  *)
(* The listener tasks, the tasks that shut an unloaded thread down, and    *)
(* the turns of the thread run beside them.                                *)
(***************************************************************************)
EXTENDS Naturals, Sequences, FiniteSets

CONSTANTS
    Conns,        \* client connections
    None,         \* no connection
    MaxOps,       \* resumes and unsubscribes (a bound of the model)
    MaxLoads,     \* CodexThreads made for the thread id (a bound of the model)
    MaxListeners, \* listener tasks at one time (a bound of the model)
    MaxRemovals   \* archives, and removals by the core (a bound of the model)

ASSUME NoneIsNoConnection == None \notin Conns
ASSUME BoundsAreNaturals == {MaxOps, MaxRemovals} \subseteq Nat /\ {MaxLoads, MaxListeners} \subseteq Nat \ {0}

Loads == 1 .. MaxLoads
Listeners == 1 .. MaxListeners

VARIABLES
    manager, loads,   \* the CodexThread in the ThreadManager, 0 for none; how many were made
    running, busy,    \* the CodexThreads whose session runs; those with a turn
    noted,            \* the thread watch manager reports the thread as active
    marker,           \* the listener that put the thread into pending_thread_unloads, 0: not in it
    live,             \* ThreadStateManagerInner.live_connections
    entry,            \* the ThreadEntry in threads, 0 for none
    subs, current,    \* by ThreadEntry ever made: connection_ids, and the listener its state names
    lis, queue,       \* the listener tasks, and the resume commands sent to them
    fired,            \* listeners whose cancel_tx was sent
    teardown,         \* the task unload_thread_without_subscribers spawns, by listener
    leaving,          \* the CodexThread the core is closing by itself, 0 for none
    told,             \* connections that were told they are attached
    job,              \* what the handler and the loop do
    raced,            \* history: a cleanup of the thread overlapped a request for it
    ops, removals     \* bounds

threadVars == <<manager, loads, running, busy, leaving>>
subVars    == <<live, entry, subs, current>>
lisVars    == <<lis, queue, fired>>
boundVars  == <<ops, removals>>
vars == <<threadVars, noted, marker, subVars, lisVars, teardown, told, job, raced, boundVars>>

Idle == [pc |-> "idle", conn |-> None, conv |-> 0, entry |-> 0, watch |-> 0]
NoTeardown == [pc |-> "off", conv |-> 0]
Off == [pc |-> "off", conv |-> 0, entry |-> 0, watch |-> 0, conn |-> None]

\* A listener task, and a job of the handler or the loop, when n ThreadEntries were made.
TaskSteps == {"off", "select", "respond", "lock", "remove", "clear", "ending"}
JobSteps == {"idle", "look", "state", "watch", "set", "command", "load", "get", "subscribe", "watch2", "set2",
             "undo", "reply", "fail", "archive", "gate", "check", "fin1", "fin2", "clear", "fin3"}
Task(n) == [pc : TaskSteps, conv : {0} \cup Loads, entry : 0 .. n, watch : 0 .. n, conn : Conns \cup {None}]
Job(n) == [pc : JobSteps, conn : Conns \cup {None}, conv : {0} \cup Loads, entry : 0 .. n, watch : 0 .. n]
Teardown == [pc : {"off", "shutdown", "remove", "forget", "release"}, conv : {0} \cup Loads]

\* The sets the variables range over.
ThreadTypes ==
    /\ manager \in 0 .. loads /\ loads \in Loads /\ running \subseteq 1 .. loads /\ busy \subseteq running
    /\ leaving \in 0 .. loads
FlagTypes ==
    /\ noted \in BOOLEAN /\ marker \in {0} \cup Listeners
    /\ live \subseteq Conns /\ told \subseteq Conns
    /\ ops \in 0 .. MaxOps /\ removals \in 0 .. MaxRemovals
EntryTypes ==
    /\ entry \in 0 .. Len(subs) /\ subs \in Seq(SUBSET Conns)
    /\ current \in Seq({0} \cup Listeners) /\ Len(current) = Len(subs)
TaskTypes ==
    /\ lis \in [Listeners -> Task(Len(subs))] /\ queue \in [Listeners -> Seq(Conns)] /\ fired \subseteq Listeners
    /\ teardown \in [Listeners -> Teardown]
JobTypes == job \in [{"handler", "loop"} -> Job(Len(subs))]

TypeOK == raced \in BOOLEAN /\ ThreadTypes /\ FlagTypes /\ EntryTypes /\ TaskTypes /\ JobTypes

(* thread/start has made the thread for its first connection: one entry, one *)
(* listener, no turn yet.                                                     *)
Init ==
    /\ manager = 1 /\ loads = 1 /\ running = {1} /\ busy = {} /\ leaving = 0
    /\ noted = FALSE /\ marker = 0 /\ raced = FALSE
    /\ live = Conns
    /\ entry = 1
    /\ subs \in {<<{c}>> : c \in Conns}
    /\ current = <<1>>
    /\ lis = [l \in Listeners |->
         IF l = 1 THEN [pc |-> "select", conv |-> 1, entry |-> 1, watch |-> 1, conn |-> None] ELSE Off]
    /\ queue = [l \in Listeners |-> <<>>]
    /\ fired = {} /\ teardown = [l \in Listeners |-> NoTeardown]
    /\ told = subs[1]
    /\ job = [a \in {"handler", "loop"} |-> Idle]
    /\ ops = 0 /\ removals = 0

-----------------------------------------------------------------------------
(* ThreadStateManager *)

unloading == marker # 0

Subscribers == IF entry = 0 THEN {} ELSE subs[entry]

(* threads.entry(thread_id).or_default(), and connection_ids.insert *)
EnsureEntry(more) ==
    IF entry = 0
      THEN /\ entry' = Len(subs) + 1
           /\ subs' = Append(subs, more) /\ current' = Append(current, 0)
      ELSE /\ subs' = [subs EXCEPT ![entry] = @ \cup more]
           /\ UNCHANGED <<entry, current>>

Unsubscribed(c) == IF entry = 0 THEN subs ELSE [subs EXCEPT ![entry] = @ \ {c}]

(* clear_listener: the cancel signal goes out and the command sender goes away. *)
ClearListener(e) ==
    /\ fired' = fired \cup ({current[e]} \ {0})
    /\ current' = [current EXCEPT ![e] = 0]

(* remove_thread_state: the entry goes first, and a watch on it keeps its last *)
(* value; then, under the lock of its state, the listener.                     *)
RemoveEntry == entry' = 0 /\ UNCHANGED <<live, subs, current>>
ClearState(e) ==
    /\ IF e = 0 THEN UNCHANGED <<fired, current>> ELSE ClearListener(e)
    /\ UNCHANGED <<live, entry, subs>>

(* set_listener: the listener the state named before is cancelled. *)
StartListener ==
    LET j == job["handler"]
        free == {k \in Listeners : lis[k].pc = "off" /\ teardown[k].pc = "off"}
        l == CHOOSE k \in free : \A m \in free : k <= m IN
    /\ free # {}
    /\ fired' = fired \cup ({current[j.entry]} \ {0})
    /\ current' = [current EXCEPT ![j.entry] = l]
    /\ lis' = [lis EXCEPT ![l] =
         [pc |-> "select", conv |-> j.conv, entry |-> j.entry, watch |-> j.watch, conn |-> None]]

ListenerMatches(e, v) == current[e] # 0 /\ lis[current[e]].conv = v

-----------------------------------------------------------------------------
(* Steps of a client request and of the loop. *)

Begin(a, pc, c) == job' = [job EXCEPT ![a] = [pc |-> pc, conn |-> c, conv |-> 0, entry |-> 0, watch |-> 0]]
HandlerAt(pc, v, e, w) ==
    job' = [job EXCEPT !["handler"] = [pc |-> pc, conn |-> @.conn, conv |-> v, entry |-> e, watch |-> w]]
SetJob(a, pc) == job' = [job EXCEPT ![a].pc = pc]
Finish(a) == job' = [job EXCEPT ![a] = Idle]
MayAsk(c) == job["handler"].pc = "idle" /\ c \in live /\ job["loop"].conn # c

(* thread/resume: refused while the thread is being unloaded. *)
Resume(c) ==
    /\ MayAsk(c) /\ ops < MaxOps
    /\ ops' = ops + 1
    /\ IF unloading
         THEN UNCHANGED job
         ELSE Begin("handler", "look", c)
    /\ UNCHANGED <<threadVars, noted, marker, subVars, lisVars, teardown, told, removals>>

(* resume_running_thread: a thread the manager has is joined, any other loaded, *)
(* unless it cannot be read or the request does not fit it.                     *)
ResumeLook ==
    /\ job["handler"].pc = "look"
    /\ \E pc \in {IF manager = 0 THEN "load" ELSE "state", "fail"} : HandlerAt(pc, manager, 0, 0)
    /\ UNCHANGED <<threadVars, noted, marker, subVars, lisVars, teardown, told, boundVars>>

ResumeState ==
    /\ job["handler"].pc = "state"
    /\ EnsureEntry({})
    /\ HandlerAt("watch", job["handler"].conv, entry', 0)
    /\ UNCHANGED <<threadVars, noted, marker, live, lisVars, teardown, told, boundVars>>

(* ensure_listener_task_running: first the watch on the entry of now, then,  *)
(* under the lock of the state found before, the listener.                    *)
EnsureWatch ==
    LET j == job["handler"] IN
    /\ j.pc \in {"watch", "watch2"}
    /\ IF entry = 0
         THEN SetJob("handler", IF j.pc = "watch" THEN "fail" ELSE "undo")
         ELSE HandlerAt(IF j.pc = "watch" THEN "set" ELSE "set2", j.conv, j.entry, entry)
    /\ UNCHANGED <<threadVars, noted, marker, subVars, lisVars, teardown, told, boundVars>>

(* A running thread is told of the client next, which may fail. *)
EnsureSet ==
    /\ job["handler"].pc \in {"set", "set2"}
    /\ IF ListenerMatches(job["handler"].entry, job["handler"].conv) THEN UNCHANGED <<fired, current, lis>> ELSE StartListener
    /\ \E pc \in IF job["handler"].pc = "set" THEN {"command", "fail"} ELSE {"reply"} : SetJob("handler", pc)
    /\ UNCHANGED <<threadVars, noted, marker, live, entry, subs, queue, teardown, told, boundVars>>

(* The listener the state names takes the request over, if its channel is open. *)
ResumeCommand ==
    LET l == current[job["handler"].entry] IN
    /\ job["handler"].pc = "command"
    /\ IF l = 0
         THEN SetJob("handler", "fail") /\ UNCHANGED queue
         ELSE /\ queue' = [queue EXCEPT ![l] = Append(@, job["handler"].conn)]
              /\ Finish("handler")
    /\ UNCHANGED <<threadVars, noted, marker, subVars, lis, fired, teardown, told, boundVars>>

(* resume_thread_with_history: a running thread is returned as it is, one    *)
(* that ended is replaced; or the thread cannot be loaded, or does not take    *)
(* the client once it is.                                                      *)
ResumeLoad ==
    /\ job["handler"].pc = "load"
    /\ \/ /\ manager \in running
          /\ UNCHANGED threadVars
          /\ SetJob("handler", "get") \/ SetJob("handler", "fail")
       \/ /\ manager \notin running /\ loads < MaxLoads
          /\ loads' = loads + 1 /\ manager' = loads + 1 /\ running' = running \cup {loads + 1}
          /\ UNCHANGED <<busy, leaving>>
          /\ SetJob("handler", "get") \/ SetJob("handler", "fail")
       \/ /\ manager \notin running
          /\ manager' = 0 /\ UNCHANGED <<loads, running, busy, leaving>>
          /\ SetJob("handler", "fail")
    /\ UNCHANGED <<noted, marker, subVars, lisVars, teardown, told, boundVars>>

(* ensure_conversation_listener, for a cold resume. *)
EnsureGet ==
    /\ job["handler"].pc = "get"
    /\ HandlerAt(IF manager = 0 THEN "reply" ELSE "subscribe", manager, 0, 0)
    /\ UNCHANGED <<threadVars, noted, marker, subVars, lisVars, teardown, told, boundVars>>

(* The subscription is made under the lock of pending_thread_unloads. *)
EnsureSubscribe ==
    /\ job["handler"].pc = "subscribe"
    /\ IF unloading \/ job["handler"].conn \notin live
         THEN SetJob("handler", "reply") /\ UNCHANGED <<entry, subs, current>>
         ELSE /\ EnsureEntry({job["handler"].conn})
              /\ HandlerAt("watch2", job["handler"].conv, entry', 0)
    /\ UNCHANGED <<threadVars, noted, marker, live, lisVars, teardown, told, boundVars>>

EnsureUndo ==
    /\ job["handler"].pc = "undo"
    /\ subs' = Unsubscribed(job["handler"].conn)
    /\ SetJob("handler", "reply")
    /\ UNCHANGED <<threadVars, noted, marker, live, entry, current, lisVars, teardown, told, boundVars>>

(* The outcome of the attachment is only logged: the response is a success,  *)
(* unless the thread cannot be read for it.                                   *)
Reply ==
    /\ \/ job["handler"].pc = "reply" /\ told' = told \cup {job["handler"].conn}
       \/ job["handler"].pc \in {"reply", "fail"} /\ UNCHANGED told
    /\ Finish("handler")
    /\ UNCHANGED <<threadVars, noted, marker, subVars, lisVars, teardown, boundVars>>

(* thread/unsubscribe; a thread that is not loaded is cleaned up instead. *)
Unsubscribe(c) ==
    /\ MayAsk(c) /\ ops < MaxOps
    /\ ops' = ops + 1 /\ told' = told \ {c}
    /\ IF manager # 0
         THEN subs' = Unsubscribed(c) /\ UNCHANGED job
         ELSE Begin("handler", "fin1", c) /\ UNCHANGED subs
    /\ UNCHANGED <<threadVars, noted, marker, live, entry, current, lisVars, teardown, removals>>

(* prepare_thread_for_archive: out of the manager, shut down, cleaned up. *)
Archive(c) ==
    /\ MayAsk(c) /\ removals < MaxRemovals
    /\ removals' = removals + 1
    /\ manager' = 0 /\ told' = {}
    /\ Begin("handler", IF manager = 0 THEN "fin1" ELSE "archive", c)
    /\ UNCHANGED <<loads, running, busy, leaving, noted, marker, subVars, lisVars, teardown, ops>>

(* wait_for_thread_shutdown ends with the session, or gives up. *)
ArchiveShutdown ==
    /\ job["handler"].pc = "archive"
    /\ \E ended \in {running, {}} :
         running' = running \ ended /\ busy' = busy \ ended
    /\ SetJob("handler", "fin1")
    /\ UNCHANGED <<manager, loads, leaving, noted, marker, subVars, lisVars, teardown, told, boundVars>>

(* finalize_thread_teardown; cancel_requests_for_thread is in ServerRequests. *)
Finalize(a) ==
    \/ /\ job[a].pc = "fin1"
       /\ marker' = 0 /\ SetJob(a, "fin2")
       /\ UNCHANGED <<threadVars, noted, subVars, lisVars, teardown, told, boundVars>>
    \/ /\ job[a].pc = "fin2"
       /\ RemoveEntry /\ job' = [job EXCEPT ![a].pc = "clear", ![a].entry = entry]
       /\ UNCHANGED <<threadVars, noted, marker, lisVars, teardown, told, boundVars>>
    \/ /\ job[a].pc = "clear"
       /\ ClearState(job[a].entry) /\ SetJob(a, "fin3")
       /\ UNCHANGED <<threadVars, noted, marker, lis, queue, teardown, told, boundVars>>
    \/ /\ job[a].pc = "fin3"
       /\ noted' = FALSE /\ Finish(a)
       /\ UNCHANGED <<threadVars, marker, subVars, lisVars, teardown, told, boundVars>>

-----------------------------------------------------------------------------
(* The processor loop. *)

(* connection_closed: the requests of the connection have to end first. *)
ConnectionClosed(c) ==
    /\ job["loop"].pc = "idle" /\ c \in live
    /\ Begin("loop", "gate", c)
    /\ UNCHANGED <<threadVars, noted, marker, subVars, lisVars, teardown, told, boundVars>>

RemoveConnection ==
    LET c == job["loop"].conn IN
    /\ job["loop"].pc = "gate" /\ job["handler"].conn # c
    /\ live' = live \ {c} /\ subs' = Unsubscribed(c)
    /\ told' = told \ {c}
    /\ IF Subscribers = {c} THEN SetJob("loop", "check") ELSE Finish("loop")
    /\ UNCHANGED <<threadVars, noted, marker, entry, current, lisVars, teardown, boundVars>>

CheckThread ==
    /\ job["loop"].pc = "check"
    /\ IF manager # 0 THEN Finish("loop") ELSE SetJob("loop", "fin1")
    /\ UNCHANGED <<threadVars, noted, marker, subVars, lisVars, teardown, told, boundVars>>

-----------------------------------------------------------------------------
(* The core. *)

TurnStart == manager \in running \ busy /\ busy' = busy \cup {manager} /\ UNCHANGED running
TurnEnd == busy # {} /\ busy' = {} /\ UNCHANGED running

CoreTurn ==
    /\ TurnStart \/ TurnEnd
    /\ UNCHANGED <<manager, loads, leaving, noted, marker, subVars, lisVars, teardown, told, job, boundVars>>

(* shutdown_live_agent: the core closes the thread of an agent by itself.  It *)
(* submits the shutdown, waits for the session to end, and takes whatever      *)
(* CodexThread the manager then has for the thread.                            *)
CoreCloses ==
    /\ leaving = 0 /\ manager # 0 /\ removals < MaxRemovals
    /\ removals' = removals + 1
    /\ leaving' = manager /\ told' = {}
    /\ UNCHANGED <<manager, loads, running, busy, noted, marker, subVars, lisVars, teardown, job, ops>>

CoreEnds ==
    /\ leaving \in running
    /\ running' = running \ {leaving} /\ busy' = busy \ {leaving}
    /\ UNCHANGED <<manager, loads, leaving, noted, marker, subVars, lisVars, teardown, told, job, boundVars>>

CoreRemoves ==
    /\ leaving # 0 /\ leaving \notin running
    /\ leaving' = 0 /\ manager' = 0
    /\ UNCHANGED <<loads, running, busy, noted, marker, subVars, lisVars, teardown, told, job, boundVars>>

-----------------------------------------------------------------------------
(* The listener task.  Its select is biased: the cancel signal, commands,     *)
(* events, the unloading trigger.                                             *)

Selecting(l) == lis[l].pc = "select" /\ l \notin fired
SetLis(l, pc) == lis' = [lis EXCEPT ![l].pc = pc]
SetServing(l, pc, c) ==
    lis' = [lis EXCEPT ![l] = [pc |-> pc, conv |-> @.conv, entry |-> @.entry, watch |-> @.watch, conn |-> c]]

(* Cancelled, or the watched entry is gone.  The end of the session is no      *)
(* reason: the CodexThread the listener holds keeps the channel of its events.  *)
ListenerBreaks(l) ==
    /\ lis[l].pc = "select"
    /\ l \in fired \/ (queue[l] = <<>> /\ lis[l].watch # entry)
    /\ SetLis(l, "ending")
    /\ UNCHANGED <<threadVars, noted, marker, subVars, queue, fired, teardown, told, job, boundVars>>

(* The state forgets the listener, unless it names a newer one; what is left *)
(* in the channel is dropped.                                                 *)
Ended(l) ==
    /\ lis[l].pc = "ending"
    /\ lis' = [lis EXCEPT ![l] = Off]
    /\ queue' = [queue EXCEPT ![l] = <<>>]
    /\ UNCHANGED <<threadVars, noted, marker, live, entry, subs, teardown, told, job, boundVars>>

Mut_ListenerEnds(l) ==
    LET e == lis[l].entry IN
    /\ Ended(l)
    /\ fired' = (fired \cup ({current[e]} \ {0})) \ {l}
    /\ current' = [current EXCEPT ![e] = 0]

ListenerEnds(l) ==
    LET e == lis[l].entry IN
    /\ Ended(l)
    /\ fired' = fired \ {l}
    /\ current' = IF current[e] = l THEN [current EXCEPT ![e] = 0] ELSE current

(* An event: the turn events decide what the watch manager reports. *)
Mut_ListenerHears(l) ==
    /\ Selecting(l) /\ queue[l] = <<>>
    /\ ~noted /\ lis[l].conv \in busy
    /\ noted' = TRUE
    /\ UNCHANGED <<threadVars, marker, subVars, lisVars, teardown, told, job, boundVars>>

ListenerHears(l) ==
    /\ Selecting(l) /\ queue[l] = <<>>
    /\ noted # (lis[l].conv \in busy)
    /\ noted' = (lis[l].conv \in busy)
    /\ UNCHANGED <<threadVars, marker, subVars, lisVars, teardown, told, job, boundVars>>

(* handle_pending_thread_resume_request: the subscription, under the lock of *)
(* pending_thread_unloads; then the response.                                 *)
ListenerResumes(l) ==
    LET c == Head(queue[l]) IN
    /\ Selecting(l) /\ queue[l] # <<>>
    /\ queue' = [queue EXCEPT ![l] = Tail(@)]
    /\ IF unloading \/ c \notin live
         THEN UNCHANGED <<lis, entry, subs, current>>
         ELSE EnsureEntry({c}) /\ SetServing(l, "respond", c)
    /\ UNCHANGED <<threadVars, noted, marker, live, fired, teardown, told, job, boundVars>>

ListenerResponds(l) ==
    /\ lis[l].pc = "respond"
    /\ told' = told \cup ({lis[l].conn} \cap live)
    /\ SetServing(l, "select", None)
    /\ UNCHANGED <<threadVars, noted, marker, subVars, queue, fired, teardown, job, boundVars>>

(* should_unload_now: the delay has passed since the last change. *)
ShouldUnload(l) == subs[lis[l].watch] = {} /\ ~noted

UnloadTrigger(l) ==
    /\ Selecting(l) /\ queue[l] = <<>> /\ ShouldUnload(l)
    /\ SetLis(l, IF lis[l].conv \in busy THEN "select" ELSE "lock")
    /\ UNCHANGED <<threadVars, noted, marker, subVars, queue, fired, teardown, told, job, boundVars>>

Mut_UnloadLock(l) ==
    /\ lis[l].pc = "lock"
    /\ IF unloading
         THEN SetLis(l, "select") /\ UNCHANGED marker
         ELSE SetLis(l, "remove") /\ marker' = l
    /\ UNCHANGED <<threadVars, noted, subVars, queue, fired, teardown, told, job, boundVars>>

UnloadLock(l) ==
    /\ lis[l].pc = "lock"
    /\ IF unloading \/ ~ShouldUnload(l)
         THEN SetLis(l, "select") /\ UNCHANGED marker
         ELSE SetLis(l, "remove") /\ marker' = l
    /\ UNCHANGED <<threadVars, noted, subVars, queue, fired, teardown, told, job, boundVars>>

(* unload_thread_without_subscribers, the last thing a listener does: it has no  *)
(* more use for its watch, and keeps the entry it removed instead.               *)
UnloadRemove(l) ==
    /\ lis[l].pc = "remove"
    /\ RemoveEntry
    /\ lis' = [lis EXCEPT ![l].pc = "clear", ![l].watch = entry]
    /\ UNCHANGED <<threadVars, noted, marker, queue, fired, teardown, told, job, boundVars>>

UnloadClear(l) ==
    /\ lis[l].pc = "clear"
    /\ ClearState(lis[l].watch)
    /\ teardown' = [teardown EXCEPT ![l] = [pc |-> "shutdown", conv |-> lis[l].conv]]
    /\ SetLis(l, "ending")
    /\ UNCHANGED <<threadVars, noted, marker, queue, told, job, boundVars>>

(* wait_for_thread_shutdown; then the manager, the watch manager and           *)
(* pending_thread_unloads forget the thread, or only the last does.            *)
Mut_TeardownTimeout(l) ==
    /\ teardown[l].pc = "shutdown"
    /\ \/ /\ running' = running \ {teardown[l].conv} /\ busy' = busy \ {teardown[l].conv}
          /\ teardown' = [teardown EXCEPT ![l].pc = "remove"]
       \/ /\ teardown' = [teardown EXCEPT ![l] = NoTeardown] /\ UNCHANGED <<running, busy>>
    /\ UNCHANGED <<manager, loads, leaving, noted, marker, subVars, lisVars, told, job, boundVars>>

TeardownShutdown(l) ==
    /\ teardown[l].pc = "shutdown"
    /\ \/ /\ running' = running \ {teardown[l].conv} /\ busy' = busy \ {teardown[l].conv}
          /\ teardown' = [teardown EXCEPT ![l].pc = "remove"]
       \/ /\ teardown' = [teardown EXCEPT ![l].pc = "release"] /\ UNCHANGED <<running, busy>>
    /\ UNCHANGED <<manager, loads, leaving, noted, marker, subVars, lisVars, told, job, boundVars>>

TeardownRemove(l) ==
    /\ teardown[l].pc = "remove"
    /\ manager' = 0
    /\ teardown' = [teardown EXCEPT ![l].pc = "forget"]
    /\ UNCHANGED <<loads, running, busy, leaving, noted, marker, subVars, lisVars, told, job, boundVars>>

TeardownForget(l) ==
    /\ teardown[l].pc = "forget"
    /\ noted' = FALSE
    /\ teardown' = [teardown EXCEPT ![l].pc = "release"]
    /\ UNCHANGED <<threadVars, marker, subVars, lisVars, told, job, boundVars>>

TeardownRelease(l) ==
    /\ teardown[l].pc = "release"
    /\ marker' = 0
    /\ teardown' = [teardown EXCEPT ![l] = NoTeardown]
    /\ UNCHANGED <<threadVars, noted, subVars, lisVars, told, job, boundVars>>

-----------------------------------------------------------------------------

HandlerStep ==
    \/ ResumeLook \/ ResumeState \/ ResumeCommand \/ ResumeLoad \/ ArchiveShutdown
    \/ EnsureGet \/ EnsureSubscribe \/ EnsureWatch \/ EnsureSet \/ EnsureUndo
    \/ Reply \/ Finalize("handler")

LoopStep == RemoveConnection \/ CheckThread \/ Finalize("loop")

ListenerStep(l) ==
    \/ ListenerBreaks(l) \/ ListenerEnds(l) \/ ListenerHears(l)
    \/ ListenerResumes(l) \/ ListenerResponds(l)
    \/ UnloadTrigger(l) \/ UnloadLock(l) \/ UnloadRemove(l) \/ UnloadClear(l)

TeardownStep(l) == TeardownShutdown(l) \/ TeardownRemove(l) \/ TeardownForget(l) \/ TeardownRelease(l)

(* History: a request for the thread, or a resume command left to its       *)
(* listener, and the thread's cleanup were under way at the same time; or the *)
(* thread left the manager while one was; or the connection unsubscribed      *)
(* between the subscription that a listener made for it and the response.     *)
CleaningUp(a) == job[a].pc \in {"check", "archive", "fin1", "fin2", "clear", "fin3"}
UnloadUnderWay ==
    \/ unloading \/ leaving # 0
    \/ \E l \in Listeners : lis[l].pc \in {"lock", "remove", "clear", "ending"} \/ teardown[l].pc # "off"
Commanded == \E l \in Listeners : queue[l] # <<>> \/ lis[l].pc = "respond"
Requested == job["handler"].pc # "idle" \/ Commanded

Overlap ==
    \/ Requested /\ (UnloadUnderWay \/ CleaningUp("loop"))
    \/ Commanded /\ CleaningUp("handler")

Deserted ==
    \E l \in Listeners : lis[l].pc = "respond" /\ lis[l].conn \in (Subscribers \ Subscribers') \cap live'

Watch == raced' = (raced \/ Overlap' \/ (Requested /\ manager # 0 /\ manager' = 0) \/ Deserted)

Next ==
    /\ \/ \E c \in Conns : Resume(c) \/ Unsubscribe(c) \/ Archive(c) \/ ConnectionClosed(c)
       \/ HandlerStep \/ LoopStep
       \/ CoreTurn \/ CoreCloses \/ CoreEnds \/ CoreRemoves
       \/ \E l \in Listeners : ListenerStep(l) \/ TeardownStep(l)
    /\ Watch

Spec == Init /\ [][Next]_vars

Fairness ==
    /\ WF_vars(HandlerStep /\ Watch) /\ WF_vars(LoopStep /\ Watch)
    /\ \A l \in Listeners : WF_vars(ListenerStep(l) /\ Watch) /\ WF_vars(TeardownStep(l) /\ Watch)

FairSpec == Spec /\ Fairness

-----------------------------------------------------------------------------
(* Properties *)

(* The decision to unload is taken under the lock that subscriptions are     *)
(* made under: while the mark it put into pending_thread_unloads stands, the   *)
(* listener about to drop the thread's entry has nobody on the entry it        *)
(* decided about, whatever overlapped; and it drops no subscriber, unless the  *)
(* thread was cleaned up and resumed after the listener had seen that the time *)
(* is up: then it drops an entry that is not the one it decided about.         *)
UnloadSparesSubscribers ==
    marker # 0 /\ lis[marker].pc = "remove" =>
        subs[lis[marker].watch] = {} /\ (raced \/ Subscribers = {})

Serving(l) == l # 0 /\ l \notin fired /\ lis[l].pc # "ending" /\ lis[l].conv = manager

(* A connection that was told its resume succeeded, and has not left since,  *)
(* is subscribed, the session of the thread runs, and the listener of the      *)
(* thread's state serves the CodexThread the manager has: an old listener that *)
(* ends late takes nothing from its successor (the listener_generation test).  *)
(* Requests that overlap an unload, a cleanup or a removal of the thread are   *)
(* left out: a cold resume that finds the thread still marked as unloading, or *)
(* gone from the manager, logs the failed attachment and answers success.  So  *)
(* is a connection that unsubscribes while a listener writes it its response.  *)
ServedUnlessOverlapped ==
    ~raced /\ told # {} =>
        manager \in running /\ told \subseteq Subscribers /\ Serving(current[entry])

(* Every unload ends, shut down or timed out, and lets the thread be resumed. *)
UnloadIsReleased == unloading ~> ~unloading

(* A thread that has a listener, no subscriber and no turn does not stay so:   *)
(* the missed end of a turn, or a listener that stops watching, would keep it   *)
(* loaded for good.                                                            *)
IdleThreadIsUnloaded ==
    ~<>[](entry # 0 /\ Subscribers = {} /\ current[entry] # 0 /\ busy = {})
=============================================================================
