# Verification of the DeepSeekX agent runtime

DeepSeekX (`codex-rs/`) is a coding agent in Rust. Clients talk JSON-RPC to an app server, the
app server drives sessions ("threads"), a session runs turns against a model, and a session may
spawn sub-agents that are sessions themselves. This directory holds TLA+ models of the parts of
that runtime where the interleaving of tasks decides whether it is correct, the TLC runs that
check them on small instances, and TLAPS proofs for all instances.

Contents: 1 inventory, 2 modules and how they correspond to the code, 3 runs, 4 fairness,
5 proofs, 6 where code and documentation differ, 7 what is left out, 8 plan.

Paths below are relative to `src/codex-rs/`.

## 1. Inventory

| Component | State | Operations | Interacts with | What is hard |
|---|---|---|---|---|
| Request queues (`app-server/src/request_serialization.rs`) | map key -> queue of requests | `enqueue`, `drain` | processor loop, gates | a request appended as the drain task gives up; batches of shared reads around exclusive requests |
| Connection gate (`app-server/src/connection_rpc_gate.rs`) | `accepting`, a `TaskTracker` | `run`, `shutdown` | handlers, processor loop | check, close and start in any order; waiting for handlers |
| Processor loop (`app-server/src/lib.rs`, `message_processor.rs`) | map of connections, `ShutdownState` | open, initialize, request, close, signal, exit | everything in the app server | one loop that awaits handlers of a closing connection |
| Session turn lifecycle (`core/src/tasks/mod.rs`, `core/src/state/turn.rs`) | the `active_turn` slot: tasks and a shared `TurnState` | `start_task`, `on_task_finished`, `abort_all_tasks`, `abort_turn_if_active`, `maybe_start_turn_for_pending_work` | submission loop, turn loop, guardian, mailbox | each function spans several critical sections of two mutexes |
| Session input (`core/src/session/mod.rs`, `session/handlers.rs`, `agent/mailbox.rs`) | pending input, idle items, mailbox, delivery phase | `steer_input`, `inject_response_items`, `get_pending_input`, `prepend_pending_input`, `InterAgentCommunication` | turn lifecycle | input that arrives while a turn ends, is aborted or replaced |
| Turn loop (`core/src/session/turn.rs`, `stream_events_utils.rs`) | locals of `run_turn` | drain input, run hooks, sample, defer mail | session input | a hook blocks one of several inputs |
| Agent registry (`core/src/agent/registry.rs`, `agent/control.rs`) | `total_count`, `agent_tree` | reserve, commit, drop, release; spawn, resume, close | thread manager | a reservation held across awaits; close in several steps |
| Thread manager (`core/src/thread_manager.rs`) | map of loaded threads | spawn, resume, remove | agent control, app server | two resumes of one thread |
| Goals (`core/src/goals.rs`) | goal, budgets | continue after a turn | turn lifecycle | wake-ups that compete for the slot |
| Network approval (`core/src/tools/network_approval.rs`) | pending approvals per host, two session caches, active calls and their outcomes | ask, decide, wait, record, finish | proxy handlers, tool calls | one owner decides for many waiters and may be dropped; two caches under two locks; denials attributed to calls that come and go |
| Tool calls in parallel (`core/src/tools/parallel.rs`) | a read/write lock | run, abort | turn loop, every tool | a call is dropped at an arbitrary await |
| Unified exec (`core/src/unified_exec/`) | process store with a limit, reserved ids, per process an output task, an exit watcher and a network guard | `exec_command`, `write_stdin`, prune, terminate all, exit | tool calls, network approval | pruning, exit, denial and interrupt race; a process lives as long as someone refers to it; one end event per command |
| Thread listeners (`app-server/src/thread_state.rs`, `request_processors/thread_lifecycle.rs`, `thread_processor.rs`) | subscriptions, a listener task per thread with a generation, pending unloads | resume, unsubscribe, archive, close of a connection, unload | thread manager, processor loop | an unload races a subscription; an old listener ends beside a new one; a shutdown times out |
| Server requests (`app-server/src/outgoing_message.rs`, `bespoke_event_handling.rs`) | callbacks of requests sent to clients, tasks that wait for replies | send, reply, cancel, replay, resolve | clients, listeners, processor loop | replies, turn ends, joins and teardown in any order; a request of the server inside a request of the client |
| Rollout recorder (`rollout/src/recorder.rs`) | channel of commands, pending items, file | record, flush, persist, shutdown, resume | sessions, thread store | writes that fail part-way, retries, crashes |
| State database, model client, exec policy, MCP, hooks, apply-patch, TUI, login | - | - | - | mostly I/O, text and data; see section 7 |

What makes the core correct:

* requests for one resource are handled in order of arrival and only reads overlap; every request
  settles; a closed connection is quiet; exit waits for handlers and always ends;
* whatever runs can be interrupted; a turn slot is never stuck; accepted input is not lost; a turn
  ends with an event; mail that asks for a turn gets one;
* the session never has more agents than its limit; reservations are exclusive and given back;
* one prompt at a time per host, answers for the session hold, a denial reaches the call it is for
  and stops it, every waiter is decided;
* who was told it is attached to a thread is served; an idle thread is unloaded and can be resumed;
* a request to the clients is answered once, shown to whoever joins, resolved after it was sent, and
  never blocks the server for good;
* a command ends in one event after its output; no process runs out of reach; the store is bounded;
* items reach the rollout in order and once; what a barrier confirmed is in the file.

## 2. Modules

`FifoAccess` is the abstract specification of ordered access: requests arrive, start once no
earlier conflicting request is unfinished, end, or are abandoned before they start.

`RequestSerialization` is the request path of the app server. Requests are numbered by arrival.
`queues` and `present` are the map of queues (an entry may be empty while its drain task joins a
batch), `drainer` and `batch` the control state of the drain task that a request's `enqueue`
spawned, `accepting` and `tokens` the gates, `conn`, `loop`, `closing`, `shutdown` the processor
loop. Critical sections of the queue mutex and the gate mutex are single steps.
`Dispatch` is the handling of an initialized request (with `Enqueue` when it has a serialization
scope); `Take`, `DrainReturns` and `Joined` are the drain loop; `Admit` and `TurnAway` are the two
outcomes of `ConnectionRpcGate::run`; `HandlerRegisters` stands for a handler that opens a watch,
a process or a subscription for its connection; `ConnectionClosed`, `GateShutdown` and `Cleanup`
are the three stages of `connection_closed`, in which the loop is blocked; `Signal`, `LoopEnds`,
`ExitGateShutdown` and `Exit` are the shutdown path. The model lets every key be shared or
exclusive; in the code only the global scopes have shared readers.

`SessionTurn` is one session. Items (user inputs, mails, injected items) are abstract and `place`
says where each of them is: `pending` in a `TurnState` where `steer_input` or
`inject_response_items` put it, `requeued` in one where `start_task` or `prepend_pending_input`
put it back, in the mailbox, waiting for the next turn, carried by a task, recorded, and so on.
`TurnState`s are numbered as they are allocated, because tasks keep references to one that is
no longer in the slot. `proc[a]` is the control state of the procedures that several callers
(submission loop, tail of a finished turn, guardian) execute:

| Code | Actions |
|---|---|
| `Op::UserInput`, `steer_input`, `Op::Compact`, `Op::Interrupt`, inter-agent mail, injection, guardian circuit breaker | `UserInput`, `Steer`, `Compact`, `Interrupt`, `InterAgentCommunication`, `Inject`, `ApproveDenied`, `QueueForNextTurn`, `GuardianTrips` |
| `abort_all_tasks`, `abort_turn_if_active`, `handle_task_abort` | `TakeActive`, `CancelNext`, `AbortTask`, `ClearPending` |
| `maybe_start_turn_for_pending_work` | `CheckPendingWork`, `Reserve` |
| `start_task` | `TakeQueued`, `TakePending`, `TakeMail`, `FindSlot`, `PushCollected`, `SpawnTask` |
| `run_turn` | `Prompt`, `EarlyReturn`, `DrainPending`, `DrainMail`, `RecordAll`, `RecordUpToBlocked`, `Defer`, `ToolCall`, `SampleAgain`, `SamplingEnds`, `CheckPending`, `CheckMail` |
| the spawned task around it | `OtherTaskRuns` (compact), `Flush`, `TaskDies` (the `JoinHandle` was aborted) |
| `on_task_finished` | `RemoveTask`, `TakeLeftOver`, `RecordLeftOver`, `Complete`, `Vacate` |

`AgentRegistry` is the registry with the operations of `AgentControl` that use it. `tree` maps a
path, or a thread id for an agent without one, to absent, reserved or the thread; `count` is
`total_count`; `spawn[s]` and `close[c]` are the control state and locals of concurrent calls.
A spawn or resume may fail, or its future be dropped, at every await (`SpawnFails`), which runs
`SpawnReservation::drop`: `DropPath`, then `DropCount`. `lost` is a history variable: how many
registrations a `Commit` under the same key has replaced. A close unloads the thread (`Unload`),
removes the registry entry (`Release`) and decrements the counter (`ReleaseCount`) in separate
steps. `UnloadIdle` is the app server removing an idle thread by itself.

`NetworkApproval` is the approval service of a session. A proxy handler is a program, `todo`, of
the critical sections it still has to go through: `CheckDenied`, `CheckApproved`, `Join`; then
`Listen`, `Look`, `Wake` for a waiter (the notification is registered before the decision is looked
at), or `Refuse`, `ResolveOwnerCall`, `Answer` and the steps of `Plan` for the owner: recording and
cancelling (`RecordOutcome`, `CancelToken`), the two caches (`WriteCache`), `Decide`,
`NotifyWaiters`, `RemovePending`. A denied request goes on to the proxy's observer (`Blocked`).
`RegisterCall`, `FinishCall` and `AbortCall` are the tool calls, `DropHandler` a handler whose
client or proxy goes away. Hooks, guardian and user are one nondeterministic `Answer`.

`ThreadListener` is one thread as the app server sees it. `entry`, `subs` and `current` are the
`ThreadEntry`s (a removed one lives on in the watches and tasks that hold it), `lis` and `queue` the
listener tasks with their command channels, `teardown` the task that shuts an unloaded thread down,
`manager`, `running` and `busy` the `CodexThread`s, `leaving` the one that agent control is closing.
Requests for a thread are serialized, so they
are one actor: `Resume` ... `Reply`, `Unsubscribe`, `Archive`; the processor loop is the other:
`ConnectionClosed`, `RemoveConnection`, `CheckThread`. A resume may fail wherever the code returns an
error (`ResumeLook`, `EnsureSet`, `ResumeLoad`, `Reply`). `UnloadTrigger`, `UnloadLock`, `UnloadRemove`,
`UnloadClear` and the `Teardown` steps are the unloading; `remove_thread_state` is two steps,
`RemoveEntry` and `ClearState`, one for each of its locks. `CoreCloses`, `CoreEnds` and `CoreRemoves`
are `shutdown_live_agent`. `raced` is a history variable: a request for the thread overlapped an unload,
a cleanup or a removal of it. `marker` is the thread's mark in `pending_thread_unloads`
together with the listener that put it there; the code keeps the thread id only, and no action looks
at more than `unloading`, that there is a mark. The delay of thirty minutes is left to chance: the
trigger may fire whenever there is no subscriber and no turn.

`ServerRequests` is what the server asks its clients: `TakeAsk`, `RegisterCallback` and `SendRequest`
(the subscribers are noted, the callback is registered, then the request goes to one of them after the
other), `ClientReplies`, `TakeTurnEvent`, `TakeTurnAborted` and `TeardownCancels` (cancellation),
`TakeResume` and `Replay` (a join), and the tasks that wait: `ResponderWakes`, `ResponderCommands`,
`TakeResolve`. `calls` are the requests that are dynamic tool calls: their task is done with the reply
and has nothing resolved. One listener is followed until it is told to stop, by the teardown of the
thread (`TeardownCancels`, `TeardownRemoves`, `TeardownSignals`) or by the listener of a thread that
was loaded again (`Superseded`). A request has the number of its
event: the listener sends requests in the order of the events, so the sender's counter gives that
number. The module composes them with the
processor loop, which alone delivers replies and which waits for the requests of a connection it
closes, and with the refresh of external auth, a request of a client that waits for a reply of a
client (`RefreshAsk`, `RefreshReply`, `RefreshTimeout`).

`UnifiedExec` is the process store. `stage[c]` is where the call of command `c` is, `proc`, `stream`,
`watcher`, `guard` are its process, output task, exit watcher and network guard, `reg` and `denied` its
deferred registration with the approval service, made before each attempt to open the process
(`BeginApproval`) and ended when the attempt fails (`AttemptFails`). `later[c]` are the commands used
after `c`, which is the order of `last_used` that pruning goes by. `Held` says who refers to a process;
when nobody does it is terminated, as `Drop` does. The process has one state for `has_exited` and its
exit token. A run may begin with commands in the background.

`RolloutLog` is what a rollout promises: items are written in the order they were accepted, once and
without gaps, and a barrier confirms only what is written. `RolloutRecorder` is the recorder: callers,
channel, writer task, the attempt and its retry, and a file of lines that may be whole, lack their
newline, or be torn. `Picks(s, S)[n]` are the items of those of the first `n` elements of `s` that are
in `S`; `Written`, `Queued` and `Loads` are cases of it. `Crash` and `Resume` are those of the process.
`Loads` is how `load_rollout_items` reads the file: a line joined to a torn one does not parse.

The modules named `...Proofs` hold the theorems about the module they are named after (section 5).
The modules named `MC...`
are what the runs check; `MCAgentRegistry` and `MCUnifiedExec` define symmetry sets. Operators named `Mut_X` are
faulty variants of `X`: for every checked property there is one under which TLC finds the property
violated, so no property holds by the shape of the model alone.

## 3. Runs

Every module defines `TypeOK`, the sets its variables range over. Runs list it for two modules; for
the others with proofs it is part of the invariant proved for every instance.

| Run | Instance | Shows |
|---|---|---|
| `requests` | 2 requests, 1 key and requests without key, 2 connections, single-client mode, fair | types, `ConflictsInOrder`, `OneDrainerPerQueue`, `ClosedIsQuiet`, `GracefulExitIsQuiet`, `EveryRequestSettles`, `LoopComesBack`, and that `FifoAccess` with its progress conditions is implemented |
| `turn_safety` | 1 user input, 1 mail that triggers a turn, 1 injected item, 1 compact, 1 guardian abort, 2 turns | `RunningIsReachable`, `SteeredInputIsHeld` |
| `turn_progress` | 1 user input, 1 mail, 1 interrupt, 1 guardian abort, 2 turns, fair | `TurnsEnd`, `SessionComesToRest`, `TriggersAreDelivered` |
| `agent_limit` | 3 spawns or resumes, 2 closes, 2 threads, 1 path, limit 2, 1 unload | types, `CountCoversAgents`, `PathsAreExclusive` |
| `network_approval` | 2 requests, 1 host, 2 calls, 1 dropped handler, 1 aborted call, fair | `OneOwnerPerHost`, `SessionAnswerIsKept`, `SettledHostIsNotAskedAgain`, `DenialStopsCall`, `EveryRequestIsDecided` |
| `thread_listener` | 2 connections, 1 resume or unsubscribe, 1 archive or closing by agent control, 2 loads, 2 listeners, fair | `UnloadSparesSubscribers`, `ServedUnlessOverlapped`, `UnloadIsReleased`, `IdleThreadIsUnloaded` |
| `server_requests` | 2 connections, 1 turn with 1 request of any kind, 1 join or leave, 1 refresh, fair | `OpenRequestsAreShown`, `NoRequestLeftOpen`, `ResolvedIsLast`, `RespondersFinish`, `LoopComesBack` |
| `exec_store` | 3 commands, 1 of them in the background, store of 2, 1 protected, 1 interrupt | `OneEnd`, `StoreIsBounded`, `RunningIsReachable`, `InterruptSparesProcesses` |
| `exec_progress` | 2 commands with network guards, 1 in the background, store of 1, 1 interrupt, fair | `RegistrationsEnd`, `EveryCommandEnds`, `DenialStopsProcess` |
| `rollout` | 2 callers, 2 items, channel of 2, 3 failures, 1 crash or shutdown with resume, fair | `LoadedInOrder`, `LogSpec` (refinement of `RolloutLog`), `EveryCallReturns` |
| `one_task`, `rollout_torn` | smaller | expected violations, section 6 |

Why the bounds are enough. A key is independent of the others, so one key carries every case of the
queues; two connections give a request of a live connection queued behind one of a closed connection.
Three requests, which is what it takes to have a read, a write and a read, give 2.4 million states and
were checked for the safety properties by hand; their proofs hold for any number. In `SessionTurn` two
turns are a finishing turn and the one its tail or the submission loop starts. In `turn_progress` a user
input and a mail start at most two turns, so the bound never stops a wake-up (with a compact three would
be needed). `turn_safety` with an interrupt as well has 4.2 million states; that instance was checked by
hand, and instances with three turns and two user inputs were checked apart from the injected item and
the compact. In `AgentRegistry` three calls with a limit of two are one more than fits, and two closes
cover closing one thread twice. Hosts are independent but for the attribution of denials, which depends
on calls only; a request that owns and one that waits are the two roles, and two calls make attribution
ambiguous. One operation of a client beside the closing of connections, an unload and a removal already
reaches every pair of actors that meet in `ThreadListener`: an old listener, the one that replaces it,
and an operation that meets both. The two connections are interchangeable, so `MCThreadListener` fixes
which of them started the thread. The invariant of the proof was checked by hand with three listeners
(900,000 states), and with four operations, three loads and two removals on 9 million of the states in
which nothing overlapped. Requests of a thread do not interact in `ServerRequests`; by hand, safety was
checked with two joins (2.2 million states) and the invariant of the proof with two requests (15
million). For `UnifiedExec`, three commands on a store of two have a victim and a survivor. In
`RolloutRecorder` three failures are a first attempt, its retry and a later command; two items are one
before and one after a torn line. The bounds on operations (constants named `Max...`, and the sets of
calls and requests) only stop the environment; once it has stopped the system may rest, which is why
deadlock is not checked.

Properties with exceptions. These are the code's, and each exception is as narrow as the code allows:
`SteeredInputIsHeld` speaks of input where `steer_input` put it: when two callers of `start_task`
meet on one slot (run `one_task`), the second may push what it collected into a `TurnState` that the
first task has already swept. `TriggersAreDelivered` excepts behaviours in which an abort takes a
finishing turn (`GapTaken`). `EveryRequestIsDecided` excepts waiters whose owner was dropped.
`ServedUnlessOverlapped` excepts requests that overlap an unload, a cleanup or a removal of their
thread, and a connection that unsubscribes while a listener writes its response.
`UnloadSparesSubscribers` excepts a listener whose mark somebody else took away, and, with its second
half, a listener that had seen that the time is up before the thread was cleaned up and resumed.
`NoRequestLeftOpen` is about approvals and questions that end while the listener serves the thread:
dynamic tool calls are never resolved, and neither is what is left when the listener is told to stop.
`CountCoversAgents` counts slots that a commit over a registered agent lost. `DenialStopsProcess`
excepts a call that is interrupted after its guard has left, and ids given out twice.
`RunningIsReachable` and `RegistrationsEnd` of `UnifiedExec` except interrupts and ids that
were given out twice. Section 6 says what happens in those cases.

## 4. Fairness

`RequestSerialization!FairSpec`: weak fairness of every drain task, of the gate step of every
request, of a handler's return, and of the processor loop inside `connection_closed` and at exit.
The first ones are the runtime polling a task that is ready; that handlers return is an assumption
about their bodies, which `connection_closed` itself makes by awaiting them. Nothing is assumed
about clients and signals.

`SessionTurn!FairSpec`: weak fairness of each caller's procedures and each turn's task, for the
same reason. Two strong conditions stand for what the code does not bound: a model that is
offered tools stops calling them at some point (`Defer` or `SamplingEnds`), and compaction before
a request does not fail forever (`DrainPending`). Operations of the environment are not fair.

`NetworkApproval!FairSpec`: weak fairness of every handler, its `Answer` included: a prompt is
answered, or answered with an abort when its turn ends. Calls, drops and aborts are not fair.

`ThreadListener!FairSpec` and `ServerRequests!FairSpec`: weak fairness of the tasks (handler, loop,
listeners, teardowns, responders) and of the timers that bound `wait_for_thread_shutdown` and the
refresh. Clients need not reply, join or leave, and turns need not end.

`UnifiedExec!FairSpec`: weak fairness of a call once its process is open (its waits have deadlines),
of the output task and exit watcher, and of the guard that hears a denial. Processes need not exit.

`RolloutRecorder!FairSpec`: weak fairness of the writer task, and strong fairness of a caller that
has recorded and is about to flush, because the channel lets senders in by turns when it is full.
File operations may fail as often as the bound allows.

`AgentRegistry` has no liveness property: every call may fail at every step.

## 5. Proofs

All theorems hold for every value of the constants that satisfies the assumptions named in the
modules (TLC evaluates those in the passing runs): bounds are natural numbers, sentinel values differ
from real ones, the sets of calls, threads and paths of the registry are finite. Some say more. In
`SessionTurn`, user inputs and injected items are different things (`KindsAssumption`). In
`UnifiedExec`, fewer processes are protected from pruning than fit in the store
(`RecentFitInStore`; 8 and 64 in the code), and the processes a run starts with fit in it
(`BackgroundFits`). In `RolloutRecorder` the channel has room for a command. In
`ThreadListener` the bounds allow one load and one listener.

Each proof module defines `IInv`, proves that it holds initially and is kept by every
step, one action at a time, and concludes the properties from it. `IInv` was an invariant of a TLC
run before it was proved.

| Module | Theorems (property) |
|---|---|
| `RequestSerializationProofs` | `Serialization` (`ConflictsInOrder`), `SingleDrainer` (`OneDrainerPerQueue`), `CloseSafety` (`ClosedIsQuiet`), `ExitSafety` (`GracefulExitIsQuiet`), `Refinement` (`Spec => FA!SafeSpec`) |
| `AgentRegistryProofs` | `SpawnLimit` (`CountCoversAgents`), `PathOwnership` (`PathsAreExclusive`) |
| `NetworkApprovalProofs` | `OneOwner` (`OneOwnerPerHost`), `SessionAnswerKept` (`SessionAnswerIsKept`), `SettledHostNotAsked` (`SettledHostIsNotAskedAgain`), `DenialStops` (`DenialStopsCall`) |
| `UnifiedExecProofs` | `EndIsUnique` (`OneEnd`), `StoreKeepsBound` (`StoreIsBounded`), `RunningReachable` (`RunningIsReachable`), `RegistrationsEndWithEntry` (`RegistrationsEnd`), `InterruptSpares` (`InterruptSparesProcesses`, an action property) |
| `SessionTurnProofs` | `TasksAreReachable` (`RunningIsReachable`), `SteeredInputKept` (`SteeredInputIsHeld`) |
| `RolloutRecorderProofs` | `LoadsInOrder` (`LoadedInOrder`), `RecorderImplementsLog` (`LogSpec`, refinement of `RolloutLog`) |
| `ServerRequestsProofs` | `PendingIsShown` (`OpenRequestsAreShown`), `EndedIsClosed` (`NoRequestLeftOpen`), `ResolvedComesLast` (`ResolvedIsLast`), the last two action properties |
| `ThreadListenerProofs` | `UnloadSpares` (`UnloadSparesSubscribers`), `Served` (`ServedUnlessOverlapped`), `MarkHasOwner`, `ListenersAreLinked` |

Every one of them also proves `TypeCorrect`.

Requests. `ConflictsInOrder` alone is not inductive: that a drain task takes the head of its queue says
nothing about order unless queues hold exactly the queued requests of their key in order of arrival
(`QueueInv`), everything that has left a queue came before what is still in it (`OrderInv`), whatever
is taken and unfinished is in the batch that the only drain task of the key joins (`BatchInv`,
`OneDrainerPerQueue`), and a batch has more than one member only if all of them read. The quietness of
closed connections needs that running handlers hold tokens (`TokenInv`) and how the loop's control
state relates to connections and gates (`LoopInv`). For the refinement the only interesting step is
`Admit`, where `BatchInv` and `ConflictsInOrder` give that every earlier conflicting request is over.

Registry. The counter is compared with the cardinality of three sets: registered agents, reservations
in flight and closes that have removed an entry and still owe the decrement. Each action moves at most
one member between them, and the lemmas `LoseOne` and `Neutral` say what that does to the sum. The
counter is their sum and `lost`, the slots of agents that a resume registered again (section 6); so it
never goes below zero, which `TypeCorrect` needs at each decrement. `PathsAreExclusive` is needed for
the commit: a reserved key is not yet a registered one.

Approvals. What a handler has still to do is a sequence; `ProgramsOK` lists the shapes it can have, so
that its first step decides the rest. `TicketsOK`: the owner of a pending approval holds its own
ticket, a waiter somebody else's, and the pending map names an owner that has still to remove it; two
owners of one host would be two handlers in one map entry. `CachesOK` is what `SessionAnswerIsKept`
comes to between the two writes of an owner: the caches agree with the answer of the session, or the
one owner that got the answer has the missing write ahead of it. `CallsOK` says the same of a recorded
denial and its cancellation.

Unified exec. The store is bounded because an insertion into a full store finds a victim:
`OldestExists` (a finite set under the strict total order `later`, `OrderOK`, has an oldest member) and
`VictimIsStored` (fewer are protected than stored) are the lemmas. `HeldOK` and `ReachOK` say where a
running process can be found at each stage of its call, of a poll that took its entry out, and of a
pruning that has still to stop it; `RegOK` is the same for its registration, and `EndsOK` has one
source of end events per command. Proving `InterruptSparesProcesses` showed that it was false with two
interrupts, which the run's single one did not reach (section 6); the property now says so.

Session. `ControlOK` and `FreshOK` relate the control states of the callers to the turns they have
allocated and not started; `TakenOK` says that an abort has the tasks it took to itself. From these a
running task is in the slot or in the hands of an abort. `SteeredOK` says of every `TurnState` with
steered input that it has tasks, or that an abort or the end of the last task is about to take the
input out.

Rollout. `FileOK`, `PendingOK` and `QueueOK` say that file, buffer and channel continue one another in
ascending order, and `BarriersOK` that a barrier asks for no more than what is written, buffered or
ahead of it in the channel. For the refinement, `written` of `RolloutLog` is a function of the file, by
`Picks`, a recursive function; the lemmas `PicksOfAppend` and `PicksOfTail` say how it changes with the
file. They are inductions over the length of the sequence, had from the well-foundedness of `<` on the
natural numbers (`InductionOnSets`), because the induction rule itself takes an operator.

Server requests. `OpenRequestsAreShown` speaks of the moments when the listener rests; `ShownOK` adds
the ones in between: a pending request has been sent to each client that joined or is about to be sent
by the loop the listener is in, and a joining client has it or it is still to be replayed. A
resolution never overtakes (`ResolvedIsLast`) because both go through the listener, and what it is about
to send, first or by replay, is not resolved (`ListenerOK`); that rests on the course of a request
(`LifeOK`): only a filled oneshot, which has no callback, leads to a resolution, and the channel
holds one resolution per request at most. For `NoRequestLeftOpen` the interesting step is the end of
the listener: with commands queued it ends only when it was told to.

Thread listeners. The invariant has two halves. What holds always: a state names a listener that was
started for it and is not cancelled (`LinksOK`), and a listener that is neither cancelled nor ending is
named by its state (`NamedOK`); a mark belongs to an unload that is under way, and until that drops the
entry nobody is subscribed to the one it decided about, since subscriptions are refused under the same
lock (`MarkOK`). What holds as long as no request overlapped a cleanup: what the handler found
(`CodexThread`, entry, watch, listener) is still what the thread has (`JobOK`), a listener with commands
is the one of the entry (`CommandOK`), nobody is told to be attached to a thread on its way out
(`CleanupOK`), an entry that is gone and still names a listener is between the two locks of
`remove_thread_state` and has no successor yet (`GoneOK`), and a listener that decided to unload did so
about the entry the thread has (`DropOK`). `Served` follows because every step that could take a thread
from a client it was told about is either a cleanup that found no subscriber or overlaps that client's
request. The proof needed the owner of the mark, which is why the model has it: with the bare set of
thread ids neither half of `UnloadSparesSubscribers` is true (section 6).

Only model-checked: the liveness properties of all modules, and the progress part of
`FifoAccess` (fairness and `ENABLED` are out of the prover's reach). No module has a `RECURSIVE`
operator.

## 6. Where code and documentation differ

Shown by runs:

* `one_task`: "A session has at most 1 running task at a time" (`core/src/session/session.rs:13`).
  The tail of a finished turn reserves the slot for pending mail and goes on to `start_task`
  without the lock; a user input that arrives meanwhile finds no task to steer into and starts its
  own. Both end up in one `ActiveTurn`.
* `rollout_torn`: `flush` promises to "wait until they are committed by the writer task"
  (`rollout/src/recorder.rs:791`). A write that fails part-way leaves the beginning of a line; the
  retry appends the item to that line and succeeds; the flush returns `Ok`, and on the next resume
  the joined line does not parse and the item is missing.

Met while modelling; the properties leave these cases out, and no run is about them:

* A turn that passed its cancellation check before an abort takes the slot is reported with both
  `TurnComplete` and `TurnAborted` (`core/src/tasks/mod.rs:411`).
* `inject_response_items` accepts an item for a turn whose last task has gone, and it is lost,
  although the comment says it "Returns the input if there was no task running"
  (`core/src/session/mod.rs:3091`).
* An interrupt in that same gap makes both the abort and `on_task_finished` skip the wake-up, and a
  mail with `trigger_turn` waits for the next user input (`core/src/tasks/mod.rs:519`).
* Two concurrent resumes of one thread, or a resume of an agent that is still registered, increment the
  counter again and register one entry; a slot is lost until the process ends
  (`core/src/agent/registry.rs:199`; `lost` in the model counts them). A second close of a thread that was
  resumed in between releases the new registration, so that more threads are loaded than counted.
* An aborted tool call is dropped without unregistering from the approval service
  (`core/src/tools/parallel.rs:103`); from then on two calls seem active whenever one runs, and
  denials are attributed to none. The pending approval of an owner that is dropped stays as well.
* A cold resume that finds its thread unloading again logs the failed attachment and answers with
  success (`app-server/src/request_processors/thread_processor.rs:2453`).
* A removal by core (`core/src/agent/control.rs:729`) between the load and the attachment of a cold
  resume has the same outcome: the client is told of success and is not subscribed.
* `pending_thread_unloads` has thread ids and no owner: a mark set by one listener
  (`app-server/src/request_processors/thread_lifecycle.rs:355`) is taken away by any
  `finalize_thread_teardown` (`thread_processor.rs:689`) or by the end of an older shutdown (lines 414 to
  433). A listener whose mark was taken away goes on to drop the entry, which by then can have
  a subscriber, even while the mark of a second listener stands. It takes an archive or the cleanup after a
  closed connection in the middle of an unload, 28 steps in the model.
* A listener that has seen that the thread is idle (`thread_lifecycle.rs:343`) checks its watch again at
  line 352, and that is the watch on the entry it was started for. When the thread was archived and
  resumed cold in between, the watch still says that nobody is there, while the new entry has a
  subscriber: the listener marks the thread as unloading, drops the new entry with its subscriber and
  shuts its own, old `CodexThread` down; a trace of 16 states in the model. `app-server/README.md:163`
  says that the server "unloads it only after it has had no subscribers and no thread activity for 30
  minutes" (also line 408).
* A resume that was left to a listener as a command (`thread_processor.rs:2704`) is dropped with the
  channel when that listener is cancelled or has begun to unload; the client gets no answer at all.
  When the listener takes the command while the thread is marked as unloading, the client gets an error.
* A dynamic tool call is a request of the thread like an approval, but its task
  (`app-server/src/dynamic_tools.rs:14`) sends no `serverRequest/resolved`: when one subscriber has
  answered, or the turn has ended, the other subscribers keep the call open.
* A listener that is superseded, after its session ended and the thread was loaded again, ends at once
  (`thread_lifecycle.rs:263`) with the resolutions still in its channel, although the subscribers are
  there: they do not get the `serverRequest/resolved` that `app-server/README.md:1376` promises for a
  request "resolved or cleared, including lifecycle cleanup on turn start/complete/interrupt". If it is
  in the middle of a replay, that goes on beside the new listener and may come after a resolution sent
  by it.
* An interrupt while a managed command is between opening and being stored leaves the process running:
  its network guard refers to it, and nothing else can reach it
  (`core/src/unified_exec/process_manager.rs:389`), although "CleanBackgroundTerminals" is there to
  end what an interrupt leaves behind.
* Pruning takes an entry out of the store and terminates its process after another await. A call that
  is interrupted there (`core/src/unified_exec/process_manager.rs:838`) leaves a process that nothing but
  its own call refers to; when that call is interrupted in the same place, its process ends with it,
  although an interrupt is to spare the processes of calls that got that far.
* `terminate_all_processes` forgets the ids reserved by calls in flight; `exec_command` keeps an id
  reserved when parsing its command fails.

## 7. What is left out

* App server: outbound router (assumed alive while the loop runs; the loop also ends when it is
  not), notifications other than `serverRequest/resolved`, thread start, fork, listing and rollback,
  goal commands of a listener, the bodies of other handlers. At exit, `drain_background_tasks` and
  `shutdown_threads` after the gates have closed (`lib.rs:1063`): neither touches queues or gates.
* Thread listeners: the listener that the loop attaches for every connection to a thread that agent
  control spawned or resumed (`lib.rs:1025`, `thread_processor.rs:2248`), and those that a turn or a
  review ensures (`turn_processor.rs:677` and 920); `ThreadListener` is about threads that clients start
  and resume. What the successor of a superseded listener does with requests is not in
  `ServerRequests`. The end of a listener by an error of `next_event` (`thread_lifecycle.rs:285`) is left
  out because it cannot happen: the error needs the event channel to be closed, the session holds
  its sender (`core/src/session/session.rs:17`), `Codex` holds the session (`core/src/session/mod.rs:366`),
  and the listener holds the `CodexThread` around it; nothing closes the channel.
* Session: goal continuation, `Op::Shutdown`, user shell tasks, review tasks (they behave like
  compact here), realtime mirroring, pending approvals in `TurnState`, history and its rollback,
  configuration updates.
* Turn loop: prompts, streaming and the content of model output; results are nondeterministic.
* Agents: nicknames, depth, persisted spawn edges, completion watchers, listing, the queue of
  messages to an agent, and a configuration without limit, in which `reserve_spawn_slot` only counts
  (`registry.rs:88`; the default is a limit of 6).
* Network approval: the network proxy but for its answer and its observer, the persisting of allow
  rules, copying the caches to another session, and the answer `ask` of the decider once the session is
  gone (`network_approval.rs:692`), which is the only one that `record_blocked_request` passes over
  (line 364). Deferred registrations are in `UnifiedExec`.
* Unified exec: output buffers, truncation and yield times, the pause of deadlines while an elicitation
  is open (`process_manager.rs:1181`), the transport to an exec server (its loss is a failed process).
  That a failing call sends its end event, releases its id and unregisters is one step (`FailReturns`,
  lines 471 to 483); an interrupt in between would leave the id reserved or the registration behind, as
  it does elsewhere.
* Rollout: `discard_thread`, `append_rollout_item_to_path` for unloaded threads, listing and the
  state database. A line cut in the middle of a UTF-8 character, for which `read_to_string` refuses
  the whole file, is treated like any torn line. The last `flush` of an attempt (line 1512) does not
  fail, as every line was flushed when it was written (line 1652). An item counts as written
  (`Written`) when its line is in the file, even joined to a torn one: `LogSpec` is about the bytes,
  `LoadedInOrder` and `ConfirmedIsLoaded` about what loads.
* Not modelled at all: state database (SQLite does the work), model client and MCP (I/O), exec
  policy and sandboxes (rule matching, operating system), hooks (external commands, nondeterministic
  verdicts in `SessionTurn` and `NetworkApproval`), compaction (content), apply-patch (text), TUI,
  login. They are most of the lines of the repository, and text, data and I/O for the most part.

## 8. Plan

`SessionTurn`: goal continuation, shutdown and pending approvals.
