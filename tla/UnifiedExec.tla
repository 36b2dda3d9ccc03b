---------------------------- MODULE UnifiedExec ----------------------------
(***************************************************************************)
(* The background terminals of a session (core/src/unified_exec/).  An     *)
(* exec_command call reserves a process id, opens a process, stores it if  *)
(* it still runs, waits a while for output and answers; the process may    *)
(* outlive the call, and write_stdin calls poll it by its id later.  Tasks *)
(* of the process stream its output, emit the one ExecCommandEnd of a      *)
(* stored process and stop it when the network approval denies its         *)
(* requests.  An interrupt drops the future of a running call at any       *)
(* await; CleanBackgroundTerminals empties the store.                      *)
(*                                                                         *)
(* A command, its call and its process have one name.  exec_command calls  *)
(* of a turn run in parallel, a write_stdin call runs alone (the lock of   *)
(* tools/parallel.rs).  A step is the code between two awaits at which     *)
(* other tasks of the model can interfere.  has_exited and the exit token  *)
(* of a process change together.                                           *)
(***************************************************************************)
EXTENDS Naturals, FiniteSets, Functions

CONSTANTS
    Cmds,          \* exec_command calls, and the processes they open
    Managed,       \* the commands that run under the managed network
    Background,    \* the commands whose processes run in the store at the start
    Ids,           \* the process ids allocate_process_id draws from
    None,          \* no command, no id
    MaxProcesses,  \* MAX_UNIFIED_EXEC_PROCESSES, 64 in the code
    Protected,     \* how many of the most recently used are not pruned, 8 in the code
    MaxAborts      \* how many calls are interrupted (a bound of the model)

ASSUME NoneIsOutside == None \notin Cmds \cup Ids
ASSUME CommandSets == Managed \subseteq Cmds /\ Background \subseteq Cmds
ASSUME IdsAreNaturals == Ids \subseteq Nat
ASSUME RecentFitInStore == Protected \in Nat /\ MaxProcesses \in Nat /\ Protected < MaxProcesses
ASSUME BackgroundFits == IsFiniteSet(Background) /\ Cardinality(Background) <= MaxProcesses
ASSUME BoundIsNatural == MaxAborts \in Nat

VARIABLES
    stage,     \* where each exec_command call is
    id,        \* ExecCommandRequest.process_id
    proc,      \* the process: "failed" has a failure_message and has exited
    stream,    \* the task of start_streaming_output
    watcher,   \* the task of spawn_exit_watcher
    guard,     \* processes with a task of terminate_process_on_network_denial
    ends,      \* how many ExecCommandEnd events each command got
    reg,       \* commands registered with the network approval service
    denied,    \* commands whose network cancellation token is cancelled
    store,     \* ProcessStore.processes
    reserved,  \* ProcessStore.reserved_process_ids
    later,     \* the commands with a later last_used, by command
    pruned,    \* the entry a call pruned and has still to clean up
    took,      \* the exited entry a call took out of the store
    write,     \* the write_stdin call
    cleaning,  \* the entries terminate_all_processes drained and has still to stop
    reused,    \* history: an id was given out that a call or an entry still had
    aborts     \* how many calls were interrupted

execVars  == <<stage, id, pruned, took>>
procVars  == <<proc, stream, watcher, guard, ends>>
netVars   == <<reg, denied>>
storeVars == <<store, reserved, later>>
vars == <<execVars, procVars, netVars, storeVars, write, cleaning, reused, aborts>>

(* The stages at which the call of a command holds its process. *)
Holding == {"begin", "storing", "pruning", "waiting", "failing", "finishing"}
Active == {"opening"} \cup Holding
NoWrite == [stage |-> "idle", id |-> None, cmd |-> None, took |-> None]

\* The sets the variables range over.
TypeOK ==
    /\ stage \in [Cmds -> {"idle", "returned", "aborted"} \cup Active]
    /\ id \in [Cmds -> Ids \cup {None}]
    /\ proc \in [Cmds -> {"none", "running", "exited", "failed"}]
    /\ stream \in [Cmds -> {"none", "streaming", "drained"}]
    /\ watcher \in [Cmds -> {"none", "on", "done"}]
    /\ guard \subseteq Managed
    /\ ends \in [Cmds -> Nat]
    /\ reg \subseteq Managed
    /\ denied \subseteq Managed
    /\ store \in [Ids -> Cmds \cup {None}]
    /\ reserved \subseteq Ids
    /\ later \in [Cmds -> SUBSET Cmds]
    /\ pruned \in [Cmds -> Cmds \cup {None}]
    /\ took \in [Cmds -> Cmds \cup {None}]
    /\ write \in [stage : {"idle", "polling", "failing", "finishing"},
                  id : Ids \cup {None}, cmd : Cmds \cup {None}, took : Cmds \cup {None}]
    /\ cleaning \subseteq Cmds
    /\ reused \in BOOLEAN
    /\ aborts \in 0 .. MaxAborts

Init ==
    /\ stage = [c \in Cmds |-> IF c \in Background THEN "returned" ELSE "idle"]
    /\ id = [c \in Cmds |-> None]
    /\ proc = [c \in Cmds |-> IF c \in Background THEN "running" ELSE "none"]
    /\ stream = [c \in Cmds |-> IF c \in Background THEN "streaming" ELSE "none"]
    /\ watcher = [c \in Cmds |-> IF c \in Background THEN "on" ELSE "none"]
    /\ guard = Background \cap Managed
    /\ reg = Background \cap Managed
    /\ denied = {}
    /\ ends = [c \in Cmds |-> 0]
    /\ \E at \in Injection(Background, Ids) :
          /\ \A c \in Background, i \in Ids : i < at[c] => \E d \in Background : at[d] = i
          /\ later = [c \in Cmds |-> {d \in Background : c \in Background /\ at[d] > at[c]}]
          /\ store = [i \in Ids |-> IF \E c \in Background : at[c] = i
                                       THEN CHOOSE c \in Background : at[c] = i ELSE None]
    /\ reserved = {i \in Ids : store[i] # None}
    /\ pruned = [c \in Cmds |-> None]
    /\ took = [c \in Cmds |-> None]
    /\ write = NoWrite
    /\ cleaning = {}
    /\ reused = FALSE
    /\ aborts = 0

-----------------------------------------------------------------------------
Over(c) == proc[c] \in {"exited", "failed"}
Stored == {store[i] : i \in Ids} \ {None}

(* process_started_alive: a command that waits has a watcher iff it was stored. *)
StartedAlive(c) == watcher[c] # "none"

(* Who has an Arc of the process; when the last one goes it is terminated. *)
Held(c) ==
    \/ stage[c] \in Holding
    \/ c \in Stored \cup guard \cup cleaning \cup {write.cmd, write.took}
    \/ watcher[c] = "on"
    \/ \E d \in Cmds : c \in {pruned[d], took[d]}

(* UnifiedExecProcess::terminate and fail_and_terminate of the processes P. *)
Terminated(P) == [c \in Cmds |-> IF c \in P /\ proc[c] = "running" THEN "exited" ELSE proc[c]]
FailedOf(P) == [c \in Cmds |-> IF c \in P THEN "failed" ELSE proc[c]]

(* The order of last_used, kept for entries and for calls about to insert one. *)
Kept == Stored \cup {d \in Cmds : stage[d] = "storing"}
Used(c) == [d \in Cmds |-> IF d \in Kept \ {c} THEN (later[d] \cap Kept) \cup {c} ELSE {}]
LaterUsed(c) == later[c] \cap Stored
Oldest(S) == CHOOSE c \in S : S \ {c} \subseteq later[c]

(* process_id_to_prune_from_meta: an exited process outside the recent ones, *)
(* else a running one, the least recently used first.                         *)
Victim ==
    LET old  == {c \in Stored : Cardinality(LaterUsed(c)) >= Protected}
        dead == {c \in old : Over(c)}
    IN  Oldest(IF dead # {} THEN dead ELSE old)

(* ProcessStore::remove. *)
RemoveId(i) ==
    /\ reserved' = reserved \ {i}
    /\ store' = [store EXCEPT ![i] = None]

-----------------------------------------------------------------------------
(* exec_command.  The handler reserves an id; the lock keeps it out while a  *)
(* write_stdin call runs.                                                      *)
Taken(i) == store[i] # None \/ \E d \in Cmds : id[d] = i

Allocate(c, i) ==
    /\ stage[c] = "idle"
    /\ write = NoWrite
    /\ i \notin reserved
    /\ Taken(i) \/ \A j \in Ids \ reserved : Taken(j) \/ i <= j
    /\ stage' = [stage EXCEPT ![c] = "opening"]
    /\ id' = [id EXCEPT ![c] = i]
    /\ reserved' = reserved \cup {i}
    /\ reused' = (reused \/ Taken(i))
    /\ UNCHANGED <<pruned, took, procVars, netVars, store, later, write, cleaning, aborts>>

(* run_attempt: begin_network_approval registers the command and makes its     *)
(* token before the process is opened.                                         *)
BeginApproval(c) ==
    /\ stage[c] = "opening"
    /\ c \in Managed \ reg
    /\ reg' = reg \cup {c}
    /\ UNCHANGED <<execVars, procVars, denied, storeVars, write, cleaning, reused, aborts>>

(* An attempt that fails ends its registration; the sandbox retry begins anew. *)
AttemptFails(c) ==
    /\ stage[c] = "opening"
    /\ c \in reg
    /\ reg' = reg \ {c}
    /\ denied' = denied \ {c}
    /\ UNCHANGED <<execVars, procVars, storeVars, write, cleaning, reused, aborts>>

(* The handler refuses the command, runs it as a patch, or the process cannot *)
(* be opened: release_process_id.                                              *)
OpenFails(c) ==
    /\ stage[c] = "opening" /\ c \notin reg
    /\ stage' = [stage EXCEPT ![c] = "returned"]
    /\ id' = [id EXCEPT ![c] = None]
    /\ RemoveId(id[c])
    /\ reg' = reg \ {store[id[c]]}
    /\ UNCHANGED <<pruned, took, procVars, denied, later, write, cleaning, reused, aborts>>

(* get_command or intercept_apply_patch fail: the handler returns at once and *)
(* the id stays reserved.                                                      *)
HandlerFails(c) ==
    /\ stage[c] = "opening" /\ c \notin reg
    /\ stage' = [stage EXCEPT ![c] = "returned"]
    /\ id' = [id EXCEPT ![c] = None]
    /\ UNCHANGED <<pruned, took, procVars, netVars, storeVars, write, cleaning, reused, aborts>>

(* The process is open, it can end from now on, and ExecCommandBegin is sent. *)
Mut_Opened(c) ==
    /\ stage[c] = "opening"
    /\ c \in Managed => c \in reg
    /\ stage' = [stage EXCEPT ![c] = "begin"]
    /\ proc' = [proc EXCEPT ![c] = "running"]
    /\ guard' = guard
    /\ UNCHANGED <<id, pruned, took, stream, watcher, ends, netVars, storeVars, write, cleaning, reused, aborts>>

Opened(c) ==
    /\ stage[c] = "opening"
    /\ c \in Managed => c \in reg
    /\ stage' = [stage EXCEPT ![c] = "begin"]
    /\ proc' = [proc EXCEPT ![c] = "running"]
    /\ guard' = guard \cup ({c} \cap Managed)
    /\ UNCHANGED <<id, pruned, took, stream, watcher, ends, netVars, storeVars, write, cleaning, reused, aborts>>

Mut_StartStream(c) ==
    /\ stage[c] = "begin"
    /\ stream' = [stream EXCEPT ![c] = "streaming"]
    /\ later' = Used(c)
    /\ stage' = [stage EXCEPT ![c] = "waiting"]
    /\ UNCHANGED <<id, pruned, took, proc, watcher, guard, ends, netVars, store, reserved, write, cleaning, reused, aborts>>

StartStream(c) ==
    /\ stage[c] = "begin"
    /\ stream' = [stream EXCEPT ![c] = "streaming"]
    /\ later' = Used(c)
    /\ stage' = [stage EXCEPT ![c] = IF proc[c] = "running" THEN "storing" ELSE "waiting"]
    /\ UNCHANGED <<id, pruned, took, proc, watcher, guard, ends, netVars, store, reserved, write, cleaning, reused, aborts>>

(* store_process: prune and insert under the lock; an entry that had the id is *)
(* dropped.  Without a pruned entry the exit watcher starts in the same step.  *)
Mut_Full == Cardinality(Stored) > MaxProcesses
Full == Cardinality(Stored) >= MaxProcesses

Insert(c, victim) ==
    /\ store' = [i \in Ids |-> IF i = id[c] THEN c ELSE IF store[i] = victim THEN None ELSE store[i]]
    /\ reserved' = reserved \ {i \in Ids : store[i] = victim /\ victim # None}

Store(c) ==
    /\ stage[c] = "storing"
    /\ IF Full
          THEN /\ Insert(c, Victim)
               /\ pruned' = [pruned EXCEPT ![c] = Victim]
               /\ stage' = [stage EXCEPT ![c] = "pruning"]
               /\ watcher' = watcher
          ELSE /\ Insert(c, None)
               /\ pruned' = pruned
               /\ stage' = [stage EXCEPT ![c] = "waiting"]
               /\ watcher' = [watcher EXCEPT ![c] = "on"]
    /\ UNCHANGED <<id, took, guard, write, cleaning>>
    /\ proc' = Terminated({d \in Cmds : ~Held(d)'})
    /\ UNCHANGED <<stream, ends, netVars, later, reused, aborts>>

(* Without the lock: unregister and terminate the pruned entry, then watch. *)
Mut_StopPruned(c) ==
    /\ stage[c] = "pruning"
    /\ stage' = [stage EXCEPT ![c] = "waiting"]
    /\ pruned' = [pruned EXCEPT ![c] = None]
    /\ reg' = reg \ {pruned[c]}
    /\ watcher' = [watcher EXCEPT ![c] = "on"]
    /\ UNCHANGED <<id, took, proc, stream, guard, ends, denied, storeVars, write, cleaning, reused, aborts>>

Mut_StopPrunedQuietly(c) ==
    /\ stage[c] = "pruning"
    /\ stage' = [stage EXCEPT ![c] = "waiting"]
    /\ pruned' = [pruned EXCEPT ![c] = None]
    /\ proc' = Terminated({pruned[c]})
    /\ watcher' = [watcher EXCEPT ![c] = "on"]
    /\ UNCHANGED <<id, took, stream, guard, ends, netVars, storeVars, write, cleaning, reused, aborts>>

StopPruned(c) ==
    /\ stage[c] = "pruning"
    /\ stage' = [stage EXCEPT ![c] = "waiting"]
    /\ pruned' = [pruned EXCEPT ![c] = None]
    /\ reg' = reg \ {pruned[c]}
    /\ proc' = Terminated({pruned[c]})
    /\ watcher' = [watcher EXCEPT ![c] = "on"]
    /\ UNCHANGED <<id, took, stream, guard, ends, denied, storeVars, write, cleaning, reused, aborts>>

Stopped(c) == c \in denied \/ proc[c] = "failed"

(* The yield wait is over and the network was denied or the process failed. *)
WaitFails(c) ==
    /\ stage[c] = "waiting"
    /\ Stopped(c)
    /\ stage' = [stage EXCEPT ![c] = "failing"]
    /\ reg' = reg \ {c}
    /\ UNCHANGED <<id, pruned, took, procVars, denied, storeVars, write, cleaning, reused, aborts>>

(* emit_failed_initial_exec_end_if_unstored, then the id is released. *)
Mut_FailReturns(c) ==
    /\ stage[c] = "failing"
    /\ stage' = [stage EXCEPT ![c] = "returned"]
    /\ id' = [id EXCEPT ![c] = None]
    /\ ends' = [ends EXCEPT ![c] = @ + 1]
    /\ RemoveId(id[c])
    /\ reg' = reg \ {store[id[c]]}
    /\ proc' = FailedOf({c})
    /\ UNCHANGED <<pruned, took, stream, watcher, guard, denied, later, write, cleaning, reused, aborts>>

FailReturns(c) ==
    /\ stage[c] = "failing"
    /\ stage' = [stage EXCEPT ![c] = "returned"]
    /\ id' = [id EXCEPT ![c] = None]
    /\ ends' = IF StartedAlive(c) THEN ends ELSE [ends EXCEPT ![c] = @ + 1]
    /\ RemoveId(id[c])
    /\ reg' = reg \ {store[id[c]]}
    /\ proc' = FailedOf({c})
    /\ UNCHANGED <<pruned, took, stream, watcher, guard, denied, later, write, cleaning, reused, aborts>>

(* refresh_process_state after the wait: still alive or unknown, and the call *)
(* returns; or exited, and the call takes the entry out of the store.          *)
WaitReturns(c) ==
    /\ stage[c] = "waiting"
    /\ ~Stopped(c) /\ StartedAlive(c)
    /\ store[id[c]] # None => ~Over(store[id[c]])
    /\ stage' = [stage EXCEPT ![c] = "returned"]
    /\ id' = [id EXCEPT ![c] = None]
    /\ UNCHANGED <<pruned, took, procVars, netVars, storeVars, write, cleaning, reused, aborts>>

WaitExits(c) ==
    /\ stage[c] = "waiting"
    /\ ~Stopped(c)
    /\ stage' = [stage EXCEPT ![c] = "finishing"]
    /\ IF StartedAlive(c)
          THEN /\ store[id[c]] # None /\ Over(store[id[c]])
               /\ took' = [took EXCEPT ![c] = store[id[c]]]
               /\ RemoveId(id[c])
          ELSE UNCHANGED <<took, store, reserved>>
    /\ UNCHANGED <<id, pruned, procVars, netVars, later, write, cleaning, reused, aborts>>

(* After the grace for a late denial the registration ends.  The call of a    *)
(* short-lived command emits its end event itself and releases the id.         *)
Mut_ExitReturns(c) ==
    /\ stage[c] = "finishing"
    /\ stage' = [stage EXCEPT ![c] = "returned"]
    /\ id' = [id EXCEPT ![c] = None]
    /\ took' = [took EXCEPT ![c] = None]
    /\ proc' = IF c \in denied THEN FailedOf({IF StartedAlive(c) THEN took[c] ELSE c}) ELSE proc
    /\ IF StartedAlive(c)
          THEN reg' = reg \ {c} /\ UNCHANGED <<ends, store, reserved>>
          ELSE /\ ends' = IF c \in denied THEN ends ELSE [ends EXCEPT ![c] = @ + 1]
               /\ RemoveId(id[c])
               /\ reg' = reg \ {c, store[id[c]]}
    /\ UNCHANGED <<pruned, stream, watcher, guard, denied, later, write, cleaning, reused, aborts>>

ExitReturns(c) ==
    /\ stage[c] = "finishing"
    /\ stage' = [stage EXCEPT ![c] = "returned"]
    /\ id' = [id EXCEPT ![c] = None]
    /\ took' = [took EXCEPT ![c] = None]
    /\ proc' = IF c \in denied THEN FailedOf({IF StartedAlive(c) THEN took[c] ELSE c}) ELSE proc
    /\ IF StartedAlive(c)
          THEN reg' = reg \ {c} /\ UNCHANGED <<ends, store, reserved>>
          ELSE /\ ends' = [ends EXCEPT ![c] = @ + 1]
               /\ RemoveId(id[c])
               /\ reg' = reg \ {c, store[id[c]]}
    /\ UNCHANGED <<pruned, stream, watcher, guard, denied, later, write, cleaning, reused, aborts>>

(* The turn is interrupted: the future of the call is dropped where it waits. *)
Abort(c) ==
    /\ stage[c] \in Active
    /\ aborts < MaxAborts
    /\ stage' = [stage EXCEPT ![c] = "aborted"]
    /\ id' = [id EXCEPT ![c] = None]
    /\ pruned' = [pruned EXCEPT ![c] = None]
    /\ took' = [took EXCEPT ![c] = None]
    /\ aborts' = aborts + 1
    /\ UNCHANGED <<stream, watcher, guard, ends, netVars, storeVars, write, cleaning, reused>>
    /\ proc' = Terminated({d \in Cmds : ~Held(d)'})

-----------------------------------------------------------------------------
(* write_stdin.  It runs alone, prepare_process_handles finds the process; an *)
(* unknown id is an error that changes nothing.                                *)
WriteStarts(i) ==
    /\ write = NoWrite
    /\ \A c \in Cmds : stage[c] \notin Active
    /\ store[i] # None
    /\ write' = [stage |-> "polling", id |-> i, cmd |-> store[i], took |-> None]
    /\ later' = Used(store[i])
    /\ UNCHANGED <<execVars, procVars, netVars, store, reserved, cleaning, reused, aborts>>

(* The write fails: "notty" has no stdin, "closed" a closed local writer,     *)
(* "gone" a remote process that is gone, "failed" a lost exec server.  An      *)
(* entry that has exited is taken and polled once more.                        *)
WriteFails(kind) ==
    LET i    == write.id
        now  == IF kind = "gone" THEN Terminated({write.cmd}) ELSE proc
        exit == kind # "notty" /\ store[i] # None /\ now[store[i]] \in {"exited", "failed"}
    IN  /\ write.stage = "polling" /\ write.took = None
        /\ IF exit
              THEN /\ write' = [write EXCEPT !.stage = "polling", !.took = store[i]]
                   /\ RemoveId(i)
                   /\ proc' = now /\ reg' = reg
              ELSE /\ write' = NoWrite
                   /\ IF kind = "failed"
                         THEN /\ proc' = Terminated({write.cmd})
                              /\ RemoveId(i)
                              /\ reg' = reg \ {store[i]}
                         ELSE proc' = now /\ UNCHANGED <<store, reserved, reg>>
        /\ UNCHANGED <<execVars, stream, watcher, guard, ends, denied, later, cleaning, reused, aborts>>

PollFails ==
    /\ write.stage = "polling"
    /\ Stopped(write.cmd)
    /\ write' = [write EXCEPT !.stage = "failing"]
    /\ reg' = reg \ {write.cmd}
    /\ UNCHANGED <<execVars, procVars, denied, storeVars, cleaning, reused, aborts>>

FailedPollReturns ==
    /\ write.stage = "failing"
    /\ write' = NoWrite
    /\ RemoveId(write.id)
    /\ reg' = reg \ {store[write.id]}
    /\ proc' = FailedOf({write.cmd})
    /\ UNCHANGED <<execVars, stream, watcher, guard, ends, denied, later, cleaning, reused, aborts>>

PollReturns ==
    /\ write.stage = "polling" /\ write.took = None
    /\ ~Stopped(write.cmd)
    /\ store[write.id] # None => ~Over(store[write.id])
    /\ write' = NoWrite
    /\ UNCHANGED <<execVars, procVars, netVars, storeVars, cleaning, reused, aborts>>

PollExits ==
    LET entry == IF write.took # None THEN write.took ELSE store[write.id]
    IN  /\ write.stage = "polling"
        /\ ~Stopped(write.cmd)
        /\ entry # None /\ Over(entry)
        /\ write' = [write EXCEPT !.stage = "finishing", !.took = entry]
        /\ IF write.took = None THEN RemoveId(write.id) ELSE UNCHANGED <<store, reserved>>
        /\ UNCHANGED <<execVars, procVars, netVars, later, cleaning, reused, aborts>>

ExitedPollReturns ==
    /\ write.stage = "finishing"
    /\ write' = NoWrite
    /\ reg' = reg \ {write.took}
    /\ proc' = IF write.took \in denied THEN FailedOf({write.took}) ELSE proc
    /\ UNCHANGED <<execVars, stream, watcher, guard, ends, denied, storeVars, cleaning, reused, aborts>>

AbortWrite ==
    /\ write # NoWrite
    /\ aborts < MaxAborts
    /\ write' = NoWrite
    /\ aborts' = aborts + 1
    /\ UNCHANGED <<execVars, stream, watcher, guard, ends, netVars, storeVars, cleaning, reused>>
    /\ proc' = Terminated({d \in Cmds : ~Held(d)'})

-----------------------------------------------------------------------------
(* terminate_all_processes: drain the store, then unregister and terminate    *)
(* entry by entry without the lock.                                            *)
Clean ==
    /\ cleaning = {}
    /\ cleaning' = Stored
    /\ store' = [i \in Ids |-> None]
    /\ reserved' = {}
    /\ UNCHANGED <<execVars, procVars, netVars, later, write, reused, aborts>>

CleanStops(c) ==
    /\ c \in cleaning
    /\ cleaning' = cleaning \ {c}
    /\ reg' = reg \ {c}
    /\ proc' = Terminated({c})
    /\ UNCHANGED <<execVars, stream, watcher, guard, ends, denied, storeVars, write, reused, aborts>>

(* The process ends by itself, or its exec server is lost. *)
Exit(c, p) ==
    /\ proc[c] = "running"
    /\ proc' = [proc EXCEPT ![c] = p]
    /\ UNCHANGED <<execVars, stream, watcher, guard, ends, netVars, storeVars, write, cleaning, reused, aborts>>

(* The network approval service denies a request of a registered call. *)
Deny(c) ==
    /\ c \in reg \ denied
    /\ denied' = denied \cup {c}
    /\ UNCHANGED <<execVars, procVars, reg, storeVars, write, cleaning, reused, aborts>>

GuardStops(c) ==
    /\ c \in guard \cap denied
    /\ guard' = guard \ {c}
    /\ reg' = reg \ {c}
    /\ denied' = denied \ {c}
    /\ proc' = FailedOf({c})
    /\ UNCHANGED <<execVars, stream, watcher, ends, storeVars, write, cleaning, reused, aborts>>

(* The process exited and no denial came within the grace period. *)
GuardLeaves(c) ==
    /\ c \in guard \ denied
    /\ Over(c)
    /\ guard' = guard \ {c}
    /\ UNCHANGED <<execVars, proc, stream, watcher, ends, netVars, storeVars, write, cleaning, reused, aborts>>

StreamDrains(c) ==
    /\ stream[c] = "streaming"
    /\ Over(c)
    /\ stream' = [stream EXCEPT ![c] = "drained"]
    /\ UNCHANGED <<execVars, proc, watcher, guard, ends, netVars, storeVars, write, cleaning, reused, aborts>>

WatcherEnds(c) ==
    /\ watcher[c] = "on"
    /\ Over(c) /\ stream[c] = "drained"
    /\ watcher' = [watcher EXCEPT ![c] = "done"]
    /\ ends' = [ends EXCEPT ![c] = @ + 1]
    /\ UNCHANGED <<execVars, proc, stream, guard, netVars, storeVars, write, cleaning, reused, aborts>>

-----------------------------------------------------------------------------
ExecStep(c) ==
    \/ StartStream(c)
    \/ Store(c)
    \/ StopPruned(c)
    \/ WaitFails(c)
    \/ FailReturns(c)
    \/ WaitReturns(c)
    \/ WaitExits(c)
    \/ ExitReturns(c)

ProcessTask(c) == StreamDrains(c) \/ WatcherEnds(c)

Next ==
    \/ \E c \in Cmds, i \in Ids : Allocate(c, i)
    \/ \E c \in Cmds : BeginApproval(c) \/ AttemptFails(c) \/ OpenFails(c) \/ HandlerFails(c) \/ Opened(c)
    \/ \E c \in Cmds : ExecStep(c) \/ Abort(c)
    \/ \E i \in Ids : WriteStarts(i)
    \/ \E kind \in {"notty", "closed", "gone", "failed"} : WriteFails(kind)
    \/ PollFails
    \/ FailedPollReturns
    \/ PollReturns
    \/ PollExits
    \/ ExitedPollReturns
    \/ AbortWrite
    \/ Clean
    \/ \E c \in Cmds : CleanStops(c)
    \/ \E c \in Cmds, p \in {"exited", "failed"} : Exit(c, p)
    \/ \E c \in Cmds : Deny(c) \/ GuardStops(c) \/ GuardLeaves(c)
    \/ \E c \in Cmds : ProcessTask(c)

Spec == Init /\ [][Next]_vars

(* The tasks of a process and a call past its opening are polled by the       *)
(* runtime; the yield wait has a deadline.  Opening may wait for an approval.  *)
FairSpec ==
    /\ Spec
    /\ \A c \in Cmds : WF_vars(ExecStep(c)) /\ WF_vars(ProcessTask(c)) /\ WF_vars(GuardStops(c))

-----------------------------------------------------------------------------
(* A command gets one end event: from its watcher if it was stored, from its  *)
(* call if it was not, whatever stops it and whoever polls it.                 *)
OneEnd == \A c \in Cmds : ends[c] <= 1

(* The store never holds more than MAX_UNIFIED_EXEC_PROCESSES entries, however *)
(* many calls that ran in parallel insert at once.                             *)
StoreIsBounded == Cardinality(Stored) <= MaxProcesses

NoInterrupt == aborts = 0

(* Who will still look after command c: its call, its entry, or whoever took  *)
(* its entry out and has not yet stopped it.                                   *)
LookedAfter(c) ==
    \/ stage[c] \in Active
    \/ c \in Stored \cup cleaning \cup {write.cmd, write.took}
    \/ \E d \in Cmds : stage[d] \in Active /\ c \in {pruned[d], took[d]}

(* Without interrupts, and as long as no id is given out twice, a running     *)
(* process can be polled, pruned and cleaned: none runs on out of the store.   *)
RunningIsReachable ==
    NoInterrupt /\ ~reused => \A c \in Cmds : proc[c] = "running" => LookedAfter(c)

(* Likewise every registration with the network approval service is ended with *)
(* its entry: none is left that would blur whose request the next one is.      *)
RegistrationsEnd ==
    NoInterrupt /\ ~reused => \A c \in reg : LookedAfter(c)

(* An interrupt stops no process whose call got as far as its yield wait, and *)
(* none of another call (Op::Interrupt: "without terminating background        *)
(* terminal processes"), an entry being pruned aside.  The first interrupt     *)
(* spares the process of a call that still prunes too; a later one may find it *)
(* pruned in turn by a call that an interrupt dropped.                         *)
InterruptSparesProcesses ==
    [][~reused => \A c \in Cmds : stage[c] # "aborted" /\ stage'[c] = "aborted" =>
         \A d \in Cmds :
            /\ proc[d] = "running"
            /\ d = c => stage[c] \notin {"begin", "storing"}
            /\ d = c /\ stage[c] = "pruning" => NoInterrupt
            /\ d # pruned[c]
            => proc'[d] = "running"]_vars

(* A command whose process is over gets its end event, unless an interrupt    *)
(* dropped its call before anyone was there to send it.                        *)
EveryCommandEnds ==
    \A c \in Cmds : Over(c) ~> (ends[c] = 1 \/ (stage[c] = "aborted" /\ watcher[c] = "none"))

(* A process whose network access is denied, from its opening to the end of    *)
(* the grace period after its exit, ends as failed: its guard, or the call that *)
(* is still there, sees a denial however late it comes.  Excepted are a call    *)
(* that is interrupted after the guard has left, and an id given out twice.     *)
DenialStopsProcess ==
    \A c \in Cmds :
        c \in denied /\ (proc[c] = "running" \/ c \in guard \/ stage[c] \in Holding)
            ~> proc[c] = "failed" \/ (stage[c] = "aborted" /\ c \notin guard) \/ reused
=============================================================================
