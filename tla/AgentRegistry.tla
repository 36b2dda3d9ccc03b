---------------------------- MODULE AgentRegistry ----------------------------
(***************************************************************************)
(* The registry that limits the sub-agents of a user session: the atomic   *)
(* slot counter, the tree of registered agents, and the operations of      *)
(* AgentControl that use them.  Spawning and resuming hold a               *)
(* SpawnReservation across awaits; closing unloads the thread first and    *)
(* releases its entry and its slot afterwards.  The thread manager is      *)
(* reduced to the set of threads it has loaded.                            *)
(*                                                                         *)
(* Operators called Mut_X are faulty variants of X, the mistakes the       *)
(* properties are meant to catch; no specification here uses them.         *)
(***************************************************************************)
EXTENDS Naturals, FiniteSets

CONSTANTS
    Spawns,       \* bound: calls of spawn_agent_internal and resume_single_agent
    Closes,       \* bound: calls of shutdown_live_agent or of a failed send
    Threads,      \* sub-agent thread ids
    RootThread,   \* the session's root thread
    Paths,        \* agent paths below the root
    RootPath,     \* AgentPath::ROOT
    NoPath,       \* agent_path: None
    NoThread,     \* agent_id: None
    MaxThreads,   \* config.agent_max_threads
    MaxUnloads    \* bound: threads the app server unloads by itself

Absent == "absent"
Reserved == "reserved"

ASSUME ThreadsAssumption == /\ RootThread \notin Threads
                            /\ {Absent, Reserved} \cap (Threads \cup {RootThread}) = {}
                            /\ NoThread \notin Threads \cup {RootThread}
ASSUME PathsAssumption == /\ RootPath \notin Paths /\ NoPath \notin Paths \cup {RootPath}
                          /\ (Paths \cup {RootPath}) \cap Threads = {}
ASSUME SetsAssumption == /\ IsFiniteSet(Spawns) /\ IsFiniteSet(Closes)
                         /\ IsFiniteSet(Threads) /\ IsFiniteSet(Paths)
ASSUME LimitsAssumption == MaxThreads \in Nat /\ MaxUnloads \in Nat

(* Keys of agent_tree: a path, or "thread:{id}" for an agent without one. *)
CountedKeys == Paths \cup Threads
Keys == CountedKeys \cup {RootPath}
Entries == {Absent, Reserved} \cup Threads \cup {RootThread}

VARIABLES
    tree,      \* agent_tree: entry per key
    count,     \* total_count
    loaded,    \* threads the manager holds
    known,     \* threads that were ever created (they have a rollout)
    spawn,     \* per spawn or resume: control state and locals
    close,     \* per close: control state and target
    unloads,   \* unloads left
    lost       \* history: registrations that a commit under the same key replaced

vars == <<tree, count, loaded, known, spawn, close, unloads, lost>>

SpawnPcs == {"idle", "reserve", "prepare", "lookup", "boot", "effects", "commit", "drop",
             "dropCount", "done"}
SpawnStates == [pc : SpawnPcs, thread : Threads \cup {NoThread}, path : Paths \cup {NoPath}]
CloseStates == [pc : {"idle", "unload", "release", "sub", "done"},
                thread : Threads \cup {RootThread, NoThread}]

\* Type correctness: every variable stays within the states the code can represent; the counter is
\* a natural number, so no decrement of the code takes it below zero.
TypeOK ==
    /\ tree \in [Keys -> Entries]
    /\ count \in Nat
    /\ loaded \in SUBSET Threads
    /\ known \in SUBSET Threads
    /\ spawn \in [Spawns -> SpawnStates]
    /\ close \in [Closes -> CloseStates]
    /\ unloads \in Nat
    /\ lost \in Nat

Init ==
    /\ tree = [k \in Keys |-> Absent]
    /\ count = 0
    /\ loaded = {}
    /\ known = {}
    /\ spawn = [s \in Spawns |-> [pc |-> "idle", thread |-> NoThread, path |-> NoPath]]
    /\ close = [c \in Closes |-> [pc |-> "idle", thread |-> NoThread]]
    /\ unloads = MaxUnloads
    /\ lost = 0

-------------------------------------------------------------------------------
(* spawn_agent_internal and resume_single_agent_from_rollout *)

SpawnGoto(s, p) == spawn' = [spawn EXCEPT ![s].pc = p]
SpawnSet(s, p, t, path) ==
    spawn' = [spawn EXCEPT ![s] = [pc |-> p, thread |-> t, path |-> path]]

(* A new agent, with or without a path. *)
StartSpawn(s) ==
    /\ spawn[s].pc = "idle"
    /\ \E p \in Paths \cup {NoPath} : SpawnSet(s, "reserve", NoThread, p)
    /\ UNCHANGED <<tree, count, loaded, known, close, unloads, lost>>

(* resume_agent: the tool checks that the thread is not loaded, then resumes it. *)
StartResume(s) ==
    /\ spawn[s].pc = "idle"
    /\ \E t \in known \ loaded : SpawnSet(s, "reserve", t, NoPath)
    /\ UNCHANGED <<tree, count, loaded, known, close, unloads, lost>>

(* reserve_spawn_slot: the compare-exchange loop is one atomic test and increment. *)
Mut_BelowLimit == count <= MaxThreads
BelowLimit == count < MaxThreads

ReserveSlot(s) ==
    /\ spawn[s].pc = "reserve"
    /\ \/ /\ BelowLimit
          /\ count' = count + 1
          /\ SpawnGoto(s, "prepare")
       \/ /\ ~BelowLimit
          /\ SpawnGoto(s, "done")
          /\ UNCHANGED count
    /\ UNCHANGED <<tree, loaded, known, close, unloads, lost>>

(***************************************************************************)
(* prepare_thread_spawn: a child of the root makes sure the root has its   *)
(* entry; then the path is reserved.  A path that is taken ends the call,  *)
(* and the reservation it drops does not own that path.                    *)
(***************************************************************************)
Mut_Free(p) == tree[p] \in {Absent, Reserved}
Free(p) == tree[p] = Absent

WithRoot(tr) == [tr EXCEPT ![RootPath] = IF @ = Absent THEN RootThread ELSE @]

Prepare(s) ==
    /\ spawn[s].pc = "prepare"
    /\ \E tr \in {tree, WithRoot(tree)} :
       LET p == spawn[s].path
       IN \/ /\ p = NoPath
             /\ tree' = tr
             /\ SpawnGoto(s, "lookup")
          \/ /\ p # NoPath
             /\ Free(p)
             /\ tree' = [tr EXCEPT ![p] = Reserved]
             /\ SpawnGoto(s, "lookup")
          \/ /\ p # NoPath
             /\ ~Free(p)
             /\ tree' = tr
             /\ SpawnSet(s, "drop", spawn[s].thread, NoPath)
    /\ UNCHANGED <<count, loaded, known, close, unloads, lost>>

(***************************************************************************)
(* An await or a step of the call returns an error, or the tool call is    *)
(* aborted and its future dropped at an await.  Before prepare_thread_spawn*)
(* the reservation owns no path.                                           *)
(***************************************************************************)
SpawnFails(s) ==
    /\ spawn[s].pc \in {"prepare", "lookup", "boot", "effects"}
    /\ SpawnSet(s, "drop", spawn[s].thread,
                IF spawn[s].pc = "prepare" THEN NoPath ELSE spawn[s].path)
    /\ UNCHANGED <<tree, count, loaded, known, close, unloads, lost>>

(* A new thread gets a fresh id and is loaded. *)
CreateThread(s) ==
    /\ spawn[s].pc = "lookup"
    /\ spawn[s].thread = NoThread
    /\ \E t \in Threads \ known :
          /\ known' = known \cup {t}
          /\ loaded' = loaded \cup {t}
          /\ SpawnSet(s, "commit", t, spawn[s].path)
    /\ UNCHANGED <<tree, count, close, unloads, lost>>

(***************************************************************************)
(* spawn_thread_with_source for a resumed thread: a loaded one that runs   *)
(* is returned as it is, one that has ended is removed and started anew.   *)
(***************************************************************************)
LookUpThread(s) ==
    /\ spawn[s].pc = "lookup"
    /\ spawn[s].thread # NoThread
    /\ \/ /\ spawn[s].thread \in loaded
          /\ SpawnGoto(s, "commit")
          /\ UNCHANGED loaded
       \/ /\ loaded' = loaded \ {spawn[s].thread}
          /\ SpawnGoto(s, "boot")
    /\ UNCHANGED <<tree, count, known, close, unloads, lost>>

(* finalize_thread_spawn: the first to arrive loads the thread, a second one is an error. *)
FinalizeThread(s) ==
    /\ spawn[s].pc = "boot"
    /\ \/ /\ spawn[s].thread \notin loaded
          /\ loaded' = loaded \cup {spawn[s].thread}
          /\ SpawnGoto(s, "effects")
       \/ /\ spawn[s].thread \in loaded
          /\ SpawnGoto(s, "drop")
          /\ UNCHANGED loaded
    /\ UNCHANGED <<tree, count, known, close, unloads, lost>>

(* The goal effects of a resumed thread are awaited while it is loaded but not committed. *)
ResumeEffects(s) ==
    /\ spawn[s].pc = "effects"
    /\ SpawnGoto(s, "commit")
    /\ UNCHANGED <<tree, count, loaded, known, close, unloads, lost>>

(***************************************************************************)
(* SpawnReservation::commit: the entry is written whatever was there.  The *)
(* slot of an agent it replaces is not given back; lost counts those.      *)
(***************************************************************************)
Registered == {k \in CountedKeys : tree[k] \in Threads \cup {RootThread}}
KeyOf(s) == IF spawn[s].path # NoPath THEN spawn[s].path ELSE spawn[s].thread

Commit(s) ==
    /\ spawn[s].pc = "commit"
    /\ tree' = [tree EXCEPT ![KeyOf(s)] = spawn[s].thread]
    /\ lost' = IF KeyOf(s) \in Registered THEN lost + 1 ELSE lost
    /\ SpawnSet(s, "done", spawn[s].thread, NoPath)
    /\ UNCHANGED <<count, loaded, known, close, unloads>>

(* Drop of an active reservation: give back the path if nobody committed it, ... *)
DropPath(s) ==
    /\ spawn[s].pc = "drop"
    /\ tree' = [k \in Keys |-> IF k = spawn[s].path /\ tree[k] = Reserved THEN Absent
                               ELSE tree[k]]
    /\ SpawnSet(s, "dropCount", spawn[s].thread, NoPath)
    /\ UNCHANGED <<count, loaded, known, close, unloads, lost>>

(* ... then the slot. *)
DropCount(s) ==
    /\ spawn[s].pc = "dropCount"
    /\ count' = count - 1
    /\ SpawnGoto(s, "done")
    /\ UNCHANGED <<tree, loaded, known, close, unloads, lost>>

-------------------------------------------------------------------------------
(* shutdown_live_agent, and handle_thread_request_result for an agent that died *)

StartClose(c) ==
    /\ close[c].pc = "idle"
    /\ \E t \in known \cup {RootThread} :
          close' = [close EXCEPT ![c] = [pc |-> "unload", thread |-> t]]
    /\ UNCHANGED <<tree, count, loaded, known, spawn, unloads, lost>>

(* The thread has terminated; remove_thread *)
Unload(c) ==
    /\ close[c].pc = "unload"
    /\ loaded' = loaded \ {close[c].thread}
    /\ close' = [close EXCEPT ![c].pc = "release"]
    /\ UNCHANGED <<tree, count, known, spawn, unloads, lost>>

(* release_spawned_thread under the lock: one entry with this id, in hash order. *)
Mut_Counted(k) == TRUE
Counted(k) == k # RootPath

Release(c) ==
    /\ close[c].pc = "release"
    /\ \/ /\ \A k \in Keys : tree[k] # close[c].thread
          /\ close' = [close EXCEPT ![c].pc = "done"]
          /\ UNCHANGED tree
       \/ \E k \in Keys :
          /\ tree[k] = close[c].thread
          /\ tree' = [tree EXCEPT ![k] = Absent]
          /\ close' = [close EXCEPT ![c].pc = IF Counted(k) THEN "sub" ELSE "done"]
    /\ UNCHANGED <<count, loaded, known, spawn, unloads, lost>>

(* ... and after the unlock the slot. *)
ReleaseCount(c) ==
    /\ close[c].pc = "sub"
    /\ count' = count - 1
    /\ close' = [close EXCEPT ![c].pc = "done"]
    /\ UNCHANGED <<tree, loaded, known, spawn, unloads, lost>>

(* The app server unloads an idle or archived thread without telling the registry. *)
UnloadIdle ==
    /\ unloads > 0
    /\ unloads' = unloads - 1
    /\ \E t \in loaded : loaded' = loaded \ {t}
    /\ UNCHANGED <<tree, count, known, spawn, close, lost>>

-------------------------------------------------------------------------------
SpawnStep(s) ==
    \/ StartSpawn(s) \/ StartResume(s) \/ ReserveSlot(s) \/ Prepare(s) \/ SpawnFails(s)
    \/ CreateThread(s) \/ LookUpThread(s) \/ FinalizeThread(s) \/ ResumeEffects(s)
    \/ Commit(s) \/ DropPath(s) \/ DropCount(s)
CloseStep(c) == StartClose(c) \/ Unload(c) \/ Release(c) \/ ReleaseCount(c)

Next ==
    \/ \E s \in Spawns : SpawnStep(s)
    \/ \E c \in Closes : CloseStep(c)
    \/ UnloadIdle

Spec == Init /\ [][Next]_vars

-------------------------------------------------------------------------------
Holding == {s \in Spawns : spawn[s].pc \in {"prepare", "lookup", "boot", "effects", "commit",
                                            "drop", "dropCount"}}
Releasing == {c \in Closes : close[c].pc = "sub"}

(***************************************************************************)
(* The counter is exactly the registered agents, the reservations in       *)
(* flight, the slots about to be given back and the registrations replaced *)
(* under their key, and it stays within the limit: however spawns, resumes,*)
(* failures and closes interleave, the session never has more than         *)
(* agent_max_threads registered agents, and no slot leaks but to a resume  *)
(* of an agent that is still registered.                                   *)
(* About reserve_spawn_slot, commit, Drop and release_spawned_thread.      *)
(***************************************************************************)
CountCoversAgents ==
    /\ count = Cardinality(Registered) + Cardinality(Holding) + Cardinality(Releasing) + lost
    /\ count <= MaxThreads

(* The reservation of s holds a path it has not given back. *)
OwnsPath(s) == 
    spawn[s].path # NoPath /\ spawn[s].pc \in {"lookup", "boot", "effects", "commit", "drop"}

(***************************************************************************)
(* A path reserved by a spawn in flight is that spawn's alone until it     *)
(* commits or gives up: no other spawn holds it, and no close or drop of   *)
(* another call frees it.  About reserve_agent_path against Drop.          *)
(***************************************************************************)
PathsAreExclusive ==
    \A s \in Spawns : OwnsPath(s) =>
        /\ tree[spawn[s].path] = Reserved
        /\ \A r \in Spawns \ {s} : OwnsPath(r) => spawn[r].path # spawn[s].path
===============================================================================
