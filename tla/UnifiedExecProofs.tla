-------------------------- MODULE UnifiedExecProofs --------------------------
(***************************************************************************)
(* Proofs about the background terminals, for any number of commands, ids  *)
(* and interrupts and any size of the store.  IInv is the inductive        *)
(* invariant: what the stage of a call says of its process, who emits the  *)
(* end of a command, the order of last_used, the bound of the store, and,  *)
(* while no id is given out twice, that an id leads to one command and a   *)
(* running process or a registration to someone who will end it.           *)
(***************************************************************************)
EXTENDS UnifiedExec, FiniteSetTheorems, WellFoundedInduction, TLAPS

(* The stages before a process is stored. *)
Early == {"idle", "opening", "begin", "storing"}

(* What a stage says of the process, the watcher, the id and the entries the   *)
(* call took out, and what the store and the write_stdin call can refer to.    *)
StagesOK ==
    /\ \A c \in Cmds :
         /\ stage[c] \in {"idle", "opening"} => proc[c] = "none"
         /\ stage[c] \in {"begin", "storing"} => proc[c] # "none"
         /\ stage[c] \in Early \cup {"pruning"} => watcher[c] = "none"
         /\ stage[c] \in Active <=> id[c] # None
         /\ pruned[c] # None => stage[c] = "pruning"
         /\ took[c] # None => stage[c] = "finishing" /\ Over(took[c])
         /\ watcher[c] = "none" /\ stage[c] \in {"waiting", "failing", "finishing"} => proc[c] # "running"
         /\ write # NoWrite => stage[c] \notin Active
         /\ watcher[c] = "done" => Over(c)
         /\ c \in guard => proc[c] # "none"
    /\ \A i \in Ids : store[i] # None => proc[store[i]] # "none" /\ stage[store[i]] \notin Early
    /\ write # NoWrite => write.id \in Ids /\ write.cmd \in Cmds /\ proc[write.cmd] # "none"
    /\ write.took # None => Over(write.took)
    /\ write.stage = "idle" => write = NoWrite

(* An end event comes from the watcher, or from the call that returned and     *)
(* never had one.                                                              *)
EndsOK ==
    \A c \in Cmds :
        /\ ends[c] <= 1
        /\ ends[c] = 1 => watcher[c] = "done" \/ (watcher[c] = "none" /\ stage[c] = "returned")

(* later is a strict total order of the entries and the calls about to insert. *)
OrderOK ==
    /\ \A c \in Kept : c \notin later[c]
    /\ \A c, d \in Kept : c # d => c \in later[d] \/ d \in later[c]
    /\ \A c, d, e \in Kept : d \in later[c] /\ e \in later[d] => e \in later[c]

(* The bound of the store, and that its cardinality means something. *)
BoundOK == IsFiniteSet(Stored) /\ StoreIsBounded

(* No id is given out twice: an id belongs to one call, an entry is that of    *)
(* the call with its id, a command has one entry, and a poll finds its own.    *)
IdsOK ==
    ~reused =>
        /\ \A c, d \in Cmds : id[c] # None /\ id[c] = id[d] => c = d
        /\ \A c \in Cmds : id[c] # None => store[id[c]] \in {None, c}
        /\ \A i, j \in Ids : store[i] # None /\ store[i] = store[j] => i = j
        /\ write # NoWrite => store[write.id] \in {None, write.cmd}
        /\ write.took \in {None, write.cmd}
        /\ \A c \in Cmds : took[c] \in {None, c}

(* A call took the entry of c out and has still to stop it. *)
Pruning(c) == \E d \in Cmds : pruned[d] = c

(* Who holds a running process, its call past the insertion aside. *)
HeldOK ==
    ~reused => \A c \in Cmds : proc[c] = "running" =>
        \/ stage[c] \in {"begin", "storing", "pruning"}
        \/ watcher[c] = "on"
        \/ c \in Stored \cup cleaning \cup guard
        \/ Pruning(c)

(* Without interrupts it is in the store, or on its way in or out. *)
ReachOK ==
    NoInterrupt /\ ~reused => \A c \in Cmds : proc[c] = "running" =>
        \/ stage[c] \in {"begin", "storing"}
        \/ c \in Stored \cup cleaning
        \/ Pruning(c)

(* Without interrupts a registered command is too, or its call or a poll that  *)
(* took its entry has still to unregister it.                                  *)
RegOK ==
    NoInterrupt /\ ~reused => \A c \in reg :
        /\ stage[c] # "failing"
        /\ write.stage = "failing" => c # write.cmd
        /\ \/ stage[c] \in {"opening", "begin", "storing"}
           \/ stage[c] \in {"waiting", "finishing"} /\ watcher[c] = "none"
           \/ c \in Stored \cup cleaning
           \/ Pruning(c)
           \/ took[c] = c
           \/ write.took = c

IInv == TypeOK /\ StagesOK /\ EndsOK /\ OrderOK /\ BoundOK /\ IdsOK /\ HeldOK /\ ReachOK /\ RegOK

-----------------------------------------------------------------------------
(* The entry to prune. *)

\* Of a finite set of entries one was used before all the others.
LEMMA OldestExists ==
    ASSUME OrderOK, NEW S, S \subseteq Stored, S # {}, IsFiniteSet(S)
    PROVE  \E c \in S : S \ {c} \subseteq later[c]
<1> DEFINE Before(c) == S \ later[c]
           T == {Before(c) : c \in S}
<1>1. \A c, d, e \in S : /\ c \notin later[c]
                         /\ c # d => c \in later[d] \/ d \in later[c]
                         /\ d \in later[c] /\ e \in later[d] => e \in later[c]
  BY DEF OrderOK, Kept
<1>2. IsWellFoundedOn(StrictSubsetOrdering(S), SUBSET S)
  BY FS_StrictSubsetOrderingWellFounded, FS_FiniteSubsetsOfFinite
<1>3. T \subseteq SUBSET S /\ T # {}
  OBVIOUS
<1>4. PICK B \in T : \A C \in T : <<C, B>> \notin StrictSubsetOrdering(S)
  BY <1>2, <1>3, WFMin
<1>5. PICK c \in S : B = Before(c)
  OBVIOUS
<1>6. ASSUME NEW d \in S, d # c, d \notin later[c]
      PROVE  FALSE
  <2>1. c \in later[d]
    BY <1>1, <1>6
  <2>2. Before(d) \subseteq Before(c)
    BY <1>1, <2>1
  <2>3. c \in Before(c) /\ c \notin Before(d)
    BY <1>1, <2>1
  <2>4. Before(d) \in SUBSET S /\ Before(c) \in SUBSET S /\ Before(d) # Before(c) /\ Before(d) \in T
    BY <2>3
  <2> HIDE DEF Before, T
  <2>5. <<Before(d), Before(c)>> \in StrictSubsetOrdering(S)
    BY <2>2, <2>4 DEF StrictSubsetOrdering
  <2> QED BY <1>4, <1>5, <2>4, <2>5
<1> QED BY <1>6

(* A full store has an entry outside the protected ones, because they are      *)
(* fewer than it holds: process_id_to_prune_from_meta finds one.               *)
LEMMA VictimIsStored ==
    ASSUME OrderOK, IsFiniteSet(Stored), Full
    PROVE  Victim \in Stored
<1> DEFINE old  == {c \in Stored : Cardinality(LaterUsed(c)) >= Protected}
           dead == {c \in old : Over(c)}
           S    == IF dead # {} THEN dead ELSE old
<1>1. Cardinality(Stored) \in Nat /\ Cardinality(Stored) >= MaxProcesses /\ Stored # {}
  BY FS_CardinalityType, FS_EmptySet, RecentFitInStore DEF Full
<1>2. PICK c \in Stored : Stored \ {c} \subseteq later[c]
  BY <1>1, OldestExists
<1>3. LaterUsed(c) = Stored \ {c}
  BY <1>2 DEF LaterUsed, OrderOK, Kept
<1>4. Cardinality(LaterUsed(c)) = Cardinality(Stored) - 1
  BY <1>3, FS_RemoveElement
<1>5. c \in old
  BY <1>1, <1>4, RecentFitInStore
<1>6. S # {} /\ S \subseteq Stored
  BY <1>5
<1>7. IsFiniteSet(S)
  BY <1>6, FS_Subset
<1>8. \E d \in S : S \ {d} \subseteq later[d]
  <2> HIDE DEF S
  <2> QED BY <1>6, <1>7, OldestExists
<1>9. Oldest(S) \in S
  BY <1>8 DEF Oldest
<1>10. Victim = Oldest(S)
  BY DEF Victim
<1> QED BY <1>6, <1>9, <1>10

-----------------------------------------------------------------------------
(* What the two longest handlers can do. *)

\* A write that fails takes the exited entry, releases the id of a lost one, or
\* leaves the store alone; at most the polled process is terminated.
LEMMA WriteFailsForm ==
    ASSUME TypeOK, StagesOK,
           NEW k \in {"notty", "closed", "gone", "failed"}, WriteFails(k)
    PROVE  /\ write.id \in Ids /\ write.cmd \in Cmds /\ write # NoWrite /\ write.took = None
           /\ proc' = proc \/ proc' = Terminated({write.cmd})
           /\ \/ /\ store[write.id] \in Cmds
                 /\ write' = [stage |-> "polling", id |-> write.id, cmd |-> write.cmd, took |-> store[write.id]]
                 /\ RemoveId(write.id) /\ reg' = reg
                 /\ proc'[store[write.id]] \in {"exited", "failed"}
              \/ /\ write' = NoWrite
                 /\ RemoveId(write.id) /\ reg' = reg \ {store[write.id]}
                 /\ proc' = Terminated({write.cmd})
              \/ write' = NoWrite /\ UNCHANGED <<store, reserved, reg>>
           /\ UNCHANGED <<execVars, stream, watcher, guard, ends, denied, later, cleaning, reused, aborts>>
<1> DEFINE i    == write.id
           now  == IF k = "gone" THEN Terminated({write.cmd}) ELSE proc
           exit == k # "notty" /\ store[i] # None /\ now[store[i]] \in {"exited", "failed"}
<1>0. write.stage = "polling" /\ write.took = None /\ write # NoWrite
  BY DEF WriteFails, NoWrite
<1>1. write.id \in Ids /\ write.cmd \in Cmds
  BY <1>0 DEF StagesOK
<1>2. now = proc \/ now = Terminated({write.cmd})
  OBVIOUS
<1>3. CASE exit
  <2>1. store[i] \in Cmds
    BY <1>1, <1>3 DEF TypeOK
  <2>2. write' = [write EXCEPT !.stage = "polling", !.took = store[i]] /\ RemoveId(i) /\ proc' = now /\ reg' = reg
    BY <1>3 DEF WriteFails
  <2>3. write' = [stage |-> "polling", id |-> write.id, cmd |-> write.cmd, took |-> store[write.id]]
    BY <2>2 DEF TypeOK
  <2>4. proc'[store[write.id]] \in {"exited", "failed"}
    BY <1>3, <2>2
  <2>5. UNCHANGED <<execVars, stream, watcher, guard, ends, denied, later, cleaning, reused, aborts>>
    BY DEF WriteFails
  <2> QED BY <1>0, <1>1, <1>2, <2>1, <2>2, <2>3, <2>4, <2>5
<1>4. CASE ~exit
  BY <1>0, <1>1, <1>4 DEF WriteFails
<1> QED BY <1>3, <1>4

\* An insertion prunes nothing or an entry of the store.
LEMMA StoreForm ==
    ASSUME TypeOK, OrderOK, BoundOK, NEW c \in Cmds, Store(c)
    PROVE  \E v \in Stored \cup {None} :
              /\ Insert(c, v)
              /\ \/ /\ ~Full /\ v = None
                    /\ pruned' = pruned
                    /\ stage' = [stage EXCEPT ![c] = "waiting"]
                    /\ watcher' = [watcher EXCEPT ![c] = "on"]
                 \/ /\ Full /\ v \in Stored
                    /\ pruned' = [pruned EXCEPT ![c] = v]
                    /\ stage' = [stage EXCEPT ![c] = "pruning"]
                    /\ watcher' = watcher
<1>1. CASE Full
  <2>1. Victim \in Stored
    BY <1>1, VictimIsStored DEF BoundOK
  <2> QED BY <1>1, <2>1 DEF Store
<1>2. CASE ~Full
  BY <1>2 DEF Store
<1> QED BY <1>1, <1>2

-----------------------------------------------------------------------------
(* Every step keeps every part of the invariant. *)

\* The variables stay in their sets; a pruned entry is one of the store.
LEMMA TypeStep ==
    ASSUME IInv, [Next]_vars
    PROVE  TypeOK'
<1> USE NoneIsOutside, CommandSets, BoundIsNatural DEF IInv, TypeOK, NoWrite,
        RemoveId, Terminated, FailedOf, Holding, Active, Used, Insert, Stored,
        StagesOK, execVars, procVars, netVars, storeVars
<1>1. ASSUME NEW c \in Cmds, NEW i \in Ids, Allocate(c, i) PROVE TypeOK'
  BY <1>1 DEF Allocate
<1>2. ASSUME NEW c \in Cmds, OpenFails(c) PROVE TypeOK'
  BY <1>2 DEF OpenFails
<1>3. ASSUME NEW c \in Cmds, HandlerFails(c) PROVE TypeOK'
  BY <1>3 DEF HandlerFails
<1>4. ASSUME NEW c \in Cmds, Opened(c) PROVE TypeOK'
  BY <1>4 DEF Opened
<1>32. ASSUME NEW c \in Cmds, BeginApproval(c) \/ AttemptFails(c) PROVE TypeOK'
  BY <1>32 DEF BeginApproval, AttemptFails
<1>5. ASSUME NEW c \in Cmds, StartStream(c) PROVE TypeOK'
  BY <1>5 DEF StartStream
<1>6. ASSUME NEW c \in Cmds, Store(c) PROVE TypeOK'
  <2> HIDE DEF TypeOK, StagesOK, OrderOK, BoundOK, Insert, Stored
  <2>1. PICK v \in Stored \cup {None} :
           /\ Insert(c, v)
           /\ \/ /\ ~Full /\ v = None
                 /\ pruned' = pruned
                 /\ stage' = [stage EXCEPT ![c] = "waiting"]
                 /\ watcher' = [watcher EXCEPT ![c] = "on"]
              \/ /\ Full /\ v \in Stored
                 /\ pruned' = [pruned EXCEPT ![c] = v]
                 /\ stage' = [stage EXCEPT ![c] = "pruning"]
                 /\ watcher' = watcher
    BY <1>6, StoreForm
  <2> USE DEF TypeOK, Insert, Stored
  <2>2. v \in Cmds \cup {None}
    BY <2>1
  <2>3. store' \in [Ids -> Cmds \cup {None}] /\ reserved' \subseteq Ids
    BY <2>1
  <2>4. proc' = Terminated({d \in Cmds : ~Held(d)'})
    BY <1>6 DEF Store
  <2>5. proc' \in [Cmds -> {"none", "running", "exited", "failed"}]
    BY <2>4
  <2> QED BY <1>6, <2>1, <2>2, <2>3, <2>5 DEF Store
<1>7. ASSUME NEW c \in Cmds, StopPruned(c) PROVE TypeOK'
  BY <1>7 DEF StopPruned
<1>8. ASSUME NEW c \in Cmds, WaitFails(c) PROVE TypeOK'
  BY <1>8 DEF WaitFails
<1>9. ASSUME NEW c \in Cmds, FailReturns(c) PROVE TypeOK'
  BY <1>9 DEF FailReturns
<1>10. ASSUME NEW c \in Cmds, WaitReturns(c) PROVE TypeOK'
  BY <1>10 DEF WaitReturns
<1>11. ASSUME NEW c \in Cmds, WaitExits(c) PROVE TypeOK'
  BY <1>11 DEF WaitExits
<1>12. ASSUME NEW c \in Cmds, ExitReturns(c) PROVE TypeOK'
  BY <1>12 DEF ExitReturns
<1>13. ASSUME NEW c \in Cmds, Abort(c) PROVE TypeOK'
  BY <1>13 DEF Abort
<1>14. ASSUME NEW i \in Ids, WriteStarts(i) PROVE TypeOK'
  BY <1>14 DEF WriteStarts
<1>15. ASSUME NEW k \in {"notty", "closed", "gone", "failed"}, WriteFails(k) PROVE TypeOK'
  <2> HIDE DEF StagesOK, TypeOK
  <2>1. TypeOK /\ StagesOK
    OBVIOUS
  <2> USE DEF StagesOK, TypeOK
  <2> QED BY <1>15, <2>1, WriteFailsForm
<1>16. ASSUME PollFails PROVE TypeOK'
  BY <1>16 DEF PollFails
<1>17. ASSUME FailedPollReturns PROVE TypeOK'
  BY <1>17 DEF FailedPollReturns
<1>18. ASSUME PollReturns PROVE TypeOK'
  BY <1>18 DEF PollReturns
<1>19. ASSUME PollExits PROVE TypeOK'
  <2>1. write' = [stage |-> "finishing", id |-> write.id, cmd |-> write.cmd,
                   took |-> IF write.took # None THEN write.took ELSE store[write.id]]
    BY <1>19 DEF PollExits
  <2>2. write.id \in Ids
    BY <1>19 DEF PollExits
  <2>3. CASE write.took = None
    BY <1>19, <2>1, <2>2, <2>3 DEF PollExits
  <2>4. CASE write.took # None
    <3>1. write.took \in Cmds
      BY <2>4
    <3>2. UNCHANGED <<store, reserved>>
      BY <1>19, <2>4 DEF PollExits
    <3>3. write' \in [stage : {"idle", "polling", "failing", "finishing"}, id : Ids \cup {None},
                      cmd : Cmds \cup {None}, took : Cmds \cup {None}]
      BY <2>1, <2>2, <2>4
    <3> QED BY <1>19, <3>2, <3>3 DEF PollExits
  <2> QED BY <2>3, <2>4
<1>20. ASSUME ExitedPollReturns PROVE TypeOK'
  BY <1>20 DEF ExitedPollReturns
<1>21. ASSUME AbortWrite PROVE TypeOK'
  BY <1>21 DEF AbortWrite
<1>22. ASSUME Clean PROVE TypeOK'
  BY <1>22 DEF Clean
<1>23. ASSUME NEW c \in Cmds, CleanStops(c) PROVE TypeOK'
  BY <1>23 DEF CleanStops
<1>24. ASSUME NEW c \in Cmds, NEW p \in {"exited", "failed"}, Exit(c, p) PROVE TypeOK'
  BY <1>24 DEF Exit
<1>25. ASSUME NEW c \in Cmds, Deny(c) PROVE TypeOK'
  BY <1>25 DEF Deny
<1>26. ASSUME NEW c \in Cmds, GuardStops(c) PROVE TypeOK'
  BY <1>26 DEF GuardStops
<1>27. ASSUME NEW c \in Cmds, GuardLeaves(c) PROVE TypeOK'
  BY <1>27 DEF GuardLeaves
<1>28. ASSUME NEW c \in Cmds, StreamDrains(c) PROVE TypeOK'
  BY <1>28 DEF StreamDrains
<1>29. ASSUME NEW c \in Cmds, WatcherEnds(c) PROVE TypeOK'
  BY <1>29 DEF WatcherEnds
<1>30. CASE UNCHANGED vars
  BY <1>30 DEF vars
<1> HIDE DEF IInv, TypeOK, NoWrite, RemoveId, Terminated, FailedOf, Holding, Active,
        Used, Insert, Stored, StagesOK
<1> QED BY <1>1, <1>2, <1>3, <1>4, <1>5, <1>6, <1>7, <1>8, <1>9, <1>10,
           <1>11, <1>12, <1>13, <1>14, <1>15, <1>16, <1>17, <1>18, <1>19,
           <1>20, <1>21, <1>22, <1>23, <1>24, <1>25, <1>26, <1>27, <1>28,
           <1>29, <1>30, <1>32
         DEF Next, ExecStep, ProcessTask

\* How far a call is fixes what its process, its watcher, its id and the
\* entries it took can be.
LEMMA StagesStep ==
    ASSUME IInv, [Next]_vars
    PROVE  StagesOK'
<1> USE NoneIsOutside, CommandSets, BoundIsNatural DEF IInv, TypeOK, StagesOK,
        Early, Active, Holding, NoWrite, RemoveId, Terminated, FailedOf, Over,
        Insert, execVars, procVars, netVars, storeVars
<1>1. ASSUME NEW c \in Cmds, NEW i \in Ids, Allocate(c, i) PROVE StagesOK'
  BY <1>1 DEF Allocate
<1>2. ASSUME NEW c \in Cmds, OpenFails(c) PROVE StagesOK'
  BY <1>2 DEF OpenFails
<1>3. ASSUME NEW c \in Cmds, HandlerFails(c) PROVE StagesOK'
  BY <1>3 DEF HandlerFails
<1>4. ASSUME NEW c \in Cmds, Opened(c) PROVE StagesOK'
  BY <1>4 DEF Opened
<1>32. ASSUME NEW c \in Cmds, BeginApproval(c) \/ AttemptFails(c) PROVE StagesOK'
  BY <1>32 DEF BeginApproval, AttemptFails
<1>5. ASSUME NEW c \in Cmds, StartStream(c) PROVE StagesOK'
  BY <1>5 DEF StartStream
<1>6. ASSUME NEW c \in Cmds, Store(c) PROVE StagesOK'
  BY <1>6 DEF Store
<1>7. ASSUME NEW c \in Cmds, StopPruned(c) PROVE StagesOK'
  BY <1>7 DEF StopPruned
<1>8. ASSUME NEW c \in Cmds, WaitFails(c) PROVE StagesOK'
  BY <1>8 DEF WaitFails
<1>9. ASSUME NEW c \in Cmds, FailReturns(c) PROVE StagesOK'
  BY <1>9 DEF FailReturns
<1>10. ASSUME NEW c \in Cmds, WaitReturns(c) PROVE StagesOK'
  BY <1>10 DEF WaitReturns
<1>11. ASSUME NEW c \in Cmds, WaitExits(c) PROVE StagesOK'
  BY <1>11 DEF WaitExits
<1>12. ASSUME NEW c \in Cmds, ExitReturns(c) PROVE StagesOK'
  BY <1>12 DEF ExitReturns
<1>13. ASSUME NEW c \in Cmds, Abort(c) PROVE StagesOK'
  BY <1>13 DEF Abort
<1>14. ASSUME NEW i \in Ids, WriteStarts(i) PROVE StagesOK'
  BY <1>14 DEF WriteStarts
<1>15. ASSUME NEW k \in {"notty", "closed", "gone", "failed"}, WriteFails(k) PROVE StagesOK'
  <2> HIDE DEF StagesOK, TypeOK
  <2>1. TypeOK /\ StagesOK
    OBVIOUS
  <2> USE DEF StagesOK, TypeOK
  <2> QED BY <1>15, <2>1, WriteFailsForm
<1>16. ASSUME PollFails PROVE StagesOK'
  BY <1>16 DEF PollFails
<1>17. ASSUME FailedPollReturns PROVE StagesOK'
  BY <1>17 DEF FailedPollReturns
<1>18. ASSUME PollReturns PROVE StagesOK'
  BY <1>18 DEF PollReturns
<1>19. ASSUME PollExits PROVE StagesOK'
  BY <1>19 DEF PollExits
<1>20. ASSUME ExitedPollReturns PROVE StagesOK'
  BY <1>20 DEF ExitedPollReturns
<1>21. ASSUME AbortWrite PROVE StagesOK'
  BY <1>21 DEF AbortWrite
<1>22. ASSUME Clean PROVE StagesOK'
  BY <1>22 DEF Clean
<1>23. ASSUME NEW c \in Cmds, CleanStops(c) PROVE StagesOK'
  BY <1>23 DEF CleanStops
<1>24. ASSUME NEW c \in Cmds, NEW p \in {"exited", "failed"}, Exit(c, p) PROVE StagesOK'
  BY <1>24 DEF Exit
<1>25. ASSUME NEW c \in Cmds, Deny(c) PROVE StagesOK'
  BY <1>25 DEF Deny
<1>26. ASSUME NEW c \in Cmds, GuardStops(c) PROVE StagesOK'
  BY <1>26 DEF GuardStops
<1>27. ASSUME NEW c \in Cmds, GuardLeaves(c) PROVE StagesOK'
  BY <1>27 DEF GuardLeaves
<1>28. ASSUME NEW c \in Cmds, StreamDrains(c) PROVE StagesOK'
  BY <1>28 DEF StreamDrains
<1>29. ASSUME NEW c \in Cmds, WatcherEnds(c) PROVE StagesOK'
  BY <1>29 DEF WatcherEnds
<1>30. CASE UNCHANGED vars
  BY <1>30 DEF vars
<1> HIDE DEF IInv, TypeOK, StagesOK, Early, Active, Holding, NoWrite, RemoveId,
        Terminated, FailedOf, Over, Insert
<1> QED BY <1>1, <1>2, <1>3, <1>4, <1>5, <1>6, <1>7, <1>8, <1>9, <1>10,
           <1>11, <1>12, <1>13, <1>14, <1>15, <1>16, <1>17, <1>18, <1>19,
           <1>20, <1>21, <1>22, <1>23, <1>24, <1>25, <1>26, <1>27, <1>28,
           <1>29, <1>30, <1>32
         DEF Next, ExecStep, ProcessTask

\* The watcher and the call of a command never both emit its end.
LEMMA EndsStep ==
    ASSUME IInv, [Next]_vars
    PROVE  EndsOK'
<1> USE NoneIsOutside, CommandSets, BoundIsNatural DEF IInv, TypeOK, EndsOK,
        StagesOK, Early, Active, Holding, StartedAlive, execVars, procVars, netVars,
        storeVars
<1>1. ASSUME NEW c \in Cmds, NEW i \in Ids, Allocate(c, i) PROVE EndsOK'
  BY <1>1 DEF Allocate
<1>2. ASSUME NEW c \in Cmds, OpenFails(c) PROVE EndsOK'
  BY <1>2 DEF OpenFails
<1>3. ASSUME NEW c \in Cmds, HandlerFails(c) PROVE EndsOK'
  BY <1>3 DEF HandlerFails
<1>4. ASSUME NEW c \in Cmds, Opened(c) PROVE EndsOK'
  BY <1>4 DEF Opened
<1>32. ASSUME NEW c \in Cmds, BeginApproval(c) \/ AttemptFails(c) PROVE EndsOK'
  BY <1>32 DEF BeginApproval, AttemptFails
<1>5. ASSUME NEW c \in Cmds, StartStream(c) PROVE EndsOK'
  BY <1>5 DEF StartStream
<1>6. ASSUME NEW c \in Cmds, Store(c) PROVE EndsOK'
  BY <1>6 DEF Store
<1>7. ASSUME NEW c \in Cmds, StopPruned(c) PROVE EndsOK'
  BY <1>7 DEF StopPruned
<1>8. ASSUME NEW c \in Cmds, WaitFails(c) PROVE EndsOK'
  BY <1>8 DEF WaitFails
<1>9. ASSUME NEW c \in Cmds, FailReturns(c) PROVE EndsOK'
  BY <1>9 DEF FailReturns
<1>10. ASSUME NEW c \in Cmds, WaitReturns(c) PROVE EndsOK'
  BY <1>10 DEF WaitReturns
<1>11. ASSUME NEW c \in Cmds, WaitExits(c) PROVE EndsOK'
  BY <1>11 DEF WaitExits
<1>12. ASSUME NEW c \in Cmds, ExitReturns(c) PROVE EndsOK'
  <2>1. CASE StartedAlive(c)
    BY <1>12, <2>1 DEF ExitReturns
  <2>2. CASE ~StartedAlive(c)
    <3>1. stage[c] = "finishing" /\ watcher[c] = "none"
      BY <1>12, <2>2 DEF ExitReturns
    <3>2. ends[c] \in Nat /\ ends[c] <= 1 /\ ends[c] # 1
      BY <3>1
    <3>3. ends[c] = 0
      BY <3>2
    <3> QED BY <1>12, <2>2, <3>1, <3>3 DEF ExitReturns
  <2> QED BY <2>1, <2>2
<1>13. ASSUME NEW c \in Cmds, Abort(c) PROVE EndsOK'
  BY <1>13 DEF Abort
<1>14. ASSUME NEW i \in Ids, WriteStarts(i) PROVE EndsOK'
  BY <1>14 DEF WriteStarts
<1>15. ASSUME NEW k \in {"notty", "closed", "gone", "failed"}, WriteFails(k) PROVE EndsOK'
  BY <1>15 DEF WriteFails
<1>16. ASSUME PollFails PROVE EndsOK'
  BY <1>16 DEF PollFails
<1>17. ASSUME FailedPollReturns PROVE EndsOK'
  BY <1>17 DEF FailedPollReturns
<1>18. ASSUME PollReturns PROVE EndsOK'
  BY <1>18 DEF PollReturns
<1>19. ASSUME PollExits PROVE EndsOK'
  BY <1>19 DEF PollExits
<1>20. ASSUME ExitedPollReturns PROVE EndsOK'
  BY <1>20 DEF ExitedPollReturns
<1>21. ASSUME AbortWrite PROVE EndsOK'
  BY <1>21 DEF AbortWrite
<1>22. ASSUME Clean PROVE EndsOK'
  BY <1>22 DEF Clean
<1>23. ASSUME NEW c \in Cmds, CleanStops(c) PROVE EndsOK'
  BY <1>23 DEF CleanStops
<1>24. ASSUME NEW c \in Cmds, NEW p \in {"exited", "failed"}, Exit(c, p) PROVE EndsOK'
  BY <1>24 DEF Exit
<1>25. ASSUME NEW c \in Cmds, Deny(c) PROVE EndsOK'
  BY <1>25 DEF Deny
<1>26. ASSUME NEW c \in Cmds, GuardStops(c) PROVE EndsOK'
  BY <1>26 DEF GuardStops
<1>27. ASSUME NEW c \in Cmds, GuardLeaves(c) PROVE EndsOK'
  BY <1>27 DEF GuardLeaves
<1>28. ASSUME NEW c \in Cmds, StreamDrains(c) PROVE EndsOK'
  BY <1>28 DEF StreamDrains
<1>29. ASSUME NEW c \in Cmds, WatcherEnds(c) PROVE EndsOK'
  BY <1>29 DEF WatcherEnds
<1>30. CASE UNCHANGED vars
  BY <1>30 DEF vars
<1> HIDE DEF IInv, TypeOK, EndsOK, StagesOK, Early, Active, Holding, StartedAlive
<1> QED BY <1>1, <1>2, <1>3, <1>4, <1>5, <1>6, <1>7, <1>8, <1>9, <1>10,
           <1>11, <1>12, <1>13, <1>14, <1>15, <1>16, <1>17, <1>18, <1>19,
           <1>20, <1>21, <1>22, <1>23, <1>24, <1>25, <1>26, <1>27, <1>28,
           <1>29, <1>30, <1>32
         DEF Next, ExecStep, ProcessTask

\* The order of last_used stays a strict total order of the entries.
LEMMA OrderStep ==
    ASSUME IInv, [Next]_vars
    PROVE  OrderOK'
<1> USE NoneIsOutside, CommandSets, BoundIsNatural DEF IInv, TypeOK, OrderOK, Kept,
        Used, Stored, RemoveId, Insert, Active, Holding, execVars, procVars,
        netVars, storeVars
<1>1. ASSUME NEW c \in Cmds, NEW i \in Ids, Allocate(c, i) PROVE OrderOK'
  BY <1>1 DEF Allocate
<1>2. ASSUME NEW c \in Cmds, OpenFails(c) PROVE OrderOK'
  BY <1>2 DEF OpenFails
<1>3. ASSUME NEW c \in Cmds, HandlerFails(c) PROVE OrderOK'
  BY <1>3 DEF HandlerFails
<1>4. ASSUME NEW c \in Cmds, Opened(c) PROVE OrderOK'
  BY <1>4 DEF Opened
<1>32. ASSUME NEW c \in Cmds, BeginApproval(c) \/ AttemptFails(c) PROVE OrderOK'
  BY <1>32 DEF BeginApproval, AttemptFails
<1>5. ASSUME NEW c \in Cmds, StartStream(c) PROVE OrderOK'
  BY <1>5 DEF StartStream
<1>6. ASSUME NEW c \in Cmds, Store(c) PROVE OrderOK'
  <2> HIDE DEF TypeOK, StagesOK, OrderOK, BoundOK, Insert, Stored
  <2>1. PICK v \in Stored \cup {None} :
           /\ Insert(c, v)
           /\ \/ /\ ~Full /\ v = None
                 /\ pruned' = pruned
                 /\ stage' = [stage EXCEPT ![c] = "waiting"]
                 /\ watcher' = [watcher EXCEPT ![c] = "on"]
              \/ /\ Full /\ v \in Stored
                 /\ pruned' = [pruned EXCEPT ![c] = v]
                 /\ stage' = [stage EXCEPT ![c] = "pruning"]
                 /\ watcher' = watcher
    BY <1>6, StoreForm
  <2> USE DEF TypeOK, OrderOK, Insert, Stored
  <2>2. later' = later /\ stage[c] = "storing"
    BY <1>6 DEF Store
  <2>3. Stored' \subseteq Stored \cup {c}
    BY <2>1
  <2>4. Kept' \subseteq Kept
    BY <2>1, <2>2, <2>3
  <2> HIDE DEF Kept
  <2> QED BY <2>2, <2>4
<1>7. ASSUME NEW c \in Cmds, StopPruned(c) PROVE OrderOK'
  BY <1>7 DEF StopPruned
<1>8. ASSUME NEW c \in Cmds, WaitFails(c) PROVE OrderOK'
  BY <1>8 DEF WaitFails
<1>9. ASSUME NEW c \in Cmds, FailReturns(c) PROVE OrderOK'
  BY <1>9 DEF FailReturns
<1>10. ASSUME NEW c \in Cmds, WaitReturns(c) PROVE OrderOK'
  BY <1>10 DEF WaitReturns
<1>11. ASSUME NEW c \in Cmds, WaitExits(c) PROVE OrderOK'
  BY <1>11 DEF WaitExits
<1>12. ASSUME NEW c \in Cmds, ExitReturns(c) PROVE OrderOK'
  BY <1>12 DEF ExitReturns
<1>13. ASSUME NEW c \in Cmds, Abort(c) PROVE OrderOK'
  BY <1>13 DEF Abort
<1>14. ASSUME NEW i \in Ids, WriteStarts(i) PROVE OrderOK'
  <2> DEFINE e == store[i]
  <2>1. e \in Stored /\ e \in Cmds
    BY <1>14 DEF WriteStarts
  <2>2. Kept' = Kept /\ Kept \subseteq Cmds
    BY <1>14 DEF WriteStarts
  <2>3. e \in Kept /\ later' = Used(e)
    BY <1>14, <2>1 DEF WriteStarts
  <2>4. \A d \in Kept : later'[d] = IF d = e THEN {} ELSE (later[d] \cap Kept) \cup {e}
    BY <2>2, <2>3
  <2> HIDE DEF Kept, e
  <2> QED BY <2>2, <2>3, <2>4
<1>15. ASSUME NEW k \in {"notty", "closed", "gone", "failed"}, WriteFails(k) PROVE OrderOK'
  BY <1>15 DEF WriteFails
<1>16. ASSUME PollFails PROVE OrderOK'
  BY <1>16 DEF PollFails
<1>17. ASSUME FailedPollReturns PROVE OrderOK'
  BY <1>17 DEF FailedPollReturns
<1>18. ASSUME PollReturns PROVE OrderOK'
  BY <1>18 DEF PollReturns
<1>19. ASSUME PollExits PROVE OrderOK'
  BY <1>19 DEF PollExits
<1>20. ASSUME ExitedPollReturns PROVE OrderOK'
  BY <1>20 DEF ExitedPollReturns
<1>21. ASSUME AbortWrite PROVE OrderOK'
  BY <1>21 DEF AbortWrite
<1>22. ASSUME Clean PROVE OrderOK'
  BY <1>22 DEF Clean
<1>23. ASSUME NEW c \in Cmds, CleanStops(c) PROVE OrderOK'
  BY <1>23 DEF CleanStops
<1>24. ASSUME NEW c \in Cmds, NEW p \in {"exited", "failed"}, Exit(c, p) PROVE OrderOK'
  BY <1>24 DEF Exit
<1>25. ASSUME NEW c \in Cmds, Deny(c) PROVE OrderOK'
  BY <1>25 DEF Deny
<1>26. ASSUME NEW c \in Cmds, GuardStops(c) PROVE OrderOK'
  BY <1>26 DEF GuardStops
<1>27. ASSUME NEW c \in Cmds, GuardLeaves(c) PROVE OrderOK'
  BY <1>27 DEF GuardLeaves
<1>28. ASSUME NEW c \in Cmds, StreamDrains(c) PROVE OrderOK'
  BY <1>28 DEF StreamDrains
<1>29. ASSUME NEW c \in Cmds, WatcherEnds(c) PROVE OrderOK'
  BY <1>29 DEF WatcherEnds
<1>30. CASE UNCHANGED vars
  BY <1>30 DEF vars
<1> HIDE DEF IInv, TypeOK, OrderOK, Kept, Used, Stored, RemoveId, Insert, Active,
        Holding
<1> QED BY <1>1, <1>2, <1>3, <1>4, <1>5, <1>6, <1>7, <1>8, <1>9, <1>10,
           <1>11, <1>12, <1>13, <1>14, <1>15, <1>16, <1>17, <1>18, <1>19,
           <1>20, <1>21, <1>22, <1>23, <1>24, <1>25, <1>26, <1>27, <1>28,
           <1>29, <1>30, <1>32
         DEF Next, ExecStep, ProcessTask

\* One more element makes a finite set larger by at most one.
LEMMA AddOne ==
    ASSUME NEW S, IsFiniteSet(S), NEW x
    PROVE  IsFiniteSet(S \cup {x}) /\ Cardinality(S \cup {x}) \in {Cardinality(S), Cardinality(S) + 1}
<1>1. CASE x \in S
  <2>1. S \cup {x} = S
    BY <1>1
  <2> QED BY <2>1
<1>2. CASE x \notin S
  BY <1>2, FS_AddElement
<1> QED BY <1>1, <1>2

\* A store that loses entries stays within its bound.
LEMMA ShrinkBound ==
    ASSUME BoundOK, NEW S, S \subseteq Stored
    PROVE  IsFiniteSet(S) /\ Cardinality(S) <= MaxProcesses
<1>1. IsFiniteSet(S) /\ Cardinality(S) <= Cardinality(Stored)
  BY FS_Subset DEF BoundOK
<1>2. Cardinality(S) \in Nat /\ Cardinality(Stored) \in Nat
  BY <1>1, FS_CardinalityType DEF BoundOK
<1> QED BY <1>1, <1>2, RecentFitInStore DEF BoundOK, StoreIsBounded

\* Only an insertion adds an entry, and a full store loses another one first.
LEMMA BoundStep ==
    ASSUME IInv, [Next]_vars
    PROVE  BoundOK'
<1> USE NoneIsOutside, CommandSets, BoundIsNatural DEF IInv, TypeOK, StagesOK,
        Stored, RemoveId, Active, Holding, NoWrite, execVars, procVars, netVars,
        storeVars
<1>1. ASSUME NEW c \in Cmds, NEW i \in Ids, Allocate(c, i) PROVE Stored' \subseteq Stored
  BY <1>1 DEF Allocate
<1>2. ASSUME NEW c \in Cmds, OpenFails(c) PROVE Stored' \subseteq Stored
  BY <1>2 DEF OpenFails
<1>3. ASSUME NEW c \in Cmds, HandlerFails(c) PROVE Stored' \subseteq Stored
  BY <1>3 DEF HandlerFails
<1>4. ASSUME NEW c \in Cmds, Opened(c) PROVE Stored' \subseteq Stored
  BY <1>4 DEF Opened
<1>32. ASSUME NEW c \in Cmds, BeginApproval(c) \/ AttemptFails(c) PROVE Stored' \subseteq Stored
  BY <1>32 DEF BeginApproval, AttemptFails
<1>5. ASSUME NEW c \in Cmds, StartStream(c) PROVE Stored' \subseteq Stored
  BY <1>5 DEF StartStream
<1>6. ASSUME NEW c \in Cmds, Store(c) PROVE BoundOK'
  <2> HIDE DEF TypeOK, StagesOK, OrderOK, BoundOK, Insert, Stored
  <2>1. PICK v \in Stored \cup {None} :
           /\ Insert(c, v)
           /\ \/ /\ ~Full /\ v = None
                 /\ pruned' = pruned
                 /\ stage' = [stage EXCEPT ![c] = "waiting"]
                 /\ watcher' = [watcher EXCEPT ![c] = "on"]
              \/ /\ Full /\ v \in Stored
                 /\ pruned' = [pruned EXCEPT ![c] = v]
                 /\ stage' = [stage EXCEPT ![c] = "pruning"]
                 /\ watcher' = watcher
    BY <1>6, StoreForm
  <2>2. IsFiniteSet(Stored) /\ Cardinality(Stored) \in Nat /\ Cardinality(Stored) <= MaxProcesses
    BY FS_CardinalityType DEF BoundOK, StoreIsBounded
  <2>3. CASE ~Full
    <3>1. Stored' \subseteq Stored \cup {c}
      BY <2>1, <2>3 DEF Insert, Stored
    <3>2. IsFiniteSet(Stored \cup {c}) /\ Cardinality(Stored \cup {c}) <= MaxProcesses
      <4>1. IsFiniteSet(Stored \cup {c}) /\ Cardinality(Stored \cup {c}) \in {Cardinality(Stored), Cardinality(Stored) + 1}
        BY <2>2, AddOne
      <4> QED BY <2>2, <2>3, <4>1, RecentFitInStore DEF Full
    <3>3. Cardinality(Stored \cup {c}) \in Nat
      BY <3>2, FS_CardinalityType
    <3>4. IsFiniteSet(Stored') /\ Cardinality(Stored') <= Cardinality(Stored \cup {c}) /\ Cardinality(Stored') \in Nat
      BY <3>1, <3>2, FS_Subset, FS_CardinalityType
    <3> QED BY <3>2, <3>3, <3>4, RecentFitInStore DEF BoundOK, StoreIsBounded
  <2>4. CASE Full
    <3> DEFINE R == Stored \ {v}
    <3>1. Stored' \subseteq R \cup {c}
      BY <2>1, <2>4 DEF Insert, Stored
    <3>2. IsFiniteSet(R) /\ Cardinality(R) = Cardinality(Stored) - 1
      BY <2>1, <2>2, <2>4, FS_RemoveElement
    <3>3. Cardinality(R) \in Nat
      BY <3>2, FS_CardinalityType
    <3> HIDE DEF R
    <3>4. IsFiniteSet(R \cup {c}) /\ Cardinality(R \cup {c}) <= Cardinality(R) + 1 /\ Cardinality(R \cup {c}) \in Nat
      <4>1. IsFiniteSet(R \cup {c}) /\ Cardinality(R \cup {c}) \in {Cardinality(R), Cardinality(R) + 1}
        BY <3>2, AddOne
      <4> QED BY <3>3, <4>1
    <3>5. IsFiniteSet(Stored') /\ Cardinality(Stored') <= Cardinality(R \cup {c}) /\ Cardinality(Stored') \in Nat
      BY <3>1, <3>4, FS_Subset, FS_CardinalityType
    <3> QED BY <2>2, <3>2, <3>3, <3>4, <3>5, RecentFitInStore DEF BoundOK, StoreIsBounded
  <2> QED BY <2>3, <2>4
<1>7. ASSUME NEW c \in Cmds, StopPruned(c) PROVE Stored' \subseteq Stored
  BY <1>7 DEF StopPruned
<1>8. ASSUME NEW c \in Cmds, WaitFails(c) PROVE Stored' \subseteq Stored
  BY <1>8 DEF WaitFails
<1>9. ASSUME NEW c \in Cmds, FailReturns(c) PROVE Stored' \subseteq Stored
  BY <1>9 DEF FailReturns
<1>10. ASSUME NEW c \in Cmds, WaitReturns(c) PROVE Stored' \subseteq Stored
  BY <1>10 DEF WaitReturns
<1>11. ASSUME NEW c \in Cmds, WaitExits(c) PROVE Stored' \subseteq Stored
  BY <1>11 DEF WaitExits
<1>12. ASSUME NEW c \in Cmds, ExitReturns(c) PROVE Stored' \subseteq Stored
  BY <1>12 DEF ExitReturns
<1>13. ASSUME NEW c \in Cmds, Abort(c) PROVE Stored' \subseteq Stored
  BY <1>13 DEF Abort
<1>14. ASSUME NEW i \in Ids, WriteStarts(i) PROVE Stored' \subseteq Stored
  BY <1>14 DEF WriteStarts
<1>15. ASSUME NEW k \in {"notty", "closed", "gone", "failed"}, WriteFails(k) PROVE Stored' \subseteq Stored
  BY <1>15 DEF WriteFails
<1>16. ASSUME PollFails PROVE Stored' \subseteq Stored
  BY <1>16 DEF PollFails
<1>17. ASSUME FailedPollReturns PROVE Stored' \subseteq Stored
  BY <1>17 DEF FailedPollReturns
<1>18. ASSUME PollReturns PROVE Stored' \subseteq Stored
  BY <1>18 DEF PollReturns
<1>19. ASSUME PollExits PROVE Stored' \subseteq Stored
  BY <1>19 DEF PollExits
<1>20. ASSUME ExitedPollReturns PROVE Stored' \subseteq Stored
  BY <1>20 DEF ExitedPollReturns
<1>21. ASSUME AbortWrite PROVE Stored' \subseteq Stored
  BY <1>21 DEF AbortWrite
<1>22. ASSUME Clean PROVE Stored' \subseteq Stored
  BY <1>22 DEF Clean
<1>23. ASSUME NEW c \in Cmds, CleanStops(c) PROVE Stored' \subseteq Stored
  BY <1>23 DEF CleanStops
<1>24. ASSUME NEW c \in Cmds, NEW p \in {"exited", "failed"}, Exit(c, p) PROVE Stored' \subseteq Stored
  BY <1>24 DEF Exit
<1>25. ASSUME NEW c \in Cmds, Deny(c) PROVE Stored' \subseteq Stored
  BY <1>25 DEF Deny
<1>26. ASSUME NEW c \in Cmds, GuardStops(c) PROVE Stored' \subseteq Stored
  BY <1>26 DEF GuardStops
<1>27. ASSUME NEW c \in Cmds, GuardLeaves(c) PROVE Stored' \subseteq Stored
  BY <1>27 DEF GuardLeaves
<1>28. ASSUME NEW c \in Cmds, StreamDrains(c) PROVE Stored' \subseteq Stored
  BY <1>28 DEF StreamDrains
<1>29. ASSUME NEW c \in Cmds, WatcherEnds(c) PROVE Stored' \subseteq Stored
  BY <1>29 DEF WatcherEnds
<1>30. ASSUME UNCHANGED vars PROVE Stored' \subseteq Stored
  BY <1>30 DEF vars
<1> HIDE DEF IInv, TypeOK, StagesOK, Stored, RemoveId, Active, Holding, NoWrite
<1>31. ASSUME Stored' \subseteq Stored PROVE BoundOK'
  <2>1. BoundOK
    BY DEF IInv
  <2> QED BY <1>31, <2>1, ShrinkBound DEF BoundOK, StoreIsBounded
<1> QED BY <1>1, <1>2, <1>3, <1>4, <1>5, <1>6, <1>7, <1>8, <1>9, <1>10,
           <1>11, <1>12, <1>13, <1>14, <1>15, <1>16, <1>17, <1>18, <1>19,
           <1>20, <1>21, <1>22, <1>23, <1>24, <1>25, <1>26, <1>27, <1>28,
           <1>29, <1>30, <1>31, <1>32
         DEF Next, ExecStep, ProcessTask

\* While no id is given out twice, an id leads to one command.
LEMMA IdsStep ==
    ASSUME IInv, [Next]_vars
    PROVE  IdsOK'
<1> USE NoneIsOutside, CommandSets, BoundIsNatural DEF IInv, TypeOK, IdsOK,
        StagesOK, Stored, RemoveId, Insert, Active, Holding, NoWrite, Taken, Early,
        execVars, procVars, netVars, storeVars
<1>1. ASSUME NEW c \in Cmds, NEW i \in Ids, Allocate(c, i) PROVE IdsOK'
  <2>1. CASE Taken(i)
    BY <1>1, <2>1 DEF Allocate
  <2>2. CASE ~Taken(i)
    BY <1>1, <2>2 DEF Allocate
  <2> QED BY <2>1, <2>2
<1>2. ASSUME NEW c \in Cmds, OpenFails(c) PROVE IdsOK'
  BY <1>2 DEF OpenFails
<1>3. ASSUME NEW c \in Cmds, HandlerFails(c) PROVE IdsOK'
  BY <1>3 DEF HandlerFails
<1>4. ASSUME NEW c \in Cmds, Opened(c) PROVE IdsOK'
  BY <1>4 DEF Opened
<1>32. ASSUME NEW c \in Cmds, BeginApproval(c) \/ AttemptFails(c) PROVE IdsOK'
  BY <1>32 DEF BeginApproval, AttemptFails
<1>5. ASSUME NEW c \in Cmds, StartStream(c) PROVE IdsOK'
  BY <1>5 DEF StartStream
<1>6. ASSUME NEW c \in Cmds, Store(c) PROVE IdsOK'
  <2>1. UNCHANGED <<id, took, write, reused>> /\ stage[c] = "storing"
    BY <1>6 DEF Store
  <2>2. PICK v \in {Victim, None} : Insert(c, v)
    <3> HIDE DEF Insert
    <3> QED BY <1>6 DEF Store
  <2>3. id[c] \in Ids /\ write = NoWrite
    BY <2>1
  <2>4. \A j \in Ids : store[j] # c
    BY <2>1
  <2> QED BY <2>1, <2>2, <2>3, <2>4
<1>7. ASSUME NEW c \in Cmds, StopPruned(c) PROVE IdsOK'
  BY <1>7 DEF StopPruned
<1>8. ASSUME NEW c \in Cmds, WaitFails(c) PROVE IdsOK'
  BY <1>8 DEF WaitFails
<1>9. ASSUME NEW c \in Cmds, FailReturns(c) PROVE IdsOK'
  BY <1>9 DEF FailReturns
<1>10. ASSUME NEW c \in Cmds, WaitReturns(c) PROVE IdsOK'
  BY <1>10 DEF WaitReturns
<1>11. ASSUME NEW c \in Cmds, WaitExits(c) PROVE IdsOK'
  <2>1. UNCHANGED <<write, id, reused>> /\ stage[c] = "waiting"
    BY <1>11 DEF WaitExits
  <2>2. id[c] \in Ids /\ write = NoWrite
    BY <2>1
  <2>3. CASE StartedAlive(c)
    <3>1. ~reused => store[id[c]] = c
      BY <1>11, <2>2, <2>3 DEF WaitExits
    <3>2. /\ took' = [took EXCEPT ![c] = store[id[c]]]
          /\ store' = [store EXCEPT ![id[c]] = None]
      BY <1>11, <2>3 DEF WaitExits
    <3> QED BY <2>1, <2>2, <3>1, <3>2
  <2>4. CASE ~StartedAlive(c)
    BY <1>11, <2>1, <2>2, <2>4 DEF WaitExits
  <2> QED BY <2>3, <2>4
<1>12. ASSUME NEW c \in Cmds, ExitReturns(c) PROVE IdsOK'
  BY <1>12 DEF ExitReturns
<1>13. ASSUME NEW c \in Cmds, Abort(c) PROVE IdsOK'
  BY <1>13 DEF Abort
<1>14. ASSUME NEW i \in Ids, WriteStarts(i) PROVE IdsOK'
  BY <1>14 DEF WriteStarts
<1>15. ASSUME NEW k \in {"notty", "closed", "gone", "failed"}, WriteFails(k) PROVE IdsOK'
  <2> HIDE DEF StagesOK, TypeOK
  <2>1. TypeOK /\ StagesOK
    OBVIOUS
  <2> USE DEF StagesOK, TypeOK
  <2> QED BY <1>15, <2>1, WriteFailsForm
<1>16. ASSUME PollFails PROVE IdsOK'
  BY <1>16 DEF PollFails
<1>17. ASSUME FailedPollReturns PROVE IdsOK'
  BY <1>17 DEF FailedPollReturns
<1>18. ASSUME PollReturns PROVE IdsOK'
  BY <1>18 DEF PollReturns
<1>19. ASSUME PollExits PROVE IdsOK'
  BY <1>19 DEF PollExits
<1>20. ASSUME ExitedPollReturns PROVE IdsOK'
  BY <1>20 DEF ExitedPollReturns
<1>21. ASSUME AbortWrite PROVE IdsOK'
  BY <1>21 DEF AbortWrite
<1>22. ASSUME Clean PROVE IdsOK'
  BY <1>22 DEF Clean
<1>23. ASSUME NEW c \in Cmds, CleanStops(c) PROVE IdsOK'
  BY <1>23 DEF CleanStops
<1>24. ASSUME NEW c \in Cmds, NEW p \in {"exited", "failed"}, Exit(c, p) PROVE IdsOK'
  BY <1>24 DEF Exit
<1>25. ASSUME NEW c \in Cmds, Deny(c) PROVE IdsOK'
  BY <1>25 DEF Deny
<1>26. ASSUME NEW c \in Cmds, GuardStops(c) PROVE IdsOK'
  BY <1>26 DEF GuardStops
<1>27. ASSUME NEW c \in Cmds, GuardLeaves(c) PROVE IdsOK'
  BY <1>27 DEF GuardLeaves
<1>28. ASSUME NEW c \in Cmds, StreamDrains(c) PROVE IdsOK'
  BY <1>28 DEF StreamDrains
<1>29. ASSUME NEW c \in Cmds, WatcherEnds(c) PROVE IdsOK'
  BY <1>29 DEF WatcherEnds
<1>30. CASE UNCHANGED vars
  BY <1>30 DEF vars
<1> HIDE DEF IInv, TypeOK, IdsOK, StagesOK, Stored, RemoveId, Insert, Active,
        Holding, NoWrite, Taken, Early
<1> QED BY <1>1, <1>2, <1>3, <1>4, <1>5, <1>6, <1>7, <1>8, <1>9, <1>10,
           <1>11, <1>12, <1>13, <1>14, <1>15, <1>16, <1>17, <1>18, <1>19,
           <1>20, <1>21, <1>22, <1>23, <1>24, <1>25, <1>26, <1>27, <1>28,
           <1>29, <1>30, <1>32
         DEF Next, ExecStep, ProcessTask

\* While no id is given out twice, a running process is held by more than
\* the wait of its call.
LEMMA HeldStep ==
    ASSUME IInv, [Next]_vars
    PROVE  HeldOK'
<1> USE NoneIsOutside, CommandSets, BoundIsNatural DEF IInv, TypeOK, HeldOK, IdsOK,
        StagesOK, Stored, RemoveId, Insert, Active, Holding, NoWrite, Early,
        Pruning, Terminated, FailedOf, Over, StartedAlive, Held, execVars, procVars,
        netVars, storeVars
<1>1. ASSUME NEW c \in Cmds, NEW i \in Ids, Allocate(c, i) PROVE HeldOK'
  BY <1>1 DEF Allocate
<1>2. ASSUME NEW c \in Cmds, OpenFails(c) PROVE HeldOK'
  BY <1>2 DEF OpenFails
<1>3. ASSUME NEW c \in Cmds, HandlerFails(c) PROVE HeldOK'
  BY <1>3 DEF HandlerFails
<1>4. ASSUME NEW c \in Cmds, Opened(c) PROVE HeldOK'
  BY <1>4 DEF Opened
<1>32. ASSUME NEW c \in Cmds, BeginApproval(c) \/ AttemptFails(c) PROVE HeldOK'
  BY <1>32 DEF BeginApproval, AttemptFails
<1>5. ASSUME NEW c \in Cmds, StartStream(c) PROVE HeldOK'
  BY <1>5 DEF StartStream
<1>6. ASSUME NEW c \in Cmds, Store(c) PROVE HeldOK'
  BY <1>6 DEF Store
<1>7. ASSUME NEW c \in Cmds, StopPruned(c) PROVE HeldOK'
  BY <1>7 DEF StopPruned
<1>8. ASSUME NEW c \in Cmds, WaitFails(c) PROVE HeldOK'
  BY <1>8 DEF WaitFails
<1>9. ASSUME NEW c \in Cmds, FailReturns(c) PROVE HeldOK'
  BY <1>9 DEF FailReturns
<1>10. ASSUME NEW c \in Cmds, WaitReturns(c) PROVE HeldOK'
  BY <1>10 DEF WaitReturns
<1>11. ASSUME NEW c \in Cmds, WaitExits(c) PROVE HeldOK'
  BY <1>11 DEF WaitExits
<1>12. ASSUME NEW c \in Cmds, ExitReturns(c) PROVE HeldOK'
  BY <1>12 DEF ExitReturns
<1>13. ASSUME NEW c \in Cmds, Abort(c) PROVE HeldOK'
  <2> SUFFICES ASSUME ~reused', NEW d \in Cmds, proc'[d] = "running"
               PROVE  \/ stage'[d] \in {"begin", "storing", "pruning"}
                      \/ watcher'[d] = "on"
                      \/ d \in (Stored \cup cleaning \cup guard)'
                      \/ Pruning(d)'
    OBVIOUS
  <2>1. proc[d] = "running" /\ Held(d)'
    BY <1>13 DEF Abort
  <2>2. d \notin {write.cmd, write.took}'
    BY <1>13, <2>1 DEF Abort
  <2>3. \A e \in Cmds : took'[e] # d
    BY <1>13, <2>1 DEF Abort
  <2>4. CASE stage'[d] \in Holding
    <3>1. d # c /\ stage[d] = stage'[d]
      BY <1>13, <2>4 DEF Abort
    <3>2. stage[d] \in {"waiting", "failing", "finishing"} => watcher[d] = "on"
      BY <2>1
    <3> QED BY <1>13, <2>4, <3>1, <3>2 DEF Abort
  <2> QED BY <2>1, <2>2, <2>3, <2>4
<1>14. ASSUME NEW i \in Ids, WriteStarts(i) PROVE HeldOK'
  BY <1>14 DEF WriteStarts
<1>15. ASSUME NEW k \in {"notty", "closed", "gone", "failed"}, WriteFails(k) PROVE HeldOK'
  BY <1>15 DEF WriteFails
<1>16. ASSUME PollFails PROVE HeldOK'
  BY <1>16 DEF PollFails
<1>17. ASSUME FailedPollReturns PROVE HeldOK'
  BY <1>17 DEF FailedPollReturns
<1>18. ASSUME PollReturns PROVE HeldOK'
  BY <1>18 DEF PollReturns
<1>19. ASSUME PollExits PROVE HeldOK'
  BY <1>19 DEF PollExits
<1>20. ASSUME ExitedPollReturns PROVE HeldOK'
  BY <1>20 DEF ExitedPollReturns
<1>21. ASSUME AbortWrite PROVE HeldOK'
  BY <1>21 DEF AbortWrite
<1>22. ASSUME Clean PROVE HeldOK'
  BY <1>22 DEF Clean
<1>23. ASSUME NEW c \in Cmds, CleanStops(c) PROVE HeldOK'
  BY <1>23 DEF CleanStops
<1>24. ASSUME NEW c \in Cmds, NEW p \in {"exited", "failed"}, Exit(c, p) PROVE HeldOK'
  BY <1>24 DEF Exit
<1>25. ASSUME NEW c \in Cmds, Deny(c) PROVE HeldOK'
  BY <1>25 DEF Deny
<1>26. ASSUME NEW c \in Cmds, GuardStops(c) PROVE HeldOK'
  BY <1>26 DEF GuardStops
<1>27. ASSUME NEW c \in Cmds, GuardLeaves(c) PROVE HeldOK'
  BY <1>27 DEF GuardLeaves
<1>28. ASSUME NEW c \in Cmds, StreamDrains(c) PROVE HeldOK'
  BY <1>28 DEF StreamDrains
<1>29. ASSUME NEW c \in Cmds, WatcherEnds(c) PROVE HeldOK'
  BY <1>29 DEF WatcherEnds
<1>30. CASE UNCHANGED vars
  BY <1>30 DEF vars
<1> HIDE DEF IInv, TypeOK, HeldOK, IdsOK, StagesOK, Stored, RemoveId, Insert,
        Active, Holding, NoWrite, Early, Pruning, Terminated, FailedOf, Over,
        StartedAlive, Held
<1> QED BY <1>1, <1>2, <1>3, <1>4, <1>5, <1>6, <1>7, <1>8, <1>9, <1>10,
           <1>11, <1>12, <1>13, <1>14, <1>15, <1>16, <1>17, <1>18, <1>19,
           <1>20, <1>21, <1>22, <1>23, <1>24, <1>25, <1>26, <1>27, <1>28,
           <1>29, <1>30, <1>32
         DEF Next, ExecStep, ProcessTask

\* Without interrupts a running process is stored, or in the hands of
\* whoever takes it in or out.
LEMMA ReachStep ==
    ASSUME IInv, [Next]_vars
    PROVE  ReachOK'
<1> USE NoneIsOutside, CommandSets, BoundIsNatural DEF IInv, TypeOK, ReachOK, IdsOK,
        StagesOK, Stored, RemoveId, Insert, Active, Holding, NoWrite, Early,
        Pruning, Terminated, FailedOf, Over, StartedAlive, NoInterrupt, execVars,
        procVars, netVars, storeVars
<1>1. ASSUME NEW c \in Cmds, NEW i \in Ids, Allocate(c, i) PROVE ReachOK'
  BY <1>1 DEF Allocate
<1>2. ASSUME NEW c \in Cmds, OpenFails(c) PROVE ReachOK'
  BY <1>2 DEF OpenFails
<1>3. ASSUME NEW c \in Cmds, HandlerFails(c) PROVE ReachOK'
  BY <1>3 DEF HandlerFails
<1>4. ASSUME NEW c \in Cmds, Opened(c) PROVE ReachOK'
  BY <1>4 DEF Opened
<1>32. ASSUME NEW c \in Cmds, BeginApproval(c) \/ AttemptFails(c) PROVE ReachOK'
  BY <1>32 DEF BeginApproval, AttemptFails
<1>5. ASSUME NEW c \in Cmds, StartStream(c) PROVE ReachOK'
  BY <1>5 DEF StartStream
<1>6. ASSUME NEW c \in Cmds, Store(c) PROVE ReachOK'
  BY <1>6 DEF Store
<1>7. ASSUME NEW c \in Cmds, StopPruned(c) PROVE ReachOK'
  BY <1>7 DEF StopPruned
<1>8. ASSUME NEW c \in Cmds, WaitFails(c) PROVE ReachOK'
  BY <1>8 DEF WaitFails
<1>9. ASSUME NEW c \in Cmds, FailReturns(c) PROVE ReachOK'
  BY <1>9 DEF FailReturns
<1>10. ASSUME NEW c \in Cmds, WaitReturns(c) PROVE ReachOK'
  BY <1>10 DEF WaitReturns
<1>11. ASSUME NEW c \in Cmds, WaitExits(c) PROVE ReachOK'
  BY <1>11 DEF WaitExits
<1>12. ASSUME NEW c \in Cmds, ExitReturns(c) PROVE ReachOK'
  BY <1>12 DEF ExitReturns
<1>13. ASSUME NEW c \in Cmds, Abort(c) PROVE ReachOK'
  BY <1>13 DEF Abort
<1>14. ASSUME NEW i \in Ids, WriteStarts(i) PROVE ReachOK'
  BY <1>14 DEF WriteStarts
<1>15. ASSUME NEW k \in {"notty", "closed", "gone", "failed"}, WriteFails(k) PROVE ReachOK'
  BY <1>15 DEF WriteFails
<1>16. ASSUME PollFails PROVE ReachOK'
  BY <1>16 DEF PollFails
<1>17. ASSUME FailedPollReturns PROVE ReachOK'
  BY <1>17 DEF FailedPollReturns
<1>18. ASSUME PollReturns PROVE ReachOK'
  BY <1>18 DEF PollReturns
<1>19. ASSUME PollExits PROVE ReachOK'
  BY <1>19 DEF PollExits
<1>20. ASSUME ExitedPollReturns PROVE ReachOK'
  BY <1>20 DEF ExitedPollReturns
<1>21. ASSUME AbortWrite PROVE ReachOK'
  BY <1>21 DEF AbortWrite
<1>22. ASSUME Clean PROVE ReachOK'
  BY <1>22 DEF Clean
<1>23. ASSUME NEW c \in Cmds, CleanStops(c) PROVE ReachOK'
  BY <1>23 DEF CleanStops
<1>24. ASSUME NEW c \in Cmds, NEW p \in {"exited", "failed"}, Exit(c, p) PROVE ReachOK'
  BY <1>24 DEF Exit
<1>25. ASSUME NEW c \in Cmds, Deny(c) PROVE ReachOK'
  BY <1>25 DEF Deny
<1>26. ASSUME NEW c \in Cmds, GuardStops(c) PROVE ReachOK'
  BY <1>26 DEF GuardStops
<1>27. ASSUME NEW c \in Cmds, GuardLeaves(c) PROVE ReachOK'
  BY <1>27 DEF GuardLeaves
<1>28. ASSUME NEW c \in Cmds, StreamDrains(c) PROVE ReachOK'
  BY <1>28 DEF StreamDrains
<1>29. ASSUME NEW c \in Cmds, WatcherEnds(c) PROVE ReachOK'
  BY <1>29 DEF WatcherEnds
<1>30. CASE UNCHANGED vars
  BY <1>30 DEF vars
<1> HIDE DEF IInv, TypeOK, ReachOK, IdsOK, StagesOK, Stored, RemoveId, Insert,
        Active, Holding, NoWrite, Early, Pruning, Terminated, FailedOf, Over,
        StartedAlive, NoInterrupt
<1> QED BY <1>1, <1>2, <1>3, <1>4, <1>5, <1>6, <1>7, <1>8, <1>9, <1>10,
           <1>11, <1>12, <1>13, <1>14, <1>15, <1>16, <1>17, <1>18, <1>19,
           <1>20, <1>21, <1>22, <1>23, <1>24, <1>25, <1>26, <1>27, <1>28,
           <1>29, <1>30, <1>32
         DEF Next, ExecStep, ProcessTask

\* Without interrupts so is a registered command.
LEMMA RegStep ==
    ASSUME IInv, [Next]_vars
    PROVE  RegOK'
<1> USE NoneIsOutside, CommandSets, BoundIsNatural DEF IInv, TypeOK, RegOK, IdsOK,
        StagesOK, Stored, RemoveId, Insert, Active, Holding, NoWrite, Early,
        Pruning, Over, StartedAlive, NoInterrupt, execVars, procVars, netVars,
        storeVars
<1>1. ASSUME NEW c \in Cmds, NEW i \in Ids, Allocate(c, i) PROVE RegOK'
  BY <1>1 DEF Allocate
<1>2. ASSUME NEW c \in Cmds, OpenFails(c) PROVE RegOK'
  BY <1>2 DEF OpenFails
<1>3. ASSUME NEW c \in Cmds, HandlerFails(c) PROVE RegOK'
  BY <1>3 DEF HandlerFails
<1>4. ASSUME NEW c \in Cmds, Opened(c) PROVE RegOK'
  BY <1>4 DEF Opened
<1>32. ASSUME NEW c \in Cmds, BeginApproval(c) \/ AttemptFails(c) PROVE RegOK'
  BY <1>32 DEF BeginApproval, AttemptFails
<1>5. ASSUME NEW c \in Cmds, StartStream(c) PROVE RegOK'
  BY <1>5 DEF StartStream
<1>6. ASSUME NEW c \in Cmds, Store(c) PROVE RegOK'
  BY <1>6 DEF Store
<1>7. ASSUME NEW c \in Cmds, StopPruned(c) PROVE RegOK'
  BY <1>7 DEF StopPruned
<1>8. ASSUME NEW c \in Cmds, WaitFails(c) PROVE RegOK'
  BY <1>8 DEF WaitFails
<1>9. ASSUME NEW c \in Cmds, FailReturns(c) PROVE RegOK'
  BY <1>9 DEF FailReturns
<1>10. ASSUME NEW c \in Cmds, WaitReturns(c) PROVE RegOK'
  BY <1>10 DEF WaitReturns
<1>11. ASSUME NEW c \in Cmds, WaitExits(c) PROVE RegOK'
  BY <1>11 DEF WaitExits
<1>12. ASSUME NEW c \in Cmds, ExitReturns(c) PROVE RegOK'
  BY <1>12 DEF ExitReturns
<1>13. ASSUME NEW c \in Cmds, Abort(c) PROVE RegOK'
  BY <1>13 DEF Abort
<1>14. ASSUME NEW i \in Ids, WriteStarts(i) PROVE RegOK'
  BY <1>14 DEF WriteStarts
<1>15. ASSUME NEW k \in {"notty", "closed", "gone", "failed"}, WriteFails(k) PROVE RegOK'
  <2> HIDE DEF StagesOK, TypeOK
  <2>1. TypeOK /\ StagesOK
    OBVIOUS
  <2> USE DEF StagesOK, TypeOK
  <2> QED BY <1>15, <2>1, WriteFailsForm
<1>16. ASSUME PollFails PROVE RegOK'
  BY <1>16 DEF PollFails
<1>17. ASSUME FailedPollReturns PROVE RegOK'
  BY <1>17 DEF FailedPollReturns
<1>18. ASSUME PollReturns PROVE RegOK'
  BY <1>18 DEF PollReturns
<1>19. ASSUME PollExits PROVE RegOK'
  BY <1>19 DEF PollExits
<1>20. ASSUME ExitedPollReturns PROVE RegOK'
  BY <1>20 DEF ExitedPollReturns
<1>21. ASSUME AbortWrite PROVE RegOK'
  BY <1>21 DEF AbortWrite
<1>22. ASSUME Clean PROVE RegOK'
  BY <1>22 DEF Clean
<1>23. ASSUME NEW c \in Cmds, CleanStops(c) PROVE RegOK'
  BY <1>23 DEF CleanStops
<1>24. ASSUME NEW c \in Cmds, NEW p \in {"exited", "failed"}, Exit(c, p) PROVE RegOK'
  BY <1>24 DEF Exit
<1>25. ASSUME NEW c \in Cmds, Deny(c) PROVE RegOK'
  BY <1>25 DEF Deny
<1>26. ASSUME NEW c \in Cmds, GuardStops(c) PROVE RegOK'
  BY <1>26 DEF GuardStops
<1>27. ASSUME NEW c \in Cmds, GuardLeaves(c) PROVE RegOK'
  BY <1>27 DEF GuardLeaves
<1>28. ASSUME NEW c \in Cmds, StreamDrains(c) PROVE RegOK'
  BY <1>28 DEF StreamDrains
<1>29. ASSUME NEW c \in Cmds, WatcherEnds(c) PROVE RegOK'
  BY <1>29 DEF WatcherEnds
<1>30. CASE UNCHANGED vars
  BY <1>30 DEF vars
<1> HIDE DEF IInv, TypeOK, RegOK, IdsOK, StagesOK, Stored, RemoveId, Insert, Active,
        Holding, NoWrite, Early, Pruning, Over, StartedAlive, NoInterrupt
<1> QED BY <1>1, <1>2, <1>3, <1>4, <1>5, <1>6, <1>7, <1>8, <1>9, <1>10,
           <1>11, <1>12, <1>13, <1>14, <1>15, <1>16, <1>17, <1>18, <1>19,
           <1>20, <1>21, <1>22, <1>23, <1>24, <1>25, <1>26, <1>27, <1>28,
           <1>29, <1>30, <1>32
         DEF Next, ExecStep, ProcessTask

-----------------------------------------------------------------------------
(* The theorems. *)

\* The initial states, with the background processes in the store, satisfy
\* the invariant.
LEMMA InitInv ==
    ASSUME Init
    PROVE  IInv
<1> USE NoneIsOutside, CommandSets
<1>1. PICK at \in Injection(Background, Ids) :
          /\ later = [c \in Cmds |-> {d \in Background : c \in Background /\ at[d] > at[c]}]
          /\ store = [i \in Ids |-> IF \E c \in Background : at[c] = i
                                       THEN CHOOSE c \in Background : at[c] = i ELSE None]
  BY DEF Init
<1>2. at \in [Background -> Ids] /\ \A c, d \in Background : at[c] = at[d] => c = d
  BY <1>1 DEF Injection, IsInjective
<1>3. ASSUME NEW i \in Ids
      PROVE  store[i] = None \/ (store[i] \in Background /\ at[store[i]] = i)
  BY <1>1
<1>4. ASSUME NEW c \in Background
      PROVE  at[c] \in Ids /\ store[at[c]] = c
  <2>1. at[c] \in Ids
    BY <1>2
  <2>2. store[at[c]] \in Background /\ at[store[at[c]]] = at[c]
    BY <1>1, <2>1
  <2> QED BY <1>2, <2>1, <2>2
<1>5. Stored = Background
  BY <1>3, <1>4 DEF Stored
<1>6. \A c \in Cmds : stage[c] \in {"idle", "returned"} /\ id[c] = None /\ pruned[c] = None /\ took[c] = None
  BY DEF Init
<1>7. write = NoWrite /\ cleaning = {} /\ reused = FALSE
  BY DEF Init
<1>8. TypeOK
  <2>1. store \in [Ids -> Cmds \cup {None}]
    BY <1>1, <1>3
  <2>2. later \in [Cmds -> SUBSET Cmds]
    BY <1>1
  <2>3. write \in [stage : {"idle", "polling", "failing", "finishing"},
                   id : Ids \cup {None}, cmd : Cmds \cup {None}, took : Cmds \cup {None}]
    BY <1>7 DEF NoWrite
  <2>4. stage \in [Cmds -> {"idle", "returned", "aborted"} \cup Active]
    BY DEF Init
  <2>5. /\ id \in [Cmds -> Ids \cup {None}]
        /\ pruned \in [Cmds -> Cmds \cup {None}]
        /\ took \in [Cmds -> Cmds \cup {None}]
    BY DEF Init
  <2>6. /\ proc \in [Cmds -> {"none", "running", "exited", "failed"}]
        /\ stream \in [Cmds -> {"none", "streaming", "drained"}]
        /\ watcher \in [Cmds -> {"none", "on", "done"}]
        /\ ends \in [Cmds -> Nat]
    BY DEF Init
  <2>7. /\ guard \subseteq Managed /\ reg \subseteq Managed /\ denied \subseteq Managed
        /\ reserved \subseteq Ids /\ cleaning \subseteq Cmds
    BY DEF Init
  <2>8. reused \in BOOLEAN
    BY <1>7
  <2>9. aborts \in 0 .. MaxAborts
    BY BoundIsNatural DEF Init
  <2> QED BY <2>1, <2>2, <2>3, <2>4, <2>5, <2>6, <2>7, <2>8, <2>9 DEF TypeOK
<1>9. StagesOK
  <2>1. \A i \in Ids : store[i] # None => proc[store[i]] # "none" /\ stage[store[i]] \notin Early
    BY <1>3 DEF Init, Early
  <2>2. \A c \in Cmds : c \in guard => proc[c] # "none"
    BY DEF Init
  <2>3. \A c \in Cmds : stage[c] = "idle" => proc[c] = "none" /\ watcher[c] = "none"
    BY DEF Init
  <2>4. \A c \in Cmds : watcher[c] # "done"
    BY DEF Init
  <2> QED BY <1>6, <1>7, <2>1, <2>2, <2>3, <2>4 DEF StagesOK, Early, Active, Holding, NoWrite
<1>10. EndsOK
  BY DEF Init, EndsOK
<1>11. OrderOK
  <2>1. Kept = Background
    BY <1>5, <1>6 DEF Kept
  <2>2. \A c, d \in Background : d \in later[c] <=> at[d] > at[c]
    BY <1>1
  <2>3. \A c \in Background : at[c] \in Nat
    BY <1>2, IdsAreNaturals
  <2> QED BY <1>2, <2>1, <2>2, <2>3 DEF OrderOK
<1>12. BoundOK
  BY <1>5, BackgroundFits DEF BoundOK, StoreIsBounded
<1>13. IdsOK
  BY <1>3, <1>6, <1>7 DEF IdsOK, NoWrite
<1>14. HeldOK /\ ReachOK
  <2>1. \A c \in Cmds : proc[c] = "running" => c \in Stored
    BY <1>5 DEF Init
  <2> QED BY <2>1 DEF HeldOK, ReachOK
<1>15. RegOK
  <2>1. \A c \in reg : c \in Stored /\ stage[c] = "returned"
    BY <1>5 DEF Init
  <2>2. write.stage = "idle"
    BY <1>7 DEF NoWrite
  <2> QED BY <2>1, <2>2 DEF RegOK
<1> QED BY <1>8, <1>9, <1>10, <1>11, <1>12, <1>13, <1>14, <1>15 DEF IInv

\* The inductive invariant holds in every reachable state.
THEOREM Invariance == Spec => []IInv
<1>1. IInv /\ [Next]_vars => IInv'
  <2> SUFFICES ASSUME IInv, [Next]_vars PROVE IInv'
    OBVIOUS
  <2>1. TypeOK' /\ StagesOK' /\ EndsOK' /\ OrderOK' /\ BoundOK'
    BY TypeStep, StagesStep, EndsStep, OrderStep, BoundStep
  <2>2. IdsOK' /\ HeldOK' /\ ReachOK' /\ RegOK'
    BY IdsStep, HeldStep, ReachStep, RegStep
  <2> QED BY <2>1, <2>2 DEF IInv
<1> QED BY <1>1, InitInv, PTL DEF Spec

\* The variables stay in the sets they range over.
THEOREM TypeCorrect == Spec => []TypeOK
<1>1. IInv => TypeOK
  BY DEF IInv
<1> QED BY <1>1, Invariance, PTL

\* No command gets two end events, whichever of its watcher, its call and the
\* calls that poll it comes first.
THEOREM EndIsUnique == Spec => []OneEnd
<1>1. IInv => OneEnd
  BY DEF IInv, EndsOK, OneEnd
<1> QED BY <1>1, Invariance, PTL

\* The store never outgrows MAX_UNIFIED_EXEC_PROCESSES: a full one always has
\* an entry outside the protected ones to prune.
THEOREM StoreKeepsBound == Spec => []StoreIsBounded
<1>1. IInv => StoreIsBounded
  BY DEF IInv, BoundOK
<1> QED BY <1>1, Invariance, PTL

\* Without interrupts and reused ids, every running process can be polled,
\* pruned or cleaned, or is in the hands of a call that will put it there.
THEOREM RunningReachable == Spec => []RunningIsReachable
<1>1. IInv => RunningIsReachable
  <2> SUFFICES ASSUME IInv, NoInterrupt, ~reused, NEW c \in Cmds, proc[c] = "running"
               PROVE  LookedAfter(c)
    BY DEF RunningIsReachable
  <2>1. \/ stage[c] \in {"begin", "storing"}
        \/ c \in Stored \cup cleaning
        \/ \E d \in Cmds : pruned[d] = c
    BY DEF IInv, ReachOK, Pruning
  <2>2. \A d \in Cmds : pruned[d] = c => stage[d] = "pruning"
    BY NoneIsOutside DEF IInv, StagesOK
  <2> QED BY <2>1, <2>2 DEF LookedAfter, Active, Holding
<1> QED BY <1>1, Invariance, PTL

\* Likewise no registration with the network approval service is left behind.
THEOREM RegistrationsEndWithEntry == Spec => []RegistrationsEnd
<1>1. IInv => RegistrationsEnd
  <2> SUFFICES ASSUME IInv, NoInterrupt, ~reused, NEW c \in reg
               PROVE  LookedAfter(c)
    BY DEF RegistrationsEnd
  <2>1. c \in Cmds
    BY CommandSets DEF IInv, TypeOK
  <2>2. \/ stage[c] \in {"opening", "begin", "storing", "waiting", "finishing"}
        \/ c \in Stored \cup cleaning
        \/ \E d \in Cmds : pruned[d] = c
        \/ took[c] = c
        \/ write.took = c
    BY DEF IInv, RegOK, Pruning
  <2>3. \A d \in Cmds : pruned[d] = c => stage[d] = "pruning"
    BY <2>1, NoneIsOutside DEF IInv, StagesOK
  <2>4. took[c] = c => stage[c] = "finishing"
    BY <2>1, NoneIsOutside DEF IInv, StagesOK
  <2> QED BY <2>1, <2>2, <2>3, <2>4 DEF LookedAfter, Active, Holding
<1> QED BY <1>1, Invariance, PTL

\* Only an interrupt of the call makes a call aborted.
LEMMA AbortedByAbort ==
    ASSUME IInv, Next, NEW c \in Cmds, stage[c] # "aborted", stage'[c] = "aborted"
    PROVE  Abort(c)
<1> USE DEF IInv, TypeOK, execVars
<1>1. ASSUME NEW d \in Cmds, Abort(d) PROVE d = c
  BY <1>1 DEF Abort
<1>2. ASSUME NEW d \in Cmds, Store(d) PROVE FALSE
  BY <1>2 DEF Store
<1>3. ASSUME NEW d \in Cmds, NEW i \in Ids, Allocate(d, i) PROVE FALSE
  BY <1>3 DEF Allocate
<1>4. ASSUME NEW d \in Cmds, BeginApproval(d) \/ AttemptFails(d) \/ OpenFails(d) \/ HandlerFails(d) \/ Opened(d) PROVE FALSE
  BY <1>4 DEF BeginApproval, AttemptFails, OpenFails, HandlerFails, Opened
<1>5. ASSUME NEW d \in Cmds, StartStream(d) \/ StopPruned(d) \/ WaitFails(d) PROVE FALSE
  BY <1>5 DEF StartStream, StopPruned, WaitFails
<1>6. ASSUME NEW d \in Cmds, FailReturns(d) \/ WaitReturns(d) \/ WaitExits(d) \/ ExitReturns(d) PROVE FALSE
  BY <1>6 DEF FailReturns, WaitReturns, WaitExits, ExitReturns
<1>7. ASSUME NEW i \in Ids, WriteStarts(i) PROVE FALSE
  BY <1>7 DEF WriteStarts
<1>8. ASSUME NEW k \in {"notty", "closed", "gone", "failed"}, WriteFails(k) PROVE FALSE
  BY <1>8 DEF WriteFails
<1>9. ASSUME PollFails \/ FailedPollReturns \/ PollReturns \/ PollExits \/ ExitedPollReturns \/ AbortWrite \/ Clean
      PROVE  FALSE
  BY <1>9 DEF PollFails, FailedPollReturns, PollReturns, PollExits, ExitedPollReturns, AbortWrite, Clean
<1>10. ASSUME NEW d \in Cmds, CleanStops(d) \/ Deny(d) \/ GuardStops(d) \/ GuardLeaves(d) \/ ProcessTask(d)
       PROVE  FALSE
  BY <1>10 DEF CleanStops, Deny, GuardStops, GuardLeaves, ProcessTask, StreamDrains, WatcherEnds
<1>11. ASSUME NEW d \in Cmds, NEW p \in {"exited", "failed"}, Exit(d, p) PROVE FALSE
  BY <1>11 DEF Exit
<1> HIDE DEF IInv, TypeOK
<1> QED BY <1>1, <1>2, <1>3, <1>4, <1>5, <1>6, <1>7, <1>8, <1>9, <1>10, <1>11 DEF Next, ExecStep

\* The aborts of one call terminate no process whose call got as far as its
\* yield wait, and none of another call, an entry being pruned aside: each of
\* them is held by its watcher, the store, a guard, a cleaner or another call.
THEOREM InterruptSpares == Spec => InterruptSparesProcesses
<1>1. ASSUME IInv, [Next]_vars, ~reused, NEW c \in Cmds, stage[c] # "aborted", stage'[c] = "aborted",
             NEW d \in Cmds, proc[d] = "running",
             d = c => stage[c] \notin {"begin", "storing"},
             d = c /\ stage[c] = "pruning" => NoInterrupt,
             d # pruned[c]
      PROVE  proc'[d] = "running"
  <2>1. Next
    BY <1>1 DEF vars, execVars
  <2>2. Abort(c)
    BY <1>1, <2>1, AbortedByAbort
  <2> USE DEF Abort, storeVars
  <2>3. Held(d)'
    <3>1. CASE stage[d] \in {"begin", "storing", "pruning"} /\ d # c
      <4>1. stage'[d] = stage[d]
        BY <2>2, <3>1 DEF IInv, TypeOK
      <4> QED BY <3>1, <4>1 DEF Held, Holding
    <3>2. CASE watcher[d] = "on" \/ d \in Stored \cup cleaning \cup guard
      BY <2>2, <3>2 DEF Held, Stored
    <3>3. CASE Pruning(d)
      <4>1. PICK e \in Cmds : pruned[e] = d
        BY <3>3 DEF Pruning
      <4>2. e # c /\ pruned'[e] = d
        BY <1>1, <2>2, <4>1 DEF IInv, TypeOK
      <4> QED BY <4>2 DEF Held
    <3>4. CASE stage[d] = "pruning" /\ d = c
      <4>1. d \in Stored \cup cleaning \/ Pruning(d)
        BY <1>1, <3>4 DEF IInv, ReachOK
      <4> QED BY <3>2, <3>3, <4>1
    <3> QED BY <1>1, <3>1, <3>2, <3>3, <3>4 DEF IInv, HeldOK
  <2> QED BY <1>1, <2>2, <2>3 DEF Terminated
<1>2. IInv /\ [Next]_vars =>
        [~reused => \A c \in Cmds : stage[c] # "aborted" /\ stage'[c] = "aborted" =>
           \A d \in Cmds :
              /\ proc[d] = "running"
              /\ d = c => stage[c] \notin {"begin", "storing"}
              /\ d = c /\ stage[c] = "pruning" => NoInterrupt
              /\ d # pruned[c]
              => proc'[d] = "running"]_vars
  BY <1>1
<1> QED BY <1>2, Invariance, PTL DEF Spec, InterruptSparesProcesses

=============================================================================
