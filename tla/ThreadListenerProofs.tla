------------------------ MODULE ThreadListenerProofs ------------------------
(***************************************************************************)
(* Who is subscribed to a thread and who serves it, for any number of      *)
(* connections, listeners, loads and removals: an unload drops nobody, and  *)
(* who was told to be attached is.                                          *)
(***************************************************************************)
EXTENDS ThreadListener, TLAPS, NaturalsInduction, SequenceTheorems, WellFoundedInduction

-----------------------------------------------------------------------------
(* The inductive invariant *)

Handler == job["handler"]

(* Entries and connections that a task holds on to exist; an unload keeps the  *)
(* entry it removed, if there was one, in place of its watch.                   *)
RefsOK ==
    /\ \A l \in Listeners : /\ lis[l].pc # "off" => lis[l].entry # 0
                            /\ lis[l].pc \notin {"off", "clear", "ending"} => lis[l].watch # 0
    /\ \A l \in Listeners : lis[l].pc = "respond" => lis[l].conn \in Conns
    /\ Handler.pc \in {"watch", "set", "command", "watch2", "set2"} => Handler.entry # 0
    /\ Handler.pc \in {"set", "set2"} => Handler.watch # 0

(* A state names a listener task that serves it and is not cancelled. *)
LinksOK ==
    /\ \A e \in 1 .. Len(subs) : current[e] # 0 =>
          lis[current[e]].pc # "off" /\ lis[current[e]].entry = e /\ current[e] \notin fired
    /\ \A l \in fired : lis[l].pc # "off"

(* A listener that is neither cancelled nor ending is named by its state. *)
NamedOK == \A l \in Listeners : l \notin fired /\ lis[l].pc \notin {"off", "ending"} => current[lis[l].entry] = l

(* The mark in pending_thread_unloads stands for an unload under way, and until *)
(* that drops the entry nobody is subscribed to the one it watched; the         *)
(* shutdown it starts outlives the listener.                                    *)
MarkOK ==
    /\ marker # 0 => \/ lis[marker].pc = "remove" /\ subs[lis[marker].watch] = {}
                     \/ lis[marker].pc = "clear"
                     \/ teardown[marker].pc # "off"
    /\ \A l \in Listeners : teardown[l].pc # "off" => lis[l].pc \in {"ending", "off"}

(* The manager's CodexThread runs or is on its way out; it has none while the  *)
(* handler loads one or cleans up.                                              *)
ManagerOK ==
    /\ manager # 0 => manager \in running \/ leaving # 0 \/ \E l \in Listeners : teardown[l].pc = "remove"
    /\ Handler.pc \in {"load", "archive", "fin1", "fin2", "clear", "fin3"} => manager = 0

(* The handler works for a connection that is there. *)
AskerOK == Handler.pc # "idle" => Handler.conn \in live

(* As long as nothing overlapped: a request that found the thread has it, its   *)
(* entry and the listener of that entry.                                        *)
JobOK ==
    /\ Handler.pc = "get" => manager \in running
    /\ Handler.pc \in {"state", "watch", "set", "command", "subscribe", "watch2", "set2", "reply"} =>
          Handler.conv = manager /\ manager \in running
    /\ Handler.pc \in {"watch", "set", "command", "watch2", "set2", "reply"} => Handler.entry = entry /\ entry # 0
    /\ Handler.pc \in {"set", "set2"} => Handler.watch = entry
    /\ Handler.pc \in {"command", "reply"} => current[entry] # 0 /\ lis[current[entry]].conv = manager
    /\ Handler.pc \in {"watch2", "set2", "reply"} => Handler.conn \in subs[entry]
    /\ Handler.pc # "undo"

(* A listener that has commands is the one of the entry, and whom it answers   *)
(* is subscribed.                                                               *)
CommandOK ==
    \A l \in Listeners : queue[l] # <<>> \/ lis[l].pc = "respond" =>
        /\ entry # 0 /\ current[entry] = l /\ lis[l].conv = manager /\ manager \in running
        /\ lis[l].pc = "respond" /\ lis[l].conn \in live => lis[l].conn \in subs[entry]

(* The listener of the entry watches it; the loop cleans up a thread that is    *)
(* gone; nobody is told to be attached to one that the core closes.             *)
CleanupOK ==
    /\ entry # 0 /\ current[entry] # 0 => lis[current[entry]].watch = entry
    /\ job["loop"].pc \in {"fin1", "fin2", "clear", "fin3"} => manager = 0
    /\ leaving # 0 => told = {}

(* Between its two locks remove_thread_state has an entry that is gone and whose *)
(* state still names a listener: no other entry that is gone does, and there is   *)
(* no new one yet.                                                                *)
Clearing(e) ==
    \/ \E a \in {"handler", "loop"} : job[a].pc = "clear" /\ job[a].entry = e
    \/ \E l \in Listeners : lis[l].pc = "clear" /\ lis[l].watch = e
GoneOK ==
    /\ \A e \in 1 .. Len(subs) : e # entry /\ current[e] # 0 => Clearing(e)
    /\ \A a \in {"handler", "loop"} : job[a].pc = "clear" => entry = 0
    /\ \A l \in Listeners : lis[l].pc = "clear" => entry = 0

(* Who unloads the thread decided about the entry it has, and from then on the  *)
(* thread has no subscriber.                                                     *)
DropOK ==
    \A l \in Listeners :
        /\ lis[l].pc = "lock" => Subscribers = {} \/ lis[l].watch = entry
        /\ lis[l].pc \in {"remove", "clear"} \/ teardown[l].pc # "off" => Subscribers = {}

(* Whoever was told to be attached is. *)
AttachedOK == told # {} => manager \in running /\ told \subseteq Subscribers /\ Serving(current[entry])

IInv ==
    /\ TypeOK /\ RefsOK /\ LinksOK /\ NamedOK /\ MarkOK /\ ManagerOK /\ AskerOK
    /\ ~raced => ~Overlap /\ JobOK /\ CommandOK /\ CleanupOK /\ GoneOK /\ DropOK /\ AttachedOK

-----------------------------------------------------------------------------
(* Steps *)

Actors == {"handler", "loop"}

(* The bounds are natural numbers. *)
LEMMA Bounds == /\ MaxOps \in Nat /\ MaxRemovals \in Nat
                /\ MaxLoads \in Nat /\ MaxLoads # 0 /\ MaxListeners \in Nat /\ MaxListeners # 0
                /\ \A l : l \in Listeners <=> l \in Nat /\ 1 <= l /\ l <= MaxListeners
                /\ \A v : v \in Loads <=> v \in Nat /\ 1 <= v /\ v <= MaxLoads
  BY BoundsAreNaturals DEF Listeners, Loads

(* What the types say of entries, listeners and jobs. *)
LEMMA TypeFacts ==
    ASSUME TypeOK
    PROVE  /\ Len(subs) \in Nat /\ entry \in Nat /\ entry <= Len(subs)
           /\ entry # 0 => entry \in 1 .. Len(subs)
           /\ \A e \in 1 .. Len(subs) : subs[e] \subseteq Conns /\ current[e] \in {0} \cup Listeners
           /\ \A l \in Listeners : /\ lis[l].entry # 0 => lis[l].entry \in 1 .. Len(subs)
                                   /\ lis[l].watch # 0 => lis[l].watch \in 1 .. Len(subs)
                                   /\ queue[l] \in Seq(Conns)
           /\ \A a \in Actors : job[a].entry # 0 => job[a].entry \in 1 .. Len(subs)
           /\ manager \in Nat /\ loads \in Nat /\ running \subseteq 1 .. loads /\ manager <= loads
           /\ fired \subseteq Listeners
           /\ marker # 0 => marker \in Listeners
           /\ live \subseteq Conns
<1>1. /\ Len(subs) \in Nat /\ entry \in Nat /\ entry <= Len(subs)
      /\ entry # 0 => entry \in 1 .. Len(subs)
      /\ \A e \in 1 .. Len(subs) : subs[e] \subseteq Conns /\ current[e] \in {0} \cup Listeners
  BY DEF TypeOK, EntryTypes
<1>2. \A l \in Listeners : /\ lis[l].entry \in 0 .. Len(subs) /\ lis[l].watch \in 0 .. Len(subs)
                           /\ queue[l] \in Seq(Conns)
  BY DEF TypeOK, TaskTypes, Task
<1>3. \A a \in Actors : job[a].entry \in 0 .. Len(subs)
  BY DEF TypeOK, JobTypes, Job, Actors
<1>4. /\ manager \in Nat /\ loads \in Nat /\ running \subseteq 1 .. loads /\ manager <= loads
      /\ fired \subseteq Listeners /\ live \subseteq Conns
      /\ marker # 0 => marker \in Listeners
  BY Bounds DEF TypeOK, ThreadTypes, FlagTypes, TaskTypes
<1> QED BY <1>1, <1>2, <1>3, <1>4

(* A step of the handler or of the loop changes where it is, and nothing else. *)
LEMMA SetJobForm ==
    ASSUME TypeOK, NEW a \in Actors, NEW pc, SetJob(a, pc)
    PROVE  /\ job'[a].pc = pc /\ job'[a].conn = job[a].conn /\ job'[a].conv = job[a].conv
           /\ job'[a].entry = job[a].entry /\ job'[a].watch = job[a].watch
           /\ \A b \in Actors : b # a => job'[b] = job[b]
  BY DEF SetJob, TypeOK, JobTypes, Actors

(* Ending a request leaves its actor idle and the other alone. *)
LEMMA FinishForm ==
    ASSUME TypeOK, NEW a \in Actors, Finish(a)
    PROVE  /\ job'[a].pc = "idle" /\ job'[a].conn = None
           /\ \A b \in Actors : b # a => job'[b] = job[b]
  BY DEF Finish, TypeOK, JobTypes, Actors, Idle

(* Taking up a request sets its actor to its first step and leaves the other alone. *)
LEMMA BeginForm ==
    ASSUME TypeOK, NEW a \in Actors, NEW pc, NEW c, Begin(a, pc, c)
    PROVE  /\ job'[a].pc = pc /\ job'[a].conn = c
           /\ \A b \in Actors : b # a => job'[b] = job[b]
  BY DEF Begin, TypeOK, JobTypes, Actors

(* A step at which the handler keeps what it found changes nothing of the loop. *)
LEMMA HandlerAtForm ==
    ASSUME TypeOK, NEW pc, NEW v, NEW e, NEW w, HandlerAt(pc, v, e, w)
    PROVE  /\ Handler'.pc = pc /\ Handler'.conn = Handler.conn /\ Handler'.conv = v
           /\ Handler'.entry = e /\ Handler'.watch = w
           /\ job'["loop"] = job["loop"]
  BY DEF HandlerAt, TypeOK, JobTypes, Handler

(* A step of a listener changes where it is, and nothing else. *)
LEMMA SetLisForm ==
    ASSUME TypeOK, NEW l \in Listeners, NEW pc, SetLis(l, pc)
    PROVE  /\ lis'[l].pc = pc /\ lis'[l].conv = lis[l].conv /\ lis'[l].conn = lis[l].conn
           /\ lis'[l].entry = lis[l].entry /\ lis'[l].watch = lis[l].watch
           /\ \A m \in Listeners : m # l => lis'[m] = lis[m]
  BY DEF SetLis, TypeOK, TaskTypes

(* A listener that takes a connection to answer, or lets it go, keeps the rest. *)
LEMMA SetServingForm ==
    ASSUME TypeOK, NEW l \in Listeners, NEW pc, NEW c, SetServing(l, pc, c)
    PROVE  /\ lis'[l].pc = pc /\ lis'[l].conv = lis[l].conv /\ lis'[l].conn = c
           /\ lis'[l].entry = lis[l].entry /\ lis'[l].watch = lis[l].watch
           /\ \A m \in Listeners : m # l => lis'[m] = lis[m]
  BY DEF SetServing, TypeOK, TaskTypes

(* Subscribing makes an entry if there is none, and leaves the others alone. *)
LEMMA EnsureEntryForm ==
    ASSUME TypeOK, NEW more \in SUBSET Conns, EnsureEntry(more)
    PROVE  /\ subs' \in Seq(SUBSET Conns) /\ current' \in Seq({0} \cup Listeners)
           /\ Len(current') = Len(subs') /\ Len(subs) <= Len(subs')
           /\ entry' \in 1 .. Len(subs')
           /\ subs'[entry'] = Subscribers \cup more
           /\ \A e \in 1 .. Len(subs) : (e # entry => subs'[e] = subs[e]) /\ current'[e] = current[e]
           /\ entry # 0 => entry' = entry /\ current' = current /\ Len(subs') = Len(subs)
           /\ entry = 0 => entry' = Len(subs) + 1 /\ current'[entry'] = 0 /\ Len(subs') = Len(subs) + 1
<1>1. subs \in Seq(SUBSET Conns) /\ current \in Seq({0} \cup Listeners) /\ Len(current) = Len(subs)
      /\ entry \in 0 .. Len(subs)
  BY DEF TypeOK, EntryTypes
<1>2. CASE entry = 0
  <2>1. entry' = Len(subs) + 1 /\ subs' = Append(subs, more) /\ current' = Append(current, 0)
    BY <1>2 DEF EnsureEntry
  <2> QED BY <1>1, <1>2, <2>1 DEF Subscribers
<1>3. CASE entry # 0
  <2>1. subs' = [subs EXCEPT ![entry] = subs[entry] \cup more] /\ UNCHANGED <<entry, current>>
    BY <1>3 DEF EnsureEntry
  <2>2. entry \in 1 .. Len(subs) /\ subs[entry] \cup more \in SUBSET Conns
    BY <1>1, <1>3
  <2> QED BY <1>1, <2>1, <2>2 DEF Subscribers
<1> QED BY <1>2, <1>3

(* Unsubscribing takes the connection from the entry of the thread, if it has one. *)
LEMMA UnsubscribedForm ==
    ASSUME TypeOK, NEW c
    PROVE  /\ Unsubscribed(c) \in Seq(SUBSET Conns) /\ Len(Unsubscribed(c)) = Len(subs)
           /\ \A e \in 1 .. Len(subs) :
                 Unsubscribed(c)[e] = IF e = entry THEN subs[e] \ {c} ELSE subs[e]
<1>1. subs \in Seq(SUBSET Conns) /\ entry \in 0 .. Len(subs)
  BY DEF TypeOK, EntryTypes
<1>2. CASE entry = 0
  BY <1>1, <1>2 DEF Unsubscribed
<1>3. CASE entry # 0
  <2> DEFINE left == subs[entry] \ {c}
  <2>1. Unsubscribed(c) = [subs EXCEPT ![entry] = left]
    BY <1>3 DEF Unsubscribed
  <2>2. entry \in 1 .. Len(subs) /\ left \in SUBSET Conns
    BY <1>1, <1>3
  <2>3. \A e \in 1 .. Len(subs) : left = IF e = entry THEN subs[e] \ {c} ELSE left
    OBVIOUS
  <2> HIDE DEF left
  <2>4. /\ [subs EXCEPT ![entry] = left] \in Seq(SUBSET Conns)
        /\ Len([subs EXCEPT ![entry] = left]) = Len(subs)
        /\ \A e \in 1 .. Len(subs) : [subs EXCEPT ![entry] = left][e] = IF e = entry THEN left ELSE subs[e]
    BY <1>1, <2>2, ExceptSeq
  <2> QED BY <2>1, <2>3, <2>4
<1> QED BY <1>2, <1>3

(* Clearing the state of an entry cancels the listener it named. *)
LEMMA ClearStateForm ==
    ASSUME TypeOK, NEW x \in 0 .. Len(subs), ClearState(x)
    PROVE  /\ entry' = entry /\ subs' = subs /\ live' = live
           /\ current' \in Seq({0} \cup Listeners) /\ Len(current') = Len(subs)
           /\ \A e \in 1 .. Len(subs) : current'[e] = IF e = x THEN 0 ELSE current[e]
           /\ fired' = IF x = 0 THEN fired ELSE fired \cup ({current[x]} \ {0})
           /\ fired' \subseteq Listeners
<1>1. current \in Seq({0} \cup Listeners) /\ Len(current) = Len(subs) /\ fired \subseteq Listeners
      /\ Len(subs) \in Nat
  BY TypeFacts DEF TypeOK, EntryTypes, TaskTypes
<1>2. entry' = entry /\ subs' = subs /\ live' = live
  BY DEF ClearState
<1>3. CASE x = 0
  BY <1>1, <1>2, <1>3 DEF ClearState
<1>4. CASE x # 0
  <2>1. current' = [current EXCEPT ![x] = 0] /\ fired' = fired \cup ({current[x]} \ {0})
    BY <1>4 DEF ClearState, ClearListener
  <2>2. x \in 1 .. Len(current) /\ 0 \in {0} \cup Listeners /\ current[x] \in {0} \cup Listeners
    BY <1>1, <1>4
  <2>3. current' \in Seq({0} \cup Listeners) /\ Len(current') = Len(subs)
        /\ \A e \in 1 .. Len(subs) : current'[e] = IF e = x THEN 0 ELSE current[e]
    BY <1>1, <2>1, <2>2, ExceptSeq
  <2> QED BY <1>1, <1>2, <1>4, <2>1, <2>2, <2>3
<1> QED BY <1>3, <1>4

(* The listener that drops the entry keeps it. *)
LEMMA UnloadRemoveForm ==
    ASSUME TypeOK, NEW l \in Listeners, UnloadRemove(l)
    PROVE  /\ lis[l].pc = "remove" /\ lis'[l].pc = "clear" /\ lis'[l].watch = entry
           /\ lis'[l].entry = lis[l].entry /\ lis'[l].conv = lis[l].conv
           /\ \A m \in Listeners : m # l => lis'[m] = lis[m]
           /\ lis' \in [Listeners -> Task(Len(subs))]
           /\ entry' = 0 /\ UNCHANGED <<live, subs, current, fired, queue, marker, teardown, told, job, threadVars>>
<1>1. lis[l].pc = "remove" /\ lis' = [lis EXCEPT ![l].pc = "clear", ![l].watch = entry]
  BY DEF UnloadRemove
<1>2. entry' = 0 /\ UNCHANGED <<live, subs, current, fired, queue, marker, teardown, told, job, threadVars>>
  BY DEF UnloadRemove, RemoveEntry
<1>3. lis \in [Listeners -> Task(Len(subs))] /\ entry \in 0 .. Len(subs)
  BY DEF TypeOK, TaskTypes, EntryTypes
<1>4. lis' \in [Listeners -> Task(Len(subs))]
  <2>1. [lis[l] EXCEPT !.pc = "clear", !.watch = entry] \in Task(Len(subs))
    BY <1>3 DEF Task, TaskSteps
  <2> QED BY <1>1, <1>3, <2>1
<1> QED BY <1>1, <1>2, <1>3, <1>4 DEF Task

(* The listener then clears the state of what it removed, and ends. *)
LEMMA UnloadClearForm ==
    ASSUME TypeOK, NEW l \in Listeners, UnloadClear(l)
    PROVE  /\ lis[l].pc = "clear" /\ lis'[l].pc = "ending"
           /\ lis'[l].entry = lis[l].entry /\ lis'[l].conv = lis[l].conv /\ lis'[l].watch = lis[l].watch
           /\ \A m \in Listeners : m # l => lis'[m] = lis[m]
           /\ lis' \in [Listeners -> Task(Len(subs))]
           /\ teardown'[l].pc = "shutdown" /\ \A m \in Listeners : m # l => teardown'[m] = teardown[m]
           /\ lis[l].watch \in 0 .. Len(subs)
           /\ entry' = entry /\ subs' = subs /\ current' \in Seq({0} \cup Listeners) /\ Len(current') = Len(subs)
           /\ \A e \in 1 .. Len(subs) : current'[e] = IF e = lis[l].watch THEN 0 ELSE current[e]
           /\ fired' = IF lis[l].watch = 0 THEN fired ELSE fired \cup ({current[lis[l].watch]} \ {0})
           /\ fired' \subseteq Listeners
           /\ UNCHANGED <<live, queue, marker, told, job, threadVars>>
<1>1. lis[l].pc = "clear" /\ ClearState(lis[l].watch) /\ SetLis(l, "ending")
      /\ teardown' = [teardown EXCEPT ![l] = [pc |-> "shutdown", conv |-> lis[l].conv]]
      /\ UNCHANGED <<queue, marker, told, job, threadVars>>
  BY DEF UnloadClear
<1>2. lis[l].watch \in 0 .. Len(subs) /\ teardown \in [Listeners -> Teardown]
  BY DEF TypeOK, TaskTypes, Task
<1>3. /\ entry' = entry /\ subs' = subs /\ live' = live
      /\ current' \in Seq({0} \cup Listeners) /\ Len(current') = Len(subs)
      /\ \A e \in 1 .. Len(subs) : current'[e] = IF e = lis[l].watch THEN 0 ELSE current[e]
      /\ fired' = IF lis[l].watch = 0 THEN fired ELSE fired \cup ({current[lis[l].watch]} \ {0})
      /\ fired' \subseteq Listeners
  BY <1>1, <1>2, ClearStateForm
<1>4. teardown'[l].pc = "shutdown" /\ \A m \in Listeners : m # l => teardown'[m] = teardown[m]
  BY <1>1, <1>2
<1>5. /\ lis'[l].pc = "ending" /\ lis'[l].entry = lis[l].entry /\ lis'[l].conv = lis[l].conv
      /\ lis'[l].watch = lis[l].watch /\ \A m \in Listeners : m # l => lis'[m] = lis[m]
  BY <1>1, SetLisForm
<1>6. lis' \in [Listeners -> Task(Len(subs))]
  BY <1>1 DEF SetLis, TypeOK, TaskTypes, Task, TaskSteps
<1> QED BY <1>1, <1>2, <1>3, <1>4, <1>5, <1>6

(* A step of the cleanup: the entry goes, its state is cleared, or neither. *)
Cleaned(a) ==
    \/ job'[a].pc \in {"fin2", "idle"} /\ job[a].pc # "clear" /\ UNCHANGED <<entry, current, fired>>
    \/ job[a].pc = "fin2" /\ job'[a].pc = "clear" /\ job'[a].entry = entry /\ entry' = 0 /\ UNCHANGED <<current, fired>>
    \/ /\ job[a].pc = "clear" /\ job'[a].pc = "fin3" /\ entry' = entry
       /\ current' \in Seq({0} \cup Listeners) /\ Len(current') = Len(subs)
       /\ \A e \in 1 .. Len(subs) : current'[e] = IF e = job[a].entry THEN 0 ELSE current[e]
       /\ fired' = IF job[a].entry = 0 THEN fired ELSE fired \cup ({current[job[a].entry]} \ {0})
       /\ fired' \subseteq Listeners

(* That, and nothing else, is what Finalize does. *)
LEMMA FinalizeForm ==
    ASSUME TypeOK, NEW a \in Actors, Finalize(a)
    PROVE  /\ job[a].pc \in {"fin1", "fin2", "clear", "fin3"}
           /\ job'[a].pc \in {"fin2", "clear", "fin3", "idle"}
           /\ job'[a].pc = "idle" \/ job'[a].conn = job[a].conn
           /\ \A b \in Actors : b # a => job'[b] = job[b]
           /\ job' \in [Actors -> Job(Len(subs))]
           /\ UNCHANGED <<threadVars, lis, queue, teardown, told, live, subs, boundVars>>
           /\ marker' \in {marker, 0} /\ noted' \in {noted, FALSE}
           /\ job[a].entry \in 0 .. Len(subs)
           /\ Cleaned(a)
<1>1. /\ job \in [Actors -> Job(Len(subs))] /\ job[a] \in Job(Len(subs)) /\ job[a].entry \in 0 .. Len(subs)
      /\ entry \in 0 .. Len(subs)
  BY DEF TypeOK, JobTypes, EntryTypes, Actors, Job
<1>2. /\ job[a].pc \in {"fin1", "fin2", "clear", "fin3"}
      /\ UNCHANGED <<threadVars, lis, queue, teardown, told, live, subs, boundVars>>
      /\ marker' \in {marker, 0} /\ noted' \in {noted, FALSE}
  BY DEF Finalize, RemoveEntry, ClearState, subVars, lisVars
<1>3. CASE job[a].pc = "fin1"
  <2>1. SetJob(a, "fin2") /\ UNCHANGED <<entry, current, fired>>
    BY <1>3 DEF Finalize, subVars, lisVars
  <2>2. job' \in [Actors -> Job(Len(subs))]
    BY <2>1, <1>1 DEF SetJob, Job, JobSteps
  <2> QED BY <1>1, <1>2, <1>3, <2>1, <2>2, SetJobForm DEF Cleaned
<1>4. CASE job[a].pc = "fin2"
  <2>1. entry' = 0 /\ job' = [job EXCEPT ![a].pc = "clear", ![a].entry = entry] /\ UNCHANGED <<current, fired>>
    BY <1>4 DEF Finalize, RemoveEntry, lisVars
  <2>2. job' \in [Actors -> Job(Len(subs))]
    BY <2>1, <1>1 DEF Job, JobSteps
  <2>3. job'[a].pc = "clear" /\ job'[a].entry = entry /\ job'[a].conn = job[a].conn
        /\ \A b \in Actors : b # a => job'[b] = job[b]
    BY <2>1, <1>1 DEF Job
  <2> QED BY <1>1, <1>2, <1>4, <2>1, <2>2, <2>3 DEF Cleaned
<1>5. CASE job[a].pc = "clear"
  <2>1. SetJob(a, "fin3") /\ ClearState(job[a].entry)
    BY <1>5 DEF Finalize
  <2>2. job' \in [Actors -> Job(Len(subs))]
    BY <2>1, <1>1 DEF SetJob, Job, JobSteps
  <2>3. /\ entry' = entry /\ current' \in Seq({0} \cup Listeners) /\ Len(current') = Len(subs)
        /\ \A e \in 1 .. Len(subs) : current'[e] = IF e = job[a].entry THEN 0 ELSE current[e]
        /\ fired' = IF job[a].entry = 0 THEN fired ELSE fired \cup ({current[job[a].entry]} \ {0})
        /\ fired' \subseteq Listeners
    BY <1>1, <2>1, ClearStateForm
  <2> QED BY <1>1, <1>2, <1>5, <2>1, <2>2, <2>3, SetJobForm DEF Cleaned
<1>6. CASE job[a].pc = "fin3"
  <2>1. Finish(a) /\ UNCHANGED <<entry, current, fired>>
    BY <1>6 DEF Finalize, subVars, lisVars
  <2>2. Idle \in Job(Len(subs))
    BY TypeFacts DEF Idle, Job, JobSteps
  <2>3. job' \in [Actors -> Job(Len(subs))]
    BY <2>1, <2>2, <1>1 DEF Finish
  <2> QED BY <1>1, <1>2, <1>6, <2>1, <2>3, FinishForm DEF Cleaned
<1> QED BY <1>2, <1>3, <1>4, <1>5, <1>6

(* A smallest number there is. *)
LEMMA SmallestExists ==
    ASSUME NEW S \in SUBSET Nat, S # {}
    PROVE  \E x \in S : \A y \in S : x <= y
<1>1. PICK x \in S : \A y \in S : ~(<<y, x>> \in OpToRel(<, Nat))
  BY NatLessThanWellFounded, WFMin
<1>2. \A y \in S : ~(y < x)
  BY <1>1 DEF OpToRel
<1> QED BY <1>2

(* The state of the handler's request names a new listener for its CodexThread. *)
Started(l) ==
    /\ lis[l].pc = "off" /\ teardown[l].pc = "off"
    /\ current' \in Seq({0} \cup Listeners) /\ Len(current') = Len(subs)
    /\ \A e \in 1 .. Len(subs) : current'[e] = IF e = Handler.entry THEN l ELSE current[e]
    /\ fired' = fired \cup ({current[Handler.entry]} \ {0}) /\ fired' \subseteq Listeners
    /\ lis'[l].pc = "select" /\ lis'[l].conv = Handler.conv /\ lis'[l].entry = Handler.entry
    /\ lis'[l].watch = Handler.watch
    /\ \A m \in Listeners : m # l => lis'[m] = lis[m]
    /\ lis' \in [Listeners -> Task(Len(subs))]

(* There is a listener it can name. *)
LEMMA StartListenerForm ==
    ASSUME TypeOK, StartListener, Handler.entry # 0
    PROVE  \E l \in Listeners : Started(l)
<1> DEFINE free == {k \in Listeners : lis[k].pc = "off" /\ teardown[k].pc = "off"}
           l == CHOOSE k \in free : \A m \in free : k <= m
<1>1. /\ free # {}
      /\ fired' = fired \cup ({current[Handler.entry]} \ {0})
      /\ current' = [current EXCEPT ![Handler.entry] = l]
      /\ lis' = [lis EXCEPT ![l] = [pc |-> "select", conv |-> Handler.conv, entry |-> Handler.entry,
                                    watch |-> Handler.watch, conn |-> None]]
  BY DEF StartListener, Handler
<1>2. l \in free
  <2>1. free \in SUBSET Nat
    BY Bounds
  <2> QED BY <1>1, <2>1, SmallestExists
<1>3. l \in Listeners /\ lis[l].pc = "off" /\ teardown[l].pc = "off"
  BY <1>2
<1> HIDE DEF l
<1>4. Handler.entry \in 1 .. Len(subs) /\ Handler.conv \in {0} \cup Loads /\ Handler.watch \in 0 .. Len(subs)
  BY DEF TypeOK, JobTypes, Job, Handler
<1>5. current \in Seq({0} \cup Listeners) /\ Len(current) = Len(subs) /\ fired \subseteq Listeners
  BY DEF TypeOK, EntryTypes, TaskTypes
<1>6. Handler.entry \in 1 .. Len(current) /\ l \in {0} \cup Listeners
  BY <1>3, <1>4, <1>5
<1>7. current' \in Seq({0} \cup Listeners) /\ Len(current') = Len(subs)
      /\ \A e \in 1 .. Len(subs) : current'[e] = IF e = Handler.entry THEN l ELSE current[e]
  BY <1>1, <1>5, <1>6, ExceptSeq
<1>8. fired' = fired \cup ({current[Handler.entry]} \ {0}) /\ fired' \subseteq Listeners
  BY <1>1, <1>5, <1>6
<1> DEFINE new == [pc |-> "select", conv |-> Handler.conv, entry |-> Handler.entry,
                   watch |-> Handler.watch, conn |-> None]
<1>9. new \in Task(Len(subs))
  BY <1>4 DEF Task, TaskSteps
<1>10. /\ lis'[l] = new /\ \A m \in Listeners : m # l => lis'[m] = lis[m]
       /\ lis' \in [Listeners -> Task(Len(subs))]
  BY <1>1, <1>3, <1>9 DEF TypeOK, TaskTypes
<1>11. /\ lis'[l].pc = "select" /\ lis'[l].conv = Handler.conv /\ lis'[l].entry = Handler.entry
       /\ lis'[l].watch = Handler.watch
  BY <1>10
<1> QED BY <1>3, <1>7, <1>8, <1>10 DEF Started

(* The listener of the state serves the handler's CodexThread, or a new one will. *)
Ensured ==
    /\ Handler.pc \in {"set", "set2"} /\ Handler.entry \in 1 .. Len(subs) /\ Handler.watch # 0
    /\ UNCHANGED <<threadVars, noted, marker, live, entry, subs, queue, teardown, told, boundVars>>
    /\ job'["handler"].pc \in (IF Handler.pc = "set" THEN {"command", "fail"} ELSE {"reply"})
    /\ job'["handler"].conn = Handler.conn /\ job'["handler"].conv = Handler.conv
    /\ job'["handler"].entry = Handler.entry /\ job'["handler"].watch = Handler.watch
    /\ job'["loop"] = job["loop"]
    /\ \/ ListenerMatches(Handler.entry, Handler.conv) /\ UNCHANGED <<fired, current, lis>>
       \/ ~ListenerMatches(Handler.entry, Handler.conv) /\ \E l \in Listeners : Started(l)

(* That is what EnsureSet does. *)
LEMMA EnsureSetForm ==
    ASSUME TypeOK, RefsOK, EnsureSet
    PROVE  Ensured
<1>1. Handler.pc \in {"set", "set2"} /\ Handler.entry \in 1 .. Len(subs) /\ Handler.watch # 0
  BY TypeFacts DEF EnsureSet, RefsOK, Handler, Actors
<1>2. UNCHANGED <<threadVars, noted, marker, live, entry, subs, queue, teardown, told, boundVars>>
  BY DEF EnsureSet
<1>3. PICK pc \in (IF Handler.pc = "set" THEN {"command", "fail"} ELSE {"reply"}) : SetJob("handler", pc)
  BY DEF EnsureSet, Handler
<1>4. \/ ListenerMatches(Handler.entry, Handler.conv) /\ UNCHANGED <<fired, current, lis>>
      \/ ~ListenerMatches(Handler.entry, Handler.conv) /\ StartListener
  BY DEF EnsureSet, Handler
<1>5. Handler.entry # 0
  BY <1>1
<1> QED BY <1>1, <1>2, <1>3, <1>4, SetJobForm, StartListenerForm DEF Handler, Actors, Ensured

(* The elements of a sequence without its first, and with one more. *)
LEMMA Shorter ==
    ASSUME NEW S, NEW s \in Seq(S), s # <<>>
    PROVE  /\ Head(s) \in S /\ Head(s) = s[1] /\ 1 \in DOMAIN s
           /\ \A k \in DOMAIN Tail(s) : /\ k + 1 \in DOMAIN s /\ k + 1 # 1 /\ Tail(s)[k] = s[k + 1]
                                        /\ \A i \in DOMAIN Tail(s) : k # i => k + 1 # i + 1
  OBVIOUS

(* Adding to a sequence leaves what it has in place. *)
LEMMA Longer ==
    ASSUME NEW S, NEW s \in Seq(S), NEW e \in S
    PROVE  /\ \A k \in DOMAIN Append(s, e) : \/ k \in DOMAIN s /\ Append(s, e)[k] = s[k]
                                             \/ k = Len(s) + 1 /\ Append(s, e)[k] = e
           /\ Len(s) + 1 \notin DOMAIN s /\ Append(s, e) # <<>>
  OBVIOUS

(* The commands of a listener, when the first is taken, and when one is added. *)
LEMMA Taken ==
    ASSUME TypeOK, NEW l \in Listeners, queue[l] # <<>>, queue' = [queue EXCEPT ![l] = Tail(@)]
    PROVE  /\ Head(queue[l]) \in Conns /\ Head(queue[l]) = queue[l][1] /\ 1 \in DOMAIN queue[l]
           /\ \A m \in Listeners : m # l => queue'[m] = queue[m]
           /\ \A k \in DOMAIN queue'[l] :
                 /\ k + 1 \in DOMAIN queue[l] /\ k + 1 # 1 /\ queue'[l][k] = queue[l][k + 1]
                 /\ \A i \in DOMAIN queue'[l] : k # i => k + 1 # i + 1
<1>1. queue[l] \in Seq(Conns) /\ queue'[l] = Tail(queue[l]) /\ \A m \in Listeners : m # l => queue'[m] = queue[m]
  BY DEF TypeOK, TaskTypes
<1> DEFINE q == queue[l]
<1>2. q \in Seq(Conns) /\ q # <<>>
  BY <1>1
<1> HIDE DEF q
<1>3. /\ Head(q) \in Conns /\ Head(q) = q[1] /\ 1 \in DOMAIN q
      /\ \A k \in DOMAIN Tail(q) : /\ k + 1 \in DOMAIN q /\ k + 1 # 1 /\ Tail(q)[k] = q[k + 1]
                                   /\ \A i \in DOMAIN Tail(q) : k # i => k + 1 # i + 1
  BY <1>2, Shorter
<1> QED BY <1>1, <1>3, Zenon DEF q

(* A command that is added comes after those the listener has. *)
LEMMA Added ==
    ASSUME TypeOK, NEW l \in Listeners, NEW c \in Conns, queue' = [queue EXCEPT ![l] = Append(@, c)]
    PROVE  /\ \A m \in Listeners : m # l => queue'[m] = queue[m]
           /\ Len(queue[l]) + 1 \notin DOMAIN queue[l] /\ queue'[l] # <<>>
           /\ \A k \in DOMAIN queue'[l] : \/ k \in DOMAIN queue[l] /\ queue'[l][k] = queue[l][k]
                                          \/ k = Len(queue[l]) + 1 /\ queue'[l][k] = c
<1>1. queue[l] \in Seq(Conns) /\ queue'[l] = Append(queue[l], c) /\ \A m \in Listeners : m # l => queue'[m] = queue[m]
  BY DEF TypeOK, TaskTypes
<1> DEFINE q == queue[l]
<1>2. q \in Seq(Conns)
  BY <1>1
<1> HIDE DEF q
<1>3. /\ \A k \in DOMAIN Append(q, c) : \/ k \in DOMAIN q /\ Append(q, c)[k] = q[k]
                                        \/ k = Len(q) + 1 /\ Append(q, c)[k] = c
      /\ Len(q) + 1 \notin DOMAIN q /\ Append(q, c) # <<>>
  BY <1>2, Longer
<1>4. q = queue[l] /\ queue'[l] = Append(q, c)
  BY <1>1 DEF q
<1> QED BY <1>1, <1>3, <1>4

(* A resume command goes to the listener that the state names, if it names one. *)
LEMMA ResumeCommandForm ==
    ASSUME TypeOK, RefsOK, AskerOK, ResumeCommand
    PROVE  /\ Handler.pc = "command" /\ Handler.entry \in 1 .. Len(subs) /\ Handler.conn \in Conns
           /\ UNCHANGED <<threadVars, noted, marker, subVars, lis, fired, teardown, told, boundVars>>
           /\ job'["loop"] = job["loop"]
           /\ \/ /\ current[Handler.entry] = 0 /\ UNCHANGED queue
                 /\ job'["handler"].pc = "fail" /\ job'["handler"].conn = Handler.conn
              \/ \E l \in Listeners :
                    /\ l = current[Handler.entry]
                    /\ queue' = [queue EXCEPT ![l] = Append(@, Handler.conn)]
                    /\ job'["handler"].pc = "idle"
<1>1. Handler.pc = "command" /\ Handler.entry \in 1 .. Len(subs) /\ Handler.conn \in Conns
  BY TypeFacts DEF ResumeCommand, RefsOK, AskerOK, Handler, Actors
<1>2. UNCHANGED <<threadVars, noted, marker, subVars, lis, fired, teardown, told, boundVars>>
  BY DEF ResumeCommand
<1>3. CASE current[Handler.entry] = 0
  <2>1. SetJob("handler", "fail") /\ UNCHANGED queue
    BY <1>3 DEF ResumeCommand, Handler
  <2> QED BY <1>1, <1>2, <1>3, <2>1, SetJobForm DEF Actors, Handler
<1>4. CASE current[Handler.entry] # 0
  <2>1. Finish("handler") /\ queue' = [queue EXCEPT ![current[Handler.entry]] = Append(@, Handler.conn)]
    BY <1>4 DEF ResumeCommand, Handler
  <2>2. current[Handler.entry] \in Listeners
    BY <1>1, <1>4, TypeFacts
  <2>3. job'["loop"] = job["loop"] /\ job'["handler"].pc = "idle"
    BY <2>1, FinishForm DEF Actors
  <2> QED BY <1>1, <1>2, <2>1, <2>2, <2>3
<1> QED BY <1>3, <1>4

(* A listener that ends is forgotten by the state that names it. *)
LEMMA ListenerEndsForm ==
    ASSUME TypeOK, RefsOK, LinksOK, NEW l \in Listeners, ListenerEnds(l)
    PROVE  /\ lis[l].pc = "ending" /\ lis'[l].pc = "off" /\ fired' = fired \ {l} /\ subs' = subs /\ entry' = entry
           /\ \A m \in Listeners : m # l => lis'[m] = lis[m]
           /\ \A e \in 1 .. Len(subs) : current'[e] = IF current[e] = l THEN 0 ELSE current[e]
<1>1. /\ lis[l].pc = "ending" /\ lis' = [lis EXCEPT ![l] = Off] /\ subs' = subs /\ entry' = entry /\ fired' = fired \ {l}
      /\ current' = IF current[lis[l].entry] = l THEN [current EXCEPT ![lis[l].entry] = 0] ELSE current
  BY DEF ListenerEnds, Ended
<1>2. lis[l].entry \in 1 .. Len(subs)
  BY <1>1, TypeFacts DEF RefsOK
<1>3. \A e \in 1 .. Len(subs) : current[e] = l => e = lis[l].entry
  BY Bounds DEF LinksOK
<1>4. \A e \in 1 .. Len(subs) : current'[e] = IF current[e] = l THEN 0 ELSE current[e]
  BY <1>1, <1>3 DEF TypeOK, EntryTypes
<1>5. lis'[l].pc = "off" /\ \A m \in Listeners : m # l => lis'[m] = lis[m]
  BY <1>1 DEF TypeOK, TaskTypes, Off
<1> QED BY <1>1, <1>4, <1>5

-----------------------------------------------------------------------------
(* Types *)

(* What fits fewer entries fits more. *)
LEMMA Widen ==
    ASSUME NEW n \in Nat, NEW m \in Nat, n <= m
    PROVE  Task(n) \subseteq Task(m) /\ Job(n) \subseteq Job(m)
  BY DEF Task, Job

(* Steps of jobs and tasks keep their types. *)
LEMMA SetJobTyped ==
    ASSUME TypeOK, NEW a \in Actors, NEW pc \in JobSteps, SetJob(a, pc)
    PROVE  job' \in [Actors -> Job(Len(subs))]
  BY DEF SetJob, TypeOK, JobTypes, Job, Actors

(* Ending a request keeps the type of the actors. *)
LEMMA FinishTyped ==
    ASSUME TypeOK, NEW a \in Actors, Finish(a)
    PROVE  job' \in [Actors -> Job(Len(subs))]
<1>1. Idle \in Job(Len(subs))
  BY TypeFacts DEF Idle, Job, JobSteps
<1>2. job \in [Actors -> Job(Len(subs))] /\ job' = [job EXCEPT ![a] = Idle]
  BY DEF Finish, TypeOK, JobTypes, Actors
<1> QED BY <1>1, <1>2

(* So does taking one up, *)
LEMMA BeginTyped ==
    ASSUME TypeOK, NEW a \in Actors, NEW pc \in JobSteps, NEW c \in Conns, Begin(a, pc, c)
    PROVE  job' \in [Actors -> Job(Len(subs))]
<1>1. [pc |-> pc, conn |-> c, conv |-> 0, entry |-> 0, watch |-> 0] \in Job(Len(subs))
  BY TypeFacts DEF Job
<1>2. job \in [Actors -> Job(Len(subs))]
      /\ job' = [job EXCEPT ![a] = [pc |-> pc, conn |-> c, conv |-> 0, entry |-> 0, watch |-> 0]]
  BY DEF Begin, TypeOK, JobTypes, Actors
<1> QED BY <1>1, <1>2

(* and so does keeping what the handler found. *)
LEMMA HandlerAtTyped ==
    ASSUME TypeOK, NEW n \in Nat, Len(subs) <= n, NEW pc \in JobSteps, NEW v \in {0} \cup Loads,
           NEW e \in 0 .. n, NEW w \in 0 .. n, HandlerAt(pc, v, e, w)
    PROVE  job' \in [Actors -> Job(n)]
<1>1. job \in [Actors -> Job(n)]
  BY Widen DEF TypeOK, JobTypes, Actors
<1>2. [pc |-> pc, conn |-> job["handler"].conn, conv |-> v, entry |-> e, watch |-> w] \in Job(n)
  BY <1>1 DEF Job, Actors
<1> QED BY <1>1, <1>2 DEF HandlerAt

(* A step of a listener keeps the type of the tasks, *)
LEMMA SetLisTyped ==
    ASSUME TypeOK, NEW l \in Listeners, NEW pc \in TaskSteps, SetLis(l, pc)
    PROVE  lis' \in [Listeners -> Task(Len(subs))]
  BY DEF SetLis, TypeOK, TaskTypes, Task

(* with or without a connection to answer. *)
LEMMA SetServingTyped ==
    ASSUME TypeOK, NEW l \in Listeners, NEW pc \in TaskSteps, NEW c \in Conns \cup {None}, SetServing(l, pc, c)
    PROVE  lis' \in [Listeners -> Task(Len(subs))]
  BY DEF SetServing, TypeOK, TaskTypes, Task

-----------------------------------------------------------------------------
(* Steps that overlap nothing *)

(* While a request is under way, no unload and no cleanup is. *)
LEMMA CalmRequest ==
    ASSUME ~Overlap, Handler.pc # "idle" \/ \E l \in Listeners : queue[l] # <<>> \/ lis[l].pc = "respond"
    PROVE  /\ marker = 0 /\ leaving = 0 /\ job["loop"].pc \notin {"check", "archive", "fin1", "fin2", "clear", "fin3"}
           /\ \A l \in Listeners : lis[l].pc \notin {"lock", "remove", "clear", "ending"} /\ teardown[l].pc = "off"
  BY DEF Overlap, Requested, Commanded, UnloadUnderWay, unloading, CleaningUp, Handler

(* While a resume command is, the handler cleans nothing up. *)
LEMMA CalmCommand ==
    ASSUME ~Overlap, NEW l \in Listeners, queue[l] # <<>> \/ lis[l].pc = "respond"
    PROVE  Handler.pc \notin {"check", "archive", "fin1", "fin2", "clear", "fin3"}
  BY DEF Overlap, Commanded, CleaningUp, Handler

(* A step after which nothing has overlapped: nothing had before, no request   *)
(* lost its CodexThread, and neither a request nor a command meets a cleanup.  *)
LEMMA CalmStep ==
    ASSUME IInv, [Next]_vars, ~raced'
    PROVE  /\ ~raced /\ ~Overlap /\ ~Overlap'
           /\ (Handler.pc # "idle" \/ \E l \in Listeners : queue[l] # <<>> \/ lis[l].pc = "respond") /\ manager # 0
                => manager' # 0
           /\ \A l \in Listeners : lis[l].pc = "respond" /\ lis[l].conn \in Subscribers \cap live'
                => lis[l].conn \in Subscribers'
<1>1. CASE Next
  BY <1>1 DEF Next, Watch, Deserted, Requested, Commanded, Handler, IInv
<1>2. CASE UNCHANGED vars
  <2>1. ~raced /\ ~Overlap /\ manager' = manager
    BY <1>2 DEF vars, threadVars, IInv
  <2>2. ~Overlap'
    BY <2>1, <1>2 DEF vars, threadVars, lisVars, Overlap, Requested, Commanded, UnloadUnderWay, unloading, CleaningUp
  <2>3. Subscribers' = Subscribers
    BY <1>2 DEF vars, subVars, Subscribers
  <2> QED BY <2>1, <2>2, <2>3
<1> QED BY <1>1, <1>2

(* The same of the state after the step. *)
LEMMA CalmAfter ==
    ASSUME ~Overlap'
    PROVE  /\ job'["handler"].pc # "idle" \/ (\E l \in Listeners : queue'[l] # <<>> \/ lis'[l].pc = "respond") =>
                 /\ marker' = 0 /\ leaving' = 0
                 /\ job'["loop"].pc \notin {"check", "archive", "fin1", "fin2", "clear", "fin3"}
                 /\ \A l \in Listeners : lis'[l].pc \notin {"lock", "remove", "clear", "ending"} /\ teardown'[l].pc = "off"
           /\ (\E l \in Listeners : queue'[l] # <<>> \/ lis'[l].pc = "respond") =>
                 job'["handler"].pc \notin {"check", "archive", "fin1", "fin2", "clear", "fin3"}
  BY DEF Overlap, Requested, Commanded, UnloadUnderWay, unloading, CleaningUp

(* The variables keep their types: the CodexThreads, ... *)
LEMMA ThreadTypesStep ==
    ASSUME IInv, [Next]_vars
    PROVE  ThreadTypes'
<1>i. TypeOK
  BY DEF IInv
<1>s. ThreadTypes
  BY <1>i DEF TypeOK
<1>1. ASSUME NEW c \in Conns, Archive(c) PROVE ThreadTypes'
  BY <1>1, <1>s, Bounds DEF Archive, ThreadTypes
<1>2. ASSUME ResumeLoad PROVE ThreadTypes'
  <2>1. CASE UNCHANGED threadVars
    BY <2>1, <1>s DEF ThreadTypes, threadVars
  <2>2. CASE /\ loads < MaxLoads /\ loads' = loads + 1 /\ manager' = loads + 1
             /\ running' = running \cup {loads + 1} /\ UNCHANGED <<busy, leaving>>
    <3>1. loads' \in Loads /\ manager' \in 0 .. loads' /\ busy' \subseteq running' /\ leaving' \in 0 .. loads'
      BY <2>2, <1>s, Bounds DEF ThreadTypes
    <3>2. ASSUME NEW v \in running' PROVE v \in 1 .. loads'
      <4>1. loads \in Nat /\ (v \in 1 .. loads \/ v = loads + 1)
        BY <2>2, <1>s, Bounds DEF ThreadTypes
      <4> QED BY <2>2, <4>1
    <3> QED BY <3>1, <3>2 DEF ThreadTypes
  <2>3. CASE manager' \in {manager, 0} /\ UNCHANGED <<loads, running, busy, leaving>>
    BY <2>3, <1>s, Bounds DEF ThreadTypes
  <2> QED BY <1>2, <2>1, <2>2, <2>3 DEF ResumeLoad
<1>3. ASSUME ArchiveShutdown PROVE ThreadTypes'
  BY <1>3, <1>s DEF ArchiveShutdown, ThreadTypes
<1>4. ASSUME CoreTurn PROVE ThreadTypes'
  BY <1>4, <1>s DEF CoreTurn, TurnStart, TurnEnd, ThreadTypes
<1>5. ASSUME CoreCloses \/ CoreEnds \/ CoreRemoves PROVE ThreadTypes'
  <2>1. loads' = loads /\ loads \in Loads /\ 0 \in 0 .. loads /\ manager' \in {manager, 0} /\ leaving' \in {manager, leaving, 0}
    BY <1>5, <1>s, Bounds DEF CoreCloses, CoreEnds, CoreRemoves, ThreadTypes
  <2>2. running' \subseteq running /\ busy' \subseteq running'
    BY <1>5, <1>s DEF CoreCloses, CoreEnds, CoreRemoves, ThreadTypes
  <2> QED BY <2>1, <2>2, <1>s DEF ThreadTypes
<1>6. ASSUME NEW l \in Listeners, TeardownShutdown(l) PROVE ThreadTypes'
  BY <1>6, <1>s DEF TeardownShutdown, ThreadTypes
<1>7. ASSUME NEW l \in Listeners, TeardownRemove(l) PROVE ThreadTypes'
  BY <1>7, <1>s, Bounds DEF TeardownRemove, ThreadTypes
<1>8. CASE UNCHANGED <<manager, loads, running, busy, leaving>>
  BY <1>8, <1>s, Bounds DEF ThreadTypes
<1> QED BY <1>1, <1>2, <1>3, <1>4, <1>5, <1>6, <1>7, <1>8
      DEF Next, HandlerStep, LoopStep, ListenerStep, TeardownStep, vars, threadVars, Resume, Unsubscribe,
          ConnectionClosed, ResumeLook, ResumeState, ResumeCommand, EnsureGet, EnsureSubscribe, EnsureWatch,
          EnsureSet, EnsureUndo, Reply, Finalize, RemoveConnection, CheckThread, ListenerBreaks, ListenerEnds,
          Ended, ListenerHears, ListenerResumes, ListenerResponds, UnloadTrigger, UnloadLock, UnloadRemove,
          UnloadClear,
          TeardownForget, TeardownRelease

(* ... the flags and the connections, ... *)
LEMMA FlagTypesStep ==
    ASSUME IInv, [Next]_vars
    PROVE  FlagTypes'
<1>i. TypeOK /\ RefsOK /\ AskerOK
  BY DEF IInv
<1>s. FlagTypes
  BY <1>i DEF TypeOK
<1>1. ASSUME NEW c \in Conns, Resume(c) PROVE FlagTypes'
  BY <1>1, <1>s, Bounds DEF Resume, subVars, FlagTypes
<1>2. ASSUME NEW c \in Conns, Unsubscribe(c) PROVE FlagTypes'
  BY <1>2, <1>s, Bounds DEF Unsubscribe, FlagTypes
<1>3. ASSUME NEW c \in Conns, Archive(c) PROVE FlagTypes'
  BY <1>3, <1>s, Bounds DEF Archive, subVars, FlagTypes
<1>4. ASSUME Reply PROVE FlagTypes'
  <2>1. Handler.conn \in Conns
    BY <1>4, <1>i, <1>s DEF Reply, AskerOK, Handler, FlagTypes
  <2>2. told' \in {told, told \cup {Handler.conn}}
        /\ UNCHANGED <<noted, marker, live, ops, removals>>
    BY <1>4 DEF Reply, Handler, subVars, boundVars
  <2> QED BY <2>1, <2>2, <1>s DEF FlagTypes
<1>5. ASSUME NEW a \in Actors, Finalize(a) PROVE FlagTypes'
  BY <1>5, FinalizeForm, <1>i, <1>s DEF boundVars, FlagTypes
<1>6. ASSUME RemoveConnection PROVE FlagTypes'
  BY <1>6, <1>s DEF RemoveConnection, boundVars, FlagTypes
<1>7. ASSUME CoreCloses PROVE FlagTypes'
  BY <1>7, <1>s, Bounds DEF CoreCloses, subVars, FlagTypes
<1>8. ASSUME NEW l \in Listeners, ListenerHears(l) PROVE FlagTypes'
  BY <1>8, <1>s DEF ListenerHears, subVars, boundVars, FlagTypes
<1>9. ASSUME NEW l \in Listeners, ListenerResumes(l) PROVE FlagTypes'
  BY <1>9, <1>s DEF ListenerResumes, boundVars, FlagTypes
<1>10. ASSUME NEW l \in Listeners, ListenerResponds(l) PROVE FlagTypes'
  BY <1>10, <1>s DEF ListenerResponds, subVars, boundVars, FlagTypes
<1>11. ASSUME NEW l \in Listeners, UnloadLock(l) PROVE FlagTypes'
  BY <1>11, <1>s DEF UnloadLock, subVars, boundVars, FlagTypes
<1>12. ASSUME NEW l \in Listeners, UnloadRemove(l) PROVE FlagTypes'
  BY <1>12, <1>s DEF UnloadRemove, RemoveEntry, boundVars, FlagTypes
<1>13. ASSUME NEW l \in Listeners, TeardownForget(l) PROVE FlagTypes'
  BY <1>13, <1>s DEF TeardownForget, subVars, boundVars, FlagTypes
<1>14. ASSUME NEW l \in Listeners, TeardownRelease(l) PROVE FlagTypes'
  BY <1>14, <1>s DEF TeardownRelease, subVars, boundVars, FlagTypes
<1>15. CASE UNCHANGED <<noted, marker, live, told, ops, removals>>
  BY <1>15, <1>s DEF FlagTypes
<1> QED BY <1>1, <1>2, <1>3, <1>4, <1>5, <1>6, <1>7, <1>8, <1>9, <1>10, <1>11, <1>12, <1>13, <1>14, <1>15
      DEF Next, HandlerStep, LoopStep, ListenerStep, TeardownStep, Actors, vars, subVars, boundVars,
          ConnectionClosed, ResumeLook, ResumeState, ResumeCommand, ResumeLoad, ArchiveShutdown, EnsureGet,
          EnsureSubscribe, EnsureWatch, EnsureSet, EnsureUndo, CheckThread, CoreTurn, CoreEnds, CoreRemoves, ListenerBreaks,
          ListenerEnds, Ended, UnloadTrigger, UnloadClear, ClearState, TeardownShutdown, TeardownRemove

(* ... the entries, ... *)
LEMMA EntryTypesStep ==
    ASSUME IInv, [Next]_vars
    PROVE  EntryTypes' /\ Len(subs) <= Len(subs')
<1>i. TypeOK /\ RefsOK /\ LinksOK
  BY DEF IInv
<1>s. EntryTypes /\ Len(subs) \in Nat
  BY <1>i, TypeFacts DEF TypeOK
<1>1. ASSUME NEW c \in Conns, Unsubscribe(c) PROVE EntryTypes' /\ Len(subs) <= Len(subs')
  BY <1>1, UnsubscribedForm, <1>i, <1>s DEF Unsubscribe, EntryTypes
<1>2. ASSUME ResumeState PROVE EntryTypes' /\ Len(subs) <= Len(subs')
  BY <1>2, EnsureEntryForm, <1>i DEF ResumeState, EntryTypes
<1>3. ASSUME EnsureSubscribe PROVE EntryTypes' /\ Len(subs) <= Len(subs')
  BY <1>3, EnsureEntryForm, <1>i, <1>s, TypeFacts DEF EnsureSubscribe, EntryTypes
<1>4. ASSUME EnsureSet PROVE EntryTypes' /\ Len(subs) <= Len(subs')
  <2>1. Ensured
    BY <1>4, <1>i, EnsureSetForm
  <2> QED BY <2>1, <1>s DEF Ensured, Started, EntryTypes
<1>5. ASSUME EnsureUndo PROVE EntryTypes' /\ Len(subs) <= Len(subs')
  BY <1>5, UnsubscribedForm, <1>i, <1>s DEF EnsureUndo, EntryTypes
<1>6. ASSUME NEW a \in Actors, Finalize(a) PROVE EntryTypes' /\ Len(subs) <= Len(subs')
  <2>1. subs' = subs /\ Cleaned(a)
    BY <1>6, <1>i, FinalizeForm
  <2>2. entry' \in 0 .. Len(subs) /\ current' \in Seq({0} \cup Listeners) /\ Len(current') = Len(subs)
    BY <2>1, <1>s DEF Cleaned, EntryTypes
  <2> QED BY <2>1, <2>2, <1>s DEF EntryTypes
<1>7. ASSUME RemoveConnection PROVE EntryTypes' /\ Len(subs) <= Len(subs')
  BY <1>7, UnsubscribedForm, <1>i, <1>s DEF RemoveConnection, EntryTypes
<1>8. ASSUME NEW l \in Listeners, ListenerEnds(l) PROVE EntryTypes' /\ Len(subs) <= Len(subs')
  <2>1. /\ subs' = subs /\ entry' = entry /\ lis[l].pc = "ending"
        /\ current' = IF current[lis[l].entry] = l THEN [current EXCEPT ![lis[l].entry] = 0] ELSE current
    BY <1>8 DEF ListenerEnds, Ended
  <2>2. lis[l].entry \in 1 .. Len(current) /\ 0 \in {0} \cup Listeners
    BY <2>1, <1>i, <1>s, TypeFacts DEF RefsOK, EntryTypes
  <2>3. current' \in Seq({0} \cup Listeners) /\ Len(current') = Len(current)
    BY <2>1, <1>s DEF EntryTypes
  <2> QED BY <2>1, <2>3, <1>s DEF EntryTypes
<1>9. ASSUME NEW l \in Listeners, ListenerResumes(l) PROVE EntryTypes' /\ Len(subs) <= Len(subs')
  BY <1>9, EnsureEntryForm, <1>i, <1>s, TypeFacts DEF ListenerResumes, EntryTypes
<1>10. ASSUME NEW l \in Listeners, UnloadRemove(l) \/ UnloadClear(l) PROVE EntryTypes' /\ Len(subs) <= Len(subs')
  BY <1>10, UnloadRemoveForm, UnloadClearForm, <1>i, <1>s DEF EntryTypes
<1>11. CASE UNCHANGED <<entry, subs, current>>
  BY <1>11, <1>i, <1>s DEF EntryTypes
<1> QED BY <1>1, <1>2, <1>3, <1>4, <1>5, <1>6, <1>7, <1>8, <1>9, <1>10, <1>11
      DEF Next, HandlerStep, LoopStep, ListenerStep, TeardownStep, Actors, vars, subVars, Resume, Archive,
          ConnectionClosed, ResumeLook, ResumeCommand, ResumeLoad, ArchiveShutdown, EnsureGet, EnsureWatch,
          Reply, CheckThread, CoreTurn, CoreCloses, CoreEnds, CoreRemoves, ListenerBreaks, ListenerHears, ListenerResponds,
          UnloadTrigger, UnloadLock, TeardownShutdown, TeardownRemove, TeardownForget, TeardownRelease

(* ... the listener tasks, ... *)
LEMMA TaskTypesStep ==
    ASSUME IInv, [Next]_vars
    PROVE  lis' \in [Listeners -> Task(Len(subs))] /\ queue' \in [Listeners -> Seq(Conns)]
           /\ fired' \subseteq Listeners
<1> DEFINE Fits == lis' \in [Listeners -> Task(Len(subs))] /\ queue' \in [Listeners -> Seq(Conns)]
                   /\ fired' \subseteq Listeners
<1>i. TypeOK /\ RefsOK /\ AskerOK
  BY DEF IInv
<1>s. lis \in [Listeners -> Task(Len(subs))] /\ queue \in [Listeners -> Seq(Conns)] /\ fired \subseteq Listeners
  BY <1>i DEF TypeOK, TaskTypes
<1>1. ASSUME ResumeCommand PROVE Fits
  <2>1. UNCHANGED <<lis, fired>> /\ Handler.conn \in Conns
    BY <1>1, <1>i, TypeFacts DEF ResumeCommand, AskerOK, Handler
  <2>2. UNCHANGED queue \/ \E l \in Listeners : queue' = [queue EXCEPT ![l] = Append(@, Handler.conn)]
    <3>1. current[Handler.entry] \in {0} \cup Listeners
      BY <1>1, <1>i, TypeFacts DEF ResumeCommand, RefsOK, Handler, Actors
    <3> QED BY <1>1, <3>1 DEF ResumeCommand, Handler
  <2>3. CASE \E l \in Listeners : queue' = [queue EXCEPT ![l] = Append(@, Handler.conn)]
    <3>1. PICK l \in Listeners : queue' = [queue EXCEPT ![l] = Append(queue[l], Handler.conn)]
      BY <2>3
    <3>2. Append(queue[l], Handler.conn) \in Seq(Conns)
      BY <2>1, <1>s
    <3> QED BY <2>1, <3>1, <3>2, <1>s
  <2> QED BY <2>1, <2>2, <2>3, <1>s
<1>2. ASSUME EnsureSet PROVE Fits
  BY <1>2, <1>i, <1>s, EnsureSetForm DEF Ensured, Started
<1>3. ASSUME NEW a \in Actors, Finalize(a) PROVE Fits
  BY <1>3, FinalizeForm, <1>i, <1>s DEF Cleaned
<1>4. ASSUME NEW l \in Listeners, ListenerBreaks(l) PROVE Fits
  BY <1>4, SetLisTyped, <1>i, <1>s DEF ListenerBreaks, TaskSteps
<1>5. ASSUME NEW l \in Listeners, ListenerEnds(l) PROVE Fits
  <2>1. Off \in Task(Len(subs))
    BY DEF Off, Task, TaskSteps
  <2>2. lis' = [lis EXCEPT ![l] = Off] /\ queue' = [queue EXCEPT ![l] = <<>>] /\ fired' = fired \ {l}
    BY <1>5 DEF ListenerEnds, Ended
  <2> QED BY <2>1, <2>2, <1>s
<1>6. ASSUME NEW l \in Listeners, ListenerResumes(l) PROVE Fits
  BY <1>6, SetServingTyped, <1>i, <1>s DEF ListenerResumes, TaskSteps
<1>7. ASSUME NEW l \in Listeners, ListenerResponds(l) PROVE Fits
  BY <1>7, SetServingTyped, <1>i, <1>s DEF ListenerResponds, TaskSteps
<1>8. ASSUME NEW l \in Listeners, UnloadTrigger(l) PROVE Fits
  BY <1>8, SetLisTyped, <1>i, <1>s DEF UnloadTrigger, TaskSteps
<1>9. ASSUME NEW l \in Listeners, UnloadLock(l) PROVE Fits
  BY <1>9, SetLisTyped, <1>i, <1>s DEF UnloadLock, TaskSteps
<1>10. ASSUME NEW l \in Listeners, UnloadRemove(l) \/ UnloadClear(l) PROVE Fits
  BY <1>10, UnloadRemoveForm, UnloadClearForm, <1>i, <1>s
<1>11. CASE UNCHANGED <<lis, queue, fired>>
  BY <1>11, <1>s
<1> QED BY <1>1, <1>2, <1>3, <1>4, <1>5, <1>6, <1>7, <1>8, <1>9, <1>10, <1>11
      DEF Next, HandlerStep, LoopStep, ListenerStep, TeardownStep, Actors, vars, lisVars, Resume, Unsubscribe,
          Archive, ConnectionClosed, ResumeLook, ResumeState, ResumeLoad, ArchiveShutdown, EnsureGet,
          EnsureSubscribe, EnsureWatch, EnsureUndo, Reply, RemoveConnection, CheckThread, CoreTurn,
          CoreCloses, CoreEnds, CoreRemoves, ListenerHears, TeardownShutdown, TeardownRemove, TeardownForget, TeardownRelease

(* ... their shutdowns ... *)
LEMMA TeardownTypesStep ==
    ASSUME IInv, [Next]_vars
    PROVE  teardown' \in [Listeners -> Teardown]
<1>i. TypeOK /\ RefsOK
  BY DEF IInv
<1>s. teardown \in [Listeners -> Teardown] /\ \A l \in Listeners : lis[l].conv \in {0} \cup Loads
  BY <1>i DEF TypeOK, TaskTypes, Task
<1>1. ASSUME NEW l \in Listeners, UnloadClear(l) PROVE teardown' \in [Listeners -> Teardown]
  BY <1>1, <1>s DEF UnloadClear, Teardown

<1>2. ASSUME NEW l \in Listeners, TeardownShutdown(l) PROVE teardown' \in [Listeners -> Teardown]
  BY <1>2, <1>s DEF TeardownShutdown, Teardown
<1>3. ASSUME NEW l \in Listeners, TeardownRemove(l) PROVE teardown' \in [Listeners -> Teardown]
  BY <1>3, <1>s DEF TeardownRemove, Teardown
<1>4. ASSUME NEW l \in Listeners, TeardownForget(l) PROVE teardown' \in [Listeners -> Teardown]
  BY <1>4, <1>s DEF TeardownForget, Teardown
<1>5. ASSUME NEW l \in Listeners, TeardownRelease(l) PROVE teardown' \in [Listeners -> Teardown]
  BY <1>5, <1>s DEF TeardownRelease, NoTeardown, Teardown
<1>6. CASE UNCHANGED <<teardown>>
  BY <1>6, <1>s DEF Teardown
<1> QED BY <1>1, <1>2, <1>3, <1>4, <1>5, <1>6
      DEF Next, HandlerStep, LoopStep, ListenerStep, TeardownStep, vars, Resume, Unsubscribe, Archive,
          ConnectionClosed, ResumeLook, ResumeState, ResumeCommand, ResumeLoad, ArchiveShutdown, EnsureGet,
          EnsureSubscribe, EnsureWatch, EnsureSet, EnsureUndo, Reply, Finalize, RemoveConnection, CheckThread,
          CoreTurn, CoreCloses, CoreEnds, CoreRemoves, ListenerBreaks, ListenerEnds, Ended, ListenerHears, ListenerResumes,
          ListenerResponds, UnloadTrigger, UnloadLock, UnloadRemove

(* ... and the jobs. *)
LEMMA JobTypesStep ==
    ASSUME IInv, [Next]_vars
    PROVE  job' \in [Actors -> Job(Len(subs'))]
<1>i. TypeOK /\ RefsOK
  BY DEF IInv
<1>s. Len(subs) \in Nat /\ Len(subs') \in Nat /\ Len(subs) <= Len(subs')
  BY EntryTypesStep, <1>i, TypeFacts DEF EntryTypes
<1>w. job \in [Actors -> Job(Len(subs'))] /\ (job' \in [Actors -> Job(Len(subs))] => job' \in [Actors -> Job(Len(subs'))])
  BY <1>s, <1>i, Widen DEF TypeOK, JobTypes, Actors
<1>1. ASSUME NEW c \in Conns, Resume(c) PROVE job' \in [Actors -> Job(Len(subs'))]
  BY <1>1, BeginTyped, <1>i, <1>w DEF Resume, Actors, JobSteps
<1>2. ASSUME NEW c \in Conns, Unsubscribe(c) PROVE job' \in [Actors -> Job(Len(subs'))]
  BY <1>2, BeginTyped, <1>i, <1>w DEF Unsubscribe, Actors, JobSteps
<1>3. ASSUME NEW c \in Conns, Archive(c) PROVE job' \in [Actors -> Job(Len(subs'))]
  BY <1>3, BeginTyped, <1>i, <1>w DEF Archive, Actors, JobSteps
<1>4. ASSUME NEW c \in Conns, ConnectionClosed(c) PROVE job' \in [Actors -> Job(Len(subs'))]
  BY <1>4, BeginTyped, <1>i, <1>w DEF ConnectionClosed, Actors, JobSteps
<1>5. ASSUME ResumeLook PROVE job' \in [Actors -> Job(Len(subs'))]
  <2>1. job["handler"].conv \in {0} \cup Loads /\ manager \in {0} \cup Loads
    BY <1>i, Bounds DEF TypeOK, JobTypes, ThreadTypes, Job
  <2>2. entry' \in 0 .. Len(subs') /\ entry \in 0 .. Len(subs') /\ job["handler"].entry \in 0 .. Len(subs')
    BY <1>i, TypeFacts, EntryTypesStep DEF EntryTypes, Actors
  <2> QED BY <2>1, <1>5, HandlerAtTyped, <1>i, <1>w DEF ResumeLook, JobSteps
<1>6. ASSUME ResumeState PROVE job' \in [Actors -> Job(Len(subs'))]
  <2>1. HandlerAt("watch", job["handler"].conv, entry', 0)
    BY <1>6 DEF ResumeState
  <2>2. job["handler"].conv \in {0} \cup Loads /\ entry' \in 0 .. Len(subs')
    BY <1>i, EntryTypesStep DEF TypeOK, JobTypes, Job, EntryTypes
  <2>3. "watch" \in JobSteps /\ 0 \in 0 .. Len(subs')
    BY <1>s DEF JobSteps
  <2> QED BY <2>1, <2>2, <2>3, <1>i, <1>s, HandlerAtTyped
<1>7. ASSUME ResumeCommand PROVE job' \in [Actors -> Job(Len(subs'))]
  BY <1>7, SetJobTyped, FinishTyped, <1>i, <1>w DEF ResumeCommand, Actors, JobSteps
<1>8. ASSUME ResumeLoad PROVE job' \in [Actors -> Job(Len(subs'))]
  BY <1>8, SetJobTyped, <1>i, <1>w DEF ResumeLoad, Actors, JobSteps
<1>9. ASSUME ArchiveShutdown PROVE job' \in [Actors -> Job(Len(subs'))]
  BY <1>9, SetJobTyped, <1>i, <1>w DEF ArchiveShutdown, Actors, JobSteps
<1>10. ASSUME EnsureGet PROVE job' \in [Actors -> Job(Len(subs'))]
  <2>1. job["handler"].conv \in {0} \cup Loads /\ manager \in {0} \cup Loads
    BY <1>i, Bounds DEF TypeOK, JobTypes, ThreadTypes, Job
  <2>2. entry' \in 0 .. Len(subs') /\ entry \in 0 .. Len(subs') /\ job["handler"].entry \in 0 .. Len(subs')
    BY <1>i, TypeFacts, EntryTypesStep DEF EntryTypes, Actors
  <2> QED BY <2>1, <1>10, HandlerAtTyped, <1>i, <1>w DEF EnsureGet, JobSteps
<1>11. ASSUME EnsureSubscribe PROVE job' \in [Actors -> Job(Len(subs'))]
  <2>1. HandlerAt("watch2", job["handler"].conv, entry', 0) \/ SetJob("handler", "reply")
    BY <1>11 DEF EnsureSubscribe
  <2>2. job["handler"].conv \in {0} \cup Loads /\ entry' \in 0 .. Len(subs')
    BY <1>i, EntryTypesStep DEF TypeOK, JobTypes, Job, EntryTypes
  <2>3. "watch2" \in JobSteps /\ "reply" \in JobSteps /\ "handler" \in Actors /\ 0 \in 0 .. Len(subs')
    BY <1>s DEF JobSteps, Actors
  <2> QED BY <2>1, <2>2, <2>3, <1>i, <1>s, <1>w, HandlerAtTyped, SetJobTyped
<1>12. ASSUME EnsureWatch PROVE job' \in [Actors -> Job(Len(subs'))]
  <2> DEFINE j == job["handler"]
  <2>1. CASE entry = 0
    BY <1>12, <2>1, <1>i, <1>w, SetJobTyped DEF EnsureWatch, JobSteps, Actors
  <2>2. CASE entry # 0
    <3>1. HandlerAt(IF j.pc = "watch" THEN "set" ELSE "set2", j.conv, j.entry, entry)
      BY <1>12, <2>2 DEF EnsureWatch
    <3>2. j.conv \in {0} \cup Loads /\ j.entry \in 0 .. Len(subs') /\ entry \in 0 .. Len(subs')
      BY <1>i, <1>s DEF TypeOK, JobTypes, EntryTypes, Job
    <3> QED BY <3>1, <3>2, <1>i, <1>s, HandlerAtTyped DEF JobSteps
  <2> QED BY <2>1, <2>2
<1>13. ASSUME EnsureSet PROVE job' \in [Actors -> Job(Len(subs'))]
  BY <1>13, <1>i, SetJobTyped DEF EnsureSet, Actors, JobSteps
<1>14. ASSUME EnsureUndo PROVE job' \in [Actors -> Job(Len(subs'))]
  BY <1>14, SetJobTyped, <1>i, <1>w DEF EnsureUndo, Actors, JobSteps
<1>15. ASSUME Reply PROVE job' \in [Actors -> Job(Len(subs'))]
  BY <1>15, FinishTyped, <1>i, <1>w DEF Reply, Actors
<1>16. ASSUME NEW a \in Actors, Finalize(a) PROVE job' \in [Actors -> Job(Len(subs'))]
  BY <1>16, FinalizeForm, <1>i, <1>w
<1>17. ASSUME RemoveConnection PROVE job' \in [Actors -> Job(Len(subs'))]
  BY <1>17, SetJobTyped, FinishTyped, <1>i, <1>w DEF RemoveConnection, Actors, JobSteps
<1>18. ASSUME CheckThread PROVE job' \in [Actors -> Job(Len(subs'))]
  BY <1>18, SetJobTyped, FinishTyped, <1>i, <1>w DEF CheckThread, Actors, JobSteps
<1>19. ASSUME NEW l \in Listeners, ListenerResumes(l) PROVE job' \in [Actors -> Job(Len(subs'))]
  BY <1>19, <1>w DEF ListenerResumes
<1>20. CASE UNCHANGED <<job, subs>>
  BY <1>20, <1>w
<1> QED BY <1>1, <1>2, <1>3, <1>4, <1>5, <1>6, <1>7, <1>8, <1>9, <1>10, <1>11, <1>12, <1>13, <1>14, <1>15,
      <1>16, <1>17, <1>18, <1>19, <1>20
      DEF Next, HandlerStep, LoopStep, ListenerStep, TeardownStep, Actors, vars, subVars, CoreTurn,
          CoreCloses, CoreEnds, CoreRemoves, ListenerBreaks, ListenerEnds, Ended, ListenerHears, ListenerResponds, UnloadTrigger,
          UnloadLock, UnloadRemove, UnloadClear, RemoveEntry, ClearState, TeardownShutdown, TeardownRemove, TeardownForget,
          TeardownRelease

(* What tasks refer to exists. *)
LEMMA RefsStep ==
    ASSUME IInv, [Next]_vars
    PROVE  RefsOK'
<1>i. TypeOK /\ RefsOK
  BY DEF IInv
<1>1. ASSUME NEW c \in Conns, Resume(c) PROVE RefsOK'
  BY <1>1, BeginForm, <1>i DEF Resume, Actors, lisVars, RefsOK, Handler
<1>2. ASSUME NEW c \in Conns, Unsubscribe(c) PROVE RefsOK'
  BY <1>2, BeginForm, <1>i DEF Unsubscribe, Actors, lisVars, RefsOK, Handler
<1>3. ASSUME NEW c \in Conns, Archive(c) PROVE RefsOK'
  BY <1>3, BeginForm, <1>i DEF Archive, Actors, lisVars, RefsOK, Handler
<1>4. ASSUME NEW c \in Conns, ConnectionClosed(c) PROVE RefsOK'
  BY <1>4, BeginForm, <1>i DEF ConnectionClosed, Actors, lisVars, RefsOK, Handler
<1>5. ASSUME ResumeLook PROVE RefsOK'
  BY <1>5, HandlerAtForm, <1>i DEF ResumeLook, lisVars, RefsOK
<1>6. ASSUME ResumeState PROVE RefsOK'
  BY <1>6, HandlerAtForm, EnsureEntryForm, <1>i DEF ResumeState, lisVars, RefsOK
<1>7. ASSUME ResumeCommand PROVE RefsOK'
  BY <1>7, SetJobForm, FinishForm, <1>i DEF ResumeCommand, Actors, RefsOK, Handler
<1>8. ASSUME ResumeLoad PROVE RefsOK'
  BY <1>8, SetJobForm, <1>i DEF ResumeLoad, Actors, lisVars, RefsOK, Handler
<1>9. ASSUME ArchiveShutdown PROVE RefsOK'
  BY <1>9, SetJobForm, <1>i DEF ArchiveShutdown, Actors, lisVars, RefsOK, Handler
<1>10. ASSUME EnsureGet PROVE RefsOK'
  BY <1>10, HandlerAtForm, <1>i DEF EnsureGet, lisVars, RefsOK
<1>11. ASSUME EnsureSubscribe PROVE RefsOK'
  BY <1>11, SetJobForm, HandlerAtForm, EnsureEntryForm, <1>i, TypeFacts
     DEF EnsureSubscribe, Actors, lisVars, RefsOK, Handler
<1>12. ASSUME EnsureWatch PROVE RefsOK'
  BY <1>12, SetJobForm, HandlerAtForm, <1>i DEF EnsureWatch, Actors, lisVars, RefsOK, Handler
<1>13. ASSUME EnsureSet PROVE RefsOK'
  <2>1. Ensured
    BY <1>13, <1>i, EnsureSetForm
  <2>2. /\ job'["handler"].pc \in {"command", "fail", "reply"} /\ job'["handler"].entry = Handler.entry /\ Handler.entry # 0
        /\ Handler.watch # 0
    BY <2>1 DEF Ensured
  <2>3. CASE UNCHANGED lis
    BY <2>2, <2>3, <1>i DEF RefsOK, Handler
  <2>4. CASE \E l \in Listeners : Started(l)
    BY <2>2, <2>4, <1>i DEF RefsOK, Handler, Started
  <2> QED BY <2>1, <2>3, <2>4 DEF Ensured
<1>14. ASSUME EnsureUndo PROVE RefsOK'
  BY <1>14, SetJobForm, <1>i DEF EnsureUndo, Actors, lisVars, RefsOK, Handler
<1>15. ASSUME Reply PROVE RefsOK'
  BY <1>15, FinishForm, <1>i DEF Reply, Actors, lisVars, RefsOK, Handler
<1>16. ASSUME NEW a \in Actors, Finalize(a) PROVE RefsOK'
  BY <1>16, FinalizeForm, <1>i DEF Actors, RefsOK, Handler
<1>17. ASSUME RemoveConnection PROVE RefsOK'
  BY <1>17, SetJobForm, FinishForm, <1>i DEF RemoveConnection, Actors, lisVars, RefsOK, Handler
<1>18. ASSUME CheckThread PROVE RefsOK'
  BY <1>18, SetJobForm, FinishForm, <1>i DEF CheckThread, Actors, lisVars, RefsOK, Handler
<1>19. ASSUME NEW l \in Listeners, ListenerBreaks(l) PROVE RefsOK'
  <2>1. SetLis(l, "ending") /\ UNCHANGED job /\ lis[l].pc = "select"
    BY <1>19 DEF ListenerBreaks
  <2> QED BY <2>1, <1>i, SetLisForm DEF RefsOK, Handler
<1>20. ASSUME NEW l \in Listeners, ListenerEnds(l) PROVE RefsOK'
  BY <1>20, <1>i DEF ListenerEnds, Ended, Off, RefsOK, Handler
<1>21. ASSUME NEW l \in Listeners, ListenerResumes(l) PROVE RefsOK'
  <2>1. UNCHANGED job /\ lis[l].pc = "select" /\ Head(queue[l]) \in Conns
    BY <1>21, <1>i, TypeFacts DEF ListenerResumes, Selecting
  <2>2. UNCHANGED lis \/ SetServing(l, "respond", Head(queue[l]))
    BY <1>21 DEF ListenerResumes
  <2> QED BY <2>1, <2>2, <1>i, SetServingForm DEF RefsOK, Handler
<1>22. ASSUME NEW l \in Listeners, ListenerResponds(l) PROVE RefsOK'
  BY <1>22, SetServingForm, <1>i DEF ListenerResponds, RefsOK, Handler
<1>23. ASSUME NEW l \in Listeners, UnloadTrigger(l) PROVE RefsOK'
  BY <1>23, SetLisForm, <1>i DEF UnloadTrigger, Selecting, RefsOK, Handler
<1>24. ASSUME NEW l \in Listeners, UnloadLock(l) PROVE RefsOK'
  <2>1. (SetLis(l, "select") \/ SetLis(l, "remove")) /\ UNCHANGED job /\ lis[l].pc = "lock"
    BY <1>24 DEF UnloadLock
  <2> QED BY <2>1, <1>i, SetLisForm DEF RefsOK, Handler
<1>25. ASSUME NEW l \in Listeners, UnloadRemove(l) \/ UnloadClear(l) PROVE RefsOK'
  BY <1>25, UnloadRemoveForm, UnloadClearForm, <1>i DEF RefsOK, Handler
<1>26. CASE UNCHANGED <<lis, job>>
  BY <1>26, <1>i DEF RefsOK, Handler
<1> QED BY <1>1, <1>2, <1>3, <1>4, <1>5, <1>6, <1>7, <1>8, <1>9, <1>10, <1>11, <1>12, <1>13, <1>14, <1>15,
      <1>16, <1>17, <1>18, <1>19, <1>20, <1>21, <1>22, <1>23, <1>24, <1>25, <1>26
      DEF Next, HandlerStep, LoopStep, ListenerStep, TeardownStep, Actors, vars, lisVars, CoreTurn,
          CoreCloses, CoreEnds, CoreRemoves, ListenerHears, TeardownShutdown, TeardownRemove, TeardownForget, TeardownRelease

(* A state names a listener of its own. *)
LEMMA LinksStep ==
    ASSUME IInv, [Next]_vars
    PROVE  LinksOK'
<1>i. TypeOK /\ RefsOK /\ LinksOK
  BY DEF IInv
<1>1. ASSUME NEW c \in Conns, Unsubscribe(c) PROVE LinksOK'
  BY <1>1, UnsubscribedForm, <1>i DEF Unsubscribe, lisVars, LinksOK
<1>2. ASSUME ResumeState PROVE LinksOK'
  BY <1>2, EnsureEntryForm, <1>i DEF ResumeState, lisVars, LinksOK
<1>3. ASSUME EnsureSubscribe PROVE LinksOK'
  BY <1>3, EnsureEntryForm, <1>i, TypeFacts DEF EnsureSubscribe, lisVars, LinksOK
<1>4. ASSUME EnsureSet PROVE LinksOK'
  <2>1. Ensured
    BY <1>4, <1>i, EnsureSetForm
  <2>2. CASE UNCHANGED <<fired, current, lis>>
    BY <2>1, <2>2, <1>i DEF Ensured, LinksOK
  <2>3. CASE \E l \in Listeners : Started(l)
    <3>1. PICK l \in Listeners : Started(l)
      BY <2>3
    <3>2. l \notin fired /\ \A e \in 1 .. Len(subs) : current[e] # l
      <4>1. lis[l].pc = "off" /\ l # 0
        BY <3>1, Bounds DEF Started
      <4> QED BY <4>1, <1>i, TypeFacts DEF LinksOK
    <3>3. \A e \in 1 .. Len(subs) : current'[e] # 0 =>
             lis'[current'[e]].pc # "off" /\ lis'[current'[e]].entry = e /\ current'[e] \notin fired'
      <4> SUFFICES ASSUME NEW e \in 1 .. Len(subs), current'[e] # 0
                   PROVE  lis'[current'[e]].pc # "off" /\ lis'[current'[e]].entry = e /\ current'[e] \notin fired'
        OBVIOUS
      <4>1. CASE e = Handler.entry
        BY <3>1, <3>2, <4>1 DEF Started
      <4>2. CASE e # Handler.entry
        BY <2>1, <3>2, <1>i DEF Started, Ensured, LinksOK
      <4> QED BY <4>1, <4>2
    <3>4. \A m \in fired' : lis'[m].pc # "off"
      BY <2>1, <1>i DEF Started, Ensured, LinksOK
    <3> QED BY <2>1, <3>3, <3>4 DEF LinksOK, Ensured
  <2> QED BY <2>1, <2>2, <2>3 DEF Ensured
<1>5. ASSUME EnsureUndo PROVE LinksOK'
  BY <1>5, UnsubscribedForm, <1>i DEF EnsureUndo, lisVars, LinksOK
<1>6. ASSUME NEW a \in Actors, Finalize(a) PROVE LinksOK'
  <2>1. UNCHANGED <<subs, lis>> /\ job[a].entry \in 0 .. Len(subs) /\ Cleaned(a)
    BY <1>6, <1>i, FinalizeForm
  <2>2. CASE UNCHANGED <<current, fired>>
    BY <2>1, <2>2, <1>i DEF LinksOK
  <2>3. ASSUME NEW x \in 0 .. Len(subs),
               \A e \in 1 .. Len(subs) : current'[e] = IF e = x THEN 0 ELSE current[e],
               fired' = IF x = 0 THEN fired ELSE fired \cup ({current[x]} \ {0})
        PROVE  LinksOK'
    <3>1. \A e \in 1 .. Len(subs) : current'[e] # 0 => current'[e] = current[e] /\ current[e] \notin fired'
      BY <2>3, <1>i, TypeFacts DEF LinksOK
    <3>2. \A m \in fired' : lis[m].pc # "off"
      BY <2>3, <1>i, TypeFacts DEF LinksOK
    <3> QED BY <2>1, <3>1, <3>2, <1>i DEF LinksOK
  <2> QED BY <2>1, <2>2, <2>3 DEF Cleaned
<1>7. ASSUME RemoveConnection PROVE LinksOK'
  BY <1>7, UnsubscribedForm, <1>i DEF RemoveConnection, lisVars, LinksOK
<1>8. ASSUME NEW l \in Listeners, ListenerBreaks(l) PROVE LinksOK'
  <2>1. SetLis(l, "ending") /\ UNCHANGED <<subs, current, fired>> /\ fired \subseteq Listeners
    BY <1>8, <1>i, TypeFacts DEF ListenerBreaks, subVars
  <2>2. \A m \in Listeners : lis'[m].entry = lis[m].entry /\ (lis[m].pc # "off" => lis'[m].pc # "off")
    BY <2>1, <1>i, SetLisForm
  <2>3. \A e \in 1 .. Len(subs) : current[e] # 0 => current[e] \in Listeners
    BY <1>i, TypeFacts
  <2> QED BY <2>1, <2>2, <2>3, <1>i DEF LinksOK
<1>9. ASSUME NEW l \in Listeners, ListenerEnds(l) PROVE LinksOK'
  BY <1>9, <1>i, ListenerEndsForm, TypeFacts DEF LinksOK
<1>10. ASSUME NEW l \in Listeners, ListenerResumes(l) PROVE LinksOK'
  <2>1. UNCHANGED fired /\ lis[l].pc = "select"
    BY <1>10 DEF ListenerResumes, Selecting
  <2>2. CASE UNCHANGED <<lis, subs, current>>
    BY <2>1, <2>2, <1>i DEF LinksOK
  <2>3. CASE SetServing(l, "respond", Head(queue[l])) /\ EnsureEntry({Head(queue[l])})
    <3>1. Head(queue[l]) \in Conns
      BY <1>10, <1>i, TypeFacts DEF ListenerResumes
    <3>2. \A m \in Listeners : lis'[m].entry = lis[m].entry /\ (lis[m].pc # "off" => lis'[m].pc # "off")
      BY <2>1, <2>3, <1>i, SetServingForm
    <3>3. \A e \in 1 .. Len(subs') : (e \in 1 .. Len(subs) /\ current'[e] = current[e]) \/ current'[e] = 0
      BY <2>3, <3>1, <1>i, EnsureEntryForm
    <3> QED BY <2>1, <3>2, <3>3, <1>i, TypeFacts DEF LinksOK
  <2> QED BY <1>10, <2>2, <2>3 DEF ListenerResumes
<1>11. ASSUME NEW l \in Listeners, ListenerResponds(l) PROVE LinksOK'
  BY <1>11, SetServingForm, <1>i, TypeFacts DEF ListenerResponds, subVars, LinksOK
<1>12. ASSUME NEW l \in Listeners, UnloadTrigger(l) PROVE LinksOK'
  BY <1>12, SetLisForm, <1>i, TypeFacts DEF UnloadTrigger, ShouldUnload, threadVars, subVars, LinksOK
<1>13. ASSUME NEW l \in Listeners, UnloadLock(l) PROVE LinksOK'
  <2>1. (SetLis(l, "select") \/ SetLis(l, "remove")) /\ UNCHANGED <<subs, current, fired>> /\ lis[l].pc = "lock"
    BY <1>13 DEF UnloadLock, subVars
  <2>2. \A m \in Listeners : lis'[m].entry = lis[m].entry /\ (lis[m].pc # "off" => lis'[m].pc # "off")
    BY <2>1, <1>i, SetLisForm
  <2> QED BY <2>1, <2>2, <1>i, TypeFacts DEF LinksOK
<1>14. ASSUME NEW l \in Listeners, UnloadRemove(l) PROVE LinksOK'
  BY <1>14, UnloadRemoveForm, <1>i, TypeFacts DEF LinksOK
<1>16. ASSUME NEW l \in Listeners, UnloadClear(l) PROVE LinksOK'
  <2> DEFINE x == lis[l].watch
  <2>1. /\ lis[l].pc = "clear" /\ lis'[l].pc = "ending" /\ lis'[l].entry = lis[l].entry
        /\ \A m \in Listeners : m # l => lis'[m] = lis[m]
        /\ subs' = subs /\ x \in 0 .. Len(subs)
        /\ \A e \in 1 .. Len(subs) : current'[e] = IF e = x THEN 0 ELSE current[e]
        /\ fired' = IF x = 0 THEN fired ELSE fired \cup ({current[x]} \ {0})
    BY <1>16, <1>i, UnloadClearForm
  <2> HIDE DEF x
  <2>2. \A e \in 1 .. Len(subs) : current'[e] # 0 => current'[e] = current[e] /\ current[e] \notin fired'
    BY <2>1, <1>i, TypeFacts DEF LinksOK
  <2>3. \A m \in fired' : m \in Listeners /\ lis[m].pc # "off"
    BY <2>1, <1>i, TypeFacts DEF LinksOK
  <2> QED BY <2>1, <2>2, <2>3, <1>i, TypeFacts DEF LinksOK
<1>15. CASE UNCHANGED <<subs, current, lis, fired>>
  BY <1>15, <1>i DEF LinksOK
<1> QED BY <1>1, <1>2, <1>3, <1>4, <1>5, <1>6, <1>7, <1>8, <1>9, <1>10, <1>11, <1>12, <1>13, <1>14, <1>15, <1>16
      DEF Next, HandlerStep, LoopStep, ListenerStep, TeardownStep, Actors, vars, subVars, lisVars, Resume,
          Archive, ConnectionClosed, ResumeLook, ResumeCommand, ResumeLoad, ArchiveShutdown, EnsureGet,
          EnsureWatch, Reply, CheckThread, CoreTurn, CoreCloses, CoreEnds, CoreRemoves, ListenerHears, TeardownShutdown,
          TeardownRemove, TeardownForget, TeardownRelease

(* Clearing a state cancels the listener it named, so that none it does not name is left. *)
LEMMA NamedCleared ==
    ASSUME TypeOK, RefsOK, NamedOK, NEW x \in 0 .. Len(subs),
           \A e \in 1 .. Len(subs) : current'[e] = IF e = x THEN 0 ELSE current[e],
           fired' = IF x = 0 THEN fired ELSE fired \cup ({current[x]} \ {0}),
           \A l \in Listeners : lis'[l] = lis[l] \/ lis'[l].pc = "ending"
    PROVE  NamedOK'
<1> SUFFICES ASSUME NEW l \in Listeners, l \notin fired', lis'[l].pc \notin {"off", "ending"}
             PROVE  current'[lis'[l].entry] = l
  BY DEF NamedOK
<1>1. lis'[l] = lis[l] /\ l \notin fired
  OBVIOUS
<1>2. current[lis[l].entry] = l /\ lis[l].entry \in 1 .. Len(subs) /\ l # 0
  BY <1>1, TypeFacts, Bounds DEF NamedOK, RefsOK
<1>3. lis[l].entry # x
  BY <1>2
<1> QED BY <1>1, <1>2, <1>3

(* Steps that neither clear a state nor set a listener keep it. *)
LEMMA NamedKept ==
    ASSUME TypeOK, RefsOK, NamedOK, fired \subseteq fired',
           \A e \in 1 .. Len(subs) : current'[e] = current[e],
           \A l \in Listeners : \/ lis'[l].pc \in {"off", "ending"}
                                \/ lis[l].pc \notin {"off", "ending"} /\ lis'[l].entry = lis[l].entry
    PROVE  NamedOK'
<1> SUFFICES ASSUME NEW l \in Listeners, l \notin fired', lis'[l].pc \notin {"off", "ending"}
             PROVE  current'[lis'[l].entry] = l
  BY DEF NamedOK
<1>1. l \notin fired /\ lis[l].pc \notin {"off", "ending"} /\ lis'[l].entry = lis[l].entry
  OBVIOUS
<1>2. current[lis[l].entry] = l /\ lis[l].entry \in 1 .. Len(subs)
  BY <1>1, TypeFacts DEF NamedOK, RefsOK
<1> QED BY <1>1, <1>2

(* A listener that runs is named by its state. *)
LEMMA NamedStep ==
    ASSUME IInv, [Next]_vars
    PROVE  NamedOK'
<1>i. TypeOK /\ RefsOK /\ LinksOK /\ NamedOK
  BY DEF IInv
<1>1. ASSUME ResumeState PROVE NamedOK'
  <2>1. EnsureEntry({}) /\ UNCHANGED <<lis, fired>>
    BY <1>1 DEF ResumeState, lisVars
  <2>2. \A e \in 1 .. Len(subs) : current'[e] = current[e]
    BY <2>1, <1>i, EnsureEntryForm
  <2> QED BY <2>1, <2>2, <1>i, NamedKept
<1>2. ASSUME EnsureSubscribe PROVE NamedOK'
  <2>1. UNCHANGED <<lis, fired>>
    BY <1>2 DEF EnsureSubscribe, lisVars
  <2>2. \A e \in 1 .. Len(subs) : current'[e] = current[e]
    BY <1>2, <1>i, EnsureEntryForm, TypeFacts DEF EnsureSubscribe
  <2> QED BY <2>1, <2>2, <1>i, NamedKept
<1>3. ASSUME EnsureSet PROVE NamedOK'
  <2>1. Ensured
    BY <1>3, <1>i, EnsureSetForm
  <2>2. CASE UNCHANGED <<fired, current, lis>>
    BY <2>2, <1>i, NamedKept
  <2>3. ASSUME NEW n \in Listeners, Started(n) PROVE NamedOK'
    <3> SUFFICES ASSUME NEW l \in Listeners, l \notin fired', lis'[l].pc \notin {"off", "ending"}
                 PROVE  current'[lis'[l].entry] = l
      BY DEF NamedOK
    <3>1. /\ \A e \in 1 .. Len(subs) : current'[e] = IF e = Handler.entry THEN n ELSE current[e]
          /\ fired' = fired \cup ({current[Handler.entry]} \ {0})
          /\ lis'[n].entry = Handler.entry /\ \A m \in Listeners : m # n => lis'[m] = lis[m]
          /\ Handler.entry \in 1 .. Len(subs)
      BY <2>1, <2>3 DEF Started, Ensured
    <3>2. CASE l = n
      BY <3>1, <3>2
    <3>3. CASE l # n
      <4>1. current[lis[l].entry] = l /\ lis[l].entry \in 1 .. Len(subs) /\ l # 0 /\ lis'[l] = lis[l]
        BY <3>1, <3>3, <1>i, TypeFacts, Bounds DEF NamedOK, RefsOK
      <4>2. lis[l].entry # Handler.entry
        BY <3>1, <4>1
      <4> QED BY <3>1, <4>1, <4>2
    <3> QED BY <3>2, <3>3
  <2> QED BY <2>1, <2>2, <2>3 DEF Ensured
<1>4. ASSUME NEW a \in Actors, Finalize(a) PROVE NamedOK'
  <2>1. UNCHANGED lis /\ job[a].entry \in 0 .. Len(subs) /\ Cleaned(a)
    BY <1>4, <1>i, FinalizeForm
  <2>2. CASE UNCHANGED <<current, fired>>
    BY <2>1, <2>2, <1>i, NamedKept
  <2>3. CASE /\ \A e \in 1 .. Len(subs) : current'[e] = IF e = job[a].entry THEN 0 ELSE current[e]
             /\ fired' = IF job[a].entry = 0 THEN fired ELSE fired \cup ({current[job[a].entry]} \ {0})
    BY <2>1, <2>3, <1>i, NamedCleared
  <2> QED BY <2>1, <2>2, <2>3 DEF Cleaned
<1>5. ASSUME NEW l \in Listeners, ListenerBreaks(l) \/ UnloadTrigger(l) \/ UnloadLock(l) PROVE NamedOK'
  <2>1. /\ lis[l].pc \in {"select", "lock"} /\ UNCHANGED <<fired, current>>
        /\ \E pc \in {"ending", "select", "lock", "remove"} : SetLis(l, pc)
    BY <1>5 DEF ListenerBreaks, UnloadTrigger, UnloadLock, Selecting, subVars
  <2>2. lis'[l].entry = lis[l].entry /\ \A m \in Listeners : m # l => lis'[m] = lis[m]
    BY <2>1, <1>i, SetLisForm
  <2> QED BY <2>1, <2>2, <1>i, NamedKept
<1>6. ASSUME NEW l \in Listeners, ListenerEnds(l) PROVE NamedOK'
  <2> SUFFICES ASSUME NEW m \in Listeners, m \notin fired', lis'[m].pc \notin {"off", "ending"}
               PROVE  current'[lis'[m].entry] = m
    BY DEF NamedOK
  <2>1. m # l /\ lis'[m] = lis[m] /\ m \notin fired
    BY <1>6, <1>i, ListenerEndsForm
  <2>2. current[lis[m].entry] = m /\ lis[m].entry \in 1 .. Len(subs)
    BY <2>1, <1>i, TypeFacts DEF NamedOK, RefsOK
  <2> QED BY <1>6, <2>1, <2>2, <1>i, ListenerEndsForm
<1>7. ASSUME NEW l \in Listeners, ListenerResumes(l) PROVE NamedOK'
  <2>1. /\ lis[l].pc = "select" /\ UNCHANGED fired /\ queue[l] # <<>>
        /\ \/ UNCHANGED <<lis, current>>
           \/ EnsureEntry({Head(queue[l])}) /\ SetServing(l, "respond", Head(queue[l]))
    BY <1>7 DEF ListenerResumes, Selecting
  <2>2. {Head(queue[l])} \in SUBSET Conns
    BY <2>1, <1>i, TypeFacts
  <2>3. \A e \in 1 .. Len(subs) : current'[e] = current[e]
    BY <2>1, <2>2, <1>i, EnsureEntryForm
  <2>4. lis'[l].entry = lis[l].entry /\ \A m \in Listeners : m # l => lis'[m] = lis[m]
    BY <2>1, <1>i, SetServingForm
  <2> QED BY <2>1, <2>3, <2>4, <1>i, NamedKept
<1>8. ASSUME NEW l \in Listeners, ListenerResponds(l) PROVE NamedOK'
  <2>1. lis[l].pc = "respond" /\ SetServing(l, "select", None) /\ UNCHANGED <<fired, current>>
    BY <1>8 DEF ListenerResponds, subVars
  <2>2. lis'[l].entry = lis[l].entry /\ \A m \in Listeners : m # l => lis'[m] = lis[m]
    BY <2>1, <1>i, SetServingForm
  <2> QED BY <2>1, <2>2, <1>i, NamedKept
<1>9. ASSUME NEW l \in Listeners, UnloadRemove(l) PROVE NamedOK'
  <2>1. /\ lis[l].pc = "remove" /\ lis'[l].entry = lis[l].entry /\ UNCHANGED <<fired, current>>
        /\ \A m \in Listeners : m # l => lis'[m] = lis[m]
    BY <1>9, <1>i, UnloadRemoveForm
  <2> QED BY <2>1, <1>i, NamedKept
<1>10. ASSUME NEW l \in Listeners, UnloadClear(l) PROVE NamedOK'
  <2>1. /\ lis'[l].pc = "ending" /\ \A m \in Listeners : m # l => lis'[m] = lis[m]
        /\ lis[l].watch \in 0 .. Len(subs)
        /\ \A e \in 1 .. Len(subs) : current'[e] = IF e = lis[l].watch THEN 0 ELSE current[e]
        /\ fired' = IF lis[l].watch = 0 THEN fired ELSE fired \cup ({current[lis[l].watch]} \ {0})
    BY <1>10, <1>i, UnloadClearForm
  <2> QED BY <2>1, <1>i, NamedCleared
<1>11. CASE UNCHANGED <<current, lis, fired>>
  BY <1>11, <1>i DEF NamedOK
<1> QED BY <1>1, <1>2, <1>3, <1>4, <1>5, <1>6, <1>7, <1>8, <1>9, <1>10, <1>11
      DEF Next, HandlerStep, LoopStep, ListenerStep, TeardownStep, Actors, vars, subVars, lisVars, Resume,
          Unsubscribe, Archive, ConnectionClosed, ResumeLook, ResumeCommand, ResumeLoad, ArchiveShutdown,
          EnsureGet, EnsureWatch, EnsureUndo, Reply, RemoveConnection, CheckThread, CoreTurn, CoreCloses,
          CoreEnds, CoreRemoves, ListenerHears, TeardownShutdown, TeardownRemove, TeardownForget,
          TeardownRelease

(* The mark stands for an unload. *)
LEMMA MarkStep ==
    ASSUME IInv, [Next]_vars
    PROVE  MarkOK'
<1>i. TypeOK /\ RefsOK /\ MarkOK
  BY DEF IInv
<1>1. ASSUME NEW c \in Conns, Unsubscribe(c) PROVE MarkOK'
  <2>1. UNCHANGED <<marker, lis, teardown>> /\ (subs' = Unsubscribed(c) \/ UNCHANGED subs)
    BY <1>1 DEF Unsubscribe, lisVars
  <2>2. \A e \in 1 .. Len(subs) : subs[e] = {} => subs'[e] = {}
    BY <2>1, <1>i, UnsubscribedForm
  <2> QED BY <2>1, <2>2, <1>i, TypeFacts DEF MarkOK, RefsOK
<1>2. ASSUME ResumeState PROVE MarkOK'
  <2>1. UNCHANGED <<marker, lis, teardown>> /\ EnsureEntry({})
    BY <1>2 DEF ResumeState, lisVars
  <2>2. \A e \in 1 .. Len(subs) : subs[e] = {} => subs'[e] = {}
    BY <2>1, <1>i, EnsureEntryForm DEF Subscribers
  <2> QED BY <2>1, <2>2, <1>i, TypeFacts DEF MarkOK, RefsOK
<1>3. ASSUME EnsureSubscribe PROVE MarkOK'
  BY <1>3, <1>i DEF EnsureSubscribe, unloading, lisVars, MarkOK
<1>4. ASSUME EnsureSet PROVE MarkOK'
  <2>1. UNCHANGED <<marker, subs, teardown>>
    BY <1>4, <1>i, EnsureSetForm DEF Ensured
  <2>2. CASE UNCHANGED lis
    BY <2>1, <2>2, <1>i DEF MarkOK
  <2>3. CASE \E l \in Listeners : Started(l)
    BY <2>1, <2>3, <1>i, TypeFacts DEF MarkOK, Started
  <2> QED BY <1>4, <1>i, <2>2, <2>3, EnsureSetForm DEF Ensured
<1>5. ASSUME EnsureUndo PROVE MarkOK'
  <2>1. UNCHANGED <<marker, lis, teardown>> /\ (subs' = Unsubscribed(Handler.conn) \/ UNCHANGED subs)
    BY <1>5 DEF EnsureUndo, Handler, lisVars
  <2>2. \A e \in 1 .. Len(subs) : subs[e] = {} => subs'[e] = {}
    BY <2>1, <1>i, UnsubscribedForm
  <2> QED BY <2>1, <2>2, <1>i, TypeFacts DEF MarkOK, RefsOK
<1>6. ASSUME NEW a \in Actors, Finalize(a) PROVE MarkOK'
  BY <1>6, FinalizeForm, <1>i DEF MarkOK
<1>7. ASSUME RemoveConnection PROVE MarkOK'
  BY <1>7, UnsubscribedForm, <1>i, TypeFacts
     DEF RemoveConnection, Actors, threadVars, lisVars, boundVars, RefsOK, MarkOK, Handler
<1>8. ASSUME NEW l \in Listeners, ListenerBreaks(l) PROVE MarkOK'
  BY <1>8, SetLisForm, <1>i, TypeFacts DEF ListenerBreaks, subVars, MarkOK
<1>9. ASSUME NEW l \in Listeners, ListenerEnds(l) PROVE MarkOK'
  BY <1>9, <1>i, TypeFacts DEF ListenerEnds, Ended, Off, RefsOK, MarkOK
<1>10. ASSUME NEW l \in Listeners, ListenerResumes(l) PROVE MarkOK'
  BY <1>10, SetServingForm, EnsureEntryForm, <1>i DEF ListenerResumes, Selecting, unloading, MarkOK
<1>11. ASSUME NEW l \in Listeners, ListenerResponds(l) PROVE MarkOK'
  BY <1>11, SetServingForm, <1>i, TypeFacts DEF ListenerResponds, subVars, boundVars, RefsOK, MarkOK
<1>12. ASSUME NEW l \in Listeners, UnloadTrigger(l) PROVE MarkOK'
  BY <1>12, SetLisForm, <1>i, TypeFacts DEF UnloadTrigger, Selecting, subVars, MarkOK
<1>13. ASSUME NEW l \in Listeners, UnloadLock(l) PROVE MarkOK'
  <2>1. lis[l].pc = "lock" /\ lis[l].watch # 0 /\ teardown[l].pc = "off" /\ UNCHANGED <<subs, teardown>>
    BY <1>13, <1>i DEF UnloadLock, subVars, RefsOK, MarkOK
  <2>2. CASE SetLis(l, "select") /\ UNCHANGED marker
    BY <2>1, <2>2, SetLisForm, <1>i, TypeFacts DEF MarkOK
  <2>3. CASE SetLis(l, "remove") /\ marker' = l /\ subs[lis[l].watch] = {}
    BY <2>1, <2>3, SetLisForm, <1>i, TypeFacts DEF MarkOK
  <2> QED BY <1>13, <2>2, <2>3 DEF UnloadLock, ShouldUnload
<1>14. ASSUME NEW l \in Listeners, UnloadRemove(l) \/ UnloadClear(l) PROVE MarkOK'
  <2>1. marker # 0 => marker \in Listeners
    BY <1>i, TypeFacts
  <2>2. /\ lis[l].pc \in {"remove", "clear"} /\ lis'[l].pc \in {"clear", "ending"} /\ UNCHANGED <<marker, subs>>
        /\ lis'[l].pc = "clear" => teardown' = teardown
        /\ lis'[l].pc = "ending" => teardown'[l].pc = "shutdown"
        /\ \A m \in Listeners : m # l => lis'[m] = lis[m] /\ teardown'[m] = teardown[m]
    BY <1>14, <1>i, UnloadRemoveForm, UnloadClearForm
  <2>3. teardown[l].pc = "off"
    BY <2>2, <1>i DEF MarkOK
  <2> QED BY <2>1, <2>2, <2>3, <1>i DEF MarkOK
<1>15. ASSUME NEW l \in Listeners, TeardownShutdown(l) PROVE MarkOK'
  <2>1. UNCHANGED <<marker, lis, subs>> /\ teardown[l].pc = "shutdown"
    BY <1>15 DEF TeardownShutdown, subVars, lisVars
  <2>2. teardown'[l].pc \in {"remove", "release"} /\ \A m \in Listeners : m # l => teardown'[m] = teardown[m]
    BY <1>15, <1>i DEF TeardownShutdown, TypeOK, TaskTypes, Teardown
  <2> QED BY <2>1, <2>2, <1>i, TypeFacts DEF MarkOK
<1>16. ASSUME NEW l \in Listeners, TeardownRemove(l) PROVE MarkOK'
  BY <1>16, <1>i DEF TeardownRemove, subVars, lisVars, MarkOK
<1>17. ASSUME NEW l \in Listeners, TeardownForget(l) PROVE MarkOK'
  BY <1>17, <1>i DEF TeardownForget, subVars, lisVars, MarkOK
<1>18. ASSUME NEW l \in Listeners, TeardownRelease(l) PROVE MarkOK'
  BY <1>18, <1>i DEF TeardownRelease, lisVars, MarkOK
<1>19. CASE UNCHANGED <<marker, lis, subs, teardown>>
  BY <1>19, <1>i DEF MarkOK
<1> QED BY <1>1, <1>2, <1>3, <1>4, <1>5, <1>6, <1>7, <1>8, <1>9, <1>10, <1>11, <1>12, <1>13, <1>14, <1>15,
      <1>16, <1>17, <1>18, <1>19
      DEF Next, HandlerStep, LoopStep, ListenerStep, TeardownStep, Actors, vars, subVars, lisVars, Resume,
          Archive, ConnectionClosed, ResumeLook, ResumeCommand, ResumeLoad, ArchiveShutdown, EnsureGet,
          EnsureWatch, Reply, CheckThread, CoreTurn, CoreCloses, CoreEnds, CoreRemoves, ListenerHears

(* The manager has a thread that runs or leaves. *)
LEMMA ManagerStep ==
    ASSUME IInv, [Next]_vars
    PROVE  ManagerOK'
<1>i. TypeOK /\ RefsOK /\ MarkOK /\ ManagerOK
  BY DEF IInv
<1>1. ASSUME NEW c \in Conns, Resume(c) PROVE ManagerOK'
  BY <1>1, BeginForm, <1>i DEF Resume, Actors, threadVars, ManagerOK, Handler
<1>2. ASSUME NEW c \in Conns, Unsubscribe(c) PROVE ManagerOK'
  BY <1>2, <1>i DEF Unsubscribe, threadVars, ManagerOK, Handler
<1>3. ASSUME NEW c \in Conns, Archive(c) PROVE ManagerOK'
  BY <1>3 DEF Archive, ManagerOK
<1>4. ASSUME NEW c \in Conns, ConnectionClosed(c) PROVE ManagerOK'
  BY <1>4, BeginForm, <1>i DEF ConnectionClosed, Actors, threadVars, ManagerOK, Handler
<1>5. ASSUME ResumeLook PROVE ManagerOK'
  BY <1>5, HandlerAtForm, <1>i DEF ResumeLook, threadVars, ManagerOK
<1>6. ASSUME ResumeState PROVE ManagerOK'
  BY <1>6, HandlerAtForm, <1>i DEF ResumeState, threadVars, ManagerOK
<1>7. ASSUME ResumeCommand PROVE ManagerOK'
  BY <1>7, SetJobForm, FinishForm, <1>i DEF ResumeCommand, Actors, threadVars, ManagerOK, Handler
<1>8. ASSUME ResumeLoad PROVE ManagerOK'
  BY <1>8, SetJobForm, <1>i, TypeFacts DEF ResumeLoad, Actors, ManagerOK, Handler
<1>9. ASSUME ArchiveShutdown PROVE ManagerOK'
  BY <1>9, <1>i DEF ArchiveShutdown, ManagerOK, Handler
<1>10. ASSUME EnsureGet PROVE ManagerOK'
  BY <1>10, HandlerAtForm, <1>i DEF EnsureGet, threadVars, ManagerOK
<1>11. ASSUME EnsureSubscribe PROVE ManagerOK'
  BY <1>11, SetJobForm, HandlerAtForm, <1>i DEF EnsureSubscribe, Actors, threadVars, ManagerOK, Handler
<1>12. ASSUME EnsureWatch PROVE ManagerOK'
  BY <1>12, SetJobForm, HandlerAtForm, <1>i DEF EnsureWatch, Actors, threadVars, ManagerOK, Handler
<1>13. ASSUME EnsureSet PROVE ManagerOK'
  <2>1. Ensured
    BY <1>13, <1>i, EnsureSetForm
  <2> QED BY <2>1, <1>i DEF Ensured, threadVars, ManagerOK, Handler
<1>14. ASSUME EnsureUndo PROVE ManagerOK'
  BY <1>14, SetJobForm, <1>i DEF EnsureUndo, Actors, threadVars, ManagerOK, Handler
<1>15. ASSUME Reply PROVE ManagerOK'
  BY <1>15, FinishForm, <1>i DEF Reply, Actors, threadVars, ManagerOK, Handler
<1>16. ASSUME NEW a \in Actors, Finalize(a) PROVE ManagerOK'
  <2>1. UNCHANGED <<manager, running, leaving, teardown>>
    BY <1>16, <1>i, FinalizeForm DEF threadVars
  <2>2. Handler' = Handler \/ (a = "handler" /\ Handler.pc \in {"fin1", "fin2", "clear", "fin3"})
    BY <1>16, <1>i, FinalizeForm DEF Handler, Actors
  <2> QED BY <2>1, <2>2, <1>i DEF ManagerOK
<1>17. ASSUME RemoveConnection PROVE ManagerOK'
  BY <1>17, SetJobForm, FinishForm, <1>i DEF RemoveConnection, Actors, threadVars, ManagerOK, Handler
<1>18. ASSUME CheckThread PROVE ManagerOK'
  BY <1>18, FinishForm, <1>i DEF CheckThread, Actors, threadVars, ManagerOK, Handler
<1>19. ASSUME CoreCloses \/ CoreEnds \/ CoreRemoves PROVE ManagerOK'
  BY <1>19, <1>i DEF CoreCloses, CoreEnds, CoreRemoves, ManagerOK, Handler
<1>20. ASSUME NEW l \in Listeners, UnloadClear(l) PROVE ManagerOK'
  <2>1. teardown[l].pc = "off" /\ \A m \in Listeners : m # l => teardown'[m] = teardown[m]
    BY <1>20, <1>i, UnloadClearForm DEF MarkOK
  <2> QED BY <1>20, <2>1, <1>i, UnloadClearForm DEF threadVars, ManagerOK, Handler
<1>21. ASSUME NEW l \in Listeners, TeardownShutdown(l) PROVE ManagerOK'
  <2>1. UNCHANGED <<manager, leaving, job>>
    BY <1>21 DEF TeardownShutdown
  <2>2. \/ UNCHANGED running \/ teardown'[l].pc = "remove"
    BY <1>21, <1>i DEF TeardownShutdown, TypeOK, TaskTypes, Teardown
  <2>3. teardown[l].pc = "shutdown" /\ \A m \in Listeners : m # l => teardown'[m] = teardown[m]
    BY <1>21, <1>i DEF TeardownShutdown, TypeOK, TaskTypes
  <2> QED BY <2>1, <2>2, <2>3, <1>i DEF ManagerOK, Handler
<1>22. ASSUME NEW l \in Listeners, TeardownRemove(l) PROVE ManagerOK'
  BY <1>22 DEF TeardownRemove, ManagerOK
<1>23. ASSUME NEW l \in Listeners, TeardownForget(l) PROVE ManagerOK'
  BY <1>23, <1>i DEF TeardownForget, threadVars, ManagerOK, Handler
<1>24. ASSUME NEW l \in Listeners, TeardownRelease(l) PROVE ManagerOK'
  BY <1>24, <1>i DEF TeardownRelease, threadVars, ManagerOK, Handler
<1>25. CASE UNCHANGED <<manager, running, leaving, teardown, job>>
  BY <1>25, <1>i DEF ManagerOK, Handler
<1> QED BY <1>1, <1>2, <1>3, <1>4, <1>5, <1>6, <1>7, <1>8, <1>9, <1>10, <1>11, <1>12, <1>13, <1>14, <1>15,
      <1>16, <1>17, <1>18, <1>19, <1>20, <1>21, <1>22, <1>23, <1>24, <1>25
      DEF Next, HandlerStep, LoopStep, ListenerStep, TeardownStep, Actors, vars, threadVars, CoreTurn,
          TurnStart, TurnEnd, ListenerBreaks, ListenerEnds, Ended, ListenerHears, ListenerResumes,
          ListenerResponds, UnloadTrigger, UnloadLock, UnloadRemove

(* The handler works for a connection that is there. *)
LEMMA AskerStep ==
    ASSUME IInv, [Next]_vars
    PROVE  AskerOK'
<1>i. TypeOK /\ AskerOK /\ RefsOK
  BY DEF IInv
<1>1. ASSUME NEW c \in Conns, Resume(c) PROVE AskerOK'
  BY <1>1, BeginForm, <1>i DEF Resume, MayAsk, Actors, subVars, AskerOK, Handler
<1>2. ASSUME NEW c \in Conns, Unsubscribe(c) PROVE AskerOK'
  BY <1>2, BeginForm, <1>i DEF Unsubscribe, MayAsk, Actors, AskerOK, Handler
<1>3. ASSUME NEW c \in Conns, Archive(c) PROVE AskerOK'
  BY <1>3, BeginForm, <1>i DEF Archive, MayAsk, Actors, subVars, AskerOK, Handler
<1>4. ASSUME NEW c \in Conns, ConnectionClosed(c) PROVE AskerOK'
  BY <1>4, BeginForm, <1>i DEF ConnectionClosed, Actors, subVars, AskerOK, Handler
<1>5. ASSUME ResumeLook PROVE AskerOK'
  BY <1>5, HandlerAtForm, <1>i DEF ResumeLook, subVars, AskerOK, Handler
<1>6. ASSUME ResumeState PROVE AskerOK'
  BY <1>6, HandlerAtForm, <1>i DEF ResumeState, AskerOK, Handler
<1>7. ASSUME ResumeCommand PROVE AskerOK'
  BY <1>7, SetJobForm, FinishForm, <1>i DEF ResumeCommand, Actors, subVars, AskerOK, Handler
<1>8. ASSUME ResumeLoad PROVE AskerOK'
  BY <1>8, SetJobForm, <1>i DEF ResumeLoad, Actors, subVars, AskerOK, Handler
<1>9. ASSUME ArchiveShutdown PROVE AskerOK'
  BY <1>9, SetJobForm, <1>i DEF ArchiveShutdown, Actors, subVars, AskerOK, Handler
<1>10. ASSUME EnsureGet PROVE AskerOK'
  BY <1>10, HandlerAtForm, <1>i DEF EnsureGet, subVars, AskerOK, Handler
<1>11. ASSUME EnsureSubscribe PROVE AskerOK'
  BY <1>11, SetJobForm, HandlerAtForm, <1>i DEF EnsureSubscribe, Actors, AskerOK, Handler
<1>12. ASSUME EnsureWatch PROVE AskerOK'
  BY <1>12, SetJobForm, HandlerAtForm, <1>i DEF EnsureWatch, Actors, subVars, AskerOK, Handler
<1>13. ASSUME EnsureSet PROVE AskerOK'
  <2>1. Ensured
    BY <1>13, <1>i, EnsureSetForm
  <2> QED BY <2>1, <1>i DEF Ensured, AskerOK, Handler
<1>14. ASSUME EnsureUndo PROVE AskerOK'
  BY <1>14, SetJobForm, <1>i DEF EnsureUndo, Actors, AskerOK, Handler
<1>15. ASSUME Reply PROVE AskerOK'
  BY <1>15, FinishForm, <1>i DEF Reply, Actors, AskerOK, Handler
<1>16. ASSUME NEW a \in Actors, Finalize(a) PROVE AskerOK'
  <2>1. UNCHANGED live
    BY <1>16, <1>i, FinalizeForm
  <2>2. Handler' = Handler \/ (Handler.pc # "idle" /\ (Handler'.pc = "idle" \/ Handler'.conn = Handler.conn))
    BY <1>16, <1>i, FinalizeForm DEF Handler, Actors
  <2> QED BY <2>1, <2>2, <1>i DEF AskerOK
<1>17. ASSUME RemoveConnection PROVE AskerOK'
  BY <1>17, SetJobForm, FinishForm, <1>i DEF RemoveConnection, Actors, AskerOK, Handler
<1>18. ASSUME CheckThread PROVE AskerOK'
  BY <1>18, SetJobForm, FinishForm, <1>i DEF CheckThread, Actors, subVars, AskerOK, Handler
<1>19. CASE UNCHANGED <<live, job>>
  BY <1>19, <1>i DEF AskerOK, Handler
<1> QED BY <1>1, <1>2, <1>3, <1>4, <1>5, <1>6, <1>7, <1>8, <1>9, <1>10, <1>11, <1>12, <1>13, <1>14, <1>15,
      <1>16, <1>17, <1>18, <1>19
      DEF Next, HandlerStep, LoopStep, ListenerStep, TeardownStep, Actors, vars, subVars, CoreTurn,
          CoreCloses, CoreEnds, CoreRemoves, ListenerBreaks, ListenerEnds, Ended, ListenerHears, UnloadTrigger, UnloadLock,
          UnloadRemove, UnloadClear, RemoveEntry, ClearState, ListenerResumes, ListenerResponds,
          TeardownShutdown, TeardownRemove, TeardownForget, TeardownRelease

(* A request keeps what it found. *)
LEMMA JobStep ==
    ASSUME IInv, [Next]_vars, ~raced'
    PROVE  JobOK'
<1>i. TypeOK /\ RefsOK /\ LinksOK /\ ManagerOK /\ AskerOK /\ JobOK /\ CommandOK
  BY CalmStep DEF IInv
<1>o. /\ ~Overlap /\ ~Overlap'
      /\ (Handler.pc # "idle" \/ \E l \in Listeners : queue[l] # <<>> \/ lis[l].pc = "respond") /\ manager # 0
         => manager' # 0
  BY CalmStep
<1>1. ASSUME NEW c \in Conns, Resume(c) PROVE JobOK'
  BY <1>1, BeginForm, <1>i DEF Resume, Actors, threadVars, subVars, lisVars, JobOK, Handler
<1>2. ASSUME NEW c \in Conns, Unsubscribe(c) PROVE JobOK'
  BY <1>2, BeginForm, <1>i DEF Unsubscribe, MayAsk, Actors, JobOK, Handler
<1>3. ASSUME NEW c \in Conns, Archive(c) PROVE JobOK'
  BY <1>3, BeginForm, <1>i DEF Archive, Actors, JobOK, Handler
<1>4. ASSUME NEW c \in Conns, ConnectionClosed(c) PROVE JobOK'
  BY <1>4, BeginForm, <1>i DEF ConnectionClosed, Actors, threadVars, subVars, lisVars, JobOK, Handler
<1>5. ASSUME ResumeLook PROVE JobOK'
  <2>1. /\ Handler.pc = "look" /\ UNCHANGED <<manager, running, entry>>
        /\ \E pc \in {IF manager = 0 THEN "load" ELSE "state", "fail"} : HandlerAt(pc, manager, 0, 0)
    BY <1>5 DEF ResumeLook, Handler, threadVars, subVars
  <2>2. manager # 0 => manager \in running
    BY <2>1, <1>i, <1>o, CalmRequest DEF ManagerOK
  <2> QED BY <2>1, <2>2, <1>i, HandlerAtForm DEF JobOK
<1>6. ASSUME ResumeState PROVE JobOK'
  BY <1>6, HandlerAtForm, EnsureEntryForm, <1>i DEF ResumeState, threadVars, JobOK, Handler
<1>7. ASSUME ResumeCommand PROVE JobOK'
  BY <1>7, FinishForm, <1>i DEF ResumeCommand, Actors, JobOK, Handler
<1>8. ASSUME ResumeLoad PROVE JobOK'
  BY <1>8, SetJobForm, <1>i DEF ResumeLoad, Actors, threadVars, JobOK, Handler
<1>9. ASSUME ArchiveShutdown PROVE JobOK'
  BY <1>9, SetJobForm, <1>i DEF ArchiveShutdown, Actors, JobOK, Handler
<1>10. ASSUME EnsureGet PROVE JobOK'
  BY <1>10, HandlerAtForm, <1>i, TypeFacts DEF EnsureGet, threadVars, JobOK, Handler
<1>11. ASSUME EnsureSubscribe PROVE JobOK'
  <2>1. Handler.pc = "subscribe" /\ marker = 0 /\ Handler.conn \in live /\ Handler.conn \in Conns
    BY <1>11, <1>i, <1>o, CalmRequest, TypeFacts DEF EnsureSubscribe, AskerOK, Handler
  <2>2. EnsureEntry({Handler.conn}) /\ HandlerAt("watch2", Handler.conv, entry', 0) /\ UNCHANGED <<manager, running>>
    BY <1>11, <2>1 DEF EnsureSubscribe, unloading, Handler, threadVars
  <2>3. entry' \in 1 .. Len(subs') /\ Handler.conn \in subs'[entry']
    BY <2>1, <2>2, <1>i, EnsureEntryForm
  <2> QED BY <2>1, <2>2, <2>3, <1>i, HandlerAtForm DEF JobOK
<1>12. ASSUME EnsureWatch PROVE JobOK'
  BY <1>12, HandlerAtForm, <1>i DEF EnsureWatch, threadVars, subVars, JobOK, Handler
<1>13. ASSUME EnsureSet PROVE JobOK'
  <2>1. Ensured
    BY <1>13, <1>i, EnsureSetForm
  <2>2. /\ Handler.entry = entry /\ entry \in 1 .. Len(subs) /\ Handler.conv = manager /\ manager \in running
        /\ Handler.pc = "set2" => Handler.conn \in subs[entry]
    BY <2>1, <1>i DEF Ensured, JobOK
  <2>3. current'[entry] # 0 /\ lis'[current'[entry]].conv = manager
    <3>1. CASE ListenerMatches(entry, manager) /\ UNCHANGED <<current, lis>>
      BY <3>1 DEF ListenerMatches
    <3>2. ASSUME NEW l \in Listeners, Started(l)
          PROVE  current'[entry] # 0 /\ lis'[current'[entry]].conv = manager
      BY <2>2, <3>2, Bounds DEF Started
    <3> QED BY <2>1, <2>2, <3>1, <3>2 DEF Ensured
  <2>4. /\ job'["handler"].pc \in (IF Handler.pc = "set" THEN {"command", "fail"} ELSE {"reply"})
        /\ Handler.pc \in {"set", "set2"}
        /\ job'["handler"].conn = Handler.conn /\ job'["handler"].conv = Handler.conv
        /\ job'["handler"].entry = Handler.entry /\ UNCHANGED <<manager, running, entry, subs>>
    BY <2>1 DEF Ensured, threadVars
  <2> QED BY <2>2, <2>3, <2>4 DEF JobOK, Handler
<1>14. ASSUME EnsureUndo PROVE JobOK'
  BY <1>14, <1>i DEF EnsureUndo, JobOK, Handler
<1>15. ASSUME Reply PROVE JobOK'
  BY <1>15, FinishForm, <1>i DEF Reply, Actors, JobOK, Handler
<1>16. ASSUME NEW a \in Actors, Finalize(a) PROVE JobOK'
  BY <1>16, FinalizeForm, <1>i, <1>o, CalmRequest DEF Actors, threadVars, JobOK, Handler
<1>17. ASSUME RemoveConnection PROVE JobOK'
  <2> DEFINE c == job["loop"].conn
  <2>1. /\ UNCHANGED <<manager, running, entry, current, lis>> /\ subs' = Unsubscribed(c) /\ Handler.conn # c
        /\ job'["handler"] = job["handler"]
    <3>1. SetJob("loop", "check") \/ Finish("loop")
      BY <1>17 DEF RemoveConnection
    <3> QED BY <1>17, <1>i, SetJobForm, FinishForm DEF RemoveConnection, Handler, Actors, threadVars, lisVars
  <2>2. entry # 0 => subs'[entry] = subs[entry] \ {c}
    BY <2>1, <1>i, UnsubscribedForm, TypeFacts
  <2> QED BY <2>1, <2>2, <1>i DEF JobOK, Handler
<1>18. ASSUME CheckThread PROVE JobOK'
  BY <1>18, SetJobForm, FinishForm, <1>i, <1>o, CalmRequest DEF CheckThread, Actors, JobOK, Handler
<1>19. ASSUME CoreEnds \/ CoreRemoves PROVE JobOK'
  <2>1. leaving # 0 /\ UNCHANGED job
    BY <1>19, <1>i, TypeFacts DEF CoreEnds, CoreRemoves
  <2> QED BY <2>1, <1>o, CalmRequest DEF JobOK, Handler
<1>20. ASSUME NEW l \in Listeners, ListenerBreaks(l) PROVE JobOK'
  BY <1>20, SetLisForm, <1>i, <1>o, CalmAfter DEF ListenerBreaks, JobOK, Handler
<1>21. ASSUME NEW l \in Listeners, ListenerEnds(l) PROVE JobOK'
  BY <1>21, <1>o, CalmRequest DEF ListenerEnds, Ended, JobOK, Handler
<1>22. ASSUME NEW l \in Listeners, ListenerResumes(l) PROVE JobOK'
  <2>1. UNCHANGED <<manager, running, job>>
    BY <1>22 DEF ListenerResumes, threadVars
  <2>2. CASE UNCHANGED <<lis, entry, subs, current>>
    BY <2>1, <2>2, <1>i DEF JobOK, Handler
  <2>3. CASE EnsureEntry({Head(queue[l])}) /\ SetServing(l, "respond", Head(queue[l]))
    <3>1. Head(queue[l]) \in Conns /\ entry # 0
      BY <1>22, <1>i, TypeFacts DEF ListenerResumes, CommandOK
    <3>2. entry' = entry /\ current' = current /\ subs[entry] \subseteq subs'[entry]
      BY <2>3, <3>1, <1>i, EnsureEntryForm DEF Subscribers
    <3>3. \A m \in Listeners : lis'[m].conv = lis[m].conv
      BY <2>3, <1>i, SetServingForm
    <3>4. current[entry] \in {0} \cup Listeners
      BY <3>1, <1>i, TypeFacts
    <3> QED BY <2>1, <3>2, <3>3, <3>4, <1>i DEF JobOK, Handler
  <2> QED BY <1>22, <2>2, <2>3 DEF ListenerResumes
<1>23. ASSUME NEW l \in Listeners, ListenerResponds(l) PROVE JobOK'
  BY <1>23, SetServingForm, <1>i, TypeFacts DEF ListenerResponds, threadVars, subVars, JobOK, Handler
<1>24. ASSUME NEW l \in Listeners, UnloadTrigger(l) PROVE JobOK'
  BY <1>24, SetLisForm, <1>i, TypeFacts DEF UnloadTrigger, threadVars, subVars, JobOK, Handler
<1>25. ASSUME NEW l \in Listeners, UnloadLock(l) PROVE JobOK'
  BY <1>25, <1>o, CalmRequest DEF UnloadLock, JobOK, Handler
<1>26. ASSUME NEW l \in Listeners, UnloadRemove(l) PROVE JobOK'
  BY <1>26, <1>o, CalmRequest DEF UnloadRemove, JobOK, Handler
<1>30. ASSUME NEW l \in Listeners, UnloadClear(l) PROVE JobOK'
  BY <1>30, <1>o, CalmRequest DEF UnloadClear, JobOK, Handler
<1>27. ASSUME NEW l \in Listeners, TeardownShutdown(l) PROVE JobOK'
  BY <1>27, <1>o, CalmRequest DEF TeardownShutdown, JobOK, Handler
<1>28. ASSUME NEW l \in Listeners, TeardownRemove(l) PROVE JobOK'
  BY <1>28, <1>o, CalmAfter DEF TeardownRemove, JobOK, Handler
<1>29. CASE UNCHANGED <<manager, running, entry, subs, current, lis, job>>
  BY <1>29, <1>i DEF JobOK, Handler
<1> QED BY <1>1, <1>2, <1>3, <1>4, <1>5, <1>6, <1>7, <1>8, <1>9, <1>10, <1>11, <1>12, <1>13, <1>14, <1>15,
      <1>16, <1>17, <1>18, <1>19, <1>20, <1>21, <1>22, <1>23, <1>24, <1>25, <1>26, <1>27, <1>28, <1>29, <1>30
      DEF Next, HandlerStep, LoopStep, ListenerStep, TeardownStep, Actors, vars, threadVars, subVars, lisVars,
          CoreCloses, CoreTurn, TurnStart, TurnEnd, ListenerHears, TeardownForget, TeardownRelease

(* So does a command. *)
LEMMA CommandStep ==
    ASSUME IInv, [Next]_vars, ~raced'
    PROVE  CommandOK'
<1>i. TypeOK /\ RefsOK /\ LinksOK /\ AskerOK /\ JobOK /\ CommandOK
  BY CalmStep DEF IInv
<1>o. /\ ~Overlap /\ ~Overlap'
      /\ (Handler.pc # "idle" \/ \E l \in Listeners : queue[l] # <<>> \/ lis[l].pc = "respond") /\ manager # 0
         => manager' # 0
      /\ \A l \in Listeners : lis[l].pc = "respond" /\ lis[l].conn \in Subscribers \cap live'
         => lis[l].conn \in Subscribers'
  BY CalmStep
<1>1. ASSUME NEW c \in Conns, Unsubscribe(c) PROVE CommandOK'
  <2>1. UNCHANGED <<manager, running, entry, current, lis, queue, live>>
    BY <1>1 DEF Unsubscribe, threadVars, lisVars
  <2>2. ASSUME NEW l \in Listeners, lis[l].pc = "respond", lis[l].conn \in live PROVE lis[l].conn \in subs'[entry]
    <3>1. entry # 0 /\ lis[l].conn \in Subscribers
      BY <2>2, <1>i DEF CommandOK, Subscribers
    <3>2. lis[l].conn \in Subscribers'
      BY <2>1, <2>2, <3>1, <1>o
    <3> QED BY <2>1, <3>1, <3>2 DEF Subscribers
  <2> QED BY <2>1, <2>2, <1>i DEF CommandOK
<1>2. ASSUME NEW c \in Conns, Archive(c) PROVE CommandOK'
  BY <1>2, <1>i, <1>o, TypeFacts DEF Archive, lisVars, CommandOK
<1>3. ASSUME ResumeState PROVE CommandOK'
  <2>1. UNCHANGED <<manager, running, live, lis, queue>>
    BY <1>3 DEF ResumeState, threadVars, lisVars
  <2>2. entry # 0 => entry' = entry /\ current' = current /\ subs[entry] \subseteq subs'[entry]
    <3>1. EnsureEntry({})
      BY <1>3 DEF ResumeState, Handler
    <3>2. {} \in SUBSET Conns
      OBVIOUS
    <3> QED BY <3>1, <1>i, EnsureEntryForm DEF Subscribers
  <2> QED BY <2>1, <2>2, <1>i DEF CommandOK
<1>4. ASSUME ResumeCommand PROVE CommandOK'
  <2>1. /\ Handler.pc = "command" /\ Handler.entry = entry /\ entry # 0 /\ lis[current[entry]].conv = manager
        /\ manager \in running /\ Handler.conn \in Conns /\ UNCHANGED <<manager, running, live, entry, subs, current, lis>>
    BY <1>4, <1>i, ResumeCommandForm DEF JobOK, threadVars, subVars
  <2>2. CASE UNCHANGED queue
    BY <2>1, <2>2, <1>i DEF CommandOK
  <2>3. ASSUME NEW l \in Listeners, l = current[entry], queue' = [queue EXCEPT ![l] = Append(@, Handler.conn)]
        PROVE  CommandOK'
    <3>1. \A m \in Listeners : m # l => queue'[m] = queue[m]
      BY <2>1, <2>3, <1>i, Added
    <3> QED BY <2>1, <2>3, <1>i DEF CommandOK
  <2> QED BY <1>4, <1>i, <2>1, <2>2, <2>3, ResumeCommandForm
<1>5. ASSUME ResumeLoad PROVE CommandOK'
  BY <1>5, <1>i DEF ResumeLoad, threadVars, subVars, lisVars, CommandOK
<1>6. ASSUME ArchiveShutdown PROVE CommandOK'
  BY <1>6, <1>o, CalmCommand DEF ArchiveShutdown, lisVars, CommandOK, Handler
<1>7. ASSUME EnsureSubscribe PROVE CommandOK'
  <2>1. UNCHANGED <<manager, running, live, lis, queue>>
    BY <1>7 DEF EnsureSubscribe, threadVars, lisVars
  <2>2. entry # 0 => entry' = entry /\ current' = current /\ subs[entry] \subseteq subs'[entry]
    <3>1. EnsureEntry({Handler.conn}) \/ UNCHANGED <<entry, subs, current>>
      BY <1>7 DEF EnsureSubscribe, Handler
    <3>2. {Handler.conn} \in SUBSET Conns
      BY <1>7, <1>i, TypeFacts DEF EnsureSubscribe, AskerOK, Handler
    <3> QED BY <3>1, <3>2, <1>i, EnsureEntryForm DEF Subscribers
  <2> QED BY <2>1, <2>2, <1>i DEF CommandOK
<1>8. ASSUME EnsureSet PROVE CommandOK'
  <2>1. Ensured
    BY <1>8, <1>i, EnsureSetForm
  <2>2. Handler.entry = entry /\ Handler.conv = manager /\ UNCHANGED <<manager, running, live, entry, subs, queue>>
    BY <2>1, <1>i DEF Ensured, JobOK, threadVars
  <2>3. CASE UNCHANGED <<current, lis>>
    BY <2>2, <2>3, <1>i DEF CommandOK
  <2>4. ASSUME ~ListenerMatches(entry, manager), NEW l \in Listeners, Started(l)
        PROVE  CommandOK'
    <3>1. \A m \in Listeners : queue[m] = <<>> /\ lis[m].pc # "respond"
      BY <2>4, <1>i, Bounds DEF ListenerMatches, CommandOK
    <3>2. \A m \in Listeners : lis'[m].pc # "respond"
      BY <2>4, <3>1 DEF Started
    <3> QED BY <2>2, <3>1, <3>2 DEF CommandOK
  <2> QED BY <2>1, <2>2, <2>3, <2>4 DEF Ensured
<1>9. ASSUME EnsureUndo PROVE CommandOK'
  BY <1>9, <1>i DEF EnsureUndo, JobOK, Handler
<1>10. ASSUME NEW a \in Actors, Finalize(a) PROVE CommandOK'
  BY <1>10, FinalizeForm, <1>i, <1>o, CalmRequest, CalmCommand DEF Actors, CommandOK, Handler
<1>11. ASSUME RemoveConnection PROVE CommandOK'
  <2> DEFINE c == job["loop"].conn
  <2>1. UNCHANGED <<manager, running, entry, current, lis, queue>> /\ subs' = Unsubscribed(c) /\ live' = live \ {c}
    BY <1>11 DEF RemoveConnection, threadVars, lisVars
  <2>2. entry # 0 => subs'[entry] = subs[entry] \ {c}
    BY <2>1, <1>i, UnsubscribedForm, TypeFacts
  <2> QED BY <2>1, <2>2, <1>i DEF CommandOK
<1>12. ASSUME CoreEnds \/ CoreRemoves PROVE CommandOK'
  <2>1. leaving # 0 /\ UNCHANGED <<lis, queue>>
    BY <1>12, <1>i, TypeFacts DEF CoreEnds, CoreRemoves, lisVars
  <2> QED BY <2>1, <1>o, CalmRequest DEF CommandOK
<1>13. ASSUME NEW l \in Listeners, ListenerBreaks(l) PROVE CommandOK'
  BY <1>13, SetLisForm, <1>i, <1>o, CalmAfter DEF ListenerBreaks, CommandOK
<1>14. ASSUME NEW l \in Listeners, ListenerEnds(l) PROVE CommandOK'
  BY <1>14, <1>o, CalmRequest DEF ListenerEnds, Ended, Off, CommandOK
<1>15. ASSUME NEW l \in Listeners, ListenerResumes(l) PROVE CommandOK'
  <2>1. queue' = [queue EXCEPT ![l] = Tail(@)] /\ queue[l] # <<>> /\ UNCHANGED <<manager, running, live>>
    BY <1>15 DEF ListenerResumes, threadVars
  <2>2. \A m \in Listeners : m # l => queue'[m] = queue[m]
    BY <2>1, <1>i, Taken
  <2>3. entry # 0 /\ current[entry] = l /\ lis[l].conv = manager /\ manager \in running
    BY <2>1, <1>i DEF CommandOK
  <2>4. CASE UNCHANGED <<lis, entry, subs, current>>
    BY <2>1, <2>4, <1>i DEF CommandOK
  <2>5. CASE EnsureEntry({Head(queue[l])}) /\ SetServing(l, "respond", Head(queue[l]))
    <3>1. Head(queue[l]) \in Conns
      BY <2>1, <1>i, TypeFacts
    <3>2. entry' = entry /\ current' = current /\ Head(queue[l]) \in subs'[entry] /\ subs[entry] \subseteq subs'[entry]
      BY <2>3, <2>5, <3>1, <1>i, EnsureEntryForm DEF Subscribers
    <3>3. /\ lis'[l].conv = lis[l].conv /\ lis'[l].conn = Head(queue[l])
          /\ \A m \in Listeners : m # l => lis'[m] = lis[m]
      BY <2>5, <1>i, SetServingForm
    <3> QED BY <2>1, <3>2, <3>3, <1>i DEF CommandOK
  <2> QED BY <1>15, <2>4, <2>5 DEF ListenerResumes
<1>16. ASSUME NEW l \in Listeners, ListenerResponds(l) PROVE CommandOK'
  BY <1>16, SetServingForm, <1>i DEF ListenerResponds, threadVars, subVars, CommandOK
<1>17. ASSUME NEW l \in Listeners, UnloadTrigger(l) PROVE CommandOK'
  BY <1>17, SetLisForm, <1>i DEF UnloadTrigger, threadVars, subVars, CommandOK
<1>18. ASSUME NEW l \in Listeners, UnloadLock(l) PROVE CommandOK'
  BY <1>18, SetLisForm, <1>i, <1>o, CalmRequest DEF UnloadLock, CommandOK
<1>19. ASSUME NEW l \in Listeners, UnloadRemove(l) \/ UnloadClear(l) PROVE CommandOK'
  <2>1. lis[l].pc \in {"remove", "clear"} /\ UNCHANGED queue /\ lis'[l].pc # "respond"
        /\ \A m \in Listeners : m # l => lis'[m] = lis[m]
    BY <1>19, <1>i, UnloadRemoveForm, UnloadClearForm
  <2> QED BY <2>1, <1>o, CalmRequest DEF CommandOK
<1>20. ASSUME NEW l \in Listeners, TeardownShutdown(l) PROVE CommandOK'
  BY <1>20, <1>o, CalmRequest DEF TeardownShutdown, lisVars, CommandOK
<1>21. ASSUME NEW l \in Listeners, TeardownRemove(l) PROVE CommandOK'
  BY <1>21, <1>o, CalmAfter DEF TeardownRemove, CommandOK
<1>22. CASE UNCHANGED <<queue, lis, entry, current, manager, running, live, subs>>
  BY <1>22, <1>i DEF CommandOK
<1> QED BY <1>1, <1>2, <1>3, <1>4, <1>5, <1>6, <1>7, <1>8, <1>9, <1>10, <1>11, <1>12, <1>13, <1>14, <1>15,
      <1>16, <1>17, <1>18, <1>19, <1>20, <1>21, <1>22
      DEF Next, HandlerStep, LoopStep, ListenerStep, TeardownStep, Actors, vars, threadVars, subVars, lisVars,
          Resume, ConnectionClosed, ResumeLook, EnsureGet, EnsureWatch, Reply, CheckThread, CoreCloses, CoreTurn,
          TurnStart, TurnEnd, ListenerHears, TeardownForget, TeardownRelease

(* Cleanups find what they clean up. *)
LEMMA CleanupStep ==
    ASSUME IInv, [Next]_vars, ~raced'
    PROVE  CleanupOK'
<1>i. TypeOK /\ RefsOK /\ LinksOK /\ JobOK /\ CommandOK /\ CleanupOK /\ MarkOK
  BY CalmStep DEF IInv
<1>o. /\ ~Overlap /\ ~Overlap'
      /\ (Handler.pc # "idle" \/ \E l \in Listeners : queue[l] # <<>> \/ lis[l].pc = "respond") /\ manager # 0
         => manager' # 0
  BY CalmStep
<1>1. ASSUME NEW c \in Conns, Resume(c) PROVE CleanupOK'
  BY <1>1, BeginForm, <1>i DEF Resume, Actors, threadVars, subVars, lisVars, CleanupOK
<1>2. ASSUME NEW c \in Conns, Unsubscribe(c) PROVE CleanupOK'
  BY <1>2, <1>i DEF Unsubscribe, threadVars, lisVars, CleanupOK
<1>3. ASSUME NEW c \in Conns, Archive(c) PROVE CleanupOK'
  BY <1>3, <1>i DEF Archive, subVars, lisVars, CleanupOK
<1>4. ASSUME NEW c \in Conns, ConnectionClosed(c) PROVE CleanupOK'
  BY <1>4, BeginForm, <1>i DEF ConnectionClosed, threadVars, Actors, subVars, lisVars, CleanupOK
<1>5. ASSUME ResumeLook PROVE CleanupOK'
  BY <1>5, HandlerAtForm, <1>i, <1>o, CalmAfter DEF ResumeLook, subVars, lisVars, CleanupOK, Handler
<1>6. ASSUME ResumeState PROVE CleanupOK'
  BY <1>6, HandlerAtForm, EnsureEntryForm, <1>i, <1>o, CalmAfter DEF ResumeState, lisVars, CleanupOK, Handler
<1>7. ASSUME ResumeCommand PROVE CleanupOK'
  BY <1>7, SetJobForm, FinishForm, <1>i, <1>o, CalmRequest
     DEF ResumeCommand, threadVars, Actors, subVars, CleanupOK, Handler
<1>8. ASSUME ResumeLoad PROVE CleanupOK'
  BY <1>8, SetJobForm, <1>i, <1>o, CalmAfter DEF ResumeLoad, Actors, subVars, lisVars, CleanupOK
<1>9. ASSUME ArchiveShutdown PROVE CleanupOK'
  BY <1>9, SetJobForm, <1>i DEF ArchiveShutdown, Actors, subVars, lisVars, CleanupOK
<1>10. ASSUME EnsureGet PROVE CleanupOK'
  BY <1>10, HandlerAtForm, <1>i, <1>o, CalmAfter DEF EnsureGet, subVars, lisVars, CleanupOK, Handler
<1>11. ASSUME EnsureSubscribe PROVE CleanupOK'
  BY <1>11, SetJobForm, HandlerAtForm, EnsureEntryForm, <1>i, <1>o, TypeFacts, CalmAfter
     DEF EnsureSubscribe, Actors, lisVars, CleanupOK, Handler
<1>12. ASSUME EnsureWatch PROVE CleanupOK'
  BY <1>12, SetJobForm, HandlerAtForm, <1>i, <1>o, CalmAfter
     DEF EnsureWatch, Actors, subVars, lisVars, CleanupOK, Handler
<1>13. ASSUME EnsureSet PROVE CleanupOK'
  <2>1. Ensured
    BY <1>13, <1>i, EnsureSetForm
  <2>2. /\ Handler.entry = entry /\ Handler.watch = entry /\ entry \in 1 .. Len(subs)
        /\ UNCHANGED <<manager, leaving, entry, told>> /\ job'["loop"] = job["loop"]
    BY <2>1, <1>i DEF Ensured, JobOK, threadVars
  <2>3. CASE UNCHANGED <<current, lis>>
    BY <2>2, <2>3, <1>i DEF CleanupOK
  <2>4. CASE \E l \in Listeners : Started(l)
    BY <2>2, <2>4, <1>i DEF CleanupOK, Started
  <2> QED BY <2>1, <2>3, <2>4 DEF Ensured
<1>14. ASSUME EnsureUndo PROVE CleanupOK'
  BY <1>14, SetJobForm, <1>i, <1>o, CalmAfter DEF EnsureUndo, threadVars, Actors, lisVars, CleanupOK
<1>15. ASSUME Reply PROVE CleanupOK'
  BY <1>15, FinishForm, <1>i, <1>o, CalmRequest DEF Reply, threadVars, Actors, subVars, lisVars, CleanupOK, Handler
<1>16. ASSUME NEW a \in Actors, Finalize(a) PROVE CleanupOK'
  BY <1>16, FinalizeForm, <1>i, TypeFacts DEF Cleaned, Actors, threadVars, CleanupOK
<1>17. ASSUME RemoveConnection PROVE CleanupOK'
  BY <1>17, SetJobForm, FinishForm, <1>i DEF RemoveConnection, threadVars, Actors, lisVars, CleanupOK
<1>18. ASSUME CheckThread PROVE CleanupOK'
  BY <1>18, FinishForm, <1>i DEF CheckThread, Actors, threadVars, subVars, lisVars, CleanupOK
<1>19. ASSUME CoreCloses \/ CoreEnds \/ CoreRemoves PROVE CleanupOK'
  BY <1>19, <1>i DEF CoreCloses, CoreEnds, CoreRemoves, subVars, lisVars, CleanupOK
<1>20. ASSUME NEW l \in Listeners, ListenerBreaks(l) PROVE CleanupOK'
  BY <1>20, SetLisForm, <1>i, TypeFacts DEF ListenerBreaks, threadVars, subVars, CleanupOK
<1>21. ASSUME NEW l \in Listeners, ListenerEnds(l) PROVE CleanupOK'
  <2>1. UNCHANGED <<job, manager, leaving, told, entry>>
    BY <1>21 DEF ListenerEnds, Ended, threadVars
  <2> QED BY <1>21, <2>1, <1>i, ListenerEndsForm, TypeFacts DEF CleanupOK
<1>22. ASSUME NEW l \in Listeners, ListenerResumes(l) PROVE CleanupOK'
  <2>1. UNCHANGED <<manager, leaving, job, told>>
    BY <1>22 DEF ListenerResumes, threadVars
  <2>2. CASE UNCHANGED <<lis, entry, current>>
    BY <2>1, <2>2, <1>i DEF CleanupOK
  <2>3. CASE EnsureEntry({Head(queue[l])}) /\ SetServing(l, "respond", Head(queue[l]))
    <3>1. Head(queue[l]) \in Conns /\ entry # 0
      BY <1>22, <1>i, TypeFacts DEF ListenerResumes, CommandOK
    <3>2. entry' = entry /\ current' = current
      BY <2>3, <3>1, <1>i, EnsureEntryForm
    <3>3. \A m \in Listeners : lis'[m].watch = lis[m].watch
      BY <2>3, <1>i, SetServingForm
    <3>4. current[entry] \in {0} \cup Listeners
      BY <3>1, <1>i, TypeFacts
    <3> QED BY <2>1, <3>2, <3>3, <3>4, <1>i DEF CleanupOK
  <2> QED BY <1>22, <2>2, <2>3 DEF ListenerResumes
<1>23. ASSUME NEW l \in Listeners, ListenerResponds(l) PROVE CleanupOK'
  BY <1>23, SetServingForm, <1>i, <1>o, TypeFacts, CalmRequest DEF ListenerResponds, threadVars, subVars, CleanupOK, Handler
<1>24. ASSUME NEW l \in Listeners, UnloadTrigger(l) PROVE CleanupOK'
  BY <1>24, SetLisForm, <1>i, TypeFacts DEF UnloadTrigger, threadVars, subVars, CleanupOK
<1>25. ASSUME NEW l \in Listeners, UnloadLock(l) PROVE CleanupOK'
  BY <1>25, SetLisForm, <1>i, TypeFacts DEF UnloadLock, threadVars, subVars, CleanupOK
<1>26. ASSUME NEW l \in Listeners, UnloadRemove(l) \/ UnloadClear(l) PROVE CleanupOK'
  BY <1>26, UnloadRemoveForm, UnloadClearForm, <1>i, TypeFacts DEF threadVars, CleanupOK
<1>27. ASSUME NEW l \in Listeners, TeardownShutdown(l) PROVE CleanupOK'
  BY <1>27, <1>i DEF TeardownShutdown, subVars, lisVars, CleanupOK
<1>28. ASSUME NEW l \in Listeners, TeardownRemove(l) PROVE CleanupOK'
  BY <1>28, <1>i DEF TeardownRemove, subVars, lisVars, CleanupOK
<1>29. ASSUME NEW l \in Listeners, TeardownForget(l) PROVE CleanupOK'
  BY <1>29, <1>i DEF TeardownForget, threadVars, subVars, lisVars, CleanupOK
<1>30. ASSUME NEW l \in Listeners, TeardownRelease(l) PROVE CleanupOK'
  BY <1>30, <1>i DEF TeardownRelease, threadVars, subVars, lisVars, CleanupOK
<1>31. CASE UNCHANGED <<entry, current, lis, job, manager, leaving, told>>
  BY <1>31, <1>i DEF CleanupOK
<1> QED BY <1>1, <1>2, <1>3, <1>4, <1>5, <1>6, <1>7, <1>8, <1>9, <1>10, <1>11, <1>12, <1>13, <1>14, <1>15,
      <1>16, <1>17, <1>18, <1>19, <1>20, <1>21, <1>22, <1>23, <1>24, <1>25, <1>26, <1>27, <1>28, <1>29, <1>30,
      <1>31
      DEF Next, HandlerStep, LoopStep, ListenerStep, TeardownStep, Actors, vars, threadVars, subVars, lisVars,
          CoreTurn, ListenerHears

(* A step that leaves clearing alone, and makes no entry, keeps it in place. *)
LEMMA GoneKept ==
    ASSUME GoneOK, entry' = entry, Len(subs') = Len(subs),
           \A e \in 1 .. Len(subs) : current'[e] \in {current[e], 0},
           \A a \in Actors : (job'[a].pc = "clear" <=> job[a].pc = "clear") /\ (job[a].pc = "clear" => job'[a] = job[a]),
           \A l \in Listeners : (lis'[l].pc = "clear" <=> lis[l].pc = "clear") /\ (lis[l].pc = "clear" => lis'[l] = lis[l])
    PROVE  GoneOK'
<1>1. \A e : Clearing(e) => Clearing(e)'
  BY DEF Clearing, Actors
<1> QED BY <1>1 DEF GoneOK, Actors

(* An entry is made when no cleanup is between its two locks. *)
LEMMA GoneMade ==
    ASSUME TypeOK, GoneOK, NEW more \in SUBSET Conns, EnsureEntry(more),
           \A a \in Actors : job[a].pc # "clear" /\ job'[a].pc # "clear",
           \A l \in Listeners : lis[l].pc # "clear" /\ lis'[l].pc # "clear"
    PROVE  GoneOK'
<1>1. \A e : ~Clearing(e)
  BY DEF Clearing, Actors
<1>2. \A e \in 1 .. Len(subs) : e # entry => current[e] = 0
  BY <1>1 DEF GoneOK
<1>3. \A e \in 1 .. Len(subs') : e # entry' => current'[e] = 0
  BY <1>2, EnsureEntryForm, TypeFacts
<1> QED BY <1>3 DEF GoneOK, Actors

(* Entries that are gone name no listener, but for those being cleared. *)
LEMMA GoneStep ==
    ASSUME IInv, [Next]_vars, ~raced'
    PROVE  GoneOK'
<1>i. TypeOK /\ RefsOK /\ LinksOK /\ AskerOK /\ JobOK /\ GoneOK
  BY CalmStep DEF IInv
<1>o. ~Overlap /\ ~Overlap'
  BY CalmStep
<1>h. "handler" \in Actors /\ "loop" \in Actors /\ Actors = {"handler", "loop"}
  BY DEF Actors
<1>1. ASSUME NEW c \in Conns, Resume(c) \/ Unsubscribe(c) \/ Archive(c) \/ ConnectionClosed(c) PROVE GoneOK'
  <2>1. UNCHANGED <<lis, entry, current>> /\ Len(subs') = Len(subs)
    BY <1>1, <1>i, UnsubscribedForm DEF Resume, Unsubscribe, Archive, ConnectionClosed, lisVars, subVars
  <2>2. UNCHANGED job \/ \E a \in Actors, pc \in {"look", "fin1", "archive", "gate"} : job[a].pc = "idle" /\ Begin(a, pc, c)
    BY <1>1, <1>h DEF Resume, Unsubscribe, Archive, ConnectionClosed, MayAsk
  <2>3. \A a \in Actors : job'[a] = job[a] \/ (job[a].pc # "clear" /\ job'[a].pc # "clear")
    BY <2>2, <1>i, BeginForm
  <2> QED BY <2>1, <2>3, <1>i, GoneKept
<1>2. ASSUME ResumeLook \/ ResumeCommand \/ ResumeLoad \/ ArchiveShutdown \/ EnsureGet \/ EnsureWatch
             \/ EnsureUndo \/ Reply \/ RemoveConnection \/ CheckThread
      PROVE  GoneOK'
  <2>1. UNCHANGED <<lis, entry, current>> /\ Len(subs') = Len(subs)
    BY <1>2, <1>i, UnsubscribedForm
       DEF ResumeLook, ResumeCommand, ResumeLoad, ArchiveShutdown, EnsureGet, EnsureWatch, EnsureUndo, Reply,
           RemoveConnection, CheckThread, lisVars, subVars
  <2>2. \E a \in Actors : /\ job[a].pc # "clear" /\ job'[a].pc # "clear"
                          /\ \A b \in Actors : b # a => job'[b] = job[b]
    <3>1. CASE ResumeLook \/ EnsureGet
      BY <3>1, <1>i, <1>h, HandlerAtForm DEF ResumeLook, EnsureGet, Handler
    <3>2. CASE EnsureWatch
      BY <3>2, <1>i, <1>h, HandlerAtForm, SetJobForm DEF EnsureWatch, Handler
    <3>3. CASE ResumeCommand \/ ResumeLoad \/ ArchiveShutdown \/ EnsureUndo \/ Reply
      BY <3>3, <1>i, <1>h, SetJobForm, FinishForm DEF ResumeCommand, ResumeLoad, ArchiveShutdown, EnsureUndo, Reply
    <3>4. CASE RemoveConnection \/ CheckThread
      BY <3>4, <1>i, <1>h, SetJobForm, FinishForm DEF RemoveConnection, CheckThread
    <3> QED BY <1>2, <3>1, <3>2, <3>3, <3>4
  <2> QED BY <2>1, <2>2, <1>i, GoneKept
<1>3. ASSUME ResumeState PROVE GoneOK'
  <2>1. Handler.pc = "state" /\ EnsureEntry({}) /\ HandlerAt("watch", Handler.conv, entry', 0) /\ UNCHANGED lis
    BY <1>3 DEF ResumeState, Handler, lisVars
  <2>2. \A a \in Actors : job[a].pc # "clear" /\ job'[a].pc # "clear"
    BY <2>1, <1>i, <1>o, <1>h, CalmRequest, HandlerAtForm DEF Handler
  <2>3. \A l \in Listeners : lis[l].pc # "clear" /\ lis'[l].pc # "clear"
    BY <2>1, <1>o, CalmRequest
  <2> QED BY <2>1, <2>2, <2>3, <1>i, GoneMade
<1>4. ASSUME EnsureSubscribe PROVE GoneOK'
  <2>1. Handler.pc = "subscribe" /\ UNCHANGED lis
    BY <1>4 DEF EnsureSubscribe, Handler, lisVars
  <2>2. /\ job["handler"].pc # "clear" /\ job'["handler"].pc # "clear" /\ job'["loop"] = job["loop"]
        /\ job["loop"].pc # "clear"
    BY <1>4, <2>1, <1>i, <1>o, <1>h, CalmRequest, HandlerAtForm, SetJobForm DEF EnsureSubscribe, Handler
  <2>3. \A l \in Listeners : lis[l].pc # "clear" /\ lis'[l].pc # "clear"
    BY <2>1, <1>o, CalmRequest
  <2>4. CASE UNCHANGED <<entry, subs, current>>
    BY <2>1, <2>2, <2>4, <1>i, <1>h, GoneKept
  <2>5. CASE EnsureEntry({Handler.conn})
    <3>1. {Handler.conn} \in SUBSET Conns
      BY <2>1, <1>i, TypeFacts DEF AskerOK
    <3> QED BY <2>2, <2>3, <2>5, <3>1, <1>i, <1>h, GoneMade
  <2> QED BY <1>4, <2>4, <2>5 DEF EnsureSubscribe, Handler
<1>5. ASSUME EnsureSet PROVE GoneOK'
  <2>1. Ensured
    BY <1>5, <1>i, EnsureSetForm
  <2>2. /\ Handler.pc \in {"set", "set2"} /\ job'["handler"].pc # "clear" /\ job'["loop"] = job["loop"]
        /\ UNCHANGED <<entry, subs>> /\ Handler.entry = entry
    BY <2>1, <1>i DEF Ensured, JobOK
  <2>3. CASE UNCHANGED <<current, lis>>
    BY <2>2, <2>3, <1>i, <1>h, GoneKept DEF Handler
  <2>4. ASSUME NEW l \in Listeners, Started(l) PROVE GoneOK'
    <3>1. \A m \in Listeners : lis'[m].pc # "clear"
      BY <2>2, <2>4, <1>o, CalmRequest DEF Started
    <3>2. \A a \in Actors : job[a].pc # "clear" /\ job'[a].pc # "clear"
      BY <2>2, <1>o, <1>h, CalmRequest DEF Handler
    <3>3. \A e : ~Clearing(e)
      BY <2>2, <3>2, <1>o, <1>h, CalmRequest DEF Clearing
    <3>4. \A e \in 1 .. Len(subs) : e # entry => current'[e] = 0
      BY <2>2, <2>4, <3>3, <1>i DEF GoneOK, Started
    <3> QED BY <2>2, <3>1, <3>2, <3>4, <1>h DEF GoneOK
  <2> QED BY <2>1, <2>3, <2>4 DEF Ensured
<1>6. ASSUME NEW a \in Actors, Finalize(a) PROVE GoneOK'
  <2>1. /\ \A b \in Actors : b # a => job'[b] = job[b]
        /\ UNCHANGED <<lis, subs>> /\ Cleaned(a)
    BY <1>6, <1>i, FinalizeForm
  <2>2. CASE job'[a].pc \in {"fin2", "idle"} /\ job[a].pc # "clear" /\ UNCHANGED <<entry, current, fired>>
    BY <2>1, <2>2, <1>i, GoneKept
  <2>3. CASE /\ job[a].pc = "fin2" /\ job'[a].pc = "clear" /\ job'[a].entry = entry
             /\ entry' = 0 /\ UNCHANGED <<current, fired>>
    <3>1. \A e : Clearing(e) => Clearing(e)'
      BY <2>1, <2>3, <1>h DEF Clearing
    <3>2. \A e : e = entry => Clearing(e)'
      BY <2>3, <1>h DEF Clearing
    <3> QED BY <2>1, <2>3, <3>1, <3>2, <1>i, <1>h DEF GoneOK
  <2>4. CASE /\ job[a].pc = "clear" /\ job'[a].pc = "fin3" /\ entry' = entry
             /\ \A e \in 1 .. Len(subs) : current'[e] = IF e = job[a].entry THEN 0 ELSE current[e]
    <3>1. \A e : Clearing(e) /\ e # job[a].entry => Clearing(e)'
      BY <2>1, <2>4, <1>h DEF Clearing
    <3> QED BY <2>1, <2>4, <3>1, <1>i, <1>h DEF GoneOK
  <2> QED BY <2>1, <2>2, <2>3, <2>4 DEF Cleaned
<1>7. ASSUME NEW l \in Listeners, ListenerEnds(l) PROVE GoneOK'
  <2>1. UNCHANGED job
    BY <1>7 DEF ListenerEnds, Ended
  <2> QED BY <1>7, <2>1, <1>i, ListenerEndsForm, GoneKept
<1>8. ASSUME NEW l \in Listeners, ListenerBreaks(l) \/ UnloadTrigger(l) \/ UnloadLock(l) PROVE GoneOK'
  <2>1. /\ lis[l].pc \in {"select", "lock"} /\ UNCHANGED <<job, entry, current, subs>>
        /\ \E pc \in {"ending", "select", "lock", "remove"} : SetLis(l, pc)
    BY <1>8 DEF ListenerBreaks, UnloadTrigger, UnloadLock, Selecting, subVars
  <2>2. lis'[l].pc # "clear" /\ \A m \in Listeners : m # l => lis'[m] = lis[m]
    BY <2>1, <1>i, SetLisForm
  <2> QED BY <2>1, <2>2, <1>i, GoneKept
<1>9. ASSUME NEW l \in Listeners, ListenerResumes(l) PROVE GoneOK'
  <2>1. /\ lis[l].pc = "select" /\ queue[l] # <<>> /\ UNCHANGED job
        /\ \/ UNCHANGED <<lis, entry, subs, current>>
           \/ EnsureEntry({Head(queue[l])}) /\ SetServing(l, "respond", Head(queue[l]))
    BY <1>9 DEF ListenerResumes, Selecting
  <2>2. {Head(queue[l])} \in SUBSET Conns
    BY <2>1, <1>i, TypeFacts
  <2>3. \A a \in Actors : job[a].pc # "clear" /\ job'[a].pc # "clear"
    BY <2>1, <1>o, <1>h, CalmRequest, CalmCommand DEF Handler
  <2>4. \A m \in Listeners : lis[m].pc # "clear" /\ lis'[m].pc # "clear"
    BY <2>1, <1>i, <1>o, CalmRequest, SetServingForm
  <2> QED BY <2>1, <2>2, <2>3, <2>4, <1>i, GoneKept, GoneMade
<1>10. ASSUME NEW l \in Listeners, ListenerResponds(l) PROVE GoneOK'
  <2>1. lis[l].pc = "respond" /\ SetServing(l, "select", None) /\ UNCHANGED <<job, entry, current, subs>>
    BY <1>10 DEF ListenerResponds, subVars
  <2>2. lis'[l].pc = "select" /\ \A m \in Listeners : m # l => lis'[m] = lis[m]
    BY <2>1, <1>i, SetServingForm
  <2> QED BY <2>1, <2>2, <1>i, GoneKept
<1>11. ASSUME NEW l \in Listeners, UnloadRemove(l) PROVE GoneOK'
  <2>1. /\ lis[l].pc = "remove" /\ lis'[l].pc = "clear" /\ lis'[l].watch = entry /\ entry' = 0
        /\ \A m \in Listeners : m # l => lis'[m] = lis[m]
        /\ UNCHANGED <<subs, current, job>>
    BY <1>11, <1>i, UnloadRemoveForm
  <2>2. \A e : Clearing(e) => Clearing(e)'
    BY <2>1 DEF Clearing
  <2>3. \A e : e = entry => Clearing(e)'
    BY <2>1 DEF Clearing
  <2> QED BY <2>1, <2>2, <2>3, <1>i DEF GoneOK
<1>12. ASSUME NEW l \in Listeners, UnloadClear(l) PROVE GoneOK'
  <2>1. /\ lis[l].pc = "clear" /\ lis'[l].pc = "ending" /\ entry' = entry
        /\ \A m \in Listeners : m # l => lis'[m] = lis[m]
        /\ \A e \in 1 .. Len(subs) : current'[e] = IF e = lis[l].watch THEN 0 ELSE current[e]
        /\ UNCHANGED <<subs, job>>
    BY <1>12, <1>i, UnloadClearForm
  <2>2. \A e : Clearing(e) /\ e # lis[l].watch => Clearing(e)'
    BY <2>1 DEF Clearing
  <2> QED BY <2>1, <2>2, <1>i DEF GoneOK
<1>13. CASE UNCHANGED <<entry, subs, current, lis, job>>
  BY <1>13, <1>i, GoneKept
<1> QED BY <1>1, <1>2, <1>3, <1>4, <1>5, <1>6, <1>7, <1>8, <1>9, <1>10, <1>11, <1>12, <1>13
      DEF Next, HandlerStep, LoopStep, ListenerStep, TeardownStep, Actors, vars, subVars, lisVars, CoreTurn,
          CoreCloses, CoreEnds, CoreRemoves, ListenerHears, TeardownShutdown, TeardownRemove, TeardownForget,
          TeardownRelease

(* An unload under way decided about the entry of now, or about one that is gone. *)
LEMMA DropStep ==
    ASSUME IInv, [Next]_vars, ~raced'
    PROVE  DropOK'
<1>i. TypeOK /\ RefsOK /\ LinksOK /\ NamedOK /\ JobOK /\ CleanupOK /\ GoneOK /\ DropOK
  BY CalmStep DEF IInv
<1>o. ~Overlap /\ ~Overlap'
  BY CalmStep
<1>1. CASE Handler.pc # "idle" /\ UNCHANGED <<lis, teardown>>
  BY <1>1, <1>o, CalmRequest DEF DropOK
<1>2. ASSUME RemoveConnection \/ \E c \in Conns : Unsubscribe(c) PROVE DropOK'
  <2>1. UNCHANGED <<lis, teardown, entry>> /\ (UNCHANGED subs \/ \E c : subs' = Unsubscribed(c))
    BY <1>2 DEF Unsubscribe, RemoveConnection, lisVars
  <2>2. Subscribers' \subseteq Subscribers
    BY <2>1, <1>i, UnsubscribedForm, TypeFacts DEF Subscribers
  <2> QED BY <2>1, <2>2, <1>i DEF DropOK
<1>3. ASSUME EnsureSet PROVE DropOK'
  <2>1. Ensured
    BY <1>3, <1>i, EnsureSetForm
  <2>2. Handler.pc # "idle" /\ UNCHANGED teardown
    BY <2>1 DEF Ensured
  <2>3. \A m \in Listeners : lis'[m] = lis[m] \/ lis'[m].pc = "select"
    BY <2>1 DEF Ensured, Started
  <2> QED BY <2>2, <2>3, <1>o, CalmRequest DEF DropOK
<1>4. ASSUME NEW a \in Actors, Finalize(a) PROVE DropOK'
  <2>1. UNCHANGED <<lis, teardown, subs>> /\ (entry' = entry \/ entry' = 0)
    BY <1>4, <1>i, FinalizeForm DEF Cleaned
  <2> QED BY <2>1, <1>i DEF DropOK, Subscribers
<1>5. ASSUME NEW l \in Listeners, ListenerBreaks(l) PROVE DropOK'
  <2>1. SetLis(l, "ending") /\ UNCHANGED <<teardown, subs, entry>>
    BY <1>5 DEF ListenerBreaks, subVars
  <2> QED BY <2>1, <1>i, SetLisForm DEF DropOK, Subscribers
<1>6. ASSUME NEW l \in Listeners, ListenerEnds(l) PROVE DropOK'
  <2>1. UNCHANGED teardown
    BY <1>6 DEF ListenerEnds, Ended
  <2> QED BY <1>6, <2>1, <1>i, ListenerEndsForm DEF DropOK, Subscribers
<1>7. ASSUME NEW l \in Listeners, ListenerResumes(l) PROVE DropOK'
  <2>1. queue[l] # <<>> /\ UNCHANGED teardown /\ (UNCHANGED lis \/ SetServing(l, "respond", Head(queue[l])))
    BY <1>7 DEF ListenerResumes
  <2>2. \A m \in Listeners : lis'[m] = lis[m] \/ lis'[m].pc = "respond"
    BY <2>1, <1>i, SetServingForm
  <2> QED BY <2>1, <2>2, <1>o, CalmRequest DEF DropOK
<1>8. ASSUME NEW l \in Listeners, ListenerResponds(l) PROVE DropOK'
  <2>1. SetServing(l, "select", None) /\ UNCHANGED <<teardown, subs, entry>>
    BY <1>8 DEF ListenerResponds, subVars
  <2> QED BY <2>1, <1>i, SetServingForm DEF DropOK, Subscribers
<1>9. ASSUME NEW l \in Listeners, UnloadTrigger(l) PROVE DropOK'
  <2>1. /\ lis[l].pc = "select" /\ l \notin fired /\ (SetLis(l, "select") \/ SetLis(l, "lock"))
        /\ UNCHANGED <<teardown, subs, entry>>
    BY <1>9 DEF UnloadTrigger, Selecting, subVars
  <2>2. Subscribers = {} \/ lis[l].watch = entry
    <3>1. lis[l].entry \in 1 .. Len(subs) /\ current[lis[l].entry] = l /\ l # 0
      BY <2>1, <1>i, TypeFacts, Bounds DEF RefsOK, NamedOK
    <3>2. entry # 0 => lis[l].entry = entry
      BY <3>1, <1>i DEF GoneOK, Clearing
    <3> QED BY <3>1, <3>2, <1>i DEF CleanupOK, Subscribers
  <2> QED BY <2>1, <2>2, <1>i, SetLisForm DEF DropOK, Subscribers
<1>10. ASSUME NEW l \in Listeners, UnloadLock(l) PROVE DropOK'
  <2>1. /\ lis[l].pc = "lock" /\ UNCHANGED <<teardown, subs, entry>>
        /\ SetLis(l, "select") \/ (SetLis(l, "remove") /\ subs[lis[l].watch] = {})
    BY <1>10 DEF UnloadLock, ShouldUnload, subVars
  <2>2. subs[lis[l].watch] = {} => Subscribers = {}
    BY <2>1, <1>i DEF DropOK, Subscribers
  <2> QED BY <2>1, <2>2, <1>i, SetLisForm DEF DropOK, Subscribers
<1>11. ASSUME NEW l \in Listeners, UnloadRemove(l) PROVE DropOK'
  BY <1>11, <1>i, UnloadRemoveForm DEF DropOK, Subscribers
<1>12. ASSUME NEW l \in Listeners, UnloadClear(l) PROVE DropOK'
  BY <1>12, <1>i, UnloadClearForm DEF DropOK, Subscribers
<1>13. ASSUME NEW l \in Listeners, TeardownStep(l) PROVE DropOK'
  <2>1. /\ UNCHANGED <<lis, subs, entry>> /\ teardown[l].pc # "off"
        /\ \E t : teardown' = [teardown EXCEPT ![l] = t]
    BY <1>13 DEF TeardownStep, TeardownShutdown, TeardownRemove, TeardownForget, TeardownRelease, lisVars, subVars
  <2>2. \A m \in Listeners : m # l => teardown'[m] = teardown[m]
    BY <2>1, <1>i DEF TypeOK, TaskTypes
  <2> QED BY <2>1, <2>2, <1>i DEF DropOK, Subscribers
<1>14. CASE UNCHANGED <<lis, teardown, subs, entry>>
  BY <1>14, <1>i DEF DropOK, Subscribers
<1> QED BY <1>1, <1>2, <1>3, <1>4, <1>5, <1>6, <1>7, <1>8, <1>9, <1>10, <1>11, <1>12, <1>13, <1>14
      DEF Next, HandlerStep, LoopStep, ListenerStep, Actors, vars, subVars, lisVars, Handler, Resume, Archive,
          ConnectionClosed, ResumeLook, ResumeState, ResumeCommand, ResumeLoad, ArchiveShutdown, EnsureGet,
          EnsureSubscribe, EnsureWatch, EnsureUndo, Reply, CheckThread, CoreTurn, CoreCloses, CoreEnds,
          CoreRemoves, ListenerHears

(* Whoever is attached stays so. *)
LEMMA AttachedStep ==
    ASSUME IInv, [Next]_vars, ~raced'
    PROVE  AttachedOK'
<1>i. TypeOK /\ RefsOK /\ LinksOK /\ ManagerOK /\ AskerOK /\ JobOK /\ CommandOK /\ CleanupOK /\ DropOK /\ AttachedOK
  BY CalmStep DEF IInv
<1>o. /\ ~Overlap /\ ~Overlap'
      /\ (Handler.pc # "idle" \/ \E l \in Listeners : queue[l] # <<>> \/ lis[l].pc = "respond") /\ manager # 0
         => manager' # 0
  BY CalmStep
<1>1. ASSUME NEW c \in Conns, Unsubscribe(c) PROVE AttachedOK'
  <2>1. /\ UNCHANGED <<manager, running, entry, current, lis, fired>> /\ told' = told \ {c}
        /\ subs' = Unsubscribed(c) \/ UNCHANGED subs
    BY <1>1 DEF Unsubscribe, threadVars, lisVars
  <2>2. entry # 0 => subs[entry] \ {c} \subseteq subs'[entry]
    BY <2>1, <1>i, UnsubscribedForm, TypeFacts
  <2> QED BY <2>1, <2>2, <1>i DEF AttachedOK, Subscribers, Serving
<1>2. ASSUME NEW c \in Conns, Archive(c) PROVE AttachedOK'
  BY <1>2 DEF Archive, AttachedOK
<1>3. ASSUME ResumeState PROVE AttachedOK'
  BY <1>3, EnsureEntryForm, <1>i DEF ResumeState, threadVars, lisVars, AttachedOK, Subscribers, Serving
<1>4. ASSUME ResumeLoad PROVE AttachedOK'
  BY <1>4, <1>i DEF ResumeLoad, threadVars, subVars, lisVars, AttachedOK, Subscribers, Serving
<1>5. ASSUME ArchiveShutdown PROVE AttachedOK'
  <2>1. manager = 0 /\ manager \notin running /\ UNCHANGED told
    BY <1>5, <1>i, TypeFacts DEF ArchiveShutdown, ManagerOK, Handler
  <2> QED BY <2>1, <1>i DEF AttachedOK
<1>6. ASSUME EnsureSubscribe PROVE AttachedOK'
  BY <1>6, EnsureEntryForm, <1>i, TypeFacts
     DEF EnsureSubscribe, threadVars, lisVars, AttachedOK, Subscribers, Serving
<1>7. ASSUME EnsureSet PROVE AttachedOK'
  <2>1. Ensured
    BY <1>7, <1>i, EnsureSetForm
  <2>2. /\ Handler.entry = entry /\ Handler.conv = manager /\ entry \in 1 .. Len(subs)
        /\ UNCHANGED <<manager, running, entry, subs, told>>
    BY <2>1, <1>i DEF Ensured, JobOK, threadVars
  <2>3. CASE UNCHANGED <<fired, current, lis>>
    BY <2>2, <2>3, <1>i DEF AttachedOK, Subscribers, Serving
  <2>4. ASSUME NEW l \in Listeners, Started(l)
        PROVE  AttachedOK'
    <3>1. l \notin fired /\ l # current[entry]
      BY <2>2, <2>4, <1>i, Bounds DEF Started, LinksOK
    <3>2. current'[entry] = l /\ l # 0 /\ l \notin fired' /\ lis'[l].pc # "ending" /\ lis'[l].conv = manager
      <4>1. /\ current'[entry] = l /\ fired' = fired \cup ({current[entry]} \ {0})
            /\ lis'[l].pc = "select" /\ lis'[l].conv = manager
        BY <2>2, <2>4 DEF Started
      <4> QED BY <4>1, <3>1, Bounds
    <3> QED BY <2>2, <3>2, <1>i DEF AttachedOK, Subscribers, Serving
  <2> QED BY <2>1, <2>3, <2>4 DEF Ensured
<1>8. ASSUME EnsureUndo PROVE AttachedOK'
  BY <1>8, <1>i DEF EnsureUndo, JobOK, Handler
<1>9. ASSUME Reply PROVE AttachedOK'
  <2>1. UNCHANGED <<manager, running, entry, subs, current, fired, lis>>
    BY <1>9 DEF Reply, threadVars, subVars, lisVars
  <2>2. CASE Handler.pc = "fail"
    BY <1>9, <2>1, <2>2, <1>i DEF Reply, Handler, AttachedOK, Subscribers, Serving
  <2>3. CASE Handler.pc = "reply"
    <3>1. /\ told' \in {told, told \cup {Handler.conn}} /\ manager \in running /\ entry # 0 /\ Handler.conn \in subs[entry]
          /\ current[entry] # 0 /\ lis[current[entry]].conv = manager
      BY <1>9, <2>3, <1>i DEF Reply, JobOK, Handler
    <3>2. current[entry] \in Listeners /\ current[entry] \notin fired
      BY <3>1, <1>i, TypeFacts DEF LinksOK
    <3>3. lis[current[entry]].pc # "ending"
      BY <2>3, <3>2, <1>o, CalmRequest
    <3> QED BY <2>1, <3>1, <3>2, <3>3, <1>i DEF AttachedOK, Subscribers, Serving
  <2> QED BY <1>9, <2>2, <2>3 DEF Reply, Handler
<1>10. ASSUME NEW a \in Actors, Finalize(a) PROVE AttachedOK'
  <2>1. UNCHANGED <<manager, running, lis, told, subs>>
    BY <1>10, <1>i, FinalizeForm DEF threadVars
  <2>2. CASE UNCHANGED <<entry, current, fired>>
    BY <2>1, <2>2, <1>i DEF AttachedOK, Subscribers, Serving
  <2>3. CASE job[a].pc \in {"fin2", "clear"}
    <3>1. manager = 0 /\ manager \notin running
      BY <2>3, <1>i, TypeFacts DEF ManagerOK, CleanupOK, Handler, Actors
    <3> QED BY <2>1, <3>1, <1>i DEF AttachedOK
  <2> QED BY <1>10, <1>i, <2>2, <2>3, FinalizeForm DEF Cleaned
<1>11. ASSUME RemoveConnection PROVE AttachedOK'
  <2> DEFINE c == job["loop"].conn
  <2>1. UNCHANGED <<manager, running, entry, current, lis, fired>> /\ subs' = Unsubscribed(c) /\ told' = told \ {c}
    BY <1>11 DEF RemoveConnection, threadVars, lisVars
  <2>2. entry # 0 => subs'[entry] = subs[entry] \ {c}
    BY <2>1, <1>i, UnsubscribedForm, TypeFacts
  <2> QED BY <2>1, <2>2, <1>i DEF AttachedOK, Subscribers, Serving
<1>12. ASSUME CoreCloses \/ CoreEnds \/ CoreRemoves PROVE AttachedOK'
  <2>1. told' = {}
    BY <1>12, <1>i, TypeFacts DEF CoreCloses, CoreEnds, CoreRemoves, CleanupOK
  <2> QED BY <2>1 DEF AttachedOK
<1>13. ASSUME NEW l \in Listeners, ListenerBreaks(l) PROVE AttachedOK'
  <2>1. /\ SetLis(l, "ending") /\ UNCHANGED <<manager, running, entry, subs, current, fired, told>>
        /\ l \in fired \/ lis[l].watch # entry
    BY <1>13 DEF ListenerBreaks, threadVars, subVars
  <2>2. told # {} => entry # 0
    BY <1>i DEF AttachedOK, Subscribers
  <2>3. told # {} => l # current[entry]
    BY <2>1, <2>2, <1>i DEF AttachedOK, Serving, CleanupOK
  <2>4. told # {} => current[entry] \in Listeners
    BY <2>2, <1>i, TypeFacts DEF AttachedOK, Serving
  <2> QED BY <2>1, <2>3, <2>4, <1>i, SetLisForm DEF AttachedOK, Subscribers, Serving
<1>14. ASSUME NEW l \in Listeners, ListenerEnds(l) PROVE AttachedOK'
  BY <1>14, <1>i DEF ListenerEnds, Ended, threadVars, AttachedOK, Subscribers, Serving
<1>15. ASSUME NEW l \in Listeners, ListenerResumes(l) PROVE AttachedOK'
  <2>1. /\ queue[l] # <<>> /\ UNCHANGED <<manager, running, told, fired>>
        /\ \/ UNCHANGED <<lis, entry, subs, current>>
           \/ EnsureEntry({Head(queue[l])}) /\ SetServing(l, "respond", Head(queue[l]))
    BY <1>15 DEF ListenerResumes, threadVars
  <2>2. CASE UNCHANGED <<lis, entry, subs, current>>
    BY <2>1, <2>2, <1>i DEF AttachedOK, Subscribers, Serving
  <2>3. CASE EnsureEntry({Head(queue[l])}) /\ SetServing(l, "respond", Head(queue[l]))
    <3>1. Head(queue[l]) \in Conns
      BY <2>1, <1>i, TypeFacts
    <3>2. told # {} => entry' = entry /\ current' = current /\ Subscribers \subseteq Subscribers'
      BY <2>3, <3>1, <1>i, EnsureEntryForm DEF AttachedOK, Subscribers
    <3>3. \A m \in Listeners : lis'[m].conv = lis[m].conv /\ (lis[m].pc # "ending" => lis'[m].pc # "ending")
      BY <2>3, <1>i, SetServingForm
    <3>4. told # {} => entry \in 1 .. Len(subs) /\ current[entry] \in Listeners
      BY <1>i, TypeFacts DEF AttachedOK, Subscribers, Serving
    <3> QED BY <2>1, <3>2, <3>3, <3>4, <1>i DEF AttachedOK, Serving
  <2> QED BY <2>1, <2>2, <2>3
<1>16. ASSUME NEW l \in Listeners, ListenerResponds(l) PROVE AttachedOK'
  <2>1. /\ lis[l].pc = "respond" /\ told' = told \cup ({lis[l].conn} \cap live) /\ SetServing(l, "select", None)
        /\ UNCHANGED <<manager, running, entry, subs, current, fired>>
    BY <1>16 DEF ListenerResponds, threadVars, subVars
  <2>2. /\ entry # 0 /\ current[entry] = l /\ lis[l].conv = manager /\ manager \in running
        /\ lis[l].conn \in live => lis[l].conn \in subs[entry]
    BY <2>1, <1>i DEF CommandOK
  <2>3. lis'[l].pc = "select" /\ lis'[l].conv = manager /\ l # 0 /\ l \notin fired
    BY <2>1, <2>2, <1>i, SetServingForm, TypeFacts, Bounds DEF LinksOK
  <2> QED BY <2>1, <2>2, <2>3, <1>i DEF AttachedOK, Subscribers, Serving
<1>17. ASSUME NEW l \in Listeners, UnloadTrigger(l) PROVE AttachedOK'
  BY <1>17, SetLisForm, <1>i, TypeFacts DEF UnloadTrigger, threadVars, subVars, AttachedOK, Subscribers, Serving
<1>18. ASSUME NEW l \in Listeners, UnloadLock(l) PROVE AttachedOK'
  BY <1>18, SetLisForm, <1>i, TypeFacts DEF UnloadLock, threadVars, subVars, AttachedOK, Subscribers, Serving
<1>19. ASSUME NEW l \in Listeners, UnloadRemove(l) \/ UnloadClear(l) PROVE AttachedOK'
  <2>1. UNCHANGED told /\ Subscribers = {}
    BY <1>19, <1>i DEF UnloadRemove, UnloadClear, DropOK
  <2> QED BY <2>1, <1>i DEF AttachedOK
<1>20. ASSUME NEW l \in Listeners, TeardownShutdown(l) PROVE AttachedOK'
  <2>1. UNCHANGED told /\ Subscribers = {}
    BY <1>20, <1>i DEF TeardownShutdown, DropOK
  <2> QED BY <2>1, <1>i DEF AttachedOK
<1>21. ASSUME NEW l \in Listeners, TeardownRemove(l) PROVE AttachedOK'
  <2>1. UNCHANGED told /\ Subscribers = {}
    BY <1>21, <1>i DEF TeardownRemove, DropOK
  <2> QED BY <2>1, <1>i DEF AttachedOK
<1>22. CASE UNCHANGED <<told, manager, running, entry, subs, current, fired, lis>>
  BY <1>22, <1>i DEF AttachedOK, Subscribers, Serving
<1> QED BY <1>1, <1>2, <1>3, <1>4, <1>5, <1>6, <1>7, <1>8, <1>9, <1>10, <1>11, <1>12, <1>13, <1>14, <1>15,
      <1>16, <1>17, <1>18, <1>19, <1>20, <1>21, <1>22
      DEF Next, HandlerStep, LoopStep, ListenerStep, TeardownStep, Actors, vars, threadVars, subVars, lisVars,
          Resume, ConnectionClosed, ResumeLook, ResumeCommand, EnsureGet, EnsureWatch, CheckThread, CoreTurn,
          TurnStart, TurnEnd, ListenerHears, TeardownForget, TeardownRelease

-----------------------------------------------------------------------------
(* Theorems *)

(* The thread as thread/start leaves it: one entry, its listener, one connection. *)
LEMMA InitInv == Init => IInv
<1> SUFFICES ASSUME Init PROVE IInv
  OBVIOUS
<1>1. PICK c \in Conns : subs = <<{c}>>
  BY DEF Init
<1>2. /\ Len(subs) = 1 /\ subs[1] = {c} /\ subs \in Seq(SUBSET Conns) /\ told = {c} /\ entry = 1
      /\ 1 \in Listeners /\ 1 \in Loads
  <2>1. told = subs[1] /\ entry = 1
    BY DEF Init
  <2> QED BY <1>1, <2>1, Bounds
<1>3. current = <<1>> /\ current \in Seq({0} \cup Listeners) /\ Len(current) = 1 /\ current[1] = 1
  BY <1>2 DEF Init
<1>4. /\ \A a \in Actors : job[a] = Idle
      /\ job \in [Actors -> Job(1)]
  BY DEF Init, Actors, Idle, Job, JobSteps
<1>5. Off \in Task(1) /\ [pc |-> "select", conv |-> 1, entry |-> 1, watch |-> 1, conn |-> None] \in Task(1)
  BY <1>2 DEF Off, Task, TaskSteps
<1>6. /\ lis \in [Listeners -> Task(1)]
      /\ lis[1] = [pc |-> "select", conv |-> 1, entry |-> 1, watch |-> 1, conn |-> None]
      /\ \A l \in Listeners : l # 1 => lis[l] = Off
  BY <1>2, <1>5 DEF Init
<1>7. /\ queue \in [Listeners -> Seq(Conns)] /\ \A l \in Listeners : queue[l] = <<>>
      /\ teardown \in [Listeners -> Teardown] /\ \A l \in Listeners : teardown[l].pc = "off"
  BY DEF Init, NoTeardown, Teardown
<1>8. TypeOK
  <2>1. raced \in BOOLEAN /\ noted \in BOOLEAN
    BY Zenon DEF Init
  <2>2. ThreadTypes
    <3>1. manager = 1 /\ loads = 1 /\ running = {1} /\ busy = {} /\ leaving = 0
      BY DEF Init
    <3> QED BY <3>1, <1>2 DEF ThreadTypes
  <2>3. FlagTypes
    <3>1. marker = 0 /\ live = Conns /\ ops = 0 /\ removals = 0
      BY DEF Init
    <3> QED BY <2>1, <3>1, <1>2, Bounds DEF FlagTypes
  <2>4. EntryTypes
    BY <1>2, <1>3 DEF EntryTypes
  <2>5. TaskTypes /\ JobTypes
    BY <1>4, <1>6, <1>7 DEF Init, TaskTypes, JobTypes
  <2> QED BY <2>1, <2>2, <2>3, <2>4, <2>5 DEF TypeOK
<1>9. job["handler"].pc = "idle" /\ job["loop"].pc = "idle"
  BY <1>4 DEF Actors, Idle
<1>10. \A l \in Listeners : lis[l].pc = IF l = 1 THEN "select" ELSE "off"
  BY <1>6 DEF Off
<1>11. RefsOK /\ LinksOK /\ NamedOK
  BY <1>2, <1>3, <1>6, <1>9, <1>10 DEF Init, RefsOK, LinksOK, NamedOK, Handler
<1>12. MarkOK /\ ManagerOK /\ AskerOK
  BY <1>7, <1>9, <1>10 DEF Init, MarkOK, ManagerOK, AskerOK, Handler
<1>13. ~Overlap
  BY <1>7, <1>9, <1>10 DEF Overlap, Requested, Commanded
<1>14. JobOK /\ CommandOK /\ CleanupOK
  BY <1>2, <1>3, <1>6, <1>7, <1>9, <1>10 DEF Init, JobOK, CommandOK, CleanupOK, Handler
<1>16. GoneOK /\ DropOK
  BY <1>2, <1>7, <1>9, <1>10 DEF GoneOK, DropOK
<1>15. AttachedOK
  BY <1>6 DEF Init, AttachedOK, Subscribers, Serving
<1> QED BY <1>8, <1>11, <1>12, <1>13, <1>14, <1>15, <1>16 DEF IInv

(* The variables keep their types. *)
LEMMA TypeStep == ASSUME IInv, [Next]_vars PROVE TypeOK'
<1>1. Len(subs) \in Nat /\ Len(subs') \in Nat /\ Len(subs) <= Len(subs')
  BY EntryTypesStep, TypeFacts DEF IInv, EntryTypes
<1>2. TaskTypes'
  <2>1. lis' \in [Listeners -> Task(Len(subs'))]
    BY <1>1, TaskTypesStep, Widen
  <2> QED BY <2>1, TaskTypesStep, TeardownTypesStep DEF TaskTypes
<1>3. JobTypes'
  BY JobTypesStep DEF JobTypes, Actors
<1>4. raced' \in BOOLEAN
  BY DEF IInv, TypeOK, Next, Watch, vars
<1> QED BY <1>2, <1>3, <1>4, ThreadTypesStep, FlagTypesStep, EntryTypesStep DEF TypeOK

(* Every step keeps the invariant. *)
LEMMA StepInv == IInv /\ [Next]_vars => IInv'
<1> SUFFICES ASSUME IInv, [Next]_vars PROVE IInv'
  OBVIOUS
<1>1. (TypeOK /\ RefsOK /\ LinksOK /\ NamedOK /\ MarkOK /\ ManagerOK /\ AskerOK)'
  BY TypeStep, RefsStep, LinksStep, NamedStep, MarkStep, ManagerStep, AskerStep
<1>2. ~raced' => (~Overlap /\ JobOK /\ CommandOK /\ CleanupOK /\ GoneOK /\ DropOK /\ AttachedOK)'
  BY CalmStep, JobStep, CommandStep, CleanupStep, GoneStep, DropStep, AttachedStep
<1> QED BY <1>1, <1>2 DEF IInv

(* The invariant holds in every state the system reaches. *)
THEOREM Invariance == Spec => []IInv
<1> QED BY InitInv, StepInv, PTL DEF Spec

(* The variables range over the sets TypeOK names. *)
THEOREM TypeCorrect == Spec => []TypeOK
<1>1. IInv => TypeOK
  BY DEF IInv
<1> QED BY <1>1, Invariance, PTL

(* The listener whose mark stands in pending_thread_unloads drops an entry with  *)
(* nobody on the one it decided about, whatever overlapped; and, unless a request *)
(* overlapped an unload, a cleanup or a removal, no entry with a subscriber.       *)
THEOREM UnloadSpares == Spec => []UnloadSparesSubscribers
<1>1. IInv => UnloadSparesSubscribers
  <2> SUFFICES ASSUME IInv, marker # 0, lis[marker].pc = "remove"
               PROVE  subs[lis[marker].watch] = {} /\ (raced \/ Subscribers = {})
    BY DEF UnloadSparesSubscribers
  <2>1. marker \in Listeners /\ teardown[marker].pc = "off"
    BY TypeFacts DEF IInv, MarkOK
  <2>2. subs[lis[marker].watch] = {}
    BY <2>1 DEF IInv, MarkOK
  <2>3. raced \/ Subscribers = {}
    BY <2>1 DEF IInv, DropOK
  <2> QED BY <2>2, <2>3
<1> QED BY <1>1, Invariance, PTL

(* Whoever was told its resume succeeded is subscribed and served, unless a      *)
(* request overlapped an unload, a cleanup or a removal of the thread.            *)
THEOREM Served == Spec => []ServedUnlessOverlapped
<1>1. IInv => ServedUnlessOverlapped
  BY DEF IInv, AttachedOK, ServedUnlessOverlapped
<1> QED BY <1>1, Invariance, PTL

(* A thread marked as unloading has an unload under way: the listener that set    *)
(* the mark, or the shutdown it started, which takes the mark away when it ends.  *)
THEOREM MarkHasOwner ==
    Spec => [](marker # 0 => lis[marker].pc \in {"remove", "clear"} \/ teardown[marker].pc # "off")
<1>1. IInv => (marker # 0 => lis[marker].pc \in {"remove", "clear"} \/ teardown[marker].pc # "off")
  BY DEF IInv, MarkOK
<1> QED BY <1>1, Invariance, PTL

(* A ThreadEntry, removed or not, names no listener that was cancelled, that has  *)
(* ended or that serves another entry: set_listener and clear_listener cancel      *)
(* what they replace, and a listener that ends is forgotten only by its own state. *)
THEOREM ListenersAreLinked ==
    Spec => [](\A e \in 1 .. Len(subs) : current[e] # 0 =>
                 lis[current[e]].pc # "off" /\ lis[current[e]].entry = e /\ current[e] \notin fired)
<1>1. IInv => (\A e \in 1 .. Len(subs) : current[e] # 0 =>
                 lis[current[e]].pc # "off" /\ lis[current[e]].entry = e /\ current[e] \notin fired)
  BY DEF IInv, LinksOK
<1> QED BY <1>1, Invariance, PTL
=============================================================================
