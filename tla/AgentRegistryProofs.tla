------------------------- MODULE AgentRegistryProofs -------------------------
(***************************************************************************)
(* Proofs about AgentRegistry for any number of concurrent calls, threads  *)
(* and paths and any limit: the slot counter is exactly what it stands for *)
(* and stays within the limit, and a reserved path has one owner.          *)
(***************************************************************************)
EXTENDS AgentRegistry, FiniteSetTheorems, TLAPS

(* The locals of a call hold what the next step of the call needs. *)
LocalsOK ==
    /\ \A s \in Spawns : spawn[s].pc \in {"boot", "effects", "commit"}
                            => spawn[s].thread \in Threads
    /\ \A c \in Closes : close[c].pc # "idle"
                            => close[c].thread \in Threads \cup {RootThread}

IInv == TypeOK /\ LocalsOK /\ PathsAreExclusive /\ CountCoversAgents

-------------------------------------------------------------------------------
(* The three sets the counter covers are finite. *)
LEMMA FiniteParts ==
    /\ IsFiniteSet(Registered) /\ Cardinality(Registered) \in Nat
    /\ IsFiniteSet(Holding) /\ Cardinality(Holding) \in Nat
    /\ IsFiniteSet(Releasing) /\ Cardinality(Releasing) \in Nat
<1>1. IsFiniteSet(CountedKeys)
  BY SetsAssumption, FS_Union DEF CountedKeys
<1>2. Registered \subseteq CountedKeys /\ Holding \subseteq Spawns /\ Releasing \subseteq Closes
  BY DEF Registered, Holding, Releasing
<1>3. IsFiniteSet(Registered) /\ IsFiniteSet(Holding) /\ IsFiniteSet(Releasing)
  BY <1>1, <1>2, SetsAssumption, FS_Subset
<1> QED
  BY <1>3, FS_CardinalityType

(* A set that loses an element shrinks by one. *)
LEMMA LoseOne ==
    ASSUME NEW S, IsFiniteSet(S), NEW x \in S
    PROVE  Cardinality(S \ {x}) = Cardinality(S) - 1
  BY FS_RemoveElement

(* A step that leaves the counter and what it covers alone. *)
LEMMA Neutral ==
    ASSUME CountCoversAgents, count' = count, lost' = lost, Registered' = Registered,
           Holding' = Holding, Releasing' = Releasing
    PROVE  CountCoversAgents'
  BY DEF CountCoversAgents

-------------------------------------------------------------------------------
(* What the call s of spawn or resume keeps: the locals of the others. *)
OnlySpawn(s) == \A r \in Spawns \ {s} : spawn'[r] = spawn[r]
OnlyClose(c) == \A d \in Closes \ {c} : close'[d] = close[d]

(* Holding after a step of one call, by where that call stands. *)
LEMMA HoldingStep ==
    ASSUME NEW s \in Spawns, OnlySpawn(s)
    PROVE  /\ (s \in Holding <=> (s \in Holding)') => Holding' = Holding
           /\ (s \notin Holding /\ (s \in Holding)') => Holding' = Holding \cup {s}
           /\ (s \in Holding /\ ~(s \in Holding)') => Holding' = Holding \ {s}
  BY DEF Holding, OnlySpawn

\* The same for one closing call and the set of the calls about to release a count.
LEMMA ReleasingStep ==
    ASSUME NEW c \in Closes, OnlyClose(c)
    PROVE  /\ (c \in Releasing <=> (c \in Releasing)') => Releasing' = Releasing
           /\ (c \notin Releasing /\ (c \in Releasing)') => Releasing' = Releasing \cup {c}
           /\ (c \in Releasing /\ ~(c \in Releasing)') => Releasing' = Releasing \ {c}
  BY DEF Releasing, OnlyClose

\* The invariant holds of the empty registry.
LEMMA InitHolds == Init => IInv
<1> SUFFICES ASSUME Init PROVE IInv
  OBVIOUS
<1>1. TypeOK
  BY ThreadsAssumption, LimitsAssumption
     DEF Init, TypeOK, Entries, SpawnStates, SpawnPcs, CloseStates
<1>2. LocalsOK /\ PathsAreExclusive
  BY DEF Init, LocalsOK, PathsAreExclusive, OwnsPath
<1>3. Registered = {} /\ Holding = {} /\ Releasing = {}
  BY ThreadsAssumption DEF Init, Registered, Holding, Releasing, Keys, Absent
<1>4. CountCoversAgents
  BY <1>3, FS_EmptySet, LimitsAssumption DEF CountCoversAgents, Init
<1> QED
  BY <1>1, <1>2, <1>4 DEF IInv

-------------------------------------------------------------------------------
(* A counter that covers a non-empty set is positive. *)
LEMMA SomethingCounted ==
    ASSUME IInv
    PROVE  /\ Holding # {} => count - 1 \in Nat
           /\ Releasing # {} => count - 1 \in Nat
<1>1. /\ Holding # {} => Cardinality(Holding) > 0
      /\ Releasing # {} => Cardinality(Releasing) > 0
  BY FiniteParts, FS_EmptySet
<1> QED
  BY <1>1, FiniteParts DEF IInv, CountCoversAgents, TypeOK

(* prepare_thread_spawn after the root has been taken care of. *)
Prepared(s, tr) ==
    LET p == spawn[s].path
    IN \/ /\ p = NoPath
          /\ tree' = tr
          /\ SpawnGoto(s, "lookup")
       \/ /\ p # NoPath
          /\ tree[p] = Absent
          /\ tree' = [tr EXCEPT ![p] = Reserved]
          /\ SpawnGoto(s, "lookup")
       \/ /\ p # NoPath
          /\ tree' = tr
          /\ SpawnSet(s, "drop", spawn[s].thread, NoPath)

\* prepare_thread_spawn, with the tree it starts from named.
LEMMA PrepareForm ==
    ASSUME NEW s, Prepare(s)
    PROVE  \E tr \in {tree, WithRoot(tree)} : Prepared(s, tr)
  BY DEF Prepare, Prepared, Free

(* Types and locals are kept by every step. *)
LEMMA TypeStep ==
    ASSUME IInv, [Next]_vars
    PROVE  TypeOK' /\ LocalsOK'
<1> USE ThreadsAssumption, PathsAssumption
    DEF IInv, TypeOK, LocalsOK, SpawnStates, SpawnPcs, CloseStates, Entries, SpawnSet, SpawnGoto
<1>1. ASSUME NEW s \in Spawns, StartSpawn(s) PROVE TypeOK' /\ LocalsOK'
  BY <1>1 DEF StartSpawn
<1>2. ASSUME NEW s \in Spawns, StartResume(s) PROVE TypeOK' /\ LocalsOK'
  BY <1>2 DEF StartResume
<1>3. ASSUME NEW s \in Spawns, ReserveSlot(s) PROVE TypeOK' /\ LocalsOK'
  <2>1. count' \in Nat /\ UNCHANGED <<tree, loaded, known, close, unloads, lost>>
    BY <1>3 DEF ReserveSlot
  <2>2. PICK p \in {"prepare", "done"} : spawn' = [spawn EXCEPT ![s].pc = p]
    BY <1>3 DEF ReserveSlot
  <2> QED
    BY <2>1, <2>2
<1>4. ASSUME NEW s \in Spawns, Prepare(s) PROVE TypeOK' /\ LocalsOK'
  <2>1. PICK tr \in {tree, WithRoot(tree)} : Prepared(s, tr)
    BY <1>4, PrepareForm
  <2>2. tr \in [Keys -> Entries]
    BY <2>1 DEF WithRoot
  <2>3. tree' \in [Keys -> Entries] /\ UNCHANGED <<count, loaded, known, close, unloads, lost>>
    BY <1>4, <2>1, <2>2 DEF Prepare, Prepared, Keys, CountedKeys
  <2>4. \/ spawn' = [spawn EXCEPT ![s].pc = "lookup"]
        \/ spawn' = [spawn EXCEPT ![s] = [pc |-> "drop", thread |-> spawn[s].thread, path |-> NoPath]]
    BY <2>1 DEF Prepared
  <2> QED
    BY <2>3, <2>4
<1>5. ASSUME NEW s \in Spawns, SpawnFails(s) PROVE TypeOK' /\ LocalsOK'
  BY <1>5 DEF SpawnFails
<1>6. ASSUME NEW s \in Spawns, CreateThread(s) PROVE TypeOK' /\ LocalsOK'
  BY <1>6 DEF CreateThread
<1>7. ASSUME NEW s \in Spawns, LookUpThread(s) PROVE TypeOK' /\ LocalsOK'
  <2>1. /\ spawn[s].thread \in Threads /\ loaded' \subseteq loaded
        /\ UNCHANGED <<tree, count, known, close, unloads, lost>>
    BY <1>7 DEF LookUpThread
  <2>2. PICK p \in {"commit", "boot"} : spawn' = [spawn EXCEPT ![s].pc = p]
    BY <1>7 DEF LookUpThread
  <2> QED
    BY <2>1, <2>2
<1>8. ASSUME NEW s \in Spawns, FinalizeThread(s) PROVE TypeOK' /\ LocalsOK'
  BY <1>8 DEF FinalizeThread
<1>9. ASSUME NEW s \in Spawns, ResumeEffects(s) PROVE TypeOK' /\ LocalsOK'
  BY <1>9 DEF ResumeEffects
<1>10. ASSUME NEW s \in Spawns, Commit(s) PROVE TypeOK' /\ LocalsOK'
  BY <1>10 DEF Commit, KeyOf, Keys, CountedKeys
<1>11. ASSUME NEW s \in Spawns, DropPath(s) PROVE TypeOK' /\ LocalsOK'
  BY <1>11 DEF DropPath
<1>12. ASSUME NEW s \in Spawns, DropCount(s) PROVE TypeOK' /\ LocalsOK'
  BY <1>12, SomethingCounted DEF DropCount, Holding
<1>13. ASSUME NEW c \in Closes, StartClose(c) PROVE TypeOK' /\ LocalsOK'
  BY <1>13 DEF StartClose
<1>14. ASSUME NEW c \in Closes, Unload(c) PROVE TypeOK' /\ LocalsOK'
  BY <1>14 DEF Unload
<1>15. ASSUME NEW c \in Closes, Release(c) PROVE TypeOK' /\ LocalsOK'
  BY <1>15 DEF Release, Keys, CountedKeys
<1>16. ASSUME NEW c \in Closes, ReleaseCount(c) PROVE TypeOK' /\ LocalsOK'
  BY <1>16, SomethingCounted DEF ReleaseCount, Releasing
<1>17. ASSUME UnloadIdle PROVE TypeOK' /\ LocalsOK'
  BY <1>17 DEF UnloadIdle
<1>18. ASSUME UNCHANGED vars PROVE TypeOK' /\ LocalsOK'
  BY <1>18 DEF vars
<1> QED
  BY <1>1, <1>2, <1>3, <1>4, <1>5, <1>6, <1>7, <1>8, <1>9,
     <1>10, <1>11, <1>12, <1>13, <1>14, <1>15, <1>16, <1>17, <1>18 DEF Next, SpawnStep, CloseStep

(* A step that neither reserves a path nor touches an entry of one keeps the owners. *)
LEMMA OwnersKept ==
    ASSUME PathsAreExclusive, tree' = tree,
           \A r \in Spawns : OwnsPath(r)' => OwnsPath(r) /\ spawn'[r].path = spawn[r].path
    PROVE  PathsAreExclusive'
  BY DEF PathsAreExclusive

(***************************************************************************)
(* A reserved path keeps its one owner: only the owner commits or drops    *)
(* it, and release_spawned_thread removes entries that carry a thread id,  *)
(* which a reserved entry does not.                                        *)
(***************************************************************************)
LEMMA PathStep ==
    ASSUME IInv, [Next]_vars
    PROVE  PathsAreExclusive'
<1> USE ThreadsAssumption, PathsAssumption
    DEF IInv, TypeOK, LocalsOK, PathsAreExclusive, OwnsPath, SpawnStates, SpawnPcs, CloseStates,
        Keys, CountedKeys, SpawnSet, SpawnGoto
<1>1. ASSUME NEW s \in Spawns, StartSpawn(s) PROVE PathsAreExclusive'
  BY <1>1 DEF StartSpawn
<1>2. ASSUME NEW s \in Spawns, StartResume(s) PROVE PathsAreExclusive'
  BY <1>2 DEF StartResume
<1>3. ASSUME NEW s \in Spawns, ReserveSlot(s) PROVE PathsAreExclusive'
  <2>1. spawn[s].pc = "reserve" /\ tree' = tree
    BY <1>3 DEF ReserveSlot
  <2>2. PICK p \in {"prepare", "done"} : spawn' = [spawn EXCEPT ![s].pc = p]
    BY <1>3 DEF ReserveSlot
  <2>3. \A r \in Spawns : OwnsPath(r)' => OwnsPath(r) /\ spawn'[r].path = spawn[r].path
    BY <2>1, <2>2
  <2> QED
    BY <2>1, <2>3, OwnersKept
<1>4. ASSUME NEW s \in Spawns, Prepare(s) PROVE PathsAreExclusive'
  <2>1. PICK tr \in {tree, WithRoot(tree)} : Prepared(s, tr)
    BY <1>4, PrepareForm
  <2>2. tr \in [Keys -> Entries] /\ \A p \in Paths : tr[p] = tree[p]
    BY <2>1 DEF WithRoot, Entries
  <2>3. spawn[s].pc = "prepare"
    BY <1>4 DEF Prepare
  <2>4. \A r \in Spawns \ {s} : spawn'[r] = spawn[r]
    BY <2>1 DEF Prepared
  <2>5. CASE spawn[s].path # NoPath /\ tree[spawn[s].path] = Absent
             /\ tree' = [tr EXCEPT ![spawn[s].path] = Reserved]
             /\ SpawnGoto(s, "lookup")
    <3>1. \A r \in Spawns \ {s} : OwnsPath(r) => spawn[r].path # spawn[s].path
      BY <2>5 DEF Absent, Reserved
    <3>2. spawn'[s].path = spawn[s].path /\ tree'[spawn[s].path] = Reserved
             /\ \A p \in Paths \ {spawn[s].path} : tree'[p] = tree[p]
      BY <2>2, <2>5
    <3> QED
      BY <2>4, <3>1, <3>2
  <2>6. CASE tree' = tr /\ (spawn[s].path = NoPath \/ spawn'[s].path = NoPath)
    BY <2>1, <2>2, <2>4, <2>6 DEF Prepared
  <2> QED
    BY <2>1, <2>5, <2>6 DEF Prepared
<1>5. ASSUME NEW s \in Spawns, SpawnFails(s) PROVE PathsAreExclusive'
  BY <1>5 DEF SpawnFails
<1>6. ASSUME NEW s \in Spawns, CreateThread(s) PROVE PathsAreExclusive'
  BY <1>6 DEF CreateThread
<1>7. ASSUME NEW s \in Spawns, LookUpThread(s) PROVE PathsAreExclusive'
  <2>1. spawn[s].pc = "lookup" /\ tree' = tree
    BY <1>7 DEF LookUpThread
  <2>2. PICK p \in {"commit", "boot"} : spawn' = [spawn EXCEPT ![s].pc = p]
    BY <1>7 DEF LookUpThread
  <2>3. \A r \in Spawns : OwnsPath(r)' => OwnsPath(r) /\ spawn'[r].path = spawn[r].path
    BY <2>1, <2>2
  <2> QED
    BY <2>1, <2>3, OwnersKept
<1>8. ASSUME NEW s \in Spawns, FinalizeThread(s) PROVE PathsAreExclusive'
  BY <1>8 DEF FinalizeThread
<1>9. ASSUME NEW s \in Spawns, ResumeEffects(s) PROVE PathsAreExclusive'
  BY <1>9 DEF ResumeEffects
<1>10. ASSUME NEW s \in Spawns, Commit(s) PROVE PathsAreExclusive'
  BY <1>10 DEF Commit, KeyOf
<1>11. ASSUME NEW s \in Spawns, DropPath(s) PROVE PathsAreExclusive'
  BY <1>11 DEF DropPath, Absent, Reserved
<1>12. ASSUME NEW s \in Spawns, DropCount(s) PROVE PathsAreExclusive'
  BY <1>12 DEF DropCount
<1>13. ASSUME NEW c \in Closes, StartClose(c) PROVE PathsAreExclusive'
  BY <1>13 DEF StartClose
<1>14. ASSUME NEW c \in Closes, Unload(c) PROVE PathsAreExclusive'
  BY <1>14 DEF Unload
<1>15. ASSUME NEW c \in Closes, Release(c) PROVE PathsAreExclusive'
  BY <1>15 DEF Release, Absent, Reserved
<1>16. ASSUME NEW c \in Closes, ReleaseCount(c) PROVE PathsAreExclusive'
  BY <1>16 DEF ReleaseCount
<1>17. ASSUME UnloadIdle PROVE PathsAreExclusive'
  BY <1>17 DEF UnloadIdle
<1>18. ASSUME UNCHANGED vars PROVE PathsAreExclusive'
  BY <1>18 DEF vars
<1> QED
  BY <1>1, <1>2, <1>3, <1>4, <1>5, <1>6, <1>7, <1>8, <1>9,
     <1>10, <1>11, <1>12, <1>13, <1>14, <1>15, <1>16, <1>17, <1>18 DEF Next, SpawnStep, CloseStep

-------------------------------------------------------------------------------
(* A step that changes no entry of a counted key into or out of an agent's. *)
LEMMA RegisteredKept ==
    ASSUME \A k \in CountedKeys : tree'[k] = tree[k]
                \/ {tree[k], tree'[k]} \subseteq {Absent, Reserved}
    PROVE  Registered' = Registered
  BY ThreadsAssumption DEF Registered

(* The counter keeps covering what it stands for, within the limit. *)
LEMMA CountStep ==
    ASSUME IInv, [Next]_vars
    PROVE  CountCoversAgents'
<1> USE ThreadsAssumption, PathsAssumption, LimitsAssumption
    DEF IInv, TypeOK, LocalsOK, SpawnStates, SpawnPcs, CloseStates, SpawnSet, SpawnGoto
<1>f. /\ Cardinality(Registered) \in Nat /\ IsFiniteSet(Registered)
      /\ Cardinality(Holding) \in Nat /\ IsFiniteSet(Holding)
      /\ Cardinality(Releasing) \in Nat /\ IsFiniteSet(Releasing)
      /\ count \in Nat /\ lost \in Nat
  BY FiniteParts
<1>1. ASSUME NEW s \in Spawns, StartSpawn(s) PROVE CountCoversAgents'
  <2>1. Registered' = Registered /\ Releasing' = Releasing /\ count' = count /\ lost' = lost
    BY <1>1 DEF StartSpawn, Registered, Releasing
  <2>2. OnlySpawn(s) /\ (s \in Holding <=> (s \in Holding)')
    BY <1>1 DEF StartSpawn, OnlySpawn, Holding
  <2> QED
    BY <2>1, <2>2, HoldingStep, Neutral
<1>2. ASSUME NEW s \in Spawns, StartResume(s) PROVE CountCoversAgents'
  <2>1. Registered' = Registered /\ Releasing' = Releasing /\ count' = count /\ lost' = lost
    BY <1>2 DEF StartResume, Registered, Releasing
  <2>2. OnlySpawn(s) /\ (s \in Holding <=> (s \in Holding)')
    BY <1>2 DEF StartResume, OnlySpawn, Holding
  <2> QED
    BY <2>1, <2>2, HoldingStep, Neutral
<1>3. ASSUME NEW s \in Spawns, SpawnFails(s) PROVE CountCoversAgents'
  <2>1. Registered' = Registered /\ Releasing' = Releasing /\ count' = count /\ lost' = lost
    BY <1>3 DEF SpawnFails, Registered, Releasing
  <2>2. OnlySpawn(s) /\ (s \in Holding <=> (s \in Holding)')
    BY <1>3 DEF SpawnFails, OnlySpawn, Holding
  <2> QED
    BY <2>1, <2>2, HoldingStep, Neutral
<1>4. ASSUME NEW s \in Spawns, CreateThread(s) PROVE CountCoversAgents'
  <2>1. Registered' = Registered /\ Releasing' = Releasing /\ count' = count /\ lost' = lost
    BY <1>4 DEF CreateThread, Registered, Releasing
  <2>2. OnlySpawn(s) /\ (s \in Holding <=> (s \in Holding)')
    BY <1>4 DEF CreateThread, OnlySpawn, Holding
  <2> QED
    BY <2>1, <2>2, HoldingStep, Neutral
<1>5. ASSUME NEW s \in Spawns, LookUpThread(s) PROVE CountCoversAgents'
  <2>1. Registered' = Registered /\ Releasing' = Releasing /\ count' = count /\ lost' = lost
    BY <1>5 DEF LookUpThread, Registered, Releasing
  <2>2. OnlySpawn(s) /\ (s \in Holding <=> (s \in Holding)')
    BY <1>5 DEF LookUpThread, OnlySpawn, Holding
  <2> QED
    BY <2>1, <2>2, HoldingStep, Neutral
<1>6. ASSUME NEW s \in Spawns, FinalizeThread(s) PROVE CountCoversAgents'
  <2>1. Registered' = Registered /\ Releasing' = Releasing /\ count' = count /\ lost' = lost
    BY <1>6 DEF FinalizeThread, Registered, Releasing
  <2>2. OnlySpawn(s) /\ (s \in Holding <=> (s \in Holding)')
    BY <1>6 DEF FinalizeThread, OnlySpawn, Holding
  <2> QED
    BY <2>1, <2>2, HoldingStep, Neutral
<1>7. ASSUME NEW s \in Spawns, ResumeEffects(s) PROVE CountCoversAgents'
  <2>1. Registered' = Registered /\ Releasing' = Releasing /\ count' = count /\ lost' = lost
    BY <1>7 DEF ResumeEffects, Registered, Releasing
  <2>2. OnlySpawn(s) /\ (s \in Holding <=> (s \in Holding)')
    BY <1>7 DEF ResumeEffects, OnlySpawn, Holding
  <2> QED
    BY <2>1, <2>2, HoldingStep, Neutral
<1>8. ASSUME NEW s \in Spawns, ReserveSlot(s) PROVE CountCoversAgents'
  <2>1. Registered' = Registered /\ Releasing' = Releasing /\ OnlySpawn(s) /\ s \notin Holding /\ lost' = lost
    BY <1>8 DEF ReserveSlot, Registered, Releasing, OnlySpawn, Holding
  <2>2. CASE count < MaxThreads /\ count' = count + 1 /\ SpawnGoto(s, "prepare")
    <3>1. Holding' = Holding \cup {s}
      BY <2>1, <2>2, HoldingStep DEF Holding
    <3>2. Cardinality(Holding') = Cardinality(Holding) + 1
      BY <1>f, <2>1, <3>1, FS_AddElement
    <3> QED
      BY <1>f, <2>1, <2>2, <3>2 DEF CountCoversAgents
  <2>3. CASE UNCHANGED count /\ SpawnGoto(s, "done")
    <3>1. Holding' = Holding
      BY <2>1, <2>3, HoldingStep DEF Holding
    <3> QED
      BY <2>1, <2>3, <3>1, Neutral
  <2> QED
    BY <1>8, <2>2, <2>3 DEF ReserveSlot, BelowLimit
<1>9. ASSUME NEW s \in Spawns, Prepare(s) PROVE CountCoversAgents'
  <2>1. PICK tr \in {tree, WithRoot(tree)} : Prepared(s, tr)
    BY <1>9, PrepareForm
  <2>2. tr \in [Keys -> Entries] /\ \A k \in CountedKeys : tr[k] = tree[k]
    BY <2>1 DEF WithRoot, Entries, Keys, CountedKeys
  <2>3. Registered' = Registered
    BY <2>1, <2>2, RegisteredKept DEF Prepared, Keys, CountedKeys
  <2>4. Releasing' = Releasing /\ count' = count /\ lost' = lost
    BY <1>9 DEF Prepare, Releasing
  <2>5. OnlySpawn(s) /\ (s \in Holding <=> (s \in Holding)')
    BY <1>9, <2>1 DEF Prepare, Prepared, OnlySpawn, Holding
  <2> QED
    BY <2>3, <2>4, <2>5, HoldingStep, Neutral
<1>10. ASSUME NEW s \in Spawns, Commit(s) PROVE CountCoversAgents'
  <2>1. Registered' = Registered \cup {KeyOf(s)}
    BY <1>10 DEF Commit, Registered, KeyOf, Keys, CountedKeys
  <2>2. Cardinality(Registered') + lost' = Cardinality(Registered) + lost + 1
    <3>1. CASE KeyOf(s) \in Registered
      <4>1. Registered' = Registered /\ lost' = lost + 1
        BY <1>10, <2>1, <3>1 DEF Commit
      <4> QED
        BY <4>1, <1>f
    <3>2. CASE KeyOf(s) \notin Registered
      <4>1. lost' = lost
        BY <1>10, <3>2 DEF Commit
      <4>2. Cardinality(Registered') = Cardinality(Registered) + 1
        BY <1>f, <2>1, <3>2, FS_AddElement
      <4> QED
        BY <4>1, <4>2, <1>f
    <3> QED
      BY <3>1, <3>2
  <2>3. OnlySpawn(s) /\ s \in Holding /\ ~(s \in Holding)'
    BY <1>10 DEF Commit, OnlySpawn, Holding
  <2>4. Cardinality(Holding') = Cardinality(Holding) - 1
    BY <1>f, <2>3, HoldingStep, LoseOne
  <2>5. Releasing' = Releasing /\ count' = count
    BY <1>10 DEF Commit, Releasing
  <2>6. Cardinality(Registered') \in Nat /\ lost' \in Nat
    <3>1. IsFiniteSet(Registered')
      BY <1>f, <2>1, FS_AddElement
    <3>2. lost' \in {lost, lost + 1}
      BY <1>10 DEF Commit
    <3> QED
      BY <1>f, <3>1, <3>2, FS_CardinalityType
  <2>7. /\ count = Cardinality(Registered) + Cardinality(Holding) + Cardinality(Releasing) + lost
        /\ count <= MaxThreads
    BY DEF CountCoversAgents
  <2>8. Cardinality(Releasing') = Cardinality(Releasing)
    BY <2>5
  <2>9. count' = Cardinality(Registered') + Cardinality(Holding') + Cardinality(Releasing') + lost'
    BY <1>f, <2>2, <2>4, <2>5, <2>6, <2>7, <2>8
  <2> QED
    BY <2>5, <2>7, <2>9 DEF CountCoversAgents
<1>11. ASSUME NEW s \in Spawns, DropPath(s) PROVE CountCoversAgents'
  <2>1. Registered' = Registered
    BY <1>11, RegisteredKept DEF DropPath, Keys, CountedKeys
  <2>2. Releasing' = Releasing /\ count' = count /\ lost' = lost
    BY <1>11 DEF DropPath, Releasing
  <2>3. OnlySpawn(s) /\ (s \in Holding <=> (s \in Holding)')
    BY <1>11 DEF DropPath, OnlySpawn, Holding
  <2> QED
    BY <2>1, <2>2, <2>3, HoldingStep, Neutral
<1>12. ASSUME NEW s \in Spawns, DropCount(s) PROVE CountCoversAgents'
  <2>1. Registered' = Registered /\ Releasing' = Releasing /\ count' = count - 1 /\ lost' = lost
    BY <1>12 DEF DropCount, Registered, Releasing
  <2>2. OnlySpawn(s) /\ s \in Holding /\ ~(s \in Holding)'
    BY <1>12 DEF DropCount, OnlySpawn, Holding
  <2>3. Cardinality(Holding') = Cardinality(Holding) - 1
    BY <1>f, <2>2, HoldingStep, LoseOne
  <2> QED
    BY <1>f, <2>1, <2>3 DEF CountCoversAgents
<1>13. ASSUME NEW c \in Closes, StartClose(c) PROVE CountCoversAgents'
  <2>1. Registered' = Registered /\ Holding' = Holding /\ count' = count /\ lost' = lost
    BY <1>13 DEF StartClose, Registered, Holding
  <2>2. OnlyClose(c) /\ (c \in Releasing <=> (c \in Releasing)')
    BY <1>13 DEF StartClose, OnlyClose, Releasing
  <2> QED
    BY <2>1, <2>2, ReleasingStep, Neutral
<1>14. ASSUME NEW c \in Closes, Unload(c) PROVE CountCoversAgents'
  <2>1. Registered' = Registered /\ Holding' = Holding /\ count' = count /\ lost' = lost
    BY <1>14 DEF Unload, Registered, Holding
  <2>2. OnlyClose(c) /\ (c \in Releasing <=> (c \in Releasing)')
    BY <1>14 DEF Unload, OnlyClose, Releasing
  <2> QED
    BY <2>1, <2>2, ReleasingStep, Neutral
<1>15. ASSUME NEW c \in Closes, Release(c) PROVE CountCoversAgents'
  <2>1. Holding' = Holding /\ count' = count /\ lost' = lost /\ OnlyClose(c) /\ c \notin Releasing
    BY <1>15 DEF Release, Holding, OnlyClose, Releasing
  <2>2. CASE UNCHANGED tree /\ close' = [close EXCEPT ![c].pc = "done"]
    <3>1. Registered' = Registered /\ Releasing' = Releasing
      BY <2>1, <2>2, ReleasingStep DEF Registered, Releasing
    <3> QED
      BY <2>1, <3>1, Neutral
  <2>3. ASSUME NEW k \in Keys, tree[k] = close[c].thread, tree' = [tree EXCEPT ![k] = Absent],
               close' = [close EXCEPT ![c].pc = IF Counted(k) THEN "sub" ELSE "done"]
        PROVE  CountCoversAgents'
    <3>1. CASE Counted(k)
      <4>1. k \in CountedKeys /\ close[c].thread \in Threads \cup {RootThread}
        BY <1>15, <3>1 DEF Counted, Keys, Release
      <4>2. k \in Registered /\ Registered' = Registered \ {k}
        BY <2>3, <4>1 DEF Registered, Keys
      <4>3. Cardinality(Registered') = Cardinality(Registered) - 1
        BY <1>f, <4>2, LoseOne
      <4>4. Releasing' = Releasing \cup {c}
        BY <2>1, <2>3, <3>1, ReleasingStep DEF Releasing
      <4>5. Cardinality(Releasing') = Cardinality(Releasing) + 1
        BY <1>f, <2>1, <4>4, FS_AddElement
      <4> QED
        BY <1>f, <2>1, <4>3, <4>5 DEF CountCoversAgents
    <3>2. CASE ~Counted(k)
      <4>1. \A j \in CountedKeys : tree'[j] = tree[j]
        BY <2>3, <3>2 DEF Counted, Keys, CountedKeys
      <4>2. Registered' = Registered
        BY <4>1, RegisteredKept
      <4>3. Releasing' = Releasing
        BY <2>1, <2>3, <3>2, ReleasingStep DEF Releasing
      <4> QED
        BY <2>1, <4>2, <4>3, Neutral
    <3> QED
      BY <3>1, <3>2
  <2> QED
    BY <1>15, <2>2, <2>3 DEF Release
<1>16. ASSUME NEW c \in Closes, ReleaseCount(c) PROVE CountCoversAgents'
  <2>1. Registered' = Registered /\ Holding' = Holding /\ count' = count - 1 /\ lost' = lost
    BY <1>16 DEF ReleaseCount, Registered, Holding
  <2>2. OnlyClose(c) /\ c \in Releasing /\ ~(c \in Releasing)'
    BY <1>16 DEF ReleaseCount, OnlyClose, Releasing
  <2>3. Cardinality(Releasing') = Cardinality(Releasing) - 1
    BY <1>f, <2>2, ReleasingStep, LoseOne
  <2> QED
    BY <1>f, <2>1, <2>3 DEF CountCoversAgents
<1>17. ASSUME UnloadIdle \/ UNCHANGED vars PROVE CountCoversAgents'
  <2>1. Registered' = Registered /\ Holding' = Holding /\ Releasing' = Releasing /\ count' = count /\ lost' = lost
    BY <1>17 DEF UnloadIdle, vars, Registered, Holding, Releasing
  <2> QED
    BY <2>1, Neutral
<1> QED
  BY <1>1, <1>2, <1>3, <1>4, <1>5, <1>6, <1>7, <1>8, <1>9,
     <1>10, <1>11, <1>12, <1>13, <1>14, <1>15, <1>16, <1>17 DEF Next, SpawnStep, CloseStep

-------------------------------------------------------------------------------
(* The inductive invariant holds in every reachable state. *)
THEOREM Inductive == Spec => []IInv
<1>1. Init => IInv
  BY InitHolds
<1>2. IInv /\ [Next]_vars => IInv'
  BY TypeStep, PathStep, CountStep DEF IInv
<1> QED
  BY <1>1, <1>2, PTL DEF Spec

(***************************************************************************)
(* For any number of spawns, resumes and closes in flight, the counter of  *)
(* AgentRegistry is the registered agents, the reservations, the slots     *)
(* being released and the registrations replaced by a commit under their   *)
(* key, no more and no less, and never exceeds agent_max_threads.          *)
(***************************************************************************)
THEOREM SpawnLimit == Spec => []CountCoversAgents
<1>1. IInv => CountCoversAgents
  BY DEF IInv
<1> QED
  BY <1>1, Inductive, PTL

(* A path that reserve_agent_path reserved stays with the reservation that asked for it. *)
THEOREM PathOwnership == Spec => []PathsAreExclusive
<1>1. IInv => PathsAreExclusive
  BY DEF IInv
<1> QED
  BY <1>1, Inductive, PTL

(* The variables keep their types; fetch_sub never takes the counter below zero. *)
THEOREM TypeCorrect == Spec => []TypeOK
<1>1. IInv => TypeOK
  BY DEF IInv
<1> QED
  BY <1>1, Inductive, PTL
===============================================================================
