------------------------ MODULE ServerRequestsProofs ------------------------
(***************************************************************************)
(* The requests the app server sends about a thread, for any number of     *)
(* connections, requests, turns and joins: what every subscriber has been   *)
(* shown, and in which order a request and its resolution reach it.         *)
(***************************************************************************)
EXTENDS ServerRequests, TLAPS, NaturalsInduction, WellFoundedInduction

-----------------------------------------------------------------------------
(* The inductive invariant *)

(* An ask on its way to the listener is one nobody has heard of yet. *)
EventsOK ==
    \A k \in DOMAIN events : events[k].kind = "ask" =>
        /\ events[k].id <= asks
        /\ responder[events[k].id] = "off" /\ shot[events[k].id] = "none"
        /\ events[k].id \notin callbacks
        /\ lis.pc \in {"register", "send"} => lis.id # events[k].id
        /\ \A m \in DOMAIN events : m # k => events[m].id # events[k].id

(* So are the requests that were not asked, and the refresh before it starts. *)
FreshOK ==
    /\ \A i \in Asks : i > asks => responder[i] = "off" /\ shot[i] = "none" /\ i \notin callbacks
    /\ refresh.pc = "idle" => shot[Refresh] = "none" /\ Refresh \notin callbacks

(* A request is resolved only after its oneshot was filled, which takes the    *)
(* callback; its resolution is in the queue, once, while its task awaits it; a *)
(* client has seen it only if the task is done.                                *)
LifeOK ==
    /\ \A i \in Asks : responder[i] \in {"command", "await", "done"} => shot[i] # "none"
    /\ \A k \in DOMAIN queue : queue[k].kind = "resolve" => responder[queue[k].id] = "await"
    /\ \A k, m \in DOMAIN queue :
          queue[k].kind = "resolve" /\ queue[m].kind = "resolve" /\ k # m => queue[k].id # queue[m].id
    /\ \A c \in Conns, i \in Asks : last[c][i] = "resolved" => responder[i] = "done"

(* What the listener is about to send is not resolved, and before its callback  *)
(* is there nobody can have answered it.                                        *)
ListenerOK ==
    /\ lis.pc \in {"register", "send"} => lis.id \in Asks /\ lis.id <= asks /\ responder[lis.id] = "off"
    /\ lis.pc = "register" => shot[lis.id] = "none" /\ lis.id \notin callbacks
    /\ lis.pc = "replay" => lis.conn \in Conns
    /\ lis.pc = "replay" => \A i \in lis.ids, c \in Conns : last[c][i] # "resolved"

(* A pending request has been shown to who has joined, or is about to be, and   *)
(* to who is joining, or is among those still to be replayed; nobody joins       *)
(* between the listener's look at the subscribers and the callback.              *)
ShownOK ==
    /\ lis.pc = "register" => joined \subseteq lis.to
    /\ \A c \in joined, i \in callbacks \cap Asks :
          last[c][i] = "request" \/ (lis.pc = "send" /\ lis.id = i /\ c \in lis.to)
    /\ lis.pc = "replay" => \A i \in callbacks \cap Asks : i \in lis.ids \/ last[lis.conn][i] = "request"

IInv == TypeOK /\ EventsOK /\ FreshOK /\ LifeOK /\ ListenerOK /\ ShownOK

-----------------------------------------------------------------------------
(* Commands, events and sequences *)

(* What the fields of a command and of an event are. *)
LEMMA Fields ==
    /\ \A q \in Commands : /\ q.kind \in {"resume", "resolve"}
                           /\ q.kind = "resume" => q.conn \in Conns
                           /\ q.kind = "resolve" => q.id \in Asks
    /\ \A e \in Events : /\ e.kind \in {"start", "ask", "end", "abort"}
                         /\ e.id \in Ids
                         /\ e.kind = "ask" => e.id \in Asks
                         /\ e.kind # "ask" => e.id = 0
    /\ \A c \in Conns : [kind |-> "resume", conn |-> c] \in Commands
    /\ \A i \in Asks : [kind |-> "resolve", id |-> i] \in Commands /\ [kind |-> "ask", id |-> i] \in Events
    /\ \A k \in {"start", "end", "abort"} : [kind |-> k, id |-> 0] \in Events
  BY DEF Commands, Events, Ids, Refresh

(* The numbers of requests are natural numbers, and 0 is none of the thread. *)
LEMMA Numbers == /\ Asks \subseteq Ids /\ Refresh \in Ids /\ Refresh \notin Asks /\ Refresh = 0
                 /\ Ids \subseteq Nat /\ MaxAsks \in Nat /\ MaxTurns \in Nat /\ MaxJoins \in Nat
                 /\ \A i : i \in Asks <=> i \in Nat /\ 1 <= i /\ i <= MaxAsks
  BY BoundsAreNaturals DEF Asks, Ids, Refresh

(* The elements of a channel, and of what is left when the first is taken. *)
LEMMA Channel ==
    ASSUME NEW S, NEW s \in Seq(S)
    PROVE  /\ \A k \in DOMAIN s : s[k] \in S
           /\ s # <<>> => /\ Head(s) \in S /\ Head(s) = s[1] /\ 1 \in DOMAIN s
                          /\ Tail(s) \in Seq(S)
                          /\ \A k \in DOMAIN Tail(s) :
                                /\ k + 1 \in DOMAIN s /\ k + 1 # 1 /\ Tail(s)[k] = s[k + 1]
                                /\ \A m \in DOMAIN Tail(s) : k # m => k + 1 # m + 1
  OBVIOUS

(* The elements of a channel that got one more. *)
LEMMA Longer ==
    ASSUME NEW S, NEW s \in Seq(S), NEW e \in S, NEW t, t = Append(s, e)
    PROVE  /\ t \in Seq(S)
           /\ \A k \in DOMAIN t : (k \in DOMAIN s /\ t[k] = s[k]) \/ (k = Len(s) + 1 /\ t[k] = e)
           /\ Len(s) + 1 \notin DOMAIN s
  OBVIOUS

(* Replays go by the smallest number left, and there is one. *)
LEMMA SmallestExists ==
    ASSUME NEW S \in SUBSET Nat, S # {}
    PROVE  \E x \in S : \A y \in S : x <= y
<1>1. PICK x \in S : \A y \in S : ~(<<y, x>> \in OpToRel(<, Nat))
  BY NatLessThanWellFounded, WFMin
<1>2. \A y \in S : ~(y < x)
  BY <1>1 DEF OpToRel
<1> QED BY <1>2

(* One message more, to connection c about request i. *)
Sent(f, c, i) == [f EXCEPT ![c][i] = "request"]

(* It changes what c was last sent about i, and nothing else. *)
LEMMA SentForm ==
    ASSUME NEW f \in [Conns -> [Asks -> {"none", "request", "resolved"}]], NEW c \in Conns, NEW i \in Asks
    PROVE  /\ Sent(f, c, i) \in [Conns -> [Asks -> {"none", "request", "resolved"}]]
           /\ \A d \in Conns, j \in Asks :
                 Sent(f, c, i)[d][j] = IF d = c /\ j = i THEN "request" ELSE f[d][j]
  BY DEF Sent

(* What SendRequest does to the listener and to what the clients were sent. *)
LEMMA SendForm ==
    ASSUME IInv, SendRequest
    PROVE  /\ lis.pc = "send"
           /\ UNCHANGED <<live, subs, joined, callbacks, shot, queue, events, asks, refresh>>
           /\ \/ /\ lis.to = {} /\ lis' = Selecting /\ UNCHANGED last
                 /\ responder' = [responder EXCEPT ![lis.id] = "wait"]
              \/ \E c \in lis.to :
                 /\ c \in Conns /\ UNCHANGED responder
                 /\ lis' = [pc |-> "send", id |-> lis.id, to |-> lis.to \ {c}, conn |-> lis.conn, ids |-> lis.ids]
                 /\ last' \in [Conns -> [Asks -> {"none", "request", "resolved"}]]
                 /\ \A d \in Conns, j \in Asks :
                       last'[d][j] = IF d = c /\ j = lis.id THEN "request" ELSE last[d][j]
<1>0. lis.pc = "send" /\ UNCHANGED <<live, subs, joined, callbacks, shot, queue, events, asks, refresh>>
  BY DEF SendRequest, clientVars, coreVars
<1>1. CASE lis.to = {}
  BY <1>0, <1>1 DEF SendRequest
<1>2. CASE lis.to # {}
  <2>1. PICK c \in lis.to : last' = Sent(last, c, lis.id) /\ lis' = [lis EXCEPT !.to = @ \ {c}]
                            /\ UNCHANGED responder
    BY <1>2 DEF SendRequest, Sent
  <2>2. c \in Conns /\ lis.id \in Asks
    BY <2>1, <1>0 DEF IInv, TypeOK, ListenerOK
  <2>3. last \in [Conns -> [Asks -> {"none", "request", "resolved"}]]
    BY DEF IInv, TypeOK
  <2>4. /\ last' \in [Conns -> [Asks -> {"none", "request", "resolved"}]]
        /\ \A d \in Conns, j \in Asks : last'[d][j] = IF d = c /\ j = lis.id THEN "request" ELSE last[d][j]
    BY <2>1, <2>2, <2>3, SentForm
  <2>5. lis' = [pc |-> "send", id |-> lis.id, to |-> lis.to \ {c}, conn |-> lis.conn, ids |-> lis.ids]
    <3>1. lis \in [pc : {"select", "register", "send", "replay", "done"}, id : Ids, to : SUBSET Conns,
                  conn : Conns \cup {None}, ids : SUBSET Asks]
      BY DEF IInv, TypeOK
    <3>2. lis.pc = "send"
      BY DEF SendRequest
    <3> QED BY <2>1, <3>1, <3>2
  <2> QED BY <1>0, <2>1, <2>2, <2>4, <2>5
<1> QED BY <1>0, <1>1, <1>2

(* What Replay does to them. *)
LEMMA ReplayForm ==
    ASSUME IInv, Replay
    PROVE  /\ lis.pc = "replay"
           /\ UNCHANGED <<live, subs, callbacks, shot, responder, queue, events, asks, refresh>>
           /\ \/ /\ lis.ids = {} /\ lis' = Selecting /\ UNCHANGED last
                 /\ joined' = joined \cup ({lis.conn} \cap subs)
              \/ \E i \in lis.ids :
                 /\ i \in Asks /\ UNCHANGED joined
                 /\ lis' = [pc |-> "replay", id |-> lis.id, to |-> lis.to, conn |-> lis.conn, ids |-> lis.ids \ {i}]
                 /\ last' \in [Conns -> [Asks -> {"none", "request", "resolved"}]]
                 /\ \A d \in Conns, j \in Asks :
                       last'[d][j] = IF d = lis.conn /\ j = i THEN "request" ELSE last[d][j]
<1>0. lis.pc = "replay" /\ UNCHANGED <<live, subs, callbacks, shot, responder, queue, events, asks, refresh>>
  BY DEF Replay, clientVars, coreVars
<1>1. CASE lis.ids = {}
  BY <1>0, <1>1 DEF Replay
<1>2. CASE lis.ids # {}
  <2>1. lis.ids \in SUBSET Asks /\ lis.ids \in SUBSET Nat /\ lis.conn \in Conns
    BY Numbers DEF IInv, TypeOK, Replay, ListenerOK
  <2>2. \E i \in lis.ids : \A j \in lis.ids : i <= j
    BY <1>2, <2>1, SmallestExists
  <2>3. PICK i \in lis.ids : last' = Sent(last, lis.conn, i) /\ lis' = [lis EXCEPT !.ids = @ \ {i}]
                             /\ UNCHANGED joined
    BY <1>2, <2>2 DEF Replay, Sent
  <2>4. last \in [Conns -> [Asks -> {"none", "request", "resolved"}]] /\ i \in Asks
    BY <2>1 DEF IInv, TypeOK
  <2>5. /\ last' \in [Conns -> [Asks -> {"none", "request", "resolved"}]]
        /\ \A d \in Conns, j \in Asks : last'[d][j] = IF d = lis.conn /\ j = i THEN "request" ELSE last[d][j]
    BY <2>1, <2>3, <2>4, SentForm
  <2>6. lis' = [pc |-> "replay", id |-> lis.id, to |-> lis.to, conn |-> lis.conn, ids |-> lis.ids \ {i}]
    <3>1. lis \in [pc : {"select", "register", "send", "replay", "done"}, id : Ids, to : SUBSET Conns,
                  conn : Conns \cup {None}, ids : SUBSET Asks]
      BY DEF IInv, TypeOK
    <3>2. lis.pc = "replay"
      BY DEF Replay
    <3> QED BY <2>3, <3>1, <3>2
  <2> QED BY <1>0, <2>1, <2>3, <2>5, <2>6
<1> QED BY <1>0, <1>1, <1>2

(* What TakeResolve does: every subscriber is told, and the task is done. *)
LEMMA ResolveForm ==
    ASSUME IInv, TakeResolve
    PROVE  /\ lis.pc = "select"
           /\ UNCHANGED <<live, subs, joined, callbacks, shot, lis, events, asks, refresh>>
           /\ \E i \in Asks :
                 /\ i = queue[1].id /\ 1 \in DOMAIN queue /\ responder[i] = "await"
                 /\ responder' = [responder EXCEPT ![i] = "done"]
                 /\ last' \in [Conns -> [Asks -> {"none", "request", "resolved"}]]
                 /\ \A d \in Conns, j \in Asks :
                       last'[d][j] = IF d \in subs /\ j = i THEN "resolved" ELSE last[d][j]
<1> DEFINE i == Head(queue).id
<1>1. queue \in Seq(Commands) /\ queue # <<>> /\ Head(queue).kind = "resolve"
  BY DEF IInv, TypeOK, TakeResolve
<1>2. Head(queue) = queue[1] /\ 1 \in DOMAIN queue /\ Head(queue) \in Commands
  BY <1>1, Channel
<1>3. i \in Asks /\ responder[i] = "await"
  BY <1>1, Fields DEF IInv, LifeOK
<1>4. last' = Resolved(i) /\ responder' = [responder EXCEPT ![i] = "done"]
  BY DEF TakeResolve
<1> HIDE DEF i
<1>5. /\ last' \in [Conns -> [Asks -> {"none", "request", "resolved"}]]
      /\ \A d \in Conns, j \in Asks :
            last'[d][j] = IF d \in subs /\ j = i THEN "resolved" ELSE last[d][j]
  BY <1>4 DEF Resolved, IInv, TypeOK
<1>6. lis.pc = "select" /\ UNCHANGED <<live, subs, joined, callbacks, shot, lis, events, asks, refresh>>
  BY DEF TakeResolve, clientVars, coreVars
<1> QED BY <1>2, <1>3, <1>4, <1>5, <1>6 DEF i

(* What the end of the listener does: the tasks whose resolution is queued give up. *)
LEMMA EndForm ==
    ASSUME IInv, ListenerEnds
    PROVE  /\ lis.pc = "select" /\ lis'.pc = "done" /\ queue' = <<>>
           /\ \A j \in Asks : responder'[j] = responder[j] \/ (responder[j] = "await" /\ responder'[j] = "done")
           /\ UNCHANGED <<live, subs, joined, callbacks, shot, last, events, asks, refresh>>
<1>1. lis.pc = "select" /\ lis'.pc = "done" /\ queue' = <<>>
  BY DEF ListenerEnds, MayEnd, IInv, TypeOK
<1>2. UNCHANGED <<live, subs, joined, callbacks, shot, last, events, asks, refresh>>
  BY DEF ListenerEnds, clientVars, coreVars
<1>3. ASSUME NEW j \in Asks, NEW n \in DOMAIN queue, queue[n] = [kind |-> "resolve", id |-> j]
      PROVE  responder[j] = "await"
  <2>1. queue[n].kind = "resolve" /\ queue[n].id = j
    BY <1>3
  <2> QED BY <2>1 DEF IInv, LifeOK
<1>4. \A j \in Asks : responder'[j] = IF \E n \in DOMAIN queue : queue[n] = [kind |-> "resolve", id |-> j]
                                       THEN "done" ELSE responder[j]
  BY DEF ListenerEnds
<1> QED BY <1>1, <1>2, <1>3, <1>4

(* The variables keep their types. *)
LEMMA TypeStep == ASSUME IInv, [Next]_vars PROVE TypeOK'
  <1>a. events \in Seq(Events) /\ queue \in Seq(Commands)
    BY DEF IInv, TypeOK
  <1>1. ASSUME CoreStep PROVE TypeOK'
    <2>1. events' \in Seq(Events) /\ asks' \in 0 .. MaxAsks
      <3>1. CASE asks' = asks + 1 /\ events' = Append(events, [kind |-> "ask", id |-> asks + 1]) /\ asks < MaxAsks
        <4>1. asks + 1 \in Asks /\ asks + 1 \in 0 .. MaxAsks
          BY <3>1, BoundsAreNaturals DEF IInv, TypeOK, Asks
        <4>2. [kind |-> "ask", id |-> asks + 1] \in Events
          BY <4>1, Fields
        <4> QED BY <3>1, <4>1, <4>2, <1>a
      <3>2. CASE \E k \in {"start", "end", "abort"} : UNCHANGED asks /\ events' = Append(events, [kind |-> k, id |-> 0])
        BY <3>2, Fields DEF IInv, TypeOK
      <3> QED BY <1>1, <3>1, <3>2 DEF CoreStep
    <2>2. turn' \in BOOLEAN
      BY <1>1 DEF CoreStep, IInv, TypeOK
    <2>5. calls' \subseteq Asks
      <3>1. asks \in Nat /\ calls \subseteq Asks
        BY DEF IInv, TypeOK
      <3>2. CASE calls' = calls
        BY <3>1, <3>2
      <3>3. CASE asks < MaxAsks /\ calls' = calls \cup {asks + 1}
        <4>1. asks + 1 \in Asks
          BY <3>1, <3>3, Numbers
        <4> QED BY <3>1, <3>3, <4>1
      <3> QED BY <1>1, <3>2, <3>3 DEF CoreStep
    <2>3. turns' \in 0 .. MaxTurns
      <3>1. turns \in 0 .. MaxTurns
        BY DEF IInv, TypeOK
      <3> QED BY <1>1, <3>1, Numbers DEF CoreStep
    <2>4. UNCHANGED <<live, subs, joined, callbacks, shot, responder, last, lis, queue, stopped, loop,
                      refresh, joins>>
      BY <1>1 DEF CoreStep, clientVars, reqVars, lisVars
    <2> QED BY <2>1, <2>2, <2>3, <2>4, <2>5 DEF IInv, TypeOK
  <1>2. ASSUME NEW kinds, TakeTransition(kinds) PROVE TypeOK'
    BY <1>2 DEF TakeTransition, CancelRequests, IInv, TypeOK, lisVars, clientVars
  <1>3. ASSUME TakeAsk PROVE TypeOK'
    <2>1. NextId \in Asks /\ events # <<>>
      BY <1>3, Fields, <1>a DEF TakeAsk, NextId
    <2>2. lis' \in [pc : {"select", "register", "send", "replay", "done"}, id : Ids, to : SUBSET Conns,
                   conn : Conns \cup {None}, ids : SUBSET Asks]
      BY <1>3, <2>1, Numbers DEF TakeAsk, IInv, TypeOK
    <2>3. events' \in Seq(Events)
      BY <1>3, <2>1, <1>a DEF TakeAsk
    <2>4. UNCHANGED <<live, subs, joined, callbacks, shot, responder, last, queue, stopped, loop, refresh, turn,
                      calls, asks, turns, joins>>
      BY <1>3 DEF TakeAsk, clientVars, reqVars
    <2> QED BY <2>2, <2>3, <2>4 DEF IInv, TypeOK
  <1>23. ASSUME RegisterCallback PROVE TypeOK'
    <2>1. lis.id \in Ids /\ shot[lis.id] = "none"
      BY <1>23 DEF RegisterCallback, IInv, TypeOK, ListenerOK
    <2>2. lis' \in [pc : {"select", "register", "send", "replay", "done"}, id : Ids, to : SUBSET Conns,
                   conn : Conns \cup {None}, ids : SUBSET Asks]
      BY <1>23 DEF RegisterCallback, IInv, TypeOK
    <2>3. UNCHANGED <<live, subs, joined, shot, responder, last, queue, stopped, loop, refresh, turn, calls,
                      events, asks, turns, joins>> /\ callbacks' = callbacks \cup {lis.id}
      BY <1>23 DEF RegisterCallback, clientVars, coreVars
    <2> QED BY <2>1, <2>2, <2>3 DEF IInv, TypeOK
  <1>4. ASSUME SendRequest PROVE TypeOK'
    <2>1. last' \in [Conns -> [Asks -> {"none", "request", "resolved"}]]
      BY <1>4, SendForm DEF IInv, TypeOK
    <2>2. responder' \in [Asks -> {"off", "wait", "command", "await", "done"}]
      <3>1. responder \in [Asks -> {"off", "wait", "command", "await", "done"}]
        BY DEF IInv, TypeOK
      <3> QED BY <1>4, <3>1, SendForm
    <2>3. lis' \in [pc : {"select", "register", "send", "replay", "done"}, id : Ids, to : SUBSET Conns,
                   conn : Conns \cup {None}, ids : SUBSET Asks]
      BY <1>4, SendForm, Numbers DEF IInv, TypeOK, Selecting
    <2>4. UNCHANGED <<live, subs, joined, callbacks, shot, queue, stopped, loop, refresh, turn, calls,
                      events, asks, turns, joins>>
      BY <1>4 DEF SendRequest, clientVars, coreVars
    <2> QED BY <2>1, <2>2, <2>3, <2>4 DEF IInv, TypeOK
  <1>5. ASSUME TakeResolve PROVE TypeOK'
    <2>1. last' \in [Conns -> [Asks -> {"none", "request", "resolved"}]]
      BY <1>5, ResolveForm
    <2>2. responder' \in [Asks -> {"off", "wait", "command", "await", "done"}]
      BY <1>5, ResolveForm DEF IInv, TypeOK
    <2>3. queue' \in Seq(Commands)
      BY <1>5, <1>a DEF TakeResolve
    <2>4. UNCHANGED <<live, subs, joined, callbacks, shot, lis, stopped, loop, refresh, turn, calls, events,
                      asks, turns, joins>>
      BY <1>5 DEF TakeResolve, clientVars, coreVars
    <2> QED BY <2>1, <2>2, <2>3, <2>4 DEF IInv, TypeOK
  <1>6. ASSUME TakeResume PROVE TypeOK'
    BY <1>6, Fields DEF TakeResume, IInv, TypeOK, coreVars, reqVars
  <1>7. ASSUME Replay PROVE TypeOK'
    <2>1. last' \in [Conns -> [Asks -> {"none", "request", "resolved"}]]
      BY <1>7, ReplayForm DEF IInv, TypeOK
    <2>2. joined' \subseteq subs
      BY <1>7, ReplayForm DEF IInv, TypeOK
    <2>3. lis' \in [pc : {"select", "register", "send", "replay", "done"}, id : Ids, to : SUBSET Conns,
                   conn : Conns \cup {None}, ids : SUBSET Asks]
      BY <1>7, ReplayForm, Numbers DEF IInv, TypeOK, Selecting
    <2>4. UNCHANGED <<live, subs, callbacks, shot, responder, queue, stopped, loop, refresh, turn, calls,
                      events, asks, turns, joins>>
      BY <1>7 DEF Replay, coreVars
    <2> QED BY <2>1, <2>2, <2>3, <2>4 DEF IInv, TypeOK
  <1>8. ASSUME ListenerEnds PROVE TypeOK'
    <2>1. lis' \in [pc : {"select", "register", "send", "replay", "done"}, id : Ids, to : SUBSET Conns,
                   conn : Conns \cup {None}, ids : SUBSET Asks]
      BY <1>8 DEF ListenerEnds, IInv, TypeOK
    <2>2. responder' \in [Asks -> {"off", "wait", "command", "await", "done"}]
      BY <1>8 DEF ListenerEnds, IInv, TypeOK
    <2>3. queue' \in Seq(Commands)
      BY <1>8 DEF ListenerEnds
    <2>4. UNCHANGED <<live, subs, joined, callbacks, shot, last, stopped, loop, refresh, turn, calls, events,
                      asks, turns, joins>>
      BY <1>8 DEF ListenerEnds, clientVars, coreVars
    <2> QED BY <2>1, <2>2, <2>3, <2>4 DEF IInv, TypeOK
  <1>9. ASSUME TeardownCancels PROVE TypeOK'
    BY <1>9 DEF TeardownCancels, CancelRequests, IInv, TypeOK, coreVars, clientVars
  <1>10. ASSUME TeardownRemoves PROVE TypeOK'
    BY <1>10 DEF TeardownRemoves, IInv, TypeOK, coreVars, reqVars
  <1>24. ASSUME TeardownSignals \/ Superseded PROVE TypeOK'
    BY <1>24 DEF TeardownSignals, Superseded, IInv, TypeOK, coreVars, reqVars, clientVars
  <1>11. ASSUME NEW i \in Asks, ResponderWakes(i) PROVE TypeOK'
    BY <1>11 DEF ResponderWakes, IInv, TypeOK, coreVars, lisVars, clientVars
  <1>12. ASSUME NEW i \in Asks, ResponderCommands(i) PROVE TypeOK'
    <2>1. responder' \in [Asks -> {"off", "wait", "command", "await", "done"}]
      <3>1. responder \in [Asks -> {"off", "wait", "command", "await", "done"}]
        BY DEF IInv, TypeOK
      <3> QED BY <1>12, <3>1 DEF ResponderCommands
    <2>2. queue' \in Seq(Commands)
      <3>1. [kind |-> "resolve", id |-> i] \in Commands
        BY Fields
      <3>2. Append(queue, [kind |-> "resolve", id |-> i]) \in Seq(Commands)
        BY <1>a, <3>1
      <3>3. queue' = queue \/ queue' = Append(queue, [kind |-> "resolve", id |-> i])
        BY <1>12 DEF ResponderCommands
      <3> QED BY <1>a, <3>2, <3>3
    <2>3. UNCHANGED <<live, subs, joined, callbacks, shot, last, lis, stopped, loop, refresh, turn, calls,
                      events, asks, turns, joins>>
      BY <1>12 DEF ResponderCommands, clientVars, coreVars
    <2> QED BY <2>1, <2>2, <2>3 DEF IInv, TypeOK
  <1>13. ASSUME NEW c \in Conns, Resume(c) PROVE TypeOK'
    BY <1>13, Numbers, Fields DEF Resume, IInv, TypeOK, coreVars, reqVars, clientVars
  <1>14. ASSUME NEW c \in Conns, Attach(c) PROVE TypeOK'
    BY <1>14, Numbers DEF Attach, IInv, TypeOK, coreVars, reqVars, lisVars
  <1>15. ASSUME NEW c \in Conns, Unsubscribe(c) PROVE TypeOK'
    BY <1>15, Numbers DEF Unsubscribe, IInv, TypeOK, coreVars, reqVars, lisVars
  <1>16. ASSUME NEW c \in Conns, ConnectionClosed(c) PROVE TypeOK'
    BY <1>16 DEF ConnectionClosed, IInv, TypeOK, coreVars, reqVars, lisVars, clientVars
  <1>17. ASSUME NEW c \in Conns, RefreshAsk(c) PROVE TypeOK'
    BY <1>17, Numbers DEF RefreshAsk, IInv, TypeOK, FreshOK, coreVars, lisVars, clientVars
  <1>18. ASSUME NEW c \in Conns, NEW i \in Ids, ClientReplies(c, i) PROVE TypeOK'
    BY <1>18 DEF ClientReplies, IInv, TypeOK, coreVars, lisVars, clientVars
  <1>19. ASSUME GateDrained PROVE TypeOK'
    BY <1>19 DEF GateDrained, IInv, TypeOK, coreVars, reqVars, lisVars
  <1>20. ASSUME RefreshReply PROVE TypeOK'
    BY <1>20 DEF RefreshReply, IInv, TypeOK, coreVars, reqVars, lisVars, clientVars
  <1>21. ASSUME RefreshTimeout PROVE TypeOK'
    <2>1. callbacks' \subseteq callbacks
      BY <1>21 DEF RefreshTimeout
    <2>2. refresh' \in [pc : {"idle", "wait", "done"}, conn : Conns \cup {None}]
      BY <1>21 DEF RefreshTimeout, IInv, TypeOK
    <2>3. UNCHANGED <<live, subs, joined, shot, responder, last, lis, queue, stopped, loop, turn, calls,
                      events, asks, turns, joins>>
      BY <1>21 DEF RefreshTimeout, clientVars, lisVars, coreVars
    <2> QED BY <2>1, <2>2, <2>3 DEF IInv, TypeOK
  <1>22. CASE UNCHANGED <<live, subs, joined, callbacks, shot, responder, last, lis, queue, stopped, loop,
                          refresh, turn, calls, events, asks, turns, joins>>
    BY <1>22 DEF IInv, TypeOK
  <1> QED BY <1>1, <1>2, <1>3, <1>4, <1>5, <1>6, <1>7, <1>8, <1>9, <1>10, <1>11, <1>12, <1>13, <1>14, <1>15,
      <1>16, <1>17, <1>18, <1>19, <1>20, <1>21, <1>22, <1>23, <1>24 DEF Next, TakeTurnEvent, TakeTurnAborted,
          TeardownStep, ListenerStep, ResponderStep, vars,
      clientVars, reqVars, lisVars, coreVars

(* Asks on their way stay unheard of. *)
LEMMA EventsStep == ASSUME IInv, [Next]_vars PROVE EventsOK'
  <1>a. events \in Seq(Events) /\ queue \in Seq(Commands)
    BY DEF IInv, TypeOK
  <1>1. ASSUME CoreStep PROVE EventsOK'
    <2>1. PICK e \in Events : /\ events' = Append(events, e)
                              /\ e.kind = "ask" => e.id = asks + 1 /\ asks' = asks + 1
                              /\ e.kind # "ask" => e.id = 0 /\ asks' = asks
      <3>1. CASE asks' = asks + 1 /\ events' = Append(events, [kind |-> "ask", id |-> asks + 1]) /\ asks < MaxAsks
        <4> DEFINE e == [kind |-> "ask", id |-> asks + 1]
        <4>1. asks + 1 \in Asks
          BY <3>1, BoundsAreNaturals DEF IInv, TypeOK, Asks
        <4>2. e \in Events /\ e.kind = "ask" /\ e.id = asks + 1
          BY <4>1, Fields
        <4> QED BY <3>1, <4>2
      <3>2. CASE \E k \in {"start", "end", "abort"} : UNCHANGED asks /\ events' = Append(events, [kind |-> k, id |-> 0])
        BY <3>2, Fields
      <3> QED BY <1>1, <3>1, <3>2 DEF CoreStep
    <2>2. UNCHANGED <<responder, shot, callbacks, lis>>
      BY <1>1 DEF CoreStep, reqVars, lisVars
    <2>4. \A k \in DOMAIN events : events[k].id \in Nat /\ (events[k].kind = "ask" => events[k].id \in Asks)
                                  /\ (events[k].kind # "ask" => events[k].id = 0)
      BY <1>a, Channel, Fields, Numbers
    <2>5. e.kind = "ask" => e.id \in Asks /\ responder[e.id] = "off" /\ shot[e.id] = "none" /\ e.id \notin callbacks
                            /\ (lis.pc \in {"register", "send"} => lis.id # e.id)
      BY <2>1, Fields DEF IInv, TypeOK, FreshOK, ListenerOK
    <2>6. asks \in Nat /\ asks <= asks'
      BY <2>1 DEF IInv, TypeOK
    <2>7. /\ DOMAIN events' = DOMAIN events \cup {Len(events) + 1} /\ Len(events) + 1 \notin DOMAIN events
          /\ events'[Len(events) + 1] = e /\ \A k \in DOMAIN events : events'[k] = events[k]
      BY <2>1, <1>a
    <2>8. \A k \in DOMAIN events : events[k].kind = "ask" => events[k].id <= asks'
      BY <2>4, <2>6, <2>1 DEF IInv, EventsOK, TypeOK
    <2>9. \A k \in DOMAIN events : e.kind = "ask" \/ events[k].kind = "ask" => events[k].id # e.id
      <3>1. \A k \in DOMAIN events : events[k].kind = "ask" => events[k].id \in Nat /\ events[k].id <= asks
        BY <2>4 DEF IInv, EventsOK
      <3>2. e.kind = "ask" => \A k \in DOMAIN events : events[k].id \in Nat /\ events[k].id <= asks
        BY <2>4, <2>6, <3>1
      <3> QED BY <2>1, <2>4, <2>6, <3>1, <3>2, Numbers
    <2>10. e.kind = "ask" => e.id <= asks'
      BY <2>1, <2>6
    <2> QED BY <2>2, <2>5, <2>7, <2>8, <2>9, <2>10 DEF IInv, EventsOK
  <1>2. ASSUME NEW kinds, TakeTransition(kinds) PROVE EventsOK'
    BY <1>2, <1>a, Fields DEF TakeTransition, CancelRequests, IInv, EventsOK, lisVars
  <1>3. ASSUME TakeAsk PROVE EventsOK'
    BY <1>3, <1>a DEF TakeAsk, NextId, IInv, EventsOK, reqVars
  <1>16. ASSUME RegisterCallback PROVE EventsOK'
    BY <1>16, <1>a, Fields DEF RegisterCallback, IInv, TypeOK, EventsOK, coreVars
  <1>4. ASSUME SendRequest PROVE EventsOK'
    BY <1>4, SendForm, Fields DEF Selecting, IInv, TypeOK, EventsOK
  <1>5. ASSUME TakeResolve PROVE EventsOK'
    BY <1>5, ResolveForm, Fields DEF IInv, TypeOK, EventsOK
  <1>6. ASSUME TakeResume PROVE EventsOK'
    BY <1>6 DEF TakeResume, IInv, EventsOK, coreVars, reqVars
  <1>7. ASSUME Replay PROVE EventsOK'
    BY <1>7, ReplayForm DEF Selecting, IInv, EventsOK
  <1>8. ASSUME ListenerEnds PROVE EventsOK'
    BY <1>8, <1>a, Fields, EndForm DEF IInv, EventsOK
  <1>9. ASSUME TeardownCancels PROVE EventsOK'
    BY <1>9, <1>a, Fields DEF TeardownCancels, CancelRequests, IInv, EventsOK, coreVars
  <1>10. ASSUME NEW i \in Asks, ResponderWakes(i) PROVE EventsOK'
    BY <1>10 DEF ResponderWakes, IInv, EventsOK, coreVars, lisVars
  <1>11. ASSUME NEW i \in Asks, ResponderCommands(i) PROVE EventsOK'
    BY <1>11, Fields DEF ResponderCommands, IInv, TypeOK, EventsOK, coreVars
  <1>12. ASSUME NEW c \in Conns, RefreshAsk(c) PROVE EventsOK'
    BY <1>12, <1>a, Numbers, Fields DEF RefreshAsk, IInv, EventsOK, coreVars, lisVars
  <1>13. ASSUME NEW c \in Conns, NEW i \in Ids, ClientReplies(c, i) PROVE EventsOK'
    BY <1>13 DEF ClientReplies, IInv, EventsOK, coreVars, lisVars
  <1>14. ASSUME RefreshTimeout PROVE EventsOK'
    BY <1>14 DEF RefreshTimeout, IInv, EventsOK, coreVars, lisVars
  <1>15. CASE UNCHANGED <<events, asks, responder, shot, callbacks, lis>>
    BY <1>15 DEF IInv, EventsOK
  <1> QED BY <1>1, <1>2, <1>3, <1>4, <1>5, <1>6, <1>7, <1>8, <1>9, <1>10, <1>11, <1>12, <1>13, <1>14,
      <1>15, <1>16 DEF Next, TakeTurnEvent, TakeTurnAborted, TeardownStep, ListenerStep, ResponderStep, vars,
          reqVars, lisVars, coreVars, TeardownRemoves, TeardownSignals, Superseded, Resume,
      Attach, Unsubscribe, ConnectionClosed, GateDrained, RefreshReply

(* So does what was not asked. *)
LEMMA FreshStep == ASSUME IInv, [Next]_vars PROVE FreshOK'
  <1>1. ASSUME CoreStep PROVE FreshOK'
    BY <1>1, Numbers DEF CoreStep, IInv, TypeOK, FreshOK, reqVars
  <1>2. ASSUME NEW kinds, TakeTransition(kinds) PROVE FreshOK'
    BY <1>2, Numbers DEF TakeTransition, CancelRequests, IInv, FreshOK
  <1>3. ASSUME RegisterCallback PROVE FreshOK'
    BY <1>3, Numbers DEF RegisterCallback, IInv, TypeOK, FreshOK, ListenerOK, coreVars
  <1>4. ASSUME SendRequest PROVE FreshOK'
    BY <1>4, SendForm, Numbers DEF IInv, TypeOK, FreshOK, ListenerOK
  <1>5. ASSUME TakeResolve PROVE FreshOK'
    BY <1>5, ResolveForm DEF IInv, TypeOK, FreshOK
  <1>6. ASSUME ListenerEnds PROVE FreshOK'
    BY <1>6, EndForm DEF IInv, FreshOK
  <1>7. ASSUME TeardownCancels PROVE FreshOK'
    BY <1>7, Numbers DEF TeardownCancels, CancelRequests, IInv, FreshOK, coreVars
  <1>8. ASSUME NEW i \in Asks, ResponderWakes(i) PROVE FreshOK'
    BY <1>8 DEF ResponderWakes, IInv, FreshOK, coreVars
  <1>9. ASSUME NEW i \in Asks, ResponderCommands(i) PROVE FreshOK'
    BY <1>9 DEF ResponderCommands, IInv, TypeOK, FreshOK, coreVars
  <1>10. ASSUME NEW c \in Conns, RefreshAsk(c) PROVE FreshOK'
    BY <1>10, Numbers DEF RefreshAsk, IInv, FreshOK, coreVars
  <1>11. ASSUME NEW c \in Conns, NEW i \in Ids, ClientReplies(c, i) PROVE FreshOK'
    BY <1>11 DEF ClientReplies, IInv, FreshOK, coreVars
  <1>12. ASSUME RefreshReply PROVE FreshOK'
    BY <1>12 DEF RefreshReply, IInv, FreshOK, coreVars, reqVars
  <1>13. ASSUME RefreshTimeout PROVE FreshOK'
    BY <1>13 DEF RefreshTimeout, IInv, FreshOK, coreVars
  <1>14. CASE UNCHANGED <<asks, responder, shot, callbacks, refresh>>
    BY <1>14 DEF IInv, FreshOK
  <1> QED BY <1>1, <1>2, <1>3, <1>4, <1>5, <1>6, <1>7, <1>8, <1>9, <1>10, <1>11, <1>12, <1>13,
      <1>14 DEF Next, TakeTurnEvent, TakeTurnAborted, TeardownStep, ListenerStep, ResponderStep, vars, reqVars,
          coreVars, TakeAsk, TakeResume,
      Replay, TeardownRemoves, TeardownSignals, Superseded, Resume, Attach, Unsubscribe, ConnectionClosed, GateDrained

(* A request keeps to its course. *)
LEMMA LifeStep == ASSUME IInv, [Next]_vars PROVE LifeOK'
  <1>a. events \in Seq(Events) /\ queue \in Seq(Commands)
    BY DEF IInv, TypeOK
  <1>1. ASSUME NEW kinds, TakeTransition(kinds) PROVE LifeOK'
    BY <1>1, Numbers DEF TakeTransition, CancelRequests, IInv, LifeOK, lisVars
  <1>2. ASSUME SendRequest PROVE LifeOK'
    <2>1. /\ \A i \in Asks : responder'[i] \in {responder[i], "wait"} /\ (responder[i] # "off" => responder'[i] = responder[i])
          /\ UNCHANGED <<shot, queue>>
      BY <1>2, SendForm DEF IInv, TypeOK, ListenerOK
    <2>2. \A c \in Conns, i \in Asks : last'[c][i] = "resolved" => last[c][i] = "resolved"
      BY <1>2, SendForm, Numbers
    <2>3. \A k \in DOMAIN queue : queue[k].kind = "resolve" => queue[k].id \in Asks /\ responder[queue[k].id] = "await"
      BY Fields, <1>a DEF IInv, LifeOK
    <2>4. \A i \in Asks : responder'[i] \in {"command", "await", "done"} => shot'[i] # "none"
      BY <2>1 DEF IInv, LifeOK
    <2>5. \A c \in Conns, i \in Asks : last'[c][i] = "resolved" => responder'[i] = "done"
      BY <2>1, <2>2 DEF IInv, LifeOK
    <2>6. \A k \in DOMAIN queue' : queue'[k].kind = "resolve" => responder'[queue'[k].id] = "await"
      BY <2>1, <2>3
    <2> QED BY <2>1, <2>5, <2>6 DEF IInv, LifeOK
  <1>3. ASSUME TakeResolve PROVE LifeOK'
    <2>1. PICK i \in Asks :
             /\ i = queue[1].id /\ 1 \in DOMAIN queue /\ responder[i] = "await"
             /\ responder' = [responder EXCEPT ![i] = "done"]
             /\ \A d \in Conns, j \in Asks : last'[d][j] = IF d \in subs /\ j = i THEN "resolved" ELSE last[d][j]
      BY <1>3, ResolveForm
    <2>2. /\ \A j \in Asks : responder'[j] = IF j = i THEN "done" ELSE responder[j]
          /\ UNCHANGED shot /\ queue' = Tail(queue) /\ queue # <<>> /\ queue[1].kind = "resolve"
      BY <1>3, <2>1 DEF TakeResolve, IInv, TypeOK
    <2>3. \A k \in DOMAIN queue' : queue'[k].kind = "resolve" =>
             queue'[k].id \in Asks /\ queue'[k].id # i /\ responder'[queue'[k].id] = "await"
      BY <2>1, <2>2, Fields, <1>a DEF IInv, LifeOK
    <2>4. \A k, m \in DOMAIN queue' :
             queue'[k].kind = "resolve" /\ queue'[m].kind = "resolve" /\ k # m => queue'[k].id # queue'[m].id
      BY <2>2, <1>a DEF IInv, LifeOK
    <2>5. \A j \in Asks : responder'[j] \in {"command", "await", "done"} => shot'[j] # "none"
      BY <2>1, <2>2 DEF IInv, LifeOK
    <2>6. \A c \in Conns, j \in Asks : last'[c][j] = "resolved" => responder'[j] = "done"
      BY <2>1, <2>2, Numbers DEF IInv, LifeOK
    <2> QED BY <2>3, <2>4, <2>5, <2>6 DEF LifeOK
  <1>4. ASSUME TakeResume PROVE LifeOK'
    <2>1. queue # <<>> /\ queue' = Tail(queue) /\ UNCHANGED <<responder, shot, last>>
      BY <1>4 DEF TakeResume, reqVars
    <2>2. \A k \in DOMAIN queue' : /\ k + 1 \in DOMAIN queue /\ queue'[k] = queue[k + 1]
                                    /\ \A m \in DOMAIN queue' : k # m => k + 1 # m + 1
      BY <2>1, <1>a, Channel
    <2> QED BY <2>1, <2>2 DEF IInv, LifeOK
  <1>5. ASSUME Replay PROVE LifeOK'
    BY <1>5, ReplayForm, Numbers DEF IInv, FreshOK, LifeOK
  <1>6. ASSUME ListenerEnds PROVE LifeOK'
    BY <1>6, EndForm DEF IInv, LifeOK
  <1>7. ASSUME TeardownCancels PROVE LifeOK'
    BY <1>7, Numbers DEF TeardownCancels, CancelRequests, IInv, LifeOK
  <1>8. ASSUME NEW i \in Asks, ResponderWakes(i) PROVE LifeOK'
    BY <1>8 DEF ResponderWakes, IInv, LifeOK, lisVars
  <1>9. ASSUME NEW i \in Asks, ResponderCommands(i) PROVE LifeOK'
    <2> DEFINE q == [kind |-> "resolve", id |-> i]
    <2>1. responder[i] = "command" /\ UNCHANGED <<shot, last>>
      BY <1>9 DEF ResponderCommands
    <2>2. CASE responder' = [responder EXCEPT ![i] = "done"] /\ UNCHANGED queue
      BY <2>1, <2>2 DEF IInv, LifeOK
    <2>3. CASE queue' = Append(queue, q) /\ responder' = [responder EXCEPT ![i] = "await"]
      <3>1. \A j \in Asks : responder'[j] = IF j = i THEN "await" ELSE responder[j]
        BY <2>3 DEF IInv, TypeOK
      <3>2. q \in Commands /\ q.kind = "resolve" /\ q.id = i
        BY Fields, Numbers, Channel, <1>a
      <3> HIDE DEF q
      <3>3. \A k \in DOMAIN queue' : (k \in DOMAIN queue /\ queue'[k] = queue[k]) \/ (k = Len(queue) + 1 /\ queue'[k] = q)
        BY <2>3, <3>2, <1>a, Longer
      <3>4. \A k \in DOMAIN queue : queue[k].kind = "resolve" => queue[k].id \in Asks /\ queue[k].id # i
        BY <2>1, Fields, <1>a DEF IInv, LifeOK
      <3>5. \A k \in DOMAIN queue' : queue'[k].kind = "resolve" => responder'[queue'[k].id] = "await"
        BY <3>1, <3>2, <3>3, <3>4 DEF IInv, LifeOK
      <3>6. \A k, m \in DOMAIN queue' :
               queue'[k].kind = "resolve" /\ queue'[m].kind = "resolve" /\ k # m => queue'[k].id # queue'[m].id
        BY <3>2, <3>3, <3>4 DEF IInv, LifeOK
      <3>7. \A j \in Asks : responder'[j] \in {"command", "await", "done"} => shot'[j] # "none"
        BY <2>1, <3>1 DEF IInv, LifeOK
      <3>8. \A c \in Conns, j \in Asks : last'[c][j] = "resolved" => responder'[j] = "done"
        BY <2>1, <3>1 DEF IInv, LifeOK
      <3> QED BY <3>5, <3>6, <3>7, <3>8 DEF LifeOK
    <2> QED BY <1>9, <2>2, <2>3 DEF ResponderCommands
  <1>10. ASSUME NEW c \in Conns, Resume(c) PROVE LifeOK'
    BY <1>10 DEF Resume, IInv, LifeOK, reqVars
  <1>11. ASSUME NEW c \in Conns, RefreshAsk(c) PROVE LifeOK'
    BY <1>11 DEF RefreshAsk, IInv, LifeOK, lisVars
  <1>12. ASSUME NEW c \in Conns, NEW i \in Ids, ClientReplies(c, i) PROVE LifeOK'
    BY <1>12 DEF ClientReplies, IInv, LifeOK, lisVars
  <1>13. CASE UNCHANGED <<responder, shot, queue, last>>
    BY <1>13 DEF IInv, LifeOK
  <1> QED BY <1>1, <1>2, <1>3, <1>4, <1>5, <1>6, <1>7, <1>8, <1>9, <1>10, <1>11, <1>12, <1>13 DEF Next,
      TakeTurnEvent, TakeTurnAborted, TeardownStep,
      ListenerStep, ResponderStep, vars, reqVars, lisVars, CoreStep, TakeAsk, RegisterCallback, TeardownRemoves,
      TeardownSignals, Superseded, Attach,
      Unsubscribe, ConnectionClosed, GateDrained, RefreshReply, RefreshTimeout

(* The listener sends nothing that is resolved. *)
LEMMA SendingStep == ASSUME IInv, [Next]_vars PROVE ListenerOK'
  <1>a. events \in Seq(Events) /\ queue \in Seq(Commands)
    BY DEF IInv, TypeOK
  <1>1. ASSUME CoreStep PROVE ListenerOK'
    BY <1>1, Numbers DEF CoreStep, IInv, TypeOK, ListenerOK, reqVars, lisVars
  <1>2. ASSUME TakeAsk PROVE ListenerOK'
    BY <1>2, <1>a, Fields DEF TakeAsk, NextId, IInv, EventsOK, ListenerOK, reqVars
  <1>12. ASSUME RegisterCallback PROVE ListenerOK'
    BY <1>12 DEF RegisterCallback, IInv, TypeOK, ListenerOK, coreVars
  <1>13. ASSUME NEW kinds, TakeTransition(kinds) PROVE ListenerOK'
    BY <1>13 DEF TakeTransition, IInv, ListenerOK, lisVars
  <1>14. ASSUME TeardownCancels PROVE ListenerOK'
    BY <1>14 DEF TeardownCancels, CancelRequests, IInv, TypeOK, ListenerOK, coreVars
  <1>15. ASSUME NEW c \in Conns, NEW i \in Ids, ClientReplies(c, i) PROVE ListenerOK'
    BY <1>15 DEF ClientReplies, IInv, TypeOK, ListenerOK, coreVars, lisVars
  <1>16. ASSUME RefreshTimeout PROVE ListenerOK'
    BY <1>16 DEF RefreshTimeout, IInv, ListenerOK, coreVars, lisVars
  <1>3. ASSUME SendRequest PROVE ListenerOK'
    BY <1>3, SendForm DEF Selecting, IInv, ListenerOK
  <1>4. ASSUME TakeResolve PROVE ListenerOK'
    BY <1>4, ResolveForm DEF ListenerOK
  <1>5. ASSUME TakeResume PROVE ListenerOK'
    BY <1>5 DEF TakeResume, IInv, TypeOK, LifeOK, ListenerOK, reqVars
  <1>6. ASSUME Replay PROVE ListenerOK'
    BY <1>6, ReplayForm, Numbers, Channel DEF Selecting, IInv, TypeOK, ListenerOK
  <1>7. ASSUME ListenerEnds PROVE ListenerOK'
    BY <1>7 DEF ListenerEnds, ListenerOK
  <1>8. ASSUME NEW i \in Asks, ResponderWakes(i) PROVE ListenerOK'
    BY <1>8 DEF ResponderWakes, IInv, ListenerOK, coreVars, lisVars
  <1>9. ASSUME NEW i \in Asks, ResponderCommands(i) PROVE ListenerOK'
    BY <1>9 DEF ResponderCommands, IInv, TypeOK, ListenerOK, coreVars
  <1>10. ASSUME NEW c \in Conns, RefreshAsk(c) PROVE ListenerOK'
    BY <1>10, Numbers DEF RefreshAsk, IInv, ListenerOK, coreVars, lisVars
  <1>11. CASE UNCHANGED <<lis, asks, responder, last, shot, callbacks>>
    BY <1>11 DEF IInv, ListenerOK
  <1> QED BY <1>1, <1>2, <1>3, <1>4, <1>5, <1>6, <1>7, <1>8, <1>9, <1>10, <1>11, <1>12, <1>13, <1>14, <1>15,
      <1>16 DEF Next, TakeTurnEvent, TakeTurnAborted, TeardownStep, ListenerStep,
      ResponderStep, vars, reqVars, lisVars, coreVars, TeardownRemoves, TeardownSignals, Superseded,
      Resume, Attach, Unsubscribe, ConnectionClosed, GateDrained, RefreshReply

(* Nobody who has joined misses a request. *)
LEMMA ShownStep == ASSUME IInv, [Next]_vars PROVE ShownOK'
  <1>1. ASSUME NEW kinds, TakeTransition(kinds) PROVE ShownOK'
    BY <1>1 DEF TakeTransition, CancelRequests, IInv, ShownOK, lisVars, clientVars
  <1>2. ASSUME TakeAsk PROVE ShownOK'
    BY <1>2 DEF TakeAsk, IInv, TypeOK, ShownOK, clientVars, reqVars
  <1>16. ASSUME RegisterCallback PROVE ShownOK'
    BY <1>16 DEF RegisterCallback, IInv, TypeOK, ShownOK, clientVars
  <1>3. ASSUME SendRequest PROVE ShownOK'
    BY <1>3, SendForm DEF Selecting, IInv, TypeOK, ShownOK
  <1>4. ASSUME TakeResolve PROVE ShownOK'
    <2>1. PICK i \in Asks :
             /\ responder[i] = "await"
             /\ \A d \in Conns, j \in Asks : last'[d][j] = IF d \in subs /\ j = i THEN "resolved" ELSE last[d][j]
      BY <1>4, ResolveForm
    <2>2. lis.pc = "select" /\ UNCHANGED <<joined, callbacks, lis>>
      BY <1>4, ResolveForm
    <2>3. i \notin callbacks /\ joined \subseteq Conns
      BY <2>1 DEF IInv, TypeOK, LifeOK
    <2> QED BY <2>1, <2>2, <2>3, Numbers DEF IInv, ShownOK
  <1>5. ASSUME TakeResume PROVE ShownOK'
    BY <1>5 DEF TakeResume, IInv, ShownOK, reqVars
  <1>6. ASSUME Replay PROVE ShownOK'
    <2>1. lis.pc = "replay" /\ lis.conn \in Conns /\ joined \subseteq Conns /\ UNCHANGED callbacks
      BY <1>6, ReplayForm DEF IInv, TypeOK, ListenerOK
    <2>2. CASE lis.ids = {} /\ lis' = Selecting /\ UNCHANGED last /\ joined' = joined \cup ({lis.conn} \cap subs)
      BY <2>1, <2>2 DEF IInv, ShownOK, Selecting
    <2>3. ASSUME NEW i \in lis.ids, i \in Asks, UNCHANGED joined,
                 lis'.pc = "replay" /\ lis'.conn = lis.conn /\ lis'.ids = lis.ids \ {i},
                 \A d \in Conns, j \in Asks :
                    last'[d][j] = IF d = lis.conn /\ j = i THEN "request" ELSE last[d][j]
          PROVE  ShownOK'
      <3>1. \A c \in joined', j \in callbacks' \cap Asks : last'[c][j] = "request"
        BY <2>1, <2>3, Numbers DEF IInv, ShownOK
      <3>2. \A j \in callbacks' \cap Asks : j \in lis'.ids \/ last'[lis'.conn][j] = "request"
        BY <2>1, <2>3, Numbers DEF IInv, ShownOK
      <3> QED BY <2>3, <3>1, <3>2 DEF ShownOK
    <2> QED BY <1>6, <2>2, <2>3, ReplayForm
  <1>7. ASSUME ListenerEnds PROVE ShownOK'
    BY <1>7, EndForm DEF IInv, ShownOK
  <1>8. ASSUME TeardownCancels PROVE ShownOK'
    BY <1>8 DEF TeardownCancels, CancelRequests, IInv, ShownOK, clientVars
  <1>9. ASSUME TeardownRemoves PROVE ShownOK'
    BY <1>9 DEF TeardownRemoves, IInv, ShownOK, reqVars
  <1>10. ASSUME NEW c \in Conns, Unsubscribe(c) PROVE ShownOK'
    BY <1>10 DEF Unsubscribe, IInv, ShownOK, reqVars, lisVars
  <1>11. ASSUME NEW c \in Conns, RefreshAsk(c) PROVE ShownOK'
    BY <1>11, Numbers DEF RefreshAsk, IInv, TypeOK, ListenerOK, ShownOK, lisVars, clientVars
  <1>12. ASSUME NEW c \in Conns, NEW i \in Ids, ClientReplies(c, i) PROVE ShownOK'
    BY <1>12 DEF ClientReplies, IInv, ShownOK, lisVars, clientVars
  <1>13. ASSUME GateDrained PROVE ShownOK'
    BY <1>13 DEF GateDrained, IInv, ShownOK, reqVars, lisVars
  <1>14. ASSUME RefreshTimeout PROVE ShownOK'
    BY <1>14 DEF RefreshTimeout, IInv, ShownOK, lisVars, clientVars
  <1>15. CASE UNCHANGED <<joined, callbacks, last, lis>>
    BY <1>15 DEF IInv, ShownOK
  <1> QED BY <1>1, <1>2, <1>3, <1>4, <1>5, <1>6, <1>7, <1>8, <1>9, <1>10, <1>11, <1>12, <1>13, <1>14,
      <1>15, <1>16 DEF Next, TakeTurnEvent, TakeTurnAborted, TeardownStep, ListenerStep, ResponderStep, vars,
          clientVars, reqVars, lisVars, CoreStep, TeardownSignals, Superseded,
      ResponderWakes, ResponderCommands, Resume, Attach, ConnectionClosed, RefreshReply

(* The thread starts with one subscriber and no request. *)
LEMMA InitInv == ASSUME Init PROVE IInv
<1>1. TypeOK
  <2>1. /\ lis \in [pc : {"select", "register", "send", "replay", "done"}, id : Ids, to : SUBSET Conns,
                    conn : Conns \cup {None}, ids : SUBSET Asks]
        /\ loop \in [pc : {"idle", "gate"}, conn : Conns \cup {None}]
        /\ refresh \in [pc : {"idle", "wait", "done"}, conn : Conns \cup {None}]
    BY Numbers DEF Init, Selecting
  <2>2. /\ shot \in [Ids -> {"none", "answer", "transition", "dropped"}]
        /\ responder \in [Asks -> {"off", "wait", "command", "await", "done"}]
        /\ last \in [Conns -> [Asks -> {"none", "request", "resolved"}]]
    BY DEF Init
  <2>3. live \subseteq Conns /\ subs \subseteq live /\ joined \subseteq subs /\ callbacks = {}
    BY DEF Init
  <2>4. queue \in Seq(Commands) /\ events \in Seq(Events)
    BY DEF Init
  <2>5. asks \in 0 .. MaxAsks /\ turns \in 0 .. MaxTurns /\ joins \in 0 .. MaxJoins
    BY Numbers DEF Init
  <2>6. stopped = "no" /\ turn \in BOOLEAN /\ calls \subseteq Asks
    BY DEF Init
  <2> QED BY <2>1, <2>2, <2>3, <2>4, <2>5, <2>6 DEF TypeOK
<1>2. EventsOK /\ FreshOK /\ LifeOK
  <2>1. events = <<>> /\ queue = <<>> /\ callbacks = {}
    BY DEF Init
  <2>2. \A i \in Asks : responder[i] = "off" /\ shot[i] = "none" /\ \A c \in Conns : last[c][i] = "none"
    BY Numbers DEF Init
  <2>3. shot[Refresh] = "none"
    BY Numbers DEF Init
  <2> QED BY <2>1, <2>2, <2>3 DEF EventsOK, FreshOK, LifeOK
<1>3. ListenerOK /\ ShownOK
  BY DEF Init, Selecting, ListenerOK, ShownOK
<1> QED BY <1>1, <1>2, <1>3 DEF IInv

(* The invariant is inductive. *)
LEMMA InvStep == ASSUME IInv, [Next]_vars PROVE IInv'
  BY TypeStep, EventsStep, FreshStep, LifeStep, SendingStep, ShownStep DEF IInv

(* It holds in every behaviour of the request path to the clients. *)
THEOREM Invariance == Spec => []IInv
  BY InitInv, InvStep, PTL DEF Spec

(* The variables keep their types; a registered callback has not been answered. *)
THEOREM TypeCorrect == Spec => []TypeOK
<1>1. IInv => TypeOK
  BY DEF IInv
<1> QED BY <1>1, Invariance, PTL

(* Whenever the listener rests, every client that resumed or started the thread *)
(* has every pending request in hand (send_request_to_connections and            *)
(* replay_requests_to_connection_for_thread leave no gap between them).          *)
THEOREM PendingIsShown == Spec => []OpenRequestsAreShown
<1>1. IInv => OpenRequestsAreShown
  BY DEF IInv, ShownOK, OpenRequestsAreShown
<1> QED BY <1>1, Invariance, PTL

(* The task of an approval or of a question (resolve_server_request_on_thread_-  *)
(* listener comes first in each on_..._response) that ends while the listener     *)
(* serves the thread leaves no subscriber with its request open.                  *)
THEOREM EndedIsClosed == Spec => NoRequestLeftOpen
<1> DEFINE Closing == \A i \in Asks \ calls, c \in subs :
                         responder[i] # "done" /\ responder'[i] = "done" /\ Serving
                            => last'[c][i] # "request"
<1>1. IInv /\ [Next]_vars => [Closing]_vars
  <2> SUFFICES ASSUME IInv, Next PROVE Closing
    OBVIOUS
  <2> SUFFICES ASSUME NEW i \in Asks \ calls, NEW c \in subs, responder[i] # "done", responder'[i] = "done",
                      Serving
               PROVE  last'[c][i] # "request"
    OBVIOUS
  <2>1. c \in Conns /\ i \in Ids /\ responder \in [Asks -> {"off", "wait", "command", "await", "done"}]
    BY Numbers DEF IInv, TypeOK
  <2>2. CASE TakeResolve
    BY <2>1, <2>2, ResolveForm
  <2>3. CASE SendRequest
    BY <2>1, <2>3, SendForm
  <2>4. ASSUME NEW j \in Asks, ResponderStep(j) PROVE FALSE
    BY <2>1, <2>4 DEF ResponderStep, ResponderWakes, ResponderCommands
  <2>5. CASE ListenerEnds
    <3>1. ~(\E n \in DOMAIN queue : queue[n] = [kind |-> "resolve", id |-> i])
      BY <2>5 DEF ListenerEnds, MayEnd, Serving
    <3> QED BY <2>5, <3>1 DEF ListenerEnds
  <2>6. CASE UNCHANGED responder
    BY <2>6
  <2>7. TakeResolve \/ SendRequest \/ (\E j \in Asks : ResponderStep(j)) \/ ListenerEnds \/ UNCHANGED responder
    BY DEF Next, ListenerStep, CoreStep, TakeTurnEvent, TakeTurnAborted,
           TakeTransition, TakeAsk, RegisterCallback, TeardownStep, TeardownRemoves, Superseded, TakeResume,
           Replay, TeardownCancels,
           TeardownSignals, Resume, Attach, Unsubscribe, ConnectionClosed, RefreshAsk, ClientReplies,
           GateDrained, RefreshReply, RefreshTimeout, reqVars
  <2> QED BY <2>2, <2>3, <2>4, <2>5, <2>7
<1>2. Spec => [][Closing]_vars
  BY <1>1, Invariance, PTL DEF Spec
<1> QED BY <1>2 DEF NoRequestLeftOpen

(* No client is sent a request after it was told that it is resolved, neither    *)
(* by the first sending nor by a replay: the listener does both, and what it     *)
(* is about to send has not been resolved.                                       *)
THEOREM ResolvedComesLast == Spec => ResolvedIsLast
<1> DEFINE Lasting == \A c \in Conns, i \in Asks : last[c][i] = "resolved" => last'[c][i] = "resolved"
<1>1. IInv /\ [Next]_vars => [Lasting]_vars
  <2> SUFFICES ASSUME IInv, Next, NEW c \in Conns, NEW i \in Asks, last[c][i] = "resolved"
               PROVE  last'[c][i] = "resolved"
    OBVIOUS
  <2>1. last \in [Conns -> [Asks -> {"none", "request", "resolved"}]]
    BY Numbers DEF IInv, TypeOK
  <2>2. CASE TakeResolve
    BY <2>1, <2>2, ResolveForm
  <2>3. CASE SendRequest
    <3>1. responder[i] = "done" /\ (lis.pc = "send" => lis.id # i)
      BY DEF IInv, LifeOK, ListenerOK
    <3> QED BY <2>1, <2>3, <3>1, SendForm
  <2>4. CASE Replay
    <3>1. lis.pc = "replay" => i \notin lis.ids
      BY DEF IInv, ListenerOK
    <3> QED BY <2>1, <2>4, <3>1, ReplayForm
  <2>6. CASE UNCHANGED last
    BY <2>6
  <2>7. TakeResolve \/ SendRequest \/ Replay \/ UNCHANGED last
    BY DEF Next, ListenerStep, ResponderStep, CoreStep, TakeTurnEvent, TakeTurnAborted,
           TakeTransition, TakeAsk, RegisterCallback, TeardownStep, TeardownRemoves, Superseded, RefreshAsk,
           TakeResume, ListenerEnds,
           TeardownCancels, TeardownSignals, ResponderWakes, ResponderCommands, Resume, Attach, Unsubscribe,
           ConnectionClosed, ClientReplies, GateDrained, RefreshReply, RefreshTimeout, reqVars
  <2> QED BY <2>2, <2>3, <2>4, <2>6, <2>7
<1>2. Spec => [][Lasting]_vars
  BY <1>1, Invariance, PTL DEF Spec
<1> QED BY <1>2 DEF ResolvedIsLast
=============================================================================
