--------------------------- MODULE NetworkApproval ---------------------------
(***************************************************************************)
(* The network approval service of a session (core/src/tools/             *)
(* network_approval.rs).  The managed network proxy runs one handler per   *)
(* request of a sandboxed command.  A request for a host the proxy's       *)
(* allowlist misses asks the service: two session caches first, then one   *)
(* handler, the owner of the host's pending approval, asks the hooks, the  *)
(* guardian or the user while the other handlers for the host wait for its *)
(* decision.  A denial is attributed to the tool call that runs, when      *)
(* there is exactly one.  Every step below is one critical section of the  *)
(* code; what a handler still has to do is its program, todo.              *)
(***************************************************************************)
EXTENDS Naturals, Sequences, FiniteSets

CONSTANTS
    Hosts,      \* the values of HostApprovalKey: host, protocol and port
    Requests,   \* requests that reach the proxy
    Calls,      \* tool calls that run under the managed network
    None,       \* no request, call, decision, outcome or answer
    MaxDrops,   \* how many handlers lose their client (a bound of the model)
    MaxAborts   \* how many tool calls are aborted (a bound of the model)

ASSUME NoneIsOutside == None \notin Hosts \cup Requests \cup Calls \cup {"allow", "deny"}
ASSUME BoundsAreNaturals == MaxDrops \in Nat /\ MaxAborts \in Nat

VARIABLES
    todo,       \* the steps each handler has left
    host,       \* the host each request is for
    ticket,     \* the pending approval a handler owns or waits on, named by its owner
    owner_call, \* the call a handler attributes its next outcome to
    answer,     \* what the owner was told
    res,        \* the NetworkDecision returned to the proxy: "allow" or "deny"
    pending,    \* pending_host_approvals
    decision,   \* PendingHostApproval.decision, by owner
    listeners,  \* handlers registered with PendingHostApproval.notify, by owner
    approved,   \* session_approved_hosts
    denied,     \* session_denied_hosts
    active,     \* the keys of NetworkApprovalCallState.active_calls
    outcomes,   \* NetworkApprovalCallState.call_outcomes
    cancelled,  \* calls whose cancellation token is cancelled
    phase,      \* the life of each call in the orchestrator
    result,     \* the outcome finish_call returned to the orchestrator
    session,    \* history: the last answer for the whole session, by host
    settled,    \* history: the host had an answer when the request came, and still has it
    dropped,    \* requests whose handler was dropped
    aborts      \* how many calls were aborted

handlerVars == <<todo, host, ticket, owner_call, answer, res>>
pendingVars == <<pending, decision, listeners>>
cacheVars   == <<approved, denied>>
callVars    == <<active, outcomes, cancelled, phase, result>>
ghostVars   == <<session, settled>>
boundVars   == <<dropped, aborts>>
vars == <<handlerVars, pendingVars, cacheVars, callVars, ghostVars, boundVars>>

Decisions == {"AllowOnce", "AllowForSession", "Deny"}
Outcomes  == {"DeniedByUser", "DeniedByPolicy"}

(* What the owner of a pending approval can be told: "refused" without a turn, *)
(* or when the permission profile or the approval policy rules the flow out;   *)
(* else the decision of a hook, of the guardian or of the user.                *)
Answers == {"refused", "once", "session", "denySession", "denyUser", "denyPolicy"}

DecisionOf(a) ==
    CASE a = "once"    -> "AllowOnce"
      [] a = "session" -> "AllowForSession"
      [] OTHER         -> "Deny"

ToNetworkDecision(d) == IF d = "Deny" THEN "deny" ELSE "allow"

(* The proxy reports every denied request to record_blocked_request, from the *)
(* handler that was denied.                                                    *)
Blocked == <<"single", "recordPolicy", "cancel">>

(* set_decision stores the value before it notifies; then the map entry goes. *)
Mut_Publish == <<"notify", "decide", "remove">>
Publish == <<"decide", "notify", "remove">>

(* What the owner does with an answer, in the order of the code. *)
Mut_Plan(a) ==
    CASE a = "once"        -> Publish
      [] a = "session"     -> Publish \o <<"undeny", "approve">>
      [] a = "denySession" -> <<"recordUser", "cancel">> \o Publish \o <<"unapprove", "deny">> \o Blocked
      [] a = "denyUser"    -> <<"recordUser", "cancel">> \o Publish \o Blocked
      [] a = "denyPolicy"  -> <<"recordPolicy", "cancel">> \o Publish \o Blocked
      [] a = "refused"     -> Publish \o Blocked \o Blocked

Plan(a) ==
    CASE a = "once"        -> Publish
      [] a = "session"     -> <<"undeny", "approve">> \o Publish
      [] a = "denySession" -> <<"recordUser", "cancel", "unapprove", "deny">> \o Publish \o Blocked
      [] a = "denyUser"    -> <<"recordUser", "cancel">> \o Publish \o Blocked
      [] a = "denyPolicy"  -> <<"recordPolicy", "cancel">> \o Publish \o Blocked
      [] a = "refused"     -> Publish \o Blocked \o Blocked

Steps == {"start", "checkApproved", "join", "listen", "look", "sleep", "gate", "ask",
          "single", "recordUser", "recordPolicy", "cancel", "undeny", "approve",
          "unapprove", "deny", "decide", "notify", "remove"}

\* The sets the variables range over.
TypeOK ==
    /\ todo \in [Requests -> Seq(Steps)]
    /\ host \in [Requests -> Hosts \cup {None}]
    /\ ticket \in [Requests -> Requests \cup {None}]
    /\ owner_call \in [Requests -> Calls \cup {None}]
    /\ answer \in [Requests -> Answers \cup {None}]
    /\ res \in [Requests -> {"allow", "deny", None}]
    /\ pending \in [Hosts -> Requests \cup {None}]
    /\ decision \in [Requests -> Decisions \cup {None}]
    /\ listeners \in [Requests -> SUBSET Requests]
    /\ approved \subseteq Hosts
    /\ denied \subseteq Hosts
    /\ active \subseteq Calls
    /\ outcomes \in [Calls -> Outcomes \cup {None}]
    /\ cancelled \subseteq Calls
    /\ phase \in [Calls -> {"idle", "running", "finished", "aborted"}]
    /\ result \in [Calls -> Outcomes \cup {None}]
    /\ session \in [Hosts -> {"allow", "deny", None}]
    /\ settled \in [Requests -> BOOLEAN]
    /\ dropped \subseteq Requests
    /\ aborts \in 0 .. MaxAborts

Init ==
    /\ todo = [r \in Requests |-> <<"start">>]
    /\ host = [r \in Requests |-> None]
    /\ ticket = [r \in Requests |-> None]
    /\ owner_call = [r \in Requests |-> None]
    /\ answer = [r \in Requests |-> None]
    /\ res = [r \in Requests |-> None]
    /\ pending = [h \in Hosts |-> None]
    /\ decision = [r \in Requests |-> None]
    /\ listeners = [r \in Requests |-> {}]
    /\ approved = {}
    /\ denied = {}
    /\ active = {}
    /\ outcomes = [c \in Calls |-> None]
    /\ cancelled = {}
    /\ phase = [c \in Calls |-> "idle"]
    /\ result = [c \in Calls |-> None]
    /\ session = [h \in Hosts |-> None]
    /\ settled = [r \in Requests |-> FALSE]
    /\ dropped = {}
    /\ aborts = 0

-----------------------------------------------------------------------------
(* A handler. *)

At(r, step) == todo[r] # <<>> /\ Head(todo[r]) = step

Goto(r, steps) == todo' = [todo EXCEPT ![r] = steps]
Advance(r) == Goto(r, Tail(todo[r]))

(* The handler has its decision; a denied request goes on to the observer. *)
Return(r, d) ==
    /\ res' = [res EXCEPT ![r] = d]
    /\ ticket' = [ticket EXCEPT ![r] = None]
    /\ Goto(r, IF d = "deny" THEN Blocked ELSE <<>>)

(* The proxy's own lists deny the host: the service is not asked. *)
BaselineBlock(r, h) ==
    /\ At(r, "start")
    /\ host' = [host EXCEPT ![r] = h]
    /\ Return(r, "deny")
    /\ UNCHANGED <<owner_call, answer, pendingVars, cacheVars, callVars, ghostVars, boundVars>>

CheckDenied(r, h) ==
    /\ At(r, "start")
    /\ host' = [host EXCEPT ![r] = h]
    /\ settled' = [settled EXCEPT ![r] = session[h] # None /\ pending[h] = None]
    /\ IF h \in denied
         THEN Return(r, "deny")
         ELSE Goto(r, <<"checkApproved">>) /\ UNCHANGED <<res, ticket>>
    /\ UNCHANGED <<owner_call, answer, pendingVars, cacheVars, callVars, session, boundVars>>

CheckApproved(r) ==
    /\ At(r, "checkApproved")
    /\ IF host[r] \in approved
         THEN Return(r, "allow")
         ELSE Goto(r, <<"join">>) /\ UNCHANGED <<res, ticket>>
    /\ UNCHANGED <<host, owner_call, answer, pendingVars, cacheVars, callVars, ghostVars, boundVars>>

(* get_or_create_pending_approval *)
Mut_Join(r) ==
    /\ At(r, "join")
    /\ pending' = [pending EXCEPT ![host[r]] = r]
    /\ ticket' = [ticket EXCEPT ![r] = r]
    /\ Goto(r, <<"gate">>)
    /\ UNCHANGED <<host, owner_call, answer, res, decision, listeners, cacheVars, callVars, ghostVars, boundVars>>

Join(r) ==
    /\ At(r, "join")
    /\ LET existing == pending[host[r]] IN
       IF existing = None
         THEN /\ pending' = [pending EXCEPT ![host[r]] = r]
              /\ ticket' = [ticket EXCEPT ![r] = r]
              /\ Goto(r, <<"gate">>)
         ELSE /\ ticket' = [ticket EXCEPT ![r] = existing]
              /\ Goto(r, <<"listen">>)
              /\ UNCHANGED pending
    /\ UNCHANGED <<host, owner_call, answer, res, decision, listeners, cacheVars, callVars, ghostVars, boundVars>>

(* wait_for_decision: the waiter registers before it looks. *)
Listen(r) ==
    /\ At(r, "listen")
    /\ listeners' = [listeners EXCEPT ![ticket[r]] = @ \cup {r}]
    /\ Goto(r, <<"look">>)
    /\ UNCHANGED <<host, ticket, owner_call, answer, res, pending, decision, cacheVars, callVars, ghostVars, boundVars>>

Look(r) ==
    /\ At(r, "look")
    /\ LET d == decision[ticket[r]] IN
       IF d # None
         THEN /\ Return(r, ToNetworkDecision(d))
              /\ listeners' = [listeners EXCEPT ![ticket[r]] = @ \ {r}]
         ELSE /\ Goto(r, <<"sleep">>)
              /\ UNCHANGED <<res, ticket, listeners>>
    /\ UNCHANGED <<host, owner_call, answer, pending, decision, cacheVars, callVars, ghostVars, boundVars>>

Wake(r) ==
    /\ At(r, "sleep")
    /\ r \notin listeners[ticket[r]]
    /\ Goto(r, <<"listen">>)
    /\ UNCHANGED <<host, ticket, owner_call, answer, res, pendingVars, cacheVars, callVars, ghostVars, boundVars>>

-----------------------------------------------------------------------------
(* The owner. *)

SingleActiveCall == IF Cardinality(active) = 1 THEN CHOOSE c \in active : TRUE ELSE None

Tell(r, a) ==
    /\ answer' = [answer EXCEPT ![r] = a]
    /\ Goto(r, Plan(a))

Refuse(r) ==
    /\ At(r, "gate")
    /\ Tell(r, "refused")
    /\ UNCHANGED <<host, ticket, owner_call, res, pendingVars, cacheVars, callVars, ghostVars, boundVars>>

(* The turn allows the flow: the call to blame is resolved before the prompt. *)
ResolveOwnerCall(r) ==
    /\ At(r, "gate")
    /\ owner_call' = [owner_call EXCEPT ![r] = SingleActiveCall]
    /\ Goto(r, <<"ask">>)
    /\ UNCHANGED <<host, ticket, answer, res, pendingVars, cacheVars, callVars, ghostVars, boundVars>>

Answer(r, a) ==
    /\ At(r, "ask")
    /\ Tell(r, a)
    /\ IF a \in {"session", "denySession"}
         THEN /\ session' = [session EXCEPT ![host[r]] = IF a = "session" THEN "allow" ELSE "deny"]
              /\ settled' = [q \in Requests |-> settled[q] /\ host[q] # host[r]]
         ELSE UNCHANGED ghostVars
    /\ UNCHANGED <<host, ticket, owner_call, res, pendingVars, cacheVars, callVars, boundVars>>

(* The two caches are written one after the other, each under its own lock. *)
Mut_WriteCache(r) ==
    /\ \/ At(r, "undeny")    /\ UNCHANGED cacheVars
       \/ At(r, "approve")   /\ approved' = approved \cup {host[r]} /\ UNCHANGED denied
       \/ At(r, "unapprove") /\ approved' = approved \ {host[r]}    /\ UNCHANGED denied
       \/ At(r, "deny")      /\ denied' = denied \cup {host[r]}     /\ UNCHANGED approved
    /\ Advance(r)
    /\ UNCHANGED <<host, ticket, owner_call, answer, res, pendingVars, callVars, ghostVars, boundVars>>

WriteCache(r) ==
    /\ \/ At(r, "undeny")    /\ denied' = denied \ {host[r]}        /\ UNCHANGED approved
       \/ At(r, "approve")   /\ approved' = approved \cup {host[r]} /\ UNCHANGED denied
       \/ At(r, "unapprove") /\ approved' = approved \ {host[r]}    /\ UNCHANGED denied
       \/ At(r, "deny")      /\ denied' = denied \cup {host[r]}     /\ UNCHANGED approved
    /\ Advance(r)
    /\ UNCHANGED <<host, ticket, owner_call, answer, res, pendingVars, callVars, ghostVars, boundVars>>

(* set_decision: the value under its lock, then notify_waiters. *)
Decide(r) ==
    /\ At(r, "decide")
    /\ decision' = [decision EXCEPT ![r] = DecisionOf(answer[r])]
    /\ Advance(r)
    /\ UNCHANGED <<host, ticket, owner_call, answer, res, pending, listeners, cacheVars, callVars, ghostVars, boundVars>>

NotifyWaiters(r) ==
    /\ At(r, "notify")
    /\ listeners' = [listeners EXCEPT ![r] = {}]
    /\ Advance(r)
    /\ UNCHANGED <<host, ticket, owner_call, answer, res, pending, decision, cacheVars, callVars, ghostVars, boundVars>>

RemovePending(r) ==
    /\ At(r, "remove")
    /\ pending' = [pending EXCEPT ![host[r]] = None]
    /\ res' = [res EXCEPT ![r] = ToNetworkDecision(DecisionOf(answer[r]))]
    /\ ticket' = [ticket EXCEPT ![r] = None]
    /\ answer' = [answer EXCEPT ![r] = None]
    /\ owner_call' = [owner_call EXCEPT ![r] = None]
    /\ Advance(r)
    /\ UNCHANGED <<host, decision, listeners, cacheVars, callVars, ghostVars, boundVars>>

-----------------------------------------------------------------------------
(* Attribution of a denial to a tool call. *)

ResolveSingle(r) ==
    /\ At(r, "single")
    /\ owner_call' = [owner_call EXCEPT ![r] = SingleActiveCall]
    /\ Advance(r)
    /\ UNCHANGED <<host, ticket, answer, res, pendingVars, cacheVars, callVars, ghostVars, boundVars>>

(* The call still runs, and no user denial is recorded for it. *)
Records(c) == c \in active /\ outcomes[c] # "DeniedByUser"

(* record_call_outcome; the token is cancelled after the lock is released. *)
RecordOutcome(r) ==
    \E o \in Outcomes :
      /\ At(r, IF o = "DeniedByUser" THEN "recordUser" ELSE "recordPolicy")
      /\ IF Records(owner_call[r])
           THEN /\ outcomes' = [outcomes EXCEPT ![owner_call[r]] = o]
                /\ Advance(r)
                /\ UNCHANGED owner_call
           ELSE /\ Goto(r, Tail(Tail(todo[r])))
                /\ owner_call' = [owner_call EXCEPT ![r] = None]
                /\ UNCHANGED outcomes
      /\ UNCHANGED <<host, ticket, answer, res, pendingVars, cacheVars,
                     active, cancelled, phase, result, ghostVars, boundVars>>

Mut_CancelToken(r) ==
    /\ At(r, "cancel")
    /\ UNCHANGED cancelled
    /\ owner_call' = [owner_call EXCEPT ![r] = None]
    /\ Advance(r)
    /\ UNCHANGED <<host, ticket, answer, res, pendingVars, cacheVars,
                   active, outcomes, phase, result, ghostVars, boundVars>>

CancelToken(r) ==
    /\ At(r, "cancel")
    /\ cancelled' = cancelled \cup {owner_call[r]}
    /\ owner_call' = [owner_call EXCEPT ![r] = None]
    /\ Advance(r)
    /\ UNCHANGED <<host, ticket, answer, res, pendingVars, cacheVars,
                   active, outcomes, phase, result, ghostVars, boundVars>>

-----------------------------------------------------------------------------
(* The tool calls, as the orchestrator runs them. *)

RegisterCall(c) ==
    /\ phase[c] = "idle"
    /\ phase' = [phase EXCEPT ![c] = "running"]
    /\ active' = active \cup {c}
    /\ UNCHANGED <<outcomes, cancelled, result, handlerVars, pendingVars, cacheVars, ghostVars, boundVars>>

FinishCall(c) ==
    /\ phase[c] = "running"
    /\ phase' = [phase EXCEPT ![c] = "finished"]
    /\ active' = active \ {c}
    /\ result' = [result EXCEPT ![c] = outcomes[c]]
    /\ outcomes' = [outcomes EXCEPT ![c] = None]
    /\ UNCHANGED <<cancelled, handlerVars, pendingVars, cacheVars, ghostVars, boundVars>>

(* The turn is cancelled: the future that would have finished the call is dropped. *)
AbortCall(c) ==
    /\ phase[c] = "running"
    /\ aborts < MaxAborts
    /\ phase' = [phase EXCEPT ![c] = "aborted"]
    /\ aborts' = aborts + 1
    /\ UNCHANGED <<active, outcomes, cancelled, result, handlerVars, pendingVars, cacheVars, ghostVars, dropped>>

(* The client of the proxy goes away and its handler is dropped at an await.   *)
(* There is none between a record and its cancel, or a decision and its notify. *)
DropHandler(r) ==
    /\ Cardinality(dropped) < MaxDrops
    /\ todo[r] # <<>>
    /\ Head(todo[r]) \notin {"start", "cancel", "notify"}
    /\ Goto(r, <<>>)
    /\ listeners' = [o \in Requests |-> listeners[o] \ {r}]
    /\ dropped' = dropped \cup {r}
    /\ UNCHANGED <<host, ticket, owner_call, answer, res, pending, decision, cacheVars, callVars, ghostVars, aborts>>

-----------------------------------------------------------------------------
HandlerStep(r) ==
    \/ CheckApproved(r)
    \/ Join(r)
    \/ Listen(r)
    \/ Look(r)
    \/ Wake(r)
    \/ Refuse(r)
    \/ ResolveOwnerCall(r)
    \/ \E a \in Answers \ {"refused"} : Answer(r, a)
    \/ WriteCache(r)
    \/ Decide(r)
    \/ NotifyWaiters(r)
    \/ RemovePending(r)
    \/ ResolveSingle(r)
    \/ RecordOutcome(r)
    \/ CancelToken(r)

Next ==
    \/ \E r \in Requests, h \in Hosts : BaselineBlock(r, h) \/ CheckDenied(r, h)
    \/ \E r \in Requests : HandlerStep(r) \/ DropHandler(r)
    \/ \E c \in Calls : RegisterCall(c) \/ FinishCall(c) \/ AbortCall(c)

Spec == Init /\ [][Next]_vars

(* A handler the runtime polls goes on; prompts are answered (a guardian      *)
(* review has a deadline, a user prompt is resolved or its turn is aborted).   *)
FairSpec == Spec /\ \A r \in Requests : WF_vars(HandlerStep(r))

-----------------------------------------------------------------------------
Owns(r) == ticket[r] = r /\ r \notin dropped

(* One handler per host asks at a time: the pending approval stays in the map *)
(* until its owner has written the caches and published the decision.          *)
OneOwnerPerHost ==
    \A r, q \in Requests : Owns(r) /\ Owns(q) /\ host[r] = host[q] => r = q

(* When nobody owns a host, the caches say what the last answer for the whole *)
(* session said: no stale entry of the other cache survives, whatever          *)
(* handlers that had checked the caches earlier decided meanwhile.             *)
SessionAnswerIsKept ==
    \A h \in Hosts : pending[h] = None =>
        /\ h \in approved <=> session[h] = "allow"
        /\ h \in denied <=> session[h] = "deny"

(* A request that comes when its host has a session answer gets that answer   *)
(* from the caches: it neither prompts nor waits, unless a handler that was    *)
(* already past its checks obtains another session answer meanwhile.           *)
SettledHostIsNotAskedAgain ==
    \A r \in Requests : settled[r] =>
        /\ ticket[r] = None
        /\ res[r] \in {None, session[host[r]]}

(* A denial recorded for a call also stops it: its token is cancelled, or the *)
(* handler that recorded the denial is about to cancel it.                     *)
DenialStopsCall ==
    \A c \in Calls : outcomes[c] # None =>
        c \in cancelled \/ \E r \in Requests : At(r, "cancel") /\ owner_call[r] = c

OwnerIsGone(r) == ticket[r] # None /\ ticket[r] \in dropped /\ decision[ticket[r]] = None

(* Every request that reached the service is decided: no waiter misses the    *)
(* notification.  The exception is the code's: nothing removes the pending     *)
(* approval of an owner whose handler was dropped before it decided.           *)
EveryRequestIsDecided ==
    \A r \in Requests :
        host[r] # None ~> (res[r] # None \/ r \in dropped \/ OwnerIsGone(r))
=============================================================================
