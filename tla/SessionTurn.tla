----------------------------- MODULE SessionTurn -----------------------------
(***************************************************************************)
(* The turn lifecycle of one agent session: the active-turn slot, tasks    *)
(* being started, finished and aborted, and the input that reaches them    *)
(* (direct user input, steered input, inter-agent mail, injected items).   *)
(*                                                                         *)
(* Processes that interleave on the mutexes of the session:                *)
(*   - the submission loop (Sub), one operation at a time;                 *)
(*   - one tokio task per turn, which after finishing may start the next   *)
(*     turn itself (its tail);                                             *)
(*   - the abort task a guardian review spawns (Guardian);                 *)
(*   - callers of steer_input and inject_response_items on other tasks.    *)
(* A step is one critical section.  start_task and the abort functions     *)
(* span several, so they are procedures with a control state per caller.   *)
(*                                                                         *)
(* Items are abstract; place[i] says where the value of item i has moved.  *)
(* Operators called Mut_X are faulty variants of X, the mistakes the       *)
(* properties are meant to catch; no specification here uses them.         *)
(***************************************************************************)
EXTENDS Naturals, FiniteSets

CONSTANTS
    Users,          \* user inputs
    Mails,          \* inter-agent communications
    Triggers,       \* those of them with trigger_turn
    Injections,     \* response items injected by tools and handlers
    MaxTurns,       \* bound: turns that can be created
    MaxInterrupts,  \* bound: Op::Interrupt submissions
    MaxCompacts,    \* bound: Op::Compact submissions (tasks that are not steerable)
    MaxReviews      \* bound: guardian circuit breaker trips

ASSUME TriggersAssumption == Triggers \subseteq Mails
ASSUME KindsAssumption == Users \cap Injections = {}
ASSUME BoundsAssumption == MaxTurns \in Nat /\ MaxInterrupts \in Nat
                              /\ MaxCompacts \in Nat /\ MaxReviews \in 0..1

Items == Users \cup Mails \cup Injections
Turns == 1..MaxTurns
States == Nat \ {0}              \* TurnState allocations: at most 3 per start
None == 0
Sub == 0
Guardian == MaxTurns + 1
Actors == Turns \cup {Sub, Guardian}

VARIABLES
    active,     \* turn_state of the active turn (None when the slot is empty)
    tasks,      \* sub_ids in ActiveTurn.tasks
    states,     \* TurnStates allocated so far
    nextTurn,   \* mailbox_delivery_phase = NextTurn for these TurnStates
    place,      \* where each item is
    turns,      \* turns created so far
    pc,         \* control state of each turn's task
    other,      \* turns whose task is not steerable (compact, review)
    cancelled,  \* turns whose cancellation token fired
    doomed,     \* turns whose JoinHandle was aborted
    finState,   \* on_task_finished: the TurnState it took, None if it has none
    proc,       \* control state of start / abort / wake procedures per caller
    completed,  \* turns with a TurnComplete event
    aborted,    \* turns with a TurnAborted event
    budget      \* environment operations left

taskVars == <<pc, other, cancelled, doomed, finState>>
slotVars == <<active, tasks, states, nextTurn>>
vars == <<slotVars, place, turns, taskVars, proc, completed, aborted, budget>>

At(p, x) == [at |-> p, of |-> x]
Somewhere(p) == At(p, None)
Places == [at : {"unsent", "mailbox", "idle", "history", "blocked", "rejected",
                 "returned", "cleared", "dropped"}, of : {None}]
          \cup [at : {"pending", "requeued"}, of : States]
          \cup [at : {"carried"}, of : Actors]
ItemsAt(p, x) == {i \in Items : place[i] = At(p, x)}
Mailbox == ItemsAt("mailbox", None)
(* TurnState.pending_input: what steer_input and inject_response_items put there, and what *)
(* start_task and prepend_pending_input put back.                                          *)
PendingIn(s) == ItemsAt("pending", s) \cup ItemsAt("requeued", s)
Move(S, p) == [i \in Items |-> IF i \in S THEN p ELSE place[i]]

Resting == [pc |-> "rest", turn |-> None, ts |-> None, left |-> {},
            reason |-> "none"]
Procs == [pc : {"rest", "take", "next", "grace", "clear", "wake", "reserve", "queued",
                "pending", "mail", "slot", "push", "spawn", "requeue"},
          turn : Turns \cup {None}, ts : States \cup {None}, left : SUBSET Turns,
          reason : {"none", "Interrupted", "Replaced"}]
Pcs == {"none", "prompt", "record", "other", "drain", "drainMail", "sample", "check", "checkMail",
        "flush", "remove", "takePending", "finRecord", "complete", "vacate", "tail", "dead"}

\* The sets the variables range over.
TypeOK ==
    /\ active \in States \cup {None}
    /\ tasks \in SUBSET Turns
    /\ states \in Nat
    /\ nextTurn \in SUBSET States
    /\ place \in [Items -> Places]
    /\ turns \in 0..MaxTurns
    /\ pc \in [Turns -> Pcs]
    /\ other \in SUBSET Turns
    /\ cancelled \in SUBSET Turns
    /\ doomed \in SUBSET Turns
    /\ finState \in [Turns -> States \cup {None}]
    /\ proc \in [Actors -> Procs]
    /\ completed \in SUBSET Turns
    /\ aborted \in SUBSET Turns
    /\ budget \in [interrupts : 0..MaxInterrupts, compacts : 0..MaxCompacts,
                   reviews : 0..MaxReviews]

Init ==
    /\ active = None
    /\ tasks = {}
    /\ states = 0
    /\ nextTurn = {}
    /\ place = [i \in Items |-> Somewhere("unsent")]
    /\ turns = 0
    /\ pc = [t \in Turns |-> "none"]
    /\ other = {}
    /\ cancelled = {}
    /\ doomed = {}
    /\ finState = [t \in Turns |-> None]
    /\ proc = [a \in Actors |-> Resting]
    /\ completed = {}
    /\ aborted = {}
    /\ budget = [interrupts |-> MaxInterrupts, compacts |-> MaxCompacts,
                 reviews |-> MaxReviews]

-------------------------------------------------------------------------------
(* Procedures: the caller a goes to control state p, keeping its locals. *)
Goto(a, p) == proc' = [proc EXCEPT ![a].pc = p]

(* A call that aborts the tasks S (the guardian names one, the others take all) and *)
(* then starts turn t, if there is one.                                             *)
AbortCall(t, S, why) == [pc |-> "take", turn |-> t, ts |-> None, left |-> S, reason |-> why]

(* A tail that has nothing more to do is a finished task. *)
Return(a) ==
    /\ proc' = [proc EXCEPT ![a] = Resting]
    /\ pc' = IF a \in Turns THEN [pc EXCEPT ![a] = "dead"] ELSE pc

(* active_turn.get_or_insert_with(ActiveTurn::default) *)
GetOrInsert ==
    /\ active' = IF active = None THEN states + 1 ELSE active
    /\ states' = IF active = None THEN states + 1 ELSE states

-------------------------------------------------------------------------------
(* Operations of the submission loop and of concurrent callers. *)

(* steer_input, and user_input's fallback to spawn_task when no task is running. *)
Steerable == active # None /\ tasks # {}

(* The kind that counts is that of the first task; any task can come first. *)
FirstIsRegular == \E t \in tasks : t \notin other
FirstIsOther == \E t \in tasks : t \in other

SteerInto(u) ==
    /\ place' = Move({u}, At("pending", active))
    /\ nextTurn' = nextTurn \ {active}

UserInput(u) ==
    /\ proc[Sub].pc = "rest"
    /\ place[u].at = "unsent"
    /\ \/ /\ Steerable
          /\ FirstIsRegular
          /\ SteerInto(u)
          /\ UNCHANGED <<proc, turns, other>>
       \/ /\ Steerable
          /\ FirstIsOther
          /\ place' = Move({u}, Somewhere("rejected"))
          /\ UNCHANGED <<nextTurn, proc, turns, other>>
       \/ /\ ~Steerable
          /\ turns < MaxTurns
          /\ turns' = turns + 1
          /\ place' = Move({u}, At("carried", turns + 1))
          /\ proc' = [proc EXCEPT ![Sub] = AbortCall(turns + 1, {}, "Replaced")]
          /\ UNCHANGED <<nextTurn, other>>
    /\ UNCHANGED <<active, tasks, states, pc, cancelled, doomed, finState, completed,
                   aborted, budget>>

(* steer_input called for a client on another task: an error returns the input. *)
Steer(u) ==
    /\ place[u].at = "unsent"
    /\ Steerable
    /\ FirstIsRegular
    /\ SteerInto(u)
    /\ UNCHANGED <<active, tasks, states, turns, taskVars, proc, completed, aborted, budget>>

(* Op::Compact and the other operations that spawn a task over the running one. *)
Compact ==
    /\ proc[Sub].pc = "rest"
    /\ budget.compacts > 0
    /\ turns < MaxTurns
    /\ turns' = turns + 1
    /\ other' = other \cup {turns + 1}
    /\ budget' = [budget EXCEPT !.compacts = @ - 1]
    /\ proc' = [proc EXCEPT ![Sub] = AbortCall(turns + 1, {}, "Replaced")]
    /\ UNCHANGED <<slotVars, place, pc, cancelled, doomed, finState, completed, aborted>>

(* Op::Interrupt *)
Interrupt ==
    /\ proc[Sub].pc = "rest"
    /\ budget.interrupts > 0
    /\ budget' = [budget EXCEPT !.interrupts = @ - 1]
    /\ proc' = [proc EXCEPT ![Sub] = AbortCall(None, {}, "Interrupted")]
    /\ UNCHANGED <<slotVars, place, turns, taskVars, completed, aborted>>

(* Op::InterAgentCommunication: enqueue, then wake an idle session if asked to. *)
InterAgentCommunication(m) ==
    /\ proc[Sub].pc = "rest"
    /\ place[m].at = "unsent"
    /\ place' = Move({m}, Somewhere("mailbox"))
    /\ proc' = IF m \in Triggers THEN [proc EXCEPT ![Sub] = [Resting EXCEPT !.pc = "wake"]]
                                 ELSE proc
    /\ UNCHANGED <<slotVars, turns, taskVars, completed, aborted, budget>>

(* Input for the turn in the slot, whether or not it has a task; p if there is none. *)
PendingOr(kind, p) == IF active # None THEN At(kind, active) ELSE Somewhere(p)

(* inject_response_items by a tool or a background task; Err hands the item back. *)
Inject(j) ==
    /\ place[j].at = "unsent"
    /\ place' = Move({j}, PendingOr("pending", "returned"))
    /\ UNCHANGED <<slotVars, turns, taskVars, proc, completed, aborted, budget>>

(* Approval of a denied action: inject, or queue for the next turn. *)
ApproveDenied(j) ==
    /\ proc[Sub].pc = "rest"
    /\ place[j].at = "unsent"
    /\ \/ /\ active # None
          /\ place' = Move({j}, At("pending", active))
          /\ UNCHANGED proc
       \/ /\ active = None
          /\ place' = Move({j}, At("carried", Sub))
          /\ proc' = [proc EXCEPT ![Sub].pc = "requeue"]
    /\ UNCHANGED <<slotVars, turns, taskVars, completed, aborted, budget>>

QueueForNextTurn ==
    /\ proc[Sub].pc = "requeue"
    /\ place' = Move(ItemsAt("carried", Sub), Somewhere("idle"))
    /\ proc' = [proc EXCEPT ![Sub] = Resting]
    /\ UNCHANGED <<slotVars, turns, taskVars, completed, aborted, budget>>

-------------------------------------------------------------------------------
(***************************************************************************)
(* abort_all_tasks and abort_turn_if_active.  The slot is taken, then each *)
(* task is cancelled, given its grace period, aborted and reported.        *)
(***************************************************************************)

(* The guardian's circuit breaker trips during turn t and spawns the abort. *)
GuardianTrips(t) ==
    /\ budget.reviews > 0
    /\ t \in tasks
    /\ pc[t] = "sample"
    /\ budget' = [budget EXCEPT !.reviews = @ - 1]
    /\ proc' = [proc EXCEPT ![Guardian] = AbortCall(None, {t}, "Interrupted")]
    /\ UNCHANGED <<slotVars, place, turns, taskVars, completed, aborted>>

(* What follows the abort: start_task, maybe_start_turn_for_pending_work, nothing. *)
AfterAbort(a, any) ==
    IF proc[a].reason = "Replaced" THEN "queued"
    ELSE IF any THEN "wake" ELSE "rest"

Continue(a, p) ==
    proc' = [proc EXCEPT ![a] = IF p = "rest" THEN Resting ELSE [@ EXCEPT !.pc = p]]

Matches(a) == a = Guardian => active # None /\ proc[a].left \subseteq tasks

TakeActive(a) ==
    /\ proc[a].pc = "take"
    /\ \/ /\ ~Matches(a)
          /\ Continue(a, "rest")
          /\ UNCHANGED <<active, tasks>>
       \/ /\ Matches(a)
          /\ active' = None
          /\ tasks' = {}
          /\ IF tasks = {} THEN Continue(a, AfterAbort(a, FALSE))
             ELSE proc' = [proc EXCEPT ![a] = [pc |-> "next", turn |-> @.turn, ts |-> active,
                                               left |-> tasks, reason |-> @.reason]]
    /\ UNCHANGED <<states, nextTurn, place, turns, taskVars, completed, aborted, budget>>

(* handle_task_abort, up to the grace period ... *)
CancelNext(a) ==
    /\ proc[a].pc = "next"
    /\ \E t \in proc[a].left : cancelled' = cancelled \cup {t}
    /\ Goto(a, "grace")
    /\ UNCHANGED <<slotVars, place, turns, pc, other, doomed, finState, completed, aborted,
                   budget>>

(* ... and after it: done was notified or the timeout elapsed. *)
Mut_ReportAborted(t) == aborted
ReportAborted(t) == aborted \cup {t}

AbortTask(a) ==
    /\ proc[a].pc = "grace"
    /\ \E t \in proc[a].left \cap cancelled :
          /\ doomed' = doomed \cup {t}
          /\ aborted' = ReportAborted(t)
          /\ proc' = [proc EXCEPT ![a] = [pc |-> IF @.left = {t} THEN "clear" ELSE "next",
                                          turn |-> @.turn, ts |-> @.ts, left |-> @.left \ {t},
                                          reason |-> @.reason]]
    /\ UNCHANGED <<slotVars, place, turns, pc, other, cancelled, finState, completed, budget>>

(* clear_pending on the turn that was taken *)
ClearPending(a) ==
    /\ proc[a].pc = "clear"
    /\ place' = Move(PendingIn(proc[a].ts), Somewhere("cleared"))
    /\ Continue(a, AfterAbort(a, TRUE))
    /\ UNCHANGED <<slotVars, turns, taskVars, completed, aborted, budget>>

-------------------------------------------------------------------------------
(* maybe_start_turn_for_pending_work *)

Mut_PendingWork == ItemsAt("idle", None) # {}
PendingWork == ItemsAt("idle", None) # {} \/ Mailbox \cap Triggers # {}

CheckPendingWork(a) ==
    /\ proc[a].pc = "wake"
    /\ IF PendingWork THEN Goto(a, "reserve") /\ UNCHANGED pc ELSE Return(a)
    /\ UNCHANGED <<slotVars, place, turns, other, cancelled, doomed, finState, completed,
                   aborted, budget>>

Reserve(a) ==
    /\ proc[a].pc = "reserve"
    /\ \/ /\ active # None
          /\ Return(a)
          /\ UNCHANGED <<slotVars, turns>>
       \/ /\ active = None
          /\ turns < MaxTurns
          /\ GetOrInsert
          /\ turns' = turns + 1
          /\ proc' = [proc EXCEPT ![a] = [pc |-> "queued", turn |-> turns + 1, ts |-> None,
                                          left |-> {}, reason |-> "none"]]
          /\ UNCHANGED <<tasks, nextTurn, pc>>
    /\ UNCHANGED <<place, other, cancelled, doomed, finState, completed, aborted, budget>>

-------------------------------------------------------------------------------
(* start_task *)

(* take_queued_response_items_for_next_turn *)
TakeQueued(a) ==
    /\ proc[a].pc = "queued"
    /\ place' = Move(ItemsAt("idle", None), At("carried", a))
    /\ Goto(a, "pending")
    /\ UNCHANGED <<slotVars, turns, taskVars, completed, aborted, budget>>

(* get_pending_input, first half: the active turn's input and delivery phase *)
TakePending(a) ==
    /\ proc[a].pc = "pending"
    /\ place' = Move(PendingIn(active), At("carried", a))
    /\ Goto(a, IF active \in nextTurn THEN "slot" ELSE "mail")
    /\ UNCHANGED <<slotVars, turns, taskVars, completed, aborted, budget>>

(* get_pending_input, second half: the mailbox *)
TakeMail(a) ==
    /\ proc[a].pc = "mail"
    /\ place' = Move(Mailbox, At("carried", a))
    /\ Goto(a, "slot")
    /\ UNCHANGED <<slotVars, turns, taskVars, completed, aborted, budget>>

(* first lock of the slot: find or create the turn *)
FindSlot(a) ==
    /\ proc[a].pc = "slot"
    /\ GetOrInsert
    /\ proc' = [proc EXCEPT ![a] = [pc |-> "push", turn |-> @.turn, ts |-> active',
                                    left |-> @.left, reason |-> @.reason]]
    /\ UNCHANGED <<tasks, nextTurn, place, turns, taskVars, completed, aborted, budget>>

(* lock of that turn's state: what was collected becomes its pending input *)
PushCollected(a) ==
    /\ proc[a].pc = "push"
    /\ place' = Move(ItemsAt("carried", a), At("requeued", proc[a].ts))
    /\ Goto(a, "spawn")
    /\ UNCHANGED <<slotVars, turns, taskVars, completed, aborted, budget>>

(* second lock of the slot: spawn the task and add it *)
HasInput(t) == ItemsAt("carried", t) # {}

SpawnTask(a) ==
    /\ proc[a].pc = "spawn"
    /\ LET t == proc[a].turn
           entry == IF t \in other THEN "other" ELSE IF HasInput(t) THEN "prompt" ELSE "check"
       IN /\ GetOrInsert
          /\ tasks' = tasks \cup {t}
          /\ proc' = [proc EXCEPT ![a] = Resting]
          /\ pc' = [u \in Turns |-> IF u = t THEN entry ELSE IF u = a THEN "dead" ELSE pc[u]]
    /\ UNCHANGED <<nextTurn, place, turns, other, cancelled, doomed, finState, completed,
                   aborted, budget>>

-------------------------------------------------------------------------------
(***************************************************************************)
(* The task of turn t: RegularTask::run and run_turn.  It reads the input  *)
(* of whatever turn is in the slot, which need not be its own any more     *)
(* when t has been cancelled.                                              *)
(***************************************************************************)
Step(t, from, to) == pc[t] = from /\ pc' = [pc EXCEPT ![t] = to]

(* Direct input is recorded, blocked by the prompt hook, or dropped by an early return. *)
Prompt(t) ==
    /\ \/ /\ Step(t, "prompt", "sample")
          /\ place' = Move(ItemsAt("carried", t), Somewhere("history"))
       \/ /\ Step(t, "prompt", "check")
          /\ \E p \in {"blocked", "dropped"} :
                place' = Move(ItemsAt("carried", t), Somewhere(p))
    /\ UNCHANGED <<slotVars, turns, other, cancelled, doomed, finState, proc, completed,
                   aborted, budget>>

(* run_turn returns before it drains: compaction failed or a session hook stopped it. *)
EarlyReturn(t) ==
    /\ Step(t, "drain", "check")
    /\ UNCHANGED <<slotVars, place, turns, other, cancelled, doomed, finState, proc,
                   completed, aborted, budget>>

(* get_pending_input, in the same two halves as in start_task *)
DrainPending(t) ==
    /\ Step(t, "drain", IF active \in nextTurn THEN "record" ELSE "drainMail")
    /\ place' = Move(PendingIn(active), At("carried", t))
    /\ UNCHANGED <<slotVars, turns, other, cancelled, doomed, finState, proc, completed,
                   aborted, budget>>

DrainMail(t) ==
    /\ Step(t, "drainMail", "record")
    /\ place' = Move(Mailbox, At("carried", t))
    /\ UNCHANGED <<slotVars, turns, other, cancelled, doomed, finState, proc, completed,
                   aborted, budget>>

(* The pending-input hooks: the items before the blocked one are recorded, those after  *)
(* it go back to the turn in the slot, or nowhere if there is none.                     *)
RecordAll(t) ==
    /\ Step(t, "record", "sample")
    /\ place' = Move(ItemsAt("carried", t), Somewhere("history"))
    /\ UNCHANGED <<slotVars, turns, other, cancelled, doomed, finState, proc, completed,
                   aborted, budget>>

RecordUpToBlocked(t) ==
    /\ \E b \in ItemsAt("carried", t) : \E accepted \in SUBSET (ItemsAt("carried", t) \ {b}) :
          LET rest == ItemsAt("carried", t) \ (accepted \cup {b})
          IN /\ place' = [i \in Items |->
                            IF i \in accepted THEN Somewhere("history")
                            ELSE IF i = b THEN Somewhere("blocked")
                            ELSE IF i \in rest THEN PendingOr("requeued", "dropped")
                            ELSE place[i]]
             /\ Step(t, "record", IF accepted # {} THEN "sample"
                                  ELSE IF rest # {} THEN "drain" ELSE "check")
    /\ UNCHANGED <<slotVars, turns, other, cancelled, doomed, finState, proc, completed,
                   aborted, budget>>

(* One sampling request.  A final answer defers mail to the next turn unless input is   *)
(* pending, a tool call accepts it again, and may need a follow-up request.             *)
MayDefer(t) == t \in tasks /\ PendingIn(active) = {}

Defer(t) ==
    /\ t \notin doomed
    /\ MayDefer(t)
    /\ nextTurn' = nextTurn \cup {active}
    /\ Step(t, "sample", "check")
    /\ UNCHANGED <<active, tasks, states, place, turns, other, cancelled, doomed, finState,
                   proc, completed, aborted, budget>>

(* After a tool call the loop drains input and samples again; when it first had to compact *)
(* it samples without draining, and it returns when compacting fails.                      *)
AfterToolCall == {"drain", "sample", "check"}

ToolCall(t) ==
    /\ t \notin doomed
    /\ nextTurn' = IF t \in tasks THEN nextTurn \ {active} ELSE nextTurn
    /\ \E p \in AfterToolCall : Step(t, "sample", p)
    /\ UNCHANGED <<active, tasks, states, place, turns, other, cancelled, doomed, finState,
                   proc, completed, aborted, budget>>

(* The loop goes on without a tool call: a stop hook asks for more after a final answer, *)
(* or the request is repeated with its images removed.                                   *)
SampleAgain(t) ==
    /\ t \notin doomed
    /\ Step(t, "sample", "drain")
    /\ \/ UNCHANGED nextTurn
       \/ MayDefer(t) /\ nextTurn' = nextTurn \cup {active}
    /\ UNCHANGED <<active, tasks, states, place, turns, other, cancelled, doomed, finState,
                   proc, completed, aborted, budget>>

(* The request ends without either (an error, a refusal, a stopped stream). *)
SamplingEnds(t) ==
    /\ t \notin doomed
    /\ Step(t, "sample", "check")
    /\ UNCHANGED <<slotVars, place, turns, other, cancelled, doomed, finState, proc,
                   completed, aborted, budget>>

(* has_pending_input: first the turn in the slot, then the mailbox *)
CheckPending(t) ==
    /\ Step(t, "check", IF active # None /\ PendingIn(active) # {} THEN "drain"
                        ELSE IF active \in nextTurn THEN "flush" ELSE "checkMail")
    /\ UNCHANGED <<slotVars, place, turns, other, cancelled, doomed, finState, proc,
                   completed, aborted, budget>>

CheckMail(t) ==
    /\ Step(t, "checkMail", IF Mailbox # {} THEN "drain" ELSE "flush")
    /\ UNCHANGED <<slotVars, place, turns, other, cancelled, doomed, finState, proc,
                   completed, aborted, budget>>

(* A compact or review task reads no input. *)
OtherTaskRuns(t) ==
    /\ Step(t, "other", "flush")
    /\ UNCHANGED <<slotVars, place, turns, other, cancelled, doomed, finState, proc,
                   completed, aborted, budget>>

(* After flush_rollout: a cancelled task skips on_task_finished. *)
Flush(t) ==
    /\ t \notin doomed
    /\ Step(t, "flush", IF t \in cancelled THEN "dead" ELSE "remove")
    /\ UNCHANGED <<slotVars, place, turns, other, cancelled, doomed, finState, proc,
                   completed, aborted, budget>>

(* AbortOnDropHandle / handle.abort(): the task stops at an await, with what it holds. *)
TaskDies(t) ==
    /\ t \in doomed
    /\ pc[t] \notin {"none", "dead"}
    /\ pc' = [pc EXCEPT ![t] = "dead"]
    /\ place' = Move(ItemsAt("carried", t), Somewhere("cleared"))
    /\ UNCHANGED <<slotVars, turns, other, cancelled, doomed, finState, proc, completed,
                   aborted, budget>>

-------------------------------------------------------------------------------
(* on_task_finished *)

Mut_LastTask(t) == tasks = {}
LastTask(t) == tasks = {t}

RemoveTask(t) ==
    /\ pc[t] = "remove"
    /\ tasks' = tasks \ {t}
    /\ finState' = [finState EXCEPT ![t] = IF LastTask(t) THEN active ELSE None]
    /\ pc' = [pc EXCEPT ![t] = IF LastTask(t) THEN "takePending" ELSE "complete"]
    /\ UNCHANGED <<active, states, nextTurn, place, turns, other, cancelled, doomed, proc,
                   completed, aborted, budget>>

Mut_LeftOver(t) == {}
LeftOver(t) == PendingIn(finState[t])

TakeLeftOver(t) ==
    /\ Step(t, "takePending", "finRecord")
    /\ place' = Move(LeftOver(t), At("carried", t))
    /\ UNCHANGED <<slotVars, turns, other, cancelled, doomed, finState, proc, completed,
                   aborted, budget>>

RecordLeftOver(t) ==
    /\ Step(t, "finRecord", "complete")
    /\ \E blocked \in SUBSET ItemsAt("carried", t) :
          place' = [i \in Items |->
                      IF i \in blocked THEN Somewhere("blocked")
                      ELSE IF i \in ItemsAt("carried", t) THEN Somewhere("history")
                      ELSE place[i]]
    /\ UNCHANGED <<slotVars, turns, other, cancelled, doomed, finState, proc, completed,
                   aborted, budget>>

(* The TurnComplete event *)
Complete(t) ==
    /\ Step(t, "complete", IF finState[t] # None THEN "vacate" ELSE "dead")
    /\ completed' = completed \cup {t}
    /\ UNCHANGED <<slotVars, place, turns, other, cancelled, doomed, finState, proc, aborted,
                   budget>>

(* The slot is cleared only if it still holds this turn and no other task joined it. *)
Mut_StillMine(t) == active # None
StillMine(t) == active = finState[t] /\ tasks = {}

Vacate(t) ==
    /\ IF StillMine(t)
       THEN /\ Step(t, "vacate", "tail")
            /\ active' = None
            /\ tasks' = {}
            /\ proc' = [proc EXCEPT ![t].pc = "wake"]
       ELSE /\ Step(t, "vacate", "dead")
            /\ UNCHANGED <<active, tasks, proc>>
    /\ UNCHANGED <<states, nextTurn, place, turns, other, cancelled, doomed, finState,
                   completed, aborted, budget>>

-------------------------------------------------------------------------------
Operation ==
    \/ \E u \in Users : UserInput(u) \/ Steer(u)
    \/ \E m \in Mails : InterAgentCommunication(m)
    \/ \E j \in Injections : Inject(j) \/ ApproveDenied(j)
    \/ \E t \in Turns : GuardianTrips(t)
    \/ Compact \/ Interrupt \/ QueueForNextTurn

Abort(a) == TakeActive(a) \/ CancelNext(a) \/ AbortTask(a) \/ ClearPending(a)
Start(a) == CheckPendingWork(a) \/ Reserve(a) \/ TakeQueued(a) \/ TakePending(a)
            \/ TakeMail(a) \/ FindSlot(a) \/ PushCollected(a) \/ SpawnTask(a)

Run(t) == Prompt(t) \/ EarlyReturn(t) \/ DrainPending(t) \/ DrainMail(t) \/ RecordAll(t)
          \/ RecordUpToBlocked(t) \/ Defer(t) \/ ToolCall(t) \/ SampleAgain(t)
          \/ SamplingEnds(t) \/ CheckPending(t) \/ CheckMail(t) \/ OtherTaskRuns(t) \/ Flush(t)
Finish(t) == RemoveTask(t) \/ TakeLeftOver(t) \/ RecordLeftOver(t) \/ Complete(t) \/ Vacate(t)

Next ==
    \/ Operation
    \/ \E a \in Actors : Abort(a) \/ Start(a)
    \/ \E t \in Turns : Run(t) \/ Finish(t) \/ TaskDies(t)

Spec == Init /\ [][Next]_vars

(***************************************************************************)
(* Every tokio task is scheduled while it can run and every lock is        *)
(* released, so each process keeps stepping.  Strong fairness stands for   *)
(* two things the code does not bound: a model that calls tools stops at   *)
(* some point, and compaction before sampling does not fail for ever.      *)
(***************************************************************************)
FairSpec ==
    /\ Spec
    /\ WF_vars(QueueForNextTurn)
    /\ \A a \in Actors : WF_vars(Abort(a) \/ Start(a))
    /\ \A t \in Turns : /\ WF_vars(Run(t) \/ Finish(t) \/ TaskDies(t))
                       /\ SF_vars(Defer(t) \/ SamplingEnds(t))
                       /\ SF_vars(DrainPending(t))

-------------------------------------------------------------------------------
Running(t) == pc[t] \notin {"none", "takePending", "finRecord", "complete", "vacate", "tail",
                           "dead"}
Finishing(t) == pc[t] \in {"takePending", "finRecord", "complete", "vacate"}
Aborting(a) == proc[a].pc \in {"next", "grace", "clear"}

(***************************************************************************)
(* An interrupt always reaches what is running: a task that runs and has   *)
(* not been cancelled is in the active turn, or in the hands of an abort   *)
(* that took it from there.  About start_task, on_task_finished and        *)
(* take_active_turn.                                                       *)
(***************************************************************************)
RunningIsReachable ==
    \A t \in Turns : Running(t) /\ t \notin cancelled =>
        t \in tasks \/ \E a \in Actors : Aborting(a) /\ t \in proc[a].left

(* Someone will still look at the turn state that item i waits in. *)
Held(i) ==
    place[i].at = "pending" =>
        \/ place[i].of = active
        \/ \E a \in Actors : Aborting(a) /\ proc[a].ts = place[i].of
        \/ \E t \in Turns : pc[t] = "takePending" /\ finState[t] = place[i].of

(***************************************************************************)
(* Input that steer_input accepted is never left behind in the state of a  *)
(* turn nobody will look at again, however steering races with the end,    *)
(* the abort and the replacement of the turn.  It speaks of input where    *)
(* steer_input put it, not of input that was taken out and put back.       *)
(***************************************************************************)
SteeredInputIsHeld == \A u \in Users : Held(u)

(* "A session has at most 1 running task at a time": start_task never adds a second one. *)
AtMostOneTask == Cardinality(tasks) <= 1

(***************************************************************************)
(* Every turn whose task started ends in an event, TurnComplete or         *)
(* TurnAborted, however finishing, interrupting and replacing interleave.  *)
(* Turns are finitely many and an event stays sent, so that this says that *)
(* each of them gets one.                                                  *)
(***************************************************************************)
TurnsEnd == []<>(\A t \in Turns : pc[t] # "none" => t \in completed \cup aborted)

(***************************************************************************)
(* Once the operations are used up the session comes to rest with an empty *)
(* slot, so that the next user input starts a turn.  About the clear in    *)
(* on_task_finished and the wake-ups that follow it.                       *)
(***************************************************************************)
SessionComesToRest == <>[](active = None)

(* The turn state that a finishing task still has to clear was taken away by an abort. *)
GapTaken == \E t \in Turns : Finishing(t) /\ finState[t] \notin {None, active}

(***************************************************************************)
(* Mail with trigger_turn does not stay in the mailbox, whatever ends or   *)
(* aborts the turn meanwhile: the running turn drains it, or a turn is     *)
(* started for it.  About maybe_start_turn_for_pending_work and the        *)
(* callers that have to call it.  The one exception is an abort that takes *)
(* a turn between the end of its last task and the clearing of the slot:   *)
(* then neither side wakes the session.                                    *)
(***************************************************************************)
TriggersAreDelivered ==
    \/ <>GapTaken
    \/ \A m \in Triggers : []<>(place[m].at # "mailbox")
===============================================================================
