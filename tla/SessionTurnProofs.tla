-------------------------- MODULE SessionTurnProofs --------------------------
(***************************************************************************)
(* Proofs about the turn lifecycle, for any number of items, turns,        *)
(* interrupts and compactions.  IInv is the inductive invariant: what the  *)
(* control states of tasks and procedures say of each other, that a turn   *)
(* is started once, that an abort and the last task of a turn never both   *)
(* end it, and where a running task and steered input then are.            *)
(***************************************************************************)
EXTENDS SessionTurn, TLAPS

(* The control states of a turn that was created and has still to start. *)
Starting == {"queued", "pending", "mail", "slot", "push", "spawn"}

(* What the control states of a task and of a procedure say of each other. *)
ControlOK ==
    /\ \A t \in Turns : pc[t] # "tail" => proc[t].pc = "rest"
    /\ budget.reviews > 0 => proc[Guardian].pc = "rest"
    /\ \A a \in Actors :
         /\ proc[a].pc \in Starting => proc[a].turn # None
         /\ proc[a].reason = "Replaced" => proc[a].turn # None
         /\ proc[a].pc = "push" => proc[a].ts # None
         /\ proc[a].pc = "clear" => proc[a].left = {}
    /\ tasks # {} => active # None

(* A turn that was created is fresh until the one procedure that has it starts it. *)
FreshOK ==
    /\ \A t \in Turns : t > turns => pc[t] = "none"
    /\ \A a \in Actors : proc[a].turn # None => proc[a].turn <= turns /\ pc[proc[a].turn] = "none"
    /\ \A a, b \in Actors : proc[a].turn # None /\ proc[a].turn = proc[b].turn => a = b

(* The tasks of a turn and those an abort has to end were started. *)
StartedOK ==
    /\ \A t \in Turns : pc[t] = "none" => t \notin tasks \cup doomed
    /\ \A t \in Turns, a \in Actors : t \in proc[a].left => pc[t] # "none"

(* The last task of a turn has left it and has still to clear it. *)
Leaving(t) ==
    \/ pc[t] \in {"takePending", "finRecord", "vacate", "tail"}
    \/ pc[t] = "complete" /\ finState[t] # None

(* An abort has taken its tasks out of the slot, and takes no task that left. *)
TakenOK ==
    /\ \A t \in Turns : Leaving(t) => t \notin tasks
    /\ \A t \in Turns : t \in tasks \/ Leaving(t) =>
          t \notin doomed /\ \A a \in Actors : Aborting(a) => t \notin proc[a].left

(* Input that steer_input put into a turn waits in one that has tasks, or where an *)
(* abort or the end of the last task will take it.                                  *)
SteeredOK ==
    \A u \in Users : place[u].at = "pending" =>
        \/ place[u].of = active /\ tasks # {}
        \/ \E a \in Actors : Aborting(a) /\ proc[a].ts = place[u].of
        \/ \E t \in Turns : pc[t] = "takePending" /\ finState[t] = place[u].of

IInv == TypeOK /\ ControlOK /\ FreshOK /\ StartedOK /\ TakenOK /\ SteeredOK /\ RunningIsReachable

-----------------------------------------------------------------------------
\* The names of turns, turn states and procedures do not collide.
LEMMA Names ==
    /\ Turns \subseteq Nat /\ Turns \subseteq Actors
    /\ None \notin Turns /\ None \notin States
    /\ Sub \in Actors /\ Sub \notin Turns
    /\ Guardian \in Actors /\ Guardian \notin Turns /\ Guardian # Sub
    /\ \A a \in Actors : a \in Turns \/ a = Sub \/ a = Guardian
BY BoundsAssumption DEF Turns, Actors, None, Sub, Guardian, States

\* The next turn and the next turn state are names too.
LEMMA NextNames ==
    ASSUME TypeOK
    PROVE  /\ turns \in Nat /\ states \in Nat
           /\ turns < MaxTurns => turns + 1 \in Turns
           /\ states + 1 \in States
BY BoundsAssumption DEF TypeOK, Turns, States

-----------------------------------------------------------------------------
(* What the steps that change a procedure make of it. *)

\* The locals of caller a, at control state p.
Locals(a, p) == [pc |-> p, turn |-> proc[a].turn, ts |-> proc[a].ts, left |-> proc[a].left,
                 reason |-> proc[a].reason]

\* A caller that moves on keeps its locals.
LEMMA GotoForm ==
    ASSUME TypeOK, NEW a \in Actors, NEW p
    PROVE  /\ [proc EXCEPT ![a].pc = p] = [proc EXCEPT ![a] = Locals(a, p)]
           /\ [proc EXCEPT ![a] = [proc[a] EXCEPT !.pc = p]] = [proc EXCEPT ![a] = Locals(a, p)]
<1>1. proc[a] \in Procs
  BY DEF TypeOK
<1>2. [proc[a] EXCEPT !.pc = p] = Locals(a, p)
  BY <1>1 DEF Procs, Locals
<1>3. [proc EXCEPT ![a].pc = p] = [proc EXCEPT ![a] = [proc[a] EXCEPT !.pc = p]]
  BY DEF TypeOK
<1> QED BY <1>2, <1>3

\* So does the step that takes it there.
LEMMA GotoIs ==
    ASSUME TypeOK, NEW a \in Actors, NEW p, Goto(a, p)
    PROVE  proc' = [proc EXCEPT ![a] = Locals(a, p)]
BY GotoForm DEF Goto

\* The locals of a procedure have their types.
LEMMA LocalTypes ==
    ASSUME TypeOK
    PROVE  \A a \in Actors : /\ proc[a].turn \in Turns \cup {None}
                             /\ proc[a].ts \in States \cup {None}
                             /\ proc[a].left \subseteq Turns
BY DEF TypeOK, Procs

\* Likewise when its next control state depends on whether it is done.
LEMMA ContinueForm ==
    ASSUME TypeOK, NEW a \in Actors, NEW p, Continue(a, p)
    PROVE  proc' = [proc EXCEPT ![a] = IF p = "rest" THEN Resting ELSE Locals(a, p)]
<1>1. CASE p = "rest"
  BY <1>1 DEF Continue
<1>2. CASE p # "rest"
  BY <1>2, GotoForm DEF Continue
<1> QED BY <1>1, <1>2

\* user_input steers, rejects, or starts a turn of its own.
LEMMA UserInputForm ==
    ASSUME NEW u \in Users, UserInput(u)
    PROVE  /\ proc[Sub].pc = "rest"
           /\ \/ proc' = proc /\ turns' = turns
              \/ /\ turns < MaxTurns /\ turns' = turns + 1
                 /\ proc' = [proc EXCEPT ![Sub] = AbortCall(turns + 1, {}, "Replaced")]
           /\ UNCHANGED <<active, tasks, states, pc, other, cancelled, doomed, finState, completed,
                          aborted, budget>>
BY DEF UserInput

\* take_active_turn leaves the slot to another turn, finds no task, or takes all.
LEMMA TakeActiveForm ==
    ASSUME TypeOK, NEW a \in Actors, TakeActive(a)
    PROVE  /\ proc[a].pc = "take"
           /\ \/ UNCHANGED <<active, tasks>> /\ proc' = [proc EXCEPT ![a] = Resting]
              \/ /\ tasks = {} /\ tasks' = {} /\ active' = None
                 /\ \/ proc' = [proc EXCEPT ![a] = Resting]
                    \/ proc[a].reason = "Replaced" /\ proc' = [proc EXCEPT ![a] = Locals(a, "queued")]
              \/ /\ tasks # {} /\ tasks' = {} /\ active' = None
                 /\ proc' = [proc EXCEPT ![a] = [pc |-> "next", turn |-> proc[a].turn, ts |-> active,
                                                 left |-> tasks, reason |-> proc[a].reason]]
           /\ UNCHANGED <<states, nextTurn, place, turns, taskVars, completed, aborted, budget>>
<1>1. CASE ~Matches(a)
  <2>1. UNCHANGED <<active, tasks>> /\ Continue(a, "rest") /\ proc[a].pc = "take"
    BY <1>1 DEF TakeActive
  <2>2. proc' = [proc EXCEPT ![a] = Resting]
    BY <2>1, ContinueForm
  <2> QED BY <2>1, <2>2 DEF TakeActive
<1>2. CASE Matches(a) /\ tasks = {}
  <2>1. Continue(a, AfterAbort(a, FALSE)) /\ tasks' = {} /\ active' = None /\ proc[a].pc = "take"
    BY <1>2 DEF TakeActive
  <2>2. AfterAbort(a, FALSE) = IF proc[a].reason = "Replaced" THEN "queued" ELSE "rest"
    BY DEF AfterAbort
  <2>3. CASE proc[a].reason = "Replaced"
    <3>1. proc' = [proc EXCEPT ![a] = Locals(a, "queued")]
      BY <2>1, <2>2, <2>3, ContinueForm
    <3> QED BY <1>2, <2>1, <2>3, <3>1 DEF TakeActive
  <2>4. CASE proc[a].reason # "Replaced"
    <3>1. proc' = [proc EXCEPT ![a] = Resting]
      BY <2>1, <2>2, <2>4, ContinueForm
    <3> QED BY <1>2, <2>1, <3>1 DEF TakeActive
  <2> QED BY <2>3, <2>4
<1>3. CASE Matches(a) /\ tasks # {}
  BY <1>3 DEF TakeActive, TypeOK
<1> QED BY <1>1, <1>2, <1>3

\* handle_task_abort removes a cancelled task from those left.
LEMMA AbortTaskForm ==
    ASSUME TypeOK, NEW a \in Actors, AbortTask(a)
    PROVE  \E t \in proc[a].left \cap cancelled :
             /\ doomed' = doomed \cup {t} /\ aborted' = aborted \cup {t}
             /\ \E p \in {"clear", "next"} :
                  /\ p = "clear" => proc[a].left = {t}
                  /\ proc' = [proc EXCEPT ![a] = [pc |-> p, turn |-> proc[a].turn, ts |-> proc[a].ts,
                                                  left |-> proc[a].left \ {t}, reason |-> proc[a].reason]]
<1>1. PICK t \in proc[a].left \cap cancelled :
         /\ doomed' = doomed \cup {t}
         /\ aborted' = ReportAborted(t)
         /\ proc' = [proc EXCEPT ![a] = [pc |-> IF proc[a].left = {t} THEN "clear" ELSE "next",
                                         turn |-> proc[a].turn, ts |-> proc[a].ts,
                                         left |-> proc[a].left \ {t}, reason |-> proc[a].reason]]
  BY DEF AbortTask, TypeOK
<1>2. CASE proc[a].left = {t}
  BY <1>1, <1>2 DEF ReportAborted
<1>3. CASE proc[a].left # {t}
  BY <1>1, <1>3 DEF ReportAborted
<1> QED BY <1>2, <1>3

\* The abort that is over goes on to start its turn, to wake the session, or ends.
LEMMA ClearForm ==
    ASSUME TypeOK, NEW a \in Actors, ClearPending(a)
    PROVE  /\ proc[a].pc = "clear"
           /\ \/ proc[a].reason = "Replaced" /\ proc' = [proc EXCEPT ![a] = Locals(a, "queued")]
              \/ proc' = [proc EXCEPT ![a] = Locals(a, "wake")]
           /\ place' = Move(PendingIn(proc[a].ts), Somewhere("cleared"))
           /\ UNCHANGED <<slotVars, turns, taskVars, completed, aborted, budget>>
<1>1. /\ Continue(a, AfterAbort(a, TRUE)) /\ proc[a].pc = "clear"
      /\ place' = Move(PendingIn(proc[a].ts), Somewhere("cleared"))
      /\ UNCHANGED <<slotVars, turns, taskVars, completed, aborted, budget>>
  BY DEF ClearPending
<1>2. CASE proc[a].reason = "Replaced"
  <2>1. AfterAbort(a, TRUE) = "queued"
    BY <1>2 DEF AfterAbort
  <2>2. proc' = [proc EXCEPT ![a] = Locals(a, "queued")]
    BY <1>1, <2>1, ContinueForm
  <2> QED BY <1>1, <1>2, <2>2
<1>3. CASE proc[a].reason # "Replaced"
  <2>1. AfterAbort(a, TRUE) = "wake"
    BY <1>3 DEF AfterAbort
  <2>2. proc' = [proc EXCEPT ![a] = Locals(a, "wake")]
    BY <1>1, <2>1, ContinueForm
  <2> QED BY <1>1, <1>3, <2>2
<1> QED BY <1>2, <1>3

\* maybe_start_turn_for_pending_work finds work, or is over.
LEMMA CheckWorkForm ==
    ASSUME TypeOK, NEW a \in Actors, CheckPendingWork(a)
    PROVE  \/ UNCHANGED pc /\ proc' = [proc EXCEPT ![a] = Locals(a, "reserve")]
           \/ Return(a)
<1>1. CASE PendingWork
  <2>1. UNCHANGED pc /\ Goto(a, "reserve")
    BY <1>1 DEF CheckPendingWork
  <2> QED BY <2>1, GotoIs
<1>2. CASE ~PendingWork
  BY <1>2 DEF CheckPendingWork
<1> QED BY <1>1, <1>2

\* on_task_finished clears the slot and wakes the session, or leaves both alone.
LEMMA VacateForm ==
    ASSUME TypeOK, NEW t \in Turns, Vacate(t)
    PROVE  /\ pc[t] = "vacate"
           /\ \/ /\ tasks = {} /\ active' = None /\ tasks' = {} /\ active = finState[t]
                 /\ pc' = [pc EXCEPT ![t] = "tail"]
                 /\ proc' = [proc EXCEPT ![t] = Locals(t, "wake")]
              \/ UNCHANGED <<active, tasks, proc>> /\ pc' = [pc EXCEPT ![t] = "dead"]
           /\ UNCHANGED <<states, nextTurn, place, turns, other, cancelled, doomed, finState,
                          completed, aborted, budget>>
<1>1. CASE StillMine(t)
  <2>1. proc' = [proc EXCEPT ![t].pc = "wake"]
    BY <1>1 DEF Vacate
  <2>2. proc' = [proc EXCEPT ![t] = Locals(t, "wake")]
    BY <2>1, GotoForm, Names
  <2> QED BY <1>1, <2>2 DEF Vacate, StillMine, Step
<1>2. CASE ~StillMine(t)
  BY <1>2 DEF Vacate, Step
<1> QED BY <1>1, <1>2

\* An approval of a denied action is injected, or waits to be queued.
LEMMA ApproveForm ==
    ASSUME TypeOK, NEW j \in Injections, ApproveDenied(j)
    PROVE  /\ proc[Sub].pc = "rest"
           /\ \/ UNCHANGED proc
              \/ proc' = [proc EXCEPT ![Sub] = Locals(Sub, "requeue")]
           /\ UNCHANGED <<slotVars, turns, taskVars, completed, aborted, budget>>
BY GotoForm, Names DEF ApproveDenied

\* The control states between the start of a task and its removal from the turn.
RunPcs == {"prompt", "record", "other", "drain", "drainMail", "sample", "check", "checkMail",
           "flush", "remove"}

\* The loop of a task moves its control state, the items and the delivery phase,
\* and nothing else; it adds nothing to the input it reads but what it puts back.
LEMMA RunForm ==
    ASSUME TypeOK, NEW t \in Turns, Run(t)
    PROVE  /\ pc[t] \in RunPcs
           /\ \E x \in RunPcs \cup {"dead"} : pc' = [pc EXCEPT ![t] = x]
           /\ \A i \in Items : place'[i] = place[i] \/ place'[i].at # "pending"
           /\ UNCHANGED <<active, tasks, states, turns, other, cancelled, doomed, finState, proc,
                          completed, aborted, budget>>
<1> USE DEF Step, Move, Somewhere, At, RunPcs
<1>1. CASE Prompt(t)
  BY <1>1 DEF Prompt, slotVars
<1>2. CASE EarlyReturn(t) \/ DrainPending(t) \/ DrainMail(t) \/ RecordAll(t)
  BY <1>2 DEF EarlyReturn, DrainPending, DrainMail, RecordAll, slotVars
<1>3. CASE RecordUpToBlocked(t)
  <2>1. /\ pc[t] = "record"
        /\ \E x \in {"sample", "drain", "check"} : pc' = [pc EXCEPT ![t] = x]
        /\ UNCHANGED <<slotVars, turns, other, cancelled, doomed, finState, proc, completed,
                       aborted, budget>>
    BY <1>3 DEF RecordUpToBlocked
  <2>2. \A i \in Items : place'[i] = place[i] \/ place'[i].at # "pending"
    BY <1>3 DEF RecordUpToBlocked, PendingOr
  <2> QED BY <2>1, <2>2 DEF slotVars
<1>4. CASE Defer(t) \/ SampleAgain(t) \/ SamplingEnds(t)
  BY <1>4 DEF Defer, SampleAgain, SamplingEnds, slotVars
<1>5. CASE ToolCall(t)
  BY <1>5 DEF ToolCall, AfterToolCall
<1>6. CASE CheckPending(t) \/ CheckMail(t) \/ OtherTaskRuns(t) \/ Flush(t)
  BY <1>6 DEF CheckPending, CheckMail, OtherTaskRuns, Flush, slotVars
<1> QED BY <1>1, <1>2, <1>3, <1>4, <1>5, <1>6 DEF Run

\* A turn that is created is one that nobody has.
LEMMA NewTurn ==
    ASSUME TypeOK, FreshOK, NEW a \in Actors, turns < MaxTurns, turns' = turns + 1, UNCHANGED pc,
           NEW r, r.turn = turns + 1, proc' = [proc EXCEPT ![a] = r]
    PROVE  FreshOK'
<1>1. turns \in Nat /\ turns + 1 \in Turns /\ turns + 1 > turns
  BY NextNames
<1>2. pc[turns + 1] = "none"
  BY <1>1 DEF FreshOK
<1>3. \A b \in Actors : proc'[b].turn = IF b = a THEN turns + 1 ELSE proc[b].turn
  BY DEF TypeOK
<1>4. \A b \in Actors : proc[b].turn # None => proc[b].turn \in Nat /\ proc[b].turn <= turns
  BY LocalTypes, Names DEF FreshOK
<1>5. \A t \in Turns : t > turns' => pc'[t] = "none"
  BY <1>1, Names DEF FreshOK
<1>6. \A b \in Actors : proc'[b].turn # None => proc'[b].turn <= turns' /\ pc'[proc'[b].turn] = "none"
  BY <1>1, <1>2, <1>3, <1>4 DEF FreshOK
<1>7. \A b, c \in Actors : proc'[b].turn # None /\ proc'[b].turn = proc'[c].turn => b = c
  BY <1>1, <1>3, <1>4 DEF FreshOK
<1> QED BY <1>5, <1>6, <1>7 DEF FreshOK

\* A task that was started moves on, and no procedure gets a turn.
LEMMA OldTurn ==
    ASSUME TypeOK, FreshOK, UNCHANGED turns,
           \A t \in Turns : pc'[t] = "none" <=> pc[t] = "none",
           \A a \in Actors : proc'[a].turn \in {proc[a].turn, None}
    PROVE  FreshOK'
<1>1. \A t \in Turns : t > turns' => pc'[t] = "none"
  BY DEF FreshOK
<1>2. \A a \in Actors : proc'[a].turn # None => proc'[a].turn <= turns' /\ pc'[proc'[a].turn] = "none"
  BY LocalTypes DEF FreshOK
<1>3. \A a, b \in Actors : proc'[a].turn # None /\ proc'[a].turn = proc'[b].turn => a = b
  BY DEF FreshOK
<1> QED BY <1>1, <1>2, <1>3 DEF FreshOK

\* A procedure keeps its type when its locals have theirs.
LEMMA ProcType ==
    ASSUME TypeOK, NEW a \in Actors, NEW r \in Procs, proc' = [proc EXCEPT ![a] = r]
    PROVE  proc' \in [Actors -> Procs]
BY DEF TypeOK

\* The locals a procedure keeps have their types.
LEMMA LocalsType ==
    ASSUME TypeOK, NEW a \in Actors,
           NEW p \in {"rest", "take", "next", "grace", "clear", "wake", "reserve", "queued",
                      "pending", "mail", "slot", "push", "spawn", "requeue"}
    PROVE  Locals(a, p) \in Procs
<1>1. proc[a] \in Procs
  BY DEF TypeOK
<1> QED BY <1>1 DEF Procs, Locals

\* So have those of a procedure that is called.
LEMMA CallType ==
    /\ Resting \in Procs
    /\ \A t \in Turns \cup {None}, S \in SUBSET Turns, why \in {"Interrupted", "Replaced"} :
         AbortCall(t, S, why) \in Procs
BY DEF Procs, Resting, AbortCall

-----------------------------------------------------------------------------
(* Every step keeps every part of the invariant. *)

\* The variables stay in their sets.
LEMMA TypeStep ==
    ASSUME IInv, [Next]_vars
    PROVE  TypeOK'
<1> USE Names DEF IInv, TypeOK, Procs, Pcs, ControlOK, Starting, AbortCall, Locals,
        Step, Return, GetOrInsert, Resting, Places, At, Somewhere, Move, PendingOr,
        SteerInto, MayDefer, ReportAborted, LastTask, AfterAbort, AfterToolCall,
        slotVars, taskVars
<1>1. ASSUME NEW u \in Users, UserInput(u) PROVE TypeOK'
  <2>1. proc' \in [Actors -> Procs] /\ turns' \in 0..MaxTurns
    <3>1. CASE UNCHANGED <<proc, turns>>
      BY <3>1
    <3>2. CASE ~UNCHANGED <<proc, turns>>
      <4>1. /\ turns < MaxTurns /\ turns' = turns + 1
            /\ proc' = [proc EXCEPT ![Sub] = AbortCall(turns + 1, {}, "Replaced")]
        BY <1>1, <3>2, UserInputForm
      <4>2. turns + 1 \in Turns
        <5> HIDE DEF TypeOK
        <5> QED BY <4>1, NextNames
      <4>3. proc' \in [Actors -> Procs]
        <5> HIDE DEF TypeOK, AbortCall, Procs
        <5> QED BY <4>1, <4>2, CallType, ProcType
      <4> QED BY <4>1, <4>3, BoundsAssumption
    <3> QED BY <3>1, <3>2
  <2>2. UNCHANGED <<active, tasks, states, pc, other, cancelled, doomed, finState, completed, aborted, budget>>
    BY <1>1, UserInputForm
  <2>3. \/ active \in States /\ SteerInto(u)
        \/ place' = Move({u}, Somewhere("rejected")) /\ UNCHANGED nextTurn
        \/ place' = Move({u}, At("carried", turns + 1)) /\ turns + 1 \in Actors /\ UNCHANGED nextTurn
    <3>1. turns < MaxTurns => turns + 1 \in Actors
      <4> HIDE DEF TypeOK
      <4> QED BY NextNames
    <3> HIDE DEF SteerInto, Move, At, Somewhere
    <3> QED BY <1>1, <3>1 DEF UserInput, Steerable
  <2>4. place' \in [Items -> Places] /\ nextTurn' \in SUBSET States
    <3>1. CASE active \in States /\ SteerInto(u)
      BY <3>1
    <3>2. CASE place' = Move({u}, Somewhere("rejected")) /\ UNCHANGED nextTurn
      BY <3>2
    <3>3. CASE place' = Move({u}, At("carried", turns + 1)) /\ turns + 1 \in Actors /\ UNCHANGED nextTurn
      BY <3>3
    <3> QED BY <2>3, <3>1, <3>2, <3>3
  <2> QED BY <2>1, <2>2, <2>4
<1>2. ASSUME NEW u \in Users, Steer(u) PROVE TypeOK'
  <2>1. active \in States
    BY <1>2 DEF Steer, Steerable
  <2>2. place' \in [Items -> Places]
    BY <1>2, <2>1 DEF Steer
  <2>3. nextTurn' \in SUBSET States
    BY <1>2 DEF Steer
  <2> QED BY <1>2, <2>2, <2>3 DEF Steer
<1>3. ASSUME NEW m \in Mails, InterAgentCommunication(m) PROVE TypeOK'
  BY <1>3 DEF InterAgentCommunication
<1>4. ASSUME NEW j \in Injections, Inject(j) PROVE TypeOK'
  BY <1>4 DEF Inject
<1>5. ASSUME NEW j \in Injections, ApproveDenied(j) PROVE TypeOK'
  BY <1>5, ApproveForm DEF ApproveDenied
<1>6. ASSUME NEW t \in Turns, GuardianTrips(t) PROVE TypeOK'
  <2>1. budget' = [interrupts |-> budget.interrupts, compacts |-> budget.compacts, reviews |-> budget.reviews - 1]
    BY <1>6 DEF GuardianTrips
  <2>2. budget.reviews \in Nat /\ budget.reviews > 0
    BY <1>6, BoundsAssumption DEF GuardianTrips
  <2>3. budget' \in [interrupts : 0..MaxInterrupts, compacts : 0..MaxCompacts, reviews : 0..MaxReviews]
    BY <2>1, <2>2, BoundsAssumption
  <2>4. proc' = [proc EXCEPT ![Guardian] = AbortCall(None, {t}, "Interrupted")]
    BY <1>6 DEF GuardianTrips
  <2>5. proc' \in [Actors -> Procs]
    <3> HIDE DEF TypeOK, AbortCall, Procs
    <3> QED BY <2>4, CallType, ProcType
  <2> QED BY <1>6, <2>3, <2>5 DEF GuardianTrips
<1>7. ASSUME Compact PROVE TypeOK'
  <2>1. budget' = [interrupts |-> budget.interrupts, compacts |-> budget.compacts - 1, reviews |-> budget.reviews]
    BY <1>7 DEF Compact
  <2>2. budget.compacts \in Nat /\ budget.compacts > 0
    BY <1>7, BoundsAssumption DEF Compact
  <2>3. budget' \in [interrupts : 0..MaxInterrupts, compacts : 0..MaxCompacts, reviews : 0..MaxReviews]
    BY <2>1, <2>2, BoundsAssumption
  <2>4. /\ proc' = [proc EXCEPT ![Sub] = AbortCall(turns + 1, {}, "Replaced")]
        /\ turns < MaxTurns /\ turns' = turns + 1 /\ other' = other \cup {turns + 1}
    BY <1>7 DEF Compact
  <2>5. turns + 1 \in Turns
    <3> HIDE DEF TypeOK
    <3> QED BY <2>4, NextNames
  <2>6. proc' \in [Actors -> Procs]
    <3> HIDE DEF TypeOK, AbortCall, Procs
    <3> QED BY <2>4, <2>5, CallType, ProcType
  <2>7. turns' \in 0..MaxTurns /\ other' \in SUBSET Turns
    BY <2>4, <2>5, BoundsAssumption
  <2> QED BY <1>7, <2>3, <2>6, <2>7 DEF Compact
<1>8. ASSUME Interrupt PROVE TypeOK'
  <2>1. budget' = [interrupts |-> budget.interrupts - 1, compacts |-> budget.compacts, reviews |-> budget.reviews]
    BY <1>8 DEF Interrupt
  <2>2. budget.interrupts \in Nat /\ budget.interrupts > 0
    BY <1>8, BoundsAssumption DEF Interrupt
  <2>3. budget' \in [interrupts : 0..MaxInterrupts, compacts : 0..MaxCompacts, reviews : 0..MaxReviews]
    BY <2>1, <2>2, BoundsAssumption
  <2>4. proc' = [proc EXCEPT ![Sub] = AbortCall(None, {}, "Interrupted")]
    BY <1>8 DEF Interrupt
  <2>5. proc' \in [Actors -> Procs]
    <3> HIDE DEF TypeOK, AbortCall, Procs
    <3> QED BY <2>4, CallType, ProcType
  <2> QED BY <1>8, <2>3, <2>5 DEF Interrupt
<1>9. ASSUME QueueForNextTurn PROVE TypeOK'
  BY <1>9 DEF QueueForNextTurn
<1>10. ASSUME NEW a \in Actors, TakeActive(a) PROVE TypeOK'
  <2>1. active' \in States \cup {None} /\ tasks' \in SUBSET Turns
    <3>1. (UNCHANGED <<active, tasks>>) \/ (active' = None /\ tasks' = {})
      BY <1>10, TakeActiveForm
    <3>2. active \in States \cup {None} /\ tasks \in SUBSET Turns
      OBVIOUS
    <3> HIDE DEF TypeOK
    <3> QED BY <3>1, <3>2
  <2>2. PICK r \in Procs : proc' = [proc EXCEPT ![a] = r]
    <3> DEFINE n == [pc |-> "next", turn |-> proc[a].turn, ts |-> active, left |-> tasks, reason |-> proc[a].reason]
    <3>1. n \in Procs
      BY LocalTypes
    <3> HIDE DEF TypeOK, Procs, Resting, Locals
    <3>2. Resting \in Procs /\ Locals(a, "queued") \in Procs
      BY CallType, LocalsType
    <3> QED BY <1>10, <3>1, <3>2, TakeActiveForm
  <2>3. proc' \in [Actors -> Procs]
    BY <2>2
  <2>4. UNCHANGED <<states, nextTurn, place, turns, taskVars, completed, aborted, budget>>
    BY <1>10, TakeActiveForm
  <2> QED BY <2>1, <2>3, <2>4
<1>11. ASSUME NEW a \in Actors, CancelNext(a) PROVE TypeOK'
  BY <1>11, GotoIs DEF CancelNext
<1>12. ASSUME NEW a \in Actors, AbortTask(a) PROVE TypeOK'
  BY <1>12, AbortTaskForm DEF AbortTask
<1>13. ASSUME NEW a \in Actors, ClearPending(a) PROVE TypeOK'
  <2>1. proc' \in [Actors -> Procs]
    <3> HIDE DEF TypeOK, Procs, Locals
    <3>1. Locals(a, "queued") \in Procs /\ Locals(a, "wake") \in Procs
      BY LocalsType
    <3> QED BY <1>13, <3>1, ClearForm, ProcType
  <2>2. place' = Move(PendingIn(proc[a].ts), Somewhere("cleared"))
    BY <1>13 DEF ClearPending
  <2>3. place' \in [Items -> Places]
    BY <2>2
  <2> QED BY <1>13, <2>1, <2>3 DEF ClearPending
<1>14. ASSUME NEW a \in Actors, CheckPendingWork(a) PROVE TypeOK'
  BY <1>14, CheckWorkForm DEF CheckPendingWork
<1>15. ASSUME NEW a \in Actors, Reserve(a) PROVE TypeOK'
  <2>1. CASE active # None
    <3>1. /\ Return(a)
          /\ UNCHANGED <<slotVars, turns, place, other, cancelled, doomed, finState, completed, aborted, budget>>
      BY <1>15, <2>1 DEF Reserve
    <3>2. proc' \in [Actors -> Procs]
      BY <3>1
    <3>3. pc' \in [Turns -> Pcs]
      BY <3>1
    <3> QED BY <3>1, <3>2, <3>3
  <2>2. CASE active = None
    <3> DEFINE r == [pc |-> "queued", turn |-> turns + 1, ts |-> None, left |-> {}, reason |-> "none"]
    <3>1. /\ turns < MaxTurns /\ turns' = turns + 1 /\ GetOrInsert
          /\ proc' = [proc EXCEPT ![a] = r]
      BY <1>15, <2>2 DEF Reserve
    <3>2. turns + 1 \in Turns /\ states + 1 \in States
      <4> HIDE DEF TypeOK, GetOrInsert
      <4> QED BY <3>1, NextNames
    <3>3. r \in Procs
      BY <3>2
    <3>4. proc' \in [Actors -> Procs]
      <4> HIDE DEF r
      <4> QED BY <3>1, <3>3
    <3>5. active' \in States \cup {None} /\ states' \in Nat /\ turns' \in 0..MaxTurns
      BY <2>2, <3>1, <3>2, BoundsAssumption
    <3> QED BY <1>15, <2>2, <3>4, <3>5 DEF Reserve
  <2> QED BY <2>1, <2>2
<1>16. ASSUME NEW a \in Actors, TakeQueued(a) PROVE TypeOK'
  BY <1>16, GotoIs DEF TakeQueued
<1>17. ASSUME NEW a \in Actors, TakePending(a) PROVE TypeOK'
  BY <1>17, GotoIs DEF TakePending
<1>18. ASSUME NEW a \in Actors, TakeMail(a) PROVE TypeOK'
  BY <1>18, GotoIs DEF TakeMail
<1>19. ASSUME NEW a \in Actors, FindSlot(a) PROVE TypeOK'
  BY <1>19, NextNames DEF FindSlot
<1>20. ASSUME NEW a \in Actors, PushCollected(a) PROVE TypeOK'
  BY <1>20, GotoIs DEF PushCollected
<1>21. ASSUME NEW a \in Actors, SpawnTask(a) PROVE TypeOK'
  <2>1. proc[a].turn \in Turns
    BY <1>21 DEF SpawnTask
  <2>2. states + 1 \in States
    <3> HIDE DEF TypeOK
    <3> QED BY NextNames
  <2>3. active' \in States \cup {None} /\ states' \in Nat
    BY <1>21, <2>2 DEF SpawnTask
  <2>4. tasks' \in SUBSET Turns /\ proc' \in [Actors -> Procs]
    <3>1. tasks' = tasks \cup {proc[a].turn} /\ proc' = [proc EXCEPT ![a] = Resting]
      BY <1>21 DEF SpawnTask
    <3>2. tasks' \in SUBSET Turns
      <4>1. tasks \in SUBSET Turns
        OBVIOUS
      <4> HIDE DEF TypeOK
      <4> QED BY <2>1, <3>1, <4>1
    <3>3. proc' \in [Actors -> Procs]
      <4> HIDE DEF TypeOK, Resting, Procs
      <4> QED BY <3>1, CallType, ProcType
    <3> QED BY <3>2, <3>3
  <2>5. pc' \in [Turns -> Pcs]
    BY <1>21 DEF SpawnTask
  <2> QED BY <1>21, <2>3, <2>4, <2>5 DEF SpawnTask
<1>22. ASSUME NEW t \in Turns, Prompt(t) PROVE TypeOK'
  BY <1>22 DEF Prompt
<1>23. ASSUME NEW t \in Turns, EarlyReturn(t) PROVE TypeOK'
  BY <1>23 DEF EarlyReturn
<1>24. ASSUME NEW t \in Turns, DrainPending(t) PROVE TypeOK'
  BY <1>24 DEF DrainPending
<1>25. ASSUME NEW t \in Turns, DrainMail(t) PROVE TypeOK'
  BY <1>25 DEF DrainMail
<1>26. ASSUME NEW t \in Turns, RecordAll(t) PROVE TypeOK'
  BY <1>26 DEF RecordAll
<1>27. ASSUME NEW t \in Turns, RecordUpToBlocked(t) PROVE TypeOK'
  BY <1>27 DEF RecordUpToBlocked
<1>28. ASSUME NEW t \in Turns, Defer(t) PROVE TypeOK'
  BY <1>28 DEF Defer
<1>29. ASSUME NEW t \in Turns, ToolCall(t) PROVE TypeOK'
  BY <1>29 DEF ToolCall
<1>30. ASSUME NEW t \in Turns, SampleAgain(t) PROVE TypeOK'
  BY <1>30 DEF SampleAgain
<1>31. ASSUME NEW t \in Turns, SamplingEnds(t) PROVE TypeOK'
  BY <1>31 DEF SamplingEnds
<1>32. ASSUME NEW t \in Turns, CheckPending(t) PROVE TypeOK'
  BY <1>32 DEF CheckPending
<1>33. ASSUME NEW t \in Turns, CheckMail(t) PROVE TypeOK'
  BY <1>33 DEF CheckMail
<1>34. ASSUME NEW t \in Turns, OtherTaskRuns(t) PROVE TypeOK'
  BY <1>34 DEF OtherTaskRuns
<1>35. ASSUME NEW t \in Turns, Flush(t) PROVE TypeOK'
  BY <1>35 DEF Flush
<1>36. ASSUME NEW t \in Turns, RemoveTask(t) PROVE TypeOK'
  BY <1>36 DEF RemoveTask
<1>37. ASSUME NEW t \in Turns, TakeLeftOver(t) PROVE TypeOK'
  BY <1>37 DEF TakeLeftOver
<1>38. ASSUME NEW t \in Turns, RecordLeftOver(t) PROVE TypeOK'
  BY <1>38 DEF RecordLeftOver
<1>39. ASSUME NEW t \in Turns, Complete(t) PROVE TypeOK'
  BY <1>39 DEF Complete
<1>40. ASSUME NEW t \in Turns, Vacate(t) PROVE TypeOK'
  <2>1. active' \in States \cup {None} /\ tasks' \in SUBSET Turns
    BY <1>40 DEF Vacate
  <2>2. pc' \in [Turns -> Pcs]
    BY <1>40 DEF Vacate
  <2>3. proc' \in [Actors -> Procs]
    <3> HIDE DEF TypeOK, Procs, Locals
    <3>1. Locals(t, "wake") \in Procs /\ t \in Actors
      BY LocalsType
    <3>2. proc' = proc \/ proc' = [proc EXCEPT ![t] = Locals(t, "wake")]
      BY <1>40, VacateForm
    <3>3. proc \in [Actors -> Procs]
      BY DEF TypeOK
    <3> QED BY <3>1, <3>2, <3>3, ProcType
  <2> QED BY <1>40, <2>1, <2>2, <2>3 DEF Vacate
<1>41. ASSUME NEW t \in Turns, TaskDies(t) PROVE TypeOK'
  BY <1>41 DEF TaskDies
<1>42. CASE UNCHANGED vars
  BY <1>42 DEF vars
<1> HIDE DEF IInv, TypeOK, Procs, Pcs, ControlOK, Starting, AbortCall, Locals, Step,
        Return, GetOrInsert, Resting, Places, At, Somewhere, Move, PendingOr,
        SteerInto, MayDefer, ReportAborted, LastTask, AfterAbort, AfterToolCall
<1> QED BY <1>1, <1>2, <1>3, <1>4, <1>5, <1>6, <1>7, <1>8, <1>9, <1>10, <1>11,
           <1>12, <1>13, <1>14, <1>15, <1>16, <1>17, <1>18, <1>19, <1>20, <1>21,
           <1>22, <1>23, <1>24, <1>25, <1>26, <1>27, <1>28, <1>29, <1>30, <1>31,
           <1>32, <1>33, <1>34, <1>35, <1>36, <1>37, <1>38, <1>39, <1>40, <1>41,
           <1>42
         DEF Next, Operation, Abort, Start, Run, Finish

\* A task that runs has no procedure of its own, and the guardian aborts once.
LEMMA ControlStep ==
    ASSUME IInv, [Next]_vars
    PROVE  ControlOK'
<1> USE Names DEF IInv, ControlOK, TakenOK, Leaving, Starting, RunPcs, AbortCall,
        Locals, Step, Return, GetOrInsert, Resting, slotVars, taskVars
<1>0. /\ proc \in [Actors -> Procs]
      /\ pc \in [Turns -> Pcs]
      /\ budget \in [interrupts : 0..MaxInterrupts, compacts : 0..MaxCompacts, reviews : 0..1]
      /\ tasks \subseteq Turns
  BY BoundsAssumption DEF TypeOK
<1> USE <1>0
<1>1. ASSUME NEW u \in Users, UserInput(u) PROVE ControlOK'
  BY <1>1, UserInputForm, NextNames
<1>2. ASSUME NEW u \in Users, Steer(u) PROVE ControlOK'
  BY <1>2 DEF Steer
<1>3. ASSUME NEW m \in Mails, InterAgentCommunication(m) PROVE ControlOK'
  BY <1>3 DEF InterAgentCommunication
<1>4. ASSUME NEW j \in Injections, Inject(j) PROVE ControlOK'
  BY <1>4 DEF Inject
<1>5. ASSUME NEW j \in Injections, ApproveDenied(j) PROVE ControlOK'
  BY <1>5, ApproveForm
<1>6. ASSUME NEW t \in Turns, GuardianTrips(t) PROVE ControlOK'
  BY <1>6 DEF GuardianTrips
<1>7. ASSUME Compact PROVE ControlOK'
  BY <1>7, NextNames DEF Compact
<1>8. ASSUME Interrupt PROVE ControlOK'
  BY <1>8 DEF Interrupt
<1>9. ASSUME QueueForNextTurn PROVE ControlOK'
  BY <1>9 DEF QueueForNextTurn
<1>10. ASSUME NEW a \in Actors, TakeActive(a) PROVE ControlOK'
  BY <1>10, TakeActiveForm
<1>11. ASSUME NEW a \in Actors, CancelNext(a) PROVE ControlOK'
  BY <1>11, GotoIs DEF CancelNext
<1>12. ASSUME NEW a \in Actors, AbortTask(a) PROVE ControlOK'
  BY <1>12, AbortTaskForm DEF AbortTask
<1>13. ASSUME NEW a \in Actors, ClearPending(a) PROVE ControlOK'
  BY <1>13, ClearForm
<1>14. ASSUME NEW a \in Actors, CheckPendingWork(a) PROVE ControlOK'
  BY <1>14, CheckWorkForm DEF CheckPendingWork
<1>15. ASSUME NEW a \in Actors, Reserve(a) PROVE ControlOK'
  BY <1>15, NextNames DEF Reserve
<1>16. ASSUME NEW a \in Actors, TakeQueued(a) PROVE ControlOK'
  BY <1>16, GotoIs DEF TakeQueued
<1>17. ASSUME NEW a \in Actors, TakePending(a) PROVE ControlOK'
  BY <1>17, GotoIs DEF TakePending
<1>18. ASSUME NEW a \in Actors, TakeMail(a) PROVE ControlOK'
  BY <1>18, GotoIs DEF TakeMail
<1>19. ASSUME NEW a \in Actors, FindSlot(a) PROVE ControlOK'
  BY <1>19, NextNames DEF FindSlot
<1>20. ASSUME NEW a \in Actors, PushCollected(a) PROVE ControlOK'
  BY <1>20, GotoIs DEF PushCollected
<1>21. ASSUME NEW a \in Actors, SpawnTask(a) PROVE ControlOK'
  <2>1. proc' = [proc EXCEPT ![a] = Resting] /\ UNCHANGED budget /\ active' # None
    BY <1>21, NextNames DEF SpawnTask
  <2>2. proc[a].turn \in Turns /\ pc[proc[a].turn] = "none"
    BY <1>21, LocalTypes DEF SpawnTask, FreshOK
  <2>3. \A u \in Turns : pc'[u] # "tail" => u = a \/ pc[u] # "tail" \/ u = proc[a].turn
    BY <1>21 DEF SpawnTask
  <2> QED BY <2>1, <2>2, <2>3
<1>22. ASSUME NEW t \in Turns, Run(t) PROVE ControlOK'
  BY <1>22, RunForm
<1>23. ASSUME NEW t \in Turns, RemoveTask(t) PROVE ControlOK'
  BY <1>23 DEF RemoveTask
<1>24. ASSUME NEW t \in Turns, TakeLeftOver(t) PROVE ControlOK'
  BY <1>24 DEF TakeLeftOver
<1>25. ASSUME NEW t \in Turns, RecordLeftOver(t) PROVE ControlOK'
  BY <1>25 DEF RecordLeftOver
<1>26. ASSUME NEW t \in Turns, Complete(t) PROVE ControlOK'
  BY <1>26 DEF Complete
<1>27. ASSUME NEW t \in Turns, Vacate(t) PROVE ControlOK'
  BY <1>27, VacateForm
<1>28. ASSUME NEW t \in Turns, TaskDies(t) PROVE ControlOK'
  BY <1>28 DEF TaskDies
<1>29. CASE UNCHANGED vars
  BY <1>29 DEF vars
<1> HIDE DEF IInv, ControlOK, TakenOK, Leaving, Starting, RunPcs, AbortCall, Locals,
        Step, Return, GetOrInsert, Resting
<1> QED BY <1>1, <1>2, <1>3, <1>4, <1>5, <1>6, <1>7, <1>8, <1>9, <1>10, <1>11,
           <1>12, <1>13, <1>14, <1>15, <1>16, <1>17, <1>18, <1>19, <1>20, <1>21,
           <1>22, <1>23, <1>24, <1>25, <1>26, <1>27, <1>28, <1>29
         DEF Next, Operation, Abort, Start, Finish

\* No other procedure gets a turn that was created, and nobody starts it twice.
LEMMA FreshStep ==
    ASSUME IInv, [Next]_vars
    PROVE  FreshOK'
<1> USE Names DEF IInv, ControlOK, Starting, RunPcs, AbortCall, Locals, Step,
        Return, GetOrInsert, Resting, slotVars, taskVars
<1>0. /\ proc \in [Actors -> Procs]
      /\ pc \in [Turns -> Pcs]
  BY BoundsAssumption DEF TypeOK
<1> USE <1>0
<1>1. ASSUME NEW u \in Users, UserInput(u) PROVE FreshOK'
  <2>1. CASE UNCHANGED <<proc, turns>>
    <3>1. UNCHANGED pc
      BY <1>1, UserInputForm
    <3> QED BY <2>1, <3>1, OldTurn
  <2>2. CASE ~UNCHANGED <<proc, turns>>
    <3>1. /\ turns < MaxTurns /\ turns' = turns + 1 /\ UNCHANGED pc
          /\ proc' = [proc EXCEPT ![Sub] = AbortCall(turns + 1, {}, "Replaced")]
      BY <1>1, <2>2, UserInputForm
    <3>2. AbortCall(turns + 1, {}, "Replaced").turn = turns + 1
      OBVIOUS
    <3> QED BY <3>1, <3>2, NewTurn
  <2> QED BY <2>1, <2>2
<1>2. ASSUME NEW u \in Users, Steer(u) PROVE FreshOK'
  <2>1. \A w \in Turns : pc'[w] = "none" <=> pc[w] = "none"
    BY <1>2 DEF Steer
  <2>2. \A b \in Actors : proc'[b].turn \in {proc[b].turn, None}
    BY <1>2 DEF Steer
  <2>3. UNCHANGED turns
    BY <1>2 DEF Steer
  <2> QED BY <2>1, <2>2, <2>3, OldTurn
<1>3. ASSUME NEW m \in Mails, InterAgentCommunication(m) PROVE FreshOK'
  <2>1. \A u \in Turns : pc'[u] = "none" <=> pc[u] = "none"
    BY <1>3 DEF InterAgentCommunication
  <2>2. \A b \in Actors : proc'[b].turn \in {proc[b].turn, None}
    BY <1>3 DEF InterAgentCommunication
  <2>3. UNCHANGED turns
    BY <1>3 DEF InterAgentCommunication
  <2> QED BY <2>1, <2>2, <2>3, OldTurn
<1>4. ASSUME NEW j \in Injections, Inject(j) PROVE FreshOK'
  <2>1. \A u \in Turns : pc'[u] = "none" <=> pc[u] = "none"
    BY <1>4 DEF Inject
  <2>2. \A b \in Actors : proc'[b].turn \in {proc[b].turn, None}
    BY <1>4 DEF Inject
  <2>3. UNCHANGED turns
    BY <1>4 DEF Inject
  <2> QED BY <2>1, <2>2, <2>3, OldTurn
<1>5. ASSUME NEW j \in Injections, ApproveDenied(j) PROVE FreshOK'
  <2>1. \A u \in Turns : pc'[u] = "none" <=> pc[u] = "none"
    BY <1>5, ApproveForm
  <2>2. \A b \in Actors : proc'[b].turn \in {proc[b].turn, None}
    BY <1>5, ApproveForm
  <2>3. UNCHANGED turns
    BY <1>5, ApproveForm
  <2> QED BY <2>1, <2>2, <2>3, OldTurn
<1>6. ASSUME NEW t \in Turns, GuardianTrips(t) PROVE FreshOK'
  <2>1. \A u \in Turns : pc'[u] = "none" <=> pc[u] = "none"
    BY <1>6 DEF GuardianTrips
  <2>2. \A b \in Actors : proc'[b].turn \in {proc[b].turn, None}
    BY <1>6 DEF GuardianTrips
  <2>3. UNCHANGED turns
    BY <1>6 DEF GuardianTrips
  <2> QED BY <2>1, <2>2, <2>3, OldTurn
<1>7. ASSUME Compact PROVE FreshOK'
  <2>1. /\ turns < MaxTurns /\ turns' = turns + 1 /\ UNCHANGED pc
        /\ proc' = [proc EXCEPT ![Sub] = AbortCall(turns + 1, {}, "Replaced")]
    BY <1>7 DEF Compact
  <2>2. AbortCall(turns + 1, {}, "Replaced").turn = turns + 1
    OBVIOUS
  <2> QED BY <2>1, <2>2, NewTurn
<1>8. ASSUME Interrupt PROVE FreshOK'
  <2>1. \A u \in Turns : pc'[u] = "none" <=> pc[u] = "none"
    BY <1>8 DEF Interrupt
  <2>2. \A b \in Actors : proc'[b].turn \in {proc[b].turn, None}
    BY <1>8 DEF Interrupt
  <2>3. UNCHANGED turns
    BY <1>8 DEF Interrupt
  <2> QED BY <2>1, <2>2, <2>3, OldTurn
<1>9. ASSUME QueueForNextTurn PROVE FreshOK'
  <2>1. \A u \in Turns : pc'[u] = "none" <=> pc[u] = "none"
    BY <1>9 DEF QueueForNextTurn
  <2>2. \A b \in Actors : proc'[b].turn \in {proc[b].turn, None}
    BY <1>9 DEF QueueForNextTurn
  <2>3. UNCHANGED turns
    BY <1>9 DEF QueueForNextTurn
  <2> QED BY <2>1, <2>2, <2>3, OldTurn
<1>10. ASSUME NEW a \in Actors, TakeActive(a) PROVE FreshOK'
  <2>1. \A u \in Turns : pc'[u] = "none" <=> pc[u] = "none"
    BY <1>10, TakeActiveForm
  <2>2. \A b \in Actors : proc'[b].turn \in {proc[b].turn, None}
    BY <1>10, TakeActiveForm
  <2>3. UNCHANGED turns
    BY <1>10, TakeActiveForm
  <2> QED BY <2>1, <2>2, <2>3, OldTurn
<1>11. ASSUME NEW a \in Actors, CancelNext(a) PROVE FreshOK'
  <2>1. \A u \in Turns : pc'[u] = "none" <=> pc[u] = "none"
    BY <1>11, GotoIs DEF CancelNext
  <2>2. \A b \in Actors : proc'[b].turn \in {proc[b].turn, None}
    BY <1>11, GotoIs DEF CancelNext
  <2>3. UNCHANGED turns
    BY <1>11, GotoIs DEF CancelNext
  <2> QED BY <2>1, <2>2, <2>3, OldTurn
<1>12. ASSUME NEW a \in Actors, AbortTask(a) PROVE FreshOK'
  <2>1. \A u \in Turns : pc'[u] = "none" <=> pc[u] = "none"
    BY <1>12, AbortTaskForm DEF AbortTask
  <2>2. \A b \in Actors : proc'[b].turn \in {proc[b].turn, None}
    BY <1>12, AbortTaskForm DEF AbortTask
  <2>3. UNCHANGED turns
    BY <1>12, AbortTaskForm DEF AbortTask
  <2> QED BY <2>1, <2>2, <2>3, OldTurn
<1>13. ASSUME NEW a \in Actors, ClearPending(a) PROVE FreshOK'
  <2>1. \A u \in Turns : pc'[u] = "none" <=> pc[u] = "none"
    BY <1>13, ClearForm
  <2>2. \A b \in Actors : proc'[b].turn \in {proc[b].turn, None}
    BY <1>13, ClearForm
  <2>3. UNCHANGED turns
    BY <1>13, ClearForm
  <2> QED BY <2>1, <2>2, <2>3, OldTurn
<1>14. ASSUME NEW a \in Actors, CheckPendingWork(a) PROVE FreshOK'
  <2>1. a \in Turns => pc[a] = "tail"
    BY <1>14 DEF CheckPendingWork
  <2>2. \A t \in Turns : pc'[t] = "none" <=> pc[t] = "none"
    BY <1>14, <2>1, CheckWorkForm
  <2>3. \A b \in Actors : proc'[b].turn \in {proc[b].turn, None}
    BY <1>14, CheckWorkForm
  <2>4. UNCHANGED turns
    BY <1>14 DEF CheckPendingWork
  <2> QED BY <2>2, <2>3, <2>4, OldTurn
<1>15. ASSUME NEW a \in Actors, Reserve(a) PROVE FreshOK'
  <2>1. CASE active # None
    <3>1. Return(a) /\ UNCHANGED turns
      BY <1>15, <2>1 DEF Reserve
    <3>2. a \in Turns => pc[a] = "tail"
      BY <1>15 DEF Reserve
    <3>3. \A t \in Turns : pc'[t] = "none" <=> pc[t] = "none"
      BY <3>1, <3>2
    <3>4. \A b \in Actors : proc'[b].turn \in {proc[b].turn, None}
      BY <3>1
    <3> QED BY <3>1, <3>3, <3>4, OldTurn
  <2>2. CASE active = None
    <3> DEFINE r == [pc |-> "queued", turn |-> turns + 1, ts |-> None, left |-> {}, reason |-> "none"]
    <3>1. /\ turns < MaxTurns /\ turns' = turns + 1 /\ UNCHANGED pc
          /\ proc' = [proc EXCEPT ![a] = r]
      BY <1>15, <2>2 DEF Reserve
    <3>2. r.turn = turns + 1
      OBVIOUS
    <3> HIDE DEF r
    <3> QED BY <3>1, <3>2, NewTurn
  <2> QED BY <2>1, <2>2
<1>16. ASSUME NEW a \in Actors, TakeQueued(a) PROVE FreshOK'
  <2>1. \A u \in Turns : pc'[u] = "none" <=> pc[u] = "none"
    BY <1>16, GotoIs DEF TakeQueued
  <2>2. \A b \in Actors : proc'[b].turn \in {proc[b].turn, None}
    BY <1>16, GotoIs DEF TakeQueued
  <2>3. UNCHANGED turns
    BY <1>16, GotoIs DEF TakeQueued
  <2> QED BY <2>1, <2>2, <2>3, OldTurn
<1>17. ASSUME NEW a \in Actors, TakePending(a) PROVE FreshOK'
  <2>1. \A u \in Turns : pc'[u] = "none" <=> pc[u] = "none"
    BY <1>17, GotoIs DEF TakePending
  <2>2. \A b \in Actors : proc'[b].turn \in {proc[b].turn, None}
    BY <1>17, GotoIs DEF TakePending
  <2>3. UNCHANGED turns
    BY <1>17, GotoIs DEF TakePending
  <2> QED BY <2>1, <2>2, <2>3, OldTurn
<1>18. ASSUME NEW a \in Actors, TakeMail(a) PROVE FreshOK'
  <2>1. \A u \in Turns : pc'[u] = "none" <=> pc[u] = "none"
    BY <1>18, GotoIs DEF TakeMail
  <2>2. \A b \in Actors : proc'[b].turn \in {proc[b].turn, None}
    BY <1>18, GotoIs DEF TakeMail
  <2>3. UNCHANGED turns
    BY <1>18, GotoIs DEF TakeMail
  <2> QED BY <2>1, <2>2, <2>3, OldTurn
<1>19. ASSUME NEW a \in Actors, FindSlot(a) PROVE FreshOK'
  <2>1. \A u \in Turns : pc'[u] = "none" <=> pc[u] = "none"
    BY <1>19, NextNames DEF FindSlot
  <2>2. \A b \in Actors : proc'[b].turn \in {proc[b].turn, None}
    BY <1>19, NextNames DEF FindSlot
  <2>3. UNCHANGED turns
    BY <1>19, NextNames DEF FindSlot
  <2> QED BY <2>1, <2>2, <2>3, OldTurn
<1>20. ASSUME NEW a \in Actors, PushCollected(a) PROVE FreshOK'
  <2>1. \A u \in Turns : pc'[u] = "none" <=> pc[u] = "none"
    BY <1>20, GotoIs DEF PushCollected
  <2>2. \A b \in Actors : proc'[b].turn \in {proc[b].turn, None}
    BY <1>20, GotoIs DEF PushCollected
  <2>3. UNCHANGED turns
    BY <1>20, GotoIs DEF PushCollected
  <2> QED BY <2>1, <2>2, <2>3, OldTurn
<1>21. ASSUME NEW a \in Actors, SpawnTask(a) PROVE FreshOK'
  <2> DEFINE t == proc[a].turn
  <2>1. t \in Turns /\ t <= turns
    BY <1>21, LocalTypes DEF SpawnTask, FreshOK
  <2>2. a \in Turns => pc[a] = "tail"
    BY <1>21 DEF SpawnTask
  <2>3. UNCHANGED turns /\ proc' = [proc EXCEPT ![a] = Resting]
    BY <1>21 DEF SpawnTask
  <2>4. \A u \in Turns \ {t} : pc'[u] = "none" <=> pc[u] = "none"
    BY <1>21, <2>2 DEF SpawnTask
  <2>5. \A b \in Actors : proc'[b].turn # None => b # a /\ proc'[b].turn = proc[b].turn /\ proc[b].turn # t
    BY <2>1, <2>3 DEF FreshOK
  <2> HIDE DEF t
  <2>6. \A u \in Turns : u > turns' => pc'[u] = "none"
    <3> SUFFICES ASSUME NEW u \in Turns, u > turns' PROVE pc'[u] = "none"
      OBVIOUS
    <3>1. u # t
      BY <2>1, <2>3, NextNames
    <3>2. pc[u] = "none"
      BY <2>3 DEF FreshOK
    <3> QED BY <2>4, <3>1, <3>2
  <2>7. \A b \in Actors : proc'[b].turn # None => proc'[b].turn <= turns' /\ pc'[proc'[b].turn] = "none"
    <3> SUFFICES ASSUME NEW b \in Actors, proc'[b].turn # None
                 PROVE  proc'[b].turn <= turns' /\ pc'[proc'[b].turn] = "none"
      OBVIOUS
    <3>1. proc'[b].turn = proc[b].turn /\ proc[b].turn \in Turns \ {t}
      BY <2>5, LocalTypes
    <3>2. proc[b].turn <= turns /\ pc[proc[b].turn] = "none"
      BY <3>1, Names DEF FreshOK
    <3>3. pc'[proc[b].turn] = "none"
      BY <2>4, <3>1, <3>2
    <3> QED BY <2>3, <3>1, <3>2, <3>3
  <2>8. \A b, c \in Actors : proc'[b].turn # None /\ proc'[b].turn = proc'[c].turn => b = c
    BY <2>5 DEF FreshOK
  <2> QED BY <2>6, <2>7, <2>8 DEF FreshOK
<1>22. ASSUME NEW t \in Turns, Run(t) PROVE FreshOK'
  <2>1. \A u \in Turns : pc'[u] = "none" <=> pc[u] = "none"
    BY <1>22, RunForm
  <2>2. \A b \in Actors : proc'[b].turn \in {proc[b].turn, None}
    BY <1>22, RunForm
  <2>3. UNCHANGED turns
    BY <1>22, RunForm
  <2> QED BY <2>1, <2>2, <2>3, OldTurn
<1>23. ASSUME NEW t \in Turns, RemoveTask(t) PROVE FreshOK'
  <2>1. \A u \in Turns : pc'[u] = "none" <=> pc[u] = "none"
    BY <1>23 DEF RemoveTask
  <2>2. \A b \in Actors : proc'[b].turn \in {proc[b].turn, None}
    BY <1>23 DEF RemoveTask
  <2>3. UNCHANGED turns
    BY <1>23 DEF RemoveTask
  <2> QED BY <2>1, <2>2, <2>3, OldTurn
<1>24. ASSUME NEW t \in Turns, TakeLeftOver(t) PROVE FreshOK'
  <2>1. \A u \in Turns : pc'[u] = "none" <=> pc[u] = "none"
    BY <1>24 DEF TakeLeftOver
  <2>2. \A b \in Actors : proc'[b].turn \in {proc[b].turn, None}
    BY <1>24 DEF TakeLeftOver
  <2>3. UNCHANGED turns
    BY <1>24 DEF TakeLeftOver
  <2> QED BY <2>1, <2>2, <2>3, OldTurn
<1>25. ASSUME NEW t \in Turns, RecordLeftOver(t) PROVE FreshOK'
  <2>1. \A u \in Turns : pc'[u] = "none" <=> pc[u] = "none"
    BY <1>25 DEF RecordLeftOver
  <2>2. \A b \in Actors : proc'[b].turn \in {proc[b].turn, None}
    BY <1>25 DEF RecordLeftOver
  <2>3. UNCHANGED turns
    BY <1>25 DEF RecordLeftOver
  <2> QED BY <2>1, <2>2, <2>3, OldTurn
<1>26. ASSUME NEW t \in Turns, Complete(t) PROVE FreshOK'
  <2>1. \A u \in Turns : pc'[u] = "none" <=> pc[u] = "none"
    BY <1>26 DEF Complete
  <2>2. \A b \in Actors : proc'[b].turn \in {proc[b].turn, None}
    BY <1>26 DEF Complete
  <2>3. UNCHANGED turns
    BY <1>26 DEF Complete
  <2> QED BY <2>1, <2>2, <2>3, OldTurn
<1>27. ASSUME NEW t \in Turns, Vacate(t) PROVE FreshOK'
  <2>1. \A u \in Turns : pc'[u] = "none" <=> pc[u] = "none"
    BY <1>27, VacateForm
  <2>2. \A b \in Actors : proc'[b].turn \in {proc[b].turn, None}
    BY <1>27, VacateForm
  <2>3. UNCHANGED turns
    BY <1>27, VacateForm
  <2> QED BY <2>1, <2>2, <2>3, OldTurn
<1>28. ASSUME NEW t \in Turns, TaskDies(t) PROVE FreshOK'
  <2>1. \A u \in Turns : pc'[u] = "none" <=> pc[u] = "none"
    BY <1>28 DEF TaskDies
  <2>2. \A b \in Actors : proc'[b].turn \in {proc[b].turn, None}
    BY <1>28 DEF TaskDies
  <2>3. UNCHANGED turns
    BY <1>28 DEF TaskDies
  <2> QED BY <2>1, <2>2, <2>3, OldTurn
<1>29. CASE UNCHANGED vars
  BY <1>29, OldTurn DEF vars
<1> HIDE DEF IInv, ControlOK, Starting, RunPcs, AbortCall, Locals, Step, Return,
        GetOrInsert, Resting
<1> QED BY <1>1, <1>2, <1>3, <1>4, <1>5, <1>6, <1>7, <1>8, <1>9, <1>10, <1>11,
           <1>12, <1>13, <1>14, <1>15, <1>16, <1>17, <1>18, <1>19, <1>20, <1>21,
           <1>22, <1>23, <1>24, <1>25, <1>26, <1>27, <1>28, <1>29
         DEF Next, Operation, Abort, Start, Finish

\* Only what was started is added to a turn or left to an abort.
LEMMA StartedStep ==
    ASSUME IInv, [Next]_vars
    PROVE  StartedOK'
<1> USE Names DEF IInv, StartedOK, FreshOK, ControlOK, Starting, RunPcs, AbortCall,
        Locals, Step, Return, GetOrInsert, Resting, slotVars, taskVars
<1>0. /\ proc \in [Actors -> Procs]
      /\ pc \in [Turns -> Pcs]
      /\ tasks \subseteq Turns
  BY BoundsAssumption DEF TypeOK
<1> USE <1>0
<1>1. ASSUME NEW u \in Users, UserInput(u) PROVE StartedOK'
  BY <1>1, UserInputForm, NextNames
<1>2. ASSUME NEW u \in Users, Steer(u) PROVE StartedOK'
  BY <1>2 DEF Steer
<1>3. ASSUME NEW m \in Mails, InterAgentCommunication(m) PROVE StartedOK'
  BY <1>3 DEF InterAgentCommunication
<1>4. ASSUME NEW j \in Injections, Inject(j) PROVE StartedOK'
  BY <1>4 DEF Inject
<1>5. ASSUME NEW j \in Injections, ApproveDenied(j) PROVE StartedOK'
  BY <1>5, ApproveForm
<1>6. ASSUME NEW t \in Turns, GuardianTrips(t) PROVE StartedOK'
  BY <1>6 DEF GuardianTrips
<1>7. ASSUME Compact PROVE StartedOK'
  BY <1>7, NextNames DEF Compact
<1>8. ASSUME Interrupt PROVE StartedOK'
  BY <1>8 DEF Interrupt
<1>9. ASSUME QueueForNextTurn PROVE StartedOK'
  BY <1>9 DEF QueueForNextTurn
<1>10. ASSUME NEW a \in Actors, TakeActive(a) PROVE StartedOK'
  BY <1>10, TakeActiveForm
<1>11. ASSUME NEW a \in Actors, CancelNext(a) PROVE StartedOK'
  BY <1>11, GotoIs DEF CancelNext
<1>12. ASSUME NEW a \in Actors, AbortTask(a) PROVE StartedOK'
  BY <1>12, AbortTaskForm DEF AbortTask
<1>13. ASSUME NEW a \in Actors, ClearPending(a) PROVE StartedOK'
  BY <1>13, ClearForm
<1>14. ASSUME NEW a \in Actors, CheckPendingWork(a) PROVE StartedOK'
  BY <1>14, CheckWorkForm DEF CheckPendingWork
<1>15. ASSUME NEW a \in Actors, Reserve(a) PROVE StartedOK'
  BY <1>15, NextNames DEF Reserve
<1>16. ASSUME NEW a \in Actors, TakeQueued(a) PROVE StartedOK'
  BY <1>16, GotoIs DEF TakeQueued
<1>17. ASSUME NEW a \in Actors, TakePending(a) PROVE StartedOK'
  BY <1>17, GotoIs DEF TakePending
<1>18. ASSUME NEW a \in Actors, TakeMail(a) PROVE StartedOK'
  BY <1>18, GotoIs DEF TakeMail
<1>19. ASSUME NEW a \in Actors, FindSlot(a) PROVE StartedOK'
  BY <1>19, NextNames DEF FindSlot
<1>20. ASSUME NEW a \in Actors, PushCollected(a) PROVE StartedOK'
  BY <1>20, GotoIs DEF PushCollected
<1>21. ASSUME NEW a \in Actors, SpawnTask(a) PROVE StartedOK'
  BY <1>21, LocalTypes, NextNames DEF SpawnTask
<1>22. ASSUME NEW t \in Turns, Run(t) PROVE StartedOK'
  BY <1>22, RunForm
<1>23. ASSUME NEW t \in Turns, RemoveTask(t) PROVE StartedOK'
  BY <1>23 DEF RemoveTask
<1>24. ASSUME NEW t \in Turns, TakeLeftOver(t) PROVE StartedOK'
  BY <1>24 DEF TakeLeftOver
<1>25. ASSUME NEW t \in Turns, RecordLeftOver(t) PROVE StartedOK'
  BY <1>25 DEF RecordLeftOver
<1>26. ASSUME NEW t \in Turns, Complete(t) PROVE StartedOK'
  BY <1>26 DEF Complete
<1>27. ASSUME NEW t \in Turns, Vacate(t) PROVE StartedOK'
  BY <1>27, VacateForm
<1>28. ASSUME NEW t \in Turns, TaskDies(t) PROVE StartedOK'
  BY <1>28 DEF TaskDies
<1>29. CASE UNCHANGED vars
  BY <1>29 DEF vars
<1> HIDE DEF IInv, StartedOK, FreshOK, ControlOK, Starting, RunPcs, AbortCall,
        Locals, Step, Return, GetOrInsert, Resting
<1> QED BY <1>1, <1>2, <1>3, <1>4, <1>5, <1>6, <1>7, <1>8, <1>9, <1>10, <1>11,
           <1>12, <1>13, <1>14, <1>15, <1>16, <1>17, <1>18, <1>19, <1>20, <1>21,
           <1>22, <1>23, <1>24, <1>25, <1>26, <1>27, <1>28, <1>29
         DEF Next, Operation, Abort, Start, Finish

\* An abort and the end of the last task never share it.
LEMMA TakenStep ==
    ASSUME IInv, [Next]_vars
    PROVE  TakenOK'
<1> USE Names DEF IInv, ControlOK, FreshOK, StartedOK, TakenOK, Leaving, Starting,
        RunPcs, Aborting, LastTask, AbortCall, Locals, Step, Return, GetOrInsert,
        Resting, slotVars, taskVars
<1>0. /\ proc \in [Actors -> Procs]
      /\ pc \in [Turns -> Pcs]
      /\ tasks \subseteq Turns
      /\ finState \in [Turns -> States \cup {None}]
  BY BoundsAssumption DEF TypeOK
<1> USE <1>0
<1>1. ASSUME NEW u \in Users, UserInput(u) PROVE TakenOK'
  BY <1>1, UserInputForm, NextNames
<1>2. ASSUME NEW u \in Users, Steer(u) PROVE TakenOK'
  BY <1>2 DEF Steer
<1>3. ASSUME NEW m \in Mails, InterAgentCommunication(m) PROVE TakenOK'
  BY <1>3 DEF InterAgentCommunication
<1>4. ASSUME NEW j \in Injections, Inject(j) PROVE TakenOK'
  BY <1>4 DEF Inject
<1>5. ASSUME NEW j \in Injections, ApproveDenied(j) PROVE TakenOK'
  BY <1>5, ApproveForm
<1>6. ASSUME NEW t \in Turns, GuardianTrips(t) PROVE TakenOK'
  BY <1>6 DEF GuardianTrips
<1>7. ASSUME Compact PROVE TakenOK'
  BY <1>7, NextNames DEF Compact
<1>8. ASSUME Interrupt PROVE TakenOK'
  BY <1>8 DEF Interrupt
<1>9. ASSUME QueueForNextTurn PROVE TakenOK'
  BY <1>9 DEF QueueForNextTurn
<1>10. ASSUME NEW a \in Actors, TakeActive(a) PROVE TakenOK'
  BY <1>10, TakeActiveForm
<1>11. ASSUME NEW a \in Actors, CancelNext(a) PROVE TakenOK'
  BY <1>11, GotoIs DEF CancelNext
<1>12. ASSUME NEW a \in Actors, AbortTask(a) PROVE TakenOK'
  BY <1>12, AbortTaskForm DEF AbortTask
<1>13. ASSUME NEW a \in Actors, ClearPending(a) PROVE TakenOK'
  BY <1>13, ClearForm
<1>14. ASSUME NEW a \in Actors, CheckPendingWork(a) PROVE TakenOK'
  BY <1>14, CheckWorkForm DEF CheckPendingWork
<1>15. ASSUME NEW a \in Actors, Reserve(a) PROVE TakenOK'
  <2>1. CASE active # None
    BY <1>15, <2>1 DEF Reserve
  <2>2. CASE active = None
    BY <1>15, <2>2 DEF Reserve
  <2> QED BY <2>1, <2>2
<1>16. ASSUME NEW a \in Actors, TakeQueued(a) PROVE TakenOK'
  BY <1>16, GotoIs DEF TakeQueued
<1>17. ASSUME NEW a \in Actors, TakePending(a) PROVE TakenOK'
  BY <1>17, GotoIs DEF TakePending
<1>18. ASSUME NEW a \in Actors, TakeMail(a) PROVE TakenOK'
  BY <1>18, GotoIs DEF TakeMail
<1>19. ASSUME NEW a \in Actors, FindSlot(a) PROVE TakenOK'
  BY <1>19, NextNames DEF FindSlot
<1>20. ASSUME NEW a \in Actors, PushCollected(a) PROVE TakenOK'
  BY <1>20, GotoIs DEF PushCollected
<1>21. ASSUME NEW a \in Actors, SpawnTask(a) PROVE TakenOK'
  BY <1>21, LocalTypes, NextNames DEF SpawnTask
<1>22. ASSUME NEW t \in Turns, Run(t) PROVE TakenOK'
  BY <1>22, RunForm
<1>23. ASSUME NEW t \in Turns, RemoveTask(t) PROVE TakenOK'
  BY <1>23 DEF RemoveTask
<1>24. ASSUME NEW t \in Turns, TakeLeftOver(t) PROVE TakenOK'
  BY <1>24 DEF TakeLeftOver
<1>25. ASSUME NEW t \in Turns, RecordLeftOver(t) PROVE TakenOK'
  BY <1>25 DEF RecordLeftOver
<1>26. ASSUME NEW t \in Turns, Complete(t) PROVE TakenOK'
  BY <1>26 DEF Complete
<1>27. ASSUME NEW t \in Turns, Vacate(t) PROVE TakenOK'
  BY <1>27, VacateForm
<1>28. ASSUME NEW t \in Turns, TaskDies(t) PROVE TakenOK'
  BY <1>28 DEF TaskDies
<1>29. CASE UNCHANGED vars
  BY <1>29 DEF vars
<1> HIDE DEF IInv, ControlOK, FreshOK, StartedOK, TakenOK, Leaving, Starting,
        RunPcs, Aborting, LastTask, AbortCall, Locals, Step, Return, GetOrInsert,
        Resting
<1> QED BY <1>1, <1>2, <1>3, <1>4, <1>5, <1>6, <1>7, <1>8, <1>9, <1>10, <1>11,
           <1>12, <1>13, <1>14, <1>15, <1>16, <1>17, <1>18, <1>19, <1>20, <1>21,
           <1>22, <1>23, <1>24, <1>25, <1>26, <1>27, <1>28, <1>29
         DEF Next, Operation, Abort, Start, Finish

\* Steered input stays with a turn that has tasks, or with who took it over.
LEMMA SteeredStep ==
    ASSUME IInv, [Next]_vars
    PROVE  SteeredOK'
<1> USE Names DEF IInv, ControlOK, TakenOK, Leaving, SteeredOK, RunPcs, Aborting,
        LastTask, Move, At, Somewhere, Steerable, SteerInto, PendingOr, PendingIn,
        LeftOver, ItemsAt, Items, AbortCall, Locals, Step, Return, GetOrInsert,
        Resting, slotVars, taskVars
<1>0. /\ proc \in [Actors -> Procs]
      /\ pc \in [Turns -> Pcs]
      /\ active \in States \cup {None}
      /\ place \in [Items -> Places]
      /\ finState \in [Turns -> States \cup {None}]
      /\ tasks \subseteq Turns
  BY BoundsAssumption DEF TypeOK
<1> USE <1>0
<1>1. ASSUME NEW u \in Users, UserInput(u) PROVE SteeredOK'
  BY <1>1, UserInputForm, NextNames DEF UserInput
<1>2. ASSUME NEW u \in Users, Steer(u) PROVE SteeredOK'
  BY <1>2 DEF Steer
<1>3. ASSUME NEW m \in Mails, InterAgentCommunication(m) PROVE SteeredOK'
  BY <1>3 DEF InterAgentCommunication
<1>4. ASSUME NEW j \in Injections, Inject(j) PROVE SteeredOK'
  <2>1. \A u \in Users : place'[u] = place[u]
    BY <1>4, KindsAssumption DEF Inject
  <2> QED BY <1>4, <2>1 DEF Inject
<1>5. ASSUME NEW j \in Injections, ApproveDenied(j) PROVE SteeredOK'
  <2>1. \A u \in Users : place'[u] = place[u]
    BY <1>5, KindsAssumption DEF ApproveDenied
  <2> QED BY <1>5, <2>1, ApproveForm
<1>6. ASSUME NEW t \in Turns, GuardianTrips(t) PROVE SteeredOK'
  BY <1>6 DEF GuardianTrips
<1>7. ASSUME Compact PROVE SteeredOK'
  BY <1>7, NextNames DEF Compact
<1>8. ASSUME Interrupt PROVE SteeredOK'
  BY <1>8 DEF Interrupt
<1>9. ASSUME QueueForNextTurn PROVE SteeredOK'
  BY <1>9 DEF QueueForNextTurn
<1>10. ASSUME NEW a \in Actors, TakeActive(a) PROVE SteeredOK'
  BY <1>10, TakeActiveForm
<1>11. ASSUME NEW a \in Actors, CancelNext(a) PROVE SteeredOK'
  BY <1>11, GotoIs DEF CancelNext
<1>12. ASSUME NEW a \in Actors, AbortTask(a) PROVE SteeredOK'
  BY <1>12, AbortTaskForm DEF AbortTask
<1>13. ASSUME NEW a \in Actors, ClearPending(a) PROVE SteeredOK'
  <2>1. place' = Move(PendingIn(proc[a].ts), Somewhere("cleared"))
    BY <1>13, ClearForm
  <2>2. \A u \in Users : place'[u].at = "pending" => place'[u] = place[u] /\ place[u].of # proc[a].ts
    BY <2>1 DEF Places
  <2>3. /\ proc[a].pc = "clear" /\ UNCHANGED <<active, tasks, pc, finState>>
        /\ \/ proc' = [proc EXCEPT ![a] = Locals(a, "queued")]
           \/ proc' = [proc EXCEPT ![a] = Locals(a, "wake")]
    BY <1>13, ClearForm
  <2>4. \A b \in Actors \ {a} : proc'[b] = proc[b]
    BY <2>3
  <2> QED BY <2>2, <2>3, <2>4
<1>14. ASSUME NEW a \in Actors, CheckPendingWork(a) PROVE SteeredOK'
  BY <1>14, CheckWorkForm DEF CheckPendingWork
<1>15. ASSUME NEW a \in Actors, Reserve(a) PROVE SteeredOK'
  BY <1>15, NextNames DEF Reserve
<1>16. ASSUME NEW a \in Actors, TakeQueued(a) PROVE SteeredOK'
  BY <1>16, GotoIs DEF TakeQueued
<1>17. ASSUME NEW a \in Actors, TakePending(a) PROVE SteeredOK'
  BY <1>17, GotoIs DEF TakePending
<1>18. ASSUME NEW a \in Actors, TakeMail(a) PROVE SteeredOK'
  BY <1>18, GotoIs DEF TakeMail
<1>19. ASSUME NEW a \in Actors, FindSlot(a) PROVE SteeredOK'
  BY <1>19, NextNames DEF FindSlot
<1>20. ASSUME NEW a \in Actors, PushCollected(a) PROVE SteeredOK'
  BY <1>20, GotoIs DEF PushCollected
<1>21. ASSUME NEW a \in Actors, SpawnTask(a) PROVE SteeredOK'
  <2>1. \A u \in Users : place[u].at = "pending" => place[u].of # None
    BY DEF Places
  <2>2. proc' = [proc EXCEPT ![a] = Resting] /\ UNCHANGED <<place, finState>> /\ proc[a].pc = "spawn"
    BY <1>21 DEF SpawnTask
  <2>3. tasks' # {} /\ (active # None => active' = active)
    BY <1>21 DEF SpawnTask
  <2>4. proc[a].turn \in Turns /\ pc[proc[a].turn] = "none"
    <3>1. proc[a].turn \in Turns
      BY <2>2, LocalTypes DEF Starting
    <3> QED BY <3>1 DEF FreshOK
  <2>5. \A t \in Turns : pc[t] = "takePending" => pc'[t] = "takePending"
    BY <1>21, <2>4 DEF SpawnTask
  <2> QED BY <2>1, <2>2, <2>3, <2>5
<1>22. ASSUME NEW t \in Turns, Run(t) PROVE SteeredOK'
  BY <1>22, RunForm
<1>23. ASSUME NEW t \in Turns, RemoveTask(t) PROVE SteeredOK'
  BY <1>23 DEF RemoveTask
<1>24. ASSUME NEW t \in Turns, TakeLeftOver(t) PROVE SteeredOK'
  <2>1. \A u \in Users : place'[u].at = "pending" => place'[u] = place[u] /\ place[u].of # finState[t]
    BY <1>24 DEF TakeLeftOver, Places
  <2> QED BY <1>24, <2>1 DEF TakeLeftOver
<1>25. ASSUME NEW t \in Turns, RecordLeftOver(t) PROVE SteeredOK'
  <2>1. \A u \in Users : place'[u].at = "pending" => place'[u] = place[u]
    BY <1>25 DEF RecordLeftOver
  <2>2. UNCHANGED <<active, tasks, proc, finState>>
    BY <1>25 DEF RecordLeftOver
  <2>3. \A v \in Turns : pc[v] = "takePending" => pc'[v] = "takePending"
    BY <1>25 DEF RecordLeftOver
  <2> QED BY <2>1, <2>2, <2>3
<1>26. ASSUME NEW t \in Turns, Complete(t) PROVE SteeredOK'
  BY <1>26 DEF Complete
<1>27. ASSUME NEW t \in Turns, Vacate(t) PROVE SteeredOK'
  BY <1>27, VacateForm
<1>28. ASSUME NEW t \in Turns, TaskDies(t) PROVE SteeredOK'
  BY <1>28 DEF TaskDies
<1>29. CASE UNCHANGED vars
  BY <1>29 DEF vars
<1> HIDE DEF IInv, ControlOK, TakenOK, Leaving, SteeredOK, RunPcs, Aborting,
        LastTask, Move, At, Somewhere, Steerable, SteerInto, PendingOr, PendingIn,
        LeftOver, ItemsAt, Items, AbortCall, Locals, Step, Return, GetOrInsert,
        Resting
<1> QED BY <1>1, <1>2, <1>3, <1>4, <1>5, <1>6, <1>7, <1>8, <1>9, <1>10, <1>11,
           <1>12, <1>13, <1>14, <1>15, <1>16, <1>17, <1>18, <1>19, <1>20, <1>21,
           <1>22, <1>23, <1>24, <1>25, <1>26, <1>27, <1>28, <1>29
         DEF Next, Operation, Abort, Start, Finish

\* A running task is never dropped from the turn unless an abort took it.
LEMMA RunningStep ==
    ASSUME IInv, [Next]_vars
    PROVE  RunningIsReachable'
<1> USE Names DEF IInv, ControlOK, RunningIsReachable, Running, Aborting, RunPcs,
        AbortCall, Locals, Step, Return, GetOrInsert, Resting, slotVars, taskVars
<1>0. /\ proc \in [Actors -> Procs]
      /\ pc \in [Turns -> Pcs]
      /\ tasks \subseteq Turns
  BY BoundsAssumption DEF TypeOK
<1> USE <1>0
<1>1. ASSUME NEW u \in Users, UserInput(u) PROVE RunningIsReachable'
  BY <1>1, UserInputForm, NextNames
<1>2. ASSUME NEW u \in Users, Steer(u) PROVE RunningIsReachable'
  BY <1>2 DEF Steer
<1>3. ASSUME NEW m \in Mails, InterAgentCommunication(m) PROVE RunningIsReachable'
  BY <1>3 DEF InterAgentCommunication
<1>4. ASSUME NEW j \in Injections, Inject(j) PROVE RunningIsReachable'
  BY <1>4 DEF Inject
<1>5. ASSUME NEW j \in Injections, ApproveDenied(j) PROVE RunningIsReachable'
  BY <1>5, ApproveForm
<1>6. ASSUME NEW t \in Turns, GuardianTrips(t) PROVE RunningIsReachable'
  BY <1>6 DEF GuardianTrips
<1>7. ASSUME Compact PROVE RunningIsReachable'
  BY <1>7, NextNames DEF Compact
<1>8. ASSUME Interrupt PROVE RunningIsReachable'
  BY <1>8 DEF Interrupt
<1>9. ASSUME QueueForNextTurn PROVE RunningIsReachable'
  BY <1>9 DEF QueueForNextTurn
<1>10. ASSUME NEW a \in Actors, TakeActive(a) PROVE RunningIsReachable'
  BY <1>10, TakeActiveForm
<1>11. ASSUME NEW a \in Actors, CancelNext(a) PROVE RunningIsReachable'
  BY <1>11, GotoIs DEF CancelNext
<1>12. ASSUME NEW a \in Actors, AbortTask(a) PROVE RunningIsReachable'
  BY <1>12, AbortTaskForm DEF AbortTask
<1>13. ASSUME NEW a \in Actors, ClearPending(a) PROVE RunningIsReachable'
  BY <1>13, ClearForm
<1>14. ASSUME NEW a \in Actors, CheckPendingWork(a) PROVE RunningIsReachable'
  BY <1>14, CheckWorkForm DEF CheckPendingWork
<1>15. ASSUME NEW a \in Actors, Reserve(a) PROVE RunningIsReachable'
  BY <1>15, NextNames DEF Reserve
<1>16. ASSUME NEW a \in Actors, TakeQueued(a) PROVE RunningIsReachable'
  BY <1>16, GotoIs DEF TakeQueued
<1>17. ASSUME NEW a \in Actors, TakePending(a) PROVE RunningIsReachable'
  BY <1>17, GotoIs DEF TakePending
<1>18. ASSUME NEW a \in Actors, TakeMail(a) PROVE RunningIsReachable'
  BY <1>18, GotoIs DEF TakeMail
<1>19. ASSUME NEW a \in Actors, FindSlot(a) PROVE RunningIsReachable'
  BY <1>19, NextNames DEF FindSlot
<1>20. ASSUME NEW a \in Actors, PushCollected(a) PROVE RunningIsReachable'
  BY <1>20, GotoIs DEF PushCollected
<1>21. ASSUME NEW a \in Actors, SpawnTask(a) PROVE RunningIsReachable'
  BY <1>21, LocalTypes, NextNames DEF SpawnTask
<1>22. ASSUME NEW t \in Turns, Run(t) PROVE RunningIsReachable'
  BY <1>22, RunForm
<1>23. ASSUME NEW t \in Turns, RemoveTask(t) PROVE RunningIsReachable'
  BY <1>23 DEF RemoveTask
<1>24. ASSUME NEW t \in Turns, TakeLeftOver(t) PROVE RunningIsReachable'
  BY <1>24 DEF TakeLeftOver
<1>25. ASSUME NEW t \in Turns, RecordLeftOver(t) PROVE RunningIsReachable'
  BY <1>25 DEF RecordLeftOver
<1>26. ASSUME NEW t \in Turns, Complete(t) PROVE RunningIsReachable'
  BY <1>26 DEF Complete
<1>27. ASSUME NEW t \in Turns, Vacate(t) PROVE RunningIsReachable'
  BY <1>27, VacateForm
<1>28. ASSUME NEW t \in Turns, TaskDies(t) PROVE RunningIsReachable'
  BY <1>28 DEF TaskDies
<1>29. CASE UNCHANGED vars
  BY <1>29 DEF vars
<1> HIDE DEF IInv, ControlOK, RunningIsReachable, Running, Aborting, RunPcs,
        AbortCall, Locals, Step, Return, GetOrInsert, Resting
<1> QED BY <1>1, <1>2, <1>3, <1>4, <1>5, <1>6, <1>7, <1>8, <1>9, <1>10, <1>11,
           <1>12, <1>13, <1>14, <1>15, <1>16, <1>17, <1>18, <1>19, <1>20, <1>21,
           <1>22, <1>23, <1>24, <1>25, <1>26, <1>27, <1>28, <1>29
         DEF Next, Operation, Abort, Start, Finish

-----------------------------------------------------------------------------
(* The theorems. *)

\* The idle session satisfies the invariant.
LEMMA InitInv ==
    ASSUME Init
    PROVE  IInv
<1> USE Names
<1>1. \A a \in Actors : proc[a] = Resting
  BY DEF Init
<1>2. \A t \in Turns : pc[t] = "none"
  BY DEF Init
<1>3. \A i \in Items : place[i].at = "unsent"
  BY DEF Init, Somewhere, At
<1>4. TypeOK
  <2>1. proc \in [Actors -> Procs]
    BY CallType DEF Init
  <2>2. place \in [Items -> Places]
    BY DEF Init, Places, Somewhere, At
  <2>3. budget \in [interrupts : 0..MaxInterrupts, compacts : 0..MaxCompacts, reviews : 0..MaxReviews]
    BY BoundsAssumption DEF Init
  <2>4. pc \in [Turns -> Pcs] /\ finState \in [Turns -> States \cup {None}]
    BY DEF Init, Pcs
  <2>5. states \in Nat /\ turns \in 0..MaxTurns
    BY BoundsAssumption DEF Init
  <2> QED BY <2>1, <2>2, <2>3, <2>4, <2>5 DEF Init, TypeOK
<1>5. ControlOK
  BY <1>1 DEF Init, ControlOK, Resting, Starting
<1>6. FreshOK /\ StartedOK
  BY <1>1, <1>2 DEF Init, FreshOK, StartedOK, Resting
<1>7. TakenOK /\ RunningIsReachable
  BY <1>2 DEF Init, TakenOK, Leaving, RunningIsReachable, Running
<1>8. SteeredOK
  BY <1>3 DEF SteeredOK, Items
<1> QED BY <1>4, <1>5, <1>6, <1>7, <1>8 DEF IInv

\* The inductive invariant holds in every reachable state.
THEOREM Invariance == Spec => []IInv
<1>1. IInv /\ [Next]_vars => IInv'
  <2> SUFFICES ASSUME IInv, [Next]_vars PROVE IInv'
    OBVIOUS
  <2>1. TypeOK' /\ ControlOK' /\ FreshOK' /\ StartedOK'
    BY TypeStep, ControlStep, FreshStep, StartedStep
  <2>2. TakenOK' /\ SteeredOK' /\ RunningIsReachable'
    BY TakenStep, SteeredStep, RunningStep
  <2> QED BY <2>1, <2>2 DEF IInv
<1> QED BY <1>1, InitInv, PTL DEF Spec

\* The variables stay in the sets they range over.
THEOREM TypeCorrect == Spec => []TypeOK
<1>1. IInv => TypeOK
  BY DEF IInv
<1> QED BY <1>1, Invariance, PTL

\* A task that runs and was not cancelled is in the active turn or with the
\* abort that took it from there: an interrupt always reaches it.
THEOREM TasksAreReachable == Spec => []RunningIsReachable
<1>1. IInv => RunningIsReachable
  BY DEF IInv
<1> QED BY <1>1, Invariance, PTL

\* Input that steer_input accepted is in the active turn, or someone who took
\* that turn or its end over will still look at it.
THEOREM SteeredInputKept == Spec => []SteeredInputIsHeld
<1>1. IInv => SteeredInputIsHeld
  BY DEF IInv, SteeredOK, SteeredInputIsHeld, Held
<1> QED BY <1>1, Invariance, PTL

=============================================================================
