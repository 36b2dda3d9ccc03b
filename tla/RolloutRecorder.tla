--------------------------- MODULE RolloutRecorder ---------------------------
(***************************************************************************)
(* The recorder of a thread's rollout (rollout/src/recorder.rs, used       *)
(* through thread-store/src/local/live_writer.rs).  Clients send commands  *)
(* over a bounded channel to one writer task, which owns the file.  Items  *)
(* are buffered until the rollout is materialized, then appended as lines  *)
(* of JSON; a failed attempt drops the file handle and is retried once at  *)
(* once and again by every later command.  A write that fails, or a crash, *)
(* can leave the beginning of a line in the file.                          *)
(*                                                                         *)
(* Items are the numbers 1, 2, ... in the order the channel accepts them;  *)
(* the line with the session metadata is the number 0.                     *)
(***************************************************************************)
EXTENDS Naturals, Sequences, FiniteSets, FiniteSetsExt

CONSTANTS
    Clients,       \* callers of the thread store
    None,          \* no client
    QueueLimit,    \* the capacity of the channel, 256 in the code
    MaxItems,      \* how many items are recorded (a bound of the model)
    MaxFailures,   \* how many file operations fail (a bound of the model)
    MaxResumes     \* how often the thread is resumed (a bound of the model)

ASSUME NoneIsOutside == None \notin Clients
ASSUME BoundsAreNaturals ==
    QueueLimit \in Nat \ {0} /\ MaxItems \in Nat /\ MaxFailures \in Nat /\ MaxResumes \in Nat

VARIABLES
    client,      \* what each caller does: "idle", about to flush, or waiting for its ack
    queue,       \* the commands in the channel
    task,        \* the writer task: "running" or "ended"
    job,         \* the command the task works on, where it is and in which attempt
    pending,     \* RolloutWriterState.pending_items
    meta,        \* RolloutWriterState.meta is still to be written
    deferred,    \* RolloutWriterState.deferred_log_file_info is present
    open,        \* RolloutWriterState.writer is present
    exists,      \* there is a rollout file
    file,        \* its contents: what was written, whole or cut short
    count,       \* history: how many items were accepted
    confirmed,   \* history: how many written items a barrier confirmed
    failures, resumes  \* how often each happened

writerVars == <<task, job, pending, meta, deferred, open>>
fileVars   == <<exists, file>>
boundVars  == <<failures, resumes>>
vars == <<client, queue, writerVars, fileVars, count, confirmed, boundVars>>

Meta == 0
Barriers == {"flush", "persist", "shutdown"}

(* "whole" ends with its newline, "bare" lacks only that, "torn" is a part of *)
(* the JSON text.                                                              *)
Parts == {"whole", "bare", "torn"}
Command == [op : {"add"} \cup Barriers, by : Clients \cup {None}, item : 0 .. MaxItems, upto : 0 .. MaxItems]
NoJob == [at |-> "idle", op |-> "none", by |-> None, upto |-> 0, attempt |-> 0]

\* The sets the variables range over.
TypeOK ==
    /\ client \in [Clients -> {"idle", "flushing", "waiting"}]
    /\ queue \in Seq(Command) /\ Len(queue) <= QueueLimit
    /\ task \in {"running", "ended"}
    /\ job \in [at : {"idle", "open", "meta", "items"}, op : {"none", "add"} \cup Barriers,
                by : Clients \cup {None}, upto : 0 .. MaxItems, attempt : 0 .. 2]
    /\ pending \in Seq(1 .. MaxItems)
    /\ meta \in BOOLEAN /\ deferred \in BOOLEAN /\ open \in BOOLEAN /\ exists \in BOOLEAN
    /\ file \in Seq([item : 0 .. MaxItems, part : Parts])
    /\ file # <<>> => exists
    /\ count \in 0 .. MaxItems
    /\ confirmed \in 0 .. MaxItems
    /\ failures \in 0 .. MaxFailures /\ resumes \in 0 .. MaxResumes

(* RolloutRecorder::new for a new thread: the file is not created yet. *)
Init ==
    /\ client = [c \in Clients |-> "idle"]
    /\ queue = <<>>
    /\ task = "running"
    /\ job = NoJob
    /\ pending = <<>>
    /\ meta = TRUE /\ deferred = TRUE
    /\ open = FALSE /\ exists = FALSE
    /\ file = <<>>
    /\ count = 0 /\ confirmed = 0
    /\ failures = 0 /\ resumes = 0

-----------------------------------------------------------------------------
(* What the file holds, as load_rollout_items reads it: a line that follows   *)
(* one without newline is joined to it, and does not parse.                    *)
Loads(n) ==
    /\ file[n].part # "torn"
    /\ n > 1 => file[n - 1].part = "whole"
    /\ n < Len(file) => file[n].part = "whole"

Loaded == {n \in DOMAIN file : Loads(n)}

(* The items of those of the first n elements of s that are in S, for every n. *)
Picks(s, S) ==
    LET picked[n \in 0 .. Len(s)] ==
            IF n = 0 THEN <<>>
            ELSE IF s[n] \in S THEN Append(picked[n - 1], s[n].item) ELSE picked[n - 1]
    IN  picked

ItemLines == [item : 1 .. MaxItems, part : {"whole"}]
AddItems == [op : {"add"}, by : Clients \cup {None}, item : 1 .. MaxItems, upto : 0 .. MaxItems]

Written == Picks(file, ItemLines)[Len(file)]
Queued == Picks(queue, AddItems)[Len(queue)]
Accepted == Written \o pending \o Queued

IsDeferred == ~open /\ deferred

-----------------------------------------------------------------------------
(* The callers.  A send waits while the channel is full, and fails when the   *)
(* task has ended; append_items is a send of items and then a flush.           *)
CanSend == task = "running" /\ Len(queue) < QueueLimit

AppendItems(c) ==
    /\ client[c] = "idle"
    /\ CanSend /\ count < MaxItems
    /\ count' = count + 1
    /\ queue' = Append(queue, [op |-> "add", by |-> None, item |-> count', upto |-> 0])
    /\ client' = [client EXCEPT ![c] = "flushing"]
    /\ UNCHANGED <<writerVars, fileVars, confirmed, boundVars>>

Send(c, op) ==
    /\ CanSend
    /\ queue' = Append(queue, [op |-> op, by |-> c, item |-> 0, upto |-> Len(Accepted)])
    /\ client' = [client EXCEPT ![c] = "waiting"]
    /\ UNCHANGED <<writerVars, fileVars, count, confirmed, boundVars>>

AppendFlushes(c) == client[c] = "flushing" /\ Send(c, "flush")
Barrier(c, op) == client[c] = "idle" /\ Send(c, op)

-----------------------------------------------------------------------------
(* The writer task.  It answers the caller of a barrier; a shutdown that      *)
(* succeeded ends it, and whatever is still queued fails.                      *)
Answer(m, ok) ==
    IF ok /\ m.op = "shutdown"
       THEN /\ client' = [c \in Clients |-> "idle"]
            /\ confirmed' = Max({confirmed, m.upto})
            /\ task' = "ended"
       ELSE /\ client' = [c \in Clients |-> IF c = m.by THEN "idle" ELSE client[c]]
            /\ confirmed' = IF ok /\ m.op \in Barriers THEN Max({confirmed, m.upto}) ELSE confirmed
            /\ task' = task

Rest(ended, q) == IF ended THEN <<>> ELSE q

Starts(m) == [at |-> "open", op |-> m.op, by |-> m.by, upto |-> m.upto, attempt |-> 1]
Retries(m) == [at |-> "open", op |-> m.op, by |-> m.by, upto |-> m.upto, attempt |-> 2]

(* AddItems: buffer, and write at once if the rollout is materialized. *)
TakeItems ==
    /\ task = "running" /\ job = NoJob
    /\ queue # <<>> /\ Head(queue).op = "add"
    /\ pending' = Append(pending, Head(queue).item)
    /\ queue' = Tail(queue)
    /\ job' = IF IsDeferred THEN NoJob ELSE Starts(Head(queue))
    /\ UNCHANGED <<client, task, meta, deferred, open, fileVars, count, confirmed, boundVars>>

(* A flush or shutdown of a rollout without file and items does nothing. *)
NothingToDo(m) == m.op # "persist" /\ IsDeferred /\ pending = <<>>

TakeBarrier ==
    LET m == Head(queue)
    IN  /\ task = "running" /\ job = NoJob
        /\ queue # <<>> /\ m.op \in Barriers
        /\ IF NothingToDo(m)
              THEN Answer(m, TRUE) /\ job' = NoJob
              ELSE job' = Starts(m) /\ UNCHANGED <<client, confirmed, task>>
        /\ queue' = Rest(task' = "ended", Tail(queue))
        /\ UNCHANGED <<pending, meta, deferred, open, fileVars, count, boundVars>>

(* write_pending_with_recovery: a failed attempt drops the handle; after the  *)
(* second the command fails, and the items stay.                               *)
Fails ==
    /\ failures < MaxFailures
    /\ failures' = failures + 1
    /\ open' = FALSE
    /\ IF job.attempt = 1
          THEN job' = Retries(job) /\ UNCHANGED <<client, confirmed, task, queue>>
          ELSE job' = NoJob /\ Answer(job, FALSE) /\ queue' = Rest(task' = "ended", queue)

OpenFile ==
    /\ job.at = "open"
    /\ open' = TRUE /\ deferred' = FALSE /\ exists' = TRUE
    /\ job' = [job EXCEPT !.at = "meta"]
    /\ UNCHANGED <<client, queue, task, pending, meta, file, count, confirmed, boundVars>>

OpenFails ==
    /\ job.at = "open" /\ ~open
    /\ Fails
    /\ UNCHANGED <<pending, meta, deferred, fileVars, count, resumes>>

Line(x, part) == [item |-> x, part |-> part]

(* What a write of item x that did not complete leaves behind. *)
Leavings(x) == {file, Append(file, Line(x, "bare")), Append(file, Line(x, "torn"))}

WriteMeta ==
    /\ job.at = "meta"
    /\ job' = [job EXCEPT !.at = "items"]
    /\ meta' = FALSE
    /\ file' = IF meta THEN Append(file, Line(Meta, "whole")) ELSE file
    /\ UNCHANGED <<client, queue, task, pending, deferred, open, exists, count, confirmed, boundVars>>

MetaFails ==
    /\ job.at = "meta" /\ meta
    /\ file' \in Leavings(Meta)
    /\ Fails
    /\ UNCHANGED <<pending, meta, deferred, exists, count, resumes>>

WriteItem ==
    /\ job.at = "items" /\ pending # <<>>
    /\ file' = Append(file, Line(Head(pending), "whole"))
    /\ pending' = Tail(pending)
    /\ UNCHANGED <<client, queue, task, job, meta, deferred, open, exists, count, confirmed, boundVars>>

Mut_ItemFails ==
    /\ job.at = "items" /\ pending # <<>>
    /\ file' \in Leavings(Head(pending))
    /\ pending' = Tail(pending)
    /\ Fails
    /\ UNCHANGED <<meta, deferred, exists, count, resumes>>

Mut_ItemFailsLate ==
    /\ job.at = "items" /\ pending # <<>>
    /\ file' \in {file, Append(file, Line(Head(pending), "whole"))}
    /\ Fails
    /\ UNCHANGED <<pending, meta, deferred, exists, count, resumes>>

ItemFails ==
    /\ job.at = "items" /\ pending # <<>>
    /\ file' \in Leavings(Head(pending))
    /\ Fails
    /\ UNCHANGED <<pending, meta, deferred, exists, count, resumes>>

Mut_Done ==
    /\ job.at = "items" /\ pending = <<>>
    /\ job' = NoJob
    /\ IF job.op = "flush" /\ job.attempt = 2
          THEN UNCHANGED <<client, confirmed, task>>
          ELSE Answer(job, TRUE)
    /\ queue' = Rest(task' = "ended", queue)
    /\ UNCHANGED <<pending, meta, deferred, open, fileVars, count, boundVars>>

Done ==
    /\ job.at = "items" /\ pending = <<>>
    /\ job' = NoJob
    /\ Answer(job, TRUE)
    /\ queue' = Rest(task' = "ended", queue)
    /\ UNCHANGED <<pending, meta, deferred, open, fileVars, count, boundVars>>

WriterStep ==
    \/ TakeItems
    \/ TakeBarrier
    \/ OpenFile
    \/ OpenFails
    \/ WriteMeta
    \/ MetaFails
    \/ WriteItem
    \/ ItemFails
    \/ Done

-----------------------------------------------------------------------------
(* The process stops at any point, a write in progress included. *)
Crash ==
    /\ task = "running"
    /\ resumes < MaxResumes
    /\ task' = "ended"
    /\ \/ file' = file
       \/ job.at = "meta" /\ meta /\ file' \in Leavings(Meta)
       \/ job.at = "items" /\ pending # <<>> /\ file' \in Leavings(Head(pending))
    /\ client' = [c \in Clients |-> "idle"]
    /\ queue' = <<>> /\ pending' = <<>> /\ job' = NoJob
    /\ UNCHANGED <<meta, deferred, open, exists, count, confirmed, boundVars>>

(* The thread is resumed: its history loads, so there is a metadata line, and *)
(* the file is opened to append.                                               *)
Resume ==
    /\ task = "ended"
    /\ resumes < MaxResumes
    /\ exists /\ \E n \in Loaded : file[n].item = Meta
    /\ resumes' = resumes + 1
    /\ task' = "running"
    /\ open' = TRUE /\ deferred' = FALSE /\ meta' = FALSE
    /\ UNCHANGED <<client, queue, job, pending, fileVars, count, confirmed, failures>>

-----------------------------------------------------------------------------
Next ==
    \/ \E c \in Clients : AppendItems(c) \/ AppendFlushes(c)
    \/ \E c \in Clients, op \in Barriers : Barrier(c, op)
    \/ WriterStep
    \/ Crash
    \/ Resume

Spec == Init /\ [][Next]_vars

(* The runtime polls the writer task, and the callers once they have sent. *)
FairSpec == Spec /\ WF_vars(WriterStep) /\ \A c \in Clients : SF_vars(AppendFlushes(c))

-----------------------------------------------------------------------------
(* The recorder implements the log: failed attempts, retries, ends and        *)
(* crashes included, items reach the file in order, once, none skipped, and a  *)
(* barrier that succeeds confirms only what is there.                          *)
Log == INSTANCE RolloutLog WITH
    Items <- 1 .. MaxItems,
    running <- task = "running",
    accepted <- Accepted,
    written <- Written

LogSpec == Log!Spec

(* What a resume loads never has an item twice nor out of order, the metadata *)
(* first: a retried item is not repeated, although an attempt that failed may  *)
(* have written all of it but the newline.                                     *)
LoadedInOrder ==
    \A m, n \in Loaded : m < n => file[m].item < file[n].item

(* Every caller is answered, whatever fails: no ack is forgotten, and those    *)
(* queued behind a shutdown get an error.                                      *)
EveryCallReturns == \A c \in Clients : client[c] # "idle" ~> client[c] = "idle"

(* What a barrier confirmed is what a resume loads ("wait until they are      *)
(* committed").                                                                *)
ConfirmedIsLoaded ==
    \A k \in 1 .. confirmed : \E n \in Loaded : file[n].item = Written[k]

=============================================================================
