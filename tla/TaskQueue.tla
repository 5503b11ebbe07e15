------------------------------ MODULE TaskQueue ------------------------------
(***************************************************************************)
(* Delivery of ingestion tasks from the API server to the task executors:  *)
(*                                                                         *)
(*   - queue_tasks stores a row in MySQL and XADDs a message to the Redis  *)
(*     stream (RedisDB.queue_product, at most MaxXadd tries);              *)
(*   - the executors are consumers of one consumer group.  A message read  *)
(*     with ">" enters the group's pending list under the reader's name    *)
(*     and leaves it only by XACK (RedisDB.queue_consumer, RedisMsg.ack);  *)
(*   - a process that starts first walks its own pending messages once     *)
(*     (get_unacked_iterator) and reads new ones only after that;          *)
(*   - TaskService.get_task counts the attempts and gives a task up after  *)
(*     MaxAttempts of them; handle_task runs the task, records the result  *)
(*     and acknowledges the message last.                                  *)
(*                                                                         *)
(* Processes may crash at any point and are started again under the same   *)
(* consumer name.  A Redis or MySQL call may fail, and a failed XADD or    *)
(* XREADGROUP may have taken effect all the same (the reply was lost).     *)
(* Every caller passes priority 0, so the stream of priority 1 that the    *)
(* executors poll first is always empty and is left out.                   *)
(***************************************************************************)
EXTENDS TaskRow, Sequences, FiniteSets

CONSTANTS
    Tasks,        \* ids of task rows
    Consumers,    \* CONSUMER_NAMEs of the task executor processes
    Slots,        \* permits of task_limiter: the coroutines of one process
    MaxAttempts,  \* the 3 of TaskService.get_task
    MaxXadd,      \* the 3 of RedisDB.queue_product
    MaxMsgs,      \* bound: length of the stream
    MaxCrashes,   \* bound: process crashes
    MaxErrors,    \* bound: failing Redis or MySQL calls
    None          \* "no consumer", "no row"

ASSUME TaskQueueAssumption ==
    /\ MaxAttempts \in Nat \ {0}
    /\ MaxXadd \in Nat \ {0}
    /\ MaxMsgs \in Nat
    /\ MaxCrashes \in Nat
    /\ MaxErrors \in Nat
    /\ None \notin Consumers

VARIABLES
    row,      \* task table: progress and retry_count, or no row
    flag,     \* Redis key "<task id>-cancel": "no", "set" or "expired"
    xadd,     \* queue_tasks of a task: how far it is, failed tries of XADD
    stream,   \* the Redis stream: the task id of every message, never trimmed
    lastId,   \* last id the group has delivered
    owner,    \* the group's pending list: consumer a message is pending for
    up,       \* is the process running
    cursor,   \* UNACKED_ITERATOR: current_min and whether it is exhausted
    slot,     \* the coroutines: program counter, message, retry_count read
    starts,   \* history: how often the handler of a task was started
    silent,   \* history: tasks whose failure report was lost by set_progress
    crashes, errors

vars == <<row, flag, xadd, stream, lastId, owner, up, cursor, slot, starts,
          silent, crashes, errors>>

redis == <<stream, lastId, owner>>
procs == <<up, cursor, slot>>
budget == <<crashes, errors>>

MsgId == 1..MaxMsgs
NoRow == [prog |-> Bad, retry |-> -1]
Row == [prog : Progress, retry : Nat]
HasRow(t) == row[t] # NoRow

Idle == [pc |-> "idle", msg |-> 0, seen |-> 0]
Job == [pc : {"idle", "got", "selected", "run", "log", "ack"},
        msg : 0..MaxMsgs, seen : Nat]
At(pc, m, r) == [pc |-> pc, msg |-> m, seen |-> r]
Put(c, k, job) == slot' = [slot EXCEPT ![c][k] = job]
Busy(c, k) == slot[c][k].pc # "idle"

\* collect runs without an await, so one coroutine of a process is in it.
Collecting(c) == \E k \in Slots : slot[c][k].pc \in {"got", "selected"}

Init ==
    /\ row = [t \in Tasks |-> NoRow]
    /\ flag = [t \in Tasks |-> "no"]
    /\ xadd = [t \in Tasks |-> [st |-> "new", fails |-> 0]]
    /\ stream = <<>>
    /\ lastId = 0
    /\ owner = [m \in MsgId |-> None]
    /\ up = [c \in Consumers |-> TRUE]
    /\ cursor = [c \in Consumers |-> [min |-> 0, done |-> FALSE]]
    /\ slot = [c \in Consumers |-> [k \in Slots |-> Idle]]
    /\ starts = [t \in Tasks |-> 0]
    /\ silent = {}
    /\ crashes = 0
    /\ errors = 0

Fault == errors < MaxErrors /\ errors' = errors + 1
-----------------------------------------------------------------------------
(***************************************************************************)
(* The API server.                                                         *)
(***************************************************************************)

\* queue_tasks: the row is in the database before the message is sent.
InsertRow(t) ==
    /\ xadd[t].st = "new"
    /\ row' = [row EXCEPT ![t] = [prog |-> 0, retry |-> 0]]
    /\ xadd' = [xadd EXCEPT ![t] = [st |-> "sending", fails |-> 0]]
    /\ UNCHANGED <<flag, redis, procs, starts, silent, budget>>

\* One try of queue_product that returns.
Xadd(t) ==
    /\ xadd[t].st = "sending" /\ Len(stream) < MaxMsgs
    /\ stream' = Append(stream, t)
    /\ xadd' = [xadd EXCEPT ![t] = [st |-> "sent", fails |-> xadd[t].fails]]
    /\ UNCHANGED <<row, flag, lastId, owner, procs, starts, silent, budget>>

\* One try that raises, whether or not Redis stored the message.  After the
\* last one queue_product returns False and the assert of queue_tasks fails:
\* the row stays, with the messages of the tries that were stored.
XaddFails(t) ==
    /\ xadd[t].st = "sending" /\ Fault
    /\ LET fails == xadd[t].fails + 1 IN
       xadd' = [xadd EXCEPT ![t] =
                  [st |-> IF fails = MaxXadd THEN "refused" ELSE "sending",
                   fails |-> fails]]
    /\ \/ UNCHANGED stream
       \/ Len(stream) < MaxMsgs /\ stream' = Append(stream, t)
    /\ UNCHANGED <<row, flag, lastId, owner, procs, starts, silent, crashes>>

\* cancel_all_task_of sets the flag of every row of the document.
CancelTask(t) ==
    /\ HasRow(t) /\ flag[t] # "set"
    /\ flag' = [flag EXCEPT ![t] = "set"]
    /\ UNCHANGED <<row, xadd, redis, procs, starts, silent, budget>>

\* RedisDB.set gives the flag a life of 3600 seconds.
FlagExpires(t) ==
    /\ flag[t] = "set"
    /\ flag' = [flag EXCEPT ![t] = "expired"]
    /\ UNCHANGED <<row, xadd, redis, procs, starts, silent, budget>>

\* A new parse of the document deletes its rows; messages and running
\* executors are left alone.
DeleteRow(t) ==
    /\ HasRow(t)
    /\ row' = [row EXCEPT ![t] = NoRow]
    /\ UNCHANGED <<flag, xadd, redis, procs, starts, silent, budget>>
-----------------------------------------------------------------------------
(***************************************************************************)
(* collect: the next message of a free coroutine.                          *)
(***************************************************************************)
Free(c, k) == up[c] /\ ~Busy(c, k) /\ ~Collecting(c)

Mine(c) == {m \in MsgId : owner[m] = c /\ m > cursor[c].min}

\* Defective variant for SingleHandler: current_min is not moved.
NextPendingNoMin(c, k) ==
    /\ Free(c, k) /\ ~cursor[c].done
    /\ \E m \in Mine(c) : Put(c, k, At("got", m, 0))
    /\ UNCHANGED <<row, flag, xadd, redis, up, cursor, starts, silent, budget>>

\* UNACKED_ITERATOR yields the next own pending message after current_min.
NextPending(c, k) ==
    /\ Free(c, k) /\ ~cursor[c].done
    /\ \E m \in Mine(c) :
         /\ \A n \in Mine(c) : m <= n
         /\ cursor' = [cursor EXCEPT ![c] = [min |-> m, done |-> FALSE]]
         /\ Put(c, k, At("got", m, 0))
    /\ UNCHANGED <<row, flag, xadd, redis, up, starts, silent, budget>>

\* Defective variant for SentIsSettled: a walk that found nothing is not over.
PendingExhaustedAfterOne(c) ==
    /\ up[c] /\ ~Collecting(c) /\ ~cursor[c].done /\ Mine(c) = {} /\ cursor[c].min > 0
    /\ cursor' = [cursor EXCEPT ![c] = [min |-> cursor[c].min, done |-> TRUE]]
    /\ UNCHANGED <<row, flag, xadd, redis, up, slot, starts, silent, budget>>

\* It is exhausted; a generator that returned never yields again.
PendingExhausted(c) ==
    /\ up[c] /\ ~Collecting(c) /\ ~cursor[c].done /\ Mine(c) = {}
    /\ cursor' = [cursor EXCEPT ![c] = [min |-> cursor[c].min, done |-> TRUE]]
    /\ UNCHANGED <<row, flag, xadd, redis, up, slot, starts, silent, budget>>

\* queue_consumer returns None after three exceptions too, which ends the
\* iterator with messages left.
PendingCutShort(c) ==
    /\ up[c] /\ ~Collecting(c) /\ ~cursor[c].done /\ Fault
    /\ cursor' = [cursor EXCEPT ![c] = [min |-> cursor[c].min, done |-> TRUE]]
    /\ UNCHANGED <<row, flag, xadd, redis, up, slot, starts, silent, crashes>>

\* Defective variant for TypeOK: a read without new messages yields one.
ReadNewPastEnd(c, k) ==
    /\ Free(c, k) /\ cursor[c].done /\ lastId < MaxMsgs
    /\ lastId' = lastId + 1
    /\ owner' = [owner EXCEPT ![lastId + 1] = c]
    /\ Put(c, k, At("got", lastId + 1, 0))
    /\ UNCHANGED <<row, flag, xadd, stream, up, cursor, starts, silent, budget>>

\* XREADGROUP with ">".
ReadNew(c, k) ==
    /\ Free(c, k) /\ cursor[c].done /\ lastId < Len(stream)
    /\ lastId' = lastId + 1
    /\ owner' = [owner EXCEPT ![lastId + 1] = c]
    /\ Put(c, k, At("got", lastId + 1, 0))
    /\ UNCHANGED <<row, flag, xadd, stream, up, cursor, starts, silent, budget>>

\* The same read, its reply lost: the retry of queue_consumer asks for ">"
\* again and never sees this message.
ReadLost(c) ==
    /\ up[c] /\ ~Collecting(c) /\ cursor[c].done /\ lastId < Len(stream)
    /\ Fault
    /\ lastId' = lastId + 1
    /\ owner' = [owner EXCEPT ![lastId + 1] = c]
    /\ UNCHANGED <<row, flag, xadd, stream, procs, starts, silent, crashes>>

Goto(c, k, pc) == Put(c, k, At(pc, slot[c][k].msg, slot[c][k].seen))

\* get_task reads the row; without one the message is acknowledged.
GetTaskSelect(c, k) ==
    LET t == stream[slot[c][k].msg] IN
    /\ slot[c][k].pc = "got"
    /\ IF HasRow(t)
       THEN Put(c, k, At("selected", slot[c][k].msg, row[t].retry))
       ELSE Goto(c, k, "ack")
    /\ UNCHANGED <<row, flag, xadd, redis, up, cursor, starts, silent, budget>>

\* get_task raises: collect does not catch it, the coroutine ends and the
\* message stays pending.
GetTaskFails(c, k) ==
    /\ slot[c][k].pc \in {"got", "selected"} /\ Fault
    /\ Put(c, k, Idle)
    /\ UNCHANGED <<row, flag, xadd, redis, up, cursor, starts, silent, crashes>>

\* Defective variants: the retry limit is off by one (AttemptBound), the
\* message is acknowledged when the task is handed over (AckedIsSettled).
GetTaskUpdateVariant(c, k, limit, early) ==
    LET t == stream[slot[c][k].msg]
        seen == slot[c][k].seen
        run == seen < limit /\ flag[t] # "set"
    IN
    /\ slot[c][k].pc = "selected"
    /\ row' = IF HasRow(t)
              THEN [row EXCEPT ![t] =
                      [prog |-> IF seen >= limit THEN Bad ELSE 0,
                       retry |-> seen + 1]]
              ELSE row
    /\ Goto(c, k, IF run THEN "run" ELSE "ack")
    /\ owner' = IF early THEN [owner EXCEPT ![slot[c][k].msg] = None] ELSE owner
    /\ starts' = IF run THEN [starts EXCEPT ![t] = @ + 1] ELSE starts
    /\ UNCHANGED <<flag, xadd, stream, lastId, up, cursor, silent, budget>>
GetTaskUpdateOffByOne(c, k) ==
    GetTaskUpdateVariant(c, k, MaxAttempts + 1, FALSE)
GetTaskUpdateAcksEarly(c, k) ==
    GetTaskUpdateVariant(c, k, MaxAttempts, TRUE)

\* get_task writes progress and retry_count from what it read, whatever the
\* row holds by now; a task out of attempts and a cancelled one are
\* acknowledged, any other is handed to handle_task.
GetTaskUpdate(c, k) ==
    LET t == stream[slot[c][k].msg]
        seen == slot[c][k].seen
        spent == seen >= MaxAttempts
        run == ~spent /\ flag[t] # "set"
    IN
    /\ slot[c][k].pc = "selected"
    /\ row' = IF HasRow(t)
              THEN [row EXCEPT ![t] = [prog |-> IF spent THEN Bad ELSE 0,
                                       retry |-> seen + 1]]
              ELSE row
    /\ Goto(c, k, IF run THEN "run" ELSE "ack")
    /\ starts' = IF run THEN [starts EXCEPT ![t] = @ + 1] ELSE starts
    /\ UNCHANGED <<flag, xadd, redis, up, cursor, silent, budget>>
-----------------------------------------------------------------------------
(***************************************************************************)
(* handle_task: the handler reports through set_progress.                  *)
(***************************************************************************)

\* set_progress: a cancelled task is marked failed whatever was reported; a
\* row that is gone raises DoesNotExist, which is swallowed.
SetProgress(t, prog) ==
    row' = IF HasRow(t)
           THEN [row EXCEPT ![t] =
                   [prog |-> UpdateProgress(row[t].prog,
                                 IF flag[t] = "set" THEN Bad ELSE prog),
                    retry |-> row[t].retry]]
           ELSE row

\* A report on the way.  It raises TaskCanceledException when the flag is set.
Report(c, k) ==
    LET t == stream[slot[c][k].msg] IN
    /\ slot[c][k].pc = "run"
    /\ SetProgress(t, 1)
    /\ Goto(c, k, IF flag[t] = "set" THEN "log" ELSE "run")
    /\ UNCHANGED <<flag, xadd, redis, up, cursor, starts, silent, budget>>

\* The handler ends: with 1.0, or by an exception that handle_task reports.
Finish(c, k) ==
    /\ slot[c][k].pc = "run"
    /\ \E prog \in {Full, Bad} : SetProgress(stream[slot[c][k].msg], prog)
    /\ Goto(c, k, "log")
    /\ UNCHANGED <<flag, xadd, redis, up, cursor, starts, silent, budget>>

\* The same with a database error in set_progress, which only logs it.
FinishUnreported(c, k) ==
    /\ slot[c][k].pc = "run" /\ Fault
    /\ silent' = silent \cup {stream[slot[c][k].msg]}
    /\ Goto(c, k, "log")
    /\ UNCHANGED <<row, flag, xadd, redis, up, cursor, starts, crashes>>

\* record_pipeline_operation in the finally block.
Record(c, k) ==
    /\ slot[c][k].pc = "log"
    /\ Goto(c, k, "ack")
    /\ UNCHANGED <<row, flag, xadd, redis, up, cursor, starts, silent, budget>>

\* When it raises, or when the XACK does, the message stays pending.
RecordOrAckFails(c, k) ==
    /\ slot[c][k].pc \in {"log", "ack"} /\ Fault
    /\ Put(c, k, Idle)
    /\ UNCHANGED <<row, flag, xadd, redis, up, cursor, starts, silent, crashes>>

Ack(c, k) ==
    /\ slot[c][k].pc = "ack"
    /\ owner' = [owner EXCEPT ![slot[c][k].msg] = None]
    /\ Put(c, k, Idle)
    /\ UNCHANGED <<row, flag, xadd, stream, lastId, up, cursor, starts, silent,
                   budget>>
-----------------------------------------------------------------------------
\* A process ends (signal_handler, a kill): its coroutines are gone, its
\* pending messages stay.
Crash(c) ==
    /\ up[c] /\ crashes < MaxCrashes
    /\ crashes' = crashes + 1
    /\ up' = [up EXCEPT ![c] = FALSE]
    /\ slot' = [slot EXCEPT ![c] = [k \in Slots |-> Idle]]
    /\ UNCHANGED <<row, flag, xadd, redis, cursor, starts, silent, errors>>

\* Defective variant for StrandedOnlyByError: the exhausted iterator survives.
RestartKeepsIterator(c) ==
    /\ ~up[c]
    /\ up' = [up EXCEPT ![c] = TRUE]
    /\ UNCHANGED <<row, flag, xadd, redis, cursor, slot, starts, silent, budget>>

\* main of a new process: UNACKED_ITERATOR starts at 0 again.
Restart(c) ==
    /\ ~up[c]
    /\ up' = [up EXCEPT ![c] = TRUE]
    /\ cursor' = [cursor EXCEPT ![c] = [min |-> 0, done |-> FALSE]]
    /\ UNCHANGED <<row, flag, xadd, redis, slot, starts, silent, budget>>

Server(t) ==
    \/ InsertRow(t) \/ Xadd(t) \/ XaddFails(t)
    \/ CancelTask(t) \/ FlagExpires(t) \/ DeleteRow(t)

Coroutine(c, k) ==
    \/ NextPending(c, k) \/ ReadNew(c, k)
    \/ GetTaskSelect(c, k) \/ GetTaskFails(c, k) \/ GetTaskUpdate(c, k)
    \/ Report(c, k) \/ Finish(c, k) \/ FinishUnreported(c, k)
    \/ Record(c, k) \/ RecordOrAckFails(c, k) \/ Ack(c, k)

Process(c) ==
    \/ PendingExhausted(c) \/ PendingCutShort(c) \/ ReadLost(c)
    \/ Crash(c) \/ Restart(c)

Next ==
    \/ \E t \in Tasks : Server(t)
    \/ \E c \in Consumers, k \in Slots : Coroutine(c, k)
    \/ \E c \in Consumers : Process(c)

Spec == Init /\ [][Next]_vars
-----------------------------------------------------------------------------
Sends == [st : {"new", "sending", "sent", "refused"}, fails : 0..MaxXadd]

\* Every variable has its type; queue_product gives up after MaxXadd tries, and
\* the group never delivers past the end of the stream.
TypeOK ==
    /\ row \in [Tasks -> Row \cup {NoRow}]
    /\ flag \in [Tasks -> {"no", "set", "expired"}]
    /\ xadd \in [Tasks -> Sends]
    /\ \A t \in Tasks : xadd[t].st \in {"new", "sending"} => xadd[t].fails < MaxXadd
    /\ stream \in Seq(Tasks) /\ Len(stream) <= MaxMsgs
    /\ lastId \in 0..Len(stream)
    /\ owner \in [MsgId -> Consumers \cup {None}]
    /\ up \in [Consumers -> BOOLEAN]
    /\ cursor \in [Consumers -> [min : 0..MaxMsgs, done : BOOLEAN]]
    /\ slot \in [Consumers -> [Slots -> Job]]
    /\ starts \in [Tasks -> Nat]
    /\ silent \subseteq Tasks
    /\ crashes \in 0..MaxCrashes /\ errors \in 0..MaxErrors

\* A message is in the hands of one coroutine at most: neither the walk over
\* the pending list, which runs beside the coroutines it feeds, nor the reads
\* of several processes hand it out a second time before it is acknowledged.
SingleHandler ==
    \A c, d \in Consumers : \A k, l \in Slots :
        Busy(c, k) /\ Busy(d, l) /\ slot[c][k].msg = slot[d][l].msg
            => c = d /\ k = l

Copies(t) == {m \in 1..Len(stream) : stream[m] = t}
Acked(m) == m <= lastId /\ owner[m] = None

\* The task needs no executor any more: it is finished or failed, its row was
\* deleted, it was cancelled, or its failure could not be stored.
Settled(t) ==
    \/ ~HasRow(t) \/ row[t].prog \in {Bad, Full}
    \/ flag[t] # "no" \/ t \in silent

\* handle_task and collect acknowledge last: once every message of a task has
\* been acknowledged the task is settled, through any crashes, duplicated
\* messages and deleted rows.
AckedIsSettled ==
    \A t \in Tasks :
        Copies(t) # {} /\ (\A m \in Copies(t) : Acked(m)) => Settled(t)

\* "Task is abandoned after 3 times attempts": a task with one message is
\* started at most MaxAttempts times however often its executors die.
AttemptBound ==
    \A t \in Tasks :
        (\A m, n \in Copies(t) : m = n) => starts[t] <= MaxAttempts

\* A pending message of a running process that nothing will look at again
\* before the next restart: no coroutine has it and the iterator is past it.
Stranded(m) ==
    /\ owner[m] # None /\ up[owner[m]]
    /\ cursor[owner[m]].done \/ m <= cursor[owner[m]].min
    /\ \A k \in Slots : Busy(owner[m], k) => slot[owner[m]][k].msg # m

\* The once-only walk of get_unacked_iterator suffices: without a failing call
\* no message is left behind in the pending list of a running process.
StrandedOnlyByError == \A m \in 1..lastId : Stranded(m) => errors > 0

\* What an executor does by itself: the handler ends (it runs under a timeout
\* of three hours), a free coroutine polls, a dead process is started again.
Step(c, k) ==
    \/ NextPending(c, k) \/ ReadNew(c, k) \/ GetTaskSelect(c, k)
    \/ GetTaskUpdate(c, k) \/ Finish(c, k) \/ Record(c, k) \/ Ack(c, k)

Fairness ==
    /\ \A c \in Consumers : WF_vars(PendingExhausted(c)) /\ WF_vars(Restart(c))
    /\ \A c \in Consumers, k \in Slots : WF_vars(Step(c, k))

FairSpec == Spec /\ Fairness

\* Every task whose message reached the stream is settled in the end, unless
\* an error stranded one of its messages.
SentIsSettled ==
    \A t \in Tasks :
        Copies(t) # {} ~> Settled(t) \/ (\E m \in Copies(t) : Stranded(m))
=============================================================================
