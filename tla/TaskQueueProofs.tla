--------------------------- MODULE TaskQueueProofs ---------------------------
(***************************************************************************)
(* Proofs that the safety properties of TaskQueue hold for every number of *)
(* tasks, executors, coroutines, crashes and errors.                       *)
(***************************************************************************)
EXTENDS TaskQueue, TLAPS

\* A coroutine with a message belongs to a running process for which that
\* message is pending, and the iterator of the process is past it.
SlotOwned ==
    \A c \in Consumers : \A k \in Slots : Busy(c, k) =>
        /\ up[c]
        /\ slot[c][k].msg \in 1..lastId
        /\ owner[slot[c][k].msg] = c
        /\ cursor[c].done \/ slot[c][k].msg <= cursor[c].min

\* Only delivered messages are pending.
PendingDelivered == \A m \in MsgId : owner[m] # None => m <= lastId

\* Before queue_tasks has run there is nothing of a task.
FreshTask ==
    \A t \in Tasks : xadd[t].st = "new" =>
        row[t] = NoRow /\ Copies(t) = {} /\ starts[t] = 0

\* As long as a task has one message the attempts are counted exactly enough.
OneCopy(t) == \A m, n \in Copies(t) : m = n
Attempts ==
    \A t \in Tasks : OneCopy(t) =>
        /\ starts[t] <= MaxAttempts
        /\ HasRow(t) => starts[t] <= row[t].retry
        /\ \A c \in Consumers : \A k \in Slots :
             slot[c][k].pc = "selected" /\ stream[slot[c][k].msg] = t
                => starts[t] <= slot[c][k].seen

\* Acknowledged, or about to be: nothing more is done for this message.
Past(m) ==
    \/ Acked(m)
    \/ \E c \in Consumers : \E k \in Slots :
         slot[c][k].pc \in {"log", "ack"} /\ slot[c][k].msg = m
PastIsSettled ==
    \A t \in Tasks :
        Copies(t) # {} /\ (\A m \in Copies(t) : Past(m)) => Settled(t)

IInv ==
    /\ TypeOK
    /\ SlotOwned
    /\ SingleHandler
    /\ PendingDelivered
    /\ StrandedOnlyByError
    /\ FreshTask
    /\ Attempts
    /\ PastIsSettled
-----------------------------------------------------------------------------
USE TaskQueueAssumption DEF Bad, Full, Progress, MsgId

\* update_progress stores a legal progress value.
LEMMA UpdateProgressType ==
    ASSUME NEW cur \in Progress, NEW prog \in Progress
    PROVE  UpdateProgress(cur, prog) \in Progress
BY DEF UpdateProgress

\* What a row with a task in it looks like.
LEMMA RowType ==
    ASSUME TypeOK, NEW t \in Tasks, HasRow(t)
    PROVE  row[t] \in Row /\ row[t].prog \in Progress /\ row[t].retry \in Nat
BY DEF TypeOK, HasRow, Row

\* A row that is written is a row.
LEMMA RowRecord ==
    ASSUME NEW p \in Progress, NEW r \in Nat
    PROVE  LET x == [prog |-> p, retry |-> r] IN
           x \in Row /\ x # NoRow /\ x.prog = p /\ x.retry = r
BY DEF Row, NoRow

\* Updating one coroutine leaves the others alone.
LEMMA SlotUpdate ==
    ASSUME TypeOK, NEW c \in Consumers, NEW k \in Slots, NEW j \in Job,
           Put(c, k, j)
    PROVE  /\ slot' \in [Consumers -> [Slots -> Job]]
           /\ slot'[c][k] = j
           /\ \A d \in Consumers : \A l \in Slots :
                d # c \/ l # k => slot'[d][l] = slot[d][l]
BY DEF TypeOK, Put

\* The records of coroutines.
LEMMA JobRecord ==
    /\ Idle \in Job /\ Idle.pc = "idle"
    /\ \A pc \in {"got", "selected", "run", "log", "ack"} : \A m \in 0..MaxMsgs :
       \A r \in Nat :
         /\ At(pc, m, r) \in Job
         /\ At(pc, m, r).pc = pc /\ At(pc, m, r).msg = m /\ At(pc, m, r).seen = r
BY DEF Idle, At, Job

\* Moving a coroutine on.
LEMMA GotoUpdate ==
    ASSUME TypeOK, NEW c \in Consumers, NEW k \in Slots,
           NEW pc \in {"got", "selected", "run", "log", "ack"}, Goto(c, k, pc)
    PROVE  /\ slot' \in [Consumers -> [Slots -> Job]]
           /\ slot'[c][k].pc = pc
           /\ slot'[c][k].msg = slot[c][k].msg
           /\ slot'[c][k].seen = slot[c][k].seen
           /\ \A d \in Consumers : \A l \in Slots :
                d # c \/ l # k => slot'[d][l] = slot[d][l]
<1>1. slot[c][k].msg \in 0..MaxMsgs /\ slot[c][k].seen \in Nat
  BY DEF TypeOK, Job
<1> DEFINE j == At(pc, slot[c][k].msg, slot[c][k].seen)
<1>2. /\ j \in Job /\ j.pc = pc /\ j.msg = slot[c][k].msg
      /\ j.seen = slot[c][k].seen
  BY <1>1, JobRecord
<1>3. Put(c, k, j)
  BY DEF Goto
<1>4. /\ slot' \in [Consumers -> [Slots -> Job]]
      /\ slot'[c][k] = j
      /\ \A d \in Consumers : \A l \in Slots :
           d # c \/ l # k => slot'[d][l] = slot[d][l]
  BY <1>2, <1>3, SlotUpdate
<1> QED
  BY <1>2, <1>4

\* A busy coroutine holds a message of the stream.
LEMMA BusyTask ==
    ASSUME TypeOK, SlotOwned, NEW c \in Consumers, NEW k \in Slots, Busy(c, k)
    PROVE  /\ slot[c][k].msg \in 1..Len(stream)
           /\ slot[c][k].msg \in MsgId
           /\ stream[slot[c][k].msg] \in Tasks
<1>1. slot[c][k].msg \in 1..lastId
  BY DEF SlotOwned
<1> QED
  BY <1>1 DEF TypeOK

\* Init satisfies the type invariant.
LEMMA InitType == Init => TypeOK
BY JobRecord DEF Init, TypeOK, Sends

\* Every step keeps the type invariant.
LEMMA TypeStep == TypeOK /\ SlotOwned /\ [Next]_vars => TypeOK'
<1> SUFFICES ASSUME TypeOK, SlotOwned, [Next]_vars PROVE TypeOK'
  OBVIOUS
<1> USE DEF redis, procs, budget, Fault
<1>1. CASE UNCHANGED vars
  BY <1>1 DEF vars, TypeOK
<1>2. ASSUME NEW t \in Tasks, Server(t) PROVE TypeOK'
  <2>1. CASE InsertRow(t)
    BY <2>1, RowRecord DEF InsertRow, TypeOK, Sends
  <2>2. CASE Xadd(t)
    BY <2>2 DEF Xadd, TypeOK, Sends
  <2>3. CASE XaddFails(t)
    <3> DEFINE f == xadd[t].fails + 1
               s == [st |-> IF f = MaxXadd THEN "refused" ELSE "sending",
                     fails |-> f]
    <3>1. f \in 0..MaxXadd
      BY <2>3 DEF XaddFails, TypeOK, Sends
    <3>2. s \in Sends /\ (s.st \in {"new", "sending"} => s.fails < MaxXadd)
      BY <3>1 DEF Sends
    <3>3. xadd' = [xadd EXCEPT ![t] = s]
      BY <2>3 DEF XaddFails
    <3>4. stream' \in Seq(Tasks) /\ Len(stream') <= MaxMsgs /\ lastId' \in 0..Len(stream')
      <4>1. stream' = stream \/ (stream' = Append(stream, t) /\ Len(stream) < MaxMsgs)
        BY <2>3 DEF XaddFails
      <4>2. lastId' = lastId
        BY <2>3 DEF XaddFails
      <4>3. stream \in Seq(Tasks) /\ Len(stream) <= MaxMsgs /\ lastId \in 0..Len(stream)
        BY DEF TypeOK
      <4> QED
        BY <4>1, <4>2, <4>3
    <3> HIDE DEF s
    <3>5. /\ xadd' \in [Tasks -> Sends]
          /\ \A u \in Tasks : xadd'[u].st \in {"new", "sending"}
                               => xadd'[u].fails < MaxXadd
      BY <3>2, <3>3 DEF TypeOK
    <3> QED
      BY <2>3, <3>4, <3>5 DEF XaddFails, TypeOK
  <2>4. CASE CancelTask(t)
    BY <2>4 DEF CancelTask, TypeOK
  <2>5. CASE FlagExpires(t)
    BY <2>5 DEF FlagExpires, TypeOK
  <2>6. CASE DeleteRow(t)
    BY <2>6 DEF DeleteRow, TypeOK
  <2> QED
    BY <1>2, <2>1, <2>2, <2>3, <2>4, <2>5, <2>6 DEF Server
<1>3. ASSUME NEW c \in Consumers, NEW k \in Slots, Coroutine(c, k) PROVE TypeOK'
  <2> DEFINE m == slot[c][k].msg
             t == stream[m]
  <2>0. Busy(c, k) => m \in MsgId /\ t \in Tasks
    BY BusyTask
  <2>a. m \in 0..MaxMsgs /\ slot[c][k].seen \in Nat
    BY DEF TypeOK, Job
  <2> HIDE DEF m, t
  <2>1. CASE NextPending(c, k)
    <3>1. PICK n \in MsgId :
            /\ cursor' = [cursor EXCEPT ![c] = [min |-> n, done |-> FALSE]]
            /\ Put(c, k, At("got", n, 0))
      BY <2>1 DEF NextPending, Mine
    <3>2. At("got", n, 0) \in Job
      BY JobRecord
    <3>3. slot' \in [Consumers -> [Slots -> Job]]
      BY <3>1, <3>2, SlotUpdate
    <3>4. cursor' \in [Consumers -> [min : 0..MaxMsgs, done : BOOLEAN]]
      BY <3>1 DEF TypeOK
    <3>5. UNCHANGED <<row, flag, xadd, redis, up, starts, silent, budget>>
      BY <2>1 DEF NextPending
    <3> QED
      BY <3>3, <3>4, <3>5 DEF TypeOK
  <2>2. CASE ReadNew(c, k)
    <3>1. lastId + 1 \in MsgId
      BY <2>2 DEF ReadNew, TypeOK
    <3>2. At("got", lastId + 1, 0) \in Job
      BY <3>1, JobRecord
    <3>3. slot' \in [Consumers -> [Slots -> Job]]
      BY <2>2, <3>2, SlotUpdate DEF ReadNew
    <3> QED
      BY <2>2, <3>1, <3>3 DEF ReadNew, TypeOK
  <2>3. CASE GetTaskSelect(c, k)
    <3>1. slot' \in [Consumers -> [Slots -> Job]]
      BY <2>3, <2>0, <2>a, JobRecord, SlotUpdate, GotoUpdate, RowType
         DEF GetTaskSelect, Busy, m, t
    <3> QED
      BY <2>3, <3>1 DEF GetTaskSelect, TypeOK
  <2>4. CASE GetTaskFails(c, k)
    BY <2>4, JobRecord, SlotUpdate DEF GetTaskFails, TypeOK
  <2>5. CASE GetTaskUpdate(c, k)
    <3>1. slot' \in [Consumers -> [Slots -> Job]]
      BY <2>5, GotoUpdate DEF GetTaskUpdate
    <3>2. t \in Tasks
      BY <2>5, <2>0 DEF GetTaskUpdate, Busy
    <3>3. row' \in [Tasks -> Row \cup {NoRow}]
      BY <2>5, <2>a, <3>2, RowRecord DEF GetTaskUpdate, TypeOK, m, t
    <3>4. starts' \in [Tasks -> Nat]
      BY <2>5, <3>2 DEF GetTaskUpdate, TypeOK, m, t
    <3> QED
      BY <2>5, <3>1, <3>3, <3>4 DEF GetTaskUpdate, TypeOK
  <2>b. ASSUME NEW prog \in Progress, t \in Tasks, SetProgress(t, prog)
        PROVE  row' \in [Tasks -> Row \cup {NoRow}]
    <3>1. CASE HasRow(t)
      <4> DEFINE p == UpdateProgress(row[t].prog,
                                     IF flag[t] = "set" THEN Bad ELSE prog)
      <4>1. p \in Progress /\ row[t].retry \in Nat
        BY <2>b, <3>1, RowType, UpdateProgressType
      <4>2. [prog |-> p, retry |-> row[t].retry] \in Row
        BY <4>1 DEF Row
      <4>3. row' = [row EXCEPT ![t] = [prog |-> p, retry |-> row[t].retry]]
        BY <2>b, <3>1 DEF SetProgress
      <4> HIDE DEF p
      <4> QED
        BY <2>b, <4>2, <4>3 DEF TypeOK
    <3> QED
      BY <2>b, <3>1 DEF SetProgress, TypeOK
  <2>6. CASE Report(c, k)
    <3>1. slot' \in [Consumers -> [Slots -> Job]]
      BY <2>6, GotoUpdate DEF Report
    <3>2. row' \in [Tasks -> Row \cup {NoRow}]
      BY <2>6, <2>0, <2>b DEF Report, Busy, m, t
    <3> QED
      BY <2>6, <3>1, <3>2 DEF Report, TypeOK
  <2>7. CASE Finish(c, k)
    <3>1. slot' \in [Consumers -> [Slots -> Job]]
      BY <2>7, GotoUpdate DEF Finish
    <3>2. row' \in [Tasks -> Row \cup {NoRow}]
      BY <2>7, <2>0, <2>b DEF Finish, Busy, m, t
    <3> QED
      BY <2>7, <3>1, <3>2 DEF Finish, TypeOK
  <2>8. CASE FinishUnreported(c, k)
    BY <2>8, <2>0, GotoUpdate DEF FinishUnreported, Busy, TypeOK, m, t
  <2>9. CASE Record(c, k)
    BY <2>9, GotoUpdate DEF Record, TypeOK
  <2>10. CASE RecordOrAckFails(c, k)
    BY <2>10, JobRecord, SlotUpdate DEF RecordOrAckFails, TypeOK
  <2>11. CASE Ack(c, k)
    <3>1. slot' \in [Consumers -> [Slots -> Job]]
      BY <2>11, JobRecord, SlotUpdate DEF Ack
    <3> QED
      BY <2>11, <3>1, <2>0 DEF Ack, Busy, TypeOK, m
  <2> QED
    BY <1>3, <2>1, <2>2, <2>3, <2>4, <2>5, <2>6, <2>7, <2>8, <2>9, <2>10,
       <2>11 DEF Coroutine
<1>4. ASSUME NEW c \in Consumers, Process(c) PROVE TypeOK'
  <2>1. CASE PendingExhausted(c)
    BY <2>1 DEF PendingExhausted, TypeOK
  <2>2. CASE PendingCutShort(c)
    BY <2>2 DEF PendingCutShort, TypeOK
  <2>3. CASE ReadLost(c)
    BY <2>3 DEF ReadLost, TypeOK
  <2>4. CASE Crash(c)
    BY <2>4, JobRecord DEF Crash, TypeOK
  <2>5. CASE Restart(c)
    BY <2>5 DEF Restart, TypeOK
  <2> QED
    BY <1>4, <2>1, <2>2, <2>3, <2>4, <2>5 DEF Process
<1> QED
  BY <1>1, <1>2, <1>3, <1>4 DEF Next
-----------------------------------------------------------------------------
(***************************************************************************)
(* The kinds of steps, by what they do to coroutines and pending messages. *)
(***************************************************************************)

\* A coroutine goes on with its message.
Moves(c, k) ==
    /\ Busy(c, k) /\ slot'[c][k].pc # "idle"
    /\ slot'[c][k].msg = slot[c][k].msg
    /\ \A d \in Consumers : \A l \in Slots :
         d # c \/ l # k => slot'[d][l] = slot[d][l]
    /\ UNCHANGED <<stream, lastId, owner, up, cursor>>
    /\ errors' >= errors

\* A coroutine loses its message to an error.
Drops(c, k) ==
    /\ Busy(c, k) /\ slot'[c][k].pc = "idle"
    /\ \A d \in Consumers : \A l \in Slots :
         d # c \/ l # k => slot'[d][l] = slot[d][l]
    /\ UNCHANGED <<stream, lastId, owner, up, cursor>>
    /\ errors' > 0

\* Nothing happens to coroutines and pending messages.
Rests == UNCHANGED <<lastId, owner, up, cursor, slot>> /\ errors' >= errors

\* The actions with which a coroutine goes on with its message.
Moving(c, k) ==
    \/ GetTaskSelect(c, k) \/ GetTaskUpdate(c, k) \/ Report(c, k)
    \/ Finish(c, k) \/ FinishUnreported(c, k) \/ Record(c, k)

\* They keep the message and leave the other coroutines alone.
LEMMA MovingSteps ==
    ASSUME TypeOK, SlotOwned, NEW c \in Consumers, NEW k \in Slots, Moving(c, k)
    PROVE  Moves(c, k)
<1> USE DEF redis, budget, Fault
<1>0. errors \in Nat
  BY DEF TypeOK
<1>1. ASSUME GetTaskSelect(c, k) PROVE Moves(c, k)
  <2> DEFINE m == slot[c][k].msg
  <2>1. CASE HasRow(stream[m])
    <3>1. Busy(c, k)
      BY <1>1 DEF GetTaskSelect, Busy
    <3>2. m \in 0..MaxMsgs /\ row[stream[m]].retry \in Nat
      BY <3>1, <2>1, BusyTask, RowType
    <3> DEFINE j == At("selected", m, row[stream[m]].retry)
    <3>3. j \in Job /\ j.pc = "selected" /\ j.msg = m
      BY <3>2, JobRecord
    <3>4. Put(c, k, j)
      BY <1>1, <2>1 DEF GetTaskSelect
    <3> HIDE DEF j
    <3> QED
      BY <1>1, <1>0, <3>1, <3>3, <3>4, SlotUpdate DEF GetTaskSelect, Moves
  <2>2. CASE ~HasRow(stream[m])
    BY <1>1, <1>0, <2>2, GotoUpdate DEF GetTaskSelect, Moves, Busy
  <2> QED
    BY <2>1, <2>2
<1>2. ASSUME GetTaskUpdate(c, k) PROVE Moves(c, k)
  BY <1>2, <1>0, GotoUpdate DEF GetTaskUpdate, Moves, Busy
<1>3. ASSUME Report(c, k) PROVE Moves(c, k)
  BY <1>3, <1>0, GotoUpdate DEF Report, Moves, Busy
<1>4. ASSUME Finish(c, k) PROVE Moves(c, k)
  BY <1>4, <1>0, GotoUpdate DEF Finish, Moves, Busy
<1>5. ASSUME Record(c, k) PROVE Moves(c, k)
  BY <1>5, <1>0, GotoUpdate DEF Record, Moves, Busy
<1>8. ASSUME FinishUnreported(c, k) PROVE Moves(c, k)
  BY <1>8, <1>0, GotoUpdate DEF FinishUnreported, Moves, Busy
<1> QED
  BY <1>1, <1>2, <1>3, <1>4, <1>5, <1>8 DEF Moving

\* Every step is of one of these kinds or one of the steps named here.
LEMMA StepKinds ==
    ASSUME TypeOK, SlotOwned, [Next]_vars
    PROVE  \/ Rests
           \/ \E c \in Consumers : \E k \in Slots :
                 \/ Moves(c, k) \/ Drops(c, k)
                 \/ NextPending(c, k) \/ ReadNew(c, k) \/ Ack(c, k)
           \/ \E c \in Consumers : Process(c)
<1> USE DEF redis, procs, budget, Fault
<1>1. CASE UNCHANGED vars
  BY <1>1 DEF vars, Rests, TypeOK
<1>2. ASSUME NEW t \in Tasks, Server(t) PROVE Rests
  BY <1>2 DEF Server, InsertRow, Xadd, XaddFails, CancelTask, FlagExpires,
              DeleteRow, Rests, TypeOK
<1>3. ASSUME NEW c \in Consumers, NEW k \in Slots, Coroutine(c, k)
      PROVE  \/ Moves(c, k) \/ Drops(c, k)
             \/ NextPending(c, k) \/ ReadNew(c, k) \/ Ack(c, k)
  <2>0. errors \in Nat
    BY DEF TypeOK
  <2>6. ASSUME GetTaskFails(c, k) PROVE Drops(c, k)
    BY <2>6, <2>0, JobRecord, SlotUpdate DEF GetTaskFails, Drops, Busy
  <2>7. ASSUME RecordOrAckFails(c, k) PROVE Drops(c, k)
    BY <2>7, <2>0, JobRecord, SlotUpdate DEF RecordOrAckFails, Drops, Busy
  <2> QED
    BY <1>3, <2>6, <2>7, MovingSteps DEF Coroutine, Moving
<1> QED
  BY <1>1, <1>2, <1>3 DEF Next

\* What a read does: the coroutine gets the message n.
Gets(c, k, n) ==
    /\ ~Busy(c, k) /\ up[c]
    /\ slot'[c][k].pc = "got" /\ slot'[c][k].msg = n
    /\ \A d \in Consumers : \A l \in Slots :
         d # c \/ l # k => slot'[d][l] = slot[d][l]

\* A read of the pending list hands out a message no coroutine has.
LEMMA NextPendingGets ==
    ASSUME TypeOK, NEW c \in Consumers, NEW k \in Slots, NextPending(c, k)
    PROVE  \E n \in MsgId :
             /\ Gets(c, k, n)
             /\ owner[n] = c /\ n > cursor[c].min /\ ~cursor[c].done
             /\ \A i \in MsgId : owner[i] = c /\ i > cursor[c].min => n <= i
             /\ cursor' = [cursor EXCEPT ![c] = [min |-> n, done |-> FALSE]]
             /\ UNCHANGED <<stream, lastId, owner, up, errors>>
<1>1. PICK n \in MsgId :
        /\ owner[n] = c /\ n > cursor[c].min
        /\ \A i \in MsgId : owner[i] = c /\ i > cursor[c].min => n <= i
        /\ cursor' = [cursor EXCEPT ![c] = [min |-> n, done |-> FALSE]]
        /\ Put(c, k, At("got", n, 0))
  BY DEF NextPending, Mine
<1> DEFINE j == At("got", n, 0)
<1>2. j \in Job /\ j.pc = "got" /\ j.msg = n
  BY JobRecord
<1>3. Put(c, k, j)
  BY <1>1
<1> HIDE DEF j
<1>4. Gets(c, k, n)
  BY <1>2, <1>3, SlotUpdate DEF Gets, NextPending, Free
<1> QED
  BY <1>1, <1>4 DEF NextPending, redis, budget

\* A read of the stream hands out the next message.
LEMMA ReadNewGets ==
    ASSUME TypeOK, NEW c \in Consumers, NEW k \in Slots, ReadNew(c, k)
    PROVE  /\ Gets(c, k, lastId + 1)
           /\ lastId + 1 \in MsgId /\ lastId + 1 <= Len(stream)
           /\ cursor[c].done
<1>1. lastId + 1 \in MsgId /\ lastId + 1 <= Len(stream)
  BY DEF ReadNew, TypeOK
<1> DEFINE j == At("got", lastId + 1, 0)
<1>2. j \in Job /\ j.pc = "got" /\ j.msg = lastId + 1
  BY <1>1, JobRecord
<1>3. Put(c, k, j)
  BY DEF ReadNew
<1> HIDE DEF j
<1> QED
  BY <1>1, <1>2, <1>3, SlotUpdate DEF ReadNew, Gets, Free

\* An acknowledgement frees the coroutine and the message.
LEMMA AckFrees ==
    ASSUME TypeOK, NEW c \in Consumers, NEW k \in Slots, Ack(c, k)
    PROVE  /\ Busy(c, k) /\ slot'[c][k].pc = "idle"
           /\ \A d \in Consumers : \A l \in Slots :
                d # c \/ l # k => slot'[d][l] = slot[d][l]
           /\ owner' = [owner EXCEPT ![slot[c][k].msg] = None]
           /\ UNCHANGED <<row, flag, stream, lastId, up, cursor, silent, errors>>
BY JobRecord, SlotUpdate DEF Ack, Busy, budget
-----------------------------------------------------------------------------
\* The numbers a coroutine and a process hold.
LEMMA Numbers ==
    ASSUME TypeOK
    PROVE  /\ lastId \in Nat /\ errors \in Nat
           /\ \A m \in MsgId : m \in Nat
           /\ \A c \in Consumers : cursor[c].min \in Nat
           /\ \A c \in Consumers : \A k \in Slots :
                slot[c][k].msg \in Nat /\ slot[c][k].seen \in Nat
BY DEF TypeOK, Job

\* Busy coroutines hold message ids.
LEMMA BusyMsg ==
    ASSUME TypeOK, SlotOwned
    PROVE  \A c \in Consumers : \A k \in Slots :
             slot[c][k].pc # "idle" => slot[c][k].msg \in MsgId
BY BusyTask DEF Busy

\* The pending list and the coroutines stay consistent, and no message is in
\* the hands of two coroutines.
LEMMA OwnedStep ==
    ASSUME TypeOK, SlotOwned, SingleHandler, PendingDelivered, [Next]_vars
    PROVE  SlotOwned' /\ SingleHandler' /\ PendingDelivered'
<1> USE Numbers DEF SlotOwned, SingleHandler, PendingDelivered, Busy
<1>1. CASE Rests
  BY <1>1 DEF Rests
<1>2. ASSUME NEW c \in Consumers, NEW k \in Slots, Moves(c, k) \/ Drops(c, k)
      PROVE  SlotOwned' /\ SingleHandler' /\ PendingDelivered'
  BY <1>2 DEF Moves, Drops
<1>3. ASSUME NEW c \in Consumers, NEW k \in Slots, NextPending(c, k)
      PROVE  SlotOwned' /\ SingleHandler' /\ PendingDelivered'
  <2>1. PICK n \in MsgId :
           /\ Gets(c, k, n)
           /\ owner[n] = c /\ n > cursor[c].min /\ ~cursor[c].done
           /\ cursor' = [cursor EXCEPT ![c] = [min |-> n, done |-> FALSE]]
           /\ UNCHANGED <<stream, lastId, owner, up, errors>>
    BY <1>3, NextPendingGets
  <2>2. /\ cursor'[c].min = n /\ ~cursor'[c].done
        /\ \A d \in Consumers : d # c => cursor'[d] = cursor[d]
    BY <2>1 DEF TypeOK
  <2>a. n <= lastId /\ n >= 1
    BY <2>1, Numbers DEF TypeOK
  <2>3. ASSUME NEW d \in Consumers, NEW l \in Slots, slot'[d][l].pc # "idle"
        PROVE  /\ up'[d]
               /\ slot'[d][l].msg \in 1..lastId'
               /\ owner'[slot'[d][l].msg] = d
               /\ cursor'[d].done \/ slot'[d][l].msg <= cursor'[d].min
    <3>1. CASE d = c /\ l = k
      BY <2>1, <2>2, <2>a, <3>1 DEF Gets
    <3>2. CASE d # c \/ l # k
      BY <2>1, <2>2, <2>a, <2>3, <3>2 DEF Gets
    <3> QED
      BY <3>1, <3>2
  <2>b. \A d \in Consumers : \A l \in Slots :
          slot[d][l].pc # "idle" => slot[d][l].msg # n
    BY <2>1
  <2>4. SingleHandler'
    BY <2>1, <2>b DEF Gets
  <2> QED
    BY <2>1, <2>3, <2>4
<1>4. ASSUME NEW c \in Consumers, NEW k \in Slots, ReadNew(c, k)
      PROVE  SlotOwned' /\ SingleHandler' /\ PendingDelivered'
  <2>1. /\ Gets(c, k, lastId + 1)
        /\ lastId + 1 \in MsgId /\ cursor[c].done
        /\ lastId' = lastId + 1
        /\ UNCHANGED <<up, cursor>>
    BY <1>4, ReadNewGets DEF ReadNew
  <2>2. /\ owner'[lastId + 1] = c
        /\ \A m \in MsgId : m # lastId + 1 => owner'[m] = owner[m]
    BY <1>4, <2>1 DEF ReadNew, TypeOK
  <2>3. PendingDelivered'
    BY <2>1, <2>2
  <2>4. ASSUME NEW d \in Consumers, NEW l \in Slots, slot'[d][l].pc # "idle"
        PROVE  /\ up'[d]
               /\ slot'[d][l].msg \in 1..lastId'
               /\ owner'[slot'[d][l].msg] = d
               /\ cursor'[d].done \/ slot'[d][l].msg <= cursor'[d].min
    <3>1. CASE d = c /\ l = k
      BY <2>1, <2>2, <3>1 DEF Gets
    <3>2. CASE d # c \/ l # k
      BY <2>1, <2>2, <2>4, <3>2, BusyMsg DEF Gets
    <3> QED
      BY <3>1, <3>2
  <2>b. \A d \in Consumers : \A l \in Slots :
          slot[d][l].pc # "idle" => slot[d][l].msg # lastId + 1
    OBVIOUS
  <2>5. SingleHandler'
    BY <2>1, <2>b DEF Gets
  <2> QED
    BY <2>3, <2>4, <2>5
<1>5. ASSUME NEW c \in Consumers, NEW k \in Slots, Ack(c, k)
      PROVE  SlotOwned' /\ SingleHandler' /\ PendingDelivered'
  <2> DEFINE m == slot[c][k].msg
  <2>1. /\ slot[c][k].pc # "idle" /\ slot'[c][k].pc = "idle"
        /\ \A d \in Consumers : \A l \in Slots :
             d # c \/ l # k => slot'[d][l] = slot[d][l]
        /\ UNCHANGED <<lastId, up, cursor>>
    BY <1>5, AckFrees
  <2>a. m \in MsgId /\ owner' = [owner EXCEPT ![m] = None]
    BY <1>5, <2>1, BusyMsg, AckFrees
  <2>2. owner'[m] = None /\ \A n \in MsgId : n # m => owner'[n] = owner[n]
    BY <2>a DEF TypeOK
  <2>3. \A d \in Consumers : \A l \in Slots :
          (d # c \/ l # k) /\ slot[d][l].pc # "idle" => slot[d][l].msg # m
    BY <2>1
  <2> HIDE DEF m
  <2>4. ASSUME NEW d \in Consumers, NEW l \in Slots, slot'[d][l].pc # "idle"
        PROVE  /\ up'[d]
               /\ slot'[d][l].msg \in 1..lastId'
               /\ owner'[slot'[d][l].msg] = d
               /\ cursor'[d].done \/ slot'[d][l].msg <= cursor'[d].min
    <3>1. slot'[d][l] = slot[d][l] /\ slot[d][l].msg # m /\ slot[d][l].msg \in MsgId
      BY <2>1, <2>3, <2>4, BusyMsg
    <3> QED
      BY <2>1, <2>2, <2>4, <3>1
  <2>5. PendingDelivered'
    BY <2>1, <2>2
  <2>6. SingleHandler'
    BY <2>1
  <2> QED
    BY <2>4, <2>5, <2>6
<1>6. ASSUME NEW c \in Consumers, Process(c)
      PROVE  SlotOwned' /\ SingleHandler' /\ PendingDelivered'
  <2>1. CASE PendingExhausted(c) \/ PendingCutShort(c)
    <3>1. /\ UNCHANGED <<lastId, owner, up, slot>>
          /\ cursor'[c].done
          /\ \A d \in Consumers : d # c => cursor'[d] = cursor[d]
      BY <2>1 DEF PendingExhausted, PendingCutShort, redis, TypeOK
    <3> QED
      BY <3>1
  <2>2. CASE ReadLost(c)
    <3>1. /\ UNCHANGED <<up, slot, cursor>> /\ lastId' = lastId + 1
          /\ lastId + 1 \in MsgId /\ owner'[lastId + 1] = c
          /\ \A m \in MsgId : m # lastId + 1 => owner'[m] = owner[m]
      BY <2>2 DEF ReadLost, procs, TypeOK
    <3>2. SlotOwned'
      BY <3>1, BusyMsg
    <3> QED
      BY <3>1, <3>2
  <2>3. CASE Crash(c)
    <3>1. /\ UNCHANGED <<lastId, owner, cursor>>
          /\ \A l \in Slots : slot'[c][l].pc = "idle"
          /\ \A d \in Consumers : d # c => slot'[d] = slot[d] /\ up'[d] = up[d]
      BY <2>3, JobRecord DEF Crash, redis, TypeOK
    <3> QED
      BY <3>1
  <2>4. CASE Restart(c)
    <3>1. /\ UNCHANGED <<lastId, owner, slot>> /\ ~up[c]
          /\ \A d \in Consumers : d # c => cursor'[d] = cursor[d] /\ up'[d] = up[d]
      BY <2>4 DEF Restart, redis, TypeOK
    <3> QED
      BY <3>1
  <2> QED
    BY <1>6, <2>1, <2>2, <2>3, <2>4 DEF Process
<1> QED
  BY <1>1, <1>2, <1>3, <1>4, <1>5, <1>6, StepKinds

\* Without an error no pending message of a running process is left behind.
LEMMA StrandedStep ==
    ASSUME TypeOK, SlotOwned, SingleHandler, PendingDelivered,
           StrandedOnlyByError, [Next]_vars
    PROVE  StrandedOnlyByError'
<1> SUFFICES ASSUME NEW m \in 1..lastId', Stranded(m)', ~(errors' > 0)
             PROVE  FALSE
  BY DEF StrandedOnlyByError
<1> USE Numbers DEF Busy
<1>0. TypeOK'
  BY TypeStep
<1>1. m \in MsgId /\ errors' = 0
  BY <1>0 DEF TypeOK
<1>2. ASSUME NEW d \in Consumers, m <= lastId, owner[m] = d, up[d],
             cursor[d].done \/ m <= cursor[d].min,
             \A k \in Slots : slot[d][k].pc # "idle" => slot[d][k].msg # m,
             errors = 0
      PROVE  FALSE
  <2>1. Stranded(m)
    BY <1>2 DEF Stranded
  <2> QED
    BY <1>1, <1>2, <2>1 DEF StrandedOnlyByError
<1>3. PICK d \in Consumers :
        /\ owner'[m] = d /\ up'[d]
        /\ cursor'[d].done \/ m <= cursor'[d].min
        /\ \A k \in Slots : slot'[d][k].pc # "idle" => slot'[d][k].msg # m
  BY <1>0, <1>1 DEF Stranded, TypeOK
<1>4. CASE Rests
  BY <1>1, <1>2, <1>3, <1>4 DEF Rests
<1>5. ASSUME NEW c \in Consumers, NEW k \in Slots, Moves(c, k) \/ Drops(c, k)
      PROVE  FALSE
  <2>1. Moves(c, k) /\ errors = 0
    BY <1>1, <1>5 DEF Moves, Drops
  <2>2. \A l \in Slots : slot[d][l].pc # "idle" => slot[d][l].msg # m
    BY <1>3, <2>1 DEF Moves
  <2> QED
    BY <1>2, <1>3, <2>1, <2>2 DEF Moves
<1>6. ASSUME NEW c \in Consumers, NEW k \in Slots, NextPending(c, k)
      PROVE  FALSE
  <2>1. PICK n \in MsgId :
           /\ Gets(c, k, n)
           /\ owner[n] = c /\ n > cursor[c].min
           /\ \A i \in MsgId : owner[i] = c /\ i > cursor[c].min => n <= i
           /\ cursor' = [cursor EXCEPT ![c] = [min |-> n, done |-> FALSE]]
           /\ UNCHANGED <<stream, lastId, owner, up, errors>>
    BY <1>6, NextPendingGets
  <2>2. /\ cursor'[c].min = n /\ ~cursor'[c].done
        /\ \A e \in Consumers : e # c => cursor'[e] = cursor[e]
    BY <2>1 DEF TypeOK
  <2>3. \A l \in Slots : slot[d][l].pc # "idle" => slot[d][l].msg # m
    BY <1>3, <2>1 DEF Gets
  <2>4. m # n
    BY <1>3, <2>1 DEF Gets
  <2>5. cursor[d].done \/ m <= cursor[d].min
    BY <1>1, <1>3, <2>1, <2>2, <2>4
  <2> QED
    BY <1>1, <1>2, <1>3, <2>1, <2>3, <2>5
<1>7. ASSUME NEW c \in Consumers, NEW k \in Slots, ReadNew(c, k)
      PROVE  FALSE
  <2>1. /\ Gets(c, k, lastId + 1)
        /\ lastId + 1 \in MsgId
        /\ lastId' = lastId + 1
        /\ UNCHANGED <<up, cursor, errors>>
    BY <1>7, ReadNewGets DEF ReadNew, budget
  <2>2. /\ owner'[lastId + 1] = c
        /\ \A i \in MsgId : i # lastId + 1 => owner'[i] = owner[i]
    BY <1>7, <2>1 DEF ReadNew, TypeOK
  <2>3. m # lastId + 1
    BY <1>3, <2>1, <2>2 DEF Gets
  <2>4. \A l \in Slots : slot[d][l].pc # "idle" => slot[d][l].msg # m
    BY <1>3, <2>1 DEF Gets
  <2> QED
    BY <1>1, <1>2, <1>3, <2>1, <2>2, <2>3, <2>4
<1>8. ASSUME NEW c \in Consumers, NEW k \in Slots, Ack(c, k)
      PROVE  FALSE
  <2>1. /\ slot[c][k].pc # "idle" /\ slot[c][k].msg \in MsgId
        /\ \A e \in Consumers : \A l \in Slots :
             e # c \/ l # k => slot'[e][l] = slot[e][l]
        /\ UNCHANGED <<lastId, up, cursor, errors>>
    BY <1>8, AckFrees, BusyMsg
  <2>2. /\ owner'[slot[c][k].msg] = None
        /\ \A n \in MsgId : n # slot[c][k].msg => owner'[n] = owner[n]
    BY <1>8, <2>1, AckFrees DEF TypeOK
  <2>3. m # slot[c][k].msg
    BY <1>3, <2>2
  <2>4. \A l \in Slots : slot[d][l].pc # "idle" => slot[d][l].msg # m
    BY <1>3, <2>1, <2>3
  <2> QED
    BY <1>1, <1>2, <1>3, <2>1, <2>2, <2>3, <2>4
<1>9. ASSUME NEW c \in Consumers, Process(c) PROVE FALSE
  <2>1. CASE PendingExhausted(c)
    <3>1. /\ UNCHANGED <<lastId, owner, up, slot, errors>> /\ Mine(c) = {}
          /\ \A e \in Consumers : e # c => cursor'[e] = cursor[e]
      BY <2>1 DEF PendingExhausted, redis, budget, TypeOK
    <3>2. cursor[d].done \/ m <= cursor[d].min
      BY <1>1, <1>3, <3>1 DEF Mine
    <3> QED
      BY <1>1, <1>2, <1>3, <3>1, <3>2
  <2>2. CASE PendingCutShort(c) \/ ReadLost(c)
    BY <1>1, <2>2 DEF PendingCutShort, ReadLost, Fault
  <2>3. CASE Crash(c)
    <3>1. /\ UNCHANGED <<lastId, owner, cursor, errors>> /\ ~up'[c]
          /\ \A e \in Consumers : e # c => slot'[e] = slot[e] /\ up'[e] = up[e]
      BY <2>3 DEF Crash, redis, TypeOK
    <3> QED
      BY <1>1, <1>2, <1>3, <3>1
  <2>4. CASE Restart(c)
    <3>1. /\ UNCHANGED <<lastId, owner, slot, errors>>
          /\ cursor'[c].min = 0 /\ ~cursor'[c].done
          /\ \A e \in Consumers : e # c => cursor'[e] = cursor[e] /\ up'[e] = up[e]
      BY <2>4 DEF Restart, redis, budget, TypeOK
    <3> QED
      BY <1>1, <1>2, <1>3, <3>1
  <2> QED
    BY <1>9, <2>1, <2>2, <2>3, <2>4 DEF Process
<1> QED
  BY <1>4, <1>5, <1>6, <1>7, <1>8, <1>9, StepKinds
-----------------------------------------------------------------------------
\* A message that is added is a copy of its task and of no other.
LEMMA CopiesAppend ==
    ASSUME TypeOK, NEW t \in Tasks, stream' = Append(stream, t)
    PROVE  /\ Len(stream) + 1 \in Copies(t)'
           /\ \A u \in Tasks : Copies(u) \subseteq Copies(u)'
           /\ \A u \in Tasks : u # t => Copies(u)' = Copies(u)
           /\ \A m \in 1..Len(stream) : stream'[m] = stream[m]
<1>1. stream \in Seq(Tasks)
  BY DEF TypeOK
<1>2. /\ Len(stream') = Len(stream) + 1 /\ stream'[Len(stream) + 1] = t
      /\ Len(stream) \in Nat
      /\ \A m \in 1..Len(stream) : stream'[m] = stream[m]
  BY <1>1
<1> QED
  BY <1>2 DEF Copies

\* Steps that count no attempt and write no retry_count.
Calm ==
    /\ UNCHANGED <<xadd, stream, starts>>
    /\ \A t \in Tasks : row'[t] # NoRow =>
         row[t] # NoRow /\ row'[t].retry = row[t].retry
    /\ \A d \in Consumers : \A l \in Slots :
         slot'[d][l].pc = "selected" => slot'[d][l] = slot[d][l]

\* set_progress writes no retry_count.
LEMMA SetProgressCalm ==
    ASSUME TypeOK, NEW t \in Tasks, NEW prog \in Progress, SetProgress(t, prog)
    PROVE  \A u \in Tasks : row'[u] # NoRow =>
             row[u] # NoRow /\ row'[u].retry = row[u].retry
BY DEF SetProgress, TypeOK, HasRow

\* Most steps are calm.
LEMMA CalmSteps ==
    ASSUME TypeOK, SlotOwned, [Next]_vars
    PROVE  \/ Calm
           \/ \E t \in Tasks : InsertRow(t) \/ Xadd(t) \/ XaddFails(t)
           \/ \E c \in Consumers : \E k \in Slots :
                GetTaskSelect(c, k) \/ GetTaskUpdate(c, k)
<1> USE DEF redis, procs, budget
<1>1. CASE UNCHANGED vars
  BY <1>1 DEF vars, Calm
<1>2. ASSUME NEW t \in Tasks, CancelTask(t) \/ FlagExpires(t) \/ DeleteRow(t)
      PROVE  Calm
  BY <1>2 DEF CancelTask, FlagExpires, DeleteRow, Calm, TypeOK
<1>3. ASSUME NEW c \in Consumers, NEW k \in Slots, Coroutine(c, k)
      PROVE  Calm \/ GetTaskSelect(c, k) \/ GetTaskUpdate(c, k)
  <2> DEFINE t == stream[slot[c][k].msg]
  <2>0. Busy(c, k) => t \in Tasks
    BY BusyTask
  <2>1. CASE NextPending(c, k)
    <3>1. \E n \in MsgId : Gets(c, k, n)
      BY <2>1, NextPendingGets
    <3>2. UNCHANGED <<row, xadd, stream, starts>>
      BY <2>1 DEF NextPending
    <3> QED
      BY <3>1, <3>2 DEF Gets, Calm
  <2>2. CASE ReadNew(c, k)
    <3>1. Gets(c, k, lastId + 1)
      BY <2>2, ReadNewGets
    <3>2. UNCHANGED <<row, xadd, stream, starts>>
      BY <2>2 DEF ReadNew
    <3> QED
      BY <3>1, <3>2 DEF Gets, Calm
  <2>3. CASE GetTaskFails(c, k) \/ RecordOrAckFails(c, k)
    <3>1. UNCHANGED <<row, xadd, stream, starts>> /\ Put(c, k, Idle)
      BY <2>3 DEF GetTaskFails, RecordOrAckFails
    <3>2. /\ slot'[c][k].pc = "idle"
          /\ \A d \in Consumers : \A l \in Slots :
               d # c \/ l # k => slot'[d][l] = slot[d][l]
      BY <3>1, JobRecord, SlotUpdate
    <3> QED
      BY <3>1, <3>2 DEF Calm
  <2>4. CASE Report(c, k)
    <3>1. t \in Tasks /\ SetProgress(t, 1)
      BY <2>4, <2>0 DEF Report, Busy
    <3> QED
      BY <2>4, <3>1, GotoUpdate, SetProgressCalm DEF Report, Calm
  <2>5. CASE Finish(c, k)
    <3>1. t \in Tasks /\ \E prog \in {Full, Bad} : SetProgress(t, prog)
      BY <2>5, <2>0 DEF Finish, Busy
    <3> QED
      BY <2>5, <3>1, GotoUpdate, SetProgressCalm DEF Finish, Calm
  <2>6. CASE FinishUnreported(c, k)
    BY <2>6, GotoUpdate DEF FinishUnreported, Calm
  <2>7. CASE Record(c, k)
    BY <2>7, GotoUpdate DEF Record, Calm
  <2>8. CASE Ack(c, k)
    <3>1. UNCHANGED <<row, xadd, stream, starts>>
      BY <2>8 DEF Ack
    <3>2. /\ slot'[c][k].pc = "idle"
          /\ \A d \in Consumers : \A l \in Slots :
               d # c \/ l # k => slot'[d][l] = slot[d][l]
      BY <2>8, AckFrees
    <3> QED
      BY <3>1, <3>2 DEF Calm
  <2> QED
    BY <1>3, <2>1, <2>2, <2>3, <2>4, <2>5, <2>6, <2>7, <2>8 DEF Coroutine
<1>4. ASSUME NEW c \in Consumers, Process(c) PROVE Calm
  <2>1. CASE Crash(c)
    BY <2>1, JobRecord DEF Crash, Calm, TypeOK
  <2> QED
    BY <1>4, <2>1 DEF Process, PendingExhausted, PendingCutShort, ReadLost,
                      Restart, Calm
<1> QED
  BY <1>1, <1>2, <1>3, <1>4 DEF Next, Server

\* The attempts of a task with one message stay counted.
LEMMA AttemptsStep ==
    ASSUME TypeOK, SlotOwned, SingleHandler, FreshTask, Attempts, [Next]_vars
    PROVE  FreshTask' /\ Attempts'
<1> USE Numbers DEF FreshTask, Attempts, OneCopy, HasRow
<1>0. \A t \in Tasks : starts[t] \in Nat
  BY DEF TypeOK
<1>1. CASE Calm
  <2>1. \A t \in Tasks : Copies(t)' = Copies(t)
    BY <1>1 DEF Calm, Copies
  <2>2. FreshTask'
    BY <1>1, <2>1 DEF Calm, TypeOK
  <2>3. Attempts'
    BY <1>1, <2>1 DEF Calm
  <2> QED
    BY <2>2, <2>3
<1>2. ASSUME NEW t \in Tasks, InsertRow(t) PROVE FreshTask' /\ Attempts'
  <2> DEFINE r == [prog |-> 0, retry |-> 0]
  <2>1. /\ UNCHANGED <<stream, slot, starts>>
        /\ xadd[t].st = "new" /\ xadd'[t].st # "new"
        /\ \A u \in Tasks : u # t => xadd'[u] = xadd[u] /\ row'[u] = row[u]
        /\ row'[t].retry = 0
    BY <1>2 DEF InsertRow, redis, procs, TypeOK
  <2>2. \A u \in Tasks : Copies(u)' = Copies(u)
    BY <2>1 DEF Copies
  <2> QED
    BY <2>1, <2>2
<1>3. ASSUME NEW t \in Tasks, Xadd(t) \/ XaddFails(t)
      PROVE  FreshTask' /\ Attempts'
  <2>1. /\ UNCHANGED <<row, slot, starts, lastId>>
        /\ xadd'[t].st # "new"
        /\ \A u \in Tasks : u # t => xadd'[u] = xadd[u]
        /\ stream' = stream \/ stream' = Append(stream, t)
    BY <1>3 DEF Xadd, XaddFails, redis, procs, TypeOK
  <2>2. /\ \A u \in Tasks : Copies(u) \subseteq Copies(u)'
        /\ \A u \in Tasks : u # t => Copies(u)' = Copies(u)
    <3>1. CASE stream' = stream
      BY <3>1 DEF Copies
    <3> QED
      BY <2>1, <3>1, CopiesAppend
  <2>3. \A c \in Consumers : \A k \in Slots : slot[c][k].pc = "selected" =>
          stream'[slot[c][k].msg] = stream[slot[c][k].msg]
    BY <2>1, CopiesAppend, BusyTask DEF Busy
  <2>4. FreshTask'
    BY <2>1, <2>2
  <2>5. Attempts'
    BY <2>1, <2>2, <2>3
  <2> QED
    BY <2>4, <2>5
<1>4. ASSUME NEW c \in Consumers, NEW k \in Slots,
             GetTaskSelect(c, k) \/ GetTaskUpdate(c, k)
      PROVE  FreshTask' /\ Attempts'
  <2> DEFINE m == slot[c][k].msg
             t == stream[m]
  <2>1. /\ slot[c][k].pc # "idle" /\ m \in 1..Len(stream) /\ t \in Tasks
        /\ UNCHANGED <<stream, xadd>>
    BY <1>4, BusyTask DEF GetTaskSelect, GetTaskUpdate, Busy, redis
  <2>2. \A u \in Tasks : Copies(u)' = Copies(u)
    BY <2>1 DEF Copies
  <2>3. m \in Copies(t)
    BY <2>1 DEF Copies
  <2>4. OneCopy(t) => \A d \in Consumers : \A l \in Slots :
          slot[d][l].pc = "selected" /\ stream[slot[d][l].msg] = t
            => d = c /\ l = k
    <3> SUFFICES ASSUME OneCopy(t), NEW d \in Consumers, NEW l \in Slots,
                        slot[d][l].pc = "selected", stream[slot[d][l].msg] = t
                 PROVE  d = c /\ l = k
      OBVIOUS
    <3>1. slot[d][l].msg \in Copies(t)
      BY BusyTask DEF Busy, Copies
    <3>2. slot[d][l].msg = m
      BY <2>3, <3>1
    <3> QED
      BY <2>1, <3>2 DEF SingleHandler, Busy
  <2>5. CASE GetTaskSelect(c, k)
    <3>1. /\ UNCHANGED <<row, starts>>
          /\ \A d \in Consumers : \A l \in Slots :
               d # c \/ l # k => slot'[d][l] = slot[d][l]
          /\ slot'[c][k].pc = "selected" =>
               slot'[c][k].msg = m /\ HasRow(t) /\ slot'[c][k].seen = row[t].retry
      <4>1. CASE HasRow(t)
        <5> DEFINE j == At("selected", m, row[t].retry)
        <5>1. m \in 0..MaxMsgs /\ row[t].retry \in Nat
          BY <2>1, <4>1, RowType DEF TypeOK
        <5>2. j \in Job /\ j.msg = m /\ j.seen = row[t].retry
          BY <5>1, JobRecord
        <5>3. Put(c, k, j)
          BY <2>5, <4>1 DEF GetTaskSelect
        <5> HIDE DEF j
        <5> QED
          BY <2>5, <4>1, <5>2, <5>3, SlotUpdate DEF GetTaskSelect
      <4>2. CASE ~HasRow(t)
        BY <2>5, <4>2, GotoUpdate DEF GetTaskSelect
      <4> QED
        BY <4>1, <4>2
    <3> HIDE DEF m, t
    <3>2. FreshTask'
      BY <2>1, <2>2, <3>1
    <3>3. ASSUME NEW u \in Tasks, OneCopy(u)'
          PROVE  /\ starts'[u] <= MaxAttempts
                 /\ row'[u] # NoRow => starts'[u] <= row'[u].retry
                 /\ \A d \in Consumers : \A l \in Slots :
                      slot'[d][l].pc = "selected" /\ stream'[slot'[d][l].msg] = u
                        => starts'[u] <= slot'[d][l].seen
      <4>1. OneCopy(u)
        BY <2>2, <3>3
      <4>2. /\ starts[u] <= MaxAttempts
            /\ row[u] # NoRow => starts[u] <= row[u].retry
        BY <4>1
      <4>3. ASSUME NEW d \in Consumers, NEW l \in Slots,
                   slot'[d][l].pc = "selected", stream[slot'[d][l].msg] = u
            PROVE  starts[u] <= slot'[d][l].seen
        <5>1. CASE d = c /\ l = k
          BY <3>1, <4>2, <4>3, <5>1 DEF t
        <5>2. CASE d # c \/ l # k
          BY <3>1, <4>1, <4>3, <5>2
        <5> QED
          BY <5>1, <5>2
      <4> QED
        BY <2>1, <3>1, <4>2, <4>3
    <3> QED
      BY <3>2, <3>3
  <2>6. CASE GetTaskUpdate(c, k)
    <3> DEFINE seen == slot[c][k].seen
               run == seen < MaxAttempts /\ flag[t] # "set"
    <3>1. /\ slot'[c][k].pc # "selected"
          /\ \A d \in Consumers : \A l \in Slots :
               d # c \/ l # k => slot'[d][l] = slot[d][l]
      BY <2>6, GotoUpdate DEF GetTaskUpdate
    <3>2. \A u \in Tasks : u # t => row'[u] = row[u] /\ starts'[u] = starts[u]
      BY <2>1, <2>6 DEF GetTaskUpdate, TypeOK
    <3>3. /\ row'[t] # NoRow => row[t] # NoRow /\ row'[t].retry = seen + 1
          /\ starts'[t] = IF run THEN starts[t] + 1 ELSE starts[t]
      <4>1. CASE row[t] # NoRow
        BY <2>1, <2>6, <4>1 DEF GetTaskUpdate, TypeOK
      <4>2. CASE row[t] = NoRow
        BY <2>1, <2>6, <4>2 DEF GetTaskUpdate, TypeOK
      <4> QED
        BY <4>1, <4>2
    <3>4. OneCopy(t) => starts[t] <= seen /\ starts[t] <= MaxAttempts
      BY <2>1, <2>6 DEF GetTaskUpdate
    <3>5. seen \in Nat /\ starts[t] \in Nat
      BY <1>0, <2>1
    <3> HIDE DEF m, t, seen
    <3>6. FreshTask'
      BY <2>1, <2>2, <2>3, <3>2, <3>3
    <3>7. ASSUME NEW u \in Tasks, OneCopy(u)'
          PROVE  /\ starts'[u] <= MaxAttempts
                 /\ row'[u] # NoRow => starts'[u] <= row'[u].retry
                 /\ \A d \in Consumers : \A l \in Slots :
                      slot'[d][l].pc = "selected" /\ stream'[slot'[d][l].msg] = u
                        => starts'[u] <= slot'[d][l].seen
      <4>1. OneCopy(u)
        BY <2>2, <3>7
      <4>2. CASE u = t
        <5>1. starts[t] <= seen /\ starts[t] <= MaxAttempts
          BY <3>4, <4>1, <4>2
        <5>2. starts'[t] \in {starts[t], starts[t] + 1}
          BY <3>3
        <5>3. starts'[t] <= MaxAttempts
          BY <3>3, <3>5, <5>1
        <5>4. row'[t] # NoRow => starts'[t] <= row'[t].retry
          BY <3>3, <3>5, <5>1, <5>2
        <5>5. ASSUME NEW d \in Consumers, NEW l \in Slots,
                     slot'[d][l].pc = "selected", stream'[slot'[d][l].msg] = t
              PROVE  FALSE
          <6>1. (d # c \/ l # k) /\ slot'[d][l] = slot[d][l]
            BY <3>1, <5>5
          <6>2. stream' = stream
            BY <2>1
          <6> QED
            BY <2>4, <4>1, <4>2, <5>5, <6>1, <6>2
        <5> QED
          BY <4>2, <5>3, <5>4, <5>5
      <4>3. CASE u # t
        BY <2>1, <3>1, <3>2, <4>1, <4>3
      <4> QED
        BY <4>2, <4>3
    <3> QED
      BY <3>6, <3>7
  <2> QED
    BY <1>4, <2>5, <2>6
<1> QED
  BY <1>1, <1>2, <1>3, <1>4, CalmSteps
-----------------------------------------------------------------------------
(***************************************************************************)
(* A task whose messages are all acknowledged, or about to be, is settled. *)
(***************************************************************************)

\* A step that hands out or takes back messages and writes nothing about tasks
\* makes no message past.
LEMMA QuietStep ==
    ASSUME PastIsSettled,
           UNCHANGED <<row, flag, silent, stream>>,
           \A m \in 1..Len(stream) : Past(m)' => Past(m)
    PROVE  PastIsSettled'
BY DEF PastIsSettled, Copies, Settled, HasRow

\* A message that a coroutine is working on is not past.
LEMMA LiveNotPast ==
    ASSUME TypeOK', SlotOwned', SingleHandler',
           NEW c \in Consumers, NEW k \in Slots,
           slot'[c][k].pc \in {"got", "selected", "run"}
    PROVE  ~Past(slot[c][k].msg)'
<1> DEFINE m == slot'[c][k].msg
<1>1. owner'[m] = c
  BY DEF SlotOwned, Busy
<1>2. \A d \in Consumers : \A l \in Slots :
        slot'[d][l].pc \in {"log", "ack"} => slot'[d][l].msg # m
  BY DEF SingleHandler, Busy
<1> QED
  BY <1>1, <1>2 DEF Past, Acked

\* A step of a coroutine leaves the tasks of other messages alone.
LEMMA OtherTask ==
    ASSUME TypeOK, SlotOwned, PastIsSettled,
           NEW c \in Consumers, NEW k \in Slots, Moves(c, k),
           NEW u \in Tasks, u # stream[slot[c][k].msg],
           row'[u] = row[u], flag' = flag, silent \subseteq silent',
           Copies(u)' # {}, \A m \in Copies(u)' : Past(m)'
    PROVE  Settled(u)'
<1>1. UNCHANGED <<stream, lastId, owner>>
  BY DEF Moves
<1>2. Copies(u)' = Copies(u)
  BY <1>1 DEF Copies
<1>3. ASSUME NEW m \in Copies(u) PROVE Past(m)
  <2>1. m # slot[c][k].msg
    BY DEF Copies
  <2>2. Past(m)'
    BY <1>2
  <2>3. CASE Acked(m)'
    BY <1>1, <2>3 DEF Past, Acked
  <2>4. CASE \E d \in Consumers : \E l \in Slots :
               slot'[d][l].pc \in {"log", "ack"} /\ slot'[d][l].msg = m
    BY <2>1, <2>4 DEF Past, Moves
  <2> QED
    BY <2>2, <2>3, <2>4 DEF Past
<1>4. Settled(u)
  BY <1>2, <1>3 DEF PastIsSettled
<1> QED
  BY <1>4 DEF Settled, HasRow

\* The same for its own task, when the coroutine goes on or the task is settled.
LEMMA MoveSettles ==
    ASSUME TypeOK, SlotOwned, PastIsSettled, TypeOK', SlotOwned', SingleHandler',
           NEW c \in Consumers, NEW k \in Slots, Moves(c, k),
           \A u \in Tasks : u # stream[slot[c][k].msg] => row'[u] = row[u],
           flag' = flag, silent \subseteq silent',
           \/ slot'[c][k].pc \in {"got", "selected", "run"}
           \/ Settled(stream[slot[c][k].msg])'
    PROVE  PastIsSettled'
<1> DEFINE m == slot[c][k].msg
<1> SUFFICES ASSUME NEW u \in Tasks, Copies(u)' # {},
                    \A n \in Copies(u)' : Past(n)'
             PROVE  Settled(u)'
  BY DEF PastIsSettled
<1>0. /\ slot'[c][k].msg = m /\ m \in 1..Len(stream) /\ stream[m] \in Tasks
      /\ stream' = stream
  BY BusyTask DEF Moves
<1>1. CASE u # stream[m]
  BY <1>1, OtherTask
<1>2. CASE u = stream[m]
  <2>1. m \in Copies(u)'
    BY <1>0, <1>2 DEF Copies
  <2>2. CASE slot'[c][k].pc \in {"got", "selected", "run"}
    BY <1>0, <2>1, <2>2, LiveNotPast
  <2>3. CASE Settled(stream[m])'
    BY <1>0, <1>2, <2>3
  <2> QED
    BY <2>2, <2>3
<1> QED
  BY <1>1, <1>2

\* A report of the end settles the task.
LEMMA EndSettles ==
    ASSUME TypeOK, NEW t \in Tasks, NEW prog \in {Full, Bad},
           SetProgress(t, prog), flag' = flag
    PROVE  Settled(t)'
<1>1. CASE ~HasRow(t)
  BY <1>1 DEF SetProgress, Settled, HasRow
<1>2. CASE flag[t] = "set"
  BY <1>2 DEF Settled
<1>3. CASE HasRow(t) /\ flag[t] # "set"
  <2> DEFINE p == UpdateProgress(row[t].prog, prog)
  <2>1. p \in {Bad, Full}
    BY <1>3, RowType DEF UpdateProgress
  <2>2. row' = [row EXCEPT ![t] = [prog |-> p, retry |-> row[t].retry]]
    BY <1>3 DEF SetProgress
  <2> HIDE DEF p
  <2>3. row'[t].prog = p
    BY <2>2 DEF TypeOK
  <2> QED
    BY <2>1, <2>3 DEF Settled
<1> QED
  BY <1>1, <1>2, <1>3

\* set_progress writes one row.
LEMMA SetProgressOne ==
    ASSUME TypeOK, NEW t \in Tasks, NEW prog, SetProgress(t, prog)
    PROVE  \A u \in Tasks : u # t => row'[u] = row[u]
BY DEF SetProgress, TypeOK

\* The steps of a coroutine with its message.
LEMMA PastMoving ==
    ASSUME TypeOK, SlotOwned, PastIsSettled, TypeOK', SlotOwned', SingleHandler',
           NEW c \in Consumers, NEW k \in Slots, Moving(c, k), ~Record(c, k)
    PROVE  PastIsSettled'
<1> DEFINE m == slot[c][k].msg
           t == stream[m]
<1>0. Moves(c, k) /\ t \in Tasks /\ stream' = stream /\ slot'[c][k].msg = m
  BY MovingSteps, BusyTask DEF Moves
<1> SUFFICES /\ \A u \in Tasks : u # t => row'[u] = row[u]
             /\ flag' = flag /\ silent \subseteq silent'
             /\ slot'[c][k].pc \in {"got", "selected", "run"} \/ Settled(t)'
  BY <1>0, MoveSettles
<1>1. CASE GetTaskSelect(c, k)
  <2>1. UNCHANGED <<row, flag, silent>>
    BY <1>1 DEF GetTaskSelect
  <2>2. CASE HasRow(t)
    <3>1. m \in 0..MaxMsgs /\ row[t].retry \in Nat
      <4>1. m \in 0..MaxMsgs
        BY DEF TypeOK, Job
      <4>2. row[t].retry \in Nat
        BY <1>0, <2>2, RowType
      <4> QED
        BY <4>1, <4>2
    <3> DEFINE j == At("selected", m, row[t].retry)
    <3>2. j \in Job /\ j.pc = "selected"
      BY <3>1, JobRecord
    <3>3. Put(c, k, j)
      BY <1>1, <2>2 DEF GetTaskSelect
    <3> HIDE DEF j
    <3> QED
      BY <2>1, <3>2, <3>3, SlotUpdate
  <2>3. CASE ~HasRow(t)
    BY <1>0, <2>1, <2>3 DEF Settled, HasRow
  <2> QED
    BY <2>2, <2>3
<1>2. CASE GetTaskUpdate(c, k)
  <2> DEFINE spent == slot[c][k].seen >= MaxAttempts
             run == ~spent /\ flag[t] # "set"
             r == [prog |-> IF spent THEN Bad ELSE 0,
                   retry |-> slot[c][k].seen + 1]
  <2>1. UNCHANGED <<flag, silent>>
    BY <1>2 DEF GetTaskUpdate
  <2>2. row' = IF HasRow(t) THEN [row EXCEPT ![t] = r] ELSE row
    BY <1>2 DEF GetTaskUpdate
  <2>3. run => slot'[c][k].pc = "run"
    BY <1>2, GotoUpdate DEF GetTaskUpdate
  <2>4. spent => r.prog = Bad
    OBVIOUS
  <2> HIDE DEF r, spent
  <2>5. /\ \A u \in Tasks : u # t => row'[u] = row[u]
        /\ HasRow(t) => row'[t] = r
        /\ ~HasRow(t) => row'[t] = NoRow
    BY <1>0, <2>2 DEF TypeOK, HasRow
  <2>6. ~run => Settled(t)'
    BY <1>0, <2>1, <2>4, <2>5 DEF Settled, HasRow
  <2> QED
    BY <2>1, <2>3, <2>5, <2>6
<1>3. CASE Report(c, k)
  <2>1. SetProgress(t, 1) /\ UNCHANGED <<flag, silent>>
    BY <1>3 DEF Report
  <2>2. flag[t] # "set" => slot'[c][k].pc = "run"
    BY <1>3, GotoUpdate DEF Report
  <2>3. flag[t] = "set" => Settled(t)'
    BY <1>0, <2>1 DEF Settled
  <2>4. \A u \in Tasks : u # t => row'[u] = row[u]
    BY <1>0, <2>1, SetProgressOne
  <2> QED
    BY <2>1, <2>2, <2>3, <2>4
<1>4. CASE Finish(c, k)
  <2>1. PICK prog \in {Full, Bad} : SetProgress(t, prog)
    BY <1>4 DEF Finish
  <2>2. UNCHANGED <<flag, silent>>
    BY <1>4 DEF Finish
  <2> QED
    <3>1. \A u \in Tasks : u # t => row'[u] = row[u]
      BY <1>0, <2>1, SetProgressOne
    <3>2. Settled(t)'
      BY <1>0, <2>1, <2>2, EndSettles
    <3> QED
      BY <2>2, <3>1, <3>2
<1>5. CASE FinishUnreported(c, k)
  BY <1>0, <1>5 DEF FinishUnreported, Settled
<1> QED
  BY <1>1, <1>2, <1>3, <1>4, <1>5 DEF Moving

\* A message becomes past only when the coroutine that has it says so.
LEMMA PastKept ==
    ASSUME UNCHANGED <<lastId, owner>>, NEW m, Past(m)',
           \A d \in Consumers : \A l \in Slots :
             slot'[d][l].pc \in {"log", "ack"} /\ slot'[d][l].msg = m =>
               slot[d][l].pc \in {"log", "ack"} /\ slot[d][l].msg = m
    PROVE  Past(m)
BY DEF Past, Acked

\* The steps that write nothing about tasks.
LEMMA PastQuiet ==
    ASSUME TypeOK, SlotOwned, PastIsSettled,
           \/ UNCHANGED vars
           \/ \E c \in Consumers : Process(c)
           \/ \E c \in Consumers : \E k \in Slots :
                \/ NextPending(c, k) \/ ReadNew(c, k) \/ GetTaskFails(c, k)
                \/ Record(c, k) \/ RecordOrAckFails(c, k) \/ Ack(c, k)
    PROVE  PastIsSettled'
<1> USE DEF redis, procs, budget
<1>a. Len(stream) <= MaxMsgs /\ Len(stream) \in Nat /\ lastId \in Nat
  BY DEF TypeOK
<1>1. CASE UNCHANGED vars
  BY <1>1, QuietStep DEF vars, Past, Acked
<1>2. ASSUME NEW c \in Consumers,
             PendingExhausted(c) \/ PendingCutShort(c) \/ Restart(c)
      PROVE  PastIsSettled'
  <2>1. UNCHANGED <<row, flag, silent, stream, lastId, owner, slot>>
    BY <1>2 DEF PendingExhausted, PendingCutShort, Restart
  <2> QED
    BY <2>1, QuietStep DEF Past, Acked
<1>3. ASSUME NEW c \in Consumers, Crash(c) PROVE PastIsSettled'
  <2>1. UNCHANGED <<row, flag, silent, stream, lastId, owner>>
    BY <1>3 DEF Crash
  <2>2. \A d \in Consumers : \A l \in Slots :
          slot'[d][l].pc \in {"log", "ack"} => slot'[d][l] = slot[d][l]
    BY <1>3, JobRecord DEF Crash, TypeOK
  <2> QED
    BY <2>1, <2>2, PastKept, QuietStep
<1>4. ASSUME NEW c \in Consumers, NEW k \in Slots, NextPending(c, k)
      PROVE  PastIsSettled'
  <2>1. UNCHANGED <<row, flag, silent, stream, lastId, owner>>
    BY <1>4 DEF NextPending
  <2>2. \E n \in MsgId : Gets(c, k, n)
    BY <1>4, NextPendingGets
  <2>3. \A d \in Consumers : \A l \in Slots :
          slot'[d][l].pc \in {"log", "ack"} => slot'[d][l] = slot[d][l]
    BY <2>2 DEF Gets
  <2> QED
    BY <2>1, <2>3, PastKept, QuietStep
<1>5. ASSUME NEW c \in Consumers, NEW k \in Slots,
             GetTaskFails(c, k) \/ RecordOrAckFails(c, k)
      PROVE  PastIsSettled'
  <2>1. UNCHANGED <<row, flag, silent, stream, lastId, owner>>
    BY <1>5 DEF GetTaskFails, RecordOrAckFails
  <2>2. Put(c, k, Idle)
    BY <1>5 DEF GetTaskFails, RecordOrAckFails
  <2>3. \A d \in Consumers : \A l \in Slots :
          slot'[d][l].pc \in {"log", "ack"} => slot'[d][l] = slot[d][l]
    BY <2>2, JobRecord, SlotUpdate
  <2> QED
    BY <2>1, <2>3, PastKept, QuietStep
<1>6. ASSUME NEW c \in Consumers, NEW k \in Slots, Record(c, k)
      PROVE  PastIsSettled'
  <2>1. UNCHANGED <<row, flag, silent, stream, lastId, owner>>
    BY <1>6 DEF Record
  <2>2. /\ slot[c][k].pc = "log" /\ slot'[c][k].msg = slot[c][k].msg
        /\ \A d \in Consumers : \A l \in Slots :
             d # c \/ l # k => slot'[d][l] = slot[d][l]
    BY <1>6, GotoUpdate DEF Record
  <2> QED
    BY <2>1, <2>2, PastKept, QuietStep
<1>7. ASSUME NEW c \in Consumers, lastId + 1 \in MsgId,
             lastId' = lastId + 1, owner' = [owner EXCEPT ![lastId + 1] = c],
             UNCHANGED <<row, flag, silent, stream>>,
             \A d \in Consumers : \A l \in Slots :
               slot'[d][l].pc \in {"log", "ack"} => slot'[d][l] = slot[d][l]
      PROVE  PastIsSettled'
  <2>1. /\ owner'[lastId + 1] # None
        /\ \A m \in MsgId : m # lastId + 1 => owner'[m] = owner[m]
    BY <1>7 DEF TypeOK
  <2>2. ASSUME NEW m \in 1..Len(stream), Past(m)' PROVE Past(m)
    <3>1. m \in MsgId
      BY <1>a
    <3>2. CASE Acked(m)'
      BY <1>a, <1>7, <2>1, <3>1, <3>2 DEF Past, Acked
    <3>3. CASE \E d \in Consumers : \E l \in Slots :
                 slot'[d][l].pc \in {"log", "ack"} /\ slot'[d][l].msg = m
      BY <1>7, <3>3 DEF Past
    <3> QED
      BY <2>2, <3>2, <3>3 DEF Past
  <2> QED
    BY <1>7, <2>2, QuietStep
<1>8. ASSUME NEW c \in Consumers, NEW k \in Slots, ReadNew(c, k)
      PROVE  PastIsSettled'
  <2>1. Gets(c, k, lastId + 1) /\ lastId + 1 \in MsgId
    BY <1>8, ReadNewGets
  <2>2. \A d \in Consumers : \A l \in Slots :
          slot'[d][l].pc \in {"log", "ack"} => slot'[d][l] = slot[d][l]
    BY <2>1 DEF Gets
  <2>3. /\ lastId' = lastId + 1 /\ owner' = [owner EXCEPT ![lastId + 1] = c]
        /\ UNCHANGED <<row, flag, silent, stream>>
    BY <1>8 DEF ReadNew
  <2> QED
    BY <1>7, <2>1, <2>2, <2>3
<1>9. ASSUME NEW c \in Consumers, ReadLost(c) PROVE PastIsSettled'
  <2>1. lastId + 1 \in MsgId
    BY <1>9 DEF ReadLost, TypeOK
  <2>2. /\ lastId' = lastId + 1 /\ owner' = [owner EXCEPT ![lastId + 1] = c]
        /\ UNCHANGED <<row, flag, silent, stream, slot>>
    BY <1>9 DEF ReadLost
  <2> QED
    BY <1>7, <2>1, <2>2
<1>10. ASSUME NEW c \in Consumers, NEW k \in Slots, Ack(c, k)
       PROVE  PastIsSettled'
  <2>1. /\ slot'[c][k].pc = "idle"
        /\ \A d \in Consumers : \A l \in Slots :
             d # c \/ l # k => slot'[d][l] = slot[d][l]
        /\ owner' = [owner EXCEPT ![slot[c][k].msg] = None]
        /\ UNCHANGED <<row, flag, silent, stream, lastId>>
    BY <1>10, AckFrees
  <2>2. slot[c][k].pc = "ack"
    BY <1>10 DEF Ack
  <2>3. \A m \in MsgId : m # slot[c][k].msg => owner'[m] = owner[m]
    BY <2>1 DEF TypeOK
  <2>4. ASSUME NEW m \in 1..Len(stream), Past(m)' PROVE Past(m)
    <3>1. m \in MsgId
      BY <1>a
    <3>2. CASE m = slot[c][k].msg
      BY <2>2, <3>2 DEF Past
    <3>3. CASE m # slot[c][k].msg
      BY <2>1, <2>3, <2>4, <3>1, <3>3 DEF Past, Acked
    <3> QED
      BY <3>2, <3>3
  <2> QED
    BY <2>1, <2>4, QuietStep
<1> QED
  BY <1>1, <1>2, <1>3, <1>4, <1>5, <1>6, <1>8, <1>9, <1>10 DEF Process

\* The steps of the API server.
LEMMA PastServer ==
    ASSUME TypeOK, SlotOwned, FreshTask, PastIsSettled,
           NEW t \in Tasks, Server(t)
    PROVE  PastIsSettled'
<1> USE DEF redis, procs, budget
<1>0. UNCHANGED <<lastId, owner, slot, silent>>
  BY DEF Server, InsertRow, Xadd, XaddFails, CancelTask, FlagExpires, DeleteRow
<1>1. \A m : Past(m)' => Past(m)
  BY <1>0, PastKept
<1>2. ASSUME stream' = stream,
             \A u \in Tasks : u # t => row'[u] = row[u] /\ flag'[u] = flag[u],
             Settled(t)' \/ Copies(t) = {}
      PROVE  PastIsSettled'
  <2>1. \A u \in Tasks : Copies(u)' = Copies(u)
    BY <1>2 DEF Copies
  <2>2. \A u \in Tasks : u # t /\ Settled(u) => Settled(u)'
    BY <1>0, <1>2 DEF Settled, HasRow
  <2> QED
    BY <1>1, <1>2, <2>1, <2>2 DEF PastIsSettled
<1>3. CASE InsertRow(t)
  BY <1>2, <1>3 DEF InsertRow, FreshTask, TypeOK
<1>4. CASE Xadd(t) \/ XaddFails(t)
  <2>1. /\ UNCHANGED <<row, flag>>
        /\ stream' = stream \/ stream' = Append(stream, t)
    BY <1>4 DEF Xadd, XaddFails
  <2>2. CASE stream' = stream
    BY <1>0, <1>1, <2>1, <2>2, QuietStep
  <2>3. CASE stream' = Append(stream, t)
    <3> DEFINE n == Len(stream) + 1
    <3>1. n \in Copies(t)' /\ \A u \in Tasks : u # t => Copies(u)' = Copies(u)
      BY <2>3, CopiesAppend
    <3>2. ~Past(n)
      <4>1. lastId < n /\ lastId \in Nat /\ n \in Nat
        BY DEF TypeOK
      <4>2. \A c \in Consumers : \A k \in Slots :
              slot[c][k].pc \in {"log", "ack"} => slot[c][k].msg # n
        BY <4>1 DEF SlotOwned, Busy
      <4> QED
        BY <4>1, <4>2 DEF Past, Acked
    <3>3. \A u \in Tasks : Settled(u) => Settled(u)'
      BY <1>0, <2>1 DEF Settled, HasRow
    <3> HIDE DEF n
    <3> QED
      BY <1>1, <3>1, <3>2, <3>3 DEF PastIsSettled
  <2> QED
    BY <2>1, <2>2, <2>3
<1>5. CASE CancelTask(t) \/ FlagExpires(t)
  <2>1. /\ UNCHANGED <<row, stream>> /\ flag'[t] # "no"
        /\ \A u \in Tasks : u # t => flag'[u] = flag[u]
    BY <1>5 DEF CancelTask, FlagExpires, TypeOK
  <2> QED
    BY <1>2, <2>1 DEF Settled
<1>6. CASE DeleteRow(t)
  <2>1. /\ UNCHANGED <<flag, stream>> /\ row'[t] = NoRow
        /\ \A u \in Tasks : u # t => row'[u] = row[u]
    BY <1>6 DEF DeleteRow, TypeOK
  <2> QED
    BY <1>2, <2>1 DEF Settled, HasRow
<1> QED
  BY <1>3, <1>4, <1>5, <1>6 DEF Server

\* Every step keeps the tasks of past messages settled.
LEMMA PastStep ==
    ASSUME IInv, [Next]_vars, TypeOK', SlotOwned', SingleHandler'
    PROVE  PastIsSettled'
<1> USE DEF IInv
<1>1. ASSUME NEW c \in Consumers, NEW k \in Slots, Coroutine(c, k)
      PROVE  PastIsSettled'
  <2>1. CASE Moving(c, k) /\ ~Record(c, k)
    BY <2>1, PastMoving
  <2>2. CASE ~(Moving(c, k) /\ ~Record(c, k))
    BY <1>1, <2>2, PastQuiet DEF Coroutine, Moving
  <2> QED
    BY <2>1, <2>2
<1> QED
  BY <1>1, PastQuiet, PastServer DEF Next
-----------------------------------------------------------------------------
\* The inductive invariant holds at the start.
LEMMA InitInv == Init => IInv
<1> SUFFICES ASSUME Init PROVE IInv
  OBVIOUS
<1>1. TypeOK
  BY InitType
<1>2. \A c \in Consumers : \A k \in Slots : slot[c][k].pc = "idle"
  BY JobRecord DEF Init
<1>3. \A t \in Tasks : Copies(t) = {}
  BY DEF Init, Copies
<1>4. SlotOwned /\ SingleHandler
  BY <1>2 DEF SlotOwned, SingleHandler, Busy
<1>5. PendingDelivered /\ StrandedOnlyByError
  BY DEF Init, PendingDelivered, StrandedOnlyByError
<1>6. FreshTask
  BY <1>3 DEF Init, FreshTask
<1>7. Attempts
  BY <1>2 DEF Init, Attempts, HasRow
<1>8. PastIsSettled
  BY <1>3 DEF PastIsSettled
<1> QED
  BY <1>1, <1>4, <1>5, <1>6, <1>7, <1>8 DEF IInv

\* And every step keeps it.
LEMMA StepInv == IInv /\ [Next]_vars => IInv'
<1> SUFFICES ASSUME IInv, [Next]_vars PROVE IInv'
  OBVIOUS
<1>1. TypeOK'
  BY TypeStep DEF IInv
<1>2. SlotOwned' /\ SingleHandler' /\ PendingDelivered'
  BY OwnedStep DEF IInv
<1>3. StrandedOnlyByError'
  BY StrandedStep DEF IInv
<1>4. FreshTask' /\ Attempts'
  BY AttemptsStep DEF IInv
<1>5. PastIsSettled'
  BY <1>1, <1>2, PastStep
<1> QED
  BY <1>1, <1>2, <1>3, <1>4, <1>5 DEF IInv

\* The inductive invariant holds in every reachable state.
LEMMA Invariance == Spec => []IInv
BY InitInv, StepInv, PTL DEF Spec

\* Every variable keeps its type; in particular queue_product stops after
\* MaxXadd failed tries and the group never delivers more than was added.
THEOREM TypeCorrect == Spec => []TypeOK
<1>1. IInv => TypeOK
  BY DEF IInv
<1> QED
  BY <1>1, Invariance, PTL

\* No message is ever handled by two coroutines at once, for any number of
\* executors, coroutines and restarts.
THEOREM HandledOnce == Spec => []SingleHandler
<1>1. IInv => SingleHandler
  BY DEF IInv
<1> QED
  BY <1>1, Invariance, PTL

\* The messages of a task are never all acknowledged while the task still
\* needs an executor.
THEOREM NothingLost == Spec => []AckedIsSettled
<1>1. IInv => AckedIsSettled
  BY DEF IInv, AckedIsSettled, PastIsSettled, Past
<1> QED
  BY <1>1, Invariance, PTL

\* A task with one message is started at most MaxAttempts times.
THEOREM AttemptsBounded == Spec => []AttemptBound
<1>1. IInv => AttemptBound
  BY DEF IInv, AttemptBound, Attempts, OneCopy
<1> QED
  BY <1>1, Invariance, PTL

\* A pending message of a running executor is out of its reach only after a
\* failing call.
THEOREM NothingStranded == Spec => []StrandedOnlyByError
<1>1. IInv => StrandedOnlyByError
  BY DEF IInv
<1> QED
  BY <1>1, Invariance, PTL
=============================================================================
