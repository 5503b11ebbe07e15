---------------------------- MODULE ConnectorSync -----------------------------
(***************************************************************************)
(* A connector that mirrors a data source into datasets.                   *)
(*                                                                         *)
(* The API server writes sync_logs rows ("a task is scheduled") and the    *)
(* status of the connector; the worker process (rag/svr/sync_data_source)  *)
(* polls for due rows, runs one coroutine for each and, when they are all  *)
(* over, polls again.  A finished sync schedules its successor with the    *)
(* window (poll_range_start) it has reached, so what lies before a window  *)
(* is never fetched again.                                                 *)
(*                                                                         *)
(* The two processes interleave between the reading and the writing of     *)
(* sync_logs.  Coroutines of the worker interleave only where they await:  *)
(* once _generate has returned, a task keeps the event loop to its end.    *)
(*                                                                         *)
(* The source is external: it keeps the time of the last change of each    *)
(* item, and _generate returns the items as they are when it is called.    *)
(* There is one connector and one API server; timestamps are those of the  *)
(* source, 0 stands for NULL and for 1970.  Old rows, of which schedule    *)
(* deletes the oldest when they are more than 100, are left out.           *)
(***************************************************************************)
EXTENDS Integers, Sequences, FiniteSets

CONSTANTS
    Kbs,          \* datasets
    Items,        \* items of the source
    Prune,        \* config["sync_deleted_files"]
    Slots,        \* coroutines of the worker: 1..n, as many as can be due
    MaxClock,     \* bound: changes of the source
    MaxFaults,    \* bound: failures
    MaxRequests   \* bound: requests to the API server

Nobody == 0
Api == 0
Callers == Slots \cup {Api}
Times == 0..MaxClock
Kinds == Kbs \X {"sync", "prune"}

ASSUME ConnectorSyncAssumption ==
    /\ Kbs # {} /\ IsFiniteSet(Kbs) /\ Prune \in BOOLEAN
    /\ Slots \subseteq Nat \ {0} /\ IsFiniteSet(Slots)
    /\ MaxClock \in Nat \ {0} /\ MaxFaults \in Nat /\ MaxRequests \in Nat

VARIABLES
    src, clock,   \* the source: time of each item, 0 if it is not there
    status,       \* connector.status
    linked,       \* connector2kb
    logs,         \* sync_logs of each kind, in the order of update_time
    idx,          \* documents of the connector: the item's time when fetched
    work,         \* the coroutines of the worker
    loop,         \* the coroutine that has the event loop, or Nobody
    script,       \* what the API server still has to do for its request
    calls,        \* calls of SyncLogsService.schedule
    skipped,      \* history: items whose last fetch failed
    overlap,      \* history: datasets rebuilt while they were synchronised
    doubled,      \* history: kinds scheduled while one was scheduled or ran
    faults, requests

vars == <<src, clock, status, linked, logs, idx, work, loop, script, calls,
          skipped, overlap, doubled, faults, requests>>
source == <<src, clock>>
history == <<skipped, overlap, doubled>>
counters == <<faults, requests>>

Statuses == {"unstart", "schedule", "running", "done", "cancel", "fail"}
Ops == {"cancel", "stop", "resume", "reindex", "prune", "forget", "delete",
        "link", "unlink"}

\* A row is known by its id only to the coroutine that runs it: its owner.
Row == [owner : Slots \cup {Nobody}, status : Statuses, start : Times,
        end : Times, reindex : BOOLEAN]
Call == [at : {"none", "check", "save"}, kind : Kinds, start : Times,
         reindex : BOOLEAN]
\* next is poll_range_start of the task and then next_update.
Coroutine == [pc : {"none", "start", "gen", "sync", "prune", "done", "sched"},
              kind : Kinds, next : Times, reindex : BOOLEAN,
              todo : [Items -> Times]]

AnyKind == CHOOSE kind \in Kinds : TRUE
NoCall == [at |-> "none", kind |-> AnyKind, start |-> 0, reindex |-> FALSE]
NoTask == [pc |-> "none", kind |-> AnyKind, next |-> 0, reindex |-> FALSE,
           todo |-> [x \in Items |-> 0]]

Fault == faults < MaxFaults /\ faults' = faults + 1 /\ UNCHANGED requests
Larger(a, b) == IF a > b THEN a ELSE b
\* Mutant: one more than the last time, as for an exclusive bound.
LastTimePlusOne(S, f) == 1 + (CHOOSE t \in {f[x] : x \in S} : \A x \in S : f[x] <= t)
\* The largest doc_updated_at of a batch.
LastTime(S, f) == CHOOSE t \in {f[x] : x \in S} : \A x \in S : f[x] <= t
-----------------------------------------------------------------------------
(***************************************************************************)
(* sync_logs.                                                              *)
(***************************************************************************)
Scheduled(kind) == {n \in DOMAIN logs[kind] : logs[kind][n].status = "schedule"}

\* The rows of q at the places S, in their order.
Pick(q, S) ==
    LET upto[n \in 0..Len(q)] ==
            IF n = 0 THEN <<>>
            ELSE IF n \in S THEN Append(upto[n - 1], q[n]) ELSE upto[n - 1]
    IN  upto[Len(q)]

\* Rows that no statement reads again are dropped: those before the last that
\* are neither scheduled nor run by a coroutine.
Relevant(q) ==
    Pick(q, {n \in DOMAIN q :
                q[n].owner # Nobody \/ q[n].status = "schedule" \/ n = Len(q)})

\* An update: the rows that satisfy Hit, changed by F, come last.
Touch(q, Hit(_), F(_)) ==
    LET hit == {n \in DOMAIN q : Hit(q[n])}
    IN  Relevant(Pick(q, DOMAIN q \ hit) \o Pick([n \in DOMAIN q |-> F(q[n])], hit))

\* update_by_id by the coroutine i: no effect when the row is gone.
TouchOwn(i, F(_)) ==
    LET Own(r) == r.owner = i
    IN  logs' = [logs EXCEPT ![work[i].kind] = Touch(@, Own, F)]

Init ==
    /\ src \in [Items -> {0, 1}] /\ clock = 1
    /\ status = "unstart" /\ linked = {}
    /\ logs = [kind \in Kinds |-> <<>>]
    /\ idx = [k \in Kbs |-> [x \in Items |-> 0]]
    /\ work = [i \in Slots |-> NoTask] /\ loop = Nobody
    /\ script = <<>> /\ calls = [a \in Callers |-> NoCall]
    /\ skipped = [k \in Kbs |-> {}] /\ overlap = {} /\ doubled = {}
    /\ faults = 0 /\ requests = 0

\* An item is added or changed, or goes away.
Change(x) ==
    /\ clock < MaxClock /\ clock' = clock + 1
    /\ \E t \in {0, clock + 1} : src' = [src EXCEPT ![x] = t]
    /\ UNCHANGED <<status, linked, logs, idx, work, loop, script, calls, history,
                   counters>>
-----------------------------------------------------------------------------
(***************************************************************************)
(* SyncLogsService.schedule, for the caller a.                             *)
(***************************************************************************)
Running(kind) == \E i \in Slots : work[i].pc # "none" /\ work[i].kind = kind
Doubles(a) ==
    LET kind == calls[a].kind
    IN  doubled' = IF Scheduled(kind) # {} \/ (a = Api /\ Running(kind))
                   THEN doubled \cup {kind} ELSE doubled

ToCall(a, call) == calls' = [calls EXCEPT ![a] = call]

\* The caller goes on; for a coroutine it was the last thing to do.
Return(a) ==
    /\ ToCall(a, NoCall)
    /\ IF a = Api
         THEN UNCHANGED <<work, loop>>
         ELSE work' = [work EXCEPT ![a] = NoTask] /\ loop' = Nobody

\* Mutant: the query leaves out task_type.
SchedRefusedAnyKind(a) ==
    /\ calls[a].at = "check" /\ \E kind \in Kinds : Scheduled(kind) # {}
    /\ Return(a)
    /\ UNCHANGED <<source, status, linked, logs, idx, script, history, counters>>

\* With a scheduled task of the kind nothing is done.
SchedRefused(a) ==
    /\ calls[a].at = "check" /\ Scheduled(calls[a].kind) # {}
    /\ Return(a)
    /\ UNCHANGED <<source, status, linked, logs, idx, script, history, counters>>

SchedCheck(a) ==
    /\ calls[a].at = "check" /\ Scheduled(calls[a].kind) = {}
    /\ ToCall(a, [calls[a] EXCEPT !.at = "save"])
    /\ UNCHANGED <<source, status, linked, logs, idx, work, loop, script, history,
                   counters>>

SchedSave(a) ==
    LET c == calls[a]
        row == [owner |-> Nobody, status |-> "schedule", start |-> c.start,
                end |-> 0, reindex |-> c.reindex]
    IN  /\ c.at = "save"
        /\ status' = "schedule"
        /\ logs' = [logs EXCEPT ![c.kind] = Relevant(Append(@, row))]
        /\ Doubles(a)
        /\ Return(a)
        /\ UNCHANGED <<source, linked, idx, script, skipped, overlap, counters>>

\* An exception: the latest row of the kind is scheduled again.
SchedFails(a) ==
    LET c == calls[a]
        q == logs[c.kind]
        n == Len(q)
    IN  /\ c.at # "none" /\ Fault
        /\ IF n = 0
             THEN UNCHANGED <<logs, status>>
             ELSE /\ logs' = [logs EXCEPT ![c.kind][n].status = "schedule",
                                          ![c.kind][n].start = c.start]
                  /\ status' = "schedule"
        /\ Doubles(a)
        /\ Return(a)
        /\ UNCHANGED <<source, linked, idx, script, skipped, overlap>>

Schedule(a) == SchedRefused(a) \/ SchedCheck(a) \/ SchedSave(a)
-----------------------------------------------------------------------------
(***************************************************************************)
(* The API server: a request is a list of statements, each for a set of    *)
(* datasets.                                                               *)
(***************************************************************************)
Each(op, S) == IF S = {} THEN <<>> ELSE <<[op |-> op, kbs |-> S]>>
Pruning(k) == IF Prune THEN Each("prune", {k}) ELSE <<>>

Cancel == Each("cancel", linked) \o <<[op |-> "stop", kbs |-> {}]>>
Resume == Each("resume", linked)
Rebuild(k) ==
    Each("forget", {k}) \o Each("delete", {k}) \o Each("reindex", {k}) \o Pruning(k)
Link(k) == Each("link", {k}) \o Each("reindex", {k}) \o Pruning(k)
Unlink(k) == Each("unlink", {k}) \o Each("cancel", {k})

\* update_connector with a status or with reschedule, rebuild, link_connectors.
Request ==
    /\ script = <<>> /\ calls[Api].at = "none"
    /\ requests < MaxRequests /\ requests' = requests + 1
    /\ \/ script' \in {Cancel, Resume, Cancel \o Resume}
       \/ \E k \in linked : script' \in {Rebuild(k), Unlink(k)}
       \/ \E k \in Kbs \ linked : script' = Link(k)
    /\ UNCHANGED <<source, status, linked, logs, idx, work, loop, calls, history,
                   faults>>

\* The next statement is op, for the dataset k.
Does(op, k) ==
    /\ calls[Api].at = "none"
    /\ script # <<>> /\ Head(script).op = op /\ k \in Head(script).kbs

After(k) == Each(Head(script).op, Head(script).kbs \ {k}) \o Tail(script)

CancelRows(k) ==
    LET Live(r) == r.status \in {"schedule", "running"}
        Cancelled(r) == [r EXCEPT !.status = "cancel"]
    IN  /\ Does("cancel", k)
        /\ logs' = [kind \in Kinds |-> IF kind[1] = k
                                       THEN Touch(logs[kind], Live, Cancelled)
                                       ELSE logs[kind]]
        /\ script' = After(k)
        /\ UNCHANGED <<source, status, linked, idx, work, loop, calls, history, counters>>

Stop ==
    /\ calls[Api].at = "none" /\ script # <<>> /\ Head(script).op = "stop"
    /\ status' = "cancel"
    /\ script' = Tail(script)
    /\ UNCHANGED <<source, linked, logs, idx, work, loop, calls, history, counters>>

\* schedule_tasks: the window goes on after a task that is done, and starts
\* anew after any other.
ResumeSync(k) ==
    LET q == logs[<<k, "sync">>]
        window == IF q # <<>> /\ q[Len(q)].status = "done" THEN q[Len(q)].end ELSE 0
    IN  /\ Does("resume", k)
        /\ ToCall(Api, [at |-> "check", kind |-> <<k, "sync">>, start |-> window,
                        reindex |-> FALSE])
        /\ script' = Pruning(k) \o After(k)
        /\ UNCHANGED <<source, status, linked, logs, idx, work, loop, history, counters>>

\* schedule(reindex=True), or schedule of a prune task.
ScheduleNew(k) ==
    \E op \in {"reindex", "prune"} :
        /\ Does(op, k)
        /\ ToCall(Api, [at |-> "check", start |-> 0, reindex |-> op = "reindex",
                        kind |-> <<k, IF op = "prune" THEN "prune" ELSE "sync">>])
        /\ script' = After(k)
        /\ UNCHANGED <<source, status, linked, logs, idx, work, loop, history, counters>>

\* rebuild: the rows of the dataset are deleted, then its documents.
Forget(k) ==
    /\ Does("forget", k)
    /\ logs' = [kind \in Kinds |-> IF kind[1] = k THEN <<>> ELSE logs[kind]]
    /\ overlap' = IF Running(<<k, "sync">>) THEN overlap \cup {k} ELSE overlap
    /\ script' = After(k)
    /\ UNCHANGED <<source, status, linked, idx, work, loop, calls, skipped, doubled, counters>>

Delete(k) ==
    /\ Does("delete", k)
    /\ idx' = [idx EXCEPT ![k] = [x \in Items |-> 0]]
    /\ script' = After(k)
    /\ UNCHANGED <<source, status, linked, logs, work, loop, calls, history, counters>>

ChangeLink(k) ==
    /\ \/ Does("link", k) /\ linked' = linked \cup {k}
       \/ Does("unlink", k) /\ linked' = linked \ {k}
    /\ script' = After(k)
    /\ UNCHANGED <<source, status, logs, idx, work, loop, calls, history, counters>>

ApiStep ==
    \/ Stop \/ Schedule(Api)
    \/ \E k \in Kbs :
         \/ CancelRows(k) \/ ResumeSync(k) \/ ScheduleNew(k)
         \/ Forget(k) \/ Delete(k) \/ ChangeLink(k)
-----------------------------------------------------------------------------
(***************************************************************************)
(* The worker process.                                                     *)
(***************************************************************************)

\* _list_due_tasks_for_freq.  Which of these rows are old enough is open.
Due == {d \in Kinds \X (1..Cardinality(Slots)) :
            /\ status = "schedule" /\ d[1][1] \in linked
            /\ d[2] \in Scheduled(d[1])}

\* dispatch_tasks, when the coroutines of the last round are over.
Dispatch(D) ==
    /\ \A i \in Slots : work[i].pc = "none"
    /\ D # {} /\ Cardinality(D) <= Cardinality(Slots)
    /\ LET slot == CHOOSE f \in [D -> Slots] : \A d, e \in D : f[d] = f[e] => d = e
       IN  /\ logs' = [kind \in Kinds |-> [n \in DOMAIN logs[kind] |->
                        IF <<kind, n>> \in D
                        THEN [logs[kind][n] EXCEPT !.owner = slot[<<kind, n>>]]
                        ELSE logs[kind][n]]]
           /\ work' = [i \in Slots |->
                        IF \E d \in D : slot[d] = i
                        THEN LET d == CHOOSE d \in D : slot[d] = i
                                 r == logs[d[1]][d[2]]
                             IN  [NoTask EXCEPT !.pc = "start", !.kind = d[1],
                                                !.next = r.start, !.reindex = r.reindex]
                        ELSE NoTask]
    /\ UNCHANGED <<source, status, linked, idx, loop, script, calls, history, counters>>

DispatchKind(kind) ==
    \E D \in SUBSET Due : (\E d \in D : d[1] = kind) /\ Dispatch(D)

Become(i, task) == work' = [work EXCEPT ![i] = task]
Goto(i, pc) == Become(i, [work[i] EXCEPT !.pc = pc])

\* start.  The window of the row is in the task and not read again.
Start(i) ==
    LET Started(r) == [r EXCEPT !.status = "running", !.start = 0] IN
    /\ work[i].pc = "start" /\ loop = Nobody
    /\ TouchOwn(i, Started)
    /\ status' = "running"
    /\ Goto(i, "gen")
    /\ UNCHANGED <<source, linked, idx, loop, script, calls, history, counters>>

\* Mutant: the comparison is the wrong way round.
FetchedOlder(t, incl) ==
    [x \in Items |-> IF t.reindex \/ t.next = 0 \/ src[x] < t.next THEN src[x] ELSE 0]

\* _generate: everything, or what changed after the window's start; whether
\* an item with just that time is included differs between sources.
Fetched(t, incl) ==
    [x \in Items |-> IF \/ t.reindex \/ t.next = 0 \/ src[x] > t.next
                        \/ incl /\ src[x] = t.next
                     THEN src[x] ELSE 0]

Generate(i) ==
    /\ work[i].pc = "gen" /\ work[i].kind[2] = "sync" /\ loop = Nobody
    /\ loop' = i
    /\ \E incl \in BOOLEAN :
         Become(i, [work[i] EXCEPT !.pc = "sync", !.reindex = FALSE,
                                   !.todo = Fetched(work[i], incl)])
    /\ UNCHANGED <<source, status, linked, logs, idx, script, calls, history, counters>>

\* An exception of the source, or the time-out of the task.
TaskFails(i) ==
    LET Failed(r) == [r EXCEPT !.status = "fail", !.owner = Nobody] IN
    /\ \/ work[i].pc = "gen" /\ loop = Nobody
       \/ work[i].pc = "sync"
    /\ Fault
    /\ TouchOwn(i, Failed)
    /\ Become(i, NoTask) /\ loop' = Nobody
    /\ UNCHANGED <<source, status, linked, idx, script, calls, history>>

\* A batch B: the documents of S are stored, increase_docs is reached or not.
Store(i, B, S, booked) ==
    LET t == work[i]
        k == t.kind[1]
        last == LastTime(B, t.todo)
        Booked(r) == [r EXCEPT !.end = Larger(@, last)]
    IN  /\ t.pc = "sync"
        /\ B # {} /\ \A x \in B : t.todo[x] # 0
        /\ idx' = [idx EXCEPT ![k] = [x \in Items |-> IF x \in S THEN t.todo[x] ELSE @[x]]]
        /\ skipped' = [skipped EXCEPT ![k] = (@ \cup B) \ S]
        /\ IF booked THEN TouchOwn(i, Booked) ELSE UNCHANGED logs
        /\ Become(i, [t EXCEPT !.next = Larger(@, last),
                               !.todo = [x \in Items |-> IF x \in B THEN 0 ELSE @[x]]])
        /\ UNCHANGED <<source, status, linked, loop, script, calls, overlap, doubled>>

Batch(i) == \E B \in SUBSET Items : Store(i, B, B, TRUE) /\ UNCHANGED counters

\* An exception skips the batch; errors of single documents are only counted.
BatchFails(i) ==
    \E B \in SUBSET Items : \E S \in SUBSET B, booked \in BOOLEAN :
        Store(i, B, S, booked) /\ Fault

\* _run_prune_task_logic: the items of the source, or no snapshot at all.
Snapshot(i) ==
    /\ work[i].pc = "gen" /\ work[i].kind[2] = "prune" /\ loop = Nobody
    /\ loop' = i
    /\ \/ Become(i, [work[i] EXCEPT !.pc = "prune", !.todo = src]) /\ UNCHANGED counters
       \/ Goto(i, "done") /\ Fault
    /\ UNCHANGED <<source, status, linked, logs, idx, script, calls, history>>

\* cleanup_stale_documents_for_task: documents of items that are not in the
\* snapshot; some may resist.
Cleanup(i) ==
    LET t == work[i]
        k == t.kind[1]
        stale == {x \in Items : idx[k][x] # 0 /\ t.todo[x] = 0 /\ k \in linked}
    IN  /\ t.pc = "prune"
        /\ \E S \in SUBSET stale :
             /\ idx' = [idx EXCEPT ![k] = [x \in Items |-> IF x \in S THEN 0 ELSE @[x]]]
             /\ \/ S = stale /\ UNCHANGED counters
                \/ S # stale /\ Fault
        /\ Goto(i, "done")
        /\ UNCHANGED <<source, status, linked, logs, loop, script, calls, history>>

\* Mutant: the next window starts now, not with the last document seen.
DoneNow(i) ==
    LET t == work[i]
        IsDone(r) == [r EXCEPT !.status = "done", !.owner = Nobody]
    IN  /\ \/ t.pc = "done"
           \/ t.pc = "sync" /\ \A x \in Items : t.todo[x] = 0
        /\ TouchOwn(i, IsDone)
        /\ status' = "done"
        /\ Become(i, [NoTask EXCEPT !.pc = "sched", !.kind = t.kind])
        /\ ToCall(i, [at |-> "check", kind |-> t.kind, reindex |-> FALSE,
                      start |-> IF t.kind[2] = "sync" THEN clock ELSE 0])
        /\ UNCHANGED <<source, linked, idx, loop, script, history, counters>>

\* done, and the call of schedule for the next task.
Done(i) ==
    LET t == work[i]
        IsDone(r) == [r EXCEPT !.status = "done", !.owner = Nobody]
    IN  /\ \/ t.pc = "done"
           \/ t.pc = "sync" /\ \A x \in Items : t.todo[x] = 0
        /\ TouchOwn(i, IsDone)
        /\ status' = "done"
        /\ Become(i, [NoTask EXCEPT !.pc = "sched", !.kind = t.kind])
        /\ ToCall(i, [at |-> "check", kind |-> t.kind, reindex |-> FALSE,
                      start |-> IF t.kind[2] = "sync" THEN t.next ELSE 0])
        /\ UNCHANGED <<source, linked, idx, loop, script, history, counters>>

\* The worker process dies and is started again.
Crash ==
    /\ \E i \in Slots : work[i].pc # "none"
    /\ Fault
    /\ work' = [i \in Slots |-> NoTask] /\ loop' = Nobody
    /\ calls' = [a \in Callers |-> IF a = Api THEN calls[a] ELSE NoCall]
    /\ logs' = [kind \in Kinds |->
                 LET q == logs[kind]
                 IN  Relevant([n \in DOMAIN q |-> [q[n] EXCEPT !.owner = Nobody]])]
    /\ UNCHANGED <<source, status, linked, idx, script, history>>

Step(i) ==
    \/ Start(i) \/ Generate(i) \/ Batch(i) \/ Snapshot(i) \/ Cleanup(i) \/ Done(i)
    \/ Schedule(i)

Next ==
    \/ \E x \in Items : Change(x)
    \/ Request \/ ApiStep \/ Crash
    \/ \E D \in SUBSET Due : Dispatch(D)
    \/ \E i \in Slots : Step(i) \/ TaskFails(i) \/ BatchFails(i)
    \/ \E a \in Callers : SchedFails(a)

Spec == Init /\ [][Next]_vars

\* Both processes go on; a row that stays due is old enough in the end and
\* then taken by every round.
Fairness ==
    /\ WF_vars(ApiStep)
    /\ \A i \in Slots : WF_vars(Step(i))
    /\ \A kind \in Kinds : SF_vars(DispatchKind(kind))

FairSpec == Spec /\ Fairness
-----------------------------------------------------------------------------
\* The types: in particular the windows stay within the times of the source.
TypeOK ==
    /\ src \in [Items -> Times] /\ clock \in Times
    /\ status \in Statuses /\ linked \subseteq Kbs
    /\ logs \in [Kinds -> Seq(Row)]
    /\ idx \in [Kbs -> [Items -> Times]]
    /\ work \in [Slots -> Coroutine] /\ loop \in Slots \cup {Nobody}
    /\ calls \in [Callers -> Call]
    /\ script \in Seq([op : Ops, kbs : SUBSET Kbs])
    /\ skipped \in [Kbs -> SUBSET Items] /\ overlap \subseteq Kbs
    /\ doubled \subseteq Kinds
    /\ faults \in 0..MaxFaults /\ requests \in 0..MaxRequests

\* The successor of a sync has all it needs: what lies before its window is
\* indexed as it is in the source, or was skipped by an error.
Covered(k) ==
    \A n \in Scheduled(<<k, "sync">>) :
        LET r == logs[<<k, "sync">>][n] IN
        r.reindex \/ \A x \in Items :
            src[x] # 0 /\ src[x] <= r.start => idx[k][x] = src[x] \/ x \in skipped[k]

\* No item is lost behind the window (poll_range_start), whatever requests,
\* failures, crashes and changes of the source come between the fetch, done
\* and schedule, as long as no rebuild falls into a running sync.
WindowSound == \A k \in Kbs \ overlap : Covered(k)

\* "Re-downloads files from the linked data source": after a rebuild, which
\* deletes the documents, the next sync fetches all items again.
RebuildFetchesAll == \A k \in Kbs : Covered(k)

\* The worker is idle, no request is under way, and no sync of k is due.
Halted(k) ==
    /\ \A i \in Slots : work[i].pc = "none"
    /\ script = <<>> /\ calls[Api].at = "none"
    /\ status # "schedule" \/ Scheduled(<<k, "sync">>) = {} \/ k \notin linked

Stopped(k) ==
    LET q == logs[<<k, "sync">>]
    IN  status = "cancel" \/ (q # <<>> /\ q[Len(q)].status = "cancel")

\* A linked dataset goes on being synchronised, unless a step failed, the user
\* stopped it, or schedule met a task of the same kind that was under way: then
\* the connector may be left with the status of a task that is over, and with
\* it every dataset it is linked to.
NeverStuck ==
    \A k \in linked :
        Halted(k) => faults > 0 \/ Stopped(k) \/ doubled # {}

\* An item that is there is indexed as it is or goes away; skipped batches,
\* rebuilds during a sync and a connector that came to a halt are excepted.
Fresh ==
    \A k \in Kbs, x \in Items :
        src[x] # 0 /\ idx[k][x] # src[x] ~>
            \/ src[x] = 0 \/ idx[k][x] = src[x] \/ x \in skipped[k]
            \/ k \in overlap \/ Halted(k)
=============================================================================
