------------------------------- MODULE Ingest --------------------------------
(***************************************************************************)
(* Parsing, stopping and removing one document: the requests of the API    *)
(* server against the task rows, the cancel flags and the chunks in the    *)
(* document store, while task executors are inserting chunks.              *)
(*                                                                         *)
(* Every request and every executor does its work in single statements of  *)
(* MySQL, Redis and the document store, and nothing holds a lock across    *)
(* two of them: each statement is an action.  What is still to be done of  *)
(* a request is its plan, a sequence of the names of its statements.       *)
(*                                                                         *)
(* The document is split into the same Parts (page ranges) by every parse. *)
(* The id of a chunk is a hash of its content, so a chunk is named by its  *)
(* part and the batch it is inserted with; batch 0 holds the mother        *)
(* chunks, whose ids no task records.  Delivery of messages (retries, the  *)
(* pending list) is the subject of TaskQueue: here a task with a message   *)
(* is started by some executor, and again after a crash.                   *)
(***************************************************************************)
EXTENDS TaskRow, Sequences, FiniteSets

CONSTANTS
    MaxParts,     \* page ranges of the document
    EmptyParts,   \* those from which no chunk is built
    Batches,      \* batches of main chunks of a part
    Requests,     \* threads of the API server
    Kinds,        \* the requests they serve
    MaxTasks,     \* bound: task rows ever created
    MaxStops,     \* bound: stop, cancel and remove requests
    MaxCrashes,   \* bound: handlers lost with their process
    MaxErrors     \* bound: handlers ended by an exception, expired flags

Parts == 1..MaxParts
Tasks == 1..MaxTasks
Chunks == Parts \X (0..Batches)
AllKinds == {"documents", "chunks", "run", "stop", "cancel", "remove"}

ASSUME IngestAssumption ==
    /\ MaxParts \in Nat \ {0} /\ Batches \in Nat \ {0}
    /\ MaxTasks \in Nat /\ MaxStops \in Nat
    /\ MaxCrashes \in Nat /\ MaxErrors \in Nat
    /\ EmptyParts \subseteq Parts /\ Kinds \subseteq AllKinds

VARIABLES
    run,      \* document.run, or "REMOVED" when the row is gone
    rows,     \* task table: the tasks that have a row,
    prog,     \*   their progress
    ids,      \*   and their chunk_ids
    next,     \* task ids handed out so far, in the order of create_time
    flag,     \* tasks with a cancel flag in Redis
    store,    \* document store: the task that inserted a chunk last, or 0
    queued,   \* tasks with a message that is not acknowledged
    job,      \* handler of a task: program counter, batch, exception raised
    req,      \* requests being served
    stopped,  \* history: tasks flagged by a request that then deleted chunks
    cut,      \* history: flagged tasks whose handler could not clean up
    stale,    \* history: tasks that took over ids of missing chunks
    stops, crashes, errors

vars == <<run, rows, prog, ids, next, flag, store, queued, job, req, stopped,
          cut, stale, stops, crashes, errors>>

table == <<rows, prog, ids>>
api == <<next, req, stale, stops>>
exec == <<queued, job, cut, crashes>>

\* Task ids are handed out part by part.
PartOf(t) == ((t - 1) % MaxParts) + 1
Present == {ch \in Chunks : store[ch] # 0}
Without(chs) == [ch \in Chunks |-> IF ch \in chs THEN 0 ELSE store[ch]]

Off == [pc |-> "off", b |-> 0, fail |-> FALSE]
Done == [plan |-> <<>>, todo |-> {}, flagged |-> {}, base |-> 0,
         made |-> [p \in Parts |-> {}], gone |-> {}, prev |-> FALSE]

Init ==
    /\ run = "UNSTART"
    /\ rows = {}
    /\ prog = [t \in Tasks |-> 0]
    /\ ids = [t \in Tasks |-> {}]
    /\ next = 0
    /\ flag = {}
    /\ store = [ch \in Chunks |-> 0]
    /\ queued = {}
    /\ job = [t \in Tasks |-> Off]
    /\ req = [r \in Requests |-> Done]
    /\ stopped = {} /\ cut = {} /\ stale = {}
    /\ stops = 0 /\ crashes = 0 /\ errors = 0
-----------------------------------------------------------------------------
(***************************************************************************)
(* Requests.                                                               *)
(***************************************************************************)
QueueTasks == <<"config", "drop", "purge", "insert", "begin", "send">>

\* The statements of each request after its first one.
ParseDocuments == <<"rows", "store">> \o QueueTasks
ParseChunks == <<"store", "rows">> \o QueueTasks
StopParsing == <<"tasks", "flag", "mark", "store">>
RemoveDocument == <<"tasks", "flag", "rows", "store">>

\* "documents" is document_api.parse_documents, and _run_sync with run = 1 and
\* "delete"; "chunks" is chunk_api.parse; "run" and "cancel" are _run_sync with
\* run = 1 and run = 2; "stop" is stop_parsing of both files.
Plan(kind) ==
    CASE kind = "documents" -> ParseDocuments
      [] kind = "chunks"    -> ParseChunks
      [] kind = "run"       -> QueueTasks
      [] kind = "stop"      -> StopParsing
      [] kind = "cancel"    -> <<"tasks", "flag", "mark">>
      [] kind = "remove"    -> RemoveDocument

Parses == {"documents", "chunks", "run"}

\* The checks of a request and its first write to the document's row.
Begin(r, kind) ==
    /\ req[r].plan = <<>> /\ run # "REMOVED" /\ kind \in Kinds
    /\ IF kind \in Parses
       THEN /\ next + MaxParts <= MaxTasks
            /\ kind = "chunks" => run # "RUNNING"
            /\ run' = "RUNNING"
            /\ UNCHANGED stops
       ELSE /\ stops < MaxStops /\ stops' = stops + 1
            /\ kind = "remove" \/ run \in {"RUNNING", "CANCEL"}
               \/ \E t \in rows : prog[t] # Full
            /\ run' = IF kind = "remove" THEN "REMOVED" ELSE run
    /\ req' = [req EXCEPT ![r] = [Done EXCEPT !.plan = Plan(kind)]]
    /\ UNCHANGED <<table, next, flag, store, exec, stopped, stale, errors>>

At(r, step) == req[r].plan # <<>> /\ Head(req[r].plan) = step
Tailed(r) == [req[r] EXCEPT !.plan = Tail(@)]
Pass(r) == req' = [req EXCEPT ![r] = IF Len(req[r].plan) = 1 THEN Done ELSE Tailed(r)]

\* TaskService.filter_delete of the rows of the document.
DeleteRows(r) ==
    /\ At(r, "rows") /\ Pass(r)
    /\ rows' = {}
    /\ UNCHANGED <<run, prog, ids, next, flag, store, exec, stopped, stale, stops, errors>>

\* docStoreConn.delete by doc_id.
DeleteChunks(r) ==
    /\ At(r, "store") /\ Pass(r)
    /\ store' = Without(Chunks)
    /\ stopped' = stopped \cup (req[r].flagged \cap flag)
    /\ UNCHANGED <<run, table, next, flag, exec, stale, stops, errors>>

\* cancel_all_task_of: the query, then one SET for each row it returned.
QueryTasks(r) ==
    /\ At(r, "tasks")
    /\ req' = [req EXCEPT ![r] = [Tailed(r) EXCEPT !.todo = rows]]
    /\ UNCHANGED <<run, table, next, flag, store, exec, stopped, stale, stops,
                   errors>>

SetFlag(r) ==
    /\ At(r, "flag")
    /\ \/ /\ req[r].todo = {} /\ Pass(r)
          /\ UNCHANGED <<flag, stopped>>
       \/ \E t \in req[r].todo :
            /\ flag' = flag \cup {t}
            /\ stopped' = stopped \ {t}
            /\ req' = [req EXCEPT ![r] =
                         [req[r] EXCEPT !.todo = @ \ {t},
                                        !.flagged = @ \cup {t}]]
    /\ UNCHANGED <<run, table, next, store, exec, stale, stops, errors>>

\* A Redis error in the SET is logged and the loop goes on.
SetFlagFails(r) ==
    /\ At(r, "flag") /\ errors < MaxErrors /\ errors' = errors + 1
    /\ \E t \in req[r].todo :
         req' = [req EXCEPT ![r] = [req[r] EXCEPT !.todo = @ \ {t}]]
    /\ UNCHANGED <<run, table, next, flag, store, exec, stopped, stale, stops>>

\* update_by_id with run = CANCEL; no row matches after a removal.
MarkCancelled(r) ==
    /\ At(r, "mark") /\ Pass(r)
    /\ run' = IF run = "REMOVED" THEN run ELSE "CANCEL"
    /\ UNCHANGED <<table, next, flag, store, exec, stopped, stale, stops, errors>>

\* reuse_prev_task_chunks: the newest previous task of the same part gives its
\* ids away if it is finished and has some.
Reused(p) ==
    LET same == {t \in rows : PartOf(t) = p}
        prev == CHOOSE t \in same : \A u \in same : u <= t
    IN IF same # {} /\ prog[prev] = Full THEN ids[prev] ELSE {}

\* queue_tasks up to the reuse loop.  get_chunking_config finds nothing once
\* the document is removed, which ends the request with an exception.
ReadConfig(r) ==
    /\ At(r, "config")
    /\ IF run = "REMOVED"
       THEN /\ req' = [req EXCEPT ![r] = Done]
            /\ UNCHANGED <<next, stale>>
       ELSE LET made == [p \in Parts |-> Reused(p)] IN
            /\ next + MaxParts <= MaxTasks
            /\ req' = [req EXCEPT ![r] =
                 [Tailed(r) EXCEPT
                    !.base = next, !.made = made, !.prev = (rows # {}),
                    !.gone = (UNION {ids[t] : t \in rows})
                               \ (UNION {made[p] : p \in Parts})]]
            /\ next' = next + MaxParts
            /\ stale' = stale \cup
                 {next + p : p \in {q \in Parts : ~(made[q] \subseteq Present)}}
    /\ UNCHANGED <<run, table, flag, store, exec, stopped, stops, errors>>

\* The rest of queue_tasks: the previous rows and the chunks that were not
\* taken over are deleted, the new rows inserted, begin2parse, XADD.
DropPrevious(r) ==
    /\ At(r, "drop") /\ Pass(r)
    /\ rows' = IF req[r].prev THEN {} ELSE rows
    /\ UNCHANGED <<run, prog, ids, next, flag, store, exec, stopped, stale, stops, errors>>

PurgePrevious(r) ==
    /\ At(r, "purge") /\ Pass(r)
    /\ store' = Without(req[r].gone)
    /\ UNCHANGED <<run, table, next, flag, exec, stopped, stale, stops, errors>>

New(r) == (req[r].base + 1)..(req[r].base + MaxParts)
Taken(r, t) == req[r].made[PartOf(t)]

InsertRows(r) ==
    /\ At(r, "insert") /\ Pass(r)
    /\ rows' = rows \cup New(r)
    /\ prog' = [t \in Tasks |-> IF t \notin New(r) THEN prog[t]
                               ELSE IF Taken(r, t) = {} THEN 0 ELSE Full]
    /\ ids' = [t \in Tasks |-> IF t \in New(r) THEN Taken(r, t) ELSE ids[t]]
    /\ UNCHANGED <<run, next, flag, store, exec, stopped, stale, stops, errors>>

BeginParse(r) ==
    /\ At(r, "begin") /\ Pass(r)
    /\ run' = IF run = "REMOVED" THEN run ELSE "RUNNING"
    /\ UNCHANGED <<table, next, flag, store, exec, stopped, stale, stops, errors>>

SendTasks(r) ==
    /\ At(r, "send") /\ Pass(r)
    /\ queued' = queued \cup {t \in New(r) : Taken(r, t) = {}}
    /\ UNCHANGED <<run, table, next, flag, store, job, cut, crashes, stopped,
                   stale, stops, errors>>
-----------------------------------------------------------------------------
(***************************************************************************)
(* Executors.                                                              *)
(***************************************************************************)
Goto(t, pc, b, fail) ==
    job' = [job EXCEPT ![t] = [pc |-> pc, b |-> b, fail |-> fail]]

\* set_progress: a flagged task is marked failed whatever is reported, and
\* nothing is written when the row is gone.
Report(t, p) ==
    prog' = IF t \in rows
            THEN [prog EXCEPT ![t] =
                    UpdateProgress(@, IF t \in flag THEN Bad ELSE p)]
            ELSE prog

\* collect: get_task joins the task with its document and resets the progress;
\* without them, or when the flag is set, the message is acknowledged.
Collect(t) ==
    LET found == t \in rows /\ run # "REMOVED" IN
    /\ t \in queued /\ job[t].pc = "off"
    /\ prog' = IF found THEN [prog EXCEPT ![t] = 0] ELSE prog
    /\ IF found /\ t \notin flag
       THEN Goto(t, "build", 0, FALSE) /\ UNCHANGED queued
       ELSE queued' = queued \ {t} /\ UNCHANGED job
    /\ UNCHANGED <<run, rows, ids, flag, store, api, stopped, cut, crashes, errors>>

\* build_chunks yields nothing for some parts.
NoChunks(t) == PartOf(t) \in EmptyParts

\* handle and _run_standard_chunking up to the insertion.
Build(t) ==
    /\ job[t].pc = "build"
    /\ IF t \in flag
       THEN Report(t, Bad) /\ Goto(t, "finally", 0, FALSE)
       ELSE IF NoChunks(t)
       THEN Report(t, Full) /\ Goto(t, "finally", 0, FALSE)
       ELSE Report(t, 1) /\ Goto(t, "insert", 0, FALSE)
    /\ UNCHANGED <<run, rows, ids, flag, store, queued, api, stopped, cut, crashes,
                   errors>>

\* insert_chunks: one batch goes to the document store.
InsertBatch(t) ==
    /\ job[t].pc = "insert"
    /\ store' = [store EXCEPT ![<<PartOf(t), job[t].b>>] = t]
    /\ Goto(t, "inserted", job[t].b, FALSE)
    /\ UNCHANGED <<run, table, flag, queued, api, stopped, cut, crashes, errors>>

\* Defective variants: the loop ends one batch early (FinishedHasChunks), the
\* loop goes on past the last one (TypeOK).
InsertedVariant(t, last) ==
    LET b == job[t].b IN
    /\ job[t].pc = "inserted"
    /\ Goto(t, IF b < last THEN "insert" ELSE "index", b + 1, FALSE)
    /\ UNCHANGED <<run, table, flag, store, queued, api, stopped, cut, crashes, errors>>
InsertedEarly(t) == InsertedVariant(t, Batches - 1)
InsertedLate(t) == InsertedVariant(t, Batches + 1)

\* The check after the batch and update_chunk_ids, which matches no row when
\* the task was deleted and reports success all the same.
Inserted(t) ==
    LET b == job[t].b IN
    /\ job[t].pc = "inserted"
    /\ IF t \in flag
       THEN Report(t, Bad) /\ Goto(t, "finally", 0, FALSE) /\ UNCHANGED ids
       ELSE /\ Goto(t, IF b < Batches THEN "insert" ELSE "index", b + 1, FALSE)
            /\ ids' = IF t \in rows /\ b > 0
                      THEN [ids EXCEPT ![t] = {PartOf(t)} \X (1..b)]
                      ELSE ids
            /\ UNCHANGED prog
    /\ UNCHANGED <<run, rows, flag, store, queued, api, stopped, cut, crashes,
                   errors>>

\* The last check, increment_chunk_num (a LookupError when the document is
\* gone) and the report of 1.0.
Complete(t) ==
    /\ job[t].pc = "index"
    /\ IF t \in flag
       THEN Report(t, Bad) /\ Goto(t, "finally", 0, FALSE)
       ELSE IF run = "REMOVED"
       THEN UNCHANGED prog /\ Goto(t, "finally", 0, TRUE)
       ELSE Report(t, Full) /\ Goto(t, "finally", 0, FALSE)
    /\ UNCHANGED <<run, rows, ids, flag, store, queued, api, stopped, cut, crashes,
                   errors>>

\* An exception while building or inserting; a failed insertion may have
\* stored the batch.
Fail(t) ==
    /\ errors < MaxErrors /\ errors' = errors + 1
    /\ job[t].pc \in {"build", "insert"}
    /\ \/ UNCHANGED store
       \/ /\ job[t].pc = "insert"
          /\ store' = [store EXCEPT ![<<PartOf(t), job[t].b>>] = t]
    /\ Goto(t, "finally", 0, TRUE)
    /\ UNCHANGED <<run, table, flag, queued, api, stopped, cut, crashes>>

\* Defective variant for CancelLeavesNothing: only a handler that was stopped
\* by the flag cleans up, one that failed does not.
FinallyUnlessFailed(t) ==
    /\ job[t].pc = "finally"
    /\ Goto(t, IF t \in flag /\ ~job[t].fail THEN "wipe" ELSE "end", 0, job[t].fail)
    /\ UNCHANGED <<run, table, flag, store, queued, api, stopped, cut, crashes,
                   errors>>

\* TaskHandler.handle_task: the finally block deletes the chunks of the
\* document, not of the task, when the task is cancelled.
Finally(t) ==
    /\ job[t].pc = "finally"
    /\ Goto(t, IF t \in flag THEN "wipe" ELSE "end", 0, job[t].fail)
    /\ UNCHANGED <<run, table, flag, store, queued, api, stopped, cut, crashes,
                   errors>>

\* has_canceled swallows a Redis error and says no.
FinallyUnread(t) ==
    /\ job[t].pc = "finally" /\ errors < MaxErrors /\ errors' = errors + 1
    /\ Goto(t, "end", 0, job[t].fail)
    /\ cut' = IF t \in flag THEN cut \cup {t} ELSE cut
    /\ UNCHANGED <<run, table, flag, store, queued, api, stopped, crashes>>

Wipe(t) ==
    /\ job[t].pc = "wipe"
    /\ store' = Without(Chunks)
    /\ Goto(t, "end", 0, job[t].fail)
    /\ UNCHANGED <<run, table, flag, queued, api, stopped, cut, crashes, errors>>

\* An error of the document store is logged and forgotten.
WipeFails(t) ==
    /\ job[t].pc = "wipe" /\ errors < MaxErrors /\ errors' = errors + 1
    /\ Goto(t, "end", 0, job[t].fail)
    /\ cut' = cut \cup {t}
    /\ UNCHANGED <<run, table, flag, store, queued, api, stopped, crashes>>

\* handle_task of task_executor.py: the exception is reported, the message
\* acknowledged.
End(t) ==
    /\ job[t].pc = "end"
    /\ IF job[t].fail THEN Report(t, Bad) ELSE UNCHANGED prog
    /\ Goto(t, "off", 0, FALSE)
    /\ queued' = queued \ {t}
    /\ UNCHANGED <<run, rows, ids, flag, store, api, stopped, cut, crashes, errors>>

\* The process dies; the message is delivered again.
Crash(t) ==
    /\ crashes < MaxCrashes /\ crashes' = crashes + 1
    /\ job[t].pc # "off"
    /\ Goto(t, "off", 0, FALSE)
    /\ cut' = IF t \in flag THEN cut \cup {t} ELSE cut
    /\ UNCHANGED <<run, table, flag, store, queued, api, stopped, errors>>

\* The flag lives for an hour.
Expire(t) ==
    /\ errors < MaxErrors /\ errors' = errors + 1
    /\ t \in flag
    /\ flag' = flag \ {t}
    /\ stopped' = stopped \ {t}
    /\ UNCHANGED <<run, table, store, api, exec>>

\* The sync thread of the server (the races of _sync_progress are in DocSync).
Sync ==
    /\ run \notin {"CANCEL", "REMOVED"} /\ rows # {}
    /\ run' = IF \E t \in rows : Unfinished(prog[t]) THEN "RUNNING"
              ELSE IF \E t \in rows : prog[t] = Bad THEN "FAIL" ELSE "DONE"
    /\ UNCHANGED <<table, flag, store, api, exec, stopped, errors>>

Request(r) ==
    \/ \E kind \in AllKinds : Begin(r, kind)
    \/ DeleteRows(r) \/ DeleteChunks(r)
    \/ QueryTasks(r) \/ SetFlag(r) \/ SetFlagFails(r) \/ MarkCancelled(r)
    \/ ReadConfig(r) \/ DropPrevious(r) \/ PurgePrevious(r)
    \/ InsertRows(r) \/ BeginParse(r) \/ SendTasks(r)

Handler(t) ==
    \/ Collect(t) \/ Build(t) \/ InsertBatch(t) \/ Inserted(t) \/ Complete(t)
    \/ Fail(t) \/ Finally(t) \/ FinallyUnread(t) \/ Wipe(t) \/ WipeFails(t)
    \/ End(t) \/ Crash(t) \/ Expire(t)

Next ==
    \/ \E r \in Requests : Request(r)
    \/ \E t \in Tasks : Handler(t)
    \/ Sync

Spec == Init /\ [][Next]_vars
-----------------------------------------------------------------------------
Plans == {SubSeq(Plan(kind), i, Len(Plan(kind))) : kind \in AllKinds, i \in 1..9}

\* Every variable has its type; a handler inserts no batch past the last one.
TypeOK ==
    /\ run \in {"UNSTART", "RUNNING", "CANCEL", "DONE", "FAIL", "REMOVED"}
    /\ rows \subseteq Tasks /\ flag \subseteq Tasks /\ queued \subseteq Tasks
    /\ prog \in [Tasks -> Progress]
    /\ ids \in [Tasks -> SUBSET Chunks]
    /\ next \in 0..MaxTasks
    /\ store \in [Chunks -> 0..MaxTasks]
    /\ job \in [Tasks -> [pc : {"off", "build", "insert", "inserted", "index",
                                "finally", "wipe", "end"},
                          b : 0..(Batches + 1), fail : BOOLEAN]]
    /\ \A t \in Tasks : job[t].pc \in {"insert", "inserted"} => job[t].b <= Batches
    /\ \A r \in Requests : req[r].plan \in Plans
    /\ stopped \subseteq flag /\ cut \subseteq Tasks /\ stale \subseteq Tasks
    /\ stops \in 0..MaxStops /\ crashes \in 0..MaxCrashes
    /\ errors \in 0..MaxErrors

\* Stopping or removing a document leaves none of the chunks of the tasks it
\* cancelled: whichever way the deletion by the request, the insertions and
\* checks of the handler and its own deletion interleave, once both are over
\* no chunk that such a task inserted last is in the store.  (Excepted are a
\* handler that was killed after it was cancelled, one that met an error when
\* it read the flag or deleted, and an expired flag.)
CancelLeavesNothing ==
    \A t \in Tasks : t \in stopped \ cut /\ job[t].pc = "off" =>
        \A ch \in Chunks : store[ch] # t

\* A task with progress 1.0 has its chunks in the store, also after crashes and
\* repeated attempts, when it took over the chunks of an earlier task, and when
\* an earlier parse is still being worked on.  (Before the first stop, and with
\* one request at a time; the requests below break it.)
FinishedHasChunks ==
    stops = 0 /\ (\A r \in Requests : req[r].plan = <<>>) =>
        \A t \in rows : prog[t] = Full /\ ~NoChunks(t) =>
            {PartOf(t)} \X (0..Batches) \subseteq Present

\* "Cancel all running tasks first": when remove_document goes on to delete,
\* every handler at work for the document has its flag set.
AllRunningCancelled ==
    \A r \in Requests :
        run = "REMOVED" /\ At(r, "store") =>
            \A t \in Tasks : job[t].pc \notin {"off", "end"} => t \in flag

\* "Chunks can only be reused if: [...] The previous task has valid chunk IDs":
\* the chunks a new task takes over are in the store.
ReusedAreValid == stale = {}
=============================================================================
