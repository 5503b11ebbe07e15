------------------------------- MODULE DocSync -------------------------------
(***************************************************************************)
(* The status of one document (document.run and document.progress) and how *)
(* it follows the progress of the document's tasks.                        *)
(*                                                                         *)
(* The status is computed from the tasks and written back by               *)
(* DocumentService._sync_progress, which is run by the thread of the       *)
(* server every six seconds for the documents get_unfinished_docs selects, *)
(* and by every executor when one of its tasks has ended                   *)
(* (PipelineOperationLogService.create, update_progress_immediately).  It  *)
(* reads the tasks, then the document, then writes: requests, executors    *)
(* and other runs of it come in between.                                   *)
(*                                                                         *)
(* Tasks of the kinds that freeze the progress of a parsed document        *)
(* (GraphRAG, RAPTOR, mind maps) are left out.                             *)
(***************************************************************************)
EXTENDS TaskRow, FiniteSets

CONSTANTS
    Tasks,         \* the tasks a parse creates
    Server,        \* the thread of ragflow_server.py
    Executors,     \* executors that record the end of a task
    MaxReceives,   \* bound: deliveries of a task after each parse
    MaxRequests    \* bound: requests that parse, stop or cancel

ASSUME DocSyncAssumption ==
    /\ Tasks # {} /\ IsFiniteSet(Tasks) /\ Server \notin Executors
    /\ MaxReceives \in Nat /\ MaxRequests \in Nat

VARIABLES
    run, dprog,    \* document.run and document.progress
    rows, prog,    \* task table: the tasks with a row, their progress
    received,      \* how often a task was delivered since its row exists
    api,           \* the request being served: what it does next
    seen,          \* document.run as _cancel_task read it
    sync,          \* runs of _sync_progress: program counter and result
    requests

vars == <<run, dprog, rows, prog, received, api, seen, sync, requests>>

Syncers == {Server} \cup Executors
doc == <<run, dprog>>
tasks == <<rows, prog, received>>
request == <<api, seen, requests>>

Idle == [pc |-> "idle", status |-> "RUNNING", prg |-> 0]

Init ==
    /\ run = "UNSTART" /\ dprog = 0
    /\ rows = {} /\ prog = [t \in Tasks |-> 0]
    /\ received = [t \in Tasks |-> 0]
    /\ api = "idle" /\ seen = "UNSTART" /\ requests = 0
    /\ sync = [s \in Syncers |-> Idle]
-----------------------------------------------------------------------------
(***************************************************************************)
(* Requests, one at a time.                                                *)
(***************************************************************************)
Accept == api = "idle" /\ requests < MaxRequests /\ requests' = requests + 1

\* parse_documents: RUNNING and 0, the rows are deleted, queue_tasks inserts
\* new ones, begin2parse writes RUNNING and a small positive progress.
ParseStart ==
    /\ Accept /\ api' = "delete"
    /\ run' = "RUNNING" /\ dprog' = 0
    /\ UNCHANGED <<tasks, seen, sync>>

ParseDelete ==
    /\ api = "delete" /\ api' = "insert"
    /\ rows' = {}
    /\ UNCHANGED <<doc, prog, received, seen, sync, requests>>

ParseInsert ==
    /\ api = "insert" /\ api' = "begin"
    /\ rows' = Tasks
    /\ prog' = [t \in Tasks |-> 0]
    /\ received' = [t \in Tasks |-> 0]
    /\ UNCHANGED <<doc, seen, sync, requests>>

ParseBegin ==
    /\ api = "begin" /\ api' = "idle"
    /\ run' = "RUNNING" /\ dprog' = 1
    /\ UNCHANGED <<tasks, seen, sync, requests>>

\* stop_parsing writes CANCEL whatever happened since its check.
Stop ==
    /\ Accept /\ api' = "mark"
    /\ run \in {"RUNNING", "CANCEL"} \/ \E t \in rows : prog[t] # Full
    /\ UNCHANGED <<doc, tasks, seen, sync>>

MarkCancelled ==
    /\ api = "mark" /\ api' = "idle"
    /\ run' = "CANCEL" /\ dprog' = 0
    /\ UNCHANGED <<tasks, seen, sync, requests>>

\* _cancel_task: an unfinished row gets -1; the document is read, and
\* cancelled if it was running when it was read.
CancelTask(t) ==
    /\ Accept /\ api' = "read" /\ t \in rows
    /\ prog' = IF Unfinished(prog[t]) THEN [prog EXCEPT ![t] = Bad] ELSE prog
    /\ UNCHANGED <<doc, rows, received, seen, sync>>

CancelRead ==
    /\ api = "read" /\ api' = "write"
    /\ seen' = run
    /\ UNCHANGED <<doc, tasks, sync, requests>>

CancelWrite ==
    /\ api = "write" /\ api' = "idle"
    /\ IF seen = "RUNNING" THEN run' = "CANCEL" /\ dprog' = 0 ELSE UNCHANGED doc
    /\ UNCHANGED <<tasks, seen, sync, requests>>
-----------------------------------------------------------------------------
(***************************************************************************)
(* Executors.                                                              *)
(***************************************************************************)

\* get_task resets the progress, or gives the task up.
Receive(t) ==
    /\ t \in rows /\ received[t] < MaxReceives
    /\ received' = [received EXCEPT ![t] = @ + 1]
    /\ \E p \in {0, Bad} : prog' = [prog EXCEPT ![t] = p]
    /\ UNCHANGED <<doc, rows, request, sync>>

\* TaskService.update_progress.
Report(t) ==
    /\ t \in rows /\ received[t] > 0
    /\ \E p \in {1, Full, Bad} :
         prog' = [prog EXCEPT ![t] = UpdateProgress(@, p)]
    /\ UNCHANGED <<doc, rows, received, request, sync>>
-----------------------------------------------------------------------------
(***************************************************************************)
(* _sync_progress.                                                         *)
(***************************************************************************)
Goto(s, pc) == sync' = [sync EXCEPT ![s].pc = pc]

\* Defective variant for DoneIsShown: failed documents are not looked at again.
SelectUnfinishedOnly ==
    /\ sync[Server].pc = "idle" /\ run # "CANCEL"
    /\ dprog = 1 \/ \E t \in rows : Unfinished(prog[t])
    /\ Goto(Server, "tasks")
    /\ UNCHANGED <<doc, tasks, request>>

\* get_unfinished_docs.
Select ==
    /\ sync[Server].pc = "idle" /\ run # "CANCEL"
    /\ \/ 0 < dprog /\ dprog < Full
       \/ \E t \in rows : Unfinished(prog[t])
       \/ dprog = Bad /\ run = "FAIL" /\ \E t \in rows : prog[t] >= 0
    /\ Goto(Server, "tasks")
    /\ UNCHANGED <<doc, tasks, request>>

\* update_progress_immediately, when a task of the document has ended.
Immediate(s) ==
    /\ sync[s].pc = "idle" /\ \E t \in Tasks : received[t] > 0
    /\ Goto(s, "tasks")
    /\ UNCHANGED <<doc, tasks, request>>

\* The mean of the progress of the tasks, failed ones counting as 0: it is 0
\* only if all of them are.
Mean == IF \A t \in rows : prog[t] <= 0 THEN 0 ELSE 1

\* Defective variant for TypeOK: a failed document shows the mean.
ReadTasksMeanOfFailed(s) ==
    /\ sync[s].pc = "tasks"
    /\ sync' = [sync EXCEPT ![s] =
         IF rows = {} THEN Idle
         ELSE [pc |-> "doc", prg |-> Mean,
               status |-> IF \E t \in rows : Unfinished(prog[t]) THEN "RUNNING"
                          ELSE IF \E t \in rows : prog[t] = Bad THEN "FAIL"
                          ELSE "DONE"]]
    /\ UNCHANGED <<doc, tasks, request>>

\* TaskService.query; without tasks the document is skipped.
ReadTasks(s) ==
    /\ sync[s].pc = "tasks"
    /\ sync' = [sync EXCEPT ![s] =
         IF rows = {} THEN Idle
         ELSE IF \E t \in rows : Unfinished(prog[t])
         THEN [pc |-> "doc", status |-> "RUNNING", prg |-> Mean]
         ELSE IF \E t \in rows : prog[t] = Bad
         THEN [pc |-> "doc", status |-> "FAIL", prg |-> Bad]
         ELSE [pc |-> "doc", status |-> "DONE", prg |-> Full]]
    /\ UNCHANGED <<doc, tasks, request>>

\* A cancelled document is skipped.
ReadDoc(s) ==
    /\ sync[s].pc = "doc"
    /\ sync' = [sync EXCEPT ![s] = IF run = "CANCEL" THEN Idle
                                   ELSE [@ EXCEPT !.pc = "write"]]
    /\ UNCHANGED <<doc, tasks, request>>

\* Defective variant for CancelKept: the UPDATE has no condition on run.
WriteAlways(s) ==
    /\ sync[s].pc = "write"
    /\ run' = sync[s].status
    /\ dprog' = IF sync[s].prg # 0 THEN sync[s].prg ELSE dprog
    /\ sync' = [sync EXCEPT ![s] = Idle]
    /\ UNCHANGED <<tasks, request>>

\* Defective variant for EndsAgree: only a progress that advances is stored.
WriteAdvancing(s) ==
    /\ sync[s].pc = "write"
    /\ IF run = "CANCEL" THEN UNCHANGED doc
       ELSE /\ run' = sync[s].status
            /\ dprog' = IF sync[s].prg > dprog THEN sync[s].prg ELSE dprog
    /\ sync' = [sync EXCEPT ![s] = Idle]
    /\ UNCHANGED <<tasks, request>>

\* The UPDATE, with its condition; a mean of 0 is not stored.
Write(s) ==
    /\ sync[s].pc = "write"
    /\ IF run = "CANCEL" THEN UNCHANGED doc
       ELSE /\ run' = sync[s].status
            /\ dprog' = IF sync[s].prg # 0 THEN sync[s].prg ELSE dprog
    /\ sync' = [sync EXCEPT ![s] = Idle]
    /\ UNCHANGED <<tasks, request>>

Api ==
    \/ ParseStart \/ ParseDelete \/ ParseInsert \/ ParseBegin
    \/ Stop \/ MarkCancelled
    \/ (\E t \in Tasks : CancelTask(t)) \/ CancelRead \/ CancelWrite

Syncing(s) == ReadTasks(s) \/ ReadDoc(s) \/ Write(s)

Next ==
    \/ Api
    \/ \E t \in Tasks : Receive(t) \/ Report(t)
    \/ Select
    \/ \E s \in Executors : Immediate(s)
    \/ \E s \in Syncers : Syncing(s)

Spec == Init /\ [][Next]_vars

\* A request that was begun ends, a run of _sync_progress that was begun ends,
\* and the loop of the server selects again and again.
Fairness ==
    /\ WF_vars(ParseDelete \/ ParseInsert \/ ParseBegin \/ MarkCancelled
               \/ CancelRead \/ CancelWrite)
    /\ WF_vars(Select)
    /\ \A s \in Syncers : WF_vars(Syncing(s))

FairSpec == Spec /\ Fairness
-----------------------------------------------------------------------------
Status == {"UNSTART", "RUNNING", "CANCEL", "DONE", "FAIL"}
Results == [status : {"RUNNING"}, prg : {0, 1}]
           \cup {[status |-> "DONE", prg |-> Full], [status |-> "FAIL", prg |-> Bad]}

\* Every variable has its type, and what a run of _sync_progress is about to
\* write says the same in both columns.
TypeOK ==
    /\ run \in Status /\ dprog \in Progress /\ seen \in Status
    /\ rows \subseteq Tasks /\ prog \in [Tasks -> Progress]
    /\ received \in [Tasks -> 0..MaxReceives]
    /\ api \in {"idle", "delete", "insert", "begin", "mark", "read", "write"}
    /\ requests \in 0..MaxRequests
    /\ sync \in [Syncers -> [pc : {"idle", "tasks", "doc", "write"},
                            status : {"RUNNING", "DONE", "FAIL"}, prg : Progress]]
    /\ \A s \in Syncers : [status |-> sync[s].status, prg |-> sync[s].prg] \in Results

\* A document that is reported DONE shows 100% and a failed one -1, although
\* run and progress are also written apart: begin2parse, stop and the UPDATE
\* of a mean of 0 never leave a progress behind that belongs to the other end.
EndsAgree ==
    /\ run = "DONE" => dprog = Full
    /\ run = "FAIL" => dprog = Bad

\* A cancellation stands: whatever _sync_progress read before it, only a new
\* parse takes the document out of CANCEL.
CancelKept ==
    [][run = "CANCEL" /\ run' # "CANCEL" => ParseStart \/ ParseBegin]_vars

\* A RUNNING that was computed before the tasks ended and written, without a
\* progress, after another run of _sync_progress had written the end: such a
\* document is selected by get_unfinished_docs no more.
Masked == run = "RUNNING" /\ dprog \in {Bad, Full}

\* When all tasks stay finished the document is shown as DONE, also if it was
\* shown as failed before (unless it was cancelled, or the end was masked).
DoneIsShown ==
    <>[](rows # {} /\ \A t \in rows : prog[t] = Full)
        => <>[](run \in {"DONE", "CANCEL"} \/ Masked)
=============================================================================
