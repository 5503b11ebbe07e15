------------------------------- MODULE GraphRag -------------------------------
(***************************************************************************)
(* The knowledge graph of a dataset (run_graphrag_for_kb).                 *)
(*                                                                         *)
(* A GraphRAG task extracts a subgraph of each document, merges them one   *)
(* after the other into the graph of the dataset, and then runs the        *)
(* requested phases on the result.  Subgraphs in the document store are    *)
(* checkpoints; markers in Redis tell which phases are done; the merge and *)
(* the phases each hold the Redis lock of the dataset, which expires.      *)
(*                                                                         *)
(* Requests start tasks, cancel them, wipe the graph and remove documents. *)
(* An executor that dies runs its task again from the start (TaskQueue     *)
(* shows that a task has one handler at a time).                           *)
(*                                                                         *)
(* The graph of no document stands for None.  The store (external) is      *)
(* taken to apply each delete, insert and update at once.                  *)
(***************************************************************************)
EXTENDS Integers, FiniteSets

CONSTANTS
    Docs,         \* documents: numbers, in the order of create_time
    Tasks,        \* task ids
    With,         \* phases asked for by the dataset's configuration
    Attempts,     \* merge_retry_attempts, resolution_retry_attempts, ...
    MaxFaults,    \* bound: failures
    MaxRequests,  \* bound: requests
    Nobody        \* no task

Phases == {"resolution", "community"}

ASSUME GraphRagAssumption ==
    /\ Docs \subseteq Nat /\ IsFiniteSet(Docs)
    /\ With \subseteq Phases /\ Nobody \notin Tasks
    /\ Attempts \in Nat \ {0} /\ MaxFaults \in Nat /\ MaxRequests \in Nat

VARIABLES
    docs,       \* documents of the dataset: "absent", "present", "removed"
    graphs,     \* chunks of the kind "graph"
    subs,       \* documents with a chunk of the kind "subgraph"
    reports,    \* documents of the graph the community reports are about
    markers,    \* graphrag:phase:{kb_id}:{phase}
    lock,       \* graphrag_task_{kb_id}: the task whose value it has
    kbTask,     \* kb.graphrag_task_id
    cancelled,  \* {task_id}-cancel
    run,        \* what run_graphrag_for_kb is doing for each task
    expired,    \* history: the lock ran out under its holder
    spoiled,    \* history: a graph was lost half stored or under a task, or
                \* tasks overlapped
    faults, requests

vars == <<docs, graphs, subs, reports, markers, lock, kbTask, cancelled, run, expired,
          spoiled, faults, requests>>
store == <<graphs, subs, reports>>
history == <<expired, spoiled>>
counters == <<faults, requests>>

Graph == [docs : SUBSET Docs, resolved : BOOLEAN]
Chunk == [docs : SUBSET Docs, resolved : BOOLEAN, removed : BOOLEAN]
NoGraph == [docs |-> {}, resolved |-> FALSE]

\* ids: doc_ids of the message; todo: documents to build or to merge; gen: in
\* extraction; ok: subgraphs; graph: final_graph; new: the graph being stored.
Pcs == {"none", "queued", "build", "acquire", "merge", "again", "post", "delete",
        "insert", "mark", "done", "failed", "cancelled"}
Run == [pc : Pcs, ids : SUBSET Docs, todo : SUBSET Docs, gen : SUBSET Docs,
        ok : SUBSET Docs, graph : Graph, new : Graph, for : {"merge", "post"},
        pending : SUBSET Phases, try : 1..Attempts]
NotRun == [pc |-> "none", ids |-> {}, todo |-> {}, gen |-> {}, ok |-> {},
           graph |-> NoGraph, new |-> NoGraph, for |-> "merge", pending |-> {}, try |-> 1]

Ended == {"done", "failed", "cancelled"}
Live(t) == run[t].pc \notin {"none"} \cup Ended
Present == {d \in Docs : docs[d] = "present"}
First(S) == CHOOSE d \in S : \A e \in S : d <= e

Init ==
    /\ docs \in [Docs -> {"absent", "present"}]
    /\ graphs = {} /\ subs = {} /\ reports = {} /\ markers = {}
    /\ lock = Nobody /\ kbTask = Nobody /\ cancelled = {}
    /\ run = [t \in Tasks |-> NotRun]
    /\ expired = FALSE /\ spoiled = FALSE /\ faults = 0 /\ requests = 0

Fault == faults < MaxFaults /\ faults' = faults + 1 /\ UNCHANGED requests
Request == requests < MaxRequests /\ requests' = requests + 1 /\ UNCHANGED faults

Become(t, r) == run' = [run EXCEPT ![t] = r]
Goto(t, pc) == Become(t, [run[t] EXCEPT !.pc = pc])
-----------------------------------------------------------------------------
(***************************************************************************)
(* Requests.                                                               *)
(***************************************************************************)
Upload(d) ==
    /\ Request /\ docs[d] = "absent"
    /\ docs' = [docs EXCEPT ![d] = "present"]
    /\ UNCHANGED <<store, markers, lock, kbTask, cancelled, run, history>>

\* Two tasks that nobody cancelled: the first keeps its graph in memory between
\* its two locked sections and later stores it over the work of the second.
Overlaps == \E t \in Tasks : Live(t) /\ t \notin cancelled

\* run_index: refused while the task of the dataset is running.
RunIndex(t) ==
    /\ Request /\ run[t].pc = "none" /\ Present # {}
    /\ kbTask # Nobody => run[kbTask].pc \in Ended
    /\ Become(t, [NotRun EXCEPT !.pc = "queued", !.ids = Present])
    /\ kbTask' = t
    /\ spoiled' = (spoiled \/ Overlaps)
    /\ UNCHANGED <<docs, store, markers, lock, cancelled, expired>>

WipeStore == graphs' = {} /\ subs' = {} /\ reports' = {} /\ markers' = {}

\* delete_index: the task is cancelled; the graph is kept or wiped.
DeleteIndex ==
    /\ Request /\ kbTask # Nobody
    /\ cancelled' = cancelled \cup {kbTask}
    /\ kbTask' = Nobody
    /\ WipeStore \/ UNCHANGED <<store, markers>>
    /\ UNCHANGED <<docs, lock, run, history>>

\* delete_knowledge_graph: the task is not cancelled.
DeleteGraph ==
    /\ Request
    /\ WipeStore
    /\ kbTask' = Nobody
    /\ spoiled' = (spoiled \/ Overlaps)
    /\ UNCHANGED <<docs, lock, cancelled, run, expired>>

\* remove_document: if the graph was made from d, d is taken out of the
\* source_id of its chunks and the graph is to be rebuilt.  A graph that goes
\* with its last document takes along what a task counts as merged into it.
RemoveDocument(d) ==
    /\ Request /\ docs[d] = "present"
    /\ docs' = [docs EXCEPT ![d] = "removed"]
    /\ \/ /\ \E g \in graphs : d \in g.docs
          /\ LET without == {[g EXCEPT !.docs = @ \ {d}, !.removed = TRUE] : g \in graphs}
             IN  graphs' = {g \in without : g.docs # {}}
          /\ subs' = subs \ {d} /\ reports' = reports \ {d}
       \/ /\ graphs = {} \/ \E g \in graphs : d \notin g.docs
          /\ UNCHANGED store
    /\ spoiled' = (spoiled \/ (Overlaps /\ graphs # {} /\ graphs' = {}))
    /\ UNCHANGED <<markers, lock, kbTask, cancelled, run, expired>>
-----------------------------------------------------------------------------
(***************************************************************************)
(* The lock.                                                               *)
(***************************************************************************)
Locked == {"merge", "post", "delete", "insert", "mark"}
Release(t) == lock' = IF lock = t THEN Nobody ELSE lock

\* The end of run_graphrag_for_kb; finally: kb_lock.release().
End(t, pc) ==
    /\ Goto(t, pc)
    /\ IF run[t].pc \in Locked THEN Release(t) ELSE UNCHANGED lock

LockExpires ==
    /\ lock # Nobody /\ Fault
    /\ lock' = Nobody
    /\ expired' = (expired \/ run[lock].pc \in Locked)
    /\ UNCHANGED <<docs, store, markers, kbTask, cancelled, run, spoiled>>

\* RedisDistributedLock.acquire: a lock with the task's own value is one it held
\* before a crash; it is deleted first,
DropOwn(t) ==
    /\ run[t].pc \in {"acquire", "again"} /\ t \notin cancelled
    /\ lock = t /\ lock' = Nobody
    /\ UNCHANGED <<docs, store, markers, kbTask, cancelled, run, history, counters>>

\* Mutant: the result of lock.acquire() is not looked at.
AcquireAnyway(t) ==
    /\ run[t].pc \in {"acquire", "again"} /\ t \notin cancelled
    /\ lock' = IF lock = Nobody THEN t ELSE lock
    /\ Goto(t, IF run[t].pc = "acquire" THEN "merge" ELSE "post")
    /\ UNCHANGED <<docs, store, markers, kbTask, cancelled, history, counters>>

\* and then set if there is none.
Acquire(t) ==
    /\ run[t].pc \in {"acquire", "again"} /\ t \notin cancelled
    /\ lock = Nobody /\ lock' = t
    /\ Goto(t, IF run[t].pc = "acquire" THEN "merge" ELSE "post")
    /\ UNCHANGED <<docs, store, markers, kbTask, cancelled, history, counters>>

AcquireTimesOut(t) ==
    /\ run[t].pc \in {"acquire", "again"} /\ lock \notin {t, Nobody}
    /\ Fault
    /\ End(t, "failed")
    /\ UNCHANGED <<docs, store, markers, kbTask, cancelled, history>>
-----------------------------------------------------------------------------
(***************************************************************************)
(* The subgraphs.                                                          *)
(***************************************************************************)
Collect(t) ==
    /\ run[t].pc = "queued" /\ t \notin cancelled
    /\ Become(t, [run[t] EXCEPT !.pc = "build", !.todo = run[t].ids])
    /\ UNCHANGED <<docs, store, markers, lock, kbTask, cancelled, history, counters>>

\* build_one: a checkpoint is used; without chunks, or when the graph has the
\* document already, there is no subgraph; else it is extracted.
BuildOne(t, d) ==
    LET r == run[t]
        contained == \E g \in graphs : ~g.removed /\ d \in g.docs
        rest == [r EXCEPT !.todo = @ \ {d}]
    IN  /\ r.pc = "build" /\ d \in r.todo /\ t \notin cancelled
        /\ \/ d \in subs /\ Become(t, [rest EXCEPT !.ok = @ \cup {d}])
           \/ d \notin subs /\ (d \notin Present \/ contained) /\ Become(t, rest)
           \/ d \notin subs /\ d \in Present /\ ~contained
              /\ Become(t, [rest EXCEPT !.gen = @ \cup {d}])
        /\ UNCHANGED <<docs, store, markers, lock, kbTask, cancelled, history, counters>>

\* generate_subgraph: the subgraph is stored.
SaveSubgraph(t, d) ==
    /\ run[t].pc = "build" /\ d \in run[t].gen /\ t \notin cancelled
    /\ Become(t, [run[t] EXCEPT !.gen = @ \ {d}, !.ok = @ \cup {d}])
    /\ subs' = subs \cup {d}
    /\ UNCHANGED <<docs, graphs, reports, markers, lock, kbTask, cancelled, history,
                   counters>>

\* All attempts failed: the document is one of failed_docs.
BuildFails(t, d) ==
    /\ run[t].pc = "build" /\ d \in run[t].gen /\ t \notin cancelled
    /\ Fault
    /\ Become(t, [run[t] EXCEPT !.gen = @ \ {d}])
    /\ UNCHANGED <<docs, store, markers, lock, kbTask, cancelled, history>>

\* The markers are read before the lock is taken.
Built(t) ==
    LET r == run[t]
        pending == With \ markers
    IN  /\ r.pc = "build" /\ r.todo = {} /\ r.gen = {} /\ t \notin cancelled
        /\ \/ /\ r.ok = {}   \* no chunks at all, or nothing to do
              /\ pending = {} \/ \A d \in r.ids : d \notin Present
              /\ Goto(t, "done")
           \/ /\ r.ok # {} \/ pending # {}
              /\ Become(t, [r EXCEPT !.pc = "acquire", !.todo = r.ok, !.pending = pending])
        /\ UNCHANGED <<docs, store, markers, lock, kbTask, cancelled, history, counters>>
-----------------------------------------------------------------------------
(***************************************************************************)
(* The merge, the phases, and the storing of a graph.                      *)
(***************************************************************************)

\* get_graph: one of the stored graphs; a graph that lost a document is
\* composed anew of the stored subgraphs, without those of excl.
Loaded(excl) ==
    IF graphs = {} THEN {NoGraph}
    ELSE {IF g.removed THEN [docs |-> subs \ excl, resolved |-> FALSE]
          ELSE [docs |-> g.docs, resolved |-> g.resolved] : g \in graphs}

\* merge_subgraph_attempt: a document that is in the graph is passed over.
MergeSkips(t) ==
    LET r == run[t] IN
    /\ r.pc = "merge" /\ r.todo # {} /\ t \notin cancelled
    /\ \E g \in Loaded({}) :
         /\ First(r.todo) \in g.docs
         /\ Become(t, [r EXCEPT !.todo = @ \ {First(r.todo)}, !.graph = g, !.try = 1])
    /\ UNCHANGED <<docs, store, markers, lock, kbTask, cancelled, history, counters>>

Merge(t) ==
    LET r == run[t]
        d == First(r.todo)
    IN  /\ r.pc = "merge" /\ r.todo # {} /\ t \notin cancelled
        /\ \E g \in Loaded({}) : d \notin g.docs
        /\ \E g \in Loaded({d}) :
             Become(t, [r EXCEPT !.pc = "delete", !.for = "merge",
                                 !.new = [docs |-> g.docs \cup {d}, resolved |-> FALSE]])
        /\ UNCHANGED <<docs, store, markers, lock, kbTask, cancelled, history, counters>>

\* set_graph: the chunks are ready; the graph and all subgraphs are deleted,
SetDelete(t) ==
    /\ run[t].pc = "delete"
    /\ graphs' = {} /\ subs' = {}
    /\ Goto(t, "insert")
    /\ UNCHANGED <<docs, reports, markers, lock, kbTask, cancelled, history, counters>>

\* and the new graph is inserted with the subgraphs of its documents.
NewChunk(t) == [docs |-> run[t].new.docs, resolved |-> run[t].new.resolved,
                removed |-> FALSE]

SetInsert(t) ==
    LET r == run[t]
        stored == [r EXCEPT !.graph = r.new, !.new = NoGraph, !.try = 1]
    IN  /\ r.pc = "insert"
        /\ graphs' = graphs \cup {NewChunk(t)}
        /\ subs' = subs \cup r.new.docs
        /\ Become(t, IF r.for = "merge"
                     THEN [stored EXCEPT !.pc = "merge", !.todo = @ \ {First(r.todo)}]
                     ELSE [stored EXCEPT !.pc = "mark"])
        /\ UNCHANGED <<docs, reports, markers, lock, kbTask, cancelled, history, counters>>

\* An attempt of _run_with_retry failed; after the last one the task fails.
Retry(t) ==
    LET r == run[t] IN
    IF r.try < Attempts
      THEN /\ Become(t, [r EXCEPT !.pc = r.for, !.new = NoGraph, !.try = @ + 1])
           /\ UNCHANGED lock
      ELSE End(t, "failed")

\* An embedding fails before anything is deleted.
EmbedFails(t) ==
    /\ run[t].pc = "delete" /\ Fault
    /\ Retry(t)
    /\ UNCHANGED <<docs, store, markers, kbTask, cancelled, history>>

\* Batches are inserted side by side: any of the chunks may be there.
InsertedPartly(t) ==
    /\ \E G \in SUBSET {NewChunk(t)} : graphs' = graphs \cup G
    /\ \E S \in SUBSET run[t].new.docs : subs' = subs \cup S
    /\ spoiled' = TRUE

InsertFails(t) ==
    /\ run[t].pc = "insert" /\ Fault
    /\ InsertedPartly(t)
    /\ Retry(t)
    /\ UNCHANGED <<docs, reports, markers, kbTask, cancelled, expired>>

\* Mutant: the pending phases are those read before the merge.
MergedKeepsPending(t) ==
    LET r == run[t] IN
    /\ r.pc = "merge" /\ r.todo = {} /\ t \notin cancelled
    /\ markers' = IF r.ok = {} THEN markers ELSE {}
    /\ Release(t)
    /\ Become(t, [r EXCEPT !.for = "post",
                           !.pc = IF r.pending = {} THEN "done" ELSE "again"])
    /\ UNCHANGED <<docs, store, kbTask, cancelled, history, counters>>

\* All subgraphs are merged: results of the phases are stale.
Merged(t) ==
    LET r == run[t]
        pending == IF r.ok = {} THEN r.pending ELSE With
    IN  /\ r.pc = "merge" /\ r.todo = {} /\ t \notin cancelled
        /\ markers' = IF r.ok = {} THEN markers ELSE {}
        /\ Release(t)
        /\ Become(t, [r EXCEPT !.pending = pending, !.for = "post",
                               !.pc = IF pending = {} THEN "done" ELSE "again"])
        /\ UNCHANGED <<docs, store, kbTask, cancelled, history, counters>>

\* Without a merge the phases use the stored graph; if there is none, that's it.
LoadGraph(t) ==
    LET r == run[t] IN
    /\ r.pc = "post" /\ r.graph.docs = {} /\ t \notin cancelled
    /\ \E g \in Loaded({}) :
         IF g.docs = {} THEN End(t, "done")
         ELSE Become(t, [r EXCEPT !.graph = g]) /\ UNCHANGED lock
    /\ UNCHANGED <<docs, store, markers, kbTask, cancelled, history, counters>>

\* resolve_entities works on a copy of final_graph.
Resolve(t) ==
    LET r == run[t] IN
    /\ r.pc = "post" /\ r.graph.docs # {} /\ "resolution" \in r.pending
    /\ t \notin cancelled
    /\ Become(t, [r EXCEPT !.pc = "delete", !.for = "post",
                           !.new = [docs |-> r.graph.docs, resolved |-> TRUE]])
    /\ UNCHANGED <<docs, store, markers, lock, kbTask, cancelled, history, counters>>

\* Mutant: the key of the marker is not the one that is read.
MarkOtherKey(t) ==
    /\ run[t].pc = "mark"
    /\ markers' = markers \cup {"resolution_done"}
    /\ Become(t, [run[t] EXCEPT !.pc = "post", !.pending = @ \ {"resolution"}])
    /\ UNCHANGED <<docs, store, lock, kbTask, cancelled, history, counters>>

\* set_phase_marker, when resolve_entities has returned.
Mark(t) ==
    /\ run[t].pc = "mark"
    /\ markers' = markers \cup {"resolution"}
    /\ Become(t, [run[t] EXCEPT !.pc = "post", !.pending = @ \ {"resolution"}])
    /\ UNCHANGED <<docs, store, lock, kbTask, cancelled, history, counters>>

\* extract_community: the reports are replaced, and the phase is marked.
Community(t) ==
    LET r == run[t] IN
    /\ r.pc = "post" /\ r.graph.docs # {} /\ r.pending = {"community"}
    /\ t \notin cancelled
    /\ reports' = r.graph.docs
    /\ markers' = markers \cup {"community"}
    /\ Become(t, [r EXCEPT !.pending = {}, !.try = 1])
    /\ UNCHANGED <<docs, graphs, subs, lock, kbTask, cancelled, history, counters>>

\* A phase fails before it stores anything.
PhaseFails(t) ==
    /\ run[t].pc = "post" /\ run[t].graph.docs # {} /\ run[t].pending # {}
    /\ Fault
    /\ Retry(t)
    /\ UNCHANGED <<docs, store, markers, kbTask, cancelled, history>>

Finish(t) ==
    /\ run[t].pc = "post" /\ run[t].graph.docs # {} /\ run[t].pending = {}
    /\ End(t, "done")
    /\ UNCHANGED <<docs, store, markers, kbTask, cancelled, history, counters>>

\* Mutant: the exception of a cancelled task skips the release.
CancelledKeepsLock(t) ==
    /\ t \in cancelled
    /\ run[t].pc \in {"queued", "build", "acquire", "merge", "again", "post"}
    /\ Goto(t, "cancelled")
    /\ UNCHANGED <<docs, store, markers, lock, kbTask, cancelled, history, counters>>

\* _has_cancel_and_exit, at each point that asks; a queued task has no row.
Cancelled(t) ==
    /\ t \in cancelled
    /\ run[t].pc \in {"queued", "build", "acquire", "merge", "again", "post"}
    /\ End(t, "cancelled")
    /\ UNCHANGED <<docs, store, markers, kbTask, cancelled, history, counters>>

\* The executor dies and runs the task again.
Crash(t) ==
    /\ Live(t) /\ run[t].pc # "queued" /\ Fault
    /\ Become(t, [NotRun EXCEPT !.pc = "queued", !.ids = run[t].ids])
    /\ IF run[t].pc = "insert"
         THEN InsertedPartly(t)
         ELSE UNCHANGED <<graphs, subs, spoiled>>
    /\ UNCHANGED <<docs, reports, markers, lock, kbTask, cancelled, expired>>

Step(t) ==
    \/ Collect(t) \/ Built(t) \/ DropOwn(t) \/ Acquire(t) \/ Cancelled(t)
    \/ \E d \in Docs : BuildOne(t, d) \/ SaveSubgraph(t, d)
    \/ MergeSkips(t) \/ Merge(t) \/ SetDelete(t) \/ SetInsert(t) \/ Merged(t)
    \/ LoadGraph(t) \/ Resolve(t) \/ Mark(t) \/ Community(t) \/ Finish(t)

Fails(t) ==
    \/ AcquireTimesOut(t) \/ EmbedFails(t) \/ InsertFails(t) \/ PhaseFails(t) \/ Crash(t)
    \/ \E d \in Docs : BuildFails(t, d)

Next ==
    \/ \E d \in Docs : Upload(d) \/ RemoveDocument(d)
    \/ DeleteIndex \/ DeleteGraph \/ LockExpires
    \/ \E t \in Tasks : RunIndex(t) \/ Step(t) \/ Fails(t)

Spec == Init /\ [][Next]_vars

\* Executors go on; a task that polls for a lock gets it when it is often free.
Fairness == \A t \in Tasks : WF_vars(Step(t)) /\ SF_vars(Acquire(t))

FairSpec == Spec /\ Fairness
-----------------------------------------------------------------------------
\* The types.
TypeOK ==
    /\ docs \in [Docs -> {"absent", "present", "removed"}]
    /\ graphs \subseteq Chunk /\ subs \subseteq Docs /\ reports \subseteq Docs
    /\ markers \subseteq Phases
    /\ lock \in Tasks \cup {Nobody} /\ kbTask \in Tasks \cup {Nobody}
    /\ cancelled \subseteq Tasks
    /\ run \in [Tasks -> Run]
    /\ expired \in BOOLEAN /\ spoiled \in BOOLEAN /\ faults \in 0..MaxFaults /\ requests \in 0..MaxRequests

\* While no lock runs out under its holder, no two tasks are between reading
\* and storing the graph, even when one was cancelled or runs again.
OneWriter ==
    expired \/ \A s, t \in Tasks : run[s].pc \in Locked /\ run[t].pc \in Locked => s = t

\* What the end of the task t promises, if this step is its end.
EndsWell(t) ==
    LET r == run[t]
        kept == r.ok \cap Present
        ends == r.pc # "done" /\ run'[t].pc = "done"
    IN  ends /\ t \notin cancelled /\ ~expired /\ ~spoiled /\ kept # {} =>
          /\ graphs # {}
          /\ \A g \in graphs :
               \/ "resolution" \notin With /\ g.removed
               \/ /\ kept \subseteq g.docs
                  /\ "resolution" \in With => g.resolved
                  /\ "community" \in With => kept \subseteq reports

\* A task that ends well leaves what it promises: the documents it has subgraphs
\* of are in the graph, unless they were removed, and the phases were done on
\* that very graph.  Nothing is promised once the lock ran out under a holder, a
\* graph was stored by halves or deleted with its last document, or tasks overlap.
Finishes == [][\A t \in Tasks : EndsWell(t)]_vars

\* "The knowledge graph does not update until you regenerate": a task that ends
\* well after a document was removed leaves no graph with that document in it.
Regenerates ==
    [][\A t \in Tasks :
         run[t].pc # "done" /\ run'[t].pc = "done" /\ run[t].ids = Present =>
           \A g \in graphs : ~g.removed]_vars

\* Every task ends, and well, unless it is cancelled or something fails.
Completes ==
    \A t \in Tasks : run[t].pc = "queued" ~>
        run[t].pc = "done" \/ t \in cancelled \/ faults > 0
=============================================================================
