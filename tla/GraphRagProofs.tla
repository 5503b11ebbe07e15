---------------------------- MODULE GraphRagProofs ----------------------------
(***************************************************************************)
(* Proofs about GraphRag: the types, and that the lock of a dataset keeps  *)
(* its writers apart and what a task that ends well leaves, for any number *)
(* of documents, tasks, attempts, faults and requests.                     *)
(*                                                                         *)
(* OneWriter is not inductive: that a second task does not get in follows  *)
(* from who holds the lock.  Holder says so, and only while no lock ran    *)
(* out under its holder.                                                   *)
(***************************************************************************)
EXTENDS GraphRag, WellFoundedInduction, TLAPS

\* A task between reading and storing the graph has the lock.
Holder == expired \/ \A t \in Tasks : run[t].pc \in Locked => lock = t

Inv == TypeOK /\ Holder

\* The part of TypeOK a step of a task does not touch by changing its record.
Others ==
    /\ docs \in [Docs -> {"absent", "present", "removed"}]
    /\ graphs \subseteq Chunk /\ subs \subseteq Docs /\ reports \subseteq Docs
    /\ markers \subseteq Phases
    /\ lock \in Tasks \cup {Nobody} /\ kbTask \in Tasks \cup {Nobody}
    /\ cancelled \subseteq Tasks
    /\ expired \in BOOLEAN /\ spoiled \in BOOLEAN
    /\ faults \in 0..MaxFaults /\ requests \in 0..MaxRequests

LEMMA Parts == TypeOK <=> Others /\ run \in [Tasks -> Run]
  BY DEF TypeOK, Others

\* The record of one task is replaced: what has to be shown about it.
LEMMA Replaced ==
  ASSUME NEW t \in Tasks, NEW r \in Run, TypeOK, Become(t, r), Others'
  PROVE  TypeOK'
<1>1. run' \in [Tasks -> Run]
  BY DEF TypeOK, Become
<1> QED BY <1>1 DEF TypeOK, Others

\* A task that keeps the lock it had, or had no use for it and has none now.
LEMMA KeepsLock ==
  ASSUME NEW t \in Tasks, NEW r \in Run, TypeOK, Holder, Become(t, r),
         lock' = lock, expired' = expired,
         r.pc \in Locked => run[t].pc \in Locked
  PROVE  Holder'
<1>1. \A s \in Tasks : run'[s] = IF s = t THEN r ELSE run[s]
  BY DEF TypeOK, Become
<1> QED BY <1>1 DEF Holder

\* A task that leaves the locked part.
LEMMA GivesUpLock ==
  ASSUME NEW t \in Tasks, NEW r \in Run, TypeOK, Holder, Become(t, r),
         Release(t), expired' = expired, r.pc \notin Locked
  PROVE  Holder'
<1>1. \A s \in Tasks : run'[s] = IF s = t THEN r ELSE run[s]
  BY DEF TypeOK, Become
<1> QED BY <1>1 DEF Holder, Release

\* The bounds, and the records of no graph and of no task.
LEMMA Bounds == 1 \in 1..Attempts /\ 0 \in 0..MaxFaults /\ 0 \in 0..MaxRequests
  BY GraphRagAssumption

LEMMA NoGraphType == NoGraph \in Graph
  BY DEF NoGraph, Graph

LEMMA NotRunType == NotRun \in Run
  BY NoGraphType, GraphRagAssumption DEF NotRun, Run, Pcs

\* The graphs that may be read from the store.
LEMMA LoadedType ==
  ASSUME TypeOK, NEW excl
  PROVE  Loaded(excl) \subseteq Graph
<1>1. ASSUME NEW g \in graphs
      PROVE  /\ [docs |-> subs \ excl, resolved |-> FALSE] \in Graph
             /\ [docs |-> g.docs, resolved |-> g.resolved] \in Graph
  BY DEF TypeOK, Graph, Chunk
<1> QED BY <1>1, NoGraphType DEF Loaded

\* The document that is merged next.
LEMMA FirstType ==
  ASSUME NEW S \in SUBSET Docs, S # {}
  PROVE  First(S) \in S /\ First(S) \in Docs
<1> DEFINE R == OpToRel(<, Nat)
<1>1. IsWellFoundedOn(R, Nat)
  BY NatLessThanWellFounded
<1>2. S \subseteq Nat
  BY GraphRagAssumption
<1>3. \A x, y \in Nat : x < y => <<x, y>> \in R
  BY DEF OpToRel
<1> HIDE DEF R
<1>4. PICK d \in S : \A e \in S : ~(<<e, d>> \in R)
  BY <1>1, <1>2, WFMin
<1>5. ASSUME NEW e \in S PROVE d <= e
  <2>1. d \in Nat /\ e \in Nat
    BY <1>2
  <2>2. ~(e < d)
    BY <1>3, <1>4, <2>1
  <2> QED BY <2>1, <2>2
<1> QED BY <1>5 DEF First

\* What Fault, Request and their absence do to the counters.
LEMMA Counters ==
  ASSUME TypeOK, Fault \/ Request \/ UNCHANGED counters
  PROVE  faults' \in 0..MaxFaults /\ requests' \in 0..MaxRequests
  BY GraphRagAssumption DEF TypeOK, Fault, Request, counters
-----------------------------------------------------------------------------
\* Requests.
LEMMA RequestStep ==
  ASSUME Inv, NEW d \in Docs, Upload(d) \/ RemoveDocument(d)
  PROVE  Inv'
<1>1. TypeOK /\ Holder
  BY DEF Inv
<1>2. faults' \in 0..MaxFaults /\ requests' \in 0..MaxRequests
  BY <1>1, Counters DEF Upload, RemoveDocument
<1>3. graphs' \subseteq Chunk /\ subs' \subseteq Docs /\ reports' \subseteq Docs
  <2>1. CASE Upload(d)
    BY <1>1, <2>1 DEF TypeOK, Upload, store
  <2>2. CASE RemoveDocument(d)
    <3>1. ASSUME NEW g \in graphs
          PROVE  [g EXCEPT !.docs = @ \ {d}, !.removed = TRUE] \in Chunk
      <4>1. g \in Chunk
        BY <1>1 DEF TypeOK
      <4> QED BY <4>1 DEF Chunk
    <3> QED BY <1>1, <2>2, <3>1 DEF TypeOK, RemoveDocument, store
  <2> QED BY <2>1, <2>2
<1>4. docs' \in [Docs -> {"absent", "present", "removed"}]
  BY <1>1 DEF TypeOK, Upload, RemoveDocument
<1>5. /\ UNCHANGED <<markers, lock, kbTask, cancelled, run, expired>>
      /\ spoiled' \in BOOLEAN
  BY <1>1 DEF TypeOK, Upload, RemoveDocument, history
<1>6. TypeOK'
  BY <1>1, <1>2, <1>3, <1>4, <1>5 DEF TypeOK
<1>7. Holder'
  BY <1>1, <1>5 DEF Holder
<1> QED BY <1>6, <1>7 DEF Inv

LEMMA WipeStep ==
  ASSUME Inv, DeleteIndex \/ DeleteGraph
  PROVE  Inv'
<1>1. TypeOK /\ Holder
  BY DEF Inv
<1>2. faults' \in 0..MaxFaults /\ requests' \in 0..MaxRequests
  BY <1>1, Counters DEF DeleteIndex, DeleteGraph
<1>3. /\ graphs' \subseteq Chunk /\ subs' \subseteq Docs /\ reports' \subseteq Docs
      /\ markers' \subseteq Phases
  BY <1>1 DEF TypeOK, DeleteIndex, DeleteGraph, WipeStore, store
<1>4. cancelled' \subseteq Tasks /\ kbTask' \in Tasks \cup {Nobody}
  BY <1>1 DEF TypeOK, DeleteIndex, DeleteGraph
<1>5. UNCHANGED <<docs, lock, run, expired>> /\ spoiled' \in BOOLEAN
  BY <1>1 DEF TypeOK, DeleteIndex, DeleteGraph, history
<1>6. TypeOK'
  BY <1>1, <1>2, <1>3, <1>4, <1>5 DEF TypeOK
<1>7. Holder'
  BY <1>1, <1>5 DEF Holder
<1> QED BY <1>6, <1>7 DEF Inv

\* When the lock runs out under its holder Holder is void; else nobody had it.
LEMMA ExpiryStep ==
  ASSUME Inv, LockExpires
  PROVE  Inv'
<1>1. TypeOK /\ Holder
  BY DEF Inv
<1>2. faults' \in 0..MaxFaults /\ requests' \in 0..MaxRequests
  BY <1>1, Counters DEF LockExpires
<1>3. expired' = (expired \/ run[lock].pc \in Locked)
  BY DEF LockExpires
<1>4. lock' = Nobody /\ UNCHANGED <<docs, graphs, subs, reports, markers, kbTask, cancelled, run, spoiled>>
  BY DEF LockExpires, store
<1>5. TypeOK'
  BY <1>1, <1>2, <1>3, <1>4 DEF TypeOK
<1>6. Holder'
  <2>1. SUFFICES ASSUME ~expired', NEW t \in Tasks, run[t].pc \in Locked
                 PROVE  FALSE
    BY <1>4 DEF Holder
  <2>2. ~expired /\ run[lock].pc \notin Locked
    BY <1>3, <2>1
  <2>3. lock = t
    BY <1>1, <2>1, <2>2 DEF Holder
  <2> QED BY <2>1, <2>2, <2>3
<1> QED BY <1>5, <1>6 DEF Inv

LEMMA RunIndexStep ==
  ASSUME Inv, NEW t \in Tasks, RunIndex(t)
  PROVE  Inv'
<1>1. TypeOK /\ Holder
  BY DEF Inv
<1> DEFINE r == [NotRun EXCEPT !.pc = "queued", !.ids = Present]
<1>2. r \in Run /\ r.pc = "queued"
  BY NotRunType DEF Run, Pcs, Present
<1>3. Become(t, r)
  BY DEF RunIndex
<1>4. Others'
  <2>1. faults' \in 0..MaxFaults /\ requests' \in 0..MaxRequests
    BY <1>1, Counters DEF RunIndex
  <2>2. spoiled' \in BOOLEAN
    BY <1>1 DEF TypeOK, RunIndex
  <2> QED BY <1>1, <2>1, <2>2 DEF TypeOK, Others, RunIndex, store
<1>5. r.pc \notin Locked
  BY <1>2 DEF Locked
<1>6. UNCHANGED <<lock, expired>>
  BY DEF RunIndex
<1> HIDE DEF r
<1>7. TypeOK'
  BY <1>1, <1>2, <1>3, <1>4, Replaced
<1>8. Holder'
  BY <1>1, <1>2, <1>3, <1>5, <1>6, KeepsLock
<1> QED BY <1>7, <1>8 DEF Inv
-----------------------------------------------------------------------------
\* A step that replaces the record of one task and keeps to the lock.
LEMMA TaskStep ==
  ASSUME Inv, NEW t \in Tasks, NEW r \in Run, Become(t, r), Others', expired' = expired,
         \/ lock' = lock /\ (r.pc \in Locked => run[t].pc \in Locked)
         \/ Release(t) /\ r.pc \notin Locked
         \/ lock \in {t, Nobody} /\ lock' = t
  PROVE  Inv'
<1>1. TypeOK /\ Holder
  BY DEF Inv
<1>2. TypeOK'
  BY <1>1, Replaced
<1>3. CASE lock' = lock /\ (r.pc \in Locked => run[t].pc \in Locked)
  BY <1>1, <1>2, <1>3, KeepsLock DEF Inv
<1>4. CASE Release(t) /\ r.pc \notin Locked
  BY <1>1, <1>2, <1>4, GivesUpLock DEF Inv
<1>5. CASE lock \in {t, Nobody} /\ lock' = t
  <2>1. \A s \in Tasks : s # t => run'[s] = run[s] /\ s \notin {t, Nobody}
    BY <1>1, GraphRagAssumption DEF TypeOK, Become
  <2>2. Holder'
    BY <1>1, <1>5, <2>1 DEF Holder
  <2> QED BY <1>2, <2>2 DEF Inv
<1> QED BY <1>3, <1>4, <1>5

\* The end of a task, from a locked part or from another.
LEMMA EndStep ==
  ASSUME Inv, NEW t \in Tasks, NEW p \in Ended, End(t, p), Others', expired' = expired
  PROVE  Inv'
<1>1. run[t] \in Run
  BY DEF Inv, TypeOK
<1> DEFINE r == [run[t] EXCEPT !.pc = p]
<1>2. r \in Run /\ r.pc \notin Locked
  BY <1>1 DEF Run, Pcs, Ended, Locked
<1>3. Become(t, r) /\ (Release(t) \/ lock' = lock)
  BY DEF End, Goto
<1> HIDE DEF r
<1> QED BY <1>2, <1>3, TaskStep

\* A failed attempt: again, or the end.
LEMMA RetryStep ==
  ASSUME Inv, NEW t \in Tasks, Retry(t), run[t].pc \in Locked, Others', expired' = expired
  PROVE  Inv'
<1>1. run[t] \in Run
  BY DEF Inv, TypeOK
<1>2. CASE run[t].try < Attempts
  <2> DEFINE r == [run[t] EXCEPT !.pc = run[t].for, !.new = NoGraph, !.try = run[t].try + 1]
  <2>1. run[t].for \in Pcs /\ run[t].try + 1 \in 1..Attempts
    BY <1>1, <1>2, GraphRagAssumption DEF Run, Pcs
  <2>2. r \in Run
    BY <1>1, <2>1, NoGraphType DEF Run
  <2>3. Become(t, r) /\ lock' = lock
    BY <1>2 DEF Retry
  <2> HIDE DEF r
  <2> QED BY <2>2, <2>3, TaskStep
<1>3. CASE ~(run[t].try < Attempts)
  <2>1. End(t, "failed")
    BY <1>3 DEF Retry
  <2> QED BY <2>1, EndStep DEF Ended
<1> QED BY <1>2, <1>3

\* Which steps leave everything but the task, the lock and a counter alone.
LEMMA OthersKept ==
  ASSUME Inv, lock' \in Tasks \cup {Nobody}, Fault \/ UNCHANGED counters,
         UNCHANGED <<docs, store, markers, kbTask, cancelled, history>>
  PROVE  Others' /\ expired' = expired
<1>1. faults' \in 0..MaxFaults /\ requests' \in 0..MaxRequests
  BY Counters DEF Inv
<1> QED BY <1>1 DEF Inv, TypeOK, Others, store, history

\* A lock that is released belongs to nobody.
LEMMA LockType ==
  ASSUME Inv, NEW t \in Tasks,
         Release(t) \/ UNCHANGED lock \/ lock' = t \/ (\E p : End(t, p)) \/ Retry(t)
  PROVE  lock' \in Tasks \cup {Nobody}
  BY DEF Inv, TypeOK, Release, End, Retry
-----------------------------------------------------------------------------
\* The lock.
LEMMA AcquireStep ==
  ASSUME Inv, NEW t \in Tasks, Acquire(t)
  PROVE  Inv'
<1>1. run[t] \in Run
  BY DEF Inv, TypeOK
<1> DEFINE r == [run[t] EXCEPT !.pc = IF run[t].pc = "acquire" THEN "merge" ELSE "post"]
<1>2. r \in Run
  BY <1>1 DEF Run, Pcs
<1>3. Become(t, r) /\ lock \in {t, Nobody} /\ lock' = t
  BY DEF Acquire, Goto
<1>4. Others' /\ expired' = expired
  BY <1>3, OthersKept DEF Acquire
<1> HIDE DEF r
<1> QED BY <1>2, <1>3, <1>4, TaskStep

\* A lock left from before a crash: nobody is in the locked part with it.
LEMMA DropOwnStep ==
  ASSUME Inv, NEW t \in Tasks, DropOwn(t)
  PROVE  Inv'
<1>1. Others' /\ expired' = expired
  BY OthersKept DEF DropOwn
<1>2. run' = run /\ run \in [Tasks -> Run]
  BY DEF DropOwn, Inv, TypeOK
<1>3. Holder'
  <2>1. run[t].pc \notin Locked /\ lock = t
    BY DEF DropOwn, Locked
  <2> QED BY <1>1, <1>2, <2>1 DEF Inv, Holder
<1>4. TypeOK'
  BY <1>1, <1>2 DEF TypeOK, Others
<1> QED BY <1>3, <1>4 DEF Inv

\* The ends of a task that change nothing but the task and its lock.
LEMMA EndingStep ==
  ASSUME Inv, NEW t \in Tasks, AcquireTimesOut(t) \/ Finish(t) \/ Cancelled(t)
  PROVE  Inv'
<1>1. PICK p \in Ended : End(t, p)
  BY DEF AcquireTimesOut, Finish, Cancelled, Ended
<1>2. lock' \in Tasks \cup {Nobody}
  BY <1>1, LockType
<1>3. Others' /\ expired' = expired
  BY <1>2, OthersKept DEF AcquireTimesOut, Finish, Cancelled
<1> QED BY <1>1, <1>3, EndStep
-----------------------------------------------------------------------------
\* The subgraphs: no lock is held.
LEMMA BuildStep ==
  ASSUME Inv, NEW t \in Tasks, NEW d,
         Collect(t) \/ BuildOne(t, d) \/ SaveSubgraph(t, d) \/ BuildFails(t, d) \/ Built(t)
  PROVE  Inv'
<1>1. run[t] \in Run
  BY DEF Inv, TypeOK
<1>2. lock' = lock
  BY DEF Collect, BuildOne, SaveSubgraph, BuildFails, Built
<1>3. Others' /\ expired' = expired
  <2>1. CASE SaveSubgraph(t, d)
    <3>1. faults' \in 0..MaxFaults /\ requests' \in 0..MaxRequests
      BY <2>1, Counters DEF Inv, SaveSubgraph
    <3>2. d \in Docs
      BY <1>1, <2>1 DEF Run, SaveSubgraph
    <3> QED BY <2>1, <3>1, <3>2 DEF Inv, TypeOK, Others, SaveSubgraph, history
  <2>2. CASE ~SaveSubgraph(t, d)
    <3>1. lock' \in Tasks \cup {Nobody}
      BY <1>2 DEF Inv, TypeOK
    <3> QED BY <2>2, <3>1, OthersKept DEF Collect, BuildOne, BuildFails, Built
  <2> QED BY <2>1, <2>2
<1>4. \E r \in Run : Become(t, r) /\ r.pc \notin Locked
  <2>1. CASE Collect(t)
    <3> DEFINE r == [run[t] EXCEPT !.pc = "build", !.todo = run[t].ids]
    <3>1. r \in Run /\ r.pc \notin Locked
      BY <1>1 DEF Run, Pcs, Locked
    <3> QED BY <2>1, <3>1 DEF Collect
  <2>2. CASE BuildOne(t, d)
    <3> DEFINE rest == [run[t] EXCEPT !.todo = run[t].todo \ {d}]
    <3>1. rest \in Run /\ rest.pc = "build" /\ d \in Docs
      BY <1>1, <2>2 DEF Run, BuildOne
    <3>2. \/ Become(t, rest)
          \/ Become(t, [rest EXCEPT !.ok = rest.ok \cup {d}])
          \/ Become(t, [rest EXCEPT !.gen = rest.gen \cup {d}])
      BY <2>2 DEF BuildOne
    <3> HIDE DEF rest
    <3>3. /\ [rest EXCEPT !.ok = rest.ok \cup {d}] \in Run
          /\ [rest EXCEPT !.gen = rest.gen \cup {d}] \in Run
          /\ [rest EXCEPT !.ok = rest.ok \cup {d}].pc = "build"
          /\ [rest EXCEPT !.gen = rest.gen \cup {d}].pc = "build"
      BY <3>1 DEF Run
    <3> QED BY <3>1, <3>2, <3>3 DEF Locked
  <2>3. CASE SaveSubgraph(t, d)
    <3> DEFINE r == [run[t] EXCEPT !.gen = run[t].gen \ {d}, !.ok = run[t].ok \cup {d}]
    <3>1. r \in Run /\ r.pc \notin Locked
      <4>1. d \in Docs
        BY <1>1, <2>3 DEF Run, SaveSubgraph
      <4> QED BY <1>1, <2>3, <4>1 DEF Run, Locked, SaveSubgraph
    <3> QED BY <2>3, <3>1 DEF SaveSubgraph
  <2>4. CASE BuildFails(t, d)
    <3> DEFINE r == [run[t] EXCEPT !.gen = run[t].gen \ {d}]
    <3>1. r \in Run /\ r.pc \notin Locked
      BY <1>1, <2>4 DEF Run, Locked, BuildFails
    <3> QED BY <2>4, <3>1 DEF BuildFails
  <2>5. CASE Built(t)
    <3> DEFINE done == [run[t] EXCEPT !.pc = "done"]
               go == [run[t] EXCEPT !.pc = "acquire", !.todo = run[t].ok,
                                    !.pending = With \ markers]
    <3>1. done \in Run /\ done.pc \notin Locked
      BY <1>1 DEF Run, Pcs, Locked
    <3>2. go \in Run /\ go.pc \notin Locked
      BY <1>1, GraphRagAssumption DEF Run, Pcs, Locked
    <3>3. Become(t, done) \/ Become(t, go)
      BY <2>5 DEF Built, Goto
    <3> QED BY <3>1, <3>2, <3>3
  <2> QED BY <2>1, <2>2, <2>3, <2>4, <2>5
<1> QED BY <1>2, <1>3, <1>4, TaskStep
-----------------------------------------------------------------------------
\* Steps in the locked part that change only the record of their task.
LEMMA LockedStep ==
  ASSUME Inv, NEW t \in Tasks, MergeSkips(t) \/ Merge(t) \/ Resolve(t)
  PROVE  Inv'
<1>1. run[t] \in Run
  BY DEF Inv, TypeOK
<1>2. lock' = lock /\ run[t].pc \in Locked
  BY DEF MergeSkips, Merge, Resolve, Locked
<1>3. Others' /\ expired' = expired
  <2>1. lock' \in Tasks \cup {Nobody}
    BY <1>2 DEF Inv, TypeOK
  <2> QED BY <2>1, OthersKept DEF MergeSkips, Merge, Resolve
<1>4. \E r \in Run : Become(t, r)
  <2>1. CASE MergeSkips(t)
    <3>1. PICK g \in Loaded({}) :
            Become(t, [run[t] EXCEPT !.todo = run[t].todo \ {First(run[t].todo)},
                                     !.graph = g, !.try = 1])
      BY <2>1 DEF MergeSkips
    <3>2. g \in Graph
      BY LoadedType DEF Inv
    <3>3. [run[t] EXCEPT !.todo = run[t].todo \ {First(run[t].todo)},
                         !.graph = g, !.try = 1] \in Run
      BY <1>1, <3>2, Bounds DEF Run
    <3> QED BY <3>1, <3>3
  <2>2. CASE Merge(t)
    <3>1. PICK g \in Loaded({First(run[t].todo)}) :
            Become(t, [run[t] EXCEPT !.pc = "delete", !.for = "merge",
                         !.new = [docs |-> g.docs \cup {First(run[t].todo)},
                                  resolved |-> FALSE]])
      BY <2>2 DEF Merge
    <3>2. g \in Graph
      BY LoadedType DEF Inv
    <3>3. First(run[t].todo) \in Docs
      <4>1. run[t].todo \in SUBSET Docs /\ run[t].todo # {}
        BY <1>1, <2>2 DEF Run, Merge
      <4> QED BY <4>1, FirstType
    <3>4. [docs |-> g.docs \cup {First(run[t].todo)}, resolved |-> FALSE] \in Graph
      BY <3>2, <3>3 DEF Graph
    <3>5. [run[t] EXCEPT !.pc = "delete", !.for = "merge",
             !.new = [docs |-> g.docs \cup {First(run[t].todo)}, resolved |-> FALSE]]
          \in Run
      BY <1>1, <3>4 DEF Run, Pcs
    <3> QED BY <3>1, <3>5
  <2>3. CASE Resolve(t)
    <3> DEFINE n == [docs |-> run[t].graph.docs, resolved |-> TRUE]
    <3>1. n \in Graph
      BY <1>1 DEF Run, Graph
    <3>2. Become(t, [run[t] EXCEPT !.pc = "delete", !.for = "post", !.new = n])
      BY <2>3 DEF Resolve
    <3> HIDE DEF n
    <3>3. [run[t] EXCEPT !.pc = "delete", !.for = "post", !.new = n] \in Run
      BY <1>1, <3>1 DEF Run, Pcs
    <3> QED BY <3>2, <3>3
  <2> QED BY <2>1, <2>2, <2>3
<1> QED BY <1>2, <1>3, <1>4, TaskStep

\* What set_graph inserts, wholly or in part, has its type.
LEMMA InsertType ==
  ASSUME Inv, NEW t \in Tasks
  PROVE  /\ NewChunk(t) \in Chunk /\ run[t].new.docs \subseteq Docs
         /\ InsertedPartly(t) =>
              /\ graphs' \subseteq Chunk /\ subs' \subseteq Docs
              /\ spoiled' \in BOOLEAN
<1>1. run[t].new \in Graph
  BY DEF Inv, TypeOK, Run
<1>2. NewChunk(t) \in Chunk /\ run[t].new.docs \subseteq Docs
  BY <1>1 DEF NewChunk, Graph, Chunk
<1>3. ASSUME InsertedPartly(t)
      PROVE  graphs' \subseteq Chunk /\ subs' \subseteq Docs /\ spoiled' \in BOOLEAN
  BY <1>2, <1>3 DEF InsertedPartly, Inv, TypeOK
<1> QED BY <1>2, <1>3

\* set_graph.
LEMMA SetStep ==
  ASSUME Inv, NEW t \in Tasks, SetDelete(t) \/ SetInsert(t)
  PROVE  Inv'
<1>1. run[t] \in Run
  BY DEF Inv, TypeOK
<1>2. lock' = lock /\ run[t].pc \in Locked
  BY DEF SetDelete, SetInsert, Locked
<1>3. graphs' \subseteq Chunk /\ subs' \subseteq Docs
  BY InsertType DEF Inv, TypeOK, SetDelete, SetInsert
<1>4. Others' /\ expired' = expired
  <2>1. faults' \in 0..MaxFaults /\ requests' \in 0..MaxRequests
    BY Counters DEF Inv, SetDelete, SetInsert
  <2> QED BY <1>2, <1>3, <2>1 DEF Inv, TypeOK, Others, SetDelete, SetInsert, history
<1>5. \E r \in Run : Become(t, r)
  <2>1. CASE SetDelete(t)
    <3>1. [run[t] EXCEPT !.pc = "insert"] \in Run
      BY <1>1 DEF Run, Pcs
    <3> QED BY <2>1, <3>1 DEF SetDelete, Goto
  <2>2. CASE SetInsert(t)
    <3> DEFINE stored == [run[t] EXCEPT !.graph = run[t].new, !.new = NoGraph, !.try = 1]
    <3>1. stored \in Run
      BY <1>1, NoGraphType, Bounds DEF Run
    <3>2. \/ Become(t, [stored EXCEPT !.pc = "merge",
                                      !.todo = stored.todo \ {First(run[t].todo)}])
          \/ Become(t, [stored EXCEPT !.pc = "mark"])
      BY <2>2 DEF SetInsert
    <3> HIDE DEF stored
    <3>3. /\ [stored EXCEPT !.pc = "merge",
                            !.todo = stored.todo \ {First(run[t].todo)}] \in Run
          /\ [stored EXCEPT !.pc = "mark"] \in Run
      BY <3>1 DEF Run, Pcs
    <3> QED BY <3>2, <3>3
  <2> QED BY <2>1, <2>2
<1> QED BY <1>2, <1>4, <1>5, TaskStep

\* Failures in the locked part.
LEMMA FailStep ==
  ASSUME Inv, NEW t \in Tasks, EmbedFails(t) \/ InsertFails(t) \/ PhaseFails(t)
  PROVE  Inv'
<1>1. Retry(t) /\ run[t].pc \in Locked
  BY DEF EmbedFails, InsertFails, PhaseFails, Locked
<1>2. lock' \in Tasks \cup {Nobody}
  BY <1>1, LockType
<1>3. Others' /\ expired' = expired
  <2>1. CASE InsertFails(t)
    <3>1. graphs' \subseteq Chunk /\ subs' \subseteq Docs /\ spoiled' \in BOOLEAN
      BY <2>1, InsertType DEF InsertFails
    <3>2. faults' \in 0..MaxFaults /\ requests' \in 0..MaxRequests
      BY <2>1, Counters DEF Inv, InsertFails
    <3> QED BY <1>2, <2>1, <3>1, <3>2 DEF Inv, TypeOK, Others, InsertFails
  <2>2. CASE EmbedFails(t) \/ PhaseFails(t)
    BY <1>2, <2>2, OthersKept DEF EmbedFails, PhaseFails
  <2> QED BY <2>1, <2>2
<1> QED BY <1>1, <1>3, RetryStep

\* The end of the merge, and the phases.
LEMMA PhaseStep ==
  ASSUME Inv, NEW t \in Tasks, Merged(t) \/ LoadGraph(t) \/ Mark(t) \/ Community(t)
  PROVE  Inv'
<1>1. run[t] \in Run
  BY DEF Inv, TypeOK
<1>2. CASE Merged(t)
  <2> DEFINE pending == IF run[t].ok = {} THEN run[t].pending ELSE With
             r == [run[t] EXCEPT !.pending = pending, !.for = "post",
                                 !.pc = IF pending = {} THEN "done" ELSE "again"]
  <2>1. pending \subseteq Phases
    BY <1>1, GraphRagAssumption DEF Run
  <2>2. Become(t, r) /\ Release(t)
    BY <1>2 DEF Merged
  <2>3. r \in Run /\ r.pc \notin Locked
    <3> HIDE DEF pending
    <3> QED BY <1>1, <2>1 DEF Run, Pcs, Locked
  <2>4. lock' \in Tasks \cup {Nobody}
    BY <2>2, LockType
  <2>5. Others' /\ expired' = expired
    <3>1. faults' \in 0..MaxFaults /\ requests' \in 0..MaxRequests
      BY <1>2, Counters DEF Inv, Merged
    <3> QED BY <1>2, <2>4, <3>1 DEF Inv, TypeOK, Others, Merged, store, history
  <2> HIDE DEF r
  <2> QED BY <2>2, <2>3, <2>5, TaskStep
<1>3. CASE LoadGraph(t)
  <2>1. PICK g \in Loaded({}) :
          IF g.docs = {} THEN End(t, "done")
          ELSE Become(t, [run[t] EXCEPT !.graph = g]) /\ UNCHANGED lock
    BY <1>3 DEF LoadGraph
  <2>2. g \in Graph
    BY LoadedType DEF Inv
  <2>3. lock' \in Tasks \cup {Nobody}
    BY <2>1, LockType
  <2>4. Others' /\ expired' = expired
    BY <1>3, <2>3, OthersKept DEF LoadGraph
  <2>5. CASE g.docs = {}
    BY <2>1, <2>4, <2>5, EndStep DEF Ended
  <2>6. CASE g.docs # {}
    <3> DEFINE r == [run[t] EXCEPT !.graph = g]
    <3>1. r \in Run /\ r.pc = run[t].pc
      BY <1>1, <2>2 DEF Run
    <3>2. Become(t, r) /\ lock' = lock
      BY <2>1, <2>6
    <3> HIDE DEF r
    <3> QED BY <2>4, <3>1, <3>2, TaskStep
  <2> QED BY <2>5, <2>6
<1>4. CASE Mark(t) \/ Community(t)
  <2>1. lock' = lock /\ run[t].pc \in Locked
    BY <1>4 DEF Mark, Community, Locked
  <2>2. \E r \in Run : Become(t, r)
    <3>1. [run[t] EXCEPT !.pc = "post", !.pending = run[t].pending \ {"resolution"}] \in Run
      BY <1>1 DEF Run, Pcs
    <3>2. [run[t] EXCEPT !.pending = {}, !.try = 1] \in Run
      BY <1>1, Bounds DEF Run
    <3> QED BY <1>4, <3>1, <3>2 DEF Mark, Community
  <2>3. reports' \subseteq Docs /\ markers' \subseteq Phases
    <3>1. run[t].graph.docs \subseteq Docs
      BY <1>1 DEF Run, Graph
    <3> QED BY <1>4, <3>1 DEF Inv, TypeOK, Mark, Community, Phases, store
  <2>4. Others' /\ expired' = expired
    <3>1. faults' \in 0..MaxFaults /\ requests' \in 0..MaxRequests
      BY <1>4, Counters DEF Inv, Mark, Community
    <3> QED BY <1>4, <2>1, <2>3, <3>1
            DEF Inv, TypeOK, Others, Mark, Community, store, history
  <2> QED BY <2>1, <2>2, <2>4, TaskStep
<1> QED BY <1>2, <1>3, <1>4

\* The task is run again: it is out of the locked part, the lock is left.
LEMMA CrashStep ==
  ASSUME Inv, NEW t \in Tasks, Crash(t)
  PROVE  Inv'
<1>1. run[t] \in Run
  BY DEF Inv, TypeOK
<1> DEFINE r == [NotRun EXCEPT !.pc = "queued", !.ids = run[t].ids]
<1>2. r \in Run /\ r.pc = "queued"
  BY <1>1, NotRunType DEF Run, Pcs
<1>3. Become(t, r) /\ lock' = lock
  BY DEF Crash
<1>4. Others' /\ expired' = expired
  <2>1. faults' \in 0..MaxFaults /\ requests' \in 0..MaxRequests
    BY Counters DEF Inv, Crash
  <2>2. graphs' \subseteq Chunk /\ subs' \subseteq Docs /\ spoiled' \in BOOLEAN
    BY InsertType DEF Inv, TypeOK, Crash
  <2> QED BY <2>1, <2>2 DEF Inv, TypeOK, Others, Crash
<1>5. r.pc \notin Locked
  BY <1>2 DEF Locked
<1> HIDE DEF r
<1> QED BY <1>2, <1>3, <1>4, <1>5, TaskStep
-----------------------------------------------------------------------------
LEMMA InitInv == Init => Inv
<1> SUFFICES ASSUME Init PROVE Inv
  OBVIOUS
<1>1. run \in [Tasks -> Run]
  BY NotRunType DEF Init
<1>2. Others
  BY Bounds DEF Init, Others
<1>3. Holder
  BY DEF Init, Holder, NotRun, Locked
<1> QED BY <1>1, <1>2, <1>3, Parts DEF Inv

LEMMA NextInv == Inv /\ [Next]_vars => Inv'
<1> SUFFICES ASSUME Inv, [Next]_vars PROVE Inv'
  OBVIOUS
<1>1. CASE \E d \in Docs : Upload(d) \/ RemoveDocument(d)
  BY <1>1, RequestStep
<1>2. CASE DeleteIndex \/ DeleteGraph
  BY <1>2, WipeStep
<1>3. CASE LockExpires
  BY <1>3, ExpiryStep
<1>4. ASSUME NEW t \in Tasks, RunIndex(t) PROVE Inv'
  BY <1>4, RunIndexStep
<1>5. ASSUME NEW t \in Tasks, Step(t) PROVE Inv'
  <2>1. ASSUME NEW d \in Docs,
               BuildOne(t, d) \/ SaveSubgraph(t, d)
        PROVE  Inv'
    BY <2>1, BuildStep
  <2>2. CASE Collect(t) \/ Built(t)
    BY <2>2, BuildStep
  <2>3. CASE Acquire(t) \/ DropOwn(t)
    BY <2>3, AcquireStep, DropOwnStep
  <2>4. CASE Cancelled(t) \/ Finish(t)
    BY <2>4, EndingStep
  <2>5. CASE MergeSkips(t) \/ Merge(t) \/ Resolve(t)
    BY <2>5, LockedStep
  <2>6. CASE SetDelete(t) \/ SetInsert(t)
    BY <2>6, SetStep
  <2>7. CASE Merged(t) \/ LoadGraph(t) \/ Mark(t) \/ Community(t)
    BY <2>7, PhaseStep
  <2> QED BY <1>5, <2>1, <2>2, <2>3, <2>4, <2>5, <2>6, <2>7 DEF Step
<1>6. ASSUME NEW t \in Tasks, Fails(t) PROVE Inv'
  <2>1. ASSUME NEW d \in Docs, BuildFails(t, d) PROVE Inv'
    BY <2>1, BuildStep
  <2>2. CASE AcquireTimesOut(t)
    BY <2>2, EndingStep
  <2>3. CASE EmbedFails(t) \/ InsertFails(t) \/ PhaseFails(t)
    BY <2>3, FailStep
  <2>4. CASE Crash(t)
    BY <2>4, CrashStep
  <2> QED BY <1>6, <2>1, <2>2, <2>3, <2>4 DEF Fails
<1>7. CASE UNCHANGED vars
  BY <1>7 DEF vars, Inv, TypeOK, Holder
<1> QED BY <1>1, <1>2, <1>3, <1>4, <1>5, <1>6, <1>7 DEF Next

LEMMA Invariance == Spec => []Inv
  BY InitInv, NextInv, PTL DEF Spec

\* The variables of run_graphrag_for_kb, of the store and of Redis keep their
\* types.
THEOREM TypeCorrect == Spec => []TypeOK
<1>1. Inv => TypeOK
  BY DEF Inv
<1> QED BY <1>1, Invariance, PTL

\* The lock of _acquire_lock keeps writers of a dataset's graph apart, through
\* cancellations, crashes, wipes and failed attempts, for as long as it does not
\* run out under its holder.
THEOREM WritersApart == Spec => []OneWriter
<1>1. Inv => OneWriter
  <2> SUFFICES ASSUME Inv, ~expired, NEW s \in Tasks, NEW t \in Tasks,
                      run[s].pc \in Locked, run[t].pc \in Locked
               PROVE  s = t
    BY DEF OneWriter
  <2> QED BY DEF Inv, Holder
<1> QED BY <1>1, Invariance, PTL
-----------------------------------------------------------------------------
(***************************************************************************)
(* What a task that ends well leaves.                                      *)
(*                                                                         *)
(* A task works on a copy of the graph across two locked sections, while   *)
(* documents are uploaded and removed.  Claims says, for each point, which *)
(* documents the stored graph, the subgraphs, the copy in memory and the   *)
(* reports have; that nobody else writes meanwhile follows from the lock   *)
(* and, between the two sections, from Owned and Alone.                    *)
(***************************************************************************)
\* A task works only on documents that were uploaded.
Known ==
    \A t \in Tasks : \A d \in Docs : docs[d] = "absent" =>
        /\ d \notin run[t].ids /\ d \notin run[t].todo
        /\ d \notin run[t].gen /\ d \notin run[t].ok

\* The task at work that nobody cancelled is the one of the dataset.
Owned == spoiled \/ \A t \in Tasks : Live(t) /\ t \notin cancelled => kbTask = t

\* The documents of a stored graph have their subgraphs stored.
Stored == spoiled \/ \A g \in graphs : g.docs \subseteq subs

\* There is one graph, and none between the two halves of set_graph.
Single ==
    spoiled \/ expired \/
        /\ \A g, h \in graphs : g = h
        /\ \A t \in Tasks : run[t].pc = "insert" => graphs = {}

\* Between the two sections of a task nobody has the lock.
Alone ==
    spoiled \/ expired \/
        \A t \in Tasks : t \notin cancelled /\ run[t].pc = "again" =>
            \A s \in Tasks : run[s].pc \notin Locked

\* The documents of a task that are merged and not removed.
InGraph(t) == {d \in run[t].ok : d \notin run[t].todo /\ docs[d] = "present"}
Middle == {"merge", "again", "post", "mark", "delete"}

HasMerged(t) ==
    run[t].pc \in Middle =>
        /\ \A g \in graphs : InGraph(t) \subseteq IF g.removed THEN subs ELSE g.docs
        /\ graphs = {} => InGraph(t) = {}

InMemory(t) ==
    run[t].pc \in Middle \cup {"insert"} => InGraph(t) \subseteq run[t].graph.docs

StoresMerge(t) ==
    run[t].pc \in {"delete", "insert"} /\ run[t].for = "merge" =>
        /\ InGraph(t) \subseteq run[t].new.docs
        /\ First(run[t].todo) \in run[t].new.docs

StoresPhase(t) ==
    run[t].pc \in {"delete", "insert"} /\ run[t].for = "post" =>
        /\ "resolution" \in run[t].pending
        /\ run[t].new.docs = run[t].graph.docs /\ run[t].new.resolved = TRUE

InPhases(t) ==
    \/ run[t].pc \in {"again", "post", "mark"}
    \/ run[t].pc \in {"delete", "insert"} /\ run[t].for = "post"

HasResolved(t) == \A g \in graphs : g.resolved = TRUE /\ InGraph(t) \subseteq g.docs

Phased(t) ==
    InPhases(t) =>
        /\ run[t].todo = {} /\ run[t].for = "post"
        /\ run[t].ok # {} =>
             /\ ("resolution" \in With /\ "resolution" \notin run[t].pending)
                  \/ run[t].pc = "mark" => HasResolved(t)
             /\ "community" \in With /\ "community" \notin run[t].pending
                  => InGraph(t) \subseteq reports

Claims(t) ==
    /\ run[t].pc = "acquire" => run[t].todo = run[t].ok
    /\ HasMerged(t) /\ InMemory(t)
    /\ StoresMerge(t) /\ StoresPhase(t) /\ Phased(t)

Safe == spoiled \/ expired \/ \A t \in Tasks : t \notin cancelled => Claims(t)

FInv == Known /\ Owned /\ Stored /\ Single /\ Alone /\ Safe
-----------------------------------------------------------------------------
\* What no step of a task changes.
LEMMA Frame ==
  ASSUME Inv, NEW t \in Tasks, Step(t) \/ Fails(t)
  PROVE  /\ UNCHANGED <<docs, kbTask, cancelled, expired>>
         /\ spoiled' = spoiled \/ spoiled' = TRUE
         /\ \A s \in Tasks : s # t => run'[s] = run[s]
         /\ Live(t)
<1> USE DEF store, history
<1>0. run \in [Tasks -> Run]
  BY DEF Inv, TypeOK
<1>1. \A r : Become(t, r) => \A s \in Tasks : s # t => run'[s] = run[s]
  BY <1>0 DEF Become
<1>2. ASSUME NEW d \in Docs, BuildOne(t, d) \/ SaveSubgraph(t, d) \/ BuildFails(t, d)
      PROVE  /\ UNCHANGED <<docs, kbTask, cancelled, expired, spoiled>>
             /\ \A s \in Tasks : s # t => run'[s] = run[s]
             /\ Live(t)
  BY <1>1, <1>2 DEF BuildOne, SaveSubgraph, BuildFails, Live, Ended
<1>3. CASE Collect(t) \/ Built(t) \/ DropOwn(t) \/ Acquire(t) \/ Cancelled(t)
           \/ AcquireTimesOut(t) \/ Finish(t)
  BY <1>1, <1>3 DEF Collect, Built, DropOwn, Acquire, Cancelled, AcquireTimesOut,
       Finish, Live, Ended, Goto, End
<1>4. CASE MergeSkips(t) \/ Merge(t) \/ SetDelete(t) \/ SetInsert(t) \/ Merged(t)
  BY <1>1, <1>4 DEF MergeSkips, Merge, SetDelete, SetInsert, Merged, Live, Ended, Goto
<1>5. CASE LoadGraph(t) \/ Resolve(t) \/ Mark(t) \/ Community(t)
  BY <1>1, <1>5 DEF LoadGraph, Resolve, Mark, Community, Live, Ended, Goto, End
<1>6. CASE EmbedFails(t) \/ InsertFails(t) \/ PhaseFails(t) \/ Crash(t)
  BY <1>1, <1>6 DEF EmbedFails, InsertFails, PhaseFails, Crash, InsertedPartly,
       Retry, Live, Ended, Goto, End
<1> QED BY <1>2, <1>3, <1>4, <1>5, <1>6 DEF Step, Fails

\* Claims that do not depend on what is stored, or are about the same.
LEMMA ClaimsKept ==
  ASSUME NEW t \in Tasks, Claims(t), run'[t] = run[t], docs' = docs,
         \/ run[t].pc \notin Locked \cup {"again"}
         \/ graphs' = graphs /\ reports' = reports /\ subs \subseteq subs'
  PROVE  Claims(t)'
<1>1. CASE run[t].pc \notin Locked \cup {"again"}
  BY <1>1 DEF Claims, Locked, HasMerged, InMemory, StoresMerge, StoresPhase, Phased,
       InPhases, Middle
<1>2. CASE graphs' = graphs /\ reports' = reports /\ subs \subseteq subs'
  <2>1. InGraph(t)' = InGraph(t)
    BY DEF InGraph
  <2>2. HasMerged(t)'
    BY <1>2, <2>1 DEF Claims, HasMerged
  <2>3. InMemory(t)' /\ StoresMerge(t)' /\ StoresPhase(t)'
    BY <2>1 DEF Claims, InMemory, StoresMerge, StoresPhase
  <2>4. HasResolved(t) => HasResolved(t)'
    BY <1>2, <2>1 DEF HasResolved
  <2>5. Phased(t)'
    BY <1>2, <2>1, <2>4 DEF Claims, Phased, InPhases
  <2> QED BY <2>2, <2>3, <2>5 DEF Claims
<1> QED BY <1>1, <1>2

\* A task that is not at work claims nothing.
LEMMA NoClaims ==
  ASSUME NEW t \in Tasks, run[t].pc \notin Locked \cup {"again", "acquire"}
  PROVE  Claims(t)
BY DEF Claims, Locked, HasMerged, InMemory, StoresMerge, StoresPhase, Phased,
     InPhases, Middle

LEMMA NoClaimsNext ==
  ASSUME NEW t \in Tasks, run'[t].pc \notin Locked \cup {"again", "acquire"}
  PROVE  Claims(t)'
BY DEF Claims, Locked, HasMerged, InMemory, StoresMerge, StoresPhase, Phased,
     InPhases, Middle

\* The record a task gets.
LEMMA Became ==
  ASSUME TypeOK, NEW t \in Tasks
  PROVE  run[t] \in Run /\ \A r : Become(t, r) => run'[t] = r
BY DEF TypeOK, Become

\* The fields of the record after the steps that build it in two parts.
LEMMA BuildOneFields ==
  ASSUME Inv, NEW t \in Tasks, NEW d \in Docs, BuildOne(t, d)
  PROVE  /\ run'[t].pc = "build" /\ run'[t].ids = run[t].ids
         /\ run'[t].todo = run[t].todo \ {d} /\ d \in run[t].todo
         /\ run'[t].gen \subseteq run[t].gen \cup {d}
         /\ run'[t].ok \subseteq run[t].ok \cup {d}
<1>0. run[t] \in Run /\ \A r : Become(t, r) => run'[t] = r
  BY Became DEF Inv
<1> DEFINE rest == [run[t] EXCEPT !.todo = @ \ {d}]
           used == [rest EXCEPT !.ok = @ \cup {d}]
           made == [rest EXCEPT !.gen = @ \cup {d}]
<1>1. /\ rest.pc = run[t].pc /\ rest.ids = run[t].ids /\ rest.todo = run[t].todo \ {d}
      /\ rest.gen = run[t].gen /\ rest.ok = run[t].ok
  BY <1>0 DEF Run
<1>2. rest \in Run
  BY <1>0 DEF Run
<1>3. run[t].pc = "build" /\ d \in run[t].todo
  BY DEF BuildOne
<1>4. run'[t] = rest \/ run'[t] = used \/ run'[t] = made
  BY <1>0 DEF BuildOne
<1> HIDE DEF rest
<1>5. /\ used.pc = rest.pc /\ used.ids = rest.ids /\ used.todo = rest.todo
      /\ used.gen = rest.gen /\ used.ok = rest.ok \cup {d}
  BY <1>2 DEF Run
<1>6. /\ made.pc = rest.pc /\ made.ids = rest.ids /\ made.todo = rest.todo
      /\ made.gen = rest.gen \cup {d} /\ made.ok = rest.ok
  BY <1>2 DEF Run
<1> HIDE DEF used, made
<1>7. CASE run'[t] = rest
  BY <1>1, <1>3, <1>7
<1>8. CASE run'[t] = used
  BY <1>1, <1>3, <1>5, <1>8
<1>9. CASE run'[t] = made
  BY <1>1, <1>3, <1>6, <1>9
<1> QED BY <1>4, <1>7, <1>8, <1>9

LEMMA SetInsertFields ==
  ASSUME Inv, NEW t \in Tasks, SetInsert(t)
  PROVE  /\ run'[t].ids = run[t].ids /\ run'[t].gen = run[t].gen
         /\ run'[t].ok = run[t].ok /\ run'[t].graph = run[t].new
         /\ run'[t].for = run[t].for /\ run'[t].pending = run[t].pending
         /\ run[t].for = "merge" =>
              run'[t].pc = "merge" /\ run'[t].todo = run[t].todo \ {First(run[t].todo)}
         /\ run[t].for # "merge" => run'[t].pc = "mark" /\ run'[t].todo = run[t].todo
<1>0. run[t] \in Run /\ \A r : Become(t, r) => run'[t] = r
  BY Became DEF Inv
<1> DEFINE stored == [run[t] EXCEPT !.graph = run[t].new, !.new = NoGraph, !.try = 1]
           next == [stored EXCEPT !.pc = "merge", !.todo = @ \ {First(run[t].todo)}]
           last == [stored EXCEPT !.pc = "mark"]
<1>1. /\ stored.ids = run[t].ids /\ stored.gen = run[t].gen /\ stored.ok = run[t].ok
      /\ stored.graph = run[t].new /\ stored.for = run[t].for
      /\ stored.pending = run[t].pending /\ stored.todo = run[t].todo
  BY <1>0 DEF Run
<1>2. stored \in Run
  BY <1>0, NoGraphType, Bounds DEF Run
<1>3. run'[t] = IF run[t].for = "merge" THEN next ELSE last
  BY <1>0 DEF SetInsert
<1> HIDE DEF stored
<1>4. /\ next.ids = stored.ids /\ next.gen = stored.gen /\ next.ok = stored.ok
      /\ next.graph = stored.graph /\ next.for = stored.for
      /\ next.pending = stored.pending /\ next.pc = "merge"
      /\ next.todo = stored.todo \ {First(run[t].todo)}
  BY <1>2 DEF Run
<1>5. /\ last.ids = stored.ids /\ last.gen = stored.gen /\ last.ok = stored.ok
      /\ last.graph = stored.graph /\ last.for = stored.for
      /\ last.pending = stored.pending /\ last.pc = "mark"
      /\ last.todo = stored.todo
  BY <1>2 DEF Run
<1> HIDE DEF next, last
<1>6. CASE run[t].for = "merge"
  BY <1>1, <1>3, <1>4, <1>6
<1>7. CASE run[t].for # "merge"
  BY <1>1, <1>3, <1>5, <1>7
<1> QED BY <1>6, <1>7

LEMMA MergeSkipsFields ==
  ASSUME Inv, NEW t \in Tasks, MergeSkips(t)
  PROVE  /\ run'[t].ids = run[t].ids /\ run'[t].gen = run[t].gen
         /\ run'[t].ok = run[t].ok /\ run'[t].pc = "merge"
         /\ run'[t].todo = run[t].todo \ {First(run[t].todo)}
         /\ run'[t].graph \in Loaded({}) /\ First(run[t].todo) \in run'[t].graph.docs
<1>0. run[t] \in Run /\ \A r : Become(t, r) => run'[t] = r
  BY Became DEF Inv
<1> DEFINE d == First(run[t].todo)
           q(g) == [run[t] EXCEPT !.todo = @ \ {d}, !.graph = g, !.try = 1]
<1>1. PICK g \in Loaded({}) : d \in g.docs /\ run'[t] = q(g)
  BY <1>0 DEF MergeSkips
<1>2. run[t].pc = "merge"
  BY DEF MergeSkips
<1> HIDE DEF d
<1>3. /\ q(g).ids = run[t].ids /\ q(g).gen = run[t].gen /\ q(g).ok = run[t].ok
      /\ q(g).pc = run[t].pc /\ q(g).todo = run[t].todo \ {d} /\ q(g).graph = g
  BY <1>0 DEF Run
<1> HIDE DEF q
<1>4. /\ run'[t].ids = run[t].ids /\ run'[t].gen = run[t].gen
      /\ run'[t].ok = run[t].ok /\ run'[t].pc = "merge"
      /\ run'[t].todo = run[t].todo \ {d}
      /\ run'[t].graph \in Loaded({}) /\ d \in run'[t].graph.docs
  BY <1>1, <1>2, <1>3
<1> QED BY <1>4 DEF d

LEMMA MergeFields ==
  ASSUME Inv, NEW t \in Tasks, Merge(t)
  PROVE  /\ run'[t].ids = run[t].ids /\ run'[t].gen = run[t].gen
         /\ run'[t].ok = run[t].ok /\ run'[t].pc = "delete" /\ run'[t].for = "merge"
         /\ run'[t].todo = run[t].todo /\ run'[t].graph = run[t].graph
         /\ \E g \in Loaded({First(run[t].todo)}) :
              run'[t].new.docs = g.docs \cup {First(run[t].todo)}
<1>0. run[t] \in Run /\ \A r : Become(t, r) => run'[t] = r
  BY Became DEF Inv
<1> DEFINE d == First(run[t].todo)
           n(g) == [docs |-> g.docs \cup {d}, resolved |-> FALSE]
           q(g) == [run[t] EXCEPT !.pc = "delete", !.for = "merge", !.new = n(g)]
<1>1. PICK g \in Loaded({d}) : run'[t] = q(g)
  BY <1>0 DEF Merge
<1> HIDE DEF d
<1>2. n(g).docs = g.docs \cup {d}
  OBVIOUS
<1> HIDE DEF n
<1>3. /\ q(g).ids = run[t].ids /\ q(g).gen = run[t].gen /\ q(g).ok = run[t].ok
      /\ q(g).pc = "delete" /\ q(g).for = "merge" /\ q(g).todo = run[t].todo
      /\ q(g).graph = run[t].graph /\ q(g).new = n(g)
  BY <1>0 DEF Run
<1> HIDE DEF q
<1>4. /\ run'[t].ids = run[t].ids /\ run'[t].gen = run[t].gen
      /\ run'[t].ok = run[t].ok /\ run'[t].pc = "delete" /\ run'[t].for = "merge"
      /\ run'[t].todo = run[t].todo /\ run'[t].graph = run[t].graph
      /\ run'[t].new.docs = g.docs \cup {d}
  BY <1>1, <1>2, <1>3
<1> QED BY <1>1, <1>4 DEF d

LEMMA MergedFields ==
  ASSUME Inv, NEW t \in Tasks, Merged(t)
  PROVE  /\ run'[t].ids = run[t].ids /\ run'[t].gen = run[t].gen
         /\ run'[t].ok = run[t].ok /\ run'[t].todo = run[t].todo
         /\ run'[t].graph = run[t].graph /\ run'[t].for = "post"
         /\ run'[t].pc = IF run'[t].pending = {} THEN "done" ELSE "again"
         /\ run[t].ok # {} => run'[t].pending = With
<1>0. run[t] \in Run /\ \A r : Become(t, r) => run'[t] = r
  BY Became DEF Inv
<1> DEFINE P == IF run[t].ok = {} THEN run[t].pending ELSE With
           pc == IF P = {} THEN "done" ELSE "again"
           q == [run[t] EXCEPT !.pending = P, !.for = "post", !.pc = pc]
<1>1. run'[t] = q
  BY <1>0 DEF Merged
<1>2. run[t].ok # {} => P = With
  OBVIOUS
<1> HIDE DEF P
<1>3. pc = IF P = {} THEN "done" ELSE "again"
  OBVIOUS
<1> HIDE DEF pc
<1>4. /\ q.ids = run[t].ids /\ q.gen = run[t].gen /\ q.ok = run[t].ok
      /\ q.todo = run[t].todo /\ q.graph = run[t].graph /\ q.for = "post"
      /\ q.pending = P /\ q.pc = pc
  BY <1>0 DEF Run
<1> HIDE DEF q
<1> QED BY <1>1, <1>2, <1>3, <1>4

\* A task never takes up a document that is not one of its own.
LEMMA SameDocs ==
  ASSUME Inv, NEW t \in Tasks, Step(t) \/ Fails(t)
  PROVE  \A d \in Docs : \/ d \in run'[t].ids \/ d \in run'[t].todo
                         \/ d \in run'[t].gen \/ d \in run'[t].ok
                       => \/ d \in run[t].ids \/ d \in run[t].todo
                          \/ d \in run[t].gen \/ d \in run[t].ok
<1>0. run[t] \in Run /\ \A r : Become(t, r) => run'[t] = r
  BY Became DEF Inv
<1> DEFINE In(r, d) == d \in r.ids \/ d \in r.todo \/ d \in r.gen \/ d \in r.ok
<1>1. ASSUME NEW d \in Docs, BuildOne(t, d) \/ SaveSubgraph(t, d) \/ BuildFails(t, d)
      PROVE  \A e \in Docs : In(run'[t], e) => In(run[t], e)
  <2>1. CASE BuildOne(t, d)
    <3> HIDE DEF In
    <3> QED BY <2>1, BuildOneFields DEF In
  <2>2. CASE SaveSubgraph(t, d)
    <3> DEFINE q == [run[t] EXCEPT !.gen = @ \ {d}, !.ok = @ \cup {d}]
    <3>1. run'[t] = q /\ d \in run[t].gen
      BY <1>0, <2>2 DEF SaveSubgraph
    <3>2. /\ q.ids = run[t].ids /\ q.todo = run[t].todo
          /\ q.gen = run[t].gen \ {d} /\ q.ok = run[t].ok \cup {d}
      BY <1>0 DEF Run
    <3> QED BY <3>1, <3>2
  <2>3. CASE BuildFails(t, d)
    BY <1>0, <2>3 DEF BuildFails, Run
  <2> QED BY <1>1, <2>1, <2>2, <2>3
<1>2. CASE Collect(t) \/ Built(t) \/ DropOwn(t) \/ Acquire(t) \/ Cancelled(t)
           \/ AcquireTimesOut(t) \/ Finish(t)
  BY <1>0, <1>2 DEF Collect, Built, DropOwn, Acquire, Cancelled, AcquireTimesOut,
       Finish, Goto, End, Run
<1>3. CASE SetDelete(t)
  BY <1>0, <1>3 DEF SetDelete, Goto, Run
<1>4. CASE MergeSkips(t) \/ Merge(t) \/ SetInsert(t) \/ Merged(t)
  BY <1>4, MergeSkipsFields, MergeFields, SetInsertFields, MergedFields
<1>5. CASE LoadGraph(t) \/ Resolve(t) \/ Mark(t) \/ Community(t)
  BY <1>0, <1>5 DEF LoadGraph, Resolve, Mark, Community, Goto, End, Run
<1>6. CASE EmbedFails(t) \/ InsertFails(t) \/ PhaseFails(t)
  BY <1>0, <1>6 DEF EmbedFails, InsertFails, PhaseFails, Retry, Goto, End, Run
<1>7. CASE Crash(t)
  BY <1>0, <1>7 DEF Crash, NotRun, Run
<1> QED BY <1>1, <1>2, <1>3, <1>4, <1>5, <1>6, <1>7 DEF Step, Fails

LEMMA KnownStep ==
  ASSUME Inv, Known, NEW t \in Tasks, Step(t) \/ Fails(t)
  PROVE  Known'
BY Frame, SameDocs DEF Known

LEMMA OwnedStep ==
  ASSUME Inv, Owned, NEW t \in Tasks, Step(t) \/ Fails(t)
  PROVE  Owned'
BY Frame DEF Owned, Live

\* Where a task may go next.
LEMMA Moves ==
  ASSUME Inv, NEW t \in Tasks, Step(t) \/ Fails(t)
  PROVE  /\ run'[t].pc \in Locked => run[t].pc \in Locked \/ Acquire(t)
         /\ run'[t].pc = "again" => Merged(t) \/ run'[t] = run[t]
         /\ run'[t].pc = "insert" => SetDelete(t)
<1>0. run[t] \in Run /\ \A r : Become(t, r) => run'[t] = r
  BY Became DEF Inv
<1>1. ASSUME NEW d \in Docs, BuildOne(t, d) \/ SaveSubgraph(t, d) \/ BuildFails(t, d)
      PROVE  run'[t].pc = "build"
  <2>1. BuildOne(t, d) => run'[t].pc = "build"
    BY BuildOneFields
  <2>2. CASE SaveSubgraph(t, d)
    BY <1>0, <2>2 DEF SaveSubgraph, Run
  <2>3. CASE BuildFails(t, d)
    BY <1>0, <2>3 DEF BuildFails, Run
  <2> QED BY <1>1, <2>1, <2>2, <2>3
<1>2. CASE Collect(t) \/ Built(t) \/ DropOwn(t) \/ Acquire(t) \/ Cancelled(t)
           \/ AcquireTimesOut(t) \/ Finish(t)
  BY <1>0, <1>2 DEF Collect, Built, DropOwn, Acquire, Cancelled, AcquireTimesOut,
       Finish, Goto, End, Run, Locked
<1>3. CASE SetDelete(t) \/ Merge(t) \/ MergeSkips(t)
  BY <1>0, <1>3, MergeFields, MergeSkipsFields
     DEF SetDelete, Merge, MergeSkips, Goto, Run, Locked
<1>4. CASE SetInsert(t) \/ Merged(t)
  <2>1. run[t].pc \in Locked
    BY <1>4 DEF SetInsert, Merged, Locked
  <2>2. SetInsert(t) => run'[t].pc \in {"merge", "mark"}
    BY SetInsertFields
  <2>3. Merged(t) => run'[t].pc \in {"again", "done"}
    BY MergedFields
  <2> QED BY <1>4, <2>1, <2>2, <2>3
<1>5. CASE LoadGraph(t)
  <2>1. run[t].pc = "post"
    BY <1>5 DEF LoadGraph
  <2>2. PICK g \in Loaded({}) : \/ run'[t] = [run[t] EXCEPT !.pc = "done"]
                                \/ run'[t] = [run[t] EXCEPT !.graph = g]
    BY <1>0, <1>5 DEF LoadGraph, End, Goto
  <2>3. run'[t].pc \in {"done", "post"}
    BY <1>0, <2>1, <2>2 DEF Run
  <2> QED BY <2>1, <2>3 DEF Locked
<1>6. CASE Resolve(t) \/ Mark(t) \/ Community(t)
  BY <1>0, <1>6 DEF Resolve, Mark, Community, Run, Locked
<1>7. CASE EmbedFails(t) \/ InsertFails(t) \/ PhaseFails(t)
  BY <1>0, <1>7 DEF EmbedFails, InsertFails, PhaseFails, Retry, Goto, End, Run, Locked
<1>8. CASE Crash(t)
  BY <1>0, <1>8 DEF Crash, NotRun, Locked
<1> QED BY <1>1, <1>2, <1>3, <1>4, <1>5, <1>6, <1>7, <1>8 DEF Step, Fails, Locked

\* What the steps of a task write.
LEMMA Writes ==
  ASSUME Inv, NEW t \in Tasks, Step(t) \/ Fails(t)
  PROVE  \/ spoiled' = TRUE
         \/ SetDelete(t) \/ SetInsert(t) \/ Community(t)
         \/ graphs' = graphs /\ reports' = reports /\ subs \subseteq subs'
<1> USE DEF store
<1>1. ASSUME NEW d \in Docs, BuildOne(t, d) \/ SaveSubgraph(t, d) \/ BuildFails(t, d)
      PROVE  graphs' = graphs /\ reports' = reports /\ subs \subseteq subs'
  BY <1>1 DEF BuildOne, SaveSubgraph, BuildFails
<1>2. CASE Collect(t) \/ Built(t) \/ DropOwn(t) \/ Acquire(t) \/ Cancelled(t)
           \/ AcquireTimesOut(t) \/ Finish(t)
  BY <1>2 DEF Collect, Built, DropOwn, Acquire, Cancelled, AcquireTimesOut, Finish
<1>3. CASE MergeSkips(t) \/ Merge(t) \/ Merged(t) \/ LoadGraph(t) \/ Resolve(t) \/ Mark(t)
  BY <1>3 DEF MergeSkips, Merge, Merged, LoadGraph, Resolve, Mark
<1>4. CASE EmbedFails(t) \/ InsertFails(t) \/ PhaseFails(t) \/ Crash(t)
  BY <1>4 DEF EmbedFails, InsertFails, PhaseFails, Crash, InsertedPartly
<1> QED BY <1>1, <1>2, <1>3, <1>4 DEF Step, Fails

LEMMA StoredStep ==
  ASSUME Inv, Stored, NEW t \in Tasks, Step(t) \/ Fails(t)
  PROVE  Stored'
<1>1. spoiled' = spoiled \/ spoiled' = TRUE
  BY Frame
<1>2. CASE SetDelete(t)
  BY <1>2 DEF SetDelete, Stored
<1>3. CASE SetInsert(t)
  <2>1. graphs' = graphs \cup {NewChunk(t)} /\ subs' = subs \cup run[t].new.docs
    BY <1>3 DEF SetInsert
  <2>2. NewChunk(t).docs = run[t].new.docs
    BY DEF NewChunk
  <2> QED BY <1>1, <2>1, <2>2 DEF Stored
<1>4. CASE Community(t)
  BY <1>1, <1>4 DEF Community, Stored
<1>5. CASE graphs' = graphs /\ subs \subseteq subs'
  BY <1>1, <1>5 DEF Stored
<1> QED BY <1>2, <1>3, <1>4, <1>5, Writes DEF Stored

LEMMA SingleStep ==
  ASSUME Inv, Single, NEW t \in Tasks, Step(t) \/ Fails(t)
  PROVE  Single'
<1>1. /\ spoiled' = spoiled \/ spoiled' = TRUE
      /\ expired' = expired
      /\ \A s \in Tasks : s # t => run'[s] = run[s]
  BY Frame
<1>2. spoiled' = TRUE \/ expired' = TRUE \/ (~spoiled /\ ~expired)
  BY <1>1 DEF Inv, TypeOK
<1>3. CASE ~spoiled /\ ~expired
  <2>1. /\ \A g, h \in graphs : g = h
        /\ \A s \in Tasks : run[s].pc = "insert" => graphs = {}
    BY <1>3 DEF Single
  <2>2. \A s \in Tasks : run[s].pc \in Locked => lock = s
    BY <1>3 DEF Inv, Holder
  <2>3. CASE SetDelete(t)
    BY <2>3 DEF SetDelete, Single
  <2>4. CASE SetInsert(t)
    <3>1. run[t].pc = "insert" /\ graphs' = graphs \cup {NewChunk(t)}
      BY <2>4 DEF SetInsert
    <3>2. graphs' = {NewChunk(t)}
      BY <2>1, <3>1
    <3>3. \A s \in Tasks : run'[s].pc = "insert" => s # t
      BY <2>4, SetInsertFields
    <3>4. \A s \in Tasks : run'[s].pc # "insert"
      BY <1>1, <2>2, <3>1, <3>3 DEF Locked
    <3> QED BY <3>2, <3>4 DEF Single
  <2>5. CASE graphs' = graphs
    <3>1. \A s \in Tasks : run'[s].pc = "insert" => run[s].pc = "insert" \/ SetDelete(t)
      BY <1>1, Moves
    <3> QED BY <2>1, <2>3, <2>5, <3>1 DEF Single
  <2> QED BY <2>3, <2>4, <2>5, Writes DEF Single, Community
<1> QED BY <1>2, <1>3 DEF Single

LEMMA AloneStep ==
  ASSUME Inv, Owned, Alone, NEW t \in Tasks, Step(t) \/ Fails(t)
  PROVE  Alone'
<1>1. /\ spoiled' = spoiled \/ spoiled' = TRUE
      /\ expired' = expired
      /\ cancelled' = cancelled
      /\ \A s \in Tasks : s # t => run'[s] = run[s]
      /\ Live(t)
  BY Frame
<1>2. spoiled' = TRUE \/ expired' = TRUE \/ (~spoiled /\ ~expired)
  BY <1>1 DEF Inv, TypeOK
<1>3. ASSUME ~spoiled, ~expired, NEW s \in Tasks, s \notin cancelled,
             run'[s].pc = "again", NEW u \in Tasks, run'[u].pc \in Locked
      PROVE  FALSE
  <2>1. \A v \in Tasks : run[v].pc \in Locked => lock = v
    BY <1>3 DEF Inv, Holder
  <2>2. CASE run[s].pc = "again"
    <3>1. run[u].pc \notin Locked
      BY <1>3, <2>2 DEF Alone
    <3>2. u = t /\ Acquire(t)
      BY <1>1, <1>3, <3>1, Moves
    <3>3. t \notin cancelled /\ Live(s)
      BY <2>2, <3>2 DEF Acquire, Live, Ended
    <3>4. s = t
      BY <1>1, <1>3, <3>3 DEF Owned
    <3> QED BY <1>3, <3>2, <3>4 DEF Locked
  <2>3. CASE run[s].pc # "again"
    <3>1. s = t /\ Merged(t)
      BY <1>1, <1>3, <2>3, Moves
    <3>2. run[t].pc \in Locked
      BY <3>1 DEF Merged, Locked
    <3>3. u # t
      BY <1>3, <3>1 DEF Locked
    <3> QED BY <1>1, <1>3, <2>1, <3>2, <3>3
  <2> QED BY <2>2, <2>3
<1> QED BY <1>1, <1>2, <1>3 DEF Alone

\* What a step of a task means for the claims of the others.
LEMMA OtherClaims ==
  ASSUME Inv, FInv, NEW t \in Tasks, Step(t) \/ Fails(t), ~spoiled', ~expired,
         NEW s \in Tasks, s # t, s \notin cancelled
  PROVE  Claims(s)'
<1>1. /\ ~spoiled /\ docs' = docs /\ run'[s] = run[s]
  BY Frame DEF Inv, TypeOK
<1>2. Claims(s)
  BY <1>1 DEF FInv, Safe
<1>3. CASE graphs' = graphs /\ reports' = reports /\ subs \subseteq subs'
  BY <1>1, <1>2, <1>3, ClaimsKept
<1>4. CASE SetDelete(t) \/ SetInsert(t) \/ Community(t)
  <2>1. run[t].pc \in Locked
    BY <1>4 DEF SetDelete, SetInsert, Community, Locked
  <2>2. run[s].pc \notin Locked
    BY <2>1 DEF Inv, Holder
  <2>3. run[s].pc # "again"
    BY <1>1, <2>1 DEF FInv, Alone
  <2> QED BY <1>1, <1>2, <2>2, <2>3, ClaimsKept
<1> QED BY <1>3, <1>4, Writes

\* The steps after which a task claims nothing, or only what it has to do.
LEMMA EarlyClaims ==
  ASSUME Inv, NEW t \in Tasks,
         \/ Collect(t) \/ Built(t) \/ Cancelled(t) \/ AcquireTimesOut(t)
         \/ Finish(t) \/ Crash(t)
         \/ \E d \in Docs : BuildOne(t, d) \/ SaveSubgraph(t, d) \/ BuildFails(t, d)
  PROVE  Claims(t)'
<1>0. run[t] \in Run /\ \A r : Become(t, r) => run'[t] = r
  BY Became DEF Inv
<1>1. CASE Collect(t) \/ Cancelled(t) \/ AcquireTimesOut(t) \/ Finish(t)
  <2>1. run'[t].pc \in {"build", "cancelled", "failed", "done"}
    BY <1>0, <1>1 DEF Collect, Cancelled, AcquireTimesOut, Finish, Goto, End, Run
  <2> QED BY <2>1, NoClaimsNext DEF Locked
<1>2. CASE Crash(t)
  <2>1. run'[t].pc = "queued"
    BY <1>0, <1>2 DEF Crash, NotRun
  <2> QED BY <2>1, NoClaimsNext DEF Locked
<1>3. ASSUME NEW d \in Docs, BuildOne(t, d) \/ SaveSubgraph(t, d) \/ BuildFails(t, d)
      PROVE  Claims(t)'
  <2>1. BuildOne(t, d) => run'[t].pc = "build"
    BY BuildOneFields
  <2>2. SaveSubgraph(t, d) => run'[t].pc = "build"
    BY <1>0 DEF SaveSubgraph, Run
  <2>3. BuildFails(t, d) => run'[t].pc = "build"
    BY <1>0 DEF BuildFails, Run
  <2> QED BY <1>3, <2>1, <2>2, <2>3, NoClaimsNext DEF Locked
<1>4. CASE Built(t)
  <2> DEFINE q == [run[t] EXCEPT !.pc = "acquire", !.todo = run[t].ok,
                                 !.pending = With \ markers]
  <2>1. run'[t] = [run[t] EXCEPT !.pc = "done"] \/ run'[t] = q
    BY <1>0, <1>4 DEF Built, Goto
  <2>2. CASE run'[t] = [run[t] EXCEPT !.pc = "done"]
    <3>1. run'[t].pc = "done"
      BY <1>0, <2>2 DEF Run
    <3> QED BY <3>1, NoClaimsNext DEF Locked
  <2>3. CASE run'[t] = q
    <3>1. q.pc = "acquire" /\ q.todo = run[t].ok /\ q.ok = run[t].ok
      BY <1>0 DEF Run
    <3> HIDE DEF q
    <3>2. run'[t].pc = "acquire" /\ run'[t].todo = run'[t].ok
      BY <2>3, <3>1
    <3> QED BY <3>2 DEF Claims, HasMerged, InMemory, StoresMerge, StoresPhase, Phased,
                 InPhases, Middle
  <2> QED BY <2>1, <2>2, <2>3
<1> QED BY <1>1, <1>2, <1>3, <1>4

\* The lock is taken, before the merge or before the phases.
LEMMA AcquireClaims ==
  ASSUME Inv, NEW t \in Tasks, Acquire(t), Claims(t)
  PROVE  Claims(t)'
<1>0. run[t] \in Run /\ \A r : Become(t, r) => run'[t] = r
  BY Became DEF Inv
<1>1. docs' = docs /\ graphs' = graphs /\ subs' = subs /\ reports' = reports
  BY DEF Acquire, store
<1> DEFINE pc == IF run[t].pc = "acquire" THEN "merge" ELSE "post"
           q == [run[t] EXCEPT !.pc = pc]
<1>2. run'[t] = q
  BY <1>0 DEF Acquire, Goto
<1> HIDE DEF pc
<1>3. /\ q.pc = pc /\ q.todo = run[t].todo /\ q.ok = run[t].ok /\ q.graph = run[t].graph
      /\ q.for = run[t].for /\ q.pending = run[t].pending
  BY <1>0 DEF Run
<1> HIDE DEF q
<1>4. InGraph(t)' = InGraph(t)
  BY <1>1, <1>2, <1>3 DEF InGraph
<1>5. CASE run[t].pc = "acquire"
  <2>1. run'[t].pc = "merge"
    BY <1>2, <1>3, <1>5 DEF pc
  <2>2. InGraph(t) = {}
    BY <1>5 DEF Claims, InGraph
  <2> QED BY <1>4, <2>1, <2>2 DEF Claims, HasMerged, InMemory, StoresMerge,
               StoresPhase, Phased, InPhases
<1>6. CASE run[t].pc = "again"
  <2>1. run'[t].pc = "post"
    BY <1>2, <1>3, <1>6 DEF pc
  <2>2. HasMerged(t)' /\ InMemory(t)'
    BY <1>1, <1>2, <1>3, <1>4, <1>6 DEF Claims, HasMerged, InMemory, Middle
  <2>3. HasResolved(t) => HasResolved(t)'
    BY <1>1, <1>4 DEF HasResolved
  <2>4. Phased(t)'
    BY <1>1, <1>2, <1>3, <1>4, <1>6, <2>1, <2>3 DEF Claims, Phased, InPhases
  <2> QED BY <2>1, <2>2, <2>4 DEF Claims, StoresMerge, StoresPhase
<1> QED BY <1>5, <1>6 DEF Acquire

\* A document that the graph has already is passed over: the graph read is the
\* only one, so what it has is what is stored.
LEMMA SkipClaims ==
  ASSUME Inv, Single, ~spoiled, ~expired, NEW t \in Tasks, MergeSkips(t), Claims(t)
  PROVE  Claims(t)'
<1> DEFINE d == First(run[t].todo)
           h == run'[t].graph
<1>1. docs' = docs /\ graphs' = graphs /\ subs' = subs /\ run[t].pc = "merge"
  BY DEF MergeSkips, store
<1>2. /\ run'[t].ok = run[t].ok /\ run'[t].pc = "merge"
      /\ run'[t].todo = run[t].todo \ {d} /\ h \in Loaded({}) /\ d \in h.docs
  BY MergeSkipsFields
<1>3. \A e \in InGraph(t)' : e \in InGraph(t) \/ e = d
  BY <1>1, <1>2 DEF InGraph
<1>4. graphs # {}
  BY <1>2 DEF Loaded, NoGraph
<1>5. PICK g \in graphs : h.docs = IF g.removed THEN subs ELSE g.docs
  <2>1. PICK g \in graphs :
          h = IF g.removed THEN [docs |-> subs \ {}, resolved |-> FALSE]
              ELSE [docs |-> g.docs, resolved |-> g.resolved]
    BY <1>2, <1>4 DEF Loaded
  <2> HIDE DEF h
  <2>2. h.docs = IF g.removed THEN subs ELSE g.docs
    BY <2>1
  <2> QED BY <2>2
<1>6. \A e \in graphs : e = g
  BY DEF Single
<1>7. InGraph(t) \subseteq h.docs
  BY <1>1, <1>5 DEF Claims, HasMerged, Middle
<1>8. InGraph(t)' \subseteq h.docs
  BY <1>2, <1>3, <1>7
<1>9. HasMerged(t)'
  BY <1>1, <1>4, <1>5, <1>6, <1>8 DEF HasMerged
<1> QED BY <1>2, <1>8, <1>9 DEF Claims, InMemory, StoresMerge, StoresPhase, Phased, InPhases

\* A document is put into a copy of the graph that was read.
LEMMA MergeClaims ==
  ASSUME Inv, NEW t \in Tasks, Merge(t), Claims(t)
  PROVE  Claims(t)'
<1> DEFINE d == First(run[t].todo)
<1>1. docs' = docs /\ graphs' = graphs /\ subs' = subs
  BY DEF Merge, store
<1>2. run[t].pc = "merge" /\ run[t].todo # {}
  BY DEF Merge
<1>3. /\ run'[t].ok = run[t].ok /\ run'[t].pc = "delete" /\ run'[t].for = "merge"
      /\ run'[t].todo = run[t].todo /\ run'[t].graph = run[t].graph
  BY MergeFields
<1>4. PICK g \in Loaded({d}) : run'[t].new.docs = g.docs \cup {d}
  BY MergeFields
<1>5. InGraph(t)' = InGraph(t)
  BY <1>1, <1>3 DEF InGraph
<1>6. d \in run[t].todo
  BY <1>2, Became, FirstType DEF Inv, Run
<1> HIDE DEF d
<1>7. InGraph(t) \subseteq g.docs
  <2>1. d \notin InGraph(t)
    BY <1>6 DEF InGraph
  <2>2. /\ \A h \in graphs : InGraph(t) \subseteq IF h.removed THEN subs ELSE h.docs
        /\ graphs = {} => InGraph(t) = {}
    BY <1>2 DEF Claims, HasMerged, Middle
  <2>3. CASE graphs = {}
    BY <2>2, <2>3
  <2>4. CASE graphs # {}
    <3>1. PICK h \in graphs :
            g = IF h.removed THEN [docs |-> subs \ {d}, resolved |-> FALSE]
                ELSE [docs |-> h.docs, resolved |-> h.resolved]
      BY <1>4, <2>4 DEF Loaded
    <3>2. g.docs = IF h.removed THEN subs \ {d} ELSE h.docs
      BY <3>1
    <3> QED BY <2>1, <2>2, <3>1, <3>2
  <2> QED BY <2>3, <2>4
<1>8. HasMerged(t)' /\ InMemory(t)'
  BY <1>1, <1>2, <1>3, <1>5 DEF Claims, HasMerged, InMemory, Middle
<1>9. StoresMerge(t)'
  BY <1>3, <1>4, <1>5, <1>7 DEF StoresMerge, d
<1> QED BY <1>3, <1>8, <1>9 DEF Claims, StoresPhase, Phased, InPhases

LEMMA DeleteClaims ==
  ASSUME Inv, NEW t \in Tasks, SetDelete(t), Claims(t)
  PROVE  Claims(t)'
<1>0. run[t] \in Run /\ \A r : Become(t, r) => run'[t] = r
  BY Became DEF Inv
<1>1. docs' = docs /\ reports' = reports /\ run[t].pc = "delete"
  BY DEF SetDelete
<1> DEFINE q == [run[t] EXCEPT !.pc = "insert"]
<1>2. run'[t] = q
  BY <1>0 DEF SetDelete, Goto
<1>3. /\ q.pc = "insert" /\ q.todo = run[t].todo /\ q.ok = run[t].ok
      /\ q.graph = run[t].graph /\ q.new = run[t].new
      /\ q.for = run[t].for /\ q.pending = run[t].pending
  BY <1>0 DEF Run
<1> HIDE DEF q
<1>4. InGraph(t)' = InGraph(t)
  BY <1>1, <1>2, <1>3 DEF InGraph
<1>5. HasMerged(t)' /\ InMemory(t)'
  BY <1>1, <1>2, <1>3, <1>4 DEF Claims, HasMerged, InMemory, Middle
<1>6. StoresMerge(t)' /\ StoresPhase(t)'
  BY <1>1, <1>2, <1>3, <1>4 DEF Claims, StoresMerge, StoresPhase
<1>7. Phased(t)'
  BY <1>1, <1>2, <1>3, <1>4 DEF Claims, StoresPhase, Phased, InPhases
<1> QED BY <1>2, <1>3, <1>5, <1>6, <1>7 DEF Claims

\* The graph that was stored is the one in memory, and the only one.
LEMMA InsertClaims ==
  ASSUME Inv, Single, ~spoiled, ~expired, NEW t \in Tasks, SetInsert(t), Claims(t)
  PROVE  Claims(t)'
<1> DEFINE c == NewChunk(t)
<1>1. /\ docs' = docs /\ reports' = reports /\ run[t].pc = "insert"
      /\ graphs' = graphs \cup {c}
  BY DEF SetInsert
<1>2. graphs' = {c}
  BY <1>1 DEF Single
<1>3. c.docs = run[t].new.docs /\ c.resolved = run[t].new.resolved /\ c.removed = FALSE
  BY DEF NewChunk
<1> HIDE DEF c
<1>4. /\ run'[t].ok = run[t].ok /\ run'[t].graph = run[t].new
      /\ run'[t].for = run[t].for /\ run'[t].pending = run[t].pending
  BY SetInsertFields
<1>5. CASE run[t].for = "merge"
  <2>1. run'[t].pc = "merge" /\ run'[t].todo = run[t].todo \ {First(run[t].todo)}
    BY <1>5, SetInsertFields
  <2>2. \A e \in InGraph(t)' : e \in InGraph(t) \/ e = First(run[t].todo)
    BY <1>1, <1>4, <2>1 DEF InGraph
  <2>3. InGraph(t)' \subseteq run[t].new.docs
    BY <1>1, <1>5, <2>2 DEF Claims, StoresMerge
  <2>4. HasMerged(t)' /\ InMemory(t)'
    BY <1>2, <1>3, <1>4, <2>3 DEF HasMerged, InMemory
  <2> QED BY <2>1, <2>4 DEF Claims, StoresMerge, StoresPhase, Phased, InPhases
<1>6. CASE run[t].for # "merge"
  <2>0. run[t].for = "post"
    BY <1>6, Became DEF Inv, Run
  <2>1. run'[t].pc = "mark" /\ run'[t].todo = run[t].todo
    BY <1>6, SetInsertFields
  <2>2. InGraph(t)' = InGraph(t)
    BY <1>1, <1>4, <2>1 DEF InGraph
  <2>3. run[t].new.docs = run[t].graph.docs /\ run[t].new.resolved = TRUE
    BY <1>1, <2>0 DEF Claims, StoresPhase
  <2>4. InGraph(t)' \subseteq run[t].new.docs
    BY <1>1, <2>2, <2>3 DEF Claims, InMemory
  <2>5. HasMerged(t)' /\ InMemory(t)' /\ HasResolved(t)'
    BY <1>2, <1>3, <1>4, <2>3, <2>4 DEF HasMerged, InMemory, HasResolved
  <2>6. Phased(t)'
    BY <1>1, <1>4, <2>0, <2>1, <2>2, <2>5 DEF Claims, Phased, InPhases
  <2> QED BY <2>1, <2>5, <2>6 DEF Claims, StoresMerge, StoresPhase
<1> QED BY <1>5, <1>6

LEMMA MergedClaims ==
  ASSUME Inv, NEW t \in Tasks, Merged(t), Claims(t)
  PROVE  Claims(t)'
<1>1. /\ docs' = docs /\ graphs' = graphs /\ subs' = subs /\ reports' = reports
      /\ run[t].pc = "merge" /\ run[t].todo = {}
  BY DEF Merged, store
<1>2. /\ run'[t].ok = run[t].ok /\ run'[t].todo = run[t].todo
      /\ run'[t].graph = run[t].graph /\ run'[t].for = "post"
      /\ run'[t].pc = IF run'[t].pending = {} THEN "done" ELSE "again"
      /\ run[t].ok # {} => run'[t].pending = With
  BY MergedFields
<1>3. CASE run'[t].pc = "done"
  BY <1>3, NoClaimsNext DEF Locked
<1>4. CASE run'[t].pc = "again"
  <2>1. InGraph(t)' = InGraph(t)
    BY <1>1, <1>2 DEF InGraph
  <2>2. HasMerged(t)' /\ InMemory(t)'
    BY <1>1, <1>2, <2>1 DEF Claims, HasMerged, InMemory, Middle
  <2>3. Phased(t)'
    BY <1>1, <1>2, <1>4 DEF Phased
  <2> QED BY <1>4, <2>2, <2>3 DEF Claims, StoresMerge, StoresPhase
<1> QED BY <1>2, <1>3, <1>4

\* A task that goes on with the phases, with the same graph and documents.
LEMMA PhaseClaims ==
  ASSUME Inv, NEW t \in Tasks, Claims(t), InPhases(t),
         run[t].pc \in {"post", "delete"}, run'[t].pc = "post",
         docs' = docs, graphs' = graphs, subs' = subs, reports' = reports,
         run'[t].ok = run[t].ok, run'[t].todo = run[t].todo, run'[t].for = run[t].for,
         run'[t].pending = run[t].pending, InGraph(t) \subseteq run'[t].graph.docs
  PROVE  Claims(t)'
<1>1. InGraph(t)' = InGraph(t)
  BY DEF InGraph
<1>2. HasMerged(t)' /\ InMemory(t)'
  BY <1>1 DEF Claims, HasMerged, InMemory, Middle
<1>3. HasResolved(t) => HasResolved(t)'
  BY <1>1 DEF HasResolved
<1>4. Phased(t)'
  BY <1>1, <1>3 DEF Claims, Phased, InPhases
<1> QED BY <1>2, <1>4 DEF Claims, StoresMerge, StoresPhase

LEMMA LoadClaims ==
  ASSUME Inv, NEW t \in Tasks, LoadGraph(t), Claims(t)
  PROVE  Claims(t)'
<1>0. run[t] \in Run /\ \A r : Become(t, r) => run'[t] = r
  BY Became DEF Inv
<1>1. /\ docs' = docs /\ graphs' = graphs /\ subs' = subs /\ reports' = reports
      /\ run[t].pc = "post" /\ run[t].graph.docs = {}
  BY DEF LoadGraph, store
<1>2. PICK g \in Loaded({}) : \/ run'[t] = [run[t] EXCEPT !.pc = "done"]
                              \/ run'[t] = [run[t] EXCEPT !.graph = g]
  BY <1>0 DEF LoadGraph, End, Goto
<1>3. CASE run'[t] = [run[t] EXCEPT !.pc = "done"]
  <2>1. run'[t].pc = "done"
    BY <1>0, <1>3 DEF Run
  <2> QED BY <2>1, NoClaimsNext DEF Locked
<1>4. CASE run'[t] = [run[t] EXCEPT !.graph = g]
  <2>1. /\ run'[t].pc = run[t].pc /\ run'[t].ok = run[t].ok /\ run'[t].todo = run[t].todo
        /\ run'[t].for = run[t].for /\ run'[t].pending = run[t].pending
    BY <1>0, <1>4 DEF Run
  <2>2. InGraph(t) = {}
    BY <1>1 DEF Claims, InMemory, Middle
  <2>3. InPhases(t)
    BY <1>1 DEF InPhases
  <2> QED BY <1>1, <2>1, <2>2, <2>3, PhaseClaims
<1> QED BY <1>2, <1>3, <1>4

LEMMA ResolveClaims ==
  ASSUME Inv, NEW t \in Tasks, Resolve(t), Claims(t)
  PROVE  Claims(t)'
<1>0. run[t] \in Run /\ \A r : Become(t, r) => run'[t] = r
  BY Became DEF Inv
<1>1. /\ docs' = docs /\ graphs' = graphs /\ subs' = subs /\ reports' = reports
      /\ run[t].pc = "post" /\ "resolution" \in run[t].pending
  BY DEF Resolve, store
<1> DEFINE n == [docs |-> run[t].graph.docs, resolved |-> TRUE]
           q == [run[t] EXCEPT !.pc = "delete", !.for = "post", !.new = n]
<1>2. run'[t] = q
  BY <1>0 DEF Resolve
<1>3. n.docs = run[t].graph.docs /\ n.resolved = TRUE
  OBVIOUS
<1> HIDE DEF n
<1>4. /\ q.pc = "delete" /\ q.for = "post" /\ q.new = n /\ q.todo = run[t].todo
      /\ q.ok = run[t].ok /\ q.graph = run[t].graph /\ q.pending = run[t].pending
  BY <1>0 DEF Run
<1> HIDE DEF q
<1>5. InGraph(t)' = InGraph(t)
  BY <1>1, <1>2, <1>4 DEF InGraph
<1>6. HasMerged(t)' /\ InMemory(t)'
  BY <1>1, <1>2, <1>4, <1>5 DEF Claims, HasMerged, InMemory, Middle
<1>7. StoresPhase(t)' /\ StoresMerge(t)'
  BY <1>1, <1>2, <1>3, <1>4 DEF StoresPhase, StoresMerge
<1>8. Phased(t)'
  BY <1>1, <1>2, <1>4, <1>5 DEF Claims, Phased, InPhases
<1> QED BY <1>2, <1>4, <1>6, <1>7, <1>8 DEF Claims

LEMMA MarkClaims ==
  ASSUME Inv, NEW t \in Tasks, Mark(t), Claims(t)
  PROVE  Claims(t)'
<1>0. run[t] \in Run /\ \A r : Become(t, r) => run'[t] = r
  BY Became DEF Inv
<1>1. /\ docs' = docs /\ graphs' = graphs /\ subs' = subs /\ reports' = reports
      /\ run[t].pc = "mark"
  BY DEF Mark, store
<1> DEFINE q == [run[t] EXCEPT !.pc = "post", !.pending = @ \ {"resolution"}]
<1>2. run'[t] = q
  BY <1>0 DEF Mark
<1>3. /\ q.pc = "post" /\ q.for = run[t].for /\ q.todo = run[t].todo /\ q.ok = run[t].ok
      /\ q.graph = run[t].graph /\ q.pending = run[t].pending \ {"resolution"}
  BY <1>0 DEF Run
<1> HIDE DEF q
<1>4. InGraph(t)' = InGraph(t)
  BY <1>1, <1>2, <1>3 DEF InGraph
<1>5. HasMerged(t)' /\ InMemory(t)'
  BY <1>1, <1>2, <1>3, <1>4 DEF Claims, HasMerged, InMemory, Middle
<1>6. HasResolved(t) => HasResolved(t)'
  BY <1>1, <1>4 DEF HasResolved
<1>7. "community" \notin q.pending => "community" \notin run[t].pending
  BY <1>3
<1>8. Phased(t)'
  BY <1>1, <1>2, <1>3, <1>4, <1>6, <1>7 DEF Claims, Phased, InPhases
<1> QED BY <1>2, <1>3, <1>5, <1>8 DEF Claims, StoresMerge, StoresPhase

LEMMA CommunityClaims ==
  ASSUME Inv, NEW t \in Tasks, Community(t), Claims(t)
  PROVE  Claims(t)'
<1>0. run[t] \in Run /\ \A r : Become(t, r) => run'[t] = r
  BY Became DEF Inv
<1>1. /\ docs' = docs /\ graphs' = graphs /\ subs' = subs /\ reports' = run[t].graph.docs
      /\ run[t].pc = "post" /\ "resolution" \notin run[t].pending
  BY DEF Community
<1> DEFINE q == [run[t] EXCEPT !.pending = {}, !.try = 1]
<1>2. run'[t] = q
  BY <1>0 DEF Community
<1>3. /\ q.pc = "post" /\ q.for = run[t].for /\ q.todo = run[t].todo /\ q.ok = run[t].ok
      /\ q.graph = run[t].graph
  BY <1>0, <1>1 DEF Run
<1> HIDE DEF q
<1>4. InGraph(t)' = InGraph(t)
  BY <1>1, <1>2, <1>3 DEF InGraph
<1>5. HasMerged(t)' /\ InMemory(t)'
  BY <1>1, <1>2, <1>3, <1>4 DEF Claims, HasMerged, InMemory, Middle
<1>6. HasResolved(t) => HasResolved(t)'
  BY <1>1, <1>4 DEF HasResolved
<1>7. InGraph(t)' \subseteq reports'
  BY <1>1, <1>4 DEF Claims, InMemory, Middle
<1>8. Phased(t)'
  BY <1>1, <1>2, <1>3, <1>6, <1>7 DEF Claims, Phased, InPhases
<1> QED BY <1>2, <1>3, <1>5, <1>8 DEF Claims, StoresMerge, StoresPhase

\* An attempt that failed before it stored anything is repeated.
LEMMA RetryClaims ==
  ASSUME Inv, NEW t \in Tasks, EmbedFails(t) \/ PhaseFails(t), Claims(t)
  PROVE  Claims(t)'
<1>0. run[t] \in Run /\ \A r : Become(t, r) => run'[t] = r
  BY Became DEF Inv
<1>1. /\ docs' = docs /\ graphs' = graphs /\ subs' = subs /\ reports' = reports
      /\ run[t].pc \in {"post", "delete"} /\ Retry(t)
  BY DEF EmbedFails, PhaseFails, store
<1> DEFINE q == [run[t] EXCEPT !.pc = run[t].for, !.new = NoGraph, !.try = @ + 1]
<1>2. run'[t] = [run[t] EXCEPT !.pc = "failed"] \/ run'[t] = q
  BY <1>0, <1>1 DEF Retry, End, Goto
<1>3. CASE run'[t] = [run[t] EXCEPT !.pc = "failed"]
  <2>1. run'[t].pc = "failed"
    BY <1>0, <1>3 DEF Run
  <2> QED BY <2>1, NoClaimsNext DEF Locked
<1>4. CASE run'[t] = q
  <2>1. /\ q.pc = run[t].for /\ q.for = run[t].for /\ q.todo = run[t].todo
        /\ q.ok = run[t].ok /\ q.graph = run[t].graph /\ q.pending = run[t].pending
    BY <1>0 DEF Run
  <2> HIDE DEF q
  <2>2. CASE run[t].for = "merge"
    <3>1. InGraph(t)' = InGraph(t)
      BY <1>1, <1>4, <2>1 DEF InGraph
    <3>2. HasMerged(t)' /\ InMemory(t)'
      BY <1>1, <1>4, <2>1, <3>1 DEF Claims, HasMerged, InMemory, Middle
    <3> QED BY <1>4, <2>1, <2>2, <3>2 DEF Claims, StoresMerge, StoresPhase, Phased, InPhases
  <2>3. CASE run[t].for = "post"
    <3>1. InPhases(t) /\ InGraph(t) \subseteq run[t].graph.docs
      BY <1>1, <2>3 DEF Claims, InPhases, InMemory, Middle
    <3> QED BY <1>1, <1>4, <2>1, <2>3, <3>1, PhaseClaims
  <2> QED BY <1>0, <2>2, <2>3 DEF Run
<1> QED BY <1>2, <1>3, <1>4

LEMMA SafeStep ==
  ASSUME Inv, FInv, NEW t \in Tasks, Step(t) \/ Fails(t)
  PROVE  Safe'
<1>1. /\ spoiled' = spoiled \/ spoiled' = TRUE
      /\ expired' = expired
      /\ cancelled' = cancelled
  BY Frame
<1>2. SUFFICES ASSUME ~spoiled', ~expired, NEW s \in Tasks, s \notin cancelled
               PROVE  Claims(s)'
  BY <1>1 DEF Safe
<1>3. ~spoiled /\ Claims(s) /\ Single
  BY <1>1, <1>2 DEF FInv, Safe
<1>4. CASE s # t
  BY <1>2, <1>4, OtherClaims
<1>5. CASE s = t
  <2>1. CASE \/ Collect(t) \/ Built(t) \/ Cancelled(t) \/ AcquireTimesOut(t)
             \/ Finish(t) \/ Crash(t)
             \/ \E d \in Docs : BuildOne(t, d) \/ SaveSubgraph(t, d) \/ BuildFails(t, d)
    BY <1>5, <2>1, EarlyClaims
  <2>2. CASE DropOwn(t)
    BY <1>3, <1>5, <2>2, ClaimsKept DEF DropOwn, store
  <2>3. CASE Acquire(t)
    BY <1>3, <1>5, <2>3, AcquireClaims
  <2>4. CASE MergeSkips(t)
    BY <1>2, <1>3, <1>5, <2>4, SkipClaims
  <2>5. CASE Merge(t)
    BY <1>3, <1>5, <2>5, MergeClaims
  <2>6. CASE SetDelete(t)
    BY <1>3, <1>5, <2>6, DeleteClaims
  <2>7. CASE SetInsert(t)
    BY <1>2, <1>3, <1>5, <2>7, InsertClaims
  <2>8. CASE Merged(t)
    BY <1>3, <1>5, <2>8, MergedClaims
  <2>9. CASE LoadGraph(t)
    BY <1>3, <1>5, <2>9, LoadClaims
  <2>10. CASE Resolve(t)
    BY <1>3, <1>5, <2>10, ResolveClaims
  <2>11. CASE Mark(t)
    BY <1>3, <1>5, <2>11, MarkClaims
  <2>12. CASE Community(t)
    BY <1>3, <1>5, <2>12, CommunityClaims
  <2>13. CASE EmbedFails(t) \/ PhaseFails(t)
    BY <1>3, <1>5, <2>13, RetryClaims
  <2>14. CASE InsertFails(t)
    BY <1>2, <2>14 DEF InsertFails, InsertedPartly
  <2> QED BY <2>1, <2>2, <2>3, <2>4, <2>5, <2>6, <2>7, <2>8, <2>9, <2>10, <2>11,
             <2>12, <2>13, <2>14 DEF Step, Fails
<1> QED BY <1>4, <1>5
-----------------------------------------------------------------------------
\* Requests.  The same is stored, and the task has no more documents to answer for.
LEMMA FewerClaims ==
  ASSUME NEW t \in Tasks, Claims(t), run' = run, InGraph(t)' \subseteq InGraph(t),
         graphs' = graphs, reports' = reports, subs' = subs
  PROVE  Claims(t)'
<1>1. HasMerged(t)' /\ InMemory(t)'
  BY DEF Claims, HasMerged, InMemory
<1>2. StoresMerge(t)' /\ StoresPhase(t)'
  BY DEF Claims, StoresMerge, StoresPhase
<1>3. HasResolved(t) => HasResolved(t)'
  BY DEF HasResolved
<1>4. Phased(t)'
  BY <1>3 DEF Claims, Phased, InPhases
<1> QED BY <1>1, <1>2, <1>4 DEF Claims

LEMMA UploadStep ==
  ASSUME Inv, FInv, NEW d \in Docs, Upload(d)
  PROVE  FInv'
<1> USE DEF store, history
<1>1. /\ docs[d] = "absent" /\ docs' = [docs EXCEPT ![d] = "present"]
      /\ UNCHANGED <<graphs, subs, reports, lock, kbTask, cancelled, run, expired, spoiled>>
  BY DEF Upload
<1>2. \A e \in Docs : docs'[e] = IF e = d THEN "present" ELSE docs[e]
  BY <1>1 DEF Inv, TypeOK
<1>3. Known'
  BY <1>1, <1>2 DEF FInv, Known
<1>4. Owned' /\ Stored' /\ Single' /\ Alone'
  BY <1>1 DEF FInv, Owned, Live, Stored, Single, Alone
<1>5. ASSUME NEW t \in Tasks PROVE InGraph(t)' \subseteq InGraph(t)
  <2>1. run[t].ok \subseteq Docs /\ d \notin run[t].ok
    BY <1>1, Became DEF Inv, Run, FInv, Known
  <2> QED BY <1>1, <1>2, <2>1 DEF InGraph
<1>6. Safe'
  BY <1>1, <1>5, FewerClaims DEF FInv, Safe
<1> QED BY <1>3, <1>4, <1>6 DEF FInv

LEMMA RunIndexFInv ==
  ASSUME Inv, FInv, NEW t \in Tasks, RunIndex(t)
  PROVE  FInv'
<1> USE DEF store
<1>0. run[t] \in Run /\ \A r : Become(t, r) => run'[t] = r
  BY Became DEF Inv
<1> DEFINE q == [NotRun EXCEPT !.pc = "queued", !.ids = Present]
<1>1. /\ Become(t, q) /\ kbTask' = t /\ run[t].pc = "none"
      /\ spoiled' = (spoiled \/ Overlaps)
      /\ UNCHANGED <<docs, graphs, subs, reports, cancelled, expired>>
  BY DEF RunIndex
<1>2. q.pc = "queued" /\ q.ids = Present /\ q.todo = {} /\ q.gen = {} /\ q.ok = {}
  BY DEF NotRun
<1> HIDE DEF q
<1>3. run'[t] = q
  BY <1>0, <1>1
<1>4. \A s \in Tasks : s # t => run'[s] = run[s]
  BY <1>1 DEF Become, Inv, TypeOK
<1>5. Known'
  BY <1>1, <1>2, <1>3, <1>4 DEF FInv, Known, Present
<1>6. Owned'
  BY <1>1, <1>3, <1>4 DEF Owned, Overlaps, Live
<1>7. Stored' /\ Single' /\ Alone'
  BY <1>1, <1>2, <1>3, <1>4 DEF FInv, Stored, Single, Alone, Locked
<1>8. ASSUME NEW s \in Tasks, Claims(s) PROVE Claims(s)'
  <2>1. CASE s = t
    BY <1>2, <1>3, <2>1, NoClaimsNext DEF Locked
  <2>2. CASE s # t
    BY <1>1, <1>4, <1>8, <2>2, ClaimsKept
  <2> QED BY <2>1, <2>2
<1>9. Safe'
  BY <1>1, <1>8 DEF FInv, Safe
<1> QED BY <1>5, <1>6, <1>7, <1>9 DEF FInv

\* The graph is wiped under no task that goes on, or its end is not promised.
LEMMA WipeFInv ==
  ASSUME Inv, FInv, DeleteIndex \/ DeleteGraph
  PROVE  FInv'
<1> USE DEF store, history, WipeStore
<1>1. /\ docs' = docs /\ run' = run /\ expired' = expired
      /\ cancelled \subseteq cancelled' /\ (spoiled => spoiled')
  <2>1. CASE DeleteIndex
    <3>1. /\ docs' = docs /\ run' = run /\ expired' = expired /\ spoiled' = spoiled
          /\ cancelled' = cancelled \cup {kbTask}
      BY <2>1 DEF DeleteIndex
    <3> QED BY <3>1
  <2>2. CASE DeleteGraph
    <3>1. /\ docs' = docs /\ run' = run /\ expired' = expired /\ cancelled' = cancelled
          /\ spoiled' = (spoiled \/ Overlaps)
      BY <2>2 DEF DeleteGraph
    <3> QED BY <3>1
  <2> QED BY <2>1, <2>2
<1>2. ~spoiled' => \A t \in Tasks : Live(t) => t \in cancelled'
  <2>1. CASE DeleteIndex
    BY <2>1 DEF DeleteIndex, FInv, Owned
  <2>2. CASE DeleteGraph
    BY <2>2 DEF DeleteGraph, Overlaps
  <2> QED BY <2>1, <2>2
<1>3. Known' /\ Owned'
  BY <1>1, <1>2 DEF FInv, Known, Owned, Live
<1>4. \/ graphs' = {} /\ subs' = {}
      \/ graphs' = graphs /\ subs' = subs
  BY DEF DeleteIndex, DeleteGraph
<1>5. Stored' /\ Single'
  BY <1>1, <1>4 DEF FInv, Stored, Single
<1>6. Alone'
  BY <1>1, <1>2 DEF Alone, Live, Ended
<1>7. ASSUME NEW t \in Tasks, ~Live(t) PROVE Claims(t)'
  <2>1. run'[t].pc \notin Locked \cup {"again", "acquire"}
    BY <1>1, <1>7 DEF Live, Ended, Locked
  <2> QED BY <2>1, NoClaimsNext
<1>8. Safe'
  BY <1>2, <1>7 DEF Safe
<1> QED BY <1>3, <1>5, <1>6, <1>8 DEF FInv

LEMMA ExpiryFInv ==
  ASSUME Inv, FInv, LockExpires
  PROVE  FInv'
<1>1. /\ UNCHANGED <<docs, graphs, subs, reports, kbTask, cancelled, run, spoiled>>
      /\ expired => expired'
  BY DEF LockExpires, store
<1>2. Known' /\ Owned' /\ Stored'
  BY <1>1 DEF FInv, Known, Owned, Live, Stored
<1>3. Single' /\ Alone'
  BY <1>1 DEF FInv, Single, Alone
<1>4. Safe'
  BY <1>1, ClaimsKept DEF FInv, Safe
<1> QED BY <1>2, <1>3, <1>4 DEF FInv

\* A document leaves the stored graph, its subgraphs and the reports, and is
\* none that the task answers for any more.
LEMMA RemoveFInv ==
  ASSUME Inv, FInv, NEW d \in Docs, RemoveDocument(d)
  PROVE  FInv'
<1>1. /\ docs' = [docs EXCEPT ![d] = "removed"]
      /\ UNCHANGED <<kbTask, cancelled, run, expired>>
      /\ spoiled' = (spoiled \/ (Overlaps /\ graphs # {} /\ graphs' = {}))
  BY DEF RemoveDocument
<1>2. \A e \in Docs : docs'[e] = IF e = d THEN "removed" ELSE docs[e]
  BY <1>1 DEF Inv, TypeOK
<1>3. Known' /\ Owned' /\ Alone'
  <2>1. Known'
    BY <1>1, <1>2 DEF FInv, Known
  <2>2. Owned'
    BY <1>1 DEF FInv, Owned, Live
  <2>3. Alone'
    BY <1>1 DEF FInv, Alone
  <2> QED BY <2>1, <2>2, <2>3
<1>4. ASSUME NEW t \in Tasks PROVE \A e \in InGraph(t)' : e \in InGraph(t) /\ e # d
  <2>1. run[t].ok \subseteq Docs
    BY Became DEF Inv, Run
  <2> QED BY <1>1, <1>2, <2>1 DEF InGraph
<1>5. CASE UNCHANGED store
  <2>1. graphs' = graphs /\ subs' = subs /\ reports' = reports
    BY <1>5 DEF store
  <2>2. Stored' /\ Single'
    BY <1>1, <2>1 DEF FInv, Stored, Single
  <2>3. Safe'
    BY <1>1, <1>4, <2>1, FewerClaims DEF FInv, Safe
  <2> QED BY <1>3, <2>2, <2>3 DEF FInv
<1>6. CASE ~UNCHANGED store
  <2> DEFINE W(g) == [g EXCEPT !.docs = @ \ {d}, !.removed = TRUE]
  <2>1. /\ graphs # {} /\ graphs' = {g \in {W(h) : h \in graphs} : g.docs # {}}
        /\ subs' = subs \ {d} /\ reports' = reports \ {d}
    BY <1>6 DEF RemoveDocument
  <2>2. ASSUME NEW g \in graphs
        PROVE  W(g).docs = g.docs \ {d} /\ W(g).removed = TRUE /\ W(g).resolved = g.resolved
    BY DEF Inv, TypeOK, Chunk
  <2> HIDE DEF W
  <2>3. \A g \in graphs' : \E h \in graphs :
          /\ g = W(h) /\ g.docs = h.docs \ {d} /\ g.removed = TRUE /\ g.resolved = h.resolved
    BY <2>1, <2>2
  <2>4. Stored'
    BY <1>1, <2>1, <2>3 DEF FInv, Stored
  <2>5. Single'
    <3>1. (\A g, h \in graphs : g = h) => \A g, h \in graphs' : g = h
      BY <2>3
    <3>2. graphs = {} => graphs' = {}
      BY <2>1
    <3> QED BY <1>1, <3>1, <3>2 DEF FInv, Single
  <2>6. ASSUME NEW t \in Tasks, t \notin cancelled, ~spoiled', ~expired
        PROVE  Claims(t)'
    <3>1. Claims(t) /\ ~spoiled
      BY <1>1, <2>6 DEF FInv, Safe
    <3>2. CASE run[t].pc \notin Locked \cup {"again", "acquire"}
      BY <1>1, <3>2, NoClaimsNext
    <3>3. CASE run[t].pc \in Locked \cup {"again", "acquire"}
      <4>1. Overlaps
        BY <2>6, <3>3 DEF Overlaps, Live, Ended, Locked
      <4>2. graphs' # {}
        BY <1>1, <2>1, <2>6, <4>1
      <4>3. \A g \in graphs : g.docs \subseteq subs
        BY <3>1 DEF FInv, Stored
      <4>4. run[t].pc \in Middle => InGraph(t) \subseteq subs
        BY <2>1, <3>1, <4>3 DEF Claims, HasMerged
      <4>5. HasMerged(t)' /\ InMemory(t)'
        BY <1>1, <1>4, <2>1, <2>3, <3>1, <4>2, <4>4 DEF Claims, HasMerged, InMemory
      <4>6. StoresMerge(t)' /\ StoresPhase(t)'
        BY <1>1, <1>4, <3>1 DEF Claims, StoresMerge, StoresPhase
      <4>7. HasResolved(t) => HasResolved(t)'
        BY <1>4, <2>3 DEF HasResolved
      <4>8. InGraph(t) \subseteq reports => InGraph(t)' \subseteq reports'
        BY <1>4, <2>1
      <4>9. Phased(t)'
        BY <1>1, <3>1, <4>7, <4>8 DEF Claims, Phased, InPhases
      <4> QED BY <1>1, <3>1, <4>5, <4>6, <4>9 DEF Claims
    <3> QED BY <3>2, <3>3
  <2>7. Safe'
    BY <1>1, <2>6 DEF Safe
  <2> QED BY <1>3, <2>4, <2>5, <2>7 DEF FInv
<1> QED BY <1>5, <1>6

LEMMA InitFInv == Init => FInv
<1> SUFFICES ASSUME Init PROVE FInv
  OBVIOUS
<1>1. /\ graphs = {} /\ spoiled = FALSE
      /\ \A t \in Tasks : run[t] = NotRun
  BY DEF Init
<1>2. /\ NotRun.pc = "none" /\ NotRun.ids = {} /\ NotRun.todo = {}
      /\ NotRun.gen = {} /\ NotRun.ok = {}
  BY DEF NotRun
<1>3. Known /\ Owned /\ Stored /\ Single /\ Alone
  BY <1>1, <1>2 DEF Known, Owned, Live, Stored, Single, Alone
<1>4. Safe
  BY <1>1, <1>2, NoClaims DEF Safe, Locked
<1> QED BY <1>3, <1>4 DEF FInv

LEMMA NextFInv == Inv /\ FInv /\ [Next]_vars => FInv'
<1> SUFFICES ASSUME Inv, FInv, [Next]_vars PROVE FInv'
  OBVIOUS
<1>1. ASSUME NEW t \in Tasks, Step(t) \/ Fails(t) PROVE FInv'
  <2>1. Known /\ Owned /\ Stored /\ Single /\ Alone
    BY DEF FInv
  <2>2. Known' /\ Owned' /\ Stored'
    BY <1>1, <2>1, KnownStep, OwnedStep, StoredStep
  <2>3. Single' /\ Alone' /\ Safe'
    BY <1>1, <2>1, SingleStep, AloneStep, SafeStep
  <2> QED BY <2>2, <2>3 DEF FInv
<1>2. CASE UNCHANGED vars
  <2>1. /\ UNCHANGED <<docs, graphs, subs, reports, kbTask, cancelled, run, expired>>
        /\ spoiled' = spoiled
    BY <1>2 DEF vars
  <2>2. Known' /\ Owned' /\ Stored'
    BY <2>1 DEF FInv, Known, Owned, Live, Stored
  <2>3. Single' /\ Alone'
    BY <2>1 DEF FInv, Single, Alone
  <2>4. Safe'
    BY <2>1, ClaimsKept DEF FInv, Safe
  <2> QED BY <2>2, <2>3, <2>4 DEF FInv
<1> QED BY <1>1, <1>2, UploadStep, RemoveFInv, WipeFInv, ExpiryFInv, RunIndexFInv DEF Next
-----------------------------------------------------------------------------
\* The steps with which a task ends well.
LEMMA EndsBy ==
  ASSUME Inv, [Next]_vars, NEW t \in Tasks, run[t].pc # "done", run'[t].pc = "done"
  PROVE  Built(t) \/ Merged(t) \/ LoadGraph(t) \/ Finish(t)
<1>0. run[t] \in Run /\ \A r : Become(t, r) => run'[t] = r
  BY Became DEF Inv
<1>1. run' # run
  OBVIOUS
<1>2. ~UNCHANGED vars /\ ~DeleteIndex /\ ~DeleteGraph /\ ~LockExpires
  BY <1>1 DEF vars, DeleteIndex, DeleteGraph, LockExpires
<1>3. ASSUME NEW d \in Docs PROVE ~Upload(d) /\ ~RemoveDocument(d)
  BY <1>1 DEF Upload, RemoveDocument
<1>4. ASSUME NEW s \in Tasks, RunIndex(s) PROVE FALSE
  <2>1. run' = [run EXCEPT ![s] = [NotRun EXCEPT !.pc = "queued", !.ids = Present]]
    BY <1>4 DEF RunIndex, Become
  <2>2. s # t => run'[t] = run[t]
    BY <2>1 DEF Inv, TypeOK
  <2>3. s = t => run'[t].pc = "queued"
    BY <1>0, <1>4 DEF RunIndex, NotRun
  <2> QED BY <2>2, <2>3
<1>5. PICK s \in Tasks : Step(s) \/ Fails(s)
  BY <1>2, <1>3, <1>4 DEF Next
<1>6. s = t
  BY <1>5, Frame
<1>7. ~Collect(t) /\ ~DropOwn(t) /\ ~Acquire(t) /\ ~Cancelled(t) /\ ~AcquireTimesOut(t)
  BY <1>0 DEF Collect, DropOwn, Acquire, Cancelled, AcquireTimesOut, Goto, End, Run
<1>8. ASSUME NEW d \in Docs PROVE ~BuildOne(t, d) /\ ~SaveSubgraph(t, d) /\ ~BuildFails(t, d)
  <2>1. ~BuildOne(t, d)
    BY BuildOneFields
  <2>2. ~SaveSubgraph(t, d)
    BY <1>0 DEF SaveSubgraph, Run
  <2>3. ~BuildFails(t, d)
    BY <1>0 DEF BuildFails, Run
  <2> QED BY <2>1, <2>2, <2>3
<1>9. ~MergeSkips(t) /\ ~Merge(t) /\ ~SetInsert(t)
  <2>1. ~SetInsert(t)
    <3>1. ASSUME SetInsert(t) PROVE run'[t].pc \in {"merge", "mark"}
      BY <3>1, SetInsertFields
    <3> QED BY <3>1
  <2> QED BY <2>1, MergeSkipsFields, MergeFields
<1>10. ~SetDelete(t) /\ ~Resolve(t) /\ ~Mark(t) /\ ~Community(t)
  BY <1>0 DEF SetDelete, Resolve, Mark, Community, Goto, Run
<1>11. ~EmbedFails(t) /\ ~InsertFails(t) /\ ~PhaseFails(t)
  BY <1>0 DEF EmbedFails, InsertFails, PhaseFails, Retry, Goto, End, Run
<1>12. ~Crash(t)
  BY <1>0 DEF Crash, NotRun
<1> QED BY <1>5, <1>6, <1>7, <1>8, <1>9, <1>10, <1>11, <1>12 DEF Step, Fails

\* What the claims are worth at the end.
LEMMA EndStepClaims ==
  ASSUME Inv, FInv, [Next]_vars, NEW t \in Tasks
  PROVE  EndsWell(t)
<1> DEFINE kept == run[t].ok \cap Present
<1>1. SUFFICES ASSUME run[t].pc # "done", run'[t].pc = "done", t \notin cancelled,
                      ~expired, ~spoiled, kept # {}
               PROVE  /\ graphs # {}
                      /\ \A g \in graphs :
                           \/ "resolution" \notin With /\ g.removed
                           \/ /\ kept \subseteq g.docs
                              /\ "resolution" \in With => g.resolved
                              /\ "community" \in With => kept \subseteq reports
  BY DEF EndsWell
<1>2. run[t] \in Run /\ \A r : Become(t, r) => run'[t] = r
  BY Became DEF Inv
<1>3. Claims(t)
  BY <1>1 DEF FInv, Safe
<1>4. run[t].ok # {}
  BY <1>1
<1>5. ASSUME run[t].todo = {} PROVE kept = InGraph(t)
  BY <1>2, <1>5 DEF InGraph, Present, Run
<1> HIDE DEF kept
<1>6. CASE Built(t)
  <2>1. run'[t].pc # "acquire"
    BY <1>1
  <2>2. run'[t] # [run[t] EXCEPT !.pc = "acquire", !.todo = run[t].ok,
                                 !.pending = With \ markers]
    BY <1>2, <2>1 DEF Run
  <2> QED BY <1>2, <1>4, <1>6, <2>2 DEF Built
<1>7. CASE Merged(t)
  <2>1. run[t].pc = "merge" /\ run[t].todo = {}
    BY <1>7 DEF Merged
  <2>2. With = {}
    BY <1>1, <1>4, <1>7, MergedFields
  <2>3. kept = InGraph(t)
    BY <1>5, <2>1
  <2> QED BY <1>1, <1>3, <2>1, <2>2, <2>3 DEF Claims, HasMerged, Middle
<1>8. CASE LoadGraph(t)
  <2>1. run[t].pc = "post" /\ run[t].graph.docs = {}
    BY <1>8 DEF LoadGraph
  <2>2. run[t].todo = {} /\ InGraph(t) = {}
    BY <1>3, <2>1 DEF Claims, InMemory, Middle, Phased, InPhases
  <2> QED BY <1>1, <1>5, <2>2
<1>9. CASE Finish(t)
  <2>1. run[t].pc = "post" /\ run[t].pending = {}
    BY <1>9 DEF Finish
  <2>2. /\ run[t].todo = {}
        /\ "resolution" \in With => HasResolved(t)
        /\ "community" \in With => InGraph(t) \subseteq reports
    BY <1>3, <1>4, <2>1 DEF Claims, Phased, InPhases
  <2>3. kept = InGraph(t)
    BY <1>5, <2>2
  <2>4. /\ graphs # {}
        /\ \A g \in graphs : InGraph(t) \subseteq IF g.removed THEN subs ELSE g.docs
    BY <1>1, <1>3, <2>1, <2>3 DEF Claims, HasMerged, Middle
  <2> QED BY <2>2, <2>3, <2>4 DEF HasResolved
<1> QED BY <1>1, <1>6, <1>7, <1>8, <1>9, EndsBy

(***************************************************************************)
(* Finishes: a task that ends well, whatever was uploaded and removed      *)
(* while it ran and however often it was started again, leaves its         *)
(* documents in the graph and the phases done on that graph.               *)
(***************************************************************************)
THEOREM EndsWithGraph == Spec => Finishes
<1>1. Inv /\ FInv /\ [Next]_vars => [\A t \in Tasks : EndsWell(t)]_vars
  BY EndStepClaims
<1>2. Spec => []FInv
  BY InitFInv, NextFInv, Invariance, PTL DEF Spec
<1> QED
  BY <1>1, <1>2, Invariance, PTL DEF Spec, Finishes
=============================================================================
