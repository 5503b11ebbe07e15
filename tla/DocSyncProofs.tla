---------------------------- MODULE DocSyncProofs ----------------------------
(***************************************************************************)
(* Proofs about the status of a document, for any number of tasks,         *)
(* executors, deliveries and requests.                                     *)
(***************************************************************************)
EXTENDS DocSync, TLAPS

SyncRecord == [pc : {"idle", "tasks", "doc", "write"},
               status : {"RUNNING", "DONE", "FAIL"}, prg : Progress]

\* The part of TypeOK about one run of _sync_progress.
SyncOK(rec) ==
    /\ rec \in SyncRecord
    /\ [status |-> rec.status, prg |-> rec.prg] \in Results

\* What a result may be, without records.
LEMMA ResultCases ==
    ASSUME NEW rec \in SyncRecord
    PROVE  SyncOK(rec) <=>
             \/ rec.status = "RUNNING" /\ rec.prg \in {0, 1}
             \/ rec.status = "DONE" /\ rec.prg = Full
             \/ rec.status = "FAIL" /\ rec.prg = Bad
BY DEF SyncOK, SyncRecord, Results, Full, Bad

LEMMA IdleOK == SyncOK(Idle)
<1>1. Idle \in SyncRecord /\ Idle.status = "RUNNING" /\ Idle.prg = 0
  BY DEF Idle, SyncRecord, Progress
<1> QED
  BY <1>1, ResultCases

\* A table of runs stays well typed when one of them is replaced.
LEMMA SyncUpdate ==
    ASSUME TypeOK, NEW s \in Syncers, NEW rec, SyncOK(rec),
           sync' = [sync EXCEPT ![s] = rec]
    PROVE  /\ sync' \in [Syncers -> SyncRecord]
           /\ \A u \in Syncers : SyncOK(sync'[u])
<1>1. sync \in [Syncers -> SyncRecord] /\ rec \in SyncRecord
  BY DEF TypeOK, SyncOK, SyncRecord
<1>2. \A u \in Syncers : SyncOK(sync[u])
  BY <1>1 DEF TypeOK, SyncOK
<1>3. \A u \in Syncers : sync'[u] = IF u = s THEN rec ELSE sync[u]
  BY <1>1
<1> QED
  BY <1>1, <1>2, <1>3

\* Moving a run on keeps its result.
LEMMA GotoOK ==
    ASSUME TypeOK, NEW s \in Syncers, NEW pc \in {"tasks", "write"}
    PROVE  SyncOK([sync[s] EXCEPT !.pc = pc])
<1> DEFINE rec == [sync[s] EXCEPT !.pc = pc]
<1> SUFFICES SyncOK(rec)
  OBVIOUS
<1>1. sync[s] \in SyncRecord /\ SyncOK(sync[s])
  BY DEF TypeOK, SyncOK, SyncRecord
<1>2. rec \in SyncRecord /\ rec.status = sync[s].status /\ rec.prg = sync[s].prg
  BY <1>1 DEF SyncRecord
<1> HIDE DEF rec
<1> QED
  BY <1>1, <1>2 DEF SyncOK

\* The result read from the tasks.
LEMMA ReadOK ==
    ASSUME TypeOK, NEW s \in Syncers, ReadTasks(s)
    PROVE  \E rec : SyncOK(rec) /\ sync' = [sync EXCEPT ![s] = rec]
<1> DEFINE running == [pc |-> "doc", status |-> "RUNNING", prg |-> Mean]
           failed == [pc |-> "doc", status |-> "FAIL", prg |-> Bad]
           finished == [pc |-> "doc", status |-> "DONE", prg |-> Full]
<1>1. /\ running \in SyncRecord /\ running.status = "RUNNING" /\ running.prg \in {0, 1}
      /\ failed \in SyncRecord /\ failed.status = "FAIL" /\ failed.prg = Bad
      /\ finished \in SyncRecord /\ finished.status = "DONE" /\ finished.prg = Full
  BY DEF SyncRecord, Mean, Progress, Bad, Full
<1>2. \/ sync' = [sync EXCEPT ![s] = Idle]
      \/ sync' = [sync EXCEPT ![s] = running]
      \/ sync' = [sync EXCEPT ![s] = failed]
      \/ sync' = [sync EXCEPT ![s] = finished]
  BY DEF ReadTasks
<1> HIDE DEF running, failed, finished
<1>3. SyncOK(running) /\ SyncOK(failed) /\ SyncOK(finished)
  BY <1>1, ResultCases
<1> QED
  BY <1>2, <1>3, IdleOK

\* TypeOK follows from its parts.
LEMMA TypeFromParts ==
    ASSUME run \in Status, dprog \in Progress, seen \in Status,
           rows \subseteq Tasks, prog \in [Tasks -> Progress],
           received \in [Tasks -> 0..MaxReceives],
           api \in {"idle", "delete", "insert", "begin", "mark", "read", "write"},
           requests \in 0..MaxRequests,
           sync \in [Syncers -> SyncRecord],
           \A s \in Syncers : SyncOK(sync[s])
    PROVE  TypeOK
BY DEF TypeOK, SyncOK, SyncRecord

IInv == TypeOK /\ EndsAgree

LEMMA InitIInv == Init => IInv
<1> SUFFICES ASSUME Init PROVE IInv
  OBVIOUS
<1>1. /\ sync \in [Syncers -> SyncRecord]
      /\ \A s \in Syncers : SyncOK(sync[s])
  BY IdleOK DEF Init, SyncOK
<1>2. /\ run \in Status /\ dprog \in Progress /\ seen \in Status
      /\ rows \subseteq Tasks /\ prog \in [Tasks -> Progress]
      /\ received \in [Tasks -> 0..MaxReceives]
      /\ api = "idle" /\ requests \in 0..MaxRequests
  BY DocSyncAssumption DEF Init, Status, Progress
<1> QED
  BY <1>1, <1>2, TypeFromParts DEF Init, IInv, EndsAgree

\* A report stores a progress.
LEMMA UpdateProgressType ==
    ASSUME NEW cur \in Progress, NEW p \in Progress
    PROVE  UpdateProgress(cur, p) \in Progress
BY DEF UpdateProgress

\* Steps of requests and of executors leave the runs of _sync_progress alone.
LEMMA OutsideStep ==
    ASSUME IInv, Api \/ \E t \in Tasks : Receive(t) \/ Report(t)
    PROVE  IInv'
<1> USE DEF IInv, TypeOK, EndsAgree, Status
<1>1. CASE ParseStart \/ ParseDelete \/ ParseInsert \/ ParseBegin
  BY <1>1, DocSyncAssumption DEF ParseStart, ParseDelete, ParseInsert, ParseBegin,
     Accept, doc, tasks, Progress
<1>2. CASE Stop \/ MarkCancelled
  BY <1>2, DocSyncAssumption DEF Stop, MarkCancelled, Accept, doc, tasks, Progress
<1>3. ASSUME NEW t \in Tasks, CancelTask(t) PROVE IInv'
  <2>1. prog' \in [Tasks -> Progress]
    BY <1>3 DEF CancelTask, Progress
  <2> QED
    BY <1>3, <2>1, DocSyncAssumption DEF CancelTask, Accept, doc
<1>4. CASE CancelRead \/ CancelWrite
  BY <1>4 DEF CancelRead, CancelWrite, doc, tasks, Progress
<1>5. ASSUME NEW t \in Tasks, Receive(t) PROVE IInv'
  <2>1. prog' \in [Tasks -> Progress]
    BY <1>5 DEF Receive, Progress
  <2>2. received' \in [Tasks -> 0..MaxReceives]
    BY <1>5, DocSyncAssumption DEF Receive
  <2> QED
    BY <1>5, <2>1, <2>2 DEF Receive, doc, request
<1>6. ASSUME NEW t \in Tasks, Report(t) PROVE IInv'
  <2>1. PICK p \in Progress : prog' = [prog EXCEPT ![t] = UpdateProgress(@, p)]
    BY <1>6 DEF Report, Progress
  <2>2. prog' \in [Tasks -> Progress]
    BY <2>1, UpdateProgressType
  <2> QED
    BY <1>6, <2>2 DEF Report, doc, request
<1> QED
  BY <1>1, <1>2, <1>3, <1>4, <1>5, <1>6 DEF Api

\* A step of a run of _sync_progress that does not write.
LEMMA QuietStep ==
    ASSUME IInv, NEW s \in Syncers, NEW rec, SyncOK(rec),
           sync' = [sync EXCEPT ![s] = rec], UNCHANGED <<doc, tasks, request>>
    PROVE  IInv'
<1>1. /\ sync' \in [Syncers -> SyncRecord]
      /\ \A u \in Syncers : SyncOK(sync'[u])
  BY SyncUpdate DEF IInv
<1>2. TypeOK'
  BY <1>1 DEF TypeOK, SyncOK, SyncRecord, doc, tasks, request, IInv
<1> QED
  BY <1>2 DEF IInv, EndsAgree, doc

LEMMA WriteStep ==
    ASSUME IInv, NEW s \in Syncers, Write(s)
    PROVE  IInv'
<1>1. SyncOK(sync[s]) /\ sync[s] \in SyncRecord
  BY DEF IInv, TypeOK, SyncOK, SyncRecord
<1>2. \/ sync[s].status = "RUNNING" /\ sync[s].prg \in {0, 1}
      \/ sync[s].status = "DONE" /\ sync[s].prg = Full
      \/ sync[s].status = "FAIL" /\ sync[s].prg = Bad
  BY <1>1, ResultCases
<1>3. run' \in Status /\ dprog' \in Progress /\ EndsAgree'
  BY <1>2 DEF Write, IInv, TypeOK, EndsAgree, doc, Status, Progress, Full, Bad
<1>4. /\ sync' \in [Syncers -> SyncRecord]
      /\ \A u \in Syncers : SyncOK(sync'[u])
  BY SyncUpdate, IdleOK DEF IInv, Write
<1>5. TypeOK'
  BY <1>3, <1>4 DEF TypeOK, SyncOK, SyncRecord, Write, tasks, request, IInv
<1> QED
  BY <1>3, <1>5 DEF IInv

LEMMA NextIInv == IInv /\ [Next]_vars => IInv'
<1> SUFFICES ASSUME IInv, [Next]_vars PROVE IInv'
  OBVIOUS
<1>1. CASE UNCHANGED vars
  BY <1>1 DEF vars, IInv, TypeOK, EndsAgree
<1>2. CASE Api \/ \E t \in Tasks : Receive(t) \/ Report(t)
  BY <1>2, OutsideStep
<1>3. CASE Select
  <2>1. Server \in Syncers
    BY DEF Syncers
  <2>2. sync' = [sync EXCEPT ![Server] = [sync[Server] EXCEPT !.pc = "tasks"]]
    BY <1>3 DEF Select, Goto
  <2> QED
    BY <1>3, <2>1, <2>2, GotoOK, QuietStep DEF Select, IInv
<1>4. ASSUME NEW s \in Executors, Immediate(s) PROVE IInv'
  <2>1. s \in Syncers
    BY DEF Syncers
  <2>2. sync' = [sync EXCEPT ![s] = [sync[s] EXCEPT !.pc = "tasks"]]
    BY <1>4 DEF Immediate, Goto
  <2> QED
    BY <1>4, <2>1, <2>2, GotoOK, QuietStep DEF Immediate, IInv
<1>5. ASSUME NEW s \in Syncers, ReadTasks(s) PROVE IInv'
  BY <1>5, ReadOK, QuietStep DEF IInv, ReadTasks
<1>6. ASSUME NEW s \in Syncers, ReadDoc(s) PROVE IInv'
  <2>1. \/ sync' = [sync EXCEPT ![s] = Idle]
        \/ sync' = [sync EXCEPT ![s] = [sync[s] EXCEPT !.pc = "write"]]
    BY <1>6 DEF ReadDoc
  <2> QED
    BY <1>6, <2>1, IdleOK, GotoOK, QuietStep DEF ReadDoc, IInv
<1>7. ASSUME NEW s \in Syncers, Write(s) PROVE IInv'
  BY <1>7, WriteStep
<1> QED
  BY <1>1, <1>2, <1>3, <1>4, <1>5, <1>6, <1>7 DEF Next, Syncing

LEMMA Invariance == Spec => []IInv
BY InitIInv, NextIInv, PTL DEF Spec

\* The types, and that what _sync_progress is about to write is consistent.
THEOREM TypeCorrect == Spec => []TypeOK
<1>1. IInv => TypeOK
  BY DEF IInv
<1> QED
  BY <1>1, Invariance, PTL

\* A document that is DONE shows 100% and a failed one -1, in spite of the
\* requests and other runs of _sync_progress between its reads and its UPDATE.
THEOREM StatusMatchesProgress == Spec => []EndsAgree
<1>1. IInv => EndsAgree
  BY DEF IInv
<1> QED
  BY <1>1, Invariance, PTL

\* No run of _sync_progress undoes a cancellation, however old what it read.
THEOREM CancellationStands == Spec => CancelKept
<1> DEFINE Keeps == run = "CANCEL" /\ run' # "CANCEL" => ParseStart \/ ParseBegin
<1>1. [Next]_vars => [Keeps]_vars
  <2> SUFFICES ASSUME Next, run = "CANCEL", run' # "CANCEL"
               PROVE  ParseStart \/ ParseBegin
    OBVIOUS
  <2>1. CASE Api
    BY <2>1 DEF Api, ParseDelete, ParseInsert, Stop, MarkCancelled, CancelTask,
       CancelRead, CancelWrite, doc
  <2>2. CASE \E t \in Tasks : Receive(t) \/ Report(t)
    BY <2>2 DEF Receive, Report, doc
  <2>3. CASE Select \/ \E s \in Executors : Immediate(s)
    BY <2>3 DEF Select, Immediate, doc
  <2>4. CASE \E s \in Syncers : Syncing(s)
    BY <2>4 DEF Syncing, ReadTasks, ReadDoc, Write, doc
  <2> QED
    BY <2>1, <2>2, <2>3, <2>4 DEF Next
<1> QED
  BY <1>1, PTL DEF Spec, CancelKept
=============================================================================
