---------------------------- MODULE IngestProofs -----------------------------
(***************************************************************************)
(* Proof that stopping or removing a document leaves no chunks of the      *)
(* tasks that were cancelled, for any number of requests, tasks, parts and *)
(* batches.                                                                *)
(***************************************************************************)
EXTENDS Ingest, TLAPS, LeastNumber, SequenceTheorems

\* A table of handlers, whatever they are.
Jobs(f) == f = [t \in Tasks |-> f[t]]

\* The types the argument needs, and that a stopped task has its flag.
Shape ==
    /\ Jobs(job)
    /\ store \in [Chunks -> Nat]
    /\ stopped \subseteq flag

\* CancelLeavesNothing, and already when the handler has only the report of its
\* end and the acknowledgement left.
Clean ==
    \A t \in Tasks : t \in stopped \ cut /\ job[t].pc \in {"off", "end"} =>
        \A ch \in Chunks : store[ch] # t

IInv == Shape /\ Clean
-----------------------------------------------------------------------------
\* Moving a handler on leaves the other handlers alone.
LEMMA GotoUpdate ==
    ASSUME Shape, NEW t \in Tasks, NEW pc, NEW b, NEW fail, Goto(t, pc, b, fail)
    PROVE  /\ Jobs(job')
           /\ job'[t].pc = pc
           /\ \A u \in Tasks : u # t => job'[u] = job[u]
<1> DEFINE j == [pc |-> pc, b |-> b, fail |-> fail]
<1>1. j.pc = pc
  OBVIOUS
<1>2. job' = [job EXCEPT ![t] = j]
  BY DEF Goto
<1> HIDE DEF j
<1> QED
  BY <1>1, <1>2 DEF Shape, Jobs

\* Deleting chunks takes none over.
LEMMA WithoutUpdate ==
    ASSUME Shape, NEW chs, store' = Without(chs)
    PROVE  /\ store' \in [Chunks -> Nat]
           /\ \A ch \in Chunks : store'[ch] = 0 \/ store'[ch] = store[ch]
           /\ chs = Chunks => \A ch \in Chunks : store'[ch] = 0
BY DEF Shape, Without

\* A step that moves no handler, adds no chunk and stops no task.
LEMMA StillStep ==
    ASSUME IInv, UNCHANGED <<job, cut>>, store' \in [Chunks -> Nat],
           \A ch \in Chunks : store'[ch] = 0 \/ store'[ch] = store[ch],
           stopped' \subseteq stopped, stopped' \subseteq flag'
    PROVE  IInv'
BY DEF IInv, Shape, Clean, Tasks

\* A step of one handler that adds no chunk, to a state in which it is still
\* responsible for its chunks, or has none, or is not stopped.
LEMMA HandlerStep ==
    ASSUME IInv, NEW t \in Tasks, UNCHANGED <<flag, stopped>>,
           cut \subseteq cut', store' \in [Chunks -> Nat],
           Jobs(job'),
           \A u \in Tasks : u # t => job'[u] = job[u],
           \A ch \in Chunks : store'[ch] \in {0, t, store[ch]},
           \/ job'[t].pc \notin {"off", "end"}
           \/ t \notin flag \/ t \in cut'
           \/ \A ch \in Chunks : store'[ch] # t
    PROVE  IInv'
<1>1. Shape'
  BY DEF IInv, Shape
<1>2. ASSUME NEW u \in Tasks, u \in (stopped \ cut)',
             job'[u].pc \in {"off", "end"}, NEW ch \in Chunks
      PROVE  store'[ch] # u
  <2>1. u # 0 /\ u \in stopped \ cut /\ u \in flag
    BY <1>2 DEF Tasks, IInv, Shape
  <2>2. CASE u = t
    BY <1>2, <2>1, <2>2
  <2>3. CASE u # t
    <3>1. store[ch] # u
      BY <1>2, <2>1, <2>3 DEF IInv, Clean
    <3> QED
      BY <2>1, <2>3, <3>1
  <2> QED
    BY <2>2, <2>3
<1> QED
  BY <1>1, <1>2 DEF IInv, Clean

\* The requests.
LEMMA RequestStep ==
    ASSUME IInv, NEW r \in Requests, Request(r)
    PROVE  IInv'
<1> USE DEF exec
<1>0. store \in [Chunks -> Nat] /\ Shape /\ stopped \subseteq flag
  BY DEF IInv, Shape
<1>1. CASE DeleteChunks(r)
  <2>1. /\ store' = Without(Chunks) /\ UNCHANGED <<job, cut, flag>>
        /\ stopped' = stopped \cup (req[r].flagged \cap flag)
    BY <1>1 DEF DeleteChunks
  <2>2. store' \in [Chunks -> Nat] /\ \A ch \in Chunks : store'[ch] = 0
    BY <1>0, <2>1, WithoutUpdate
  <2> QED
    BY <1>0, <2>1, <2>2 DEF IInv, Shape, Clean, Tasks
<1>2. CASE PurgePrevious(r)
  <2>1. /\ store' = Without(req[r].gone)
        /\ UNCHANGED <<job, cut, flag, stopped>>
    BY <1>2 DEF PurgePrevious
  <2>2. /\ store' \in [Chunks -> Nat]
        /\ \A ch \in Chunks : store'[ch] = 0 \/ store'[ch] = store[ch]
    BY <1>0, <2>1, WithoutUpdate
  <2> QED
    BY <1>0, <2>1, <2>2, StillStep
<1>3. CASE SetFlag(r)
  BY <1>0, <1>3, StillStep DEF SetFlag
<1>4. CASE \/ \E kind \in AllKinds : Begin(r, kind)
           \/ DeleteRows(r) \/ QueryTasks(r) \/ SetFlagFails(r)
           \/ MarkCancelled(r) \/ ReadConfig(r) \/ DropPrevious(r)
           \/ InsertRows(r) \/ BeginParse(r) \/ SendTasks(r)
  <2>1. UNCHANGED <<job, cut, flag, stopped, store>>
    BY <1>4 DEF Begin, DeleteRows, QueryTasks, SetFlagFails, MarkCancelled,
                ReadConfig, DropPrevious, InsertRows, BeginParse, SendTasks
  <2> QED
    BY <1>0, <2>1, StillStep
<1> QED
  BY <1>1, <1>2, <1>3, <1>4 DEF Request

\* The handlers.
LEMMA ExecutorStep ==
    ASSUME IInv, NEW t \in Tasks, Handler(t)
    PROVE  IInv'
<1> USE DEF api, exec
<1>0. store \in [Chunks -> Nat] /\ Shape /\ stopped \subseteq flag
  BY DEF IInv, Shape
<1>b. t \in Nat
  BY DEF Tasks
<1>c. store' = store =>
        /\ store' \in [Chunks -> Nat]
        /\ \A ch \in Chunks : store'[ch] \in {0, t, store[ch]}
  BY <1>0
<1>d. ASSUME NEW pc, NEW b, NEW fail, Goto(t, pc, b, fail)
      PROVE  /\ Jobs(job')
             /\ job'[t].pc = pc
             /\ \A u \in Tasks : u # t => job'[u] = job[u]
  BY <1>0, <1>d, GotoUpdate
<1>1. CASE Collect(t)
  <2>1. UNCHANGED <<flag, store, stopped, cut>>
    BY <1>1 DEF Collect
  <2>2. CASE UNCHANGED job
    BY <1>0, <2>1, <2>2, StillStep
  <2>3. CASE Goto(t, "build", 0, FALSE)
    <3>1. /\ Jobs(job') /\ job'[t].pc = "build"
          /\ \A u \in Tasks : u # t => job'[u] = job[u]
      BY <1>d, <2>3
    <3> QED
      BY <1>c, <2>1, <3>1, HandlerStep
  <2> QED
    BY <1>1, <2>2, <2>3 DEF Collect
<1>2. CASE Build(t) \/ Inserted(t) \/ Complete(t)
  <2>1. UNCHANGED <<flag, store, stopped, cut>>
    BY <1>2 DEF Build, Inserted, Complete
  <2>2. \E pc \in {"insert", "index", "finally"} : \E b, fail :
          Goto(t, pc, b, fail)
    BY <1>2 DEF Build, Inserted, Complete
  <2>3. /\ Jobs(job') /\ job'[t].pc \notin {"off", "end"}
        /\ \A u \in Tasks : u # t => job'[u] = job[u]
    BY <1>d, <2>2
  <2> QED
    BY <1>c, <2>1, <2>3, HandlerStep
<1>3. CASE InsertBatch(t) \/ Fail(t)
  <2>1. UNCHANGED <<flag, stopped, cut>>
    BY <1>3 DEF InsertBatch, Fail
  <2>2. \E pc \in {"inserted", "finally"} : \E b, fail :
          Goto(t, pc, b, fail)
    BY <1>3 DEF InsertBatch, Fail
  <2>3. /\ Jobs(job') /\ job'[t].pc \notin {"off", "end"}
        /\ \A u \in Tasks : u # t => job'[u] = job[u]
    BY <1>d, <2>2
  <2>4. store' = store \/ \E ch : store' = [store EXCEPT ![ch] = t]
    BY <1>3 DEF InsertBatch, Fail
  <2>5. /\ store' \in [Chunks -> Nat]
        /\ \A ch \in Chunks : store'[ch] \in {0, t, store[ch]}
    <3>1. CASE store' = store
      BY <1>c, <3>1
    <3>2. ASSUME NEW c, store' = [store EXCEPT ![c] = t]
          PROVE  /\ store' \in [Chunks -> Nat]
                 /\ \A ch \in Chunks : store'[ch] \in {0, t, store[ch]}
      BY <1>0, <1>b, <3>2
    <3> QED
      BY <2>4, <3>1, <3>2
  <2> QED
    BY <2>1, <2>3, <2>5, HandlerStep
<1>4. CASE Finally(t)
  <2>1. UNCHANGED <<flag, store, stopped, cut>>
    BY <1>4 DEF Finally
  <2>2. Goto(t, IF t \in flag THEN "wipe" ELSE "end", 0, job[t].fail)
    BY <1>4 DEF Finally
  <2>3. /\ Jobs(job')
        /\ job'[t].pc = IF t \in flag THEN "wipe" ELSE "end"
        /\ \A u \in Tasks : u # t => job'[u] = job[u]
    BY <1>d, <2>2
  <2> QED
    BY <1>c, <2>1, <2>3, HandlerStep
<1>5. CASE FinallyUnread(t) \/ WipeFails(t) \/ Crash(t)
  <2>1. /\ UNCHANGED <<flag, store, stopped>>
        /\ cut \subseteq cut' /\ (t \in flag => t \in cut')
    BY <1>5 DEF FinallyUnread, WipeFails, Crash
  <2>2. \E pc \in {"off", "end"} : \E fail : Goto(t, pc, 0, fail)
    BY <1>5 DEF FinallyUnread, WipeFails, Crash
  <2>3. /\ Jobs(job')
        /\ \A u \in Tasks : u # t => job'[u] = job[u]
    BY <1>d, <2>2
  <2> QED
    BY <1>c, <2>1, <2>3, HandlerStep
<1>6. CASE Wipe(t)
  <2>1. /\ UNCHANGED <<flag, stopped, cut>> /\ store' = Without(Chunks)
        /\ Goto(t, "end", 0, job[t].fail)
    BY <1>6 DEF Wipe
  <2>2. store' \in [Chunks -> Nat] /\ \A ch \in Chunks : store'[ch] = 0
    BY <1>0, <2>1, WithoutUpdate
  <2>3. /\ Jobs(job')
        /\ \A u \in Tasks : u # t => job'[u] = job[u]
    BY <1>d, <2>1
  <2>4. t # 0
    BY DEF Tasks
  <2> QED
    BY <2>1, <2>2, <2>3, <2>4, HandlerStep
<1>7. CASE End(t)
  <2>1. /\ UNCHANGED <<flag, stopped, cut, store>> /\ job[t].pc = "end"
        /\ Goto(t, "off", 0, FALSE)
    BY <1>7 DEF End
  <2>2. /\ Jobs(job')
        /\ \A u \in Tasks : u # t => job'[u] = job[u]
    BY <1>d, <2>1
  <2>3. t \notin stopped \/ t \in cut \/ \A ch \in Chunks : store[ch] # t
    BY <2>1 DEF IInv, Clean
  <2>4. CASE t \in stopped
    BY <1>c, <2>1, <2>2, <2>3, <2>4, HandlerStep
  <2>5. CASE t \notin stopped
    BY <1>0, <2>1, <2>2, <2>5 DEF IInv, Shape, Clean
  <2> QED
    BY <2>4, <2>5
<1>8. CASE Expire(t)
  <2>1. /\ UNCHANGED <<job, cut, store>> /\ flag' = flag \ {t}
        /\ stopped' = stopped \ {t}
    BY <1>8 DEF Expire
  <2> QED
    BY <1>0, <2>1, StillStep
<1> QED
  BY <1>1, <1>2, <1>3, <1>4, <1>5, <1>6, <1>7, <1>8 DEF Handler

\* The invariant holds in every reachable state.
LEMMA Invariance == Spec => []IInv
<1>1. Init => IInv
  BY DEF Init, IInv, Shape, Clean, Jobs, Off
<1>2. IInv /\ [Next]_vars => IInv'
  <2> SUFFICES ASSUME IInv, [Next]_vars PROVE IInv'
    OBVIOUS
  <2>0. store \in [Chunks -> Nat] /\ stopped \subseteq flag
    BY DEF IInv, Shape
  <2>1. CASE UNCHANGED vars \/ Sync
    BY <2>0, <2>1, StillStep DEF vars, Sync, exec
  <2> QED
    BY <2>1, RequestStep, ExecutorStep DEF Next
<1> QED
  BY <1>1, <1>2, PTL DEF Spec

\* Stopping or removing a document leaves no chunk of a cancelled task whose
\* handler could clean up, whatever the interleaving.
THEOREM StopCleans == Spec => []CancelLeavesNothing
<1>1. IInv => CancelLeavesNothing
  BY DEF IInv, Clean, CancelLeavesNothing
<1> QED
  BY <1>1, Invariance, PTL
-----------------------------------------------------------------------------
(***************************************************************************)
(* The plans of the requests: what is left of one is a plan again, and     *)
(* which statement comes before which.                                     *)
(***************************************************************************)
Steps == {"rows", "store", "config", "drop", "purge", "insert", "begin", "send",
          "tasks", "flag", "mark"}

Follows(n, h) ==
    /\ n # "tasks"
    /\ n = "flag" => h = "tasks"
    /\ n = "mark" => h = "flag"
    /\ n = "rows" => h \in {"store", "flag"}
    /\ n = "store" => h \in {"rows", "mark"}
    /\ n = "config" => h \in {"rows", "store"}
    /\ n = "drop" => h = "config"
    /\ n = "purge" => h = "drop"
    /\ n = "insert" => h = "purge"
    /\ n = "begin" => h = "insert"
    /\ n = "send" => h = "begin"

Ordered(s) ==
    /\ s \in Seq(Steps) /\ Len(s) \in 3..8
    /\ \A i \in 1..(Len(s) - 1) : Follows(s[i + 1], s[i])

LEMMA QueueOrdered ==
    /\ QueueTasks \in Seq(Steps) /\ Len(QueueTasks) = 6
    /\ QueueTasks[1] = "config" /\ QueueTasks[2] = "drop"
    /\ QueueTasks[3] = "purge" /\ QueueTasks[4] = "insert"
    /\ QueueTasks[5] = "begin" /\ QueueTasks[6] = "send"
BY DEF QueueTasks, Steps

LEMMA QueueIsOrdered == Ordered(QueueTasks)
<1>1. ASSUME NEW i \in 1..5
      PROVE  Follows(QueueTasks[i + 1], QueueTasks[i])
  <2>1. i \in {1, 2, 3, 4, 5}
    OBVIOUS
  <2> QED
    BY <2>1, QueueOrdered DEF Follows
<1> QED
  BY <1>1, QueueOrdered DEF Ordered

\* Two statements before those of queue_tasks.
LEMMA PairOrdered ==
    ASSUME NEW a \in Steps, NEW b \in Steps, Follows(b, a), b \in {"rows", "store"}
    PROVE  Ordered(<<a, b>> \o QueueTasks)
<1> DEFINE u == <<a, b>>
<1>1. u \in Seq(Steps) /\ Len(u) = 2 /\ u[1] = a /\ u[2] = b
  OBVIOUS
<1> HIDE DEF u
<1> DEFINE s == u \o QueueTasks
<1>2. /\ s \in Seq(Steps) /\ Len(s) = 8
      /\ s[1] = a /\ s[2] = b
      /\ \A i \in 3..8 : s[i] = QueueTasks[i - 2]
  <2>1. /\ s \in Seq(Steps)
        /\ Len(s) = Len(u) + Len(QueueTasks)
        /\ \A i \in 1..(Len(u) + Len(QueueTasks)) :
             s[i] = IF i <= Len(u) THEN u[i] ELSE QueueTasks[i - Len(u)]
    BY <1>1, QueueOrdered, ConcatProperties
  <2> HIDE DEF s
  <2>2. Len(u) = 2 /\ Len(QueueTasks) = 6
    BY <1>1, QueueOrdered
  <2> QED
    BY <1>1, <2>1, <2>2
<1> HIDE DEF s
<1>3. ASSUME NEW i \in 1..7 PROVE Follows(s[i + 1], s[i])
  <2>1. CASE i = 1
    BY <1>2, <2>1
  <2>2. CASE i = 2
    <3>1. s[3] = QueueTasks[1]
      BY <1>2
    <3> QED
      BY <1>2, <2>2, <3>1, QueueOrdered DEF Follows
  <2>3. CASE i \in 3..7
    <3>1. s[i + 1] = QueueTasks[(i - 2) + 1] /\ s[i] = QueueTasks[i - 2]
      BY <1>2, <2>3
    <3>2. i - 2 \in 1..5
      BY <2>3
    <3> QED
      BY <3>1, <3>2, QueueIsOrdered, QueueOrdered DEF Ordered
  <2> QED
    BY <2>1, <2>2, <2>3
<1>4. Ordered(s)
  BY <1>2, <1>3 DEF Ordered
<1> QED
  BY <1>4 DEF s, u

LEMMA PlanOrdered ==
    ASSUME NEW kind \in AllKinds
    PROVE  Ordered(Plan(kind))
<1>1. CASE kind \in {"documents", "chunks", "run"}
  <2>1. Ordered(ParseDocuments) /\ Ordered(ParseChunks)
    BY PairOrdered DEF ParseDocuments, ParseChunks, Steps, Follows
  <2> QED
    BY <1>1, <2>1, QueueIsOrdered DEF Plan
<1>2. CASE kind = "stop"
  <2> DEFINE s == StopParsing
  <2>1. /\ s \in Seq(Steps) /\ Len(s) = 4
        /\ s[1] = "tasks" /\ s[2] = "flag" /\ s[3] = "mark" /\ s[4] = "store"
    BY DEF StopParsing, Steps
  <2>2. Plan(kind) = s
    BY <1>2 DEF Plan
  <2> HIDE DEF s
  <2>3. ASSUME NEW i \in 1..3 PROVE Follows(s[i + 1], s[i])
    <3>1. i \in {1, 2, 3}
      OBVIOUS
    <3> QED
      BY <2>1, <3>1 DEF Follows
  <2>4. Ordered(s)
    BY <2>1, <2>3 DEF Ordered
  <2> QED
    BY <2>2, <2>4
<1>3. CASE kind = "cancel"
  <2> DEFINE s == <<"tasks", "flag", "mark">>
  <2>1. /\ s \in Seq(Steps) /\ Len(s) = 3
        /\ s[1] = "tasks" /\ s[2] = "flag" /\ s[3] = "mark"
    BY DEF Steps
  <2>2. Plan(kind) = s
    BY <1>3 DEF Plan
  <2> HIDE DEF s
  <2>3. ASSUME NEW i \in 1..2 PROVE Follows(s[i + 1], s[i])
    <3>1. i \in {1, 2}
      OBVIOUS
    <3> QED
      BY <2>1, <3>1 DEF Follows
  <2>4. Ordered(s)
    BY <2>1, <2>3 DEF Ordered
  <2> QED
    BY <2>2, <2>4
<1>4. CASE kind = "remove"
  <2> DEFINE s == RemoveDocument
  <2>1. /\ s \in Seq(Steps) /\ Len(s) = 4
        /\ s[1] = "tasks" /\ s[2] = "flag" /\ s[3] = "rows" /\ s[4] = "store"
    BY DEF RemoveDocument, Steps
  <2>2. Plan(kind) = s
    BY <1>4 DEF Plan
  <2> HIDE DEF s
  <2>3. ASSUME NEW i \in 1..3 PROVE Follows(s[i + 1], s[i])
    <3>1. i \in {1, 2, 3}
      OBVIOUS
    <3> QED
      BY <2>1, <3>1 DEF Follows
  <2>4. Ordered(s)
    BY <2>1, <2>3 DEF Ordered
  <2> QED
    BY <2>2, <2>4
<1> QED
  BY <1>1, <1>2, <1>3, <1>4 DEF AllKinds

LEMMA SuffixType ==
    ASSUME NEW kind \in AllKinds, NEW j \in 1..9
    PROVE  SubSeq(Plan(kind), j, Len(Plan(kind))) \in Plans
<1> DEFINE f(k, i) == SubSeq(Plan(k), i, Len(Plan(k)))
<1>1. Plans = {f(k, i) : k \in AllKinds, i \in 1..9}
  BY DEF Plans
<1> HIDE DEF f
<1>2. f(kind, j) \in Plans
  BY <1>1
<1> QED
  BY <1>2 DEF f

\* What is left of a plan after its first statement.
LEMMA PlansStep ==
    ASSUME NEW p \in Plans, p # <<>>
    PROVE  /\ Tail(p) \in Plans /\ Len(p) \in Nat \ {0}
           /\ Head(p) = p[1]
           /\ Tail(p) # <<>> => /\ Len(p) > 1
                               /\ Head(Tail(p)) = p[2]
                               /\ Follows(p[2], p[1])
           /\ Len(p) > 1 => Tail(p) # <<>>
<1>1. PICK kind \in AllKinds, i \in 1..9 :
        p = SubSeq(Plan(kind), i, Len(Plan(kind)))
  BY DEF Plans
<1> DEFINE s == Plan(kind)
           n == Len(s)
<1>2. Ordered(s)
  BY PlanOrdered
<1>a. p = SubSeq(s, i, n)
  BY <1>1
<1>b. \A j \in 1..9 : SubSeq(s, j, n) \in Plans
  BY SuffixType
<1> HIDE DEF s
<1>3. s \in Seq(Steps) /\ n \in 3..8 /\ Len(s) = n
  BY <1>2 DEF Ordered
<1> HIDE DEF n
<1>4. i <= n
  BY <1>a, <1>3, SubSeqEmpty
<1>5. /\ Head(p) = s[i] /\ Tail(p) = SubSeq(s, i + 1, n)
  BY <1>a, <1>3, <1>4, HeadTailOfSubSeq
<1>6. \A j \in i..n : s[j] \in Steps
  BY <1>3
<1>7. /\ p \in Seq(Steps) /\ Len(p) = n - i + 1
      /\ \A j \in 1..(n - i + 1) : p[j] = s[i + j - 1]
  BY <1>a, <1>3, <1>4, <1>6, SubSeqProperties
<1>8. Tail(p) \in Plans
  <2>1. i + 1 \in 1..9
    BY <1>3, <1>4
  <2>2. SubSeq(s, i + 1, n) \in Plans
    BY <1>b, <2>1
  <2> QED
    BY <1>5, <2>2, Zenon
<1>9. ASSUME Tail(p) # <<>>
      PROVE  /\ Len(p) > 1 /\ Head(Tail(p)) = p[2] /\ Follows(p[2], p[1])
  <2>1. i + 1 <= n
    <3>1. i + 1 \in Int /\ n \in Int
      BY <1>3
    <3> QED
      BY <1>5, <1>9, <3>1, SubSeqEmpty
  <2>2. Len(p) > 1 /\ p[2] = s[i + 1] /\ p[1] = s[i]
    BY <1>3, <1>4, <1>7, <2>1
  <2>3. Head(Tail(p)) = s[i + 1]
    BY <1>3, <1>5, <2>1, HeadTailOfSubSeq
  <2>4. Follows(s[i + 1], s[i])
    BY <1>2, <1>3, <2>1 DEF Ordered, n
  <2> QED
    BY <2>2, <2>3, <2>4
<1>10. Len(p) \in Nat \ {0} /\ p[1] = s[i]
  BY <1>3, <1>4, <1>7
<1>11. ASSUME Len(p) > 1 PROVE Tail(p) # <<>>
  <2>1. Len(Tail(p)) = Len(p) - 1
    BY <1>7, HeadTailProperties
  <2>2. Len(Tail(p)) # 0
    BY <1>10, <1>11, <2>1
  <2> QED
    BY <2>2, EmptySeq
<1> QED
  BY <1>5, <1>8, <1>9, <1>10, <1>11

\* The first plan of a request, and the plan of none.
LEMMA FirstPlan ==
    ASSUME NEW kind \in AllKinds
    PROVE  /\ Plan(kind) \in Plans /\ Plan(kind) # <<>> /\ Len(Plan(kind)) > 1
           /\ Head(Plan(kind)) = Plan(kind)[1]
           /\ Head(Plan(kind)) \in {"rows", "store", "config", "tasks"}
           /\ Head(Plan(kind)) = "store" => Plan(kind)[2] = "rows"
           /\ kind \in Parses => Head(Plan(kind)) # "tasks"
<1> DEFINE s == Plan(kind)
<1>1. s \in Seq(Steps) /\ Len(s) \in 3..8
  BY PlanOrdered DEF Ordered
<1>2. s \in Plans
  <2>1. s = SubSeq(s, 1, Len(s))
    BY <1>1, SubSeqFull
  <2> QED
    BY <2>1 DEF Plans
<1>3. /\ s[1] \in {"rows", "store", "config", "tasks"}
      /\ s[1] = "store" => s[2] = "rows"
      /\ kind \in Parses => s[1] # "tasks"
  <2>1. CASE kind = "documents"
    <3>1. s = <<"rows", "store">> \o QueueTasks
      BY <2>1 DEF Plan, ParseDocuments
    <3> QED
      BY <3>1, QueueOrdered
  <2>2. CASE kind = "chunks"
    <3>1. s = <<"store", "rows">> \o QueueTasks
      BY <2>2 DEF Plan, ParseChunks
    <3> QED
      BY <3>1, QueueOrdered
  <2>3. CASE kind = "run"
    BY <2>3, QueueOrdered DEF Plan
  <2>4. CASE kind \in {"stop", "cancel", "remove"}
    <3>1. s[1] = "tasks"
      BY <2>4 DEF Plan, StopParsing, RemoveDocument
    <3> QED
      BY <2>4, <3>1 DEF Parses
  <2> QED
    BY <2>1, <2>2, <2>3, <2>4 DEF AllKinds
<1> HIDE DEF s
<1>4. s # <<>> /\ Len(s) > 1 /\ Head(s) = s[1]
  <2>1. s # <<>>
    BY <1>1, EmptySeq
  <2> QED
    BY <1>1, <2>1
<1> QED
  BY <1>2, <1>3, <1>4 DEF s

LEMMA NoPlan == <<>> \in Plans
<1> DEFINE s == Plan("run")
           n == Len(s)
<1>1. n \in 3..8
  BY PlanOrdered DEF Ordered, AllKinds
<1>2. SubSeq(s, 9, n) \in Plans
  BY SuffixType DEF AllKinds
<1> HIDE DEF s, n
<1>3. SubSeq(s, 9, n) = <<>>
  <2>1. n \in Int /\ n < 9
    BY <1>1
  <2> QED
    BY <2>1, SubSeqEmpty
<1> QED
  BY <1>2, <1>3, Zenon
-----------------------------------------------------------------------------
(***************************************************************************)
(* Types.                                                                  *)
(***************************************************************************)
Reqs == [plan : Plans, todo : SUBSET Tasks, flagged : SUBSET Tasks, base : Nat,
         made : [Parts -> SUBSET Chunks], gone : SUBSET Chunks, prev : BOOLEAN]

\* A request that has its task ids got all of them.
Based(q) ==
    q.plan # <<>> /\ Head(q.plan) \in {"drop", "purge", "insert", "begin", "send"}
        => q.base + MaxParts <= MaxTasks

ReqsOK == req \in [Requests -> Reqs] /\ \A r \in Requests : Based(req[r])

TypeInv == TypeOK /\ ReqsOK

LEMMA DoneType == Done \in Reqs /\ Done.plan = <<>> /\ Based(Done)
BY NoPlan DEF Done, Reqs, Based

\* One request changes.
LEMMA ReqUpdate ==
    ASSUME ReqsOK, NEW r \in Requests, NEW q \in Reqs, Based(q),
           req' = [req EXCEPT ![r] = q]
    PROVE  /\ ReqsOK' /\ req'[r] = q
           /\ \A u \in Requests \ {r} : req'[u] = req[u]
BY DEF ReqsOK

\* The request without its first statement.
LEMMA TailedIs ==
    ASSUME ReqsOK, NEW r \in Requests, NEW step, At(r, step)
    PROVE  /\ Tailed(r) \in Reqs
           /\ Tailed(r).plan # <<>> =>
                /\ Len(req[r].plan) > 1
                /\ Head(Tailed(r).plan) = req[r].plan[2]
                /\ Follows(Head(Tailed(r).plan), step)
           /\ Len(req[r].plan) > 1 => Tailed(r).plan # <<>>
           /\ Tailed(r).todo = req[r].todo /\ Tailed(r).flagged = req[r].flagged
           /\ Tailed(r).base = req[r].base /\ Tailed(r).made = req[r].made
           /\ Tailed(r).gone = req[r].gone /\ Tailed(r).prev = req[r].prev
<1> DEFINE q == req[r]
           p == q.plan
           w == Tail(p)
<1>1. q \in Reqs /\ p \in Plans /\ p # <<>> /\ Head(p) = step
  BY DEF ReqsOK, At, Reqs
<1>2. /\ w \in Plans /\ Head(p) = p[1]
      /\ w # <<>> => Len(p) > 1 /\ Head(w) = p[2] /\ Follows(p[2], p[1])
      /\ Len(p) > 1 => w # <<>>
  BY <1>1, PlansStep
<1>3. Tailed(r) = [q EXCEPT !.plan = w]
  BY DEF Tailed
<1> HIDE DEF q, w
<1>4. /\ Tailed(r) \in Reqs /\ Tailed(r).plan = w
      /\ Tailed(r).todo = q.todo /\ Tailed(r).flagged = q.flagged
      /\ Tailed(r).base = q.base /\ Tailed(r).made = q.made
      /\ Tailed(r).gone = q.gone /\ Tailed(r).prev = q.prev
  BY <1>1, <1>2, <1>3 DEF Reqs
<1> QED
  BY <1>1, <1>2, <1>4 DEF q

\* A statement with nothing to remember.
LEMMA PassIs ==
    ASSUME ReqsOK, NEW r \in Requests, NEW step, At(r, step), step # "config", Pass(r)
    PROVE  /\ ReqsOK'
           /\ \A u \in Requests \ {r} : req'[u] = req[u]
           /\ Len(req[r].plan) > 1 => req'[r].plan # <<>>
           /\ req'[r].plan # <<>> =>
                /\ Len(req[r].plan) > 1
                /\ Head(req'[r].plan) = req[r].plan[2]
                /\ Follows(Head(req'[r].plan), step)
                /\ req'[r].base = req[r].base /\ req'[r].made = req[r].made
                /\ req'[r].gone = req[r].gone /\ req'[r].prev = req[r].prev
<1>1. CASE Len(req[r].plan) = 1
  <2>1. req' = [req EXCEPT ![r] = Done]
    BY <1>1 DEF Pass
  <2>2. ReqsOK' /\ req'[r] = Done /\ \A u \in Requests \ {r} : req'[u] = req[u]
    BY <2>1, DoneType, ReqUpdate
  <2>3. ~(Len(req[r].plan) > 1)
    BY <1>1
  <2> QED
    BY <2>2, <2>3, DoneType
<1>2. CASE Len(req[r].plan) # 1
  <2>1. req' = [req EXCEPT ![r] = Tailed(r)]
    BY <1>2 DEF Pass
  <2>2. Based(Tailed(r))
    <3>1. /\ Tailed(r).plan # <<>> => Follows(Head(Tailed(r).plan), step)
          /\ Tailed(r).base = req[r].base
      BY TailedIs
    <3>2. Based(req[r]) /\ req[r].plan # <<>> /\ Head(req[r].plan) = step
      BY DEF ReqsOK, At
    <3> QED
      BY <3>1, <3>2 DEF Based, Follows
  <2>3. /\ ReqsOK' /\ req'[r] = Tailed(r)
        /\ \A u \in Requests \ {r} : req'[u] = req[u]
    BY <1>2, <2>1, <2>2, TailedIs, ReqUpdate
  <2> QED
    BY <1>2, <2>3, TailedIs
<1> QED
  BY <1>1, <1>2

LEMMA PartOfType ==
    ASSUME NEW t \in Tasks
    PROVE  PartOf(t) \in Parts
BY IngestAssumption DEF PartOf, Parts, Tasks

\* A report of a handler.
LEMMA ReportType ==
    ASSUME TypeOK, NEW t \in Tasks, NEW p \in Progress, Report(t, p)
    PROVE  prog' \in [Tasks -> Progress]
<1> DEFINE v == UpdateProgress(prog[t], IF t \in flag THEN Bad ELSE p)
<1>1. prog \in [Tasks -> Progress]
  BY DEF TypeOK
<1>2. v \in Progress
  BY <1>1 DEF UpdateProgress, Progress, Bad, Full
<1>3. prog' = IF t \in rows THEN [prog EXCEPT ![t] = v] ELSE prog
  BY DEF Report
<1> HIDE DEF v
<1> QED
  BY <1>1, <1>2, <1>3

\* A handler that moves on.
Pcs == {"off", "build", "insert", "inserted", "index", "finally", "wipe", "end"}
JobsOK ==
    /\ job \in [Tasks -> [pc : Pcs, b : 0..(Batches + 1), fail : BOOLEAN]]
    /\ \A t \in Tasks : job[t].pc \in {"insert", "inserted"} => job[t].b <= Batches

LEMMA GotoType ==
    ASSUME JobsOK, NEW t \in Tasks, NEW pc \in Pcs, NEW b \in 0..(Batches + 1),
           NEW fail \in BOOLEAN, pc \in {"insert", "inserted"} => b <= Batches,
           Goto(t, pc, b, fail)
    PROVE  JobsOK' /\ job'[t].pc = pc /\ job'[t].b = b
<1> DEFINE j == [pc |-> pc, b |-> b, fail |-> fail]
<1>1. /\ j \in [pc : Pcs, b : 0..(Batches + 1), fail : BOOLEAN]
      /\ j.pc = pc /\ j.b = b
  OBVIOUS
<1>2. job' = [job EXCEPT ![t] = j]
  BY DEF Goto
<1> HIDE DEF j
<1>3. job'[t] = j /\ \A u \in Tasks : u # t => job'[u] = job[u]
  BY <1>2 DEF JobsOK
<1>4. job' \in [Tasks -> [pc : Pcs, b : 0..(Batches + 1), fail : BOOLEAN]]
  BY <1>1, <1>2 DEF JobsOK
<1>5. ASSUME NEW u \in Tasks, job'[u].pc \in {"insert", "inserted"}
      PROVE  job'[u].b <= Batches
  <2>1. CASE u = t
    BY <1>1, <1>3, <1>5, <2>1
  <2>2. CASE u # t
    BY <1>3, <1>5, <2>2 DEF JobsOK
  <2> QED
    BY <2>1, <2>2
<1> QED
  BY <1>1, <1>3, <1>4, <1>5 DEF JobsOK

\* The documents and the history, apart from requests and handlers.
RestOK ==
    /\ run \in {"UNSTART", "RUNNING", "CANCEL", "DONE", "FAIL", "REMOVED"}
    /\ rows \subseteq Tasks /\ flag \subseteq Tasks /\ queued \subseteq Tasks
    /\ prog \in [Tasks -> Progress]
    /\ ids \in [Tasks -> SUBSET Chunks]
    /\ next \in 0..MaxTasks
    /\ store \in [Chunks -> 0..MaxTasks]
    /\ stopped \subseteq flag /\ cut \subseteq Tasks /\ stale \subseteq Tasks
    /\ stops \in 0..MaxStops /\ crashes \in 0..MaxCrashes
    /\ errors \in 0..MaxErrors

LEMMA TypeInvIs == TypeInv <=> RestOK /\ JobsOK /\ ReqsOK
<1>1. ReqsOK => \A r \in Requests : req[r].plan \in Plans
  BY DEF ReqsOK, Reqs
<1> QED
  BY <1>1 DEF TypeInv, TypeOK, RestOK, JobsOK, Pcs

LEMMA TypeInvNext ==
    ASSUME RestOK', JobsOK', ReqsOK'
    PROVE  TypeInv'
<1>1. \A r \in Requests : req'[r].plan \in Plans
  BY DEF ReqsOK, Reqs
<1> QED
  BY <1>1 DEF TypeInv, TypeOK, RestOK, JobsOK, Pcs

\* Requests.
LEMMA WithoutType ==
    ASSUME store \in [Chunks -> 0..MaxTasks], NEW chs, store' = Without(chs)
    PROVE  store' \in [Chunks -> 0..MaxTasks]
<1>1. 0 \in 0..MaxTasks
  BY IngestAssumption
<1> QED
  BY <1>1 DEF Without

\* The ids a request has got are those of tasks.
LEMMA NewType ==
    ASSUME ReqsOK, NEW r \in Requests, NEW step, At(r, step),
           step \in {"drop", "purge", "insert", "begin", "send"}
    PROVE  /\ New(r) \subseteq Tasks
           /\ \A t \in Tasks : Taken(r, t) \in SUBSET Chunks
<1>1. req[r].base \in Nat /\ req[r].base + MaxParts <= MaxTasks
  BY DEF ReqsOK, Reqs, At, Based
<1>2. New(r) \subseteq Tasks
  BY <1>1, IngestAssumption DEF New, Tasks
<1>3. req[r].made \in [Parts -> SUBSET Chunks]
  BY DEF ReqsOK, Reqs
<1> QED
  BY <1>2, <1>3, PartOfType DEF Taken

\* The newest previous task of a part is one of them.
LEMMA ReusedIs ==
    ASSUME RestOK, NEW p \in Parts
    PROVE  \/ Reused(p) = {}
           \/ \E t \in rows : PartOf(t) = p /\ prog[t] = Full /\ Reused(p) = ids[t]
<1> DEFINE same == {t \in rows : PartOf(t) = p}
           prev == CHOOSE t \in same : \A u \in same : u <= t
<1>1. Reused(p) = IF same # {} /\ prog[prev] = Full THEN ids[prev] ELSE {}
  BY DEF Reused
<1>2. ASSUME same # {} PROVE prev \in same
  <2>1. \E t \in same : \A u \in same : u <= t
    <3>0. Tasks \subseteq 0..MaxTasks /\ MaxTasks \in Nat
      BY IngestAssumption DEF Tasks
    <3>1. same \subseteq 0..MaxTasks
      BY <3>0 DEF RestOK
    <3> HIDE DEF same
    <3> QED
      BY <1>2, <3>0, <3>1, Largest
  <2> HIDE DEF same
  <2> QED
    BY <2>1
<1> QED
  BY <1>1, <1>2

LEMMA ReusedType ==
    ASSUME RestOK
    PROVE  [p \in Parts |-> Reused(p)] \in [Parts -> SUBSET Chunks]
<1>1. ASSUME NEW p \in Parts PROVE Reused(p) \in SUBSET Chunks
  <2>1. CASE Reused(p) = {}
    BY <2>1
  <2>2. ASSUME NEW t \in rows, Reused(p) = ids[t]
        PROVE  Reused(p) \in SUBSET Chunks
    BY <2>2 DEF RestOK
  <2> QED
    BY <2>1, <2>2, ReusedIs
<1> QED
  BY <1>1

LEMMA RequestType ==
    ASSUME TypeInv, NEW r \in Requests, Request(r)
    PROVE  TypeInv'
<1>0. RestOK /\ JobsOK /\ ReqsOK
  BY TypeInvIs
<1>q. req \in [Requests -> Reqs] /\ req[r] \in Reqs
  BY <1>0 DEF ReqsOK
<1> SUFFICES RestOK' /\ JobsOK' /\ ReqsOK'
  BY TypeInvNext
<1> USE DEF table, exec
<1>1. ASSUME NEW kind \in AllKinds, Begin(r, kind)
      PROVE  RestOK' /\ JobsOK' /\ ReqsOK'
  <2> DEFINE q == [Done EXCEPT !.plan = Plan(kind)]
  <2>1. q \in Reqs /\ q.plan = Plan(kind)
    BY DoneType, FirstPlan DEF Reqs
  <2>2. req' = [req EXCEPT ![r] = q]
    BY <1>1 DEF Begin
  <2> HIDE DEF q
  <2>3. Based(q)
    BY <2>1, FirstPlan DEF Based
  <2>4. ReqsOK'
    BY <1>0, <2>1, <2>2, <2>3, ReqUpdate
  <2>5. JobsOK'
    BY <1>0, <1>1 DEF Begin, JobsOK
  <2>6. stops' \in 0..MaxStops
    <3>1. CASE kind \in Parses
      BY <1>0, <1>1, <3>1 DEF Begin, RestOK
    <3>2. CASE kind \notin Parses
      <4>1. stops < MaxStops /\ stops' = stops + 1
        BY <1>1, <3>2 DEF Begin
      <4> QED
        BY <1>0, <4>1, IngestAssumption DEF RestOK
    <3> QED
      BY <3>1, <3>2
  <2>7. run' \in {"RUNNING", "REMOVED", run}
    BY <1>1 DEF Begin
  <2> QED
    BY <1>0, <1>1, <2>4, <2>5, <2>6, <2>7 DEF Begin, RestOK
<1>2. CASE DeleteRows(r) \/ MarkCancelled(r) \/ DropPrevious(r) \/ BeginParse(r)
  <2>1. \E step \in Steps : At(r, step) /\ step # "config" /\ Pass(r)
    BY <1>2 DEF DeleteRows, MarkCancelled, DropPrevious, BeginParse, Steps
  <2>2. ReqsOK'
    BY <1>0, <2>1, PassIs
  <2>3. JobsOK'
    BY <1>0, <1>2 DEF DeleteRows, MarkCancelled, DropPrevious, BeginParse, JobsOK
  <2> QED
    BY <1>0, <1>2, <2>2, <2>3
       DEF DeleteRows, MarkCancelled, DropPrevious, BeginParse, RestOK
<1>3. CASE DeleteChunks(r)
  <2>1. ReqsOK' /\ JobsOK'
    BY <1>0, <1>3, PassIs DEF DeleteChunks, JobsOK
  <2>2. store' \in [Chunks -> 0..MaxTasks]
    BY <1>0, <1>3, WithoutType DEF DeleteChunks, RestOK
  <2> QED
    BY <1>0, <1>3, <2>1, <2>2 DEF DeleteChunks, RestOK
<1>4. CASE PurgePrevious(r)
  <2>1. ReqsOK' /\ JobsOK'
    BY <1>0, <1>4, PassIs DEF PurgePrevious, JobsOK
  <2>2. store' \in [Chunks -> 0..MaxTasks]
    BY <1>0, <1>4, WithoutType DEF PurgePrevious, RestOK
  <2> QED
    BY <1>0, <1>4, <2>1, <2>2 DEF PurgePrevious, RestOK
<1>5. CASE QueryTasks(r)
  <2> DEFINE q == [Tailed(r) EXCEPT !.todo = rows]
  <2>1. At(r, "tasks") /\ req' = [req EXCEPT ![r] = q]
    BY <1>5 DEF QueryTasks
  <2>2. q \in Reqs /\ q.plan = Tailed(r).plan
    BY <1>0, <2>1, TailedIs DEF Reqs, RestOK
  <2> HIDE DEF q
  <2>3. Based(q)
    BY <1>0, <2>1, <2>2, TailedIs DEF Based, Follows
  <2>4. ReqsOK' /\ JobsOK'
    BY <1>0, <1>5, <2>1, <2>2, <2>3, ReqUpdate DEF QueryTasks, JobsOK
  <2> QED
    BY <1>0, <1>5, <2>4 DEF QueryTasks, RestOK
<1>6. CASE SetFlag(r)
  <2>1. CASE req[r].todo = {} /\ Pass(r) /\ UNCHANGED <<flag, stopped>>
    <3>1. ReqsOK' /\ JobsOK'
      BY <1>0, <1>6, <2>1, PassIs DEF SetFlag, JobsOK
    <3> QED
      BY <1>0, <1>6, <2>1, <3>1 DEF SetFlag, RestOK
  <2>2. ASSUME NEW t \in req[r].todo,
               flag' = flag \cup {t}, stopped' = stopped \ {t},
               req' = [req EXCEPT ![r] =
                         [req[r] EXCEPT !.todo = @ \ {t},
                                        !.flagged = @ \cup {t}]]
        PROVE  RestOK' /\ JobsOK' /\ ReqsOK'
    <3> DEFINE q == [req[r] EXCEPT !.todo = @ \ {t}, !.flagged = @ \cup {t}]
    <3>1. t \in Tasks
      BY <1>q, <2>2 DEF Reqs
    <3>2. q \in Reqs /\ q.plan = req[r].plan /\ q.base = req[r].base
      BY <1>q, <3>1 DEF Reqs
    <3>3. req' = [req EXCEPT ![r] = q]
      BY <2>2
    <3> HIDE DEF q
    <3>4. ReqsOK'
      BY <1>0, <3>2, <3>3, ReqUpdate DEF Based, ReqsOK
    <3>5. JobsOK'
      BY <1>0, <1>6 DEF SetFlag, JobsOK
    <3> QED
      BY <1>0, <1>6, <2>2, <3>1, <3>4, <3>5 DEF SetFlag, RestOK
  <2> QED
    BY <1>6, <2>1, <2>2 DEF SetFlag
<1>7. CASE SetFlagFails(r)
  <2>1. PICK t \in req[r].todo :
          req' = [req EXCEPT ![r] = [req[r] EXCEPT !.todo = @ \ {t}]]
    BY <1>7 DEF SetFlagFails
  <2> DEFINE q == [req[r] EXCEPT !.todo = @ \ {t}]
  <2>2. q \in Reqs /\ q.plan = req[r].plan /\ q.base = req[r].base
    BY <1>q DEF Reqs
  <2>3. req' = [req EXCEPT ![r] = q]
    BY <2>1
  <2> HIDE DEF q
  <2>4. ReqsOK' /\ JobsOK'
    BY <1>0, <1>7, <2>2, <2>3, ReqUpdate DEF Based, ReqsOK, SetFlagFails, JobsOK
  <2>5. errors' \in 0..MaxErrors
    BY <1>0, <1>7, IngestAssumption DEF SetFlagFails, RestOK
  <2> QED
    BY <1>0, <1>7, <2>4, <2>5 DEF SetFlagFails, RestOK
<1>8. CASE ReadConfig(r)
  <2>0. JobsOK'
    BY <1>0, <1>8 DEF ReadConfig, JobsOK
  <2>1. CASE run = "REMOVED"
    <3>1. req' = [req EXCEPT ![r] = Done] /\ UNCHANGED <<next, stale>>
      BY <1>8, <2>1 DEF ReadConfig
    <3>2. ReqsOK'
      BY <1>0, <3>1, DoneType, ReqUpdate
    <3> QED
      BY <1>0, <1>8, <2>0, <3>1, <3>2 DEF ReadConfig, RestOK
  <2>2. CASE run # "REMOVED"
    <3> DEFINE made == [p \in Parts |-> Reused(p)]
               gone == (UNION {ids[t] : t \in rows})
                         \ (UNION {made[p] : p \in Parts})
               prev == (rows # {})
               q == [Tailed(r) EXCEPT !.base = next, !.made = made, !.prev = prev,
                                      !.gone = gone]
    <3>1. /\ At(r, "config") /\ req' = [req EXCEPT ![r] = q]
          /\ next + MaxParts <= MaxTasks /\ next' = next + MaxParts
          /\ stale' = stale \cup
                {next + p : p \in {u \in Parts : ~(made[u] \subseteq Present)}}
      BY <1>8, <2>2 DEF ReadConfig
    <3>2. made \in [Parts -> SUBSET Chunks]
      BY <1>0, ReusedType
    <3>3. gone \in SUBSET Chunks
      BY <1>0 DEF RestOK
    <3>4. next \in Nat /\ prev \in BOOLEAN
      BY <1>0, IngestAssumption DEF RestOK
    <3> HIDE DEF made, gone, prev
    <3>5. q \in Reqs /\ q.base = next
      BY <1>0, <3>1, <3>2, <3>3, <3>4, TailedIs DEF Reqs
    <3> HIDE DEF q
    <3>6. ReqsOK'
      BY <1>0, <3>1, <3>5, ReqUpdate DEF Based
    <3>7. next' \in 0..MaxTasks
      BY <1>0, <3>1, IngestAssumption DEF RestOK
    <3>8. stale' \subseteq Tasks
      <4>1. \A p \in Parts : next + p \in Tasks
        BY <3>1, <3>4, IngestAssumption DEF Parts, Tasks
      <4> QED
        BY <1>0, <3>1, <4>1 DEF RestOK
    <3> QED
      BY <1>0, <1>8, <2>0, <3>6, <3>7, <3>8 DEF ReadConfig, RestOK
  <2> QED
    BY <2>1, <2>2
<1>9. CASE InsertRows(r)
  <2>1. /\ At(r, "insert") /\ Pass(r) /\ rows' = rows \cup New(r)
        /\ prog' = [t \in Tasks |-> IF t \notin New(r) THEN prog[t]
                               ELSE IF Taken(r, t) = {} THEN 0 ELSE Full]
        /\ ids' = [t \in Tasks |-> IF t \in New(r) THEN Taken(r, t) ELSE ids[t]]
    BY <1>9 DEF InsertRows
  <2>2. ReqsOK' /\ JobsOK'
    BY <1>0, <1>9, <2>1, PassIs DEF InsertRows, JobsOK
  <2>3. New(r) \subseteq Tasks /\ \A t \in Tasks : Taken(r, t) \in SUBSET Chunks
    BY <1>0, <2>1, NewType
  <2>4. prog' \in [Tasks -> Progress] /\ ids' \in [Tasks -> SUBSET Chunks]
    BY <1>0, <2>1, <2>3 DEF RestOK, Progress
  <2> QED
    BY <1>0, <1>9, <2>1, <2>2, <2>3, <2>4 DEF InsertRows, RestOK
<1>10. CASE SendTasks(r)
  <2>1. ReqsOK' /\ JobsOK'
    BY <1>0, <1>10, PassIs DEF SendTasks, JobsOK
  <2>2. New(r) \subseteq Tasks
    BY <1>0, <1>10, NewType DEF SendTasks
  <2> QED
    BY <1>0, <1>10, <2>1, <2>2 DEF SendTasks, RestOK
<1> QED
  BY <1>1, <1>2, <1>3, <1>4, <1>5, <1>6, <1>7, <1>8, <1>9, <1>10 DEF Request

\* Handlers.
LEMMA StoreType ==
    ASSUME RestOK, JobsOK, NEW t \in Tasks, job[t].pc \in {"insert", "inserted"},
           store' = [store EXCEPT ![<<PartOf(t), job[t].b>>] = t]
    PROVE  /\ store' \in [Chunks -> 0..MaxTasks]
           /\ <<PartOf(t), job[t].b>> \in Chunks
           /\ store'[<<PartOf(t), job[t].b>>] = t
           /\ \A ch \in Chunks : ch # <<PartOf(t), job[t].b>> => store'[ch] = store[ch]
<1>1. job[t].b \in 0..Batches
  <2>1. job[t].b \in 0..(Batches + 1) /\ job[t].b <= Batches
    BY DEF JobsOK
  <2> QED
    BY <2>1, IngestAssumption
<1> DEFINE ch == <<PartOf(t), job[t].b>>
<1>2. ch \in Chunks
  BY <1>1, PartOfType DEF Chunks
<1>3. t \in 0..MaxTasks
  BY IngestAssumption DEF Tasks
<1> HIDE DEF ch
<1>4. store' = [store EXCEPT ![ch] = t]
  BY DEF ch
<1> QED
  BY <1>2, <1>3, <1>4 DEF RestOK, ch

LEMMA HandlerType ==
    ASSUME TypeInv, NEW t \in Tasks, Handler(t)
    PROVE  TypeInv'
<1>0. RestOK /\ JobsOK /\ ReqsOK /\ TypeOK
  BY TypeInvIs DEF TypeInv
<1>j. /\ job[t].fail \in BOOLEAN /\ job[t].b \in 0..(Batches + 1)
      /\ 0 \in 0..(Batches + 1) /\ 0 <= Batches
  BY <1>0, IngestAssumption DEF JobsOK
<1> SUFFICES RestOK' /\ JobsOK' /\ ReqsOK'
  BY TypeInvNext
<1> USE DEF table, api, exec
<1>p. Bad \in Progress /\ Full \in Progress /\ 1 \in Progress
  BY DEF Progress
<1>r. UNCHANGED req => ReqsOK'
  BY <1>0 DEF ReqsOK
<1>g. ASSUME NEW pc \in Pcs \ {"insert", "inserted"}, NEW fail \in BOOLEAN,
             Goto(t, pc, 0, fail)
      PROVE  JobsOK'
  BY <1>0, <1>j, <1>g, GotoType
<1>1. CASE Collect(t)
  <2>1. prog' \in [Tasks -> Progress]
    BY <1>0, <1>1 DEF Collect, RestOK, Progress
  <2>2. JobsOK'
    <3>1. CASE Goto(t, "build", 0, FALSE)
      BY <1>g, <3>1 DEF Pcs
    <3>2. CASE UNCHANGED job
      BY <1>0, <3>2 DEF JobsOK
    <3> QED
      BY <1>1, <3>1, <3>2 DEF Collect
  <2>3. queued' \subseteq Tasks
    BY <1>0, <1>1 DEF Collect, RestOK
  <2> QED
    BY <1>0, <1>1, <1>r, <2>1, <2>2, <2>3 DEF Collect, RestOK
<1>2. CASE Build(t)
  <2>1. prog' \in [Tasks -> Progress]
    BY <1>0, <1>2, <1>p, ReportType DEF Build
  <2>2. JobsOK'
    <3>1. CASE Goto(t, "finally", 0, FALSE)
      BY <1>g, <3>1 DEF Pcs
    <3>2. CASE Goto(t, "insert", 0, FALSE)
      BY <1>0, <1>j, <3>2, GotoType DEF Pcs
    <3> QED
      BY <1>2, <3>1, <3>2 DEF Build
  <2> QED
    BY <1>0, <1>2, <1>r, <2>1, <2>2 DEF Build, RestOK
<1>3. CASE InsertBatch(t)
  <2>1. store' \in [Chunks -> 0..MaxTasks]
    BY <1>0, <1>3, StoreType DEF InsertBatch
  <2>2. JobsOK'
    <3>1. Goto(t, "inserted", job[t].b, FALSE) /\ job[t].b <= Batches
      BY <1>0, <1>3 DEF InsertBatch, JobsOK
    <3> QED
      BY <1>0, <1>j, <3>1, GotoType DEF Pcs
  <2> QED
    BY <1>0, <1>3, <1>r, <2>1, <2>2 DEF InsertBatch, RestOK
<1>4. CASE Inserted(t)
  <2>1. CASE t \in flag
    <3>1. Report(t, Bad) /\ Goto(t, "finally", 0, FALSE) /\ UNCHANGED ids
      BY <1>4, <2>1 DEF Inserted
    <3>2. JobsOK'
      BY <1>g, <3>1 DEF Pcs
    <3>3. prog' \in [Tasks -> Progress]
      BY <1>0, <1>p, <3>1, ReportType
    <3> QED
      BY <1>0, <1>4, <1>r, <3>1, <3>2, <3>3 DEF Inserted, RestOK
  <2>2. CASE t \notin flag
    <3> DEFINE b == job[t].b
    <3>1. /\ Goto(t, IF b < Batches THEN "insert" ELSE "index", b + 1, FALSE)
          /\ ids' = IF t \in rows /\ b > 0
                    THEN [ids EXCEPT ![t] = {PartOf(t)} \X (1..b)]
                    ELSE ids
          /\ UNCHANGED prog
      BY <1>4, <2>2 DEF Inserted
    <3>2. b \in 0..Batches /\ b + 1 \in 0..(Batches + 1)
      BY <1>0, <1>4, <1>j, IngestAssumption DEF Inserted, JobsOK
    <3> HIDE DEF b
    <3>3. JobsOK'
      <4>1. CASE b < Batches
        <5>0. Goto(t, "insert", b + 1, FALSE)
          BY <3>1, <4>1
        <5>1. Goto(t, "insert", b + 1, FALSE) /\ b + 1 <= Batches
          <6>1. b + 1 <= Batches
            BY <3>2, <4>1, IngestAssumption
          <6> QED
            BY <5>0, <6>1
        <5> QED
          BY <1>0, <3>2, <5>1, GotoType DEF Pcs
      <4>2. CASE ~(b < Batches)
        <5>1. Goto(t, "index", b + 1, FALSE)
          BY <3>1, <4>2
        <5> QED
          BY <1>0, <3>2, <5>1, GotoType DEF Pcs
      <4> QED
        BY <4>1, <4>2
    <3>4. {PartOf(t)} \X (1..b) \subseteq Chunks
      <4>1. 1..b \subseteq 0..Batches
        BY <3>2, IngestAssumption
      <4> QED
        BY <4>1, PartOfType DEF Chunks
    <3>5. ids' \in [Tasks -> SUBSET Chunks]
      <4> DEFINE v == {PartOf(t)} \X (1..b)
      <4>1. v \in SUBSET Chunks /\ (ids' = [ids EXCEPT ![t] = v] \/ ids' = ids)
        BY <3>1, <3>4
      <4> HIDE DEF v
      <4> QED
        BY <1>0, <4>1 DEF RestOK
    <3> QED
      BY <1>0, <1>4, <1>r, <3>1, <3>3, <3>5 DEF Inserted, RestOK
  <2> QED
    BY <2>1, <2>2
<1>5. CASE Complete(t)
  <2>1. prog' \in [Tasks -> Progress]
    BY <1>0, <1>5, <1>p, ReportType DEF Complete, TypeOK
  <2>2. \E fail \in BOOLEAN : Goto(t, "finally", 0, fail)
    BY <1>5 DEF Complete
  <2>3. JobsOK'
    BY <1>g, <2>2 DEF Pcs
  <2> QED
    BY <1>0, <1>5, <1>r, <2>1, <2>3 DEF Complete, RestOK
<1>6. CASE Fail(t)
  <2>1. store' \in [Chunks -> 0..MaxTasks]
    BY <1>0, <1>6, StoreType DEF Fail, RestOK
  <2>2. JobsOK'
    BY <1>6, <1>g DEF Fail, Pcs
  <2>3. errors' \in 0..MaxErrors
    BY <1>0, <1>6, IngestAssumption DEF Fail, RestOK
  <2> QED
    BY <1>0, <1>6, <1>r, <2>1, <2>2, <2>3 DEF Fail, RestOK
<1>7. CASE Finally(t)
  <2>1. \E pc \in Pcs \ {"insert", "inserted"} : Goto(t, pc, 0, job[t].fail)
    BY <1>7 DEF Finally, Pcs
  <2>2. JobsOK'
    BY <1>g, <1>j, <2>1
  <2> QED
    BY <1>0, <1>7, <1>r, <2>2 DEF Finally, RestOK
<1>8. CASE FinallyUnread(t) \/ WipeFails(t)
  <2>1. Goto(t, "end", 0, job[t].fail) /\ cut' \subseteq cut \cup {t}
    BY <1>8 DEF FinallyUnread, WipeFails
  <2>2. JobsOK'
    BY <1>g, <1>j, <2>1 DEF Pcs
  <2>3. errors' \in 0..MaxErrors
    BY <1>0, <1>8, IngestAssumption DEF FinallyUnread, WipeFails, RestOK
  <2> QED
    BY <1>0, <1>8, <1>r, <2>1, <2>2, <2>3 DEF FinallyUnread, WipeFails, RestOK
<1>9. CASE Wipe(t)
  <2>1. store' \in [Chunks -> 0..MaxTasks]
    BY <1>0, <1>9, WithoutType DEF Wipe, RestOK
  <2>2. JobsOK'
    BY <1>9, <1>g, <1>j DEF Wipe, Pcs
  <2> QED
    BY <1>0, <1>9, <1>r, <2>1, <2>2 DEF Wipe, RestOK
<1>10. CASE End(t)
  <2>1. prog' \in [Tasks -> Progress]
    BY <1>0, <1>10, <1>p, ReportType DEF End, TypeOK
  <2>2. JobsOK'
    BY <1>10, <1>g DEF End, Pcs
  <2> QED
    BY <1>0, <1>10, <1>r, <2>1, <2>2 DEF End, RestOK
<1>11. CASE Crash(t)
  <2>1. JobsOK'
    BY <1>11, <1>g DEF Crash, Pcs
  <2>2. crashes' \in 0..MaxCrashes
    BY <1>0, <1>11, IngestAssumption DEF Crash, RestOK
  <2> QED
    BY <1>0, <1>11, <1>r, <2>1, <2>2 DEF Crash, RestOK
<1>12. CASE Expire(t)
  <2>1. JobsOK'
    BY <1>0, <1>12 DEF Expire, JobsOK
  <2>2. errors' \in 0..MaxErrors
    BY <1>0, <1>12, IngestAssumption DEF Expire, RestOK
  <2> QED
    BY <1>0, <1>12, <1>r, <2>1, <2>2 DEF Expire, RestOK
<1> QED
  BY <1>1, <1>2, <1>3, <1>4, <1>5, <1>6, <1>7, <1>8, <1>9, <1>10, <1>11, <1>12
     DEF Handler

LEMMA TypeInvariance == Spec => []TypeInv
<1>1. Init => TypeInv
  <2> SUFFICES ASSUME Init PROVE TypeInv
    OBVIOUS
  <2>1. ReqsOK
    BY DoneType DEF Init, ReqsOK
  <2>2. JobsOK
    BY IngestAssumption DEF Init, JobsOK, Off, Pcs
  <2>3. RestOK
    BY IngestAssumption DEF Init, RestOK, Progress
  <2> QED
    BY <2>1, <2>2, <2>3, TypeInvIs
<1>2. TypeInv /\ [Next]_vars => TypeInv'
  <2> SUFFICES ASSUME TypeInv, [Next]_vars PROVE TypeInv'
    OBVIOUS
  <2>0. RestOK /\ JobsOK /\ ReqsOK
    BY TypeInvIs
  <2>1. CASE UNCHANGED vars
    BY <2>0, <2>1, TypeInvNext DEF vars, RestOK, JobsOK, ReqsOK
  <2>2. CASE Sync
    <3>1. run' \in {"RUNNING", "FAIL", "DONE"}
      BY <2>2 DEF Sync
    <3>2. RestOK' /\ JobsOK' /\ ReqsOK'
      BY <2>0, <2>2, <3>1 DEF Sync, RestOK, JobsOK, ReqsOK, table, api, exec
    <3> QED
      BY <3>2, TypeInvNext
  <2> QED
    BY <2>1, <2>2, RequestType, HandlerType DEF Next
<1> QED
  BY <1>1, <1>2, PTL DEF Spec

\* Every variable keeps its type: no handler inserts a batch past the last one,
\* no request writes or sends a task that was not handed out, and what is left
\* of a request is the rest of the statements of its kind.
THEOREM TypeCorrect == Spec => []TypeOK
<1>1. TypeInv => TypeOK
  BY DEF TypeInv
<1> QED
  BY <1>1, TypeInvariance, PTL
-----------------------------------------------------------------------------
(***************************************************************************)
(* A finished task has its chunks.                                         *)
(*                                                                         *)
(* The claim is about states without a request at work, so the invariant   *)
(* says what each row can rely on while one is: every batch its handler is *)
(* past is in the store, the recorded ids are those batches, and a request *)
(* that is about to insert rows has deleted none of the chunks they take   *)
(* over.  Only between the deletion of the chunks and the deletion of the  *)
(* rows (chunk_api.parse) do the rows rely on nothing.                     *)
(***************************************************************************)
Main(p) == {p} \X (1..Batches)
Whole(p) == \A b \in 0..Batches : store[<<p, b>>] # 0
Working == {"build", "insert", "inserted", "index"}
Idle(t) == t \notin queued /\ job[t].pc = "off"

RowOK(t) ==
    /\ ids[t] \subseteq Main(PartOf(t))
    /\ NoChunks(t) => ids[t] = {} /\ job[t].pc \notin {"insert", "inserted", "index"}
    /\ prog[t] = Full => /\ job[t].pc \notin Working
                         /\ ids[t] = {} \/ ids[t] = Main(PartOf(t))
                         /\ NoChunks(t) \/ Whole(PartOf(t))
    /\ job[t].pc = "insert" =>
         \A b \in 0..Batches : b < job[t].b => store[<<PartOf(t), b>>] # 0
    /\ job[t].pc = "inserted" =>
         \A b \in 0..Batches : b <= job[t].b => store[<<PartOf(t), b>>] # 0
    /\ job[t].pc = "index" => ids[t] = Main(PartOf(t)) /\ Whole(PartOf(t))

\* The ids of a request and the chunks its tasks take over.
Owns(r) ==
    /\ \A t \in Tasks : t > req[r].base => Idle(t)
    /\ \A p \in Parts : req[r].made[p] # {} =>
         /\ req[r].made[p] = Main(p) /\ p \notin EmptyParts /\ Whole(p)
         /\ \A b \in 0..Batches : <<p, b>> \notin req[r].gone

ReqOK(r) ==
    req[r].plan # <<>> =>
      LET step == Head(req[r].plan) IN
      /\ step \notin {"tasks", "flag", "mark"}
      /\ step = "store" =>
           rows = {} \/ (Len(req[r].plan) > 1 /\ req[r].plan[2] = "rows")
      /\ step = "drop" => req[r].prev \/ rows = {}
      /\ step \in {"purge", "insert"} => rows = {}
      /\ step \in {"drop", "purge", "insert"} => Owns(r)
      /\ step \in {"drop", "purge", "insert", "begin", "send"} =>
           req[r].base + MaxParts <= next

Quiet ==
    /\ flag = {}
    /\ \A t \in Tasks : job[t].pc # "wipe" /\ (t > next => Idle(t))

Solid ==
    (\A r \in Requests : ~At(r, "rows")) => \A t \in rows : RowOK(t)

ChunkInv == stops = 0 => Quiet /\ Solid /\ \A r \in Requests : ReqOK(r)

OneRequest == \A r, s \in Requests : r = s
-----------------------------------------------------------------------------
\* The store only grows.
Grows == \A ch \in Chunks : store[ch] # 0 => store'[ch] # 0

LEMMA GrowsAt ==
    ASSUME Grows, NEW p \in Parts
    PROVE  \A b \in 0..Batches : store[<<p, b>>] # 0 => store'[<<p, b>>] # 0
BY DEF Grows, Chunks

\* A row whose handler did not move.
LEMMA RowKeeps ==
    ASSUME Grows, NEW t \in Tasks, RowOK(t),
           job'[t] = job[t], prog'[t] = prog[t], ids'[t] = ids[t]
    PROVE  RowOK(t)'
<1>1. \A b \in 0..Batches : store[<<PartOf(t), b>>] # 0
        => store'[<<PartOf(t), b>>] # 0
  BY GrowsAt, PartOfType
<1> QED
  BY <1>1 DEF RowOK, Whole, NoChunks

\* A row whose handler has stopped inserting.
LEMMA RowRests ==
    ASSUME Grows, NEW t \in Tasks, RowOK(t),
           job'[t].pc \in {"off", "finally", "end"},
           prog'[t] = prog[t] \/ prog'[t] # Full, ids'[t] = ids[t]
    PROVE  RowOK(t)'
<1>1. \A b \in 0..Batches : store[<<PartOf(t), b>>] # 0
        => store'[<<PartOf(t), b>>] # 0
  BY GrowsAt, PartOfType
<1> QED
  BY <1>1 DEF RowOK, Whole, NoChunks, Working

\* A step of one handler.
LEMMA HandlerChunks ==
    ASSUME TypeInv, ChunkInv, stops = 0, NEW t \in Tasks,
           UNCHANGED <<rows, next, req, stops>>, flag' = {},
           queued' \subseteq queued, Grows,
           \A u \in Tasks : u # t =>
               job'[u] = job[u] /\ prog'[u] = prog[u] /\ ids'[u] = ids[u],
           job'[t].pc # "wipe",
           t \in queued \/ job[t].pc # "off" \/ job'[t].pc = "off",
           t \in rows /\ RowOK(t) => RowOK(t)'
    PROVE  ChunkInv'
<1>0. Quiet /\ Solid /\ \A r \in Requests : ReqOK(r)
  BY DEF ChunkInv
<1>1. ASSUME NEW u \in Tasks, Idle(u) PROVE Idle(u)'
  BY <1>1 DEF Idle
<1>2. Quiet'
  BY <1>0, <1>1 DEF Quiet
<1>3. rows \subseteq Tasks
  BY DEF TypeInv, TypeOK
<1>4. Solid'
  <2> SUFFICES ASSUME \A r \in Requests : ~At(r, "rows")', NEW u \in rows
               PROVE  RowOK(u)'
    BY DEF Solid
  <2>1. RowOK(u) /\ u \in Tasks
    BY <1>0, <1>3 DEF Solid, At
  <2> QED
    BY <2>1, RowKeeps
<1>5. ASSUME NEW r \in Requests PROVE ReqOK(r)'
  <2>1. ReqOK(r)
    BY <1>0
  <2>2. Owns(r) => Owns(r)'
    <3> SUFFICES ASSUME Owns(r) PROVE Owns(r)'
      OBVIOUS
    <3>1. \A p \in Parts : Whole(p) => Whole(p)'
      BY GrowsAt DEF Whole
    <3> QED
      BY <1>1, <3>1 DEF Owns
  <2> QED
    BY <2>1, <2>2 DEF ReqOK
<1> QED
  BY <1>2, <1>4, <1>5 DEF ChunkInv

\* What a report does to the row when no flag is set.
LEMMA ReportIs ==
    ASSUME TypeInv, flag = {}, NEW t \in Tasks, NEW p, Report(t, p)
    PROVE  /\ t \in rows => prog'[t] = UpdateProgress(prog[t], p)
           /\ \A u \in Tasks : u # t => prog'[u] = prog[u]
<1>1. prog \in [Tasks -> Progress]
  BY DEF TypeInv, TypeOK
<1> DEFINE v == UpdateProgress(prog[t], p)
<1>2. prog' = IF t \in rows THEN [prog EXCEPT ![t] = v] ELSE prog
  BY DEF Report
<1> HIDE DEF v
<1>3. /\ t \in rows => prog'[t] = v
      /\ \A u \in Tasks : u # t => prog'[u] = prog[u]
  BY <1>1, <1>2
<1> QED
  BY <1>3 DEF v

\* The handler's own row through one of its steps.
LEMMA ExecutorChunks ==
    ASSUME TypeInv, ChunkInv, stops = 0, NEW t \in Tasks, Handler(t)
    PROVE  ChunkInv'
<1> USE DEF table, api, exec
<1>0. /\ RestOK /\ JobsOK /\ ReqsOK /\ flag = {} /\ job[t].pc # "wipe"
      /\ prog \in [Tasks -> Progress] /\ ids \in [Tasks -> SUBSET Chunks]
  BY TypeInvIs DEF ChunkInv, Quiet, RestOK
<1>s. Shape
  <2>1. Jobs(job)
    BY <1>0 DEF JobsOK, Jobs
  <2>2. store \in [Chunks -> Nat]
    BY <1>0, IngestAssumption DEF RestOK
  <2> QED
    BY <1>0, <2>1, <2>2 DEF Shape, RestOK
<1>g. ASSUME NEW pc, NEW b, NEW fail, Goto(t, pc, b, fail)
      PROVE  /\ job'[t].pc = pc /\ job'[t].b = b
             /\ \A u \in Tasks : u # t => job'[u] = job[u]
  <2> DEFINE j == [pc |-> pc, b |-> b, fail |-> fail]
  <2>1. j.pc = pc /\ j.b = b
    OBVIOUS
  <2>2. job' = [job EXCEPT ![t] = j]
    BY <1>g DEF Goto
  <2> HIDE DEF j
  <2> QED
    BY <1>0, <2>1, <2>2 DEF JobsOK
<1>k. store' = store => Grows
  BY DEF Grows
<1>1. CASE Collect(t)
  <2> DEFINE found == t \in rows /\ run # "REMOVED"
  <2>0. /\ UNCHANGED <<rows, next, req, stops, flag, ids, store>>
        /\ t \in queued
    BY <1>1 DEF Collect
  <2>1. CASE found
    <3>1. Goto(t, "build", 0, FALSE) /\ UNCHANGED queued
      BY <1>0, <1>1, <2>1 DEF Collect
    <3>2. prog' = [prog EXCEPT ![t] = 0]
      BY <1>1, <2>1 DEF Collect
    <3>3. prog'[t] = 0 /\ \A u \in Tasks : u # t => prog'[u] = prog[u]
      BY <1>0, <3>2
    <3>4. job'[t].pc = "build" /\ \A u \in Tasks : u # t => job'[u] = job[u]
      BY <1>g, <3>1
    <3>5. RowOK(t) => RowOK(t)'
      BY <2>0, <3>3, <3>4 DEF RowOK, NoChunks, Full
    <3> QED
      BY <1>0, <1>k, <2>0, <3>1, <3>3, <3>4, <3>5, HandlerChunks
  <2>2. CASE ~found
    <3>1. queued' = queued \ {t} /\ UNCHANGED <<job, prog>>
      BY <1>1, <2>2 DEF Collect
    <3>2. RowOK(t) => RowOK(t)'
      BY <1>k, <2>0, <3>1, RowKeeps
    <3> QED
      BY <1>0, <1>k, <2>0, <3>1, <3>2, HandlerChunks
  <2> QED
    BY <2>1, <2>2
<1>2. CASE Build(t)
  <2>0. /\ UNCHANGED <<rows, next, req, stops, flag, ids, store, queued>>
        /\ job[t].pc = "build"
    BY <1>2 DEF Build
  <2>1. CASE NoChunks(t)
    <3>1. Report(t, Full) /\ Goto(t, "finally", 0, FALSE)
      BY <1>0, <1>2, <2>1 DEF Build
    <3>2. job'[t].pc = "finally" /\ \A u \in Tasks : u # t => job'[u] = job[u]
      BY <1>g, <3>1
    <3>3. \A u \in Tasks : u # t => prog'[u] = prog[u]
      BY <1>0, <3>1, ReportIs
    <3>4. RowOK(t) => RowOK(t)'
      BY <2>0, <2>1, <3>2 DEF RowOK, NoChunks, Working
    <3> QED
      BY <1>0, <1>k, <2>0, <3>2, <3>3, <3>4, HandlerChunks
  <2>2. CASE ~NoChunks(t)
    <3>1. Report(t, 1) /\ Goto(t, "insert", 0, FALSE)
      BY <1>0, <1>2, <2>2 DEF Build
    <3>2. /\ job'[t].pc = "insert" /\ job'[t].b = 0
          /\ \A u \in Tasks : u # t => job'[u] = job[u]
      BY <1>g, <3>1
    <3>3. /\ \A u \in Tasks : u # t => prog'[u] = prog[u]
          /\ t \in rows => prog'[t] = UpdateProgress(prog[t], 1)
      BY <1>0, <3>1, ReportIs
    <3>4. ASSUME t \in rows, RowOK(t) PROVE RowOK(t)'
      <4>1. prog[t] # Full
        BY <2>0, <3>4 DEF RowOK, Working
      <4>2. prog'[t] # Full
        BY <3>3, <3>4, <4>1 DEF UpdateProgress, Full
      <4>3. \A b \in 0..Batches : ~(b < job'[t].b)
        BY <3>2
      <4> QED
        BY <2>0, <2>2, <3>2, <3>4, <4>2, <4>3 DEF RowOK, NoChunks
    <3> QED
      BY <1>0, <1>k, <2>0, <3>2, <3>3, <3>4, HandlerChunks
  <2> QED
    BY <2>1, <2>2
<1>3. CASE InsertBatch(t)
  <2> DEFINE b == job[t].b
  <2>0. /\ UNCHANGED <<rows, next, req, stops, flag, ids, prog, queued>>
        /\ job[t].pc = "insert" /\ Goto(t, "inserted", b, FALSE)
        /\ store' = [store EXCEPT ![<<PartOf(t), b>>] = t]
    BY <1>3 DEF InsertBatch
  <2>1. /\ job'[t].pc = "inserted" /\ job'[t].b = b
        /\ \A u \in Tasks : u # t => job'[u] = job[u]
    BY <1>g, <2>0
  <2>2. /\ store'[<<PartOf(t), b>>] = t
        /\ \A ch \in Chunks : ch # <<PartOf(t), b>> => store'[ch] = store[ch]
    BY <1>0, <2>0, StoreType
  <2>3. t # 0 /\ b \in Nat
    BY <1>0, IngestAssumption DEF Tasks, JobsOK
  <2>4. Grows
    BY <2>2, <2>3 DEF Grows
  <2> HIDE DEF b
  <2>5. ASSUME RowOK(t) PROVE RowOK(t)'
    <3>1. \A c \in 0..Batches : c <= b => store'[<<PartOf(t), c>>] # 0
      <4> SUFFICES ASSUME NEW c \in 0..Batches, c <= b
                   PROVE  store'[<<PartOf(t), c>>] # 0
        OBVIOUS
      <4>1. CASE c = b
        BY <2>2, <2>3, <4>1
      <4>2. CASE c # b
        <5>1. c < b
          BY <2>3, <4>2, IngestAssumption
        <5>2. store[<<PartOf(t), c>>] # 0
          BY <2>0, <2>5, <5>1 DEF RowOK, b
        <5> QED
          BY <2>4, <5>2, GrowsAt, PartOfType
      <4> QED
        BY <4>1, <4>2
    <3>2. prog'[t] # Full /\ ~NoChunks(t)
      BY <2>0, <2>5 DEF RowOK, Working
    <3> QED
      BY <2>0, <2>1, <2>5, <3>1, <3>2 DEF RowOK, NoChunks
  <2> QED
    BY <1>0, <2>0, <2>1, <2>4, <2>5, HandlerChunks
<1>4. CASE Inserted(t)
  <2> DEFINE b == job[t].b
  <2>0. /\ UNCHANGED <<rows, next, req, stops, flag, store, prog, queued>>
        /\ job[t].pc = "inserted"
        /\ Goto(t, IF b < Batches THEN "insert" ELSE "index", b + 1, FALSE)
        /\ ids' = IF t \in rows /\ b > 0
                  THEN [ids EXCEPT ![t] = {PartOf(t)} \X (1..b)]
                  ELSE ids
    BY <1>0, <1>4 DEF Inserted
  <2>1. /\ job'[t].pc = (IF b < Batches THEN "insert" ELSE "index")
        /\ job'[t].b = b + 1
        /\ \A u \in Tasks : u # t => job'[u] = job[u]
    BY <1>g, <2>0
  <2>2. b \in 0..Batches /\ Batches \in Nat \ {0}
    BY <1>0, <2>0, IngestAssumption DEF JobsOK
  <2>3. /\ \A u \in Tasks : u # t => ids'[u] = ids[u]
        /\ t \in rows /\ b > 0 => ids'[t] = {PartOf(t)} \X (1..b)
        /\ ~(b > 0) => ids'[t] = ids[t]
    <3> DEFINE v == {PartOf(t)} \X (1..b)
    <3>1. ids' = IF t \in rows /\ b > 0 THEN [ids EXCEPT ![t] = v] ELSE ids
      BY <2>0
    <3> HIDE DEF v, b
    <3>2. /\ \A u \in Tasks : u # t => ids'[u] = ids[u]
          /\ t \in rows /\ b > 0 => ids'[t] = v
          /\ ~(b > 0) => ids'[t] = ids[t]
      BY <1>0, <3>1
    <3> QED
      BY <3>2 DEF v
  <2>4. ASSUME t \in rows, RowOK(t) PROVE RowOK(t)'
    <3>1. /\ prog'[t] # Full /\ ~NoChunks(t) /\ ids[t] \subseteq Main(PartOf(t))
          /\ \A c \in 0..Batches : c <= b => store'[<<PartOf(t), c>>] # 0
      BY <2>0, <2>4 DEF RowOK, Working
    <3> HIDE DEF b
    <3>2. 1..b \subseteq 1..Batches
      BY <2>2
    <3>3. ids'[t] \subseteq Main(PartOf(t))
      BY <2>3, <2>4, <3>1, <3>2 DEF Main
    <3>4. CASE b < Batches
      <4>1. job'[t].pc = "insert"
        BY <2>1, <3>4
      <4>2. \A c \in 0..Batches : c < job'[t].b => store'[<<PartOf(t), c>>] # 0
        <5> SUFFICES ASSUME NEW c \in 0..Batches, c < job'[t].b
                     PROVE  store'[<<PartOf(t), c>>] # 0
          OBVIOUS
        <5>1. c <= b
          BY <2>1, <2>2
        <5> QED
          BY <3>1, <5>1
      <4> QED
        BY <3>1, <3>3, <4>1, <4>2 DEF RowOK, NoChunks
    <3>5. CASE ~(b < Batches)
      <4>1. job'[t].pc = "index" /\ b = Batches /\ b > 0
        BY <2>1, <2>2, <3>5
      <4>2. ids'[t] = Main(PartOf(t))
        BY <2>3, <2>4, <4>1 DEF Main
      <4>3. Whole(PartOf(t))'
        <5>1. \A c \in 0..Batches : c <= b
          BY <2>2, <4>1
        <5> QED
          BY <3>1, <5>1 DEF Whole
      <4> QED
        BY <3>1, <3>3, <4>1, <4>2, <4>3 DEF RowOK, NoChunks
    <3> QED
      BY <3>4, <3>5
  <2> QED
    BY <1>0, <1>k, <2>0, <2>1, <2>3, <2>4, HandlerChunks
<1>5. CASE Complete(t)
  <2>0. /\ UNCHANGED <<rows, next, req, stops, flag, store, ids, queued>>
        /\ job[t].pc = "index" /\ \E fail : Goto(t, "finally", 0, fail)
        /\ UNCHANGED prog \/ Report(t, Full)
    BY <1>0, <1>5 DEF Complete
  <2>1. /\ job'[t].pc = "finally"
        /\ \A u \in Tasks : u # t => job'[u] = job[u]
    BY <1>g, <2>0
  <2>2. \A u \in Tasks : u # t => prog'[u] = prog[u]
    BY <1>0, <2>0, ReportIs
  <2>3. RowOK(t) => RowOK(t)'
    BY <2>0, <2>1 DEF RowOK, NoChunks, Working, Whole
  <2> QED
    BY <1>0, <1>k, <2>0, <2>1, <2>2, <2>3, HandlerChunks
<1>6. CASE Fail(t)
  <2>0. /\ UNCHANGED <<rows, next, req, stops, flag, ids, prog, queued>>
        /\ job[t].pc \in {"build", "insert"} /\ Goto(t, "finally", 0, TRUE)
    BY <1>6 DEF Fail
  <2>1. /\ job'[t].pc = "finally"
        /\ \A u \in Tasks : u # t => job'[u] = job[u]
    BY <1>g, <2>0
  <2>2. Grows
    <3>1. CASE job[t].pc = "insert"
               /\ store' = [store EXCEPT ![<<PartOf(t), job[t].b>>] = t]
      <4>1. t # 0
        BY DEF Tasks
      <4>2. /\ store'[<<PartOf(t), job[t].b>>] = t
            /\ \A ch \in Chunks : ch # <<PartOf(t), job[t].b>> =>
                 store'[ch] = store[ch]
        BY <1>0, <3>1, StoreType
      <4> QED
        BY <4>1, <4>2 DEF Grows
    <3> QED
      BY <1>6, <1>k, <3>1 DEF Fail
  <2>3. RowOK(t) => RowOK(t)'
    BY <2>0, <2>1, <2>2, RowRests
  <2> QED
    BY <1>0, <2>0, <2>1, <2>2, <2>3, HandlerChunks
<1>7. CASE Finally(t) \/ FinallyUnread(t) \/ Crash(t)
  <2>0. /\ UNCHANGED <<rows, next, req, stops, flag, ids, prog, queued, store>>
        /\ job[t].pc # "off"
        /\ \E pc \in {"off", "end"} : \E fail : Goto(t, pc, 0, fail)
    BY <1>0, <1>7 DEF Finally, FinallyUnread, Crash
  <2>1. /\ job'[t].pc \in {"off", "end"}
        /\ \A u \in Tasks : u # t => job'[u] = job[u]
    BY <1>g, <2>0
  <2>2. RowOK(t) => RowOK(t)'
    BY <1>k, <2>0, <2>1, RowRests
  <2> QED
    BY <1>0, <1>k, <2>0, <2>1, <2>2, HandlerChunks
<1>8. CASE End(t)
  <2>0. /\ UNCHANGED <<rows, next, req, stops, flag, ids, store>>
        /\ queued' = queued \ {t}
        /\ Goto(t, "off", 0, FALSE)
        /\ UNCHANGED prog \/ Report(t, Bad)
    BY <1>8 DEF End
  <2>1. /\ job'[t].pc = "off"
        /\ \A u \in Tasks : u # t => job'[u] = job[u]
    BY <1>g, <2>0
  <2>2. /\ \A u \in Tasks : u # t => prog'[u] = prog[u]
        /\ UNCHANGED prog \/ (t \in rows => prog'[t] = UpdateProgress(prog[t], Bad))
    BY <1>0, <2>0, ReportIs
  <2>3. t \in rows => prog'[t] = prog[t] \/ prog'[t] # Full
    BY <2>2 DEF UpdateProgress, Bad, Full
  <2>4. t \in rows /\ RowOK(t) => RowOK(t)'
    BY <1>k, <2>0, <2>1, <2>3, RowRests
  <2> QED
    BY <1>0, <1>k, <2>0, <2>1, <2>2, <2>4, HandlerChunks
<1> QED
  BY <1>0, <1>1, <1>2, <1>3, <1>4, <1>5, <1>6, <1>7, <1>8
     DEF Handler, Wipe, WipeFails, Expire

\* A step of the only request: what it has to show.
LEMMA RequestChunks ==
    ASSUME OneRequest, ChunkInv, stops = 0, NEW r \in Requests,
           UNCHANGED <<flag, job>>,
           next' \in Nat, next \in Nat, next <= next',
           \A t \in queued' : t \in queued \/ t <= next',
           \/ req'[r].plan # <<>> /\ Head(req'[r].plan) = "rows"
           \/ \A t \in rows' : RowOK(t)',
           ReqOK(r)'
    PROVE  ChunkInv'
<1>0. Quiet
  BY DEF ChunkInv
<1>1. Quiet'
  <2> SUFFICES ASSUME NEW t \in Tasks
               PROVE  job'[t].pc # "wipe" /\ (t > next' => Idle(t)')
    BY <1>0 DEF Quiet
  <2>1. job'[t].pc # "wipe"
    BY <1>0 DEF Quiet
  <2>2. ASSUME t > next' PROVE Idle(t)'
    <3>1. t \in Int
      BY DEF Tasks
    <3>2. t > next /\ ~(t <= next')
      BY <2>2, <3>1
    <3> QED
      BY <1>0, <3>2 DEF Quiet, Idle
  <2> QED
    BY <2>1, <2>2
<1>2. \A s \in Requests : s = r
  BY DEF OneRequest
<1>3. Solid'
  BY <1>2 DEF Solid, At
<1> QED
  BY <1>1, <1>2, <1>3 DEF ChunkInv

LEMMA ServerChunks ==
    ASSUME OneRequest, TypeInv, ChunkInv, stops = 0, NEW r \in Requests, Request(r)
    PROVE  ChunkInv'
<1> USE DEF table, exec
<1>0. /\ RestOK /\ JobsOK /\ ReqsOK /\ Quiet /\ Solid /\ ReqOK(r)
      /\ next \in Nat
  BY TypeInvIs, IngestAssumption DEF ChunkInv, RestOK
<1>a. req \in [Requests -> Reqs] /\ req[r] \in Reqs
  BY <1>0 DEF ReqsOK
<1>b. \A s \in Requests : s = r
  BY DEF OneRequest
<1>c. ~At(r, "rows") => \A t \in rows : RowOK(t)
  BY <1>0, <1>b DEF Solid
<1>d. ~At(r, "tasks") /\ ~At(r, "flag") /\ ~At(r, "mark")
  BY <1>0 DEF ReqOK, At
<1>u. \A t \in rows : UNCHANGED <<job, prog, ids, store>> /\ RowOK(t) => RowOK(t)'
  BY DEF RowOK, Whole, NoChunks
<1>1. ASSUME NEW kind \in AllKinds, Begin(r, kind)
      PROVE  ChunkInv'
  <2>1. CASE kind \notin Parses
    <3>1. stops' = stops + 1
      BY <1>1, <2>1 DEF Begin
    <3>2. stops' # 0
      BY <3>1
    <3> QED
      BY <3>2 DEF ChunkInv
  <2>2. CASE kind \in Parses
    <3> DEFINE q == [Done EXCEPT !.plan = Plan(kind)]
    <3>1. req' = [req EXCEPT ![r] = q]
      BY <1>1 DEF Begin
    <3>2. q.plan = Plan(kind)
      BY DEF Done
    <3> HIDE DEF q
    <3>3. req'[r].plan = Plan(kind)
      BY <1>a, <3>1, <3>2
    <3>4. /\ Len(Plan(kind)) > 1
          /\ Head(Plan(kind)) \in {"rows", "store", "config"}
          /\ Head(Plan(kind)) = "store" => Plan(kind)[2] = "rows"
      BY <2>2, FirstPlan
    <3>5. ReqOK(r)'
      BY <3>3, <3>4 DEF ReqOK
    <3>6. ~At(r, "rows")
      BY <1>1 DEF Begin, At
    <3>7. UNCHANGED <<rows, prog, ids, next, flag, store, job, queued>>
      BY <1>1 DEF Begin
    <3>8. \A t \in rows' : RowOK(t)'
      BY <1>c, <1>u, <3>6, <3>7
    <3> QED
      BY <1>0, <3>5, <3>7, <3>8, RequestChunks
  <2> QED
    BY <2>1, <2>2
<1>2. CASE DeleteRows(r)
  <2>1. /\ At(r, "rows") /\ Pass(r) /\ rows' = {}
        /\ UNCHANGED <<next, flag, job, queued>>
    BY <1>2 DEF DeleteRows
  <2>2. req'[r].plan # <<>> => Follows(Head(req'[r].plan), "rows")
    BY <1>0, <2>1, PassIs
  <2>3. ReqOK(r)'
    BY <2>1, <2>2 DEF ReqOK, Follows
  <2> QED
    BY <1>0, <2>1, <2>3, RequestChunks
<1>3. CASE DeleteChunks(r)
  <2>1. /\ At(r, "store") /\ Pass(r) /\ req[r].plan # <<>>
        /\ Head(req[r].plan) = "store"
        /\ UNCHANGED <<rows, next, flag, job, queued>>
    BY <1>3 DEF DeleteChunks, At
  <2>2. /\ req'[r].plan # <<>> => /\ Follows(Head(req'[r].plan), "store")
                                  /\ Head(req'[r].plan) = req[r].plan[2]
        /\ Len(req[r].plan) > 1 => req'[r].plan # <<>>
    BY <1>0, <2>1, PassIs
  <2>3. rows = {} \/ (Len(req[r].plan) > 1 /\ req[r].plan[2] = "rows")
    BY <1>0, <2>1 DEF ReqOK
  <2>4. ReqOK(r)'
    BY <2>1, <2>2 DEF ReqOK, Follows
  <2> QED
    BY <1>0, <2>1, <2>2, <2>3, <2>4, RequestChunks
<1>4. CASE ReadConfig(r)
  <2>0. /\ At(r, "config") /\ ~At(r, "rows")
        /\ UNCHANGED <<rows, prog, ids, flag, store, job, queued>>
    BY <1>4 DEF ReadConfig, At
  <2>r. \A t \in rows : RowOK(t) /\ RowOK(t)'
    BY <1>c, <1>u, <2>0
  <2>1. CASE run = "REMOVED"
    <3>1. req' = [req EXCEPT ![r] = Done] /\ UNCHANGED next
      BY <1>4, <2>1 DEF ReadConfig
    <3>2. req'[r].plan = <<>>
      BY <1>a, <3>1, DoneType
    <3>3. ReqOK(r)'
      BY <3>2 DEF ReqOK
    <3> QED
      BY <1>0, <2>0, <2>r, <3>1, <3>3, RequestChunks
  <2>2. CASE run # "REMOVED"
    <3> DEFINE made == [p \in Parts |-> Reused(p)]
               gone == (UNION {ids[t] : t \in rows})
                         \ (UNION {made[p] : p \in Parts})
               prev == (rows # {})
               q == [Tailed(r) EXCEPT !.base = next, !.made = made, !.prev = prev,
                                      !.gone = gone]
    <3>1. req' = [req EXCEPT ![r] = q] /\ next' = next + MaxParts
      BY <1>4, <2>2 DEF ReadConfig
    <3>2. ASSUME NEW p \in Parts, made[p] # {}
          PROVE  /\ made[p] = Main(p) /\ p \notin EmptyParts /\ Whole(p)
                 /\ \A b \in 0..Batches : <<p, b>> \notin gone
      <4>1. PICK t \in rows : PartOf(t) = p /\ prog[t] = Full /\ made[p] = ids[t]
        BY <1>0, <3>2, ReusedIs
      <4>2. RowOK(t) /\ ids[t] # {}
        BY <2>r, <3>2, <4>1
      <4>3. made[p] = Main(p) /\ p \notin EmptyParts /\ Whole(p)
        BY <4>1, <4>2 DEF RowOK, NoChunks
      <4>4. ASSUME NEW b \in 0..Batches, <<p, b>> \in gone PROVE FALSE
        <5>1. PICK u \in rows : <<p, b>> \in ids[u]
          BY <4>4
        <5>2. <<p, b>> \in Main(PartOf(u))
          BY <2>r, <5>1 DEF RowOK
        <5>3. <<p, b>> \in Main(p)
          BY <5>2 DEF Main
        <5>4. <<p, b>> \notin made[p]
          BY <4>4
        <5> QED
          BY <4>3, <5>3, <5>4
      <4> QED
        BY <4>3, <4>4
    <3> HIDE DEF made, gone
    <3>3. /\ q.base = next /\ q.made = made /\ q.gone = gone
          /\ q.prev = (rows # {}) /\ q.plan = Tailed(r).plan
      <4>1. Tailed(r) \in Reqs
        BY <1>0, <2>0, TailedIs
      <4> HIDE DEF prev
      <4>2. /\ q.base = next /\ q.made = made /\ q.gone = gone
            /\ q.prev = prev /\ q.plan = Tailed(r).plan
        BY <4>1 DEF Reqs
      <4> QED
        BY <4>2 DEF prev
    <3> HIDE DEF q
    <3>4. req'[r] = q
      BY <1>a, <3>1
    <3>5. q.plan # <<>> => Follows(Head(q.plan), "config")
      BY <1>0, <2>0, <3>3, TailedIs
    <3>6. Owns(r)'
      <4>1. \A t \in Tasks : t > next => Idle(t)'
        BY <1>0, <2>0 DEF Quiet, Idle
      <4>2. \A p \in Parts : Whole(p) => Whole(p)'
        BY <2>0 DEF Whole
      <4> QED
        BY <3>2, <3>3, <3>4, <4>1, <4>2 DEF Owns
    <3>7. ReqOK(r)'
      <4>1. q.prev \/ rows = {}
        BY <3>3
      <4>2. q.base + MaxParts <= next'
        BY <1>0, <3>1, <3>3, IngestAssumption
      <4> QED
        BY <2>0, <3>4, <3>5, <3>6, <4>1, <4>2 DEF ReqOK, Follows
    <3>8. next' \in Nat /\ next <= next'
      BY <1>0, <3>1, IngestAssumption
    <3> QED
      BY <1>0, <2>0, <2>r, <3>7, <3>8, RequestChunks
  <2> QED
    BY <2>1, <2>2
<1>5. CASE DropPrevious(r)
  <2>1. /\ At(r, "drop") /\ Pass(r) /\ req[r].plan # <<>>
        /\ Head(req[r].plan) = "drop"
        /\ rows' = (IF req[r].prev THEN {} ELSE rows)
        /\ UNCHANGED <<next, flag, job, queued, store>>
    BY <1>5 DEF DropPrevious, At
  <2>2. req'[r].plan # <<>> =>
          /\ Follows(Head(req'[r].plan), "drop")
          /\ req'[r].base = req[r].base /\ req'[r].made = req[r].made
          /\ req'[r].gone = req[r].gone
    BY <1>0, <2>1, PassIs
  <2>3. rows' = {} /\ Owns(r) /\ req[r].base + MaxParts <= next
    BY <1>0, <2>1 DEF ReqOK
  <2>4. req'[r].plan # <<>> => Owns(r)'
    BY <2>1, <2>2, <2>3 DEF Owns, Idle, Whole
  <2>5. ReqOK(r)'
    BY <2>1, <2>2, <2>3, <2>4 DEF ReqOK, Follows
  <2> QED
    BY <1>0, <2>1, <2>3, <2>5, RequestChunks
<1>6. CASE PurgePrevious(r)
  <2>1. /\ At(r, "purge") /\ Pass(r) /\ req[r].plan # <<>>
        /\ Head(req[r].plan) = "purge" /\ store' = Without(req[r].gone)
        /\ UNCHANGED <<rows, next, flag, job, queued>>
    BY <1>6 DEF PurgePrevious, At
  <2>2. req'[r].plan # <<>> =>
          /\ Follows(Head(req'[r].plan), "purge")
          /\ req'[r].base = req[r].base /\ req'[r].made = req[r].made
          /\ req'[r].gone = req[r].gone
    BY <1>0, <2>1, PassIs
  <2>3. rows = {} /\ Owns(r) /\ req[r].base + MaxParts <= next
    BY <1>0, <2>1 DEF ReqOK
  <2>4. \A ch \in Chunks : ch \notin req[r].gone => store'[ch] = store[ch]
    BY <2>1 DEF Without
  <2>5. ASSUME NEW p \in Parts, req[r].made[p] # {} PROVE Whole(p)'
    <3>1. /\ \A b \in 0..Batches : <<p, b>> \notin req[r].gone
          /\ \A b \in 0..Batches : store[<<p, b>>] # 0
      BY <2>3, <2>5 DEF Owns, Whole
    <3>2. \A b \in 0..Batches : <<p, b>> \in Chunks
      BY DEF Chunks
    <3>3. ASSUME NEW b \in 0..Batches PROVE store'[<<p, b>>] # 0
      BY <2>4, <3>1, <3>2
    <3> QED
      BY <3>3 DEF Whole
  <2>6. req'[r].plan # <<>> => Owns(r)'
    BY <2>1, <2>2, <2>3, <2>5 DEF Owns, Idle
  <2>7. ReqOK(r)'
    BY <2>1, <2>2, <2>3, <2>6 DEF ReqOK, Follows
  <2> QED
    BY <1>0, <2>1, <2>3, <2>7, RequestChunks
<1>7. CASE InsertRows(r)
  <2>1. /\ At(r, "insert") /\ Pass(r) /\ req[r].plan # <<>>
        /\ Head(req[r].plan) = "insert" /\ rows' = rows \cup New(r)
        /\ prog' = [t \in Tasks |-> IF t \notin New(r) THEN prog[t]
                                    ELSE IF Taken(r, t) = {} THEN 0 ELSE Full]
        /\ ids' = [t \in Tasks |-> IF t \in New(r) THEN Taken(r, t) ELSE ids[t]]
        /\ UNCHANGED <<next, flag, job, queued, store>>
    BY <1>7 DEF InsertRows, At
  <2>2. req'[r].plan # <<>> =>
          /\ Follows(Head(req'[r].plan), "insert")
          /\ req'[r].base = req[r].base
    BY <1>0, <2>1, PassIs
  <2>3. rows = {} /\ Owns(r) /\ req[r].base + MaxParts <= next
    BY <1>0, <2>1 DEF ReqOK
  <2>4. New(r) \subseteq Tasks
    BY <1>0, <2>1, NewType
  <2>5. ASSUME NEW t \in rows' PROVE RowOK(t)'
    <3> DEFINE m == Taken(r, t)
    <3>1. t \in New(r) /\ t \in Tasks
      BY <2>1, <2>3, <2>4
    <3>2. /\ prog'[t] = (IF m = {} THEN 0 ELSE Full)
          /\ ids'[t] = m
      BY <2>1, <3>1
    <3>3. m # {} => /\ m = Main(PartOf(t)) /\ PartOf(t) \notin EmptyParts
                    /\ Whole(PartOf(t))
      BY <2>3, <3>1, PartOfType DEF Owns, Taken
    <3>4. job'[t].pc = "off"
      <4>1. t > req[r].base
        <5>1. req[r].base \in Nat
          BY <1>a DEF Reqs
        <5> QED
          BY <3>1, <5>1 DEF New
      <4> QED
        BY <2>1, <2>3, <3>1, <4>1 DEF Owns, Idle
    <3> HIDE DEF m
    <3>5. Whole(PartOf(t)) => Whole(PartOf(t))'
      BY <2>1 DEF Whole
    <3> QED
      BY <3>2, <3>3, <3>4, <3>5 DEF RowOK, NoChunks, Working, Full
  <2>6. ReqOK(r)'
    BY <2>1, <2>2, <2>3 DEF ReqOK, Follows
  <2> QED
    BY <1>0, <2>1, <2>5, <2>6, RequestChunks
<1>8. CASE BeginParse(r)
  <2>1. /\ At(r, "begin") /\ Pass(r) /\ req[r].plan # <<>>
        /\ Head(req[r].plan) = "begin" /\ ~At(r, "rows")
        /\ UNCHANGED <<rows, prog, ids, next, flag, job, queued, store>>
    BY <1>8 DEF BeginParse, At
  <2>2. req'[r].plan # <<>> =>
          /\ Follows(Head(req'[r].plan), "begin")
          /\ req'[r].base = req[r].base
    BY <1>0, <2>1, PassIs
  <2>3. req[r].base + MaxParts <= next
    BY <1>0, <2>1 DEF ReqOK
  <2>4. ReqOK(r)'
    BY <2>1, <2>2, <2>3 DEF ReqOK, Follows
  <2>5. \A t \in rows' : RowOK(t)'
    BY <1>c, <1>u, <2>1
  <2> QED
    BY <1>0, <2>1, <2>4, <2>5, RequestChunks
<1>9. CASE SendTasks(r)
  <2>1. /\ At(r, "send") /\ Pass(r) /\ req[r].plan # <<>>
        /\ Head(req[r].plan) = "send" /\ ~At(r, "rows")
        /\ queued' = queued \cup {t \in New(r) : Taken(r, t) = {}}
        /\ UNCHANGED <<rows, prog, ids, next, flag, job, store>>
    BY <1>9 DEF SendTasks, At
  <2>2. req'[r].plan # <<>> => Follows(Head(req'[r].plan), "send")
    BY <1>0, <2>1, PassIs
  <2>3. req[r].base + MaxParts <= next /\ req[r].base \in Nat
    BY <1>0, <1>a, <2>1 DEF ReqOK, Reqs
  <2>4. ReqOK(r)'
    BY <2>1, <2>2 DEF ReqOK, Follows
  <2>5. \A t \in rows' : RowOK(t)'
    BY <1>c, <1>u, <2>1
  <2>6. \A t \in New(r) : t <= next'
    BY <1>0, <2>1, <2>3, IngestAssumption DEF New
  <2> QED
    BY <1>0, <2>1, <2>4, <2>5, <2>6, RequestChunks
<1> QED
  BY <1>d, <1>1, <1>2, <1>3, <1>4, <1>5, <1>6, <1>7, <1>8, <1>9
     DEF Request, QueryTasks, SetFlag, SetFlagFails, MarkCancelled

LEMMA ChunkInvariance ==
    ASSUME OneRequest
    PROVE  Spec => []ChunkInv
<1>1. Init => ChunkInv
  <2> SUFFICES ASSUME Init PROVE ChunkInv
    OBVIOUS
  <2>1. \A t \in Tasks : job[t].pc = "off"
    BY DEF Init, Off
  <2>2. Quiet /\ Solid
    BY <2>1 DEF Init, Quiet, Idle, Solid
  <2>3. \A r \in Requests : req[r].plan = <<>>
    BY DoneType DEF Init
  <2> QED
    BY <2>2, <2>3 DEF ChunkInv, ReqOK
<1>2. TypeInv /\ ChunkInv /\ [Next]_vars => ChunkInv'
  <2> SUFFICES ASSUME TypeInv, ChunkInv, [Next]_vars PROVE ChunkInv'
    OBVIOUS
  <2>1. CASE stops # 0
    <3>1. stops \in Nat /\ (stops' = stops \/ stops' = stops + 1)
      <4>1. stops \in Nat
        BY IngestAssumption DEF TypeInv, TypeOK
      <4>2. ASSUME NEW r \in Requests, Request(r)
            PROVE  stops' = stops \/ stops' = stops + 1
        BY <4>2 DEF Request, Begin, DeleteRows, DeleteChunks, QueryTasks, SetFlag,
             SetFlagFails, MarkCancelled, ReadConfig, DropPrevious, PurgePrevious,
             InsertRows, BeginParse, SendTasks
      <4>3. ASSUME NEW t \in Tasks, Handler(t) PROVE stops' = stops
        BY <4>3 DEF Handler, Collect, Build, InsertBatch, Inserted, Complete, Fail,
             Finally, FinallyUnread, Wipe, WipeFails, End, Crash, Expire, api
      <4> QED
        BY <4>1, <4>2, <4>3 DEF Next, Sync, vars, api
    <3>2. stops' # 0
      BY <2>1, <3>1
    <3> QED
      BY <3>2 DEF ChunkInv
  <2>2. CASE stops = 0
    <3>1. CASE UNCHANGED vars \/ Sync
      <4>1. UNCHANGED <<rows, prog, ids, next, flag, store, queued, job, req, stops>>
        BY <3>1 DEF vars, Sync, table, api, exec
      <4>2. Quiet /\ Solid /\ \A r \in Requests : ReqOK(r)
        BY <2>2 DEF ChunkInv
      <4>3. Quiet'
        BY <4>1, <4>2 DEF Quiet, Idle
      <4>4. Solid'
        BY <4>1, <4>2 DEF Solid, At, RowOK, Whole, NoChunks
      <4>5. \A r \in Requests : Owns(r) => Owns(r)'
        BY <4>1 DEF Owns, Whole, Idle
      <4>6. \A r \in Requests : ReqOK(r)'
        BY <4>1, <4>2, <4>5 DEF ReqOK
      <4> QED
        BY <4>3, <4>4, <4>6 DEF ChunkInv
    <3> QED
      BY <2>2, <3>1, ServerChunks, ExecutorChunks DEF Next
  <2> QED
    BY <2>1, <2>2
<1> QED
  BY <1>1, <1>2, TypeInvariance, PTL DEF Spec

\* A task with progress 1.0 has every chunk of its part in the store, for any
\* number of parts, batches, repeated attempts, crashes and parses, as long as
\* the server serves one request for the document at a time: reuse takes over
\* only chunks that are there, and the deletions of queue_tasks spare them.
THEOREM FinishedIsComplete ==
    ASSUME OneRequest
    PROVE  Spec => []FinishedHasChunks
<1>1. TypeInv /\ ChunkInv => FinishedHasChunks
  <2> SUFFICES ASSUME TypeInv, ChunkInv, stops = 0,
                      \A r \in Requests : req[r].plan = <<>>,
                      NEW t \in rows, prog[t] = Full, ~NoChunks(t)
               PROVE  {PartOf(t)} \X (0..Batches) \subseteq Present
    BY DEF FinishedHasChunks
  <2>1. t \in Tasks
    BY DEF TypeInv, TypeOK
  <2>2. RowOK(t)
    BY DEF ChunkInv, Solid, At
  <2>3. Whole(PartOf(t)) /\ PartOf(t) \in Parts
    BY <2>1, <2>2, PartOfType DEF RowOK
  <2> QED
    BY <2>3 DEF Whole, Present, Chunks
<1> QED
  BY <1>1, TypeInvariance, ChunkInvariance, PTL
=============================================================================
