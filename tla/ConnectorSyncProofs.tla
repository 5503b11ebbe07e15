------------------------- MODULE ConnectorSyncProofs --------------------------
(***************************************************************************)
(* Proofs that no item of a source is lost behind the window of a          *)
(* connector, and that a dataset goes on being synchronised; for any       *)
(* number of datasets, items and coroutines, any requests and failures.    *)
(***************************************************************************)
EXTENDS ConnectorSync, TLAPS, LeastNumber, FiniteSetTheorems, SequenceTheorems

\* What changed up to w is indexed, or was skipped by an error.
Reached(k, w) ==
    \A x \in Items : src[x] # 0 /\ src[x] <= w =>
        idx[k][x] = src[x] \/ x \in skipped[k]

\* The window w of the dataset k: it is not after g, and it is reached.
Window(k, w, g) == w <= g /\ (k \notin overlap => Reached(k, w))

\* Rows carry a window to start from and, when they are done, one to go on with.
SoundRows(k, g) ==
    {r \in Row : /\ Window(k, r.start, g) /\ r.end <= g
                 /\ r.status = "done" => r.owner = Nobody /\ Window(k, r.end, g)}

SyncOf(k) == <<k, "sync">>
Holds(pc) == pc \in {"sync", "prune", "done", "sched"}

\* A task before and after its fetch.  What _generate returned is still so, is
\* gone, or has changed after g; all that changed up to g is there or to come.
TaskOK(t, i, g) ==
    LET k == t.kind[1]
    IN  /\ Holds(t.pc) => loop = i
        /\ t.pc \in {"prune", "done"} => t.kind[2] = "prune"
        /\ t.pc \in {"start", "gen"} /\ t.kind[2] = "sync" => Window(k, t.next, g)
        /\ t.pc = "sync" =>
             /\ t.kind[2] = "sync" /\ t.next <= g
             /\ \A x \in Items : t.todo[x] <= g
             /\ \A x \in Items : t.todo[x] # 0 =>
                    src[x] = 0 \/ src[x] = t.todo[x] \/ src[x] > g
             /\ k \notin overlap =>
                  \A x \in Items : src[x] # 0 /\ src[x] <= g =>
                      idx[k][x] = src[x] \/ x \in skipped[k] \/ t.todo[x] = src[x]
        /\ t.pc = "prune" =>
             \A x \in Items : t.todo[x] = 0 => src[x] = 0 \/ src[x] > g

CallOK(c, g) ==
    c.at # "none" /\ c.kind[2] = "sync" => Window(c.kind[1], c.start, g)

\* A coroutine that calls schedule has nothing else left to do.
CallerOK(a) ==
    calls[a].at # "none" => work[a].pc = "sched" /\ work[a].kind = calls[a].kind

Sound(g) ==
    /\ \A k \in Kbs : logs[SyncOf(k)] \in Seq(SoundRows(k, g))
    /\ \A i \in Slots : TaskOK(work[i], i, g) /\ CallerOK(i)
    /\ \A a \in Callers : CallOK(calls[a], g)

\* Nothing carries a window of k: so it is between the two deletions of a rebuild
\* that does not overlap a sync.
Quiet(k) == calls[Api].at = "none" /\ logs[SyncOf(k)] = <<>> /\ ~Running(SyncOf(k))

NoDelete(s) == \A n \in DOMAIN s : s[n].op # "delete"

ScriptOK ==
    \/ NoDelete(script)
    \/ \E k \in Kbs : /\ calls[Api].at = "none"
                      /\ \/ script = Rebuild(k)
                         \/ script = Tail(Rebuild(k)) /\ (k \in overlap \/ Quiet(k))

SourceOK == \A x \in Items : src[x] <= clock

IInv == TypeOK /\ SourceOK /\ ScriptOK /\ \E g \in 0..clock : Sound(g)
-----------------------------------------------------------------------------
(***************************************************************************)
(* The operators the model is built from.                                  *)
(***************************************************************************)

\* The last time of a batch is the time of one of its items, and no other is
\* later.
LEMMA LastTimeIsMax ==
    ASSUME NEW S, S # {}, NEW f, \A x \in S : f[x] \in Times
    PROVE  /\ \E x \in S : LastTime(S, f) = f[x]
           /\ \A x \in S : f[x] <= LastTime(S, f)
<1> DEFINE T == {f[x] : x \in S}
<1>1. T # {} /\ T \subseteq 0..MaxClock /\ MaxClock \in Nat
  BY ConnectorSyncAssumption DEF Times
<1>2. \E m \in T : \A n \in T : n <= m
  BY <1>1, Largest
<1>3. \E m \in T : \A x \in S : f[x] <= m
  BY <1>2
<1> QED
  BY <1>3 DEF LastTime

\* What the recursion in Pick computes: it is defined for every prefix.
Upto(q, S, N, f) ==
    f = [n \in 0..N |-> IF n = 0 THEN <<>>
                        ELSE IF n \in S THEN Append(f[n - 1], q[n]) ELSE f[n - 1]]

LEMMA UptoExists ==
    ASSUME NEW q, NEW S, NEW N \in Nat
    PROVE  \E f : Upto(q, S, N, f)
<1> DEFINE T == {n \in Nat : ~ \E f : Upto(q, S, n, f)}
<1> SUFFICES ASSUME T # {} PROVE FALSE
  OBVIOUS
<1>1. PICK m \in T : \A n \in T : m <= n
  BY Least
<1>2. m # 0
  <2>1. Upto(q, S, 0, [n \in 0..0 |-> <<>>])
    BY DEF Upto
  <2> QED
    BY <1>1, <2>1
<1>3. m - 1 \in Nat /\ m - 1 \notin T
  BY <1>1, <1>2
<1>4. PICK f : Upto(q, S, m - 1, f)
  BY <1>3
<1> DEFINE g == [n \in 0..m |->
                  IF n = m THEN IF m \in S THEN Append(f[m - 1], q[m]) ELSE f[m - 1]
                  ELSE f[n]]
<1>5. \A n \in 0..(m - 1) :
        f[n] = IF n = 0 THEN <<>>
               ELSE IF n \in S THEN Append(f[n - 1], q[n]) ELSE f[n - 1]
  BY <1>4 DEF Upto
<1>6. ASSUME NEW n \in 0..m
      PROVE  g[n] = IF n = 0 THEN <<>>
                    ELSE IF n \in S THEN Append(g[n - 1], q[n]) ELSE g[n - 1]
  <2>1. CASE n = m
    <3>1. g[n - 1] = f[n - 1]
      BY <1>2, <1>3, <2>1
    <3> QED
      BY <1>2, <2>1, <3>1
  <2>2. CASE n # m
    <3>1. n \in 0..(m - 1) /\ g[n] = f[n] /\ (n # 0 => g[n - 1] = f[n - 1])
      BY <1>3, <2>2
    <3> QED
      BY <1>5, <3>1
  <2> QED
    BY <2>1, <2>2
<1>7. Upto(q, S, m, g)
  BY <1>6 DEF Upto
<1> QED
  BY <1>1, <1>7

\* Picking some rows of a table: they are all rows at the places picked.
LEMMA PickSeq ==
    ASSUME NEW R, NEW Q, NEW q \in Seq(Q), NEW S,
           \A n \in 1..Len(q) : n \in S => q[n] \in R
    PROVE  Pick(q, S) \in Seq(R)
<1> DEFINE f == CHOOSE f : Upto(q, S, Len(q), f)
<1>1. Len(q) \in Nat
  OBVIOUS
<1>2. Upto(q, S, Len(q), f)
  BY <1>1, UptoExists
<1>3. Pick(q, S) = f[Len(q)]
  BY DEF Pick, Upto
<1> HIDE DEF f
<1>4. \A n \in 0..Len(q) :
        f[n] = IF n = 0 THEN <<>>
               ELSE IF n \in S THEN Append(f[n - 1], q[n]) ELSE f[n - 1]
  BY <1>2 DEF Upto
<1>6. f[0] = <<>> /\ <<>> \in Seq(R)
  BY <1>1, <1>4
<1>7. ASSUME NEW n \in 1..Len(q), f[n - 1] \in Seq(R) PROVE f[n] \in Seq(R)
  <2>1. n \in 0..Len(q) /\ n # 0
    BY <1>1
  <2>2. f[n] = IF n \in S THEN Append(f[n - 1], q[n]) ELSE f[n - 1]
    BY <1>4, <2>1
  <2> QED
    BY <1>7, <2>2
<1> DEFINE T == {n \in 0..Len(q) : f[n] \notin Seq(R)}
<1>5. ASSUME T # {} PROVE FALSE
  <2>0. T \subseteq Nat
    OBVIOUS
  <2>1. PICK m \in T : \A n \in T : m <= n
    BY <1>5, <2>0, Least
  <2>2. m # 0
    BY <1>6, <2>1
  <2>3. m \in 1..Len(q) /\ m - 1 \in 0..Len(q) /\ ~(m <= m - 1)
    BY <1>1, <2>1, <2>2
  <2>4. f[m - 1] \in Seq(R)
    BY <2>1, <2>3
  <2>5. f[m] \in Seq(R)
    BY <1>7, <2>3, <2>4
  <2> QED
    BY <2>1, <2>5
<1> QED
  BY <1>1, <1>3, <1>5

LEMMA RelevantSeq ==
    ASSUME NEW R, NEW q \in Seq(R)
    PROVE  Relevant(q) \in Seq(R)
BY PickSeq DEF Relevant

\* An update of some rows.
LEMMA TouchSeq ==
    ASSUME NEW R, NEW Q, NEW q \in Seq(Q), NEW f \in Seq(Q), Len(f) = Len(q), NEW hit,
           \A n \in 1..Len(q) : n \in hit => f[n] \in R,
           \A n \in 1..Len(q) : n \notin hit => q[n] \in R
    PROVE  Relevant(Pick(q, DOMAIN q \ hit) \o Pick(f, hit)) \in Seq(R)
<1> DEFINE s == Pick(q, DOMAIN q \ hit)
           t == Pick(f, hit)
<1>1. s \in Seq(R)
  BY PickSeq
<1>2. t \in Seq(R)
  BY PickSeq
<1>3. s \o t \in Seq(R)
  <2> HIDE DEF s, t
  <2> QED
    BY <1>1, <1>2
<1> QED
  BY <1>3, RelevantSeq

\* The rows of a coroutine, and an update of some rows by a function.
Own(q, i) == {n \in DOMAIN q : q[n].owner = i}
Updated(q, hit, F) ==
    Relevant(Pick(q, DOMAIN q \ hit) \o Pick([n \in DOMAIN q |-> F[q[n]]], hit))

LEMMA UpdatedSeq ==
    ASSUME NEW Q, Q \subseteq Row, NEW q \in Seq(Q), NEW F \in [Row -> Row], NEW R,
           NEW hit,
           \A n \in DOMAIN q : n \in hit => F[q[n]] \in R,
           \A n \in DOMAIN q : n \notin hit => q[n] \in R
    PROVE  Updated(q, hit, F) \in Seq(R)
<1> DEFINE f == [n \in DOMAIN q |-> F[q[n]]]
<1>0. DOMAIN q = 1..Len(q) /\ Len(q) \in Nat
  OBVIOUS
<1>1. \A n \in DOMAIN q : q[n] \in Row
  OBVIOUS
<1>2. q \in Seq(Row)
  BY <1>0, <1>1
<1>3. f = [n \in 1..Len(q) |-> F[q[n]]] /\ \A n \in 1..Len(q) : F[q[n]] \in Row
  BY <1>0, <1>1
<1>4. f \in Seq(Row) /\ Len(f) = Len(q) /\ \A n \in DOMAIN q : f[n] = F[q[n]]
  BY <1>0, <1>3
<1> HIDE DEF f
<1>5. Relevant(Pick(q, DOMAIN q \ hit) \o Pick(f, hit)) \in Seq(R)
  BY <1>0, <1>2, <1>4, TouchSeq
<1> QED
  BY <1>5 DEF Updated, f

\* update_by_id by the coroutine i, as an update by a function.
Wrote(i, F) == logs' = [logs EXCEPT ![work[i].kind] = Updated(@, Own(@, i), F)]

StartedRow == [r \in Row |-> [r EXCEPT !.status = "running", !.start = 0]]
FailedRow == [r \in Row |-> [r EXCEPT !.status = "fail", !.owner = Nobody]]
BookedRow(last) == [r \in Row |-> [r EXCEPT !.end = Larger(@, last)]]
DoneRow == [r \in Row |-> [r EXCEPT !.status = "done", !.owner = Nobody]]
CancelledRow == [r \in Row |-> [r EXCEPT !.status = "cancel"]]

LEMMA RowFunctions ==
    /\ StartedRow \in [Row -> Row] /\ FailedRow \in [Row -> Row]
    /\ DoneRow \in [Row -> Row] /\ CancelledRow \in [Row -> Row]
    /\ \A last \in Times : BookedRow(last) \in [Row -> Row]
<1>1. 0 \in Times
  BY ConnectorSyncAssumption DEF Times
<1> QED
  BY <1>1 DEF StartedRow, FailedRow, DoneRow, CancelledRow, BookedRow, Row, Statuses,
              Larger, Nobody

\* The value of an update by one of these functions.
LEMMA SameUpdate ==
    ASSUME NEW q \in Seq(Row), NEW F, NEW f, NEW hit,
           f = [n \in DOMAIN q |-> F[q[n]]]
    PROVE  Updated(q, hit, F) = Relevant(Pick(q, DOMAIN q \ hit) \o Pick(f, hit))
BY DEF Updated

LEMMA StartRows ==
    ASSUME TypeOK, NEW i \in Slots, Start(i)
    PROVE  Wrote(i, StartedRow)
<1> DEFINE q == logs[work[i].kind]
           f == [n \in DOMAIN q |-> [q[n] EXCEPT !.status = "running", !.start = 0]]
           hit == {n \in DOMAIN q : q[n].owner = i}
<1>1. work[i].kind \in Kinds /\ q \in Seq(Row)
  BY DEF TypeOK, Coroutine
<1>2. logs' = [logs EXCEPT ![work[i].kind]
                = Relevant(Pick(q, DOMAIN q \ hit) \o Pick(f, hit))]
  BY <1>1 DEF Start, TouchOwn, Touch, TypeOK
<1>3. \A r \in Row : StartedRow[r] = [r EXCEPT !.status = "running", !.start = 0]
  BY DEF StartedRow
<1>4. \A n \in DOMAIN q : q[n] \in Row
  BY <1>1
<1>5. f = [n \in DOMAIN q |-> StartedRow[q[n]]]
  <2> HIDE DEF q
  <2> QED
    BY <1>3, <1>4, Zenon
<1> HIDE DEF f
<1>6. Updated(q, Own(q, i), StartedRow)
        = Relevant(Pick(q, DOMAIN q \ hit) \o Pick(f, hit))
  BY <1>1, <1>5, SameUpdate DEF Own
<1> QED
  BY <1>1, <1>2, <1>6 DEF Wrote, TypeOK

LEMMA TaskFailsRows ==
    ASSUME TypeOK, NEW i \in Slots, TaskFails(i)
    PROVE  Wrote(i, FailedRow)
<1> DEFINE q == logs[work[i].kind]
           f == [n \in DOMAIN q |-> [q[n] EXCEPT !.status = "fail", !.owner = Nobody]]
           hit == {n \in DOMAIN q : q[n].owner = i}
<1>1. work[i].kind \in Kinds /\ q \in Seq(Row)
  BY DEF TypeOK, Coroutine
<1>2. logs' = [logs EXCEPT ![work[i].kind]
                = Relevant(Pick(q, DOMAIN q \ hit) \o Pick(f, hit))]
  BY <1>1 DEF TaskFails, TouchOwn, Touch, TypeOK
<1>3. \A r \in Row : FailedRow[r] = [r EXCEPT !.status = "fail", !.owner = Nobody]
  BY DEF FailedRow
<1>4. \A n \in DOMAIN q : q[n] \in Row
  BY <1>1
<1>5. f = [n \in DOMAIN q |-> FailedRow[q[n]]]
  <2> HIDE DEF q
  <2> QED
    BY <1>3, <1>4, Zenon
<1> HIDE DEF f
<1>6. Updated(q, Own(q, i), FailedRow)
        = Relevant(Pick(q, DOMAIN q \ hit) \o Pick(f, hit))
  BY <1>1, <1>5, SameUpdate DEF Own
<1> QED
  BY <1>1, <1>2, <1>6 DEF Wrote, TypeOK

LEMMA DoneRows ==
    ASSUME TypeOK, NEW i \in Slots, Done(i)
    PROVE  Wrote(i, DoneRow)
<1> DEFINE q == logs[work[i].kind]
           f == [n \in DOMAIN q |-> [q[n] EXCEPT !.status = "done", !.owner = Nobody]]
           hit == {n \in DOMAIN q : q[n].owner = i}
<1>1. work[i].kind \in Kinds /\ q \in Seq(Row)
  BY DEF TypeOK, Coroutine
<1>2. logs' = [logs EXCEPT ![work[i].kind]
                = Relevant(Pick(q, DOMAIN q \ hit) \o Pick(f, hit))]
  BY <1>1 DEF Done, TouchOwn, Touch, TypeOK
<1>3. \A r \in Row : DoneRow[r] = [r EXCEPT !.status = "done", !.owner = Nobody]
  BY DEF DoneRow
<1>4. \A n \in DOMAIN q : q[n] \in Row
  BY <1>1
<1>5. f = [n \in DOMAIN q |-> DoneRow[q[n]]]
  <2> HIDE DEF q
  <2> QED
    BY <1>3, <1>4, Zenon
<1> HIDE DEF f
<1>6. Updated(q, Own(q, i), DoneRow)
        = Relevant(Pick(q, DOMAIN q \ hit) \o Pick(f, hit))
  BY <1>1, <1>5, SameUpdate DEF Own
<1> QED
  BY <1>1, <1>2, <1>6 DEF Wrote, TypeOK

LEMMA StoreRows ==
    ASSUME TypeOK, NEW i \in Slots, NEW B, NEW S, Store(i, B, S, TRUE)
    PROVE  Wrote(i, BookedRow(LastTime(B, work[i].todo)))
<1> DEFINE q == logs[work[i].kind]
           f == [n \in DOMAIN q |-> [q[n] EXCEPT !.end = Larger(@, LastTime(B, work[i].todo))]]
           hit == {n \in DOMAIN q : q[n].owner = i}
<1>1. work[i].kind \in Kinds /\ q \in Seq(Row)
  BY DEF TypeOK, Coroutine
<1>2. logs' = [logs EXCEPT ![work[i].kind]
                = Relevant(Pick(q, DOMAIN q \ hit) \o Pick(f, hit))]
  BY <1>1 DEF Store, TouchOwn, Touch, TypeOK
<1>3. \A r \in Row : BookedRow(LastTime(B, work[i].todo))[r] = [r EXCEPT !.end = Larger(@, LastTime(B, work[i].todo))]
  BY DEF BookedRow
<1>4. \A n \in DOMAIN q : q[n] \in Row
  BY <1>1
<1>5. f = [n \in DOMAIN q |-> BookedRow(LastTime(B, work[i].todo))[q[n]]]
  <2> HIDE DEF q
  <2> QED
    BY <1>3, <1>4, Zenon
<1> HIDE DEF f
<1>6. Updated(q, Own(q, i), BookedRow(LastTime(B, work[i].todo)))
        = Relevant(Pick(q, DOMAIN q \ hit) \o Pick(f, hit))
  BY <1>1, <1>5, SameUpdate DEF Own
<1> QED
  BY <1>1, <1>2, <1>6 DEF Wrote, TypeOK

Live(q) == {n \in DOMAIN q : q[n].status \in {"schedule", "running"}}

LEMMA CancelRowsRows ==
    ASSUME TypeOK, NEW k \in Kbs, CancelRows(k)
    PROVE  logs' = [kind \in Kinds |->
                      IF kind[1] = k
                      THEN Updated(logs[kind], Live(logs[kind]), CancelledRow)
                      ELSE logs[kind]]
<1>1. ASSUME NEW kind \in Kinds, kind[1] = k
      PROVE  logs'[kind] = Updated(logs[kind], Live(logs[kind]), CancelledRow)
  <2> DEFINE q == logs[kind]
             f == [n \in DOMAIN q |-> [q[n] EXCEPT !.status = "cancel"]]
  <2>1. q \in Seq(Row)
    BY DEF TypeOK
  <2>2. logs'[kind] = Relevant(Pick(q, DOMAIN q \ Live(q)) \o Pick(f, Live(q)))
    BY <1>1 DEF CancelRows, Touch, Live
  <2>3. \A r \in Row : CancelledRow[r] = [r EXCEPT !.status = "cancel"]
    BY DEF CancelledRow
  <2>4. \A n \in DOMAIN q : q[n] \in Row
    BY <2>1
  <2>5. f = [n \in DOMAIN q |-> CancelledRow[q[n]]]
    <3> HIDE DEF q
    <3> QED
      BY <2>3, <2>4, Zenon
  <2> HIDE DEF f
  <2> QED
    BY <2>1, <2>2, <2>5, SameUpdate
<1>2. ASSUME NEW kind \in Kinds, kind[1] # k
      PROVE  logs'[kind] = logs[kind]
  BY <1>2 DEF CancelRows
<1>3. logs' = [kind \in Kinds |-> logs'[kind]]
  BY DEF CancelRows
<1> QED
  BY <1>1, <1>2, <1>3

\* What an update by a coroutine does to the rows of each kind.
LEMMA WroteSeq ==
    ASSUME TypeOK, NEW i \in Slots, NEW F \in [Row -> Row], Wrote(i, F),
           NEW kind \in Kinds, NEW Q, Q \subseteq Row, logs[kind] \in Seq(Q), NEW R,
           \A r \in Q : kind = work[i].kind /\ r.owner = i => F[r] \in R,
           \A r \in Q : kind # work[i].kind \/ r.owner # i => r \in R
    PROVE  logs'[kind] \in Seq(R)
<1> DEFINE q == logs[kind]
<1>1. DOMAIN q = 1..Len(q) /\ \A n \in DOMAIN q : q[n] \in Q
  OBVIOUS
<1>2. CASE kind = work[i].kind
  <2>1. logs'[kind] = Updated(q, Own(q, i), F)
    BY <1>2 DEF Wrote, TypeOK
  <2>2. /\ \A n \in DOMAIN q : n \in Own(q, i) => F[q[n]] \in R
        /\ \A n \in DOMAIN q : n \notin Own(q, i) => q[n] \in R
    BY <1>1, <1>2 DEF Own
  <2> HIDE DEF q
  <2>3. q \in Seq(Q)
    BY DEF q
  <2> QED
    BY <2>1, <2>2, <2>3, UpdatedSeq
<1>3. CASE kind # work[i].kind
  <2>1. logs'[kind] = q
    BY <1>3 DEF Wrote, TypeOK
  <2>2. \A n \in DOMAIN q : q[n] \in R
    BY <1>1, <1>3
  <2> QED
    BY <1>1, <2>1, <2>2
<1> QED
  BY <1>2, <1>3

LEMMA WroteType ==
    ASSUME TypeOK, NEW i \in Slots, NEW F \in [Row -> Row], Wrote(i, F)
    PROVE  logs' \in [Kinds -> Seq(Row)]
<1>1. \A kind \in Kinds : logs[kind] \in Seq(Row)
  BY DEF TypeOK
<1>2. ASSUME NEW kind \in Kinds PROVE logs'[kind] \in Seq(Row)
  BY <1>1, WroteSeq
<1>3. logs' = [kind \in Kinds |-> logs'[kind]]
  BY DEF Wrote, TypeOK
<1> QED
  BY <1>2, <1>3
-----------------------------------------------------------------------------
(***************************************************************************)
(* Types.                                                                  *)
(***************************************************************************)
Statement == [op : Ops, kbs : SUBSET Kbs]

LEMMA Defaults ==
    0 \in Times /\ AnyKind \in Kinds /\ NoCall \in Call /\ NoTask \in Coroutine
<1>1. \E kind : kind \in Kinds
  <2>1. PICK k : k \in Kbs
    BY ConnectorSyncAssumption
  <2>2. <<k, "sync">> \in Kinds
    BY <2>1 DEF Kinds
  <2> QED
    BY <2>2
<1>2. 0 \in Times /\ AnyKind \in Kinds
  BY <1>1, ConnectorSyncAssumption DEF Times, AnyKind
<1> QED
  BY <1>2 DEF NoCall, NoTask, Call, Coroutine

LEMMA BecomeType ==
    ASSUME TypeOK, NEW i \in Slots, NEW task \in Coroutine, Become(i, task)
    PROVE  work' \in [Slots -> Coroutine]
BY DEF TypeOK, Become

LEMMA GotoType ==
    ASSUME TypeOK, NEW i \in Slots,
           NEW pc \in {"none", "start", "gen", "sync", "prune", "done", "sched"},
           Goto(i, pc)
    PROVE  work' \in [Slots -> Coroutine]
<1>1. [work[i] EXCEPT !.pc = pc] \in Coroutine
  BY DEF TypeOK, Coroutine
<1> QED
  BY <1>1, BecomeType DEF Goto

LEMMA ToCallType ==
    ASSUME TypeOK, NEW a \in Callers, NEW c \in Call, ToCall(a, c)
    PROVE  calls' \in [Callers -> Call]
BY DEF TypeOK, ToCall

LEMMA ReturnType ==
    ASSUME TypeOK, NEW a \in Callers, Return(a)
    PROVE  /\ calls' \in [Callers -> Call] /\ work' \in [Slots -> Coroutine]
           /\ loop' \in Slots \cup {Nobody}
<1>1. calls' \in [Callers -> Call]
  BY Defaults, ToCallType DEF Return
<1>2. CASE a = Api
  BY <1>1, <1>2 DEF Return, TypeOK
<1>3. CASE a # Api
  <2>1. a \in Slots /\ work' = [work EXCEPT ![a] = NoTask] /\ loop' = Nobody
    BY <1>3 DEF Return, Callers
  <2> QED
    BY <1>1, <2>1, Defaults DEF TypeOK
<1> QED
  BY <1>2, <1>3

LEMMA EachType ==
    ASSUME NEW op \in Ops, NEW S \in SUBSET Kbs
    PROVE  Each(op, S) \in Seq(Statement)
<1>1. [op |-> op, kbs |-> S] \in Statement
  BY DEF Statement
<1> QED
  BY <1>1 DEF Each

LEMMA ConcatType ==
    ASSUME NEW R, NEW s \in Seq(R), NEW t \in Seq(R)
    PROVE  s \o t \in Seq(R)
OBVIOUS

LEMMA EmptyType == \A R : <<>> \in Seq(R)
OBVIOUS

LEMMA PruningType == ASSUME NEW k \in Kbs PROVE Pruning(k) \in Seq(Statement)
BY EachType DEF Pruning, Ops

LEMMA ScriptTypes ==
    ASSUME TypeOK
    PROVE  /\ Cancel \in Seq(Statement) /\ Resume \in Seq(Statement)
           /\ \A k \in Kbs : /\ Rebuild(k) \in Seq(Statement)
                             /\ Unlink(k) \in Seq(Statement)
                             /\ Link(k) \in Seq(Statement)
<1>1. linked \in SUBSET Kbs
  BY DEF TypeOK
<1>2. Each("cancel", linked) \in Seq(Statement) /\ Resume \in Seq(Statement)
  BY <1>1, EachType DEF Ops, Resume
<1>3. <<[op |-> "stop", kbs |-> {}]>> \in Seq(Statement)
  BY DEF Statement, Ops
<1>4. Cancel \in Seq(Statement)
  BY <1>2, <1>3, ConcatType DEF Cancel
<1>5. ASSUME NEW k \in Kbs, NEW op \in Ops PROVE Each(op, {k}) \in Seq(Statement)
  BY EachType
<1>6. ASSUME NEW k \in Kbs
      PROVE  /\ Rebuild(k) \in Seq(Statement) /\ Unlink(k) \in Seq(Statement)
             /\ Link(k) \in Seq(Statement)
  <2> DEFINE f == Each("forget", {k})
             d == Each("delete", {k})
             r == Each("reindex", {k})
             l == Each("link", {k})
             u == Each("unlink", {k})
             c == Each("cancel", {k})
             p == Pruning(k)
  <2>1. /\ f \in Seq(Statement) /\ d \in Seq(Statement) /\ r \in Seq(Statement)
        /\ l \in Seq(Statement) /\ u \in Seq(Statement) /\ c \in Seq(Statement)
        /\ p \in Seq(Statement)
    BY <1>5, PruningType DEF Ops
  <2>2. /\ Rebuild(k) = f \o d \o r \o p /\ Unlink(k) = u \o c
        /\ Link(k) = l \o r \o p
    BY DEF Rebuild, Unlink, Link
  <2> HIDE DEF f, d, r, l, u, c, p
  <2> QED
    BY <2>1, <2>2
<1> QED
  BY <1>2, <1>4, <1>6

LEMMA AfterType ==
    ASSUME TypeOK, script # <<>>, NEW k
    PROVE  After(k) \in Seq(Statement) /\ Tail(script) \in Seq(Statement)
<1>1. script \in Seq(Statement)
  BY DEF TypeOK, Statement
<1>2. Head(script) \in Statement /\ Tail(script) \in Seq(Statement)
  BY <1>1
<1>3. Head(script).op \in Ops /\ Head(script).kbs \ {k} \in SUBSET Kbs
  BY <1>2 DEF Statement
<1>4. Each(Head(script).op, Head(script).kbs \ {k}) \in Seq(Statement)
  BY <1>3, EachType
<1> QED
  BY <1>2, <1>4, ConcatType DEF After

\* dispatch_tasks has a coroutine for each row it takes.
LEMMA SlotExists ==
    ASSUME NEW D, D \subseteq Due, Cardinality(D) <= Cardinality(Slots)
    PROVE  \E f \in [D -> Slots] : \A d, e \in D : f[d] = f[e] => d = e
<1> DEFINE m == Cardinality(D)
           n == Cardinality(Slots)
<1>1. n \in Nat /\ ExistsBijection(1..n, Slots)
  BY ConnectorSyncAssumption, FS_CardinalityType
<1>2. IsFiniteSet({"sync", "prune"})
  <2>0. IsFiniteSet({} \cup {"sync"})
    BY FS_EmptySet, FS_AddElement
  <2>1. IsFiniteSet(({} \cup {"sync"}) \cup {"prune"})
    BY <2>0, FS_AddElement
  <2>2. {"sync", "prune"} = ({} \cup {"sync"}) \cup {"prune"}
    OBVIOUS
  <2> QED
    BY <2>1, <2>2
<1>3. IsFiniteSet(Kinds) /\ IsFiniteSet(1..n)
  <2>1. IsFiniteSet(Kbs) /\ 1 \in Int /\ n \in Int
    BY <1>1, ConnectorSyncAssumption
  <2>2. IsFiniteSet(Kinds)
    BY <1>2, <2>1, FS_Product DEF Kinds
  <2> QED
    BY <2>1, <2>2, FS_Interval
<1>4. IsFiniteSet(D)
  <2>1. D \in SUBSET (Kinds \X (1..n))
    BY DEF Due
  <2>2. IsFiniteSet(Kinds \X (1..n))
    BY <1>3, FS_Product
  <2> QED
    BY <2>1, <2>2, FS_Subset
<1>5. m \in Nat /\ ExistsBijection(1..m, D)
  BY <1>4, FS_CardinalityType
<1>6. PICK b : b \in Bijection(1..m, D)
  BY <1>5 DEF ExistsBijection
<1>7. PICK c : c \in Bijection(1..n, Slots)
  BY <1>1 DEF ExistsBijection
<1>8. 1..m \subseteq 1..n
  BY <1>1, <1>5
<1> HIDE DEF m, n
<1>9. \A d \in D : \E j \in 1..m : b[j] = d
  BY <1>6 DEF Bijection, Surjection
<1>10. /\ c \in [1..n -> Slots]
       /\ \A i, j \in 1..n : c[i] = c[j] => i = j
  BY <1>7 DEF Bijection, Injection, IsInjective
<1> DEFINE pos(d) == CHOOSE j \in 1..m : b[j] = d
           f == [d \in D |-> c[pos(d)]]
<1>11. \A d \in D : pos(d) \in 1..m /\ b[pos(d)] = d
  BY <1>9
<1> HIDE DEF pos
<1>12. f \in [D -> Slots]
  BY <1>8, <1>10, <1>11
<1>13. \A d, e \in D : f[d] = f[e] => d = e
  BY <1>8, <1>10, <1>11
<1> QED
  BY <1>12, <1>13

Taken(d) == logs[d[1]][d[2]]
NewTask(d) == [NoTask EXCEPT !.pc = "start", !.kind = d[1],
                             !.next = Taken(d).start, !.reindex = Taken(d).reindex]

LEMMA TakenRow ==
    ASSUME TypeOK, NEW d \in Due
    PROVE  /\ d[1] \in Kinds /\ d[2] \in DOMAIN logs[d[1]]
           /\ Taken(d).status = "schedule" /\ Taken(d) \in Row
<1>1. d[1] \in Kinds /\ d[2] \in Scheduled(d[1])
  BY DEF Due
<1>2. logs[d[1]] \in Seq(Row)
  BY <1>1 DEF TypeOK
<1> QED
  BY <1>1, <1>2 DEF Scheduled, Taken

\* Which tasks there are after dispatch_tasks, and what it does to the rows.
LEMMA DispatchWork ==
    ASSUME TypeOK, NEW D, D \subseteq Due, Dispatch(D)
    PROVE  /\ work' = [i \in Slots |-> work'[i]]
           /\ \A i \in Slots : work'[i] = NoTask \/ \E d \in D : work'[i] = NewTask(d)
<1> DEFINE slot == CHOOSE f \in [D -> Slots] : \A d, e \in D : f[d] = f[e] => d = e
           Mine(i) == CHOOSE d \in D : slot[d] = i
<1>1. work' = [i \in Slots |-> IF \E d \in D : slot[d] = i
                               THEN NewTask(Mine(i)) ELSE NoTask]
  BY DEF Dispatch, NewTask, Taken
<1>2. \A i \in Slots : (\E d \in D : slot[d] = i) => Mine(i) \in D
  OBVIOUS
<1> HIDE DEF slot, Mine
<1> QED
  BY <1>1, <1>2

LEMMA DispatchSeq ==
    ASSUME TypeOK, NEW D, D \subseteq Due, Dispatch(D), NEW kind \in Kinds,
           NEW Q, Q \subseteq Row, logs[kind] \in Seq(Q), NEW R, Q \subseteq R,
           \A r \in Q, j \in Slots :
               r.status = "schedule" => [r EXCEPT !.owner = j] \in R
    PROVE  logs'[kind] \in Seq(R)
<1> DEFINE slot == CHOOSE f \in [D -> Slots] : \A d, e \in D : f[d] = f[e] => d = e
           q == logs[kind]
           f == [n \in DOMAIN q |-> IF <<kind, n>> \in D
                                    THEN [q[n] EXCEPT !.owner = slot[<<kind, n>>]]
                                    ELSE q[n]]
<1>1. Cardinality(D) <= Cardinality(Slots)
  BY DEF Dispatch
<1>2. slot \in [D -> Slots]
  BY <1>1, SlotExists
<1>3. logs'[kind] = f
  BY DEF Dispatch
<1> HIDE DEF slot
<1>4. DOMAIN q = 1..Len(q) /\ Len(q) \in Nat /\ \A n \in DOMAIN q : q[n] \in Q
  OBVIOUS
<1>5. ASSUME NEW n \in DOMAIN q, <<kind, n>> \in D
      PROVE  q[n].status = "schedule"
  <2>1. <<kind, n>> \in Due
    BY <1>5
  <2>2. <<kind, n>>[1] = kind /\ <<kind, n>>[2] = n
    OBVIOUS
  <2> QED
    BY <2>1, <2>2, TakenRow DEF Taken
<1>6. ASSUME NEW n \in DOMAIN q PROVE f[n] \in R
  BY <1>2, <1>4, <1>5
<1>7. f = [n \in 1..Len(q) |-> f[n]]
  BY <1>4
<1> HIDE DEF f, q
<1> QED
  BY <1>3, <1>4, <1>6, <1>7

\* The rows of Relevant, with their owners gone.
LEMMA CrashSeq ==
    ASSUME TypeOK, Crash, NEW kind \in Kinds, NEW Q, Q \subseteq Row,
           logs[kind] \in Seq(Q), NEW R, \A r \in Q : [r EXCEPT !.owner = Nobody] \in R
    PROVE  logs'[kind] \in Seq(R)
<1> DEFINE q == logs[kind]
           f == [n \in DOMAIN q |-> [q[n] EXCEPT !.owner = Nobody]]
<1>1. logs'[kind] = Relevant(f)
  BY DEF Crash
<1>2. DOMAIN q = 1..Len(q) /\ Len(q) \in Nat /\ \A n \in DOMAIN q : q[n] \in Q
  OBVIOUS
<1>3. \A n \in DOMAIN q : f[n] \in R
  BY <1>2
<1>4. f = [n \in 1..Len(q) |-> f[n]]
  BY <1>2
<1> HIDE DEF f, q
<1>5. f \in Seq(R)
  BY <1>2, <1>3, <1>4
<1> QED
  BY <1>1, <1>5, RelevantSeq

\* schedule adds a row, or schedules the last one again.
NewRow(c) == [owner |-> Nobody, status |-> "schedule", start |-> c.start,
              end |-> 0, reindex |-> c.reindex]

LEMMA SchedSaveSeq ==
    ASSUME TypeOK, NEW a \in Callers, SchedSave(a), NEW kind \in Kinds,
           NEW R, logs[kind] \in Seq(R), kind = calls[a].kind => NewRow(calls[a]) \in R
    PROVE  logs'[kind] \in Seq(R)
<1> DEFINE c == calls[a]
<1>1. logs' = [logs EXCEPT ![c.kind] = Relevant(Append(@, NewRow(c)))]
  BY DEF SchedSave, NewRow
<1>2. CASE kind = c.kind
  <2>1. logs'[kind] = Relevant(Append(logs[kind], NewRow(c)))
    BY <1>1, <1>2 DEF TypeOK
  <2>2. Append(logs[kind], NewRow(c)) \in Seq(R)
    BY <1>2
  <2> QED
    BY <2>1, <2>2, RelevantSeq
<1>3. CASE kind # c.kind
  BY <1>1, <1>3 DEF TypeOK
<1> QED
  BY <1>2, <1>3

AgainRow(start) == [r \in Row |-> [r EXCEPT !.status = "schedule", !.start = start]]

LEMMA SchedFailsSeq ==
    ASSUME TypeOK, NEW a \in Callers, SchedFails(a), NEW kind \in Kinds,
           NEW Q, Q \subseteq Row, logs[kind] \in Seq(Q), NEW R, Q \subseteq R,
           \A r \in Q : kind = calls[a].kind => AgainRow(calls[a].start)[r] \in R
    PROVE  logs'[kind] \in Seq(R)
<1> DEFINE c == calls[a]
           q == logs[kind]
           n == Len(q)
           r == AgainRow(c.start)[q[n]]
<1>1. n \in Nat /\ DOMAIN q = 1..n /\ \A m \in 1..n : q[m] \in Q
  OBVIOUS
<1>2. q \in Seq(R)
  BY <1>1
<1>3. CASE kind # c.kind \/ n = 0
  BY <1>2, <1>3 DEF SchedFails, TypeOK
<1>4. CASE kind = c.kind /\ n # 0
  <2>1. logs' = [logs EXCEPT ![kind][n].status = "schedule", ![kind][n].start = c.start]
    BY <1>4 DEF SchedFails
  <2>2. logs'[kind] = [q EXCEPT ![n].status = "schedule", ![n].start = c.start]
    BY <1>1, <1>4, <2>1 DEF TypeOK
  <2>4. q[n] \in Row
    BY <1>1, <1>4
  <2>5. r = [q[n] EXCEPT !.status = "schedule", !.start = c.start]
    BY <2>4 DEF AgainRow
  <2>6. logs'[kind] = [q EXCEPT ![n] = r]
    BY <2>2, <2>5
  <2>3. r \in R
    BY <1>1, <1>4
  <2> HIDE DEF q, r
  <2> QED
    BY <1>1, <1>2, <1>4, <2>3, <2>6
<1> QED
  BY <1>3, <1>4

LEMMA SchedLogsType ==
    ASSUME TypeOK, NEW a \in Callers, SchedSave(a) \/ SchedFails(a)
    PROVE  logs' \in [Kinds -> Seq(Row)]
<1>1. calls[a] \in Call
  BY DEF TypeOK
<1>2. NewRow(calls[a]) \in Row
  BY <1>1, Defaults DEF NewRow, Row, Statuses, Call
<1>3. \A r \in Row : AgainRow(calls[a].start)[r] \in Row
  BY <1>1 DEF Row, Statuses, Call, AgainRow
<1>4. \A kind \in Kinds : logs[kind] \in Seq(Row)
  BY DEF TypeOK
<1>5. ASSUME NEW kind \in Kinds PROVE logs'[kind] \in Seq(Row)
  BY <1>2, <1>3, <1>4, SchedSaveSeq, SchedFailsSeq
<1>6. logs' = [kind \in Kinds |-> logs'[kind]]
  BY DEF SchedSave, SchedFails, TypeOK
<1> QED
  BY <1>5, <1>6
-----------------------------------------------------------------------------
LEMMA TypeInit == Init => TypeOK
<1> SUFFICES ASSUME Init PROVE TypeOK
  OBVIOUS
<1>1. clock \in Times /\ src \in [Items -> Times]
  BY ConnectorSyncAssumption DEF Init, Times
<1>2. logs \in [Kinds -> Seq(Row)] /\ script \in Seq([op : Ops, kbs : SUBSET Kbs])
  BY DEF Init
<1>3. /\ idx \in [Kbs -> [Items -> Times]]
      /\ work \in [Slots -> Coroutine] /\ calls \in [Callers -> Call]
  BY Defaults DEF Init
<1>4. /\ status \in Statuses /\ linked \subseteq Kbs /\ loop \in Slots \cup {Nobody}
      /\ skipped \in [Kbs -> SUBSET Items] /\ overlap \subseteq Kbs
      /\ doubled \subseteq Kinds
      /\ faults \in 0..MaxFaults /\ requests \in 0..MaxRequests
  BY ConnectorSyncAssumption DEF Init, Statuses
<1> QED
  BY <1>1, <1>2, <1>3, <1>4 DEF TypeOK

LEMMA FaultType ==
    ASSUME TypeOK, Fault
    PROVE  faults' \in 0..MaxFaults /\ requests' \in 0..MaxRequests
BY ConnectorSyncAssumption DEF TypeOK, Fault

LEMMA DoublesType ==
    ASSUME TypeOK, NEW a \in Callers, Doubles(a)
    PROVE  doubled' \subseteq Kinds
<1>1. calls[a].kind \in Kinds
  BY DEF TypeOK, Call
<1> QED
  BY <1>1 DEF Doubles, TypeOK

LEMMA TypeSource ==
    ASSUME TypeOK, NEW x \in Items, Change(x)
    PROVE  TypeOK'
<1>1. clock' \in Times /\ src' \in [Items -> Times]
  BY ConnectorSyncAssumption DEF TypeOK, Change, Times
<1> QED
  BY <1>1 DEF TypeOK, Change, history, counters

LEMMA TypeSchedule ==
    ASSUME TypeOK, NEW a \in Callers, Schedule(a) \/ SchedFails(a)
    PROVE  TypeOK'
<1> USE DEF source, history, counters
<1>1. CASE SchedRefused(a)
  BY <1>1, ReturnType DEF TypeOK, SchedRefused
<1>2. CASE SchedCheck(a)
  <2>1. [calls[a] EXCEPT !.at = "save"] \in Call
    BY DEF TypeOK, Call
  <2>2. calls' \in [Callers -> Call]
    BY <1>2, <2>1, ToCallType DEF SchedCheck
  <2> QED
    BY <1>2, <2>2 DEF TypeOK, SchedCheck
<1>3. CASE SchedSave(a)
  <2>1. logs' \in [Kinds -> Seq(Row)] /\ doubled' \subseteq Kinds
    BY <1>3, SchedLogsType, DoublesType DEF SchedSave
  <2>2. /\ calls' \in [Callers -> Call] /\ work' \in [Slots -> Coroutine]
        /\ loop' \in Slots \cup {Nobody}
    BY <1>3, ReturnType DEF SchedSave
  <2>3. status' \in Statuses
    BY <1>3 DEF SchedSave, Statuses
  <2> QED
    BY <1>3, <2>1, <2>2, <2>3 DEF TypeOK, SchedSave
<1>4. CASE SchedFails(a)
  <2>1. logs' \in [Kinds -> Seq(Row)] /\ doubled' \subseteq Kinds
    BY <1>4, SchedLogsType, DoublesType DEF SchedFails
  <2>2. /\ calls' \in [Callers -> Call] /\ work' \in [Slots -> Coroutine]
        /\ loop' \in Slots \cup {Nobody}
    BY <1>4, ReturnType DEF SchedFails
  <2>3. status' \in Statuses /\ faults' \in 0..MaxFaults /\ requests' \in 0..MaxRequests
    BY <1>4, FaultType DEF SchedFails, Statuses, TypeOK
  <2> QED
    BY <1>4, <2>1, <2>2, <2>3 DEF TypeOK, SchedFails
<1> QED
  BY <1>1, <1>2, <1>3, <1>4 DEF Schedule

LEMMA TypeApi ==
    ASSUME TypeOK, ApiStep
    PROVE  TypeOK'
<1> USE DEF source, history, counters
<1>s. script # <<>> => /\ Tail(script) \in Seq(Statement)
                       /\ \A k \in Kbs : After(k) \in Seq(Statement)
  BY AfterType
<1>1. CASE Stop
  <2>1. script' \in Seq([op : Ops, kbs : SUBSET Kbs]) /\ status' \in Statuses
    BY <1>1, <1>s DEF Stop, Statement, Statuses
  <2> QED
    BY <1>1, <2>1 DEF TypeOK, Stop
<1>2. CASE Schedule(Api)
  BY <1>2, TypeSchedule DEF Callers
<1>3. ASSUME NEW k \in Kbs, CancelRows(k) PROVE TypeOK'
  <2>1. script' \in Seq([op : Ops, kbs : SUBSET Kbs])
    BY <1>3, <1>s DEF CancelRows, Does, Statement
  <2>2. ASSUME NEW kind \in Kinds
        PROVE  Updated(logs[kind], Live(logs[kind]), CancelledRow) \in Seq(Row)
    <3>1. logs[kind] \in Seq(Row)
      BY DEF TypeOK
    <3>2. \A n \in DOMAIN logs[kind] : /\ logs[kind][n] \in Row
                                       /\ CancelledRow[logs[kind][n]] \in Row
      BY <3>1, RowFunctions
    <3> QED
      BY <3>1, <3>2, RowFunctions, UpdatedSeq
  <2>3. ASSUME NEW kind \in Kinds PROVE logs'[kind] \in Seq(Row)
    BY <1>3, <2>2, CancelRowsRows DEF TypeOK
  <2>4. logs' = [kind \in Kinds |-> logs'[kind]]
    BY <1>3 DEF CancelRows
  <2>5. logs' \in [Kinds -> Seq(Row)]
    BY <2>3, <2>4
  <2> QED
    BY <1>3, <2>1, <2>5 DEF TypeOK, CancelRows
<1>4. ASSUME NEW k \in Kbs, ResumeSync(k) PROVE TypeOK'
  <2>1. Pruning(k) \in Seq(Statement) /\ After(k) \in Seq(Statement)
    BY <1>4, <1>s, PruningType DEF ResumeSync, Does
  <2>2. script' \in Seq([op : Ops, kbs : SUBSET Kbs])
    BY <1>4, <2>1, ConcatType DEF ResumeSync, Statement
  <2> DEFINE q == logs[<<k, "sync">>]
             window == IF q # <<>> /\ q[Len(q)].status = "done" THEN q[Len(q)].end ELSE 0
             c == [at |-> "check", kind |-> <<k, "sync">>, start |-> window,
                   reindex |-> FALSE]
  <2>3. <<k, "sync">> \in Kinds
    BY DEF Kinds
  <2>4. window \in Times
    <3>1. q \in Seq(Row)
      BY <2>3 DEF TypeOK
    <3>2. q # <<>> => q[Len(q)] \in Row
      BY <3>1
    <3>3. q # <<>> => q[Len(q)].end \in Times
      BY <3>2 DEF Row
    <3> HIDE DEF q
    <3> QED
      BY <3>3, Defaults
  <2>5. ToCall(Api, c)
    BY <1>4 DEF ResumeSync
  <2> HIDE DEF window
  <2>6. c \in Call
    BY <2>3, <2>4 DEF Call
  <2>7. calls' \in [Callers -> Call]
    BY <2>5, <2>6, ToCallType DEF Callers
  <2> QED
    BY <1>4, <2>2, <2>7 DEF TypeOK, ResumeSync
<1>5. ASSUME NEW k \in Kbs, ScheduleNew(k) PROVE TypeOK'
  <2>1. script' \in Seq([op : Ops, kbs : SUBSET Kbs])
    BY <1>5, <1>s DEF ScheduleNew, Does, Statement
  <2>2. PICK op \in {"reindex", "prune"} :
          ToCall(Api, [at |-> "check", start |-> 0, reindex |-> op = "reindex",
                       kind |-> <<k, IF op = "prune" THEN "prune" ELSE "sync">>])
    BY <1>5 DEF ScheduleNew
  <2>3. /\ <<k, IF op = "prune" THEN "prune" ELSE "sync">> \in Kinds
        /\ (op = "reindex") \in BOOLEAN
    BY DEF Kinds
  <2>4. [at |-> "check", start |-> 0, reindex |-> op = "reindex",
         kind |-> <<k, IF op = "prune" THEN "prune" ELSE "sync">>] \in Call
    BY <2>3, Defaults DEF Call
  <2>5. calls' \in [Callers -> Call]
    BY <2>2, <2>4, ToCallType DEF Callers
  <2> QED
    BY <1>5, <2>1, <2>5 DEF TypeOK, ScheduleNew
<1>6. ASSUME NEW k \in Kbs, Forget(k) PROVE TypeOK'
  <2>1. script' \in Seq([op : Ops, kbs : SUBSET Kbs])
    BY <1>6, <1>s DEF Forget, Does, Statement
  <2>2. logs' \in [Kinds -> Seq(Row)] /\ overlap' \subseteq Kbs
    BY <1>6 DEF Forget, TypeOK
  <2> QED
    BY <1>6, <2>1, <2>2 DEF TypeOK, Forget
<1>7. ASSUME NEW k \in Kbs, Delete(k) PROVE TypeOK'
  <2>1. script' \in Seq([op : Ops, kbs : SUBSET Kbs])
    BY <1>7, <1>s DEF Delete, Does, Statement
  <2>2. idx' \in [Kbs -> [Items -> Times]]
    BY <1>7, Defaults DEF Delete, TypeOK
  <2> QED
    BY <1>7, <2>1, <2>2 DEF TypeOK, Delete
<1>8. ASSUME NEW k \in Kbs, ChangeLink(k) PROVE TypeOK'
  <2>1. script' \in Seq([op : Ops, kbs : SUBSET Kbs]) /\ linked' \subseteq Kbs
    BY <1>8, <1>s DEF ChangeLink, Does, Statement, TypeOK
  <2> QED
    BY <1>8, <2>1 DEF TypeOK, ChangeLink
<1> QED
  BY <1>1, <1>2, <1>3, <1>4, <1>5, <1>6, <1>7, <1>8 DEF ApiStep

LEMMA TypeRequest ==
    ASSUME TypeOK, Request
    PROVE  TypeOK'
<1>1. \A k \in Kbs : /\ Rebuild(k) \in Seq(Statement) /\ Unlink(k) \in Seq(Statement)
                     /\ Link(k) \in Seq(Statement)
  BY ScriptTypes
<1>2. /\ Cancel \in Seq(Statement) /\ Resume \in Seq(Statement)
      /\ Cancel \o Resume \in Seq(Statement)
  BY ScriptTypes, ConcatType
<1>3. linked \subseteq Kbs
  BY DEF TypeOK
<1>4. script' \in Seq(Statement)
  BY <1>1, <1>2, <1>3 DEF Request
<1>5. requests' \in 0..MaxRequests
  BY ConnectorSyncAssumption DEF Request, TypeOK
<1> QED
  BY <1>4, <1>5 DEF TypeOK, Request, source, history, Statement

LEMMA TypeDispatch ==
    ASSUME TypeOK, NEW D, D \subseteq Due, Dispatch(D)
    PROVE  TypeOK'
<1>1. \A d \in Due : NewTask(d) \in Coroutine
  <2> TAKE d \in Due
  <2>1. d[1] \in Kinds /\ Taken(d) \in Row
    BY TakenRow
  <2> QED
    BY <2>1, Defaults DEF NewTask, Coroutine, Row
<1>2. work' \in [Slots -> Coroutine]
  BY <1>1, DispatchWork, Defaults
<1>3. \A kind \in Kinds : logs[kind] \in Seq(Row)
  BY DEF TypeOK
<1>4. \A r \in Row, j \in Slots : [r EXCEPT !.owner = j] \in Row
  BY DEF Row
<1>5. ASSUME NEW kind \in Kinds PROVE logs'[kind] \in Seq(Row)
  BY <1>3, <1>4, DispatchSeq
<1>6. logs' = [kind \in Kinds |-> logs'[kind]]
  BY DEF Dispatch
<1>7. logs' \in [Kinds -> Seq(Row)]
  BY <1>5, <1>6
<1> QED
  BY <1>2, <1>7 DEF TypeOK, Dispatch, source, history, counters

LEMMA TypeWorker ==
    ASSUME TypeOK, NEW i \in Slots, Step(i) \/ TaskFails(i) \/ BatchFails(i)
    PROVE  TypeOK'
<1> USE DEF source, history, counters
<1>0. /\ work[i] \in Coroutine /\ work[i].kind \in Kinds /\ work[i].kind[1] \in Kbs
      /\ work[i].todo \in [Items -> Times] /\ work[i].next \in Times
      /\ i \in Callers
  BY DEF TypeOK, Coroutine, Kinds, Callers
<1>1. CASE Start(i)
  <2>1. logs' \in [Kinds -> Seq(Row)]
    BY <1>1, StartRows, RowFunctions, WroteType
  <2>2. work' \in [Slots -> Coroutine] /\ status' \in Statuses
    BY <1>1, GotoType DEF Start, Statuses
  <2> QED
    BY <1>1, <2>1, <2>2 DEF TypeOK, Start
<1>2. CASE Generate(i)
  <2>1. PICK incl \in BOOLEAN :
          Become(i, [work[i] EXCEPT !.pc = "sync", !.reindex = FALSE,
                                    !.todo = Fetched(work[i], incl)])
    BY <1>2 DEF Generate
  <2>2. Fetched(work[i], incl) \in [Items -> Times]
    BY Defaults DEF Fetched, TypeOK
  <2>3. [work[i] EXCEPT !.pc = "sync", !.reindex = FALSE,
                        !.todo = Fetched(work[i], incl)] \in Coroutine
    BY <1>0, <2>2 DEF Coroutine
  <2>4. work' \in [Slots -> Coroutine]
    BY <2>1, <2>3, BecomeType
  <2> QED
    BY <1>2, <2>4 DEF TypeOK, Generate
<1>3. CASE TaskFails(i)
  <2>1. logs' \in [Kinds -> Seq(Row)]
    BY <1>3, TaskFailsRows, RowFunctions, WroteType
  <2>2. work' \in [Slots -> Coroutine]
    BY <1>3, Defaults, BecomeType DEF TaskFails
  <2>3. faults' \in 0..MaxFaults /\ requests' \in 0..MaxRequests
    BY <1>3, FaultType DEF TaskFails
  <2> QED
    BY <1>3, <2>1, <2>2, <2>3 DEF TypeOK, TaskFails
<1>4. ASSUME NEW B \in SUBSET Items, NEW S \in SUBSET B, NEW booked \in BOOLEAN,
             Store(i, B, S, booked)
      PROVE  /\ idx' \in [Kbs -> [Items -> Times]]
             /\ skipped' \in [Kbs -> SUBSET Items]
             /\ logs' \in [Kinds -> Seq(Row)]
             /\ work' \in [Slots -> Coroutine]
             /\ UNCHANGED <<source, status, linked, loop, script, calls, overlap, doubled>>
  <2> DEFINE t == work[i]
             last == LastTime(B, t.todo)
             todo == [x \in Items |-> IF x \in B THEN 0 ELSE t.todo[x]]
  <2>1. last \in Times
    <3>1. B # {} /\ \A x \in B : t.todo[x] \in Times
      BY <1>0, <1>4 DEF Store
    <3>2. \E x \in B : last = t.todo[x]
      BY <3>1, LastTimeIsMax
    <3> QED
      BY <3>1, <3>2
  <2>2. idx' \in [Kbs -> [Items -> Times]]
    BY <1>0, <1>4 DEF Store, TypeOK
  <2>3. skipped' \in [Kbs -> SUBSET Items]
    BY <1>0, <1>4 DEF Store, TypeOK
  <2>4. logs' \in [Kinds -> Seq(Row)]
    <3>1. CASE booked
      <4>1. Wrote(i, BookedRow(last))
        BY <1>4, <3>1, StoreRows
      <4>2. BookedRow(last) \in [Row -> Row]
        BY <2>1, RowFunctions
      <4> QED
        BY <4>1, <4>2, WroteType
    <3>2. CASE ~booked
      BY <1>4, <3>2 DEF Store, TypeOK
    <3> QED
      BY <3>1, <3>2
  <2>5. work' \in [Slots -> Coroutine]
    <3>1. Become(i, [t EXCEPT !.next = Larger(@, last), !.todo = todo])
      BY <1>4 DEF Store
    <3>2. Larger(t.next, last) \in Times /\ todo \in [Items -> Times]
      BY <1>0, <2>1, Defaults DEF Larger
    <3> HIDE DEF todo, last
    <3>3. [t EXCEPT !.next = Larger(@, last), !.todo = todo] \in Coroutine
      BY <1>0, <3>2 DEF Coroutine
    <3> QED
      BY <3>1, <3>3, BecomeType
  <2> QED
    BY <1>4, <2>2, <2>3, <2>4, <2>5 DEF Store
<1>5. CASE Batch(i)
  <2>1. PICK B \in SUBSET Items : Store(i, B, B, TRUE) /\ UNCHANGED counters
    BY <1>5 DEF Batch
  <2> QED
    BY <1>4, <2>1 DEF TypeOK
<1>6. CASE BatchFails(i)
  <2>1. PICK B \in SUBSET Items : \E S \in SUBSET B, booked \in BOOLEAN :
          Store(i, B, S, booked) /\ Fault
    BY <1>6 DEF BatchFails
  <2>2. PICK S \in SUBSET B, booked \in BOOLEAN : Store(i, B, S, booked) /\ Fault
    BY <2>1
  <2>3. faults' \in 0..MaxFaults /\ requests' \in 0..MaxRequests
    BY <2>2, FaultType
  <2>4. /\ idx' \in [Kbs -> [Items -> Times]]
        /\ skipped' \in [Kbs -> SUBSET Items]
        /\ logs' \in [Kinds -> Seq(Row)]
        /\ work' \in [Slots -> Coroutine]
        /\ UNCHANGED <<source, status, linked, loop, script, calls, overlap, doubled>>
    BY <1>4, <2>2
  <2> QED
    BY <2>3, <2>4 DEF TypeOK
<1>7. CASE Snapshot(i)
  <2>1. work' \in [Slots -> Coroutine]
    <3>1. [work[i] EXCEPT !.pc = "prune", !.todo = src] \in Coroutine
      BY <1>0 DEF Coroutine, TypeOK
    <3> QED
      BY <1>7, <3>1, BecomeType, GotoType DEF Snapshot
  <2>2. faults' \in 0..MaxFaults /\ requests' \in 0..MaxRequests
    BY <1>7, FaultType DEF Snapshot, TypeOK
  <2> QED
    BY <1>7, <2>1, <2>2 DEF TypeOK, Snapshot
<1>8. CASE Cleanup(i)
  <2>1. work' \in [Slots -> Coroutine]
    BY <1>8, GotoType DEF Cleanup
  <2>2. idx' \in [Kbs -> [Items -> Times]]
    BY <1>0, <1>8, Defaults DEF Cleanup, TypeOK
  <2>3. faults' \in 0..MaxFaults /\ requests' \in 0..MaxRequests
    BY <1>8, FaultType DEF Cleanup, TypeOK
  <2> QED
    BY <1>8, <2>1, <2>2, <2>3 DEF TypeOK, Cleanup
<1>9. CASE Done(i)
  <2>1. logs' \in [Kinds -> Seq(Row)]
    BY <1>9, DoneRows, RowFunctions, WroteType
  <2>2. [NoTask EXCEPT !.pc = "sched", !.kind = work[i].kind] \in Coroutine
    BY <1>0, Defaults DEF Coroutine
  <2>3. work' \in [Slots -> Coroutine] /\ status' \in Statuses
    BY <1>9, <2>2, BecomeType DEF Done, Statuses
  <2>4. [at |-> "check", kind |-> work[i].kind, reindex |-> FALSE,
         start |-> IF work[i].kind[2] = "sync" THEN work[i].next ELSE 0] \in Call
    BY <1>0, Defaults DEF Call
  <2>5. calls' \in [Callers -> Call]
    BY <1>0, <1>9, <2>4, ToCallType DEF Done
  <2> QED
    BY <1>9, <2>1, <2>3, <2>5 DEF TypeOK, Done
<1>10. CASE Schedule(i)
  BY <1>0, <1>10, TypeSchedule
<1> QED
  BY <1>1, <1>2, <1>3, <1>5, <1>6, <1>7, <1>8, <1>9, <1>10 DEF Step

LEMMA TypeCrash ==
    ASSUME TypeOK, Crash
    PROVE  TypeOK'
<1>1. \A r \in Row : [r EXCEPT !.owner = Nobody] \in Row
  BY DEF Row
<1>2. \A kind \in Kinds : logs[kind] \in Seq(Row)
  BY DEF TypeOK
<1>3. ASSUME NEW kind \in Kinds PROVE logs'[kind] \in Seq(Row)
  BY <1>1, <1>2, CrashSeq
<1>4. logs' = [kind \in Kinds |-> logs'[kind]]
  BY DEF Crash
<1>5. logs' \in [Kinds -> Seq(Row)]
  BY <1>3, <1>4
<1>6. /\ work' \in [Slots -> Coroutine] /\ loop' \in Slots \cup {Nobody}
      /\ calls' \in [Callers -> Call]
  BY Defaults DEF Crash, TypeOK
<1> QED
  BY <1>5, <1>6, FaultType DEF TypeOK, Crash, source, history

LEMMA TypeStep == TypeOK /\ [Next]_vars => TypeOK'
<1> SUFFICES ASSUME TypeOK, [Next]_vars PROVE TypeOK'
  OBVIOUS
<1>1. CASE UNCHANGED vars
  BY <1>1 DEF TypeOK, vars
<1> QED
  BY <1>1, TypeSource, TypeRequest, TypeApi, TypeCrash, TypeDispatch, TypeWorker,
     TypeSchedule DEF Next

\* Windows, tasks, calls and rows have their types; in particular no window
\* lies outside the times of the source, whatever fails or is requested.
THEOREM TypeCorrect == Spec => []TypeOK
BY TypeInit, TypeStep, PTL DEF Spec
-----------------------------------------------------------------------------
(***************************************************************************)
(* Nothing is lost behind a window.                                        *)
(***************************************************************************)

\* A step that changes the source only after g, and leaves what is reached up
\* to g in the dataset k as it is.
Keeps(k, g) ==
    \A x \in Items : src'[x] # 0 /\ src'[x] <= g =>
        /\ src'[x] = src[x]
        /\ idx[k][x] = src[x] \/ x \in skipped[k] =>
               idx'[k][x] = src'[x] \/ x \in skipped'[k]

LaterOnly(g) == \A x \in Items : src'[x] = src[x] \/ src'[x] = 0 \/ src'[x] > g

Calm(k, g) == overlap \subseteq overlap' /\ (k \notin overlap' => Keeps(k, g))

LEMMA WindowKept ==
    ASSUME TypeOK, TypeOK', NEW g \in Times, NEW k \in Kbs, Calm(k, g),
           NEW w \in Times, Window(k, w, g)
    PROVE  Window(k, w, g)'
<1>1. /\ \A x \in Items : src[x] \in Nat /\ src'[x] \in Nat
      /\ w \in Nat /\ g \in Nat
  BY DEF TypeOK, Times
<1>2. w <= g
  BY DEF Window
<1>3. CASE k \in overlap'
  BY <1>2, <1>3 DEF Window
<1>4. CASE k \notin overlap'
  <2>1. Reached(k, w) /\ Keeps(k, g)
    BY <1>4 DEF Window, Calm
  <2>2. ASSUME NEW x \in Items, src'[x] # 0, src'[x] <= w
        PROVE  idx'[k][x] = src'[x] \/ x \in skipped'[k]
    <3>1. src'[x] <= g
      BY <1>1, <1>2, <2>2
    <3> QED
      BY <2>1, <2>2, <3>1 DEF Reached, Keeps
  <2> QED
    BY <1>2, <2>2 DEF Window, Reached
<1> QED
  BY <1>3, <1>4

LEMMA RowsKept ==
    ASSUME TypeOK, TypeOK', NEW g \in Times, NEW k \in Kbs, Calm(k, g)
    PROVE  SoundRows(k, g) \subseteq SoundRows(k, g)'
<1> SUFFICES ASSUME NEW r \in SoundRows(k, g) PROVE r \in SoundRows(k, g)'
  OBVIOUS
<1>1. r \in Row /\ r.start \in Times /\ r.end \in Times
  BY DEF SoundRows, Row
<1>2. /\ Window(k, r.start, g) /\ r.end <= g
      /\ r.status = "done" => r.owner = Nobody /\ Window(k, r.end, g)
  BY DEF SoundRows
<1>3. Window(k, r.start, g)'
  BY <1>1, <1>2, WindowKept
<1>4. r.status = "done" => Window(k, r.end, g)'
  BY <1>1, <1>2, WindowKept
<1> QED
  BY <1>1, <1>2, <1>3, <1>4 DEF SoundRows

\* The rows that an action does not touch.
LEMMA LogsKept ==
    ASSUME TypeOK, TypeOK', NEW g \in Times, NEW k \in Kbs, Calm(k, g),
           logs[SyncOf(k)] \in Seq(SoundRows(k, g)),
           logs'[SyncOf(k)] = logs[SyncOf(k)]
    PROVE  logs'[SyncOf(k)] \in Seq(SoundRows(k, g)')
<1>1. SoundRows(k, g) \subseteq SoundRows(k, g)'
  BY RowsKept
<1> QED
  BY <1>1

LEMMA TaskType ==
    ASSUME NEW t \in Coroutine
    PROVE  /\ t.kind \in Kinds /\ t.kind[1] \in Kbs /\ t.next \in Times
           /\ t.kind = SyncOf(t.kind[1]) \/ t.kind[2] = "prune"
           /\ t.todo \in [Items -> Times]
           /\ \A x \in Items : t.todo[x] \in Nat
           /\ \A g \in Times : g \in Nat
BY DEF Coroutine, Kinds, Times, SyncOf

\* A task that an action does not touch.
LEMMA TaskKept ==
    ASSUME TypeOK, TypeOK', NEW g \in Times, NEW i \in Slots, NEW t \in Coroutine,
           TaskOK(t, i, g), LaterOnly(g),
           Calm(t.kind[1], g) \/ t.pc = "none" \/ t.kind[2] = "prune",
           Holds(t.pc) => loop' = loop
    PROVE  TaskOK(t, i, g)'
<1> DEFINE k == t.kind[1]
<1>a. /\ t.kind \in Kinds /\ k \in Kbs /\ t.next \in Times
      /\ t.todo \in [Items -> Times] /\ g \in Nat
      /\ \A x \in Items : t.todo[x] \in Nat
  BY TaskType
<1>b. \A x \in Items : src[x] \in Nat /\ src'[x] \in Nat
  BY DEF TypeOK, Times
<1>0. /\ t.kind \in Kinds /\ k \in Kbs /\ t.next \in Times
      /\ t.todo \in [Items -> Times] /\ g \in Nat
      /\ \A x \in Items : src[x] \in Nat /\ src'[x] \in Nat /\ t.todo[x] \in Nat
  BY <1>a, <1>b
<1>1. Holds(t.pc) => loop' = i
  BY DEF TaskOK
<1>2. t.pc \in {"prune", "done"} => t.kind[2] = "prune"
  BY DEF TaskOK
<1>3. t.pc \in {"start", "gen"} /\ t.kind[2] = "sync" => Window(k, t.next, g)'
  <2> SUFFICES ASSUME t.pc \in {"start", "gen"}, t.kind[2] = "sync"
               PROVE  Window(k, t.next, g)'
    OBVIOUS
  <2>1. Window(k, t.next, g) /\ Calm(k, g)
    BY DEF TaskOK
  <2> QED
    BY <1>0, <2>1, WindowKept
<1>4. t.pc = "sync" =>
        /\ t.kind[2] = "sync" /\ t.next <= g
        /\ \A x \in Items : t.todo[x] <= g
        /\ \A x \in Items : t.todo[x] # 0 =>
               src'[x] = 0 \/ src'[x] = t.todo[x] \/ src'[x] > g
        /\ k \notin overlap' =>
             \A x \in Items : src'[x] # 0 /\ src'[x] <= g =>
                 idx'[k][x] = src'[x] \/ x \in skipped'[k] \/ t.todo[x] = src'[x]
  <2> SUFFICES ASSUME t.pc = "sync"
               PROVE  /\ t.kind[2] = "sync" /\ t.next <= g
                      /\ \A x \in Items : t.todo[x] <= g
                      /\ \A x \in Items : t.todo[x] # 0 =>
                             src'[x] = 0 \/ src'[x] = t.todo[x] \/ src'[x] > g
                      /\ k \notin overlap' =>
                           \A x \in Items : src'[x] # 0 /\ src'[x] <= g =>
                               \/ idx'[k][x] = src'[x] \/ x \in skipped'[k]
                               \/ t.todo[x] = src'[x]
    OBVIOUS
  <2>1. /\ t.kind[2] = "sync" /\ t.next <= g /\ Calm(k, g)
        /\ \A x \in Items : t.todo[x] <= g
        /\ \A x \in Items : t.todo[x] # 0 =>
               src[x] = 0 \/ src[x] = t.todo[x] \/ src[x] > g
        /\ k \notin overlap =>
             \A x \in Items : src[x] # 0 /\ src[x] <= g =>
                 idx[k][x] = src[x] \/ x \in skipped[k] \/ t.todo[x] = src[x]
    BY DEF TaskOK
  <2>2. \A x \in Items : t.todo[x] # 0 =>
            src'[x] = 0 \/ src'[x] = t.todo[x] \/ src'[x] > g
    BY <2>1 DEF LaterOnly
  <2>3. ASSUME k \notin overlap', NEW x \in Items, src'[x] # 0, src'[x] <= g
        PROVE  idx'[k][x] = src'[x] \/ x \in skipped'[k] \/ t.todo[x] = src'[x]
    <3>1. k \notin overlap /\ Keeps(k, g)
      BY <2>1, <2>3 DEF Calm
    <3>2. src'[x] = src[x]
      BY <2>3, <3>1 DEF Keeps
    <3> QED
      BY <2>1, <2>3, <3>1, <3>2 DEF Keeps
  <2> QED
    BY <2>1, <2>2, <2>3
<1>5. t.pc = "prune" =>
        \A x \in Items : t.todo[x] = 0 => src'[x] = 0 \/ src'[x] > g
  BY <1>0 DEF TaskOK, LaterOnly
<1> QED
  BY <1>1, <1>2, <1>3, <1>4, <1>5 DEF TaskOK

LEMMA CallType ==
    ASSUME NEW c \in Call
    PROVE  /\ c.kind \in Kinds /\ c.kind[1] \in Kbs /\ c.start \in Times
           /\ c.kind = SyncOf(c.kind[1]) \/ c.kind[2] = "prune"
           /\ \A k : c.kind = SyncOf(k) => c.kind[1] = k /\ c.kind[2] = "sync"
BY DEF Call, Kinds, SyncOf

\* A call that an action does not touch.
LEMMA CallKept ==
    ASSUME TypeOK, TypeOK', NEW g \in Times, NEW c \in Call, CallOK(c, g),
           Calm(c.kind[1], g)
    PROVE  CallOK(c, g)'
<1>1. c.kind[1] \in Kbs /\ c.start \in Times
  BY CallType
<1>2. Window(c.kind[1], c.start, g) => Window(c.kind[1], c.start, g)'
  BY <1>1, WindowKept
<1> QED
  BY <1>2 DEF CallOK

\* What an action has to show: each row, task and call is as it was or sound.
LEMMA SoundAfter ==
    ASSUME TypeOK, TypeOK', NEW g \in Times, Sound(g),
           \A k \in Kbs : Calm(k, g), LaterOnly(g),
           \A k \in Kbs : \/ logs'[SyncOf(k)] = logs[SyncOf(k)]
                          \/ logs'[SyncOf(k)] \in Seq(SoundRows(k, g)'),
           \A i \in Slots :
               \/ TaskOK(work[i], i, g)'
               \/ work'[i] = work[i] /\ (Holds(work[i].pc) => loop' = loop),
           \A i \in Slots : CallerOK(i)',
           \A a \in Callers : calls'[a] = calls[a] \/ CallOK(calls[a], g)'
    PROVE  Sound(g)'
<1>1. ASSUME NEW k \in Kbs PROVE logs'[SyncOf(k)] \in Seq(SoundRows(k, g)')
  <2>1. logs[SyncOf(k)] \in Seq(SoundRows(k, g))
    BY DEF Sound
  <2> QED
    BY <2>1, LogsKept
<1>2. ASSUME NEW i \in Slots PROVE TaskOK(work[i], i, g)'
  <2>1. work[i] \in Coroutine /\ TaskOK(work[i], i, g)
    BY DEF Sound, TypeOK
  <2>2. CASE work'[i] = work[i] /\ (Holds(work[i].pc) => loop' = loop)
    <3>1. Calm(work[i].kind[1], g)
      BY <2>1, TaskType
    <3>2. \A t \in Coroutine :
            TaskOK(t, i, g) /\ Calm(t.kind[1], g) /\ (Holds(t.pc) => loop' = loop)
              => TaskOK(t, i, g)'
      BY TaskKept
    <3> QED
      BY <2>1, <2>2, <3>1, <3>2
  <2> QED
    BY <2>2
<1>3. ASSUME NEW a \in Callers PROVE CallOK(calls[a], g)'
  <2>1. calls[a] \in Call /\ CallOK(calls[a], g)
    BY DEF Sound, TypeOK
  <2>2. CASE calls'[a] = calls[a]
    <3>1. Calm(calls[a].kind[1], g)
      BY <2>1, CallType
    <3>2. \A c \in Call : CallOK(c, g) /\ Calm(c.kind[1], g) => CallOK(c, g)'
      BY CallKept
    <3> QED
      BY <2>1, <2>2, <3>1, <3>2
  <2> QED
    BY <2>2
<1> QED
  BY <1>1, <1>2, <1>3 DEF Sound

\* Steps that leave the source and the documents alone.
LEMMA CalmStill ==
    ASSUME UNCHANGED <<src, idx, skipped>>, overlap \subseteq overlap', NEW g
    PROVE  LaterOnly(g) /\ \A k \in Kbs : Calm(k, g)
BY DEF LaterOnly, Calm, Keeps

LEMMA StillSound ==
    ASSUME TypeOK, TypeOK', NEW g \in Times, Sound(g),
           \A k \in Kbs : Calm(k, g), LaterOnly(g), UNCHANGED <<logs, work, loop, calls>>
    PROVE  Sound(g)'
<1>1. \A i \in Slots : CallerOK(i)'
  BY DEF Sound, CallerOK
<1> QED
  BY <1>1, SoundAfter

\* The source changes: the item is gone, or later than every window.
LEMMA SoundChange ==
    ASSUME TypeOK, TypeOK', NEW g \in Times, g <= clock, Sound(g),
           NEW y \in Items, Change(y)
    PROVE  Sound(g)'
<1>1. \A x \in Items : src'[x] = src[x] \/ src'[x] = 0 \/ src'[x] > g
  <2>1. clock \in Nat /\ g \in Nat /\ src \in [Items -> Times]
    BY DEF TypeOK, Times
  <2>2. PICK t \in {0, clock + 1} : src' = [src EXCEPT ![y] = t]
    BY DEF Change
  <2>3. t = 0 \/ t > g
    BY <2>1
  <2>4. \A x \in Items : src'[x] = src[x] \/ src'[x] = t
    BY <2>1, <2>2
  <2> QED
    BY <2>3, <2>4
<1>2. \A x \in Items : src[x] \in Nat /\ src'[x] \in Nat
  BY DEF TypeOK, Times
<1>3. g \in Nat
  BY DEF Times
<1>4. UNCHANGED <<logs, work, loop, calls, idx, skipped, overlap>>
  BY DEF Change, history
<1>5. \A x \in Items : src'[x] # 0 /\ src'[x] <= g => src'[x] = src[x]
  BY <1>1, <1>2, <1>3
<1>6. LaterOnly(g) /\ \A k \in Kbs : Calm(k, g)
  BY <1>1, <1>4, <1>5 DEF LaterOnly, Calm, Keeps
<1> QED
  BY <1>4, <1>6, StillSound

\* A caller that goes on; a coroutine had the event loop and leaves it.
LEMMA ReturnSound ==
    ASSUME TypeOK, TypeOK', NEW g \in Times, Sound(g), NEW a \in Callers,
           calls[a].at # "none", Return(a)
    PROVE  /\ \A i \in Slots :
                \/ TaskOK(work[i], i, g)'
                \/ work'[i] = work[i] /\ (Holds(work[i].pc) => loop' = loop)
           /\ \A i \in Slots : CallerOK(i)'
           /\ \A b \in Callers : calls'[b] = calls[b] \/ CallOK(calls[b], g)'
<1>0. Api \notin Slots /\ Nobody \notin Slots
  BY ConnectorSyncAssumption DEF Api, Nobody
<1>1. /\ calls' = [calls EXCEPT ![a] = NoCall] /\ calls \in [Callers -> Call]
      /\ work \in [Slots -> Coroutine]
  BY DEF Return, ToCall, TypeOK
<1>2. calls'[a] = NoCall /\ \A b \in Callers : b # a => calls'[b] = calls[b]
  BY <1>1
<1>3. \A b \in Callers : calls'[b] = calls[b] \/ CallOK(calls[b], g)'
  BY <1>2 DEF CallOK, NoCall
<1>4. CASE a = Api
  <2>1. UNCHANGED <<work, loop>> /\ \A i \in Slots : i \in Callers /\ i # a
    BY <1>0, <1>4 DEF Return, Callers
  <2>2. \A i \in Slots : CallerOK(i)'
    BY <1>2, <2>1 DEF Sound, CallerOK
  <2> QED
    BY <1>3, <2>1, <2>2
<1>5. CASE a # Api
  <2>1. /\ a \in Slots /\ work' = [work EXCEPT ![a] = NoTask] /\ loop' = Nobody
        /\ Slots \subseteq Callers
    BY <1>5 DEF Return, Callers
  <2>2. work[a].pc = "sched" /\ loop = a
    BY <2>1 DEF Sound, CallerOK, TaskOK, Holds
  <2>3. work'[a] = NoTask /\ \A i \in Slots : i # a => work'[i] = work[i]
    BY <1>1, <2>1
  <2>4. \A i \in Slots : i # a => ~Holds(work[i].pc)
    BY <2>2 DEF Sound, TaskOK
  <2>5. TaskOK(work[a], a, g)'
    BY <2>3 DEF TaskOK, NoTask, Holds
  <2>6. \A i \in Slots : CallerOK(i)'
    BY <1>2, <2>1, <2>3 DEF Sound, CallerOK, NoCall
  <2> QED
    BY <1>3, <2>3, <2>4, <2>5, <2>6
<1> QED
  BY <1>4, <1>5

LEMMA SoundSchedule ==
    ASSUME TypeOK, TypeOK', NEW g \in Times, Sound(g), NEW a \in Callers,
           Schedule(a) \/ SchedFails(a)
    PROVE  Sound(g)'
<1> DEFINE c == calls[a]
<1>0. UNCHANGED <<src, idx, skipped, overlap>> /\ c.at # "none"
  BY DEF Schedule, SchedRefused, SchedCheck, SchedSave, SchedFails, source, history
<1>1. LaterOnly(g) /\ \A k \in Kbs : Calm(k, g)
  BY <1>0, CalmStill
<1>2. /\ c \in Call /\ CallOK(c, g) /\ c.kind \in Kinds
      /\ \A k \in Kbs : SyncOf(k) \in Kinds
  BY CallType DEF TypeOK, Sound, SyncOf, Kinds
<1>3. ASSUME NEW k \in Kbs, c.kind = SyncOf(k)
      PROVE  Window(k, c.start, g) /\ c.start \in Times
  BY <1>0, <1>2, <1>3, CallType DEF CallOK
<1>4. ASSUME NEW k \in Kbs
      PROVE  /\ logs[SyncOf(k)] \in Seq(SoundRows(k, g))
             /\ SoundRows(k, g) \subseteq Row /\ SyncOf(k) \in Kinds
             /\ SoundRows(k, g) \subseteq SoundRows(k, g)'
  BY <1>1, <1>2, RowsKept DEF Sound, SoundRows
<1>5. CASE SchedRefused(a)
  BY <1>0, <1>1, <1>5, ReturnSound, SoundAfter DEF SchedRefused
<1>6. CASE SchedCheck(a)
  <2>1. /\ calls' = [calls EXCEPT ![a] = [c EXCEPT !.at = "save"]] /\ c.at = "check"
        /\ UNCHANGED <<logs, work, loop>>
    BY <1>6 DEF SchedCheck, ToCall
  <2>2. calls \in [Callers -> Call]
    BY DEF TypeOK
  <2>3. [c EXCEPT !.at = "save"].kind = c.kind /\ [c EXCEPT !.at = "save"].start = c.start
        /\ [c EXCEPT !.at = "save"] \in Call
    BY <1>2 DEF Call
  <2>4. CallOK([c EXCEPT !.at = "save"], g)
    BY <1>0, <1>2, <2>3 DEF CallOK
  <2> DEFINE d == [c EXCEPT !.at = "save"]
  <2> HIDE DEF d
  <2>5. CallOK(calls[a], g)'
    <3>1. \A e \in Call : CallOK(e, g) /\ Calm(e.kind[1], g) => CallOK(e, g)'
      BY CallKept
    <3>2. d \in Call /\ CallOK(d, g) /\ Calm(d.kind[1], g) /\ calls'[a] = d
      BY <1>1, <2>1, <2>2, <2>3, <2>4, CallType DEF d
    <3> QED
      BY <3>1, <3>2
  <2>6. \A b \in Callers : calls'[b] = calls[b] \/ CallOK(calls[b], g)'
    BY <2>1, <2>2, <2>5
  <2>7. \A i \in Slots : CallerOK(i)'
    <3> SUFFICES ASSUME NEW i \in Slots PROVE CallerOK(i)'
      OBVIOUS
    <3>1. CallerOK(i) /\ i \in Callers
      BY DEF Sound, Callers
    <3>2. calls'[i].kind = calls[i].kind /\ (calls'[i].at # "none" => calls[i].at # "none")
      BY <1>0, <2>1, <2>2, <2>3, <3>1
    <3> QED
      BY <2>1, <3>1, <3>2 DEF CallerOK
  <2> QED
    BY <1>1, <2>1, <2>6, <2>7, SoundAfter
<1>7. CASE SchedSave(a)
  <2>1. ASSUME NEW k \in Kbs PROVE logs'[SyncOf(k)] \in Seq(SoundRows(k, g)')
    <3>1. ASSUME c.kind = SyncOf(k) PROVE NewRow(c) \in SoundRows(k, g)
      <4>1. NewRow(c) \in Row
        BY <1>2, Defaults DEF NewRow, Row, Statuses, Call
      <4>2. Window(k, c.start, g) /\ 0 <= g
        BY <1>3, <3>1 DEF Times
      <4> QED
        BY <4>1, <4>2 DEF SoundRows, NewRow
    <3>2. logs'[SyncOf(k)] \in Seq(SoundRows(k, g))
      BY <1>4, <1>7, <3>1, SchedSaveSeq
    <3> QED
      BY <1>4, <3>2
  <2> QED
    BY <1>0, <1>1, <1>7, <2>1, ReturnSound, SoundAfter DEF SchedSave
<1>8. CASE SchedFails(a)
  <2>1. ASSUME NEW k \in Kbs PROVE logs'[SyncOf(k)] \in Seq(SoundRows(k, g)')
    <3>1. ASSUME c.kind = SyncOf(k), NEW r \in SoundRows(k, g)
          PROVE  AgainRow(c.start)[r] \in SoundRows(k, g)
      <4> DEFINE s == [r EXCEPT !.status = "schedule", !.start = c.start]
      <4>1. Window(k, c.start, g) /\ c.start \in Times /\ r \in Row /\ r.end <= g
        BY <1>3, <3>1 DEF SoundRows
      <4>2. s \in Row /\ s.start = c.start /\ s.end = r.end /\ s.status = "schedule"
        BY <4>1 DEF Row, Statuses
      <4>3. AgainRow(c.start)[r] = s
        BY <4>1 DEF AgainRow
      <4> HIDE DEF s
      <4> QED
        BY <4>1, <4>2, <4>3 DEF SoundRows
    <3>2. logs'[SyncOf(k)] \in Seq(SoundRows(k, g))
      BY <1>4, <1>8, <3>1, SchedFailsSeq
    <3> QED
      BY <1>4, <3>2
  <2> QED
    BY <1>0, <1>1, <1>8, <2>1, ReturnSound, SoundAfter DEF SchedFails
<1> QED
  BY <1>5, <1>6, <1>7, <1>8 DEF Schedule

\* The requests, except for the deletion of the documents.
LEMMA SoundApi ==
    ASSUME TypeOK, TypeOK', NEW g \in Times, Sound(g), NEW k \in Kbs,
           CancelRows(k) \/ ResumeSync(k) \/ ScheduleNew(k) \/ Forget(k)
    PROVE  Sound(g)'
<1>0. /\ UNCHANGED <<src, idx, skipped, work, loop>> /\ overlap \subseteq overlap'
      /\ calls[Api].at = "none"
  BY DEF CancelRows, ResumeSync, ScheduleNew, Forget, source, history, Does
<1>1. LaterOnly(g) /\ \A l \in Kbs : Calm(l, g)
  BY <1>0, CalmStill
<1>2. Api \notin Slots /\ Api \in Callers /\ Slots \subseteq Callers
      /\ calls \in [Callers -> Call]
  BY ConnectorSyncAssumption DEF Api, Callers, TypeOK
<1>3. ASSUME NEW l \in Kbs
      PROVE  /\ logs[SyncOf(l)] \in Seq(SoundRows(l, g))
             /\ SoundRows(l, g) \subseteq Row /\ SyncOf(l) \in Kinds
             /\ SoundRows(l, g) \subseteq SoundRows(l, g)'
  BY <1>1, RowsKept DEF Sound, SoundRows, SyncOf, Kinds
<1>4. CASE calls' = calls
  <2>1. \A i \in Slots : CallerOK(i)'
    BY <1>0, <1>4 DEF Sound, CallerOK
  <2>2. ASSUME NEW l \in Kbs, CancelRows(k)
        PROVE  \/ logs'[SyncOf(l)] = logs[SyncOf(l)]
               \/ logs'[SyncOf(l)] \in Seq(SoundRows(l, g)')
    <3> DEFINE q == logs[SyncOf(l)]
    <3>1. q \in Seq(SoundRows(l, g)) /\ SyncOf(l)[1] = l
      BY <1>3 DEF SyncOf
    <3>2. ASSUME NEW r \in SoundRows(l, g) PROVE CancelledRow[r] \in SoundRows(l, g)
      <4> DEFINE s == [r EXCEPT !.status = "cancel"]
      <4>1. r \in Row /\ Window(l, r.start, g) /\ r.end <= g
        BY DEF SoundRows
      <4>2. s \in Row /\ s.start = r.start /\ s.end = r.end /\ s.status = "cancel"
        BY <4>1 DEF Row, Statuses
      <4>3. CancelledRow[r] = s
        BY <4>1 DEF CancelledRow
      <4> HIDE DEF s
      <4> QED
        BY <4>1, <4>2, <4>3 DEF SoundRows
    <3>3. \A n \in DOMAIN q : q[n] \in SoundRows(l, g)
      BY <3>1
    <3> HIDE DEF q
    <3>4. Updated(q, Live(q), CancelledRow) \in Seq(SoundRows(l, g))
      BY <1>3, <3>1, <3>2, <3>3, RowFunctions, UpdatedSeq
    <3>5. logs'[SyncOf(l)] = Updated(q, Live(q), CancelledRow) \/ logs'[SyncOf(l)] = q
      BY <1>3, <2>2, CancelRowsRows DEF q
    <3> QED
      BY <1>3, <3>4, <3>5 DEF q
  <2>3. ASSUME NEW l \in Kbs, Forget(k)
        PROVE  \/ logs'[SyncOf(l)] = logs[SyncOf(l)]
               \/ logs'[SyncOf(l)] \in Seq(SoundRows(l, g)')
    <3>1. logs'[SyncOf(l)] = <<>> \/ logs'[SyncOf(l)] = logs[SyncOf(l)]
      BY <1>3, <2>3 DEF Forget
    <3> QED
      BY <3>1, EmptyType
  <2>4. CASE CancelRows(k) \/ Forget(k)
    BY <1>0, <1>1, <1>4, <2>1, <2>2, <2>3, <2>4, SoundAfter
  <2>5. CASE ResumeSync(k) \/ ScheduleNew(k)
    BY <1>0, <1>1, <1>4, <2>1, <2>5, SoundAfter DEF ResumeSync, ScheduleNew
  <2> QED
    BY <2>4, <2>5
<1>5. ASSUME NEW c \in Call, calls' = [calls EXCEPT ![Api] = c], CallOK(c, g),
             UNCHANGED logs
      PROVE  Sound(g)'
  <2>1. calls'[Api] = c /\ \A b \in Callers : b # Api => calls'[b] = calls[b]
    BY <1>2, <1>5
  <2>2. CallOK(calls[Api], g)'
    <3>1. \A e \in Call : CallOK(e, g) /\ Calm(e.kind[1], g) => CallOK(e, g)'
      BY CallKept
    <3>2. Calm(c.kind[1], g)
      BY <1>1, CallType
    <3> QED
      BY <1>5, <2>1, <3>1, <3>2
  <2>3. \A i \in Slots : CallerOK(i)'
    BY <1>0, <1>2, <2>1 DEF Sound, CallerOK
  <2> QED
    BY <1>0, <1>1, <1>5, <2>1, <2>2, <2>3, SoundAfter
<1>6. CASE ResumeSync(k)
  <2> DEFINE q == logs[<<k, "sync">>]
             window == IF q # <<>> /\ q[Len(q)].status = "done" THEN q[Len(q)].end ELSE 0
             c == [at |-> "check", kind |-> <<k, "sync">>, start |-> window,
                   reindex |-> FALSE]
  <2>1. calls' = [calls EXCEPT ![Api] = c] /\ UNCHANGED logs
    BY <1>6 DEF ResumeSync, ToCall
  <2>2. window \in Times /\ Window(k, window, g)
    <3>1. q \in Seq(SoundRows(k, g))
      BY <1>3 DEF SyncOf
    <3>2. q # <<>> => q[Len(q)] \in SoundRows(k, g)
      BY <3>1
    <3> DEFINE r == q[Len(q)]
    <3> HIDE DEF q
    <3>3. q # <<>> => /\ r.end \in Times
                      /\ r.status = "done" => Window(k, r.end, g)
      BY <3>2 DEF SoundRows, Row
    <3>4. Window(k, 0, g)
      BY DEF Window, Reached, Times, TypeOK
    <3> QED
      BY <3>3, <3>4, Defaults
  <2> HIDE DEF window
  <2>3. c \in Call
    BY <2>2 DEF Call, Kinds
  <2>4. CallOK(c, g)
    BY <2>2 DEF CallOK
  <2> QED
    BY <1>5, <2>1, <2>3, <2>4
<1>7. CASE ScheduleNew(k)
  <2>1. PICK op \in {"reindex", "prune"} :
          ToCall(Api, [at |-> "check", start |-> 0, reindex |-> op = "reindex",
                       kind |-> <<k, IF op = "prune" THEN "prune" ELSE "sync">>])
    BY <1>7 DEF ScheduleNew
  <2> DEFINE c == [at |-> "check", start |-> 0, reindex |-> op = "reindex",
                   kind |-> <<k, IF op = "prune" THEN "prune" ELSE "sync">>]
  <2>2. calls' = [calls EXCEPT ![Api] = c] /\ UNCHANGED logs
    BY <1>7, <2>1 DEF ScheduleNew, ToCall
  <2>3. c \in Call
    <3>1. /\ <<k, IF op = "prune" THEN "prune" ELSE "sync">> \in Kinds
          /\ (op = "reindex") \in BOOLEAN
      BY DEF Kinds
    <3> QED
      BY <3>1, Defaults DEF Call
  <2>4. CallOK(c, g)
    <3>1. Window(k, 0, g)
      BY DEF Window, Reached, Times, TypeOK
    <3> QED
      BY <3>1 DEF CallOK
  <2> QED
    BY <1>5, <2>2, <2>3, <2>4
<1>8. CASE CancelRows(k) \/ Forget(k)
  BY <1>4, <1>8 DEF CancelRows, Forget
<1> QED
  BY <1>6, <1>7, <1>8

\* The documents of a dataset are deleted when nothing carries a window of it.
LEMMA SoundDelete ==
    ASSUME TypeOK, TypeOK', NEW g \in Times, Sound(g), NEW k \in Kbs, Delete(k),
           k \in overlap \/ Quiet(k)
    PROVE  Sound(g)'
<1>0. /\ UNCHANGED <<src, skipped, overlap, logs, work, loop, calls>>
      /\ idx' = [idx EXCEPT ![k] = [x \in Items |-> 0]]
  BY DEF Delete, source, history
<1>1. LaterOnly(g) /\ \A l \in Kbs : l # k => Calm(l, g)
  BY <1>0 DEF LaterOnly, Calm, Keeps, TypeOK
<1>2. k \in overlap => Calm(k, g)
  BY <1>0 DEF Calm
<1>3. CASE k \in overlap
  BY <1>0, <1>1, <1>2, <1>3, StillSound
<1>4. CASE Quiet(k)
  <2>1. ASSUME NEW l \in Kbs PROVE logs'[SyncOf(l)] \in Seq(SoundRows(l, g)')
    <3>1. CASE l = k
      BY <1>0, <1>4, <3>1, EmptyType DEF Quiet
    <3>2. CASE l # k
      BY <1>0, <1>1, <3>2, LogsKept DEF Sound
    <3> QED
      BY <3>1, <3>2
  <2>2. ASSUME NEW i \in Slots PROVE TaskOK(work[i], i, g)'
    <3>1. work[i] \in Coroutine /\ TaskOK(work[i], i, g)
      BY DEF Sound, TypeOK
    <3>2. \/ Calm(work[i].kind[1], g) \/ work[i].pc = "none"
          \/ work[i].kind[2] = "prune"
      BY <1>1, <1>4, <3>1, TaskType DEF Quiet, Running
    <3>3. \A t \in Coroutine :
            /\ TaskOK(t, i, g)
            /\ Calm(t.kind[1], g) \/ t.pc = "none" \/ t.kind[2] = "prune"
            => TaskOK(t, i, g)'
      BY <1>0, <1>1, TaskKept
    <3> QED
      BY <1>0, <3>1, <3>2, <3>3
  <2>3. ASSUME NEW a \in Callers PROVE CallOK(calls[a], g)'
    <3>1. calls[a] \in Call /\ CallOK(calls[a], g)
      BY DEF Sound, TypeOK
    <3>2. \A c \in Call : CallOK(c, g) /\ Calm(c.kind[1], g) => CallOK(c, g)'
      BY CallKept
    <3>3. CASE calls[a].kind[1] # k
      BY <1>0, <1>1, <3>1, <3>2, <3>3, CallType
    <3>4. CASE calls[a].kind[1] = k /\ (calls[a].at = "none" \/ calls[a].kind[2] = "prune")
      BY <1>0, <3>4 DEF CallOK
    <3>5. CASE calls[a].kind = SyncOf(k) /\ calls[a].at # "none"
      <4>1. a # Api
        BY <1>4, <3>5 DEF Quiet
      <4>2. a \in Slots
        BY <4>1 DEF Callers
      <4>3. work[a].pc = "sched" /\ work[a].kind = SyncOf(k)
        BY <3>5, <4>2 DEF Sound, CallerOK
      <4> QED
        BY <1>4, <4>2, <4>3 DEF Quiet, Running
    <3> QED
      BY <3>1, <3>3, <3>4, <3>5, CallType
  <2>4. \A i \in Slots : CallerOK(i)'
    BY <1>0 DEF Sound, CallerOK
  <2> QED
    BY <2>1, <2>2, <2>3, <2>4 DEF Sound
<1> QED
  BY <1>3, <1>4

LEMMA SoundDispatch ==
    ASSUME TypeOK, TypeOK', NEW g \in Times, Sound(g), NEW D, D \subseteq Due, Dispatch(D)
    PROVE  Sound(g)'
<1>0. /\ UNCHANGED <<src, idx, skipped, overlap, loop, calls>>
      /\ \A i \in Slots : work[i].pc = "none"
  BY DEF Dispatch, source, history
<1>1. LaterOnly(g) /\ \A k \in Kbs : Calm(k, g)
  BY <1>0, CalmStill
<1>2. ASSUME NEW k \in Kbs
      PROVE  /\ logs[SyncOf(k)] \in Seq(SoundRows(k, g))
             /\ SoundRows(k, g) \subseteq Row /\ SyncOf(k) \in Kinds
             /\ SoundRows(k, g) \subseteq SoundRows(k, g)'
  BY <1>1, RowsKept DEF Sound, SoundRows, SyncOf, Kinds
<1>3. ASSUME NEW k \in Kbs PROVE logs'[SyncOf(k)] \in Seq(SoundRows(k, g)')
  <2>1. ASSUME NEW r \in SoundRows(k, g), NEW j \in Slots, r.status = "schedule"
        PROVE  [r EXCEPT !.owner = j] \in SoundRows(k, g)
    <3> DEFINE s == [r EXCEPT !.owner = j]
    <3>1. r \in Row /\ Window(k, r.start, g) /\ r.end <= g
      BY DEF SoundRows
    <3>2. s \in Row /\ s.start = r.start /\ s.end = r.end /\ s.status = "schedule"
      BY <2>1, <3>1 DEF Row
    <3> HIDE DEF s
    <3>3. s \in SoundRows(k, g)
      BY <3>1, <3>2 DEF SoundRows
    <3> QED
      BY <3>3 DEF s
  <2>2. logs'[SyncOf(k)] \in Seq(SoundRows(k, g))
    BY <1>2, <2>1, DispatchSeq
  <2> QED
    BY <1>2, <2>2
<1>4. ASSUME NEW i \in Slots PROVE TaskOK(work[i], i, g)'
  <2>1. CASE work'[i] = NoTask
    BY <2>1 DEF TaskOK, NoTask, Holds
  <2>2. ASSUME NEW d \in D, work'[i] = NewTask(d)
        PROVE  TaskOK(work[i], i, g)'
    <3>1. /\ d[1] \in Kinds /\ d[2] \in DOMAIN logs[d[1]] /\ d \in Due
          /\ Taken(d).status = "schedule" /\ Taken(d) \in Row
      BY TakenRow
    <3>2. NewTask(d) \in Coroutine
      BY <3>1, Defaults DEF NewTask, Coroutine, Row
    <3> DEFINE t == NewTask(d)
               k == d[1][1]
    <3>3. t.pc = "start" /\ t.kind = d[1] /\ t.next = Taken(d).start
      BY Defaults DEF NewTask, NoTask
    <3>4. ASSUME d[1][2] = "sync" PROVE Window(k, t.next, g)
      <4>1. k \in Kbs /\ d[1] = SyncOf(k)
        BY <3>1, <3>4 DEF Kinds, SyncOf
      <4>2. Taken(d) \in SoundRows(k, g)
        BY <1>2, <3>1, <4>1 DEF Taken
      <4> QED
        BY <3>3, <4>2 DEF SoundRows
    <3>5. TaskOK(t, i, g)
      BY <3>3, <3>4 DEF TaskOK, Holds
    <3>6. Calm(t.kind[1], g)
      BY <1>1, <3>2, TaskType
    <3>7. \A u \in Coroutine : TaskOK(u, i, g) /\ Calm(u.kind[1], g) => TaskOK(u, i, g)'
      BY <1>0, <1>1, TaskKept
    <3> HIDE DEF t
    <3>8. t \in Coroutine /\ work'[i] = t
      BY <2>2, <3>2 DEF t
    <3> QED
      BY <3>5, <3>6, <3>7, <3>8
  <2> QED
    BY <2>1, <2>2, DispatchWork
<1>5. \A i \in Slots : CallerOK(i)'
  BY <1>0 DEF Sound, CallerOK
<1> QED
  BY <1>0, <1>1, <1>3, <1>4, <1>5, SoundAfter

LEMMA SoundCrash ==
    ASSUME TypeOK, TypeOK', NEW g \in Times, Sound(g), Crash
    PROVE  Sound(g)'
<1>0. /\ UNCHANGED <<src, idx, skipped, overlap>>
      /\ \A i \in Slots : work'[i] = NoTask
      /\ \A i \in Slots : calls'[i] = NoCall
      /\ \A a \in Callers : calls'[a] = calls[a] \/ calls'[a] = NoCall
  BY ConnectorSyncAssumption DEF Crash, source, history, Callers, Api
<1>1. LaterOnly(g) /\ \A k \in Kbs : Calm(k, g)
  BY <1>0, CalmStill
<1>2. ASSUME NEW k \in Kbs
      PROVE  /\ logs[SyncOf(k)] \in Seq(SoundRows(k, g))
             /\ SoundRows(k, g) \subseteq Row /\ SyncOf(k) \in Kinds
             /\ SoundRows(k, g) \subseteq SoundRows(k, g)'
  BY <1>1, RowsKept DEF Sound, SoundRows, SyncOf, Kinds
<1>3. ASSUME NEW k \in Kbs PROVE logs'[SyncOf(k)] \in Seq(SoundRows(k, g)')
  <2>1. ASSUME NEW r \in SoundRows(k, g)
        PROVE  [r EXCEPT !.owner = Nobody] \in SoundRows(k, g)
    <3> DEFINE s == [r EXCEPT !.owner = Nobody]
    <3>1. /\ r \in Row /\ Window(k, r.start, g) /\ r.end <= g
          /\ r.status = "done" => Window(k, r.end, g)
      BY DEF SoundRows
    <3>2. /\ s \in Row /\ s.start = r.start /\ s.end = r.end
          /\ s.status = r.status /\ s.owner = Nobody
      BY <3>1 DEF Row
    <3> HIDE DEF s
    <3>3. s \in SoundRows(k, g)
      BY <3>1, <3>2 DEF SoundRows
    <3> QED
      BY <3>3 DEF s
  <2>2. logs'[SyncOf(k)] \in Seq(SoundRows(k, g))
    BY <1>2, <2>1, CrashSeq
  <2> QED
    BY <1>2, <2>2
<1>4. \A i \in Slots : TaskOK(work[i], i, g)'
  BY <1>0 DEF TaskOK, NoTask, Holds
<1>5. \A i \in Slots : CallerOK(i)'
  BY <1>0 DEF CallerOK, NoCall
<1>6. \A a \in Callers : calls'[a] = calls[a] \/ CallOK(calls[a], g)'
  BY <1>0 DEF CallOK, NoCall
<1> QED
  BY <1>1, <1>3, <1>4, <1>5, <1>6, SoundAfter

\* One coroutine has the event loop, or none has.
LEMMA OthersWait ==
    ASSUME NEW g, Sound(g), NEW i \in Slots, loop = Nobody \/ loop = i
    PROVE  \A j \in Slots : j # i => ~Holds(work[j].pc)
BY ConnectorSyncAssumption DEF Sound, TaskOK, Nobody

\* A step of one coroutine that calls nothing.
LEMMA WorkerAfter ==
    ASSUME TypeOK, TypeOK', NEW g \in Times, Sound(g), NEW i \in Slots, NEW task,
           \A k \in Kbs : Calm(k, g), LaterOnly(g),
           \A k \in Kbs : \/ logs'[SyncOf(k)] = logs[SyncOf(k)]
                          \/ logs'[SyncOf(k)] \in Seq(SoundRows(k, g)'),
           work[i].pc # "sched", Become(i, task), TaskOK(work[i], i, g)',
           loop' = loop \/ loop = Nobody \/ loop = i, UNCHANGED calls
    PROVE  Sound(g)'
<1>1. \A j \in Slots : j # i => work'[j] = work[j] /\ (Holds(work[j].pc) => loop' = loop)
  BY OthersWait DEF Become, TypeOK
<1>2. ASSUME NEW j \in Slots PROVE CallerOK(j)'
  <2>1. CallerOK(j)
    BY DEF Sound
  <2> QED
    BY <1>1, <2>1 DEF CallerOK
<1> QED
  BY <1>1, <1>2, SoundAfter

LEMMA BecomeIs ==
    ASSUME TypeOK, NEW i \in Slots, NEW task, Become(i, task)
    PROVE  work'[i] = task
BY DEF TypeOK, Become

\* start: the window is in the task, the row starts anew if it is scheduled again.
LEMMA SoundStart ==
    ASSUME TypeOK, TypeOK', NEW g \in Times, Sound(g), NEW i \in Slots, Start(i)
    PROVE  Sound(g)'
<1> DEFINE t == work[i]
           u == [t EXCEPT !.pc = "gen"]
<1>0. /\ UNCHANGED <<src, idx, skipped, overlap, loop, calls>>
      /\ t.pc = "start" /\ Become(i, u)
  BY DEF Start, source, history, Goto
<1>1. LaterOnly(g) /\ \A k \in Kbs : Calm(k, g)
  BY <1>0, CalmStill
<1>2. t \in Coroutine /\ TaskOK(t, i, g)
  BY DEF Sound, TypeOK
<1>3. /\ u \in Coroutine /\ u.pc = "gen" /\ u.kind = t.kind /\ u.next = t.next
  BY <1>2 DEF Coroutine
<1>4. TaskOK(u, i, g)
  BY <1>0, <1>2, <1>3 DEF TaskOK, Holds
<1> HIDE DEF u
<1>5. TaskOK(work[i], i, g)'
  <2>1. \A v \in Coroutine : TaskOK(v, i, g) /\ Calm(v.kind[1], g) => TaskOK(v, i, g)'
    BY <1>0, <1>1, TaskKept
  <2>2. Calm(u.kind[1], g) /\ work'[i] = u
    BY <1>0, <1>1, <1>3, TaskType, BecomeIs
  <2> QED
    BY <1>3, <1>4, <2>1, <2>2
<1>6. ASSUME NEW k \in Kbs PROVE logs'[SyncOf(k)] \in Seq(SoundRows(k, g)')
  <2>1. /\ logs[SyncOf(k)] \in Seq(SoundRows(k, g))
        /\ SoundRows(k, g) \subseteq Row /\ SyncOf(k) \in Kinds
        /\ SoundRows(k, g) \subseteq SoundRows(k, g)'
    BY <1>1, RowsKept DEF Sound, SoundRows, SyncOf, Kinds
  <2>2. ASSUME NEW r \in SoundRows(k, g) PROVE StartedRow[r] \in SoundRows(k, g)
    <3> DEFINE s == [r EXCEPT !.status = "running", !.start = 0]
    <3>1. r \in Row /\ r.end <= g
      BY DEF SoundRows
    <3>2. s \in Row /\ s.start = 0 /\ s.end = r.end /\ s.status = "running"
      BY <3>1, Defaults DEF Row, Statuses
    <3>3. StartedRow[r] = s
      BY <3>1 DEF StartedRow
    <3>4. Window(k, 0, g)
      BY DEF Window, Reached, Times, TypeOK
    <3> HIDE DEF s
    <3> QED
      BY <3>1, <3>2, <3>3, <3>4 DEF SoundRows
  <2>3. logs'[SyncOf(k)] \in Seq(SoundRows(k, g))
    BY <2>1, <2>2, StartRows, RowFunctions, WroteSeq
  <2> QED
    BY <2>1, <2>3
<1> QED
  BY <1>0, <1>1, <1>5, <1>6, WorkerAfter

LEMMA SoundTaskFails ==
    ASSUME TypeOK, TypeOK', NEW g \in Times, Sound(g), NEW i \in Slots, TaskFails(i)
    PROVE  Sound(g)'
<1> DEFINE t == work[i]
<1>0. /\ UNCHANGED <<src, idx, skipped, overlap, calls>>
      /\ Become(i, NoTask) /\ t.pc # "sched"
      /\ t.pc = "sync" \/ loop = Nobody
  BY DEF TaskFails, source, history
<1>1. LaterOnly(g) /\ \A k \in Kbs : Calm(k, g)
  BY <1>0, CalmStill
<1>2. loop = Nobody \/ loop = i
  BY <1>0 DEF Sound, TaskOK, Holds
<1>3. TaskOK(work[i], i, g)'
  <2>1. work'[i] = NoTask
    BY <1>0, BecomeIs
  <2> QED
    BY <2>1 DEF TaskOK, NoTask, Holds
<1>4. ASSUME NEW k \in Kbs PROVE logs'[SyncOf(k)] \in Seq(SoundRows(k, g)')
  <2>1. /\ logs[SyncOf(k)] \in Seq(SoundRows(k, g))
        /\ SoundRows(k, g) \subseteq Row /\ SyncOf(k) \in Kinds
        /\ SoundRows(k, g) \subseteq SoundRows(k, g)'
    BY <1>1, RowsKept DEF Sound, SoundRows, SyncOf, Kinds
  <2>2. ASSUME NEW r \in SoundRows(k, g) PROVE FailedRow[r] \in SoundRows(k, g)
    <3> DEFINE s == [r EXCEPT !.status = "fail", !.owner = Nobody]
    <3>1. r \in Row /\ r.end <= g /\ Window(k, r.start, g)
      BY DEF SoundRows
    <3>2. s \in Row /\ s.start = r.start /\ s.end = r.end /\ s.status = "fail"
      BY <3>1 DEF Row, Statuses
    <3>3. FailedRow[r] = s
      BY <3>1 DEF FailedRow
    <3> HIDE DEF s
    <3> QED
      BY <3>1, <3>2, <3>3 DEF SoundRows
  <2>3. logs'[SyncOf(k)] \in Seq(SoundRows(k, g))
    BY <2>1, <2>2, TaskFailsRows, RowFunctions, WroteSeq
  <2> QED
    BY <2>1, <2>3
<1> QED
  BY <1>0, <1>1, <1>2, <1>3, <1>4, WorkerAfter

\* Between fetches all windows may be measured against the present.
LEMMA Raise ==
    ASSUME TypeOK, NEW g \in Times, NEW h \in Times, g <= h, Sound(g), loop = Nobody
    PROVE  Sound(h)
<1>0. g \in Nat /\ h \in Nat
  BY DEF Times
<1>1. ASSUME NEW k, NEW w \in Times, Window(k, w, g) PROVE Window(k, w, h)
  BY <1>0, <1>1 DEF Window, Times
<1>2. ASSUME NEW k \in Kbs PROVE logs[SyncOf(k)] \in Seq(SoundRows(k, h))
  <2>1. ASSUME NEW r \in SoundRows(k, g) PROVE r \in SoundRows(k, h)
    <3>1. /\ r \in Row /\ r.start \in Times /\ r.end \in Times /\ r.end <= g
          /\ Window(k, r.start, g)
          /\ r.status = "done" => r.owner = Nobody /\ Window(k, r.end, g)
      BY DEF SoundRows, Row
    <3>2. r.end <= h
      BY <1>0, <3>1 DEF Times
    <3> QED
      BY <1>1, <3>1, <3>2 DEF SoundRows
  <2>2. logs[SyncOf(k)] \in Seq(SoundRows(k, g))
    BY DEF Sound
  <2>3. SoundRows(k, g) \subseteq SoundRows(k, h)
    BY <2>1
  <2> QED
    BY <2>2, <2>3
<1>3. ASSUME NEW i \in Slots PROVE TaskOK(work[i], i, h) /\ CallerOK(i)
  <2>1. /\ TaskOK(work[i], i, g) /\ CallerOK(i) /\ work[i].next \in Times
        /\ loop # i
    BY ConnectorSyncAssumption DEF Sound, TypeOK, Coroutine, Nobody
  <2>2. ~Holds(work[i].pc)
    BY <2>1 DEF TaskOK
  <2>3. Window(work[i].kind[1], work[i].next, g) => Window(work[i].kind[1], work[i].next, h)
    BY <1>1, <2>1
  <2> QED
    BY <2>1, <2>2, <2>3 DEF TaskOK, Holds
<1>4. ASSUME NEW a \in Callers PROVE CallOK(calls[a], h)
  <2>1. CallOK(calls[a], g) /\ calls[a].start \in Times
    BY DEF Sound, TypeOK, Call
  <2> QED
    BY <1>1, <2>1 DEF CallOK
<1> QED
  BY <1>2, <1>3, <1>4 DEF Sound

\* _generate returns what lies after the window; what lies before it is reached.
LEMMA SoundGenerate ==
    ASSUME TypeOK, TypeOK', SourceOK, NEW g \in Times, g = clock, Sound(g),
           NEW i \in Slots, Generate(i)
    PROVE  Sound(g)'
<1> DEFINE t == work[i]
           k == t.kind[1]
<1>0. /\ UNCHANGED <<src, idx, skipped, overlap, calls, logs>>
      /\ t.pc = "gen" /\ t.kind[2] = "sync" /\ loop = Nobody /\ loop' = i
  BY DEF Generate, source, history
<1>1. LaterOnly(g) /\ \A l \in Kbs : Calm(l, g)
  BY <1>0, CalmStill
<1>2. PICK incl \in BOOLEAN :
        Become(i, [t EXCEPT !.pc = "sync", !.reindex = FALSE, !.todo = Fetched(t, incl)])
  BY DEF Generate
<1> DEFINE todo == Fetched(t, incl)
           u == [t EXCEPT !.pc = "sync", !.reindex = FALSE, !.todo = todo]
<1>3. /\ t \in Coroutine /\ t.next \in Nat /\ g \in Nat
      /\ Window(k, t.next, g)
      /\ \A x \in Items : src[x] \in Nat /\ src[x] <= g
  BY <1>0 DEF Sound, TypeOK, TaskOK, Coroutine, Times, SourceOK
<1>4. \A x \in Items : /\ todo[x] = src[x] \/ todo[x] = 0
                       /\ src[x] > t.next => todo[x] = src[x]
  BY DEF Fetched
<1> HIDE DEF todo
<1>5. u.pc = "sync" /\ u.kind = t.kind /\ u.next = t.next /\ u.todo = todo
  BY <1>3 DEF Coroutine
<1> HIDE DEF u
<1>6. t.next <= g /\ \A x \in Items : todo[x] <= g
  BY <1>3, <1>4 DEF Window
<1>7. ASSUME k \notin overlap, NEW x \in Items, src[x] # 0
      PROVE  idx[k][x] = src[x] \/ x \in skipped[k] \/ todo[x] = src[x]
  <2>1. CASE src[x] > t.next
    BY <1>4, <2>1
  <2>2. CASE src[x] <= t.next
    BY <1>3, <1>7, <2>2 DEF Window, Reached
  <2> QED
    BY <1>3, <2>1, <2>2
<1>8. TaskOK(work[i], i, g)'
  <2>1. work'[i] = u
    BY <1>2, BecomeIs DEF u, todo
  <2> QED
    BY <1>0, <1>4, <1>5, <1>6, <1>7, <2>1 DEF TaskOK, Holds
<1>9. Become(i, u)
  BY <1>2 DEF u, todo
<1> QED
  BY <1>0, <1>1, <1>8, <1>9, WorkerAfter

\* The snapshot of a prune task.
LEMMA SoundSnapshot ==
    ASSUME TypeOK, TypeOK', NEW g \in Times, Sound(g), NEW i \in Slots, Snapshot(i)
    PROVE  Sound(g)'
<1> DEFINE t == work[i]
<1>0. /\ UNCHANGED <<src, idx, skipped, overlap, calls, logs>>
      /\ t.pc = "gen" /\ t.kind[2] = "prune" /\ loop = Nobody /\ loop' = i
  BY DEF Snapshot, source, history
<1>1. LaterOnly(g) /\ \A l \in Kbs : Calm(l, g)
  BY <1>0, CalmStill
<1>2. t \in Coroutine
  BY DEF TypeOK
<1>3. \/ Become(i, [t EXCEPT !.pc = "prune", !.todo = src])
      \/ Become(i, [t EXCEPT !.pc = "done"])
  BY DEF Snapshot, Goto
<1>4. CASE Become(i, [t EXCEPT !.pc = "prune", !.todo = src])
  <2> DEFINE u == [t EXCEPT !.pc = "prune", !.todo = src]
  <2>1. u.pc = "prune" /\ u.kind = t.kind /\ u.todo = src
    BY <1>2 DEF Coroutine
  <2>2. work'[i] = u
    BY <1>4, BecomeIs
  <2> HIDE DEF u
  <2>3. TaskOK(work[i], i, g)'
    BY <1>0, <2>1, <2>2 DEF TaskOK, Holds
  <2> QED
    BY <1>0, <1>1, <1>4, <2>3, WorkerAfter
<1>5. CASE Become(i, [t EXCEPT !.pc = "done"])
  <2> DEFINE u == [t EXCEPT !.pc = "done"]
  <2>1. u.pc = "done" /\ u.kind = t.kind
    BY <1>2 DEF Coroutine
  <2>2. work'[i] = u
    BY <1>5, BecomeIs
  <2> HIDE DEF u
  <2>3. TaskOK(work[i], i, g)'
    BY <1>0, <2>1, <2>2 DEF TaskOK, Holds
  <2> QED
    BY <1>0, <1>1, <1>5, <2>3, WorkerAfter
<1> QED
  BY <1>3, <1>4, <1>5

\* Only documents of items that are gone, or came back after g, are removed.
LEMMA SoundCleanup ==
    ASSUME TypeOK, TypeOK', NEW g \in Times, Sound(g), NEW i \in Slots, Cleanup(i)
    PROVE  Sound(g)'
<1> DEFINE t == work[i]
           k == t.kind[1]
<1>0. /\ UNCHANGED <<src, skipped, overlap, calls, logs, loop>>
      /\ t.pc = "prune" /\ Become(i, [t EXCEPT !.pc = "done"])
  BY DEF Cleanup, source, history, Goto
<1>2. /\ t \in Coroutine /\ k \in Kbs /\ TaskOK(t, i, g)
      /\ \A x \in Items : src[x] \in Nat /\ g \in Nat
  BY TaskType DEF TypeOK, Sound, Times
<1>3. /\ t.kind[2] = "prune" /\ loop = i
      /\ \A x \in Items : t.todo[x] = 0 => src[x] = 0 \/ src[x] > g
  BY <1>0, <1>2 DEF TaskOK, Holds
<1>4. PICK S \in SUBSET {x \in Items : idx[k][x] # 0 /\ t.todo[x] = 0 /\ k \in linked} :
        idx' = [idx EXCEPT ![k] = [x \in Items |-> IF x \in S THEN 0 ELSE @[x]]]
  BY DEF Cleanup
<1>5. ASSUME NEW l \in Kbs, NEW x \in Items, src[x] # 0, src[x] <= g
      PROVE  idx'[l][x] = idx[l][x]
  <2>1. x \notin S
    BY <1>2, <1>3, <1>5
  <2> QED
    BY <1>2, <1>4, <2>1 DEF TypeOK
<1>6. LaterOnly(g) /\ \A l \in Kbs : Calm(l, g)
  BY <1>0, <1>5 DEF LaterOnly, Calm, Keeps
<1>7. TaskOK(work[i], i, g)'
  <2> DEFINE u == [t EXCEPT !.pc = "done"]
  <2>1. u.pc = "done" /\ u.kind = t.kind
    BY <1>2 DEF Coroutine
  <2>2. work'[i] = u
    BY <1>0, BecomeIs
  <2> HIDE DEF u
  <2> QED
    BY <1>0, <1>3, <2>1, <2>2 DEF TaskOK, Holds
<1> QED
  BY <1>0, <1>6, <1>7, WorkerAfter

\* A batch: what is stored is what the source has, or had when it was fetched.
LEMMA SoundStore ==
    ASSUME TypeOK, TypeOK', NEW g \in Times, Sound(g), NEW i \in Slots,
           NEW B \in SUBSET Items, NEW S \in SUBSET B, NEW booked \in BOOLEAN,
           Store(i, B, S, booked)
    PROVE  Sound(g)'
<1> DEFINE t == work[i]
           k == t.kind[1]
           last == LastTime(B, t.todo)
           todo == [x \in Items |-> IF x \in B THEN 0 ELSE t.todo[x]]
           u == [t EXCEPT !.next = Larger(@, last), !.todo = todo]
<1>0. /\ UNCHANGED <<src, overlap, calls, loop>> /\ t.pc = "sync"
      /\ B # {} /\ \A x \in B : t.todo[x] # 0
      /\ idx' = [idx EXCEPT ![k] = [x \in Items |-> IF x \in S THEN t.todo[x] ELSE @[x]]]
      /\ skipped' = [skipped EXCEPT ![k] = (@ \cup B) \ S]
      /\ Become(i, u)
  BY DEF Store, source
<1>1. /\ t \in Coroutine /\ k \in Kbs /\ TaskOK(t, i, g) /\ g \in Nat
      /\ t.todo \in [Items -> Times] /\ t.next \in Nat
      /\ \A x \in Items : src[x] \in Nat
  BY TaskType DEF TypeOK, Sound, Times
<1>2. /\ loop = i /\ t.kind[2] = "sync" /\ t.next <= g
      /\ \A x \in Items : t.todo[x] <= g
      /\ \A x \in Items : t.todo[x] # 0 =>
             src[x] = 0 \/ src[x] = t.todo[x] \/ src[x] > g
      /\ k \notin overlap =>
           \A x \in Items : src[x] # 0 /\ src[x] <= g =>
               idx[k][x] = src[x] \/ x \in skipped[k] \/ t.todo[x] = src[x]
  BY <1>0, <1>1 DEF TaskOK, Holds
<1>3. last \in Times /\ last \in Nat /\ last <= g
  <2>1. \E x \in B : last = t.todo[x]
    BY <1>0, <1>1, LastTimeIsMax
  <2> QED
    BY <1>1, <1>2, <2>1 DEF Times
<1>4. /\ \A l \in Kbs : l # k => idx'[l] = idx[l] /\ skipped'[l] = skipped[l]
      /\ \A x \in Items : x \in S => idx'[k][x] = t.todo[x]
      /\ \A x \in Items : x \notin S => idx'[k][x] = idx[k][x]
      /\ skipped'[k] = (skipped[k] \cup B) \ S
  BY <1>0, <1>1 DEF TypeOK
<1>5. ASSUME NEW x \in S, src[x] # 0, src[x] <= g PROVE idx'[k][x] = src[x]
  <2>1. x \in Items /\ x \in B
    OBVIOUS
  <2>2. t.todo[x] # 0 /\ src[x] \in Nat
    BY <1>0, <1>1, <2>1
  <2>3. src[x] = t.todo[x]
    BY <1>1, <1>2, <1>5, <2>1, <2>2
  <2> QED
    BY <1>4, <2>1, <2>3
<1>6. Keeps(k, g)
  <2> SUFFICES ASSUME NEW x \in Items, src[x] # 0, src[x] <= g,
                      idx[k][x] = src[x] \/ x \in skipped[k]
               PROVE  idx'[k][x] = src[x] \/ x \in skipped'[k]
    BY <1>0 DEF Keeps
  <2> QED
    BY <1>4, <1>5
<1>7. LaterOnly(g) /\ \A l \in Kbs : Calm(l, g)
  <2>1. \A l \in Kbs : l # k => Keeps(l, g)
    BY <1>0, <1>4 DEF Keeps
  <2> QED
    BY <1>0, <1>6, <2>1 DEF LaterOnly, Calm
<1> HIDE DEF last
<1>8. /\ \A x \in Items : todo[x] <= g
      /\ \A x \in Items : todo[x] # 0 => src[x] = 0 \/ src[x] = todo[x] \/ src[x] > g
  BY <1>1, <1>2
<1>9. ASSUME k \notin overlap, NEW x \in Items, src[x] # 0, src[x] <= g
      PROVE  idx'[k][x] = src[x] \/ x \in skipped'[k] \/ todo[x] = src[x]
  <2>1. CASE x \in B
    BY <1>4, <1>5, <1>9, <2>1
  <2>2. CASE x \notin B
    BY <1>2, <1>4, <1>9, <2>2
  <2> QED
    BY <2>1, <2>2
<1> HIDE DEF todo
<1>10. Larger(t.next, last) <= g
  BY <1>1, <1>2, <1>3 DEF Larger
<1>11. u.pc = "sync" /\ u.kind = t.kind /\ u.next = Larger(t.next, last) /\ u.todo = todo
  BY <1>0, <1>1 DEF Coroutine
<1>12. work'[i] = u
  BY <1>0, BecomeIs
<1> HIDE DEF u
<1>13. TaskOK(work[i], i, g)'
  BY <1>0, <1>2, <1>8, <1>9, <1>10, <1>11, <1>12 DEF TaskOK, Holds
<1>14. ASSUME NEW l \in Kbs
       PROVE  \/ logs'[SyncOf(l)] = logs[SyncOf(l)]
              \/ logs'[SyncOf(l)] \in Seq(SoundRows(l, g)')
  <2>1. /\ logs[SyncOf(l)] \in Seq(SoundRows(l, g))
        /\ SoundRows(l, g) \subseteq Row /\ SyncOf(l) \in Kinds
        /\ SoundRows(l, g) \subseteq SoundRows(l, g)'
    BY <1>7, RowsKept DEF Sound, SoundRows, SyncOf, Kinds
  <2>2. CASE ~booked
    BY <2>2 DEF Store
  <2>3. CASE booked
    <3>1. Wrote(i, BookedRow(last)) /\ BookedRow(last) \in [Row -> Row]
      BY <1>3, <2>3, StoreRows, RowFunctions DEF last
    <3>2. ASSUME NEW r \in SoundRows(l, g), r.owner = i
          PROVE  BookedRow(last)[r] \in SoundRows(l, g)
      <4> DEFINE s == [r EXCEPT !.end = Larger(@, last)]
      <4>1. /\ r \in Row /\ r.end \in Times /\ r.end <= g /\ Window(l, r.start, g)
            /\ r.status # "done"
        BY <3>2, ConnectorSyncAssumption DEF SoundRows, Row, Nobody
      <4>2. Larger(r.end, last) \in Times /\ Larger(r.end, last) <= g
        BY <1>1, <1>3, <4>1 DEF Larger, Times
      <4>3. /\ s \in Row /\ s.start = r.start /\ s.end = Larger(r.end, last)
            /\ s.status = r.status
        BY <4>1, <4>2 DEF Row
      <4>4. BookedRow(last)[r] = s
        BY <4>1 DEF BookedRow
      <4> HIDE DEF s
      <4> QED
        BY <4>1, <4>2, <4>3, <4>4 DEF SoundRows
    <3>3. logs'[SyncOf(l)] \in Seq(SoundRows(l, g))
      BY <2>1, <3>1, <3>2, WroteSeq
    <3> QED
      BY <2>1, <3>3
  <2> QED
    BY <2>2, <2>3
<1>15. Become(i, u)
  BY <1>0 DEF u, todo, last
<1>16. t.pc # "sched" /\ (loop' = loop \/ loop = Nobody \/ loop = i) /\ UNCHANGED calls
  BY <1>0
<1> QED
  BY <1>7, <1>13, <1>14, <1>15, <1>16, WorkerAfter

\* done: all that was fetched is stored or skipped, so the window is reached.
LEMMA SoundDone ==
    ASSUME TypeOK, TypeOK', NEW g \in Times, Sound(g), NEW i \in Slots, Done(i)
    PROVE  Sound(g)'
<1> DEFINE t == work[i]
           k == t.kind[1]
           u == [NoTask EXCEPT !.pc = "sched", !.kind = t.kind]
           c == [at |-> "check", kind |-> t.kind, reindex |-> FALSE,
                 start |-> IF t.kind[2] = "sync" THEN t.next ELSE 0]
<1>0. /\ UNCHANGED <<src, idx, skipped, overlap, loop>>
      /\ t.pc = "done" \/ (t.pc = "sync" /\ \A x \in Items : t.todo[x] = 0)
      /\ Become(i, u) /\ ToCall(i, c)
  BY DEF Done, source, history
<1>1. /\ t \in Coroutine /\ k \in Kbs /\ TaskOK(t, i, g) /\ g \in Nat
      /\ t.next \in Times /\ t.next \in Nat /\ t.kind \in Kinds
      /\ \A x \in Items : src[x] \in Nat
  BY TaskType DEF TypeOK, Sound, Times
<1>2. loop = i
  BY <1>0, <1>1 DEF TaskOK, Holds
<1>3. LaterOnly(g) /\ \A l \in Kbs : Calm(l, g)
  BY <1>0, CalmStill
<1>4. t.kind[2] = "sync" =>
        /\ t.pc = "sync" /\ t.next <= g
        /\ \A w \in Times : w <= g => Window(k, w, g)
  <2> SUFFICES ASSUME t.kind[2] = "sync", NEW w \in Times, w <= g
               PROVE  t.pc = "sync" /\ t.next <= g /\ Window(k, w, g)
    <3>1. g \in Times /\ g <= g
      BY <1>1
    <3> QED
      BY <3>1
  <2>1. t.pc = "sync"
    BY <1>0, <1>1 DEF TaskOK
  <2>2. /\ t.next <= g /\ \A x \in Items : t.todo[x] = 0
        /\ k \notin overlap =>
             \A x \in Items : src[x] # 0 /\ src[x] <= g =>
                 idx[k][x] = src[x] \/ x \in skipped[k] \/ t.todo[x] = src[x]
    BY <1>0, <1>1, <2>1 DEF TaskOK
  <2>3. k \notin overlap => Reached(k, w)
    BY <1>1, <2>2 DEF Reached, Times
  <2> QED
    BY <2>1, <2>2, <2>3 DEF Window
<1>5. ASSUME NEW l \in Kbs PROVE logs'[SyncOf(l)] \in Seq(SoundRows(l, g)')
  <2>1. /\ logs[SyncOf(l)] \in Seq(SoundRows(l, g))
        /\ SoundRows(l, g) \subseteq Row /\ SyncOf(l) \in Kinds
        /\ SoundRows(l, g) \subseteq SoundRows(l, g)'
    BY <1>3, RowsKept DEF Sound, SoundRows, SyncOf, Kinds
  <2>2. ASSUME NEW r \in SoundRows(l, g), SyncOf(l) = t.kind
        PROVE  DoneRow[r] \in SoundRows(l, g)
    <3> DEFINE s == [r EXCEPT !.status = "done", !.owner = Nobody]
    <3>1. r \in Row /\ r.end \in Times /\ r.end <= g /\ Window(l, r.start, g)
      BY DEF SoundRows, Row
    <3>2. s \in Row /\ s.start = r.start /\ s.end = r.end /\ s.owner = Nobody
      BY <3>1 DEF Row, Statuses
    <3>3. DoneRow[r] = s
      BY <3>1 DEF DoneRow
    <3>4. l = k /\ t.kind[2] = "sync"
      BY <2>2 DEF SyncOf
    <3>5. Window(l, r.end, g)
      BY <1>4, <3>1, <3>4
    <3> HIDE DEF s
    <3> QED
      BY <3>1, <3>2, <3>3, <3>5 DEF SoundRows
  <2>3. logs'[SyncOf(l)] \in Seq(SoundRows(l, g))
    BY <2>1, <2>2, DoneRows, RowFunctions, WroteSeq
  <2> QED
    BY <2>1, <2>3
<1>6. u.pc = "sched" /\ u.kind = t.kind
  BY DEF NoTask
<1>7. work'[i] = u /\ \A j \in Slots : j # i => work'[j] = work[j]
  BY <1>0 DEF Become, TypeOK
<1>8. /\ calls'[i] = c /\ \A a \in Callers : a # i => calls'[a] = calls[a]
      /\ Slots \subseteq Callers
  BY <1>0 DEF ToCall, TypeOK, Callers
<1> HIDE DEF u
<1>9. TaskOK(work[i], i, g)'
  BY <1>0, <1>2, <1>6, <1>7 DEF TaskOK, Holds
<1>10. CallOK(calls[i], g)'
  <2>1. CallOK(c, g)
    BY <1>1, <1>4 DEF CallOK
  <2>2. c \in Call /\ c.kind = t.kind
    BY <1>1, Defaults DEF Call
  <2> HIDE DEF c
  <2>3. \A b \in Call : CallOK(b, g) /\ Calm(b.kind[1], g) => CallOK(b, g)'
    BY CallKept
  <2> QED
    BY <1>1, <1>3, <1>8, <2>1, <2>2, <2>3
<1>11. ASSUME NEW j \in Slots PROVE CallerOK(j)'
  <2>1. CASE j = i
    BY <1>6, <1>7, <1>8, <2>1 DEF CallerOK
  <2>2. CASE j # i
    BY <1>7, <1>8, <2>2 DEF CallerOK, Sound
  <2> QED
    BY <2>1, <2>2
<1>12. \A j \in Slots : \/ TaskOK(work[j], j, g)'
                        \/ work'[j] = work[j] /\ (Holds(work[j].pc) => loop' = loop)
  BY <1>0, <1>7, <1>9
<1>13. \A a \in Callers : calls'[a] = calls[a] \/ CallOK(calls[a], g)'
  BY <1>8, <1>10
<1> QED
  BY <1>3, <1>5, <1>11, <1>12, <1>13, SoundAfter
-----------------------------------------------------------------------------
(***************************************************************************)
(* A rebuild.                                                              *)
(***************************************************************************)

LEMMA OnlyEmpty == \A s : s \in Seq({}) => s = <<>>
<1> SUFFICES ASSUME NEW s \in Seq({}) PROVE s = <<>>
  OBVIOUS
<1>1. Len(s) = 0
  <2>1. Len(s) \in Nat /\ DOMAIN s = 1..Len(s) /\ \A n \in DOMAIN s : s[n] \in {}
    OBVIOUS
  <2> QED
    BY <2>1
<1> QED
  BY <1>1

LEMMA ConcatNoDelete ==
    ASSUME NEW s \in Seq(Statement), NEW t \in Seq(Statement), NoDelete(s), NoDelete(t)
    PROVE  NoDelete(s \o t)
BY DEF NoDelete

LEMMA TailNoDelete ==
    ASSUME NEW s \in Seq(Statement), s # <<>>, NoDelete(s)
    PROVE  NoDelete(Tail(s)) /\ Head(s).op # "delete"
BY DEF NoDelete

LEMMA EachNoDelete ==
    ASSUME NEW op, op # "delete", NEW S PROVE NoDelete(Each(op, S))
BY DEF NoDelete, Each

LEMMA ConcatAt ==
    ASSUME NEW R, NEW s \in Seq(R), NEW t \in Seq(R)
    PROVE  /\ s \o t \in Seq(R) /\ Len(s \o t) = Len(s) + Len(t)
           /\ \A n \in 1..Len(s) : (s \o t)[n] = s[n]
           /\ \A n \in 1..Len(t) : (s \o t)[n + Len(s)] = t[n]
OBVIOUS

LEMMA TailAt ==
    ASSUME NEW R, NEW s \in Seq(R), Len(s) > 0
    PROVE  /\ Tail(s) \in Seq(R) /\ Len(Tail(s)) = Len(s) - 1
           /\ \A n \in 1..(Len(s) - 1) : Tail(s)[n] = s[n + 1]
           /\ s # <<>> /\ Head(s) = s[1]
OBVIOUS

\* The statements of a rebuild.
LEMMA RebuildIs ==
    ASSUME NEW k \in Kbs
    PROVE  /\ Rebuild(k) # <<>>
           /\ Head(Rebuild(k)) = [op |-> "forget", kbs |-> {k}]
           /\ Tail(Rebuild(k)) # <<>>
           /\ Head(Tail(Rebuild(k))) = [op |-> "delete", kbs |-> {k}]
           /\ NoDelete(Tail(Tail(Rebuild(k))))
<1> DEFINE f == [op |-> "forget", kbs |-> {k}]
           d == [op |-> "delete", kbs |-> {k}]
           r == [op |-> "reindex", kbs |-> {k}]
           p == [op |-> "prune", kbs |-> {k}]
           s == Rebuild(k)
<1>1. PICK q \in Seq({p}) : s = <<f>> \o <<d>> \o <<r>> \o q
  <2>1. {k} # {}
    OBVIOUS
  <2>2. /\ Each("forget", {k}) = <<f>> /\ Each("delete", {k}) = <<d>>
        /\ Each("reindex", {k}) = <<r>> /\ Each("prune", {k}) = <<p>>
    BY <2>1 DEF Each
  <2>3. s = <<f>> \o <<d>> \o <<r>> \o (IF Prune THEN <<p>> ELSE <<>>)
    BY <2>2 DEF Rebuild, Pruning
  <2>4. <<p>> \in Seq({p}) /\ <<>> \in Seq({p})
    OBVIOUS
  <2> QED
    BY <2>3, <2>4
<1>2. r.op # "delete" /\ p.op # "delete"
  OBVIOUS
<1> HIDE DEF f, d, r, p
<1> DEFINE A == {f, d, r, p}
           t == <<f>> \o <<d>>
           v == t \o <<r>>
<1>3. t \in Seq(A) /\ Len(t) = 2 /\ t[1] = f /\ t[2] = d
  OBVIOUS
<1> HIDE DEF t
<1>4. v \in Seq(A) /\ Len(v) = 3 /\ v[1] = f /\ v[2] = d /\ v[3] = r
  <2>1. <<r>> \in Seq(A) /\ Len(<<r>>) = 1 /\ <<r>>[1] = r
    OBVIOUS
  <2> HIDE DEF A
  <2>2. /\ v \in Seq(A) /\ Len(v) = Len(t) + Len(<<r>>)
        /\ \A n \in 1..Len(t) : v[n] = t[n]
        /\ \A n \in 1..Len(<<r>>) : v[n + Len(t)] = <<r>>[n]
    BY <1>3, <2>1, ConcatAt
  <2> HIDE DEF v
  <2>3. v[1] = t[1] /\ v[2] = t[2] /\ v[1 + 2] = <<r>>[1] /\ Len(v) = 2 + 1
    BY <1>3, <2>1, <2>2
  <2> QED
    BY <1>3, <2>1, <2>2, <2>3
<1> HIDE DEF v
<1>5. q \in Seq(A) /\ s = v \o q
  BY <1>1 DEF v, t
<1>6. /\ s \in Seq(A) /\ Len(s) >= 3 /\ s[1] = f /\ s[2] = d
      /\ \A n \in DOMAIN s : n >= 3 => s[n] \in {r, p}
  <2> HIDE DEF A, s
  <2>a. /\ s \in Seq(A) /\ Len(s) = Len(v) + Len(q)
        /\ \A n \in 1..Len(v) : s[n] = v[n]
        /\ \A n \in 1..Len(q) : s[n + Len(v)] = q[n]
    <3>1. v \in Seq(A) /\ q \in Seq(A)
      BY <1>4, <1>5
    <3>2. /\ v \o q \in Seq(A) /\ Len(v \o q) = Len(v) + Len(q)
          /\ \A n \in 1..Len(v) : (v \o q)[n] = v[n]
          /\ \A n \in 1..Len(q) : (v \o q)[n + Len(v)] = q[n]
      BY <3>1, ConcatAt
    <3>3. s = v \o q
      BY <1>5
    <3> QED
      BY <3>2, <3>3, Zenon
  <2>1. /\ s \in Seq(A) /\ Len(s) = 3 + Len(q) /\ \A n \in 1..3 : s[n] = v[n]
        /\ \A n \in 1..Len(q) : s[n + 3] = q[n]
    BY <1>4, <2>a
  <2>2. Len(q) \in Nat /\ \A n \in 1..Len(q) : q[n] = p
    BY <1>1
  <2>3. ASSUME NEW n \in DOMAIN s, n >= 3 PROVE s[n] \in {r, p}
    <3>1. n \in 1..(3 + Len(q))
      BY <2>1
    <3>2. CASE n = 3
      BY <1>4, <2>1, <3>2
    <3>3. CASE n # 3
      <4>1. n - 3 \in 1..Len(q) /\ (n - 3) + 3 = n
        BY <2>2, <2>3, <3>1, <3>3
      <4>2. s[n] = q[n - 3]
        BY <2>1, <4>1
      <4> QED
        BY <2>2, <4>1, <4>2
    <3> QED
      BY <3>2, <3>3
  <2> QED
    BY <1>4, <2>1, <2>2, <2>3
<1> HIDE DEF s
<1>7. /\ s # <<>> /\ Head(s) = f
      /\ Tail(s) \in Seq(A) /\ Tail(s) # <<>> /\ Head(Tail(s)) = d
  <2>1. Len(s) \in Nat
    BY <1>6
  <2>2. /\ s # <<>> /\ Head(s) = f /\ Tail(s) \in Seq(A) /\ Len(Tail(s)) > 0
        /\ Tail(s)[1] = d
    BY <1>6, <2>1, TailAt
  <2> QED
    BY <2>2, TailAt
<1>8. \A n \in DOMAIN Tail(Tail(s)) : Tail(Tail(s))[n] \in {r, p}
  <2>1. /\ Tail(s) \in Seq(A) /\ Len(Tail(s)) = Len(s) - 1
        /\ \A n \in 1..(Len(s) - 1) : Tail(s)[n] = s[n + 1]
    BY <1>6, TailAt
  <2>2. /\ DOMAIN Tail(Tail(s)) = 1..(Len(s) - 2)
        /\ \A n \in 1..(Len(s) - 2) : Tail(Tail(s))[n] = Tail(s)[n + 1]
    <3>1. Len(s) \in Nat /\ Len(Tail(s)) > 0
      BY <1>6, <2>1
    <3>2. /\ Tail(Tail(s)) \in Seq(A) /\ Len(Tail(Tail(s))) = Len(Tail(s)) - 1
          /\ \A n \in 1..(Len(Tail(s)) - 1) : Tail(Tail(s))[n] = Tail(s)[n + 1]
      BY <2>1, <3>1, TailAt
    <3> QED
      BY <2>1, <3>1, <3>2
  <2>3. \A n \in 1..(Len(s) - 2) : Tail(Tail(s))[n] = s[n + 2] /\ n + 2 \in DOMAIN s
    BY <1>6, <2>1, <2>2
  <2> QED
    BY <1>6, <2>2, <2>3
<1>9. NoDelete(Tail(Tail(s)))
  BY <1>2, <1>8 DEF NoDelete
<1> QED
  BY <1>7, <1>9 DEF s, f, d

\* Nothing but the API server makes a dataset carry windows again.
NotApi ==
    \/ \E x \in Items : Change(x)
    \/ Crash
    \/ \E D \in SUBSET Due : Dispatch(D)
    \/ \E i \in Slots : Step(i) \/ TaskFails(i) \/ BatchFails(i)
    \/ \E a \in Slots : SchedFails(a)

LEMMA QuietLogs ==
    ASSUME TypeOK, NEW g, Sound(g), NotApi, NEW k \in Kbs, Quiet(k)
    PROVE  logs'[SyncOf(k)] = <<>>
<1> DEFINE E == {}
<1>1. /\ SyncOf(k) \in Kinds /\ logs[SyncOf(k)] = <<>> /\ logs[SyncOf(k)] \in Seq(E)
      /\ E \subseteq Row /\ \A r \in E : FALSE
  BY EmptyType DEF SyncOf, Kinds, Quiet
<1>a. \A s : s \in Seq(E) => s = <<>>
  BY OnlyEmpty
<1> HIDE DEF E
<1>2. ASSUME NEW F \in [Row -> Row], NEW i \in Slots, Wrote(i, F)
      PROVE  logs'[SyncOf(k)] = <<>>
  <2>1. logs'[SyncOf(k)] \in Seq(E)
    BY <1>1, <1>2, WroteSeq
  <2> QED
    BY <1>a, <2>1
<1>3. ASSUME NEW a \in Slots, calls[a].at # "none" PROVE calls[a].kind # SyncOf(k)
  BY <1>3 DEF Sound, CallerOK, Quiet, Running
<1>4. ASSUME NEW x \in Items, Change(x) PROVE logs'[SyncOf(k)] = <<>>
  BY <1>1, <1>4 DEF Change
<1>5. CASE Crash
  <2>1. logs'[SyncOf(k)] \in Seq(E)
    BY <1>1, <1>5, CrashSeq
  <2> QED
    BY <1>a, <2>1
<1>6. ASSUME NEW D \in SUBSET Due, Dispatch(D) PROVE logs'[SyncOf(k)] = <<>>
  <2>1. logs'[SyncOf(k)] \in Seq(E)
    BY <1>1, <1>6, DispatchSeq
  <2> QED
    BY <1>a, <2>1
<1>7. ASSUME NEW i \in Slots, Start(i) \/ TaskFails(i) \/ Done(i)
      PROVE  logs'[SyncOf(k)] = <<>>
  BY <1>2, <1>7, StartRows, TaskFailsRows, DoneRows, RowFunctions
<1>8. ASSUME NEW i \in Slots, NEW B \in SUBSET Items, NEW S, NEW booked \in BOOLEAN,
             Store(i, B, S, booked)
      PROVE  logs'[SyncOf(k)] = <<>>
  <2>1. CASE booked
    <3> DEFINE last == LastTime(B, work[i].todo)
    <3>1. Wrote(i, BookedRow(last))
      BY <1>8, <2>1, StoreRows
    <3>2. work[i].todo \in [Items -> Times] /\ B # {} /\ \A x \in B : work[i].todo[x] \in Times
      BY <1>8 DEF TypeOK, Coroutine, Store
    <3>3. \E x \in B : last = work[i].todo[x]
      BY <3>2, LastTimeIsMax
    <3>4. last \in Times
      BY <3>2, <3>3
    <3> HIDE DEF last
    <3> QED
      BY <1>2, <3>1, <3>4, RowFunctions
  <2>2. CASE ~booked
    BY <1>1, <1>8, <2>2 DEF Store
  <2> QED
    BY <2>1, <2>2
<1>9. ASSUME NEW i \in Slots, Batch(i) \/ BatchFails(i) PROVE logs'[SyncOf(k)] = <<>>
  BY <1>8, <1>9 DEF Batch, BatchFails
<1>10. ASSUME NEW i \in Slots, Generate(i) \/ Snapshot(i) \/ Cleanup(i)
       PROVE  logs'[SyncOf(k)] = <<>>
  <2>1. UNCHANGED logs
    <3>1. CASE Generate(i)
      BY <3>1 DEF Generate
    <3>2. CASE Snapshot(i)
      BY <3>2 DEF Snapshot
    <3>3. CASE Cleanup(i)
      BY <3>3 DEF Cleanup
    <3> QED
      BY <1>10, <3>1, <3>2, <3>3
  <2> QED
    BY <1>1, <2>1
<1>11. ASSUME NEW a \in Slots, Schedule(a) \/ SchedFails(a)
       PROVE  logs'[SyncOf(k)] = <<>>
  <2>1. a \in Callers /\ calls[a].at # "none"
    BY <1>11 DEF Callers, Schedule, SchedRefused, SchedCheck, SchedSave, SchedFails
  <2>2. calls[a].kind # SyncOf(k)
    BY <1>3, <2>1
  <2>3. CASE SchedSave(a)
    <3>1. logs'[SyncOf(k)] \in Seq(E)
      BY <1>1, <2>1, <2>2, <2>3, SchedSaveSeq
    <3> QED
      BY <1>a, <3>1
  <2>4. CASE SchedFails(a)
    <3>1. logs'[SyncOf(k)] \in Seq(E)
      BY <1>1, <2>1, <2>2, <2>4, SchedFailsSeq
    <3> QED
      BY <1>a, <3>1
  <2>5. CASE SchedRefused(a) \/ SchedCheck(a)
    BY <1>1, <2>5 DEF SchedRefused, SchedCheck
  <2> QED
    BY <1>11, <2>3, <2>4, <2>5 DEF Schedule
<1> QED
  BY <1>4, <1>5, <1>6, <1>7, <1>9, <1>10, <1>11 DEF NotApi, Step

\* A coroutine keeps its kind, ends, or is started for a scheduled row.
LEMMA QuietWork ==
    ASSUME TypeOK, NEW g, Sound(g), NotApi, NEW k \in Kbs, Quiet(k)
    PROVE  ~Running(SyncOf(k))'
<1> SUFFICES ASSUME NEW j \in Slots, work'[j].pc # "none", work'[j].kind = SyncOf(k)
             PROVE  FALSE
  BY DEF Running
<1>0. /\ work \in [Slots -> Coroutine] /\ ~Running(SyncOf(k)) /\ logs[SyncOf(k)] = <<>>
      /\ NoTask.pc = "none"
  BY DEF TypeOK, Quiet, NoTask
<1>1. work'[j] # work[j] /\ work'[j] # NoTask
  BY <1>0 DEF Running
<1>2. ASSUME NEW x \in Items, Change(x) PROVE FALSE
  BY <1>1, <1>2 DEF Change
<1>3. CASE Crash
  BY <1>1, <1>3 DEF Crash
<1>4. ASSUME NEW D \in SUBSET Due, Dispatch(D) PROVE FALSE
  <2>1. PICK d \in D : work'[j] = NewTask(d)
    BY <1>1, <1>4, DispatchWork
  <2>2. NewTask(d).kind = d[1]
    BY DEF NewTask, NoTask
  <2>3. d[2] \in DOMAIN logs[d[1]]
    BY <1>4, TakenRow
  <2> QED
    BY <1>0, <2>1, <2>2, <2>3
<1>5. ASSUME NEW i \in Slots, NEW task, Become(i, task),
             work[i].pc # "none", task.pc = "none" \/ task.kind = work[i].kind
      PROVE  FALSE
  BY <1>0, <1>1, <1>5 DEF Become, Running
<1>6. ASSUME NEW i \in Slots, NEW a, Return(a) PROVE FALSE
  BY <1>0, <1>1, <1>6 DEF Return
<1>7. ASSUME NEW i \in Slots PROVE work[i] \in Coroutine
  BY DEF TypeOK
<1>8. ASSUME NEW i \in Slots, NEW pc PROVE [work[i] EXCEPT !.pc = pc].kind = work[i].kind
  BY <1>7 DEF Coroutine
<1>9. ASSUME NEW i \in Slots, Start(i) \/ Cleanup(i) PROVE FALSE
  BY <1>5, <1>8, <1>9 DEF Start, Cleanup, Goto
<1>10. ASSUME NEW i \in Slots, TaskFails(i) PROVE FALSE
  BY <1>0, <1>5, <1>10 DEF TaskFails
<1>11. ASSUME NEW i \in Slots, Snapshot(i) PROVE FALSE
  <2>1. [work[i] EXCEPT !.pc = "prune", !.todo = src].kind = work[i].kind
    BY <1>7 DEF Coroutine
  <2> QED
    BY <1>5, <1>8, <1>11, <2>1 DEF Snapshot, Goto
<1>12. ASSUME NEW i \in Slots, Generate(i) PROVE FALSE
  <2>1. PICK incl \in BOOLEAN :
          Become(i, [work[i] EXCEPT !.pc = "sync", !.reindex = FALSE,
                                    !.todo = Fetched(work[i], incl)])
    BY <1>12 DEF Generate
  <2>2. [work[i] EXCEPT !.pc = "sync", !.reindex = FALSE,
                        !.todo = Fetched(work[i], incl)].kind = work[i].kind
    BY <1>7 DEF Coroutine
  <2>3. work[i].pc # "none"
    BY <1>12 DEF Generate
  <2> QED
    BY <1>5, <2>1, <2>2, <2>3
<1>13. ASSUME NEW i \in Slots, Batch(i) \/ BatchFails(i) PROVE FALSE
  <2>1. PICK B : \E S, booked : Store(i, B, S, booked)
    BY <1>13 DEF Batch, BatchFails
  <2> DEFINE todo == [x \in Items |-> IF x \in B THEN 0 ELSE work[i].todo[x]]
             u == [work[i] EXCEPT !.next = Larger(@, LastTime(B, work[i].todo)), !.todo = todo]
  <2>2. Become(i, u) /\ work[i].pc # "none"
    BY <2>1 DEF Store
  <2> HIDE DEF todo
  <2>3. u.kind = work[i].kind
    BY <1>7 DEF Coroutine
  <2> QED
    BY <1>5, <2>2, <2>3
<1>14. ASSUME NEW i \in Slots, Done(i) PROVE FALSE
  <2>1. [NoTask EXCEPT !.pc = "sched", !.kind = work[i].kind].kind = work[i].kind
    BY DEF NoTask
  <2>2. work[i].pc # "none"
    BY <1>14 DEF Done
  <2> QED
    BY <1>5, <1>14, <2>1, <2>2 DEF Done
<1>15. ASSUME NEW a \in Slots, Schedule(a) \/ SchedFails(a) PROVE FALSE
  BY <1>1, <1>6, <1>15 DEF Schedule, SchedRefused, SchedCheck, SchedSave, SchedFails
<1> QED
  BY <1>2, <1>3, <1>4, <1>9, <1>10, <1>11, <1>12, <1>13, <1>14, <1>15 DEF NotApi, Step

\* A coroutine calls schedule for itself only.
LEMMA NotApiCalls ==
    ASSUME TypeOK, NotApi
    PROVE  calls'[Api] = calls[Api] /\ script' = script /\ overlap' = overlap
<1> USE DEF history
<1>0. Api \in Callers /\ Api \notin Slots /\ calls \in [Callers -> Call]
  BY ConnectorSyncAssumption DEF Callers, Api, TypeOK
<1> DEFINE Good == calls'[Api] = calls[Api] /\ script' = script /\ overlap' = overlap
<1>1. ASSUME NEW a \in Slots, NEW c, ToCall(a, c) PROVE calls'[Api] = calls[Api]
  BY <1>0, <1>1 DEF ToCall
<1>2. ASSUME NEW a \in Slots, Schedule(a) \/ SchedFails(a) PROVE Good
  BY <1>1, <1>2 DEF Schedule, SchedRefused, SchedCheck, SchedSave, SchedFails, Return
<1>3. ASSUME NEW i \in Slots, Done(i) PROVE Good
  BY <1>1, <1>3 DEF Done
<1>4. ASSUME Crash PROVE Good
  BY <1>0, <1>4 DEF Crash
<1>5. ASSUME NEW x, Change(x) PROVE Good
  BY <1>5 DEF Change
<1>6. ASSUME NEW D, Dispatch(D) PROVE Good
  BY <1>6 DEF Dispatch
<1>7. ASSUME NEW i, Start(i) PROVE Good
  BY <1>7 DEF Start
<1>8. ASSUME NEW i, Generate(i) PROVE Good
  BY <1>8 DEF Generate
<1>9. ASSUME NEW i, Snapshot(i) PROVE Good
  BY <1>9 DEF Snapshot
<1>10. ASSUME NEW i, Cleanup(i) PROVE Good
  BY <1>10 DEF Cleanup
<1>11. ASSUME NEW i, TaskFails(i) PROVE Good
  BY <1>11 DEF TaskFails
<1>12. ASSUME NEW i, NEW B, NEW S, NEW booked, Store(i, B, S, booked) PROVE Good
  BY <1>12 DEF Store
<1>13. ASSUME NEW i, Batch(i) \/ BatchFails(i) PROVE Good
  BY <1>12, <1>13 DEF Batch, BatchFails
<1> HIDE DEF Good
<1>14. Good
  BY <1>2, <1>3, <1>4, <1>5, <1>6, <1>7, <1>8, <1>9, <1>10, <1>11, <1>13
     DEF NotApi, Step
<1> QED
  BY <1>14 DEF Good

LEMMA QuietKept ==
    ASSUME TypeOK, NEW g, Sound(g), NotApi, NEW k \in Kbs, Quiet(k)
    PROVE  Quiet(k)'
<1>1. logs'[SyncOf(k)] = <<>>
  BY QuietLogs
<1>2. ~Running(SyncOf(k))'
  BY QuietWork
<1>3. calls'[Api].at = "none"
  BY NotApiCalls DEF Quiet
<1> QED
  BY <1>1, <1>2, <1>3 DEF Quiet

\* What the API server has to do: nothing is deleted before it is forgotten.
LEMMA ScriptCases ==
    ASSUME TypeOK, ScriptOK, NEW op, NEW k,
           script # <<>>, Head(script).op = op, k \in Head(script).kbs \/ op = "stop"
    PROVE  \/ NoDelete(script) /\ op # "delete"
           \/ /\ op = "forget" /\ k \in Kbs /\ script = Rebuild(k)
              /\ Head(script).kbs = {k}
           \/ /\ op = "delete" /\ k \in Kbs /\ script = Tail(Rebuild(k))
              /\ Head(script).kbs = {k} /\ (k \in overlap \/ Quiet(k))
<1>1. script \in Seq(Statement)
  BY DEF TypeOK, Statement
<1>2. CASE NoDelete(script)
  BY <1>1, <1>2, TailNoDelete
<1>3. ASSUME NEW l \in Kbs, script = Rebuild(l)
      PROVE  op = "forget" /\ l = k /\ Head(script).kbs = {l}
  <2>1. Head(script) = [op |-> "forget", kbs |-> {l}]
    BY <1>3, RebuildIs
  <2>2. Head(script).op = "forget" /\ Head(script).kbs = {l}
    BY <2>1
  <2> QED
    BY <2>2
<1>4. ASSUME NEW l \in Kbs, script = Tail(Rebuild(l))
      PROVE  op = "delete" /\ l = k /\ Head(script).kbs = {l}
  <2>1. Head(script) = [op |-> "delete", kbs |-> {l}]
    BY <1>4, RebuildIs
  <2>2. Head(script).op = "delete" /\ Head(script).kbs = {l}
    BY <2>1
  <2> QED
    BY <2>2
<1> QED
  BY <1>2, <1>3, <1>4 DEF ScriptOK

LEMMA AfterLast ==
    ASSUME TypeOK, script # <<>>, NEW k, Head(script).kbs = {k}
    PROVE  After(k) = Tail(script)
<1>1. Tail(script) \in Seq(Statement)
  BY AfterType
<1>2. Each(Head(script).op, Head(script).kbs \ {k}) = <<>>
  BY DEF Each
<1> QED
  BY <1>1, <1>2, ConcatEmptySeq DEF After

LEMMA AfterNoDelete ==
    ASSUME TypeOK, script # <<>>, NoDelete(script), NEW k
    PROVE  NoDelete(After(k)) /\ NoDelete(Tail(script))
<1>1. script \in Seq(Statement)
  BY DEF TypeOK, Statement
<1>2. /\ Head(script) \in Statement /\ Head(script).op # "delete"
      /\ NoDelete(Tail(script)) /\ Tail(script) \in Seq(Statement)
  BY <1>1, TailNoDelete
<1>3. Head(script).op \in Ops /\ Head(script).kbs \ {k} \in SUBSET Kbs
  BY <1>2 DEF Statement
<1>4. /\ Each(Head(script).op, Head(script).kbs \ {k}) \in Seq(Statement)
      /\ NoDelete(Each(Head(script).op, Head(script).kbs \ {k}))
  BY <1>2, <1>3, EachType, EachNoDelete
<1> QED
  BY <1>2, <1>4, ConcatNoDelete DEF After

LEMMA ScriptRequest ==
    ASSUME TypeOK, Request PROVE ScriptOK'
<1>1. calls'[Api].at = "none" /\ linked \in SUBSET Kbs
  BY DEF Request, TypeOK
<1>2. ASSUME NEW op \in Ops \ {"delete"}, NEW S \in SUBSET Kbs
      PROVE  Each(op, S) \in Seq(Statement) /\ NoDelete(Each(op, S))
  BY EachType, EachNoDelete
<1>3. \A k \in Kbs : Pruning(k) \in Seq(Statement) /\ NoDelete(Pruning(k))
  <2> TAKE k \in Kbs
  <2>1. "prune" \in Ops \ {"delete"} /\ {k} \in SUBSET Kbs
    BY DEF Ops
  <2>2. NoDelete(<<>>)
    BY DEF NoDelete
  <2> QED
    BY <1>2, <2>1, <2>2, EmptyType DEF Pruning
<1>4. Resume \in Seq(Statement) /\ NoDelete(Resume)
  BY <1>1, <1>2 DEF Resume, Ops
<1>5. Cancel \in Seq(Statement) /\ NoDelete(Cancel)
  <2>1. Each("cancel", linked) \in Seq(Statement) /\ NoDelete(Each("cancel", linked))
    BY <1>1, <1>2 DEF Ops
  <2>2. /\ <<[op |-> "stop", kbs |-> {}]>> \in Seq(Statement)
        /\ NoDelete(<<[op |-> "stop", kbs |-> {}]>>)
    BY DEF Statement, Ops, NoDelete
  <2> QED
    BY <2>1, <2>2, ConcatType, ConcatNoDelete DEF Cancel
<1>6. ASSUME NEW k \in Kbs PROVE NoDelete(Link(k)) /\ NoDelete(Unlink(k))
  <2> DEFINE r == Each("reindex", {k})
             l == Each("link", {k})
             u == Each("unlink", {k})
             c == Each("cancel", {k})
  <2>1. /\ r \in Seq(Statement) /\ l \in Seq(Statement) /\ u \in Seq(Statement)
        /\ c \in Seq(Statement)
        /\ NoDelete(r) /\ NoDelete(l) /\ NoDelete(u) /\ NoDelete(c)
    BY <1>2 DEF Ops
  <2>2. Unlink(k) = u \o c /\ Link(k) = (l \o r) \o Pruning(k)
    BY DEF Unlink, Link
  <2> HIDE DEF r, l, u, c
  <2>3. l \o r \in Seq(Statement) /\ NoDelete(l \o r)
    BY <2>1, ConcatType, ConcatNoDelete
  <2> QED
    BY <1>3, <2>1, <2>2, <2>3, ConcatNoDelete
<1>7. NoDelete(Cancel \o Resume)
  BY <1>4, <1>5, ConcatNoDelete
<1>8. \/ script' \in {Cancel, Resume, Cancel \o Resume}
      \/ \E k \in Kbs : script' = Rebuild(k)
      \/ \E k \in Kbs : script' = Unlink(k)
      \/ \E k \in Kbs : script' = Link(k)
  BY <1>1 DEF Request
<1>9. ASSUME NEW k \in Kbs, script' = Rebuild(k) PROVE ScriptOK'
  BY <1>1, <1>9 DEF ScriptOK
<1>10. ASSUME NEW s, NoDelete(s), script' = s PROVE ScriptOK'
  BY <1>10 DEF ScriptOK, NoDelete
<1> QED
  BY <1>4, <1>5, <1>6, <1>7, <1>8, <1>9, <1>10

LEMMA ScriptForget ==
    ASSUME TypeOK, TypeOK', ScriptOK, NEW k \in Kbs, Forget(k)
    PROVE  ScriptOK'
<1>1. /\ script # <<>> /\ Head(script).op = "forget" /\ k \in Head(script).kbs
      /\ script' = After(k) /\ calls[Api].at = "none"
      /\ UNCHANGED <<work, calls>>
  BY DEF Forget, Does
<1>2. CASE NoDelete(script)
  <2>1. NoDelete(After(k))
    BY <1>1, <1>2, AfterNoDelete
  <2> QED
    BY <1>1, <2>1 DEF ScriptOK, NoDelete
<1>3. CASE script = Rebuild(k) /\ Head(script).kbs = {k}
  <2>1. script' = Tail(Rebuild(k))
    BY <1>1, <1>3, AfterLast
  <2>2. CASE Running(SyncOf(k))
    <3>1. k \in overlap'
      BY <2>2 DEF Forget, SyncOf
    <3> QED
      BY <1>1, <2>1, <3>1 DEF ScriptOK
  <2>3. CASE ~Running(SyncOf(k))
    <3>1. logs'[SyncOf(k)] = <<>>
      BY DEF Forget, SyncOf, Kinds
    <3>2. Quiet(k)'
      BY <1>1, <2>3, <3>1 DEF Quiet, Running
    <3> QED
      BY <1>1, <2>1, <3>2 DEF ScriptOK
  <2> QED
    BY <2>2, <2>3
<1> QED
  BY <1>1, <1>2, <1>3, ScriptCases

LEMMA ScriptApi ==
    ASSUME TypeOK, TypeOK', ScriptOK, ApiStep \/ SchedFails(Api)
    PROVE  ScriptOK'
<1>1. CASE Schedule(Api) \/ SchedFails(Api)
  <2>1. calls[Api].at # "none" /\ script' = script
    BY <1>1 DEF Schedule, SchedRefused, SchedCheck, SchedSave, SchedFails
  <2>2. NoDelete(script)
    BY <2>1 DEF ScriptOK
  <2> QED
    BY <2>1, <2>2 DEF ScriptOK, NoDelete
<1>2. ASSUME NEW s, NoDelete(s), script' = s PROVE ScriptOK'
  BY <1>2 DEF ScriptOK, NoDelete
<1>3. CASE Stop
  <2>1. script # <<>> /\ Head(script).op = "stop" /\ script' = Tail(script)
    BY <1>3 DEF Stop
  <2>2. NoDelete(script)
    BY <2>1, ScriptCases
  <2> QED
    BY <1>2, <2>1, <2>2, AfterNoDelete
<1>4. ASSUME NEW k \in Kbs, NEW op, Does(op, k), op # "forget", op # "delete"
      PROVE  /\ NoDelete(After(k)) /\ NoDelete(Pruning(k) \o After(k))
  <2>1. script # <<>> /\ Head(script).op = op /\ k \in Head(script).kbs
    BY <1>4 DEF Does
  <2>2. NoDelete(script)
    BY <1>4, <2>1, ScriptCases
  <2>3. NoDelete(After(k)) /\ After(k) \in Seq(Statement)
    BY <2>1, <2>2, AfterNoDelete, AfterType
  <2>4. NoDelete(Pruning(k)) /\ Pruning(k) \in Seq(Statement)
    BY PruningType, EachNoDelete DEF Pruning, NoDelete
  <2> QED
    BY <2>3, <2>4, ConcatNoDelete
<1>5. ASSUME NEW k \in Kbs,
             CancelRows(k) \/ ResumeSync(k) \/ ScheduleNew(k) \/ ChangeLink(k)
      PROVE  ScriptOK'
  <2>1. CASE CancelRows(k)
    BY <1>2, <1>4, <2>1 DEF CancelRows
  <2>2. CASE ResumeSync(k)
    BY <1>2, <1>4, <2>2 DEF ResumeSync
  <2>3. CASE ScheduleNew(k)
    BY <1>2, <1>4, <2>3 DEF ScheduleNew
  <2>4. CASE ChangeLink(k)
    BY <1>2, <1>4, <2>4 DEF ChangeLink
  <2> QED
    BY <1>5, <2>1, <2>2, <2>3, <2>4
<1>6. ASSUME NEW k \in Kbs, Delete(k) PROVE ScriptOK'
  <2>1. script # <<>> /\ Head(script).op = "delete" /\ k \in Head(script).kbs
    BY <1>6 DEF Delete, Does
  <2>2. script = Tail(Rebuild(k)) /\ Head(script).kbs = {k}
    BY <2>1, ScriptCases
  <2>3. script' = Tail(Tail(Rebuild(k)))
    BY <1>6, <2>1, <2>2, AfterLast DEF Delete
  <2> QED
    BY <1>2, <2>3, RebuildIs
<1> QED
  BY <1>1, <1>3, <1>5, <1>6, ScriptForget DEF ApiStep

LEMMA ScriptNotApi ==
    ASSUME TypeOK, NEW g, Sound(g), ScriptOK, NotApi PROVE ScriptOK'
<1>1. /\ calls'[Api] = calls[Api] /\ script' = script /\ overlap' = overlap
      /\ \A k \in Kbs : Quiet(k) => Quiet(k)'
  BY NotApiCalls, QuietKept
<1>2. CASE NoDelete(script)
  BY <1>1, <1>2 DEF ScriptOK, NoDelete
<1>3. CASE ~NoDelete(script)
  BY <1>1, <1>3 DEF ScriptOK
<1> QED
  BY <1>2, <1>3
-----------------------------------------------------------------------------
(***************************************************************************)
(* The inductive invariant.                                                *)
(***************************************************************************)

LEMMA SoundInit == Init => IInv
<1> SUFFICES ASSUME Init PROVE IInv
  OBVIOUS
<1>1. TypeOK
  BY TypeInit
<1>2. SourceOK
  BY DEF Init, SourceOK
<1>3. ScriptOK
  BY DEF Init, ScriptOK, NoDelete
<1>4. ASSUME NEW k \in Kbs PROVE logs[SyncOf(k)] \in Seq(SoundRows(k, clock))
  <2>1. logs[SyncOf(k)] = <<>>
    BY DEF Init, SyncOf, Kinds
  <2> QED
    BY <2>1, EmptyType
<1>5. ASSUME NEW i \in Slots PROVE TaskOK(work[i], i, clock) /\ CallerOK(i)
  <2>1. work[i] = NoTask /\ calls[i] = NoCall
    BY DEF Init, Callers
  <2> QED
    BY <2>1 DEF TaskOK, CallerOK, NoTask, NoCall, Holds
<1>6. ASSUME NEW a \in Callers PROVE CallOK(calls[a], clock)
  BY DEF Init, CallOK, NoCall
<1>7. Sound(clock) /\ clock \in 0..clock
  BY <1>4, <1>5, <1>6 DEF Sound, Init
<1> QED
  BY <1>1, <1>2, <1>3, <1>7 DEF IInv

\* Only the source moves its clock, and no item is ahead of it.
LEMMA SourceStep ==
    ASSUME TypeOK, TypeOK', SourceOK, [Next]_vars
    PROVE  SourceOK' /\ clock <= clock'
<1>0. clock \in Nat /\ clock' \in Nat /\ src \in [Items -> Times]
  BY DEF TypeOK, Times
<1>1. ASSUME NEW y \in Items, Change(y) PROVE SourceOK' /\ clock <= clock'
  <2>1. clock' = clock + 1
    BY <1>1 DEF Change
  <2>2. PICK t \in {0, clock + 1} : src' = [src EXCEPT ![y] = t]
    BY <1>1 DEF Change
  <2>3. \A x \in Items : src'[x] = src[x] \/ src'[x] = t
    BY <1>0, <2>2
  <2>4. \A x \in Items : src[x] \in Nat /\ src[x] <= clock
    BY <1>0 DEF SourceOK, Times
  <2>5. t \in Nat /\ t <= clock + 1
    BY <1>0, <2>2
  <2> QED
    BY <1>0, <2>1, <2>3, <2>4, <2>5 DEF SourceOK
<1>2. CASE UNCHANGED source
  BY <1>0, <1>2 DEF source, SourceOK
<1>3. ASSUME NEW a, Schedule(a) \/ SchedFails(a) PROVE UNCHANGED source
  BY <1>3 DEF Schedule, SchedRefused, SchedCheck, SchedSave, SchedFails
<1>4. ASSUME Request PROVE UNCHANGED source
  BY <1>4 DEF Request
<1>5. ASSUME NEW k, CancelRows(k) \/ ResumeSync(k) \/ ScheduleNew(k) \/ Forget(k)
                      \/ Delete(k) \/ ChangeLink(k)
      PROVE  UNCHANGED source
  BY <1>5 DEF CancelRows, ResumeSync, ScheduleNew, Forget, Delete, ChangeLink
<1>6. ASSUME Stop \/ Crash PROVE UNCHANGED source
  BY <1>6 DEF Stop, Crash
<1>7. ASSUME NEW D, Dispatch(D) PROVE UNCHANGED source
  BY <1>7 DEF Dispatch
<1>8. ASSUME NEW i, NEW B, NEW S, NEW booked, Store(i, B, S, booked)
      PROVE  UNCHANGED source
  BY <1>8 DEF Store
<1>9. ASSUME NEW i, Batch(i) \/ BatchFails(i) PROVE UNCHANGED source
  BY <1>8, <1>9 DEF Batch, BatchFails
<1>10. ASSUME NEW i, Start(i) \/ Snapshot(i) \/ Cleanup(i) \/ Done(i) \/ TaskFails(i)
       PROVE  UNCHANGED source
  BY <1>10 DEF Start, Snapshot, Cleanup, Done, TaskFails
<1>11. ASSUME NEW i, Generate(i) PROVE UNCHANGED source
  BY <1>11 DEF Generate
<1>12. ASSUME UNCHANGED vars PROVE UNCHANGED source
  BY <1>12 DEF vars, source
<1>13. Next => UNCHANGED source \/ \E y \in Items : Change(y)
  BY <1>3, <1>4, <1>5, <1>6, <1>7, <1>9, <1>10, <1>11 DEF Next, ApiStep, Step
<1> QED
  BY <1>1, <1>2, <1>12, <1>13

\* A step of the API server, for any window that is sound before.
LEMMA SoundApiStep ==
    ASSUME TypeOK, TypeOK', ScriptOK, NEW g \in Times, Sound(g),
           Request \/ ApiStep \/ SchedFails(Api)
    PROVE  Sound(g)'
<1>1. Api \in Callers
  BY DEF Callers
<1>2. CASE Schedule(Api) \/ SchedFails(Api)
  BY <1>1, <1>2, SoundSchedule
<1>3. ASSUME NEW k \in Kbs, CancelRows(k) \/ ResumeSync(k) \/ ScheduleNew(k) \/ Forget(k)
      PROVE  Sound(g)'
  BY <1>3, SoundApi
<1>4. ASSUME NEW k \in Kbs, Delete(k) PROVE Sound(g)'
  <2>1. script # <<>> /\ Head(script).op = "delete" /\ k \in Head(script).kbs
    BY <1>4 DEF Delete, Does
  <2>2. k \in overlap \/ Quiet(k)
    BY <2>1, ScriptCases
  <2> QED
    BY <1>4, <2>2, SoundDelete
<1>5. ASSUME UNCHANGED <<src, idx, skipped, overlap, logs, work, loop, calls>>
      PROVE  Sound(g)'
  <2>1. LaterOnly(g) /\ \A k \in Kbs : Calm(k, g)
    BY <1>5, CalmStill
  <2> QED
    BY <1>5, <2>1, StillSound
<1>6. CASE Request \/ Stop
  BY <1>5, <1>6 DEF Request, Stop, source, history
<1>7. ASSUME NEW k \in Kbs, ChangeLink(k) PROVE Sound(g)'
  BY <1>5, <1>7 DEF ChangeLink, source, history
<1> QED
  BY <1>2, <1>3, <1>4, <1>6, <1>7 DEF ApiStep

\* A step of the source or the worker; a fetch is measured against the present.
LEMMA SoundOther ==
    ASSUME TypeOK, TypeOK', SourceOK, NEW g \in Times, g <= clock, Sound(g), NotApi
    PROVE  Sound(g)' \/ Sound(clock)'
<1>1. ASSUME NEW i \in Slots, Generate(i) PROVE Sound(g)' \/ Sound(clock)'
  <2>1. loop = Nobody /\ clock \in Times /\ clock' = clock
    BY <1>1 DEF Generate, TypeOK, source
  <2>2. Sound(clock)
    BY <2>1, Raise
  <2>3. \A h \in Times : h = clock /\ Sound(h) => Sound(h)'
    BY <1>1, SoundGenerate
  <2> QED
    BY <2>1, <2>2, <2>3
<1>2. ASSUME NEW i \in Slots, Batch(i) \/ BatchFails(i) PROVE Sound(g)'
  <2>1. CASE Batch(i)
    <3>1. PICK B \in SUBSET Items : Store(i, B, B, TRUE)
      BY <2>1 DEF Batch
    <3>2. B \in SUBSET B
      OBVIOUS
    <3> QED
      BY <3>1, <3>2, SoundStore
  <2>2. CASE BatchFails(i)
    <3>1. PICK B \in SUBSET Items : \E S \in SUBSET B, booked \in BOOLEAN :
            Store(i, B, S, booked)
      BY <2>2 DEF BatchFails
    <3>2. PICK S \in SUBSET B, booked \in BOOLEAN : Store(i, B, S, booked)
      BY <3>1
    <3> QED
      BY <3>2, SoundStore
  <2> QED
    BY <1>2, <2>1, <2>2
<1>3. ASSUME NEW a \in Slots, Schedule(a) \/ SchedFails(a) PROVE Sound(g)'
  <2>1. a \in Callers
    BY DEF Callers
  <2> QED
    BY <1>3, <2>1, SoundSchedule
<1>4. ASSUME NEW D \in SUBSET Due, Dispatch(D) PROVE Sound(g)'
  BY <1>4, SoundDispatch
<1>5. ASSUME NEW x \in Items, Change(x) PROVE Sound(g)'
  BY <1>5, SoundChange
<1>6. ASSUME NEW i \in Slots,
             Start(i) \/ Snapshot(i) \/ Cleanup(i) \/ Done(i) \/ TaskFails(i)
      PROVE  Sound(g)'
  BY <1>6, SoundStart, SoundSnapshot, SoundCleanup, SoundDone, SoundTaskFails
<1>7. CASE Crash
  BY <1>7, SoundCrash
<1> QED
  BY <1>1, <1>2, <1>3, <1>4, <1>5, <1>6, <1>7 DEF NotApi, Step

LEMMA SoundStep == IInv /\ [Next]_vars => IInv'
<1> SUFFICES ASSUME IInv, [Next]_vars PROVE IInv'
  OBVIOUS
<1>1. TypeOK /\ SourceOK /\ ScriptOK
  BY DEF IInv
<1>2. TypeOK'
  BY <1>1, TypeStep
<1>3. SourceOK' /\ clock <= clock'
  BY <1>1, <1>2, SourceStep
<1>4. clock \in Times /\ clock' \in Times /\ \A h \in Times : h \in Nat
  BY <1>1, <1>2 DEF TypeOK, Times
<1>5. PICK g \in 0..clock : Sound(g)
  BY DEF IInv
<1>6. g \in Times /\ g <= clock /\ g \in 0..clock'
  <2>1. /\ clock \in Nat /\ clock' \in Nat /\ MaxClock \in Nat /\ g \in Nat
        /\ g <= clock /\ clock <= clock' /\ clock <= MaxClock
    BY <1>3, <1>4, <1>5, ConnectorSyncAssumption DEF Times
  <2> QED
    BY <2>1 DEF Times
<1>7. CASE UNCHANGED vars
  <2>1. ScriptOK'
    BY <1>1, <1>7 DEF vars, ScriptOK, NoDelete, Quiet, Running
  <2>2. LaterOnly(g) /\ \A k \in Kbs : Calm(k, g)
    BY <1>7, CalmStill DEF vars
  <2>3. Sound(g)'
    BY <1>1, <1>2, <1>5, <1>6, <1>7, <2>2, StillSound DEF vars
  <2> QED
    BY <1>2, <1>3, <1>6, <2>1, <2>3 DEF IInv
<1>8. CASE Request \/ ApiStep \/ SchedFails(Api)
  <2>1. ScriptOK'
    BY <1>1, <1>2, <1>8, ScriptRequest, ScriptApi
  <2>2. Sound(g)'
    BY <1>1, <1>2, <1>5, <1>6, <1>8, SoundApiStep
  <2> QED
    BY <1>2, <1>3, <1>6, <2>1, <2>2 DEF IInv
<1>9. CASE NotApi
  <2>1. ScriptOK'
    BY <1>1, <1>5, <1>9, ScriptNotApi
  <2>2. Sound(g)' \/ Sound(clock)'
    BY <1>1, <1>2, <1>5, <1>6, <1>9, SoundOther
  <2>3. clock' \in 0..clock'
    BY <1>4
  <2> QED
    BY <1>2, <1>3, <1>6, <2>1, <2>2, <2>3 DEF IInv
<1> QED
  BY <1>7, <1>8, <1>9 DEF Next, NotApi, Callers

LEMMA SoundAlways == Spec => []IInv
BY SoundInit, SoundStep, PTL DEF Spec

LEMMA SoundCovers == IInv => WindowSound
<1> SUFFICES ASSUME IInv, NEW k \in Kbs \ overlap, NEW n \in Scheduled(SyncOf(k))
             PROVE  /\ logs[SyncOf(k)][n].start \in Nat
                    /\ Reached(k, logs[SyncOf(k)][n].start)
  BY DEF WindowSound, Covered, Reached, SyncOf
<1>1. PICK g \in 0..clock : Sound(g)
  BY DEF IInv
<1>2. logs[SyncOf(k)] \in Seq(SoundRows(k, g)) /\ n \in DOMAIN logs[SyncOf(k)]
  BY <1>1 DEF Sound, Scheduled
<1>3. logs[SyncOf(k)][n] \in SoundRows(k, g)
  BY <1>2
<1> QED
  BY <1>3 DEF SoundRows, Window, Row, Times

\* No item of a source is lost behind a window (poll_range_start of the task that
\* is scheduled next): what changed up to it is indexed as it is in the source, or
\* was skipped by an error that was counted; whatever requests, failures, crashes
\* and changes of the source come between the fetch of _generate, done and
\* schedule, unless a rebuild deleted documents under a running sync.
THEOREM NothingBehindWindow == Spec => []WindowSound
BY SoundAlways, SoundCovers, PTL
-----------------------------------------------------------------------------
(***************************************************************************)
(* A dataset goes on being synchronised.                                   *)
(***************************************************************************)

\* The steps of the recursion in Pick.
LEMMA PickSteps ==
    ASSUME NEW Q, NEW q \in Seq(Q), NEW S
    PROVE  \E f : /\ Pick(q, S) = f[Len(q)] /\ f[0] = <<>>
                  /\ \A n \in 1..Len(q) :
                       f[n] = IF n \in S THEN Append(f[n - 1], q[n]) ELSE f[n - 1]
<1> DEFINE f == CHOOSE f : Upto(q, S, Len(q), f)
<1>1. Len(q) \in Nat
  OBVIOUS
<1>2. Upto(q, S, Len(q), f)
  BY <1>1, UptoExists
<1>3. Pick(q, S) = f[Len(q)]
  BY DEF Pick, Upto
<1> HIDE DEF f
<1>4. \A n \in 0..Len(q) :
        f[n] = IF n = 0 THEN <<>>
               ELSE IF n \in S THEN Append(f[n - 1], q[n]) ELSE f[n - 1]
  BY <1>2 DEF Upto
<1>5. f[0] = <<>>
  BY <1>1, <1>4
<1>6. ASSUME NEW n \in 1..Len(q)
      PROVE  f[n] = IF n \in S THEN Append(f[n - 1], q[n]) ELSE f[n - 1]
  <2>1. n \in 0..Len(q) /\ n # 0
    BY <1>1
  <2> QED
    BY <1>4, <2>1
<1> QED
  BY <1>3, <1>5, <1>6

LEMMA StepsSeq ==
    ASSUME NEW R, NEW q, NEW S, NEW N \in Nat, NEW f, f[0] = <<>>,
           \A n \in 1..N : f[n] = IF n \in S THEN Append(f[n - 1], q[n]) ELSE f[n - 1],
           \A n \in 1..N : n \in S => q[n] \in R
    PROVE  f[N] \in Seq(R)
<1> DEFINE T == {n \in 0..N : f[n] \notin Seq(R)}
<1>1. ASSUME NEW n \in 1..N, f[n - 1] \in Seq(R) PROVE f[n] \in Seq(R)
  <2>1. f[n] = IF n \in S THEN Append(f[n - 1], q[n]) ELSE f[n - 1]
    OBVIOUS
  <2>2. CASE n \in S
    BY <1>1, <2>1, <2>2
  <2>3. CASE n \notin S
    BY <1>1, <2>1, <2>3
  <2> QED
    BY <2>2, <2>3
<1>2. ASSUME T # {} PROVE FALSE
  <2>0. T \subseteq Nat
    OBVIOUS
  <2>1. PICK m \in T : \A n \in T : m <= n
    BY <1>2, <2>0, Least
  <2>2. m # 0
    BY <2>1, EmptyType
  <2>3. m \in 1..N /\ m - 1 \in 0..N /\ ~(m <= m - 1)
    BY <2>1, <2>2
  <2>4. f[m - 1] \in Seq(R)
    BY <2>1, <2>3
  <2> QED
    BY <1>1, <2>1, <2>3, <2>4
<1> QED
  BY <1>2

\* When the last row is picked, it is the last of those picked.
LEMMA PickLast ==
    ASSUME NEW Q, NEW q \in Seq(Q), q # <<>>, NEW S, Len(q) \in S, NEW R,
           \A n \in 1..(Len(q) - 1) : n \in S => q[n] \in R
    PROVE  \E p \in Seq(R) : Pick(q, S) = Append(p, q[Len(q)])
<1>1. PICK f : /\ Pick(q, S) = f[Len(q)] /\ f[0] = <<>>
               /\ \A n \in 1..Len(q) :
                    f[n] = IF n \in S THEN Append(f[n - 1], q[n]) ELSE f[n - 1]
  BY PickSteps
<1>2. Len(q) \in Nat /\ Len(q) # 0
  BY EmptySeq
<1>3. Len(q) - 1 \in Nat /\ Len(q) \in 1..Len(q) /\ 1..(Len(q) - 1) \subseteq 1..Len(q)
  BY <1>2
<1>4. f[Len(q)] = Append(f[Len(q) - 1], q[Len(q)])
  BY <1>1, <1>3
<1>5. f[Len(q) - 1] \in Seq(R)
  <2> DEFINE N == Len(q) - 1
  <2>1. \A n \in 1..N : f[n] = IF n \in S THEN Append(f[n - 1], q[n]) ELSE f[n - 1]
    BY <1>1, <1>3
  <2>2. N \in Nat /\ \A n \in 1..N : n \in S => q[n] \in R
    BY <1>3
  <2> HIDE DEF N
  <2>3. f[N] \in Seq(R)
    BY <1>1, <2>1, <2>2, StepsSeq
  <2> QED
    BY <2>3 DEF N
<1> QED
  BY <1>1, <1>4, <1>5

\* Something is picked where there is something to pick.
LEMMA PickSome ==
    ASSUME NEW Q, NEW q \in Seq(Q), NEW S, NEW m \in 1..Len(q), m \in S
    PROVE  Pick(q, S) # <<>>
<1>1. PICK f : /\ Pick(q, S) = f[Len(q)] /\ f[0] = <<>>
               /\ \A n \in 1..Len(q) :
                    f[n] = IF n \in S THEN Append(f[n - 1], q[n]) ELSE f[n - 1]
  BY PickSteps
<1>2. ASSUME NEW n \in 1..Len(q) PROVE f[n - 1] \in Seq(Q) /\ f[n] \in Seq(Q)
  <2>1. ASSUME NEW j \in 0..Len(q) PROVE f[j] \in Seq(Q)
    <3>1. j \in Nat /\ 1..j \subseteq 1..Len(q) /\ \A i \in 1..Len(q) : q[i] \in Q
      OBVIOUS
    <3> QED
      BY <1>1, <3>1, StepsSeq
  <2> QED
    BY <2>1
<1>3. ASSUME NEW n \in 1..Len(q), n \in S PROVE f[n] # <<>>
  <2>1. f[n] = Append(f[n - 1], q[n])
    BY <1>1, <1>3
  <2>2. f[n - 1] \in Seq(Q) /\ q[n] \in Q
    BY <1>2
  <2> QED
    BY <2>1, <2>2
<1>4. ASSUME NEW n \in 1..Len(q), f[n - 1] # <<>> PROVE f[n] # <<>>
  <2>1. f[n] = IF n \in S THEN Append(f[n - 1], q[n]) ELSE f[n - 1]
    BY <1>1
  <2> QED
    BY <1>3, <1>4, <2>1
<1> DEFINE T == {n \in m..Len(q) : f[n] = <<>>}
<1>5. ASSUME T # {} PROVE FALSE
  <2>0. T \subseteq Nat
    OBVIOUS
  <2>1. PICK n \in T : \A j \in T : n <= j
    BY <1>5, <2>0, Least
  <2>2. n # m
    BY <1>3, <2>1
  <2>3. n \in 1..Len(q) /\ n - 1 \in m..Len(q) /\ ~(n <= n - 1)
    BY <2>1, <2>2
  <2> QED
    BY <1>4, <2>1, <2>3
<1>6. Len(q) \in m..Len(q)
  OBVIOUS
<1> QED
  BY <1>1, <1>5, <1>6

\* The row that was updated last is kept.
LEMMA RelevantLast ==
    ASSUME NEW Q, NEW q \in Seq(Q), q # <<>>, NEW R, \A n \in 1..(Len(q) - 1) : q[n] \in R
    PROVE  \E p \in Seq(R) : Relevant(q) = Append(p, q[Len(q)])
<1> DEFINE S == {n \in DOMAIN q :
                   q[n].owner # Nobody \/ q[n].status = "schedule" \/ n = Len(q)}
<1>1. Len(q) \in S
  <2>1. Len(q) \in Nat /\ Len(q) # 0 /\ DOMAIN q = 1..Len(q)
    BY EmptySeq
  <2> QED
    BY <2>1
<1>2. Relevant(q) = Pick(q, S)
  BY DEF Relevant
<1> HIDE DEF S
<1> QED
  BY <1>1, <1>2, PickLast

LastRow(q) == q[Len(q)]
Stops(q) == q # <<>> /\ LastRow(q).status = "cancel"

LEMMA AppendLast ==
    ASSUME NEW R, NEW p \in Seq(R), NEW e \in R
    PROVE  /\ Append(p, e) # <<>> /\ LastRow(Append(p, e)) = e
           /\ Append(p, e) \in Seq(R)
           /\ DOMAIN Append(p, e) = 1..(Len(p) + 1)
           /\ \A n \in 1..Len(p) : Append(p, e)[n] = p[n]
BY DEF LastRow

\* _cancel of a dataset leaves a cancelled row as the last one, if there was
\* one, or one to cancel.
LEMMA CancelStops ==
    ASSUME NEW q \in Seq(Row), Stops(q) \/ \E n \in DOMAIN q : q[n].status = "schedule"
    PROVE  Stops(Updated(q, Live(q), CancelledRow))
<1> DEFINE hit == Live(q)
           f == [n \in DOMAIN q |-> CancelledRow[q[n]]]
           a == Pick(q, DOMAIN q \ hit)
           b == Pick(f, hit)
           R == {r \in Row : r.status = "cancel"}
<1>0. /\ DOMAIN q = 1..Len(q) /\ Len(q) \in Nat /\ \A n \in DOMAIN q : q[n] \in Row
      /\ Len(q) # 0
  BY EmptySeq DEF Stops
<1>1. \A r \in Row : CancelledRow[r] \in R
  BY DEF CancelledRow, Row, Statuses
<1>2. \A n \in DOMAIN q : f[n] \in R
  BY <1>0, <1>1
<1>3. f \in Seq(R) /\ Len(f) = Len(q)
  <2>1. f = [n \in 1..Len(q) |-> f[n]]
    BY <1>0
  <2> HIDE DEF f, R
  <2> QED
    BY <1>0, <1>2, <2>1
<1>4. Updated(q, hit, CancelledRow) = Relevant(a \o b)
  BY DEF Updated
<1> HIDE DEF f
<1>5. a \in Seq(Row) /\ b \in Seq(R)
  <2>1. \A n \in 1..Len(f) : f[n] \in R
    BY <1>3
  <2> HIDE DEF R
  <2> QED
    BY <1>0, <1>3, <2>1, PickSeq
<1>6. R \subseteq Row
  OBVIOUS
<1>7. /\ a \o b \in Seq(Row) /\ a \o b # <<>>
      /\ LastRow(a \o b).status = "cancel"
  <2>1. CASE hit # {}
    <3>1. PICK m \in 1..Len(q) : m \in hit
      BY <1>0, <2>1 DEF Live
    <3>2. b # <<>>
      BY <1>3, <3>1, PickSome
    <3>3. Len(b) \in Nat /\ Len(b) # 0
      BY <1>5, <3>2, EmptySeq
    <3> HIDE DEF a, b, hit
    <3>4. b[Len(b)] \in R /\ b \in Seq(Row)
      BY <1>5, <3>3
    <3> HIDE DEF R
    <3>5. /\ a \o b \in Seq(Row) /\ Len(a \o b) = Len(a) + Len(b)
          /\ (a \o b)[Len(b) + Len(a)] = b[Len(b)]
      BY <1>5, <3>3, <3>4, ConcatAt
    <3>6. Len(a) \in Nat /\ Len(a \o b) = Len(b) + Len(a) /\ Len(a \o b) # 0
      BY <1>5, <3>3, <3>5
    <3>7. a \o b # <<>>
      BY <3>5, <3>6, EmptySeq
    <3> QED
      BY <3>4, <3>5, <3>6, <3>7 DEF LastRow, R
  <2>2. CASE hit = {}
    <3>1. b = <<>>
      <4>1. b \in Seq({})
        BY <1>3, <2>2, PickSeq
      <4> QED
        BY <4>1, OnlyEmpty
    <3>2. Stops(q)
      BY <2>2 DEF Live
    <3>3. PICK p \in Seq(Row) : a = Append(p, q[Len(q)])
      <4>1. Len(q) \in DOMAIN q \ hit /\ q # <<>>
        BY <1>0, <2>2, <3>2 DEF Stops
      <4>2. \A n \in 1..(Len(q) - 1) : n \in DOMAIN q \ hit => q[n] \in Row
        BY <1>0
      <4> HIDE DEF hit
      <4> QED
        BY <4>1, <4>2, PickLast
    <3>4. q[Len(q)] \in Row
      BY <1>0
    <3> HIDE DEF a, b
    <3>5. a \o b = a
      BY <1>5, <3>1, ConcatEmptySeq
    <3> QED
      BY <1>5, <3>2, <3>3, <3>4, <3>5, AppendLast DEF Stops, LastRow
  <2> QED
    BY <2>1, <2>2
<1> DEFINE s == a \o b
<1>8. s \in Seq(Row) /\ s # <<>> /\ LastRow(s).status = "cancel"
  BY <1>7
<1> HIDE DEF a, b, R, hit, s
<1>9. Len(s) \in Nat /\ Len(s) # 0 /\ \A n \in 1..Len(s) : s[n] \in Row
  BY <1>8, EmptySeq
<1>10. PICK p \in Seq(Row) : Relevant(s) = Append(p, s[Len(s)])
  <2>1. \A n \in 1..(Len(s) - 1) : s[n] \in Row
    BY <1>9
  <2> QED
    BY <1>8, <2>1, RelevantLast
<1>11. s[Len(s)] \in Row
  BY <1>9
<1>12. Stops(Relevant(s))
  BY <1>8, <1>10, <1>11, AppendLast DEF Stops, LastRow
<1> QED
  BY <1>4, <1>12 DEF s, hit
-----------------------------------------------------------------------------
\* The statements the API server still has to do: after a link or the first half
\* of a rebuild the dataset is scheduled anew.
Schedules(st, k) == st.op \in {"reindex", "resume"} /\ k \in st.kbs
Promised(s, k) == \E n \in DOMAIN s : Schedules(s[n], k)
Owes(s) ==
    \A n \in DOMAIN s : \A k \in s[n].kbs : s[n].op \in {"link", "forget"} =>
        \E m \in DOMAIN s : m > n /\ Schedules(s[m], k)

LEMMA PromisedConcat ==
    ASSUME NEW s \in Seq(Statement), NEW t \in Seq(Statement), NEW k,
           Promised(s, k) \/ Promised(t, k)
    PROVE  Promised(s \o t, k)
<1>1. /\ s \o t \in Seq(Statement) /\ Len(s \o t) = Len(s) + Len(t)
      /\ \A n \in 1..Len(s) : (s \o t)[n] = s[n]
      /\ \A n \in 1..Len(t) : (s \o t)[n + Len(s)] = t[n]
  BY ConcatAt
<1>2. /\ DOMAIN s = 1..Len(s) /\ DOMAIN t = 1..Len(t)
      /\ DOMAIN (s \o t) = 1..(Len(s) + Len(t)) /\ Len(s) \in Nat /\ Len(t) \in Nat
  BY <1>1
<1>3. CASE Promised(s, k)
  <2>1. PICK n \in 1..Len(s) : Schedules(s[n], k)
    BY <1>2, <1>3 DEF Promised
  <2>2. n \in 1..(Len(s) + Len(t))
    BY <1>2
  <2> QED
    BY <1>1, <1>2, <2>1, <2>2 DEF Promised
<1>4. CASE Promised(t, k)
  <2>1. PICK n \in 1..Len(t) : Schedules(t[n], k)
    BY <1>2, <1>4 DEF Promised
  <2>2. n + Len(s) \in 1..(Len(s) + Len(t))
    BY <1>2
  <2> QED
    BY <1>1, <1>2, <2>1, <2>2 DEF Promised
<1> QED
  BY <1>3, <1>4

LEMMA PromisedTail ==
    ASSUME NEW s \in Seq(Statement), s # <<>>, NEW k
    PROVE  /\ Promised(s, k) => Schedules(Head(s), k) \/ Promised(Tail(s), k)
           /\ Owes(s) => Owes(Tail(s))
           /\ Owes(s) /\ Head(s).op \in {"link", "forget"} /\ k \in Head(s).kbs
                => Promised(Tail(s), k)
<1>0. Len(s) \in Nat /\ Len(s) > 0
  BY EmptySeq
<1>1. /\ Tail(s) \in Seq(Statement) /\ Len(Tail(s)) = Len(s) - 1
      /\ \A n \in 1..(Len(s) - 1) : Tail(s)[n] = s[n + 1]
      /\ Head(s) = s[1]
  BY <1>0, TailAt
<1>2. DOMAIN s = 1..Len(s) /\ DOMAIN Tail(s) = 1..(Len(s) - 1)
  BY <1>1
<1> DEFINE t == Tail(s)
<1>3. /\ \A n \in 1..Len(s) : n # 1 => n - 1 \in 1..(Len(s) - 1) /\ t[n - 1] = s[n]
      /\ \A n \in 1..(Len(s) - 1) : n + 1 \in 1..Len(s) /\ t[n] = s[n + 1]
  BY <1>0, <1>1
<1> HIDE DEF t
<1>4. Promised(s, k) => Schedules(Head(s), k) \/ Promised(t, k)
  BY <1>1, <1>2, <1>3 DEF Promised, t
<1>5. ASSUME Owes(s) PROVE Owes(t)
  <2> SUFFICES ASSUME NEW n \in 1..(Len(s) - 1), NEW l \in t[n].kbs,
                      t[n].op \in {"link", "forget"}
               PROVE  \E m \in 1..(Len(s) - 1) : m > n /\ Schedules(t[m], l)
    BY <1>2 DEF Owes, t
  <2>1. n + 1 \in 1..Len(s) /\ t[n] = s[n + 1]
    BY <1>3
  <2>2. PICK m \in 1..Len(s) : m > n + 1 /\ Schedules(s[m], l)
    BY <1>2, <1>5, <2>1 DEF Owes
  <2>3. m # 1 /\ m - 1 > n
    BY <2>2
  <2> QED
    BY <1>3, <2>2, <2>3
<1>6. ASSUME Owes(s), Head(s).op \in {"link", "forget"}, k \in Head(s).kbs
      PROVE  Promised(t, k)
  <2>1. PICK m \in 1..Len(s) : m > 1 /\ Schedules(s[m], k)
    <3>1. 1 \in 1..Len(s)
      BY <1>0
    <3> QED
      BY <1>1, <1>2, <1>6, <3>1 DEF Owes
  <2>2. m # 1
    BY <2>1
  <2> QED
    BY <1>2, <1>3, <2>1, <2>2 DEF Promised, t
<1> QED
  BY <1>4, <1>5, <1>6 DEF t

\* What s owes, t does.
LEMMA OwesConcat ==
    ASSUME NEW s \in Seq(Statement), NEW t \in Seq(Statement), Owes(t),
           \A n \in DOMAIN s : \A k \in s[n].kbs :
               s[n].op \in {"link", "forget"} => Promised(t, k)
    PROVE  Owes(s \o t)
<1>1. /\ s \o t \in Seq(Statement) /\ Len(s \o t) = Len(s) + Len(t)
      /\ \A n \in 1..Len(s) : (s \o t)[n] = s[n]
      /\ \A n \in 1..Len(t) : (s \o t)[n + Len(s)] = t[n]
  BY ConcatAt
<1>2. /\ DOMAIN s = 1..Len(s) /\ DOMAIN t = 1..Len(t)
      /\ DOMAIN (s \o t) = 1..(Len(s) + Len(t)) /\ Len(s) \in Nat /\ Len(t) \in Nat
  BY <1>1
<1> DEFINE u == s \o t
<1> HIDE DEF u
<1> SUFFICES ASSUME NEW n \in 1..(Len(s) + Len(t)), NEW k \in u[n].kbs,
                    u[n].op \in {"link", "forget"}
             PROVE  \E m \in 1..(Len(s) + Len(t)) : m > n /\ Schedules(u[m], k)
  BY <1>2 DEF Owes, u
<1>3. CASE n \in 1..Len(s)
  <2>1. Promised(t, k)
    BY <1>1, <1>2, <1>3 DEF u
  <2>2. PICK m \in 1..Len(t) : Schedules(t[m], k)
    BY <1>2, <2>1 DEF Promised
  <2>3. m + Len(s) \in 1..(Len(s) + Len(t)) /\ m + Len(s) > n
    BY <1>2, <1>3
  <2> QED
    BY <1>1, <2>2, <2>3 DEF u
<1>4. CASE n \notin 1..Len(s)
  <2>1. n - Len(s) \in 1..Len(t) /\ (n - Len(s)) + Len(s) = n
    BY <1>2, <1>4
  <2>2. u[n] = t[n - Len(s)]
    BY <1>1, <2>1 DEF u
  <2>3. PICK m \in 1..Len(t) : m > n - Len(s) /\ Schedules(t[m], k)
    BY <1>2, <2>1, <2>2 DEF Owes
  <2>4. m + Len(s) \in 1..(Len(s) + Len(t)) /\ m + Len(s) > n
    BY <1>2, <2>3
  <2> QED
    BY <1>1, <2>3, <2>4 DEF u
<1> QED
  BY <1>3, <1>4

LEMMA EachOwes ==
    ASSUME NEW op \in Ops, NEW S \in SUBSET Kbs
    PROVE  /\ Each(op, S) \in Seq(Statement)
           /\ op \notin {"link", "forget"} =>
                \A n \in DOMAIN Each(op, S) : Each(op, S)[n].op \notin {"link", "forget"}
           /\ \A n \in DOMAIN Each(op, S) :
                \A k \in Each(op, S)[n].kbs : op = Each(op, S)[n].op /\ k \in S
           /\ op \in {"reindex", "resume"} => \A k \in S : Promised(Each(op, S), k)
<1>1. CASE S = {}
  BY <1>1, EachType DEF Each
<1>2. CASE S # {}
  <2> DEFINE e == [op |-> op, kbs |-> S]
  <2>1. Each(op, S) = <<e>> /\ e.op = op /\ e.kbs = S
    BY <1>2 DEF Each
  <2> HIDE DEF e
  <2>2. DOMAIN <<e>> = {1} /\ <<e>>[1] = e
    OBVIOUS
  <2> QED
    BY <2>1, <2>2, EachType DEF Promised, Schedules
<1> QED
  BY <1>1, <1>2

LEMMA PlainOwes ==
    ASSUME NEW s, \A n \in DOMAIN s : s[n].op \notin {"link", "forget"}
    PROVE  Owes(s)
BY DEF Owes

LEMMA PlainConcat ==
    ASSUME NEW s \in Seq(Statement), NEW t \in Seq(Statement), Owes(t),
           \A n \in DOMAIN s : s[n].op \notin {"link", "forget"}
    PROVE  Owes(s \o t)
BY OwesConcat

LEMMA PruningOwes ==
    ASSUME NEW k \in Kbs
    PROVE  /\ Pruning(k) \in Seq(Statement)
           /\ \A n \in DOMAIN Pruning(k) : Pruning(k)[n].op \notin {"link", "forget"}
<1>1. "prune" \in Ops /\ {k} \in SUBSET Kbs
  BY DEF Ops
<1> QED
  BY <1>1, EachOwes, EmptyType DEF Pruning

\* A statement is done for one dataset.
LEMMA AfterOwes ==
    ASSUME TypeOK, script # <<>>, Owes(script), NEW k \in Kbs
    PROVE  /\ Owes(Tail(script)) /\ Owes(After(k)) /\ Owes(Pruning(k) \o After(k))
           /\ \A l \in Kbs :
                Promised(script, l) /\ (l # k \/ Head(script).op \notin {"reindex", "resume"})
                  => Promised(After(k), l) /\ Promised(Pruning(k) \o After(k), l)
           /\ \A l \in Kbs : Promised(script, l) /\ Head(script).op = "stop"
                  => Promised(Tail(script), l)
           /\ Head(script).op \in {"link", "forget"} /\ k \in Head(script).kbs
                  => Promised(After(k), k)
<1> DEFINE op == Head(script).op
           S == Head(script).kbs \ {k}
           t == Tail(script)
           e == Each(op, S)
<1>1. script \in Seq(Statement)
  BY DEF TypeOK, Statement
<1>2. Head(script) \in Statement /\ t \in Seq(Statement)
  BY <1>1
<1>3. op \in Ops /\ S \in SUBSET Kbs
  BY <1>2 DEF Statement
<1>4. After(k) = e \o t
  BY DEF After
<1>5. /\ Owes(t)
      /\ \A l : Promised(script, l) => Schedules(Head(script), l) \/ Promised(t, l)
      /\ \A l : op \in {"link", "forget"} /\ l \in Head(script).kbs => Promised(t, l)
  BY <1>1, PromisedTail
<1>7. \A l \in S : l \in Head(script).kbs
  OBVIOUS
<1>8. \A l \in Head(script).kbs : l # k => l \in S
  OBVIOUS
<1> HIDE DEF op, S, t
<1>6. /\ e \in Seq(Statement)
      /\ \A n \in DOMAIN e : \A l \in e[n].kbs : op = e[n].op /\ l \in S
      /\ op \in {"reindex", "resume"} => \A l \in S : Promised(e, l)
  BY <1>3, EachOwes
<1> HIDE DEF e
<1>9. Owes(e \o t)
  <2>1. \A n \in DOMAIN e : \A l \in e[n].kbs :
          e[n].op \in {"link", "forget"} => Promised(t, l)
    BY <1>5, <1>6, <1>7
  <2> QED
    BY <1>2, <1>5, <1>6, <2>1, OwesConcat
<1>10. After(k) \in Seq(Statement)
  BY <1>2, <1>4, <1>6, ConcatType
<1>11. Owes(Pruning(k) \o After(k))
  BY <1>4, <1>9, <1>10, PruningOwes, PlainConcat
<1>12. \A l : Promised(e, l) \/ Promised(t, l) => Promised(After(k), l)
  BY <1>2, <1>4, <1>6, PromisedConcat
<1>13. \A l : Promised(After(k), l) => Promised(Pruning(k) \o After(k), l)
  BY <1>10, PruningOwes, PromisedConcat
<1>14. ASSUME NEW l \in Kbs, Promised(script, l), l # k \/ op \notin {"reindex", "resume"}
       PROVE  Promised(e, l) \/ Promised(t, l)
  <2>1. CASE Promised(t, l)
    BY <2>1
  <2>2. CASE Schedules(Head(script), l)
    <3>1. op \in {"reindex", "resume"} /\ l \in Head(script).kbs
      BY <2>2 DEF Schedules, op
    <3> QED
      BY <1>6, <1>8, <1>14, <3>1
  <2> QED
    BY <1>5, <1>14, <2>1, <2>2
<1>15. ASSUME NEW l \in Kbs, Promised(script, l), op = "stop" PROVE Promised(t, l)
  <2>1. ~Schedules(Head(script), l)
    BY <1>15 DEF Schedules, op
  <2> QED
    BY <1>5, <1>15, <2>1
<1>16. op \in {"link", "forget"} /\ k \in Head(script).kbs => Promised(After(k), k)
  BY <1>5, <1>12
<1> QED
  BY <1>4, <1>5, <1>9, <1>11, <1>12, <1>13, <1>14, <1>15, <1>16 DEF op, t

LEMMA RequestOwes ==
    ASSUME TypeOK, Request PROVE Owes(script')
<1>1. linked \in SUBSET Kbs
  BY DEF TypeOK
<1> DEFINE Plain(s) == \A n \in DOMAIN s : s[n].op \notin {"link", "forget"}
<1>2. ASSUME NEW op \in Ops \ {"link", "forget"}, NEW S \in SUBSET Kbs
      PROVE  Each(op, S) \in Seq(Statement) /\ Plain(Each(op, S))
  BY EachOwes
<1>3. Resume \in Seq(Statement) /\ Plain(Resume)
  BY <1>1, <1>2 DEF Resume, Ops
<1>4. Each("cancel", linked) \in Seq(Statement) /\ Plain(Each("cancel", linked))
  BY <1>1, <1>2 DEF Ops
<1>5. /\ <<[op |-> "stop", kbs |-> {}]>> \in Seq(Statement)
      /\ Plain(<<[op |-> "stop", kbs |-> {}]>>)
  BY DEF Statement, Ops
<1>6. Cancel \in Seq(Statement) /\ Plain(Cancel)
  BY <1>4, <1>5, ConcatType DEF Cancel
<1>7. Owes(Cancel) /\ Owes(Resume) /\ Owes(Cancel \o Resume)
  BY <1>3, <1>6, PlainOwes, PlainConcat
<1>8. ASSUME NEW k \in Kbs PROVE Owes(Rebuild(k)) /\ Owes(Unlink(k)) /\ Owes(Link(k))
  <2> DEFINE f == Each("forget", {k})
             d == Each("delete", {k})
             r == Each("reindex", {k})
             l == Each("link", {k})
             u == Each("unlink", {k})
             c == Each("cancel", {k})
             p == Pruning(k)
  <2>1. /\ Rebuild(k) = f \o d \o r \o p /\ Unlink(k) = u \o c
        /\ Link(k) = l \o r \o p
    BY DEF Rebuild, Unlink, Link
  <2>2. {k} \in SUBSET Kbs
    OBVIOUS
  <2>3. /\ d \in Seq(Statement) /\ Plain(d) /\ r \in Seq(Statement) /\ Plain(r)
        /\ u \in Seq(Statement) /\ Plain(u) /\ c \in Seq(Statement) /\ Plain(c)
        /\ p \in Seq(Statement) /\ Plain(p)
    BY <1>2, <2>2, PruningOwes DEF Ops
  <2>4. f \in Seq(Statement) /\ l \in Seq(Statement)
    BY <2>2, EachType DEF Ops
  <2>5. /\ \A n \in DOMAIN f : \A j \in f[n].kbs : j = k
        /\ \A n \in DOMAIN l : \A j \in l[n].kbs : j = k
    <3>1. ASSUME NEW op \in Ops
          PROVE  \A n \in DOMAIN Each(op, {k}) : \A j \in Each(op, {k})[n].kbs : j = k
      <4>1. \A n \in DOMAIN Each(op, {k}) : \A j \in Each(op, {k})[n].kbs : j \in {k}
        BY <2>2, EachOwes
      <4> QED
        BY <4>1
    <3> QED
      BY <3>1 DEF Ops
  <2>6. Promised(r, k)
    BY <2>2, EachOwes DEF Ops
  <2> HIDE DEF f, d, r, l, u, c, p
  <2>7. r \o p \in Seq(Statement) /\ Owes(r \o p) /\ Promised(r \o p, k)
    BY <2>3, <2>6, ConcatType, PlainOwes, PlainConcat, PromisedConcat
  <2> DEFINE rp == r \o p
             drp == d \o rp
  <2>14. rp \in Seq(Statement)
    BY <2>7
  <2> HIDE DEF rp
  <2>8. drp \in Seq(Statement) /\ Owes(drp) /\ Promised(drp, k)
    BY <2>3, <2>7, ConcatType, PlainConcat, PromisedConcat DEF rp
  <2> HIDE DEF drp
  <2>9. Owes(f \o drp)
    BY <2>4, <2>5, <2>8, OwesConcat
  <2>10. Owes(l \o rp)
    BY <2>4, <2>5, <2>7, OwesConcat DEF rp
  <2>11. l \o r \o p = l \o (r \o p)
    BY <2>3, <2>4, ConcatAssociative
  <2>12. f \o d \o r \o p = f \o (d \o (r \o p))
    <3>1. f \o d \in Seq(Statement)
      BY <2>3, <2>4, ConcatType
    <3>2. (f \o d) \o r \o p = (f \o d) \o (r \o p)
      BY <2>3, <3>1, ConcatAssociative
    <3>3. (f \o d) \o rp = f \o (d \o rp)
      <4>1. f \in Seq(Statement) /\ d \in Seq(Statement) /\ rp \in Seq(Statement)
        BY <2>3, <2>4, <2>14
      <4>2. \A x, y, z \in Seq(Statement) : (x \o y) \o z = x \o (y \o z)
        BY ConcatAssociative
      <4> QED
        BY <4>1, <4>2, Zenon
    <3> QED
      BY <3>2, <3>3 DEF rp
  <2>13. Owes(u \o c)
    BY <2>3, PlainOwes, PlainConcat
  <2> QED
    BY <2>1, <2>9, <2>10, <2>11, <2>12, <2>13 DEF rp, drp
<1>9. \/ script' \in {Cancel, Resume, Cancel \o Resume}
      \/ \E k \in Kbs : script' = Rebuild(k)
      \/ \E k \in Kbs : script' = Unlink(k)
      \/ \E k \in Kbs : script' = Link(k)
  BY <1>1 DEF Request
<1> QED
  BY <1>7, <1>8, <1>9
-----------------------------------------------------------------------------
\* While nothing failed and schedule met no task of the kind under way: there is
\* one row to run for a kind, or one coroutine that runs it, and then its row is
\* the one that it took.
One(kind) == \A m, n \in Scheduled(kind) : m = n
Active(i, kind) == work[i].pc # "none" /\ work[i].kind = kind
Lone(kind) == \A i, j \in Slots : Active(i, kind) /\ Active(j, kind) => i = j
Begun(kind) ==
    \A i \in Slots, n \in Scheduled(kind) :
        Active(i, kind) => work[i].pc = "start" /\ logs[kind][n].owner = i

\* The status of the connector lets scheduled rows be found, is about to be set
\* by a coroutine, or was set by a user.
StatusOK ==
    \/ status \in {"schedule", "cancel"}
    \/ \E i \in Slots : work[i].pc \notin {"none", "start"}
    \/ \A kind \in Kinds : Scheduled(kind) = {}

\* The next synchronisation of k is scheduled, under way or about to be
\* scheduled, or its last one was cancelled.
Alive(k) ==
    \/ Scheduled(SyncOf(k)) # {}
    \/ \E i \in Slots : Active(i, SyncOf(k))
    \/ calls[Api].at # "none" /\ calls[Api].kind = SyncOf(k)
    \/ Promised(script, k)
    \/ Stops(logs[SyncOf(k)])

Orderly ==
    /\ StatusOK
    /\ \A kind \in Kinds : One(kind) /\ Lone(kind) /\ Begun(kind)
    /\ \A k \in linked : Alive(k)

GoesOn == faults > 0 \/ doubled # {} \/ (Orderly /\ Owes(script))

Unscheduled == {r \in Row : r.status # "schedule"}

LEMMA NoneScheduled ==
    ASSUME NEW kind, logs'[kind] \in Seq(Unscheduled)
    PROVE  Scheduled(kind)' = {}
<1>1. \A n \in DOMAIN logs'[kind] : logs'[kind][n] \in Unscheduled
  OBVIOUS
<1> QED
  BY <1>1 DEF Scheduled, Unscheduled

LEMMA ScheduledRows ==
    ASSUME TypeOK, NEW kind \in Kinds, NEW Q, \A n \in Scheduled(kind) : logs[kind][n] \in Q
    PROVE  logs[kind] \in Seq(Unscheduled \cup (Q \cap Row))
<1>1. logs[kind] \in Seq(Row)
  BY DEF TypeOK
<1>2. \A n \in DOMAIN logs[kind] : logs[kind][n] \in Unscheduled \cup (Q \cap Row)
  BY <1>1 DEF Scheduled, Unscheduled
<1> QED
  BY <1>1, <1>2

\* A coroutine that updates its rows leaves none scheduled.
LEMMA OwnRows ==
    ASSUME TypeOK, NEW i \in Slots, work[i].pc # "none", Begun(work[i].kind),
           NEW K \in Kinds, work[i].kind = K, NEW F \in [Row -> Row], Wrote(i, F),
           \/ work[i].pc = "start" /\ F = StartedRow
           \/ work[i].pc # "start" /\ \A r \in Unscheduled : F[r] \in Unscheduled
    PROVE  /\ Scheduled(K)' = {}
           /\ \A kind \in Kinds : kind # K => logs'[kind] = logs[kind]
<1>0. Active(i, K) /\ Begun(K)
  BY DEF Active
<1>1. \A kind \in Kinds : kind # K => logs'[kind] = logs[kind]
  BY <1>0 DEF Wrote, TypeOK
<1> DEFINE Mine == {r \in Row : r.owner = i}
<1>2. CASE work[i].pc = "start" /\ F = StartedRow
  <2>1. \A n \in Scheduled(K) : logs[K][n] \in Mine
    <3>1. logs[K] \in Seq(Row)
      BY <1>0 DEF TypeOK
    <3>2. \A n \in Scheduled(K) : logs[K][n] \in Row /\ logs[K][n].owner = i
      BY <1>0, <3>1 DEF Begun, Scheduled
    <3> QED
      BY <3>2
  <2> DEFINE Q == Unscheduled \cup (Mine \cap Row)
  <2>2. logs[K] \in Seq(Q)
    BY <1>0, <2>1, ScheduledRows
  <2>3. \A r \in Row : StartedRow[r] \in Unscheduled
    <3>1. StartedRow \in [Row -> Row]
      BY RowFunctions
    <3>2. \A r \in Row : StartedRow[r].status = "running"
      BY DEF StartedRow, Row
    <3> QED
      BY <3>1, <3>2 DEF Unscheduled
  <2>4. Q \subseteq Row /\ \A r \in Q : r.owner # i => r \in Unscheduled
    BY DEF Unscheduled
  <2> HIDE DEF Q
  <2>5. logs'[K] \in Seq(Unscheduled)
    BY <1>0, <1>2, <2>2, <2>3, <2>4, WroteSeq
  <2> QED
    BY <1>1, <2>5, NoneScheduled
<1>3. CASE work[i].pc # "start" /\ \A r \in Unscheduled : F[r] \in Unscheduled
  <2>1. \A n \in Scheduled(K) : logs[K][n] \in {}
    BY <1>0, <1>3 DEF Begun
  <2>2. logs[K] \in Seq(Unscheduled)
    <3>1. Unscheduled \cup ({} \cap Row) = Unscheduled
      OBVIOUS
    <3> QED
      BY <1>0, <2>1, <3>1, ScheduledRows
  <2>3. Unscheduled \subseteq Row
    BY DEF Unscheduled
  <2>4. logs'[K] \in Seq(Unscheduled)
    BY <1>0, <1>3, <2>2, <2>3, WroteSeq
  <2> QED
    BY <1>1, <2>4, NoneScheduled
<1> QED
  BY <1>2, <1>3

\* A coroutine goes on after its start.
LEMMA OrderlyOwn ==
    ASSUME TypeOK, TypeOK', Orderly, NEW i \in Slots, NEW K \in Kinds, Active(i, K),
           work'[i].kind = K, work'[i].pc \notin {"none", "start"},
           \A j \in Slots : j # i => work'[j] = work[j],
           Scheduled(K)' = {}, \A kind \in Kinds : kind # K => logs'[kind] = logs[kind],
           script' = script, linked' = linked, calls'[Api] = calls[Api]
    PROVE  Orderly'
<1>1. StatusOK'
  BY DEF StatusOK
<1>2. ASSUME NEW kind \in Kinds PROVE One(kind)' /\ Lone(kind)' /\ Begun(kind)'
  <2>0. One(kind) /\ Lone(kind) /\ Begun(kind)
    BY DEF Orderly
  <2>1. \A j \in Slots : Active(j, kind)' => Active(j, kind)
    BY DEF Active
  <2>2. Lone(kind)'
    BY <2>0, <2>1 DEF Lone
  <2>3. CASE kind = K
    BY <2>2, <2>3 DEF One, Begun
  <2>4. CASE kind # K
    <3>1. Scheduled(kind)' = Scheduled(kind) /\ logs'[kind] = logs[kind]
      BY <2>4 DEF Scheduled
    <3>2. \A j \in Slots : Active(j, kind)' => work'[j] = work[j]
      BY <2>4 DEF Active
    <3> QED
      BY <2>0, <2>1, <2>2, <3>1, <3>2 DEF One, Begun
  <2> QED
    BY <2>3, <2>4
<1>3. ASSUME NEW k \in linked' PROVE Alive(k)'
  <2>0. Alive(k) /\ SyncOf(k) \in Kinds
    BY DEF Orderly, TypeOK, SyncOf, Kinds
  <2>1. CASE SyncOf(k) = K
    <3>1. Active(i, K)'
      BY DEF Active
    <3>2. SyncOf(k)' = K
      BY <2>1 DEF SyncOf
    <3> QED
      BY <2>1, <3>1 DEF Alive, Active, SyncOf
  <2>2. CASE SyncOf(k) # K
    <3>1. logs'[SyncOf(k)] = logs[SyncOf(k)]
      BY <2>0, <2>2
    <3>2. Scheduled(SyncOf(k))' = Scheduled(SyncOf(k))
      BY <3>1 DEF Scheduled, SyncOf
    <3>3. \A j \in Slots : Active(j, SyncOf(k)) => Active(j, SyncOf(k))'
      BY <2>2 DEF Active, SyncOf
    <3> QED
      BY <2>0, <3>1, <3>2, <3>3 DEF Alive, SyncOf
  <2> QED
    BY <2>1, <2>2
<1> QED
  BY <1>1, <1>2, <1>3 DEF Orderly

LEMMA OrderlyWorker ==
    ASSUME TypeOK, TypeOK', Orderly, NEW i \in Slots,
           Start(i) \/ Generate(i) \/ Batch(i) \/ Snapshot(i) \/ Cleanup(i) \/ Done(i)
    PROVE  Orderly'
<1>0. PICK K \in Kinds : K = work[i].kind
  BY DEF TypeOK, Coroutine
<1>1. script' = script /\ linked' = linked /\ calls'[Api] = calls[Api]
  <2>1. NotApi
    BY DEF NotApi, Step
  <2>2. linked' = linked
    BY DEF Start, Generate, Batch, Store, Snapshot, Cleanup, Done
  <2> QED
    BY <2>1, <2>2, NotApiCalls
<1>2. work[i].pc # "none" /\ (work[i].pc = "start" <=> Start(i))
  BY DEF Start, Generate, Batch, Store, Snapshot, Cleanup, Done
<1>3. Active(i, K) /\ Begun(K) /\ Begun(work[i].kind)
  BY <1>0, <1>2 DEF Active, Orderly
<1>4. /\ work'[i].kind = K /\ work'[i].pc \notin {"none", "start"}
      /\ \A j \in Slots : j # i => work'[j] = work[j]
  <2>1. ASSUME NEW task, Become(i, task)
        PROVE  work'[i] = task /\ \A j \in Slots : j # i => work'[j] = work[j]
    BY <2>1 DEF Become, TypeOK
  <2>2. ASSUME NEW pc, Goto(i, pc)
        PROVE  /\ work'[i].kind = K /\ work'[i].pc = pc
               /\ \A j \in Slots : j # i => work'[j] = work[j]
    <3> DEFINE t == [work[i] EXCEPT !.pc = pc]
    <3>1. t.kind = K /\ t.pc = pc
      BY <1>0 DEF TypeOK, Coroutine
    <3>2. Become(i, t)
      BY <2>2 DEF Goto
    <3> HIDE DEF t
    <3> QED
      BY <2>1, <3>1, <3>2
  <2>3. CASE Start(i)
    BY <2>2, <2>3 DEF Start
  <2>4. CASE Generate(i)
    <3>1. PICK incl \in BOOLEAN :
            Become(i, [work[i] EXCEPT !.pc = "sync", !.reindex = FALSE,
                                      !.todo = Fetched(work[i], incl)])
      BY <2>4 DEF Generate
    <3> DEFINE t == [work[i] EXCEPT !.pc = "sync", !.reindex = FALSE,
                                    !.todo = Fetched(work[i], incl)]
    <3>2. t.kind = K /\ t.pc = "sync"
      BY <1>0 DEF TypeOK, Coroutine
    <3> HIDE DEF t
    <3> QED
      BY <2>1, <3>1, <3>2 DEF t
  <2>5. CASE Batch(i)
    <3>1. PICK B \in SUBSET Items : Store(i, B, B, TRUE)
      BY <2>5 DEF Batch
    <3> DEFINE last == LastTime(B, work[i].todo)
               t == [work[i] EXCEPT !.next = Larger(@, last),
                       !.todo = [x \in Items |-> IF x \in B THEN 0 ELSE @[x]]]
    <3>2. Become(i, t) /\ work[i].pc = "sync"
      BY <3>1 DEF Store
    <3>3. t.kind = K /\ t.pc = "sync"
      BY <1>0, <3>2 DEF TypeOK, Coroutine
    <3> HIDE DEF t
    <3> QED
      BY <2>1, <3>2, <3>3
  <2>6. CASE Snapshot(i)
    <3> DEFINE t == [work[i] EXCEPT !.pc = "prune", !.todo = src]
    <3>1. t.kind = K /\ t.pc = "prune"
      BY <1>0 DEF TypeOK, Coroutine
    <3>2. Become(i, t) \/ Goto(i, "done")
      BY <2>6 DEF Snapshot
    <3> HIDE DEF t
    <3> QED
      BY <2>1, <2>2, <3>1, <3>2
  <2>7. CASE Cleanup(i)
    <3>1. Goto(i, "done")
      BY <2>7 DEF Cleanup
    <3> QED
      BY <2>2, <3>1
  <2>8. CASE Done(i)
    <3> DEFINE t == [NoTask EXCEPT !.pc = "sched", !.kind = work[i].kind]
    <3>1. t.kind = K /\ t.pc = "sched"
      BY <1>0 DEF NoTask
    <3>2. Become(i, t)
      BY <2>8 DEF Done
    <3> HIDE DEF t
    <3> QED
      BY <2>1, <3>1, <3>2
  <2> QED
    BY <2>3, <2>4, <2>5, <2>6, <2>7, <2>8
<1>5. /\ Scheduled(K)' = {}
      /\ \A kind \in Kinds : kind # K => logs'[kind] = logs[kind]
  <2>1. CASE Start(i)
    BY <1>0, <1>2, <1>3, <2>1, StartRows, RowFunctions, OwnRows
  <2>2. CASE Generate(i) \/ Snapshot(i) \/ Cleanup(i)
    <3>1. logs' = logs
      BY <2>2 DEF Generate, Snapshot, Cleanup
    <3>2. work[i].pc # "start"
      BY <2>2 DEF Generate, Snapshot, Cleanup
    <3>3. Scheduled(K) = {}
      BY <1>3, <3>2 DEF Begun
    <3> QED
      BY <3>1, <3>3 DEF Scheduled
  <2>3. CASE Batch(i)
    <3>1. PICK B \in SUBSET Items : Store(i, B, B, TRUE)
      BY <2>3 DEF Batch
    <3> DEFINE last == LastTime(B, work[i].todo)
    <3>2. last \in Times
      <4>1. \A x \in B : work[i].todo[x] \in Times
        BY DEF TypeOK, Coroutine
      <4>2. B # {}
        BY <3>1 DEF Store
      <4> QED
        BY <4>1, <4>2, LastTimeIsMax
    <3>3. work[i].pc # "start" /\ Wrote(i, BookedRow(last))
      BY <3>1, StoreRows DEF Store
    <3> HIDE DEF last
    <3>4. BookedRow(last) \in [Row -> Row]
      BY <3>2, RowFunctions
    <3>5. \A r \in Unscheduled : BookedRow(last)[r] \in Unscheduled
      <4>1. \A r \in Row : BookedRow(last)[r].status = r.status
        BY DEF BookedRow, Row
      <4> QED
        BY <3>4, <4>1 DEF Unscheduled
    <3> DEFINE F == BookedRow(last)
    <3>6. F \in [Row -> Row] /\ Wrote(i, F) /\ \A r \in Unscheduled : F[r] \in Unscheduled
      BY <3>3, <3>4, <3>5
    <3> HIDE DEF F
    <3> QED
      BY <1>0, <1>2, <1>3, <3>3, <3>6, OwnRows
  <2>4. CASE Done(i)
    <3>1. Wrote(i, DoneRow) /\ DoneRow \in [Row -> Row]
      BY <2>4, DoneRows, RowFunctions
    <3>2. \A r \in Unscheduled : DoneRow[r] \in Unscheduled
      <4>1. \A r \in Row : DoneRow[r].status = "done"
        BY DEF DoneRow, Row
      <4> QED
        BY <3>1, <4>1 DEF Unscheduled
    <3>3. work[i].pc # "start"
      BY <2>4 DEF Done
    <3> QED
      BY <1>0, <1>2, <1>3, <3>1, <3>2, <3>3, OwnRows
  <2> QED
    BY <2>1, <2>2, <2>3, <2>4
<1> QED
  BY <1>1, <1>3, <1>4, <1>5, OrderlyOwn

\* The rows and the coroutines stay, and so does the status or a user stops.
LEMMA OrderlyCalls ==
    ASSUME TypeOK, Orderly, UNCHANGED <<logs, work>>,
           status' = status \/ status' = "cancel", linked' \subseteq Kbs,
           \A k \in linked' : \/ Alive(k)'
                              \/ /\ k \in linked
                                 /\ Promised(script, k) => Promised(script', k)
                                 /\ calls[Api].at # "none" => calls'[Api] = calls[Api]
    PROVE  Orderly'
<1>1. StatusOK'
  BY DEF StatusOK, Orderly, Scheduled
<1>2. \A kind \in Kinds : One(kind)' /\ Lone(kind)' /\ Begun(kind)'
  BY DEF Orderly, One, Lone, Begun, Scheduled, Active
<1>3. ASSUME NEW k \in linked' PROVE Alive(k)'
  <2>1. CASE /\ k \in linked /\ (calls[Api].at # "none" => calls'[Api] = calls[Api])
             /\ Promised(script, k) => Promised(script', k)
    <3>1. Alive(k)
      BY <2>1 DEF Orderly
    <3> QED
      BY <2>1, <3>1 DEF Alive, Scheduled, Active, SyncOf
  <2> QED
    BY <2>1
<1> QED
  BY <1>1, <1>2, <1>3 DEF Orderly

\* What a call of schedule, when it is over, leaves.
LEMMA ReturnIs ==
    ASSUME TypeOK, NEW a \in Callers, Return(a)
    PROVE  /\ calls'[a].at = "none"
           /\ \A b \in Callers : b # a => calls'[b] = calls[b]
           /\ a = Api => work' = work
           /\ a # Api => a \in Slots /\ work'[a].pc = "none"
           /\ \A j \in Slots : j # a => work'[j] = work[j]
<1>1. calls'[a] = NoCall /\ \A b \in Callers : b # a => calls'[b] = calls[b]
  BY DEF Return, ToCall, TypeOK
<1>2. a = Api => work' = work
  BY DEF Return
<1>3. a # Api => a \in Slots /\ work' = [work EXCEPT ![a] = NoTask]
  BY DEF Return, Callers
<1>4. a # Api => work'[a] = NoTask /\ \A j \in Slots : j # a => work'[j] = work[j]
  BY <1>3 DEF TypeOK
<1> QED
  BY <1>1, <1>2, <1>3, <1>4 DEF NoCall, NoTask

LEMMA OrderlySave ==
    ASSUME TypeOK, TypeOK', Orderly, NEW g, Sound(g), NEW a \in Callers, SchedSave(a),
           doubled' = {}
    PROVE  Orderly'
<1>0. PICK K \in Kinds : K = calls[a].kind
  BY DEF TypeOK, Call
<1>1. /\ status' = "schedule" /\ Return(a) /\ calls[a].at = "save" /\ Doubles(a)
      /\ logs' = [logs EXCEPT ![K] = Relevant(Append(@, NewRow(calls[a])))]
      /\ script' = script /\ linked' = linked
  BY <1>0 DEF SchedSave, NewRow
<1>2. Scheduled(K) = {} /\ (a = Api => ~Running(K))
  BY <1>0, <1>1 DEF Doubles
<1>3. Api \in Callers /\ Api \notin Slots
  BY ConnectorSyncAssumption DEF Callers, Api
<1>4. a # Api => a \in Slots /\ Active(a, K)
  <2> SUFFICES ASSUME a # Api PROVE a \in Slots /\ Active(a, K)
    OBVIOUS
  <2>1. a \in Slots
    BY DEF Callers
  <2>2. CallerOK(a)
    BY <2>1 DEF Sound
  <2> QED
    BY <1>0, <1>1, <2>1, <2>2 DEF CallerOK, Active
<1>5. /\ \A kind \in Kinds : kind # K => logs'[kind] = logs[kind]
      /\ logs'[K] = Relevant(Append(logs[K], NewRow(calls[a])))
  BY <1>1 DEF TypeOK
<1>6. PICK p \in Seq(Unscheduled) : logs'[K] = Append(p, NewRow(calls[a]))
  <2> DEFINE r == NewRow(calls[a])
             q == logs[K]
  <2>1. q \in Seq(Unscheduled)
    <3>1. Unscheduled \cup ({} \cap Row) = Unscheduled /\ \A n \in Scheduled(K) : logs[K][n] \in {}
      BY <1>2
    <3> QED
      BY <3>1, ScheduledRows
  <2>2. logs'[K] = Relevant(Append(q, r))
    BY <1>5
  <2> DEFINE Q == Unscheduled \cup {r}
             s == Append(q, r)
  <2> HIDE DEF r, q
  <2>3. /\ s \in Seq(Q) /\ s # <<>> /\ s[Len(s)] = r
        /\ \A n \in 1..(Len(s) - 1) : s[n] \in Unscheduled
    <3>1. q \in Seq(Q) /\ r \in Q /\ Len(q) \in Nat
      BY <2>1
    <3>2. s \in Seq(Q) /\ s # <<>> /\ s[Len(s)] = r /\ Len(s) = Len(q) + 1
          /\ \A n \in 1..Len(q) : s[n] = q[n]
      BY <3>1, AppendLast DEF LastRow
    <3>3. Len(s) - 1 = Len(q)
      BY <3>1, <3>2
    <3>4. \A n \in 1..Len(q) : q[n] \in Unscheduled
      BY <2>1
    <3> QED
      BY <3>2, <3>3, <3>4
  <2> HIDE DEF s, Q
  <2>4. \E p \in Seq(Unscheduled) : Relevant(s) = Append(p, s[Len(s)])
    BY <2>3, RelevantLast
  <2> QED
    BY <2>2, <2>3, <2>4 DEF s, r
<1>7. \A n \in Scheduled(K)' : n = Len(p) + 1
  <2> DEFINE r == NewRow(calls[a])
             q == Append(p, r)
  <2> HIDE DEF r
  <2>1. /\ DOMAIN q = 1..(Len(p) + 1) /\ Len(p) \in Nat
        /\ \A n \in 1..Len(p) : q[n] = p[n] /\ p[n].status # "schedule"
    BY DEF Unscheduled
  <2>2. logs'[K] = q
    BY <1>6 DEF r
  <2> HIDE DEF q
  <2>3. ASSUME NEW n \in Scheduled(K)' PROVE n = Len(p) + 1
    <3>1. n \in 1..(Len(p) + 1) /\ q[n].status = "schedule"
      BY <2>1, <2>2 DEF Scheduled
    <3>2. n \notin 1..Len(p)
      BY <2>1, <3>1
    <3> QED
      BY <2>1, <3>1, <3>2
  <2> QED
    BY <2>3
<1>8. Scheduled(K)' # {}
  <2> DEFINE r == NewRow(calls[a])
  <2>0. r.status = "schedule"
    BY DEF NewRow
  <2> HIDE DEF r
  <2>1. /\ Len(p) + 1 \in DOMAIN Append(p, r) /\ Append(p, r)[Len(p) + 1] = r
    OBVIOUS
  <2>2. logs'[K] = Append(p, r)
    BY <1>6 DEF r
  <2>3. Len(p) + 1 \in Scheduled(K)'
    BY <2>0, <2>1, <2>2 DEF Scheduled
  <2> QED
    BY <2>3
<1>9. /\ \A j \in Slots : ~Active(j, K)'
      /\ \A j \in Slots, kind \in Kinds : Active(j, kind)' => work'[j] = work[j]
      /\ \A j \in Slots, kind \in Kinds : Active(j, kind) /\ kind # K => work'[j] = work[j]
  <2>1. CASE a = Api
    BY <1>1, <1>2, <2>1, ReturnIs DEF Active, Running
  <2>2. CASE a # Api
    <3>1. /\ work'[a].pc = "none" /\ \A j \in Slots : j # a => work'[j] = work[j]
          /\ Active(a, K) /\ a \in Slots
      BY <1>1, <1>4, <2>2, ReturnIs
    <3>2. Lone(K)
      BY DEF Orderly
    <3>3. \A j \in Slots : j # a => ~Active(j, K)
      BY <3>1, <3>2 DEF Lone
    <3> QED
      BY <3>1, <3>3 DEF Active
  <2> QED
    BY <2>1, <2>2
<1>10. ASSUME NEW kind \in Kinds PROVE One(kind)' /\ Lone(kind)' /\ Begun(kind)'
  <2>1. CASE kind = K
    BY <1>7, <1>9, <2>1 DEF One, Lone, Begun
  <2>2. CASE kind # K
    <3>1. One(kind) /\ Lone(kind) /\ Begun(kind)
      BY DEF Orderly
    <3>2. Scheduled(kind)' = Scheduled(kind) /\ logs'[kind] = logs[kind]
      BY <1>5, <2>2 DEF Scheduled
    <3>3. \A j \in Slots : Active(j, kind)' => work'[j] = work[j] /\ Active(j, kind)
      BY <1>9 DEF Active
    <3> QED
      BY <3>1, <3>2, <3>3 DEF One, Lone, Begun
  <2> QED
    BY <2>1, <2>2
<1>11. ASSUME NEW k \in linked' PROVE Alive(k)'
  <2>0. Alive(k) /\ SyncOf(k) \in Kinds
    BY <1>1 DEF Orderly, TypeOK, SyncOf, Kinds
  <2>1. CASE SyncOf(k) = K
    BY <1>8, <2>1 DEF Alive, SyncOf
  <2>2. CASE SyncOf(k) # K
    <3>1. logs'[SyncOf(k)] = logs[SyncOf(k)]
      BY <1>5, <2>0, <2>2
    <3>2. Scheduled(SyncOf(k))' = Scheduled(SyncOf(k))
      BY <3>1 DEF Scheduled, SyncOf
    <3>3. \A j \in Slots : Active(j, SyncOf(k)) => Active(j, SyncOf(k))'
      BY <1>9, <2>0, <2>2 DEF Active, SyncOf
    <3>4. calls[Api].at # "none" /\ calls[Api].kind = SyncOf(k) => calls'[Api] = calls[Api]
      BY <1>0, <1>1, <1>3, <2>2, ReturnIs
    <3> QED
      BY <1>1, <2>0, <3>1, <3>2, <3>3, <3>4 DEF Alive, SyncOf
  <2> QED
    BY <2>1, <2>2
<1>12. StatusOK'
  BY <1>1 DEF StatusOK
<1> QED
  BY <1>10, <1>11, <1>12 DEF Orderly

LEMMA OrderlySchedule ==
    ASSUME TypeOK, TypeOK', Orderly, NEW g, Sound(g), NEW a \in Callers, Schedule(a),
           doubled' = {}
    PROVE  Orderly'
<1>3. Api \in Callers /\ Api \notin Slots
  BY ConnectorSyncAssumption DEF Callers, Api
<1>4. linked' \subseteq Kbs
  BY DEF TypeOK
<1>1. CASE SchedRefused(a)
  <2>1. /\ Return(a) /\ Scheduled(calls[a].kind) # {} /\ calls[a].at # "none"
        /\ logs' = logs /\ status' = status /\ script' = script /\ linked' = linked
    BY <1>1 DEF SchedRefused
  <2>2. a = Api
    <3> SUFFICES ASSUME a # Api PROVE FALSE
      OBVIOUS
    <3>1. a \in Slots /\ CallerOK(a)
      BY DEF Callers, Sound
    <3>2. PICK K \in Kinds : K = calls[a].kind
      BY DEF TypeOK, Call
    <3>3. Active(a, K) /\ work[a].pc # "start" /\ Begun(K) /\ Scheduled(K) # {}
      BY <2>1, <3>1, <3>2 DEF CallerOK, Active, Orderly
    <3> QED
      BY <3>1, <3>3 DEF Begun
  <2>3. work' = work
    BY <2>1, <2>2, ReturnIs
  <2>4. ASSUME NEW k \in linked' PROVE Alive(k)'
    <3>1. Alive(k)
      BY <2>1 DEF Orderly
    <3>2. Scheduled(SyncOf(k))' = Scheduled(SyncOf(k))
      BY <2>1 DEF Scheduled, SyncOf
    <3> QED
      BY <2>1, <2>2, <2>3, <3>1, <3>2 DEF Alive, Active, SyncOf
  <2> QED
    BY <1>4, <2>1, <2>3, <2>4, OrderlyCalls
<1>2. CASE SchedCheck(a)
  <2>1. /\ logs' = logs /\ status' = status /\ script' = script /\ linked' = linked
        /\ work' = work /\ calls[a].at # "none"
        /\ calls' = [calls EXCEPT ![a] = [calls[a] EXCEPT !.at = "save"]]
    BY <1>2 DEF SchedCheck, ToCall
  <2>2. \/ calls'[Api] = calls[Api]
        \/ /\ a = Api /\ calls'[Api].at = "save" /\ calls'[Api].kind = calls[Api].kind
    BY <1>3, <2>1 DEF TypeOK, Call
  <2>3. ASSUME NEW k \in linked' PROVE Alive(k)'
    <3>1. Alive(k)
      BY <2>1 DEF Orderly
    <3>2. Scheduled(SyncOf(k))' = Scheduled(SyncOf(k))
      BY <2>1 DEF Scheduled, SyncOf
    <3> QED
      BY <2>1, <2>2, <3>1, <3>2 DEF Alive, Active, SyncOf
  <2> QED
    BY <1>4, <2>1, <2>3, OrderlyCalls
<1> QED
  BY <1>1, <1>2, OrderlySave DEF Schedule

\* dispatch_tasks runs the one row of each kind it takes by one coroutine.
LEMMA OrderlyDispatch ==
    ASSUME TypeOK, TypeOK', Orderly, NEW D, D \subseteq Due, Dispatch(D)
    PROVE  Orderly'
<1> DEFINE slot == CHOOSE f \in [D -> Slots] : \A d, e \in D : f[d] = f[e] => d = e
           Mine(i) == CHOOSE d \in D : slot[d] = i
<1>1. work' = [i \in Slots |-> IF \E d \in D : slot[d] = i
                               THEN NewTask(Mine(i)) ELSE NoTask]
  BY DEF Dispatch, NewTask, Taken
<1>2. \A i \in Slots : (\E d \in D : slot[d] = i) => Mine(i) \in D /\ slot[Mine(i)] = i
  OBVIOUS
<1>3. logs' = [kind \in Kinds |-> [n \in DOMAIN logs[kind] |->
                 IF <<kind, n>> \in D
                 THEN [logs[kind][n] EXCEPT !.owner = slot[<<kind, n>>]]
                 ELSE logs[kind][n]]]
  BY DEF Dispatch
<1>4. slot \in [D -> Slots]
  <2>1. Cardinality(D) <= Cardinality(Slots)
    BY DEF Dispatch
  <2> QED
    BY <2>1, SlotExists
<1>5. /\ D # {} /\ \A i \in Slots : work[i].pc = "none"
      /\ status' = status /\ linked' = linked /\ script' = script /\ calls' = calls
  BY DEF Dispatch
<1> HIDE DEF slot
<1>6. ASSUME NEW i \in Slots, NEW kind, Active(i, kind)'
      PROVE  work'[i].pc = "start" /\ \E d \in D : slot[d] = i /\ d[1] = kind
  <2>1. CASE \E d \in D : slot[d] = i
    <3>1. work'[i] = NewTask(Mine(i)) /\ Mine(i) \in D /\ slot[Mine(i)] = i
      BY <1>1, <1>2, <2>1
    <3> HIDE DEF Mine
    <3>2. NewTask(Mine(i)).pc = "start" /\ NewTask(Mine(i)).kind = Mine(i)[1]
      BY DEF NewTask, NoTask
    <3> QED
      BY <1>6, <3>1, <3>2 DEF Active
  <2>2. CASE ~ \E d \in D : slot[d] = i
    BY <1>1, <1>6, <2>2 DEF Active, NoTask
  <2> QED
    BY <2>1, <2>2
<1> HIDE DEF Mine
<1>7. ASSUME NEW kind \in Kinds
      PROVE  /\ DOMAIN logs'[kind] = DOMAIN logs[kind]
             /\ \A n \in DOMAIN logs[kind] :
                  /\ logs'[kind][n].status = logs[kind][n].status
                  /\ <<kind, n>> \in D => logs'[kind][n].owner = slot[<<kind, n>>]
  <2>1. \A n \in DOMAIN logs[kind] : logs[kind][n] \in Row
    BY DEF TypeOK
  <2>2. ASSUME NEW n \in DOMAIN logs[kind], <<kind, n>> \in D
        PROVE  /\ logs'[kind][n].status = logs[kind][n].status
               /\ logs'[kind][n].owner = slot[<<kind, n>>]
    <3>1. logs'[kind][n] = [logs[kind][n] EXCEPT !.owner = slot[<<kind, n>>]]
      BY <1>3, <2>2
    <3>2. logs[kind][n] \in Row
      BY <2>1
    <3> QED
      BY <3>1, <3>2 DEF Row
  <2>3. ASSUME NEW n \in DOMAIN logs[kind], <<kind, n>> \notin D
        PROVE  logs'[kind][n] = logs[kind][n]
    BY <1>3, <2>3
  <2>4. DOMAIN logs'[kind] = DOMAIN logs[kind]
    BY <1>3
  <2> QED
    BY <2>2, <2>3, <2>4
<1>8. \A kind \in Kinds : Scheduled(kind)' = Scheduled(kind)
  BY <1>7 DEF Scheduled
<1>9. \A d \in D : d = <<d[1], d[2]>> /\ d[2] \in Scheduled(d[1]) /\ status = "schedule"
  BY DEF Due
<1>10. ASSUME NEW kind \in Kinds PROVE One(kind)' /\ Lone(kind)' /\ Begun(kind)'
  <2>1. One(kind)
    BY DEF Orderly
  <2>2. \A d, e \in D : d[1] = kind /\ e[1] = kind => d = e
    BY <1>9, <2>1 DEF One
  <2>3. Lone(kind)'
    <3> SUFFICES ASSUME NEW i \in Slots, NEW j \in Slots, Active(i, kind)', Active(j, kind)'
                 PROVE  i = j
      BY DEF Lone
    <3>1. PICK d \in D : slot[d] = i /\ d[1] = kind
      BY <1>6
    <3>2. PICK e \in D : slot[e] = j /\ e[1] = kind
      BY <1>6
    <3> QED
      BY <2>2, <3>1, <3>2
  <2>4. Begun(kind)'
    <3> SUFFICES ASSUME NEW i \in Slots, NEW n \in Scheduled(kind)', Active(i, kind)'
                 PROVE  work'[i].pc = "start" /\ logs'[kind][n].owner = i
      BY DEF Begun
    <3>1. PICK d \in D : slot[d] = i /\ d[1] = kind /\ work'[i].pc = "start"
      BY <1>6
    <3>2. n \in Scheduled(kind) /\ n = d[2]
      BY <1>8, <1>9, <2>1, <3>1 DEF One
    <3>3. <<kind, n>> = d /\ n \in DOMAIN logs[kind]
      BY <1>9, <3>1, <3>2 DEF Scheduled
    <3> QED
      BY <1>7, <3>1, <3>3
  <2>5. One(kind)'
    BY <1>8, <2>1 DEF One
  <2> QED
    BY <2>3, <2>4, <2>5
<1>11. ASSUME NEW k \in linked' PROVE Alive(k)'
  <2>0. PICK K \in Kinds : K = SyncOf(k)
    BY <1>5 DEF TypeOK, SyncOf, Kinds
  <2>1. /\ \/ Scheduled(K) # {}
           \/ calls[Api].at # "none" /\ calls[Api].kind = K
           \/ Promised(script, k)
           \/ Stops(logs[K])
    BY <1>5, <2>0 DEF Orderly, Alive, Active
  <2>2. Stops(logs[K]) => Stops(logs'[K])
    <3> SUFFICES ASSUME Stops(logs[K]) PROVE Stops(logs'[K])
      OBVIOUS
    <3> DEFINE p == logs[K]
               q == logs'[K]
    <3>1. p \in Seq(Row) /\ q \in Seq(Row)
      BY DEF TypeOK
    <3>2. DOMAIN q = DOMAIN p /\ \A n \in DOMAIN p : q[n].status = p[n].status
      BY <1>7
    <3>3. p # <<>> /\ p[Len(p)].status = "cancel"
      BY DEF Stops, LastRow
    <3> HIDE DEF p, q
    <3>4. Len(p) = Len(q) /\ Len(p) \in DOMAIN p /\ q # <<>>
      <4>1. Len(p) \in Nat /\ Len(p) # 0 /\ DOMAIN p = 1..Len(p)
        BY <3>1, <3>3, EmptySeq
      <4>2. Len(q) \in Nat /\ DOMAIN q = 1..Len(q)
        BY <3>1
      <4>3. Len(p) = Len(q)
        BY <3>2, <4>1, <4>2
      <4> QED
        BY <3>1, <4>1, <4>3, EmptySeq
    <3>5. Stops(q)
      BY <3>2, <3>3, <3>4 DEF Stops, LastRow
    <3> QED
      BY <3>5 DEF q
  <2> QED
    BY <1>5, <1>8, <2>0, <2>1, <2>2 DEF Alive, SyncOf
<1>12. StatusOK'
  BY <1>5, <1>9 DEF StatusOK
<1> QED
  BY <1>10, <1>11, <1>12 DEF Orderly

\* _cancel of a dataset, and the first half of a rebuild.
LEMMA OrderlyRows ==
    ASSUME TypeOK, TypeOK', Orderly, NEW k \in Kbs, work' = work, status' = status,
           linked' = linked, calls' = calls,
           \A kind \in Kinds : kind[1] = k => Scheduled(kind)' = {},
           \A kind \in Kinds : kind[1] # k => logs'[kind] = logs[kind],
           \A l \in Kbs : Promised(script, l) => Promised(script', l),
           \/ Promised(script', k)
           \/ Scheduled(SyncOf(k)) # {} \/ Stops(logs[SyncOf(k)])
                => Stops(logs'[SyncOf(k)])
    PROVE  Orderly'
<1>1. ASSUME NEW kind \in Kinds
      PROVE  /\ Scheduled(kind)' \subseteq Scheduled(kind)
             /\ kind[1] # k => Scheduled(kind)' = Scheduled(kind)
             /\ \A n \in Scheduled(kind)' : logs'[kind] = logs[kind]
  BY DEF Scheduled
<1>2. StatusOK'
  BY <1>1 DEF StatusOK, Orderly
<1>3. \A j \in Slots, kind \in Kinds : Active(j, kind)' <=> Active(j, kind)
  BY DEF Active
<1>4. ASSUME NEW kind \in Kinds PROVE One(kind)' /\ Lone(kind)' /\ Begun(kind)'
  <2>1. One(kind) /\ Lone(kind) /\ Begun(kind)
    BY DEF Orderly
  <2> QED
    BY <1>1, <1>3, <2>1 DEF One, Lone, Begun
<1>5. ASSUME NEW l \in linked' PROVE Alive(l)'
  <2>1. Alive(l) /\ l \in Kbs
    BY DEF Orderly, TypeOK
  <2>4. SyncOf(l) \in Kinds /\ SyncOf(l)[1] = l
    BY <2>1 DEF SyncOf, Kinds
  <2>0. PICK K \in Kinds : K = SyncOf(l) /\ K[1] = l
    BY <2>4
  <2>2. CASE l # k
    <3>1. logs'[K] = logs[K] /\ Scheduled(K)' = Scheduled(K)
      BY <1>1, <2>0, <2>2
    <3> QED
      BY <1>3, <2>0, <2>1, <3>1 DEF Alive, SyncOf
  <2>3. CASE l = k
    BY <1>3, <2>0, <2>1, <2>3 DEF Alive, SyncOf
  <2> QED
    BY <2>2, <2>3
<1> QED
  BY <1>2, <1>4, <1>5 DEF Orderly

LEMMA OrderlyCancel ==
    ASSUME TypeOK, TypeOK', Orderly, Owes(script), NEW k \in Kbs, CancelRows(k)
    PROVE  Orderly' /\ Owes(script')
<1>1. /\ script # <<>> /\ Head(script).op = "cancel" /\ script' = After(k)
      /\ work' = work /\ status' = status /\ linked' = linked /\ calls' = calls
  BY DEF CancelRows, Does
<1>2. Owes(script') /\ \A l \in Kbs : Promised(script, l) => Promised(script', l)
  BY <1>1, AfterOwes
<1>3. \A kind \in Kinds :
        logs'[kind] = IF kind[1] = k
                      THEN Updated(logs[kind], Live(logs[kind]), CancelledRow)
                      ELSE logs[kind]
  BY CancelRowsRows
<1>4. ASSUME NEW kind \in Kinds, kind[1] = k PROVE Scheduled(kind)' = {}
  <2> DEFINE q == logs[kind]
  <2>1. q \in Seq(Row) /\ \A n \in DOMAIN q : q[n] \in Row
    BY DEF TypeOK
  <2>2. logs'[kind] = Updated(q, Live(q), CancelledRow)
    BY <1>3, <1>4
  <2> HIDE DEF q
  <2>3. \A r \in Row : CancelledRow[r] \in Unscheduled
    <3>1. \A r \in Row : CancelledRow[r].status = "cancel"
      BY DEF CancelledRow, Row
    <3> QED
      BY <3>1, RowFunctions DEF Unscheduled
  <2>4. /\ \A n \in DOMAIN q : n \in Live(q) => CancelledRow[q[n]] \in Unscheduled
        /\ \A n \in DOMAIN q : n \notin Live(q) => q[n] \in Unscheduled
    BY <2>1, <2>3 DEF Live, Unscheduled
  <2>5. CancelledRow \in [Row -> Row] /\ Row \subseteq Row
    BY RowFunctions
  <2>6. Updated(q, Live(q), CancelledRow) \in Seq(Unscheduled)
    BY <2>1, <2>4, <2>5, UpdatedSeq
  <2> QED
    BY <2>2, <2>6, NoneScheduled
<1>5. Scheduled(SyncOf(k)) # {} \/ Stops(logs[SyncOf(k)]) => Stops(logs'[SyncOf(k)])
  <2>1. SyncOf(k) \in Kinds /\ SyncOf(k)[1] = k
    BY DEF SyncOf, Kinds
  <2>2. PICK K \in Kinds : K = SyncOf(k) /\ K[1] = k
    BY <2>1
  <2>3. logs[K] \in Seq(Row) /\ logs'[K] = Updated(logs[K], Live(logs[K]), CancelledRow)
    BY <1>3, <2>2 DEF TypeOK
  <2>4. Scheduled(K) # {} \/ Stops(logs[K]) => Stops(logs'[K])
    BY <2>3, CancelStops DEF Scheduled
  <2> QED
    BY <2>2, <2>4
<1>6. \A kind \in Kinds : kind[1] # k => logs'[kind] = logs[kind]
  BY <1>3
<1> QED
  BY <1>1, <1>2, <1>4, <1>5, <1>6, OrderlyRows

LEMMA OrderlyForget ==
    ASSUME TypeOK, TypeOK', Orderly, Owes(script), NEW k \in Kbs, Forget(k)
    PROVE  Orderly' /\ Owes(script')
<1>1. /\ script # <<>> /\ Head(script).op = "forget" /\ k \in Head(script).kbs
      /\ script' = After(k)
      /\ work' = work /\ status' = status /\ linked' = linked /\ calls' = calls
  BY DEF Forget, Does
<1>2. /\ Owes(script') /\ Promised(script', k)
      /\ \A l \in Kbs : Promised(script, l) => Promised(script', l)
  BY <1>1, AfterOwes
<1>3. \A kind \in Kinds : logs'[kind] = IF kind[1] = k THEN <<>> ELSE logs[kind]
  BY DEF Forget
<1>4. \A kind \in Kinds : kind[1] = k => Scheduled(kind)' = {}
  <2>1. DOMAIN <<>> = {}
    OBVIOUS
  <2> QED
    BY <1>3, <2>1 DEF Scheduled
<1>5. \A kind \in Kinds : kind[1] # k => logs'[kind] = logs[kind]
  BY <1>3
<1> QED
  BY <1>1, <1>2, <1>4, <1>5, OrderlyRows

LEMMA OrderlyApi ==
    ASSUME TypeOK, TypeOK', Orderly, Owes(script), NEW g, Sound(g), ApiStep,
           doubled' = {}
    PROVE  Orderly' /\ Owes(script')
<1>0. linked \subseteq Kbs /\ linked' \subseteq Kbs /\ Api \in Callers
  BY DEF TypeOK, Callers
<1>1. CASE Stop
  <2>1. /\ script # <<>> /\ Head(script).op = "stop" /\ script' = Tail(script)
        /\ work' = work /\ logs' = logs /\ status' = "cancel" /\ linked' = linked
        /\ calls' = calls
    BY <1>1 DEF Stop
  <2>2. PICK k \in Kbs : TRUE
    BY ConnectorSyncAssumption
  <2>3. Owes(script') /\ \A l \in Kbs : Promised(script, l) => Promised(script', l)
    BY <2>1, AfterOwes
  <2> QED
    BY <1>0, <2>1, <2>3, OrderlyCalls
<1>2. CASE Schedule(Api)
  <2>1. script' = script
    BY <1>2 DEF Schedule, SchedRefused, SchedCheck, SchedSave
  <2> QED
    BY <1>0, <1>2, <2>1, OrderlySchedule
<1>3. ASSUME NEW k \in Kbs, ResumeSync(k) PROVE Orderly' /\ Owes(script')
  <2> DEFINE q == logs[<<k, "sync">>]
             w == IF q # <<>> /\ q[Len(q)].status = "done" THEN q[Len(q)].end ELSE 0
             c == [at |-> "check", kind |-> <<k, "sync">>, start |-> w, reindex |-> FALSE]
  <2>1. /\ script # <<>> /\ Head(script).op = "resume" /\ calls[Api].at = "none"
        /\ script' = Pruning(k) \o After(k) /\ ToCall(Api, c)
        /\ work' = work /\ logs' = logs /\ status' = status /\ linked' = linked
    BY <1>3 DEF ResumeSync, Does
  <2>2. c.at # "none" /\ c.kind = SyncOf(k)
    BY DEF SyncOf
  <2> HIDE DEF c
  <2>3. calls'[Api] = c
    BY <1>0, <2>1 DEF ToCall, TypeOK
  <2>4. Owes(script') /\ \A l \in Kbs : l # k /\ Promised(script, l) => Promised(script', l)
    BY <2>1, AfterOwes
  <2>5. Alive(k)'
    BY <2>2, <2>3 DEF Alive, SyncOf
  <2>6. ASSUME NEW l \in linked'
        PROVE  \/ Alive(l)'
               \/ /\ l \in linked
                  /\ Promised(script, l) => Promised(script', l)
                  /\ calls[Api].at # "none" => calls'[Api] = calls[Api]
    BY <1>0, <2>1, <2>4, <2>5
  <2> QED
    BY <1>0, <2>1, <2>4, <2>6, OrderlyCalls
<1>4. ASSUME NEW k \in Kbs, ScheduleNew(k) PROVE Orderly' /\ Owes(script')
  <2>1. PICK op \in {"reindex", "prune"} :
          /\ Does(op, k) /\ script' = After(k)
          /\ ToCall(Api, [at |-> "check", start |-> 0, reindex |-> op = "reindex",
                          kind |-> <<k, IF op = "prune" THEN "prune" ELSE "sync">>])
          /\ work' = work /\ logs' = logs /\ status' = status /\ linked' = linked
    BY <1>4 DEF ScheduleNew
  <2> DEFINE c == [at |-> "check", start |-> 0, reindex |-> op = "reindex",
                   kind |-> <<k, IF op = "prune" THEN "prune" ELSE "sync">>]
  <2>2. c.at # "none" /\ (op = "reindex" => c.kind = SyncOf(k))
    BY DEF SyncOf
  <2>7. ToCall(Api, c)
    BY <2>1
  <2> HIDE DEF c
  <2>3. calls'[Api] = c /\ calls[Api].at = "none" /\ script # <<>> /\ Head(script).op = op
    BY <1>0, <2>1, <2>7 DEF ToCall, TypeOK, Does
  <2>4. /\ Owes(script')
        /\ \A l \in Kbs : (l # k \/ op = "prune") /\ Promised(script, l)
             => Promised(script', l)
    BY <2>1, <2>3, AfterOwes
  <2>5. op = "reindex" => Alive(k)'
    BY <2>2, <2>3 DEF Alive, SyncOf
  <2>6. ASSUME NEW l \in linked'
        PROVE  \/ Alive(l)'
               \/ /\ l \in linked
                  /\ Promised(script, l) => Promised(script', l)
                  /\ calls[Api].at # "none" => calls'[Api] = calls[Api]
    BY <1>0, <2>1, <2>3, <2>4, <2>5
  <2> QED
    BY <1>0, <2>1, <2>4, <2>6, OrderlyCalls
<1>5. ASSUME NEW k \in Kbs, Delete(k) PROVE Orderly' /\ Owes(script')
  <2>1. /\ script # <<>> /\ Head(script).op = "delete" /\ script' = After(k)
        /\ work' = work /\ logs' = logs /\ status' = status /\ linked' = linked
        /\ calls' = calls
    BY <1>5 DEF Delete, Does
  <2>2. Owes(script') /\ \A l \in Kbs : Promised(script, l) => Promised(script', l)
    BY <2>1, AfterOwes
  <2> QED
    BY <1>0, <2>1, <2>2, OrderlyCalls
<1>6. ASSUME NEW k \in Kbs, ChangeLink(k) PROVE Orderly' /\ Owes(script')
  <2>1. /\ script # <<>> /\ script' = After(k)
        /\ \/ Head(script).op = "link" /\ k \in Head(script).kbs /\ linked' = linked \cup {k}
           \/ Head(script).op = "unlink" /\ linked' = linked \ {k}
        /\ work' = work /\ logs' = logs /\ status' = status /\ calls' = calls
    BY <1>6 DEF ChangeLink, Does
  <2>2. /\ Owes(script') /\ \A l \in Kbs : Promised(script, l) => Promised(script', l)
        /\ Head(script).op = "link" /\ k \in Head(script).kbs => Promised(script', k)
    BY <2>1, AfterOwes
  <2>3. ASSUME NEW l \in linked'
        PROVE  \/ Alive(l)'
               \/ /\ l \in linked
                  /\ Promised(script, l) => Promised(script', l)
                  /\ calls[Api].at # "none" => calls'[Api] = calls[Api]
    <3>1. CASE l \in linked
      BY <1>0, <2>1, <2>2, <3>1
    <3>2. CASE l \notin linked
      BY <2>1, <2>2, <3>2 DEF Alive
    <3> QED
      BY <3>1, <3>2
  <2> QED
    BY <1>0, <2>1, <2>2, <2>3, OrderlyCalls
<1> QED
  BY <1>1, <1>2, <1>3, <1>4, <1>5, <1>6, OrderlyCancel, OrderlyForget DEF ApiStep

\* Failures are counted, and what was doubled is not forgotten.
LEMMA Counted ==
    ASSUME [Next]_vars
    PROVE  (faults' = faults \/ Fault) /\ doubled \subseteq doubled'
<1> DEFINE Good == (faults' = faults \/ Fault) /\ doubled \subseteq doubled'
<1> USE DEF counters, history
<1>1. ASSUME UNCHANGED doubled, UNCHANGED faults \/ Fault PROVE Good
  BY <1>1
<1>2. ASSUME NEW a, Doubles(a), UNCHANGED faults \/ Fault PROVE Good
  BY <1>2 DEF Doubles
<1>3. ASSUME NEW a, Schedule(a) PROVE Good
  <2>1. CASE SchedRefused(a) \/ SchedCheck(a)
    BY <2>1 DEF SchedRefused, SchedCheck
  <2>2. CASE SchedSave(a)
    BY <1>2, <2>2 DEF SchedSave
  <2> QED
    BY <1>3, <2>1, <2>2 DEF Schedule
<1>4. ASSUME NEW a, SchedFails(a) PROVE Good
  BY <1>2, <1>4 DEF SchedFails
<1> HIDE DEF Good
<1>5. ASSUME Request PROVE Good
  BY <1>1, <1>5 DEF Request
<1>6. ASSUME NEW k, CancelRows(k) PROVE Good
  BY <1>1, <1>6 DEF CancelRows
<1>7. ASSUME NEW k, ResumeSync(k) \/ ScheduleNew(k) PROVE Good
  BY <1>1, <1>7 DEF ResumeSync, ScheduleNew
<1>8. ASSUME NEW k, Forget(k) \/ Delete(k) \/ ChangeLink(k) PROVE Good
  BY <1>1, <1>8 DEF Forget, Delete, ChangeLink
<1>9. ASSUME Stop PROVE Good
  BY <1>1, <1>9 DEF Stop
<1>10. ASSUME Crash PROVE Good
  BY <1>1, <1>10 DEF Crash
<1>11. ASSUME NEW D, Dispatch(D) PROVE Good
  BY <1>1, <1>11 DEF Dispatch
<1>12. ASSUME NEW i, NEW B, NEW S, NEW booked, Store(i, B, S, booked)
       PROVE  UNCHANGED doubled
  BY <1>12 DEF Store
<1>13. ASSUME NEW i, Batch(i) \/ BatchFails(i) PROVE Good
  <2>1. UNCHANGED doubled
    BY <1>12, <1>13 DEF Batch, BatchFails
  <2>2. UNCHANGED faults \/ Fault
    BY <1>13 DEF Batch, BatchFails
  <2> QED
    BY <1>1, <2>1, <2>2
<1>14. ASSUME NEW i, Start(i) \/ Generate(i) PROVE Good
  BY <1>1, <1>14 DEF Start, Generate
<1>15. ASSUME NEW i, Snapshot(i) \/ TaskFails(i) PROVE Good
  BY <1>1, <1>15 DEF Snapshot, TaskFails
<1>16. ASSUME NEW i, Cleanup(i) PROVE Good
  <2>1. UNCHANGED doubled
    BY <1>16 DEF Cleanup
  <2>2. UNCHANGED faults \/ Fault
    BY <1>16 DEF Cleanup
  <2> QED
    BY <1>1, <2>1, <2>2
<1>17. ASSUME NEW i, Done(i) PROVE Good
  BY <1>1, <1>17 DEF Done
<1>18. ASSUME NEW x, Change(x) PROVE Good
  BY <1>1, <1>18 DEF Change
<1>19. ASSUME UNCHANGED vars PROVE Good
  BY <1>1, <1>19 DEF vars
<1>20. Good
  BY <1>3, <1>4, <1>5, <1>6, <1>7, <1>8, <1>9, <1>10, <1>11, <1>13, <1>14, <1>15,
     <1>16, <1>17, <1>18, <1>19 DEF Next, ApiStep, Step
<1> QED
  BY <1>20 DEF Good

LEMMA GoesOnStep ==
    ASSUME IInv, IInv', GoesOn, [Next]_vars PROVE GoesOn'
<1> SUFFICES ASSUME ~(faults' > 0), doubled' = {} PROVE Orderly' /\ Owes(script')
  BY DEF GoesOn
<1>1. TypeOK /\ TypeOK' /\ faults \in Nat
  BY DEF IInv, TypeOK
<1>2. ~Fault
  BY <1>1 DEF Fault
<1>3. Orderly /\ Owes(script)
  <2>1. faults' = faults /\ doubled \subseteq {}
    BY <1>2, Counted
  <2> QED
    BY <2>1 DEF GoesOn
<1>4. PICK g \in 0..clock : Sound(g)
  BY DEF IInv
<1>5. CASE UNCHANGED vars
  <2>1. UNCHANGED <<logs, work, status, linked, script, calls>>
    BY <1>5 DEF vars
  <2>2. linked' \subseteq Kbs
    BY <1>1 DEF TypeOK
  <2> QED
    BY <1>1, <1>3, <2>1, <2>2, OrderlyCalls
<1>6. ASSUME NEW x \in Items, Change(x) PROVE Orderly' /\ Owes(script')
  <2>1. UNCHANGED <<logs, work, status, linked, script, calls>>
    BY <1>6 DEF Change
  <2>2. linked' \subseteq Kbs
    BY <1>1 DEF TypeOK
  <2> QED
    BY <1>1, <1>3, <2>1, <2>2, OrderlyCalls
<1>7. CASE Request
  <2>1. UNCHANGED <<logs, work, status, linked, calls>> /\ script = <<>>
    BY <1>7 DEF Request
  <2>2. linked' \subseteq Kbs /\ \A k : ~Promised(script, k)
    BY <1>1, <2>1 DEF TypeOK, Promised
  <2> QED
    BY <1>1, <1>3, <1>7, <2>1, <2>2, OrderlyCalls, RequestOwes
<1>8. CASE ApiStep
  BY <1>1, <1>3, <1>4, <1>8, OrderlyApi
<1>9. ASSUME NEW D \in SUBSET Due, Dispatch(D) PROVE Orderly' /\ Owes(script')
  <2>1. script' = script
    BY <1>9 DEF Dispatch
  <2> QED
    BY <1>1, <1>3, <1>9, <2>1, OrderlyDispatch
<1>10. ASSUME NEW i \in Slots, Step(i) PROVE Orderly' /\ Owes(script')
  <2>1. script' = script
    BY <1>1, <1>10, NotApiCalls DEF NotApi
  <2>2. CASE Schedule(i)
    <3>1. i \in Callers
      BY DEF Callers
    <3> QED
      BY <1>1, <1>3, <1>4, <2>1, <2>2, <3>1, OrderlySchedule
  <2>3. CASE ~Schedule(i)
    BY <1>1, <1>3, <1>10, <2>1, <2>3, OrderlyWorker DEF Step
  <2> QED
    BY <2>2, <2>3
<1>11. /\ ~Crash /\ \A i \in Slots : ~TaskFails(i) /\ ~BatchFails(i)
       /\ \A a \in Callers : ~SchedFails(a)
  BY <1>2 DEF Crash, TaskFails, BatchFails, SchedFails
<1> QED
  BY <1>5, <1>6, <1>7, <1>8, <1>9, <1>10, <1>11 DEF Next

LEMMA GoesOnInit == Init => GoesOn
<1> SUFFICES ASSUME Init PROVE Orderly /\ Owes(script)
  BY DEF GoesOn
<1>1. /\ \A kind \in Kinds : Scheduled(kind) = {}
      /\ \A i \in Slots : work[i].pc = "none"
      /\ linked = {} /\ script = <<>>
  BY DEF Init, Scheduled, NoTask
<1> QED
  BY <1>1 DEF Orderly, StatusOK, One, Lone, Begun, Active, Owes

LEMMA GoesOnSchedules == IInv /\ GoesOn => NeverStuck
<1> SUFFICES ASSUME IInv, GoesOn, NEW k \in linked, Halted(k),
                    ~(faults > 0), doubled = {}
             PROVE  Stopped(k)
  BY DEF NeverStuck
<1>1. Orderly /\ linked \subseteq Kbs
  BY DEF GoesOn, IInv, TypeOK
<1>2. /\ \A i \in Slots : work[i].pc = "none"
      /\ script = <<>> /\ calls[Api].at = "none"
      /\ status # "schedule" \/ Scheduled(SyncOf(k)) = {}
  BY DEF Halted, SyncOf
<1>3. Scheduled(SyncOf(k)) # {} \/ Stops(logs[SyncOf(k)])
  BY <1>1, <1>2 DEF Orderly, Alive, Active, Promised
<1>4. SyncOf(k) \in Kinds
  BY <1>1 DEF SyncOf, Kinds
<1>5. CASE Stops(logs[SyncOf(k)])
  BY <1>5 DEF Stops, LastRow, Stopped, SyncOf
<1>6. CASE Scheduled(SyncOf(k)) # {}
  BY <1>1, <1>2, <1>4, <1>6 DEF Orderly, StatusOK, Stopped
<1> QED
  BY <1>3, <1>5, <1>6

\* A linked dataset goes on being synchronised: when the worker is idle and no
\* request is under way, its next sync is scheduled and the status of the connector
\* lets the poll (_list_due_tasks_for_freq) find it; unless a step failed, the user
\* stopped it, or schedule met a task of the same kind under way.
THEOREM KeepsSynchronising == Spec => []NeverStuck
<1>1. Spec => []IInv
  BY SoundAlways
<1>2. IInv /\ IInv' /\ GoesOn /\ [Next]_vars => GoesOn'
  BY GoesOnStep
<1>3. Spec => []GoesOn
  BY <1>1, <1>2, GoesOnInit, PTL DEF Spec
<1> QED
  BY <1>1, <1>3, GoesOnSchedules, PTL
=============================================================================
