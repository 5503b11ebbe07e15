---------------------------- MODULE MemoryProofs -----------------------------
(***************************************************************************)
(* While the sequence of ids is in Redis, no message replaces another.     *)
(*                                                                         *)
(* The argument: until the first start has set the sequence nobody saves;  *)
(* afterwards the sequence only grows, and is at least as large as every   *)
(* id that is stored or held by a call under way.                          *)
(***************************************************************************)
EXTENDS Memory, TLAPS, LeastNumber, FiniteSetTheorems

(* Calls that have an id and have not stored their message. *)
Holding == {"exist", "get", "calc", "set", "pick", "delete", "decr", "insert"}

Shape ==
    /\ dropped \in BOOLEAN /\ count \in [Counters -> Nat]
    /\ DOMAIN store = Ids
    /\ DOMAIN job = Actors
    /\ \A a \in Actors : DOMAIN job[a] = DOMAIN Idle

(* Ids that are stored or held come from the sequence and are all different. *)
Fresh ==
    /\ \A i \in Stored : i <= seq
    /\ \A s \in Savers : job[s].pc \in Holding =>
          job[s].id \in 1..seq /\ job[s].id \notin Stored
    /\ \A s, t \in Savers :
          s # t /\ job[s].pc \in Holding /\ job[t].pc \in Holding =>
             job[s].id # job[t].id

(* Before the first start is over there is no sequence, no call and no message. *)
BeforeStart ==
    /\ seq = 0 /\ Stored = {}
    /\ \A s \in Savers : job[s].pc = "idle"
    /\ job[Server].pc \in {"idle", "boot", "max", "init"}
    /\ job[Server].pc = "init" => job[Server].seen = 1

AfterStart ==
    /\ seq >= 1
    /\ \A s \in Savers : job[s].pc # "first"
    /\ job[Server].pc \notin {"max", "init"}

Ordered ==
    /\ seq \in 0..MaxId /\ lost = {}
    /\ Fresh
    /\ IF count["boots"] = 0 THEN BeforeStart ELSE AfterStart

IInv == Shape /\ (~dropped => Ordered)

(* Initially there is nothing. *)
LEMMA InitIInv == Init => IInv
<1> SUFFICES ASSUME Init PROVE IInv
    OBVIOUS
<1>1. Shape
    BY DEF Init, Shape, Idle
<1>2. Stored = {}
    BY DEF Init, Stored
<1>3. \A a \in Actors : job[a].pc = "idle"
    BY DEF Init, Idle
<1>4. Ordered
    BY <1>2, <1>3, MemoryAssumption
       DEF Init, Ordered, Fresh, BeforeStart, Counters, Actors, Holding
<1> QED
    BY <1>1, <1>4 DEF IInv

(* What follows the reading of the size: a saver keeps its id, and only a   *)
(* start counts.                                                            *)
LEMMA SizedEffect ==
    ASSUME Shape, NEW a \in Actors, NEW size, Sized(a, size)
    PROVE  /\ DOMAIN job' = Actors /\ \A b \in Actors \ {a} : job'[b] = job[b]
           /\ DOMAIN job'[a] = DOMAIN Idle
           /\ count' \in [Counters -> Nat]
           /\ a \in Savers => job'[a].pc \in {"pick", "insert"} /\ job'[a].id = job[a].id
           /\ a \in Savers \cup {Updater} => count' = count
           /\ a = Server => /\ job'[a].pc = "idle"
                            /\ count'["boots"] = count["boots"] + 1
<1> USE DEF Become, Bump, Idle, Counters, Actors, Shape
<1> USE MemoryAssumption
<1>1. CASE a = Server
    BY <1>1 DEF Sized
<1>2. CASE a = Updater
  <2>1. \/ job' = [job EXCEPT ![a] = Idle]
        \/ job' = [job EXCEPT ![a] = [Idle EXCEPT !.pc = "apply"]]
    BY <1>2 DEF Sized
  <2>2. count' = count
    BY <1>2 DEF Sized
  <2> QED
    BY <1>2, <2>1, <2>2
<1>3. CASE a \in Savers
  <2> DEFINE J(pc) == [job[a] EXCEPT !.seen = size, !.pc = pc]
  <2>1. job' = [job EXCEPT ![a] = J("pick")] \/ job' = [job EXCEPT ![a] = J("insert")]
    BY <1>3 DEF Sized
  <2>2. count' = count
    BY <1>3 DEF Sized
  <2> QED
    BY <1>3, <2>1, <2>2
<1> QED
    BY <1>1, <1>2, <1>3

(* No step changes the shape of the variables. *)
LEMMA ShapeKept == ASSUME Shape, [Next]_vars PROVE Shape'
<1> USE DEF Become, Goto, Bump, Idle, Counters, Actors
<1>1. CASE UNCHANGED vars
    BY <1>1 DEF vars, Shape
<1>2. CASE Start
  <2>1. CASE Boot \/ BootMax
    BY <2>1 DEF Boot, BootMax, Shape, sequence, messages
  <2>2. CASE BootCheck
    BY <2>2 DEF BootCheck, SequenceReady, Shape, sequence, messages
  <2>3. CASE BootSet
    BY <2>3 DEF BootSet, SequenceReady, Shape, messages
  <2>4. CASE BootSetFails
    <3>1. dropped' \in BOOLEAN /\ DOMAIN store' = Ids
      BY <2>4 DEF BootSetFails, Shape, messages
    <3>2. count' \in [Counters -> Nat]
      BY <2>4 DEF BootSetFails, Shape
    <3>3. DOMAIN job' = Actors /\ \A a \in Actors : DOMAIN job'[a] = DOMAIN Idle
      BY <2>4 DEF BootSetFails, Shape
    <3> QED
      BY <3>1, <3>2, <3>3 DEF Shape
  <2> QED
    BY <1>2, <2>1, <2>2, <2>3, <2>4 DEF Start
<1>3. CASE Update \/ Apply
    BY <1>3 DEF Update, Apply, Shape, sequence, messages
<1>4. ASSUME NEW s \in Savers, Save(s) PROVE Shape'
  <2>1. CASE Begin(s)
    BY <2>1 DEF Begin, Shape, sequence, messages
  <2>4. CASE Incr(s) \/ First(s)
    BY <2>4 DEF Incr, First, Shape, messages
  <2>2. CASE Pick(s) \/ Decrease(s) \/ Increase(s)
    BY <2>2 DEF Pick, Decrease, Increase, Shape, sequence, messages
  <2>3. CASE Delete(s) \/ Insert(s)
    BY <2>3 DEF Delete, Insert, Shape, sequence, messages
  <2> QED
    BY <1>4, <2>1, <2>2, <2>3, <2>4 DEF Save
<1>5. ASSUME NEW a \in Actors, GetSize(a) PROVE Shape'
  <2>1. CASE Exist(a) \/ Calc(a)
    BY <2>1 DEF Exist, Calc, Shape, sequence, messages
  <2>2. CASE Get(a)
    <3>1. CASE Sized(a, sizeKey[KeyOf(a)].value)
      BY <2>2, <3>1, SizedEffect DEF Get, Shape, sequence, messages
    <3>2. CASE Become(a, Idle) /\ UNCHANGED count
      BY <2>2, <3>2 DEF Get, Shape, sequence, messages
    <3> QED
      BY <2>2, <3>1, <3>2 DEF Get
  <2>3. CASE SetCache(a)
    <3>1. Sized(a, job[a].seen)
      BY <2>3 DEF SetCache
    <3> QED
      BY <2>3, <3>1, SizedEffect DEF SetCache, Shape, sequence, messages
  <2> QED
    BY <1>5, <2>1, <2>2, <2>3 DEF GetSize
<1>6. ASSUME NEW a \in Actors, Fail(a) PROVE Shape'
    BY <1>6 DEF Fail, Shape, sequence, messages
<1>7. ASSUME NEW i \in Ids, Forget(i) PROVE Shape'
    BY <1>7 DEF Forget, Shape, sequence
<1>8. CASE ExpireSeq
    BY <1>8 DEF ExpireSeq, Shape, messages
<1>9. ASSUME NEW k \in Keys, ExpireSize(k) PROVE Shape'
    BY <1>9 DEF ExpireSize, Shape, sequence, messages
<1> QED
    BY <1>1, <1>2, <1>3, <1>4, <1>5, <1>6, <1>7, <1>8, <1>9 DEF Next

(* Once lost, the sequence is never trusted again. *)
LEMMA DroppedStays == ASSUME Shape, [Next]_vars, dropped PROVE dropped'
    BY DEF Next, Start, Boot, BootCheck, BootMax, BootSet, BootSetFails, Update,
           Apply, Save, Begin, Incr, First, Pick, Delete, Decrease, Insert,
           Increase, GetSize, Exist, Get, Calc, SetCache, Fail, Forget,
           ExpireSeq, ExpireSize, sequence, vars

(* The steps of a start. *)
LEMMA StartOrdered ==
    ASSUME Shape, Ordered, Start, ~dropped' PROVE Ordered'
<1> USE DEF Become, Goto, Bump, Counters, Actors, Idle, Shape, Ordered, Fresh,
            BeforeStart, AfterStart, sequence, messages, Stored, Holding
<1> USE MemoryAssumption
<1>1. CASE Boot
    BY <1>1 DEF Boot
<1>2. CASE BootCheck
    BY <1>2 DEF BootCheck, SequenceReady
<1>3. CASE BootMax
    BY <1>3 DEF BootMax
<1>4. CASE BootSet
    BY <1>4 DEF BootSet, SequenceReady
<1> QED
    BY <1>1, <1>2, <1>3, <1>4 DEF Start, BootSetFails

(* A call takes an id: the sequence grows past everything stored or held. *)
LEMMA IncrOrdered ==
    ASSUME Shape, Ordered, NEW s \in Savers, Incr(s) PROVE Ordered'
<1> USE DEF Become, Counters, Actors, Idle, Shape, messages, Holding
<1> USE MemoryAssumption
<1>1. count["boots"] # 0 /\ seq \in 1..MaxId /\ seq' = seq + 1 /\ seq' \in 1..MaxId
    BY DEF Incr, Ordered, BeforeStart, AfterStart
<1>2. /\ job'[s].pc = "exist" /\ job'[s].id = seq + 1
      /\ \A a \in Actors \ {s} : job'[a] = job[a]
      /\ UNCHANGED <<store, lost, count>>
    BY <1>1 DEF Incr
<1>3. Stored' = Stored
    BY <1>2 DEF Stored
<1>4. \A i \in Stored : i \in Ids /\ i <= seq
    BY DEF Ordered, Fresh, Stored
<1>5. Fresh'
    BY <1>1, <1>2, <1>3, <1>4 DEF Ordered, Fresh, Ids
<1> QED
    BY <1>1, <1>2, <1>5 DEF Ordered, AfterStart

(* A call stores its message: its id was free, and is given up with it. *)
LEMMA InsertOrdered ==
    ASSUME Shape, Ordered, NEW s \in Savers, Insert(s) PROVE Ordered'
<1> USE DEF Goto, Counters, Actors, Idle, Shape, Holding
<1> USE MemoryAssumption
<1>1. count["boots"] # 0 /\ seq \in 1..MaxId
      /\ job[s].pc \in Holding /\ job[s].id \in 1..seq /\ job[s].id \notin Stored
    BY DEF Insert, Ordered, BeforeStart, AfterStart, Fresh
<1>2. /\ lost' = lost /\ UNCHANGED <<seq, count>>
      /\ job'[s].pc = "add"
      /\ \A a \in Actors \ {s} : job'[a] = job[a]
    BY <1>1 DEF Insert, sequence
<1>3. Stored' \subseteq Stored \cup {job[s].id}
    BY <1>1 DEF Insert, Stored
<1>4. \A i \in Stored' : i <= seq'
    BY <1>1, <1>2, <1>3 DEF Ordered, Fresh
<1>5. ASSUME NEW t \in Savers, job'[t].pc \in Holding
      PROVE  /\ t # s /\ job'[t] = job[t]
             /\ job[t].id \in 1..seq /\ job[t].id \notin Stored
             /\ job[t].id # job[s].id
    BY <1>1, <1>2, <1>5 DEF Ordered, Fresh
<1>6. ASSUME NEW t \in Savers, NEW u \in Savers, t # u,
             job'[t].pc \in Holding, job'[u].pc \in Holding
      PROVE  job'[t].id # job'[u].id
    BY <1>5, <1>6 DEF Ordered, Fresh
<1>7. Fresh'
    BY <1>2, <1>3, <1>4, <1>5, <1>6 DEF Fresh
<1> QED
    BY <1>1, <1>2, <1>7 DEF Ordered, AfterStart

(* The other steps of a save keep the sequence and add nothing. *)
LEMMA SaveOrdered ==
    ASSUME Shape, Ordered, NEW s \in Savers, Save(s) PROVE Ordered'
<1> USE DEF Become, Goto, Bump, Counters, Actors, Idle, Shape, Ordered, Fresh,
            BeforeStart, AfterStart, sequence, messages, Holding
<1> USE MemoryAssumption
<1>1. CASE Begin(s)
    BY <1>1 DEF Begin, Stored
<1>2. CASE Incr(s)
    BY <1>2, IncrOrdered
<1>3. CASE First(s)
    BY <1>3 DEF First
<1>4. CASE Pick(s)
  <2>1. /\ job[s].pc = "pick" /\ job'[s].pc = "delete" /\ job'[s].id = job[s].id
        /\ \A a \in Actors \ {s} : job'[a] = job[a]
        /\ UNCHANGED <<seq, lost, count>> /\ Stored' = Stored
    BY <1>4 DEF Pick, Stored
  <2> QED
    BY <2>1
<1>7. CASE Decrease(s) \/ Increase(s)
    BY <1>7 DEF Decrease, Increase, Stored
<1>5. CASE Delete(s)
  <2>1. Stored' \subseteq Stored
    BY <1>5 DEF Delete, Stored
  <2> QED
    BY <1>5, <2>1 DEF Delete
<1>6. CASE Insert(s)
    BY <1>6, InsertOrdered
<1> QED
    BY <1>1, <1>2, <1>3, <1>4, <1>5, <1>6, <1>7 DEF Save

(* Reading the size: only the calls move, and a start may end. *)
LEMMA SizeOrdered ==
    ASSUME Shape, Ordered, NEW a \in Actors, GetSize(a) PROVE Ordered'
<1> USE DEF Become, Goto, Bump, Counters, Actors, Idle, Shape, sequence, messages,
            Holding
<1> USE MemoryAssumption
<1>1. UNCHANGED <<seq, store, lost>> /\ Stored' = Stored
    BY DEF GetSize, Exist, Get, Calc, SetCache, Stored
<1>2. /\ job[a].pc \in {"exist", "get", "calc", "set"}
      /\ \A b \in Actors \ {a} : job'[b] = job[b]
    BY DEF GetSize, Exist, Get, Calc, SetCache, Sized
<1>3. /\ a \in Savers => /\ job'[a].pc \in Holding => job'[a].id = job[a].id
                         /\ job'[a].pc # "first" /\ count' = count
      /\ a = Server => /\ job'[a].pc \notin {"max", "init"}
                       /\ count'["boots"] \in {count["boots"], count["boots"] + 1}
      /\ a = Updater => count' = count
  <2>1. CASE Exist(a)
    <3>1. /\ count' = count /\ job'[a].pc \in {"get", "calc"}
          /\ job'[a].id = job[a].id
      BY <2>1 DEF Exist
    <3> QED
      BY <3>1
  <2>2. CASE Calc(a)
    <3>1. /\ count' = count /\ job'[a].pc = "set"
          /\ job'[a].id = job[a].id
      BY <2>2 DEF Calc
    <3> QED
      BY <3>1
  <2>3. CASE Sized(a, sizeKey[KeyOf(a)].value) \/ Sized(a, job[a].seen)
    BY <2>3, SizedEffect
  <2>4. CASE Become(a, Idle) /\ UNCHANGED count
    BY <2>4
  <2> QED
    BY <2>1, <2>2, <2>3, <2>4 DEF GetSize, Get, SetCache
<1>4. Fresh'
    BY <1>1, <1>2, <1>3 DEF Ordered, Fresh
<1> QED
    BY <1>1, <1>2, <1>3, <1>4 DEF Ordered, BeforeStart, AfterStart

(* Every step keeps the order while the sequence is there. *)
LEMMA NextOrdered ==
    ASSUME Shape, Ordered, [Next]_vars, ~dropped' PROVE Ordered'
<1> USE DEF Become, Goto, Bump, Counters, Actors, Idle, Shape, Ordered, Fresh,
            BeforeStart, AfterStart, sequence, messages, Holding, Stored
<1> USE MemoryAssumption
<1>1. CASE UNCHANGED vars
    BY <1>1 DEF vars
<1>2. CASE Start
    BY <1>2, StartOrdered
<1>3. CASE Update \/ Apply
    BY <1>3 DEF Update, Apply
<1>4. ASSUME NEW s \in Savers, Save(s) PROVE Ordered'
    BY <1>4, SaveOrdered
<1>5. ASSUME NEW a \in Actors, GetSize(a) PROVE Ordered'
    BY <1>5, SizeOrdered
<1>6. ASSUME NEW a \in Actors, Fail(a) PROVE Ordered'
    BY <1>6 DEF Fail
<1>7. ASSUME NEW i \in Ids, Forget(i) PROVE Ordered'
    BY <1>7 DEF Forget
<1>8. CASE ExpireSeq
    BY <1>8 DEF ExpireSeq
<1>9. CASE \E k \in Keys : ExpireSize(k)
    BY <1>9 DEF ExpireSize
<1> QED
    BY <1>1, <1>2, <1>3, <1>4, <1>5, <1>6, <1>7, <1>8, <1>9 DEF Next

(* IInv is inductive. *)
LEMMA NextIInv == IInv /\ [Next]_vars => IInv'
<1> SUFFICES ASSUME IInv, [Next]_vars PROVE IInv'
    OBVIOUS
<1>1. Shape'
    BY ShapeKept DEF IInv
<1>2. ASSUME ~dropped' PROVE Ordered'
    BY <1>2, DroppedStays, NextOrdered DEF IInv
<1> QED
    BY <1>1, <1>2 DEF IInv

(***************************************************************************)
(* While the key of the id sequence has neither expired nor failed to be   *)
(* set, embed_and_save never overwrites a stored message, for any number   *)
(* of savers, evictions, failures and restarts of the server.              *)
(***************************************************************************)
THEOREM IdsUnique == Spec => []NoOverwrite
<1>1. IInv => NoOverwrite
    BY DEF IInv, Ordered, NoOverwrite
<1> QED
    BY <1>1, InitIInv, NextIInv, PTL DEF Spec
-----------------------------------------------------------------------------
(***************************************************************************)
(* Types: sums of sizes are numbers, and the sequence starts with an id.   *)
(***************************************************************************)

(* The sets of S of at most n elements, and the recursion of the sum on them. *)
UpTo(S, n) == {s \in SUBSET S : Cardinality(s) <= n}
Some(s) == CHOOSE x \in s : TRUE
Sums(D, st, f) ==
    f = [s \in D |-> IF s = {} THEN 0 ELSE st[Some(s)].size + f[s \ {Some(s)}]]

LEMMA Smaller ==
    ASSUME NEW s, s # {}, IsFiniteSet(s)
    PROVE  /\ Some(s) \in s /\ s \ {Some(s)} \subseteq s
           /\ IsFiniteSet(s \ {Some(s)}) /\ Cardinality(s) \in Nat
           /\ Cardinality(s \ {Some(s)}) = Cardinality(s) - 1
BY FS_RemoveElement, FS_CardinalityType DEF Some

(* The recursion has a solution: otherwise there is a first size without one. *)
LEMMA SumsExist ==
    ASSUME NEW S, IsFiniteSet(S), NEW st, NEW N \in Nat
    PROVE  \E f : Sums(UpTo(S, N), st, f)
<1> DEFINE T == {n \in Nat : ~ \E f : Sums(UpTo(S, n), st, f)}
<1> SUFFICES ASSUME T # {} PROVE FALSE
  OBVIOUS
<1>1. PICK m \in T : \A n \in T : m <= n
  BY Least
<1>0. \A s \in SUBSET S : IsFiniteSet(s) /\ Cardinality(s) \in Nat /\ (Cardinality(s) = 0 <=> s = {})
  BY FS_Subset, FS_CardinalityType, FS_EmptySet
<1>2. m # 0
  <2> DEFINE f == [s \in UpTo(S, 0) |-> 0]
  <2>1. \A s \in UpTo(S, 0) : s = {}
    BY <1>0 DEF UpTo
  <2>2. Sums(UpTo(S, 0), st, f)
    BY <2>1 DEF Sums
  <2> QED
    BY <1>1, <2>2
<1>3. m - 1 \in Nat /\ m - 1 \notin T
  BY <1>1, <1>2
<1>4. PICK f : Sums(UpTo(S, m - 1), st, f)
  BY <1>3
<1> DEFINE g == [s \in UpTo(S, m) |->
                  IF s = {} THEN 0 ELSE st[Some(s)].size + f[s \ {Some(s)}]]
<1>5. \A s \in UpTo(S, m - 1) :
        f[s] = IF s = {} THEN 0 ELSE st[Some(s)].size + f[s \ {Some(s)}]
  BY <1>4 DEF Sums
<1>6. ASSUME NEW s \in UpTo(S, m - 1) PROVE g[s] = f[s]
  <2>1. s \in UpTo(S, m)
    BY <1>0, <1>1, <1>3 DEF UpTo
  <2> QED
    BY <1>5, <2>1
<1>7. ASSUME NEW s \in UpTo(S, m), s # {}
      PROVE  s \ {Some(s)} \in UpTo(S, m - 1)
  <2>1. s \in SUBSET S /\ Cardinality(s) <= m /\ IsFiniteSet(s)
    BY <1>0 DEF UpTo
  <2>2. /\ s \ {Some(s)} \in SUBSET S /\ Cardinality(s) \in Nat
        /\ Cardinality(s \ {Some(s)}) = Cardinality(s) - 1
    BY <1>7, <2>1, Smaller
  <2> QED
    BY <1>1, <2>1, <2>2 DEF UpTo
<1>8. \A s \in UpTo(S, m) :
        g[s] = IF s = {} THEN 0 ELSE st[Some(s)].size + g[s \ {Some(s)}]
  BY <1>6, <1>7
<1>9. Sums(UpTo(S, m), st, g)
  <2>1. g = [s \in UpTo(S, m) |-> g[s]]
    OBVIOUS
  <2> HIDE DEF g
  <2> QED
    BY <1>8, <2>1 DEF Sums
<1> QED
  BY <1>1, <1>9

(* The size of a set of messages is a number. *)
LEMMA SumType ==
    ASSUME NEW S, IsFiniteSet(S), \A i \in S : store[i].size \in Nat
    PROVE  SizeOf(S) \in Nat
<1> DEFINE f == CHOOSE f : Sums(SUBSET S, store, f)
<1>0. \A s \in SUBSET S : IsFiniteSet(s) /\ Cardinality(s) \in Nat /\ Cardinality(s) <= Cardinality(S)
  BY FS_Subset, FS_CardinalityType
<1>1. Cardinality(S) \in Nat /\ UpTo(S, Cardinality(S)) = SUBSET S
  BY <1>0, FS_CardinalityType DEF UpTo
<1>2. Sums(SUBSET S, store, f)
  <2>1. \E h : Sums(UpTo(S, Cardinality(S)), store, h)
    BY <1>1, SumsExist
  <2>2. \E h : Sums(SUBSET S, store, h)
    BY <1>1, <2>1
  <2> QED
    BY <2>2
<1>3. SizeOf(S) = f[S]
  BY DEF SizeOf, MapThenSumSet, MapThenFoldSet, Sums, Some
<1> HIDE DEF f
<1>4. \A s \in SUBSET S :
        f[s] = IF s = {} THEN 0 ELSE store[Some(s)].size + f[s \ {Some(s)}]
  BY <1>2 DEF Sums
<1> DEFINE T == {n \in Nat : \E s \in SUBSET S : Cardinality(s) = n /\ f[s] \notin Nat}
<1>5. ASSUME T # {} PROVE FALSE
  <2>1. PICK m \in T : \A n \in T : m <= n
    BY <1>5, Least
  <2>2. PICK s \in SUBSET S : Cardinality(s) = m /\ f[s] \notin Nat
    BY <2>1
  <2>a. f[s] = IF s = {} THEN 0 ELSE store[Some(s)].size + f[s \ {Some(s)}]
    BY <1>4
  <2>3. s # {}
    BY <2>2, <2>a
  <2>4. /\ Some(s) \in S /\ s \ {Some(s)} \in SUBSET S
        /\ Cardinality(s \ {Some(s)}) = m - 1 /\ Cardinality(s \ {Some(s)}) \in Nat
    BY <1>0, <2>2, <2>3, Smaller
  <2>5. m - 1 \notin T
    <3>1. m \in Nat /\ ~(m <= m - 1)
      BY <2>1
    <3> HIDE DEF T
    <3> QED
      BY <2>1, <3>1
  <2>6. f[s \ {Some(s)}] \in Nat
    BY <2>4, <2>5
  <2>7. f[s] \in Nat
    <3>1. f[s] = store[Some(s)].size + f[s \ {Some(s)}]
      BY <2>3, <2>a, Zenon
    <3>2. store[Some(s)].size \in Nat
      BY <2>4
    <3> QED
      BY <2>6, <3>1, <3>2
  <2> QED
    BY <2>2, <2>7
<1>6. f[S] \in Nat
  BY <1>1, <1>5
<1> QED
  BY <1>3, <1>6

Job == [pc : Steps, n : Nat, size : Nat, id : 0..MaxId, seen : Int,
        pick : SUBSET Ids, freed : Nat]
InitOK == job[Server].pc = "init" => job[Server].seen \in 1..MaxId
TypeInv == TypeOK /\ InitOK

(* The highest id of the stored messages is one of them. *)
LEMMA MaxType == ASSUME Stored # {} PROVE Max(Stored) \in 1..MaxId
<1>1. Stored \subseteq 0..MaxId /\ Stored \subseteq 1..MaxId /\ MaxId \in Nat
  BY MemoryAssumption DEF Stored, Ids
<1>2. PICK m \in Stored : \A n \in Stored : n <= m
  BY <1>1, Largest
<1>3. m \in Stored /\ \A n \in Stored : m >= n
  BY <1>1, <1>2
<1>4. Max(Stored) \in Stored
  BY <1>3 DEF Max
<1> QED
  BY <1>1, <1>4

LEMMA SizeType == ASSUME TypeOK, NEW S \in SUBSET Ids PROVE SizeOf(S) \in Nat
<1>1. IsFiniteSet(Ids)
  BY FS_Interval, MemoryAssumption DEF Ids
<1>2. IsFiniteSet(S)
  BY <1>1, FS_Subset
<1>3. \A i \in S : store[i].size \in Nat
  BY DEF TypeOK
<1> QED
  BY <1>2, <1>3, SumType

LEMMA Actor ==
    ASSUME TypeOK, NEW a \in Actors
    PROVE  /\ job[a] \in Job /\ job[a].n \in Nat /\ job[a].size \in Nat
           /\ job[a].id \in 0..MaxId /\ job[a].seen \in Int
           /\ job[a].pick \in SUBSET Ids /\ job[a].freed \in Nat
BY DEF TypeOK, Job

LEMMA IdleType == Idle \in Job /\ Idle.pc = "idle"
BY MemoryAssumption DEF Idle, Job, Steps

(* A call becomes another; only a start sets the sequence. *)
LEMMA BecomeType ==
    ASSUME TypeOK, InitOK, NEW a \in Actors, NEW j \in Job, Become(a, j),
           j.pc # "init" \/ j.seen \in 1..MaxId
    PROVE  job' \in [Actors -> Job] /\ InitOK'
<1>1. job \in [Actors -> Job]
  BY DEF TypeOK, Job
<1>2. job' = [job EXCEPT ![a] = j]
  BY DEF Become
<1>3. Server \in Actors
  BY DEF Actors
<1>4. CASE a = Server
  BY <1>1, <1>2, <1>3, <1>4 DEF InitOK
<1>5. CASE a # Server
  BY <1>1, <1>2, <1>3, <1>5 DEF InitOK
<1> QED
  BY <1>1, <1>2, <1>4, <1>5

LEMMA GotoType ==
    ASSUME TypeOK, InitOK, NEW a \in Actors, NEW pc \in Steps \ {"init"}, Goto(a, pc)
    PROVE  job' \in [Actors -> Job] /\ InitOK'
<1>1. job \in [Actors -> Job]
  BY DEF TypeOK, Job
<1>2. Become(a, [job[a] EXCEPT !.pc = pc])
  BY <1>1 DEF Goto, Become
<1>3. [job[a] EXCEPT !.pc = pc] \in Job /\ [job[a] EXCEPT !.pc = pc].pc = pc
  BY <1>1 DEF Job
<1> QED
  BY <1>2, <1>3, BecomeType

LEMMA BumpType ==
    ASSUME TypeOK, NEW c \in Counters, Bump(c)
    PROVE  count' \in [Counters -> Nat]
BY DEF TypeOK, Bump

(* What the types of a next state are made of. *)
LEMMA NextTypes ==
    ASSUME TypeOK,
           seq' \in 0..MaxId, seqTtl' \in BOOLEAN, dropped' \in BOOLEAN, seqTtl' => seq' > 0,
           sizeKey' \in [Keys -> [there : BOOLEAN, value : Int, ttl : BOOLEAN]],
           store' \in [Ids -> [n : Nat, size : Nat]], forgot' \subseteq Stored',
           lost' \subseteq Nat, config' \in Nat, job' \in [Actors -> Job], InitOK',
           count' \in [Counters -> Nat]
    PROVE  TypeInv'
BY DEF TypeInv, TypeOK, Job

LEMMA SameMessages ==
    ASSUME TypeOK, UNCHANGED messages
    PROVE  /\ store' \in [Ids -> [n : Nat, size : Nat]] /\ forgot' \subseteq Stored'
           /\ lost' \subseteq Nat
BY DEF TypeOK, messages, Stored

LEMMA SameSequence ==
    ASSUME TypeOK, UNCHANGED sequence
    PROVE  /\ seq' \in 0..MaxId /\ seqTtl' \in BOOLEAN /\ dropped' \in BOOLEAN
           /\ seqTtl' => seq' > 0
BY DEF TypeOK, sequence

LEMMA ReadyType ==
    ASSUME TypeOK, InitOK, SequenceReady
    PROVE  job' \in [Actors -> Job] /\ InitOK' /\ count' \in [Counters -> Nat]
<1>1. /\ Server \in Actors /\ "boots" \in Counters /\ "exist" \in Steps \ {"init"}
      /\ count \in [Counters -> Nat]
  BY DEF Actors, Counters, Steps, TypeOK
<1> QED
  BY <1>1, IdleType, BecomeType, GotoType, BumpType DEF SequenceReady

LEMMA StartTypes == ASSUME TypeOK, InitOK, Start PROVE TypeInv'
<1>0. /\ Server \in Actors /\ "boots" \in Counters /\ "drops" \in Counters
      /\ {"boot", "max", "exist"} \subseteq Steps \ {"init"} /\ "init" \in Steps
      /\ count \in [Counters -> Nat] /\ config \in Nat
      /\ sizeKey \in [Keys -> [there : BOOLEAN, value : Int, ttl : BOOLEAN]]
  BY DEF Actors, Counters, Steps, TypeOK
<1>1. CASE Boot
  <2>1. job' \in [Actors -> Job] /\ InitOK'
    BY <1>0, <1>1, GotoType DEF Boot
  <2> QED
    BY <1>0, <1>1, <2>1, SameMessages, SameSequence, NextTypes DEF Boot
<1>2. CASE BootCheck
  <2>1. job' \in [Actors -> Job] /\ InitOK' /\ count' \in [Counters -> Nat]
    BY <1>0, <1>2, GotoType, ReadyType DEF BootCheck
  <2> QED
    BY <1>0, <1>2, <2>1, SameMessages, SameSequence, NextTypes DEF BootCheck
<1>3. CASE BootMax
  <2> DEFINE n == IF Stored = {} THEN 1 ELSE Max(Stored)
             j == [job[Server] EXCEPT !.pc = "init", !.seen = n]
  <2>1. n \in 1..MaxId /\ n \in Int
    BY MaxType, MemoryAssumption
  <2>2. Become(Server, j)
    BY <1>3 DEF BootMax
  <2> HIDE DEF n
  <2>3. j \in Job /\ j.seen = n
    BY <1>0, <2>1, Actor DEF Job
  <2>4. job' \in [Actors -> Job] /\ InitOK'
    BY <1>0, <2>1, <2>2, <2>3, BecomeType
  <2> QED
    BY <1>0, <1>3, <2>4, SameMessages, SameSequence, NextTypes DEF BootMax
<1>4. CASE BootSet
  <2>1. job[Server].seen \in 1..MaxId /\ MaxId \in Nat
    BY <1>4, MemoryAssumption DEF BootSet, InitOK
  <2>2. seq' \in 0..MaxId /\ seq' > 0 /\ seqTtl' \in BOOLEAN /\ dropped' \in BOOLEAN
    BY <1>4, <2>1 DEF BootSet, TypeOK
  <2>3. job' \in [Actors -> Job] /\ InitOK' /\ count' \in [Counters -> Nat]
    BY <1>4, ReadyType DEF BootSet
  <2> QED
    BY <1>0, <1>4, <2>2, <2>3, SameMessages, NextTypes DEF BootSet
<1>5. CASE BootSetFails
  <2>1. job' \in [Actors -> Job] /\ InitOK'
    BY <1>0, <1>5, GotoType, BecomeType, IdleType DEF BootSetFails
  <2>2. count' \in [Counters -> Nat]
    BY <1>0, <1>5, BumpType DEF BootSetFails
  <2>3. seq' \in 0..MaxId /\ (seqTtl' => seq' > 0) /\ seqTtl' \in BOOLEAN /\ dropped' \in BOOLEAN
    BY <1>5 DEF BootSetFails, TypeOK
  <2> QED
    BY <1>0, <1>5, <2>1, <2>2, <2>3, SameMessages, NextTypes DEF BootSetFails
<1> QED
  BY <1>1, <1>2, <1>3, <1>4, <1>5 DEF Start

LEMMA SizedType ==
    ASSUME TypeOK, InitOK, NEW a \in Actors, NEW size \in Int, Sized(a, size)
    PROVE  job' \in [Actors -> Job] /\ InitOK' /\ count' \in [Counters -> Nat]
<1>0. "boots" \in Counters /\ count \in [Counters -> Nat]
  BY DEF Counters, TypeOK
<1>1. CASE a = Server /\ Become(a, Idle) /\ Bump("boots")
  BY <1>0, <1>1, IdleType, BecomeType, BumpType
<1>2. CASE /\ Become(a, IF size > 0 THEN Idle ELSE [Idle EXCEPT !.pc = "apply"])
           /\ UNCHANGED count
  <2>1. [Idle EXCEPT !.pc = "apply"] \in Job /\ [Idle EXCEPT !.pc = "apply"].pc = "apply"
    BY IdleType DEF Job, Steps
  <2> QED
    BY <1>0, <1>2, <2>1, IdleType, BecomeType
<1>3. CASE /\ Become(a, [job[a] EXCEPT !.seen = size,
                           !.pc = IF job[a].size + size > Limit THEN "pick" ELSE "insert"])
           /\ UNCHANGED count
  <2> DEFINE pc == IF job[a].size + size > Limit THEN "pick" ELSE "insert"
             j == [job[a] EXCEPT !.seen = size, !.pc = pc]
  <2>1. pc \in Steps \ {"init"}
    BY DEF Steps
  <2>2. Become(a, j)
    BY <1>3
  <2> HIDE DEF pc
  <2>3. j \in Job /\ j.pc = pc
    BY <2>1, Actor DEF Job
  <2> QED
    BY <1>0, <1>3, <2>1, <2>2, <2>3, BecomeType
<1> QED
  BY <1>1, <1>2, <1>3 DEF Sized

LEMMA GetSizeTypes ==
    ASSUME TypeOK, InitOK, NEW a \in Actors, GetSize(a) \/ Fail(a) PROVE TypeInv'
<1>0. /\ {"get", "calc", "set"} \subseteq Steps \ {"init"} /\ "fails" \in Counters
      /\ count \in [Counters -> Nat] /\ config \in Nat /\ KeyOf(a) \in Keys
      /\ sizeKey \in [Keys -> [there : BOOLEAN, value : Int, ttl : BOOLEAN]]
  BY DEF Counters, Steps, TypeOK, KeyOf, Keys
<1>1. CASE Exist(a)
  <2>1. job' \in [Actors -> Job] /\ InitOK'
    BY <1>0, <1>1, GotoType DEF Exist
  <2> QED
    BY <1>0, <1>1, <2>1, SameMessages, SameSequence, NextTypes DEF Exist
<1>2. CASE Get(a)
  <2>1. sizeKey[KeyOf(a)].value \in Int
    BY <1>0
  <2>2. job' \in [Actors -> Job] /\ InitOK' /\ count' \in [Counters -> Nat]
    BY <1>0, <1>2, <2>1, SizedType, IdleType, BecomeType DEF Get
  <2> QED
    BY <1>0, <1>2, <2>2, SameMessages, SameSequence, NextTypes DEF Get
<1>3. CASE Calc(a)
  <2> DEFINE n == IF KeyOf(a) = "tenant" THEN 0 ELSE SizeOf(Stored)
             j == [job[a] EXCEPT !.pc = "set", !.seen = n]
  <2>1. Stored \in SUBSET Ids
    BY DEF Stored
  <2>2. n \in Int
    BY <2>1, SizeType
  <2>3. Become(a, j)
    BY <1>3 DEF Calc
  <2> HIDE DEF n
  <2>4. j \in Job /\ j.pc = "set"
    BY <1>0, <2>2, Actor DEF Job
  <2>5. job' \in [Actors -> Job] /\ InitOK'
    BY <2>3, <2>4, BecomeType
  <2> QED
    BY <1>0, <1>3, <2>5, SameMessages, SameSequence, NextTypes DEF Calc
<1>4. CASE SetCache(a)
  <2>1. job[a].seen \in Int
    BY Actor
  <2>2. job' \in [Actors -> Job] /\ InitOK' /\ count' \in [Counters -> Nat]
    BY <1>4, <2>1, SizedType DEF SetCache
  <2>3. sizeKey' \in [Keys -> [there : BOOLEAN, value : Int, ttl : BOOLEAN]]
    BY <1>0, <1>4, <2>1 DEF SetCache
  <2> QED
    BY <1>0, <1>4, <2>2, <2>3, SameMessages, SameSequence, NextTypes DEF SetCache
<1>5. CASE Fail(a)
  <2>1. job' \in [Actors -> Job] /\ InitOK' /\ count' \in [Counters -> Nat]
    BY <1>0, <1>5, IdleType, BecomeType, BumpType DEF Fail
  <2> QED
    BY <1>0, <1>5, <2>1, SameMessages, SameSequence, NextTypes DEF Fail
<1> QED
  BY <1>1, <1>2, <1>3, <1>4, <1>5 DEF GetSize

LEMMA SaveTypes == ASSUME TypeOK, InitOK, NEW s \in Savers, Save(s) PROVE TypeInv'
<1>0. /\ s \in Actors /\ "saves" \in Counters
      /\ {"first", "exist", "incr", "delete", "decr", "insert", "add"} \subseteq Steps \ {"init"}
      /\ count \in [Counters -> Nat] /\ config \in Nat /\ MaxId \in Nat
      /\ sizeKey \in [Keys -> [there : BOOLEAN, value : Int, ttl : BOOLEAN]]
      /\ "memory" \in Keys
  BY MemoryAssumption DEF Actors, Counters, Steps, TypeOK, Keys
<1>1. CASE Begin(s)
  <2>1. PICK size \in Sizes :
          Become(s, [Idle EXCEPT !.pc = "incr", !.n = count["saves"] + 1, !.size = size])
    BY <1>1 DEF Begin
  <2> DEFINE j == [Idle EXCEPT !.pc = "incr", !.n = count["saves"] + 1, !.size = size]
  <2>2. size \in Nat /\ count["saves"] + 1 \in Nat
    BY <1>0, MemoryAssumption
  <2>3. j \in Job /\ j.pc = "incr"
    BY <1>0, <2>2, IdleType DEF Job
  <2>4. job' \in [Actors -> Job] /\ InitOK'
    BY <1>0, <2>1, <2>3, BecomeType
  <2>5. count' \in [Counters -> Nat]
    BY <1>0, <1>1, BumpType DEF Begin
  <2> QED
    BY <1>0, <1>1, <2>4, <2>5, SameMessages, SameSequence, NextTypes DEF Begin
<1>2. CASE Incr(s)
  <2> DEFINE id == seq + 1
             j == [job[s] EXCEPT !.pc = "first"]
             k == [job[s] EXCEPT !.pc = "exist", !.id = id]
  <2>1. id \in 0..MaxId /\ id > 0 /\ seq \in 0..MaxId
    BY <1>0, <1>2 DEF Incr, TypeOK
  <2>2. Become(s, IF seq = 0 THEN j ELSE k)
    BY <1>2 DEF Incr
  <2> HIDE DEF id
  <2>a. j \in Job /\ j.pc = "first"
    BY <1>0, Actor DEF Job
  <2>b. k \in Job /\ k.pc = "exist"
    BY <1>0, <2>1, Actor DEF Job
  <2> HIDE DEF j, k
  <2>3. job' \in [Actors -> Job] /\ InitOK'
    BY <1>0, <2>2, <2>a, <2>b, BecomeType
  <2>4. /\ seq' \in 0..MaxId /\ (seqTtl' => seq' > 0) /\ seqTtl' \in BOOLEAN
        /\ dropped' \in BOOLEAN
    BY <1>0, <1>2, <2>1 DEF Incr, TypeOK, id
  <2> QED
    BY <1>0, <1>2, <2>3, <2>4, SameMessages, NextTypes DEF Incr
<1>3. CASE First(s)
  <2>1. 2 \in 0..MaxId
    BY <1>0, <1>3 DEF First
  <2>2. /\ [job[s] EXCEPT !.pc = "exist", !.id = 2] \in Job
        /\ [job[s] EXCEPT !.pc = "exist", !.id = 2].pc = "exist"
    BY <1>0, <2>1, Actor DEF Job
  <2>3. job' \in [Actors -> Job] /\ InitOK'
    BY <1>0, <1>3, <2>2, BecomeType DEF First
  <2>4. /\ seq' \in 0..MaxId /\ (seqTtl' => seq' > 0) /\ seqTtl' \in BOOLEAN
        /\ dropped' \in BOOLEAN
    BY <1>0, <1>3, <2>1 DEF First, TypeOK
  <2> QED
    BY <1>0, <1>3, <2>3, <2>4, SameMessages, NextTypes DEF First
<1>4. CASE Pick(s)
  <2>1. PICK ids \in Picks(job[s].seen + job[s].size - Limit) :
          Become(s, [job[s] EXCEPT !.pc = "delete", !.pick = ids, !.freed = SizeOf(ids)])
    BY <1>4 DEF Pick
  <2> DEFINE n == SizeOf(ids)
             j == [job[s] EXCEPT !.pc = "delete", !.pick = ids, !.freed = n]
  <2>2. ids \in SUBSET Ids
    BY DEF Picks, Stored
  <2>3. n \in Nat
    BY <2>2, SizeType
  <2> HIDE DEF n
  <2>4. j \in Job /\ j.pc = "delete"
    BY <1>0, <2>2, <2>3, Actor DEF Job
  <2>5. job' \in [Actors -> Job] /\ InitOK'
    BY <1>0, <2>1, <2>4, BecomeType DEF n
  <2> QED
    BY <1>0, <1>4, <2>5, SameMessages, SameSequence, NextTypes DEF Pick
<1>5. CASE Delete(s)
  <2>1. job' \in [Actors -> Job] /\ InitOK'
    BY <1>0, <1>5, GotoType DEF Delete
  <2>2. NoMessage \in [n : Nat, size : Nat]
    BY DEF NoMessage
  <2>3. store' \in [Ids -> [n : Nat, size : Nat]] /\ lost' \subseteq Nat
    BY <1>5, <2>2 DEF Delete, TypeOK
  <2>4. forgot' \subseteq Stored'
    BY <1>5 DEF Delete, TypeOK, Stored
  <2> QED
    BY <1>0, <1>5, <2>1, <2>3, <2>4, SameSequence, NextTypes DEF Delete
<1>6. ASSUME NEW d \in Int, Add(d)
      PROVE  sizeKey' \in [Keys -> [there : BOOLEAN, value : Int, ttl : BOOLEAN]]
  <2>1. sizeKey["memory"] \in [there : BOOLEAN, value : Int, ttl : BOOLEAN]
    BY <1>0
  <2>2. sizeKey' = [sizeKey EXCEPT !["memory"] =
                      [sizeKey["memory"] EXCEPT !.there = TRUE, !.value = @ + d]]
    BY <1>0, <1>6, <2>1 DEF Add
  <2> DEFINE v == sizeKey["memory"].value + d
  <2>3. v \in Int
    BY <2>1
  <2>4. sizeKey' = [sizeKey EXCEPT !["memory"] =
                      [sizeKey["memory"] EXCEPT !.there = TRUE, !.value = v]]
    BY <2>2
  <2> HIDE DEF v
  <2>5. [sizeKey["memory"] EXCEPT !.there = TRUE, !.value = v]
          \in [there : BOOLEAN, value : Int, ttl : BOOLEAN]
    BY <2>1, <2>3
  <2> QED
    BY <1>0, <2>4, <2>5
<1>7. CASE Decrease(s)
  <2>1. job' \in [Actors -> Job] /\ InitOK'
    BY <1>0, <1>7, GotoType DEF Decrease
  <2>2. -job[s].freed \in Int
    BY <1>0, Actor
  <2>3. sizeKey' \in [Keys -> [there : BOOLEAN, value : Int, ttl : BOOLEAN]]
    BY <1>6, <1>7, <2>2 DEF Decrease
  <2> QED
    BY <1>0, <1>7, <2>1, <2>3, SameMessages, SameSequence, NextTypes DEF Decrease
<1>8. CASE Insert(s)
  <2> DEFINE i == job[s].id
             m == [n |-> job[s].n, size |-> job[s].size]
  <2>1. job' \in [Actors -> Job] /\ InitOK'
    BY <1>0, <1>8, GotoType DEF Insert
  <2>2. m \in [n : Nat, size : Nat] /\ store \in [Ids -> [n : Nat, size : Nat]]
    BY <1>0, Actor DEF TypeOK
  <2>3. store' = [store EXCEPT ![i] = m]
    BY <1>8 DEF Insert
  <2>4. store' \in [Ids -> [n : Nat, size : Nat]]
    BY <2>2, <2>3
  <2>5. lost' \subseteq Nat
    <3>1. \A k \in Stored : store[k].n \in Nat
      BY <2>2 DEF Stored
    <3> QED
      BY <1>8, <3>1 DEF Insert, TypeOK
  <2>6. forgot' \subseteq Stored'
    <3>1. forgot' = forgot \ {i} /\ forgot \subseteq Stored
      BY <1>8 DEF Insert, TypeOK
    <3>2. \A k \in Ids : k # i => store'[k] = store[k]
      BY <2>2, <2>3
    <3> QED
      BY <3>1, <3>2 DEF Stored
  <2> QED
    BY <1>0, <1>8, <2>1, <2>4, <2>5, <2>6, SameSequence, NextTypes DEF Insert
<1>9. CASE Increase(s)
  <2>1. job' \in [Actors -> Job] /\ InitOK'
    BY <1>0, <1>9, IdleType, BecomeType DEF Increase
  <2>2. job[s].size \in Int
    BY <1>0, Actor
  <2>3. sizeKey' \in [Keys -> [there : BOOLEAN, value : Int, ttl : BOOLEAN]]
    BY <1>6, <1>9, <2>2 DEF Increase
  <2> QED
    BY <1>0, <1>9, <2>1, <2>3, SameMessages, SameSequence, NextTypes DEF Increase
<1> QED
  BY <1>1, <1>2, <1>3, <1>4, <1>5, <1>7, <1>8, <1>9 DEF Save

LEMMA OtherTypes ==
    ASSUME TypeOK, InitOK,
           Update \/ Apply \/ (\E i \in Ids : Forget(i)) \/ ExpireSeq
             \/ \E k \in Keys : ExpireSize(k)
    PROVE  TypeInv'
<1>0. /\ Updater \in Actors /\ {"forgets", "drops"} \subseteq Counters
      /\ "exist" \in Steps \ {"init"}
      /\ count \in [Counters -> Nat] /\ config \in Nat /\ job \in [Actors -> Job]
      /\ sizeKey \in [Keys -> [there : BOOLEAN, value : Int, ttl : BOOLEAN]]
  BY DEF Actors, Counters, Steps, TypeOK, Job
<1>1. CASE Update
  <2>1. job' \in [Actors -> Job] /\ InitOK'
    BY <1>0, <1>1, GotoType DEF Update
  <2> QED
    BY <1>0, <1>1, <2>1, SameMessages, SameSequence, NextTypes DEF Update
<1>2. CASE Apply
  <2>1. job' \in [Actors -> Job] /\ InitOK' /\ config' \in Nat
    BY <1>0, <1>2, IdleType, BecomeType DEF Apply
  <2> QED
    BY <1>0, <1>2, <2>1, SameMessages, SameSequence, NextTypes DEF Apply
<1>3. ASSUME NEW i \in Ids, Forget(i) PROVE TypeInv'
  <2>1. forgot' \subseteq Stored' /\ store' \in [Ids -> [n : Nat, size : Nat]] /\ lost' \subseteq Nat
    BY <1>3 DEF Forget, TypeOK, Stored
  <2>2. count' \in [Counters -> Nat] /\ InitOK'
    BY <1>0, <1>3, BumpType DEF Forget, InitOK
  <2> QED
    BY <1>0, <1>3, <2>1, <2>2, SameSequence, NextTypes DEF Forget
<1>4. CASE ExpireSeq
  <2>a. seq' = 0 /\ seqTtl' = FALSE /\ dropped' = TRUE
    BY <1>4 DEF ExpireSeq
  <2>b. seq' \in 0..MaxId
    BY <2>a, MemoryAssumption
  <2>1. /\ seq' \in 0..MaxId /\ (seqTtl' => seq' > 0) /\ seqTtl' \in BOOLEAN
        /\ dropped' \in BOOLEAN
    BY <2>a, <2>b, Zenon
  <2>2. count' \in [Counters -> Nat] /\ InitOK'
    BY <1>0, <1>4, BumpType DEF ExpireSeq, InitOK
  <2> QED
    BY <1>0, <1>4, <2>1, <2>2, SameMessages, NextTypes DEF ExpireSeq
<1>5. ASSUME NEW k \in Keys, ExpireSize(k) PROVE TypeInv'
  <2>1. sizeKey' \in [Keys -> [there : BOOLEAN, value : Int, ttl : BOOLEAN]]
    BY <1>0, <1>5 DEF ExpireSize, NoKey
  <2>2. count' \in [Counters -> Nat] /\ InitOK'
    BY <1>0, <1>5, BumpType DEF ExpireSize, InitOK
  <2> QED
    BY <1>0, <1>5, <2>1, <2>2, SameMessages, SameSequence, NextTypes DEF ExpireSize
<1> QED
  BY <1>1, <1>2, <1>3, <1>4, <1>5

LEMMA TypesInit == Init => TypeInv
<1> SUFFICES ASSUME Init PROVE TypeInv
  OBVIOUS
<1>1. job \in [Actors -> Job] /\ Server \in Actors /\ job[Server].pc = "idle"
  BY IdleType DEF Init, Actors
<1>2. store \in [Ids -> [n : Nat, size : Nat]]
  BY DEF Init, NoMessage
<1>3. sizeKey \in [Keys -> [there : BOOLEAN, value : Int, ttl : BOOLEAN]]
  BY DEF Init, NoKey
<1>4. seq \in 0..MaxId /\ seqTtl = FALSE /\ dropped = FALSE /\ forgot = {} /\ lost = {}
      /\ config = 0 /\ count \in [Counters -> Nat]
  BY MemoryAssumption DEF Init
<1> QED
  BY <1>1, <1>2, <1>3, <1>4 DEF TypeInv, TypeOK, InitOK, Job

LEMMA TypesStep == TypeInv /\ [Next]_vars => TypeInv'
<1> SUFFICES ASSUME TypeOK, InitOK, [Next]_vars PROVE TypeInv'
  BY DEF TypeInv
<1>1. CASE UNCHANGED vars
  BY <1>1 DEF vars, TypeInv, TypeOK, InitOK, Stored
<1> QED
  BY <1>1, StartTypes, SaveTypes, GetSizeTypes, OtherTypes DEF Next

(* The sequence, the cached sizes, the messages and the calls have their     *)
(* types: in particular a sequence that can expire has a positive value, so  *)
(* that no message gets the id 0, and what is forgotten is stored; cached    *)
(* sizes are integers, since the decrements may take them below zero.        *)
THEOREM TypeCorrect == Spec => []TypeOK
<1>1. TypeInv => TypeOK
  BY DEF TypeInv
<1> QED
  BY <1>1, TypesInit, TypesStep, PTL DEF Spec
=============================================================================
