------------------------- MODULE ContainerPoolProofs --------------------------
(***************************************************************************)
(* Proofs about ContainerPool, for any set of languages, any pool size and *)
(* any finite set of concurrent requests.                                  *)
(*                                                                         *)
(* The invariant Inv says where a name can be: prepared, in the queue of   *)
(* its language (once), or with one request.  The counting of permits is   *)
(* kept apart in Permits.                                                  *)
(***************************************************************************)
EXTENDS ContainerPool, FiniteSetTheorems, TLAPS

WithName == {"lock", "check", "rebuild", "run"}

\* TypeOK without the length of the queues, which follows from NoDup.
Types ==
    /\ phase \in Phases /\ prep \subseteq Names
    /\ queue \in [Languages -> Seq(Names)]
    /\ req \in [Requests -> Request]
    /\ lock \in Requests \cup {None}
    /\ dock \in [Names -> DockStates]
    /\ faults \in 0..MaxFaults /\ boots \in Nat

\* A request has a name exactly while it is between taking and giving back.
Shape ==
    \A r \in Requests :
        /\ req[r].pc # "idle" => req[r].lang \in Languages
        /\ req[r].pc \in WithName => req[r].name \in NamesOf(req[r].lang)
        /\ req[r].pc \notin WithName => req[r].name = None

QueueLang == \A l \in Languages : \A i \in DOMAIN queue[l] : queue[l][i] \in NamesOf(l)

NoDup ==
    \A l \in Languages : \A i, j \in DOMAIN queue[l] :
        queue[l][i] = queue[l][j] => i = j

\* A name in the hands of a request is nowhere else.
Apart ==
    \A r \in Requests : req[r].name # None =>
        /\ req[r].name \notin prep
        /\ \A l \in Languages : req[r].name \notin Queued(l)
        /\ \A s \in Requests : req[s].name = req[r].name => s = r

PrepApart == \A l \in Languages : Queued(l) \cap prep = {}

Quiet ==
    /\ phase \in {"init", "teardown", "down"} => \A r \in Requests : req[r].pc = "idle"
    /\ phase \in {"serving", "teardown", "down"} => prep = {}
    /\ phase = "down" => \A l \in Languages : queue[l] = <<>>

Inv ==
    /\ Types /\ Shape /\ QueueLang /\ NoDup /\ Apart /\ PrepApart /\ Quiet
-----------------------------------------------------------------------------
(***************************************************************************)
(* What the two operations on a queue do to the set of its names.          *)
(***************************************************************************)

\* Put adds the name to the queue of its language and to no other.
LEMMA PutEffect ==
    ASSUME queue \in [Languages -> Seq(Names)], NoDup, QueueLang,
           NEW n \in Names, Put(n), n \notin Queued(n[1])
    PROVE  /\ queue' \in [Languages -> Seq(Names)]
           /\ NoDup' /\ QueueLang'
           /\ \A l \in Languages :
                Queued(l)' = IF l = n[1] THEN Queued(l) \cup {n} ELSE Queued(l)
<1>1. n[1] \in Languages /\ n \in NamesOf(n[1])
  BY DEF Names, NamesOf
<1> DEFINE q == queue[n[1]]
<1>2. q \in Seq(Names) /\ Len(q) \in Nat /\ DOMAIN q = 1..Len(q)
  BY <1>1
<1>3. /\ queue' = [queue EXCEPT ![n[1]] = Append(q, n)]
      /\ queue'[n[1]] = Append(q, n)
      /\ \A l \in Languages : l # n[1] => queue'[l] = queue[l]
  BY <1>1 DEF Put
<1>4. /\ Append(q, n) \in Seq(Names)
      /\ DOMAIN Append(q, n) = 1..(Len(q) + 1)
      /\ Append(q, n)[Len(q) + 1] = n
      /\ \A i \in 1..Len(q) : Append(q, n)[i] = q[i]
  BY <1>2
<1>5. queue' \in [Languages -> Seq(Names)]
  BY <1>1, <1>3, <1>4
<1>6. Queued(n[1])' = Queued(n[1]) \cup {n}
  <2>1. Queued(n[1])' = {Append(q, n)[i] : i \in 1..(Len(q) + 1)}
    BY <1>3, <1>4 DEF Queued
  <2>2. Queued(n[1]) = {q[i] : i \in 1..Len(q)}
    BY <1>2 DEF Queued
  <2>3. 1..(Len(q) + 1) = (1..Len(q)) \cup {Len(q) + 1}
    BY <1>2
  <2> QED BY <2>1, <2>2, <2>3, <1>4
<1>7. \A l \in Languages : l # n[1] => Queued(l)' = Queued(l)
  BY <1>3 DEF Queued
<1>8. \A i \in 1..Len(q) : q[i] # n
  BY <1>2 DEF Queued
<1>9. NoDup'
  <2> SUFFICES ASSUME NEW l \in Languages, NEW i \in DOMAIN queue'[l],
                      NEW j \in DOMAIN queue'[l], queue'[l][i] = queue'[l][j]
               PROVE i = j
    BY DEF NoDup
  <2>1. CASE l = n[1]
    BY <2>1, <1>1, <1>2, <1>3, <1>4, <1>8 DEF NoDup
  <2>2. CASE l # n[1]
    BY <2>2, <1>3 DEF NoDup
  <2> QED BY <2>1, <2>2
<1>10. QueueLang'
  <2> SUFFICES ASSUME NEW l \in Languages, NEW i \in DOMAIN queue'[l]
               PROVE queue'[l][i] \in NamesOf(l)
    BY DEF QueueLang, NamesOf
  <2>1. CASE l = n[1]
    BY <2>1, <1>1, <1>2, <1>3, <1>4 DEF QueueLang
  <2>2. CASE l # n[1]
    BY <2>2, <1>3 DEF QueueLang
  <2> QED BY <2>1, <2>2
<1> QED BY <1>5, <1>6, <1>7, <1>9, <1>10

\* Tail removes the head, which occurs nowhere else, from one queue.
LEMMA TailEffect ==
    ASSUME queue \in [Languages -> Seq(Names)], NoDup, QueueLang,
           NEW k \in Languages, queue[k] # <<>>,
           queue' = [queue EXCEPT ![k] = Tail(@)]
    PROVE  /\ queue' \in [Languages -> Seq(Names)]
           /\ NoDup' /\ QueueLang'
           /\ Head(queue[k]) \in Queued(k) /\ Head(queue[k]) \in NamesOf(k)
           /\ \A l \in Languages :
                Queued(l)' = IF l = k THEN Queued(l) \ {Head(queue[k])} ELSE Queued(l)
<1> DEFINE q == queue[k]
<1>2. q \in Seq(Names) /\ Len(q) \in Nat \ {0} /\ DOMAIN q = 1..Len(q)
  OBVIOUS
<1>3. /\ queue'[k] = Tail(q)
      /\ \A l \in Languages : l # k => queue'[l] = queue[l]
  OBVIOUS
<1>4. /\ Tail(q) \in Seq(Names)
      /\ DOMAIN Tail(q) = 1..(Len(q) - 1)
      /\ \A i \in 1..(Len(q) - 1) : Tail(q)[i] = q[i + 1]
      /\ Head(q) = q[1]
  BY <1>2
<1>5. queue' \in [Languages -> Seq(Names)]
  BY <1>3, <1>4
<1>6. Queued(k)' = Queued(k) \ {Head(q)}
  <2>1. Queued(k)' = {Tail(q)[i] : i \in 1..(Len(q) - 1)}
    BY <1>3, <1>4 DEF Queued
  <2>2. Queued(k) = {q[i] : i \in 1..Len(q)}
    BY <1>2 DEF Queued
  <2>3. ASSUME NEW i \in 1..(Len(q) - 1)
        PROVE  Tail(q)[i] \in {q[j] : j \in 1..Len(q)} \ {q[1]}
    <3>1. i + 1 \in 1..Len(q) /\ i + 1 # 1 /\ 1 \in 1..Len(q)
      BY <1>2
    <3>2. q[i + 1] # q[1]
      BY <3>1, <1>2 DEF NoDup
    <3> QED BY <3>1, <3>2, <1>4
  <2>4. ASSUME NEW j \in 1..Len(q), q[j] # q[1]
        PROVE  q[j] \in {Tail(q)[i] : i \in 1..(Len(q) - 1)}
    <3>1. j - 1 \in 1..(Len(q) - 1) /\ Tail(q)[j - 1] = q[j]
      BY <2>4, <1>2, <1>4
    <3> QED BY <3>1
  <2> QED BY <2>1, <2>2, <2>3, <2>4, <1>4
<1>7. \A l \in Languages : l # k => Queued(l)' = Queued(l)
  BY <1>3 DEF Queued
<1>8. Head(q) \in Queued(k) /\ Head(q) \in NamesOf(k)
  <2>1. 1 \in DOMAIN q
    BY <1>2
  <2> QED BY <2>1, <1>4 DEF Queued, QueueLang
<1>9. NoDup'
  <2> SUFFICES ASSUME NEW l \in Languages, NEW i \in DOMAIN queue'[l],
                      NEW j \in DOMAIN queue'[l], queue'[l][i] = queue'[l][j]
               PROVE i = j
    BY DEF NoDup
  <2>1. CASE l = k
    <3>1. i \in 1..(Len(q) - 1) /\ j \in 1..(Len(q) - 1) /\ q[i + 1] = q[j + 1]
      BY <2>1, <1>3, <1>4
    <3>2. i + 1 \in DOMAIN q /\ j + 1 \in DOMAIN q
      BY <3>1, <1>2
    <3>3. i + 1 = j + 1
      BY <3>1, <3>2 DEF NoDup
    <3> QED BY <3>1, <3>3, <1>2
  <2>2. CASE l # k
    BY <2>2, <1>3 DEF NoDup
  <2> QED BY <2>1, <2>2
<1>10. QueueLang'
  <2> SUFFICES ASSUME NEW l \in Languages, NEW i \in DOMAIN queue'[l]
               PROVE queue'[l][i] \in NamesOf(l)
    BY DEF QueueLang, NamesOf
  <2>1. CASE l = k
    <3>1. i \in 1..(Len(q) - 1) /\ queue'[l][i] = q[i + 1]
      BY <2>1, <1>3, <1>4
    <3>2. i + 1 \in DOMAIN q
      BY <3>1, <1>2
    <3> QED BY <3>1, <3>2, <2>1 DEF QueueLang
  <2>2. CASE l # k
    BY <2>2, <1>3 DEF QueueLang
  <2> QED BY <2>1, <2>2
<1> QED BY <1>5, <1>6, <1>7, <1>8, <1>9, <1>10
-----------------------------------------------------------------------------
(***************************************************************************)
(* Inv is inductive.                                                       *)
(***************************************************************************)
Where == NoDup /\ QueueLang /\ Apart /\ PrepApart

\* Requests that keep or drop their names disturb nothing.
LEMMA KeepOrDrop ==
    ASSUME Where, UNCHANGED queue, prep' \subseteq prep,
           \A r \in Requests : req'[r].name = req[r].name \/ req'[r].name = None
    PROVE  Where'
<1>1. \A l \in Languages : Queued(l)' = Queued(l)
  BY DEF Queued
<1>2. NoDup' /\ QueueLang'
  BY DEF Where, NoDup, QueueLang
<1>3. PrepApart'
  BY <1>1 DEF Where, PrepApart
<1>4. Apart'
  BY <1>1 DEF Where, Apart
<1> QED BY <1>2, <1>3, <1>4 DEF Where

\* What a request may become.
Fits(rec) ==
    /\ rec.pc # "idle" => rec.lang \in Languages
    /\ rec.pc \in WithName => rec.name \in NamesOf(rec.lang)
    /\ rec.pc \notin WithName => rec.name = None

LEMMA BecomeEffect ==
    ASSUME Types, Shape, NEW r \in Requests, NEW rec \in Request,
           Become(r, rec), Fits(rec)
    PROVE  /\ req' \in [Requests -> Request]
           /\ Shape'
           /\ \A s \in Requests : req'[s] = IF s = r THEN rec ELSE req[s]
<1>1. \A s \in Requests : req'[s] = IF s = r THEN rec ELSE req[s]
  BY DEF Become, Types
<1>2. req' \in [Requests -> Request]
  BY DEF Become, Types
<1>3. Shape'
  BY <1>1 DEF Shape, Fits, NamesOf
<1> QED BY <1>1, <1>2, <1>3

\* A step of a request that leaves the queues alone and keeps or drops its name.
LEMMA SimpleStep ==
    ASSUME Inv, NEW r \in Requests, NEW rec \in Request, Become(r, rec), Fits(rec),
           rec.name = req[r].name \/ rec.name = None,
           req[r].pc = "idle" => phase = "serving",
           UNCHANGED <<phase, prep, queue, boots>>,
           lock' \in Requests \cup {None}, dock' \in [Names -> DockStates],
           faults' \in 0..MaxFaults
    PROVE  Inv'
<1>0. Types /\ Shape /\ Where /\ Quiet
  BY DEF Inv, Where
<1>1. /\ req' \in [Requests -> Request]
      /\ Shape'
      /\ \A s \in Requests : req'[s] = IF s = r THEN rec ELSE req[s]
  BY <1>0, BecomeEffect
<1>2. Types'
  BY <1>0, <1>1 DEF Types
<1>3. Quiet'
  BY <1>0, <1>1 DEF Quiet, Types, Phases
<1>4. Where'
  BY <1>0, <1>1, KeepOrDrop
<1> QED BY <1>1, <1>2, <1>3, <1>4 DEF Inv, Where

LEMMA InitInv == Init => Inv
<1> SUFFICES ASSUME Init PROVE Inv
  OBVIOUS
<1> USE DEF Init
<1>1. Types
  BY ContainerPoolAssumption DEF Types, Request, Idle, Phases, Steps, DockStates
<1>2. Shape /\ QueueLang /\ NoDup /\ Apart /\ PrepApart /\ Quiet
  BY DEF Shape, QueueLang, NoDup, Apart, PrepApart, Quiet, Idle, WithName, Queued
<1> QED BY <1>1, <1>2 DEF Inv

LEMMA LifespanInv == Inv /\ Lifespan => Inv'
<1> SUFFICES ASSUME Inv, Lifespan PROVE Inv'
  OBVIOUS
<1>0. Types /\ Shape /\ Where /\ Quiet
  BY DEF Inv, Where
<1>q. ASSUME Types', Shape', Where', Quiet' PROVE Inv'
  BY <1>q DEF Inv, Where
<1>1. CASE Serve \/ Shutdown \/ TornDown
  <2>1. Types' /\ Shape' /\ Quiet'
    BY <1>0, <1>1 DEF Types, Shape, Quiet, Serve, Shutdown, TornDown, Phases
  <2>2. Where'
    BY <1>0, <1>1, KeepOrDrop DEF Serve, Shutdown, TornDown
  <2> QED BY <2>1, <2>2, <1>q
<1>2. CASE Crash
  <2>1. Types' /\ Shape' /\ Quiet'
    BY <1>0, <1>2, ContainerPoolAssumption
       DEF Types, Request, Shape, Quiet, Crash, Phases, Idle, Steps, WithName, Fault
  <2>2. Where'
    BY <1>2 DEF Where, NoDup, QueueLang, Apart, PrepApart, Crash, Idle, Queued
  <2> QED BY <2>1, <2>2, <1>q
<1>3. CASE Boot
  <2>1. Types' /\ Shape' /\ Quiet'
    BY <1>0, <1>3 DEF Types, Shape, Quiet, Boot, Phases
  <2>2. /\ \A l \in Languages : queue'[l] = <<>>
        /\ \A r \in Requests : req'[r].name = None
    BY <1>0, <1>3 DEF Boot, Quiet, Shape, WithName
  <2>3. Where'
    BY <2>2 DEF Where, NoDup, QueueLang, Apart, PrepApart, Queued
  <2> QED BY <2>1, <2>3, <1>q
<1>4. ASSUME NEW n \in Names, Prepare(n) PROVE Inv'
  <2>1. phase = "init" /\ n \in prep /\ Put(n) /\ UNCHANGED <<phase, req>>
        /\ prep' = prep \ {n} /\ UNCHANGED <<boots, lock, faults>>
        /\ dock' = [dock EXCEPT ![n] = "running"]
    BY <1>4 DEF Prepare
  <2>2. n[1] \in Languages /\ n \notin Queued(n[1])
    BY <1>0, <2>1 DEF Where, PrepApart, Names
  <2>3. /\ queue' \in [Languages -> Seq(Names)]
        /\ NoDup' /\ QueueLang'
        /\ \A l \in Languages :
             Queued(l)' = IF l = n[1] THEN Queued(l) \cup {n} ELSE Queued(l)
    BY <1>0, <2>1, <2>2, PutEffect DEF Types, Where
  <2>4. \A r \in Requests : req[r].name = None
    BY <1>0, <2>1 DEF Quiet, Shape, WithName
  <2>5. Types' /\ Shape' /\ Quiet'
    BY <1>0, <2>1, <2>3 DEF Types, Shape, Quiet, Phases, DockStates
  <2>6. Apart' /\ PrepApart'
    BY <1>0, <2>1, <2>3, <2>4 DEF Where, Apart, PrepApart
  <2> QED BY <2>3, <2>5, <2>6, <1>q DEF Where
<1>5. ASSUME NEW n \in Names, PrepareFails(n) PROVE Inv'
  <2>1. Types' /\ Shape' /\ Quiet'
    BY <1>0, <1>5, ContainerPoolAssumption
       DEF Types, Shape, Quiet, PrepareFails, Phases, Fault
  <2>2. Where'
    BY <1>0, <1>5, KeepOrDrop DEF PrepareFails
  <2> QED BY <2>1, <2>2, <1>q
<1>6. ASSUME NEW n \in Names, Die(n) PROVE Inv'
  <2>1. Types' /\ Shape' /\ Quiet'
    BY <1>0, <1>6, ContainerPoolAssumption
       DEF Types, Shape, Quiet, Die, process, Phases, Fault, DockStates
  <2>2. Where'
    BY <1>0, <1>6, KeepOrDrop DEF Die, process
  <2> QED BY <2>1, <2>2, <1>q
<1>7. ASSUME NEW k \in Languages, RemoveNext(k) PROVE Inv'
  <2>1. /\ queue[k] # <<>> /\ queue' = [queue EXCEPT ![k] = Tail(@)]
        /\ UNCHANGED <<phase, prep, req>>
    BY <1>7 DEF RemoveNext, process
  <2>2. /\ queue' \in [Languages -> Seq(Names)]
        /\ NoDup' /\ QueueLang'
        /\ Head(queue[k]) \in NamesOf(k)
        /\ \A l \in Languages :
             Queued(l)' = IF l = k THEN Queued(l) \ {Head(queue[k])} ELSE Queued(l)
    BY <1>0, <2>1, TailEffect DEF Types, Where
  <2>3. Types' /\ Shape' /\ Quiet'
    BY <1>0, <1>7, <2>1, <2>2
       DEF Types, Shape, Quiet, RemoveNext, process, Phases, DockStates, Names, NamesOf
  <2>4. Apart' /\ PrepApart'
    BY <1>0, <2>1, <2>2 DEF Where, Apart, PrepApart
  <2> QED BY <2>2, <2>3, <2>4, <1>q DEF Where
<1>8. ASSUME NEW k \in Languages, RemoveFails(k) PROVE Inv'
  <2>1. /\ \A l \in Languages : queue'[l] = <<>>
        /\ \A r \in Requests : req'[r].name = None
    BY <1>0, <1>8 DEF RemoveFails, Quiet, Shape, WithName
  <2>2. Head(queue[k]) \in Names
    BY <1>0, <1>8 DEF RemoveFails, Types
  <2>3. Types' /\ Shape' /\ Quiet'
    BY <1>0, <1>8, <2>2, ContainerPoolAssumption
       DEF Types, Shape, Quiet, RemoveFails, Phases, Fault, DockStates
  <2>4. Where'
    BY <2>1 DEF Where, NoDup, QueueLang, Apart, PrepApart, Queued
  <2> QED BY <2>3, <2>4, <1>q
<1> QED BY <1>1, <1>2, <1>3, <1>4, <1>5, <1>6, <1>7, <1>8 DEF Lifespan

\* A container that is found or made ready is handed over or given back.
LEMMA ReadyInv ==
    ASSUME Inv, NEW r \in Requests, req[r].pc \in {"check", "rebuild"}, Ready(r),
           UNCHANGED <<phase, prep, boots, faults>>,
           dock' \in [Names -> DockStates]
    PROVE  Inv'
<1>0. Types /\ Shape /\ Where /\ Quiet
  BY DEF Inv, Where
<1>q. ASSUME Types', Shape', Where', Quiet' PROVE Inv'
  BY <1>q DEF Inv, Where
<1>r. lock' = None /\ req[r] \in Request
  BY <1>0 DEF Ready, Types
<1>1. CASE req[r].for = "alloc" /\ Goto(r, "run") /\ UNCHANGED queue
  <2> DEFINE rec == [req[r] EXCEPT !.pc = "run"]
  <2>1. rec \in Request /\ rec.pc = "run" /\ rec.lang = req[r].lang /\ rec.name = req[r].name
    BY <1>r DEF Request, Steps
  <2>2. Fits(rec)
    BY <1>0, <2>1 DEF Fits, Shape, WithName
  <2>3. Become(r, rec)
    BY <1>1 DEF Goto
  <2> HIDE DEF rec
  <2> QED BY <1>0, <1>1, <1>r, <2>1, <2>2, <2>3, SimpleStep DEF Types
<1>2. CASE req[r].for = "release" /\ Answer(r, "done") /\ Put(req[r].name)
  <2> DEFINE n == req[r].name
  <2>1. n \in Names /\ n # None /\ n[1] \in Languages
    BY <1>0, ContainerPoolAssumption DEF Shape, WithName, NamesOf, Names, Types
  <2>2. n \notin prep /\ n \notin Queued(n[1]) /\ \A s \in Requests : req[s].name = n => s = r
    BY <1>0, <2>1 DEF Where, Apart
  <2>3. /\ queue' \in [Languages -> Seq(Names)]
        /\ NoDup' /\ QueueLang'
        /\ \A l \in Languages :
             Queued(l)' = IF l = n[1] THEN Queued(l) \cup {n} ELSE Queued(l)
    BY <1>0, <1>2, <2>1, <2>2, PutEffect DEF Types, Where
  <2>4. Idle("done") \in Request /\ Fits(Idle("done")) /\ Idle("done").name = None
        /\ Idle("done").pc = "idle"
    BY DEF Idle, Request, Fits, Steps, WithName
  <2>5. /\ req' \in [Requests -> Request]
        /\ Shape'
        /\ \A s \in Requests : req'[s] = IF s = r THEN Idle("done") ELSE req[s]
    BY <1>0, <1>2, <2>4, BecomeEffect DEF Answer
  <2>6. Types'
    BY <1>0, <1>r, <2>3, <2>5 DEF Types
  <2>7. Quiet'
    BY <1>0, <2>4, <2>5 DEF Quiet, Types, Phases
  <2>8. \A s \in Requests : req'[s].name = IF s = r THEN None ELSE req[s].name
    BY <2>4, <2>5
  <2>9. Apart' /\ PrepApart'
    BY <1>0, <2>2, <2>3, <2>8 DEF Where, Apart, PrepApart
  <2> QED BY <2>3, <2>5, <2>6, <2>7, <2>9, <1>q DEF Where
<1> QED BY <1>1, <1>2 DEF Ready

LEMMA TakeInv ==
    ASSUME Inv, NEW r \in Requests, Take(r)
    PROVE  Inv'
<1>0. Types /\ Shape /\ Where /\ Quiet
  BY DEF Inv, Where
<1> DEFINE k == req[r].lang
<1> DEFINE n == Head(queue[k])
<1> DEFINE rec == [req[r] EXCEPT !.pc = "lock", !.name = n]
<1>1. /\ k \in Languages /\ req[r].pc = "try" /\ queue[k] # <<>>
      /\ queue' = [queue EXCEPT ![k] = Tail(@)]
      /\ Become(r, rec)
      /\ UNCHANGED <<phase, prep, boots, lock, dock, faults>>
  BY <1>0 DEF Take, process, Shape
<1>2. /\ queue' \in [Languages -> Seq(Names)]
      /\ NoDup' /\ QueueLang'
      /\ n \in Queued(k) /\ n \in NamesOf(k)
      /\ \A l \in Languages :
           Queued(l)' = IF l = k THEN Queued(l) \ {n} ELSE Queued(l)
  BY <1>0, <1>1, TailEffect DEF Types, Where
<1>3. n \in Names /\ n # None
  BY <1>1, <1>2, ContainerPoolAssumption DEF Names, NamesOf
<1>4. rec \in Request /\ rec.pc = "lock" /\ rec.lang = k /\ rec.name = n
  BY <1>0, <1>3 DEF Types, Request, Steps
<1>5. Fits(rec)
  BY <1>1, <1>2, <1>4 DEF Fits, WithName
<1> HIDE DEF rec
<1>6. /\ req' \in [Requests -> Request]
      /\ Shape'
      /\ \A s \in Requests : req'[s] = IF s = r THEN rec ELSE req[s]
  BY <1>0, <1>1, <1>4, <1>5, BecomeEffect
<1>7. Types'
  BY <1>0, <1>1, <1>2, <1>6 DEF Types
<1>8. Quiet'
  BY <1>0, <1>1, <1>6 DEF Quiet, Types, Phases
<1>9. \A l \in Languages : Queued(l) \subseteq NamesOf(l)
  BY <1>0 DEF Where, QueueLang, Queued
<1>10. n \notin prep
  BY <1>0, <1>1, <1>2 DEF Where, PrepApart
<1>11. \A l \in Languages : n \notin Queued(l)'
  BY <1>1, <1>2, <1>9 DEF NamesOf
<1>12. \A s \in Requests : req[s].name # n
  BY <1>0, <1>1, <1>2, <1>3 DEF Where, Apart
<1>13. \A s \in Requests : req'[s].name = IF s = r THEN n ELSE req[s].name
  BY <1>4, <1>6
<1>14. Apart'
  <2> SUFFICES ASSUME NEW s \in Requests, req'[s].name # None
               PROVE /\ req'[s].name \notin prep'
                     /\ \A l \in Languages : req'[s].name \notin Queued(l)'
                     /\ \A u \in Requests : req'[u].name = req'[s].name => u = s
    BY DEF Apart
  <2>1. CASE s = r
    BY <2>1, <1>1, <1>10, <1>11, <1>12, <1>13
  <2>2. CASE s # r
    BY <2>2, <1>0, <1>1, <1>2, <1>12, <1>13 DEF Where, Apart
  <2> QED BY <2>1, <2>2
<1>15. PrepApart'
  BY <1>0, <1>1, <1>2 DEF Where, PrepApart
<1> QED BY <1>2, <1>6, <1>7, <1>8, <1>14, <1>15 DEF Inv

LEMMA HandleInv ==
    ASSUME Inv, NEW r \in Requests, Handle(r)
    PROVE  Inv'
<1>0. Types /\ Shape /\ Where /\ Quiet
  BY DEF Inv, Where
<1>t. req[r] \in Request /\ lock \in Requests \cup {None}
      /\ dock \in [Names -> DockStates] /\ faults \in 0..MaxFaults
  BY <1>0 DEF Types
<1>i. ASSUME NEW res \in {"none", "refused", "busy", "done", "error"}
      PROVE  Idle(res) \in Request /\ Fits(Idle(res)) /\ Idle(res).name = None
  BY DEF Idle, Request, Fits, Steps, WithName
<1>g. ASSUME NEW pc \in Steps \ {"idle"}, req[r].pc # "idle",
             pc \in WithName <=> req[r].pc \in WithName
      PROVE  /\ [req[r] EXCEPT !.pc = pc] \in Request
             /\ Fits([req[r] EXCEPT !.pc = pc])
             /\ [req[r] EXCEPT !.pc = pc].name = req[r].name
  <2>1. /\ [req[r] EXCEPT !.pc = pc] \in Request
        /\ [req[r] EXCEPT !.pc = pc].pc = pc
        /\ [req[r] EXCEPT !.pc = pc].lang = req[r].lang
        /\ [req[r] EXCEPT !.pc = pc].name = req[r].name
    BY <1>t DEF Request
  <2> QED BY <1>0, <1>g, <2>1 DEF Fits, Shape
<1>1. ASSUME NEW l \in Languages, Arrive(r, l) PROVE Inv'
  <2> DEFINE rec == [Idle("none") EXCEPT !.pc = "sem", !.lang = l]
  <2>1. rec \in Request /\ Fits(rec) /\ rec.name = None
    BY DEF Idle, Request, Fits, Steps, WithName
  <2>2. Become(r, rec) /\ phase = "serving" /\ UNCHANGED <<phase, prep, boots, queue, lock, dock, faults>>
    BY <1>1 DEF Arrive, process
  <2> HIDE DEF rec
  <2> QED BY <1>t, <2>1, <2>2, SimpleStep
<1>2. CASE Enter(r) \/ TakeNothing(r) \/ Again(r)
  <2>1. PICK pc \in {"try", "again"} : Goto(r, pc)
    BY <1>2 DEF Enter, TakeNothing, Again
  <2>2. /\ req[r].pc \in {"sem", "try", "again"}
        /\ UNCHANGED <<phase, prep, boots, queue, lock, dock, faults>>
    BY <1>2 DEF Enter, TakeNothing, Again, process
  <2>3. /\ [req[r] EXCEPT !.pc = pc] \in Request
        /\ Fits([req[r] EXCEPT !.pc = pc])
        /\ [req[r] EXCEPT !.pc = pc].name = req[r].name
    BY <1>g, <2>1, <2>2 DEF WithName, Steps
  <2> QED BY <1>t, <2>1, <2>2, <2>3, SimpleStep DEF Goto
<1>3. CASE Refuse(r) \/ TimeUp(r)
  <2>1. PICK res \in {"refused", "busy"} : Become(r, Idle(res))
    BY <1>3 DEF Refuse, TimeUp, Answer
  <2>2. req[r].pc # "idle" /\ UNCHANGED <<phase, prep, boots, queue, lock, dock, faults>>
    BY <1>3 DEF Refuse, TimeUp, process
  <2> QED BY <1>t, <1>i, <2>1, <2>2, SimpleStep
<1>4. CASE Take(r)
  BY <1>4, TakeInv
<1>5. CASE Lock(r)
  <2>1. /\ req[r].pc = "lock" /\ Goto(r, "check") /\ lock' = r
        /\ UNCHANGED <<phase, prep, boots, queue, dock, faults>>
    BY <1>5 DEF Lock, process
  <2>2. /\ [req[r] EXCEPT !.pc = "check"] \in Request
        /\ Fits([req[r] EXCEPT !.pc = "check"])
        /\ [req[r] EXCEPT !.pc = "check"].name = req[r].name
    BY <1>g, <2>1 DEF WithName, Steps
  <2> QED BY <1>t, <2>1, <2>2, SimpleStep DEF Goto
<1>6. CASE NotRunning(r)
  <2>1. /\ req[r].pc = "check" /\ Goto(r, "rebuild")
        /\ UNCHANGED <<phase, prep, boots, queue, lock, dock>>
        /\ faults' \in 0..MaxFaults
    BY <1>t, <1>6, ContainerPoolAssumption DEF NotRunning, process, Fault
  <2>2. /\ [req[r] EXCEPT !.pc = "rebuild"] \in Request
        /\ Fits([req[r] EXCEPT !.pc = "rebuild"])
        /\ [req[r] EXCEPT !.pc = "rebuild"].name = req[r].name
    BY <1>g, <2>1 DEF WithName, Steps
  <2> QED BY <1>t, <2>1, <2>2, SimpleStep DEF Goto
<1>7. CASE Running(r)
  BY <1>0, <1>7, ReadyInv DEF Running, process, Types
<1>8. CASE Rebuild(r)
  BY <1>0, <1>8, ReadyInv DEF Rebuild, process, Types, DockStates
<1>9. CASE RebuildFails(r)
  <2> DEFINE rec == IF req[r].for = "alloc"
                    THEN [req[r] EXCEPT !.pc = "again", !.name = None]
                    ELSE Idle("done")
  <2>0. Become(r, rec)
    BY <1>9 DEF RebuildFails
  <2>1. /\ req[r].pc = "rebuild" /\ lock' = None
        /\ UNCHANGED <<phase, prep, boots, queue>>
        /\ Fault
        /\ \E s \in DockStates : dock' = [dock EXCEPT ![req[r].name] = s]
    BY <1>9 DEF RebuildFails, process
  <2>f. faults' \in 0..MaxFaults
    BY <1>t, <2>1, ContainerPoolAssumption DEF Fault
  <2>d. dock' \in [Names -> DockStates]
    <3>1. PICK s \in DockStates : dock' = [dock EXCEPT ![req[r].name] = s]
      BY <2>1
    <3> QED BY <1>t, <3>1
  <2>2. /\ [req[r] EXCEPT !.pc = "again", !.name = None] \in Request
        /\ [req[r] EXCEPT !.pc = "again", !.name = None].pc = "again"
        /\ [req[r] EXCEPT !.pc = "again", !.name = None].lang = req[r].lang
        /\ [req[r] EXCEPT !.pc = "again", !.name = None].name = None
    BY <1>t DEF Request, Steps
  <2>3. rec \in Request /\ Fits(rec) /\ rec.name = None
    BY <1>0, <1>i, <2>1, <2>2 DEF Fits, Shape, WithName
  <2> HIDE DEF rec
  <2> QED BY <1>t, <2>0, <2>1, <2>f, <2>d, <2>3, SimpleStep
<1>10. CASE Run(r)
  <2> DEFINE rec == [req[r] EXCEPT !.pc = "lock", !.for = "release"]
  <2>1. /\ req[r].pc = "run" /\ Become(r, rec)
        /\ UNCHANGED <<phase, prep, boots, queue, lock, dock, faults>>
    BY <1>10 DEF Run, process
  <2>2. rec \in Request /\ rec.pc = "lock" /\ rec.lang = req[r].lang /\ rec.name = req[r].name
    BY <1>t DEF Request, Steps
  <2>3. Fits(rec)
    BY <1>0, <2>1, <2>2 DEF Fits, Shape, WithName
  <2> HIDE DEF rec
  <2> QED BY <1>t, <2>1, <2>2, <2>3, SimpleStep
<1>11. CASE MakedirsFails(r)
  <2>1. /\ req[r].pc = "run" /\ Become(r, Idle("error"))
        /\ UNCHANGED <<phase, prep, boots, queue, lock, dock>>
        /\ faults' \in 0..MaxFaults
    BY <1>t, <1>11, ContainerPoolAssumption DEF MakedirsFails, Answer, process, Fault
  <2> QED BY <1>t, <1>i, <2>1, SimpleStep
<1> QED BY <1>1, <1>2, <1>3, <1>4, <1>5, <1>6, <1>7, <1>8, <1>9, <1>10, <1>11 DEF Handle, Step

LEMMA StutterInv == Inv /\ UNCHANGED vars => Inv'
<1> SUFFICES ASSUME Inv, UNCHANGED vars PROVE Inv'
  OBVIOUS
<1>0. Types /\ Shape /\ Where /\ Quiet
  BY DEF Inv, Where
<1>1. Types' /\ Shape' /\ Quiet'
  BY <1>0 DEF vars, Types, Shape, Quiet
<1>2. Where'
  BY <1>0, KeepOrDrop DEF vars
<1> QED BY <1>1, <1>2 DEF Inv, Where

LEMMA Invariance == Spec => []Inv
<1>1. Inv /\ [Next]_vars => Inv'
  BY LifespanInv, HandleInv, StutterInv DEF Next
<1> QED BY InitInv, <1>1, PTL DEF Spec
-----------------------------------------------------------------------------
(***************************************************************************)
(* TypeOK and Exclusive follow from Inv.                                   *)
(***************************************************************************)

\* A language has Size names.
LEMMA NamesCount ==
    ASSUME NEW l \in Languages
    PROVE  IsFiniteSet(NamesOf(l)) /\ Cardinality(NamesOf(l)) = Size
<1>1. IsFiniteSet({l}) /\ Cardinality({l}) = 1
  BY FS_Singleton
<1>2. IsFiniteSet(1..Size) /\ Cardinality(1..Size) = Size
  BY ContainerPoolAssumption, FS_Interval
<1>3. /\ IsFiniteSet({l} \X (1..Size))
      /\ Cardinality({l} \X (1..Size)) = Cardinality({l}) * Cardinality(1..Size)
  BY <1>1, <1>2, FS_Product
<1> QED BY <1>1, <1>2, <1>3, ContainerPoolAssumption DEF NamesOf

\* A queue without duplicates is no longer than there are names.
LEMMA QueueLength ==
    ASSUME Inv, NEW l \in Languages
    PROVE  Len(queue[l]) <= Size
<1> DEFINE q == queue[l]
<1>1. q \in Seq(Names) /\ Len(q) \in Nat /\ DOMAIN q = 1..Len(q)
  BY DEF Inv, Types
<1>2. q \in Injection(1..Len(q), NamesOf(l))
  <2>1. \A i \in 1..Len(q) : q[i] \in NamesOf(l)
    BY <1>1 DEF Inv, QueueLang
  <2>2. q = [i \in 1..Len(q) |-> q[i]]
    BY <1>1
  <2>3. q \in [1..Len(q) -> NamesOf(l)]
    BY <2>1, <2>2
  <2>4. \A i, j \in 1..Len(q) : q[i] = q[j] => i = j
    BY <1>1 DEF Inv, NoDup
  <2> QED BY <1>1, <2>3, <2>4 DEF Injection, IsInjective
<1>3. Cardinality(1..Len(q)) <= Cardinality(NamesOf(l))
  BY <1>2, NamesCount, FS_Injection
<1>4. Cardinality(1..Len(q)) = Len(q)
  <2>1. 1 \in Int /\ Len(q) \in Int
    BY <1>1
  <2>2. Cardinality(1..Len(q)) = IF 1 > Len(q) THEN 0 ELSE Len(q) - 1 + 1
    BY <2>1, FS_Interval, Zenon
  <2> QED BY <1>1, <2>2
<1> QED BY <1>3, <1>4, NamesCount

\* Every variable keeps its type and no queue outgrows the pool.
THEOREM TypeCorrect == Spec => []TypeOK
<1>1. Inv => TypeOK
  BY QueueLength DEF Inv, Types, TypeOK
<1> QED BY Invariance, <1>1, PTL

\* A container is never used by two requests, nor offered while it is used,
\* nor offered twice (get_nowait before the lock, put under it).
THEOREM ExclusiveUse == Spec => []Exclusive
<1>1. ASSUME Inv PROVE Exclusive
  <2> SUFFICES ASSUME NEW n \in Names
               PROVE /\ \A r, s \in Held(n) : r = s
                     /\ Held(n) # {} => n \notin Queued(n[1])
                     /\ \A i, j \in DOMAIN queue[n[1]] :
                          queue[n[1]][i] = n /\ queue[n[1]][j] = n => i = j
    BY DEF Exclusive
  <2>1. n # None /\ n[1] \in Languages
    BY ContainerPoolAssumption DEF Names
  <2>2. \A r, s \in Held(n) : r = s
    BY <1>1, <2>1 DEF Inv, Apart, Held
  <2>3. Held(n) # {} => n \notin Queued(n[1])
    BY <1>1, <2>1 DEF Inv, Apart, Held
  <2>4. \A i, j \in DOMAIN queue[n[1]] :
          queue[n[1]][i] = n /\ queue[n[1]][j] = n => i = j
    BY <1>1, <2>1 DEF Inv, NoDup
  <2> QED BY <2>2, <2>3, <2>4
<1> QED BY Invariance, <1>1, PTL
-----------------------------------------------------------------------------
(***************************************************************************)
(* What a step of a request does, as far as names and permits go.          *)
(***************************************************************************)
Outside == {"idle", "sem"}

\* The request keeps its name or drops it, takes the head of its queue, or
\* puts its name back.
Moves(r) ==
    \/ UNCHANGED queue /\ req'[r].name \in {req[r].name, None}
    \/ /\ req[r].name = None
       /\ req[r].lang \in Languages /\ queue[req[r].lang] # <<>>
       /\ queue' = [queue EXCEPT ![req[r].lang] = Tail(@)]
       /\ req'[r].name = Head(queue[req[r].lang])
    \/ req[r].name \in Names /\ Put(req[r].name) /\ req'[r].name = None

\* Only Enter lets it in, and it waits for a container because there was none
\* or because it has just lost one.
Advances(r) ==
    /\ req'[r].pc \notin Outside =>
         /\ req'[r].lang = req[r].lang
         /\ req[r].pc \notin Outside \/ Enter(r)
    /\ req'[r].pc = "again" =>
         \/ TakeNothing(r)
         \/ UNCHANGED queue /\ req[r].name # None /\ req'[r].name = None

Effect(r) ==
    /\ \A s \in Requests : s # r => req'[s] = req[s]
    /\ UNCHANGED <<phase, prep>>
    /\ Moves(r) /\ Advances(r)

LEMMA BecomeIs ==
    ASSUME Types, NEW r \in Requests, NEW rec, Become(r, rec)
    PROVE  req'[r] = rec /\ \A s \in Requests : s # r => req'[s] = req[s]
BY DEF Types, Become

LEMMA HandleEffect ==
    ASSUME Inv, NEW r \in Requests, Handle(r)
    PROVE  Effect(r)
<1>0. Types /\ Shape /\ req[r] \in Request
  BY DEF Inv, Types
<1>g. ASSUME NEW pc, Goto(r, pc)
      PROVE  /\ req'[r].pc = pc /\ req'[r].name = req[r].name
             /\ req'[r].lang = req[r].lang
             /\ \A s \in Requests : s # r => req'[s] = req[s]
  <2>1. /\ req'[r] = [req[r] EXCEPT !.pc = pc]
        /\ \A s \in Requests : s # r => req'[s] = req[s]
    BY <1>0, <1>g, BecomeIs DEF Goto
  <2> QED BY <1>0, <2>1 DEF Request
<1>a. ASSUME NEW res, Answer(r, res)
      PROVE  /\ req'[r].pc = "idle" /\ req'[r].name = None
             /\ \A s \in Requests : s # r => req'[s] = req[s]
  <2>1. /\ req'[r] = Idle(res)
        /\ \A s \in Requests : s # r => req'[s] = req[s]
    BY <1>0, <1>a, BecomeIs DEF Answer
  <2> QED BY <2>1 DEF Idle
<1> USE DEF Outside, Effect, Moves, Advances
<1>1. ASSUME NEW l \in Languages, Arrive(r, l) PROVE Effect(r)
  <2> DEFINE rec == [Idle("none") EXCEPT !.pc = "sem", !.lang = l]
  <2>1. Become(r, rec) /\ UNCHANGED <<phase, prep, queue>>
    BY <1>1 DEF Arrive, process
  <2>2. rec.pc = "sem" /\ rec.name = None
    BY DEF Idle
  <2> HIDE DEF rec
  <2>3. req'[r] = rec /\ \A s \in Requests : s # r => req'[s] = req[s]
    BY <1>0, <2>1, BecomeIs
  <2> QED BY <2>1, <2>2, <2>3
<1>2. CASE Enter(r)
  BY <1>2, <1>g DEF Enter, process
<1>3. CASE TakeNothing(r)
  BY <1>3, <1>g DEF TakeNothing, process
<1>4. CASE Again(r)
  BY <1>4, <1>g DEF Again, process
<1>5. CASE Refuse(r) \/ TimeUp(r)
  BY <1>5, <1>a DEF Refuse, TimeUp, process
<1>6. CASE Take(r)
  <2> DEFINE rec == [req[r] EXCEPT !.pc = "lock", !.name = Head(queue[req[r].lang])]
  <2>1. /\ Become(r, rec) /\ UNCHANGED <<phase, prep>>
        /\ req[r].pc = "try" /\ queue[req[r].lang] # <<>>
        /\ queue' = [queue EXCEPT ![req[r].lang] = Tail(@)]
    BY <1>6 DEF Take, process
  <2>2. /\ rec.pc = "lock" /\ rec.name = Head(queue[req[r].lang])
        /\ rec.lang = req[r].lang
    BY <1>0 DEF Request
  <2>3. req[r].name = None /\ req[r].lang \in Languages
    BY <1>0, <2>1 DEF Shape, WithName
  <2> HIDE DEF rec
  <2>4. req'[r] = rec /\ \A s \in Requests : s # r => req'[s] = req[s]
    BY <1>0, <2>1, BecomeIs
  <2> QED BY <2>1, <2>2, <2>3, <2>4
<1>7. CASE Lock(r)
  BY <1>7, <1>g DEF Lock, process
<1>8. CASE NotRunning(r)
  BY <1>8, <1>g DEF NotRunning, process
<1>9. ASSUME req[r].pc \in {"check", "rebuild"}, Ready(r), UNCHANGED <<phase, prep>>
      PROVE  Effect(r)
  <2>1. CASE Goto(r, "run") /\ UNCHANGED queue
    BY <1>9, <2>1, <1>g
  <2>2. CASE Answer(r, "done") /\ Put(req[r].name)
    <3>1. req[r].name \in Names
      BY <1>0, <1>9 DEF Shape, WithName, NamesOf, Names
    <3> QED BY <1>9, <2>2, <3>1, <1>a
  <2> QED BY <1>9, <2>1, <2>2 DEF Ready
<1>10. CASE Running(r)
  BY <1>9, <1>10 DEF Running, process
<1>11. CASE Rebuild(r)
  BY <1>9, <1>11 DEF Rebuild, process
<1>12. CASE RebuildFails(r)
  <2> DEFINE rec == IF req[r].for = "alloc"
                    THEN [req[r] EXCEPT !.pc = "again", !.name = None]
                    ELSE Idle("done")
  <2>1. Become(r, rec)
    BY <1>12 DEF RebuildFails
  <2>2. req[r].pc = "rebuild" /\ UNCHANGED <<phase, prep, queue>>
    BY <1>12 DEF RebuildFails, process
  <2>3. /\ rec.name = None
        /\ rec.pc = "idle" \/ (rec.pc = "again" /\ rec.lang = req[r].lang)
    <3>1. /\ [req[r] EXCEPT !.pc = "again", !.name = None].pc = "again"
          /\ [req[r] EXCEPT !.pc = "again", !.name = None].lang = req[r].lang
          /\ [req[r] EXCEPT !.pc = "again", !.name = None].name = None
      BY <1>0 DEF Request
    <3>2. Idle("done").pc = "idle" /\ Idle("done").name = None
      BY DEF Idle
    <3> QED BY <3>1, <3>2
  <2>4. req[r].name # None
    BY <1>0, <2>2, ContainerPoolAssumption DEF Shape, WithName, NamesOf, Names
  <2> HIDE DEF rec
  <2>5. req'[r] = rec /\ \A s \in Requests : s # r => req'[s] = req[s]
    BY <1>0, <2>1, BecomeIs
  <2> QED BY <2>2, <2>3, <2>4, <2>5
<1>13. CASE Run(r)
  <2> DEFINE rec == [req[r] EXCEPT !.pc = "lock", !.for = "release"]
  <2>1. req[r].pc = "run" /\ Become(r, rec) /\ UNCHANGED <<phase, prep, queue>>
    BY <1>13 DEF Run, process
  <2>2. rec.pc = "lock" /\ rec.lang = req[r].lang /\ rec.name = req[r].name
    BY <1>0 DEF Request
  <2> HIDE DEF rec
  <2>3. req'[r] = rec /\ \A s \in Requests : s # r => req'[s] = req[s]
    BY <1>0, <2>1, BecomeIs
  <2> QED BY <2>1, <2>2, <2>3
<1>14. CASE MakedirsFails(r)
  BY <1>14, <1>a DEF MakedirsFails, process
<1> QED BY <1>1, <1>2, <1>3, <1>4, <1>5, <1>6, <1>7, <1>8, <1>10, <1>11, <1>12, <1>13, <1>14
        DEF Handle, Step
\* The same for the sets of names: nothing moves, or one name is dropped,
\* taken or put back.
SameQueues == \A l \in Languages : Queued(l)' = Queued(l)
SameHeld(n) == \A m \in Names : m # n => Held(m)' = Held(m)

DropsName(r, n) == SameQueues /\ SameHeld(n) /\ Held(n) = {r} /\ Held(n)' = {}
TakesName(r, n) ==
    /\ \A m \in Names : r \notin Held(m)
    /\ SameHeld(n) /\ Held(n) = {} /\ Held(n)' = {r}
    /\ n \in Queued(n[1])
    /\ \A l \in Languages : Queued(l)' = Queued(l) \ {n}
PutsName(r, n) ==
    /\ SameHeld(n) /\ Held(n) = {r} /\ Held(n)' = {}
    /\ \A l \in Languages : n \notin Queued(l)
    /\ \A l \in Languages :
         Queued(l)' = IF l = n[1] THEN Queued(l) \cup {n} ELSE Queued(l)

LEMMA NameEffect ==
    ASSUME Inv, NEW r \in Requests, Effect(r)
    PROVE  \/ SameQueues /\ \A m \in Names : Held(m)' = Held(m)
           \/ \E n \in Names : DropsName(r, n) \/ TakesName(r, n) \/ PutsName(r, n)
<1>0. Types /\ Shape /\ NoDup /\ QueueLang /\ Apart
  BY DEF Inv
<1>1. \A s \in Requests : s # r => req'[s].name = req[s].name
  BY DEF Effect
<1>2. ASSUME NEW n \in Names, req[r].name = n
      PROVE  Held(n) = {r} /\ \A l \in Languages : n \notin Queued(l)
  BY <1>0, <1>2, ContainerPoolAssumption DEF Apart, Held
<1>3. ASSUME NEW n \in Names, req[r].name = n, req'[r].name = None
      PROVE  Held(n)' = {} /\ SameHeld(n)
  <2>1. \A s \in Requests : req[s].name = n => s = r
    BY <1>2, <1>3 DEF Held
  <2>2. Held(n)' = {}
    BY <1>1, <1>3, <2>1, ContainerPoolAssumption DEF Held
  <2>3. ASSUME NEW m \in Names, m # n PROVE Held(m)' = Held(m)
    BY <1>1, <1>3, <2>3, ContainerPoolAssumption DEF Held
  <2> QED BY <2>2, <2>3 DEF SameHeld
<1>4. req[r].name \in Names \cup {None}
  BY <1>0 DEF Types, Request
<1>5. CASE UNCHANGED queue /\ req'[r].name \in {req[r].name, None}
  <2>1. SameQueues
    BY <1>5 DEF SameQueues, Queued
  <2>2. CASE req'[r].name = req[r].name
    <3>1. \A m \in Names : Held(m)' = Held(m)
      BY <1>1, <2>2 DEF Held
    <3> QED BY <2>1, <3>1
  <2>3. CASE req'[r].name = None /\ req[r].name \in Names
    <3>1. PICK n \in Names : req[r].name = n
      BY <2>3
    <3>2. DropsName(r, n)
      BY <2>1, <2>3, <3>1, <1>2, <1>3 DEF DropsName
    <3> QED BY <3>2
  <2> QED BY <1>4, <1>5, <2>2, <2>3
<1>6. CASE /\ req[r].name = None
           /\ req[r].lang \in Languages /\ queue[req[r].lang] # <<>>
           /\ queue' = [queue EXCEPT ![req[r].lang] = Tail(@)]
           /\ req'[r].name = Head(queue[req[r].lang])
  <2>k. PICK k \in Languages : k = req[r].lang
    BY <1>6
  <2>0. /\ Head(queue[k]) \in Queued(k) /\ Head(queue[k]) \in NamesOf(k)
        /\ \A l \in Languages :
             Queued(l)' = IF l = k THEN Queued(l) \ {Head(queue[k])} ELSE Queued(l)
    BY <1>0, <1>6, <2>k, TailEffect DEF Types
  <2>n. PICK n \in NamesOf(k) : n = Head(queue[k])
    BY <2>0
  <2>1. /\ n \in Queued(k) /\ n \in NamesOf(k) /\ req'[r].name = n
        /\ \A l \in Languages :
             Queued(l)' = IF l = k THEN Queued(l) \ {n} ELSE Queued(l)
    BY <1>6, <2>0, <2>k, <2>n
  <2>2. n \in Names /\ n[1] = k /\ n # None
    BY <2>1, <1>6, ContainerPoolAssumption DEF NamesOf, Names
  <2>3. \A l \in Languages : Queued(l) \subseteq NamesOf(l)
    BY <1>0 DEF QueueLang, Queued
  <2>4. \A l \in Languages : Queued(l)' = Queued(l) \ {n}
    <3> SUFFICES ASSUME NEW l \in Languages, l # k PROVE n \notin Queued(l)
      BY <2>1
    <3> QED BY <2>2, <2>3 DEF NamesOf
  <2>5. \A s \in Requests : req[s].name # n
    BY <1>0, <1>6, <2>1, <2>2 DEF Apart
  <2>6. Held(n) = {} /\ Held(n)' = {r}
    BY <1>1, <2>1, <2>5 DEF Held
  <2>7. SameHeld(n)
    <3> SUFFICES ASSUME NEW m \in Names, m # n PROVE Held(m)' = Held(m)
      BY DEF SameHeld
    <3> QED BY <1>1, <1>6, <2>1, ContainerPoolAssumption DEF Held
  <2>8. \A m \in Names : r \notin Held(m)
    BY <1>6, ContainerPoolAssumption DEF Held
  <2>9. TakesName(r, n)
    BY <2>1, <2>2, <2>4, <2>6, <2>7, <2>8 DEF TakesName
  <2> QED BY <2>2, <2>9
<1>7. CASE req[r].name \in Names /\ Put(req[r].name) /\ req'[r].name = None
  <2>n. PICK n \in Names : req[r].name = n
    BY <1>7
  <2>1. n[1] \in Languages
    BY DEF Names
  <2>p. Put(n)
    BY <1>7, <2>n DEF Put
  <2>2. Held(n) = {r} /\ \A l \in Languages : n \notin Queued(l)
    BY <1>2, <2>n
  <2>3. Held(n)' = {} /\ SameHeld(n)
    BY <1>3, <1>7, <2>n
  <2>4. \A l \in Languages :
          Queued(l)' = IF l = n[1] THEN Queued(l) \cup {n} ELSE Queued(l)
    BY <1>0, <2>p, <2>1, <2>2, PutEffect DEF Types
  <2>5. PutsName(r, n)
    BY <2>2, <2>3, <2>4 DEF PutsName
  <2> QED BY <2>5
<1> QED BY <1>5, <1>6, <1>7 DEF Effect, Moves
-----------------------------------------------------------------------------
(***************************************************************************)
(* BusyMeansLost.  Permits is what the semaphore guarantees; a request     *)
(* finds its queue empty with all names accounted for only if all of them  *)
(* are held, by as many requests inside as there are names - and it is     *)
(* inside itself without one.                                              *)
(***************************************************************************)
Permits == \A l \in Languages : Cardinality(Inside(l)) <= Size
Waiting == \A r \in Requests, l \in Languages :
               req[r].pc = "again" /\ req[r].lang = l => Lost(l) # {}

LEMMA InsideFinite ==
    ASSUME NEW l
    PROVE  IsFiniteSet(Inside(l)) /\ Cardinality(Inside(l)) \in Nat
<1>1. Inside(l) \in SUBSET Requests
  BY DEF Inside
<1>2. IsFiniteSet(Inside(l))
  BY <1>1, ContainerPoolAssumption, FS_Subset
<1> QED BY <1>2, FS_CardinalityType

LEMMA InsideShrinks ==
    ASSUME Permits, \A l \in Languages : Inside(l)' \subseteq Inside(l)
    PROVE  Permits'
<1> SUFFICES ASSUME NEW l \in Languages PROVE Cardinality(Inside(l)') <= Size
  BY DEF Permits
<1>1. IsFiniteSet(Inside(l)) /\ Cardinality(Inside(l)) \in Nat
  BY InsideFinite
<1>2. Inside(l)' \in SUBSET Inside(l)
  OBVIOUS
<1>3. IsFiniteSet(Inside(l)') /\ Cardinality(Inside(l)') <= Cardinality(Inside(l))
  BY <1>1, <1>2, FS_Subset
<1>4. Cardinality(Inside(l)') \in Nat
  BY <1>3, FS_CardinalityType
<1> QED BY <1>1, <1>3, <1>4, ContainerPoolAssumption DEF Permits

LEMMA PermitsStep ==
    ASSUME Inv, Permits, NEW r \in Requests, Effect(r)
    PROVE  Permits'
<1>0. Types /\ Shape
  BY DEF Inv
<1>1. CASE req[r].pc \notin Outside \/ req'[r].pc \in Outside
  <2>1. \A l \in Languages : Inside(l)' \subseteq Inside(l)
    BY <1>1 DEF Inside, Effect, Advances, Outside
  <2> QED BY <2>1, InsideShrinks
<1>2. CASE Enter(r) /\ req'[r].lang = req[r].lang
  <2> SUFFICES ASSUME NEW l \in Languages PROVE Cardinality(Inside(l)') <= Size
    BY DEF Permits
  <2>1. IsFiniteSet(Inside(l)) /\ Cardinality(Inside(l)) \in Nat
    BY InsideFinite
  <2>2. CASE l = req[r].lang
    <3>1. Cardinality(Inside(l)) < Size
      BY <1>2, <2>2 DEF Enter
    <3>2. Inside(l)' \in SUBSET (Inside(l) \cup {r})
      BY DEF Inside, Effect
    <3>3. /\ IsFiniteSet(Inside(l) \cup {r})
          /\ Cardinality(Inside(l) \cup {r}) =
               IF r \in Inside(l) THEN Cardinality(Inside(l)) ELSE Cardinality(Inside(l)) + 1
      BY <2>1, FS_AddElement
    <3>4. /\ IsFiniteSet(Inside(l)')
          /\ Cardinality(Inside(l)') <= Cardinality(Inside(l) \cup {r})
      BY <3>2, <3>3, FS_Subset
    <3>5. Cardinality(Inside(l)') \in Nat
      BY <3>4, FS_CardinalityType
    <3> QED BY <2>1, <3>1, <3>3, <3>4, <3>5, ContainerPoolAssumption
  <2>3. CASE l # req[r].lang
    <3>1. Inside(l)' \in SUBSET Inside(l)
      BY <1>2, <2>3 DEF Inside, Effect
    <3>2. IsFiniteSet(Inside(l)') /\ Cardinality(Inside(l)') <= Cardinality(Inside(l))
      BY <2>1, <3>1, FS_Subset
    <3>3. Cardinality(Inside(l)') \in Nat
      BY <3>2, FS_CardinalityType
    <3> QED BY <2>1, <3>2, <3>3, ContainerPoolAssumption DEF Permits
  <2> QED BY <2>2, <2>3
<1> QED BY <1>1, <1>2 DEF Effect, Advances

\* The pigeonhole: an empty queue and a request inside without a name.
LEMMA EmptyMeansLost ==
    ASSUME Inv, Permits, NEW r \in Requests, NEW l \in Languages,
           req[r].pc = "try", req[r].lang = l, queue[l] = <<>>
    PROVE  Lost(l) # {}
<1> SUFFICES ASSUME Lost(l) = {} PROVE FALSE
  OBVIOUS
<1>0. Types /\ Shape /\ Quiet
  BY DEF Inv
<1>1. prep = {} /\ Queued(l) = {} /\ req[r].name = None
  <2>1. phase = "serving"
    BY <1>0 DEF Quiet, Types, Phases
  <2> QED BY <1>0, <2>1 DEF Quiet, Queued, Shape, WithName
<1>2. \A n \in NamesOf(l) : \E s \in Requests : req[s].name = n
  BY <1>1 DEF Lost, Held
<1> DEFINE holder == [n \in NamesOf(l) |-> CHOOSE s \in Requests : req[s].name = n]
<1>3. \A n \in NamesOf(l) : holder[n] \in Requests /\ req[holder[n]].name = n
  BY <1>2
<1>4. \A n \in NamesOf(l) : holder[n] \in Inside(l) \ {r}
  <2> SUFFICES ASSUME NEW n \in NamesOf(l) PROVE holder[n] \in Inside(l) \ {r}
    OBVIOUS
  <2>0. PICK s \in Requests : s = holder[n] /\ req[s].name = n
    BY <1>3
  <2> HIDE DEF holder
  <2>1. n \in Names /\ n # None /\ n[1] = l
    BY ContainerPoolAssumption DEF Names, NamesOf
  <2>2. req[s].pc \in WithName /\ n \in NamesOf(req[s].lang)
    BY <1>0, <2>0, <2>1 DEF Shape
  <2>3. req[s].lang = l
    BY <2>1, <2>2 DEF NamesOf
  <2> QED BY <1>1, <2>0, <2>1, <2>2, <2>3 DEF Inside, WithName
<1>5. holder \in Injection(NamesOf(l), Inside(l) \ {r})
  <2>1. holder \in [NamesOf(l) -> Inside(l) \ {r}]
    BY <1>4
  <2>2. \A m, n \in NamesOf(l) : holder[m] = holder[n] => m = n
    BY <1>3
  <2> HIDE DEF holder
  <2> QED BY <2>1, <2>2 DEF Injection, IsInjective
<1> HIDE DEF holder
<1>6. IsFiniteSet(Inside(l)) /\ Cardinality(Inside(l)) \in Nat /\ r \in Inside(l)
  BY InsideFinite DEF Inside
<1>7. /\ IsFiniteSet(Inside(l) \ {r})
      /\ Cardinality(Inside(l) \ {r}) = Cardinality(Inside(l)) - 1
  BY <1>6, FS_RemoveElement
<1>8. Cardinality(NamesOf(l)) <= Cardinality(Inside(l) \ {r})
  BY <1>5, <1>7, FS_Injection
<1> QED BY <1>6, <1>7, <1>8, NamesCount, ContainerPoolAssumption DEF Permits

LEMMA WaitingStep ==
    ASSUME Inv, Permits, Waiting, NEW r \in Requests, Effect(r)
    PROVE  Waiting'
<1>0. Types /\ Shape /\ Apart
  BY DEF Inv
<1>1. ASSUME NEW l \in Languages PROVE Lost(l) \subseteq Lost(l)'
  <2>1. NamesOf(l) \subseteq Names /\ UNCHANGED prep /\ NamesOf(l)' = NamesOf(l)
    BY DEF Names, NamesOf, Effect
  <2>2. CASE SameQueues /\ \A m \in Names : Held(m)' = Held(m)
    BY <2>1, <2>2 DEF Lost, SameQueues
  <2>3. ASSUME NEW n \in Names, DropsName(r, n) PROVE Lost(l) \subseteq Lost(l)'
    BY <2>1, <2>3 DEF Lost, DropsName, SameQueues, SameHeld
  <2>4. ASSUME NEW n \in Names, TakesName(r, n) PROVE Lost(l) \subseteq Lost(l)'
    <3>1. n \notin Lost(l)
      BY <2>4 DEF Lost, TakesName, NamesOf
    <3> QED BY <2>1, <2>4, <3>1 DEF Lost, TakesName, SameHeld
  <2>5. ASSUME NEW n \in Names, PutsName(r, n) PROVE Lost(l) \subseteq Lost(l)'
    <3>1. n \notin Lost(l)
      BY <2>5 DEF Lost, PutsName
    <3> QED BY <2>1, <2>5, <3>1 DEF Lost, PutsName, SameHeld
  <2> QED BY NameEffect, <2>2, <2>3, <2>4, <2>5
<1> SUFFICES ASSUME NEW s \in Requests, NEW l \in Languages,
                    req'[s].pc = "again", req'[s].lang = l
             PROVE  Lost(l)' # {}
  BY DEF Waiting
<1>2. CASE s # r
  BY <1>1, <1>2 DEF Waiting, Effect
<1>3. CASE s = r /\ TakeNothing(r)
  <2>1. req[r].pc = "try" /\ req[r].lang = l /\ queue[l] = <<>>
    BY <1>3 DEF TakeNothing, Effect, Advances, Outside
  <2> QED BY <1>1, <2>1, EmptyMeansLost
<1>4. CASE /\ s = r /\ UNCHANGED queue
           /\ req[r].name # None /\ req'[r].name = None
  <2>1. PICK n \in Names : n = req[r].name
    BY <1>0, <1>4 DEF Types, Request
  <2>2. req[r].lang = l
    BY <1>4 DEF Effect, Advances, Outside
  <2>3. n \in NamesOf(l) /\ n \notin prep /\ n \notin Queued(l)
        /\ \A u \in Requests : req[u].name = n => u = r
    BY <1>0, <1>4, <2>1, <2>2 DEF Shape, Apart
  <2>4. n \notin Queued(l)' /\ n \notin prep'
    BY <1>4, <2>3 DEF Queued, Effect
  <2>5. Held(n)' = {}
    BY <1>4, <2>1, <2>3, ContainerPoolAssumption DEF Held, Effect
  <2>6. n \in Lost(l)'
    BY <2>3, <2>4, <2>5 DEF Lost, NamesOf
  <2> QED BY <2>6
<1> QED BY <1>2, <1>3, <1>4 DEF Effect, Advances
\* The lifespan leaves the requests alone, or there are none any more.
LEMMA LifespanRequests ==
    ASSUME Inv, Lifespan
    PROVE  \/ UNCHANGED req /\ \A r \in Requests : req[r].pc = "idle"
           \/ UNCHANGED <<req, queue, prep>>
           \/ \A r \in Requests : req'[r] = Idle("none")
<1>0. Types /\ Quiet
  BY DEF Inv
<1>1. CASE Serve \/ Shutdown \/ TornDown \/ Boot
  BY <1>0, <1>1 DEF Serve, Shutdown, TornDown, Boot, Quiet
<1>2. CASE Crash
  BY <1>2 DEF Crash
<1>3. ASSUME NEW n \in Names, Prepare(n) \/ PrepareFails(n)
      PROVE  UNCHANGED req /\ \A r \in Requests : req[r].pc = "idle"
  BY <1>0, <1>3 DEF Prepare, PrepareFails, Quiet
<1>4. ASSUME NEW n \in Names, Die(n) PROVE UNCHANGED <<req, queue, prep>>
  BY <1>4 DEF Die, process
<1>5. ASSUME NEW l \in Languages, RemoveNext(l) \/ RemoveFails(l)
      PROVE  UNCHANGED req /\ \A r \in Requests : req[r].pc = "idle"
  BY <1>0, <1>5 DEF RemoveNext, RemoveFails, Quiet
<1> QED BY <1>1, <1>2, <1>3, <1>4, <1>5 DEF Lifespan

LEMMA LifespanBusy ==
    ASSUME Inv, Permits, Waiting, Lifespan \/ UNCHANGED vars
    PROVE  Permits' /\ Waiting'
<1>1. CASE UNCHANGED req /\ \A r \in Requests : req[r].pc = "idle"
  <2>1. \A l \in Languages : Inside(l)' \subseteq Inside(l)
    BY <1>1 DEF Inside
  <2>2. Waiting'
    BY <1>1 DEF Waiting
  <2> QED BY <2>1, <2>2, InsideShrinks
<1>2. CASE UNCHANGED <<req, queue, prep>>
  <2>1. \A l \in Languages : Inside(l)' \subseteq Inside(l)
    BY <1>2 DEF Inside
  <2>2. \A l \in Languages : Lost(l)' = Lost(l)
    BY <1>2 DEF Lost, Queued, Held, NamesOf
  <2>3. Waiting'
    BY <1>2, <2>2 DEF Waiting
  <2> QED BY <2>1, <2>3, InsideShrinks
<1>3. CASE \A r \in Requests : req'[r] = Idle("none")
  <2>1. \A r \in Requests : req'[r].pc = "idle"
    BY <1>3 DEF Idle
  <2>2. \A l \in Languages : Inside(l)' \subseteq Inside(l)
    BY <2>1 DEF Inside
  <2>3. Waiting'
    BY <2>1 DEF Waiting
  <2> QED BY <2>2, <2>3, InsideShrinks
<1> QED BY <1>1, <1>2, <1>3, LifespanRequests DEF vars

\* "Container pool is busy" is never the answer to load alone: the semaphore
\* of run_code_handler, released after release_container, sees to that.
THEOREM BusyOnlyAfterLoss == Spec => []BusyMeansLost
<1>1. Init => Permits /\ Waiting
  <2> SUFFICES ASSUME Init PROVE Permits /\ Waiting
    OBVIOUS
  <2>1. \A r \in Requests : req[r].pc = "idle"
    BY DEF Init, Idle
  <2>2. \A l \in Languages : Inside(l) = {}
    BY <2>1 DEF Inside
  <2>3. Permits
    BY <2>2, FS_EmptySet, ContainerPoolAssumption DEF Permits
  <2>4. Waiting
    BY <2>1 DEF Waiting
  <2> QED BY <2>3, <2>4
<1>2. Inv /\ Permits /\ Waiting /\ [Next]_vars => Permits' /\ Waiting'
  <2> SUFFICES ASSUME Inv, Permits, Waiting, [Next]_vars PROVE Permits' /\ Waiting'
    OBVIOUS
  <2>1. ASSUME NEW r \in Requests, Handle(r) PROVE Permits' /\ Waiting'
    BY <2>1, HandleEffect, PermitsStep, WaitingStep
  <2> QED BY <2>1, LifespanBusy DEF Next
<1>3. Inv /\ Waiting => BusyMeansLost
  BY DEF Inv, Shape, Waiting, BusyMeansLost
<1> QED BY Invariance, <1>1, <1>2, <1>3, PTL DEF Spec
-----------------------------------------------------------------------------
(***************************************************************************)
(* The refinement.                                                         *)
(***************************************************************************)
Free == UNION {Queued(l) : l \in Languages}
User == [n \in Names |-> Held(n)]

PoolStep == \/ AbstractPool!Next
            \/ UNCHANGED <<Free, User>>

LEMMA RefineHandle ==
    ASSUME Inv, NEW r \in Requests, Effect(r)
    PROVE  PoolStep
<1>0. Types /\ Shape /\ QueueLang /\ Apart
  BY DEF Inv
<1>1. CASE SameQueues /\ \A m \in Names : Held(m)' = Held(m)
  <2>1. Free' = Free /\ User' = User
    BY <1>1 DEF Free, User, SameQueues
  <2> QED BY <2>1 DEF PoolStep
<1>2. ASSUME NEW n \in Names, DropsName(r, n) PROVE PoolStep
  <2>1. Free' = Free
    BY <1>2 DEF Free, DropsName, SameQueues
  <2>2. User' = [User EXCEPT ![n] = {}] /\ User[n] = {r}
    BY <1>2 DEF User, DropsName, SameHeld
  <2>3. AbstractPool!Lose(n, r)
    BY <2>1, <2>2 DEF AbstractPool!Lose, Free, User
  <2> QED BY <2>3 DEF PoolStep, AbstractPool!Next
<1>3. ASSUME NEW n \in Names, TakesName(r, n) PROVE PoolStep
  <2>1. n[1] \in Languages
    BY DEF Names
  <2>2. Free' = Free \ {n} /\ n \in Free
    BY <1>3, <2>1 DEF Free, TakesName
  <2>3. User' = [User EXCEPT ![n] = {r}] /\ User[n] = {}
    BY <1>3 DEF User, TakesName, SameHeld
  <2>4. \A m \in Names : r \notin User[m]
    BY <1>3 DEF User, TakesName
  <2>5. AbstractPool!Acquire(n, r)
    BY <2>2, <2>3, <2>4 DEF AbstractPool!Acquire, Free, User
  <2> QED BY <2>5 DEF PoolStep, AbstractPool!Next
<1>4. ASSUME NEW n \in Names, PutsName(r, n) PROVE PoolStep
  <2>1. n[1] \in Languages
    BY DEF Names
  <2>2. Free' = Free \cup {n} /\ n \notin Free
    BY <1>4, <2>1 DEF Free, PutsName
  <2>3. User' = [User EXCEPT ![n] = {}] /\ User[n] = {r}
    BY <1>4 DEF User, PutsName, SameHeld
  <2>4. AbstractPool!Release(n, r)
    BY <2>2, <2>3 DEF AbstractPool!Release, Free, User
  <2> QED BY <2>4 DEF PoolStep, AbstractPool!Next
<1> QED BY NameEffect, <1>1, <1>2, <1>3, <1>4
LEMMA RefineReset ==
    ASSUME \A l \in Languages : queue'[l] = <<>>,
           \A r \in Requests : req'[r].name = None
    PROVE  PoolStep
<1>1. Free' = {}
  BY DEF Free, Queued
<1>2. User' = [n \in Names |-> {}]
  BY ContainerPoolAssumption DEF User, Held
<1>3. AbstractPool!Reset
  BY <1>1, <1>2 DEF AbstractPool!Reset, Free, User
<1> QED BY <1>3 DEF PoolStep, AbstractPool!Next

LEMMA RefineLifespan ==
    ASSUME Inv, Lifespan \/ UNCHANGED vars
    PROVE  PoolStep
<1>0. Types /\ Shape /\ QueueLang /\ NoDup /\ Apart /\ PrepApart /\ Quiet
  BY DEF Inv
<1>1. ASSUME UNCHANGED <<queue, req>> PROVE PoolStep
  <2>1. Free' = Free /\ User' = User
    BY <1>1 DEF Free, User, Queued, Held
  <2> QED BY <2>1 DEF PoolStep
<1>2. CASE Serve \/ Shutdown \/ TornDown \/ Boot
  BY <1>1, <1>2 DEF Serve, Shutdown, TornDown, Boot
<1>3. CASE Crash
  <2>1. \A l \in Languages : queue'[l] = <<>>
    BY <1>3 DEF Crash
  <2>2. \A r \in Requests : req'[r].name = None
    BY <1>3 DEF Crash, Idle
  <2> QED BY <2>1, <2>2, RefineReset
<1>4. ASSUME NEW n \in Names, Die(n) \/ PrepareFails(n) PROVE PoolStep
  BY <1>1, <1>4 DEF Die, PrepareFails
<1>5. ASSUME NEW n \in Names, Prepare(n) PROVE PoolStep
  <2>1. n \in prep /\ Put(n) /\ UNCHANGED req
    BY <1>5 DEF Prepare
  <2>2. n[1] \in Languages /\ n # None
    BY ContainerPoolAssumption DEF Names
  <2>3. \A l \in Languages : n \notin Queued(l)
    BY <1>0, <2>1 DEF PrepApart
  <2>4. \A l \in Languages :
          Queued(l)' = IF l = n[1] THEN Queued(l) \cup {n} ELSE Queued(l)
    BY <1>0, <2>1, <2>2, <2>3, PutEffect DEF Types
  <2>5. Free' = Free \cup {n} /\ n \notin Free
    BY <2>2, <2>3, <2>4 DEF Free
  <2>6. Held(n) = {}
    BY <1>0, <2>1, <2>2 DEF Apart, Held
  <2>7. User' = User /\ User[n] = {}
    BY <2>1, <2>6 DEF User, Held
  <2>8. AbstractPool!Add(n)
    BY <2>5, <2>7 DEF AbstractPool!Add, AbstractPool!Unused, Free, User
  <2> QED BY <2>8 DEF PoolStep, AbstractPool!Next
<1>6. ASSUME NEW l \in Languages, RemoveNext(l) PROVE PoolStep
  <2>1. /\ queue[l] # <<>> /\ queue' = [queue EXCEPT ![l] = Tail(@)]
        /\ UNCHANGED req
    BY <1>6 DEF RemoveNext
  <2>2. /\ Head(queue[l]) \in Queued(l) /\ Head(queue[l]) \in NamesOf(l)
        /\ \A k \in Languages :
             Queued(k)' = IF k = l THEN Queued(k) \ {Head(queue[l])} ELSE Queued(k)
    BY <1>0, <2>1, TailEffect DEF Types
  <2>3. PICK n \in NamesOf(l) : n = Head(queue[l])
    BY <2>2
  <2>4. n \in Names
    BY DEF Names, NamesOf
  <2>5. \A k \in Languages : k # l => n \notin Queued(k)
    BY <1>0 DEF QueueLang, Queued, NamesOf
  <2>6. Free' = Free \ {n} /\ n \in Free
    BY <2>2, <2>3, <2>5 DEF Free
  <2>7. User' = User
    BY <2>1 DEF User, Held
  <2>8. AbstractPool!Remove(n)
    BY <2>6, <2>7 DEF AbstractPool!Remove, Free, User
  <2> QED BY <2>4, <2>8 DEF PoolStep, AbstractPool!Next
<1>7. ASSUME NEW l \in Languages, RemoveFails(l) PROVE PoolStep
  <2>1. \A k \in Languages : queue'[k] = <<>>
    BY <1>7 DEF RemoveFails
  <2>2. \A r \in Requests : req'[r].name = None
    BY <1>0, <1>7 DEF RemoveFails, Quiet, Shape, WithName
  <2> QED BY <2>1, <2>2, RefineReset
<1>8. CASE UNCHANGED vars
  BY <1>1, <1>8 DEF vars
<1> QED BY <1>2, <1>3, <1>4, <1>5, <1>6, <1>7, <1>8 DEF Lifespan

\* Allocation, use, release and the failures between them implement a pool in
\* which only a free resource is handed out, to one user, who has no other.
THEOREM Refinement == Spec => PoolImplemented
<1>1. Init => AbstractPool!Init
  <2> SUFFICES ASSUME Init PROVE AbstractPool!Init
    OBVIOUS
  <2>1. Free = {}
    BY DEF Init, Free, Queued
  <2>2. User = [n \in Names |-> {}]
    BY ContainerPoolAssumption DEF Init, User, Held, Idle
  <2> QED BY <2>1, <2>2 DEF AbstractPool!Init, Free, User
<1>2. Inv /\ [Next]_vars => [AbstractPool!Next]_<<Free, User>>
  <2> SUFFICES ASSUME Inv, [Next]_vars PROVE PoolStep
    BY DEF PoolStep
  <2>1. ASSUME NEW r \in Requests, Handle(r) PROVE PoolStep
    BY <2>1, HandleEffect, RefineHandle
  <2> QED BY <2>1, RefineLifespan DEF Next
<1>3. Inv /\ [Next]_vars =>
        [AbstractPool!Next]_<<UNION {Queued(l) : l \in Languages}, [n \in Names |-> Held(n)]>>
  BY <1>2 DEF Free, User
<1> QED BY Invariance, <1>1, <1>3, PTL DEF Spec, PoolImplemented, AbstractPool!Spec
=============================================================================
