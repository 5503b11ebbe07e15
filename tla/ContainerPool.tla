---------------------------- MODULE ContainerPool -----------------------------
(***************************************************************************)
(* The pool of containers in which the executor manager runs the code of   *)
(* agents (agent/sandbox/executor_manager).                                *)
(*                                                                         *)
(* One asyncio process serves /run.  A request first gets a permit of its  *)
(* language's semaphore, then takes a name from the language's queue, then *)
(* waits for the one lock of the process, under which it asks Docker       *)
(* whether the container runs and creates it again if not.  The code runs  *)
(* without the lock; the finally block gives the name back under the lock  *)
(* once more, and the permit is released last.  Other coroutines run at    *)
(* every await, so every await ends an action.                             *)
(*                                                                         *)
(* Docker is external: a container is "gone", "running" or "stopped", and  *)
(* any command may fail or time out.  Removing and running a container     *)
(* anew is one action: its name is in no other hands meanwhile.  The rate  *)
(* limit of the route and the result of the code are left out.             *)
(***************************************************************************)
EXTENDS Integers, Sequences, FiniteSets

CONSTANTS
    Languages,   \* SupportLanguage
    Size,        \* SANDBOX_EXECUTOR_MANAGER_POOL_SIZE
    Requests,    \* coroutines that serve /run
    None,        \* "no name", "nobody"
    MaxFaults,   \* bound: Docker commands that fail, containers that stop
    MaxBoots     \* bound: starts of the process

Names == Languages \X (1..Size)
NamesOf(l) == {l} \X (1..Size)

ASSUME ContainerPoolAssumption ==
    /\ Size \in Nat /\ MaxFaults \in Nat /\ MaxBoots \in Nat
    /\ IsFiniteSet(Requests)
    /\ None \notin Names /\ None \notin Requests

VARIABLES
    phase,    \* of the process: see Phases
    prep,     \* names whose _prepare_container is not over
    queue,    \* _CONTAINER_QUEUES
    lock,     \* _CONTAINER_LOCK
    req,      \* the requests
    dock,     \* state of the containers in Docker
    faults, boots

vars == <<phase, prep, queue, lock, req, dock, faults, boots>>
process == <<phase, prep, boots>>

Phases == {"init", "serving", "teardown", "down"}
DockStates == {"gone", "running", "stopped"}

\* allocate_container_blocking is "try", "again" and, under for = "alloc",
\* "lock", "check", "rebuild"; release_container is the latter under "release".
Steps == {"idle", "sem", "try", "again", "lock", "check", "rebuild", "run"}
Request == [pc : Steps, lang : Languages \cup {None}, name : Names \cup {None},
            for : {"alloc", "release"},
            res : {"none", "refused", "busy", "done", "error"}]
Idle(res) == [pc |-> "idle", lang |-> None, name |-> None, for |-> "alloc",
              res |-> res]

Fault == faults < MaxFaults /\ faults' = faults + 1

Inside(l) == {r \in Requests : req[r].lang = l /\ req[r].pc \notin {"idle", "sem"}}
Held(n) == {r \in Requests : req[r].name = n}
Queued(l) == {queue[l][i] : i \in DOMAIN queue[l]}

Init ==
    /\ phase = "init"
    /\ prep = Names
    /\ queue = [l \in Languages |-> <<>>]
    /\ lock = None
    /\ req = [r \in Requests |-> Idle("none")]
    /\ dock \in [Names -> {"gone", "running"}]
    /\ faults = 0 /\ boots = 1

Put(n) == queue' = [queue EXCEPT ![n[1]] = Append(@, n)]
Become(r, rec) == req' = [req EXCEPT ![r] = rec]
Answer(r, res) == Become(r, Idle(res))
Goto(r, pc) == Become(r, [req[r] EXCEPT !.pc = pc])
-----------------------------------------------------------------------------
(***************************************************************************)
(* The lifespan of the process.                                            *)
(***************************************************************************)

\* Defective variant for TypeOK: a name may be prepared a second time.
PrepareAgain(n) ==
    /\ phase = "init"
    /\ dock' = [dock EXCEPT ![n] = "running"]
    /\ Put(n)
    /\ \E left \in {prep, prep \ {n}} : prep' = left
    /\ UNCHANGED <<phase, boots, lock, req, faults>>

\* _prepare_container: a container left from before is removed, a new one
\* created, its name put into the queue.
Prepare(n) ==
    /\ phase = "init" /\ n \in prep
    /\ dock' = [dock EXCEPT ![n] = "running"]
    /\ Put(n)
    /\ prep' = prep \ {n}
    /\ UNCHANGED <<phase, boots, lock, req, faults>>

\* It returns False: the name is left out, whatever became of the container.
PrepareFails(n) ==
    /\ phase = "init" /\ n \in prep /\ Fault
    /\ \E s \in DockStates : dock' = [dock EXCEPT ![n] = s]
    /\ prep' = prep \ {n}
    /\ UNCHANGED <<phase, boots, queue, lock, req>>

\* init_containers has gathered all of them; requests are served.
Serve ==
    /\ phase = "init" /\ prep = {}
    /\ phase' = "serving"
    /\ UNCHANGED <<prep, boots, queue, lock, req, dock, faults>>

\* The server stops accepting, waits for the requests and ends the lifespan.
Shutdown ==
    /\ phase = "serving" /\ \A r \in Requests : req[r].pc = "idle"
    /\ phase' = "teardown"
    /\ UNCHANGED <<prep, boots, queue, lock, req, dock, faults>>

\* teardown_containers: the names that are in the queues.
RemoveNext(l) ==
    /\ phase = "teardown" /\ queue[l] # <<>>
    /\ queue' = [queue EXCEPT ![l] = Tail(@)]
    /\ dock' = [dock EXCEPT ![Head(queue[l])] = "gone"]
    /\ UNCHANGED <<process, lock, req, faults>>

\* A time-out of "docker rm" is not caught and ends the teardown.
RemoveFails(l) ==
    /\ phase = "teardown" /\ queue[l] # <<>> /\ Fault
    /\ phase' = "down"
    /\ queue' = [k \in Languages |-> <<>>]
    /\ \E s \in {"gone", dock[Head(queue[l])]} :
         dock' = [dock EXCEPT ![Head(queue[l])] = s]
    /\ UNCHANGED <<prep, boots, lock, req>>

TornDown ==
    /\ phase = "teardown" /\ \A l \in Languages : queue[l] = <<>>
    /\ phase' = "down"
    /\ UNCHANGED <<prep, boots, queue, lock, req, dock, faults>>

\* The process dies; its containers stay.
Crash ==
    /\ phase # "down" /\ Fault
    /\ phase' = "down"
    /\ prep' = {}
    /\ queue' = [l \in Languages |-> <<>>]
    /\ lock' = None
    /\ req' = [r \in Requests |-> Idle("none")]
    /\ UNCHANGED <<boots, dock>>

Boot ==
    /\ phase = "down" /\ boots < MaxBoots
    /\ boots' = boots + 1
    /\ phase' = "init"
    /\ prep' = Names
    /\ UNCHANGED <<queue, lock, req, dock, faults>>

\* A container stops by itself (out of memory, killed).
Die(n) ==
    /\ dock[n] = "running" /\ Fault
    /\ dock' = [dock EXCEPT ![n] = "stopped"]
    /\ UNCHANGED <<process, queue, lock, req>>
-----------------------------------------------------------------------------
(***************************************************************************)
(* run_code_handler.                                                       *)
(***************************************************************************)
Arrive(r, l) ==
    /\ phase = "serving" /\ req[r].pc = "idle"
    /\ Become(r, [Idle("none") EXCEPT !.pc = "sem", !.lang = l])
    /\ UNCHANGED <<process, queue, lock, dock, faults>>

\* Defective variant for BusyMeansLost: one permit too many.
EnterOneMore(r) ==
    /\ req[r].pc = "sem" /\ Cardinality(Inside(req[r].lang)) <= Size
    /\ Goto(r, "try")
    /\ UNCHANGED <<process, queue, lock, dock, faults>>

\* The semaphore of the language.
Enter(r) ==
    /\ req[r].pc = "sem" /\ Cardinality(Inside(req[r].lang)) < Size
    /\ Goto(r, "try")
    /\ UNCHANGED <<process, queue, lock, dock, faults>>

\* With the permit, but before execute_code: undecodable or unsafe code.
Refuse(r) ==
    /\ req[r].pc = "sem" /\ Cardinality(Inside(req[r].lang)) < Size
    /\ Answer(r, "refused")
    /\ UNCHANGED <<process, queue, lock, dock, faults>>
-----------------------------------------------------------------------------
(***************************************************************************)
(* execute_code: allocate_container_blocking.                              *)
(***************************************************************************)

\* Defective variant for Exclusive: the name is read and stays in the queue.
TakePeeks(r) ==
    LET l == req[r].lang IN
    /\ req[r].pc = "try" /\ queue[l] # <<>>
    /\ Become(r, [req[r] EXCEPT !.pc = "lock", !.name = Head(queue[l])])
    /\ UNCHANGED <<process, queue, lock, dock, faults>>

\* get_nowait, before the lock is asked for.
Take(r) ==
    LET l == req[r].lang IN
    /\ req[r].pc = "try" /\ queue[l] # <<>>
    /\ queue' = [queue EXCEPT ![l] = Tail(@)]
    /\ Become(r, [req[r] EXCEPT !.pc = "lock", !.name = Head(queue[l])])
    /\ UNCHANGED <<process, lock, dock, faults>>

\* Defective variant for PoolImplemented: without a free container the first
\* name is taken, free or not.
TakeNothingTakesFirst(r) ==
    /\ req[r].pc = "try" /\ queue[req[r].lang] = <<>>
    /\ Become(r, [req[r] EXCEPT !.pc = "lock", !.name = <<req[r].lang, 1>>])
    /\ UNCHANGED <<process, queue, lock, dock, faults>>

\* Empty: 0.1 s later the loop condition is evaluated again.
TakeNothing(r) ==
    /\ req[r].pc = "try" /\ queue[req[r].lang] = <<>>
    /\ Goto(r, "again")
    /\ UNCHANGED <<process, queue, lock, dock, faults>>

\* The loop condition: time is left, or the request is told "busy".
Again(r) ==
    /\ req[r].pc = "again"
    /\ Goto(r, "try")
    /\ UNCHANGED <<process, queue, lock, dock, faults>>

TimeUp(r) ==
    /\ req[r].pc = "again"
    /\ Answer(r, "busy")
    /\ UNCHANGED <<process, queue, lock, dock, faults>>
-----------------------------------------------------------------------------
(***************************************************************************)
(* Under the lock: the body of allocate_container_blocking and all of      *)
(* release_container.                                                      *)
(***************************************************************************)
Lock(r) ==
    /\ req[r].pc = "lock" /\ lock = None
    /\ lock' = r
    /\ Goto(r, "check")
    /\ UNCHANGED <<process, queue, dock, faults>>

\* A container that runs is handed to the request, or back to the queue.
Ready(r) ==
    /\ lock' = None
    /\ \/ /\ req[r].for = "alloc"
          /\ Goto(r, "run") /\ UNCHANGED queue
       \/ /\ req[r].for = "release"
          /\ Answer(r, "done") /\ Put(req[r].name)

\* container_is_running says yes.
Running(r) ==
    /\ req[r].pc = "check" /\ dock[req[r].name] = "running"
    /\ Ready(r)
    /\ UNCHANGED <<process, dock, faults>>

\* It says no: the container does not run, or "docker inspect" failed.
NotRunning(r) ==
    /\ req[r].pc = "check"
    /\ \/ dock[req[r].name] # "running" /\ UNCHANGED faults
       \/ Fault
    /\ Goto(r, "rebuild")
    /\ UNCHANGED <<process, queue, lock, dock>>

\* recreate_container.
Rebuild(r) ==
    /\ req[r].pc = "rebuild"
    /\ dock' = [dock EXCEPT ![req[r].name] = "running"]
    /\ Ready(r)
    /\ UNCHANGED <<process, faults>>

\* Defective variant for Answered: the coroutine goes on with the lock.
RebuildFailsKeepsLock(r) ==
    /\ req[r].pc = "rebuild" /\ Fault
    /\ \E s \in DockStates : dock' = [dock EXCEPT ![req[r].name] = s]
    /\ Become(r, IF req[r].for = "alloc"
                 THEN [req[r] EXCEPT !.pc = "again", !.name = None]
                 ELSE Idle("done"))
    /\ UNCHANGED <<process, queue, lock>>

\* It fails: allocation goes on to the next name, release gives up; in both
\* cases the name is in no queue and in no hands any more.
RebuildFails(r) ==
    /\ req[r].pc = "rebuild" /\ Fault
    /\ \E s \in DockStates : dock' = [dock EXCEPT ![req[r].name] = s]
    /\ lock' = None
    /\ Become(r, IF req[r].for = "alloc"
                 THEN [req[r] EXCEPT !.pc = "again", !.name = None]
                 ELSE Idle("done"))
    /\ UNCHANGED <<process, queue>>
-----------------------------------------------------------------------------
\* The rest of execute_code: whatever the code does, and however its commands
\* fail, the finally block calls release_container.
Run(r) ==
    /\ req[r].pc = "run"
    /\ Become(r, [req[r] EXCEPT !.pc = "lock", !.for = "release"])
    /\ UNCHANGED <<process, queue, lock, dock, faults>>

\* os.makedirs comes before the try: an exception leaves with the name.
MakedirsFails(r) ==
    /\ req[r].pc = "run" /\ Fault
    /\ Answer(r, "error")
    /\ UNCHANGED <<process, queue, lock, dock>>

Lifespan ==
    \/ Serve \/ Shutdown \/ TornDown \/ Crash \/ Boot
    \/ \E n \in Names : Prepare(n) \/ PrepareFails(n) \/ Die(n)
    \/ \E l \in Languages : RemoveNext(l) \/ RemoveFails(l)

Step(r) ==
    \/ Take(r) \/ TakeNothing(r) \/ Again(r)
    \/ Running(r) \/ NotRunning(r) \/ Rebuild(r) \/ Run(r)

Handle(r) ==
    \/ \E l \in Languages : Arrive(r, l)
    \/ Enter(r) \/ Refuse(r) \/ Lock(r) \/ TimeUp(r) \/ Step(r)
    \/ RebuildFails(r) \/ MakedirsFails(r)

Next == Lifespan \/ \E r \in Requests : Handle(r)

Spec == Init /\ [][Next]_vars

\* asyncio runs every coroutine that can go on, and its Semaphore and Lock
\* serve their waiters in the order they came; every command has a time-out,
\* and the loop of allocate_container_blocking ends after 10 s.
Fairness ==
    \A r \in Requests :
        /\ WF_vars(Step(r))
        /\ SF_vars(Enter(r) \/ Refuse(r)) /\ SF_vars(Lock(r)) /\ SF_vars(TimeUp(r))

FairSpec == Spec /\ Fairness
-----------------------------------------------------------------------------
\* Every variable has its type, and no queue ever holds more names than the
\* pool has.
TypeOK ==
    /\ phase \in Phases /\ prep \subseteq Names
    /\ queue \in [Languages -> Seq(Names)]
    /\ \A l \in Languages : Len(queue[l]) <= Size
    /\ req \in [Requests -> Request]
    /\ lock \in Requests \cup {None}
    /\ dock \in [Names -> DockStates]
    /\ faults \in 0..MaxFaults /\ boots \in Nat

\* A container is never used by two requests, nor offered by the queue while
\* one has it, and the queue never offers it twice: although the name is taken
\* before the lock, given back after it and moved by failing recreations.
Exclusive ==
    \A n \in Names :
        /\ \A r, s \in Held(n) : r = s
        /\ Held(n) # {} => n \notin Queued(n[1])
        /\ \A i, j \in DOMAIN queue[n[1]] :
             queue[n[1]][i] = n /\ queue[n[1]][j] = n => i = j

\* Names that are in no queue and in no hands: their creation failed, or an
\* exception left execute_code with them.  Nothing brings them back before the
\* process is started again.
Lost(l) == {n \in NamesOf(l) \ prep : n \notin Queued(l) /\ Held(n) = {}}

\* "Container pool is busy" is never the answer to load: the semaphore admits
\* as many requests as there are containers, and the permit is given back after
\* the container, so a request that has one finds a container unless the pool
\* has lost one.
BusyMeansLost ==
    \A r \in Requests :
        \/ req[r].pc # "again"
        \/ Lost(req[r].lang) # {}

\* The pool implements the abstract one.
AbstractPool ==
    INSTANCE Pool WITH
        Users <- Requests,
        free <- UNION {Queued(l) : l \in Languages},
        user <- [n \in Names |-> Held(n)]

PoolImplemented == AbstractPool!Spec

\* Every request is answered: no failure of Docker, lost container or stopped
\* process leaves the lock or a permit taken.
Answered == \A r \in Requests : req[r].pc # "idle" ~> req[r].pc = "idle"
=============================================================================
