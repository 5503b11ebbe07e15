------------------------------- MODULE Memory --------------------------------
(***************************************************************************)
(* An agent memory: messages saved under ids taken from a sequence in      *)
(* Redis, and a size limit kept with a size cached in Redis.               *)
(*                                                                         *)
(* embed_and_save runs in the API server (the raw message of a dialogue)   *)
(* and in the task executors (what was extracted from it), for the same    *)
(* memory at the same time; each command to Redis and each request to the  *)
(* message store is an action.  RedisDB.set gives every key a life of an   *)
(* hour, INCRBY and DECRBY keep the life a key has and create a key        *)
(* without one.                                                            *)
(*                                                                         *)
(* A save stores one message.  The order by forget_at and valid_at inside  *)
(* the two groups pick_messages_to_delete_by_fifo reads is left open:      *)
(* valid_at of an extracted message is whatever the model answered.        *)
(***************************************************************************)
EXTENDS Integers, FiniteSets, FiniteSetsExt

CONSTANTS
    Savers,     \* calls of embed_and_save that may be under way
    Server,     \* the start of an API server
    Updater,    \* an update_memory request that changes embd_id or memory_type
    Limit,      \* memory.memory_size
    Sizes,      \* sizes of messages
    MaxSaves,   \* bound: saves
    MaxId,      \* bound: the sequence
    MaxBoots,   \* bound: starts of an API server
    MaxUpdates, \* bound: updates that took place
    MaxForgets, \* bound: forget_message requests
    MaxDrops,   \* bound: keys that expire or cannot be set
    MaxFails    \* bound: calls that fail or die half way

ASSUME MemoryAssumption ==
    /\ Server \notin Savers /\ Updater \notin Savers /\ Server # Updater
    /\ Limit \in Nat /\ Sizes \subseteq Nat \ {0}
    /\ MaxSaves \in Nat /\ MaxId \in Nat \ {0} /\ MaxBoots \in Nat
    /\ MaxUpdates \in Nat /\ MaxForgets \in Nat /\ MaxDrops \in Nat
    /\ MaxFails \in Nat

VARIABLES
    seq, seqTtl,    \* key id_generator:memory (0: no key), can it expire
    sizeKey,        \* keys memory_<id>: exists, value, can it expire
    store,          \* message store: which save wrote an id, the size
    forgot,         \* ids with a forget_at
    config,         \* how often embd_id or memory_type were changed
    job,            \* calls under way
    lost,           \* history: saves whose message was overwritten
    dropped,        \* history: the sequence expired or could not be set
    count           \* bounded counters

vars == <<seq, seqTtl, sizeKey, store, forgot, config, job, lost, dropped, count>>

sequence == <<seq, seqTtl, dropped>>
messages == <<store, forgot, lost>>

Ids == 1..MaxId
NoMessage == [n |-> 0, size |-> 0]
Stored == {i \in Ids : store[i] # NoMessage}
SizeOf(ids) == MapThenSumSet(LAMBDA i : store[i].size, ids)

Keys == {"memory", "tenant"}
NoKey == [there |-> FALSE, value |-> 0, ttl |-> FALSE]

Actors == Savers \cup {Server, Updater}
Idle == [pc |-> "idle", n |-> 0, size |-> 0, id |-> 0, seen |-> 0,
         pick |-> {}, freed |-> 0]

Counters == {"saves", "boots", "forgets", "drops", "fails"}
Bump(c) == count' = [count EXCEPT ![c] = @ + 1]

Init ==
    /\ seq = 0 /\ seqTtl = FALSE /\ dropped = FALSE
    /\ sizeKey = [k \in Keys |-> NoKey]
    /\ store = [i \in Ids |-> NoMessage] /\ forgot = {} /\ lost = {}
    /\ config = 0
    /\ job = [a \in Actors |-> Idle]
    /\ count = [c \in Counters |-> 0]

Become(a, j) == job' = [job EXCEPT ![a] = j]
Goto(a, pc) == job' = [job EXCEPT ![a].pc = pc]
-----------------------------------------------------------------------------
(***************************************************************************)
(* init_web_data of an API server; it serves requests only afterwards.     *)
(* The memory is created by a server, so the first start finds none.       *)
(***************************************************************************)
Boot ==
    /\ job[Server].pc = "idle" /\ count["boots"] < MaxBoots
    /\ Goto(Server, "boot")
    /\ UNCHANGED <<sequence, sizeKey, messages, config, count>>

\* The end of init_message_id_sequence: init_memory_size_cache follows for a
\* memory that exists.
SequenceReady ==
    IF count["boots"] = 0
    THEN Become(Server, Idle) /\ Bump("boots")
    ELSE Goto(Server, "exist") /\ UNCHANGED count

\* init_message_id_sequence: a sequence that exists is kept.
BootCheck ==
    /\ job[Server].pc = "boot"
    /\ IF seq # 0 THEN SequenceReady ELSE Goto(Server, "max") /\ UNCHANGED count
    /\ UNCHANGED <<sequence, sizeKey, messages, config>>

\* Defective variant for TypeOK: a sequence without messages starts at 0.
BootMaxZero ==
    /\ job[Server].pc = "max"
    /\ Become(Server, [job[Server] EXCEPT !.pc = "init",
                         !.seen = IF Stored = {} THEN 0 ELSE Max(Stored)])
    /\ UNCHANGED <<sequence, sizeKey, messages, config, count>>

\* get_max_message_id, 1 without messages.
BootMax ==
    /\ job[Server].pc = "max"
    /\ Become(Server, [job[Server] EXCEPT !.pc = "init",
                         !.seen = IF Stored = {} THEN 1 ELSE Max(Stored)])
    /\ UNCHANGED <<sequence, sizeKey, messages, config, count>>

\* REDIS_CONN.set, with the default life.
BootSet ==
    /\ job[Server].pc = "init"
    /\ seq' = job[Server].seen /\ seqTtl' = TRUE
    /\ SequenceReady
    /\ UNCHANGED <<dropped, sizeKey, messages, config>>

\* RedisDB.set logs an error and returns; the start goes on.
BootSetFails ==
    /\ job[Server].pc = "init" /\ count["drops"] < MaxDrops
    /\ dropped' = TRUE
    /\ IF count["boots"] = 0
       THEN /\ Become(Server, Idle)
            /\ count' = [count EXCEPT !["drops"] = @ + 1, !["boots"] = 1]
       ELSE Goto(Server, "exist") /\ Bump("drops")
    /\ UNCHANGED <<seq, seqTtl, sizeKey, messages, config>>
-----------------------------------------------------------------------------
(***************************************************************************)
(* get_memory_size_cache(memory_id, uid), which embed_and_save calls with  *)
(* the tenant as memory_id and the memory as uid.  No message has the id   *)
(* of a tenant for its memory, so what it calculates there is 0.           *)
(***************************************************************************)
KeyOf(a) == IF a \in Savers THEN "tenant" ELSE "memory"

Exist(a) ==
    /\ job[a].pc = "exist"
    /\ Goto(a, IF sizeKey[KeyOf(a)].there THEN "get" ELSE "calc")
    /\ UNCHANGED <<sequence, sizeKey, messages, config, count>>

\* What follows: the end of a start, the test of update_memory that the memory
\* is empty, the comparison of embed_and_save with the limit.
Sized(a, size) ==
    \/ /\ a = Server
       /\ Become(a, Idle) /\ Bump("boots")
    \/ /\ a = Updater
       /\ Become(a, IF size > 0 THEN Idle ELSE [Idle EXCEPT !.pc = "apply"])
       /\ UNCHANGED count
    \/ /\ a \in Savers
       /\ Become(a, [job[a] EXCEPT !.seen = size,
                       !.pc = IF job[a].size + size > Limit THEN "pick"
                              ELSE "insert"])
       /\ UNCHANGED count

\* A key that expired since makes int(None) raise, which ends the call.
Get(a) ==
    /\ job[a].pc = "get"
    /\ IF sizeKey[KeyOf(a)].there THEN Sized(a, sizeKey[KeyOf(a)].value)
       ELSE Become(a, Idle) /\ UNCHANGED count
    /\ UNCHANGED <<sequence, sizeKey, messages, config>>

Calc(a) ==
    /\ job[a].pc = "calc"
    /\ Become(a, [job[a] EXCEPT !.pc = "set",
                    !.seen = IF KeyOf(a) = "tenant" THEN 0 ELSE SizeOf(Stored)])
    /\ UNCHANGED <<sequence, sizeKey, messages, config, count>>

SetCache(a) ==
    /\ job[a].pc = "set"
    /\ sizeKey' = [sizeKey EXCEPT ![KeyOf(a)] =
                      [there |-> TRUE, value |-> job[a].seen, ttl |-> TRUE]]
    /\ Sized(a, job[a].seen)
    /\ UNCHANGED <<sequence, messages, config>>
-----------------------------------------------------------------------------
(***************************************************************************)
(* update_memory of the API, for embd_id or memory_type.                   *)
(***************************************************************************)
Update ==
    /\ job[Updater].pc = "idle" /\ count["boots"] > 0 /\ config < MaxUpdates
    /\ Goto(Updater, "exist")
    /\ UNCHANGED <<sequence, sizeKey, messages, config, count>>

Apply ==
    /\ job[Updater].pc = "apply"
    /\ config' = config + 1
    /\ Become(Updater, Idle)
    /\ UNCHANGED <<sequence, sizeKey, messages, count>>
-----------------------------------------------------------------------------
(***************************************************************************)
(* A save.                                                                 *)
(***************************************************************************)
Begin(s) ==
    /\ job[s].pc = "idle" /\ count["boots"] > 0 /\ count["saves"] < MaxSaves
    /\ Bump("saves")
    /\ \E size \in Sizes :
         Become(s, [Idle EXCEPT !.pc = "incr", !.n = count["saves"] + 1,
                                !.size = size])
    /\ UNCHANGED <<sequence, sizeKey, messages, config>>

\* Defective variant for NoOverwrite: the id is the value before the increment
\* of the call, as when GET and SET replace INCRBY.
IncrStale(s) ==
    /\ job[s].pc = "incr" /\ seq < MaxId /\ seq # 0
    /\ \E old \in {seq, seq - 1} \cap Ids :
         /\ seq' = old + 1
         /\ Become(s, [job[s] EXCEPT !.pc = "exist", !.id = old + 1])
    /\ UNCHANGED <<seqTtl, dropped, sizeKey, messages, config, count>>

\* generate_auto_increment_id: INCRBY.  A result of 1 is taken for the first
\* use of the sequence.
Incr(s) ==
    /\ job[s].pc = "incr" /\ seq < MaxId
    /\ seq' = seq + 1
    /\ Become(s, IF seq = 0 THEN [job[s] EXCEPT !.pc = "first"]
                 ELSE [job[s] EXCEPT !.pc = "exist", !.id = seq + 1])
    /\ UNCHANGED <<seqTtl, dropped, sizeKey, messages, config, count>>

\* The SET of the first use has no life.
First(s) ==
    /\ job[s].pc = "first" /\ MaxId >= 2
    /\ seq' = 2 /\ seqTtl' = FALSE
    /\ Become(s, [job[s] EXCEPT !.pc = "exist", !.id = 2])
    /\ UNCHANGED <<dropped, sizeKey, messages, config, count>>

\* The choices of pick_messages_to_delete_by_fifo: forgotten messages come
\* first, and it stops when enough is picked or nothing is left.
Picks(need) ==
    {ids \in SUBSET Stored :
        /\ ids \subseteq forgot \/ forgot \subseteq ids
        /\ SizeOf(ids) >= need \/ ids = Stored
        /\ ids # {} => \E i \in ids : /\ i \notin forgot \/ ids \subseteq forgot
                                      /\ SizeOf(ids \ {i}) < need}

Pick(s) ==
    /\ job[s].pc = "pick"
    /\ \E ids \in Picks(job[s].seen + job[s].size - Limit) :
         Become(s, [job[s] EXCEPT !.pc = "delete", !.pick = ids,
                                  !.freed = SizeOf(ids)])
    /\ UNCHANGED <<sequence, sizeKey, messages, config, count>>

Delete(s) ==
    /\ job[s].pc = "delete"
    /\ store' = [i \in Ids |-> IF i \in job[s].pick THEN NoMessage ELSE store[i]]
    /\ forgot' = forgot \ job[s].pick
    /\ Goto(s, "decr")
    /\ UNCHANGED <<sequence, sizeKey, lost, config, count>>

\* INCRBY and DECRBY count a missing key as 0 and create it without a life.
Add(d) ==
    sizeKey' = [sizeKey EXCEPT !["memory"].there = TRUE, !["memory"].value = @ + d]

Decrease(s) ==
    /\ job[s].pc = "decr"
    /\ Add(-job[s].freed)
    /\ Goto(s, "insert")
    /\ UNCHANGED <<sequence, messages, config, count>>

\* insert_message: the id of the document is made of the ids of memory and
\* message, so a message with the same id is replaced.
Insert(s) ==
    LET i == job[s].id IN
    /\ job[s].pc = "insert"
    /\ store' = [store EXCEPT ![i] = [n |-> job[s].n, size |-> job[s].size]]
    /\ lost' = IF i \in Stored THEN lost \cup {store[i].n} ELSE lost
    /\ forgot' = forgot \ {i}
    /\ Goto(s, "add")
    /\ UNCHANGED <<sequence, sizeKey, config, count>>

Increase(s) ==
    /\ job[s].pc = "add"
    /\ Add(job[s].size)
    /\ Become(s, Idle)
    /\ UNCHANGED <<sequence, messages, config, count>>
-----------------------------------------------------------------------------
\* forget_message of the API.
Forget(i) ==
    /\ i \in Stored \ forgot /\ count["forgets"] < MaxForgets
    /\ Bump("forgets")
    /\ forgot' = forgot \cup {i}
    /\ UNCHANGED <<sequence, sizeKey, store, lost, config, job>>

ExpireSeq ==
    /\ seqTtl /\ count["drops"] < MaxDrops
    /\ seq' = 0 /\ seqTtl' = FALSE /\ dropped' = TRUE
    /\ Bump("drops")
    /\ UNCHANGED <<sizeKey, messages, config, job>>

ExpireSize(k) ==
    /\ sizeKey[k].ttl /\ count["drops"] < MaxDrops
    /\ sizeKey' = [sizeKey EXCEPT ![k] = NoKey]
    /\ Bump("drops")
    /\ UNCHANGED <<sequence, messages, config, job>>

\* The model, Redis or the store raises an error, or the process dies.
Fail(a) ==
    /\ job[a].pc # "idle" /\ count["fails"] < MaxFails
    /\ Bump("fails")
    /\ Become(a, Idle)
    /\ UNCHANGED <<sequence, sizeKey, messages, config>>

Start == Boot \/ BootCheck \/ BootMax \/ BootSet \/ BootSetFails

Save(s) ==
    \/ Begin(s) \/ Incr(s) \/ First(s) \/ Pick(s) \/ Delete(s)
    \/ Decrease(s) \/ Insert(s) \/ Increase(s)

GetSize(a) == Exist(a) \/ Get(a) \/ Calc(a) \/ SetCache(a)

Next ==
    \/ Start
    \/ Update \/ Apply
    \/ \E s \in Savers : Save(s)
    \/ \E a \in Actors : GetSize(a) \/ Fail(a)
    \/ \E i \in Ids : Forget(i)
    \/ ExpireSeq \/ \E k \in Keys : ExpireSize(k)

Spec == Init /\ [][Next]_vars
-----------------------------------------------------------------------------
(***************************************************************************)
(* Types.  A sequence that can expire exists and has a positive value, so  *)
(* no id is 0.                                                             *)
(***************************************************************************)
Steps == {"idle", "boot", "max", "init", "exist", "get", "calc", "set", "apply",
          "incr", "first", "pick", "delete", "decr", "insert", "add"}

TypeOK ==
    /\ seq \in 0..MaxId /\ seqTtl \in BOOLEAN /\ dropped \in BOOLEAN
    /\ seqTtl => seq > 0
    /\ sizeKey \in [Keys -> [there : BOOLEAN, value : Int, ttl : BOOLEAN]]
    /\ store \in [Ids -> [n : Nat, size : Nat]]
    /\ forgot \subseteq Stored /\ lost \subseteq Nat /\ config \in Nat
    /\ job \in [Actors -> [pc : Steps, n : Nat, size : Nat, id : 0..MaxId,
                          seen : Int, pick : SUBSET Ids, freed : Nat]]
    /\ count \in [Counters -> Nat]

(***************************************************************************)
(* As long as the sequence of ids has neither expired nor failed to be     *)
(* set, no message replaces another: with concurrent savers, evictions,    *)
(* restarts of the server and calls that fail after they took an id.       *)
(***************************************************************************)
NoOverwrite == ~dropped => lost = {}

(***************************************************************************)
(* "If it's the first time, set a reasonable initial value": an id made by *)
(* generate_auto_increment_id is not the id of a stored message, so that   *)
(* no message is replaced by another.                                      *)
(***************************************************************************)
MessagesKept == lost = {}
=============================================================================
