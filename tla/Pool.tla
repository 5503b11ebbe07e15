-------------------------------- MODULE Pool ---------------------------------
(***************************************************************************)
(* What a pool of interchangeable resources promises its users: a resource *)
(* is free or in the hands of one user, a user has one at most, and only a *)
(* free one is handed out.  Resources may enter the pool and may get lost  *)
(* while they are used.  ContainerPool is shown to implement this.         *)
(***************************************************************************)
CONSTANTS Names, Users

VARIABLES
    free,   \* resources that can be handed out
    user    \* the users of each resource

Init == free = {} /\ user = [n \in Names |-> {}]

Unused(n) == n \notin free /\ user[n] = {}

\* A resource is made ready.
Add(n) == Unused(n) /\ free' = free \cup {n} /\ UNCHANGED user

\* A free resource is taken out of service.
Remove(n) == n \in free /\ free' = free \ {n} /\ UNCHANGED user

Acquire(n, u) ==
    /\ n \in free /\ user[n] = {}
    /\ \A m \in Names : u \notin user[m]
    /\ free' = free \ {n}
    /\ user' = [user EXCEPT ![n] = {u}]

Release(n, u) ==
    /\ user[n] = {u} /\ n \notin free
    /\ free' = free \cup {n}
    /\ user' = [user EXCEPT ![n] = {}]

\* The resource does not come back.
Lose(n, u) ==
    /\ user[n] = {u}
    /\ user' = [user EXCEPT ![n] = {}]
    /\ UNCHANGED free

\* The process that keeps the pool ends.
Reset == free' = {} /\ user' = [n \in Names |-> {}]

Next ==
    \/ Reset
    \/ \E n \in Names : Add(n) \/ Remove(n)
    \/ \E n \in Names, u \in Users : Acquire(n, u) \/ Release(n, u) \/ Lose(n, u)

Spec == Init /\ [][Next]_<<free, user>>
=============================================================================
