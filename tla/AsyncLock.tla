----------------------------- MODULE AsyncLock -----------------------------
(***************************************************************************)
(* What wisp/src/locked_sink.rs promises its users: the transport's write  *)
(* half has at most one owner at a time, a free lock can be taken by a     *)
(* LockedSink only, an owning LockedSink may pass the lock to a            *)
(* LockedSinkHandle or LockedSinkGuard, and only the owner gives it back.  *)
(* How waiters queue and are woken is no part of the promise.              *)
(***************************************************************************)
CONSTANTS Sinks,    \* LockedSink values (the clones held by actor and streams)
          Guards    \* LockedSinkHandle and LockedSinkGuard values

VARIABLE owners     \* the agents that may touch the sink: at most one

Agents == Sinks \cup Guards

Init == owners = {}

\* A LockedSink takes the free lock.
Acquire(c) == owners = {} /\ owners' = {c}

\* get_handle / get_guard: ownership moves, the lock is never free in between.
Pass(c, g) == owners = {c} /\ owners' = {g}

\* unlock, or the Drop of the owner.
Release(a) == owners = {a} /\ owners' = {}

Next == \/ \E c \in Sinks : Acquire(c)
        \/ \E c \in Sinks, g \in Guards : Pass(c, g)
        \/ \E a \in Agents : Release(a)

Spec == Init /\ [][Next]_owners
=============================================================================
