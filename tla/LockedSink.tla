----------------------------- MODULE LockedSink -----------------------------
(***************************************************************************)
(* The asynchronous mutex around a transport's write half                  *)
(* (wisp/src/locked_sink.rs).  Every stream and the multiplexor's actor    *)
(* own a clone of the LockedSink; a clone locks, writes frames and         *)
(* unlocks, or moves the lock into a LockedSinkHandle or LockedSinkGuard.  *)
(*                                                                         *)
(* The steps are the code's atomic steps: a swap of the `locked` flag, one *)
(* critical section of the `waiters` mutex, one call of a waker.  Tasks on *)
(* different threads interleave between them.                              *)
(***************************************************************************)
EXTENDS Integers

CONSTANTS
    Sinks,        \* LockedSink clones; each is polled by a task of its own
    Guards,       \* LockedSinkHandle and LockedSinkGuard values
    Keys,         \* keys of the waiters slab
    Cancellable   \* clones whose task may give up (or die) while queued

ASSUME ConstantsAssumption ==
    /\ Sinks \cap Guards = {}
    /\ Keys \subseteq Nat
    /\ Cancellable \subseteq Sinks

Agents == Sinks \cup Guards
NoKey  == -1              \* pos: None

VARIABLES
    locked,   \* SinkState.locked
    entries,  \* occupied keys of the slab
    sleeper,  \* sleeper[k] = {c}: Waiter::Sleeping with c's waker; {}: Waiter::Woken
    pos,      \* LockedSink.pos
    held,     \* clones with LockedSink.locked set, and the guards in existence
    pc,       \* where the agent's code stands
    hand,     \* hand[a]: the waker get_next gave to a's unlock, not called yet
    woken,    \* clones whose task was woken and not polled since
    dying     \* clones whose Drop has begun

vars == <<locked, entries, sleeper, pos, held, pc, hand, woken, dying>>

(***************************************************************************)
(* "unborn": not created; "idle": not inside a call; "register", "recheck" *)
(* and "reregister": inside poll_lock, after the first swap failed, before *)
(* the second swap, after the second swap failed; "remove": a swap         *)
(* succeeded, the slab entry is still there; "pending": poll_lock returned *)
(* Pending; "store", "next", "wake": inside SinkState::unlock; "gone":     *)
(* dropped.                                                                *)
(***************************************************************************)
SinkPCs  == {"unborn", "idle", "register", "recheck", "reregister", "remove",
             "pending", "store", "next", "wake", "gone"}
GuardPCs == {"unborn", "idle", "store", "next", "wake"}

Init ==
    /\ locked = FALSE
    /\ entries = {}
    /\ sleeper = [k \in Keys |-> {}]
    /\ pos = [c \in Sinks |-> NoKey]
    /\ held = {}
    /\ \E first \in Sinks :
          pc = [a \in Agents |-> IF a = first THEN "idle" ELSE "unborn"]
    /\ hand = [a \in Agents |-> {}]
    /\ woken = {}
    /\ dying = {}

Goto(a, label) == pc' = [pc EXCEPT ![a] = label]

\* The waiters mutex is taken across two steps by unlock only.
WaitersFree == \A a \in Agents : pc[a] # "next"

\* LockedSink::clone: a new clone that is neither queued nor an owner.
Clone(c) ==
    /\ pc[c] = "unborn"
    /\ \E d \in Sinks : pc[d] \notin {"unborn", "gone"}
    /\ Goto(c, "idle")
    /\ UNCHANGED <<locked, entries, sleeper, pos, held, hand, woken, dying>>

\* The swap in SinkState::lock, up to the point where poll_lock either has the
\* lock (and no slab entry) or has to enter the waiters mutex.
Swap(c, onBusy) ==
    \/ /\ locked
       /\ Goto(c, onBusy)
       /\ UNCHANGED <<locked, held>>
    \/ /\ ~locked
       /\ locked' = TRUE
       /\ \/ pos[c] = NoKey /\ held' = held \cup {c} /\ Goto(c, "idle")
          \/ pos[c] # NoKey /\ Goto(c, "remove") /\ UNCHANGED held

\* A task polls the clone: for the first time, or because it was woken, or
\* for a reason of its own (a spurious poll).
PollLock(c) ==
    /\ pc[c] \in {"idle", "pending"} /\ c \notin held
    /\ woken' = woken \ {c}
    /\ Swap(c, "register")
    /\ UNCHANGED <<entries, sleeper, pos, hand, dying>>

\* WakerList::add, on the way to LockStatus::Joined.
Add(c) ==
    /\ pc[c] = "register" /\ pos[c] = NoKey /\ WaitersFree
    /\ \E k \in Keys \ entries :
          /\ entries' = entries \cup {k}
          /\ sleeper' = [sleeper EXCEPT ![k] = {c}]
          /\ pos' = [pos EXCEPT ![c] = k]
    /\ Goto(c, "recheck")
    /\ UNCHANGED <<locked, held, hand, woken, dying>>

\* WakerList::update, on the way to LockStatus::Waiting; after the second swap
\* it is followed by the return of Poll::Pending.
Update(c) ==
    /\ pc[c] \in {"register", "reregister"} /\ pos[c] # NoKey /\ WaitersFree
    /\ sleeper' = [sleeper EXCEPT ![pos[c]] = {c}]
    /\ Goto(c, IF pc[c] = "register" THEN "recheck" ELSE "pending")
    /\ UNCHANGED <<locked, entries, pos, held, hand, woken, dying>>

\* "make sure we haven't raced an unlock": the second SinkState::lock.
\* (RecheckLeftOut is its mutant; mutants stand before what they mutate.)
RecheckLeftOut(c) ==
    /\ pc[c] = "recheck"
    /\ Goto(c, "pending")
    /\ UNCHANGED <<locked, entries, sleeper, pos, held, hand, woken, dying>>

Recheck(c) ==
    /\ pc[c] = "recheck"
    /\ Swap(c, "reregister")
    /\ UNCHANGED <<entries, sleeper, pos, hand, woken, dying>>

\* The lock was taken while queued: leave the slab, set LockedSink.locked.
RemoveKeepsEntry(c) ==
    /\ pc[c] = "remove" /\ WaitersFree
    /\ pos' = [pos EXCEPT ![c] = NoKey]
    /\ held' = held \cup {c}
    /\ Goto(c, "idle")
    /\ UNCHANGED <<locked, entries, sleeper, hand, woken, dying>>

RemoveKeepsPos(c) ==
    /\ pc[c] = "remove" /\ WaitersFree
    /\ entries' = entries \ {pos[c]}
    /\ sleeper' = [sleeper EXCEPT ![pos[c]] = {}]
    /\ held' = held \cup {c}
    /\ Goto(c, "idle")
    /\ UNCHANGED <<locked, pos, hand, woken, dying>>

Remove(c) ==
    /\ pc[c] = "remove" /\ WaitersFree
    /\ entries' = entries \ {pos[c]}
    /\ sleeper' = [sleeper EXCEPT ![pos[c]] = {}]
    /\ pos' = [pos EXCEPT ![c] = NoKey]
    /\ held' = held \cup {c}
    /\ Goto(c, "idle")
    /\ UNCHANGED <<locked, hand, woken, dying>>

\* get_handle and get_guard: LockedSink.locked is cleared, the lock is not.
GetHandleKeepsFlag(c, g) ==
    /\ c \in held /\ pc[c] = "idle" /\ pc[g] = "unborn"
    /\ held' = held \cup {g}
    /\ Goto(g, "idle")
    /\ UNCHANGED <<locked, entries, sleeper, pos, hand, woken, dying>>

GetHandle(c, g) ==
    /\ c \in held /\ pc[c] = "idle" /\ pc[g] = "unborn"
    /\ held' = (held \ {c}) \cup {g}
    /\ Goto(g, "idle")
    /\ UNCHANGED <<locked, entries, sleeper, pos, hand, woken, dying>>

\* LockedSink::unlock by its owner, or the Drop of a handle or guard.
Unlock(a) ==
    /\ a \in held /\ pc[a] = "idle"
    /\ held' = held \ {a}
    /\ Goto(a, "store")
    /\ UNCHANGED <<locked, entries, sleeper, pos, hand, woken, dying>>

\* Drop of a clone: it unlocks if it owns the lock, and leaves its slab entry
\* behind if it has one.
DropSink(c) ==
    /\ pc[c] \in {"idle", "pending"}
    /\ pos[c] = NoKey \/ c \in Cancellable
    /\ dying' = dying \cup {c}
    /\ held' = held \ {c}
    /\ Goto(c, IF c \in held THEN "store" ELSE "gone")
    /\ UNCHANGED <<locked, entries, sleeper, pos, hand, woken>>

\* The future that polled the clone is dropped, the clone is kept.
Abandon(c) ==
    /\ pc[c] = "pending" /\ c \in Cancellable
    /\ Goto(c, "idle")
    /\ UNCHANGED <<locked, entries, sleeper, pos, held, hand, woken, dying>>

\* Where an agent stands after SinkState::unlock; a handle or guard is no more
\* and its name can be used again.
Unlocked(a) == CASE a \in Guards -> "unborn"
                 [] a \in dying  -> "gone"
                 [] OTHER        -> "idle"

\* SinkState::unlock: with the waiters mutex taken, locked.store(false) ...
UnlockStore(a) ==
    /\ pc[a] = "store" /\ WaitersFree
    /\ locked' = FALSE
    /\ Goto(a, "next")
    /\ UNCHANGED <<entries, sleeper, pos, held, hand, woken, dying>>

SleepingKeys == {k \in entries : sleeper[k] # {}}

\* ... then get_next turns the first sleeping waiter into a woken one, and the
\* mutex is released ...
UnlockNext(a) ==
    /\ pc[a] = "next"
    /\ \/ /\ SleepingKeys = {}
          /\ Goto(a, Unlocked(a))
          /\ UNCHANGED <<sleeper, hand>>
       \/ \E k \in SleepingKeys :
          /\ \A j \in SleepingKeys : k <= j
          /\ hand' = [hand EXCEPT ![a] = sleeper[k]]
          /\ sleeper' = [sleeper EXCEPT ![k] = {}]
          /\ Goto(a, "wake")
    /\ UNCHANGED <<locked, entries, pos, held, woken, dying>>

\* ... and its waker is called.
UnlockWake(a) ==
    /\ pc[a] = "wake"
    /\ woken' = woken \cup hand[a]
    /\ hand' = [hand EXCEPT ![a] = {}]
    /\ Goto(a, Unlocked(a))
    /\ UNCHANGED <<locked, entries, sleeper, pos, held, dying>>

Next ==
    \/ \E c \in Sinks : \/ Clone(c) \/ PollLock(c) \/ Add(c) \/ Update(c)
                        \/ Recheck(c) \/ Remove(c) \/ DropSink(c) \/ Abandon(c)
    \/ \E c \in Sinks, g \in Guards : GetHandle(c, g)
    \/ \E a \in Agents : \/ Unlock(a) \/ UnlockStore(a)
                         \/ UnlockNext(a) \/ UnlockWake(a)

Spec == Init /\ [][Next]_vars

(***************************************************************************)
(* The executor polls a woken task, a task inside a call runs on, and an   *)
(* owner unlocks after its bounded work on the transport.  Nothing obliges *)
(* a task to start locking, to clone or to drop.                           *)
(***************************************************************************)
Fairness ==
    /\ \A c \in Sinks : /\ WF_vars(c \in woken /\ pc[c] = "pending" /\ PollLock(c))
                        /\ WF_vars(Add(c) \/ Update(c) \/ Recheck(c) \/ Remove(c))
    /\ \A a \in Agents : WF_vars(Unlock(a) \/ UnlockStore(a) \/ UnlockNext(a) \/ UnlockWake(a))

FairSpec == Spec /\ Fairness
-----------------------------------------------------------------------------
TypeOK ==
    /\ locked \in BOOLEAN
    /\ entries \in SUBSET Keys
    /\ sleeper \in [Keys -> SUBSET Sinks]
    /\ pos \in [Sinks -> Keys \cup {NoKey}]
    /\ held \in SUBSET Agents
    /\ pc \in [Agents -> SinkPCs]
    /\ \A g \in Guards : pc[g] \in GuardPCs
    /\ hand \in [Agents -> SUBSET Sinks]
    /\ woken \in SUBSET Sinks
    /\ dying \in SUBSET Sinks

\* a may reach the UnsafeCell, or is the one whose store(false) is due.
Owns(a) == a \in held \/ pc[a] \in {"remove", "store"}

\* The two ends of the lock flag: two agents never own the sink at once, which
\* is what the unsafe get() relies on, and the flag is set exactly while
\* somebody owns the lock, so that it can be neither stolen nor leaked.
MutualExclusion ==
    /\ \A a, b \in Agents : Owns(a) /\ Owns(b) => a = b
    /\ locked <=> \E a \in Agents : Owns(a)

\* "task should never have invalid key": the slab entry a clone remembers is
\* occupied, is nobody else's, and can only wake this clone's task, whatever
\* other clones did to the slab since.
ValidKeys ==
    \A c \in Sinks : pos[c] # NoKey =>
        /\ pos[c] \in entries
        /\ sleeper[pos[c]] \subseteq {c}
        /\ \A d \in Sinks : pos[d] = pos[c] => d = c

\* Every slab entry belongs to a clone that still exists, so the slab cannot
\* grow beyond the number of clones.
NoLeakedEntry ==
    \A k \in entries : \E c \in Sinks : pos[c] = k /\ pc[c] # "gone"

\* Waiting for a wake-up: poll_lock returned Pending or is about to.
Parked(c) == pc[c] \in {"reregister", "pending"}

\* Somebody will look at the free lock, or call the waker of somebody who will.
WakeDue ==
    \/ \E a \in Agents : pc[a] \in {"next", "register", "recheck"}
    \/ \E c \in Sinks : /\ Parked(c)
                        /\ c \in woken \/ \E a \in Agents : c \in hand[a]

\* A free lock with a waiter is never overlooked by everybody: an unlock always
\* reaches some task that goes on to try the lock.
NoLostWakeup == ~locked /\ (\E c \in Sinks : Parked(c)) => WakeDue

\* A clone that queues for ever is passed over for ever: other clones keep
\* getting the lock (the mutex is unfair), it is never just forgotten.
Queued(c) == pc[c] \in {"register", "recheck", "reregister", "pending"}
OnlyOvertaken ==
    \A c \in Sinks : <>[]Queued(c) => []<>(\E d \in Sinks : d \in held)

Lock == INSTANCE AsyncLock WITH owners <- {a \in Agents : Owns(a)}

\* The mutex implements the abstract lock: ownership moves only by taking a
\* free lock, by get_handle/get_guard and by the owner's unlock.
LockSpec == Lock!Spec
=============================================================================
