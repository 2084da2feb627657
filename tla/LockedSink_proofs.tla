-------------------------- MODULE LockedSink_proofs --------------------------
(***************************************************************************)
(* Proofs about LockedSink, for any number of clones, guards and slab      *)
(* keys, and any set of clones that may be cancelled unless said otherwise.*)
(***************************************************************************)
EXTENDS LockedSink, TLAPS

\* Every value keeps its type; in particular a handle or guard is never where
\* only a LockedSink can be (inside poll_lock, or gone while others use it).
THEOREM TypeCorrect == Spec => []TypeOK
<1>1. Init => TypeOK
  BY ConstantsAssumption DEF Init, TypeOK, Agents, SinkPCs, GuardPCs, NoKey
<1>2. TypeOK /\ [Next]_vars => TypeOK'
  <2> SUFFICES ASSUME TypeOK, [Next]_vars
               PROVE  TypeOK'
    OBVIOUS
  <2> USE ConstantsAssumption DEF TypeOK, Agents, SinkPCs, GuardPCs, NoKey, Goto
  <2>1. ASSUME NEW c \in Sinks, Clone(c) PROVE TypeOK'
    BY <2>1 DEF Clone
  <2>2. ASSUME NEW c \in Sinks, PollLock(c) PROVE TypeOK'
    BY <2>2 DEF PollLock, Swap
  <2>3. ASSUME NEW c \in Sinks, Add(c) PROVE TypeOK'
    BY <2>3 DEF Add
  <2>4. ASSUME NEW c \in Sinks, Update(c) PROVE TypeOK'
    BY <2>4 DEF Update
  <2>5. ASSUME NEW c \in Sinks, Recheck(c) PROVE TypeOK'
    BY <2>5 DEF Recheck, Swap
  <2>6. ASSUME NEW c \in Sinks, Remove(c) PROVE TypeOK'
    BY <2>6 DEF Remove
  <2>7. ASSUME NEW c \in Sinks, DropSink(c) PROVE TypeOK'
    BY <2>7 DEF DropSink
  <2>8. ASSUME NEW c \in Sinks, Abandon(c) PROVE TypeOK'
    BY <2>8 DEF Abandon
  <2>9. ASSUME NEW c \in Sinks, NEW g \in Guards, GetHandle(c, g) PROVE TypeOK'
    BY <2>9 DEF GetHandle
  <2>10. ASSUME NEW a \in Agents, Unlock(a) PROVE TypeOK'
    BY <2>10 DEF Unlock
  <2>11. ASSUME NEW a \in Agents, UnlockStore(a) PROVE TypeOK'
    BY <2>11 DEF UnlockStore
  <2>12. ASSUME NEW a \in Agents, UnlockNext(a) PROVE TypeOK'
    BY <2>12 DEF UnlockNext, Unlocked, SleepingKeys
  <2>13. ASSUME NEW a \in Agents, UnlockWake(a) PROVE TypeOK'
    BY <2>13 DEF UnlockWake, Unlocked
  <2>14. CASE UNCHANGED vars
    BY <2>14 DEF vars
  <2>15. QED
    BY <2>1, <2>2, <2>3, <2>4, <2>5, <2>6, <2>7, <2>8, <2>9, <2>10, <2>11,
       <2>12, <2>13, <2>14 DEF Next
<1>3. QED
  BY <1>1, <1>2, PTL DEF Spec
-----------------------------------------------------------------------------
(***************************************************************************)
(* Mutual exclusion is inductive once it is known that an agent with the   *)
(* lock is not inside a call.                                              *)
(***************************************************************************)
HeldIdle == \A a \in held : pc[a] = "idle"

LockInv == TypeOK /\ HeldIdle /\ MutualExclusion

LEMMA LockInvInit == Init => LockInv
<1> SUFFICES ASSUME Init PROVE LockInv
  OBVIOUS
<1>1. TypeOK
  BY ConstantsAssumption DEF Init, TypeOK, Agents, SinkPCs, GuardPCs, NoKey
<1>2. \A a \in Agents : ~Owns(a)
  BY DEF Init, Owns, Agents
<1>3. QED
  BY <1>1, <1>2 DEF LockInv, HeldIdle, MutualExclusion, Init

LEMMA LockInvNext == LockInv /\ TypeOK' /\ [Next]_vars => LockInv'
<1> SUFFICES ASSUME LockInv, TypeOK', [Next]_vars
             PROVE  HeldIdle' /\ MutualExclusion'
  BY DEF LockInv
<1> USE ConstantsAssumption DEF LockInv, HeldIdle, MutualExclusion, Owns, Goto, Agents
<1> USE DEF TypeOK
<1>1. ASSUME NEW c \in Sinks, Clone(c) PROVE HeldIdle' /\ MutualExclusion'
  BY <1>1 DEF Clone
<1>2. ASSUME NEW c \in Sinks, PollLock(c) PROVE HeldIdle' /\ MutualExclusion'
  BY <1>2 DEF PollLock, Swap
<1>3. ASSUME NEW c \in Sinks, Add(c) PROVE HeldIdle' /\ MutualExclusion'
  BY <1>3 DEF Add
<1>4. ASSUME NEW c \in Sinks, Update(c) PROVE HeldIdle' /\ MutualExclusion'
  BY <1>4 DEF Update
<1>5. ASSUME NEW c \in Sinks, Recheck(c) PROVE HeldIdle' /\ MutualExclusion'
  BY <1>5 DEF Recheck, Swap
<1>6. ASSUME NEW c \in Sinks, Remove(c) PROVE HeldIdle' /\ MutualExclusion'
  BY <1>6 DEF Remove
<1>7. ASSUME NEW c \in Sinks, DropSink(c) PROVE HeldIdle' /\ MutualExclusion'
  BY <1>7 DEF DropSink
<1>8. ASSUME NEW c \in Sinks, Abandon(c) PROVE HeldIdle' /\ MutualExclusion'
  BY <1>8 DEF Abandon
<1>9. ASSUME NEW c \in Sinks, NEW g \in Guards, GetHandle(c, g)
      PROVE  HeldIdle' /\ MutualExclusion'
  BY <1>9 DEF GetHandle
<1>10. ASSUME NEW a \in Agents, Unlock(a) PROVE HeldIdle' /\ MutualExclusion'
  BY <1>10 DEF Unlock
<1>11. ASSUME NEW a \in Agents, UnlockStore(a) PROVE HeldIdle' /\ MutualExclusion'
  BY <1>11 DEF UnlockStore
<1>12. ASSUME NEW a \in Agents, UnlockNext(a) PROVE HeldIdle' /\ MutualExclusion'
  BY <1>12 DEF UnlockNext, Unlocked
<1>13. ASSUME NEW a \in Agents, UnlockWake(a) PROVE HeldIdle' /\ MutualExclusion'
  BY <1>13 DEF UnlockWake, Unlocked
<1>14. CASE UNCHANGED vars
  BY <1>14 DEF vars
<1>15. QED
  BY <1>1, <1>2, <1>3, <1>4, <1>5, <1>6, <1>7, <1>8, <1>9, <1>10, <1>11,
     <1>12, <1>13, <1>14 DEF Next

LEMMA LockInvariant == Spec => []LockInv
  BY LockInvInit, LockInvNext, TypeCorrect, PTL DEF Spec

\* No two of any number of clones, handles and guards own the sink at once,
\* and the flag is neither lost nor leaked, cancelled waiters included.
THEOREM LockIsExclusive == Spec => []MutualExclusion
<1>1. LockInv => MutualExclusion
  BY DEF LockInv
<1>2. QED
  BY <1>1, LockInvariant, PTL

-----------------------------------------------------------------------------
\* The expect() in WakerList::update never fires, and a waker never reaches the
\* wrong waiter, even when waiters are dropped with their entry left behind.
THEOREM KeysStayValid == Spec => []ValidKeys
<1>1. Init => ValidKeys
  BY DEF Init, ValidKeys
<1>2. ValidKeys /\ TypeOK /\ [Next]_vars => ValidKeys'
  <2> SUFFICES ASSUME ValidKeys, TypeOK, [Next]_vars
               PROVE  ValidKeys'
    OBVIOUS
  <2> USE ConstantsAssumption DEF ValidKeys, TypeOK, NoKey, Goto
  <2>1. ASSUME NEW c \in Sinks, Add(c) PROVE ValidKeys'
    BY <2>1 DEF Add
  <2>2. ASSUME NEW c \in Sinks, Update(c) PROVE ValidKeys'
    BY <2>2 DEF Update
  <2>3. ASSUME NEW c \in Sinks, Remove(c) PROVE ValidKeys'
    BY <2>3 DEF Remove
  <2>4. ASSUME NEW a \in Agents, UnlockNext(a) PROVE ValidKeys'
    BY <2>4 DEF UnlockNext, SleepingKeys
  <2>5. CASE UNCHANGED <<entries, sleeper, pos>>
    BY <2>5
  <2>6. QED
    BY <2>1, <2>2, <2>3, <2>4, <2>5
    DEF Next, vars, Clone, PollLock, Recheck, DropSink, Abandon, GetHandle, Unlock,
        UnlockStore, UnlockWake
<1>3. QED
  BY <1>1, <1>2, TypeCorrect, PTL DEF Spec
-----------------------------------------------------------------------------
(***************************************************************************)
(* No lost wake-up, when no queued clone is cancelled.  The strengthening: *)
(* a slab entry belongs to a clone that is inside poll_lock or parked, and *)
(* an entry already turned to Woken means its clone's wake-up was called   *)
(* or is in an unlocker's hand.                                            *)
(***************************************************************************)
InList == {"register", "recheck", "reregister", "remove", "pending"}

Notified(c) == c \in woken \/ \E a \in Agents : c \in hand[a]

EntriesQueued ==
    /\ \A c \in Sinks : pos[c] # NoKey => pc[c] \in InList
    /\ \A c \in Sinks : pc[c] \in InList \ {"register"} => pos[c] # NoKey
    /\ \A k \in entries : \E c \in Sinks : pos[c] = k

WokenNotified ==
    \A c \in Sinks : /\ pc[c] \in {"recheck", "reregister", "pending"}
                     /\ sleeper[pos[c]] = {}
                     => Notified(c)

HandsFree == \A a \in Agents : hand[a] # {} => pc[a] = "wake"

WakeInv == HandsFree /\ EntriesQueued /\ WokenNotified /\ NoLostWakeup

LEMMA HandsFreeNext ==
    ASSUME LockInv, HandsFree, [Next]_vars
    PROVE  HandsFree'
<1> USE ConstantsAssumption DEF HandsFree, LockInv, HeldIdle, TypeOK, Goto, Agents
<1>1. ASSUME NEW c \in Sinks, \/ Clone(c) \/ PollLock(c) \/ Add(c) \/ Update(c) \/ Recheck(c)
                              \/ Remove(c) \/ DropSink(c) \/ Abandon(c)
      PROVE  HandsFree'
  BY <1>1 DEF Clone, PollLock, Swap, Add, Update, Recheck, Remove, DropSink, Abandon
<1>2. ASSUME NEW c \in Sinks, NEW g \in Guards, GetHandle(c, g) PROVE HandsFree'
  BY <1>2 DEF GetHandle
<1>3. ASSUME NEW a \in Agents, Unlock(a) \/ UnlockStore(a) PROVE HandsFree'
  BY <1>3 DEF Unlock, UnlockStore
<1>4. ASSUME NEW a \in Agents, UnlockNext(a) PROVE HandsFree'
  BY <1>4 DEF UnlockNext, Unlocked
<1>5. ASSUME NEW a \in Agents, UnlockWake(a) PROVE HandsFree'
  BY <1>5 DEF UnlockWake, Unlocked
<1>6. CASE UNCHANGED vars
  BY <1>6 DEF vars
<1>7. QED
  BY <1>1, <1>2, <1>3, <1>4, <1>5, <1>6 DEF Next

LEMMA EntriesQueuedNext ==
    ASSUME Cancellable = {}, LockInv, ValidKeys, EntriesQueued, [Next]_vars
    PROVE  EntriesQueued'
<1> USE ConstantsAssumption
    DEF EntriesQueued, ValidKeys, InList, LockInv, HeldIdle, TypeOK, NoKey, Goto, Agents
<1>1. ASSUME NEW c \in Sinks, Clone(c) PROVE EntriesQueued'
  BY <1>1 DEF Clone
<1>2. ASSUME NEW c \in Sinks, PollLock(c) PROVE EntriesQueued'
  BY <1>2 DEF PollLock, Swap
<1>3. ASSUME NEW c \in Sinks, Add(c) PROVE EntriesQueued'
  BY <1>3 DEF Add
<1>4. ASSUME NEW c \in Sinks, Update(c) PROVE EntriesQueued'
  BY <1>4 DEF Update
<1>5. ASSUME NEW c \in Sinks, Recheck(c) PROVE EntriesQueued'
  BY <1>5 DEF Recheck, Swap
<1>6. ASSUME NEW c \in Sinks, Remove(c) PROVE EntriesQueued'
  BY <1>6 DEF Remove
<1>7. ASSUME NEW c \in Sinks, DropSink(c) PROVE EntriesQueued'
  BY <1>7 DEF DropSink
<1>8. ASSUME NEW c \in Sinks, Abandon(c) PROVE EntriesQueued'
  BY <1>8 DEF Abandon
<1>9. ASSUME NEW c \in Sinks, NEW g \in Guards, GetHandle(c, g) PROVE EntriesQueued'
  BY <1>9 DEF GetHandle
<1>10. ASSUME NEW a \in Agents, Unlock(a) PROVE EntriesQueued'
  BY <1>10 DEF Unlock
<1>11. ASSUME NEW a \in Agents, UnlockStore(a) PROVE EntriesQueued'
  BY <1>11 DEF UnlockStore
<1>12. ASSUME NEW a \in Agents, UnlockNext(a) PROVE EntriesQueued'
  BY <1>12 DEF UnlockNext, Unlocked
<1>13. ASSUME NEW a \in Agents, UnlockWake(a) PROVE EntriesQueued'
  BY <1>13 DEF UnlockWake, Unlocked
<1>14. CASE UNCHANGED vars
  BY <1>14 DEF vars
<1>15. QED
  BY <1>1, <1>2, <1>3, <1>4, <1>5, <1>6, <1>7, <1>8, <1>9, <1>10, <1>11,
     <1>12, <1>13, <1>14 DEF Next

LEMMA WokenNotifiedNext ==
    ASSUME LockInv, ValidKeys, HandsFree, EntriesQueued, WokenNotified, [Next]_vars
    PROVE  WokenNotified'
<1> USE ConstantsAssumption
    DEF WokenNotified, Notified, EntriesQueued, ValidKeys, InList, LockInv, TypeOK,
        NoKey, Goto, Agents
<1>1. ASSUME NEW c \in Sinks, Clone(c) PROVE WokenNotified'
  BY <1>1 DEF Clone
<1>2. ASSUME NEW c \in Sinks, PollLock(c) PROVE WokenNotified'
  BY <1>2 DEF PollLock, Swap
<1>3. ASSUME NEW c \in Sinks, Add(c) PROVE WokenNotified'
  BY <1>3 DEF Add
<1>4. ASSUME NEW c \in Sinks, Update(c) PROVE WokenNotified'
  BY <1>4 DEF Update
<1>5. ASSUME NEW c \in Sinks, Recheck(c) PROVE WokenNotified'
  BY <1>5 DEF Recheck, Swap
<1>6. ASSUME NEW c \in Sinks, Remove(c) PROVE WokenNotified'
  BY <1>6 DEF Remove
<1>7. ASSUME NEW c \in Sinks, DropSink(c) PROVE WokenNotified'
  BY <1>7 DEF DropSink
<1>8. ASSUME NEW c \in Sinks, Abandon(c) PROVE WokenNotified'
  BY <1>8 DEF Abandon
<1>9. ASSUME NEW c \in Sinks, NEW g \in Guards, GetHandle(c, g) PROVE WokenNotified'
  BY <1>9 DEF GetHandle
<1>10. ASSUME NEW a \in Agents, Unlock(a) PROVE WokenNotified'
  BY <1>10 DEF Unlock
<1>11. ASSUME NEW a \in Agents, UnlockStore(a) PROVE WokenNotified'
  BY <1>11 DEF UnlockStore
<1>12. ASSUME NEW a \in Agents, UnlockNext(a) PROVE WokenNotified'
  <2>1. CASE SleepingKeys = {} /\ UNCHANGED <<sleeper, hand>>
    BY <1>12, <2>1 DEF UnlockNext, Unlocked
  <2>2. ASSUME NEW k \in SleepingKeys,
               hand' = [hand EXCEPT ![a] = sleeper[k]],
               sleeper' = [sleeper EXCEPT ![k] = {}],
               Goto(a, "wake")
        PROVE  WokenNotified'
    <3> SUFFICES ASSUME NEW c \in Sinks,
                        pc'[c] \in {"recheck", "reregister", "pending"},
                        sleeper'[pos'[c]] = {}
                 PROVE  Notified(c)'
      BY DEF WokenNotified
    <3>1. /\ UNCHANGED <<pos, woken>> /\ pc[a] = "next" /\ hand[a] = {}
      BY <1>12, <2>2 DEF UnlockNext, HandsFree
    <3>2. c # a /\ pc[c] = pc'[c] /\ pos[c] # NoKey
      BY <3>1, <2>2
    <3>3. CASE pos[c] = k
      <4>1. sleeper[k] = {c}
        BY <3>2, <3>3, <2>2 DEF SleepingKeys
      <4>2. QED
        BY <4>1, <2>2
    <3>4. CASE pos[c] # k
      <4>1. Notified(c)
        BY <3>1, <3>2, <3>4, <2>2 DEF SleepingKeys
      <4>2. QED
        BY <4>1, <3>1, <2>2
    <3>5. QED
      BY <3>3, <3>4
  <2>3. QED
    BY <1>12, <2>1, <2>2 DEF UnlockNext
<1>13. ASSUME NEW a \in Agents, UnlockWake(a) PROVE WokenNotified'
  BY <1>13 DEF UnlockWake, Unlocked
<1>14. CASE UNCHANGED vars
  BY <1>14 DEF vars
<1>15. QED
  BY <1>1, <1>2, <1>3, <1>4, <1>5, <1>6, <1>7, <1>8, <1>9, <1>10, <1>11,
     <1>12, <1>13, <1>14 DEF Next

LEMMA NoLostWakeupNext ==
    ASSUME Cancellable = {}, LockInv, LockInv', ValidKeys, WakeInv, [Next]_vars
    PROVE  NoLostWakeup'
<1> SUFFICES ASSUME ~locked', NEW c \in Sinks, Parked(c)'
             PROVE  WakeDue'
  BY DEF NoLostWakeup
<1> USE ConstantsAssumption DEF Parked, LockInv, TypeOK, Agents, Goto
<1>1. \A a \in Agents : a \notin held' /\ pc'[a] \notin {"remove", "store"}
  BY DEF MutualExclusion, Owns
<1>2. ASSUME NEW d \in Sinks, Clone(d) PROVE WakeDue'
  <2>1. ~locked /\ Parked(c)
    BY <1>2 DEF Clone
  <2>2. WakeDue
    BY <2>1 DEF WakeInv, NoLostWakeup
  <2>3. QED
    BY <2>2, <1>2 DEF Clone, WakeDue
<1>3. ASSUME NEW d \in Sinks, PollLock(d) PROVE WakeDue'
  BY <1>3, <1>1 DEF PollLock, Swap
<1>4. ASSUME NEW d \in Sinks, Add(d) PROVE WakeDue'
  <2>1. pc'[d] = "recheck"
    BY <1>4 DEF Add
  <2>2. QED
    BY <2>1 DEF WakeDue
<1>5. ASSUME NEW d \in Sinks, Update(d) PROVE WakeDue'
  <2>1. CASE pc[d] = "register"
    BY <2>1, <1>5 DEF Update, WakeDue
  <2>2. CASE pc[d] = "reregister"
    <3>1. ~locked /\ Parked(d) /\ pc'[d] = "pending"
      BY <2>2, <1>5 DEF Update
    <3>2. WakeDue
      BY <3>1 DEF WakeInv, NoLostWakeup
    <3>3. QED
      BY <3>1, <3>2, <2>2, <1>5 DEF Update, WakeDue
  <2>3. QED
    BY <2>1, <2>2, <1>5 DEF Update
<1>6. ASSUME NEW d \in Sinks, Recheck(d) PROVE WakeDue'
  BY <1>6, <1>1 DEF Recheck, Swap
<1>7. ASSUME NEW d \in Sinks, Remove(d) PROVE WakeDue'
  BY <1>7, <1>1 DEF Remove
<1>8. ASSUME NEW d \in Sinks, DropSink(d) PROVE WakeDue'
  <2>1. pc[d] = "idle" /\ pc'[d] \in {"store", "gone"}
    BY <1>8 DEF DropSink, WakeInv, EntriesQueued, InList
  <2>2. ~locked /\ Parked(c)
    BY <2>1, <1>8 DEF DropSink
  <2>3. WakeDue
    BY <2>2 DEF WakeInv, NoLostWakeup
  <2>4. QED
    BY <2>1, <2>3, <1>8 DEF DropSink, WakeDue
<1>9. ASSUME NEW d \in Sinks, Abandon(d) PROVE WakeDue'
  BY <1>9 DEF Abandon
<1>10. ASSUME NEW d \in Sinks, NEW g \in Guards, GetHandle(d, g) PROVE WakeDue'
  BY <1>10, <1>1 DEF GetHandle
<1>11. ASSUME NEW a \in Agents, Unlock(a) PROVE WakeDue'
  BY <1>11, <1>1 DEF Unlock
<1>12. ASSUME NEW a \in Agents, UnlockStore(a) PROVE WakeDue'
  <2>1. pc'[a] = "next"
    BY <1>12 DEF UnlockStore
  <2>2. QED
    BY <2>1 DEF WakeDue
<1>13. ASSUME NEW a \in Agents, UnlockNext(a) PROVE WakeDue'
  <2>1. c # a /\ Parked(c) /\ pc[a] = "next" /\ hand[a] = {}
    BY <1>13 DEF UnlockNext, WakeInv, HandsFree, Unlocked
  <2>2. CASE SleepingKeys = {} /\ UNCHANGED <<sleeper, hand>>
    <3>1. pos[c] # NoKey /\ pos[c] \in entries
      BY <2>1 DEF WakeInv, EntriesQueued, InList, ValidKeys
    <3>2. Notified(c)
      BY <2>1, <2>2, <3>1 DEF SleepingKeys, WakeInv, WokenNotified
    <3>3. QED
      BY <3>2, <2>2, <1>13 DEF UnlockNext, Notified, WakeDue
  <2>3. ASSUME NEW k \in SleepingKeys,
               hand' = [hand EXCEPT ![a] = sleeper[k]],
               sleeper' = [sleeper EXCEPT ![k] = {}],
               Goto(a, "wake")
        PROVE  WakeDue'
    <3>1. PICK d \in Sinks : pos[d] = k
      BY DEF SleepingKeys, WakeInv, EntriesQueued
    <3>2. k # NoKey /\ d \in sleeper[k] /\ pc[d] \in InList
      BY <3>1 DEF SleepingKeys, ValidKeys, WakeInv, EntriesQueued, NoKey
    <3>3. d \in hand'[a] /\ d # a /\ pc'[d] = pc[d]
      BY <3>2, <2>3, <2>1 DEF InList
    <3>4. CASE pc[d] \in {"register", "recheck"}
      BY <3>3, <3>4 DEF WakeDue
    <3>5. CASE pc[d] \in {"reregister", "pending"}
      BY <3>3, <3>5 DEF WakeDue
    <3>6. QED
      BY <3>2, <3>3, <3>4, <3>5, <1>1 DEF InList
  <2>4. QED
    BY <1>13, <2>2, <2>3 DEF UnlockNext
<1>14. ASSUME NEW a \in Agents, UnlockWake(a) PROVE WakeDue'
  <2>1. ~locked /\ Parked(c) /\ c # a
    BY <1>14 DEF UnlockWake, Unlocked
  <2>2. WakeDue
    BY <2>1 DEF WakeInv, NoLostWakeup
  <2>3. \A d \in Agents : d # a => pc'[d] = pc[d] /\ hand'[d] = hand[d]
    BY <1>14 DEF UnlockWake
  <2>4. pc[a] = "wake" /\ woken' = woken \cup hand[a]
    BY <1>14 DEF UnlockWake
  <2>5. QED
    BY <2>2, <2>3, <2>4 DEF WakeDue
<1>15. CASE UNCHANGED vars
  <2>1. ~locked /\ Parked(c)
    BY <1>15 DEF vars
  <2>2. WakeDue
    BY <2>1 DEF WakeInv, NoLostWakeup
  <2>3. QED
    BY <2>2, <1>15 DEF vars, WakeDue
<1>16. QED
  BY <1>2, <1>3, <1>4, <1>5, <1>6, <1>7, <1>8, <1>9, <1>10, <1>11, <1>12,
     <1>13, <1>14, <1>15 DEF Next

\* If no clone is dropped or abandoned while queued, an unlock never leaves a
\* free lock with waiters that nobody is going to wake.
THEOREM WakeupsAreNotLost ==
    ASSUME Cancellable = {}
    PROVE  Spec => []NoLostWakeup
<1>1. Init => WakeInv
  BY ConstantsAssumption
  DEF Init, WakeInv, HandsFree, EntriesQueued, WokenNotified, NoLostWakeup, Parked, InList,
      Agents, NoKey
<1>2. WakeInv /\ LockInv /\ LockInv' /\ ValidKeys /\ [Next]_vars => WakeInv'
  BY HandsFreeNext, EntriesQueuedNext, WokenNotifiedNext, NoLostWakeupNext DEF WakeInv
<1>3. WakeInv => NoLostWakeup
  BY DEF WakeInv
<1>4. QED
  BY <1>1, <1>2, <1>3, LockInvariant, KeysStayValid, PTL DEF Spec

\* Under the same condition the slab holds nothing but the entries of clones
\* that exist and are still inside poll_lock or parked: Drop and unlock never
\* leave one behind, so the slab is bounded by the number of clones.
THEOREM SlabIsBounded ==
    ASSUME Cancellable = {}
    PROVE  Spec => []NoLeakedEntry
<1>1. Init => EntriesQueued
  BY ConstantsAssumption DEF Init, EntriesQueued, InList, Agents, NoKey
<1>2. EntriesQueued /\ LockInv /\ ValidKeys /\ [Next]_vars => EntriesQueued'
  BY EntriesQueuedNext
<1>3. EntriesQueued /\ TypeOK => NoLeakedEntry
  BY ConstantsAssumption DEF EntriesQueued, NoLeakedEntry, InList, TypeOK, NoKey
<1>4. QED
  BY <1>1, <1>2, <1>3, LockInvariant, KeysStayValid, TypeCorrect, PTL DEF Spec
-----------------------------------------------------------------------------
Owners == {a \in Agents : Owns(a)}

\* The mutex implements AsyncLock: the atomic flag, the slab and the waker
\* calls amount to taking, passing on and giving back one lock.
THEOREM ImplementsLock == Spec => LockSpec
<1>1. Init => Lock!Init
  BY DEF Init, Lock!Init, Owns, Agents
<1>2. LockInv /\ LockInv' /\ [Next]_vars => [Lock!Next]_Owners
  <2> SUFFICES ASSUME LockInv, LockInv', [Next]_vars
               PROVE  Lock!Next \/ UNCHANGED Owners
    OBVIOUS
  <2> USE ConstantsAssumption DEF Owners, Owns, Agents, Goto
  <2>1. ASSUME NEW c \in Sinks,
               ~locked, \A a \in Agents : a # c => (Owns(a) <=> Owns(a)'), Owns(c)'
        PROVE  Lock!Next
    <3>1. Owners = {} /\ Owners' = {c}
      BY <2>1 DEF LockInv, MutualExclusion
    <3>2. QED
      BY <3>1 DEF Lock!Next, Lock!Acquire
  <2>2. ASSUME \A a \in Agents : Owns(a) <=> Owns(a)'
        PROVE  UNCHANGED Owners
    BY <2>2
  <2> USE DEF LockInv, TypeOK, HeldIdle
  <2>3. ASSUME NEW c \in Sinks, PollLock(c) \/ Recheck(c)
        PROVE  Lock!Next \/ UNCHANGED Owners
    <3>1. CASE locked
      BY <3>1, <2>2, <2>3 DEF PollLock, Recheck, Swap
    <3>2. CASE ~locked
      BY <3>2, <2>1, <2>3 DEF PollLock, Recheck, Swap
    <3>3. QED
      BY <3>1, <3>2
  <2>4. ASSUME NEW c \in Sinks, \/ Clone(c) \/ Add(c) \/ Update(c) \/ Remove(c)
                                \/ DropSink(c) \/ Abandon(c)
        PROVE  UNCHANGED Owners
    BY <2>2, <2>4 DEF Clone, Add, Update, Remove, DropSink, Abandon
  <2>5. ASSUME NEW c \in Sinks, NEW g \in Guards, GetHandle(c, g)
        PROVE  Lock!Next
    <3>1. Owners = {c}
      BY <2>5 DEF GetHandle, MutualExclusion
    <3>2. Owns(g)' /\ \A a \in Agents : a # g => ~Owns(a)'
      BY <2>5 DEF GetHandle, MutualExclusion
    <3>3. Owners' = {g}
      BY <3>2
    <3>4. QED
      BY <3>1, <3>3 DEF Lock!Next, Lock!Pass
  <2>6. ASSUME NEW a \in Agents, UnlockStore(a)
        PROVE  Lock!Next
    <3>1. Owners = {a} /\ Owners' = {}
      BY <2>6 DEF UnlockStore, MutualExclusion
    <3>2. QED
      BY <3>1 DEF Lock!Next, Lock!Release, Lock!Agents
  <2>7. ASSUME NEW a \in Agents, Unlock(a) \/ UnlockNext(a) \/ UnlockWake(a)
        PROVE  UNCHANGED Owners
    BY <2>2, <2>7 DEF Unlock, UnlockNext, UnlockWake, Unlocked
  <2>8. CASE UNCHANGED vars
    BY <2>8 DEF vars
  <2>9. QED
    BY <2>3, <2>4, <2>5, <2>6, <2>7, <2>8 DEF Next
<1>3. QED
  BY <1>1, <1>2, LockInvariant, PTL DEF Spec, LockSpec, Lock!Spec, Owners
=============================================================================
