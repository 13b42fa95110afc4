------------------------------ MODULE SyncSlot ------------------------------
(***************************************************************************)
(* The life of a guest synchronisation object in prosper.  The guest keeps *)
(* a pointer slot; the handlers (src/hle/hle_kernel.cpp) resolve it to a   *)
(* host object, initialise it on first use, and on destroy claim the slot, *)
(* which leaves a sentinel behind, and hand the object's storage to a      *)
(* quarantine (src/hle/sync_retire.cpp).  Only a later retirement, a       *)
(* window of time afterwards, frees it: another thread may still be inside *)
(* a handler with the pointer in hand.                                     *)
(*                                                                         *)
(* One slot, of one kind, and the threads that initialise it, use it and   *)
(* destroy it at will.  Every atomic access to the slot and every critical *)
(* section of a registry is a step.  Storage is never reused here, so a    *)
(* use of freed storage stays visible.                                     *)
(***************************************************************************)
EXTENDS Naturals, FiniteSets

CONSTANTS
  Threads,
  Objs,      \* storage the allocator may hand out, each block once
  Kinds,     \* the kinds of object to consider, a subset of ObjectKind
  Static,    \* a slot holding a static initialiser (NULL, 1, 2, ...)
  Destroyed, \* a slot holding the destroyed sentinel kPtDestroyed
  NoObj,
  Window,    \* PROSPER_SYNC_RETIRE_SECONDS, in ticks of the clock
  MaxTime,   \* bound: the clock stops here
  MaxCalls   \* bound: calls the guest makes

ObjectKind == {"mutex", "rwlock", "cond", "sem", "barrier"}

ASSUME KindsAssumption == Kinds \subseteq ObjectKind
ASSUME ValuesAssumption ==
  /\ Static \notin Objs /\ Destroyed \notin Objs /\ NoObj \notin Objs
  /\ Static # Destroyed /\ NoObj # Destroyed
ASSUME BoundsAssumption == Window \in Nat /\ MaxTime \in Nat /\ MaxCalls \in Nat

VARIABLES
  kind,       \* what kind of object the slot holds
  slot,       \* the guest's pointer slot
  heap,       \* the state of each block of storage
  quarantine, \* retired objects, each with its retired_at
  now,        \* the steady clock
  waiters,    \* the registered waiter count of each cond or barrier
  pc,
  obj,        \* the object a thread has in hand
  since,      \* history: when the thread resolved it
  reclaim,    \* objects a retiring thread took out of the quarantine
  early,      \* history: threads already parked when a destroy call began
  lost,       \* history: objects the guest overwrote with a second Init
  calls

vars == <<kind, slot, heap, quarantine, now, waiters, pc, obj, since, reclaim,
          early, lost, calls>>

\* Sem and Barrier have no static initialiser: Init is the sole creator.
SelfInit == kind \in {"mutex", "rwlock", "cond"}
BusyChecked == kind \in {"cond", "barrier"}

Handler == {"idle", "initStore", "useCas", "inside", "parked", "peek", "check",
            "claim", "unregister", "retire", "free"}

Init ==
  /\ kind \in Kinds
  /\ slot = Static
  /\ heap = [o \in Objs |-> "unused"]
  /\ quarantine = {}
  /\ now = 0
  /\ waiters = [o \in Objs |-> 0]
  /\ pc = [t \in Threads |-> "idle"]
  /\ obj = [t \in Threads |-> NoObj]
  /\ since = [t \in Threads |-> 0]
  /\ reclaim = [t \in Threads |-> {}]
  /\ early = [t \in Threads |-> {}]
  /\ lost = {}
  /\ calls = 0

Goto(t, label) == pc' = [pc EXCEPT ![t] = label]

Called(t) ==
  /\ pc[t] = "idle"
  /\ calls < MaxCalls
  /\ calls' = calls + 1

Parked(o) == {w \in Threads : pc[w] = "parked" /\ obj[w] = o}

(***************************************************************************)
(* *Init: a fresh object, stored over whatever the slot holds.             *)
(***************************************************************************)
CallInit(t) ==
  /\ Called(t)
  /\ \E o \in Objs :
       /\ heap[o] = "unused"
       /\ heap' = [heap EXCEPT ![o] = "live"]
       /\ obj' = [obj EXCEPT ![t] = o]
  /\ Goto(t, "initStore")
  /\ UNCHANGED <<kind, slot, quarantine, now, waiters, since, reclaim, early, lost>>

InitStore(t) ==
  /\ pc[t] = "initStore"
  /\ slot' = obj[t]
  /\ lost' = IF slot \in Objs THEN lost \cup {slot} ELSE lost
  /\ obj' = [obj EXCEPT ![t] = NoObj]
  /\ Goto(t, "idle")
  /\ UNCHANGED <<kind, heap, quarantine, now, waiters, since, reclaim, early, calls>>

(***************************************************************************)
(* Every other operation: resolve the slot (ensure_mutex, ensure_cond,     *)
(* ensure_rwlock, ensure_sem, ensure_barrier), then work on the object,    *)
(* perhaps blocking inside it.                                             *)
(***************************************************************************)
\* A destroyed slot, or an uninitialised one that does not initialise
\* itself: EINVAL.
UseRefused(t) ==
  /\ Called(t)
  /\ slot = Destroyed \/ (slot = Static /\ ~SelfInit)
  /\ UNCHANGED <<kind, slot, heap, quarantine, now, waiters, pc, obj, since,
                 reclaim, early, lost>>

UseResolved(t) ==
  /\ Called(t)
  /\ slot \in Objs
  /\ obj' = [obj EXCEPT ![t] = slot]
  /\ since' = [since EXCEPT ![t] = now]
  /\ Goto(t, "inside")
  /\ UNCHANGED <<kind, slot, heap, quarantine, now, waiters, reclaim, early, lost>>

UseStatic(t) ==
  /\ Called(t)
  /\ slot = Static /\ SelfInit
  /\ \E o \in Objs :
       /\ heap[o] = "unused"
       /\ heap' = [heap EXCEPT ![o] = "live"]
       /\ obj' = [obj EXCEPT ![t] = o]
  /\ Goto(t, "useCas")
  /\ UNCHANGED <<kind, slot, quarantine, now, waiters, since, reclaim, early, lost>>

\* Wrong variant: the loser keeps the object it made.
UseCasLeaking(t) ==
  /\ pc[t] = "useCas"
  /\ IF slot = Static
     THEN slot' = obj[t] /\ UNCHANGED obj
     ELSE obj' = [obj EXCEPT ![t] = slot] /\ UNCHANGED slot
  /\ since' = [since EXCEPT ![t] = now]
  /\ Goto(t, "inside")
  /\ UNCHANGED <<kind, heap, quarantine, now, waiters, reclaim, early, lost, calls>>

\* Wrong variant: the destroyed sentinel is taken for a static initialiser.
UseCasOverSentinel(t) ==
  /\ pc[t] = "useCas"
  /\ IF slot \in {Static, Destroyed}
     THEN /\ slot' = obj[t]
          /\ UNCHANGED <<heap, obj>>
     ELSE /\ heap' = [heap EXCEPT ![obj[t]] = "freed"]
          /\ obj' = [obj EXCEPT ![t] = slot]
          /\ UNCHANGED slot
  /\ since' = [since EXCEPT ![t] = now]
  /\ Goto(t, "inside")
  /\ UNCHANGED <<kind, quarantine, now, waiters, reclaim, early, lost, calls>>

\* The compare-exchange publishes the fresh object, or it loses: then the
\* object is freed and `cur', whatever the slot held, is returned.
UseCas(t) ==
  /\ pc[t] = "useCas"
  /\ IF slot = Static
     THEN /\ slot' = obj[t]
          /\ UNCHANGED <<heap, obj>>
     ELSE /\ heap' = [heap EXCEPT ![obj[t]] = "freed"]
          /\ obj' = [obj EXCEPT ![t] = slot]
          /\ UNCHANGED slot
  /\ since' = [since EXCEPT ![t] = now]
  /\ Goto(t, "inside")
  /\ UNCHANGED <<kind, quarantine, now, waiters, reclaim, early, lost, calls>>

\* GuestCondWaiterScope, GuestBarrierWaiterScope: the wait is counted, under
\* the registry's lock, before the thread parks.
Park(t) ==
  /\ pc[t] = "inside" /\ obj[t] \in Objs
  /\ BusyChecked
  /\ waiters' = [waiters EXCEPT ![obj[t]] = @ + 1]
  /\ Goto(t, "parked")
  /\ UNCHANGED <<kind, slot, heap, quarantine, now, obj, since, reclaim, early,
                 lost, calls>>

\* Wrong variant: the count is decremented though its entry was erased.
LeaveUnguarded(t) ==
  /\ pc[t] \in {"inside", "parked"} /\ obj[t] \in Objs
  /\ waiters' = IF pc[t] = "parked"
                THEN [waiters EXCEPT ![obj[t]] = @ - 1]
                ELSE waiters
  /\ early' = [d \in Threads |-> early[d] \ {t}]
  /\ obj' = [obj EXCEPT ![t] = NoObj]
  /\ Goto(t, "idle")
  /\ UNCHANGED <<kind, slot, heap, quarantine, now, since, reclaim, lost, calls>>

\* The handler returns.  One that resolved the sentinel instead of an object
\* faults on it and takes no further step.
Leave(t) ==
  /\ pc[t] \in {"inside", "parked"} /\ obj[t] \in Objs
  /\ waiters' = IF pc[t] = "parked" /\ waiters[obj[t]] > 0
                THEN [waiters EXCEPT ![obj[t]] = @ - 1]
                ELSE waiters
  /\ early' = [d \in Threads |-> early[d] \ {t}]
  /\ obj' = [obj EXCEPT ![t] = NoObj]
  /\ Goto(t, "idle")
  /\ UNCHANGED <<kind, slot, heap, quarantine, now, since, reclaim, lost, calls>>

(***************************************************************************)
(* *Destroy: refuse while busy where the platform does, claim, retire.     *)
(***************************************************************************)
CallDestroy(t) ==
  /\ Called(t)
  /\ early' = [early EXCEPT ![t] = IF slot \in Objs THEN Parked(slot) ELSE {}]
  /\ Goto(t, IF BusyChecked THEN "peek" ELSE "claim")
  /\ UNCHANGED <<kind, slot, heap, quarantine, now, waiters, obj, since, reclaim, lost>>

\* pt_peek_slot.
Peek(t) ==
  /\ pc[t] = "peek"
  /\ IF slot \in Objs
     THEN obj' = [obj EXCEPT ![t] = slot] /\ Goto(t, "check")
     ELSE Goto(t, "claim") /\ UNCHANGED obj
  /\ UNCHANGED <<kind, slot, heap, quarantine, now, waiters, since, reclaim,
                 early, lost, calls>>

\* Wrong variant: no busy check.
CheckSkipped(t) ==
  /\ pc[t] = "check"
  /\ Goto(t, "claim")
  /\ obj' = [obj EXCEPT ![t] = NoObj]
  /\ UNCHANGED <<kind, slot, heap, quarantine, now, waiters, since, reclaim,
                 early, lost, calls>>

\* guest_cond_has_waiters, guest_barrier_has_waiters: EBUSY, or go on.
Check(t) ==
  /\ pc[t] = "check"
  /\ Goto(t, IF waiters[obj[t]] > 0 THEN "idle" ELSE "claim")
  /\ obj' = [obj EXCEPT ![t] = NoObj]
  /\ UNCHANGED <<kind, slot, heap, quarantine, now, waiters, since, reclaim,
                 early, lost, calls>>

\* Wrong variant: the object is read out of the slot and not exchanged.
ClaimByLoad(t) ==
  /\ pc[t] = "claim"
  /\ IF slot \in Objs
     THEN /\ obj' = [obj EXCEPT ![t] = slot]
          /\ Goto(t, IF kind = "cond" THEN "unregister" ELSE "retire")
     ELSE Goto(t, "idle") /\ UNCHANGED obj
  /\ UNCHANGED <<kind, slot, heap, quarantine, now, waiters, since, reclaim,
                 early, lost, calls>>

\* pt_claim_slot: one exchange installs the sentinel and takes the object.
Claim(t) ==
  /\ pc[t] = "claim"
  /\ slot' = Destroyed
  /\ IF slot \in Objs
     THEN /\ obj' = [obj EXCEPT ![t] = slot]
          /\ Goto(t, IF kind = "cond" THEN "unregister" ELSE "retire")
     ELSE Goto(t, "idle") /\ UNCHANGED obj
  /\ UNCHANGED <<kind, heap, quarantine, now, waiters, since, reclaim, early,
                 lost, calls>>

\* guest_cond_unregister erases the condvar's entry, its waiters with it.
Unregister(t) ==
  /\ pc[t] = "unregister"
  /\ waiters' = [waiters EXCEPT ![obj[t]] = 0]
  /\ Goto(t, "retire")
  /\ UNCHANGED <<kind, slot, heap, quarantine, now, obj, since, reclaim, early,
                 lost, calls>>

\* Wrong variant: no window, the next retirement frees what the last retired.
ExpiredAtOnce(q) == q.at <= now

\* retire_sync_object, the part under the registry's mutex.  The clock is
\* read there, so the queue is in order of time and the prefix it pops is all
\* that has expired.  With no window the new object is reclaimed at once.
Expired(q) == q.at + Window <= now

Retire(t) ==
  /\ pc[t] = "retire"
  /\ LET new == [obj |-> obj[t], at |-> now]
         out == {q \in quarantine : Expired(q)} \cup (IF Window > 0 THEN {} ELSE {new})
     IN  /\ quarantine' = (quarantine \cup {new}) \ out
         /\ reclaim' = [reclaim EXCEPT ![t] = {q.obj : q \in out}]
  /\ obj' = [obj EXCEPT ![t] = NoObj]
  /\ Goto(t, "free")
  /\ UNCHANGED <<kind, slot, heap, now, waiters, since, early, lost, calls>>

\* The rest of it, outside the mutex: host_destroy, then free.
Free(t) ==
  /\ pc[t] = "free"
  /\ heap' = [o \in Objs |-> IF o \in reclaim[t] THEN "freed" ELSE heap[o]]
  /\ reclaim' = [reclaim EXCEPT ![t] = {}]
  /\ Goto(t, "idle")
  /\ UNCHANGED <<kind, slot, quarantine, now, waiters, obj, since, early, lost, calls>>

Tick ==
  /\ now < MaxTime
  /\ now' = now + 1
  /\ UNCHANGED <<kind, slot, heap, quarantine, waiters, pc, obj, since, reclaim,
                 early, lost, calls>>

-----------------------------------------------------------------------------
Use(t) == UseRefused(t) \/ UseResolved(t) \/ UseStatic(t) \/ UseCas(t)
          \/ Park(t) \/ Leave(t)
Destroy(t) == CallDestroy(t) \/ Peek(t) \/ Check(t) \/ Claim(t) \/ Unregister(t)
              \/ Retire(t) \/ Free(t)

Next ==
  \/ \E t \in Threads : CallInit(t) \/ InitStore(t) \/ Use(t) \/ Destroy(t)
  \/ Tick

Spec == Init /\ [][Next]_vars

-----------------------------------------------------------------------------
\* Every variable has its type.
TypeOK ==
  /\ kind \in Kinds
  /\ slot \in Objs \cup {Static, Destroyed}
  /\ heap \in [Objs -> {"unused", "live", "freed"}]
  /\ quarantine \subseteq [obj : Objs, at : Nat]
  /\ now \in Nat
  /\ waiters \in [Objs -> Nat]
  /\ pc \in [Threads -> Handler]
  /\ obj \in [Threads -> Objs \cup {Destroyed, NoObj}]
  /\ since \in [Threads -> Nat]
  /\ reclaim \in [Threads -> SUBSET Objs]
  /\ early \in [Threads -> SUBSET Threads]
  /\ lost \subseteq Objs
  /\ calls \in Nat

\* Who answers for a block of storage.
InSlot == {slot} \cap Objs
PrivateTo(t) == IF pc[t] \in {"initStore", "useCas", "unregister", "retire"}
                THEN {obj[t]} ELSE {}
Quarantined == {q.obj : q \in quarantine}

\* A block is answered for once: in the slot, or in one thread's hands before
\* it is published or after it is claimed, or in the quarantine, or on its way
\* to the allocator.  Two racing destroys never retire one object twice, which
\* would free it twice (issue 2176).
AnsweredForOnce ==
  /\ \A t \in Threads :
       /\ InSlot \cap (PrivateTo(t) \cup reclaim[t]) = {}
       /\ (PrivateTo(t) \cup reclaim[t]) \cap Quarantined = {}
       /\ PrivateTo(t) \cap reclaim[t] = {}
       /\ \A u \in Threads \ {t} :
            (PrivateTo(t) \cup reclaim[t]) \cap (PrivateTo(u) \cup reclaim[u]) = {}
  /\ InSlot \cap Quarantined = {}
  /\ Cardinality(quarantine) = Cardinality(Quarantined)

\* No block in anybody's account is freed yet, and no live block is in
\* nobody's (the lost-race path stays allocation neutral); only the object a
\* guest itself overwrites with a second Init is left behind.
NoBlockLost ==
  \A o \in Objs :
    heap[o] = "live" <=>
      \/ o \in InSlot \cup Quarantined \cup lost
      \/ \E t \in Threads : o \in PrivateTo(t) \cup reclaim[t]

\* A stale pointer in an in-flight handler names a live object for at least
\* the window after it was resolved, whoever destroys the object meanwhile.
LiveWithinWindow ==
  \A t \in Threads :
    /\ pc[t] \in {"inside", "parked"} /\ obj[t] \in Objs
    /\ now < since[t] + Window
    => heap[obj[t]] = "live"

\* A destroyed slot comes back only by an explicit Init (issue 2170: lazy
\* initialisation used to manufacture a fresh, unheld object in it).
OnlyInitRevives ==
  [][slot = Destroyed /\ slot' # Destroyed =>
       \E t \in Threads : pc[t] = "initStore" /\ pc'[t] = "idle"]_vars

\* A thread already parked in a condvar or barrier when a destroy call begins
\* is not retired out from under by that call: it is refused with EBUSY.
EarlyWaitersKept ==
  BusyChecked =>
    \A d \in Threads :
      pc[d] = "claim" /\ slot \in Objs => early[d] \cap Parked(slot) = {}

\* What the comments on kPtDestroyed claim: the sentinel is never taken for an
\* object; an operation on a destroyed slot is refused.
SentinelNeverResolved ==
  \A t \in Threads : pc[t] = "inside" => obj[t] # Destroyed

=============================================================================
