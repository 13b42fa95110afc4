-------------------------- MODULE SyncSlotProofs --------------------------
(***************************************************************************)
(* Proofs about SyncSlot: for every set of threads and blocks, every kind  *)
(* of object, any window and any number of calls, a block is answered for  *)
(* once, none is lost, a handler's pointer is good for the window, and a   *)
(* parked thread is not retired out from under by a later destroy.         *)
(***************************************************************************)
EXTENDS SyncSlot, FiniteSetTheorems, TLAPS

\* The places where a thread has a block of its own in hand, and those of a
\* thread that has made it and not published it yet.
Holding == {"initStore", "useCas", "unregister", "retire"}
Making == {"initStore", "useCas"}
Inside == {"inside", "parked"}

Holds(t, o) == pc[t] \in Holding /\ obj[t] = o

\* Each account of a block excludes the others.
Apart ==
  /\ \A t \in Threads :
       /\ pc[t] \in Holding =>
            /\ obj[t] \in Objs /\ obj[t] # slot /\ obj[t] \notin lost
            /\ \A q \in quarantine : q.obj # obj[t]
            /\ \A u \in Threads : obj[t] \notin reclaim[u] /\ (u # t => ~Holds(u, obj[t]))
       /\ pc[t] = "check" => obj[t] \in Objs
       /\ pc[t] = "parked" => obj[t] \in Objs
       /\ pc[t] # "free" => reclaim[t] = {}
       /\ slot \notin reclaim[t]
       /\ \A o \in reclaim[t] :
            /\ o \notin lost
            /\ \A q \in quarantine : q.obj # o
            /\ \A u \in Threads \ {t} : o \notin reclaim[u]
  /\ slot \notin lost
  /\ \A q \in quarantine : q.obj # slot /\ q.obj \notin lost
  /\ \A q, r \in quarantine : q.obj = r.obj => q = r
  /\ IsFiniteSet(quarantine)

\* The live blocks are those in somebody's account.
Accounted(o) ==
  \/ o = slot \/ o \in lost
  \/ \E q \in quarantine : q.obj = o
  \/ \E t \in Threads : Holds(t, o) \/ o \in reclaim[t]
Kept == \A o \in Objs : heap[o] = "live" <=> Accounted(o)

\* What a handler has resolved was published, and it leaves the slot, the
\* quarantine and the heap no earlier than a window later.
Windows ==
  \A t \in Threads : pc[t] \in Inside /\ obj[t] \in Objs =>
    /\ since[t] <= now
    /\ heap[obj[t]] # "unused"
    /\ \A u \in Threads : ~(pc[u] \in Making /\ obj[u] = obj[t])
    /\ \A q \in quarantine : q.obj = obj[t] => since[t] <= q.at
    /\ \A u \in Threads : obj[t] \in reclaim[u] => since[t] + Window <= now
    /\ heap[obj[t]] = "freed" => since[t] + Window <= now

\* The registry counts the threads parked in the slot's object, and has no
\* count for one that has not been published.
Counts ==
  /\ slot \in Objs => IsFiniteSet(Parked(slot)) /\ waiters[slot] = Cardinality(Parked(slot))
  /\ \A o \in Objs : heap[o] = "unused" => waiters[o] = 0
  /\ \A t \in Threads : pc[t] \in Making => waiters[obj[t]] = 0

\* Who was parked when a destroy began and still is keeps it from claiming.
EarlyKept ==
  \A d, w \in Threads : w \in early[d] =>
    /\ pc[w] = "parked"
    /\ BusyChecked /\ pc[d] = "check" /\ obj[w] = slot => obj[d] = slot
    /\ BusyChecked /\ pc[d] = "claim" => obj[w] # slot

SlotInv == TypeOK /\ Apart /\ Kept /\ Windows /\ Counts /\ EarlyKept

LEMMA InitHolds == Init => SlotInv
<1>1. SUFFICES ASSUME Init PROVE SlotInv
  OBVIOUS
<1>2. TypeOK
  BY <1>1 DEF Init, TypeOK, Handler
<1>3. Apart /\ Kept
  BY <1>1, ValuesAssumption, FS_EmptySet
     DEF Init, Apart, Kept, Accounted, Holds, Holding
<1>4. Windows /\ Counts /\ EarlyKept
  BY <1>1, ValuesAssumption DEF Init, Windows, Counts, EarlyKept, Inside, Making
<1>5. QED
  BY <1>2, <1>3, <1>4 DEF SlotInv

-----------------------------------------------------------------------------
(***************************************************************************)
(* Steps that move no block.                                               *)
(***************************************************************************)
LEMMA AccountsStay ==
  ASSUME Apart, Kept, UNCHANGED <<slot, heap, quarantine, reclaim, lost>>,
         \A u \in Threads :
           /\ (pc'[u] \in Holding) = (pc[u] \in Holding)
           /\ pc[u] \in Holding => obj'[u] = obj[u]
           /\ pc'[u] = "check" => obj'[u] \in Objs
           /\ pc'[u] = "parked" => obj'[u] \in Objs
           /\ pc[u] = "free" => pc'[u] = "free"
  PROVE  Apart' /\ Kept'
<1>1. \A u \in Threads, o \in Objs : Holds(u, o)' = Holds(u, o)
  BY DEF Holds
<1>2. Apart'
  BY <1>1 DEF Apart, Holds
<1>3. Kept'
  BY <1>1 DEF Kept, Accounted
<1>4. QED
  BY <1>2, <1>3

\* No thread resolves an object, none is published, and whoever is inside
\* was there.
LEMMA WindowsStay ==
  ASSUME Windows, UNCHANGED <<now, heap, quarantine, reclaim>>,
         \A u \in Threads :
           /\ pc'[u] \in Inside /\ obj'[u] \in Objs =>
                pc[u] \in Inside /\ obj'[u] = obj[u] /\ since'[u] = since[u]
           /\ pc'[u] \in Making => pc[u] \in Making /\ obj'[u] = obj[u]
  PROVE  Windows'
BY DEF Windows

\* The same threads are parked, and counted as they were.
LEMMA CountsStay ==
  ASSUME Counts, UNCHANGED <<slot, heap, waiters>>,
         \A u \in Threads :
           /\ pc'[u] = "parked" <=> pc[u] = "parked"
           /\ pc[u] = "parked" => obj'[u] = obj[u]
           /\ pc'[u] \in Making => pc[u] \in Making /\ obj'[u] = obj[u]
  PROVE  Counts'
<1>1. \A o \in Objs : Parked(o)' = Parked(o)
  BY DEF Parked
<1>2. QED
  BY <1>1 DEF Counts

\* A destroy goes no further, and the same threads are parked in what they were.
LEMMA EarlyStays ==
  ASSUME EarlyKept, UNCHANGED <<kind, slot, early>>,
         \A u \in Threads :
           /\ pc'[u] = "parked" <=> pc[u] = "parked"
           /\ pc[u] = "parked" => obj'[u] = obj[u]
           /\ pc'[u] = "check" => pc[u] = "check" /\ obj'[u] = obj[u]
           /\ pc'[u] = "claim" => pc[u] = "claim"
  PROVE  EarlyKept'
BY DEF EarlyKept, BusyChecked

LEMMA UseRefusedKeeps ==
  ASSUME SlotInv, NEW t \in Threads, UseRefused(t)
  PROVE  SlotInv'
BY DEF UseRefused, Called, SlotInv, TypeOK, Apart, Kept, Accounted, Holds, Windows, Counts,
       Parked, EarlyKept, BusyChecked

LEMMA UseResolvedKeeps ==
  ASSUME SlotInv, NEW t \in Threads, UseResolved(t)
  PROVE  SlotInv'
<1>1. /\ pc[t] = "idle" /\ slot \in Objs /\ calls' = calls + 1
      /\ obj' = [obj EXCEPT ![t] = slot] /\ since' = [since EXCEPT ![t] = now]
      /\ pc' = [pc EXCEPT ![t] = "inside"]
      /\ UNCHANGED <<kind, slot, heap, quarantine, now, waiters, reclaim, early, lost>>
  BY DEF UseResolved, Called, Goto
<1>2. TypeOK /\ TypeOK'
  BY <1>1 DEF SlotInv, TypeOK, Handler
<1>3. Apart' /\ Kept'
  BY <1>1, <1>2, AccountsStay DEF SlotInv, Apart, TypeOK, Holding
<1>4. Windows'
  <2>1. heap[slot] = "live"
    BY <1>1 DEF SlotInv, Kept, Accounted
  <2>2. QED
    BY <1>1, <1>2, <2>1 DEF SlotInv, Windows, Apart, TypeOK, Making, Holding, Inside
<1>5. Counts'
  BY <1>1, <1>2, CountsStay DEF SlotInv, TypeOK, Making
<1>6. EarlyKept'
  BY <1>1, <1>2, EarlyStays DEF SlotInv, TypeOK
<1>7. QED
  BY <1>2, <1>3, <1>4, <1>5, <1>6 DEF SlotInv

LEMMA ParkKeeps ==
  ASSUME SlotInv, NEW t \in Threads, Park(t)
  PROVE  SlotInv'
<1> DEFINE o == obj[t]
<1>1. /\ pc[t] = "inside" /\ o \in Objs
      /\ waiters' = [waiters EXCEPT ![o] = @ + 1] /\ pc' = [pc EXCEPT ![t] = "parked"]
      /\ UNCHANGED <<kind, slot, heap, quarantine, now, obj, since, reclaim, early,
                     lost, calls>>
  BY DEF Park, Goto
<1>2. TypeOK /\ TypeOK'
  BY <1>1 DEF SlotInv, TypeOK, Handler
<1>3. Apart' /\ Kept'
  BY <1>1, <1>2, AccountsStay DEF SlotInv, Apart, TypeOK, Holding
<1>4. Windows'
  BY <1>1, <1>2, WindowsStay DEF SlotInv, TypeOK, Inside, Making
<1>5. Counts'
  <2>1. heap[o] # "unused" /\ \A u \in Threads : pc[u] \in Making => obj[u] # o
    BY <1>1 DEF SlotInv, Windows, Inside
  <2>2. CASE slot = o
    <3>1. Parked(slot)' = Parked(slot) \cup {t} /\ t \notin Parked(slot)
      BY <1>1, <1>2, <2>2 DEF Parked, TypeOK
    <3>2. IsFiniteSet(Parked(slot)) /\ waiters[slot] = Cardinality(Parked(slot))
      BY <1>1, <2>2 DEF SlotInv, Counts
    <3>3. IsFiniteSet(Parked(slot)') /\ waiters'[slot] = Cardinality(Parked(slot)')
      BY <1>1, <1>2, <2>2, <3>1, <3>2, FS_AddElement DEF TypeOK
    <3>4. QED
      BY <1>1, <1>2, <2>1, <3>3 DEF SlotInv, Counts, TypeOK, Making
  <2>3. CASE slot # o
    <3>1. slot \in Objs => Parked(slot)' = Parked(slot) /\ waiters'[slot] = waiters[slot]
      BY <1>1, <1>2, <2>3 DEF Parked, TypeOK
    <3>2. QED
      BY <1>1, <1>2, <2>1, <3>1 DEF SlotInv, Counts, TypeOK, Making
  <2>4. QED
    BY <2>2, <2>3
<1>6. EarlyKept'
  BY <1>1, <1>2 DEF SlotInv, EarlyKept, TypeOK, BusyChecked
<1>7. QED
  BY <1>2, <1>3, <1>4, <1>5, <1>6 DEF SlotInv

LEMMA LeaveKeeps ==
  ASSUME SlotInv, NEW t \in Threads, Leave(t)
  PROVE  SlotInv'
<1> DEFINE o == obj[t]
<1>1. /\ pc[t] \in Inside /\ o \in Objs
      /\ waiters' = IF pc[t] = "parked" /\ waiters[o] > 0
                    THEN [waiters EXCEPT ![o] = @ - 1] ELSE waiters
      /\ early' = [d \in Threads |-> early[d] \ {t}]
      /\ obj' = [obj EXCEPT ![t] = NoObj] /\ pc' = [pc EXCEPT ![t] = "idle"]
      /\ UNCHANGED <<kind, slot, heap, quarantine, now, since, reclaim, lost, calls>>
  BY DEF Leave, Goto, Inside
<1>2. TypeOK /\ TypeOK'
  <2>1. waiters' \in [Objs -> Nat]
    BY <1>1 DEF SlotInv, TypeOK
  <2>2. QED
    BY <1>1, <2>1 DEF SlotInv, TypeOK, Handler
<1>3. Apart' /\ Kept'
  BY <1>1, <1>2, AccountsStay DEF SlotInv, Apart, TypeOK, Holding, Inside
<1>4. Windows'
  BY <1>1, <1>2, WindowsStay DEF SlotInv, TypeOK, Inside, Making
<1>5. Counts'
  <2>1. heap[o] # "unused" /\ \A u \in Threads : pc[u] \in Making => obj[u] # o
    BY <1>1 DEF SlotInv, Windows
  <2>2. CASE slot = o /\ pc[t] = "parked"
    <3>1. Parked(slot)' = Parked(slot) \ {t} /\ t \in Parked(slot)
      BY <1>1, <1>2, <2>2 DEF Parked, TypeOK
    <3>2. IsFiniteSet(Parked(slot)) /\ waiters[slot] = Cardinality(Parked(slot))
      BY <1>1, <2>2 DEF SlotInv, Counts
    <3>3. waiters[slot] > 0
      BY <1>2, <2>2, <1>1, <3>1, <3>2, FS_EmptySet, FS_CardinalityType DEF TypeOK
    <3>4. IsFiniteSet(Parked(slot)') /\ waiters'[slot] = Cardinality(Parked(slot)')
      BY <1>1, <1>2, <2>2, <3>1, <3>2, <3>3, FS_RemoveElement DEF TypeOK
    <3>5. QED
      BY <1>1, <1>2, <2>1, <3>4 DEF SlotInv, Counts, TypeOK, Making
  <2>3. CASE slot # o \/ pc[t] # "parked"
    <3>1. slot \in Objs => Parked(slot)' = Parked(slot) /\ waiters'[slot] = waiters[slot]
      BY <1>1, <1>2, <2>3, ValuesAssumption DEF Parked, TypeOK
    <3>2. QED
      BY <1>1, <1>2, <2>1, <3>1 DEF SlotInv, Counts, TypeOK, Making
  <2>4. QED
    BY <2>2, <2>3
<1>6. EarlyKept'
  BY <1>1, <1>2 DEF SlotInv, EarlyKept, TypeOK, BusyChecked
<1>7. QED
  BY <1>2, <1>3, <1>4, <1>5, <1>6 DEF SlotInv

LEMMA CallDestroyKeeps ==
  ASSUME SlotInv, NEW t \in Threads, CallDestroy(t)
  PROVE  SlotInv'
<1>1. /\ pc[t] = "idle" /\ calls' = calls + 1
      /\ early' = [early EXCEPT ![t] = IF slot \in Objs THEN Parked(slot) ELSE {}]
      /\ pc' = [pc EXCEPT ![t] = IF BusyChecked THEN "peek" ELSE "claim"]
      /\ UNCHANGED <<kind, slot, heap, quarantine, now, waiters, obj, since, reclaim, lost>>
  BY DEF CallDestroy, Called, Goto
<1>2. TypeOK /\ TypeOK'
  BY <1>1 DEF SlotInv, TypeOK, Handler, Parked
<1>3. Apart' /\ Kept'
  BY <1>1, <1>2, AccountsStay DEF SlotInv, Apart, TypeOK, Holding
<1>4. Windows'
  BY <1>1, <1>2, WindowsStay DEF SlotInv, TypeOK, Inside, Making
<1>5. Counts'
  BY <1>1, <1>2, CountsStay DEF SlotInv, TypeOK, Making
<1>6. EarlyKept'
  BY <1>1, <1>2 DEF SlotInv, EarlyKept, TypeOK, BusyChecked, Parked
<1>7. QED
  BY <1>2, <1>3, <1>4, <1>5, <1>6 DEF SlotInv

LEMMA PeekKeeps ==
  ASSUME SlotInv, NEW t \in Threads, Peek(t)
  PROVE  SlotInv'
<1>1. /\ pc[t] = "peek"
      /\ \/ slot \in Objs /\ obj' = [obj EXCEPT ![t] = slot] /\ pc' = [pc EXCEPT ![t] = "check"]
         \/ slot \notin Objs /\ obj' = obj /\ pc' = [pc EXCEPT ![t] = "claim"]
      /\ UNCHANGED <<kind, slot, heap, quarantine, now, waiters, since, reclaim,
                     early, lost, calls>>
  BY DEF Peek, Goto
<1>2. TypeOK /\ TypeOK'
  BY <1>1 DEF SlotInv, TypeOK, Handler
<1>3. Apart' /\ Kept'
  BY <1>1, <1>2, AccountsStay DEF SlotInv, Apart, TypeOK, Holding
<1>4. Windows'
  BY <1>1, <1>2, WindowsStay DEF SlotInv, TypeOK, Inside, Making
<1>5. Counts'
  BY <1>1, <1>2, CountsStay DEF SlotInv, TypeOK, Making
<1>6. EarlyKept'
  BY <1>1, <1>2 DEF SlotInv, EarlyKept, TypeOK, BusyChecked, Apart
<1>7. QED
  BY <1>2, <1>3, <1>4, <1>5, <1>6 DEF SlotInv

\* A destroy passes the check only if nobody is counted in the object it
\* peeked at; if that is still the slot's, nobody is parked there.
LEMMA CheckKeeps ==
  ASSUME SlotInv, NEW t \in Threads, Check(t)
  PROVE  SlotInv'
<1>1. /\ pc[t] = "check"
      /\ pc' = [pc EXCEPT ![t] = IF waiters[obj[t]] > 0 THEN "idle" ELSE "claim"]
      /\ obj' = [obj EXCEPT ![t] = NoObj]
      /\ UNCHANGED <<kind, slot, heap, quarantine, now, waiters, since, reclaim,
                     early, lost, calls>>
  BY DEF Check, Goto
<1>2. TypeOK /\ TypeOK'
  BY <1>1 DEF SlotInv, TypeOK, Handler
<1>3. Apart' /\ Kept'
  BY <1>1, <1>2, AccountsStay DEF SlotInv, Apart, TypeOK, Holding
<1>4. Windows'
  BY <1>1, <1>2, WindowsStay DEF SlotInv, TypeOK, Inside, Making
<1>5. Counts'
  BY <1>1, <1>2, CountsStay DEF SlotInv, TypeOK, Making
<1>6. EarlyKept'
  <2>1. ASSUME NEW w \in Threads, w \in early[t], BusyChecked, obj[w] = slot
        PROVE  pc'[t] = "idle"
    <3>1. obj[t] = slot /\ slot \in Objs /\ w \in Parked(slot)
      BY <1>1, <2>1 DEF SlotInv, EarlyKept, Apart, Parked
    <3>2. IsFiniteSet(Parked(slot)) /\ waiters[slot] = Cardinality(Parked(slot))
      BY <3>1 DEF SlotInv, Counts
    <3>3. waiters[slot] > 0
      BY <1>2, <3>1, <3>2, FS_EmptySet, FS_CardinalityType DEF TypeOK
    <3>4. QED
      BY <1>1, <1>2, <3>1, <3>3 DEF TypeOK
  <2>2. \A w \in Threads : w \in early[t] => w # t /\ obj'[w] = obj[w] /\ pc'[w] = pc[w]
    BY <1>1, <1>2 DEF SlotInv, EarlyKept, TypeOK
  <2>3. \A d, w \in Threads : w \in early[d] => w # t
    BY <1>1 DEF SlotInv, EarlyKept
  <2>4. QED
    BY <1>1, <1>2, <2>1, <2>2, <2>3 DEF SlotInv, EarlyKept, TypeOK, BusyChecked
<1>7. QED
  BY <1>2, <1>3, <1>4, <1>5, <1>6 DEF SlotInv

LEMMA TickKeeps ==
  ASSUME SlotInv, Tick
  PROVE  SlotInv'
<1>1. /\ now' = now + 1
      /\ UNCHANGED <<kind, slot, heap, quarantine, waiters, pc, obj, since, reclaim,
                     early, lost, calls>>
  BY DEF Tick
<1>2. TypeOK /\ TypeOK'
  BY <1>1 DEF SlotInv, TypeOK
<1>3. Apart' /\ Kept'
  BY <1>1, AccountsStay DEF SlotInv, Apart
<1>4. Windows'
  BY <1>1, <1>2, BoundsAssumption DEF SlotInv, Windows, TypeOK
<1>5. Counts' /\ EarlyKept'
  BY <1>1, CountsStay, EarlyStays DEF SlotInv
<1>6. QED
  BY <1>2, <1>3, <1>4, <1>5 DEF SlotInv

-----------------------------------------------------------------------------
(***************************************************************************)
(* Steps that move a block.                                                *)
(***************************************************************************)
\* A fresh block, in the hands of the thread that made it.
LEMMA MakeKeeps ==
  ASSUME SlotInv, NEW t \in Threads, NEW o \in Objs, NEW l \in Making,
         heap[o] = "unused", heap' = [heap EXCEPT ![o] = "live"],
         obj' = [obj EXCEPT ![t] = o], Called(t), Goto(t, l),
         UNCHANGED <<kind, slot, quarantine, now, waiters, since, reclaim, early, lost>>
  PROVE  SlotInv'
<1>1. pc[t] = "idle" /\ calls' = calls + 1 /\ pc' = [pc EXCEPT ![t] = l]
      /\ l \in {"initStore", "useCas"}
  BY DEF Called, Goto, Making
<1>2. TypeOK /\ TypeOK'
  BY <1>1 DEF SlotInv, TypeOK, Handler
<1>3. ~Accounted(o)
  BY DEF SlotInv, Kept
<1>4. Apart'
  BY <1>1, <1>2, <1>3 DEF SlotInv, Apart, Accounted, Holds, TypeOK, Holding
<1>5. Kept'
  <2>1. \A u \in Threads, x \in Objs : Holds(u, x)' <=> Holds(u, x) \/ (u = t /\ x = o)
    BY <1>1, <1>2 DEF Holds, TypeOK, Holding
  <2>2. QED
    BY <1>2, <2>1 DEF SlotInv, Kept, Accounted, TypeOK
<1>6. Windows'
  BY <1>1, <1>2 DEF SlotInv, Windows, TypeOK, Making, Inside
<1>7. Counts'
  <2>1. \A x \in Objs : Parked(x)' = Parked(x)
    BY <1>1, <1>2 DEF Parked, TypeOK
  <2>2. waiters[o] = 0
    BY DEF SlotInv, Counts
  <2>3. QED
    BY <1>1, <1>2, <2>1, <2>2 DEF SlotInv, Counts, TypeOK, Making
<1>8. EarlyKept'
  BY <1>1, <1>2, EarlyStays DEF SlotInv, TypeOK
<1>9. QED
  BY <1>2, <1>4, <1>5, <1>6, <1>7, <1>8 DEF SlotInv

\* The block a thread has made goes into the slot, where nobody is parked yet.
LEMMA PublishKeeps ==
  ASSUME SlotInv, NEW t \in Threads, pc[t] \in Making, slot' = obj[t],
         lost' = IF slot \in Objs THEN lost \cup {slot} ELSE lost,
         \/ /\ pc' = [pc EXCEPT ![t] = "idle"] /\ obj' = [obj EXCEPT ![t] = NoObj]
            /\ UNCHANGED since
         \/ /\ pc' = [pc EXCEPT ![t] = "inside"] /\ UNCHANGED obj
            /\ since' = [since EXCEPT ![t] = now],
         UNCHANGED <<kind, heap, quarantine, now, waiters, reclaim, early, calls>>
  PROVE  SlotInv'
<1> DEFINE o == obj[t]
<1>1. /\ pc[t] \in Holding /\ pc[t] \notin Inside /\ pc[t] # "free" /\ o \in Objs
  BY DEF SlotInv, Apart, Making, Holding, Inside
<1>2. TypeOK /\ TypeOK'
  BY <1>1 DEF SlotInv, TypeOK, Handler
<1>3. \A u \in Threads : /\ u # t => pc'[u] = pc[u] /\ obj'[u] = obj[u]
                         /\ pc'[t] \notin Holding /\ pc'[t] \notin {"check", "parked", "free"}
  BY <1>2 DEF TypeOK, Holding
<1>4. Apart'
  BY <1>1, <1>2, <1>3 DEF SlotInv, Apart, Holds, TypeOK
<1>5. Kept'
  <2>1. \A u \in Threads, x \in Objs : Holds(u, x)' <=> Holds(u, x) /\ u # t
    BY <1>3 DEF Holds
  <2>2. ASSUME NEW x \in Objs PROVE Accounted(x)' <=> Accounted(x)
    BY <1>1, <2>1 DEF Accounted, Holds
  <2>3. QED
    BY <2>2 DEF SlotInv, Kept
<1>6. Windows'
  <2>1. heap[o] = "live"
    BY <1>1 DEF SlotInv, Kept, Accounted, Holds
  <2>2. ASSUME NEW u \in Threads, pc'[u] \in Inside, obj'[u] \in Objs, u # t
        PROVE  pc[u] \in Inside /\ obj'[u] = obj[u] /\ since'[u] = since[u]
    BY <1>2, <1>3, <2>2 DEF TypeOK
  <2>3. ASSUME pc'[t] \in Inside
        PROVE  obj'[t] = o /\ since'[t] = now
    BY <1>2, <2>3 DEF TypeOK, Inside
  <2>4. \A q \in quarantine : q.obj # o
    BY <1>1 DEF SlotInv, Apart
  <2>5. \A u \in Threads : o \notin reclaim[u] /\ ~(pc'[u] \in Making /\ obj'[u] = o)
    BY <1>1, <1>3 DEF SlotInv, Apart, Holds, Making, Holding
  <2>6. \A u \in Threads : pc'[u] \in Making => pc[u] \in Making /\ obj'[u] = obj[u]
    BY <1>3 DEF Making, Holding
  <2>7. QED
    BY <1>2, <2>1, <2>2, <2>3, <2>4, <2>5, <2>6 DEF SlotInv, Windows, TypeOK
<1>7. Counts'
  <2>1. Parked(slot)' = {}
    BY <1>1, <1>2, <1>3 DEF SlotInv, Windows, Parked, Inside
  <2>2. waiters[o] = 0
    BY DEF SlotInv, Counts
  <2>3. \A u \in Threads : pc'[u] \in Making => pc[u] \in Making /\ obj'[u] = obj[u]
    BY <1>3 DEF Making, Holding
  <2>4. QED
    BY <2>1, <2>2, <2>3, FS_EmptySet DEF SlotInv, Counts
<1>8. EarlyKept'
  <2>1. \A w \in Threads : pc[w] = "parked" => obj[w] # o /\ w # t
    BY <1>1 DEF SlotInv, Windows, Inside
  <2>2. QED
    BY <1>1, <1>2, <1>3, <2>1 DEF SlotInv, EarlyKept, TypeOK, BusyChecked, Inside
<1>9. QED
  BY <1>2, <1>4, <1>5, <1>6, <1>7, <1>8 DEF SlotInv

\* A lost compare-exchange frees the block that nobody else has seen.
LEMMA LoseKeeps ==
  ASSUME SlotInv, NEW t \in Threads, UseCas(t), slot # Static
  PROVE  SlotInv'
<1>0. PICK o : o = obj[t]
  OBVIOUS
<1>1. /\ pc[t] = "useCas" /\ heap' = [heap EXCEPT ![o] = "freed"]
      /\ obj' = [obj EXCEPT ![t] = slot] /\ since' = [since EXCEPT ![t] = now]
      /\ pc' = [pc EXCEPT ![t] = "inside"]
      /\ UNCHANGED <<kind, slot, quarantine, now, waiters, reclaim, early, lost, calls>>
  BY <1>0 DEF UseCas, Goto
<1>2. /\ pc[t] \in Holding /\ pc[t] \in Making /\ o \in Objs /\ Holds(t, o) /\ Accounted(o)
      /\ heap[o] = "live"
  BY <1>0, <1>1 DEF SlotInv, Apart, Making, Holding, Kept, Accounted, Holds
<1>3. TypeOK /\ TypeOK'
  BY <1>0, <1>1 DEF SlotInv, TypeOK, Handler
<1>4. Apart'
  BY <1>0, <1>1, <1>2, <1>3 DEF SlotInv, Apart, Holds, TypeOK, Holding
<1>5. Kept'
  <2>1. \A u \in Threads, x \in Objs : Holds(u, x)' <=> Holds(u, x) /\ x # o
    BY <1>0, <1>1, <1>2, <1>3 DEF SlotInv, Apart, Holds, TypeOK, Holding
  <2>2. ~Accounted(o)'
    BY <1>0, <1>1, <1>2, <2>1 DEF SlotInv, Apart, Accounted
  <2>3. \A x \in Objs : x # o => (Accounted(x)' <=> Accounted(x))
    BY <1>1, <2>1 DEF Accounted
  <2>4. QED
    BY <1>1, <1>3, <2>2, <2>3 DEF SlotInv, Kept, TypeOK
<1>6. Windows'
  <2>1. slot \in Objs => heap'[slot] = "live"
    BY <1>0, <1>1, <1>2, <1>3 DEF SlotInv, Apart, Kept, Accounted, TypeOK
  <2>2. \A u \in Threads : pc'[u] \in Making => pc[u] \in Making /\ obj'[u] = obj[u] /\ obj[u] # slot
    BY <1>1, <1>3 DEF SlotInv, Apart, TypeOK, Making, Holding
  <2>3. \A q \in quarantine : q.obj # slot
    BY DEF SlotInv, Apart
  <2>4. \A u \in Threads : slot \notin reclaim[u]
    BY DEF SlotInv, Apart
  <2>5. \A u \in Threads : pc[u] \in Inside /\ obj[u] \in Objs => obj[u] # o
    BY <1>0, <1>2 DEF SlotInv, Windows
  <2>6. QED
    BY <1>1, <1>3, <2>1, <2>2, <2>3, <2>4, <2>5 DEF SlotInv, Windows, TypeOK, Inside
<1>7. Counts'
  <2>1. \A x \in Objs : Parked(x)' = Parked(x)
    BY <1>1, <1>3 DEF Parked, TypeOK
  <2>2. QED
    BY <1>1, <1>3, <2>1 DEF SlotInv, Counts, TypeOK, Making
<1>8. EarlyKept'
  BY <1>1, <1>3, EarlyStays DEF SlotInv, TypeOK
<1>9. QED
  BY <1>3, <1>4, <1>5, <1>6, <1>7, <1>8 DEF SlotInv

\* The exchange of a destroy takes the object out of the slot for good.
LEMMA ClaimKeeps ==
  ASSUME SlotInv, NEW t \in Threads, Claim(t)
  PROVE  SlotInv'
<1>1. /\ pc[t] = "claim" /\ slot' = Destroyed /\ slot' \notin Objs
      /\ UNCHANGED <<kind, heap, quarantine, now, waiters, since, reclaim, early,
                     lost, calls>>
  BY ValuesAssumption DEF Claim
<1>2. CASE slot \in Objs
  <2>1. /\ obj' = [obj EXCEPT ![t] = slot]
        /\ \E l \in {"unregister", "retire"} : pc' = [pc EXCEPT ![t] = l]
    BY <1>2 DEF Claim, Goto
  <2>2. TypeOK /\ TypeOK'
    BY <1>1, <1>2, <2>1 DEF SlotInv, TypeOK, Handler
  <2>3. /\ pc'[t] \in Holding \ Making /\ obj'[t] = slot /\ pc'[t] \notin {"check", "parked", "free", "claim"}
        /\ \A u \in Threads : u # t => pc'[u] = pc[u] /\ obj'[u] = obj[u]
    BY <2>1, <2>2 DEF TypeOK, Holding, Making
  <2>4. Apart'
    BY <1>1, <1>2, <2>2, <2>3 DEF SlotInv, Apart, Holds, TypeOK
  <2>5. Kept'
    <3>1. \A u \in Threads, x \in Objs : Holds(u, x)' <=> Holds(u, x) \/ (u = t /\ x = slot)
      BY <1>1, <2>3 DEF Holds, Holding
    <3>2. \A x \in Objs : Accounted(x)' <=> Accounted(x)
      BY <1>1, <1>2, <3>1 DEF Accounted
    <3>3. QED
      BY <1>1, <3>2 DEF SlotInv, Kept
  <2>6. Windows'
    BY <1>1, <2>1, <2>2, WindowsStay DEF SlotInv, TypeOK, Inside, Making
  <2>7. Counts'
    BY <1>1, <2>3 DEF SlotInv, Counts
  <2>8. EarlyKept'
    BY <1>1, <2>2, <2>3 DEF SlotInv, EarlyKept, Apart, TypeOK, BusyChecked
  <2>9. QED
    BY <2>2, <2>4, <2>5, <2>6, <2>7, <2>8 DEF SlotInv
<1>3. CASE slot \notin Objs
  <2>1. obj' = obj /\ pc' = [pc EXCEPT ![t] = "idle"]
    BY <1>3 DEF Claim, Goto
  <2>2. TypeOK /\ TypeOK'
    BY <1>1, <2>1 DEF SlotInv, TypeOK, Handler
  <2>3. \A u \in Threads : /\ (pc'[u] \in Holding) = (pc[u] \in Holding)
                           /\ u # t => pc'[u] = pc[u]
                           /\ pc'[t] \notin {"check", "parked", "free", "claim"}
    BY <1>1, <2>1, <2>2 DEF TypeOK, Holding
  <2>4. Apart'
    BY <1>1, <2>1, <2>2, <2>3, ValuesAssumption DEF SlotInv, Apart, Holds, TypeOK
  <2>5. Kept'
    BY <1>1, <1>3, <2>1, <2>3 DEF SlotInv, Kept, Accounted, Holds
  <2>6. Windows'
    BY <1>1, <2>1, <2>2, WindowsStay DEF SlotInv, TypeOK, Inside, Making
  <2>7. Counts'
    BY <1>1, <2>1, <2>2 DEF SlotInv, Counts, TypeOK, Making
  <2>8. EarlyKept'
    <3>1. \A w \in Threads : pc[w] = "parked" => obj[w] \in Objs
      BY DEF SlotInv, Apart
    <3>2. QED
      BY <1>1, <2>1, <2>2, <2>3, <3>1 DEF SlotInv, EarlyKept, TypeOK, BusyChecked
  <2>9. QED
    BY <2>2, <2>4, <2>5, <2>6, <2>7, <2>8 DEF SlotInv
<1>4. QED
  BY <1>2, <1>3

LEMMA UnregisterKeeps ==
  ASSUME SlotInv, NEW t \in Threads, Unregister(t)
  PROVE  SlotInv'
<1>1. /\ pc[t] = "unregister" /\ waiters' = [waiters EXCEPT ![obj[t]] = 0]
      /\ pc' = [pc EXCEPT ![t] = "retire"]
      /\ UNCHANGED <<kind, slot, heap, quarantine, now, obj, since, reclaim, early,
                     lost, calls>>
  BY DEF Unregister, Goto
<1>2. TypeOK /\ TypeOK'
  BY <1>1 DEF SlotInv, TypeOK, Handler
<1>3. Apart' /\ Kept'
  BY <1>1, <1>2, AccountsStay DEF SlotInv, Apart, TypeOK, Holding
<1>4. Windows'
  BY <1>1, <1>2, WindowsStay DEF SlotInv, TypeOK, Inside, Making
<1>5. Counts'
  <2>1. obj[t] # slot /\ obj[t] \in Objs
    BY <1>1 DEF SlotInv, Apart, Holding
  <2>2. \A x \in Objs : Parked(x)' = Parked(x)
    BY <1>1, <1>2 DEF Parked, TypeOK
  <2>3. \A x \in Objs : waiters'[x] = IF x = obj[t] THEN 0 ELSE waiters[x]
    BY <1>1, <1>2 DEF TypeOK
  <2>4. \A u \in Threads : pc'[u] \in Making => pc[u] \in Making /\ obj[u] \in Objs
    BY <1>1, <1>2 DEF SlotInv, Apart, TypeOK, Making, Holding
  <2>5. QED
    BY <1>1, <2>1, <2>2, <2>3, <2>4 DEF SlotInv, Counts
<1>6. EarlyKept'
  BY <1>1, <1>2, EarlyStays DEF SlotInv, TypeOK
<1>7. QED
  BY <1>2, <1>3, <1>4, <1>5, <1>6 DEF SlotInv

\* A retirement puts one block into the quarantine and takes out what has been
\* there for the window.
LEMMA RetireKeeps ==
  ASSUME SlotInv, NEW t \in Threads, Retire(t)
  PROVE  SlotInv'
<1>1. PICK o, new, out :
        /\ o = obj[t] /\ new = [obj |-> o, at |-> now]
        /\ out = {q \in quarantine : Expired(q)} \cup (IF Window > 0 THEN {} ELSE {new})
        /\ pc[t] = "retire" /\ pc' = [pc EXCEPT ![t] = "free"]
        /\ quarantine' = (quarantine \cup {new}) \ out
        /\ reclaim' = [reclaim EXCEPT ![t] = {q.obj : q \in out}]
        /\ obj' = [obj EXCEPT ![t] = NoObj]
        /\ UNCHANGED <<kind, slot, heap, now, waiters, since, early, lost, calls>>
  BY DEF Retire, Goto
<1>2. /\ pc[t] \in Holding /\ o \in Objs /\ Holds(t, o) /\ o # slot /\ o \notin lost
      /\ reclaim[t] = {} /\ \A q \in quarantine : q.obj # o
      /\ \A u \in Threads : o \notin reclaim[u] /\ (u # t => ~Holds(u, o))
  BY <1>1 DEF SlotInv, Apart, Holding, Holds
<1>3. /\ new \in [obj : Objs, at : Nat] /\ new.obj = o /\ new.at = now
      /\ out \subseteq quarantine \cup {new} /\ quarantine \subseteq [obj : Objs, at : Nat]
      /\ \A q \in out : q.obj \in Objs /\ q.at \in Nat /\ q.at + Window <= now
  <2>1. new \in [obj : Objs, at : Nat] /\ new.obj = o /\ new.at = now /\ now \in Nat
        /\ quarantine \subseteq [obj : Objs, at : Nat]
    BY <1>1, <1>2 DEF SlotInv, TypeOK
  <2>2. Window = 0 \/ Window > 0
    BY BoundsAssumption
  <2>3. QED
    BY <1>1, <2>1, <2>2 DEF Expired
<1>4. TypeOK /\ TypeOK'
  <2>1. {q.obj : q \in out} \in SUBSET Objs
    BY <1>3
  <2>2. quarantine' \subseteq [obj : Objs, at : Nat]
    BY <1>1, <1>3
  <2>3. QED
    BY <1>1, <2>1, <2>2 DEF SlotInv, TypeOK, Handler
<1>5. /\ reclaim'[t] = {q.obj : q \in out} /\ pc'[t] = "free"
      /\ \A u \in Threads : u # t => pc'[u] = pc[u] /\ obj'[u] = obj[u] /\ reclaim'[u] = reclaim[u]
  BY <1>1, <1>4 DEF TypeOK
<1>6. \A u \in Threads, x \in Objs : Holds(u, x)' <=> Holds(u, x) /\ u # t
  BY <1>5 DEF Holds, Holding
<1>7. Apart'
  <2>1. IsFiniteSet(quarantine')
    <3>1. IsFiniteSet(quarantine \cup {new})
      BY FS_AddElement DEF SlotInv, Apart
    <3>2. QED
      BY <1>1, <3>1, FS_Subset
  <2>2. \A q, r \in quarantine \cup {new} : q.obj = r.obj => q = r
    BY <1>2, <1>3 DEF SlotInv, Apart
  <2>3. \A x \in reclaim'[t] : \E q \in out : x = q.obj
    BY <1>5
  <2>4. ASSUME NEW u \in Threads, pc'[u] \in Holding
        PROVE  /\ obj'[u] \in Objs /\ obj'[u] # slot' /\ obj'[u] \notin lost'
               /\ \A q \in quarantine' : q.obj # obj'[u]
               /\ \A v \in Threads : obj'[u] \notin reclaim'[v] /\ (v # u => ~Holds(v, obj[u])')
    <3>1. u # t /\ pc[u] \in Holding /\ obj'[u] = obj[u] /\ obj[u] # o
      BY <1>2, <1>5, <2>4 DEF Holding, Holds
    <3>2. /\ obj[u] \in Objs /\ obj[u] # slot /\ obj[u] \notin lost
          /\ \A q \in quarantine : q.obj # obj[u]
          /\ \A v \in Threads : obj[u] \notin reclaim[v] /\ (v # u => ~Holds(v, obj[u]))
      BY <3>1 DEF SlotInv, Apart
    <3>3. \A q \in quarantine \cup {new} : q.obj # obj[u]
      BY <1>3, <3>1, <3>2
    <3>4. \A v \in Threads : obj[u] \notin reclaim'[v]
      BY <1>3, <1>5, <2>3, <3>2, <3>3
    <3>5. \A v \in Threads : v # u => ~Holds(v, obj[u])'
      BY <1>6, <3>1, <3>2 DEF Holds
    <3>6. QED
      BY <1>1, <3>1, <3>2, <3>3, <3>4, <3>5
  <2>5. ASSUME NEW u \in Threads, NEW x \in reclaim'[u]
        PROVE  /\ x \notin lost' /\ x # slot'
               /\ \A q \in quarantine' : q.obj # x
               /\ \A v \in Threads \ {u} : x \notin reclaim'[v]
    <3>1. CASE u = t
      <4>1. PICK q \in out : x = q.obj
        BY <2>3, <2>5, <3>1
      <4>2. x \notin lost /\ x # slot /\ \A v \in Threads : x \notin reclaim[v]
        BY <1>2, <1>3, <4>1 DEF SlotInv, Apart
      <4>3. \A r \in quarantine' : r.obj # x
        BY <1>1, <1>3, <2>2, <4>1
      <4>4. QED
        BY <1>1, <1>5, <3>1, <4>2, <4>3
    <3>2. CASE u # t
      <4>1. x \in reclaim[u] /\ x # o
        BY <1>2, <1>5, <2>5, <3>2
      <4>2. /\ x \notin lost /\ x # slot /\ \A q \in quarantine : q.obj # x
            /\ \A v \in Threads \ {u} : x \notin reclaim[v]
        BY <4>1 DEF SlotInv, Apart
      <4>3. \A q \in quarantine \cup {new} : q.obj # x
        BY <1>3, <4>1, <4>2
      <4>4. QED
        BY <1>1, <1>3, <1>5, <2>3, <4>2, <4>3
    <3>3. QED
      BY <3>1, <3>2
  <2>6. \A u \in Threads : /\ pc'[u] = "check" => obj'[u] \in Objs
                           /\ pc'[u] = "parked" => obj'[u] \in Objs
                           /\ pc'[u] # "free" => reclaim'[u] = {}
    BY <1>5 DEF SlotInv, Apart
  <2>7. /\ slot' \notin lost' /\ \A q \in quarantine' : q.obj # slot' /\ q.obj \notin lost'
        /\ \A q, r \in quarantine' : q.obj = r.obj => q = r
    BY <1>1, <1>2, <1>3, <2>2 DEF SlotInv, Apart
  <2>8. QED
    BY <2>1, <2>4, <2>5, <2>6, <2>7 DEF Apart, Holds
<1>8. Kept'
  <2>1. ASSUME NEW x \in Objs PROVE Accounted(x)' <=> Accounted(x)
    <3>1. (\E q \in quarantine' : q.obj = x) \/ x \in reclaim'[t]
            <=> (\E q \in quarantine : q.obj = x) \/ x = o
      BY <1>1, <1>3, <1>5
    <3>2. \A u \in Threads : u # t => (x \in reclaim'[u] <=> x \in reclaim[u])
      BY <1>5
    <3>3. x \notin reclaim[t] /\ (Holds(t, x) <=> x = o)
      BY <1>1, <1>2 DEF Holds
    <3>4. QED
      BY <1>1, <1>6, <3>1, <3>2, <3>3 DEF Accounted
  <2>2. QED
    BY <1>1, <2>1 DEF SlotInv, Kept
<1>9. Windows'
  <2>1. ASSUME NEW u \in Threads, pc'[u] \in Inside, obj'[u] \in Objs
        PROVE  /\ since'[u] <= now' /\ heap'[obj'[u]] # "unused"
               /\ \A v \in Threads : ~(pc'[v] \in Making /\ obj'[v] = obj'[u])
               /\ \A q \in quarantine' : q.obj = obj'[u] => since'[u] <= q.at
               /\ \A v \in Threads : obj'[u] \in reclaim'[v] => since'[u] + Window <= now'
               /\ heap'[obj'[u]] = "freed" => since'[u] + Window <= now'
    <3>1. u # t /\ pc[u] \in Inside /\ obj'[u] = obj[u] /\ obj[u] \in Objs
      BY <1>5, <2>1 DEF Inside
    <3>2. /\ since[u] <= now /\ heap[obj[u]] # "unused" /\ since[u] \in Nat /\ now \in Nat
          /\ \A v \in Threads : ~(pc[v] \in Making /\ obj[v] = obj[u])
          /\ \A q \in quarantine : q.obj = obj[u] => since[u] <= q.at
          /\ \A v \in Threads : obj[u] \in reclaim[v] => since[u] + Window <= now
          /\ heap[obj[u]] = "freed" => since[u] + Window <= now
      BY <1>4, <3>1 DEF SlotInv, Windows, TypeOK
    <3>3. \A q \in quarantine \cup {new} : q.obj = obj[u] => since[u] <= q.at
      BY <1>3, <3>2
    <3>4. ASSUME NEW q \in out, q.obj = obj[u] PROVE since[u] + Window <= now
      BY <1>3, <3>2, <3>3, <3>4, BoundsAssumption
    <3>5. \A v \in Threads : obj[u] \in reclaim'[v] => since[u] + Window <= now
      BY <1>5, <3>2, <3>4
    <3>6. \A v \in Threads : ~(pc'[v] \in Making /\ obj'[v] = obj[u])
      BY <1>5, <3>2 DEF Making
    <3>7. QED
      BY <1>1, <3>1, <3>2, <3>3, <3>5, <3>6
  <2>2. QED
    BY <2>1 DEF Windows
<1>10. Counts'
  BY <1>1, <1>4, CountsStay DEF SlotInv, TypeOK, Making
<1>11. EarlyKept'
  BY <1>1, <1>4, EarlyStays DEF SlotInv, TypeOK
<1>12. QED
  BY <1>4, <1>7, <1>8, <1>9, <1>10, <1>11 DEF SlotInv

\* What a retirement took out is freed; nobody else has it in an account.
LEMMA FreeKeeps ==
  ASSUME SlotInv, NEW t \in Threads, Free(t)
  PROVE  SlotInv'
<1>1. /\ pc[t] = "free" /\ pc' = [pc EXCEPT ![t] = "idle"]
      /\ heap' = [o \in Objs |-> IF o \in reclaim[t] THEN "freed" ELSE heap[o]]
      /\ reclaim' = [reclaim EXCEPT ![t] = {}]
      /\ UNCHANGED <<kind, slot, quarantine, now, waiters, obj, since, early, lost, calls>>
  BY DEF Free, Goto
<1>2. TypeOK /\ TypeOK'
  BY <1>1 DEF SlotInv, TypeOK, Handler
<1>3. /\ pc'[t] = "idle" /\ reclaim'[t] = {}
      /\ \A u \in Threads : u # t => pc'[u] = pc[u] /\ reclaim'[u] = reclaim[u]
      /\ \A u \in Threads : /\ (pc'[u] \in Holding) = (pc[u] \in Holding)
                            /\ (pc'[u] \in Making) = (pc[u] \in Making)
                            /\ (pc'[u] \in Inside) = (pc[u] \in Inside)
  BY <1>1, <1>2 DEF TypeOK, Holding, Making, Inside
<1>4. \A u \in Threads, x \in Objs : Holds(u, x)' = Holds(u, x)
  BY <1>1, <1>3 DEF Holds
<1>5. Apart'
  BY <1>1, <1>3, <1>4 DEF SlotInv, Apart, Holds
<1>6. Kept'
  <2>1. ASSUME NEW x \in Objs, x \in reclaim[t] PROVE ~Accounted(x)'
    BY <1>1, <1>3, <1>4, <2>1 DEF SlotInv, Apart, Accounted, Holds
  <2>2. ASSUME NEW x \in Objs, x \notin reclaim[t] PROVE Accounted(x)' <=> Accounted(x)
    BY <1>1, <1>3, <1>4, <2>2 DEF Accounted
  <2>3. QED
    BY <1>1, <2>1, <2>2 DEF SlotInv, Kept
<1>7. Windows'
  BY <1>1, <1>2, <1>3 DEF SlotInv, Windows, TypeOK
<1>8. Counts'
  <2>1. \A x \in Objs : Parked(x)' = Parked(x)
    BY <1>1, <1>2 DEF Parked, TypeOK
  <2>2. QED
    BY <1>1, <1>3, <2>1 DEF SlotInv, Counts
<1>9. EarlyKept'
  BY <1>1, <1>2, EarlyStays DEF SlotInv, TypeOK
<1>10. QED
  BY <1>2, <1>5, <1>6, <1>7, <1>8, <1>9 DEF SlotInv

-----------------------------------------------------------------------------
LEMMA ThreadKeeps ==
  ASSUME SlotInv, NEW t \in Threads, CallInit(t) \/ InitStore(t) \/ Use(t) \/ Destroy(t)
  PROVE  SlotInv'
<1>1. CASE CallInit(t)
  BY <1>1, MakeKeeps DEF CallInit, Making
<1>2. CASE InitStore(t)
  BY <1>2, PublishKeeps DEF InitStore, Goto, Making
<1>3. CASE UseStatic(t)
  BY <1>3, MakeKeeps DEF UseStatic, Making
<1>4. CASE UseCas(t)
  <2>1. CASE slot = Static
    <3>1. slot \notin Objs
      BY <2>1, ValuesAssumption
    <3>2. QED
      BY <1>4, <2>1, <3>1, PublishKeeps DEF UseCas, Goto, Making
  <2>2. QED
    BY <1>4, <2>1, LoseKeeps
<1>5. CASE UseRefused(t) \/ UseResolved(t) \/ Park(t) \/ Leave(t)
  BY <1>5, UseRefusedKeeps, UseResolvedKeeps, ParkKeeps, LeaveKeeps
<1>6. CASE Destroy(t)
  BY <1>6, CallDestroyKeeps, PeekKeeps, CheckKeeps, ClaimKeeps, UnregisterKeeps,
     RetireKeeps, FreeKeeps DEF Destroy
<1>7. QED
  BY <1>1, <1>2, <1>3, <1>4, <1>5, <1>6 DEF Use

LEMMA StepKeeps == SlotInv /\ [Next]_vars => SlotInv'
<1>1. SUFFICES ASSUME SlotInv, [Next]_vars PROVE SlotInv'
  OBVIOUS
<1>2. ASSUME UNCHANGED vars PROVE SlotInv'
  BY <1>1, <1>2 DEF vars, SlotInv, TypeOK, Apart, Kept, Accounted, Holds, Windows, Counts,
                    Parked, EarlyKept, BusyChecked
<1>3. QED
  BY <1>1, <1>2, ThreadKeeps, TickKeeps DEF Next

\* The invariant.
THEOREM SlotInvHolds == Spec => []SlotInv
<1>1. QED
  BY InitHolds, StepKeeps, PTL DEF Spec

\* Every variable has its type.
THEOREM SlotTypeCorrect == Spec => []TypeOK
<1>1. SlotInv => TypeOK
  BY DEF SlotInv
<1>2. QED
  BY <1>1, SlotInvHolds, PTL

\* A block is answered for once: racing destroys never retire one object twice
\* (pt_claim_slot, retire_sync_object).
THEOREM BlocksAnsweredForOnce == Spec => []AnsweredForOnce
<1>1. ASSUME SlotInv PROVE AnsweredForOnce
  <2>1. Apart /\ TypeOK
    BY <1>1 DEF SlotInv
  <2>2. Cardinality(quarantine) = Cardinality(Quarantined)
    <3> DEFINE f == [q \in quarantine |-> q.obj]
    <3>1. f \in Surjection(quarantine, Quarantined)
      BY DEF Surjection, Quarantined
    <3>2. f \in Injection(quarantine, Quarantined)
      <4>1. f \in [quarantine -> Quarantined]
        BY DEF Quarantined
      <4>2. \A q, r \in quarantine : f[q] = f[r] => q = r
        BY <2>1 DEF Apart
      <4>3. QED
        BY <4>1, <4>2 DEF Injection, IsInjective
    <3>3. QED
      BY <2>1, <3>1, <3>2, FS_Surjection DEF Apart
  <2>3. InSlot \cap Quarantined = {}
    BY <2>1 DEF Apart, InSlot, Quarantined
  <2>4. ASSUME NEW t \in Threads
        PROVE  /\ InSlot \cap (PrivateTo(t) \cup reclaim[t]) = {}
               /\ (PrivateTo(t) \cup reclaim[t]) \cap Quarantined = {}
               /\ PrivateTo(t) \cap reclaim[t] = {}
    BY <2>1 DEF Apart, InSlot, Quarantined, PrivateTo, Holding
  <2>5. ASSUME NEW t \in Threads, NEW u \in Threads \ {t}
        PROVE  (PrivateTo(t) \cup reclaim[t]) \cap (PrivateTo(u) \cup reclaim[u]) = {}
    BY <2>1 DEF Apart, PrivateTo, Holding, Holds
  <2>6. QED
    BY <2>2, <2>3, <2>4, <2>5 DEF AnsweredForOnce
<1>2. QED
  BY <1>1, SlotInvHolds, PTL

\* The live blocks are those in somebody's account: nothing is freed early and
\* nothing leaks but what a second Init overwrites.
THEOREM NoBlockIsLost == Spec => []NoBlockLost
<1>1. ASSUME SlotInv PROVE NoBlockLost
  BY <1>1 DEF SlotInv, Kept, Accounted, Holds, Holding, NoBlockLost, InSlot, Quarantined, PrivateTo
<1>2. QED
  BY <1>1, SlotInvHolds, PTL

\* A pointer that a handler has in hand names a live object for the window
\* after it was resolved (PROSPER_SYNC_RETIRE_SECONDS).
THEOREM WindowHolds == Spec => []LiveWithinWindow
<1>1. ASSUME SlotInv PROVE LiveWithinWindow
  <2>1. ASSUME NEW t \in Threads, pc[t] \in {"inside", "parked"}, obj[t] \in Objs,
               now < since[t] + Window
        PROVE  heap[obj[t]] = "live"
    <3>1. heap[obj[t]] \in {"unused", "live", "freed"} /\ now \in Nat /\ since[t] \in Nat
      BY <1>1, <2>1 DEF SlotInv, TypeOK
    <3>2. heap[obj[t]] # "unused" /\ (heap[obj[t]] = "freed" => since[t] + Window <= now)
      BY <1>1, <2>1 DEF SlotInv, Windows, Inside
    <3>3. QED
      BY <2>1, <3>1, <3>2, BoundsAssumption
  <2>2. QED
    BY <2>1 DEF LiveWithinWindow
<1>2. QED
  BY <1>1, SlotInvHolds, PTL

\* A destroy that begins while a thread is parked does not claim the object
\* under it (the busy checks of condvar and barrier).
THEOREM EarlyWaitersAreKept == Spec => []EarlyWaitersKept
<1>1. ASSUME SlotInv PROVE EarlyWaitersKept
  BY <1>1 DEF SlotInv, EarlyKept, EarlyWaitersKept, Parked, TypeOK
<1>2. QED
  BY <1>1, SlotInvHolds, PTL

\* A destroyed slot comes back only by an explicit Init.
THEOREM OnlyInitRevivesSlot == Spec => OnlyInitRevives
<1>1. ASSUME TypeOK, [Next]_vars, slot = Destroyed, slot' # Destroyed
      PROVE  \E t \in Threads : pc[t] = "initStore" /\ pc'[t] = "idle"
  <2>1. ASSUME NEW t \in Threads, InitStore(t) PROVE pc[t] = "initStore" /\ pc'[t] = "idle"
    BY <1>1, <2>1 DEF InitStore, Goto, TypeOK
  <2>2. ASSUME NEW t \in Threads, CallInit(t) PROVE FALSE
    BY <1>1, <2>2 DEF CallInit
  <2>3. ASSUME NEW t \in Threads, Use(t) PROVE FALSE
    BY <1>1, <2>3, ValuesAssumption
       DEF Use, UseRefused, UseResolved, UseStatic, UseCas, Park, Leave
  <2>4. ASSUME NEW t \in Threads, Destroy(t) PROVE FALSE
    BY <1>1, <2>4 DEF Destroy, CallDestroy, Peek, Check, Claim, Unregister, Retire, Free
  <2>5. QED
    BY <1>1, <2>1, <2>2, <2>3, <2>4 DEF Next, Tick, vars
<1>2. TypeOK /\ [Next]_vars =>
        [slot = Destroyed /\ slot' # Destroyed =>
           \E t \in Threads : pc[t] = "initStore" /\ pc'[t] = "idle"]_vars
  BY <1>1
<1>3. QED
  BY <1>2, SlotTypeCorrect, PTL DEF Spec, OnlyInitRevives
=============================================================================
