---------------------------- MODULE RwLockProofs ----------------------------
(***************************************************************************)
(* Safety of the guest reader/writer lock for every set of threads and     *)
(* every number of calls.  The argument is LockInv, the inductive          *)
(* invariant stated in RwLock: what the word and the owner say wherever    *)
(* the writer of the host lock can be, and what the word counts when the   *)
(* host lock has none.                                                     *)
(***************************************************************************)
EXTENDS RwLock, FiniteSetTheorems, TLAPS

\* A thread that is between the word and the host lock.
Between == {"rdCount", "wrOwner", "wrLoad", "wrCas", "relClear", "relHost"}

\* Uncounted is a finite set, so its cardinality is a number.
LEMMA UncountedFinite == IsFiniteSet(Uncounted) /\ Cardinality(Uncounted) \in Nat
<1>1. Uncounted \in SUBSET Threads
  BY DEF Uncounted
<1>2. IsFiniteSet(Uncounted)
  BY <1>1, FS_Subset, ThreadsAssumption
<1>3. QED
  BY <1>2, FS_CardinalityType

\* A thread that moves to such a place joins Uncounted; one that moves away
\* leaves it; a move that does neither leaves the count alone.
LEMMA UncountedMove ==
  ASSUME pc \in [Threads -> Handler],
         NEW t \in Threads, NEW label \in Handler, Goto(t, label)
  PROVE  /\ label \in Between => Uncounted' = Uncounted \cup {t}
         /\ label \notin Between => Uncounted' = Uncounted \ {t}
         /\ pc[t] \in Between <=> t \in Uncounted
         /\ pc' \in [Threads -> Handler]
  BY DEF Goto, Between, Uncounted, Handler

LEMMA UncountedCount ==
  ASSUME pc \in [Threads -> Handler],
         NEW t \in Threads, NEW label \in Handler, Goto(t, label)
  PROVE  /\ Cardinality(Uncounted') \in Nat
         /\ pc[t] \in Between /\ label \in Between =>
              Cardinality(Uncounted') = Cardinality(Uncounted)
         /\ pc[t] \notin Between /\ label \notin Between =>
              Cardinality(Uncounted') = Cardinality(Uncounted)
         /\ pc[t] \notin Between /\ label \in Between =>
              Cardinality(Uncounted') = Cardinality(Uncounted) + 1
         /\ pc[t] \in Between /\ label \notin Between =>
              Cardinality(Uncounted') = Cardinality(Uncounted) - 1
<1>1. IsFiniteSet(Uncounted) /\ Cardinality(Uncounted) \in Nat
  BY UncountedFinite
<1>2. /\ label \in Between => Uncounted' = Uncounted \cup {t}
      /\ label \notin Between => Uncounted' = Uncounted \ {t}
      /\ pc[t] \in Between <=> t \in Uncounted
  BY UncountedMove
<1>3. CASE label \in Between
  <2>1. /\ IsFiniteSet(Uncounted \cup {t})
        /\ Cardinality(Uncounted \cup {t}) =
             IF t \in Uncounted THEN Cardinality(Uncounted) ELSE Cardinality(Uncounted) + 1
    BY <1>1, FS_AddElement
  <2>2. Uncounted' = Uncounted \cup {t}
    BY <1>2, <1>3
  <2>3. Cardinality(Uncounted') =
          IF pc[t] \in Between THEN Cardinality(Uncounted) ELSE Cardinality(Uncounted) + 1
    BY <1>2, <2>1, <2>2
  <2>4. QED
    BY <1>1, <1>3, <2>3
<1>4. CASE label \notin Between
  <2>1. /\ IsFiniteSet(Uncounted \ {t})
        /\ Cardinality(Uncounted \ {t}) =
             IF t \in Uncounted THEN Cardinality(Uncounted) - 1 ELSE Cardinality(Uncounted)
    BY <1>1, FS_RemoveElement
  <2>2. Cardinality(Uncounted \ {t}) \in Nat
    BY <2>1, FS_CardinalityType
  <2>3. Uncounted' = Uncounted \ {t}
    BY <1>2, <1>4
  <2>4. Cardinality(Uncounted') =
          IF pc[t] \in Between THEN Cardinality(Uncounted) - 1 ELSE Cardinality(Uncounted)
    BY <1>2, <2>1, <2>3
  <2>5. Cardinality(Uncounted') \in Nat
    BY <2>2, <2>3
  <2>6. QED
    BY <1>1, <1>4, <2>4, <2>5
<1>5. QED
  BY <1>3, <1>4

\* Initially nobody is inside a handler and nothing is held.
LEMMA LockInvInit == Init => LockInv
<1> SUFFICES ASSUME Init PROVE LockInv
  OBVIOUS
<1>1. Uncounted = {}
  BY DEF Init, Uncounted
<1>2. Cardinality(Uncounted) = 0
  BY <1>1, FS_EmptySet
<1>3. TypeOK
  BY MaxCallsAssumption DEF Init, TypeOK, Word, Unheld, Handler
<1>4. ReadersCounted
  BY <1>2 DEF Init, ReadersCounted, Unheld
<1>5. LocalCopies /\ WriterAlone /\ WriterRecord /\ WritePathOwned
  BY ThreadsAssumption DEF Init, LocalCopies, WriterAlone, WriterRecord, WritePathOwned
<1>6. QED
  BY <1>3, <1>4, <1>5 DEF LockInv

\* Typing.  The one decrement without a guard of its own, in RelReadCas, is
\* of a copy that rw_release saw positive.
LEMMA TypePreserved == TypeOK /\ LocalCopies /\ [Next]_vars => TypeOK'
<1> SUFFICES ASSUME TypeOK, LocalCopies, [Next]_vars PROVE TypeOK'
  OBVIOUS
<1> USE DEF TypeOK, hostVars, guestVars
<1>1. ASSUME NEW t \in Threads, NEW label \in Handler, Goto(t, label)
      PROVE  pc' \in [Threads -> Handler]
  BY <1>1 DEF Goto
<1>2. /\ {"idle", "rdHost", "rdCount", "wrHost", "wrOwner", "wrLoad"} \subseteq Handler
      /\ {"wrCas", "relLoad", "relOwner", "relWriteCas"} \subseteq Handler
      /\ {"relReadCas", "relClear", "relHost"} \subseteq Handler
  BY DEF Handler
<1>3. /\ state.count \in Nat /\ state.write \in BOOLEAN
      /\ \A t \in Threads : seen[t].count \in Nat /\ seen[t] \in Word
  BY DEF Word
<1>4. \A b \in BOOLEAN, n \in Nat : [write |-> b, count |-> n] \in Word
  BY DEF Word
<1>5. ASSUME NEW t \in Threads, NEW label \in {"rdHost", "wrHost", "relLoad"},
             NEW waits \in BOOLEAN, Call(t, label, waits)
      PROVE  TypeOK'
  BY <1>1, <1>2, <1>5 DEF Call
<1>6. ASSUME NEW t \in Threads, CallRdlock(t) \/ CallWrlock(t) \/ CallUnlock(t)
      PROVE  TypeOK'
  BY <1>5, <1>6 DEF CallRdlock, CallWrlock, CallUnlock
<1>7. ASSUME NEW t \in Threads, RdGranted(t) PROVE TypeOK'
  BY <1>1, <1>2, <1>7 DEF RdGranted
<1>8. ASSUME NEW t \in Threads, RdCounted(t) PROVE TypeOK'
  <2>1. state' = [write |-> state.write, count |-> state.count + 1]
    BY <1>8 DEF RdCounted, Word
  <2>2. state' \in Word
    BY <1>3, <1>4, <2>1
  <2>3. QED
    BY <1>1, <1>2, <1>8, <2>2 DEF RdCounted
<1>9. ASSUME NEW t \in Threads, WrGranted(t) \/ WrOwner(t) PROVE TypeOK'
  BY <1>1, <1>2, <1>9 DEF WrGranted, WrOwner
<1>10. ASSUME NEW t \in Threads, WrLoad(t) PROVE TypeOK'
  BY <1>1, <1>2, <1>10 DEF WrLoad
<1>11. ASSUME NEW t \in Threads, Refused(t) PROVE TypeOK'
  <2>1. pc' \in [Threads -> Handler]
    BY <1>1, <1>2, <1>11 DEF Refused
  <2>2. QED
    BY <1>11, <2>1 DEF Refused
<1>12. ASSUME NEW t \in Threads, WrCas(t) PROVE TypeOK'
  <2>1. CASE state = seen[t]
    <3>1. state' = [write |-> TRUE, count |-> seen[t].count + 1]
      BY <1>12, <2>1 DEF WrCas
    <3>2. seen[t].count + 1 \in Nat
      BY <1>3
    <3>3. state' \in Word
      BY <3>1, <3>2 DEF Word
    <3>4. QED
      BY <1>1, <1>2, <1>12, <2>1, <3>3 DEF WrCas
  <2>2. CASE state # seen[t]
    BY <1>12, <2>2 DEF WrCas
  <2>3. QED
    BY <2>1, <2>2
<1>13. ASSUME NEW t \in Threads, BookUnlock(t)
       PROVE  reads' \in [Threads -> Nat] /\ wrote' \in [Threads -> BOOLEAN]
  <2>1. CASE wrote[t]
    BY <1>13, <2>1 DEF BookUnlock
  <2>2. CASE ~wrote[t]
    <3>1. (IF reads[t] > 0 THEN reads[t] - 1 ELSE 0) \in Nat
      OBVIOUS
    <3>2. QED
      BY <1>13, <2>2, <3>1 DEF BookUnlock
  <2>3. QED
    BY <2>1, <2>2
<1>14. ASSUME NEW t \in Threads, UnlockRefused(t)
       PROVE  /\ reads' \in [Threads -> Nat] /\ wrote' \in [Threads -> BOOLEAN]
              /\ robbed' \in Nat /\ spurious' \in Nat
              /\ pc' \in [Threads -> Handler]
  BY <1>1, <1>2, <1>13, <1>14 DEF UnlockRefused
<1>15. ASSUME NEW t \in Threads, Decide(t)
       PROVE  /\ reads' \in [Threads -> Nat] /\ wrote' \in [Threads -> BOOLEAN]
              /\ robbed' \in Nat /\ spurious' \in Nat
              /\ pc' \in [Threads -> Handler]
  <2>1. CASE Goto(t, "relOwner") /\ UNCHANGED guestVars
    BY <1>1, <1>2, <2>1
  <2>2. CASE UnlockRefused(t)
    BY <1>14, <2>2
  <2>3. CASE Goto(t, "relReadCas") /\ UNCHANGED guestVars
    BY <1>1, <1>2, <2>3
  <2>4. QED
    BY <1>15, <2>1, <2>2, <2>3 DEF Decide
<1>16. ASSUME NEW t \in Threads, RelLoad(t) PROVE TypeOK'
  BY <1>15, <1>16 DEF RelLoad
<1>17. ASSUME NEW t \in Threads, RelOwner(t) PROVE TypeOK'
  BY <1>1, <1>2, <1>14, <1>17 DEF RelOwner
<1>18. ASSUME NEW t \in Threads, RelWriteCas(t) PROVE TypeOK'
  <2>1. CASE state = seen[t]
    <3>1. Decremented(seen[t].count) \in Nat
      BY <1>3 DEF Decremented
    <3>2. state' \in Word
      BY <1>4, <1>18, <2>1, <3>1 DEF RelWriteCas
    <3>3. QED
      BY <1>1, <1>2, <1>18, <2>1, <3>2 DEF RelWriteCas
  <2>2. CASE state # seen[t]
    BY <1>15, <1>18, <2>2 DEF RelWriteCas
  <2>3. QED
    BY <2>1, <2>2
<1>19. ASSUME NEW t \in Threads, RelReadCas(t) PROVE TypeOK'
  <2>1. CASE state = seen[t]
    <3>1. state' = [write |-> state.write, count |-> state.count - 1]
      BY <1>19, <2>1 DEF RelReadCas, Word
    <3>2. state.count - 1 \in Nat
      BY <1>3, <1>19, <2>1 DEF RelReadCas, LocalCopies
    <3>3. state' \in Word
      BY <1>3, <1>4, <3>1, <3>2
    <3>4. QED
      BY <1>1, <1>2, <1>19, <2>1, <3>3 DEF RelReadCas
  <2>2. CASE state # seen[t]
    BY <1>15, <1>19, <2>2 DEF RelReadCas
  <2>3. QED
    BY <2>1, <2>2
<1>20. ASSUME NEW t \in Threads, RelClear(t) PROVE TypeOK'
  BY <1>1, <1>2, <1>20 DEF RelClear
<1>21. ASSUME NEW t \in Threads, RelHost(t) PROVE TypeOK'
  BY <1>1, <1>2, <1>13, <1>21 DEF RelHost, HostUnlock
<1>22. ASSUME NEW t \in Threads, NEW u \in Threads, FiberMoves(t, u) PROVE TypeOK'
  BY <1>22 DEF FiberMoves
<1>23. CASE UNCHANGED vars
  BY <1>23 DEF vars
<1>24. QED
  BY <1>6, <1>7, <1>8, <1>9, <1>10, <1>11, <1>12, <1>16, <1>17, <1>18, <1>19,
     <1>20, <1>21, <1>22, <1>23 DEF Next, Acquire, Release

\* Once rw_release goes for the reader's decrement, its copy is of a word with
\* readers and no writer.
LEMMA LocalCopiesPreserved == LockInv /\ [Next]_vars => LocalCopies'
<1> SUFFICES ASSUME LockInv, [Next]_vars PROVE LocalCopies'
  OBVIOUS
<1> USE DEF LockInv, TypeOK, LocalCopies, Goto
<1>1. ASSUME NEW t \in Threads, NEW label \in Handler \ {"relReadCas"},
             Goto(t, label), UNCHANGED seen
      PROVE  LocalCopies'
  BY <1>1
<1>2. ASSUME NEW t \in Threads, Decide(t), seen' = [seen EXCEPT ![t] = state]
      PROVE  LocalCopies'
  BY <1>2 DEF Decide, UnlockRefused
<1>3. ASSUME NEW t \in Threads, CallRdlock(t) \/ CallWrlock(t) \/ CallUnlock(t)
      PROVE  LocalCopies'
  BY <1>3 DEF CallRdlock, CallWrlock, CallUnlock, Call
<1>4. ASSUME NEW t \in Threads, Acquire(t) PROVE LocalCopies'
  BY <1>4 DEF Acquire, RdGranted, RdCounted, WrGranted, WrOwner, WrLoad, WrCas, Refused
<1>5. ASSUME NEW t \in Threads, Release(t) PROVE LocalCopies'
  <2>1. CASE RelLoad(t)
    BY <1>2, <2>1 DEF RelLoad
  <2>2. CASE RelOwner(t)
    BY <2>2 DEF RelOwner, UnlockRefused
  <2>3. CASE RelWriteCas(t) \/ RelReadCas(t)
    <3>1. CASE state = seen[t]
      BY <2>3, <3>1 DEF RelWriteCas, RelReadCas
    <3>2. CASE state # seen[t]
      BY <1>2, <2>3, <3>2 DEF RelWriteCas, RelReadCas
    <3>3. QED
      BY <3>1, <3>2
  <2>4. CASE RelClear(t) \/ RelHost(t)
    BY <2>4 DEF RelClear, RelHost
  <2>5. QED
    BY <1>5, <2>1, <2>2, <2>3, <2>4 DEF Release
<1>6. ASSUME NEW t \in Threads, NEW u \in Threads, FiberMoves(t, u) PROVE LocalCopies'
  BY <1>6 DEF FiberMoves
<1>7. CASE UNCHANGED vars
  BY <1>7 DEF vars
<1>8. QED
  BY <1>3, <1>4, <1>5, <1>6, <1>7 DEF Next

\* The part of LockInv about the lock itself.
Shared == ReadersCounted /\ WriterAlone /\ WriterRecord /\ WritePathOwned

\* A move between two places of a handler that hold the same share of the
\* lock, touching neither word, owner nor host lock, preserves Shared.
LEMMA QuietMove ==
  ASSUME LockInv, NEW t \in Threads,
         NEW label \in {"idle", "rdHost", "wrHost", "relLoad", "relOwner"},
         pc[t] \in {"idle", "rdHost", "wrHost", "relLoad", "relOwner",
                    "relWriteCas", "relReadCas"},
         Goto(t, label),
         UNCHANGED <<state, owner, hostReaders, hostWriter, wrote>>
  PROVE  Shared'
<1>1. label \in Handler /\ pc \in [Threads -> Handler]
  BY DEF LockInv, TypeOK, Handler
<1>2. Uncounted' = Uncounted
  <2>1. pc[t] \notin Between /\ label \notin Between
    BY DEF Between
  <2>2. QED
    BY <1>1, <2>1, UncountedMove
<1>3. ReadersCounted' /\ WriterAlone'
  BY <1>2 DEF LockInv, ReadersCounted, WriterAlone
<1>4. WriterRecord'
  BY <1>1, <1>2 DEF LockInv, WriterRecord, Goto, Uncounted
<1>5. WritePathOwned'
  BY <1>1 DEF LockInv, WritePathOwned, Goto
<1>6. QED
  BY <1>3, <1>4, <1>5 DEF Shared

\* A refused unlock: the write hold a guest was granted is never refused, so
\* the book that changes is of a reader or of nobody.
LEMMA RefusalQuiet ==
  ASSUME LockInv, NEW t \in Threads, UnlockRefused(t),
         pc[t] \in {"relLoad", "relOwner", "relWriteCas", "relReadCas"},
         ~wrote[t],
         UNCHANGED <<state, owner, hostReaders, hostWriter>>
  PROVE  Shared'
<1>1. UNCHANGED wrote
  BY DEF UnlockRefused, BookUnlock
<1>2. Goto(t, "idle")
  BY DEF UnlockRefused
<1>3. QED
  BY <1>1, <1>2, QuietMove

\* The writer's thread finds its own record in the word.
LEMMA WriterReads ==
  ASSUME LockInv, NEW t \in Threads, wrote[t],
         pc[t] \in {"relLoad", "relOwner", "relWriteCas", "relReadCas"}
  PROVE  state = [write |-> TRUE, count |-> 1] /\ owner = t
<1>1. hostWriter = t
  BY DEF LockInv, WritePathOwned
<1>2. t \notin Uncounted
  BY DEF Uncounted
<1>3. QED
  BY <1>1, <1>2 DEF LockInv, WriterRecord

\* Whatever rw_release decides on the word it has in hand, the lock itself is
\* as it was.
LEMMA DecideShared ==
  ASSUME LockInv, NEW t \in Threads, Decide(t),
         pc[t] \in {"relLoad", "relWriteCas", "relReadCas"},
         UNCHANGED <<state, owner, hostReaders, hostWriter>>
  PROVE  Shared'
<1>1. CASE state.write
  BY <1>1, QuietMove DEF Decide, guestVars
<1>2. CASE ~state.write /\ state.count = 0
  <2>1. UnlockRefused(t)
    BY <1>2 DEF Decide
  <2>2. ~wrote[t]
    BY <1>2, WriterReads
  <2>3. QED
    BY <2>1, <2>2, RefusalQuiet
<1>3. CASE ~state.write /\ state.count > 0
  <2>1. Goto(t, "relReadCas") /\ UNCHANGED wrote
    BY <1>3 DEF Decide, guestVars
  <2>2. pc \in [Threads -> Handler] /\ "relReadCas" \in Handler
    BY DEF LockInv, TypeOK, Handler
  <2>3. Uncounted' = Uncounted
    <3>1. "relReadCas" \notin Between /\ pc[t] \notin Between
      BY DEF Between
    <3>2. QED
      BY <2>1, <2>2, <3>1, UncountedMove
  <2>4. hostWriter # t
    BY <1>3 DEF LockInv, WriterRecord, Uncounted
  <2>5. ReadersCounted' /\ WriterAlone'
    BY <2>3 DEF LockInv, ReadersCounted, WriterAlone
  <2>6. WriterRecord'
    BY <2>1, <2>2, <2>3, <2>4 DEF LockInv, WriterRecord, Goto
  <2>7. WritePathOwned'
    BY <2>1, <2>2 DEF LockInv, WritePathOwned, Goto
  <2>8. QED
    BY <2>5, <2>6, <2>7 DEF Shared
<1>4. QED
  BY <1>1, <1>2, <1>3 DEF Decide

\* The host grants a read hold: one more reader, one more thread to count.
LEMMA RdGrantedShared == ASSUME LockInv, NEW t \in Threads, RdGranted(t) PROVE Shared'
<1> USE DEF RdGranted
<1>1. pc \in [Threads -> Handler] /\ "rdCount" \in Handler /\ hostReaders \in Int
      /\ state.count \in Nat
  BY DEF LockInv, TypeOK, Handler, Word
<1>2. hostWriter = NoThread
  BY DEF HostReadable
<1>3. Cardinality(Uncounted') = Cardinality(Uncounted) + 1 /\ Cardinality(Uncounted) \in Nat
  <2>1. pc[t] \notin Between /\ "rdCount" \in Between
    BY DEF Between
  <2>2. QED
    BY <1>1, <2>1, UncountedCount, UncountedFinite
<1>4. ReadersCounted'
  BY <1>1, <1>2, <1>3 DEF LockInv, ReadersCounted
<1>5. WriterAlone' /\ WriterRecord'
  BY <1>2, ThreadsAssumption DEF WriterAlone, WriterRecord
<1>6. WritePathOwned'
  BY <1>1 DEF LockInv, WritePathOwned, Goto, guestVars
<1>7. QED
  BY <1>4, <1>5, <1>6 DEF Shared

\* rw_acquired(g, false) counts a hold the host granted; while the host lock
\* has a writer no thread is at that step.
LEMMA RdCountedShared == ASSUME LockInv, NEW t \in Threads, RdCounted(t) PROVE Shared'
<1> USE DEF RdCounted
<1>1. pc \in [Threads -> Handler] /\ "idle" \in Handler /\ state.count \in Nat
  BY DEF LockInv, TypeOK, Handler, Word
<1>2. hostWriter = NoThread
  BY DEF LockInv, TypeOK, WriterAlone, WriterRecord, Uncounted
<1>3. Cardinality(Uncounted') = Cardinality(Uncounted) - 1 /\ Cardinality(Uncounted) \in Nat
  <2>1. pc[t] \in Between /\ "idle" \notin Between
    BY DEF Between
  <2>2. QED
    BY <1>1, <2>1, UncountedCount, UncountedFinite
<1>4. state'.write = state.write /\ state'.count = state.count + 1
  BY DEF LockInv, TypeOK, Word
<1>5. ReadersCounted'
  BY <1>1, <1>2, <1>3, <1>4 DEF LockInv, TypeOK, ReadersCounted, hostVars
<1>6. WriterAlone' /\ WriterRecord'
  BY <1>2, ThreadsAssumption DEF WriterAlone, WriterRecord, hostVars
<1>7. WritePathOwned'
  BY <1>1 DEF LockInv, WritePathOwned, Goto, hostVars
<1>8. QED
  BY <1>5, <1>6, <1>7 DEF Shared

\* The host grants a write hold: it does so only when the count is empty.
LEMMA WrGrantedShared == ASSUME LockInv, NEW t \in Threads, WrGranted(t) PROVE Shared'
<1> USE DEF WrGranted
<1>1. pc \in [Threads -> Handler] /\ "wrOwner" \in Handler /\ state \in Word
  BY DEF LockInv, TypeOK, Handler
<1>2. hostWriter = NoThread /\ hostReaders = 0
  BY DEF HostWritable
<1>3. state = Unheld /\ owner = NoThread /\ Uncounted = {}
  <2>1. IsFiniteSet(Uncounted) /\ Cardinality(Uncounted) \in Nat
    BY UncountedFinite
  <2>2. state.count = 0 /\ Cardinality(Uncounted) = 0 /\ ~state.write /\ owner = NoThread
    BY <1>1, <1>2, <2>1 DEF LockInv, ReadersCounted, Word
  <2>3. QED
    BY <1>1, <2>1, <2>2, FS_EmptySet DEF Word, Unheld
<1>4. Uncounted' = {t}
  <2>1. "wrOwner" \in Between
    BY DEF Between
  <2>2. QED
    BY <1>1, <1>3, <2>1, UncountedMove
<1>5. ReadersCounted' /\ WriterAlone'
  BY <1>2, <1>4, ThreadsAssumption DEF ReadersCounted, WriterAlone
<1>6. WriterRecord'
  <2>1. ~wrote[t] /\ UNCHANGED wrote
    BY <1>2, ThreadsAssumption DEF LockInv, WritePathOwned, guestVars
  <2>2. QED
    BY <1>1, <1>3, <1>4, <2>1, ThreadsAssumption DEF WriterRecord, Goto
<1>7. WritePathOwned'
  BY <1>1, <1>2, ThreadsAssumption DEF LockInv, WritePathOwned, Goto, guestVars
<1>8. QED
  BY <1>5, <1>6, <1>7 DEF Shared

\* A step of the writer between the host lock and the word, or back: the host
\* lock and the set of threads still to be counted are as they were.
LEMMA WriterStep ==
  ASSUME LockInv, NEW t \in Threads, WrOwner(t) \/ WrLoad(t) \/ RelClear(t)
  PROVE  Shared'
<1> USE DEF WrOwner, WrLoad, RelClear, hostVars, guestVars
<1>1. hostWriter = t
  BY DEF LockInv, WritePathOwned
<1>2. PICK label \in {"wrLoad", "wrCas", "relHost"} : Goto(t, label)
  OBVIOUS
<1>3. pc \in [Threads -> Handler] /\ label \in Handler
  BY DEF LockInv, TypeOK, Handler
<1>4. Uncounted' = Uncounted
  <2>1. pc[t] \in Between /\ label \in Between
    BY DEF Between
  <2>2. QED
    BY <1>2, <1>3, <2>1, UncountedMove
<1>5. ReadersCounted' /\ WriterAlone'
  BY <1>1, <1>4, ThreadsAssumption DEF LockInv, ReadersCounted, WriterAlone
<1>6. WriterRecord'
  BY <1>1, <1>3, <1>4 DEF LockInv, WriterRecord, Goto, Uncounted
<1>7. WritePathOwned'
  BY <1>1, <1>3 DEF LockInv, WritePathOwned, Goto
<1>8. QED
  BY <1>5, <1>6, <1>7 DEF Shared

\* rw_acquired(g, true) publishes WRITE|1 over an empty word.
LEMMA WrCasShared == ASSUME LockInv, NEW t \in Threads, WrCas(t) PROVE Shared'
<1> USE DEF WrCas, hostVars
<1>1. hostWriter = t /\ state = Unheld /\ owner = t
  BY DEF LockInv, WritePathOwned, WriterRecord
<1>2. CASE state = seen[t]
  <2>1. state' = [write |-> TRUE, count |-> 1]
    <3>1. seen[t].count = 0
      BY <1>1, <1>2 DEF Unheld
    <3>2. state' = [write |-> TRUE, count |-> seen[t].count + 1]
      BY <1>2
    <3>3. QED
      BY <3>1, <3>2
  <2>2. pc \in [Threads -> Handler] /\ "idle" \in Handler /\ Goto(t, "idle")
    BY <1>2 DEF LockInv, TypeOK, Handler
  <2>3. Uncounted' = Uncounted \ {t}
    <3>1. "idle" \notin Between
      BY DEF Between
    <3>2. QED
      BY <2>2, <3>1, UncountedMove
  <2>4. ReadersCounted' /\ WriterAlone'
    BY <1>1, <2>3, ThreadsAssumption DEF LockInv, ReadersCounted, WriterAlone
  <2>5. wrote'[t] /\ \A u \in Threads : u # t => wrote'[u] = wrote[u]
    BY <1>2 DEF LockInv, TypeOK
  <2>6. WriterRecord'
    BY <1>1, <2>1, <2>2, <2>5 DEF WriterRecord, Goto
  <2>7. WritePathOwned'
    BY <1>1, <2>2, <2>5 DEF LockInv, WritePathOwned, Goto
  <2>8. QED
    BY <2>4, <2>6, <2>7 DEF Shared
<1>3. CASE state # seen[t]
  <2>1. UNCHANGED <<pc, state, owner, hostReaders, hostWriter, wrote>>
    BY <1>3
  <2>2. QED
    BY <2>1 DEF LockInv, Shared, ReadersCounted, WriterAlone, WriterRecord,
                WritePathOwned, Uncounted
<1>4. QED
  BY <1>2, <1>3

\* The owner gives the hold back to the word: WRITE and the count go together.
LEMMA RelWriteCasShared == ASSUME LockInv, NEW t \in Threads, RelWriteCas(t) PROVE Shared'
<1> USE DEF RelWriteCas, hostVars
<1>1. CASE state = seen[t]
  <2>1. hostWriter = t /\ state = [write |-> TRUE, count |-> 1] /\ owner = t
    BY DEF LockInv, WritePathOwned, WriterRecord, Uncounted
  <2>2. state' = Unheld
    BY <1>1, <2>1 DEF Unheld, Decremented
  <2>3. /\ pc \in [Threads -> Handler] /\ "relClear" \in Handler
        /\ Goto(t, "relClear") /\ UNCHANGED wrote
    BY <1>1 DEF LockInv, TypeOK, Handler, guestVars
  <2>4. Uncounted' = Uncounted \cup {t}
    <3>1. "relClear" \in Between
      BY DEF Between
    <3>2. QED
      BY <2>3, <3>1, UncountedMove
  <2>5. ReadersCounted' /\ WriterAlone'
    BY <2>1, <2>4, ThreadsAssumption DEF LockInv, ReadersCounted, WriterAlone
  <2>6. WriterRecord'
    BY <2>1, <2>2, <2>3, <2>4 DEF WriterRecord, Goto
  <2>7. WritePathOwned'
    BY <2>1, <2>3 DEF LockInv, WritePathOwned, Goto
  <2>8. QED
    BY <2>5, <2>6, <2>7 DEF Shared
<1>2. CASE state # seen[t]
  BY <1>2, DecideShared
<1>3. QED
  BY <1>1, <1>2

\* A reader's decrement commits only against a word with no writer.
LEMMA ReadCommitNoWriter ==
  ASSUME LockInv, NEW t \in Threads, pc[t] = "relReadCas", state = seen[t]
  PROVE  hostWriter = NoThread /\ state.count > 0
<1>1. ~state.write /\ state.count > 0
  BY DEF LockInv, LocalCopies
<1>2. ASSUME hostWriter # NoThread PROVE FALSE
  <2>1. hostWriter \in Threads
    BY <1>2 DEF LockInv, TypeOK
  <2>2. CASE hostWriter \notin Uncounted
    BY <1>1, <2>1, <2>2 DEF LockInv, WriterRecord
  <2>3. CASE hostWriter \in Uncounted
    BY <1>1, <2>1, <2>3 DEF LockInv, WriterRecord, Uncounted, Unheld
  <2>4. QED
    BY <2>2, <2>3
<1>3. QED
  BY <1>1, <1>2

LEMMA RelReadCasShared == ASSUME LockInv, NEW t \in Threads, RelReadCas(t) PROVE Shared'
<1> USE DEF RelReadCas, hostVars
<1>1. CASE state = seen[t]
  <2>1. hostWriter = NoThread /\ state.count > 0
    BY <1>1, ReadCommitNoWriter
  <2>2. /\ pc \in [Threads -> Handler] /\ "relHost" \in Handler /\ state.count \in Nat
        /\ Goto(t, "relHost") /\ UNCHANGED wrote
    BY <1>1 DEF LockInv, TypeOK, Handler, Word
  <2>3. Cardinality(Uncounted') = Cardinality(Uncounted) + 1 /\ Cardinality(Uncounted) \in Nat
    <3>1. pc[t] \notin Between /\ "relHost" \in Between
      BY DEF Between
    <3>2. QED
      BY <2>2, <3>1, UncountedCount, UncountedFinite
  <2>4. state'.write = state.write /\ state'.count = state.count - 1
    BY <1>1 DEF LockInv, TypeOK, Word
  <2>5. ReadersCounted'
    BY <2>1, <2>2, <2>3, <2>4 DEF LockInv, TypeOK, ReadersCounted
  <2>6. WriterAlone' /\ WriterRecord'
    BY <2>1, ThreadsAssumption DEF WriterAlone, WriterRecord
  <2>7. WritePathOwned'
    BY <2>2 DEF LockInv, WritePathOwned, Goto
  <2>8. QED
    BY <2>5, <2>6, <2>7 DEF Shared
<1>2. CASE state # seen[t]
  BY <1>2, DecideShared
<1>3. QED
  BY <1>1, <1>2

LEMMA RelOwnerShared == ASSUME LockInv, NEW t \in Threads, RelOwner(t) PROVE Shared'
<1> USE DEF RelOwner, hostVars
<1>1. CASE owner = t
  <2>1. Goto(t, "relWriteCas") /\ UNCHANGED wrote
    BY <1>1 DEF guestVars
  <2>2. pc \in [Threads -> Handler] /\ "relWriteCas" \in Handler
    BY DEF LockInv, TypeOK, Handler
  <2>3. Uncounted' = Uncounted
    <3>1. "relWriteCas" \notin Between /\ pc[t] \notin Between
      BY DEF Between
    <3>2. QED
      BY <2>1, <2>2, <3>1, UncountedMove
  <2>4. hostWriter = t
    <3>1. hostWriter \in Threads
      BY <1>1, ThreadsAssumption DEF LockInv, TypeOK, ReadersCounted
    <3>2. CASE hostWriter \notin Uncounted
      BY <1>1, <3>1, <3>2 DEF LockInv, WriterRecord
    <3>3. CASE hostWriter \in Uncounted
      BY <1>1, <3>1, <3>3, ThreadsAssumption DEF LockInv, WriterRecord, Uncounted
    <3>4. QED
      BY <3>2, <3>3
  <2>5. ReadersCounted' /\ WriterAlone'
    BY <2>3 DEF LockInv, ReadersCounted, WriterAlone
  <2>6. WriterRecord'
    BY <2>1, <2>2, <2>3 DEF LockInv, WriterRecord, Goto, Uncounted
  <2>7. WritePathOwned'
    BY <2>1, <2>2, <2>4 DEF LockInv, WritePathOwned, Goto
  <2>8. QED
    BY <2>5, <2>6, <2>7 DEF Shared
<1>2. CASE owner # t
  <2>1. ~wrote[t]
    BY <1>2, WriterReads
  <2>2. QED
    BY <1>2, <2>1, RefusalQuiet
<1>3. QED
  BY <1>1, <1>2

\* The forwarded unlock finds the hold it releases: either the caller is the
\* host lock's writer, or the lock has no writer and a reader to subtract.
LEMMA RelHostShared == ASSUME LockInv, NEW t \in Threads, RelHost(t) PROVE Shared'
<1> USE DEF RelHost, hostVars, HostUnlock, BookUnlock
<1>1. pc \in [Threads -> Handler] /\ "idle" \in Handler /\ Goto(t, "idle")
      /\ state.count \in Nat /\ hostReaders \in Int /\ t \in Uncounted
  BY DEF LockInv, TypeOK, Handler, Word, Uncounted
<1>2. pc[t] \in Between /\ "idle" \notin Between
  BY DEF Between
<1>3. Uncounted' = Uncounted \ {t} /\ Cardinality(Uncounted') = Cardinality(Uncounted) - 1
      /\ Cardinality(Uncounted') \in Nat /\ Cardinality(Uncounted) \in Nat
  BY <1>1, <1>2, UncountedMove, UncountedCount, UncountedFinite
<1>4. CASE hostWriter = t
  <2>1. state = Unheld /\ owner = NoThread /\ hostReaders = 0 /\ Uncounted = {t}
    BY <1>1, <1>4, ThreadsAssumption DEF LockInv, WriterRecord, WriterAlone
  <2>2. hostWriter' = NoThread /\ UNCHANGED <<hostReaders, state, owner>>
    BY <1>4
  <2>3. Cardinality(Uncounted') = 0
    <3>1. Uncounted' = {}
      BY <1>3, <2>1
    <3>2. QED
      BY <3>1, FS_EmptySet
  <2>4. ReadersCounted'
    <3>1. ~state'.write /\ state'.count = 0 /\ owner' = NoThread /\ hostReaders' = 0
      BY <2>1, <2>2 DEF Unheld
    <3>2. state'.count + Cardinality(Uncounted') = hostReaders' /\ hostReaders' >= 0
      BY <2>3, <3>1
    <3>3. QED
      BY <3>1, <3>2 DEF ReadersCounted
  <2>5. WriterAlone' /\ WriterRecord'
    BY <2>2, ThreadsAssumption DEF WriterAlone, WriterRecord
  <2>6. \A u \in Threads : ~wrote'[u]
    BY <1>4 DEF LockInv, TypeOK, WritePathOwned
  <2>7. WritePathOwned'
    BY <1>1, <1>4, <2>6 DEF LockInv, WritePathOwned, Goto
  <2>8. QED
    BY <2>4, <2>5, <2>7 DEF Shared
<1>5. CASE hostWriter # t
  <2>1. hostWriter = NoThread
    BY <1>1, <1>5 DEF LockInv, WriterAlone
  <2>2. hostWriter' = NoThread /\ hostReaders' = hostReaders - 1 /\ UNCHANGED <<state, owner>>
    BY <1>5, <2>1
  <2>3. ReadersCounted'
    <3>1. ~state.write /\ owner = NoThread
          /\ state.count + Cardinality(Uncounted) = hostReaders
      BY <2>1 DEF LockInv, ReadersCounted
    <3>2. state.count + Cardinality(Uncounted') = hostReaders'
      BY <1>1, <1>3, <2>2, <3>1
    <3>3. hostReaders' >= 0
      BY <1>1, <1>3, <3>2
    <3>4. QED
      BY <2>2, <3>1, <3>2, <3>3 DEF ReadersCounted
  <2>4. WriterAlone' /\ WriterRecord'
    BY <2>2, ThreadsAssumption DEF WriterAlone, WriterRecord
  <2>5. \A u \in Threads : ~wrote[u]
    BY <2>1, ThreadsAssumption DEF LockInv, WritePathOwned
  <2>6. UNCHANGED wrote
    BY <2>5
  <2>7. WritePathOwned'
    BY <1>1, <2>1, <2>2, <2>5, <2>6, ThreadsAssumption DEF LockInv, WritePathOwned, Goto
  <2>8. QED
    BY <2>3, <2>4, <2>7 DEF Shared
<1>6. QED
  BY <1>4, <1>5

\* No step of any thread takes the lock out of the invariant.
LEMMA SharedPreserved == LockInv /\ [Next]_vars => Shared'
<1> SUFFICES ASSUME LockInv, [Next]_vars PROVE Shared'
  OBVIOUS
<1>1. ASSUME NEW t \in Threads, CallRdlock(t) \/ CallWrlock(t) \/ CallUnlock(t)
      PROVE  Shared'
  BY <1>1, QuietMove DEF CallRdlock, CallWrlock, CallUnlock, Call, hostVars, guestVars
<1>2. ASSUME NEW t \in Threads, Acquire(t) PROVE Shared'
  <2>1. CASE RdGranted(t)
    BY <2>1, RdGrantedShared
  <2>2. CASE RdCounted(t)
    BY <2>2, RdCountedShared
  <2>3. CASE WrGranted(t)
    BY <2>3, WrGrantedShared
  <2>4. CASE WrOwner(t) \/ WrLoad(t)
    BY <2>4, WriterStep
  <2>5. CASE WrCas(t)
    BY <2>5, WrCasShared
  <2>6. CASE Refused(t)
    BY <2>6, QuietMove DEF Refused, hostVars, guestVars
  <2>7. QED
    BY <1>2, <2>1, <2>2, <2>3, <2>4, <2>5, <2>6 DEF Acquire
<1>3. ASSUME NEW t \in Threads, Release(t) PROVE Shared'
  <2>1. CASE RelLoad(t)
    BY <2>1, DecideShared DEF RelLoad, hostVars
  <2>2. CASE RelOwner(t)
    BY <2>2, RelOwnerShared
  <2>3. CASE RelWriteCas(t)
    BY <2>3, RelWriteCasShared
  <2>4. CASE RelReadCas(t)
    BY <2>4, RelReadCasShared
  <2>5. CASE RelClear(t)
    BY <2>5, WriterStep
  <2>6. CASE RelHost(t)
    BY <2>6, RelHostShared
  <2>7. QED
    BY <1>3, <2>1, <2>2, <2>3, <2>4, <2>5, <2>6 DEF Release
<1>4. CASE UNCHANGED <<state, owner, hostVars, pc, wrote>>
  BY <1>4 DEF LockInv, Shared, ReadersCounted, WriterAlone, WriterRecord,
              WritePathOwned, Uncounted, hostVars
<1>5. ASSUME NEW t \in Threads, NEW u \in Threads, FiberMoves(t, u) PROVE Shared'
  BY <1>4, <1>5 DEF FiberMoves
<1>6. CASE UNCHANGED vars
  BY <1>4, <1>6 DEF vars, guestVars
<1>7. QED
  BY <1>1, <1>2, <1>3, <1>5, <1>6 DEF Next

\* LockInv is an invariant of the reader/writer lock.
THEOREM LockInvariant == Spec => []LockInv
<1>1. LockInv /\ [Next]_vars => LockInv'
  BY TypePreserved, LocalCopiesPreserved, SharedPreserved DEF LockInv, Shared
<1>2. QED
  BY LockInvInit, <1>1, PTL DEF Spec

\* Every variable of the lock keeps its type; in particular the hold count
\* never goes below zero.
THEOREM TypeCorrect == Spec => []TypeOK
<1>1. LockInv => TypeOK
  BY DEF LockInv
<1>2. QED
  BY LockInvariant, <1>1, PTL

\* The hold count and the host lock agree for any number of threads: no
\* unmatched unlock drives the host lock's reader count negative.
THEOREM AccountingIsExact == Spec => []AccountingExact
<1>1. LockInv => AccountingExact
  <2> SUFFICES ASSUME LockInv PROVE AccountingExact
    OBVIOUS
  <2>1. CASE hostWriter = NoThread
    BY <2>1 DEF LockInv, TypeOK, ReadersCounted, AccountingExact, HostHolds
  <2>2. CASE hostWriter # NoThread
    <3>1. hostWriter \in Threads /\ hostReaders = 0 /\ HostHolds = 1
      BY <2>2 DEF LockInv, TypeOK, WriterAlone, HostHolds
    <3>2. CASE hostWriter \in Uncounted
      <4>1. Uncounted = {hostWriter} /\ state = Unheld
        BY <2>2, <3>2 DEF LockInv, WriterAlone, WriterRecord, Uncounted
      <4>2. Cardinality(Uncounted) = 1
        BY <4>1, FS_Singleton
      <4>3. state.count = 0
        BY <4>1 DEF Unheld
      <4>4. QED
        BY <3>1, <4>2, <4>3 DEF AccountingExact
    <3>3. CASE hostWriter \notin Uncounted
      <4>1. Uncounted = {} /\ state = [write |-> TRUE, count |-> 1]
        BY <2>2, <3>1, <3>3 DEF LockInv, WriterAlone, WriterRecord
      <4>2. Cardinality(Uncounted) = 0
        BY <4>1, FS_EmptySet
      <4>3. state.count = 1
        BY <4>1
      <4>4. QED
        BY <3>1, <4>2, <4>3 DEF AccountingExact
    <3>4. QED
      BY <3>2, <3>3
  <2>3. QED
    BY <2>1, <2>2
<1>2. QED
  BY LockInvariant, <1>1, PTL

\* The claim of the comment in rw_acquired: a writer publishes over an empty
\* word.
THEOREM WriterFindsIdle == Spec => []WriterFindsIdleWord
<1>1. LockInv => WriterFindsIdleWord
  BY DEF LockInv, WriterFindsIdleWord, WritePathOwned, WriterRecord
<1>2. QED
  BY LockInvariant, <1>1, PTL

\* A write hold the guest was granted cannot be stolen, whatever unmatched
\* unlocks the other threads make.
THEOREM WriteHoldSafe == Spec => []WriteHoldNotStolen
<1>1. LockInv => WriteHoldNotStolen
  <2> SUFFICES ASSUME LockInv, NEW t \in Threads, wrote[t],
                      pc[t] \notin {"relClear", "relHost"}
               PROVE  /\ hostWriter = t /\ hostReaders = 0
                      /\ state = [write |-> TRUE, count |-> 1]
                      /\ owner = t
    BY DEF WriteHoldNotStolen
  <2>1. hostWriter = t /\ hostReaders = 0
    BY ThreadsAssumption DEF LockInv, WritePathOwned, WriterAlone
  <2>2. t \notin Uncounted
    BY <2>1 DEF LockInv, WriterRecord, Uncounted
  <2>3. QED
    BY <2>1, <2>2 DEF LockInv, WriterRecord
<1>2. QED
  BY LockInvariant, <1>1, PTL

\* No reader-path decrement commits against a write-held host lock.
THEOREM ReadReleaseSafe == Spec => ReadReleaseNeverHitsWriter
<1>1. LockInv /\ [Next]_vars =>
        [\A t \in Threads :
           pc[t] = "relReadCas" /\ pc'[t] = "relHost" => hostWriter = NoThread]_vars
  <2> SUFFICES ASSUME LockInv, Next, NEW t \in Threads,
                      pc[t] = "relReadCas", pc'[t] = "relHost"
               PROVE  hostWriter = NoThread
    BY DEF vars
  <2> USE DEF Goto
  <2>1. pc \in [Threads -> Handler]
    BY DEF LockInv, TypeOK
  <2>2. CASE RelReadCas(t)
    <3>1. state = seen[t]
      BY <2>1, <2>2 DEF RelReadCas, Decide, UnlockRefused
    <3>2. QED
      BY <3>1, ReadCommitNoWriter
  <2>3. ASSUME NEW u \in Threads, u # t \/ ~RelReadCas(t),
               CallRdlock(u) \/ CallWrlock(u) \/ CallUnlock(u)
        PROVE  FALSE
    BY <2>1, <2>3 DEF CallRdlock, CallWrlock, CallUnlock, Call
  <2>4. ASSUME NEW u \in Threads, Acquire(u) PROVE FALSE
    BY <2>1, <2>4 DEF Acquire, RdGranted, RdCounted, WrGranted, WrOwner, WrLoad,
                      WrCas, Refused
  <2>5. ASSUME NEW u \in Threads, Release(u), ~RelReadCas(t) PROVE FALSE
    BY <2>1, <2>5 DEF Release, RelLoad, RelOwner, RelWriteCas, RelReadCas, RelClear,
                      RelHost, Decide, UnlockRefused
  <2>6. ASSUME NEW u \in Threads, NEW v \in Threads, FiberMoves(u, v) PROVE FALSE
    BY <2>6 DEF FiberMoves
  <2>7. QED
    BY <2>2, <2>3, <2>4, <2>5, <2>6 DEF Next
<1>2. QED
  BY LockInvariant, <1>1, PTL DEF Spec, ReadReleaseNeverHitsWriter

\* The host lock only ever sees the calls of an ideal user: every step of the
\* handlers is a step of the ideal lock or leaves the host lock alone.
THEOREM HostLockRefinesIdeal == Spec => HostLockIdeal
<1>1. Init => Ideal!Init
  BY DEF Init, Ideal!Init
<1>2. LockInv /\ [Next]_vars => [Ideal!Next]_<<hostReaders, hostWriter>>
  <2> SUFFICES ASSUME LockInv, Next PROVE Ideal!Next \/ UNCHANGED hostVars
    BY DEF vars, hostVars
  <2>1. pc \in [Threads -> Handler] /\ hostReaders \in Int /\ state \in Word
    BY DEF LockInv, TypeOK
  <2>2. ASSUME NEW t \in Threads, CallRdlock(t) \/ CallWrlock(t) \/ CallUnlock(t)
        PROVE  UNCHANGED hostVars
    BY <2>2 DEF CallRdlock, CallWrlock, CallUnlock, Call
  <2>3. ASSUME NEW t \in Threads, Acquire(t)
        PROVE  Ideal!Next \/ UNCHANGED hostVars
    BY <2>3 DEF Acquire, RdGranted, RdCounted, WrGranted, WrOwner, WrLoad, WrCas,
                Refused, HostReadable, HostWritable, hostVars,
                Ideal!Next, Ideal!Read, Ideal!Write
  <2>4. ASSUME NEW t \in Threads, RelHost(t)
        PROVE  Ideal!Next
    <3>1. CASE hostWriter = t
      BY <2>4, <3>1 DEF RelHost, HostUnlock, Ideal!Next, Ideal!WriteUnlock
    <3>2. CASE hostWriter # t
      <4>1. t \in Uncounted
        BY <2>4 DEF RelHost, Uncounted
      <4>2. hostWriter = NoThread
        BY <3>2, <4>1 DEF LockInv, WriterAlone
      <4>3. IsFiniteSet(Uncounted) /\ Cardinality(Uncounted) \in Nat
        BY UncountedFinite
      <4>4. Cardinality(Uncounted) > 0
        BY <4>1, <4>3, FS_EmptySet
      <4>5. hostReaders > 0
        BY <2>1, <4>2, <4>3, <4>4 DEF LockInv, ReadersCounted, Word
      <4>6. QED
        BY <2>4, <3>2, <4>5 DEF RelHost, HostUnlock, Ideal!Next, Ideal!ReadUnlock
    <3>3. QED
      BY <3>1, <3>2
  <2>5. ASSUME NEW t \in Threads, Release(t), ~RelHost(t)
        PROVE  UNCHANGED hostVars
    BY <2>5 DEF Release, RelLoad, RelOwner, RelWriteCas, RelReadCas, RelClear,
                Decide, UnlockRefused, hostVars
  <2>6. ASSUME NEW t \in Threads, NEW u \in Threads, FiberMoves(t, u)
        PROVE  UNCHANGED hostVars
    BY <2>6 DEF FiberMoves
  <2>7. QED
    BY <2>2, <2>3, <2>4, <2>5, <2>6 DEF Next
<1>3. QED
  BY <1>1, <1>2, LockInvariant, PTL DEF Spec, HostLockIdeal, Ideal!Spec

-----------------------------------------------------------------------------
(***************************************************************************)
(* The guest's own book of read holds against the word's count.  Each      *)
(* robbery leaves one hold more in the book than in the word, and each     *)
(* refusal of a hold in the book takes one back.                           *)
(***************************************************************************)
\* An unlock that is past its decision takes its hold out of the book.
Leaving(t) == pc[t] \in {"relOwner", "relHost"} /\ ~wrote[t] /\ reads[t] > 0
Standing(t) == IF Leaving(t) THEN reads[t] - 1 ELSE reads[t]
\* All standing holds, each thread's numbered from 1.
Booked == {h \in Threads \X (Nat \ {0}) : h[2] <= Standing(h[1])}

\* The threads with a hold in the book that have met a writer's word: they will
\* be refused.
Doomed == {t \in Threads : pc[t] = "relOwner" /\ Leaving(t)}

\* The read holds the word counts.
WordReads == IF state.write THEN 0 ELSE state.count

BookInv ==
  /\ IsFiniteSet(Booked)
  /\ WordReads <= Cardinality(Booked)
  /\ WordReads + robbed = Cardinality(Booked) + Cardinality(Doomed) + spurious
  /\ \A t \in Threads :
       hostWriter = t /\ pc[t] \in {"relClear", "relHost"} => wrote[t]

\* The account at the end of a step that takes a hold into the book, takes one
\* off it, or neither.
LEMMA BookSame ==
  ASSUME TypeOK, TypeOK', \A u \in Threads : Standing(u)' = Standing(u)
  PROVE  Booked' = Booked
BY DEF Booked

LEMMA BookMore ==
  ASSUME TypeOK, TypeOK', IsFiniteSet(Booked), NEW t \in Threads,
         Standing(t)' = Standing(t) + 1,
         \A u \in Threads \ {t} : Standing(u)' = Standing(u)
  PROVE  IsFiniteSet(Booked') /\ Cardinality(Booked') = Cardinality(Booked) + 1
<1>1. \A u \in Threads : Standing(u) \in Nat
  BY DEF TypeOK, Standing, Leaving
<1>2. DEFINE h == <<t, Standing(t) + 1>>
<1>3. h \in Threads \X (Nat \ {0}) /\ h \notin Booked
  BY <1>1 DEF Booked
<1>4. Booked' = Booked \cup {h}
  <2>1. ASSUME NEW g \in Threads \X (Nat \ {0})
        PROVE  g[2] <= Standing(g[1])' <=> g[2] <= Standing(g[1]) \/ g = h
    <3>1. g[1] \in Threads /\ g[2] \in Nat \ {0} /\ g = <<g[1], g[2]>>
      OBVIOUS
    <3>2. CASE g[1] = t
      BY <1>1, <3>1, <3>2
    <3>3. CASE g[1] # t
      BY <3>1, <3>3
    <3>4. QED
      BY <3>2, <3>3
  <2>2. QED
    BY <1>3, <2>1 DEF Booked
<1>5. QED
  BY <1>3, <1>4, FS_AddElement

LEMMA BookLess ==
  ASSUME TypeOK, TypeOK', IsFiniteSet(Booked), NEW t \in Threads, Standing(t) > 0,
         Standing(t)' = Standing(t) - 1,
         \A u \in Threads \ {t} : Standing(u)' = Standing(u)
  PROVE  /\ IsFiniteSet(Booked') /\ Cardinality(Booked') = Cardinality(Booked) - 1
         /\ Cardinality(Booked') \in Nat
<1>1. \A u \in Threads : Standing(u) \in Nat
  BY DEF TypeOK, Standing, Leaving
<1>2. DEFINE h == <<t, Standing(t)>>
<1>3. h \in Threads \X (Nat \ {0}) /\ h \in Booked
  BY <1>1 DEF Booked
<1>4. Booked' = Booked \ {h}
  <2>1. ASSUME NEW g \in Threads \X (Nat \ {0})
        PROVE  g[2] <= Standing(g[1])' <=> g[2] <= Standing(g[1]) /\ g # h
    <3>1. g[1] \in Threads /\ g[2] \in Nat \ {0} /\ g = <<g[1], g[2]>>
      OBVIOUS
    <3>2. CASE g[1] = t
      BY <1>1, <3>1, <3>2
    <3>3. CASE g[1] # t
      BY <3>1, <3>3
    <3>4. QED
      BY <3>2, <3>3
  <2>2. QED
    BY <1>3, <2>1 DEF Booked
<1>5. IsFiniteSet(Booked \ {h}) /\ Cardinality(Booked \ {h}) = Cardinality(Booked) - 1
  BY <1>3, FS_RemoveElement
<1>6. QED
  BY <1>4, <1>5, FS_CardinalityType

LEMMA DoomedFinite == IsFiniteSet(Doomed) /\ Cardinality(Doomed) \in Nat
<1>1. Doomed \in SUBSET Threads
  BY DEF Doomed
<1>2. QED
  BY <1>1, FS_Subset, FS_CardinalityType, ThreadsAssumption

\* Only thread t moves, and it joins or leaves the doomed.
LEMMA DoomedMove ==
  ASSUME NEW t \in Threads, \A u \in Threads \ {t} : (u \in Doomed)' = (u \in Doomed)
  PROVE  /\ (t \in Doomed)' = (t \in Doomed) => Doomed' = Doomed
         /\ t \notin Doomed /\ (t \in Doomed)' =>
              Cardinality(Doomed') = Cardinality(Doomed) + 1
         /\ t \in Doomed /\ ~(t \in Doomed)' =>
              Cardinality(Doomed') = Cardinality(Doomed) - 1
<1>1. Doomed \subseteq Threads /\ Doomed' \subseteq Threads
  BY DEF Doomed
<1>2. CASE (t \in Doomed)' = (t \in Doomed)
  BY <1>1, <1>2
<1>3. CASE t \notin Doomed /\ (t \in Doomed)'
  <2>1. Doomed' = Doomed \cup {t}
    BY <1>1, <1>3
  <2>2. QED
    BY <1>3, <2>1, DoomedFinite, FS_AddElement
<1>4. CASE t \in Doomed /\ ~(t \in Doomed)'
  <2>1. Doomed' = Doomed \ {t}
    BY <1>1, <1>4
  <2>2. QED
    BY <1>4, <2>1, DoomedFinite, FS_RemoveElement
<1>5. QED
  BY <1>2, <1>3, <1>4

\* What a step of thread t does to the others' part of the account: nothing.
LEMMA OthersStand ==
  ASSUME TypeOK, NEW t \in Threads, NEW label \in Handler, Goto(t, label),
         \A u \in Threads \ {t} : reads'[u] = reads[u] /\ wrote'[u] = wrote[u]
  PROVE  \A u \in Threads \ {t} :
           /\ Standing(u)' = Standing(u)
           /\ (u \in Doomed)' = (u \in Doomed)
BY DEF TypeOK, Goto, Standing, Leaving, Doomed

\* The fourth part of BookInv after a step of t that does not take it to the
\* end of a write release.
LEMMA WriterKnows ==
  ASSUME TypeOK, BookInv, NEW t \in Threads, NEW label \in Handler, Goto(t, label),
         label \in {"relClear", "relHost"} /\ hostWriter' = t => wrote'[t],
         hostWriter' \in {hostWriter, t, NoThread},
         \A u \in Threads \ {t} : wrote'[u] = wrote[u]
  PROVE  \A u \in Threads :
           hostWriter' = u /\ pc'[u] \in {"relClear", "relHost"} => wrote'[u]
<1> SUFFICES ASSUME NEW u \in Threads, hostWriter' = u, pc'[u] \in {"relClear", "relHost"}
             PROVE  wrote'[u]
  OBVIOUS
<1>1. CASE u = t
  BY <1>1 DEF TypeOK, Goto
<1>2. CASE u # t
  <2>1. pc'[u] = pc[u] /\ hostWriter' = hostWriter
    BY <1>2, ThreadsAssumption DEF TypeOK, Goto
  <2>2. QED
    BY <1>2, <2>1 DEF BookInv
<1>3. QED
  BY <1>1, <1>2

\* A step that leaves the book and the word's count alone.
LEMMA BookQuiet ==
  ASSUME LockInv, BookInv, TypeOK', NEW t \in Threads,
         NEW label \in Handler, Goto(t, label),
         ~Leaving(t),
         label \notin {"relOwner", "relHost"} \/ wrote'[t] \/ reads[t] = 0,
         UNCHANGED <<reads, robbed, spurious>>,
         \A u \in Threads \ {t} : wrote'[u] = wrote[u],
         WordReads' = WordReads,
         label \in {"relClear", "relHost"} /\ hostWriter' = t => wrote'[t],
         hostWriter' \in {hostWriter, t, NoThread}
  PROVE  BookInv'
<1>1. TypeOK
  BY DEF LockInv
<1>2. \A u \in Threads \ {t} : /\ Standing(u)' = Standing(u)
                               /\ (u \in Doomed)' = (u \in Doomed)
  BY <1>1, OthersStand
<1>3. ~Leaving(t) /\ ~Leaving(t)'
  BY <1>1 DEF TypeOK, Goto, Leaving
<1>4. Booked' = Booked
  BY <1>1, <1>2, <1>3, BookSame DEF Standing
<1>5. Doomed' = Doomed
  BY <1>2, <1>3, DoomedMove DEF Doomed
<1>6. \A u \in Threads :
        hostWriter' = u /\ pc'[u] \in {"relClear", "relHost"} => wrote'[u]
  BY <1>1, WriterKnows
<1>7. QED
  BY <1>4, <1>5, <1>6 DEF BookInv

\* A refused unlock.  Its thread is doomed already, or meets an empty word.
LEMMA BookRefused ==
  ASSUME LockInv, BookInv, TypeOK', NEW t \in Threads, UnlockRefused(t), ~wrote[t],
         pc[t] \in {"relLoad", "relOwner", "relWriteCas", "relReadCas"},
         pc[t] = "relOwner" \/ WordReads = 0,
         UNCHANGED <<state, hostWriter>>
  PROVE  BookInv'
<1>1. TypeOK /\ Goto(t, "idle") /\ "idle" \in Handler
  BY DEF LockInv, UnlockRefused, Handler
<1>2. /\ reads' = [reads EXCEPT ![t] = IF @ > 0 THEN @ - 1 ELSE 0]
      /\ UNCHANGED <<wrote, robbed>>
      /\ spurious' = IF reads[t] > 0 THEN spurious + 1 ELSE spurious
  BY DEF UnlockRefused, BookUnlock, Holds
<1>3. WordReads' = WordReads
  BY DEF WordReads
<1>4. /\ Cardinality(Booked) \in Nat /\ Cardinality(Doomed) \in Nat
      /\ reads[t] \in Nat /\ robbed \in Nat /\ spurious \in Nat
  BY <1>1, DoomedFinite, FS_CardinalityType DEF BookInv, TypeOK
<1>5. CASE reads[t] = 0
  <2>1. reads' = reads /\ spurious' = spurious /\ ~Leaving(t)
    BY <1>1, <1>2, <1>5 DEF TypeOK, Leaving
  <2>2. QED
    BY <1>1, <1>2, <1>3, <2>1, BookQuiet
<1>6. CASE reads[t] > 0
  <2>1. \A u \in Threads \ {t} : /\ Standing(u)' = Standing(u)
                                 /\ (u \in Doomed)' = (u \in Doomed)
    <3>1. \A u \in Threads \ {t} : reads'[u] = reads[u] /\ wrote'[u] = wrote[u]
      BY <1>1, <1>2 DEF TypeOK
    <3>2. QED
      BY <1>1, <3>1, OthersStand
  <2>2. reads'[t] = reads[t] - 1 /\ pc'[t] = "idle" /\ Standing(t)' = reads[t] - 1
    BY <1>1, <1>2, <1>6 DEF TypeOK, Goto, Standing, Leaving
  <2>3. spurious' = spurious + 1
    BY <1>2, <1>6
  <2>4. \A u \in Threads :
          hostWriter' = u /\ pc'[u] \in {"relClear", "relHost"} => wrote'[u]
    BY <1>1, <1>2, WriterKnows
  <2>5. CASE pc[t] = "relOwner"
    <3>1. t \in Doomed /\ ~(t \in Doomed)' /\ Standing(t) = reads[t] - 1
      BY <1>6, <2>2, <2>5 DEF Doomed, Leaving, Standing
    <3>2. Booked' = Booked
      BY <1>1, <2>1, <2>2, <3>1, BookSame
    <3>3. Cardinality(Doomed') = Cardinality(Doomed) - 1
      BY <2>1, <3>1, DoomedMove
    <3>4. WordReads + robbed' = Cardinality(Booked) + Cardinality(Doomed') + spurious'
      BY <1>2, <1>4, <2>3, <3>3 DEF BookInv, WordReads, TypeOK
    <3>5. QED
      BY <1>3, <2>4, <3>2, <3>4 DEF BookInv
  <2>6. CASE pc[t] # "relOwner"
    <3>1. ~Leaving(t) /\ t \notin Doomed /\ ~(t \in Doomed)' /\ Standing(t) = reads[t]
      BY <2>2, <2>6 DEF Doomed, Leaving, Standing
    <3>2. /\ IsFiniteSet(Booked') /\ Cardinality(Booked') = Cardinality(Booked) - 1
          /\ Cardinality(Booked') \in Nat
      BY <1>1, <1>6, <2>1, <2>2, <3>1, BookLess DEF BookInv
    <3>3. Doomed' = Doomed
      BY <2>1, <3>1, DoomedMove
    <3>4. WordReads = 0
      BY <2>6
    <3>5. /\ WordReads' <= Cardinality(Booked')
          /\ WordReads' + robbed' = Cardinality(Booked') + Cardinality(Doomed') + spurious'
      BY <1>2, <1>3, <1>4, <2>3, <3>2, <3>3, <3>4 DEF BookInv
    <3>6. QED
      BY <2>4, <3>2, <3>5 DEF BookInv
  <2>7. QED
    BY <2>5, <2>6
<1>7. QED
  BY <1>4, <1>5, <1>6

\* Whatever rw_release decides, the account stays right: a thread sent to the
\* owner check with a hold is doomed, for the word counts no reads.
LEMMA DecideBook ==
  ASSUME LockInv, BookInv, TypeOK', NEW t \in Threads, Decide(t),
         pc[t] \in {"relLoad", "relWriteCas", "relReadCas"},
         UNCHANGED <<state, hostWriter>>
  PROVE  BookInv'
<1>1. TypeOK /\ {"relOwner", "relReadCas"} \subseteq Handler /\ ~Leaving(t)
  BY DEF LockInv, Handler, Leaving
<1>2. WordReads' = WordReads
  BY DEF WordReads
<1>3. CASE state.write
  <2>1. Goto(t, "relOwner") /\ UNCHANGED guestVars
    BY <1>3 DEF Decide
  <2>2. CASE wrote[t] \/ reads[t] = 0
    BY <1>1, <1>2, <2>1, <2>2, BookQuiet DEF guestVars
  <2>3. CASE ~wrote[t] /\ reads[t] # 0
    <3>1. \A u \in Threads \ {t} : /\ Standing(u)' = Standing(u)
                                   /\ (u \in Doomed)' = (u \in Doomed)
      BY <1>1, <2>1, OthersStand DEF guestVars
    <3>2. /\ reads[t] \in Nat /\ reads[t] > 0 /\ Leaving(t)'
          /\ Standing(t) = reads[t] /\ Standing(t)' = reads[t] - 1
      BY <1>1, <2>1, <2>3 DEF TypeOK, Goto, guestVars, Standing, Leaving
    <3>3. /\ IsFiniteSet(Booked') /\ Cardinality(Booked') = Cardinality(Booked) - 1
          /\ Cardinality(Booked') \in Nat
      BY <1>1, <3>1, <3>2, BookLess DEF BookInv
    <3>4. t \notin Doomed /\ (t \in Doomed)'
      BY <1>1, <2>1, <3>2 DEF TypeOK, Goto, Doomed
    <3>5. Cardinality(Doomed') = Cardinality(Doomed) + 1
      BY <3>1, <3>4, DoomedMove
    <3>6. WordReads = 0
      BY <1>3 DEF WordReads
    <3>7. Cardinality(Booked) \in Nat /\ Cardinality(Doomed) \in Nat
      BY DoomedFinite, FS_CardinalityType DEF BookInv
    <3>8. /\ WordReads' <= Cardinality(Booked')
          /\ WordReads' + robbed' = Cardinality(Booked') + Cardinality(Doomed') + spurious'
      BY <1>1, <1>2, <2>1, <3>3, <3>5, <3>6, <3>7 DEF BookInv, guestVars, TypeOK
    <3>9. \A u \in Threads :
            hostWriter' = u /\ pc'[u] \in {"relClear", "relHost"} => wrote'[u]
      BY <1>1, <2>1, WriterKnows DEF guestVars
    <3>10. QED
      BY <3>3, <3>8, <3>9 DEF BookInv
  <2>4. QED
    BY <2>2, <2>3
<1>4. CASE ~state.write /\ state.count = 0
  <2>1. UnlockRefused(t) /\ WordReads = 0
    BY <1>4 DEF Decide, WordReads
  <2>2. ~wrote[t]
    BY <1>4, WriterReads
  <2>3. QED
    BY <2>1, <2>2, BookRefused
<1>5. CASE ~state.write /\ state.count > 0
  BY <1>1, <1>2, <1>5, BookQuiet DEF Decide, guestVars
<1>6. QED
  BY <1>3, <1>4, <1>5 DEF Decide

\* Calls and acquisitions.
LEMMA AcquireBook ==
  ASSUME LockInv, BookInv, TypeOK', NEW t \in Threads,
         \/ CallRdlock(t) \/ CallWrlock(t) \/ CallUnlock(t)
         \/ RdGranted(t) \/ WrGranted(t) \/ WrOwner(t) \/ WrLoad(t) \/ Refused(t)
  PROVE  BookInv'
<1>1. {"idle", "rdHost", "rdCount", "wrHost", "wrOwner", "wrLoad", "wrCas", "relLoad"}
        \subseteq Handler
  BY DEF Handler
<1>2. ASSUME NEW label \in {"idle", "rdHost", "rdCount", "wrHost", "wrOwner", "wrLoad",
                            "wrCas", "relLoad"},
             Goto(t, label), pc[t] \notin {"relOwner", "relHost"},
             UNCHANGED <<state, guestVars>>, hostWriter' \in {hostWriter, t}
      PROVE  BookInv'
  BY <1>1, <1>2, BookQuiet DEF guestVars, Leaving, WordReads
<1>3. CASE CallRdlock(t) \/ CallWrlock(t) \/ CallUnlock(t)
  BY <1>2, <1>3 DEF CallRdlock, CallWrlock, CallUnlock, Call, hostVars
<1>4. CASE RdGranted(t) \/ WrGranted(t)
  BY <1>2, <1>4 DEF RdGranted, WrGranted
<1>5. CASE WrOwner(t) \/ WrLoad(t) \/ Refused(t)
  BY <1>2, <1>5 DEF WrOwner, WrLoad, Refused, hostVars
<1>6. QED
  BY <1>3, <1>4, <1>5

\* A read hold enters the word and the book at once.
LEMMA RdCountedBook ==
  ASSUME LockInv, BookInv, TypeOK', NEW t \in Threads, RdCounted(t)
  PROVE  BookInv'
<1> USE DEF RdCounted
<1>1. TypeOK /\ Goto(t, "idle") /\ "idle" \in Handler
  BY DEF LockInv, Handler
<1>2. hostWriter = NoThread
  <2>1. t \in Uncounted
    BY DEF Uncounted
  <2>2. QED
    BY <2>1 DEF LockInv, WriterAlone, WriterRecord, TypeOK
<1>3. ~state.write /\ state \in Word
  BY <1>1, <1>2 DEF LockInv, ReadersCounted, TypeOK
<1>4. WordReads \in Nat /\ WordReads' = WordReads + 1
  BY <1>3 DEF WordReads, Word
<1>5. \A u \in Threads \ {t} : /\ Standing(u)' = Standing(u)
                               /\ (u \in Doomed)' = (u \in Doomed)
  <2>1. \A u \in Threads \ {t} : reads'[u] = reads[u] /\ wrote'[u] = wrote[u]
    BY <1>1 DEF TypeOK
  <2>2. QED
    BY <1>1, <2>1, OthersStand
<1>6. Standing(t)' = Standing(t) + 1 /\ t \notin Doomed /\ ~(t \in Doomed)'
  BY <1>1 DEF TypeOK, Goto, Standing, Leaving, Doomed
<1>7. IsFiniteSet(Booked') /\ Cardinality(Booked') = Cardinality(Booked) + 1
  BY <1>1, <1>5, <1>6, BookMore DEF BookInv
<1>8. Doomed' = Doomed
  BY <1>5, <1>6, DoomedMove
<1>9. /\ Cardinality(Booked) \in Nat /\ Cardinality(Doomed) \in Nat
      /\ robbed \in Nat /\ spurious \in Nat
  BY <1>1, DoomedFinite, FS_CardinalityType DEF BookInv, TypeOK
<1>10. /\ WordReads' <= Cardinality(Booked')
       /\ WordReads' + robbed' = Cardinality(Booked') + Cardinality(Doomed') + spurious'
  BY <1>4, <1>7, <1>8, <1>9 DEF BookInv
<1>11. \A u \in Threads :
         hostWriter' = u /\ pc'[u] \in {"relClear", "relHost"} => wrote'[u]
  BY <1>1, WriterKnows DEF hostVars
<1>12. QED
  BY <1>7, <1>10, <1>11 DEF BookInv

\* WRITE replaces an empty word, and a write release leaves one.
LEMMA WriteBook ==
  ASSUME LockInv, BookInv, TypeOK', NEW t \in Threads, WrCas(t) \/ RelWriteCas(t)
  PROVE  BookInv'
<1>1. TypeOK /\ {"idle", "wrCas", "relClear"} \subseteq Handler /\ ~Leaving(t)
  BY DEF LockInv, Handler, WrCas, RelWriteCas, Leaving
<1>2. hostWriter = t
  BY DEF LockInv, WritePathOwned, WrCas, RelWriteCas
<1>3. CASE WrCas(t) /\ state = seen[t]
  <2>1. state = Unheld
    BY <1>2, <1>3 DEF LockInv, WriterRecord, WrCas
  <2>2. WordReads' = WordReads
    BY <1>3, <2>1 DEF WrCas, WordReads, Unheld
  <2>3. Goto(t, "idle") /\ \A u \in Threads \ {t} : wrote'[u] = wrote[u]
    BY <1>1, <1>3 DEF WrCas, TypeOK
  <2>4. QED
    BY <1>1, <1>3, <2>2, <2>3, BookQuiet DEF WrCas, hostVars
<1>4. CASE WrCas(t) /\ state # seen[t]
  <2>1. Goto(t, "wrCas")
    BY <1>1, <1>4 DEF WrCas, Goto, TypeOK
  <2>2. QED
    BY <1>1, <1>4, <2>1, BookQuiet DEF WrCas, hostVars, WordReads
<1>5. CASE RelWriteCas(t) /\ state = seen[t]
  <2>1. state = [write |-> TRUE, count |-> 1] /\ wrote[t]
    BY <1>2, <1>5 DEF LockInv, WriterRecord, Uncounted, RelWriteCas
  <2>2. state' = [write |-> FALSE, count |-> 0]
    BY <1>5, <2>1 DEF RelWriteCas, Decremented
  <2>3. WordReads' = WordReads
    BY <2>1, <2>2 DEF WordReads
  <2>4. QED
    BY <1>1, <1>5, <2>1, <2>3, BookQuiet DEF RelWriteCas, hostVars, guestVars
<1>6. CASE RelWriteCas(t) /\ state # seen[t]
  BY <1>6, DecideBook DEF RelWriteCas, hostVars
<1>7. QED
  BY <1>3, <1>4, <1>5, <1>6

\* A reader-path release takes a hold off the word: the releasing thread's own,
\* or one it robs.
LEMMA RelReadCasBook ==
  ASSUME LockInv, BookInv, TypeOK', NEW t \in Threads, RelReadCas(t)
  PROVE  BookInv'
<1>1. TypeOK /\ "relHost" \in Handler /\ ~Leaving(t)
  BY DEF LockInv, Handler, RelReadCas, Leaving
<1>2. CASE state # seen[t]
  BY <1>2, DecideBook DEF RelReadCas, hostVars
<1>3. CASE state = seen[t]
  <2>1. /\ Goto(t, "relHost")
        /\ state' = [state EXCEPT !.count = @ - 1]
        /\ robbed' = IF Holds(t) THEN robbed ELSE robbed + 1
        /\ UNCHANGED <<reads, wrote, spurious, hostWriter>>
    BY <1>3 DEF RelReadCas, hostVars
  <2>2. hostWriter = NoThread
    BY <1>3, ReadCommitNoWriter DEF RelReadCas
  <2>3. ~wrote[t]
    BY <2>2, ThreadsAssumption DEF LockInv, WritePathOwned
  <2>4. state \in Word /\ ~state.write /\ state.count > 0
    BY <1>1, <1>3 DEF LockInv, LocalCopies, RelReadCas, TypeOK
  <2>5. WordReads \in Nat /\ WordReads > 0 /\ WordReads' = WordReads - 1
    BY <2>1, <2>4 DEF WordReads, Word
  <2>6. \A u \in Threads \ {t} : /\ Standing(u)' = Standing(u)
                                 /\ (u \in Doomed)' = (u \in Doomed)
    BY <1>1, <2>1, OthersStand
  <2>7. pc'[t] = "relHost" /\ reads[t] \in Nat
    BY <1>1, <2>1 DEF TypeOK, Goto
  <2>8. Doomed' = Doomed
    <3>1. t \notin Doomed /\ ~(t \in Doomed)'
      BY <1>1, <2>7 DEF Doomed
    <3>2. QED
      BY <2>6, <3>1, DoomedMove
  <2>9. /\ Cardinality(Booked) \in Nat /\ Cardinality(Doomed) \in Nat
        /\ robbed \in Nat /\ spurious \in Nat
    BY <1>1, DoomedFinite, FS_CardinalityType DEF BookInv, TypeOK
  <2>10. \A u \in Threads :
           hostWriter' = u /\ pc'[u] \in {"relClear", "relHost"} => wrote'[u]
    BY <1>1, <2>1, <2>2, ThreadsAssumption, WriterKnows
  <2>11. CASE reads[t] > 0
    <3>1. Standing(t) = reads[t] /\ Standing(t)' = reads[t] - 1 /\ robbed' = robbed
      BY <1>1, <2>1, <2>3, <2>7, <2>11 DEF Standing, Leaving, Holds
    <3>2. /\ IsFiniteSet(Booked') /\ Cardinality(Booked') = Cardinality(Booked) - 1
          /\ Cardinality(Booked') \in Nat
      BY <1>1, <2>6, <2>7, <2>11, <3>1, BookLess DEF BookInv
    <3>3. /\ WordReads' <= Cardinality(Booked')
          /\ WordReads' + robbed' = Cardinality(Booked') + Cardinality(Doomed') + spurious'
      BY <2>1, <2>5, <2>8, <2>9, <3>1, <3>2 DEF BookInv
    <3>4. QED
      BY <2>10, <3>2, <3>3 DEF BookInv
  <2>12. CASE reads[t] = 0
    <3>1. Standing(t) = reads[t] /\ Standing(t)' = reads[t] /\ robbed' = robbed + 1
      BY <1>1, <2>1, <2>3, <2>7, <2>12 DEF Standing, Leaving, Holds
    <3>2. Booked' = Booked
      BY <1>1, <2>6, <3>1, BookSame
    <3>3. /\ WordReads' <= Cardinality(Booked')
          /\ WordReads' + robbed' = Cardinality(Booked') + Cardinality(Doomed') + spurious'
      BY <2>1, <2>5, <2>8, <2>9, <3>1, <3>2 DEF BookInv
    <3>4. QED
      BY <2>10, <3>2, <3>3 DEF BookInv
  <2>13. QED
    BY <2>7, <2>11, <2>12
<1>4. QED
  BY <1>2, <1>3

\* The other steps of a release.
LEMMA RelOwnerBook ==
  ASSUME LockInv, BookInv, TypeOK', NEW t \in Threads, RelOwner(t)
  PROVE  BookInv'
<1>1. TypeOK /\ "relWriteCas" \in Handler /\ pc[t] = "relOwner"
  BY DEF LockInv, Handler, RelOwner
<1>2. WordReads' = WordReads
  BY DEF RelOwner, WordReads
<1>3. CASE owner = t
  <2>1. hostWriter = t
    <3>1. hostWriter \in Threads
      BY <1>1, <1>3, ThreadsAssumption DEF LockInv, ReadersCounted, TypeOK
    <3>2. owner \in {hostWriter, NoThread}
      BY <3>1 DEF LockInv, WriterRecord, Uncounted
    <3>3. QED
      BY <1>3, <3>2, ThreadsAssumption
  <2>2. wrote[t]
    BY <1>1, <2>1 DEF LockInv, WriterRecord, Uncounted
  <2>3. QED
    BY <1>1, <1>2, <1>3, <2>2, BookQuiet DEF RelOwner, hostVars, guestVars, Leaving
<1>4. CASE owner # t
  BY <1>1, <1>4, WriterReads, BookRefused DEF RelOwner, hostVars
<1>5. QED
  BY <1>3, <1>4

LEMMA RelHostBook ==
  ASSUME LockInv, BookInv, TypeOK', NEW t \in Threads, RelHost(t)
  PROVE  BookInv'
<1>1. /\ TypeOK /\ "idle" \in Handler /\ pc[t] = "relHost" /\ Goto(t, "idle")
      /\ UNCHANGED <<robbed, spurious>> /\ WordReads' = WordReads
  BY DEF LockInv, Handler, RelHost, WordReads
<1>2. hostWriter' \in {hostWriter, NoThread}
  BY DEF RelHost, HostUnlock
<1>3. \A u \in Threads \ {t} : reads'[u] = reads[u] /\ wrote'[u] = wrote[u]
  BY <1>1 DEF RelHost, BookUnlock, TypeOK
<1>4. \A u \in Threads \ {t} : /\ Standing(u)' = Standing(u)
                               /\ (u \in Doomed)' = (u \in Doomed)
  BY <1>1, <1>3, OthersStand
<1>5. /\ reads[t] \in Nat /\ pc'[t] = "idle"
      /\ reads'[t] = IF wrote[t] THEN reads[t] ELSE IF reads[t] > 0 THEN reads[t] - 1 ELSE 0
  BY <1>1 DEF RelHost, BookUnlock, TypeOK, Goto
<1>6. Standing(t)' = Standing(t) /\ t \notin Doomed /\ ~(t \in Doomed)'
  BY <1>1, <1>5 DEF Standing, Leaving, Doomed
<1>7. Booked' = Booked
  BY <1>1, <1>4, <1>6, BookSame
<1>8. Doomed' = Doomed
  BY <1>4, <1>6, DoomedMove
<1>9. \A u \in Threads :
        hostWriter' = u /\ pc'[u] \in {"relClear", "relHost"} => wrote'[u]
  BY <1>1, <1>2, <1>3, WriterKnows
<1>10. QED
  BY <1>1, <1>7, <1>8, <1>9 DEF BookInv

LEMMA ReleaseBook ==
  ASSUME LockInv, BookInv, TypeOK', NEW t \in Threads, Release(t)
  PROVE  BookInv'
<1>1. CASE RelLoad(t)
  BY <1>1, DecideBook DEF RelLoad, hostVars
<1>2. CASE RelClear(t)
  <2>1. TypeOK /\ "relHost" \in Handler /\ ~Leaving(t) /\ wrote[t]
    BY <1>2 DEF LockInv, Handler, RelClear, Leaving, WritePathOwned, BookInv
  <2>2. QED
    BY <1>2, <2>1, BookQuiet DEF RelClear, hostVars, guestVars, WordReads
<1>3. QED
  BY <1>1, <1>2, RelOwnerBook, WriteBook, RelReadCasBook, RelHostBook DEF Release

\* A hold that moves with its fiber changes hands in the book.
LEMMA FiberMovesBook ==
  ASSUME LockInv, BookInv, TypeOK', NEW t \in Threads, NEW u \in Threads, FiberMoves(t, u)
  PROVE  BookInv'
<1> USE DEF FiberMoves
<1>1. TypeOK
  BY DEF LockInv
<1>2. \A v \in Threads : Standing(v) \in Nat /\ Standing(v)' \in Nat
  BY <1>1 DEF TypeOK, Standing, Leaving
<1>3. /\ Standing(t) > 0 /\ Standing(t)' = Standing(t) - 1
      /\ Standing(u)' = Standing(u) + 1
      /\ \A v \in Threads \ {t, u} : Standing(v)' = Standing(v)
  BY <1>1 DEF TypeOK, Standing, Leaving
<1>4. Doomed' = Doomed
  BY <1>1 DEF TypeOK, Doomed, Leaving
<1> DEFINE h == <<t, Standing(t)>>
           g == <<u, Standing(u) + 1>>
<1>5. h \in Booked /\ g \in Threads \X (Nat \ {0}) /\ g \notin Booked \ {h}
  BY <1>2, <1>3 DEF Booked
<1>6. Booked' = (Booked \ {h}) \cup {g}
  <2>1. ASSUME NEW x \in Threads \X (Nat \ {0})
        PROVE  x[2] <= Standing(x[1])' <=> (x[2] <= Standing(x[1]) /\ x # h) \/ x = g
    <3>1. x[1] \in Threads /\ x[2] \in Nat \ {0} /\ x = <<x[1], x[2]>>
      OBVIOUS
    <3>2. CASE x[1] = t
      BY <1>2, <1>3, <3>1, <3>2
    <3>3. CASE x[1] = u
      BY <1>2, <1>3, <3>1, <3>3
    <3>4. CASE x[1] \notin {t, u}
      BY <1>3, <3>1, <3>4
    <3>5. QED
      BY <3>2, <3>3, <3>4
  <2>2. QED
    BY <1>5, <2>1 DEF Booked
<1>7. IsFiniteSet(Booked \ {h}) /\ Cardinality(Booked \ {h}) = Cardinality(Booked) - 1
  BY <1>5, FS_RemoveElement DEF BookInv
<1>8. IsFiniteSet(Booked') /\ Cardinality(Booked') = Cardinality(Booked \ {h}) + 1
  BY <1>5, <1>6, <1>7, FS_AddElement
<1>9. Cardinality(Booked) \in Nat
  BY FS_CardinalityType DEF BookInv
<1>10. Cardinality(Booked') = Cardinality(Booked)
  BY <1>7, <1>8, <1>9
<1>11. QED
  BY <1>4, <1>8, <1>10 DEF BookInv, WordReads, hostVars

LEMMA BookStep == LockInv /\ BookInv /\ TypeOK' /\ [Next]_vars => BookInv'
<1> SUFFICES ASSUME LockInv, BookInv, TypeOK', [Next]_vars PROVE BookInv'
  OBVIOUS
<1>1. ASSUME NEW t \in Threads, Acquire(t) PROVE BookInv'
  BY <1>1, AcquireBook, RdCountedBook, WriteBook DEF Acquire
<1>2. CASE UNCHANGED vars
  <2>1. UNCHANGED <<Booked, Doomed, WordReads>>
    BY <1>2 DEF vars, guestVars, Booked, Standing, Leaving, Doomed, WordReads
  <2>2. QED
    BY <1>2, <2>1 DEF vars, hostVars, guestVars, BookInv
<1>3. QED
  BY <1>1, <1>2, AcquireBook, ReleaseBook, FiberMovesBook DEF Next

\* A guest's own unlock is refused only when another thread's unmatched unlock
\* consumed a hold before it.
THEOREM RefusalsAreRobberies == Spec => []RefusedOnlyIfRobbed
<1>1. Init => BookInv
  <2> SUFFICES ASSUME Init PROVE BookInv
    OBVIOUS
  <2>1. \A t \in Threads : ~Leaving(t) /\ Standing(t) = 0
    BY DEF Init, Leaving, Standing
  <2>2. Booked = {} /\ Doomed = {}
    BY <2>1 DEF Booked, Doomed
  <2>3. QED
    BY <2>2, FS_EmptySet DEF Init, BookInv, WordReads, Unheld
<1>2. LockInv /\ LockInv' /\ BookInv /\ [Next]_vars => BookInv'
  BY BookStep DEF LockInv
<1>3. LockInv /\ BookInv => RefusedOnlyIfRobbed
  <2> SUFFICES ASSUME LockInv, BookInv PROVE RefusedOnlyIfRobbed
    OBVIOUS
  <2>1. /\ Cardinality(Booked) \in Nat /\ Cardinality(Doomed) \in Nat
        /\ robbed \in Nat /\ spurious \in Nat /\ WordReads \in Nat
    BY DoomedFinite, FS_CardinalityType DEF LockInv, TypeOK, Word, WordReads, BookInv
  <2>2. QED
    BY <2>1 DEF BookInv, RefusedOnlyIfRobbed
<1>4. QED
  BY <1>1, <1>2, <1>3, LockInvariant, PTL DEF Spec

=============================================================================
