------------------------------- MODULE RwLock -------------------------------
(***************************************************************************)
(* The guest reader/writer lock of prosper (src/hle/hle_kernel.cpp): a     *)
(* host pthread_rwlock_t plus one atomic word WRITE|COUNT and an owner     *)
(* word, which together decide whether a guest unlock may be forwarded to  *)
(* the host lock.  glibc keeps no account that survives an unlock of a     *)
(* lock nobody holds, so the handlers must never forward one.              *)
(*                                                                         *)
(* Every access to an atomic and every call into the host lock is a step   *)
(* of its own.  The host lock is external: `hostReaders' and `hostWriter'  *)
(* behave as glibc's, including what an unlock does when nothing is held   *)
(* (it takes the reader path and the reader count goes negative).          *)
(***************************************************************************)
EXTENDS Integers, FiniteSets

CONSTANTS
  Threads,    \* host threads that run guest code
  NoThread,   \* owner 0: no thread
  MaxCalls    \* bound: rwlock calls each thread makes

ASSUME ThreadsAssumption == IsFiniteSet(Threads) /\ NoThread \notin Threads
ASSUME MaxCallsAssumption == MaxCalls \in Nat

VARIABLES
  state,        \* GuestRwlock::state, the word WRITE|COUNT
  owner,        \* GuestRwlock::owner
  hostReaders,  \* read holds outstanding in the host lock
  hostWriter,   \* the host lock's current writer
  pc,           \* where each thread is in its handler
  seen,         \* each thread's local copy `s' of the word
  patient,      \* FALSE for a try or a timed acquisition
  calls,        \* calls made so far
  reads,        \* history: read holds each thread's guest code was granted
  wrote,        \* history: write hold each thread's guest code was granted
  robbed,       \* history: read holds released by a thread that had none
  spurious      \* history: unlocks refused to a thread that had a hold

hostVars == <<hostReaders, hostWriter>>
guestVars == <<reads, wrote, robbed, spurious>>
vars == <<state, owner, hostVars, pc, seen, patient, calls, guestVars>>

Word == [write : BOOLEAN, count : Nat]
Unheld == [write |-> FALSE, count |-> 0]

Handler ==
  {"idle", "rdHost", "rdCount", "wrHost", "wrOwner", "wrLoad", "wrCas",
   "relLoad", "relOwner", "relWriteCas", "relReadCas", "relClear", "relHost"}

Init ==
  /\ state = Unheld
  /\ owner = NoThread
  /\ hostReaders = 0
  /\ hostWriter = NoThread
  /\ pc = [t \in Threads |-> "idle"]
  /\ seen = [t \in Threads |-> Unheld]
  /\ patient = [t \in Threads |-> TRUE]
  /\ calls = [t \in Threads |-> 0]
  /\ reads = [t \in Threads |-> 0]
  /\ wrote = [t \in Threads |-> FALSE]
  /\ robbed = 0
  /\ spurious = 0

Goto(t, label) == pc' = [pc EXCEPT ![t] = label]

(***************************************************************************)
(* The guest makes a call.  A thread may unlock at any time, holding or    *)
(* not: refusing the unmatched unlock is what the accounting is for.       *)
(***************************************************************************)
Call(t, label, waits) ==
  /\ pc[t] = "idle"
  /\ calls[t] < MaxCalls
  /\ calls' = [calls EXCEPT ![t] = @ + 1]
  /\ patient' = [patient EXCEPT ![t] = waits]
  /\ Goto(t, label)
  /\ UNCHANGED <<state, owner, hostVars, seen, guestVars>>

CallRdlock(t) == \E waits \in BOOLEAN : Call(t, "rdHost", waits)
CallWrlock(t) == \E waits \in BOOLEAN : Call(t, "wrHost", waits)
CallUnlock(t) == Call(t, "relLoad", TRUE)

(***************************************************************************)
(* The host lock.                                                          *)
(***************************************************************************)
HostReadable == hostWriter = NoThread
HostWritable == hostWriter = NoThread /\ hostReaders = 0

\* pthread_rwlock_unlock: the current writer releases its write hold, any
\* other caller is taken for a reader and subtracted from the reader count.
HostUnlock(t) ==
  IF hostWriter = t
  THEN /\ hostWriter' = NoThread
       /\ UNCHANGED hostReaders
  ELSE /\ hostReaders' = hostReaders - 1
       /\ UNCHANGED hostWriter

(***************************************************************************)
(* Acquisition: rdlock, tryrdlock and the timed read forms.                *)
(***************************************************************************)
\* Wrong variant: an acquisition that forgets rw_acquired.
RdGrantedUncounted(t) ==
  /\ pc[t] = "rdHost"
  /\ HostReadable
  /\ hostReaders' = hostReaders + 1
  /\ reads' = [reads EXCEPT ![t] = @ + 1]
  /\ Goto(t, "idle")
  /\ UNCHANGED <<state, owner, hostWriter, seen, patient, calls,
                 wrote, robbed, spurious>>

RdGranted(t) ==
  /\ pc[t] = "rdHost"
  /\ HostReadable
  /\ hostReaders' = hostReaders + 1
  /\ Goto(t, "rdCount")
  /\ UNCHANGED <<state, owner, hostWriter, seen, patient, calls, guestVars>>

\* rw_acquired(g, false), then the handler returns 0.
RdCounted(t) ==
  /\ pc[t] = "rdCount"
  /\ state' = [state EXCEPT !.count = @ + 1]
  /\ reads' = [reads EXCEPT ![t] = @ + 1]
  /\ Goto(t, "idle")
  /\ UNCHANGED <<owner, hostVars, seen, patient, calls, wrote, robbed, spurious>>

WrGranted(t) ==
  /\ pc[t] = "wrHost"
  /\ HostWritable
  /\ hostWriter' = t
  /\ Goto(t, "wrOwner")
  /\ UNCHANGED <<state, owner, hostReaders, seen, patient, calls, guestVars>>

\* Wrong variant: the owner is never stored.
WrOwnerUnstored(t) ==
  /\ pc[t] = "wrOwner"
  /\ Goto(t, "wrLoad")
  /\ UNCHANGED <<state, owner, hostVars, seen, patient, calls, guestVars>>

\* rw_acquired(g, true): the owner is stored before WRITE becomes visible.
WrOwner(t) ==
  /\ pc[t] = "wrOwner"
  /\ owner' = t
  /\ Goto(t, "wrLoad")
  /\ UNCHANGED <<state, hostVars, seen, patient, calls, guestVars>>

WrLoad(t) ==
  /\ pc[t] = "wrLoad"
  /\ seen' = [seen EXCEPT ![t] = state]
  /\ Goto(t, "wrCas")
  /\ UNCHANGED <<state, owner, hostVars, patient, calls, guestVars>>

WrCas(t) ==
  /\ pc[t] = "wrCas"
  /\ IF state = seen[t]
     THEN /\ state' = [write |-> TRUE, count |-> seen[t].count + 1]
          /\ wrote' = [wrote EXCEPT ![t] = TRUE]
          /\ Goto(t, "idle")
          /\ UNCHANGED seen
     ELSE /\ seen' = [seen EXCEPT ![t] = state]
          /\ UNCHANGED <<state, wrote, pc>>
  /\ UNCHANGED <<owner, hostVars, patient, calls, reads, robbed, spurious>>

\* The host refuses: EDEADLK to the current writer, EBUSY to a try form or
\* ETIMEDOUT to a timed one while the lock is not available.  No hold is
\* recorded and the guest is told.
Refused(t) ==
  /\ \/ pc[t] = "rdHost" /\ ~HostReadable
     \/ pc[t] = "wrHost" /\ ~HostWritable
  /\ hostWriter = t \/ ~patient[t]
  /\ Goto(t, "idle")
  /\ UNCHANGED <<state, owner, hostVars, seen, patient, calls, guestVars>>

(***************************************************************************)
(* Release: rw_release, then the forwarded host unlock.                    *)
(***************************************************************************)
\* What the guest's own book says after an unlock returned.
BookUnlock(t) ==
  IF wrote[t]
  THEN wrote' = [wrote EXCEPT ![t] = FALSE] /\ UNCHANGED reads
  ELSE /\ reads' = [reads EXCEPT ![t] = IF @ > 0 THEN @ - 1 ELSE 0]
       /\ UNCHANGED wrote

Holds(t) == wrote[t] \/ reads[t] > 0

\* rw_release returned EPERM: the host lock is not touched.
UnlockRefused(t) ==
  /\ spurious' = IF Holds(t) THEN spurious + 1 ELSE spurious
  /\ BookUnlock(t)
  /\ Goto(t, "idle")
  /\ UNCHANGED robbed

\* Wrong variant: the count is not tested before it is decremented.
DecideUntested(t) ==
  /\ Goto(t, IF state.write THEN "relOwner" ELSE "relReadCas")
  /\ UNCHANGED guestVars

\* The branches rw_release takes on the value it has in hand.
Decide(t) ==
  \/ /\ state.write
     /\ Goto(t, "relOwner")
     /\ UNCHANGED guestVars
  \/ /\ ~state.write /\ state.count = 0
     /\ UnlockRefused(t)
  \/ /\ ~state.write /\ state.count > 0
     /\ Goto(t, "relReadCas")
     /\ UNCHANGED guestVars

RelLoad(t) ==
  /\ pc[t] = "relLoad"
  /\ seen' = [seen EXCEPT ![t] = state]
  /\ Decide(t)
  /\ UNCHANGED <<state, owner, hostVars, patient, calls>>

\* Wrong variant: any thread may release the write hold.
RelOwnerUnchecked(t) ==
  /\ pc[t] = "relOwner"
  /\ Goto(t, "relWriteCas")
  /\ UNCHANGED <<state, owner, hostVars, seen, patient, calls, guestVars>>

RelOwner(t) ==
  /\ pc[t] = "relOwner"
  /\ IF owner = t
     THEN Goto(t, "relWriteCas") /\ UNCHANGED guestVars
     ELSE UnlockRefused(t)
  /\ UNCHANGED <<state, owner, hostVars, seen, patient, calls>>

\* Wrong variant: releasing the write hold leaves the count behind.
DecrementedNot(n) == n

\* The decrement is guarded so that a count of 0 cannot wrap.
Decremented(n) == IF n > 0 THEN n - 1 ELSE 0

RelWriteCas(t) ==
  /\ pc[t] = "relWriteCas"
  /\ IF state = seen[t]
     THEN /\ state' = [write |-> FALSE, count |-> Decremented(seen[t].count)]
          /\ Goto(t, "relClear")
          /\ UNCHANGED <<seen, guestVars>>
     ELSE /\ seen' = [seen EXCEPT ![t] = state]
          /\ Decide(t)
          /\ UNCHANGED state
  /\ UNCHANGED <<owner, hostVars, patient, calls>>

\* Wrong variant: WRITE and COUNT in two atomics, only COUNT compared.
RelReadCasTorn(t) ==
  /\ pc[t] = "relReadCas"
  /\ IF state.count = seen[t].count
     THEN /\ state' = [state EXCEPT !.count = @ - 1]
          /\ robbed' = IF Holds(t) THEN robbed ELSE robbed + 1
          /\ Goto(t, "relHost")
          /\ UNCHANGED <<seen, reads, wrote, spurious>>
     ELSE /\ seen' = [seen EXCEPT ![t] = state]
          /\ Decide(t)
          /\ UNCHANGED state
  /\ UNCHANGED <<owner, hostVars, patient, calls>>

RelReadCas(t) ==
  /\ pc[t] = "relReadCas"
  /\ IF state = seen[t]
     THEN /\ state' = [state EXCEPT !.count = @ - 1]
          /\ robbed' = IF Holds(t) THEN robbed ELSE robbed + 1
          /\ Goto(t, "relHost")
          /\ UNCHANGED <<seen, reads, wrote, spurious>>
     ELSE /\ seen' = [seen EXCEPT ![t] = state]
          /\ Decide(t)
          /\ UNCHANGED state
  /\ UNCHANGED <<owner, hostVars, patient, calls>>

\* Wrong variant: the owner word outlives the write hold.
RelClearSkipped(t) ==
  /\ pc[t] = "relClear"
  /\ Goto(t, "relHost")
  /\ UNCHANGED <<state, owner, hostVars, seen, patient, calls, guestVars>>

\* The owner word is cleared before the host lock is given up.
RelClear(t) ==
  /\ pc[t] = "relClear"
  /\ owner' = NoThread
  /\ Goto(t, "relHost")
  /\ UNCHANGED <<state, hostVars, seen, patient, calls, guestVars>>

\* Wrong variant: the release is recorded and never forwarded.
RelHostSwallowed(t) ==
  /\ pc[t] = "relHost"
  /\ BookUnlock(t)
  /\ Goto(t, "idle")
  /\ UNCHANGED <<state, owner, hostVars, seen, patient, calls, robbed, spurious>>

RelHost(t) ==
  /\ pc[t] = "relHost"
  /\ HostUnlock(t)
  /\ BookUnlock(t)
  /\ Goto(t, "idle")
  /\ UNCHANGED <<state, owner, seen, patient, calls, robbed, spurious>>

\* A fiber that read-locked and yielded is resumed on another host thread:
\* the hold it will release moves with it.  No handler runs.
FiberMoves(t, u) ==
  /\ t # u
  /\ pc[t] = "idle" /\ pc[u] = "idle"
  /\ reads[t] > 0
  /\ reads' = [reads EXCEPT ![t] = @ - 1, ![u] = @ + 1]
  /\ UNCHANGED <<state, owner, hostVars, pc, seen, patient, calls,
                 wrote, robbed, spurious>>

-----------------------------------------------------------------------------
Acquire(t) ==
  \/ RdGranted(t) \/ RdCounted(t)
  \/ WrGranted(t) \/ WrOwner(t) \/ WrLoad(t) \/ WrCas(t)
  \/ Refused(t)

Release(t) ==
  \/ RelLoad(t) \/ RelOwner(t)
  \/ RelWriteCas(t) \/ RelReadCas(t)
  \/ RelClear(t) \/ RelHost(t)

Next ==
  \/ \E t \in Threads :
       \/ CallRdlock(t) \/ CallWrlock(t) \/ CallUnlock(t)
       \/ Acquire(t) \/ Release(t)
  \/ \E t, u \in Threads : FiberMoves(t, u)

Spec == Init /\ [][Next]_vars

\* A thread inside a handler is scheduled; the guest owes no further call.
FairSpec == Spec /\ \A t \in Threads : WF_vars(Acquire(t) \/ Release(t))

-----------------------------------------------------------------------------
\* Every variable has its type.
TypeOK ==
  /\ state \in Word
  /\ owner \in Threads \cup {NoThread}
  /\ hostReaders \in Int
  /\ hostWriter \in Threads \cup {NoThread}
  /\ pc \in [Threads -> Handler]
  /\ seen \in [Threads -> Word]
  /\ patient \in [Threads -> BOOLEAN]
  /\ calls \in [Threads -> Nat]
  /\ reads \in [Threads -> Nat]
  /\ wrote \in [Threads -> BOOLEAN]
  /\ robbed \in Nat
  /\ spurious \in Nat

\* Threads between the host granting a hold and COUNT recording it, or
\* between COUNT dropping it and the host lock being told.
Uncounted ==
  {t \in Threads : pc[t] \in {"rdCount", "wrOwner", "wrLoad", "wrCas",
                              "relClear", "relHost"}}

HostHolds == hostReaders + (IF hostWriter = NoThread THEN 0 ELSE 1)

\* COUNT equals the outstanding host holds, up to the threads caught between
\* the two; so an unmatched unlock never reaches the host lock and its reader
\* count never goes negative (the corruption of issue 2012).
AccountingExact ==
  /\ hostReaders >= 0
  /\ state.count + Cardinality(Uncounted) = HostHolds

\* A writer that owns the host lock finds the word empty when it comes to
\* publish WRITE, as the comment in rw_acquired argues.
WriterFindsIdleWord ==
  \A t \in Threads : pc[t] \in {"wrLoad", "wrCas"} => state = Unheld

\* A write hold granted to a guest thread is not stolen by any interleaving
\* of stray unlocks: until that thread itself unlocks, the host lock is its
\* own, the word says so, and no unlock of its own would be refused.
WriteHoldNotStolen ==
  \A t \in Threads :
    wrote[t] /\ pc[t] \notin {"relClear", "relHost"} =>
      /\ hostWriter = t /\ hostReaders = 0
      /\ state = [write |-> TRUE, count |-> 1]
      /\ owner = t

\* A guest's own unlock is refused only when an unmatched unlock of another
\* thread consumed a hold before it.
RefusedOnlyIfRobbed == spurious <= robbed

\* No reader-path decrement commits while the host lock is write-held (step 8
\* of the interleaving that broke the earlier two-word version).
ReadReleaseNeverHitsWriter ==
  [][\A t \in Threads :
       pc[t] = "relReadCas" /\ pc'[t] = "relHost" => hostWriter = NoThread]_vars

\* Whatever unlocks the guest makes, the calls that reach the host lock are
\* those of callers that keep POSIX's rules: the guarded handlers implement
\* the ideal lock on the host's.
Ideal == INSTANCE IdealRwLock WITH readers <- hostReaders, writer <- hostWriter
HostLockIdeal == Ideal!Spec

\* Once the calls are over, a thread stays parked in the host lock only
\* behind a hold that COUNT records: no unlock leaves the lock unacquirable.
ParkedOnlyBehindHold ==
  <>[](\A t \in Threads : pc[t] \in {"rdHost", "wrHost"} => state.count > 0)

-----------------------------------------------------------------------------
(***************************************************************************)
(* The inductive invariant behind the safety properties.                   *)
(***************************************************************************)
\* What a thread's copy of the word says where rw_release uses it.
LocalCopies ==
  \A t \in Threads :
    pc[t] = "relReadCas" => ~seen[t].write /\ seen[t].count > 0

\* While the host lock has no writer, the word counts its readers.
ReadersCounted ==
  hostWriter = NoThread =>
    /\ ~state.write /\ owner = NoThread
    /\ hostReaders >= 0
    /\ state.count + Cardinality(Uncounted) = hostReaders

\* While it has one, nobody else is between the word and the host lock.
WriterAlone ==
  hostWriter # NoThread => hostReaders = 0 /\ Uncounted \subseteq {hostWriter}

\* What word and owner say at each place the host lock's writer can be.
WriterRecord ==
  \A t \in Threads : hostWriter = t =>
    /\ pc[t] \notin {"rdCount", "relReadCas"}
    /\ pc[t] \in {"wrLoad", "wrCas", "relClear"} => state = Unheld /\ owner = t
    /\ pc[t] \in {"wrOwner", "relHost"} => state = Unheld /\ owner = NoThread
    /\ pc[t] \in {"wrOwner", "wrLoad", "wrCas"} => ~wrote[t]
    /\ t \notin Uncounted =>
         state = [write |-> TRUE, count |-> 1] /\ owner = t /\ wrote[t]

\* Only the host lock's writer is on the write path or told it holds it.
WritePathOwned ==
  \A t \in Threads :
    \/ pc[t] \in {"wrOwner", "wrLoad", "wrCas", "relWriteCas", "relClear"}
    \/ wrote[t]
    => hostWriter = t

LockInv ==
  /\ TypeOK
  /\ LocalCopies
  /\ ReadersCounted
  /\ WriterAlone
  /\ WriterRecord
  /\ WritePathOwned

=============================================================================
