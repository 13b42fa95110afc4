----------------------------- MODULE WaitObject -----------------------------
(***************************************************************************)
(* The kernel event flag and semaphore of prosper (src/hle/hle_kernel.cpp):*)
(* a value, a mutex and a condvar, and the pair `deleted', `waiters' that  *)
(* lets a Delete free the object although threads are parked in it: Delete *)
(* wakes them all, and the last one out frees.                             *)
(*                                                                         *)
(* Between taking the mutex and giving it up, by unlocking it or by        *)
(* waiting on the condvar, a handler is one step: nothing else touches the *)
(* object meanwhile.  The condvar is external: a broadcast wakes every     *)
(* parked thread (module CondSlots shows it for Windows), and a wait may   *)
(* also return when its time is up, or for no reason.                      *)
(*                                                                         *)
(* The guest deletes an object when every thread that still has a call in  *)
(* it is counted as a waiter, and does not use it afterwards.              *)
(***************************************************************************)
EXTENDS Integers, FiniteSets

CONSTANTS
  Threads,
  NoRequest,
  Bits,         \* bits of an event flag
  FlagRequests, \* arguments of the flag waits the guest makes
  Masks,        \* patterns it sets and clears
  Needs,        \* semaphore units a wait asks for, and a signal puts
  MaxCalls      \* bound: calls in all

FlagRequest == [pattern : SUBSET Bits, all : BOOLEAN, clear : {"none", "all", "pattern"}]

ASSUME ThreadsAssumption == IsFiniteSet(Threads)
ASSUME BitsAssumption == FlagRequests \subseteq FlagRequest /\ Masks \subseteq SUBSET Bits
ASSUME NeedsAssumption == Needs \subseteq Nat \ {0} /\ MaxCalls \in Nat

VARIABLES
  kind,     \* "flag" or "sema"
  bits,     \* EventFlag::bits, as the set of bits that are 1
  count,    \* Sema::count
  deleted,
  waiters,
  freed,    \* times ef_destroy or sema_destroy freed the storage
  pc,
  request,  \* what each thread in a wait asks for
  deadline, \* its wait's deadline: "none", "ahead" or "past"
  surplus,  \* history: times each bit was set, less times it was consumed
  stock,    \* history: units signalled, less units granted
  calls

value == <<bits, count>>
history == <<surplus, stock>>
vars == <<kind, value, deleted, waiters, freed, pc, request, deadline, history, calls>>

Requests == IF kind = "flag" THEN FlagRequests ELSE Needs

Counted == {"parked", "woken", "expired"}

Init ==
  /\ \/ kind = "flag" /\ bits \in Masks \cup {{}} /\ count = 0
     \/ kind = "sema" /\ bits = {} /\ count \in {0, 1}
  /\ deleted = FALSE
  /\ waiters = 0
  /\ freed = 0
  /\ pc = [t \in Threads |-> "idle"]
  /\ request = [t \in Threads |-> NoRequest]
  /\ deadline = [t \in Threads |-> "none"]
  /\ surplus = [b \in Bits |-> IF b \in bits THEN 1 ELSE 0]
  /\ stock = count
  /\ calls = 0

(***************************************************************************)
(* The value: evf_match, the clear modes, and the semaphore's count.       *)
(***************************************************************************)
Satisfied(r) ==
  IF kind = "sema" THEN count >= r
  ELSE IF r.all THEN r.pattern \subseteq bits ELSE r.pattern \cap bits # {}

Cleared(r) == CASE r.clear = "all" -> bits
                [] r.clear = "pattern" -> bits \cap r.pattern
                [] r.clear = "none" -> {}

\* What a wait or a poll that answers 0 takes.
Take(r) ==
  IF kind = "sema"
  THEN /\ count' = count - r
       /\ stock' = stock - r
       /\ UNCHANGED <<bits, surplus>>
  ELSE /\ bits' = bits \ Cleared(r)
       /\ surplus' = [b \in Bits |-> IF b \in Cleared(r) THEN surplus[b] - 1 ELSE surplus[b]]
       /\ UNCHANGED <<count, stock>>

TakeNothing == UNCHANGED <<value, history>>

Goto(t, label) == pc' = [pc EXCEPT ![t] = label]

\* interruptible_cond_broadcast by thread t, which goes on to label.
Broadcast(t, label) ==
  pc' = [w \in Threads |-> IF w = t THEN label
                           ELSE IF pc[w] = "parked" THEN "woken" ELSE pc[w]]

\* Wrong variant: one parked thread is woken.
WakeOne(t, label) ==
  \E w \in Threads :
    /\ pc[w] = "parked" \/ ~\E u \in Threads : pc[u] = "parked"
    /\ pc' = [u \in Threads |-> IF u = t THEN label
                                ELSE IF u = w /\ pc[w] = "parked" THEN "woken" ELSE pc[u]]

Called(t) ==
  /\ pc[t] = "idle"
  /\ ~deleted
  /\ calls < MaxCalls
  /\ calls' = calls + 1

(***************************************************************************)
(* k_ef_set, k_sema_signal, k_ef_clear, k_ef_poll, k_sema_poll.            *)
(***************************************************************************)
PutBits == \E m \in Masks :
  /\ bits' = bits \cup m
  /\ surplus' = [b \in Bits |-> IF b \in m THEN surplus[b] + 1 ELSE surplus[b]]
  /\ UNCHANGED <<count, stock>>

PutUnits == \E n \in Needs :
  /\ count' = count + n
  /\ stock' = stock + n
  /\ UNCHANGED <<bits, surplus>>

\* Wrong variant: a set or a signal that wakes one thread only.
PutWakingOne(t) ==
  /\ Called(t)
  /\ IF kind = "flag" THEN PutBits ELSE PutUnits
  /\ WakeOne(t, "idle")
  /\ UNCHANGED <<kind, deleted, waiters, freed, request, deadline>>

Put(t) ==
  /\ Called(t)
  /\ IF kind = "flag" THEN PutBits ELSE PutUnits
  /\ Broadcast(t, "idle")
  /\ UNCHANGED <<kind, deleted, waiters, freed, request, deadline>>

\* k_ef_clear keeps the bits of its argument.
Clear(t) ==
  /\ Called(t)
  /\ kind = "flag"
  /\ \E m \in Masks : bits' = bits \cap m
  /\ UNCHANGED <<kind, count, deleted, waiters, freed, pc, request, deadline, history>>

Poll(t) ==
  /\ Called(t)
  /\ \E r \in Requests : IF Satisfied(r) THEN Take(r) ELSE TakeNothing
  /\ UNCHANGED <<kind, deleted, waiters, freed, pc, request, deadline>>

(***************************************************************************)
(* k_ef_wait and k_sema_wait: `n' is the waiter count with this thread in  *)
(* it, `r' what it asks for and `late' whether its condvar wait timed out. *)
(***************************************************************************)
\* Wrong variant: the loop does not look at ETIMEDOUT.
ReadyWhateverTheTime(r, late) == deleted \/ Satisfied(r)

Ready(r, late) == deleted \/ Satisfied(r) \/ late

\* Wait on the condvar, giving up the mutex.
Park(t, r, d, n, late) ==
  /\ ~Ready(r, late)
  /\ waiters' = n
  /\ Goto(t, "parked")
  /\ request' = [request EXCEPT ![t] = r]
  /\ deadline' = [deadline EXCEPT ![t] = d]
  /\ TakeNothing

\* Wrong variant: a wait takes what it asked for whatever it answers.
LeaveTaking(t, r, n, late) ==
  /\ Ready(r, late)
  /\ Take(r)
  /\ waiters' = n - 1
  /\ Goto(t, IF deleted /\ n = 1 THEN "destroy" ELSE "idle")
  /\ request' = [request EXCEPT ![t] = NoRequest]
  /\ deadline' = [deadline EXCEPT ![t] = "none"]

\* Wrong variant: a timed wait that gives up without uncounting itself.
LeaveCounted(t, r, n, late) ==
  /\ Ready(r, late)
  /\ IF Satisfied(r) /\ ~deleted THEN Take(r) ELSE TakeNothing
  /\ waiters' = IF late THEN n ELSE n - 1
  /\ Goto(t, IF deleted /\ waiters' = 0 THEN "destroy" ELSE "idle")
  /\ request' = [request EXCEPT ![t] = NoRequest]
  /\ deadline' = [deadline EXCEPT ![t] = "none"]

\* Wrong variant: every waiter of a deleted object frees it.
LeaveDestroying(t, r, n, late) ==
  /\ Ready(r, late)
  /\ IF Satisfied(r) /\ ~deleted THEN Take(r) ELSE TakeNothing
  /\ waiters' = n - 1
  /\ Goto(t, IF deleted THEN "destroy" ELSE "idle")
  /\ request' = [request EXCEPT ![t] = NoRequest]
  /\ deadline' = [deadline EXCEPT ![t] = "none"]

\* Answer EACCES if deleted, else 0 if satisfied, else ETIMEDOUT.  The last
\* waiter of a deleted object goes on to free it.
Leave(t, r, n, late) ==
  /\ Ready(r, late)
  /\ IF Satisfied(r) /\ ~deleted THEN Take(r) ELSE TakeNothing
  /\ waiters' = n - 1
  /\ Goto(t, IF deleted /\ n = 1 THEN "destroy" ELSE "idle")
  /\ request' = [request EXCEPT ![t] = NoRequest]
  /\ deadline' = [deadline EXCEPT ![t] = "none"]

EnterWait(t) ==
  /\ Called(t)
  /\ \E r \in Requests, d \in {"none", "ahead"} :
       Park(t, r, d, waiters + 1, FALSE) \/ Leave(t, r, waiters + 1, FALSE)
  /\ UNCHANGED <<kind, deleted, freed>>

ResumeWait(t) ==
  /\ pc[t] \in {"woken", "expired"}
  /\ LET late == pc[t] = "expired" IN
       \/ Park(t, request[t], deadline[t], waiters, late)
       \/ Leave(t, request[t], waiters, late)
  /\ UNCHANGED <<kind, deleted, freed, calls>>

\* The condvar wait returns by itself: ETIMEDOUT once its deadline, which is
\* absolute, has passed, and 0, spuriously, before that.
CondReturns(t) ==
  /\ pc[t] = "parked"
  /\ Goto(t, IF deadline[t] = "past" THEN "expired" ELSE "woken")
  /\ UNCHANGED <<kind, value, deleted, waiters, freed, request, deadline, history, calls>>

DeadlinePasses(t) ==
  /\ deadline[t] = "ahead"
  /\ deadline' = [deadline EXCEPT ![t] = "past"]
  /\ UNCHANGED <<kind, value, deleted, waiters, freed, pc, request, history, calls>>

(***************************************************************************)
(* k_ef_delete, k_sema_delete, and the free outside the critical section.  *)
(***************************************************************************)
\* Wrong variant: one parked thread is woken.
DeleteWakingOne(t) ==
  /\ Called(t)
  /\ deleted' = TRUE
  /\ WakeOne(t, IF waiters > 0 THEN "idle" ELSE "destroy")
  /\ UNCHANGED <<kind, value, waiters, freed, request, deadline, history>>

\* Wrong variant: the object is freed although threads wait in it.
DeleteAtOnce(t) ==
  /\ Called(t)
  /\ deleted' = TRUE
  /\ Broadcast(t, "destroy")
  /\ UNCHANGED <<kind, value, waiters, freed, request, deadline, history>>

Delete(t) ==
  /\ Called(t)
  /\ deleted' = TRUE
  /\ Broadcast(t, IF waiters > 0 THEN "idle" ELSE "destroy")
  /\ UNCHANGED <<kind, value, waiters, freed, request, deadline, history>>

Destroy(t) ==
  /\ pc[t] = "destroy"
  /\ freed' = freed + 1
  /\ Goto(t, "idle")
  /\ UNCHANGED <<kind, value, deleted, waiters, request, deadline, history, calls>>

Next == \E t \in Threads :
  \/ Put(t) \/ Clear(t) \/ Poll(t) \/ EnterWait(t) \/ Delete(t)
  \/ ResumeWait(t) \/ CondReturns(t) \/ DeadlinePasses(t) \/ Destroy(t)

Spec == Init /\ [][Next]_vars

\* A runnable thread is run, time passes, and a wait whose deadline is past
\* returns.  The guest may stop calling, and no wait need return spuriously.
FairSpec ==
  /\ Spec
  /\ \A t \in Threads :
       /\ WF_vars(ResumeWait(t) \/ Destroy(t))
       /\ WF_vars(DeadlinePasses(t))
       /\ WF_vars(deadline[t] = "past" /\ CondReturns(t))

(***************************************************************************)
(* Properties.                                                             *)
(***************************************************************************)
\* Every variable has its type, and `waiters' counts the threads in a wait.
TypeOK ==
  /\ kind \in {"flag", "sema"}
  /\ bits \in SUBSET Bits
  /\ count \in Int
  /\ deleted \in BOOLEAN
  /\ freed \in Nat
  /\ pc \in [Threads -> Counted \cup {"idle", "destroy"}]
  /\ request \in [Threads -> Requests \cup {NoRequest}]
  /\ deadline \in [Threads -> {"none", "ahead", "past"}]
  /\ surplus \in [Bits -> Int]
  /\ stock \in Int
  /\ calls \in 0 .. MaxCalls
  /\ waiters = Cardinality({t \in Threads : pc[t] \in Counted})

\* Freeing under a live wait is a use after free: once the storage is freed
\* no thread is in a handler of the object, and it is freed only once.
FreedUnused ==
  freed > 0 => freed = 1 /\ \A t \in Threads : pc[t] = "idle"

\* No thread sleeps while what it waits for is there, or once the object is
\* deleted: no wakeup falls between a set, a signal or a delete and a sleep.
NoStrandedWaiter ==
  \A t \in Threads : pc[t] = "parked" => ~deleted /\ ~Satisfied(request[t])

\* A semaphore gives out exactly what was put in, never what is not there,
\* and a bit is consumed no more often than it was set: a wait that timed
\* out or found the object deleted takes nothing.
Conserved ==
  /\ count >= 0 /\ count = stock
  /\ \A b \in Bits : surplus[b] >= IF b \in bits THEN 1 ELSE 0

\* A thread in a wait asks for something a wait of this kind can ask for.
WaitersAsk == \A t \in Threads : pc[t] \in Counted => request[t] \in Requests

\* Until Delete nobody frees the object; the thread that is to free it is the
\* only one with the object in its hands, and the first to come to this.
OneDestroyer ==
  /\ ~deleted => freed = 0
  /\ \A t \in Threads : pc[t] = "destroy" =>
       deleted /\ freed = 0 /\ \A u \in Threads \ {t} : pc[u] = "idle"

\* The inductive invariant (module WaitObjectProofs): the safety properties
\* above and what they need to be kept by every step.
ObjectInv ==
  /\ TypeOK
  /\ WaitersAsk
  /\ Conserved
  /\ NoStrandedWaiter
  /\ OneDestroyer
  /\ FreedUnused

\* Delete lets go of every waiter and the object is freed, by the deleter or
\* by the last of them: nothing leaks and nobody stays parked.
DeletedIsFreed == deleted ~> (freed = 1 /\ \A t \in Threads : pc[t] = "idle")

\* A wait with a timeout returns, whatever spurious or useless wakeups it
\* meets before its deadline.
TimedWaitReturns ==
  \A t \in Threads : deadline[t] # "none" ~> pc[t] = "idle"
=============================================================================
