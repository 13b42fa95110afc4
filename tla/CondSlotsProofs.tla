-------------------------- MODULE CondSlotsProofs --------------------------
(***************************************************************************)
(* Proofs about CondSlots, for every set of threads and condvars and any   *)
(* size of the table.  Whatever the guest does the types hold.  For a      *)
(* guest that signals with the mutex held, as the handlers of event flags  *)
(* and semaphores do, and for two threads that use a condvar as they like, *)
(* a condvar is one slot, the slot is kept while it is used and its        *)
(* generation never runs backwards under a waiter; with the mutex held no  *)
(* wakeup is lost.                                                         *)
(***************************************************************************)
EXTENDS CondSlots, FiniteSetTheorems, TLAPS

Uses == {"wait", "signal", "broadcast"}
Using(t) == pc[t] # "idle" /\ op[t] \in Uses
\* A waiter that has given up the mutex.
Outside == {"sleep", "parked", "relock"}
Waiting == {"expect", "register", "unlock", "sleep", "parked", "relock", "unregister"}
Signalling == {"bump", "wake"}
Freeing == {"reset", "free"}
Contending == {"recheck", "yield"}

\* What the place of a thread says of its call, for any guest.
Shape ==
  \A t \in Threads :
    /\ pc[t] \in InLookup => op[t] \in Uses /\ slot[t] = 0
    /\ pc[t] \in Waiting => op[t] = "wait" /\ slot[t] \in Slots
    /\ pc[t] \in Signalling => op[t] \in {"signal", "broadcast", "interrupt"} /\ slot[t] \in Slots
    /\ pc[t] \in {"retire"} \cup Freeing => op[t] = "forget"
    /\ pc[t] = "retire" => slot[t] = 0
    /\ pc[t] \in Freeing => slot[t] \in Slots
    /\ pc[t] \in Contending => claimed[t] \in Slots
    /\ pc[t] \in {"find", "claim", "recheck", "yield"} => tries[t] < Attempts
    /\ IF pc[t] = "idle" \/ op[t] = "interrupt" THEN cond[t] = NoCond ELSE cond[t] \in Conds
    /\ pc[t] = "idle" => slot[t] = 0

FormInv == TypeOK /\ Shape

(***************************************************************************)
(* A guest that signals with the mutex held.                               *)
(***************************************************************************)
\* A thread that uses a condvar has its mutex until it sleeps.
MutexHeld ==
  \A t \in Threads : Using(t) /\ pc[t] \notin Outside => holder[cond[t]] = t

OneOwned ==
  \A r, s \in Slots : owner[r] = owner[s] /\ owner[s] \in Conds => r = s

\* A lookup misses no slot of its condvar, and never has to yield; a slot in
\* use belongs to the condvar it is used for.
Found(t) ==
  /\ slot[t] # 0 => owner[slot[t]] = cond[t]
  /\ pc[t] = "find" => \A s \in Slots : s < idx[t] => owner[s] # cond[t]
  /\ pc[t] = "claim" => \A s \in Slots : owner[s] # cond[t]
  /\ pc[t] = "recheck" => owner[claimed[t]] = cond[t] /\ idx[t] <= claimed[t]
  /\ pc[t] \notin {"yield", "lastFind"}

UsesOwned == \A t \in Threads : Using(t) => Found(t)

\* Nobody uses a condvar that is being destroyed, and a slot is retired once.
ForgetsAlone ==
  \A t \in Threads : pc[t] # "idle" /\ op[t] = "forget" =>
    /\ \A u \in Threads \ {t} : pc[u] # "idle" => cond[u] # cond[t]
    /\ pc[t] \in Freeing =>
         /\ owner[slot[t]] = Retiring
         /\ \A u \in Threads \ {t} : pc[u] \in Freeing => slot[u] # slot[t]

\* A waiter's generation is not ahead of its slot's, and behind it once a
\* signal is about to wake.
Generations ==
  /\ \A w \in Threads :
       pc[w] \in {"register", "unlock", "sleep", "parked"} => expected[w] <= sequence[slot[w]]
  /\ \A t, w \in Threads :
       Using(t) /\ pc[t] = "wake" /\ pc[w] = "sleep" /\ cond[w] = cond[t] =>
         expected[w] < sequence[slot[w]]

Orderly == MutexHeld /\ OneOwned /\ UsesOwned /\ ForgetsAlone /\ Generations
LockedInv == FormInv /\ (guest = "locked" => Orderly)

(***************************************************************************)
(* Two threads at a time, on one condvar, whose lookups may collide.       *)
(***************************************************************************)
\* Two threads at most, one condvar, and none is destroyed.
TwoUsers ==
  \A t, u \in Threads : cond[t] \in Conds /\ cond[u] \in Conds =>
    /\ op[t] # "forget" /\ cond[t] = cond[u]
    /\ \A v \in Threads : cond[v] \in Conds => t = u \/ t = v \/ u = v

\* The slots are taken from the front, and a scan for a free one has met none.
Front ==
  /\ \A r, s \in Slots : r < s /\ owner[s] # NoCond => owner[r] # NoCond
  /\ \A t \in Threads :
       pc[t] = "claim" => \A s \in Slots : s < idx[t] => owner[s] # NoCond

\* A contender has a claim of its own; it has met no lower one, or yields to it.
Claims ==
  \A t \in Threads : pc[t] \in Contending =>
    /\ owner[claimed[t]] = cond[t]
    /\ \A u \in Threads \ {t} : pc[u] \in Contending => claimed[u] # claimed[t]
    /\ pc[t] = "recheck" =>
         idx[t] <= claimed[t] /\ \A s \in Slots : s < idx[t] => owner[s] # cond[t]
    /\ pc[t] = "yield" => \E s \in Slots : s < claimed[t] /\ owner[s] = cond[t]

\* Of two slots of a condvar the upper one is the last that is taken, and only
\* claimed.
Doubles ==
  \A r, s \in Slots : r < s /\ owner[r] = owner[s] /\ owner[s] \in Conds =>
    /\ \E t \in Threads : pc[t] \in Contending /\ claimed[t] = s
    /\ \A q \in Slots : s < q => owner[q] = NoCond

\* A thread that has missed slot s, or given it up: it may go on to claim another.
Past(t, s) ==
  \/ pc[t] \in {"find", "lastFind"} /\ s < idx[t]
  \/ pc[t] = "claim"
  \/ pc[t] \in Contending /\ claimed[t] # s

\* At most one thread has missed a slot of its condvar: the other one of the
\* two claimed it.
OnePast ==
  \A t, u \in Threads, s \in Slots :
    /\ cond[t] \in Conds /\ owner[s] = cond[t] /\ cond[u] = cond[t]
    /\ Past(t, s) /\ Past(u, s)
    => t = u

\* A lookup answers with the lowest slot of its condvar.
Lowest ==
  \A t \in Threads : op[t] \in Uses /\ slot[t] # 0 =>
    owner[slot[t]] = cond[t] /\ \A s \in Slots : s < slot[t] => owner[s] # cond[t]

Paired == TwoUsers /\ Front /\ Claims /\ Doubles /\ OnePast /\ Lowest
PairInv == FormInv /\ (guest = "pair" => Paired)

-----------------------------------------------------------------------------
(***************************************************************************)
(* Types and places, for any guest.                                        *)
(***************************************************************************)
\* The wait registry follows from the threads' places.
Registry == [t \in Threads |-> IF pc[t] \in Registered /\ op[t] = "wait" THEN slot[t] ELSE 0]

\* The rest of TypeOK.
Types ==
  /\ guest \in Guest
  /\ owner \in [Slots -> Conds \cup {NoCond, Retiring}]
  /\ sequence \in [Slots -> Nat]
  /\ holder \in [Conds -> Threads \cup {NoThread}]
  /\ pc \in [Threads -> Handler]
  /\ op \in [Threads -> Op]
  /\ cond \in [Threads -> Conds \cup {NoCond}]
  /\ idx \in [Threads -> 1 .. NSlots + 1]
  /\ claimed \in [Threads -> 0 .. NSlots]
  /\ tries \in [Threads -> 0 .. Attempts]
  /\ slot \in [Threads -> 0 .. NSlots]
  /\ expected \in [Threads -> Nat]
  /\ calls \in 0 .. MaxCalls

LEMMA TypeParts == TypeOK <=> Types /\ waiting = Registry
BY DEF TypeOK, Types, Registry

\* Thread t moves within its wait, or outside of any.
LEMMA RegistryStays ==
  ASSUME waiting = Registry, waiting' = waiting,
         \A u \in Threads :
           (IF pc'[u] \in Registered /\ op'[u] = "wait" THEN slot'[u] ELSE 0)
             = IF pc[u] \in Registered /\ op[u] = "wait" THEN slot[u] ELSE 0
  PROVE  waiting' = Registry'
BY DEF Registry

LEMMA RegistryMoves ==
  ASSUME waiting = Registry, NEW t \in Threads, NEW s, waiting' = [waiting EXCEPT ![t] = s],
         s = IF pc'[t] \in Registered /\ op'[t] = "wait" THEN slot'[t] ELSE 0,
         \A u \in Threads \ {t} : pc'[u] = pc[u] /\ op'[u] = op[u] /\ slot'[u] = slot[u]
  PROVE  waiting' = Registry'
BY DEF Registry

\* The end of a call that was in no registered wait, and of one that was.
LEMMA ReturnForm ==
  ASSUME FormInv, NEW t \in Threads, Return(t), pc[t] \notin Registered,
         owner' \in [Slots -> Conds \cup {NoCond, Retiring}],
         UNCHANGED <<guest, sequence, op, idx, tries, expected, waiting, calls>>
  PROVE  FormInv'
<1>1. Types /\ waiting = Registry /\ Shape
  BY TypeParts DEF FormInv
<1>2. Types'
  BY <1>1, BoundsAssumption DEF Types, Return, Goto, Handler
<1>3. waiting' = Registry'
  BY <1>1, RegistryStays DEF Types, Return, Goto, Registered
<1>4. Shape'
  BY <1>1 DEF Types, Shape, Return, Goto, InLookup, Waiting, Signalling, Freeing, Contending
<1>5. QED
  BY <1>2, <1>3, <1>4 DEF FormInv, TypeOK, Types, Registry

LEMMA SlotFacts ==
  /\ 1 \in 1 .. NSlots + 1 /\ 0 \in 0 .. NSlots /\ 0 \in 0 .. Attempts /\ Attempts \in Nat
  /\ \A s \in Slots : s + 1 \in 1 .. NSlots + 1 /\ s \in 0 .. NSlots /\ s # 0 /\ s \in Nat
  /\ \A s \in 0 .. NSlots : s # 0 => s \in Slots
  /\ \A s \in 1 .. NSlots + 1 : s \in Nat /\ (s \notin Slots => \A r \in Slots : r < s)
BY BoundsAssumption DEF Slots

\* The beginning of a call.
LEMMA CallForm ==
  ASSUME FormInv, NEW t \in Threads, CallUse(t) \/ CallForget(t) \/ CallInterrupt(t)
  PROVE  FormInv'
<1>1. Types /\ waiting = Registry /\ Shape
  BY TypeParts DEF FormInv
<1>2. CASE CallUse(t)
  <2>1. PICK c \in Conds, o \in {"wait", "signal", "broadcast"} :
          /\ TakeMutex(t, c, o)
          /\ cond' = [cond EXCEPT ![t] = c] /\ op' = [op EXCEPT ![t] = o]
    BY <1>2 DEF CallUse
  <2>2. /\ pc[t] = "idle" /\ Goto(t, "find") /\ calls < MaxCalls /\ calls' = calls + 1
        /\ tries' = [tries EXCEPT ![t] = 0] /\ idx' = [idx EXCEPT ![t] = 1]
        /\ UNCHANGED <<guest, owner, sequence, claimed, slot, expected, waiting>>
    BY <1>2 DEF CallUse, Called, Scan
  <2>3. holder' \in [Conds -> Threads \cup {NoThread}] /\ op' \in [Threads -> Op]
    BY <1>1, <2>1 DEF Types, TakeMutex, Op
  <2>4. Types'
    BY <1>1, <2>1, <2>2, <2>3, SlotFacts, BoundsAssumption DEF Types, Goto, Handler, InLookup
  <2>5. waiting' = Registry'
    BY <1>1, <2>1, <2>2, RegistryStays DEF Types, Goto, Registered
  <2>6. Shape'
    BY <1>1, <2>1, <2>2, SlotFacts, BoundsAssumption
       DEF Types, Shape, Goto, InLookup, Waiting, Signalling, Freeing, Contending, Uses
  <2>7. QED
    BY <2>4, <2>5, <2>6 DEF FormInv, TypeOK, Types, Registry
<1>3. CASE CallForget(t)
  <2>1. /\ pc[t] = "idle" /\ Goto(t, "retire") /\ calls < MaxCalls /\ calls' = calls + 1
        /\ \E c \in Conds : cond' = [cond EXCEPT ![t] = c]
        /\ op' = [op EXCEPT ![t] = "forget"] /\ idx' = [idx EXCEPT ![t] = 1]
        /\ UNCHANGED <<guest, owner, sequence, holder, claimed, tries, slot, expected, waiting>>
    BY <1>3 DEF CallForget, Called, Scan
  <2>2. Types'
    BY <1>1, <2>1, SlotFacts, BoundsAssumption DEF Types, Goto, Handler, InLookup, Op
  <2>3. waiting' = Registry'
    BY <1>1, <2>1, RegistryStays DEF Types, Goto, Registered
  <2>4. Shape'
    BY <1>1, <2>1 DEF Types, Shape, Goto, InLookup, Waiting, Signalling, Freeing, Contending
  <2>5. QED
    BY <2>2, <2>3, <2>4 DEF FormInv, TypeOK, Types, Registry
<1>4. CASE CallInterrupt(t)
  <2>1. /\ pc[t] = "idle" /\ Goto(t, "bump") /\ calls < MaxCalls /\ calls' = calls + 1
        /\ op' = [op EXCEPT ![t] = "interrupt"]
        /\ UNCHANGED <<guest, owner, sequence, holder, cond, idx, claimed, tries, expected,
                       waiting>>
    BY <1>4 DEF CallInterrupt, Called, lookupVars
  <2>2. PICK w \in Threads : waiting[w] # 0 /\ slot' = [slot EXCEPT ![t] = waiting[w]]
    BY <1>4 DEF CallInterrupt
  <2>3. waiting[w] \in Slots
    BY <1>1, <2>2 DEF Registry, Shape, Registered, Waiting
  <2>4. Types'
    BY <1>1, <2>1, <2>2, <2>3, SlotFacts, BoundsAssumption
       DEF Types, Goto, Handler, InLookup, Op
  <2>5. waiting' = Registry'
    BY <1>1, <2>1, <2>2, RegistryStays DEF Types, Goto, Registered
  <2>6. Shape'
    BY <1>1, <2>1, <2>2, <2>3
       DEF Types, Shape, Goto, InLookup, Waiting, Signalling, Freeing, Contending, Uses
  <2>7. QED
    BY <2>4, <2>5, <2>6 DEF FormInv, TypeOK, Types, Registry
<1>5. QED
  BY <1>2, <1>3, <1>4

\* A step of a lookup that does not answer it.
LEMMA LookupForm ==
  ASSUME FormInv, NEW t \in Threads, pc[t] \in InLookup,
         NEW label \in InLookup, Goto(t, label),
         owner' \in [Slots -> Conds \cup {NoCond, Retiring}],
         idx' \in [Threads -> 1 .. NSlots + 1],
         NEW c \in 0 .. NSlots, claimed' = [claimed EXCEPT ![t] = c],
         label \in Contending => c \in Slots,
         NEW n \in 0 .. Attempts, tries' = [tries EXCEPT ![t] = n],
         label # "lastFind" => n < Attempts,
         UNCHANGED <<guest, sequence, holder, op, cond, slot, expected, waiting, calls>>
  PROVE  FormInv'
<1>1. Types /\ waiting = Registry /\ Shape
  BY TypeParts DEF FormInv
<1>2. Types'
  BY <1>1 DEF Types, Goto, Handler
<1>3. waiting' = Registry'
  BY <1>1, RegistryStays DEF Types, Goto, Registered, InLookup
<1>4. Shape'
  BY <1>1 DEF Types, Shape, Goto, InLookup, Waiting, Signalling, Freeing, Contending
<1>5. QED
  BY <1>2, <1>3, <1>4 DEF FormInv, TypeOK, Types, Registry

\* The answer.
LEMMA ResolvedForm ==
  ASSUME FormInv, NEW t \in Threads, pc[t] \in InLookup, NEW s \in Slots, Resolved(t, s),
         UNCHANGED <<guest, owner, sequence, holder, op, cond, claimed, tries, expected,
                     waiting, calls>>
  PROVE  FormInv'
<1>1. Types /\ waiting = Registry /\ Shape
  BY TypeParts DEF FormInv
<1>2. op[t] \in Uses
  BY <1>1 DEF Shape
<1>3. Types'
  BY <1>1, SlotFacts DEF Types, Resolved, Goto, Handler
<1>4. waiting' = Registry'
  BY <1>1, RegistryStays DEF Types, Resolved, Goto, Registered, InLookup
<1>5. Shape'
  BY <1>1, <1>2 DEF Types, Shape, Resolved, Goto, InLookup, Waiting, Signalling, Freeing,
                    Contending, Uses
<1>6. QED
  BY <1>3, <1>4, <1>5 DEF FormInv, TypeOK, Types, Registry

LEMMA FindForm ==
  ASSUME FormInv, NEW t \in Threads,
         \/ Find(t) \/ FindAbsent(t) \/ Claim(t) \/ NoSlot(t) \/ Recheck(t) \/ Yield(t)
  PROVE  FormInv'
<1>1. Types /\ Shape
  BY TypeParts DEF FormInv
<1>2. /\ claimed = [claimed EXCEPT ![t] = claimed[t]] /\ claimed[t] \in 0 .. NSlots
      /\ tries = [tries EXCEPT ![t] = tries[t]] /\ tries[t] \in 0 .. Attempts
      /\ pc = [pc EXCEPT ![t] = pc[t]] /\ pc[t] \in Handler
      /\ owner \in [Slots -> Conds \cup {NoCond, Retiring}]
      /\ [idx EXCEPT ![t] = 1] \in [Threads -> 1 .. NSlots + 1]
      /\ idx[t] \in Slots => [idx EXCEPT ![t] = @ + 1] \in [Threads -> 1 .. NSlots + 1]
  BY <1>1, SlotFacts DEF Types
<1>3. /\ pc[t] \in {"find", "claim", "recheck", "yield"} => tries[t] < Attempts
      /\ pc[t] \in Contending => claimed[t] \in Slots
      /\ pc[t] \in InLookup => cond[t] \in Conds
  BY <1>1 DEF Shape, InLookup, Uses
<1>4. CASE Find(t)
  <2>1. CASE owner[idx[t]] = cond[t]
    BY <1>4, <2>1, ResolvedForm DEF Find, InLookup
  <2>2. CASE owner[idx[t]] # cond[t]
    BY <1>2, <1>3, <1>4, <2>2, LookupForm DEF Find, Goto, InLookup, Contending
  <2>3. QED
    BY <2>1, <2>2
<1>5. CASE FindAbsent(t)
  BY <1>2, <1>3, <1>5, LookupForm DEF FindAbsent, Scan, InLookup, Contending
<1>6. CASE Claim(t)
  <2>1. CASE owner[idx[t]] = NoCond
    <3>1. owner' \in [Slots -> Conds \cup {NoCond, Retiring}] /\ idx[t] \in 0 .. NSlots
      BY <1>2, <1>3, <1>6, <2>1, SlotFacts DEF Claim, InLookup
    <3>2. QED
      BY <1>2, <1>3, <1>6, <2>1, <3>1, LookupForm DEF Claim, Scan, InLookup, Contending
  <2>2. CASE owner[idx[t]] # NoCond
    BY <1>2, <1>3, <1>6, <2>2, LookupForm DEF Claim, Goto, InLookup, Contending
  <2>3. QED
    BY <2>1, <2>2
<1>7. CASE NoSlot(t)
  BY <1>1, <1>7, ReturnForm DEF NoSlot, Registered, Types
<1>8. CASE Recheck(t)
  <2>1. CASE owner[idx[t]] # cond[t]
    BY <1>2, <1>3, <1>8, <2>1, LookupForm DEF Recheck, Goto, InLookup, Contending
  <2>2. CASE owner[idx[t]] = cond[t] /\ idx[t] = claimed[t]
    BY <1>8, <2>2, ResolvedForm DEF Recheck, InLookup
  <2>3. CASE owner[idx[t]] = cond[t] /\ idx[t] # claimed[t]
    BY <1>1, <1>2, <1>3, <1>8, <2>3, LookupForm DEF Recheck, InLookup, Contending, Types
  <2>4. QED
    BY <2>1, <2>2, <2>3
<1>9. CASE Yield(t)
  <2>1. tries[t] + 1 \in 0 .. Attempts
    BY <1>2, <1>3, <1>9, BoundsAssumption DEF Yield
  <2>2. owner' \in [Slots -> Conds \cup {NoCond, Retiring}]
    BY <1>2, <1>9 DEF Yield
  <2>3. CASE tries[t] + 1 < Attempts
    BY <1>2, <1>9, <2>1, <2>2, <2>3, SlotFacts, LookupForm DEF Yield, Scan, InLookup, Contending
  <2>4. CASE ~(tries[t] + 1 < Attempts)
    BY <1>2, <1>9, <2>1, <2>2, <2>4, SlotFacts, LookupForm DEF Yield, Scan, InLookup, Contending
  <2>5. QED
    BY <2>3, <2>4
<1>10. QED
  BY <1>4, <1>5, <1>6, <1>7, <1>8, <1>9

\* A wait from the lookup on.
LEMMA WaitForm ==
  ASSUME FormInv, NEW t \in Threads,
         \/ LoadExpected(t) \/ RegisterWait(t) \/ UnlockMutex(t) \/ Sleep(t)
         \/ WakeAlone(t) \/ Relock(t) \/ UnregisterWait(t)
  PROVE  FormInv'
<1>1. Types /\ waiting = Registry /\ Shape
  BY TypeParts DEF FormInv
<1>2. pc[t] \in Waiting /\ op[t] = "wait" /\ slot[t] \in Slots /\ cond[t] \in Conds
  BY <1>1 DEF Shape, Waiting, LoadExpected, RegisterWait, UnlockMutex, Sleep, WakeAlone,
              Relock, UnregisterWait
<1>3. ASSUME NEW label \in Waiting, Goto(t, label),
             expected' \in [Threads -> Nat], holder' \in [Conds -> Threads \cup {NoThread}],
             waiting' = Registry',
             UNCHANGED <<guest, owner, sequence, op, cond, lookupVars, slot, calls>>
      PROVE  FormInv'
  <2>1. Types'
    BY <1>1, <1>3 DEF Types, Goto, Handler, Waiting, lookupVars
  <2>2. Shape'
    BY <1>1, <1>2, <1>3 DEF Types, Shape, Goto, InLookup, Waiting, Signalling, Freeing,
                            Contending, lookupVars
  <2>3. QED
    BY <1>3, <2>1, <2>2 DEF FormInv, TypeOK, Types, Registry
<1>4. expected \in [Threads -> Nat] /\ holder \in [Conds -> Threads \cup {NoThread}]
  BY <1>1 DEF Types
<1>5. CASE LoadExpected(t)
  <2>1. expected' \in [Threads -> Nat]
    BY <1>1, <1>2, <1>5 DEF LoadExpected, Types
  <2>2. waiting' = Registry'
    BY <1>1, <1>5, RegistryStays DEF LoadExpected, Types, Goto, Registered
  <2>3. QED
    BY <1>3, <1>4, <1>5, <2>1, <2>2 DEF LoadExpected, Waiting
<1>6. CASE RegisterWait(t)
  <2>1. waiting' = Registry'
    <3>1. /\ pc'[t] = "unlock" /\ op'[t] = "wait" /\ slot'[t] = slot[t]
          /\ waiting' = [waiting EXCEPT ![t] = slot[t]]
          /\ \A u \in Threads \ {t} : pc'[u] = pc[u] /\ op'[u] = op[u] /\ slot'[u] = slot[u]
      BY <1>1, <1>2, <1>6 DEF RegisterWait, Types, Goto
    <3>2. QED
      BY <1>1, <3>1, RegistryMoves DEF Registered
  <2>2. QED
    BY <1>3, <1>4, <1>6, <2>1 DEF RegisterWait, Waiting
<1>7. CASE UnlockMutex(t) \/ Relock(t)
  <2>1. holder' \in [Conds -> Threads \cup {NoThread}]
    BY <1>2, <1>4, <1>7 DEF UnlockMutex, Relock
  <2>2. waiting' = Registry'
    BY <1>1, <1>7, RegistryStays DEF UnlockMutex, Relock, Types, Goto, Registered
  <2>3. QED
    BY <1>3, <1>4, <1>7, <2>1, <2>2 DEF UnlockMutex, Relock, Waiting
<1>8. CASE Sleep(t) \/ WakeAlone(t)
  <2>1. waiting' = Registry'
    BY <1>1, <1>8, RegistryStays DEF Sleep, WakeAlone, Types, Goto, Registered
  <2>2. QED
    BY <1>3, <1>4, <1>8, <2>1 DEF Sleep, WakeAlone, Waiting
<1>9. CASE UnregisterWait(t)
  <2>1. Types'
    BY <1>1, <1>9, SlotFacts DEF UnregisterWait, Return, Types, Goto, Handler
  <2>2. waiting' = Registry'
    <3>1. /\ pc'[t] = "idle" /\ waiting' = [waiting EXCEPT ![t] = 0]
          /\ \A u \in Threads \ {t} : pc'[u] = pc[u] /\ op'[u] = op[u] /\ slot'[u] = slot[u]
      BY <1>1, <1>9 DEF UnregisterWait, Return, Types, Goto
    <3>2. QED
      BY <1>1, <3>1, RegistryMoves DEF Registered
  <2>3. Shape'
    BY <1>1, <1>9 DEF UnregisterWait, Return, Types, Shape, Goto, InLookup, Waiting,
                      Signalling, Freeing, Contending
  <2>4. QED
    BY <2>1, <2>2, <2>3 DEF FormInv, TypeOK, Types, Registry
<1>10. QED
  BY <1>5, <1>6, <1>7, <1>8, <1>9

\* A signal from the lookup on.
LEMMA SignalForm ==
  ASSUME FormInv, NEW t \in Threads, Bump(t) \/ Wake(t)
  PROVE  FormInv'
<1>1. Types /\ waiting = Registry /\ Shape
  BY TypeParts DEF FormInv
<1>2. CASE Bump(t)
  <2>1. slot[t] \in Slots
    BY <1>1, <1>2 DEF Shape, Signalling, Bump
  <2>2. Types'
    BY <1>1, <1>2, <2>1 DEF Bump, Types, Goto, Handler, lookupVars
  <2>3. waiting' = Registry'
    BY <1>1, <1>2, RegistryStays DEF Bump, Types, Goto, Registered
  <2>4. Shape'
    BY <1>1, <1>2 DEF Bump, Types, Shape, Goto, InLookup, Waiting, Signalling, Freeing,
                      Contending, lookupVars
  <2>5. QED
    BY <2>2, <2>3, <2>4 DEF FormInv, TypeOK, Types, Registry
<1>3. CASE Wake(t)
  <2>1. PICK woken \in SUBSET Parked(slot[t]) :
          pc' = [w \in Threads |-> IF w \in woken THEN "relock"
                                   ELSE IF w = t THEN "idle" ELSE pc[w]]
    BY <1>3 DEF Wake
  <2>2. \A w \in woken : w \in Threads /\ pc[w] = "parked" /\ w # t
    BY <1>3 DEF Parked, Wake
  <2>3. Types'
    BY <1>1, <1>3, <2>1, SlotFacts DEF Wake, Types, Handler
  <2>4. waiting' = Registry'
    <3>1. op[t] # "wait"
      BY <1>1, <1>3 DEF Wake, Shape, Signalling
    <3>2. QED
      BY <1>1, <1>3, <2>1, <2>2, <3>1, RegistryStays DEF Wake, Types, Registered
  <2>5. Shape'
    <3>1. ASSUME NEW w \in Threads, w \notin woken, w # t
          PROVE  /\ pc'[w] = pc[w] /\ op'[w] = op[w] /\ slot'[w] = slot[w] /\ cond'[w] = cond[w]
                 /\ claimed'[w] = claimed[w] /\ tries'[w] = tries[w]
      BY <1>1, <1>3, <2>1, <3>1 DEF Wake, Types
    <3>2. ASSUME NEW w \in woken
          PROVE  /\ pc'[w] = "relock" /\ pc[w] = "parked" /\ op'[w] = op[w]
                 /\ slot'[w] = slot[w] /\ cond'[w] = cond[w]
      BY <1>1, <1>3, <2>1, <2>2, <3>2 DEF Wake, Types
    <3>3. pc'[t] = "idle" /\ cond'[t] = NoCond /\ slot'[t] = 0
      BY <1>1, <1>3, <2>1, <2>2 DEF Wake, Types
    <3>4. QED
      BY <1>1, <2>2, <3>1, <3>2, <3>3
         DEF Shape, InLookup, Waiting, Signalling, Freeing, Contending
  <2>6. QED
    BY <2>3, <2>4, <2>5 DEF FormInv, TypeOK, Types, Registry
<1>4. QED
  BY <1>2, <1>3

\* The destruction of a condvar.
LEMMA ForgetForm ==
  ASSUME FormInv, NEW t \in Threads, Retire(t) \/ ResetSequence(t) \/ FreeSlot(t)
  PROVE  FormInv'
<1>1. Types /\ waiting = Registry /\ Shape
  BY TypeParts DEF FormInv
<1>2. op[t] = "forget" /\ (pc[t] \in Freeing => slot[t] \in Slots)
  BY <1>1 DEF Shape, Freeing, Retire, ResetSequence, FreeSlot
<1>3. CASE Retire(t)
  <2>1. CASE idx[t] \notin Slots
    BY <1>1, <1>3, <2>1, ReturnForm DEF Retire, Registered, Types
  <2>2. CASE idx[t] \in Slots /\ owner[idx[t]] = cond[t]
    <3>1. /\ pc[t] = "retire" /\ Goto(t, "reset")
          /\ owner' = [owner EXCEPT ![idx[t]] = Retiring]
          /\ slot' = [slot EXCEPT ![t] = idx[t]]
          /\ UNCHANGED <<guest, sequence, holder, op, cond, idx, claimed, tries, expected,
                         waiting, calls>>
      BY <1>3, <2>2 DEF Retire
    <3>2. Types'
      BY <1>1, <2>2, <3>1, SlotFacts DEF Types, Goto, Handler
    <3>3. waiting' = Registry'
      BY <1>1, <3>1, RegistryStays DEF Types, Goto, Registered
    <3>4. Shape'
      BY <1>1, <1>2, <2>2, <3>1 DEF Types, Shape, Goto, InLookup, Waiting, Signalling,
                                    Freeing, Contending
    <3>5. QED
      BY <3>2, <3>3, <3>4 DEF FormInv, TypeOK, Types, Registry
  <2>3. CASE idx[t] \in Slots /\ owner[idx[t]] # cond[t]
    <3>1. /\ idx' = [idx EXCEPT ![t] = @ + 1]
          /\ UNCHANGED <<guest, owner, sequence, holder, pc, op, cond, claimed, tries, slot,
                         expected, waiting, calls>>
      BY <1>3, <2>3 DEF Retire
    <3>2. Types'
      BY <1>1, <2>3, <3>1, SlotFacts DEF Types
    <3>3. Registry' = Registry /\ Shape'
      BY <1>1, <3>1 DEF Registry, Shape
    <3>4. QED
      BY <1>1, <3>1, <3>2, <3>3 DEF FormInv, TypeOK, Types, Registry
  <2>4. QED
    BY <2>1, <2>2, <2>3
<1>4. CASE ResetSequence(t)
  <2>1. Types'
    BY <1>1, <1>2, <1>4 DEF ResetSequence, Types, Goto, Handler, lookupVars, Freeing
  <2>2. waiting' = Registry'
    BY <1>1, <1>4, RegistryStays DEF ResetSequence, Types, Goto, Registered
  <2>3. Shape'
    BY <1>1, <1>4 DEF ResetSequence, Types, Shape, Goto, InLookup, Waiting, Signalling,
                      Freeing, Contending, lookupVars
  <2>4. QED
    BY <2>1, <2>2, <2>3 DEF FormInv, TypeOK, Types, Registry
<1>5. CASE FreeSlot(t)
  <2>1. owner' \in [Slots -> Conds \cup {NoCond, Retiring}] /\ pc[t] \notin Registered
    BY <1>1, <1>2, <1>5 DEF FreeSlot, Freeing, Types, Registered
  <2>2. QED
    BY <1>5, <2>1, ReturnForm DEF FreeSlot
<1>6. QED
  BY <1>3, <1>4, <1>5

LEMMA FormKept == FormInv /\ [Next]_vars => FormInv'
<1>1. FormInv /\ UNCHANGED vars => FormInv'
  BY DEF FormInv, TypeOK, Shape, vars, lookupVars
<1>2. ASSUME FormInv, NEW t \in Threads, CallUse(t) \/ CallForget(t) \/ CallInterrupt(t)
      PROVE  FormInv'
  BY <1>2, CallForm
<1>3. QED
  BY <1>1, <1>2, FindForm, WaitForm, SignalForm, ForgetForm DEF Next

LEMMA InitForm == Init => FormInv
<1>1. SUFFICES ASSUME Init PROVE FormInv
  OBVIOUS
<1>2. TypeOK
  BY <1>1, GuestsAssumption, BoundsAssumption
     DEF Init, TypeOK, Slots, Handler, InLookup, Op, Registered
<1>3. Shape
  BY <1>1 DEF Init, Shape, InLookup, Waiting, Signalling, Freeing, Contending
<1>4. QED
  BY <1>2, <1>3 DEF FormInv

\* Every variable has its type, and the wait registry names exactly the threads
\* inside a registered wait, whatever the guest does.
THEOREM CondTypeCorrect == Spec => []TypeOK
<1>1. FormInv => TypeOK
  BY DEF FormInv
<1>2. QED
  BY InitForm, FormKept, <1>1, PTL DEF Spec

-----------------------------------------------------------------------------
(***************************************************************************)
(* What a step of thread t leaves alone.                                   *)
(***************************************************************************)
LEMMA SameGuest == [Next]_vars => guest' = guest
<1>1. ASSUME NEW t \in Threads,
             \/ CallUse(t) \/ CallForget(t) \/ CallInterrupt(t)
             \/ Find(t) \/ FindAbsent(t) \/ Claim(t) \/ NoSlot(t) \/ Recheck(t) \/ Yield(t)
      PROVE  guest' = guest
  BY <1>1 DEF CallUse, CallForget, CallInterrupt, Find, FindAbsent, Claim, NoSlot, Recheck, Yield
<1>2. ASSUME NEW t \in Threads,
             \/ LoadExpected(t) \/ RegisterWait(t) \/ UnlockMutex(t) \/ Sleep(t)
             \/ WakeAlone(t) \/ Relock(t) \/ UnregisterWait(t)
             \/ Bump(t) \/ Wake(t)
             \/ Retire(t) \/ ResetSequence(t) \/ FreeSlot(t)
      PROVE  guest' = guest
  BY <1>2 DEF LoadExpected, RegisterWait, UnlockMutex, Sleep, WakeAlone, Relock, UnregisterWait,
              Bump, Wake, Retire, ResetSequence, FreeSlot
<1>3. UNCHANGED vars => guest' = guest
  BY DEF vars
<1>4. QED
  BY <1>1, <1>2, <1>3 DEF Next

Elsewhere(t) ==
  \A u \in Threads \ {t} :
    /\ pc'[u] = pc[u] /\ op'[u] = op[u] /\ cond'[u] = cond[u] /\ slot'[u] = slot[u]
    /\ idx'[u] = idx[u] /\ claimed'[u] = claimed[u] /\ expected'[u] = expected[u]

LEMMA OthersStay ==
  ASSUME FormInv, NEW t \in Threads,
         \/ CallUse(t) \/ CallForget(t) \/ CallInterrupt(t)
         \/ Find(t) \/ FindAbsent(t) \/ Claim(t) \/ NoSlot(t) \/ Recheck(t) \/ Yield(t)
         \/ LoadExpected(t) \/ RegisterWait(t) \/ UnlockMutex(t) \/ Sleep(t)
         \/ WakeAlone(t) \/ Relock(t) \/ UnregisterWait(t) \/ Bump(t)
         \/ Retire(t) \/ ResetSequence(t) \/ FreeSlot(t)
  PROVE  Elsewhere(t)
<1>1. Types
  BY TypeParts DEF FormInv
<1>2. CASE CallUse(t) \/ CallForget(t) \/ CallInterrupt(t)
  BY <1>1, <1>2 DEF Elsewhere, Types, CallUse, CallForget, CallInterrupt, Called, Scan, Goto,
                    lookupVars
<1>3. CASE Find(t) \/ FindAbsent(t) \/ Claim(t)
  BY <1>1, <1>3 DEF Elsewhere, Types, Find, FindAbsent, Claim, Resolved, Scan, Goto
<1>4. CASE NoSlot(t) \/ Recheck(t) \/ Yield(t)
  BY <1>1, <1>4 DEF Elsewhere, Types, NoSlot, Recheck, Yield, Resolved, Return, Scan, Goto
<1>5. CASE LoadExpected(t) \/ RegisterWait(t) \/ UnlockMutex(t) \/ Sleep(t)
  BY <1>1, <1>5 DEF Elsewhere, Types, LoadExpected, RegisterWait, UnlockMutex, Sleep, Goto,
                    lookupVars
<1>6. CASE WakeAlone(t) \/ Relock(t) \/ UnregisterWait(t) \/ Bump(t)
  BY <1>1, <1>6 DEF Elsewhere, Types, WakeAlone, Relock, UnregisterWait, Bump, Return, Goto,
                    lookupVars
<1>7. CASE Retire(t) \/ ResetSequence(t) \/ FreeSlot(t)
  BY <1>1, <1>7 DEF Elsewhere, Types, Retire, ResetSequence, FreeSlot, Return, Goto, lookupVars
<1>8. QED
  BY <1>2, <1>3, <1>4, <1>5, <1>6, <1>7

\* The mutexes of the other threads stay with them.
MutexesStay(t) ==
  \A u \in Threads \ {t} : \A c \in Conds : holder[c] = u => holder'[c] = u

\* Waiters that may still fall asleep, or have.
Aware == {"register", "unlock", "sleep", "parked"}

-----------------------------------------------------------------------------
(***************************************************************************)
(* The invariant of a guest that signals with the mutex held.              *)
(***************************************************************************)
\* Thread t moves within its call and no slot changes hands.
LEMMA LockedMove ==
  ASSUME FormInv, Orderly, FormInv', NEW t \in Threads, Elsewhere(t), MutexesStay(t),
         pc[t] # "idle", pc'[t] # "idle", UNCHANGED <<owner, op, cond>>,
         pc'[t] \in Freeing => pc[t] \in Freeing /\ slot'[t] = slot[t],
         \A s \in Slots : sequence'[s] >= sequence[s],
         op[t] \in Uses => /\ pc'[t] \notin Outside => holder'[cond[t]] = t
                           /\ Found(t)',
         pc'[t] \in Aware => expected'[t] <= sequence'[slot'[t]],
         op[t] \in Uses /\ pc'[t] = "wake" =>
           \A w \in Threads \ {t} :
             pc[w] = "sleep" /\ cond[w] = cond[t] => expected[w] < sequence'[slot[w]],
         pc'[t] = "sleep" =>
           \A u \in Threads \ {t} :
             Using(u) /\ pc[u] = "wake" /\ cond[u] = cond[t] => expected'[t] < sequence'[slot'[t]]
  PROVE  Orderly'
<1>1. Types /\ Shape /\ Types' /\ Shape'
  BY TypeParts DEF FormInv, TypeOK, Types
<1>2. MutexHeld'
  BY <1>1 DEF Orderly, MutexHeld, Elsewhere, MutexesStay, Using, Shape, Uses
<1>3. OneOwned'
  BY DEF Orderly, OneOwned
<1>4. UsesOwned'
  <2>1. ASSUME NEW u \in Threads \ {t}, Using(u)' PROVE Found(u)'
    <3>1. Found(u)
      BY <2>1 DEF Orderly, UsesOwned, Elsewhere, Using
    <3>2. QED
      BY <3>1 DEF Found, Elsewhere
  <2>2. QED
    BY <2>1 DEF UsesOwned, Using
<1>5. ForgetsAlone'
  BY DEF Orderly, ForgetsAlone, Elsewhere
<1>6. Generations'
  <2>1. ASSUME NEW w \in Threads, pc'[w] \in Aware PROVE expected'[w] <= sequence'[slot'[w]]
    BY <1>1, <2>1, SlotFacts
       DEF Orderly, Generations, Elsewhere, Aware, Types, Shape, Waiting
  <2>2. ASSUME NEW u \in Threads, NEW w \in Threads, Using(u)', pc'[u] = "wake",
               pc'[w] = "sleep", cond'[w] = cond'[u]
        PROVE  expected'[w] < sequence'[slot'[w]]
    <3>1. CASE u = t
      BY <2>2, <3>1 DEF Elsewhere, Using
    <3>2. CASE w = t
      BY <2>2, <3>2 DEF Elsewhere, Using
    <3>3. CASE u # t /\ w # t
      BY <1>1, <2>2, <3>3, SlotFacts
         DEF Orderly, Generations, Elsewhere, Using, Types, Shape, Waiting
    <3>4. QED
      BY <3>1, <3>2, <3>3
  <2>3. QED
    BY <2>1, <2>2 DEF Generations, Aware
<1>7. QED
  BY <1>2, <1>3, <1>4, <1>5, <1>6 DEF Orderly

\* Thread t ends its call; threads it woke go and take the mutex again.
LEMMA LockedLeave ==
  ASSUME FormInv, Orderly, FormInv', NEW t \in Threads, pc'[t] = "idle",
         \A u \in Threads \ {t} :
           /\ pc'[u] = pc[u] \/ (pc[u] = "parked" /\ pc'[u] = "relock")
           /\ op'[u] = op[u] /\ cond'[u] = cond[u] /\ slot'[u] = slot[u]
           /\ idx'[u] = idx[u] /\ claimed'[u] = claimed[u],
         cond'[t] = NoCond, UNCHANGED <<owner, sequence, expected>>, MutexesStay(t)
  PROVE  Orderly'
<1>1. Types /\ Shape /\ Types' /\ Shape'
  BY TypeParts DEF FormInv, TypeOK, Types
<1>2. MutexHeld'
  BY <1>1 DEF Orderly, MutexHeld, MutexesStay, Using, Shape, Outside, Uses
<1>3. OneOwned'
  BY DEF Orderly, OneOwned
<1>4. UsesOwned'
  <2>1. ASSUME NEW u \in Threads, Using(u)' PROVE Found(u)'
    <3>1. u # t /\ Found(u)
      BY <2>1 DEF Orderly, UsesOwned, Using
    <3>2. QED
      BY <3>1 DEF Found
  <2>2. QED
    BY <2>1 DEF UsesOwned
<1>5. ForgetsAlone'
  BY <1>1 DEF Orderly, ForgetsAlone, Freeing, Shape
<1>6. Generations'
  BY DEF Orderly, Generations, Using
<1>7. QED
  BY <1>2, <1>3, <1>4, <1>5, <1>6 DEF Orderly

\* A call begins.
LEMMA LockedCall ==
  ASSUME FormInv, Orderly, guest = "locked", FormInv', NEW t \in Threads, Elsewhere(t),
         CallUse(t) \/ CallForget(t) \/ CallInterrupt(t)
  PROVE  Orderly'
<1>1. Types /\ Shape /\ Types' /\ Shape'
  BY TypeParts DEF FormInv, TypeOK, Types
<1>2. pc[t] = "idle" /\ cond[t] = NoCond /\ UNCHANGED <<owner, sequence, expected>>
  BY <1>1 DEF Shape, CallUse, CallForget, CallInterrupt, Called
<1>3. OneOwned'
  BY <1>2 DEF Orderly, OneOwned
<1>4. ASSUME NEW u \in Threads \ {t}, Using(u)' PROVE Found(u)'
  <2>1. Found(u)
    BY <1>4 DEF Orderly, UsesOwned, Elsewhere, Using
  <2>2. QED
    BY <1>2, <2>1 DEF Found, Elsewhere
<1>5. pc'[t] \in {"find", "retire", "bump"} => Generations'
  BY <1>2 DEF Orderly, Generations, Elsewhere, Using
<1>6. CASE CallUse(t)
  <2>1. PICK c \in Conds, o \in Uses :
          /\ NotBeingDestroyed(c) /\ holder[c] = NoThread /\ holder' = [holder EXCEPT ![c] = t]
          /\ cond' = [cond EXCEPT ![t] = c] /\ op' = [op EXCEPT ![t] = o]
    BY <1>6 DEF CallUse, TakeMutex, Uses
  <2>2. pc'[t] = "find" /\ idx'[t] = 1 /\ slot'[t] = 0 /\ cond'[t] = c /\ op'[t] \in Uses
    BY <1>1, <1>2, <1>6, <2>1 DEF CallUse, Scan, Goto, Types, Shape
  <2>3. MutexHeld'
    BY <1>1, <2>1, <2>2, ValuesAssumption
       DEF Orderly, MutexHeld, Elsewhere, Using, Shape, Types, Uses
  <2>4. UsesOwned'
    BY <1>4, <2>2, SlotFacts DEF UsesOwned, Found, Using, Slots
  <2>5. ForgetsAlone'
    BY <1>2, <2>1, <2>2 DEF Orderly, ForgetsAlone, Elsewhere, NotBeingDestroyed, Users, Uses,
                            Freeing
  <2>6. QED
    BY <1>3, <1>5, <2>2, <2>3, <2>4, <2>5 DEF Orderly
<1>7. CASE CallForget(t)
  <2>1. PICK c \in Conds : Users(c) = {} /\ cond' = [cond EXCEPT ![t] = c]
    BY <1>7 DEF CallForget
  <2>2. pc'[t] = "retire" /\ cond'[t] = c /\ op'[t] = "forget" /\ holder' = holder
    BY <1>1, <1>7, <2>1 DEF CallForget, Scan, Goto, Types
  <2>3. MutexHeld'
    BY <2>2 DEF Orderly, MutexHeld, Elsewhere, Using, Uses
  <2>4. UsesOwned'
    BY <1>4, <2>2 DEF UsesOwned, Using, Uses
  <2>5. ForgetsAlone'
    BY <1>2, <2>1, <2>2 DEF Orderly, ForgetsAlone, Elsewhere, Users, Freeing
  <2>6. QED
    BY <1>3, <1>5, <2>2, <2>3, <2>4, <2>5 DEF Orderly
<1>8. CASE CallInterrupt(t)
  <2>1. pc'[t] = "bump" /\ cond'[t] = NoCond /\ op'[t] = "interrupt" /\ holder' = holder
    BY <1>1, <1>2, <1>8 DEF CallInterrupt, Goto, Types
  <2>2. MutexHeld'
    BY <2>1 DEF Orderly, MutexHeld, Elsewhere, Using, Uses
  <2>3. UsesOwned'
    BY <1>4, <2>1 DEF UsesOwned, Using, Uses
  <2>4. ForgetsAlone'
    BY <1>1, <1>2, <2>1, ValuesAssumption
       DEF Orderly, ForgetsAlone, Elsewhere, Freeing, Shape
  <2>5. QED
    BY <1>3, <1>5, <2>1, <2>2, <2>3, <2>4 DEF Orderly
<1>9. QED
  BY <1>6, <1>7, <1>8

\* The lookup.  Its claim is the only one for the condvar.
LEMMA LockedLookup ==
  ASSUME FormInv, Orderly, FormInv', NEW t \in Threads, Elsewhere(t),
         \/ Find(t) \/ FindAbsent(t) \/ Claim(t) \/ NoSlot(t) \/ Recheck(t) \/ Yield(t)
  PROVE  Orderly'
<1>1. Types /\ Shape /\ Types' /\ Shape'
  BY TypeParts DEF FormInv, TypeOK, Types
<1>2. pc[t] \in InLookup /\ pc[t] # "idle"
  BY DEF Find, FindAbsent, Claim, NoSlot, Recheck, Yield, InLookup
<1>3. op[t] \in Uses /\ slot[t] = 0 /\ cond[t] \in Conds /\ Using(t)
  BY <1>1, <1>2 DEF Shape, Using, Uses
<1>4. Found(t) /\ holder[cond[t]] = t /\ ~Yield(t) /\ pc[t] # "lastFind"
  BY <1>2, <1>3 DEF Orderly, UsesOwned, Found, MutexHeld, Outside, InLookup, Yield
<1>5. \A u \in Threads \ {t} : Using(u) /\ pc[u] \notin Outside => cond[u] # cond[t]
  BY <1>4 DEF Orderly, MutexHeld
<1>6. holder' = holder => MutexesStay(t)
  BY DEF MutexesStay
<1>7. ASSUME UNCHANGED <<owner, sequence, holder, op, cond>>, Found(t)',
             pc'[t] \in InLookup \cup {"expect", "bump"}
      PROVE  Orderly'
  <2>1. \A s \in Slots : sequence'[s] >= sequence[s]
    BY <1>1, <1>7 DEF Types
  <2>2. QED
    BY <1>2, <1>3, <1>4, <1>6, <1>7, <2>1, LockedMove DEF InLookup, Aware, Freeing
<1>8. CASE Find(t)
  <2>1. pc[t] = "find" /\ idx[t] \in Slots /\ UNCHANGED <<owner, sequence, holder, op, cond>>
    BY <1>4, <1>8 DEF Find
  <2>2. CASE owner[idx[t]] = cond[t]
    <3>1. slot'[t] = idx[t] /\ pc'[t] \in {"expect", "bump"}
      BY <1>1, <1>8, <2>2 DEF Find, Resolved, Goto, Types
    <3>2. Found(t)'
      BY <2>1, <2>2, <3>1 DEF Found
    <3>3. QED
      BY <1>7, <2>1, <3>1, <3>2
  <2>3. CASE owner[idx[t]] # cond[t]
    <3>1. idx'[t] = idx[t] + 1 /\ pc'[t] = "find" /\ slot'[t] = 0
      BY <1>1, <1>3, <1>8, <2>1, <2>3 DEF Find, Types
    <3>2. Found(t)'
      BY <1>4, <2>1, <2>3, <3>1, SlotFacts DEF Found
    <3>3. QED
      BY <1>7, <2>1, <3>1, <3>2 DEF InLookup
  <2>4. QED
    BY <2>2, <2>3
<1>9. CASE FindAbsent(t)
  <2>1. /\ pc[t] = "find" /\ idx[t] \notin Slots /\ pc'[t] = "claim" /\ slot'[t] = 0
        /\ UNCHANGED <<owner, sequence, holder, op, cond>>
    BY <1>1, <1>3, <1>9 DEF FindAbsent, Scan, Goto, Types
  <2>2. \A s \in Slots : s < idx[t]
    BY <1>1, <2>1, SlotFacts DEF Types
  <2>3. Found(t)'
    BY <1>4, <2>1, <2>2 DEF Found
  <2>4. QED
    BY <1>7, <2>1, <2>3 DEF InLookup
<1>10. CASE Claim(t)
  <2>1. pc[t] = "claim" /\ idx[t] \in Slots /\ UNCHANGED <<sequence, holder, op, cond, slot>>
    BY <1>10 DEF Claim
  <2>2. CASE owner[idx[t]] = NoCond
    <3>1. /\ owner' = [owner EXCEPT ![idx[t]] = cond[t]] /\ pc'[t] = "recheck"
          /\ claimed'[t] = idx[t] /\ idx'[t] = 1 /\ expected' = expected
      BY <1>1, <1>10, <2>2 DEF Claim, Scan, Goto, Types
    <3>2. MutexHeld'
      BY <1>2, <1>3, <1>4, <2>1, <3>1 DEF Orderly, MutexHeld, Elsewhere, Using
    <3>3. OneOwned'
      BY <1>1, <1>4, <2>1, <3>1 DEF Orderly, OneOwned, Found, Types
    <3>4. UsesOwned'
      <4>1. Found(t)'
        BY <1>1, <1>3, <2>1, <3>1, SlotFacts DEF Found, Types, Slots
      <4>2. ASSUME NEW u \in Threads \ {t}, Using(u)' PROVE Found(u)'
        <5>1. Using(u) /\ Found(u) /\ cond[u] \in Conds
          BY <1>1, <4>2 DEF Orderly, UsesOwned, Elsewhere, Using, Shape, Uses
        <5>2. pc[u] \in {"find", "claim"} => cond[u] # cond[t]
          BY <1>5, <5>1 DEF Outside
        <5>3. owner'[idx[t]] = cond[t] /\ \A s \in Slots \ {idx[t]} : owner'[s] = owner[s]
          BY <1>1, <2>1, <3>1 DEF Types
        <5>4. slot[u] # 0 => slot[u] \in Slots
          BY <1>1, SlotFacts DEF Types
        <5>5. pc[u] = "recheck" => claimed[u] \in Slots
          BY <1>1 DEF Shape, Contending
        <5>6. QED
          BY <2>2, <5>1, <5>2, <5>3, <5>4, <5>5, ValuesAssumption DEF Found, Elsewhere
      <4>3. QED
        BY <4>1, <4>2 DEF UsesOwned
    <3>5. ForgetsAlone'
      <4>1. \A f \in Threads \ {t} : pc[f] \in Freeing /\ op[f] = "forget" =>
              owner'[slot[f]] = owner[slot[f]]
        BY <1>1, <2>2, <3>1, ValuesAssumption DEF Orderly, ForgetsAlone, Freeing, Types
      <4>2. QED
        BY <1>2, <1>3, <2>1, <3>1, <4>1 DEF Orderly, ForgetsAlone, Elsewhere, Uses, Freeing
    <3>6. Generations'
      BY <2>1, <3>1 DEF Orderly, Generations, Elsewhere, Using
    <3>7. QED
      BY <3>2, <3>3, <3>4, <3>5, <3>6 DEF Orderly
  <2>3. CASE owner[idx[t]] # NoCond
    <3>1. owner' = owner /\ pc'[t] = "claim" /\ slot'[t] = 0
      BY <1>3, <1>10, <2>3 DEF Claim
    <3>2. Found(t)'
      BY <1>4, <2>1, <3>1 DEF Found
    <3>3. QED
      BY <1>7, <2>1, <3>1, <3>2 DEF InLookup
  <2>4. QED
    BY <2>2, <2>3
<1>11. CASE NoSlot(t)
  <2>1. /\ pc'[t] = "idle" /\ cond'[t] = NoCond /\ UNCHANGED <<owner, sequence, expected>>
        /\ MutexesStay(t)
    BY <1>1, <1>11 DEF NoSlot, Return, Goto, Types, MutexesStay
  <2>2. QED
    BY <2>1, LockedLeave DEF Elsewhere
<1>12. CASE Recheck(t)
  <2>1. pc[t] = "recheck" /\ idx[t] \in Slots /\ UNCHANGED <<owner, sequence, holder, op, cond>>
    BY <1>12 DEF Recheck
  <2>2. claimed[t] \in Slots /\ owner[claimed[t]] = cond[t] /\ idx[t] <= claimed[t]
    BY <1>1, <1>4, <2>1 DEF Shape, Contending, Found
  <2>3. CASE owner[idx[t]] # cond[t]
    <3>1. idx'[t] = idx[t] + 1 /\ pc'[t] = "recheck" /\ slot'[t] = 0 /\ claimed' = claimed
      BY <1>1, <1>3, <1>12, <2>1, <2>3 DEF Recheck, Types
    <3>2. Found(t)'
      BY <2>1, <2>2, <2>3, <3>1, SlotFacts DEF Found
    <3>3. QED
      BY <1>7, <2>1, <3>1, <3>2 DEF InLookup
  <2>4. CASE owner[idx[t]] = cond[t]
    <3>1. idx[t] = claimed[t]
      BY <1>3, <2>1, <2>2, <2>4 DEF Orderly, OneOwned
    <3>2. slot'[t] = idx[t] /\ pc'[t] \in {"expect", "bump"}
      BY <1>1, <1>12, <2>4, <3>1 DEF Recheck, Resolved, Goto, Types
    <3>3. Found(t)'
      BY <2>1, <2>4, <3>2 DEF Found
    <3>4. QED
      BY <1>7, <2>1, <3>2, <3>3
  <2>5. QED
    BY <2>3, <2>4
<1>13. QED
  BY <1>4, <1>8, <1>9, <1>10, <1>11, <1>12

\* The wait from the lookup on, and a signal before it wakes.
LEMMA LockedWait ==
  ASSUME FormInv, Orderly, FormInv', NEW t \in Threads, Elsewhere(t),
         \/ LoadExpected(t) \/ RegisterWait(t) \/ UnlockMutex(t) \/ Sleep(t)
         \/ WakeAlone(t) \/ Relock(t) \/ Bump(t)
  PROVE  Orderly'
<1>1. Types /\ Shape /\ Types' /\ Shape'
  BY TypeParts DEF FormInv, TypeOK, Types
<1>2. /\ pc[t] \in Waiting \cup {"bump"} /\ slot[t] \in Slots
      /\ UNCHANGED <<owner, op, cond, slot, idx, claimed>>
  BY <1>1 DEF Shape, Waiting, Signalling, LoadExpected, RegisterWait, UnlockMutex, Sleep,
              WakeAlone, Relock, Bump, lookupVars
<1>3. op[t] \in Uses => Found(t) /\ cond[t] \in Conds
                        /\ (pc[t] \notin Outside => holder[cond[t]] = t)
  BY <1>1, <1>2 DEF Orderly, UsesOwned, MutexHeld, Using, Shape, Waiting, Uses
<1>4. ASSUME pc'[t] \in Waiting \cup {"wake"} PROVE op[t] \in Uses => Found(t)'
  BY <1>2, <1>3, <1>4 DEF Found, Waiting
<1>5. sequence' = sequence => \A s \in Slots : sequence'[s] >= sequence[s]
  BY <1>1 DEF Types
<1>6. holder' = holder => MutexesStay(t)
  BY DEF MutexesStay
<1>7. CASE LoadExpected(t)
  <2>1. /\ pc[t] = "expect" /\ pc'[t] = "register" /\ expected'[t] = sequence[slot[t]]
        /\ UNCHANGED <<sequence, holder>>
    BY <1>1, <1>7 DEF LoadExpected, Goto, Types
  <2>2. expected'[t] <= sequence'[slot'[t]]
    BY <1>1, <1>2, <2>1 DEF Types
  <2>3. QED
    BY <1>2, <1>3, <1>4, <1>5, <1>6, <2>1, <2>2, LockedMove DEF Waiting, Outside, Freeing
<1>8. CASE RegisterWait(t)
  <2>1. /\ pc[t] = "register" /\ pc'[t] = "unlock"
        /\ UNCHANGED <<sequence, holder, expected>>
    BY <1>1, <1>8 DEF RegisterWait, Goto, Types
  <2>2. expected'[t] <= sequence'[slot'[t]]
    BY <1>2, <2>1 DEF Orderly, Generations
  <2>3. QED
    BY <1>2, <1>3, <1>4, <1>5, <1>6, <2>1, <2>2, LockedMove DEF Waiting, Outside, Freeing
<1>9. CASE UnlockMutex(t)
  <2>1. /\ pc[t] = "unlock" /\ pc'[t] = "sleep" /\ op[t] \in Uses
        /\ holder' = [holder EXCEPT ![cond[t]] = NoThread]
        /\ UNCHANGED <<sequence, expected>>
    BY <1>1, <1>9 DEF UnlockMutex, Goto, Types, Shape, Waiting, Uses
  <2>2. expected'[t] <= sequence'[slot'[t]]
    BY <1>2, <2>1 DEF Orderly, Generations
  <2>3. holder[cond[t]] = t /\ MutexesStay(t)
    BY <1>1, <1>3, <2>1 DEF MutexesStay, Outside, Types
  <2>4. \A u \in Threads \ {t} : Using(u) /\ pc[u] = "wake" => cond[u] # cond[t]
    BY <2>3 DEF Orderly, MutexHeld, Outside
  <2>5. QED
    BY <1>2, <1>3, <1>4, <1>5, <2>1, <2>2, <2>3, <2>4, LockedMove
       DEF Waiting, Outside, Freeing
<1>10. CASE Sleep(t) \/ WakeAlone(t)
  <2>1. /\ pc[t] \in Outside /\ pc'[t] \in {"parked", "relock"}
        /\ pc'[t] = "parked" => pc[t] = "sleep"
        /\ UNCHANGED <<sequence, holder, expected>>
    BY <1>1, <1>10 DEF Sleep, WakeAlone, Goto, Types, Outside
  <2>2. pc'[t] = "parked" => expected'[t] <= sequence'[slot'[t]]
    BY <1>2, <2>1 DEF Orderly, Generations
  <2>3. QED
    BY <1>2, <1>3, <1>4, <1>5, <1>6, <2>1, <2>2, LockedMove
       DEF Waiting, Outside, Freeing, Aware
<1>11. CASE Relock(t)
  <2>1. /\ pc[t] = "relock" /\ pc'[t] = "unregister" /\ op[t] \in Uses
        /\ holder[cond[t]] = NoThread /\ holder' = [holder EXCEPT ![cond[t]] = t]
        /\ UNCHANGED <<sequence, expected>>
    BY <1>1, <1>11 DEF Relock, Goto, Types, Shape, Waiting, Uses
  <2>2. holder'[cond[t]] = t /\ MutexesStay(t)
    BY <1>1, <1>3, <2>1, ValuesAssumption DEF MutexesStay, Types
  <2>3. QED
    BY <1>2, <1>3, <1>4, <1>5, <2>1, <2>2, LockedMove DEF Waiting, Outside, Freeing, Aware
<1>12. CASE Bump(t)
  <2>1. /\ pc[t] = "bump" /\ pc'[t] = "wake"
        /\ sequence' = [sequence EXCEPT ![slot[t]] = @ + 1]
        /\ UNCHANGED <<holder, expected>>
    BY <1>1, <1>12 DEF Bump, Goto, Types
  <2>2. \A s \in Slots : sequence'[s] >= sequence[s]
    BY <1>1, <1>2, <2>1 DEF Types
  <2>3. ASSUME op[t] \in Uses, NEW w \in Threads \ {t}, pc[w] = "sleep", cond[w] = cond[t]
        PROVE  expected[w] < sequence'[slot[w]]
    <3>1. slot[w] \in Slots /\ Using(w)
      BY <1>1, <2>3 DEF Shape, Waiting, Using, Uses
    <3>2. slot[w] = slot[t]
      BY <1>2, <1>3, <2>3, <3>1, SlotFacts DEF Orderly, UsesOwned, OneOwned, Found
    <3>3. expected[w] <= sequence[slot[w]] /\ expected[w] \in Nat /\ sequence[slot[w]] \in Nat
      BY <1>1, <2>3, <3>1 DEF Orderly, Generations, Types
    <3>4. sequence'[slot[w]] = sequence[slot[w]] + 1
      BY <1>1, <2>1, <3>1, <3>2 DEF Types
    <3>5. QED
      BY <3>3, <3>4
  <2>4. QED
    BY <1>2, <1>3, <1>4, <1>6, <2>1, <2>2, <2>3, LockedMove
       DEF Waiting, Outside, Freeing, Aware
<1>13. QED
  BY <1>7, <1>8, <1>9, <1>10, <1>11, <1>12

\* The end of a wait or a signal.
LEMMA LockedReturn ==
  ASSUME FormInv, Orderly, FormInv', NEW t \in Threads, UnregisterWait(t) \/ Wake(t)
  PROVE  Orderly'
<1>1. Types /\ Shape
  BY TypeParts DEF FormInv
<1>2. CASE UnregisterWait(t)
  <2>1. Elsewhere(t)
    BY <1>2, OthersStay
  <2>2. /\ pc'[t] = "idle" /\ cond'[t] = NoCond /\ UNCHANGED <<owner, sequence, expected>>
        /\ MutexesStay(t)
    BY <1>1, <1>2 DEF UnregisterWait, Return, Goto, Types, MutexesStay
  <2>3. QED
    BY <2>1, <2>2, LockedLeave DEF Elsewhere
<1>3. CASE Wake(t)
  <2>1. PICK woken \in SUBSET Parked(slot[t]) :
          pc' = [w \in Threads |-> IF w \in woken THEN "relock"
                                   ELSE IF w = t THEN "idle" ELSE pc[w]]
    BY <1>3 DEF Wake
  <2>2. \A w \in woken : w \in Threads /\ pc[w] = "parked" /\ w # t
    BY <1>3 DEF Parked, Wake
  <2>3. /\ pc'[t] = "idle"
        /\ \A u \in Threads \ {t} :
             pc'[u] = pc[u] \/ (pc[u] = "parked" /\ pc'[u] = "relock")
    BY <2>1, <2>2
  <2>4. /\ cond'[t] = NoCond /\ UNCHANGED <<owner, sequence, expected>> /\ MutexesStay(t)
        /\ \A u \in Threads \ {t} :
             /\ op'[u] = op[u] /\ cond'[u] = cond[u] /\ slot'[u] = slot[u]
             /\ idx'[u] = idx[u] /\ claimed'[u] = claimed[u]
    BY <1>1, <1>3 DEF Wake, Types, MutexesStay
  <2>5. QED
    BY <2>3, <2>4, LockedLeave
<1>4. QED
  BY <1>2, <1>3

\* The destruction of a condvar, which nobody else uses.
LEMMA LockedForget ==
  ASSUME FormInv, Orderly, FormInv', NEW t \in Threads, Elsewhere(t),
         Retire(t) \/ ResetSequence(t) \/ FreeSlot(t)
  PROVE  Orderly'
<1>1. Types /\ Shape /\ Types' /\ Shape'
  BY TypeParts DEF FormInv, TypeOK, Types
<1>2. pc[t] \in {"retire"} \cup Freeing /\ pc[t] # "idle"
  BY DEF Retire, ResetSequence, FreeSlot, Freeing
<1>3. op[t] = "forget" /\ cond[t] \in Conds /\ ~Using(t)
  BY <1>1, <1>2 DEF Shape, Using, Uses
<1>4. \A u \in Threads \ {t} : pc[u] # "idle" => cond[u] # cond[t]
  BY <1>2, <1>3 DEF Orderly, ForgetsAlone
<1>5. pc[t] \in Freeing =>
        /\ owner[slot[t]] = Retiring /\ slot[t] \in Slots
        /\ \A u \in Threads \ {t} : pc[u] \in Freeing => slot[u] # slot[t]
  BY <1>1, <1>2, <1>3 DEF Orderly, ForgetsAlone, Shape
<1>6. \A u \in Threads : Using(u) =>
        /\ Found(u) /\ cond[u] \in Conds
        /\ slot[u] # 0 => slot[u] \in Slots
        /\ pc[u] = "recheck" => claimed[u] \in Slots
  <2>1. \A u \in Threads : slot[u] # 0 => slot[u] \in Slots
    BY <1>1, SlotFacts DEF Types
  <2>2. QED
    BY <1>1, <2>1 DEF Orderly, UsesOwned, Using, Shape, Uses, Contending
\* A slot changes hands that nobody else uses.
<1>7. ASSUME NEW s \in Slots, NEW o \in {Retiring, NoCond}, owner' = [owner EXCEPT ![s] = o],
             owner[s] \in {cond[t], Retiring}, op' = op
      PROVE  OneOwned' /\ UsesOwned'
  <2>1. owner'[s] = o /\ \A r \in Slots \ {s} : owner'[r] = owner[r]
    BY <1>1, <1>7 DEF Types
  <2>2. OneOwned'
    BY <1>7, <2>1, ValuesAssumption DEF Orderly, OneOwned
  <2>3. ASSUME NEW u \in Threads, Using(u)' PROVE Found(u)'
    <3>1. u # t /\ Using(u)
      BY <1>3, <1>7, <2>3 DEF Elsewhere, Using, Uses
    <3>2. cond[u] # cond[t] /\ cond[u] # Retiring /\ cond[u] # NoCond
      BY <1>4, <1>6, <3>1, ValuesAssumption DEF Using
    <3>3. QED
      BY <1>6, <1>7, <2>1, <3>1, <3>2 DEF Found, Elsewhere
  <2>4. QED
    BY <2>2, <2>3 DEF UsesOwned
<1>8. CASE Retire(t)
  <2>1. CASE idx[t] \notin Slots
    <3>1. /\ pc'[t] = "idle" /\ cond'[t] = NoCond /\ UNCHANGED <<owner, sequence, expected>>
          /\ MutexesStay(t)
      BY <1>1, <1>8, <2>1 DEF Retire, Return, Goto, Types, MutexesStay
    <3>2. QED
      BY <3>1, LockedLeave DEF Elsewhere
  <2>2. CASE idx[t] \in Slots /\ owner[idx[t]] = cond[t]
    <3>1. /\ pc'[t] = "reset" /\ slot'[t] = idx[t]
          /\ owner' = [owner EXCEPT ![idx[t]] = Retiring]
          /\ UNCHANGED <<sequence, holder, op, cond, expected>>
      BY <1>1, <1>8, <2>2 DEF Retire, Goto, Types
    <3>2. OneOwned' /\ UsesOwned'
      BY <1>7, <2>2, <3>1
    <3>3. MutexHeld'
      BY <1>3, <3>1 DEF Orderly, MutexHeld, Elsewhere, Using, Uses
    <3>4. ForgetsAlone'
      <4>1. owner'[idx[t]] = Retiring /\ \A r \in Slots \ {idx[t]} : owner'[r] = owner[r]
        BY <1>1, <2>2, <3>1 DEF Types
      <4>2. ASSUME NEW f \in Threads \ {t}, pc[f] \in Freeing
            PROVE  owner'[slot[f]] = Retiring /\ slot[f] # idx[t]
        <5>1. op[f] = "forget" /\ slot[f] \in Slots /\ pc[f] # "idle"
          BY <1>1, <4>2 DEF Shape, Freeing
        <5>2. owner[slot[f]] = Retiring
          BY <4>2, <5>1 DEF Orderly, ForgetsAlone
        <5>3. QED
          BY <1>3, <2>2, <4>1, <5>1, <5>2, ValuesAssumption
      <4>3. QED
        BY <1>2, <1>3, <1>4, <2>2, <3>1, <4>1, <4>2 DEF Orderly, ForgetsAlone, Elsewhere
    <3>5. Generations'
      BY <1>3, <3>1 DEF Orderly, Generations, Elsewhere, Using
    <3>6. QED
      BY <3>2, <3>3, <3>4, <3>5 DEF Orderly
  <2>3. CASE idx[t] \in Slots /\ owner[idx[t]] # cond[t]
    <3>1. /\ pc'[t] = "retire" /\ UNCHANGED <<owner, op, cond, sequence, holder>>
          /\ pc[t] = "retire"
      BY <1>8, <2>3 DEF Retire
    <3>2. MutexesStay(t) /\ \A s \in Slots : sequence'[s] >= sequence[s]
      BY <1>1, <3>1 DEF MutexesStay, Types
    <3>3. QED
      BY <1>3, <3>1, <3>2, LockedMove DEF Freeing, Aware, Uses
  <2>4. QED
    BY <2>1, <2>2, <2>3
<1>9. CASE ResetSequence(t)
  <2>1. /\ pc[t] = "reset" /\ pc'[t] = "free" /\ slot'[t] = slot[t]
        /\ sequence' = [sequence EXCEPT ![slot[t]] = 0]
        /\ UNCHANGED <<owner, holder, op, cond, expected>>
    BY <1>1, <1>9 DEF ResetSequence, Goto, Types
  <2>2. MutexHeld' /\ OneOwned'
    BY <1>3, <2>1 DEF Orderly, MutexHeld, OneOwned, Elsewhere, Using
  <2>3. UsesOwned'
    <3>1. ASSUME NEW u \in Threads, Using(u)' PROVE Found(u)'
      BY <1>3, <1>6, <2>1, <3>1 DEF Found, Elsewhere, Using
    <3>2. QED
      BY <3>1 DEF UsesOwned
  <2>4. ForgetsAlone'
    BY <1>2, <1>3, <2>1 DEF Orderly, ForgetsAlone, Elsewhere, Freeing
  <2>5. Generations'
    <3>1. ASSUME NEW w \in Threads \ {t}, pc[w] \in Aware
          PROVE  sequence'[slot[w]] = sequence[slot[w]]
      <4>1. Using(w) /\ slot[w] \in Slots
        BY <1>1, <3>1 DEF Shape, Waiting, Aware, Using, Uses
      <4>2. slot[w] # slot[t]
        BY <1>5, <1>6, <2>1, <4>1, ValuesAssumption, SlotFacts DEF Found, Freeing
      <4>3. QED
        BY <1>1, <2>1, <4>1, <4>2 DEF Types
    <3>2. QED
      BY <1>3, <2>1, <3>1 DEF Orderly, Generations, Elsewhere, Using, Aware
  <2>6. QED
    BY <2>2, <2>3, <2>4, <2>5 DEF Orderly
<1>10. CASE FreeSlot(t)
  <2>1. /\ pc[t] = "free" /\ pc'[t] = "idle" /\ cond'[t] = NoCond
        /\ owner' = [owner EXCEPT ![slot[t]] = NoCond]
        /\ UNCHANGED <<sequence, op, expected>> /\ MutexesStay(t)
    BY <1>1, <1>10 DEF FreeSlot, Return, Goto, Types, MutexesStay
  <2>2. OneOwned' /\ UsesOwned'
    BY <1>5, <1>7, <2>1 DEF Freeing
  <2>3. MutexHeld'
    BY <1>1, <2>1 DEF Orderly, MutexHeld, Elsewhere, Using, MutexesStay, Shape, Uses
  <2>4. ForgetsAlone'
    <3>1. ASSUME NEW f \in Threads \ {t}, pc[f] \in Freeing
          PROVE  owner'[slot[f]] = owner[slot[f]]
      BY <1>1, <1>5, <2>1, <3>1 DEF Freeing, Shape, Types
    <3>2. QED
      BY <1>1, <1>2, <2>1, <3>1 DEF Orderly, ForgetsAlone, Elsewhere, Freeing, Shape
  <2>5. Generations'
    BY <2>1 DEF Orderly, Generations, Elsewhere, Using
  <2>6. QED
    BY <2>2, <2>3, <2>4, <2>5 DEF Orderly
<1>11. QED
  BY <1>8, <1>9, <1>10

LEMMA LockedKept == LockedInv /\ [Next]_vars => LockedInv'
<1>1. SUFFICES ASSUME LockedInv, [Next]_vars, guest' = "locked" PROVE Orderly'
  BY FormKept DEF LockedInv
<1>2. FormInv /\ FormInv'
  BY <1>1, FormKept DEF LockedInv
<1>3. guest = "locked" /\ Orderly
  <2>1. guest' = guest
    BY <1>1, SameGuest
  <2>2. QED
    BY <1>1, <2>1 DEF LockedInv
<1>4. CASE UNCHANGED vars
  BY <1>3, <1>4 DEF vars, lookupVars, Orderly, MutexHeld, OneOwned, UsesOwned, ForgetsAlone,
                    Generations, Using, Found
<1>5. ASSUME NEW t \in Threads,
             \/ CallUse(t) \/ CallForget(t) \/ CallInterrupt(t)
             \/ Find(t) \/ FindAbsent(t) \/ Claim(t) \/ NoSlot(t) \/ Recheck(t) \/ Yield(t)
             \/ LoadExpected(t) \/ RegisterWait(t) \/ UnlockMutex(t) \/ Sleep(t)
             \/ WakeAlone(t) \/ Relock(t) \/ UnregisterWait(t)
             \/ Bump(t) \/ Wake(t)
             \/ Retire(t) \/ ResetSequence(t) \/ FreeSlot(t)
      PROVE  Orderly'
  BY <1>2, <1>3, <1>5, OthersStay, LockedCall, LockedLookup, LockedWait, LockedReturn,
     LockedForget
<1>6. QED
  BY <1>1, <1>4, <1>5 DEF Next

LEMMA LockedInit == Init => LockedInv
<1>1. SUFFICES ASSUME Init PROVE Orderly
  BY InitForm DEF LockedInv
<1>2. QED
  BY <1>1, ValuesAssumption DEF Init, Orderly, MutexHeld, OneOwned, UsesOwned, ForgetsAlone,
                                Generations, Using

-----------------------------------------------------------------------------
(***************************************************************************)
(* The invariant of two threads on one condvar.                            *)
(***************************************************************************)
\* Nobody looks anything up; calls may end.
LEMMA PairSettled ==
  ASSUME FormInv, Paired, FormInv', UNCHANGED <<owner, idx, op>>,
         \A u \in Threads :
           /\ pc'[u] = pc[u] \/ ({pc'[u], pc[u]} \cap (InLookup \cup {"retire"} \cup Freeing) = {})
           /\ cond'[u] \in {cond[u], NoCond} /\ slot'[u] \in {slot[u], 0}
           /\ claimed'[u] = claimed[u] \/ pc[u] \notin Contending
  PROVE  Paired'
<1>1. Types /\ Shape /\ Types' /\ Shape'
  BY TypeParts DEF FormInv, TypeOK, Types
<1>2. \A u \in Threads : cond'[u] \in Conds => cond[u] = cond'[u]
  BY ValuesAssumption
<1>3. \A u \in Threads : pc'[u] \in InLookup => pc'[u] = pc[u]
  BY DEF InLookup
<1>4. \A u \in Threads : pc'[u] \in InLookup => cond'[u] \in Conds
  BY <1>1 DEF Shape, InLookup, Uses
<1>5. TwoUsers'
  BY <1>2 DEF Paired, TwoUsers
<1>6. Front'
  BY <1>3 DEF Paired, Front, InLookup
<1>7. \A u \in Threads : pc'[u] \in Contending <=> pc[u] \in Contending
  BY DEF Contending, InLookup
<1>8. Claims'
  BY <1>2, <1>3, <1>4, <1>7 DEF Paired, Claims, Contending, InLookup
<1>9. Doubles'
  BY <1>7 DEF Paired, Doubles
<1>10. \A u \in Threads, s \in Slots : Past(u, s)' => Past(u, s)
  BY <1>3 DEF Past, Contending, InLookup
<1>11. OnePast'
  BY <1>2, <1>10 DEF Paired, OnePast
<1>12. Lowest'
  <2>1. ASSUME NEW u \in Threads, op'[u] \in Uses, slot'[u] # 0 PROVE cond'[u] = cond[u]
    <3>1. pc'[u] # "idle" /\ op'[u] # "interrupt"
      BY <1>1, <2>1 DEF Shape, Uses
    <3>2. QED
      BY <1>1, <1>2, <3>1 DEF Shape
  <2>2. QED
    BY <2>1 DEF Paired, Lowest
<1>13. QED
  BY <1>5, <1>6, <1>8, <1>9, <1>11, <1>12 DEF Paired

\* The steps that are not of a lookup, and are no calls.
LEMMA PairElse ==
  ASSUME FormInv, Paired, FormInv', NEW t \in Threads,
         \/ LoadExpected(t) \/ RegisterWait(t) \/ UnlockMutex(t) \/ Sleep(t)
         \/ WakeAlone(t) \/ Relock(t) \/ UnregisterWait(t) \/ Bump(t) \/ Wake(t)
  PROVE  Paired'
<1>1. Types
  BY TypeParts DEF FormInv
<1>2. CASE LoadExpected(t) \/ RegisterWait(t) \/ UnlockMutex(t) \/ Sleep(t)
  BY <1>1, <1>2, PairSettled
     DEF LoadExpected, RegisterWait, UnlockMutex, Sleep, Goto, lookupVars, Types, InLookup,
         Freeing
<1>3. CASE WakeAlone(t) \/ Relock(t) \/ Bump(t)
  BY <1>1, <1>3, PairSettled
     DEF WakeAlone, Relock, Bump, Goto, lookupVars, Types, InLookup, Freeing
<1>4. CASE UnregisterWait(t)
  BY <1>1, <1>4, PairSettled
     DEF UnregisterWait, Return, Goto, Types, InLookup, Freeing, Contending
<1>5. CASE Wake(t)
  <2>1. PICK woken \in SUBSET Parked(slot[t]) :
          pc' = [w \in Threads |-> IF w \in woken THEN "relock"
                                   ELSE IF w = t THEN "idle" ELSE pc[w]]
    BY <1>5 DEF Wake
  <2>2. pc[t] = "wake" /\ \A w \in woken : w \in Threads /\ pc[w] = "parked"
    BY <1>5 DEF Parked, Wake
  <2>3. \A u \in Threads :
          pc'[u] = pc[u] \/ ({pc'[u], pc[u]} \cap (InLookup \cup {"retire"} \cup Freeing) = {})
    BY <2>1, <2>2 DEF InLookup, Freeing
  <2>4. /\ UNCHANGED <<owner, idx, op>>
        /\ \A u \in Threads :
             /\ cond'[u] \in {cond[u], NoCond} /\ slot'[u] \in {slot[u], 0}
             /\ claimed'[u] = claimed[u] \/ pc[u] \notin Contending
    BY <1>1, <1>5, <2>2 DEF Wake, Types, Contending
  <2>5. QED
    BY <2>3, <2>4, PairSettled
<1>6. QED
  BY <1>2, <1>3, <1>4, <1>5

\* Two different members make a set of two.
LEMMA AtLeastTwo ==
  ASSUME NEW S, IsFiniteSet(S), NEW a \in S, NEW b \in S, a # b
  PROVE  Cardinality(S) \in Nat /\ Cardinality(S) >= 2
<1>1. /\ Cardinality({a, b}) = 2 /\ IsFiniteSet({a, b})
  <2>1. IsFiniteSet({a}) /\ Cardinality({a}) = 1
    BY FS_Singleton
  <2>2. {a, b} = {a} \cup {b} /\ b \notin {a}
    OBVIOUS
  <2>3. QED
    BY <2>1, <2>2, FS_AddElement
<1>2. Cardinality({a, b}) <= Cardinality(S)
  BY FS_Subset
<1>3. QED
  BY <1>1, <1>2, FS_CardinalityType

\* A call begins: at most one other thread uses the condvar.
LEMMA PairCall ==
  ASSUME FormInv, Paired, guest = "pair", FormInv', NEW t \in Threads, Elsewhere(t),
         CallUse(t) \/ CallForget(t) \/ CallInterrupt(t)
  PROVE  Paired'
<1>1. Types /\ Shape /\ Types' /\ Shape'
  BY TypeParts DEF FormInv, TypeOK, Types
<1>2. /\ pc[t] = "idle" /\ cond[t] = NoCond /\ slot[t] = 0 /\ owner' = owner
      /\ claimed' = claimed /\ ~CallForget(t)
  BY <1>1 DEF Shape, CallUse, CallForget, CallInterrupt, Called, lookupVars
<1>3. /\ pc'[t] \in {"find", "bump"}
      /\ op'[t] \in Uses => pc'[t] = "find" /\ idx'[t] = 1 /\ slot'[t] = 0
      /\ pc'[t] = "find" => op'[t] \in Uses
  BY <1>1, <1>2 DEF CallUse, CallInterrupt, Scan, Goto, Types, Uses, Shape, InLookup
<1>4. \A u \in Threads : u # t =>
        /\ pc'[u] = pc[u] /\ op'[u] = op[u] /\ cond'[u] = cond[u] /\ slot'[u] = slot[u]
        /\ idx'[u] = idx[u]
  BY DEF Elsewhere
<1>5. TwoUsers'
  <2>1. CASE CallUse(t)
    <3>1. PICK c \in Conds, o \in Uses :
            /\ AllowedNow(c)
            /\ cond' = [cond EXCEPT ![t] = c] /\ op' = [op EXCEPT ![t] = o]
      BY <2>1 DEF CallUse, Uses
    <3>2. cond'[t] = c /\ op'[t] \in Uses
      BY <1>1, <3>1 DEF Types
    <3>3. \A u \in Threads : cond[u] \in Conds => u \in Users(c)
      BY <1>1, <3>1, ValuesAssumption DEF AllowedNow, Users, Shape
    <3>4. ASSUME NEW u \in Users(c), NEW v \in Users(c) PROVE u = v
      <4>1. IsFiniteSet(Users(c))
        BY ThreadsAssumption, FS_Subset DEF Users
      <4>2. Cardinality(Users(c)) < 2
        BY <3>1 DEF AllowedNow
      <4>3. QED
        BY <3>4, <4>1, <4>2, AtLeastTwo
    <3>5. \A u \in Users(c) : u \in Threads /\ u # t /\ cond[u] = c
      BY <1>2 DEF Users
    <3>6. \A u \in Users(c) : op[u] # "forget"
      BY <3>5 DEF Paired, TwoUsers
    <3>7. QED
      BY <1>4, <3>2, <3>3, <3>4, <3>5, <3>6 DEF TwoUsers, Uses
  <2>2. CASE CallInterrupt(t)
    BY <1>2, <1>4, <2>2, ValuesAssumption DEF CallInterrupt, Paired, TwoUsers
  <2>3. QED
    BY <1>2, <2>1, <2>2
<1>6. Front'
  BY <1>2, <1>3, <1>4 DEF Paired, Front
<1>7. Claims'
  BY <1>2, <1>3, <1>4 DEF Paired, Claims, Contending
<1>8. Doubles'
  BY <1>2, <1>3, <1>4 DEF Paired, Doubles, Contending
<1>9. OnePast'
  <2>1. \A s \in Slots : ~Past(t, s)'
    BY <1>3, SlotFacts DEF Past, Contending, Slots
  <2>2. \A u \in Threads, s \in Slots : u # t => (Past(u, s)' => Past(u, s))
    BY <1>2, <1>4 DEF Past
  <2>3. QED
    BY <1>2, <1>4, <2>1, <2>2 DEF Paired, OnePast
<1>10. Lowest'
  BY <1>2, <1>3, <1>4 DEF Paired, Lowest
<1>11. QED
  BY <1>5, <1>6, <1>7, <1>8, <1>9, <1>10 DEF Paired

\* Of two threads on a condvar only one has missed a slot of it.
LEMMA Missed ==
  ASSUME FormInv, Paired, NEW t \in Threads, NEW u \in Threads, NEW s \in Slots,
         cond[t] \in Conds, cond[u] \in Conds, owner[s] = cond[t], Past(t, s), Past(u, s)
  PROVE  t = u
BY DEF Paired, TwoUsers, OnePast

\* A lookup that leaves the slots as they are.
LEMMA PairLook ==
  ASSUME FormInv, Paired, FormInv', NEW t \in Threads, Elsewhere(t), cond[t] \in Conds,
         UNCHANGED <<owner, op, cond, claimed>>,
         pc'[t] = "claim" => \A s \in Slots : s < idx'[t] => owner[s] # NoCond,
         pc'[t] = "recheck" =>
           /\ pc[t] = "recheck" /\ idx'[t] <= claimed[t]
           /\ \A s \in Slots : s < idx'[t] => owner[s] # cond[t],
         pc'[t] = "yield" =>
           pc[t] = "recheck" /\ \E s \in Slots : s < claimed[t] /\ owner[s] = cond[t],
         pc[t] \in Contending /\ pc'[t] \notin Contending =>
           \A s \in Slots : s < claimed[t] => owner[s] # cond[t],
         \A s \in Slots : owner[s] = cond[t] /\ Past(t, s)' => Past(t, s),
         slot'[t] # 0 =>
           /\ slot'[t] \in Slots /\ owner[slot'[t]] = cond[t]
           /\ \A s \in Slots : s < slot'[t] => owner[s] # cond[t]
  PROVE  Paired'
<1>1. TwoUsers'
  BY DEF Paired, TwoUsers
<1>2. Front'
  BY DEF Paired, Front, Elsewhere
<1>3. Claims'
  <2>1. \A u \in Threads : pc'[u] \in Contending => pc[u] \in Contending
    BY DEF Elsewhere, Contending
  <2>2. QED
    BY <2>1 DEF Paired, Claims, Elsewhere, Contending
<1>4. Doubles'
  <2>1. ASSUME NEW r \in Slots, NEW s \in Slots, r < s, owner[r] = owner[s], owner[s] \in Conds
        PROVE  \E u \in Threads : pc'[u] \in Contending /\ claimed'[u] = s
    <3>1. PICK u \in Threads : pc[u] \in Contending /\ claimed[u] = s
      BY <2>1 DEF Paired, Doubles
    <3>2. owner[s] = cond[u]
      BY <3>1 DEF Paired, Claims
    <3>3. u = t => pc'[t] \in Contending
      BY <2>1, <3>1, <3>2
    <3>4. QED
      BY <3>1, <3>3 DEF Elsewhere
  <2>2. QED
    BY <2>1 DEF Paired, Doubles
<1>5. OnePast'
  <2>1. ASSUME NEW u \in Threads, NEW s \in Slots, owner[s] = cond[u], Past(u, s)'
        PROVE  Past(u, s)
    BY <2>1 DEF Past, Elsewhere
  <2>2. QED
    BY <2>1 DEF Paired, OnePast
<1>6. Lowest'
  BY DEF Paired, Lowest, Elsewhere
<1>7. QED
  BY <1>1, <1>2, <1>3, <1>4, <1>5, <1>6 DEF Paired

\* Taking the first free slot.
LEMMA PairClaim ==
  ASSUME FormInv, Paired, FormInv', NEW t \in Threads, Elsewhere(t), Claim(t),
         owner[idx[t]] = NoCond
  PROVE  Paired'
<1>1. Types /\ Shape /\ Types' /\ Shape'
  BY TypeParts DEF FormInv, TypeOK, Types
<1>2. DEFINE i == idx[t]
<1>3. /\ i \in Slots /\ cond[t] \in Conds /\ pc[t] = "claim" /\ slot[t] = 0
      /\ owner'[i] = cond[t] /\ owner[i] = NoCond
      /\ \A s \in Slots : s # i => owner'[s] = owner[s]
      /\ pc'[t] = "recheck" /\ claimed'[t] = i /\ idx'[t] = 1
      /\ UNCHANGED <<op, cond, slot>>
  BY <1>1 DEF Claim, Scan, Goto, Types, Shape, InLookup, Uses
<1>4. HIDE DEF i
<1>5. \A s \in Slots : s < i => owner[s] # NoCond
  BY <1>3 DEF Paired, Front, i
<1>6. \A s \in Slots : i < s => owner[s] = NoCond
  BY <1>3 DEF Paired, Front
<1>7. \A s \in Slots : s \in Nat
  BY SlotFacts
<1>8. \A u \in Threads : u # t =>
        /\ pc'[u] = pc[u] /\ claimed'[u] = claimed[u] /\ idx'[u] = idx[u]
  BY DEF Elsewhere
<1>9. TwoUsers'
  BY <1>3 DEF Paired, TwoUsers
<1>10. Front'
  <2>1. ASSUME NEW r \in Slots, NEW s \in Slots, r < s, owner'[s] # NoCond
        PROVE  owner'[r] # NoCond
    <3>1. r < i
      BY <1>3, <1>6, <1>7, <2>1
    <3>2. QED
      BY <1>3, <1>5, <1>7, <3>1
  <2>2. ASSUME NEW u \in Threads, pc'[u] = "claim", NEW s \in Slots, s < idx'[u]
        PROVE  owner'[s] # NoCond
    <3>1. u # t
      BY <1>3, <2>2
    <3>2. owner[s] # NoCond
      BY <1>8, <2>2, <3>1 DEF Paired, Front
    <3>3. QED
      BY <1>3, <3>2
  <2>3. QED
    BY <2>1, <2>2 DEF Front
\* Another contender's slot lies before this one.
<1>11. ASSUME NEW u \in Threads, u # t, pc[u] \in Contending
       PROVE  /\ claimed[u] \in Slots /\ claimed[u] < i /\ owner[claimed[u]] = cond[u]
              /\ cond[u] = cond[t]
  <2>1. claimed[u] \in Slots /\ cond[u] \in Conds /\ owner[claimed[u]] = cond[u]
    BY <1>1, <1>11 DEF Shape, Contending, InLookup, Uses, Paired, Claims
  <2>2. owner[claimed[u]] # NoCond
    BY <2>1, ValuesAssumption
  <2>3. claimed[u] < i
    BY <1>3, <1>6, <1>7, <2>1, <2>2
  <2>4. QED
    BY <1>3, <2>1, <2>3 DEF Paired, TwoUsers
<1>12. Claims'
  <2>1. /\ owner'[claimed'[t]] = cond'[t]
        /\ \A u \in Threads \ {t} : pc'[u] \in Contending => claimed'[u] # claimed'[t]
        /\ idx'[t] <= claimed'[t] /\ \A s \in Slots : s < idx'[t] => owner'[s] # cond'[t]
        /\ pc'[t] # "yield"
    BY <1>3, <1>7, <1>8, <1>11, SlotFacts DEF Slots
  <2>2. ASSUME NEW u \in Threads, u # t, pc'[u] \in Contending
        PROVE  /\ owner'[claimed'[u]] = cond'[u]
               /\ \A v \in Threads \ {u} : pc'[v] \in Contending => claimed'[v] # claimed'[u]
               /\ pc'[u] = "recheck" =>
                    idx'[u] <= claimed'[u] /\ \A s \in Slots : s < idx'[u] => owner'[s] # cond'[u]
               /\ pc'[u] = "yield" => \E s \in Slots : s < claimed'[u] /\ owner'[s] = cond'[u]
    <3>1. pc[u] \in Contending /\ claimed[u] \in Slots /\ claimed[u] < i
      BY <1>8, <1>11, <2>2
    <3>2. owner'[claimed'[u]] = cond'[u]
      BY <1>3, <1>7, <1>8, <1>11, <2>2, <3>1
    <3>3. \A v \in Threads \ {u} : pc'[v] \in Contending => claimed'[v] # claimed'[u]
      BY <1>3, <1>7, <1>8, <2>2, <3>1 DEF Paired, Claims
    <3>4. ASSUME pc'[u] = "recheck"
          PROVE  idx'[u] <= claimed'[u] /\ \A s \in Slots : s < idx'[u] => owner'[s] # cond'[u]
      <4>1. idx[u] <= claimed[u] /\ \A s \in Slots : s < idx[u] => owner[s] # cond[u]
        BY <1>8, <2>2, <3>1, <3>4 DEF Paired, Claims
      <4>2. idx[u] \in Nat
        BY <1>1, SlotFacts DEF Types
      <4>3. \A s \in Slots : s < idx[u] => s # i
        BY <1>3, <1>7, <3>1, <4>1, <4>2
      <4>4. QED
        BY <1>3, <1>8, <2>2, <4>1, <4>3
    <3>5. ASSUME pc'[u] = "yield"
          PROVE  \E s \in Slots : s < claimed'[u] /\ owner'[s] = cond'[u]
      <4>1. PICK s \in Slots : s < claimed[u] /\ owner[s] = cond[u]
        BY <1>8, <2>2, <3>1, <3>5 DEF Paired, Claims
      <4>2. s # i
        BY <1>3, <1>7, <3>1, <4>1
      <4>3. QED
        BY <1>3, <1>8, <2>2, <4>1, <4>2
    <3>6. QED
      BY <3>2, <3>3, <3>4, <3>5
  <2>3. QED
    BY <1>3, <2>1, <2>2 DEF Claims
<1>13. Doubles'
  <2>1. SUFFICES ASSUME NEW r \in Slots, NEW s \in Slots, r < s, owner'[r] = owner'[s],
                        owner'[s] \in Conds
                 PROVE  /\ \E u \in Threads : pc'[u] \in Contending /\ claimed'[u] = s
                        /\ \A q \in Slots : s < q => owner'[q] = NoCond
    BY DEF Doubles
  <2>2. CASE s = i
    BY <1>3, <1>6, <1>7, <2>2 DEF Contending
  <2>3. CASE s # i
    <3>1. s < i
      BY <1>3, <1>6, <1>7, <2>1, <2>3, ValuesAssumption
    <3>2. r < i /\ owner[r] = owner[s] /\ owner[s] \in Conds
      BY <1>3, <1>7, <2>1, <3>1
    <3>3. PICK u \in Threads : pc[u] \in Contending /\ claimed[u] = s
      BY <2>1, <3>2 DEF Paired, Doubles
    <3>4. u # t /\ cond[u] = cond[t] /\ owner[r] = cond[t]
      BY <1>3, <1>11, <3>2, <3>3 DEF Contending
    <3>5. Past(t, r) /\ Past(u, r)
      BY <1>3, <1>7, <2>1, <3>3 DEF Past
    <3>6. QED
      BY <1>3, <3>4, <3>5, Missed
  <2>4. QED
    BY <2>2, <2>3
<1>14. OnePast'
  <2>1. SUFFICES ASSUME NEW v \in Threads, NEW u \in Threads, NEW s \in Slots,
                        cond[v] \in Conds, owner'[s] = cond[v], cond[u] = cond[v],
                        Past(v, s)', Past(u, s)'
                 PROVE  v = u
    BY <1>3 DEF OnePast
  <2>2. CASE s = i
    <3>1. ~Past(t, s)'
      BY <1>3, <2>2 DEF Past, Contending
    <3>2. QED
      BY <1>3, <2>1, <2>2, <3>1 DEF Paired, TwoUsers
  <2>3. CASE s # i
    <3>1. \A w \in Threads : Past(w, s)' => Past(w, s)
      BY <1>3, <1>8 DEF Past
    <3>2. QED
      BY <1>3, <2>1, <2>3, <3>1 DEF Paired, OnePast
  <2>4. QED
    BY <2>2, <2>3
<1>15. Lowest'
  <2>1. ASSUME NEW u \in Threads, op[u] \in Uses, slot[u] # 0
        PROVE  owner'[slot[u]] = cond[u] /\ \A s \in Slots : s < slot[u] => owner'[s] # cond[u]
    <3>1. slot[u] \in Slots /\ cond[u] \in Conds
      BY <1>1, <2>1, SlotFacts DEF Types, Shape, Uses
    <3>2. owner[slot[u]] = cond[u] /\ \A s \in Slots : s < slot[u] => owner[s] # cond[u]
      BY <2>1 DEF Paired, Lowest
    <3>3. slot[u] < i
      BY <1>3, <1>6, <1>7, <3>1, <3>2, ValuesAssumption
    <3>4. QED
      BY <1>3, <1>7, <3>1, <3>2, <3>3
  <2>2. QED
    BY <1>3, <2>1 DEF Lowest
<1>16. QED
  BY <1>9, <1>10, <1>12, <1>13, <1>14, <1>15 DEF Paired

\* Giving the upper of two slots back.
LEMMA PairYield ==
  ASSUME FormInv, Paired, FormInv', NEW t \in Threads, Elsewhere(t), Yield(t)
  PROVE  Paired'
<1>1. Types /\ Shape /\ Types' /\ Shape'
  BY TypeParts DEF FormInv, TypeOK, Types
<1>2. DEFINE b == claimed[t]
<1>3. /\ b \in Slots /\ cond[t] \in Conds /\ pc[t] = "yield" /\ slot[t] = 0
      /\ owner'[b] = NoCond
      /\ \A s \in Slots : s # b => owner'[s] = owner[s]
      /\ pc'[t] \in {"find", "lastFind"} /\ idx'[t] = 1
      /\ UNCHANGED <<op, cond, slot>>
  BY <1>1 DEF Yield, Scan, Goto, Types, Shape, InLookup, Uses, Contending
<1>4. PICK a \in Slots : a < b /\ owner[a] = cond[t] /\ owner[b] = cond[t]
  BY <1>3 DEF Paired, Claims, Contending
<1>5. \A q \in Slots : b < q => owner[q] = NoCond
  BY <1>3, <1>4 DEF Paired, Doubles
<1>6. Past(t, a)
  BY <1>3, <1>4, SlotFacts DEF Past, Contending
<1>7. HIDE DEF b
<1>8. \A s \in Slots : s \in Nat
  BY SlotFacts
<1>9. \A u \in Threads : u # t =>
        /\ pc'[u] = pc[u] /\ claimed'[u] = claimed[u] /\ idx'[u] = idx[u]
  BY DEF Elsewhere
<1>10. TwoUsers'
  BY <1>3 DEF Paired, TwoUsers
<1>11. Front'
  <2>1. ASSUME NEW r \in Slots, NEW s \in Slots, r < s, owner'[s] # NoCond
        PROVE  owner'[r] # NoCond
    <3>1. s < b /\ owner[s] # NoCond
      BY <1>3, <1>5, <1>8, <2>1
    <3>2. owner[r] # NoCond /\ r # b
      BY <1>3, <1>8, <2>1, <3>1 DEF Paired, Front
    <3>3. QED
      BY <1>3, <3>2
\* The other thread is not looking for a free slot.
  <2>2. ASSUME NEW u \in Threads, pc'[u] = "claim" PROVE FALSE
    <3>1. u # t /\ pc[u] = "claim"
      BY <1>3, <1>9, <2>2
    <3>2. cond[u] \in Conds /\ Past(u, a)
      BY <1>1, <3>1 DEF Shape, InLookup, Uses, Past
    <3>3. QED
      BY <1>3, <1>4, <1>6, <3>1, <3>2, Missed
  <2>3. QED
    BY <2>1, <2>2 DEF Front
<1>12. Claims'
  <2>1. SUFFICES ASSUME NEW u \in Threads, pc'[u] \in Contending
        PROVE  /\ owner'[claimed'[u]] = cond[u]
               /\ \A v \in Threads \ {u} : pc'[v] \in Contending => claimed'[v] # claimed'[u]
               /\ pc'[u] = "recheck" =>
                    idx'[u] <= claimed'[u] /\ \A s \in Slots : s < idx'[u] => owner'[s] # cond[u]
               /\ pc'[u] = "yield" => \E s \in Slots : s < claimed'[u] /\ owner'[s] = cond[u]
    BY <1>3 DEF Claims
  <2>2. u # t /\ pc[u] \in Contending /\ pc'[t] \notin Contending
    BY <1>3, <1>9, <2>1 DEF Contending
  <2>3. /\ claimed[u] \in Slots /\ claimed[u] # b /\ owner[claimed[u]] = cond[u]
        /\ cond[u] \in Conds
    BY <1>1, <1>3, <2>2 DEF Shape, Contending, InLookup, Uses, Paired, Claims, b
  <2>4. claimed[u] < b
    BY <1>3, <1>5, <1>8, <2>3, ValuesAssumption
  <2>5. \A v \in Threads \ {u} : pc'[v] \in Contending => claimed'[v] # claimed'[u]
    BY <1>9, <2>2 DEF Paired, Claims
  <2>6. ASSUME pc'[u] = "recheck"
        PROVE  idx'[u] <= claimed'[u] /\ \A s \in Slots : s < idx'[u] => owner'[s] # cond[u]
    <3>1. idx[u] <= claimed[u] /\ \A s \in Slots : s < idx[u] => owner[s] # cond[u]
      BY <1>9, <2>2, <2>6 DEF Paired, Claims
    <3>2. QED
      BY <1>3, <1>9, <2>2, <2>3, <3>1, ValuesAssumption
  <2>7. ASSUME pc'[u] = "yield" PROVE \E s \in Slots : s < claimed'[u] /\ owner'[s] = cond[u]
    <3>1. PICK s \in Slots : s < claimed[u] /\ owner[s] = cond[u]
      BY <1>9, <2>2, <2>7 DEF Paired, Claims
    <3>2. s # b
      BY <1>3, <1>8, <2>3, <2>4, <3>1
    <3>3. QED
      BY <1>3, <1>9, <2>2, <3>1, <3>2
  <2>8. QED
    BY <1>3, <1>9, <2>2, <2>3, <2>5, <2>6, <2>7
<1>13. Doubles'
  <2>1. SUFFICES ASSUME NEW r \in Slots, NEW s \in Slots, r < s, owner'[r] = owner'[s],
                        owner'[s] \in Conds
                 PROVE  FALSE
    BY DEF Doubles
  <2>2. s < b /\ owner[s] \in Conds /\ owner[r] = owner[s]
    BY <1>3, <1>5, <1>8, <2>1, ValuesAssumption
  <2>3. owner[b] = NoCond
    BY <1>3, <2>1, <2>2 DEF Paired, Doubles
  <2>4. QED
    BY <1>3, <1>4, <2>3, ValuesAssumption
<1>14. OnePast'
  <2>1. \A s \in Slots : ~Past(t, s)'
    BY <1>3, SlotFacts DEF Past, Contending, Slots
  <2>2. \A u \in Threads, s \in Slots : u # t => (Past(u, s)' => Past(u, s))
    BY <1>9 DEF Past
  <2>3. \A s \in Slots : owner'[s] \in Conds => owner'[s] = owner[s]
    BY <1>3, ValuesAssumption
  <2>4. QED
    BY <1>3, <2>1, <2>2, <2>3 DEF Paired, OnePast
<1>15. Lowest'
  <2>1. ASSUME NEW u \in Threads, op[u] \in Uses, slot[u] # 0
        PROVE  owner'[slot[u]] = cond[u] /\ \A s \in Slots : s < slot[u] => owner'[s] # cond[u]
    <3>1. slot[u] \in Slots /\ cond[u] \in Conds
      BY <1>1, <2>1, SlotFacts DEF Types, Shape, Uses
    <3>2. owner[slot[u]] = cond[u] /\ \A s \in Slots : s < slot[u] => owner[s] # cond[u]
      BY <2>1 DEF Paired, Lowest
    <3>3. slot[u] # b
      BY <1>4, <3>2
    <3>4. QED
      BY <1>3, <3>1, <3>2, <3>3, ValuesAssumption
  <2>2. QED
    BY <1>3, <2>1 DEF Lowest
<1>16. QED
  BY <1>10, <1>11, <1>12, <1>13, <1>14, <1>15 DEF Paired

\* The lookup.
LEMMA PairLookup ==
  ASSUME FormInv, Paired, FormInv', NEW t \in Threads, Elsewhere(t),
         \/ Find(t) \/ FindAbsent(t) \/ Claim(t) \/ NoSlot(t) \/ Recheck(t) \/ Yield(t)
  PROVE  Paired'
<1>1. Types /\ Shape /\ Types' /\ Shape'
  BY TypeParts DEF FormInv, TypeOK, Types
<1>2. pc[t] \in InLookup /\ slot[t] = 0 /\ cond[t] \in Conds
  <2>1. pc[t] \in InLookup
    BY DEF Find, FindAbsent, Claim, NoSlot, Recheck, Yield, InLookup
  <2>2. QED
    BY <1>1, <2>1 DEF Shape, InLookup, Uses
<1>3. \A s \in Slots : s \in Nat /\ s # 0
  BY SlotFacts
<1>4. idx[t] \in Nat /\ (idx[t] \notin Slots => \A s \in Slots : s < idx[t])
  BY <1>1, SlotFacts DEF Types
<1>5. CASE Find(t)
  <2>1. /\ pc[t] \in {"find", "lastFind"} /\ idx[t] \in Slots
        /\ UNCHANGED <<owner, op, cond, claimed>>
    BY <1>5 DEF Find
  <2>2. CASE owner[idx[t]] = cond[t]
    <3>1. slot'[t] = idx[t] /\ pc'[t] \in {"expect", "bump"}
      BY <1>1, <1>5, <2>2 DEF Find, Resolved, Goto, Types
    \* A slot it missed on the way would have been claimed by the other one.
    <3>2. ASSUME NEW s \in Slots, s < idx[t], owner[s] = cond[t] PROVE FALSE
      <4>1. PICK u \in Threads : pc[u] \in Contending /\ claimed[u] = idx[t]
        BY <1>2, <2>1, <2>2, <3>2 DEF Paired, Doubles
      <4>2. cond[u] \in Conds /\ u # t
        BY <1>1, <2>1, <4>1 DEF Shape, Contending, InLookup, Uses
      <4>3. Past(t, s) /\ Past(u, s)
        BY <1>3, <2>1, <3>2, <4>1 DEF Past
      <4>4. QED
        BY <1>2, <3>2, <4>2, <4>3, Missed
    <3>3. QED
      BY <1>2, <2>1, <2>2, <3>1, <3>2, PairLook DEF Past, Contending
  <2>3. CASE owner[idx[t]] # cond[t]
    <3>1. idx'[t] = idx[t] + 1 /\ pc'[t] = pc[t] /\ slot'[t] = 0
      BY <1>1, <1>2, <1>5, <2>1, <2>3 DEF Find, Types
    <3>2. \A s \in Slots : owner[s] = cond[t] /\ Past(t, s)' => Past(t, s)
      BY <1>3, <2>1, <2>3, <3>1 DEF Past, Contending
    <3>3. QED
      BY <1>2, <2>1, <3>1, <3>2, PairLook DEF Contending
  <2>4. QED
    BY <2>2, <2>3
<1>6. CASE FindAbsent(t)
  <2>1. /\ pc[t] = "find" /\ idx[t] \notin Slots /\ pc'[t] = "claim" /\ slot'[t] = 0
        /\ idx'[t] = 1 /\ UNCHANGED <<owner, op, cond, claimed>>
    BY <1>1, <1>2, <1>6 DEF FindAbsent, Scan, Goto, Types
  <2>2. \A s \in Slots : Past(t, s) /\ ~(s < idx'[t])
    BY <1>4, <2>1 DEF Past, Slots
  <2>3. QED
    BY <1>2, <2>1, <2>2, PairLook DEF Contending
<1>7. CASE Claim(t)
  <2>1. CASE owner[idx[t]] = NoCond
    BY <1>7, <2>1, PairClaim
  <2>2. CASE owner[idx[t]] # NoCond
    <3>1. /\ pc[t] = "claim" /\ pc'[t] = "claim" /\ slot'[t] = 0 /\ idx[t] \in Slots
          /\ idx'[t] = idx[t] + 1 /\ UNCHANGED <<owner, op, cond, claimed>>
      BY <1>1, <1>2, <1>7, <2>2 DEF Claim, Types
    <3>2. \A s \in Slots : s < idx'[t] => owner[s] # NoCond
      BY <1>3, <2>2, <3>1 DEF Paired, Front
    <3>3. \A s \in Slots : Past(t, s)
      BY <3>1 DEF Past
    <3>4. QED
      BY <1>2, <3>1, <3>2, <3>3, PairLook DEF Contending
  <2>3. QED
    BY <2>1, <2>2
<1>8. CASE NoSlot(t)
  <2>1. /\ pc[t] \in {"claim", "lastFind"} /\ pc'[t] = "idle" /\ cond'[t] = NoCond
        /\ slot'[t] = 0 /\ UNCHANGED <<owner, op>>
    BY <1>1, <1>8 DEF NoSlot, Return, Goto, Types
  <2>2. TwoUsers' /\ Lowest'
    BY <2>1, ValuesAssumption DEF Paired, TwoUsers, Lowest, Elsewhere
  <2>3. Front' /\ Claims' /\ Doubles'
    BY <2>1 DEF Paired, Front, Claims, Doubles, Elsewhere, Contending
  <2>4. OnePast'
    BY <2>1, ValuesAssumption DEF Paired, OnePast, Past, Elsewhere
  <2>5. QED
    BY <2>2, <2>3, <2>4 DEF Paired
<1>9. CASE Recheck(t)
  <2>1. /\ pc[t] = "recheck" /\ idx[t] \in Slots /\ UNCHANGED <<owner, op, cond, claimed>>
        /\ claimed[t] \in Slots
    BY <1>1, <1>9 DEF Recheck, Shape, Contending
  <2>2. /\ owner[claimed[t]] = cond[t] /\ idx[t] <= claimed[t]
        /\ \A s \in Slots : s < idx[t] => owner[s] # cond[t]
    BY <2>1 DEF Paired, Claims, Contending
  <2>3. CASE owner[idx[t]] # cond[t]
    <3>1. idx'[t] = idx[t] + 1 /\ pc'[t] = "recheck" /\ slot'[t] = 0
      BY <1>1, <1>2, <1>9, <2>1, <2>3 DEF Recheck, Types
    <3>2. idx'[t] <= claimed[t] /\ \A s \in Slots : s < idx'[t] => owner[s] # cond[t]
      BY <1>3, <2>1, <2>2, <2>3, <3>1
    <3>3. \A s \in Slots : Past(t, s)' => Past(t, s)
      BY <2>1, <3>1 DEF Past, Contending
    <3>4. QED
      BY <1>2, <2>1, <3>1, <3>2, <3>3, PairLook DEF Contending
  <2>4. CASE owner[idx[t]] = cond[t] /\ idx[t] = claimed[t]
    <3>1. slot'[t] = idx[t] /\ pc'[t] \in {"expect", "bump"}
      BY <1>1, <1>9, <2>4 DEF Recheck, Resolved, Goto, Types
    <3>2. QED
      BY <1>2, <2>1, <2>2, <2>4, <3>1, PairLook DEF Past, Contending
  <2>5. CASE owner[idx[t]] = cond[t] /\ idx[t] # claimed[t]
    <3>1. pc'[t] = "yield" /\ slot'[t] = 0
      BY <1>1, <1>2, <1>9, <2>5 DEF Recheck, Goto, Types
    <3>2. idx[t] < claimed[t]
      BY <1>3, <2>1, <2>2, <2>5
    <3>3. \A s \in Slots : Past(t, s)' => Past(t, s)
      BY <2>1, <3>1 DEF Past, Contending
    <3>4. QED
      BY <1>2, <2>1, <2>5, <3>1, <3>2, <3>3, PairLook DEF Contending
  <2>6. QED
    BY <2>3, <2>4, <2>5
<1>10. CASE Yield(t)
  BY <1>10, PairYield
<1>11. QED
  BY <1>5, <1>6, <1>7, <1>8, <1>9, <1>10

LEMMA PairKept == PairInv /\ [Next]_vars => PairInv'
<1>1. SUFFICES ASSUME PairInv, [Next]_vars, guest' = "pair" PROVE Paired'
  BY FormKept DEF PairInv
<1>2. FormInv /\ FormInv'
  BY <1>1, FormKept DEF PairInv
<1>3. guest = "pair" /\ Paired
  <2>1. guest' = guest
    BY <1>1, SameGuest
  <2>2. QED
    BY <1>1, <2>1 DEF PairInv
<1>4. CASE UNCHANGED vars
  BY <1>3, <1>4 DEF vars, lookupVars, Paired, TwoUsers, Front, Claims, Doubles, OnePast, Lowest,
                    Past
<1>5. ASSUME NEW t \in Threads, Retire(t) \/ ResetSequence(t) \/ FreeSlot(t)
      PROVE  FALSE
  <2>1. pc[t] \in {"retire", "reset", "free"}
    BY <1>5 DEF Retire, ResetSequence, FreeSlot
  <2>2. op[t] = "forget" /\ cond[t] \in Conds
    BY <1>2, <2>1 DEF FormInv, Shape, Freeing
  <2>3. QED
    BY <1>3, <2>2 DEF Paired, TwoUsers
<1>6. ASSUME NEW t \in Threads,
             \/ CallUse(t) \/ CallForget(t) \/ CallInterrupt(t)
             \/ Find(t) \/ FindAbsent(t) \/ Claim(t) \/ NoSlot(t) \/ Recheck(t) \/ Yield(t)
             \/ LoadExpected(t) \/ RegisterWait(t) \/ UnlockMutex(t) \/ Sleep(t)
             \/ WakeAlone(t) \/ Relock(t) \/ UnregisterWait(t)
             \/ Bump(t) \/ Wake(t)
      PROVE  Paired'
  BY <1>2, <1>3, <1>6, OthersStay, PairCall, PairLookup, PairElse
<1>7. QED
  BY <1>1, <1>4, <1>5, <1>6 DEF Next

LEMMA PairInit == Init => PairInv
<1>1. SUFFICES ASSUME Init PROVE Paired
  BY InitForm DEF PairInv
<1>2. QED
  BY <1>1, ValuesAssumption
     DEF Init, Paired, TwoUsers, Front, Claims, Doubles, OnePast, Lowest, Contending

-----------------------------------------------------------------------------
(***************************************************************************)
(* The properties.  The guests that OneSlotPerCond and the like hold of:   *)
(***************************************************************************)
Disciplined == Guests \subseteq {"locked", "pair"}

GuestKept == guest \in Guests

LEMMA GuestStays == (Init => GuestKept) /\ (GuestKept /\ [Next]_vars => GuestKept')
BY SameGuest DEF Init, GuestKept

CondInv == LockedInv /\ PairInv /\ GuestKept

LEMMA CondInvHolds == Spec => []CondInv
BY LockedInit, LockedKept, PairInit, PairKept, GuestStays, PTL DEF Spec, CondInv

\* What both invariants say of the threads that use a condvar.
LEMMA OwnedWhileUsed ==
  ASSUME Disciplined, CondInv, NEW t \in Threads, op[t] \in Uses, slot[t] # 0
  PROVE  owner[slot[t]] = cond[t] /\ slot[t] \in Slots /\ cond[t] \in Conds
<1>1. Types /\ Shape
  BY TypeParts DEF CondInv, LockedInv, FormInv
<1>2. slot[t] \in Slots /\ pc[t] # "idle"
  BY <1>1, SlotFacts DEF Types, Shape
<1>3. cond[t] \in Conds /\ Using(t)
  BY <1>1, <1>2 DEF Shape, Using, Uses
<1>4. owner[slot[t]] = cond[t]
  <2>1. CASE guest = "locked"
    BY <1>3, <2>1 DEF CondInv, LockedInv, Orderly, UsesOwned, Found
  <2>2. CASE guest = "pair"
    BY <2>2 DEF CondInv, PairInv, Paired, Lowest
  <2>3. QED
    BY <2>1, <2>2 DEF Disciplined, CondInv, GuestKept
<1>5. QED
  BY <1>2, <1>3, <1>4

\* Threads that use one condvar at once work on one slot: of a guest that
\* signals with the mutex held the condvar owns one slot, and of two threads
\* each lookup answers with the lowest.
THEOREM OneSlot == ASSUME Disciplined PROVE Spec => []OneSlotPerCond
<1>1. ASSUME CondInv PROVE OneSlotPerCond
  <2>1. SUFFICES ASSUME NEW t \in Threads, NEW u \in Threads, cond[t] = cond[u],
                        cond[t] # NoCond, op[t] # "forget", op[u] # "forget", slot[t] # 0,
                        slot[u] # 0
                 PROVE  slot[t] = slot[u]
    BY DEF OneSlotPerCond
  <2>2. Types /\ Shape
    BY <1>1, TypeParts DEF CondInv, LockedInv, FormInv
  <2>3. op[t] \in Uses /\ op[u] \in Uses
    BY <2>1, <2>2 DEF Types, Shape, Op, Uses
  <2>4. /\ owner[slot[t]] = cond[t] /\ slot[t] \in Slots /\ cond[t] \in Conds
        /\ owner[slot[u]] = cond[t] /\ slot[u] \in Slots
    BY <1>1, <2>1, <2>3, OwnedWhileUsed
  <2>5. CASE guest = "locked"
    BY <1>1, <2>4, <2>5 DEF CondInv, LockedInv, Orderly, OneOwned
  <2>6. CASE guest = "pair"
    <3>1. ~(slot[t] < slot[u]) /\ ~(slot[u] < slot[t])
      BY <1>1, <2>1, <2>3, <2>4, <2>6 DEF CondInv, PairInv, Paired, Lowest
    <3>2. QED
      BY <2>4, <3>1, SlotFacts
  <2>7. QED
    BY <1>1, <2>5, <2>6 DEF Disciplined, CondInv, GuestKept
<1>2. QED
  BY <1>1, CondInvHolds, PTL

\* A slot is neither retired nor given away under a thread that uses it.
THEOREM SlotStays == ASSUME Disciplined PROVE Spec => []SlotKeptWhileUsed
<1>1. CondInv => SlotKeptWhileUsed
  BY OwnedWhileUsed DEF SlotKeptWhileUsed, Uses
<1>2. QED
  BY <1>1, CondInvHolds, PTL

\* The generation a waiter sleeps on does not run backwards: only a slot that is
\* being retired is reset, and a waiter's slot still belongs to its condvar.
THEOREM GenerationStays == ASSUME Disciplined PROVE Spec => GenerationNeverRewinds
<1>1. ASSUME CondInv, [Next]_vars,
             NEW w \in Threads, pc[w] \in {"register", "unlock", "sleep", "parked"}
      PROVE  sequence'[slot[w]] >= sequence[slot[w]]
  <2>1. Types /\ Shape
    BY <1>1, TypeParts DEF CondInv, LockedInv, FormInv
  <2>2. slot[w] \in Slots /\ op[w] \in Uses /\ sequence[slot[w]] \in Nat
    BY <1>1, <2>1 DEF Shape, Waiting, Uses, Types
  <2>3. owner[slot[w]] = cond[w] /\ cond[w] \in Conds
    BY <1>1, <2>2, SlotFacts, OwnedWhileUsed
  <2>4. CASE sequence' = sequence
    BY <2>2, <2>4
  <2>5. ASSUME NEW t \in Threads, Bump(t) PROVE sequence'[slot[w]] >= sequence[slot[w]]
    BY <2>1, <2>2, <2>5 DEF Bump, Types
  <2>6. ASSUME NEW t \in Threads, ResetSequence(t)
        PROVE  sequence'[slot[w]] >= sequence[slot[w]]
    <3>1. slot[t] # slot[w]
      <4>1. pc[t] \in Freeing /\ op[t] = "forget" /\ cond[t] \in Conds
        BY <2>1, <2>6 DEF ResetSequence, Freeing, Shape
      <4>2. CASE guest = "locked"
        <5>1. owner[slot[t]] = Retiring
          BY <1>1, <4>1, <4>2 DEF CondInv, LockedInv, Orderly, ForgetsAlone, Freeing
        <5>2. QED
          BY <2>3, <5>1, ValuesAssumption
      <4>3. CASE guest = "pair"
        BY <1>1, <4>1, <4>3 DEF CondInv, PairInv, Paired, TwoUsers
      <4>4. QED
        BY <1>1, <4>2, <4>3 DEF Disciplined, CondInv, GuestKept
    <3>2. QED
      BY <2>1, <2>2, <2>6, <3>1 DEF ResetSequence, Types
  <2>7. QED
    BY <1>1, <2>4, <2>5, <2>6
       DEF Next, vars, CallUse, CallForget, CallInterrupt, Find, FindAbsent, Claim,
           NoSlot, Recheck, Yield, LoadExpected, RegisterWait, UnlockMutex, Sleep, WakeAlone,
           Relock, UnregisterWait, Wake, Retire, FreeSlot
<1>2. CondInv /\ [Next]_vars =>
        [\A w \in Threads :
           pc[w] \in {"register", "unlock", "sleep", "parked"} =>
             sequence'[slot[w]] >= sequence[slot[w]]]_vars
  BY <1>1
<1>3. QED
  BY <1>2, CondInvHolds, PTL DEF Spec, GenerationNeverRewinds

\* A signal, or a broadcast, is the only step that ends so.
LEMMA OnlyWake ==
  ASSUME FormInv, [Next]_vars, NEW t \in Threads, pc[t] = "wake", pc'[t] = "idle"
  PROVE  Wake(t)
<1>1. Types
  BY TypeParts DEF FormInv
<1>2. ASSUME NEW u \in Threads, Wake(u), u # t PROVE FALSE
  BY <1>1, <1>2 DEF Wake, Parked
<1>3. ASSUME NEW u \in Threads, u # t, Elsewhere(u) PROVE FALSE
  BY <1>3 DEF Elsewhere
<1>4. ASSUME NEW u \in Threads,
             \/ CallUse(u) \/ CallForget(u) \/ CallInterrupt(u)
             \/ Find(u) \/ FindAbsent(u) \/ Claim(u) \/ NoSlot(u) \/ Recheck(u) \/ Yield(u)
             \/ LoadExpected(u) \/ RegisterWait(u) \/ UnlockMutex(u) \/ Sleep(u)
             \/ WakeAlone(u) \/ Relock(u) \/ UnregisterWait(u) \/ Bump(u)
             \/ Retire(u) \/ ResetSequence(u) \/ FreeSlot(u)
      PROVE  FALSE
  <2>1. u = t
    BY <1>3, <1>4, OthersStay
  <2>2. QED
    BY <1>4, <2>1 DEF CallUse, CallForget, CallInterrupt, Called, Find, FindAbsent, Claim, NoSlot,
        Recheck, Yield, LoadExpected, RegisterWait, UnlockMutex, Sleep, WakeAlone, Relock,
        UnregisterWait, Bump, Retire, ResetSequence, FreeSlot
<1>5. CASE UNCHANGED vars
  BY <1>5 DEF vars
<1>6. QED
  BY <1>2, <1>4, <1>5 DEF Next

LEMMA MinOne == \A n \in Nat : Min({1, n}) = IF n = 0 THEN 0 ELSE 1
BY DEF Min

\* No wakeup is lost with the mutex held: a waiter of the condvar is parked on
\* the signal's own slot, or has yet to sleep on a generation the signal has
\* already moved on from.
THEOREM NoSignalLost == Spec => SignalNotLost
<1>1. ASSUME CondInv, [Next]_vars, NEW t \in Threads, guest = "locked", pc[t] = "wake",
             pc'[t] = "idle"
      PROVE  LET Awake(w) == \/ pc'[w] = "relock"
                             \/ pc'[w] = "sleep" /\ expected[w] # sequence[slot[w]]
             IN /\ op[t] = "broadcast" => \A w \in Waiters(cond[t]) : Awake(w)
                /\ op[t] = "signal" /\ Waiters(cond[t]) # {} =>
                     \E w \in Waiters(cond[t]) : Awake(w)
  <2> DEFINE Awake(w) == \/ pc'[w] = "relock"
                         \/ pc'[w] = "sleep" /\ expected[w] # sequence[slot[w]]
  <2>1. Types /\ Shape /\ FormInv /\ Orderly
    BY <1>1, TypeParts DEF CondInv, LockedInv, FormInv
  <2>2. PICK woken \in SUBSET Parked(slot[t]) :
          /\ IF op[t] = "signal"
             THEN Cardinality(woken) = Min({1, Cardinality(Parked(slot[t]))})
             ELSE woken = Parked(slot[t])
          /\ pc' = [w \in Threads |-> IF w \in woken THEN "relock"
                                      ELSE IF w = t THEN "idle" ELSE pc[w]]
    BY <1>1, <2>1, OnlyWake DEF Wake
  <2>3. SUFFICES ASSUME op[t] \in {"broadcast", "signal"}
                 PROVE  /\ op[t] = "broadcast" => \A w \in Waiters(cond[t]) : Awake(w)
                        /\ op[t] = "signal" /\ Waiters(cond[t]) # {} =>
                             \E w \in Waiters(cond[t]) : Awake(w)
    OBVIOUS
  <2>4. /\ Using(t) /\ slot[t] \in Slots /\ cond[t] \in Conds /\ owner[slot[t]] = cond[t]
    BY <1>1, <2>1, <2>3, SlotFacts
       DEF Shape, Signalling, Using, Uses, Orderly, UsesOwned, Found
  <2>5. ASSUME NEW w \in Threads, pc[w] \in {"sleep", "parked"}
        PROVE  Using(w) /\ slot[w] \in Slots /\ owner[slot[w]] = cond[w]
    BY <2>1, <2>5, SlotFacts DEF Shape, Waiting, Using, Uses, Orderly, UsesOwned, Found
  <2>6. ASSUME NEW w \in Waiters(cond[t]), pc[w] = "sleep" PROVE Awake(w)
    <3>1. w \in Threads /\ cond[w] = cond[t]
      BY DEF Waiters
    <3>2. expected[w] < sequence[slot[w]] /\ expected[w] \in Nat /\ sequence[slot[w]] \in Nat
      BY <1>1, <2>1, <2>4, <2>5, <2>6, <3>1 DEF Orderly, Generations, Types
    <3>3. w \notin woken /\ w # t
      BY <1>1, <2>6 DEF Parked
    <3>4. QED
      BY <2>2, <2>6, <3>1, <3>2, <3>3
  <2>7. ASSUME NEW w \in Waiters(cond[t]), pc[w] = "parked" PROVE w \in Parked(slot[t])
    <3>1. w \in Threads /\ cond[w] = cond[t]
      BY DEF Waiters
    <3>2. slot[w] = slot[t]
      BY <2>1, <2>4, <2>5, <2>7, <3>1 DEF Orderly, OneOwned
    <3>3. QED
      BY <2>7, <3>1, <3>2 DEF Parked
  <2>8. \A w \in woken : w \in Threads /\ Awake(w)
    BY <2>2 DEF Parked
  <2>9. \A w \in Waiters(cond[t]) : pc[w] \in {"sleep", "parked"}
    BY DEF Waiters
  <2>10. CASE op[t] = "broadcast"
    BY <2>2, <2>6, <2>7, <2>8, <2>9, <2>10
  <2>11. CASE op[t] = "signal"
    <3>1. ASSUME Waiters(cond[t]) # {} PROVE \E w \in Waiters(cond[t]) : Awake(w)
      <4>1. PICK v \in Waiters(cond[t]) : TRUE
        BY <3>1
      <4>2. CASE pc[v] = "sleep"
        BY <2>6, <4>2
      <4>3. CASE pc[v] = "parked"
        <5>1. v \in Parked(slot[t]) /\ IsFiniteSet(Parked(slot[t]))
          BY <2>7, <4>3, ThreadsAssumption, FS_Subset DEF Parked
        <5>2. Cardinality(Parked(slot[t])) \in Nat /\ Cardinality(Parked(slot[t])) # 0
          BY <5>1, FS_CardinalityType, FS_EmptySet
        <5>3. Cardinality(woken) = 1
          BY <2>2, <2>11, <5>2, MinOne
        <5>4. PICK w \in woken : TRUE
          BY <5>3, FS_EmptySet
        <5>5. w \in Waiters(cond[t])
          BY <2>4, <2>5, <5>4 DEF Parked, Waiters
        <5>6. QED
          BY <2>8, <5>4, <5>5
      <4>4. QED
        BY <2>9, <4>2, <4>3
    <3>2. QED
      BY <2>11, <3>1
  <2>12. QED
    BY <2>3, <2>10, <2>11
<1>2. CondInv /\ [Next]_vars =>
        [\A t \in Threads :
           guest = "locked" /\ pc[t] = "wake" /\ pc'[t] = "idle" =>
             LET Awake(w) == \/ pc'[w] = "relock"
                             \/ pc'[w] = "sleep" /\ expected[w] # sequence[slot[w]]
             IN /\ op[t] = "broadcast" => \A w \in Waiters(cond[t]) : Awake(w)
                /\ op[t] = "signal" /\ Waiters(cond[t]) # {} =>
                     \E w \in Waiters(cond[t]) : Awake(w)]_vars
  BY <1>1
<1>3. QED
  BY <1>2, CondInvHolds, PTL DEF Spec, SignalNotLost
=============================================================================
