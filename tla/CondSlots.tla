----------------------------- MODULE CondSlots -----------------------------
(***************************************************************************)
(* The Windows condition variable of prosper (src/hle/sync_futex.cpp).  A  *)
(* condvar is mapped, by a lock-free lookup in a table of slots, to a      *)
(* sequence word: a waiter reads the word, unlocks the mutex and sleeps    *)
(* while the word is unchanged (WaitOnAddress); a signal increments it and *)
(* wakes.  Destroying the condvar gives its slot back.  Exception delivery *)
(* may bump the word of any registered waiter, to make it return.          *)
(*                                                                         *)
(* Each access to a slot is a step.  The caller's mutex, WaitOnAddress and *)
(* WakeByAddress are external.  A condvar is destroyed only when nobody    *)
(* uses it, as its contract asks.                                          *)
(***************************************************************************)
EXTENDS Integers, FiniteSets, FiniteSetsExt

CONSTANTS
  Threads,
  Conds,        \* condvars, each with its mutex
  NoThread,
  NoCond,       \* a free slot: CondSlot::cond = 0
  Retiring,     \* kCondSlotRetiring
  NSlots,       \* size of g_cond_slots
  Attempts,     \* rounds of a lookup (64 in the code)
  Guests,       \* the kinds of guest to consider
  MaxCalls      \* bound: calls in all

ASSUME ThreadsAssumption == IsFiniteSet(Threads)
ASSUME ValuesAssumption ==
  /\ NoThread \notin Threads
  /\ NoCond \notin Conds /\ Retiring \notin Conds /\ NoCond # Retiring
ASSUME BoundsAssumption ==
  NSlots \in Nat \ {0} /\ Attempts \in Nat \ {0} /\ MaxCalls \in Nat

\* "locked": signals and broadcasts with the mutex held, as the handlers of
\* event flags and semaphores do.  "pair": signals without it, but only two
\* threads at a time, on one condvar, and never destroys one.  "free": does
\* whatever POSIX allows.
Guest == {"locked", "pair", "free"}
ASSUME GuestsAssumption == Guests \subseteq Guest

VARIABLES
  guest,     \* the kind of guest
  owner,     \* CondSlot::cond of each slot
  sequence,  \* CondSlot::sequence of each slot
  holder,    \* the thread that holds each condvar's mutex
  pc,
  op,        \* the call a thread is in
  cond,      \* its argument
  idx,       \* the slot its scan has reached
  claimed,   \* the slot it claimed in this round (0: none)
  tries,     \* rounds lost
  slot,      \* the slot its lookup returned (0: none)
  expected,  \* the sequence it will sleep on
  waiting,   \* g_wait_slots: the slot each thread is registered to wait on
  calls

lookupVars == <<idx, claimed, tries>>
vars == <<guest, owner, sequence, holder, pc, op, cond, lookupVars, slot, expected,
          waiting, calls>>

Slots == 1 .. NSlots
Op == {"wait", "signal", "broadcast", "forget", "interrupt"}

InLookup == {"find", "claim", "recheck", "yield", "lastFind"}
Handler == InLookup \cup
  {"idle", "expect", "register", "unlock", "sleep", "parked", "relock",
   "unregister", "bump", "wake", "retire", "reset", "free"}

Init ==
  /\ guest \in Guests
  /\ owner = [s \in Slots |-> NoCond]
  /\ sequence = [s \in Slots |-> 0]
  /\ holder = [c \in Conds |-> NoThread]
  /\ pc = [t \in Threads |-> "idle"]
  /\ op = [t \in Threads |-> "wait"]
  /\ cond = [t \in Threads |-> NoCond]
  /\ idx = [t \in Threads |-> 1]
  /\ claimed = [t \in Threads |-> 0]
  /\ tries = [t \in Threads |-> 0]
  /\ slot = [t \in Threads |-> 0]
  /\ expected = [t \in Threads |-> 0]
  /\ waiting = [t \in Threads |-> 0]
  /\ calls = 0

Goto(t, label) == pc' = [pc EXCEPT ![t] = label]
\* Begin a scan of the table.
Scan(t, label) == Goto(t, label) /\ idx' = [idx EXCEPT ![t] = 1]

Users(c) == {t \in Threads : pc[t] # "idle" /\ cond[t] = c}

(***************************************************************************)
(* The guest calls.                                                        *)
(***************************************************************************)
Called(t) ==
  /\ pc[t] = "idle"
  /\ calls < MaxCalls
  /\ calls' = calls + 1

NotBeingDestroyed(c) == \A u \in Users(c) : op[u] # "forget"

AllowedNow(c) ==
  guest = "pair" => /\ Cardinality(Users(c)) < 2
                    /\ \A d \in Conds \ {c} : Users(d) = {}

TakeMutex(t, c, o) ==
  IF o = "wait" \/ guest = "locked"
  THEN holder[c] = NoThread /\ holder' = [holder EXCEPT ![c] = t]
  ELSE UNCHANGED holder

CallUse(t) ==
  /\ Called(t)
  /\ \E c \in Conds, o \in {"wait", "signal", "broadcast"} :
       /\ NotBeingDestroyed(c) /\ AllowedNow(c)
       /\ TakeMutex(t, c, o)
       /\ cond' = [cond EXCEPT ![t] = c]
       /\ op' = [op EXCEPT ![t] = o]
  /\ tries' = [tries EXCEPT ![t] = 0]
  /\ Scan(t, "find")
  /\ UNCHANGED <<guest, owner, sequence, claimed, slot, expected, waiting>>

CallForget(t) ==
  /\ guest # "pair"
  /\ Called(t)
  /\ \E c \in Conds :
       /\ Users(c) = {}
       /\ cond' = [cond EXCEPT ![t] = c]
  /\ op' = [op EXCEPT ![t] = "forget"]
  /\ Scan(t, "retire")
  /\ UNCHANGED <<guest, owner, sequence, holder, claimed, tries, slot, expected,
                 waiting>>

\* The call is over: the guest unlocks the mutex if this thread has it.
Return(t) ==
  /\ Goto(t, "idle")
  /\ holder' = [c \in Conds |-> IF holder[c] = t THEN NoThread ELSE holder[c]]
  /\ cond' = [cond EXCEPT ![t] = NoCond]
  /\ slot' = [slot EXCEPT ![t] = 0]
  /\ claimed' = [claimed EXCEPT ![t] = 0]

(***************************************************************************)
(* cond_slot_for: find the owner's slot, else claim a free one, then look  *)
(* again: among several claims for one condvar the lowest slot wins.       *)
(***************************************************************************)
\* The lookup answers with slot s.
Resolved(t, s) ==
  /\ slot' = [slot EXCEPT ![t] = s]
  /\ Goto(t, IF op[t] = "wait" THEN "expect" ELSE "bump")
  /\ UNCHANGED idx

\* Wrong variant (issue 2139): a free slot met on the way is taken.
FindInOnePass(t) ==
  /\ pc[t] \in {"find", "lastFind"}
  /\ idx[t] \in Slots
  /\ IF owner[idx[t]] \in {cond[t], NoCond}
     THEN Resolved(t, idx[t]) /\ owner' = [owner EXCEPT ![idx[t]] = cond[t]]
     ELSE /\ idx' = [idx EXCEPT ![t] = @ + 1]
          /\ UNCHANGED <<pc, slot, owner>>
  /\ UNCHANGED <<guest, sequence, holder, op, cond, claimed, tries, expected,
                 waiting, calls>>

Find(t) ==
  /\ pc[t] \in {"find", "lastFind"}
  /\ idx[t] \in Slots
  /\ IF owner[idx[t]] = cond[t]
     THEN Resolved(t, idx[t])
     ELSE idx' = [idx EXCEPT ![t] = @ + 1] /\ UNCHANGED <<pc, slot>>
  /\ UNCHANGED <<guest, owner, sequence, holder, op, cond, claimed, tries,
                 expected, waiting, calls>>

FindAbsent(t) ==
  /\ pc[t] = "find"
  /\ idx[t] \notin Slots
  /\ Scan(t, "claim")
  /\ UNCHANGED <<guest, owner, sequence, holder, op, cond, claimed, tries, slot,
                 expected, waiting, calls>>

Claim(t) ==
  /\ pc[t] = "claim"
  /\ idx[t] \in Slots
  /\ IF owner[idx[t]] = NoCond
     THEN /\ owner' = [owner EXCEPT ![idx[t]] = cond[t]]
          /\ claimed' = [claimed EXCEPT ![t] = idx[t]]
          /\ Scan(t, "recheck")
     ELSE /\ idx' = [idx EXCEPT ![t] = @ + 1]
          /\ UNCHANGED <<owner, claimed, pc>>
  /\ UNCHANGED <<guest, sequence, holder, op, cond, tries, slot, expected,
                 waiting, calls>>

\* No slot: the table is full, or the last search found no owner.  ENOMEM.
NoSlot(t) ==
  /\ pc[t] \in {"claim", "lastFind"}
  /\ idx[t] \notin Slots
  /\ Return(t)
  /\ UNCHANGED <<guest, owner, sequence, op, idx, tries, expected, waiting,
                 calls>>

\* Wrong variant: a claim that is not checked against concurrent ones.
RecheckNothing(t) ==
  /\ pc[t] = "recheck"
  /\ Resolved(t, claimed[t])
  /\ UNCHANGED <<guest, owner, sequence, holder, op, cond, claimed, tries,
                 expected, waiting, calls>>

Recheck(t) ==
  /\ pc[t] = "recheck"
  /\ idx[t] \in Slots
  /\ IF owner[idx[t]] # cond[t]
     THEN idx' = [idx EXCEPT ![t] = @ + 1] /\ UNCHANGED <<pc, slot>>
     ELSE IF idx[t] = claimed[t]
     THEN Resolved(t, idx[t])
     ELSE Goto(t, "yield") /\ UNCHANGED <<idx, slot>>
  /\ UNCHANGED <<guest, owner, sequence, holder, op, cond, claimed, tries,
                 expected, waiting, calls>>

\* Another slot won: give this one back and try again, up to the cap.
Yield(t) ==
  /\ pc[t] = "yield"
  /\ owner' = [owner EXCEPT ![claimed[t]] = NoCond]
  /\ claimed' = [claimed EXCEPT ![t] = 0]
  /\ tries' = [tries EXCEPT ![t] = @ + 1]
  /\ Scan(t, IF tries[t] + 1 < Attempts THEN "find" ELSE "lastFind")
  /\ UNCHANGED <<guest, sequence, holder, op, cond, slot, expected, waiting,
                 calls>>

(***************************************************************************)
(* interruptible_cond_wait, and its timed forms, from the lookup on.       *)
(***************************************************************************)
LoadExpected(t) ==
  /\ pc[t] = "expect"
  /\ expected' = [expected EXCEPT ![t] = sequence[slot[t]]]
  /\ Goto(t, "register")
  /\ UNCHANGED <<guest, owner, sequence, holder, op, cond, lookupVars, slot,
                 waiting, calls>>

RegisterWait(t) ==
  /\ pc[t] = "register"
  /\ waiting' = [waiting EXCEPT ![t] = slot[t]]
  /\ Goto(t, "unlock")
  /\ UNCHANGED <<guest, owner, sequence, holder, op, cond, lookupVars, slot,
                 expected, calls>>

UnlockMutex(t) ==
  /\ pc[t] = "unlock"
  /\ holder' = [holder EXCEPT ![cond[t]] = NoThread]
  /\ Goto(t, "sleep")
  /\ UNCHANGED <<guest, owner, sequence, op, cond, lookupVars, slot, expected,
                 waiting, calls>>

\* WaitOnAddress compares and sleeps atomically.
Sleep(t) ==
  /\ pc[t] = "sleep"
  /\ Goto(t, IF sequence[slot[t]] = expected[t] THEN "parked" ELSE "relock")
  /\ UNCHANGED <<guest, owner, sequence, holder, op, cond, lookupVars, slot,
                 expected, waiting, calls>>

\* WaitOnAddress returns by itself: its timeout expired, or spuriously.
WakeAlone(t) ==
  /\ pc[t] = "parked"
  /\ Goto(t, "relock")
  /\ UNCHANGED <<guest, owner, sequence, holder, op, cond, lookupVars, slot,
                 expected, waiting, calls>>

\* interruptible_mutex_lock polls trylock until it succeeds.
Relock(t) ==
  /\ pc[t] = "relock"
  /\ holder[cond[t]] = NoThread
  /\ holder' = [holder EXCEPT ![cond[t]] = t]
  /\ Goto(t, "unregister")
  /\ UNCHANGED <<guest, owner, sequence, op, cond, lookupVars, slot, expected,
                 waiting, calls>>

\* Wrong variant: a wait that returns and stays registered.
UnregisterNothing(t) ==
  /\ pc[t] = "unregister"
  /\ Return(t)
  /\ UNCHANGED <<guest, owner, sequence, op, idx, tries, expected, waiting,
                 calls>>

UnregisterWait(t) ==
  /\ pc[t] = "unregister"
  /\ waiting' = [waiting EXCEPT ![t] = 0]
  /\ Return(t)
  /\ UNCHANGED <<guest, owner, sequence, op, idx, tries, expected, calls>>

(***************************************************************************)
(* interruptible_cond_signal and interruptible_cond_broadcast from the     *)
(* lookup on, and interrupt_guest_wait, which bumps the word some          *)
(* registered thread waited on when it looked.                             *)
(***************************************************************************)
CallInterrupt(t) ==
  /\ Called(t)
  /\ \E w \in Threads :
       /\ waiting[w] # 0
       /\ slot' = [slot EXCEPT ![t] = waiting[w]]
  /\ op' = [op EXCEPT ![t] = "interrupt"]
  /\ Goto(t, "bump")
  /\ UNCHANGED <<guest, owner, sequence, holder, cond, lookupVars, expected,
                 waiting>>

\* Wrong variant: a signal that wakes without moving the sequence.
BumpNothing(t) ==
  /\ pc[t] = "bump"
  /\ Goto(t, "wake")
  /\ UNCHANGED <<guest, owner, sequence, holder, op, cond, lookupVars, slot,
                 expected, waiting, calls>>

Bump(t) ==
  /\ pc[t] = "bump"
  /\ sequence' = [sequence EXCEPT ![slot[t]] = @ + 1]
  /\ Goto(t, "wake")
  /\ UNCHANGED <<guest, owner, holder, op, cond, lookupVars, slot, expected,
                 waiting, calls>>

Parked(s) == {w \in Threads : pc[w] = "parked" /\ slot[w] = s}

\* WakeByAddressSingle wakes one of the parked threads, WakeByAddressAll all.
Wake(t) ==
  /\ pc[t] = "wake"
  /\ \E woken \in SUBSET Parked(slot[t]) :
       /\ IF op[t] = "signal"
          THEN Cardinality(woken) = Min({1, Cardinality(Parked(slot[t]))})
          ELSE woken = Parked(slot[t])
       /\ pc' = [w \in Threads |-> IF w \in woken THEN "relock"
                                   ELSE IF w = t THEN "idle" ELSE pc[w]]
  /\ holder' = [c \in Conds |-> IF holder[c] = t THEN NoThread ELSE holder[c]]
  /\ cond' = [cond EXCEPT ![t] = NoCond]
  /\ slot' = [slot EXCEPT ![t] = 0]
  /\ claimed' = [claimed EXCEPT ![t] = 0]
  /\ UNCHANGED <<guest, owner, sequence, op, idx, tries, expected, waiting,
                 calls>>

(***************************************************************************)
(* interruptible_cond_forget: retire the first slot the condvar owns.      *)
(***************************************************************************)
\* Wrong variant: the owner is cleared at once, without the sentinel.
RetireFreeing(t) ==
  /\ pc[t] = "retire"
  /\ idx[t] \in Slots
  /\ IF owner[idx[t]] = cond[t]
     THEN /\ owner' = [owner EXCEPT ![idx[t]] = NoCond]
          /\ slot' = [slot EXCEPT ![t] = idx[t]]
          /\ Goto(t, "reset")
          /\ UNCHANGED idx
     ELSE /\ idx' = [idx EXCEPT ![t] = @ + 1]
          /\ UNCHANGED <<owner, pc, slot>>
  /\ UNCHANGED <<guest, sequence, holder, op, cond, claimed, tries, expected,
                 waiting, calls>>

Retire(t) ==
  /\ pc[t] = "retire"
  /\ IF idx[t] \notin Slots
     THEN Return(t) /\ UNCHANGED <<owner, idx>>
     ELSE IF owner[idx[t]] = cond[t]
     THEN /\ owner' = [owner EXCEPT ![idx[t]] = Retiring]
          /\ slot' = [slot EXCEPT ![t] = idx[t]]
          /\ Goto(t, "reset")
          /\ UNCHANGED <<idx, holder, cond, claimed>>
     ELSE /\ idx' = [idx EXCEPT ![t] = @ + 1]
          /\ UNCHANGED <<owner, pc, holder, cond, slot, claimed>>
  /\ UNCHANGED <<guest, sequence, op, tries, expected, waiting, calls>>

ResetSequence(t) ==
  /\ pc[t] = "reset"
  /\ sequence' = [sequence EXCEPT ![slot[t]] = 0]
  /\ Goto(t, "free")
  /\ UNCHANGED <<guest, owner, holder, op, cond, lookupVars, slot, expected,
                 waiting, calls>>

FreeSlot(t) ==
  /\ pc[t] = "free"
  /\ owner' = [owner EXCEPT ![slot[t]] = NoCond]
  /\ Return(t)
  /\ UNCHANGED <<guest, sequence, op, idx, tries, expected, waiting, calls>>

Next == \E t \in Threads :
  \/ CallUse(t) \/ CallForget(t) \/ CallInterrupt(t)
  \/ Find(t) \/ FindAbsent(t) \/ Claim(t) \/ NoSlot(t) \/ Recheck(t) \/ Yield(t)
  \/ LoadExpected(t) \/ RegisterWait(t) \/ UnlockMutex(t) \/ Sleep(t)
  \/ WakeAlone(t) \/ Relock(t) \/ UnregisterWait(t)
  \/ Bump(t) \/ Wake(t)
  \/ Retire(t) \/ ResetSequence(t) \/ FreeSlot(t)

Spec == Init /\ [][Next]_vars

(***************************************************************************)
(* Properties.                                                             *)
(***************************************************************************)
Registered == {"unlock", "sleep", "parked", "relock", "unregister"}
\* Threads in a wait on c that have given up its mutex and not yet returned.
Waiters(c) == {w \in Threads : pc[w] \in {"sleep", "parked"} /\ cond[w] = c}

\* Every variable has its type, and a thread is in the wait registry exactly
\* while it is inside a registered wait, with the slot it waits on.
TypeOK ==
  /\ guest \in Guest
  /\ owner \in [Slots -> Conds \cup {NoCond, Retiring}]
  /\ sequence \in [Slots -> Nat]
  /\ holder \in [Conds -> Threads \cup {NoThread}]
  /\ pc \in [Threads -> Handler]
  /\ op \in [Threads -> Op]
  /\ cond \in [Threads -> Conds \cup {NoCond}]
  /\ idx \in [Threads -> 1 .. NSlots + 1]
  /\ claimed \in [Threads -> 0 .. NSlots]
  /\ tries \in [Threads -> 0 .. Attempts]
  /\ slot \in [Threads -> 0 .. NSlots]
  /\ expected \in [Threads -> Nat]
  /\ calls \in 0 .. MaxCalls
  /\ waiting = [t \in Threads |->
                  IF pc[t] \in Registered /\ op[t] = "wait" THEN slot[t] ELSE 0]

\* One condvar resolves to one slot, for the life of that condvar: threads
\* that use the same condvar at once never work on two different slots.
\* (The comment above cond_slot_for; the defect of issue 2139.)  It holds of
\* a "locked" and of a "pair" guest, and not of a "free" one.
OneSlotPerCond ==
  \A t, u \in Threads :
    /\ cond[t] = cond[u] /\ cond[t] # NoCond
    /\ op[t] # "forget" /\ op[u] # "forget"
    /\ slot[t] # 0 /\ slot[u] # 0
    => slot[t] = slot[u]

\* A thread that works on a slot is still its owner's user: the slot was
\* neither given to another condvar nor retired under it.
SlotKeptWhileUsed ==
  \A t \in Threads :
    slot[t] # 0 /\ op[t] \in {"wait", "signal", "broadcast"} => owner[slot[t]] = cond[t]

\* No lost wakeup, with the mutex held across the signal: when a broadcast
\* returns, no thread that had begun to wait before it is or can fall
\* asleep; when a signal returns, at least one such thread is awake.
SignalNotLost ==
  [][\A t \in Threads :
       guest = "locked" /\ pc[t] = "wake" /\ pc'[t] = "idle" =>
         LET Awake(w) == \/ pc'[w] = "relock"
                         \/ pc'[w] = "sleep" /\ expected[w] # sequence[slot[w]]
         IN /\ op[t] = "broadcast" => \A w \in Waiters(cond[t]) : Awake(w)
            /\ op[t] = "signal" /\ Waiters(cond[t]) # {} =>
                 \E w \in Waiters(cond[t]) : Awake(w)]_vars

\* The generation a waiter is about to sleep on never runs backwards under
\* it, whichever slots are retired and claimed anew in the meantime.
GenerationNeverRewinds ==
  [][\A w \in Threads :
       pc[w] \in {"register", "unlock", "sleep", "parked"} =>
         sequence'[slot[w]] >= sequence[slot[w]]]_vars
=============================================================================
