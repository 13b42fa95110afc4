# Verification of prosper's guest synchronisation core

prosper runs PlayStation 5 programs natively: the guest's x86-64 code executes
in the host process, and the operating system under it is replaced by C++
handlers. The handlers run on the guest's own threads, at the same time, on
shared objects, and some of the protocols between them are lock-free. This
project models that core in TLA+, checks it with TLC and proves the part that
matters most with TLAPS. Paths below are relative to `src/prosper/`.

## Inventory

| part | state it keeps | operations | what is hard |
|---|---|---|---|
| guest rwlock, `src/hle/hle_kernel.cpp` 572-637, 1095-1359, 2572-2660 | host lock, one word `WRITE\|COUNT`, `owner` | rdlock, wrlock, try and timed forms, unlock | unmatched unlocks must not reach the host lock; every decision is a CAS loop |
| object slots and quarantine, `hle_kernel.cpp` 331-437, 525-650, the `*_init`/`*_destroy` handlers; `src/hle/sync_retire.cpp` | a guest pointer slot per object, waiter registries, the FIFO of retired objects | init, lazy init, use, destroy, retire | destroys race each other, first uses and parked threads |
| Windows condvar, `src/hle/sync_futex.cpp` | 4096 condvar slots with a sequence word, 1024 wait slots | wait, timed wait, signal, broadcast, forget, interrupt | lock-free lookup; lost wakeups; slots reused |
| event flags, kernel semaphores, `hle_kernel.cpp` 2447-2516, 2847-2975 | value, mutex, condvar, `deleted`, `waiters` | create, delete, set/signal, clear, wait, poll | deletion under waiters, timeouts |
| fibers, `src/hle/hle_fiber.cpp` | a record per fiber, a record per OS thread, saved contexts | initialize, finalize, run, switch, return to thread | non-local jumps between stacks, threads and frames |
| guest mutex, `hle_kernel.cpp` 450-523, 662-813 | owner and depth (Windows) | lock, trylock, timedlock, unlock | self-deadlock, the condvar wait that gives it up |
| address futexes, `src/hle/hle_kernel_mem.cpp` 5643-, `sync_futex.cpp` 264-294, 614-641 | a counter of waiters | wait on address, wake, label wake from the GPU | store/load order |
| once, keys, threads, exceptions, `hle_kernel.cpp` | once words, suspension slots | once, create, join, raise exception | parking, suspending a thread anywhere |
| equeues, timers, completions, `src/hle/hle_kernel_time.cpp` | queues of events, pumps, workers | create, delete, add, trigger, wait | delete against post, coalescing, address reuse |
| user level threads, `src/hle/hle_ult.cpp` | runtimes, ulthreads, mutexes, condvars | create, join, lock, wait, signal | a scheduler on worker threads |
| guest memory map, `hle_kernel_mem.cpp`, `src/host/guest_memory_map.hpp` | reservations, mappings | map, unmap, reserve, protect | overlap and splitting |
| write watch, `src/host/guest_write_watch.cpp` | page states, generations | arm, fault, query | faults against queries |
| pending GPU writes, `src/gpu/command_processor.cpp` 2653-3260, the submit imports of `src/hle/hle_agc.cpp` | the queue of writes, `inflight`, `active_submits`, the submit scopes | submit, fold, enqueue, drain, renderer's drain, pulse | completion order against guest threads and the import's return |
| the rest of the GPU: packet decoding, executor, timeline, `src/gpu` | guest GPU state | decode, execute | values, not states |
| presentation and lifecycle, `src/gpu/videoout_present.cpp`, `src/host/lifecycle.cpp` | front buffer, frame, stop and pause flags | flip, publish, pause | pacing, tearing |
| module loading, `src/host/runtime_module_load.cpp`, `src/loader`, `src/self` | module table | load, start, unload | order, reference counts |
| recompiler and translation, `src/gpu/rdna2_*`, `tile.cpp`, `bc_decode.cpp`, `vk_translate.cpp` | none that persists | pure functions | values, not states |
| file, audio, pad, service, frontends, tools | host handles | input and output | audio pacing only |

How they interact: a handler resolves a guest slot (object slots) and then works
on the object (rwlock, mutex, condvar). Event flags and semaphores hold a host
mutex and condvar of their own, the latter through the Windows condvar. Fibers
carry a guest's holds from one thread to another, which is why the rwlock keeps
no thread identity for readers. Exception delivery interrupts waits through the
condvar's wait registry. A submit import queues the GPU's writes; a worker lands
them in guest memory and wakes, through address futexes, the threads that wait on
a label; the end-of-pipe worker waits for the same queue to drain and then posts
to the equeues.

What makes each correct: the *rwlock* must agree with the host lock about how
many holds there are and never lose a write hold; a *slot's object* must belong
to one party at any time and stay valid while a handler may use it; a *condvar*
must be one slot, and a signal must reach a waiter; a *wait object* must wake
whoever it satisfies, give out what was put in, and be freed once and last; a
*fiber's records* must say what the machine does; an *equeue* must deliver every
completion to the queue it was meant for, once and in order, and never leave a
thread asleep on an event or on a deleted queue; the *GPU's writes* must land in
the order of submission wherever a label is involved, with the event behind them
and nobody left parked on a label that has changed.

## Modules

Each module is a component; `MC<name>.tla` and its `.cfg` files instantiate it
for TLC; definitions called "wrong variant" are deliberate mutations of the
definition that follows them, and `PROJECT.json` says which property each breaks.
No module uses recursion.

* **RwLock** (proofs in **RwLockProofs**). One step per atomic access or host
  call. `state` is the word, `owner` the owner word; `hostReaders` and
  `hostWriter` are the host lock, external, with glibc's answer to an unmatched
  unlock (the reader count goes down). `rw_acquired` is `RdCounted`, or `WrOwner`,
  `WrLoad`, `WrCas`; `rw_release` is `RelLoad`, `Decide`, `RelOwner`,
  `RelWriteCas`, `RelReadCas`, `RelClear`; the forwarded unlock is `RelHost`.
  `patient` is FALSE for the try and timed forms, which the host may refuse.
  `reads`, `wrote`, `robbed`, `spurious` are history: what guest code was told.
  A weak compare-exchange that fails spuriously rereads the same word and is a
  stutter, so it has no action. The count is a number: 2^32 holds are out of
  reach, as the comment on line 601 says. Atomics are modelled as sequentially
  consistent; the release/acquire pairing argued at lines 1209-1213 is taken as
  given.
* **IdealRwLock** is the abstract specification: a lock whose callers keep
  POSIX's rule that an unlock has a hold to release. `HostLockIdeal` says that the
  host lock, as the handlers use it, behaves like it: whatever the guest does,
  glibc is never asked to do what it leaves undefined.
* **SyncSlot** (proofs in **SyncSlotProofs**). The life of one object: `slot` holds a static initialiser, an
  object or the destroyed sentinel; `heap` the state of each block; `quarantine`
  the retired ones with their times; `waiters` the busy-check registries.
  `UseStatic`/`UseCas` are `ensure_mutex` and its siblings, `Claim` is
  `pt_claim_slot`, `Peek`/`Check` the busy checks, `Unregister` the erasure of a
  condvar's entry, `Retire`/`Free` the two halves of `retire_sync_object`. The
  five kinds differ only in `SelfInit` and `BusyChecked`. Storage is never
  reused, so that a use of freed storage is visible in the state.
* **CondSlots** (proofs in **CondSlotsProofs**). `owner` and `sequence` are `g_cond_slots`, `waiting` the wait
  registry, `holder` the condvars' mutexes. The lookup (`Find`, `FindAbsent`,
  `Claim`, `Recheck`, `Yield`, `NoSlot`) is `cond_slot_for`, one slot access per
  step; the wait goes on with `LoadExpected`, `RegisterWait`, `UnlockMutex`,
  `Sleep`, `Relock`, `UnregisterWait`; a signal with `Bump` and `Wake`; `Retire`,
  `ResetSequence`, `FreeSlot` are `interruptible_cond_forget`. Three kinds of
  guest: "locked" signals with the mutex held, as the handlers of event flags
  and semaphores do; "pair" signals without it, with two threads at a time on
  one condvar and no destroy; "free" does anything POSIX allows. The 1024 wait
  slots never run out here, and the sequence word does not wrap.
* **WaitObject** (proofs in **WaitObjectProofs**). Event flag and semaphore, which share their protocol.
  A critical section is one step, ending where the mutex is given up: by unlock
  (`Leave`) or by waiting on the condvar (`Park`). `Destroy` is the free outside
  it. The condvar is external: broadcasts wake all parked threads, waits may also
  return spuriously or at their deadline. The guest deletes only when every
  thread with a call in progress is already counted; the handlers cannot tell a
  thread that is still blocked on the mutex.
* **Fiber** (proofs in **FiberProofs**). Records (`state`, `suspended`, `context`, `active`, `current`)
  beside the machine (`running`: whose code each thread executes; `entered`:
  which stacks have frames; `caller`: where the frame is that an entry returns
  to). `local` is the `thread` variable in a suspended frame. `Migrate` and
  `LateEnds` switch two guest behaviours: fibers that move between threads, and
  entries that return after having been suspended.

* **Equeue** (proofs in **EqueueProofs**). `table` is `g_eqs`, `queue` the `EqState`s, `regs` the flip, vblank
  and end-of-pipe registrations. A handle is an address, and the allocator may
  give it to a new queue once nobody refers to the old one; only the `identity`
  tells them apart. A post is `Find` (the lookup, under `g_eq_mx`) and `Deliver`
  (under the queue's mutex), and the queue may be deleted in between; what a
  thread has still to post is `todo`. `Posted` is the whole of `eq_post`'s
  policy: merge into the pending entry of the same key, else shed the oldest
  coalescible entry at the cap, else append; distinct events do neither.
  `TimerWake`, `TimerPosted`, `TimerForget` are the timer thread with its
  cancellation token; `EopTake` and `EopPostNow` the end-of-pipe worker;
  `SubmitTag` and `PtrTake` the file completions bound to one queue;
  `SubmitCounter` and `ReadWake` the deferred counters. `taken` and `owed` are
  history.
* **Completion** (proofs in **CompletionProofs**) composes four files: the
  `PendQueue` of the command processor, the submit imports, the end-of-pipe
  worker and label waits. What is done under `PendQueue::mx` is one step; the
  write is not done under it and passes through a store buffer (`Flush`), which
  `wake_label_waiters` empties before it counts the waiters (`WakeLabel`). `Gate`
  and `Drain` are `pend_wait_post_submit` and `pend_drain_locked`, shared by both
  workers; `Begin` to `ScopeEnd` an import; `Render` is
  `prosper_gpu_drain_renderer_writes`. A queue is the set of its writes' places in
  `issued`, for nothing ever reorders it. A write covers one cell or two; a fence
  covers one, a label. `OrderedWrites` is the abstract specification: every write
  lands, and two that share a cell land in the order of submission if one of
  them is a fence. `LandInOrder` is the refinement.

## Runs

Every run allows deadlock: the guest's calls are bounded, so a run ends.

| run | shows | bounds |
|---|---|---|
| `rwlock` | the safety properties of RwLock, its liveness, and that the host lock behaves like IdealRwLock | 3 threads, 2 calls each: a stray unlock against two balanced writers, the interleaving documented at lines 1170-1206, needs that and no more |
| `sync_slot` | ownership, window, busy check, no silent revival | 3 threads, 3 blocks, 5 calls, window of 2 ticks in 3: two destroys with a use between them, a retirement that frees an earlier one |
| `sync_slot_sentinel` | violated: see Findings | 2 threads |
| `cond_slots` | one slot, kept while used, no lost signal, no rewind | 3 threads, 3 condvars on 2 slots, 5 calls: the table fills, slots are retired and reused, lookups collide and yield |
| `cond_slots_free` | violated | 2 condvars, 6 calls, free guest |
| `wait_object` | deferred free, wakeups, conservation, the inductive invariant, liveness | 3 threads, 5 calls, 2 bits, requests for one, either and both bits |
| `fiber` | records and machine agree | 2 threads, 3 fibers, 14 calls: every chain of switches among three fibers with yields and finalizations |
| `fiber_migrate`, `fiber_return` | violated | 10 calls |
| `equeue` | completions kept in order for their queue, expirations counted, no sleeper missed, a delete releases | one address and two queues after each other; 1 caller, 2 waiters, 1 timer, 1 deferred counter; cap 1; waits for up to 2 events; 3 pieces of work: a merge, a shed and a completion that must survive it; a delete between a lookup and a post; a timer, a copy of the registrations or a tag that outlives its queue |
| `completion` | writes land as OrderedWrites allows, an event follows its writes, everything is delivered | 2 submitters, 1 label waiter, 2 cells with the label the second, 2 imports, 2 writes: a write of both cells covers the label without beginning at it; two imports overlap, drain for the renderer while the worker has a write in flight, and a second scope begins between two writes |
| `completion_private` | violated: finding 5 | the same |

Bounds in the modules: `MaxCalls` (calls, per thread in RwLock, in all
elsewhere), `MaxTime` (clock of SyncSlot), `Attempts` (rounds of a lookup, 64 in
the code: 2 suffice to lose, yield, retry and give up); in Equeue `MaxIdentity`
(queues created), `Cap` (coalescible entries, 64 in the code: the first entry at
the cap is the interesting one), `MaxNum` (events one wait asks for) and `MaxWork`
(registrations, timers, events); in Completion `MaxSubmits` and `MaxWrites`.

Fairness. RwLock: a thread inside a handler is scheduled (weak fairness of its
next step), which the host's scheduler gives; no fairness of the guest's calls
and none of the host lock between waiters. WaitObject: a woken thread runs, time
passes, and a condvar wait whose deadline has passed returns; a spurious return
is never required. Equeue: a thread inside a handler goes on and a timed wait runs
out; no event has to come, so `DeleteReleases` rests on the delete's own
notification. Completion: the two workers and the clock behind `release_after`
go on, and an import once called is carried through to its return hook, which the
submitting thread does by itself; the guest owes no call. A thread asleep on the
queue's condition variable may look again at any time but must do so only once it
was notified or its deadline has come (`Awake`), so that a missing notification
shows; each step has weak fairness of its own, which a host thread that is
scheduled has.

## Findings

1. *The sentinel resolved* (`sync_slot_sentinel`). `ensure_mutex`, `ensure_cond`
   and `ensure_rwlock` return whatever a lost compare-exchange found. If a
   destroy won, that is 0xDEA, which is then used as a pointer.
2. *Two slots for one condvar* (`cond_slots_free`). The slot of a claim that is
   about to lose is visible to a third thread's lookup, which keeps it.
3. *A stale thread record* (`fiber_migrate`). A frame resumed on another thread
   records itself as current on the thread it left.
4. *A plain return strands* (`fiber_return`). After a yield, an entry's return
   goes into a dead frame.
5. *A fence lands inside an import* (`completion_private`). `pend_drain_locked`
   waits for the write in flight, with the mutex released, and goes on to the
   next without looking at `active_submits` again; an import that begins between
   two writes may see its own fence land before it returns.

Each quotes in `PROJECT.json` the comment it contradicts. Two more interleavings
are listed there under the hazards, because the code promises nothing against
them or only in passing: a deferred file counter that goes back from 2 to 1, and a
plain write that overtakes a plain write it overlaps. The passing runs of the
same modules show what holds nevertheless, and under which guests.

## Proofs

`RwLockProofs` proves, for every finite set of threads and every number of
calls, from the assumptions `ThreadsAssumption` and `MaxCallsAssumption` alone:

* `LockInvariant`: `LockInv` always holds;
* `TypeCorrect`, `AccountingIsExact`, `WriterFindsIdle`, `WriteHoldSafe`: the
  invariants of the run;
* `ReadReleaseSafe`: the action property;
* `HostLockRefinesIdeal`: the refinement of IdealRwLock. Each step maps to one step
  of the ideal lock or to a stutter; the forwarded unlock (`RelHost`) is the one
  that needs the invariant, for the hold it releases.

The accounting is not inductive by itself: nothing in it excludes that a thread
on the reader path meets a writer's word. `LockInv` adds what makes it so.
`LocalCopies`: on the reader path the local copy has no WRITE and a positive
count. `ReadersCounted`: while the host lock has no writer, the word, the threads
in between and the host's readers add up, and there is neither WRITE nor owner.
`WriterAlone` and `WriterRecord`: while it has one, nobody else is in between,
and the word and the owner are a function of where that writer is.
`WritePathOwned`: whoever is on the write path is that writer. The step that
carries the weight is `ReadCommitNoWriter`: a reader-path exchange that commits
compares the whole word with a copy that has no WRITE and a positive count, and
no state with a writer has such a word; this is the comment on lines 1200-1206.
One lemma per action shows `Shared'` (the last four parts), `TypePreserved` and
`LocalCopiesPreserved` the rest; TLC checks `LockInv` too.

`RefusalsAreRobberies` proves `RefusedOnlyIfRobbed`, that a thread is refused its
own unlock only if a stray unlock by another took its count. The history
variables `robbed` and `spurious` only count, so the invariant (`BookInv`) is an
equation between counts: the read holds the word has, and the robberies, are the
holds that stand in the guest's book, and those of threads about to be refused
(`Doomed`), and the spurious releases. Holds are numbered pairs of a thread and
a number, so that their sum is a cardinality, and each step adds one pair, removes
one or leaves the set alone.

`WaitObjectProofs` proves, from `ThreadsAssumption`, `BitsAssumption` and
`NeedsAssumption`, for every finite set of threads and any bits, requests and
number of calls:

* `ObjectInvariant`: `ObjectInv` always holds;
* `ObjectTypeCorrect`, `ObjectFreedUnused`, `ObjectStrandsNobody`,
  `ObjectConserves`: the four other safety properties of the run.

Two of them are not inductive alone. `FreedUnused` says nothing of the moment
between the end of the critical section and the free: `OneDestroyer` adds that
the thread on its way to free a deleted object is the only one in it. That
follows when the last waiter leaves (the count, which `TypeOK` equates with the
threads in a wait, is 1) and when Delete finds none (it is 0). `NoStrandedWaiter`
needs `WaitersAsk`, that a sleeper asks for units or bits, to conclude from
`TakeKeeps` that a take by another thread satisfies no sleeper; a step that may
satisfy one broadcasts (`BroadcastMove`). `WaitStepOf` brings the two entrances of
a wait, the call and the wakeup, to one form with the same count. The guest's
part is assumed, in `Called`: no call begins on a deleted object.

`CompletionProofs` proves, from `ConstantsAssumption`, for every finite set of
submitters, any waiters, cells and labels, and any number of imports and writes:

* `LandInvHolds` and `TypeCorrect`: `LandInv`, and the type invariant in it;
* `LandsInOrder`: Completion implements OrderedWrites;
* `EventsFollowWrites`: an end-of-pipe event is posted after its writes.

That writes land in order is a property of steps; it needs to know, when a store
leaves its buffer, that what the write must follow is in memory already. `LandInv`
says so in four parts. `OneInFlight`: at most one thread has taken writes off the
queue, and the count says which. `WritesKept`: a write is queued, with that thread
or in memory, in one place only, so that a write not in memory and not in the
batch is queued behind. `BatchInOrder`: what a batch must follow has landed or is
in the batch, whose writes leave lowest first. A worker takes the lowest of the
queue while nothing is in flight (`DrainKeeps`), so all before it have landed. The
renderer takes out of order; `RenderKeeps` shows what makes that sound: what it
takes overlaps no queued fence and is none itself, so any earlier write it must
follow is not queued. `EventInv` adds the worker's side: pulses are counted,
taken and posted one by one (`PulsesKept`), and the only way to the place before
a post leads through an empty queue with nothing in flight (`DrainedLanded`).

`SyncSlotProofs` proves, from `KindsAssumption`, `ValuesAssumption` and
`BoundsAssumption`, for every set of threads and blocks, every kind of object and
any window, clock and number of calls:

* `SlotInvHolds`, `SlotTypeCorrect`: `SlotInv` and the type invariant in it;
* `BlocksAnsweredForOnce`, `NoBlockIsLost`, `WindowHolds`, `EarlyWaitersAreKept`,
  `OnlyInitRevivesSlot`: all the safety properties of the run.

A live block is in the slot, in the quarantine, in a thread's hands or about to be
freed. `Apart` says that these accounts exclude each other, `Kept` that the live
blocks are exactly those in one of them; together they carry each move of a block
from one account to the next. `Windows` is the timed part: what a handler has
resolved was published, so no thread is still making it, and it enters the
quarantine no earlier and the list to be freed no sooner than a window later.
`Counts` equates a registry with the threads parked in the slot's object, for the
slot's object only: a registry of an object that was replaced is not looked at
again. `EarlyKept` follows a destroy from its start to its claim.

`FiberProofs` proves, from `ValuesAssumption` and `GuestAssumption`, for every set
of threads and fibers and any number of calls, but only for a guest that is
`Tame`, the condition named in each theorem (findings 3 and 4 are what happens
otherwise):

* `FiberInvHolds`, `FiberTypeCorrect`: `FiberInv` and the type invariant in it;
* `RecordsAreRight`, `RunIsExecuted`, `SuspendedIsEntered`: the invariants of the
  run;
* `TameNeverStrands`: the property that `fiber_return` refutes for other guests.

That the records agree with the machine rests on a return finding the right frame.
`OwnFiber` and `OwnFrames` pin a fiber, its saved frame and its context to one
thread, and say when it has frames; `CallerWaits` adds that the frame into which a
first entry returns is on the thread itself or in a fiber of that thread.

`CondSlotsProofs` proves, from `ThreadsAssumption`, `ValuesAssumption`,
`BoundsAssumption` and `GuestsAssumption`, for every finite set of threads, any
condvars and any number of slots, attempts and calls:

* `CondTypeCorrect` and `NoSignalLost`, for every kind of guest (the property
  itself speaks of signals with the mutex held);
* `OneSlot`, `SlotStays` and `GenerationStays`, for guests that are `Disciplined`,
  "locked" or "pair". The hypothesis is needed: `cond_slots_free` is what a "free"
  guest can do.

The two guests are safe for different reasons. For "locked" (`LockedInv`) the
condvar's mutex makes a lookup undisturbed: while a thread looks for a slot
nobody else claims or frees one of the same condvar, so what it has passed stays
passed, and no claim is ever given up. For "pair" (`PairInv`) lookups do
collide. Slots are taken from the front (`Front`), and of the two threads only one
can have gone past a slot of the condvar without seeing it (`Missed`). So when both
claim, the claims are two different slots, the rescan of the one with the higher
slot must find the lower one, and it gives up the last slot taken; the other
keeps its own. A lost signal is excluded by `Shape`, which ties the wait
registry to the threads' places, and by `Generations`: who has read the sequence
word before a signal and is not yet asleep is behind it when the signal wakes.

`EqueueProofs` proves, from `ConstantsAssumption` and `PostersAssumption`, for any
handles, callers, waiters and deferred counters, any finite set of timers, and
any cap, number of queues and amount of work:

* `TypeCorrect`, `SleepersWoken`, `CompletionsDelivered`, `ExpirationsDelivered`:
  all the safety properties of the run.

There are two invariants. `EqueueInv` is about places. `Fits` and `TimerPosts` say
what each kind of thread may have to post, `Holding` which queue a post in
progress has found, `Addresses` that an address is not used again while anyone
refers to what was there and that a deleted queue has no handle. `Queues` is the
form of every queue, with completions distinct and everything else mergeable.
`AllSettled` is about deliveries, and speaks of each queue that still has its
handle: its tags are taken, in it or on their way, once and in the order of
submission; of the end-of-pipe completions and expirations it is owed none is missing
from those taken, in it or on their way, or, an expiration only, shed at the cap. Four
lemmas carry it: `PostedContents` and `PostedExpirations` say what `Posted`, with
its merge, shed and append, does to the tags, completions and expirations of a
queue, `TookKeeps` and `TookContents` what a wait takes of them. A post then has
two outcomes for queue i: it is for i and arrives in it, or it is for another queue
or for none, and then i is owed nothing by it. The second is the hard one: it needs
`Addresses`, because posts by handle alone go to whatever is at the address now.
`CompletionsKept` compares sets of tags and numbers of completions, not sequences
that are filtered by recursion, so that the proofs can reason about it.

Only model-checked: liveness (`ParkedOnlyBehindHold`, `DeletedIsFreed`,
`TimedWaitReturns`, `DeleteReleases`, `Delivered`). Under fairness a step must be
shown enabled, which the proof system cannot do. All other properties of the
passing runs, and both refinements, are proved. The five findings are
counterexamples and have only runs.

## Plan

Done: RwLock with its abstract lock, WaitObject, Completion with its abstract
specification, SyncSlot, Fiber, CondSlots and Equeue, with proofs of all their
safety properties. Left, in this order:

1. The rest of the condvar: mutex bookkeeping, failing waits, the wait
   registry's publication protocol; then WaitObject over CondSlots by
   refinement, with the abstract condvar as the specification, and the full table
   that makes an event flag's wait spin.
2. `Once`, whose losers share one condvar; the guest's own address wakes; user
   level threads.
3. The window of a yielding fiber that is still on its stack.
4. Presentation and lifecycle; write watch; the memory map as a pure algorithm
   against a reference definition; runtime module loading.
5. Proofs of what these components add, and the safety part of the liveness
   properties: that whoever is parked has somebody who still owes it a step.

## Not modelled

Of the repository's implementation most is outside the reach of a model checker,
and the models cover a small share of its lines: the recompiler, the texture and
state translation, the executor and live renderer and the loader are sequential
functions of large data, whose correctness is about values; input, output and the
frontends are host services; the diagnostics and captures observe and change
nothing the guest sees. The modelled lines are those where threads meet.

Inside the modelled parts these are left out:

* Completion: `PROSPER_WAIT_DEFER` (an opt-in that defers a wait past its submit),
  visibility without the return hook, effects ordered behind a DMA whose
  address is only known when it runs, `PROSPER_EOP_WRITE_SYNC`, nested scopes and
  return hooks that do not belong to an import, the guest's own
  `sceKernelWakeByAddress`, the exception delivery at a label wait.
* Equeue: `udata`, the argument errors (EINVAL, EFAULT), the counts of user and
  file registrations that only a diagnostic reads, `PROSPER_EOP_SYNC` and the
  switch that turns coalescing off.
* RwLock: `PROSPER_RWLOCK_UNSAFE_UNLOCK`, which disables the guard.
* CondSlots: the hooks of the mutex bookkeeping, failed unlocks and relocks, torn
  reads of the wait registry.
* Fiber: arguments, the FS base and the host's stack bounds.

Every write gives its cells a value of its own; a fence that writes what a label
already holds is not distinguished from one that does not. `Delivered` does detect a missing fence in
`wake_label_waiters`: without the condition that the store buffer is empty, a
waiter registers after the count, reads the old value and parks.
