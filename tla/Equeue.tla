------------------------------- MODULE Equeue -------------------------------
(***************************************************************************)
(* The kernel event queues of prosper (src/hle/hle_kernel_time.cpp).       *)
(* Guest threads create, wait on and delete queues; flips, the vblank      *)
(* pump, user triggers, timers, the GPU's end-of-pipe worker and the file  *)
(* engine's completion channels post to them, each from its own thread.    *)
(*                                                                         *)
(* A critical section on g_eq_mx or on one queue's mutex is one step.  A   *)
(* post is two: eq_find looks the handle up and takes a reference, and the *)
(* queue may be deleted before the event goes in.  A handle is an address: *)
(* once the last reference to a queue is gone a new queue may have it, and *)
(* only the `identity' tells them apart.                                   *)
(***************************************************************************)
EXTENDS Integers, Sequences, FiniteSets, SequencesExt, FiniteSetsExt

CONSTANTS
  Callers,       \* guest threads that create, post and delete
  Waiters,       \* guest threads that wait; a call leaves nothing behind in
                 \* its thread, so a thread that does both is one of each
  Handles,       \* addresses the allocator may give to a queue
  None,          \* the null handle
  MaxIdentity,   \* bound: queues created
  Cap,           \* coalescible entries a queue holds (64)
  Timers,        \* cancellation tokens, one per timer thread
  Reads,         \* deferred file-counter posts, one thread each
  MaxNum,        \* bound: events one wait asks for
  MaxWork        \* bound: registrations, timers armed and events made

ASSUME ConstantsAssumption ==
  /\ None \notin Handles \cup Timers
  /\ IsFiniteSet(Timers)
  /\ MaxIdentity \in Nat /\ MaxNum \in Nat /\ MaxWork \in Nat
  /\ Cap \in Nat \ {0}

Threads == Callers \cup Waiters
Identities == 1..MaxIdentity
Workers == {"pump", "eop", "ptr"}
Posters == Threads \cup Workers \cup Timers \cup Reads
\* No thread is of two kinds.
ASSUME PostersAssumption ==
  /\ Threads \cap (Workers \cup Timers \cup Reads) = {}
  /\ Workers \cap (Timers \cup Reads) = {} /\ Timers \cap Reads = {}

VARIABLES
  table,       \* g_eqs: the identity of the queue a handle names, 0 if none
  at,          \* the address each queue was given
  queue,       \* EqState of each queue
  regs,        \* g_flip_regs, g_vblank_regs, g_eop_regs
  pc,          \* where a guest thread is
  timed,       \* whether its wait has a timeout
  todo,        \* the posts a thread has still to make, in order
  held,        \* the reference a thread holds to a queue, 0 if none
  timer,       \* each timer thread and its cancellation token
  timerOf,     \* g_timers: the token armed for a queue's timer
  eopPending,  \* EopQueue::pending
  burst,       \* completions the end-of-pipe worker still owes
  pq,          \* PtrQueue
  hwm,         \* tag_hwm of each queue's ring
  read,        \* each deferred counter post
  work,        \* registrations, timers and events so far
  taken,       \* history: what waits on each queue took out
  owed         \* history: what each queue's sources were asked to deliver

gpu == <<eopPending, burst>>
files == <<pq, hwm, read>>
clocks == <<timer, timerOf>>
history == <<taken, owed>>
vars == <<table, at, queue, regs, pc, timed, todo, held, clocks, gpu, files,
          work, history>>

\* The sources whose registrations are copied before they are posted to.
Sources == {"flip", "vblank", "eop"}
\* The (ident, filter) pairs that are posted.
Clocks == {"timer", "hrtimer"}
Keys == Sources \cup Clocks \cup {"user", "knote", "tag"}
Event == [key : Keys, data : Nat, distinct : BOOLEAN]

NoTimer == [eq |-> None, periodic |-> FALSE, cancelled |-> FALSE,
            at |-> "unused", meant |-> 0]
Empty == [ready |-> <<>>, coalescible |-> 0, deleted |-> FALSE]

Init ==
  /\ table = [h \in Handles |-> 0]
  /\ at = [i \in Identities |-> None]
  /\ queue = [i \in Identities |-> Empty]
  /\ regs = [s \in Sources |-> <<>>]
  /\ pc = [t \in Threads |-> "idle"]
  /\ timed = [t \in Threads |-> FALSE]
  /\ todo = [p \in Posters |-> <<>>]
  /\ held = [p \in Posters |-> 0]
  /\ timer = [k \in Timers |-> NoTimer]
  /\ timerOf = [h \in Handles |-> None]
  /\ eopPending = 0 /\ burst = 0
  /\ pq = <<>>
  /\ hwm = [i \in Identities |-> 0]
  /\ read = [k \in Reads |-> [identity |-> 0, at |-> "unused"]]
  /\ work = 0
  /\ taken = [i \in Identities |-> [tags |-> {}, eop |-> 0, expired |-> 0]]
  /\ owed = [i \in Identities |->
       [tags |-> {}, eop |-> 0, expired |-> 0, shed |-> 0]]

Idle(t) == pc[t] = "idle" /\ todo[t] = <<>>
Created == {i \in Identities : at[i] # None}
Live(h) == table[h] # 0

\* One more piece of work for the queues, within the bound.
Made == work < MaxWork /\ work' = work + 1

\* An event on its way to a handle; identity 0 asks for whatever queue the
\* handle names when the event arrives.
Post(h, i, k, d, once) ==
  [eq |-> h, identity |-> i, event |-> [key |-> k, data |-> d, distinct |-> once]]

(***************************************************************************)
(* eq_find and eq_post.                                                    *)
(***************************************************************************)
\* What eq_find answers, 0 for no queue.
Found(h, i) == IF i # 0 /\ table[h] # i THEN 0 ELSE table[h]

Find(p) ==
  /\ todo[p] # <<>> /\ held[p] = 0
  /\ LET i == Found(Head(todo[p]).eq, Head(todo[p]).identity)
     IN  IF i = 0
         THEN todo' = [todo EXCEPT ![p] = Tail(@)] /\ UNCHANGED held
         ELSE held' = [held EXCEPT ![p] = i] /\ UNCHANGED todo
  /\ UNCHANGED <<table, at, queue, regs, pc, timed, clocks, gpu, files, work, history>>

\* The entries of a queue that may be merged or shed, and those of one key.
Coalescible(s) == {k \in DOMAIN s.ready : ~s.ready[k].distinct}
SameKnote(s, e) == {k \in Coalescible(s) : s.ready[k].key = e.key}
Oldest(ks) == CHOOSE k \in ks : \A j \in ks : k <= j

\* Wrong variant: a timer that fires again replaces its pending expirations.
MergedAfresh(s, e, k) == [s EXCEPT !.ready[k] = e]

\* A pending entry takes the new event; a timer's expirations add up.
Merged(s, e, k) ==
  [s EXCEPT !.ready[k] =
     [e EXCEPT !.data = IF e.key \in Clocks THEN s.ready[k].data + @ ELSE @]]

\* Wrong variant: the oldest entry of any kind is the victim.
ShedAny(s, e) ==
  IF ~e.distinct /\ s.coalescible >= Cap
  THEN [s EXCEPT !.ready = Tail(@), !.coalescible = @ - 1]
  ELSE s

\* At the cap the oldest coalescible entry makes room; a completion never does.
Shed(s, e) ==
  IF ~e.distinct /\ s.coalescible >= Cap /\ Coalescible(s) # {}
  THEN [s EXCEPT !.ready = RemoveAt(@, Oldest(Coalescible(s))),
                 !.coalescible = @ - 1]
  ELSE s

Pushed(s, e) ==
  [s EXCEPT !.ready = Append(@, e),
            !.coalescible = @ + (IF e.distinct THEN 0 ELSE 1)]

Posted(s, e) ==
  IF ~e.distinct /\ SameKnote(s, e) # {}
  THEN Merged(s, e, Oldest(SameKnote(s, e)))
  ELSE Pushed(Shed(s, e), e)

\* Wrong variant: notify_one.
NotifiedOne(i) ==
  LET asleep == {t \in Threads : pc[t] = "asleep" /\ held[t] = i}
  IN  [t \in Threads |->
        IF asleep # {} /\ t = CHOOSE u \in asleep : TRUE THEN "locking" ELSE pc[t]]

\* cv.notify_all: every thread asleep on the queue looks again.
Notified(i) ==
  [t \in Threads |-> IF pc[t] = "asleep" /\ held[t] = i THEN "locking" ELSE pc[t]]

\* The expirations a full queue gives up with its oldest entry.
ShedExpirations(s, e) ==
  IF /\ ~e.distinct /\ s.coalescible >= Cap
     /\ SameKnote(s, e) = {} /\ Coalescible(s) # {}
     /\ s.ready[Oldest(Coalescible(s))].key \in Clocks
  THEN s.ready[Oldest(Coalescible(s))].data
  ELSE 0

\* The second half of eq_post, under the queue's mutex.
Deliver(p) ==
  /\ todo[p] # <<>> /\ held[p] # 0
  /\ LET i == held[p]
         e == Head(todo[p]).event
     IN  IF queue[i].deleted
         THEN UNCHANGED <<queue, pc, owed>>
         ELSE /\ queue' = [queue EXCEPT ![i] = Posted(@, e)]
              /\ owed' = [owed EXCEPT ![i].shed = @ + ShedExpirations(queue[i], e)]
              /\ pc' = Notified(i)
  /\ todo' = [todo EXCEPT ![p] = Tail(@)]
  /\ held' = [held EXCEPT ![p] = 0]
  /\ UNCHANGED <<table, at, regs, timed, clocks, gpu, files, work, taken>>

\* What a reader of the queue finds in it: the tags, the number of end-of-pipe
\* completions, and the expirations, of which a queue has one entry a clock.
OfKey(ready, key) == {k \in DOMAIN ready : ready[k].key = key}
Tags(ready) == {ready[k].data : k \in OfKey(ready, "tag")}
Completions(ready) == Cardinality(OfKey(ready, "eop"))
Expired(ready, clock) ==
  IF OfKey(ready, clock) = {} THEN 0 ELSE ready[Oldest(OfKey(ready, clock))].data
Expirations(ready) == Expired(ready, "timer") + Expired(ready, "hrtimer")

(***************************************************************************)
(* Queues: create, delete and wait.                                        *)
(***************************************************************************)
\* The allocator reuses an address once nothing refers to what was there.
Unreferenced(h) ==
  \A i \in Created : at[i] = h =>
    table[h] # i /\ \A p \in Posters : held[p] # i

Create(t) ==
  /\ Idle(t)
  /\ \E i \in Identities, h \in Handles :
       /\ i \notin Created /\ \A j \in 1..(i - 1) : j \in Created
       /\ Unreferenced(h)
       /\ table' = [table EXCEPT ![h] = i]
       /\ at' = [at EXCEPT ![i] = h]
  /\ UNCHANGED <<queue, regs, pc, timed, todo, held, clocks, gpu, files, work, history>>

\* A queue is registered once with a source.
Without(s, h) ==
  IF Contains(s, h) THEN RemoveAt(s, CHOOSE k \in DOMAIN s : s[k] = h) ELSE s

\* k_eq_delete under g_eq_mx: the handle, its registrations and its timer go.
Delete(t, h) ==
  /\ Idle(t)
  /\ table' = [table EXCEPT ![h] = 0]
  /\ regs' = [s \in Sources |-> Without(regs[s], h)]
  /\ timer' = [k \in Timers |->
       IF k = timerOf[h] THEN [timer[k] EXCEPT !.cancelled = TRUE] ELSE timer[k]]
  /\ timerOf' = [timerOf EXCEPT ![h] = None]
  /\ held' = [held EXCEPT ![t] = table[h]]
  /\ pc' = [pc EXCEPT ![t] = IF Live(h) THEN "deleting" ELSE "idle"]
  /\ UNCHANGED <<at, queue, timed, todo, gpu, files, work, history>>

\* Wrong variant: the queue is marked and nobody is told.
MarkDeletedQuietly(t) ==
  /\ pc[t] = "deleting"
  /\ queue' = [queue EXCEPT ![held[t]].deleted = TRUE]
  /\ pc' = [pc EXCEPT ![t] = "idle"]
  /\ held' = [held EXCEPT ![t] = 0]
  /\ UNCHANGED <<table, at, regs, timed, todo, clocks, gpu, files, work, history>>

\* The rest of it, under the queue's own mutex.
MarkDeleted(t) ==
  /\ pc[t] = "deleting"
  /\ queue' = [queue EXCEPT ![held[t]].deleted = TRUE]
  /\ pc' = [Notified(held[t]) EXCEPT ![t] = "idle"]
  /\ held' = [held EXCEPT ![t] = 0]
  /\ UNCHANGED <<table, at, regs, timed, todo, clocks, gpu, files, work, history>>

CallWait(t, h) ==
  /\ Idle(t) /\ Live(h)
  /\ \E waits \in BOOLEAN : timed' = [timed EXCEPT ![t] = waits]
  /\ held' = [held EXCEPT ![t] = table[h]]
  /\ pc' = [pc EXCEPT ![t] = "locking"]
  /\ UNCHANGED <<table, at, queue, regs, todo, clocks, gpu, files, work, history>>

\* The predicate of the wait.
Ready(i) == queue[i].ready # <<>> \/ queue[i].deleted

Sleep(t) ==
  /\ pc[t] = "locking" /\ ~Ready(held[t])
  /\ pc' = [pc EXCEPT ![t] = "asleep"]
  /\ UNCHANGED <<table, at, queue, regs, timed, todo, held, clocks, gpu, files,
                 work, history>>

\* The condition variable may let a thread go unasked.
Wake(t) ==
  /\ pc[t] = "asleep"
  /\ pc' = [pc EXCEPT ![t] = "locking"]
  /\ UNCHANGED <<table, at, queue, regs, timed, todo, held, clocks, gpu, files,
                 work, history>>

\* Wrong variant: the coalescible count is not kept when entries are taken.
TookUncounted(s, n) == [s EXCEPT !.ready = SubSeq(@, n + 1, Len(@))]

Took(s, n) ==
  [s EXCEPT !.ready = SubSeq(@, n + 1, Len(@)),
            !.coalescible = @ - Cardinality({k \in Coalescible(s) : k <= n})]

\* The wait takes up to `num' events and returns: 0, EBADF when there are none
\* and the queue is deleted, ETIMEDOUT when its time is up and there are none.
Return(t) ==
  /\ \/ pc[t] = "locking" /\ Ready(held[t])
     \/ pc[t] = "asleep" /\ timed[t]
  /\ \E num \in 1..MaxNum :
     LET i == held[t]
         s == queue[i]
         n == Min({num, Len(s.ready)})
         got == SubSeq(s.ready, 1, n)
     IN  /\ queue' = [queue EXCEPT ![i] = Took(s, n)]
         /\ taken' = [taken EXCEPT
              ![i] = [tags |-> @.tags \cup Tags(got),
                      eop |-> @.eop + Completions(got),
                      expired |-> @.expired + Expirations(got)]]
  /\ pc' = [pc EXCEPT ![t] = "idle"]
  /\ timed' = [timed EXCEPT ![t] = FALSE]
  /\ held' = [held EXCEPT ![t] = 0]
  /\ UNCHANGED <<table, at, regs, todo, clocks, gpu, files, work, owed>>

(***************************************************************************)
(* Registered sources: flips, vblanks and the GPU's end of pipe.           *)
(***************************************************************************)
\* The guest registers a source on a queue it has, once.
Register(t, s, h) ==
  /\ Idle(t) /\ Live(h) /\ ~Contains(regs[s], h) /\ Made
  /\ regs' = [regs EXCEPT ![s] = Append(@, h)]
  /\ UNCHANGED <<table, at, queue, pc, timed, todo, held, clocks, gpu, files, history>>

\* The registrations as they are now, one post to each.
Snapshot(s, once) ==
  [k \in DOMAIN regs[s] |-> Post(regs[s][k], 0, s, 0, once)]

Plan(p, ps) == todo' = [todo EXCEPT ![p] = ps]

TriggerFlip(t) ==
  /\ Idle(t) /\ Made
  /\ Plan(t, Snapshot("flip", FALSE))
  /\ UNCHANGED <<table, at, queue, regs, pc, timed, held, clocks, gpu, files, history>>

PumpTick ==
  /\ todo["pump"] = <<>> /\ Made
  /\ Plan("pump", Snapshot("vblank", FALSE))
  /\ UNCHANGED <<table, at, queue, regs, pc, timed, held, clocks, gpu, files, history>>

TriggerUser(t, h) ==
  /\ Idle(t) /\ Made
  /\ Plan(t, <<Post(h, 0, "user", 0, FALSE)>>)
  /\ UNCHANGED <<table, at, queue, regs, pc, timed, held, clocks, gpu, files, history>>

\* A submit completed: the worker owes one completion to every queue that is
\* registered when it gets there, and at least to those registered now.
TriggerEop(t) ==
  /\ Idle(t) /\ Made
  /\ eopPending' = eopPending + 1
  /\ owed' = [i \in Identities |->
       IF i \in Created /\ table[at[i]] = i /\ Contains(regs["eop"], at[i])
       THEN [owed[i] EXCEPT !.eop = @ + 1] ELSE owed[i]]
  /\ UNCHANGED <<table, at, queue, regs, pc, timed, todo, held, clocks, burst,
                 files, taken>>

\* The worker takes the burst, sleeps, and posts one after the other.
EopTake ==
  /\ burst = 0 /\ todo["eop"] = <<>> /\ eopPending > 0
  /\ burst' = eopPending /\ eopPending' = 0
  /\ UNCHANGED <<table, at, queue, regs, pc, timed, todo, held, clocks, files,
                 work, history>>

EopPostNow ==
  /\ burst > 0 /\ todo["eop"] = <<>>
  /\ burst' = burst - 1
  /\ Plan("eop", Snapshot("eop", TRUE))
  /\ UNCHANGED <<table, at, queue, regs, pc, timed, held, clocks, eopPending,
                 files, work, history>>

(***************************************************************************)
(* The file engine: completions bound to one queue, by handle and identity. *)
(***************************************************************************)
Bound(i) == i \in Created /\ table[at[i]] = i

\* A request's own tag, delivered distinctly and in order by one worker.
SubmitTag(t, i) ==
  /\ Idle(t) /\ Bound(i) /\ Made
  /\ pq' = Append(pq, Post(at[i], i, "tag", work', TRUE))
  /\ owed' = [owed EXCEPT ![i].tags = @ \cup {work'}]
  /\ UNCHANGED <<table, at, queue, regs, pc, timed, todo, held, clocks, gpu,
                 hwm, read, taken>>

PtrTake ==
  /\ todo["ptr"] = <<>> /\ pq # <<>>
  /\ Plan("ptr", pq)
  /\ pq' = <<>>
  /\ UNCHANGED <<table, at, queue, regs, pc, timed, held, clocks, gpu, hwm, read,
                 work, history>>

\* A counter of the ring: recorded now, posted later by a thread of its own.
SubmitCounter(t, i, k) ==
  /\ Idle(t) /\ Bound(i) /\ Made
  /\ read[k].at = "unused"
  /\ \E cnt \in 1..(hwm[i] + 1) : hwm' = [hwm EXCEPT ![i] = Max({@, cnt})]
  /\ read' = [read EXCEPT ![k] = [identity |-> i, at |-> "asleep"]]
  /\ UNCHANGED <<table, at, queue, regs, pc, timed, todo, held, clocks, gpu, pq,
                 history>>

ReadWake(k) ==
  /\ read[k].at = "asleep"
  /\ LET i == read[k].identity
     IN  Plan(k, <<Post(at[i], i, "knote", hwm[i], FALSE)>>)
  /\ read' = [read EXCEPT ![k] = [identity |-> 0, at |-> "posted"]]
  /\ UNCHANGED <<table, at, queue, regs, pc, timed, held, clocks, gpu, pq, hwm,
                 work, history>>

(***************************************************************************)
(* Timers: one detached thread each, stopped through its token.            *)
(***************************************************************************)
AddTimer(t, h, k) ==
  /\ Idle(t) /\ Live(h) /\ Made
  /\ timer[k].at = "unused"
  /\ \E periodic \in BOOLEAN :
       timer' = [j \in Timers |->
         IF j = k THEN [eq |-> h, periodic |-> periodic, cancelled |-> FALSE,
                        at |-> "asleep", meant |-> table[h]]
         ELSE IF j = timerOf[h] THEN [timer[j] EXCEPT !.cancelled = TRUE]
         ELSE timer[j]]
  /\ timerOf' = [timerOf EXCEPT ![h] = k]
  /\ UNCHANGED <<table, at, queue, regs, pc, timed, todo, held, gpu, files, history>>

DeleteTimer(t, h) ==
  /\ Idle(t) /\ timerOf[h] # None
  /\ timer' = [timer EXCEPT ![timerOf[h]].cancelled = TRUE]
  /\ timerOf' = [timerOf EXCEPT ![h] = None]
  /\ UNCHANGED <<table, at, queue, regs, pc, timed, todo, held, gpu, files,
                 work, history>>

TimerStops(k) == timer' = [timer EXCEPT ![k].at = "stopping"]

\* The sleep is over: the token is looked at, then one expiration is posted.
TimerWake(k) ==
  /\ timer[k].at = "asleep"
  /\ \/ /\ timer[k].cancelled
        /\ TimerStops(k)
        /\ UNCHANGED <<todo, work, owed>>
     \/ /\ ~timer[k].cancelled /\ Made
        /\ timer' = [timer EXCEPT ![k].at = "posting"]
        /\ Plan(k, <<Post(timer[k].eq, 0,
                          IF timer[k].periodic THEN "timer" ELSE "hrtimer", 1, FALSE)>>)
        /\ owed' = [owed EXCEPT ![timer[k].meant].expired = @ + 1]
  /\ UNCHANGED <<table, at, queue, regs, pc, timed, held, timerOf, gpu, files, taken>>

TimerPosted(k) ==
  /\ timer[k].at = "posting" /\ todo[k] = <<>>
  /\ IF timer[k].periodic /\ ~timer[k].cancelled
     THEN timer' = [timer EXCEPT ![k].at = "asleep"]
     ELSE TimerStops(k)
  /\ UNCHANGED <<table, at, queue, regs, pc, timed, todo, held, timerOf, gpu,
                 files, work, history>>

TimerForget(k) ==
  /\ timer[k].at = "stopping"
  /\ timer' = [timer EXCEPT ![k] = [NoTimer EXCEPT !.at = "done"]]
  /\ timerOf' = [h \in Handles |-> IF timerOf[h] = k THEN None ELSE timerOf[h]]
  /\ UNCHANGED <<table, at, queue, regs, pc, timed, todo, held, gpu, files,
                 work, history>>

-----------------------------------------------------------------------------
Guest(t) ==
  \/ Create(t) \/ TriggerFlip(t) \/ TriggerEop(t)
  \/ \E h \in Handles :
       \/ Delete(t, h) \/ TriggerUser(t, h) \/ DeleteTimer(t, h)
       \/ \E s \in Sources : Register(t, s, h)
       \/ \E k \in Timers : AddTimer(t, h, k)
  \/ \E i \in Identities :
       \/ SubmitTag(t, i)
       \/ \E k \in Reads : SubmitCounter(t, i, k)

\* A thread inside a handler.
Handling(t) == MarkDeleted(t) \/ Sleep(t) \/ Return(t)

Posting(p) == Find(p) \/ Deliver(p)

Clock(k) == TimerWake(k) \/ TimerPosted(k) \/ TimerForget(k)

Next ==
  \/ \E t \in Callers : Guest(t)
  \/ \E t \in Waiters, h \in Handles : CallWait(t, h)
  \/ \E t \in Threads : Handling(t) \/ Wake(t)
  \/ \E p \in Posters : Posting(p)
  \/ PumpTick \/ EopTake \/ EopPostNow \/ PtrTake
  \/ \E k \in Timers : Clock(k)
  \/ \E k \in Reads : ReadWake(k)

Spec == Init /\ [][Next]_vars

\* A thread inside a handler goes on, and a timed wait runs out; the guest owes
\* no call, no event has to come and no spurious wakeup is relied on.
FairSpec == Spec /\ \A t \in Threads : WF_vars(Handling(t))

-----------------------------------------------------------------------------
Entries(i) == {queue[i].ready[k] : k \in DOMAIN queue[i].ready}

\* A queue's entries: the count that guards the cap is the number of
\* coalescible entries, no two of them are of one key, and the cap holds.
QueueOK(s) ==
  /\ \A k \in DOMAIN s.ready : s.ready[k] \in Event
  /\ s.coalescible = Cardinality(Coalescible(s))
  /\ s.coalescible <= Cap
  /\ \A j, k \in Coalescible(s) : s.ready[j].key = s.ready[k].key => j = k
  /\ s.deleted \in BOOLEAN

\* Every variable has its type, and every queue is well formed.
TypeOK ==
  /\ table \in [Handles -> {0} \cup Identities]
  /\ at \in [Identities -> Handles \cup {None}]
  /\ \A i \in Identities : QueueOK(queue[i])
  /\ \A s \in Sources : \A k \in DOMAIN regs[s] : regs[s][k] \in Handles
  /\ pc \in [Threads -> {"idle", "deleting", "locking", "asleep"}]
  /\ held \in [Posters -> {0} \cup Identities]
  /\ timerOf \in [Handles -> Timers \cup {None}]
  /\ eopPending \in Nat /\ burst \in Nat
  /\ hwm \in [Identities -> Nat]

\* The tags on their way to a queue; a tag's number is its turn.
PostedTags(ps, i) ==
  {ps[k].event.data : k \in {j \in DOMAIN ps : ps[j].identity = i}}
Before(A, B) == \A a \in A, b \in B : a < b

TagsInOrder(i) ==
  LET ready == queue[i].ready
  IN  /\ \A j, k \in OfKey(ready, "tag") : j < k => ready[j].data < ready[k].data
      /\ \A ps \in {todo["ptr"], pq} : \A j, k \in DOMAIN ps :
           ps[j].identity = i /\ ps[k].identity = i /\ j < k =>
             ps[j].event.data < ps[k].event.data
      /\ Before(taken[i].tags, Tags(ready))
      /\ Before(taken[i].tags \cup Tags(ready), PostedTags(todo["ptr"], i))
      /\ Before(taken[i].tags \cup Tags(ready) \cup PostedTags(todo["ptr"], i),
                PostedTags(pq, i))
      /\ taken[i].tags \cup Tags(ready) \cup PostedTags(todo["ptr"], i)
           \cup PostedTags(pq, i) = owed[i].tags

EopDelivered(i) ==
  LET coming == Cardinality({k \in DOMAIN todo["eop"] : todo["eop"][k].eq = at[i]})
      later == IF Contains(regs["eop"], at[i]) THEN eopPending + burst ELSE 0
  IN  taken[i].eop + Completions(queue[i].ready) + coming + later >= owed[i].eop

\* A file completion bound to a queue is delivered to that queue, exactly once
\* and in the order of submission, and every end-of-pipe completion triggered
\* while a queue is registered is delivered to it or on its way: neither kind
\* is ever merged, shed, reordered or sent to a later queue at the address.
CompletionsKept ==
  \A i \in Identities : Bound(i) => TagsInOrder(i) /\ EopDelivered(i)

\* Every expiration of a queue's timers is counted in an event the guest took
\* or will take, or is in flight, or was given up by a queue at its cap.
ExpirationsCounted ==
  \A i \in Identities : Bound(i) =>
    taken[i].expired + Expirations(queue[i].ready) + owed[i].shed
      + Cardinality({k \in Timers : timer[k].meant = i /\ todo[k] # <<>>})
    >= owed[i].expired

\* No thread sleeps on a queue that has events or is deleted.
NoSleeperMissed ==
  \A t \in Threads : pc[t] = "asleep" => ~Ready(held[t])

\* Deleting a queue ends every wait on it, the untimed ones too: once the
\* queues stop coming and going, nobody is left waiting on one that is gone.
DeleteReleases ==
  <>[](\A t \in Waiters : pc[t] # "idle" => Bound(held[t]))

=============================================================================
