----------------------------- MODULE Completion -----------------------------
(***************************************************************************)
(* How the GPU's memory writes reach the guest (the PendQueue of           *)
(* src/gpu/command_processor.cpp), with the three parties around it: the   *)
(* submit imports of src/hle/hle_agc.cpp, the end-of-pipe worker of        *)
(* src/hle/hle_kernel_time.cpp, and guest threads that wait on a label     *)
(* (src/hle/hle_kernel_mem.cpp, src/hle/sync_futex.cpp).                   *)
(*                                                                         *)
(* A submit folds its command buffer inside the import and only queues the *)
(* writes; two workers land them after the import has returned, and the    *)
(* renderer, inside the import, lands the resource writes it needs.  What  *)
(* is done under PendQueue::mx is one step; the write itself is not under  *)
(* it, and goes through a store buffer, as x86 has one.                    *)
(***************************************************************************)
EXTENDS Integers, Sequences, FiniteSets

CONSTANTS
  Submitters,  \* guest threads that submit
  Waiters,     \* guest threads that wait on a label
  Cells,       \* guest memory, an interval
  Labels,      \* the cells completion fences are written to
  None,        \* nobody
  MaxSubmits,  \* bound: submit imports called
  MaxWrites    \* bound: writes queued

ASSUME ConstantsAssumption ==
  /\ Cells \subseteq Nat /\ Labels \subseteq Cells
  /\ IsFiniteSet(Submitters) /\ None \notin Submitters
  /\ Submitters \cap Waiters = {}
  /\ {"pend", "eop"} \cap (Submitters \cup Waiters) = {}
  /\ MaxSubmits \in Nat /\ MaxWrites \in Nat

Workers == {"pend", "eop"}
Threads == Submitters \cup Workers

VARIABLES
  q,         \* PendQueue::q: the places of its writes in `issued'
  inflight,  \* PendQueue::inflight
  active,    \* PendQueue::active_submits
  latency,   \* whether PendQueue::release_after is still to come
  depth,     \* t_submit_scope_depth of each submitter
  fold,      \* who holds g_agc_state_mu
  pc,        \* where each thread is
  asleep,    \* the threads in a wait on PendQueue::cv
  batch,     \* the writes a thread took off the queue and has still to land
  stage,     \* how far the first of them is
  buffer,    \* the write in a thread's store buffer, 0 if none
  pulses,    \* EopQueue::pending, and
  burst,     \* the completions the end-of-pipe worker still owes
  mem,       \* guest memory: the write each cell holds, 0 at first
  expected,  \* the label and the value a waiter called with
  submits,   \* submit imports called so far
  issued,    \* history: the writes queued
  landed,    \* history: the writes in memory
  open,      \* history: the writes each submitter's current import queued
  pulsed,    \* history: writes queued when each end-of-pipe pulse was fired
  posted     \* history: the events posted for them

queue == <<q, inflight, asleep, batch, stage, buffer>>
scopes == <<active, latency, depth, fold, submits>>
eop == <<pulses, burst, pulsed, posted>>
guest == <<mem, expected>>
vars == <<queue, scopes, pc, eop, guest, issued, landed, open>>

Write == [base : Cells, len : 1..2, fence : BOOLEAN]
CellsOf(w) == w.base..(w.base + w.len - 1)

\* ReleaseMem and EventWrite write one label; WriteData and DmaData any range.
CommandWrites ==
  {w \in Write : /\ CellsOf(w) \subseteq Cells
                 /\ w.fence => w.base \in Labels /\ w.len = 1}

NoWait == [at |-> None, value |-> 0]

Init ==
  /\ q = {} /\ inflight = 0 /\ active = 0 /\ latency = FALSE
  /\ depth = [t \in Submitters |-> 0] /\ fold = None
  /\ pc = [t \in Threads \cup Waiters |->
       IF t \in Workers THEN "rest" ELSE "guest"]
  /\ asleep = {}
  /\ batch = [t \in Threads |-> {}]
  /\ stage = [t \in Threads |-> "none"]
  /\ buffer = [t \in Threads |-> 0]
  /\ pulses = 0 /\ burst = 0
  /\ mem = [c \in Cells |-> 0]
  /\ expected = [w \in Waiters |-> NoWait]
  /\ submits = 0
  /\ issued = <<>> /\ landed = {} /\ open = [t \in Submitters |-> {}]
  /\ pulsed = <<>> /\ posted = 0

\* A thread asleep may look again unasked, but only one that was notified, or
\* whose deadline has come, has to.
Awake(t) == t \notin asleep \/ (pc[t] = "latency" /\ ~latency)
Goto(t, l) == pc' = [pc EXCEPT ![t] = l]

(***************************************************************************)
(* Draining, for a thread that holds the queue's mutex.  `busy' is the     *)
(* number of writes in flight and `sleepers' who is asleep as it starts.   *)
(***************************************************************************)
\* Writes are queued at the back and leave without changing their order: a
\* queue is the set of its writes, from the first queued to the last.
First(ws) == CHOOSE i \in ws : \A j \in ws : i <= j

\* The writes `ws' leave the queue, and the first of them is stored.
Take(t, ws, busy) ==
  /\ batch' = [batch EXCEPT ![t] = ws]
  /\ stage' = [stage EXCEPT ![t] = "stored"]
  /\ buffer' = [buffer EXCEPT ![t] = First(ws)]
  /\ q' = q \ ws
  /\ inflight' = busy + 1
  /\ Goto(t, "applying")

\* A wait on the condition variable, to be looked at again at l.
Sleep(t, l, sleepers, busy) ==
  /\ Goto(t, l)
  /\ asleep' = sleepers \cup {t}
  /\ inflight' = busy
  /\ batch' = [batch EXCEPT ![t] = {}]
  /\ stage' = [stage EXCEPT ![t] = "none"]
  /\ UNCHANGED <<q, buffer>>

\* Nothing is left to drain: the pipe worker waits for more, the end-of-pipe
\* worker goes on to post its event.
Drained(t, sleepers, busy) ==
  /\ Goto(t, IF t = "eop" THEN "posting" ELSE "rest")
  /\ asleep' = IF t = "eop" THEN sleepers \ {t} ELSE sleepers \cup {t}
  /\ inflight' = busy
  /\ batch' = [batch EXCEPT ![t] = {}]
  /\ stage' = [stage EXCEPT ![t] = "none"]
  /\ UNCHANGED <<q, buffer>>

\* Wrong variant: waits for the write in flight only when nothing is queued.
DrainOvertaking(t, sleepers, busy) ==
  \/ /\ q # {}
     /\ Take(t, {First(q)}, busy) /\ asleep' = sleepers \ {t}
  \/ q = {} /\ busy > 0 /\ Sleep(t, "drain", sleepers, busy)
  \/ q = {} /\ busy = 0 /\ Drained(t, sleepers, busy)

\* Wrong variant: an empty queue is taken for a drained one.
DrainEmpty(t, sleepers, busy) ==
  \/ q = {} /\ Drained(t, sleepers, busy)
  \/ q # {} /\ busy > 0 /\ Sleep(t, "drain", sleepers, busy)
  \/ /\ q # {} /\ busy = 0
     /\ Take(t, {First(q)}, busy) /\ asleep' = sleepers \ {t}

\* pend_drain_locked: never begin a write until the one before has landed.
Drain(t, sleepers, busy) ==
  \/ busy > 0 /\ Sleep(t, "drain", sleepers, busy)
  \/ busy = 0 /\ q = {} /\ Drained(t, sleepers, busy)
  \/ /\ busy = 0 /\ q # {}
     /\ Take(t, {First(q)}, busy) /\ asleep' = sleepers \ {t}

\* pend_wait_post_submit: no submit is active and the latency is over; then,
\* without letting go of the mutex, the drain.
Gate(t) ==
  \/ active > 0 /\ Sleep(t, "gate", asleep, inflight)
  \/ active = 0 /\ latency /\ Sleep(t, "latency", asleep, inflight)
  \/ active = 0 /\ ~latency /\ Drain(t, asleep, inflight)

Rest ==
  /\ pc["pend"] = "rest"
  /\ \/ q = {} /\ Sleep("pend", "rest", asleep, inflight)
     \/ q # {} /\ Gate("pend")
  /\ UNCHANGED <<scopes, eop, guest, issued, landed, open>>

AtGate(t) ==
  /\ pc[t] \in {"gate", "latency"}
  /\ Gate(t)
  /\ UNCHANGED <<scopes, eop, guest, issued, landed, open>>

AtDrain(t) ==
  /\ pc[t] = "drain"
  /\ Drain(t, asleep, inflight)
  /\ UNCHANGED <<scopes, eop, guest, issued, landed, open>>

\* The modelled GPU latency passes.
LatencyOver ==
  /\ latency
  /\ latency' = FALSE
  /\ UNCHANGED <<queue, active, depth, fold, submits, pc, eop, guest, issued,
                 landed, open>>

(***************************************************************************)
(* Landing a write: the store, wake_label_waiters and the way back into    *)
(* the queue.                                                              *)
(***************************************************************************)
\* The store leaves the store buffer; a target the guest has unmapped in the
\* meantime is left alone, and nobody is woken.
Flush(t) ==
  /\ buffer[t] # 0
  /\ buffer' = [buffer EXCEPT ![t] = 0]
  /\ landed' = landed \cup {buffer[t]}
  /\ \/ /\ mem' = [c \in Cells |->
             IF c \in CellsOf(issued[buffer[t]]) THEN buffer[t] ELSE mem[c]]
        /\ UNCHANGED stage
     \/ /\ stage[t] = "stored"
        /\ stage' = [stage EXCEPT ![t] = "silent"]
        /\ UNCHANGED mem
  /\ UNCHANGED <<q, inflight, asleep, batch, scopes, pc, eop, expected, issued, open>>

\* The waiters WakeByAddressAll finds parked on the address a write begins at.
ParkedOn(i) ==
  {w \in Waiters : pc[w] = "parked" /\ expected[w].at = issued[i].base}

\* wake_label_waiters: once the store is out, the waiters are counted, and if
\* there are any, those parked on the label are woken.  One step does for both:
\* whoever registers after the count sees the store and does not park.
WakeLabel(t) ==
  /\ stage[t] = "stored" /\ buffer[t] = 0
  /\ stage' = [stage EXCEPT ![t] = "silent"]
  /\ pc' = [u \in DOMAIN pc |->
       IF u \in ParkedOn(First(batch[t]))
       THEN "checking" ELSE pc[u]]
  /\ UNCHANGED <<q, inflight, asleep, batch, buffer, scopes, eop, guest, issued,
                 landed, open>>

\* The next write of the batch, if there is one.
NextOfBatch(t) ==
  /\ stage[t] = "silent" /\ buffer[t] = 0 /\ batch[t] # {First(batch[t])}
  /\ batch' = [batch EXCEPT ![t] = @ \ {First(@)}]
  /\ buffer' = [buffer EXCEPT ![t] = First(batch'[t])]
  /\ stage' = [stage EXCEPT ![t] = "stored"]
  /\ UNCHANGED <<q, inflight, asleep, scopes, pc, eop, guest, issued, landed, open>>

\* The last write of a batch has landed; everyone asleep on the queue looks
\* again, a worker goes on draining and the renderer looks for more.
Finish(t) ==
  /\ stage[t] = "silent" /\ buffer[t] = 0 /\ batch[t] = {First(batch[t])}
  /\ IF t \in Workers
     THEN Drain(t, {}, inflight - 1)
     ELSE /\ Goto(t, "render")
          /\ asleep' = {}
          /\ inflight' = inflight - 1
          /\ batch' = [batch EXCEPT ![t] = {}]
          /\ stage' = [stage EXCEPT ![t] = "none"]
          /\ UNCHANGED <<q, buffer>>
  /\ UNCHANGED <<scopes, eop, guest, issued, landed, open>>

(***************************************************************************)
(* The submit imports.                                                     *)
(***************************************************************************)
\* prosper_gpu_submit_scope_begin, called or looking again: it waits for the
\* write in flight.
Begin(t) ==
  /\ \/ pc[t] = "guest" /\ submits < MaxSubmits /\ submits' = submits + 1
     \/ pc[t] = "begin" /\ UNCHANGED submits
  /\ IF inflight = 0
     THEN /\ depth' = [depth EXCEPT ![t] = @ + 1]
          /\ active' = active + 1
          /\ asleep' = {}
          /\ Goto(t, "inside")
     ELSE /\ Goto(t, "begin")
          /\ asleep' = asleep \cup {t}
          /\ UNCHANGED <<depth, active>>
  /\ UNCHANGED <<q, inflight, batch, stage, buffer, latency, fold, eop, guest, issued,
                 landed, open>>

\* Bad arguments: the import returns at once.
Reject(t) ==
  /\ pc[t] = "inside"
  /\ Goto(t, "returning")
  /\ UNCHANGED <<queue, scopes, eop, guest, issued, landed, open>>

\* Folds are serialised.
StartFold(t) ==
  /\ pc[t] = "inside" /\ fold = None
  /\ fold' = t
  /\ Goto(t, "folding")
  /\ UNCHANGED <<queue, active, latency, depth, submits, eop, guest, issued,
                 landed, open>>

\* pend_enqueue, for a write of the command buffer.
Enqueue(t) ==
  /\ pc[t] = "folding" /\ Len(issued) < MaxWrites
  /\ \E w \in CommandWrites : issued' = Append(issued, w)
  /\ q' = q \cup {Len(issued')}
  /\ open' = [open EXCEPT ![t] = @ \cup {Len(issued')}]
  /\ asleep' = {}
  /\ UNCHANGED <<inflight, batch, stage, buffer, scopes, pc, eop, guest, landed>>

\* The cells queued completions will be written to.
CompletionCells == UNION {CellsOf(issued[i]) : i \in {j \in q : issued[j].fence}}

\* Wrong variant: a resource write is held back only if it begins at a label.
RendererWritesByBase ==
  {i \in q : ~issued[i].fence /\ issued[i].base \notin CompletionCells}

\* The resource writes that overlap no queued completion.
RendererWrites ==
  {i \in q : ~issued[i].fence /\ CellsOf(issued[i]) \cap CompletionCells = {}}

\* prosper_gpu_drain_renderer_writes: everything eligible in one partition, over
\* and over until nothing is.
Render(t) ==
  /\ pc[t] \in {"folding", "render"}
  /\ \/ inflight > 0 /\ Sleep(t, "render", asleep, inflight)
     \/ /\ inflight = 0 /\ RendererWrites # {}
        /\ Take(t, RendererWrites, inflight)
        /\ asleep' = asleep \ {t}
     \/ /\ inflight = 0 /\ RendererWrites = {}
        /\ Goto(t, "folding")
        /\ asleep' = asleep \ {t}
        /\ UNCHANGED <<q, inflight, batch, stage, buffer>>
  /\ UNCHANGED <<scopes, eop, guest, issued, landed, open>>

\* The end of the submit's fold and work: submit_completion_pulse, unless the
\* submit was rejected, and the next fold may begin.
EndFold(t) ==
  /\ pc[t] = "folding"
  /\ \/ /\ pulses' = pulses + 1
        /\ pulsed' = Append(pulsed, Len(issued))
     \/ UNCHANGED <<pulses, pulsed>>
  /\ fold' = None
  /\ Goto(t, "returning")
  /\ UNCHANGED <<queue, active, latency, depth, submits, burst, posted, guest,
                 issued, landed, open>>

\* Wrong variant: the return hook tells nobody.
ScopeEndQuietly(t) ==
  /\ pc[t] = "returning"
  /\ depth' = [depth EXCEPT ![t] = @ - 1]
  /\ active' = active - 1
  /\ latency' = IF active' = 0 THEN TRUE ELSE latency
  /\ open' = [open EXCEPT ![t] = {}]
  /\ Goto(t, "guest")
  /\ UNCHANGED <<queue, fold, submits, eop, guest, issued, landed>>

\* prosper_gpu_submit_scope_end, the import's return hook.
ScopeEnd(t) ==
  /\ pc[t] = "returning"
  /\ depth' = [depth EXCEPT ![t] = @ - 1]
  /\ active' = active - 1
  /\ latency' = IF active' = 0 THEN TRUE ELSE latency
  /\ asleep' = {}
  /\ open' = [open EXCEPT ![t] = {}]
  /\ Goto(t, "guest")
  /\ UNCHANGED <<q, inflight, batch, stage, buffer, fold, submits, eop, guest, issued, landed>>

(***************************************************************************)
(* The end-of-pipe worker and the guest's label waits.                     *)
(***************************************************************************)
\* The worker takes the burst; each completion drains before it is posted.
EopTake ==
  /\ pc["eop"] = "rest" /\ pulses > 0
  /\ burst' = pulses /\ pulses' = 0
  /\ Goto("eop", "gate")
  /\ UNCHANGED <<queue, scopes, pulsed, posted, guest, issued, landed, open>>

EopPost ==
  /\ pc["eop"] = "posting"
  /\ posted' = posted + 1
  /\ burst' = burst - 1
  /\ Goto("eop", IF burst' > 0 THEN "gate" ELSE "rest")
  /\ UNCHANGED <<queue, scopes, pulses, pulsed, guest, issued, landed, open>>

\* The guest has read a label and waits for it to change; the wait is counted
\* in g_waiters before it looks at the label again.
WaitOnAddress(w) ==
  /\ pc[w] = "guest"
  /\ \E l \in Labels : expected' = [expected EXCEPT ![w] = [at |-> l, value |-> mem[l]]]
  /\ Goto(w, "checking")
  /\ UNCHANGED <<queue, scopes, eop, mem, issued, landed, open>>

Return(w) ==
  /\ Goto(w, "guest")
  /\ expected' = [expected EXCEPT ![w] = NoWait]
  /\ UNCHANGED <<queue, scopes, eop, mem, issued, landed, open>>

\* The host's wait compares the word and parks the thread in one step.
CheckLabel(w) ==
  /\ pc[w] = "checking"
  /\ \/ mem[expected[w].at] # expected[w].value /\ Return(w)
     \/ /\ mem[expected[w].at] = expected[w].value
        /\ Goto(w, "parked")
        /\ UNCHANGED <<queue, scopes, eop, guest, issued, landed, open>>

\* The time of the wait is up: ETIMEDOUT.
TimeOut(w) == pc[w] = "parked" /\ Return(w)

-----------------------------------------------------------------------------
\* A thread that lands the writes it took.
Applying(t) ==
  Flush(t) \/ WakeLabel(t) \/ NextOfBatch(t) \/ Finish(t)

Worker(t) == AtGate(t) \/ AtDrain(t) \/ Applying(t)

\* A thread inside an import, and one that waits to be let in.
Inside(t) ==
  \/ (pc[t] = "begin" /\ Begin(t)) \/ StartFold(t) \/ Enqueue(t) \/ Render(t)
  \/ ScopeEnd(t) \/ Applying(t)

Next ==
  \/ \E t \in Workers : Worker(t)
  \/ Rest \/ EopTake \/ EopPost \/ LatencyOver
  \/ \E t \in Submitters :
       Inside(t) \/ EndFold(t) \/ Reject(t) \/ (pc[t] = "guest" /\ Begin(t))
  \/ \E w \in Waiters : WaitOnAddress(w) \/ CheckLabel(w) \/ TimeOut(w)

Spec == Init /\ [][Next]_vars

\* The workers and the host's clock go on, and an import that was called is
\* carried through; the guest owes no call, and no wakeup comes unasked.
FairSpec ==
  /\ Spec
  /\ \A t \in Workers : WF_vars(Awake(t) /\ Worker(t))
  /\ WF_vars(Awake("pend") /\ Rest) /\ WF_vars(EopTake) /\ WF_vars(EopPost) /\ WF_vars(LatencyOver)
  /\ \A t \in Submitters : WF_vars(Awake(t) /\ Inside(t)) /\ WF_vars(EndFold(t))
  /\ \A w \in Waiters : WF_vars(CheckLabel(w))

-----------------------------------------------------------------------------
Places == {"rest", "gate", "latency", "drain", "applying", "posting", "guest",
           "begin", "inside", "folding", "render", "returning", "checking", "parked"}
Open == {t \in Submitters : depth[t] = 1}

\* Every variable has its type, and the count of active submits is that of the
\* imports that have not returned.
TypeOK ==
  /\ issued \in Seq(CommandWrites)
  /\ q \in SUBSET DOMAIN issued /\ landed \in SUBSET DOMAIN issued
  /\ inflight \in {0, 1}
  /\ depth \in [Submitters -> {0, 1}] /\ active = Cardinality(Open)
  /\ fold \in Submitters \cup {None} /\ latency \in BOOLEAN
  /\ pc \in [Threads \cup Waiters -> Places]
  /\ \A t \in Submitters :
       depth[t] = IF pc[t] \in {"guest", "begin"} THEN 0 ELSE 1
  /\ batch \in [Threads -> SUBSET DOMAIN issued]
  /\ stage \in [Threads -> {"none", "stored", "silent"}]
  /\ buffer \in [Threads -> {0} \cup DOMAIN issued]
  /\ mem \in [Cells -> {0} \cup DOMAIN issued]
  /\ expected \in [Waiters -> [at : Labels \cup {None}, value : {0} \cup DOMAIN issued]]

\* Writes land as the guest may rely on, whoever lands them: every pair that
\* touches a common label in the order of submission.
Order == INSTANCE OrderedWrites
           WITH Writes <- CommandWrites
LandInOrder == Order!Spec

\* An end-of-pipe event is posted only when every write queued before its pulse
\* has landed: the guest's scan after the interrupt sees the whole frame.
EventsAfterWrites ==
  \A k \in 1..posted : \A i \in 1..pulsed[k] : i \in landed

\* Every import returns, every write lands, every pulse is posted, and no waiter
\* is left parked on a label a completion has changed.
Delivered ==
  <>[](/\ \A t \in Submitters : pc[t] = "guest"
       /\ landed = DOMAIN issued
       /\ posted = Len(pulsed)
       /\ \A w \in Waiters :
            LET v == mem[expected[w].at]
            IN  pc[w] = "parked" /\ v # 0 /\ issued[v].fence => v = expected[w].value)

\* One write is in flight at a time, and a thread that has none has nothing of
\* the queue.
OneInFlight ==
  \A t \in Threads :
    IF pc[t] = "applying"
    THEN /\ inflight = 1 /\ batch[t] # {} /\ stage[t] # "none"
         /\ \A u \in Threads : pc[u] = "applying" => u = t
    ELSE batch[t] = {} /\ stage[t] = "none" /\ buffer[t] = 0

\* Every write is queued, with a thread or in memory, and in one place only; of
\* a batch just the first write may have landed.
WritesKept ==
  /\ DOMAIN issued = q \cup landed \cup UNION {batch[t] : t \in Threads}
  /\ q \cap landed = {}
  /\ \A t \in Threads : \A i \in batch[t] :
       i \notin q /\ (i \in landed <=> i = First(batch[t]) /\ buffer[t] = 0)
  /\ \A t \in Threads : buffer[t] # 0 => buffer[t] = First(batch[t])

\* What a thread has taken may land: what it must follow has landed already or
\* is in the same batch.
BatchInOrder ==
  \A t \in Threads : \A i \in batch[t] : \A j \in 1..(i - 1) :
    Order!Ordered(issued[j], issued[i]) => j \in landed \cup batch[t]

LandInv == TypeOK /\ OneInFlight /\ WritesKept /\ BatchInOrder

\* Every pulse is posted, owed by the worker or waiting for it, and once the
\* worker is about to post one, its writes have landed.
EventInv ==
  /\ pulses \in Nat /\ burst \in Nat /\ posted \in Nat
  /\ pulsed \in Seq(0..Len(issued))
  /\ posted + burst + pulses = Len(pulsed)
  /\ (pc["eop"] = "rest") = (burst = 0)
  /\ pc["eop"] = "posting" => \A i \in 1..pulsed[posted + 1] : i \in landed
  /\ EventsAfterWrites

\* A completion fence stays private until the import that queued it returns.
PrivateUntilReturn ==
  \A t \in Submitters : \A i \in open[t] : issued[i].fence => i \notin landed

=============================================================================
