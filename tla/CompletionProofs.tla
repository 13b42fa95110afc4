-------------------------- MODULE CompletionProofs --------------------------
(***************************************************************************)
(* Landing order and event visibility for any number of submitters,        *)
(* waiters, cells and writes.  The argument is LandInv: with one write in  *)
(* flight at a time, whatever a thread took off the queue has nothing to   *)
(* wait for but earlier writes of its own batch.                           *)
(***************************************************************************)
EXTENDS Completion, FiniteSetTheorems, WellFoundedInduction, TLAPS

\* A set of numbers that is bounded and not empty has a least one, and it is
\* what First picks.
LEMMA FirstIsLeast ==
  ASSUME NEW n \in Nat, NEW ws \in SUBSET (1..n), ws # {}
  PROVE  First(ws) \in ws /\ \A j \in ws : First(ws) <= j
<1> DEFINE Below(i) == {j \in ws : j < i}
           Initial == {Below(i) : i \in ws}
<1>1. IsFiniteSet(ws)
  <2>1. IsFiniteSet(1..n)
    BY FS_Interval
  <2>2. QED
    BY <2>1, FS_Subset
<1>2. IsWellFoundedOn(StrictSubsetOrdering(ws), SUBSET ws)
  BY <1>1, FS_StrictSubsetOrderingWellFounded, FS_FiniteSubsetsOfFinite
<1>3. Initial \subseteq SUBSET ws /\ Initial # {}
  OBVIOUS
<1>4. PICK s \in Initial : \A r \in Initial : ~ (<<r, s>> \in StrictSubsetOrdering(ws))
  <2> HIDE DEF Initial
  <2> QED
    BY <1>2, <1>3, WFMin
<1>5. PICK i \in ws : s = Below(i)
  OBVIOUS
<1>6. ASSUME NEW j \in ws, j < i PROVE FALSE
  <2>1. \A k \in ws : k \in Int
    OBVIOUS
  <2>2. ASSUME NEW k \in Below(j) PROVE k \in Below(i)
    <3>1. k \in ws /\ k < j
      OBVIOUS
    <3>2. k < i
      BY <1>6, <2>1, <3>1
    <3>3. QED
      BY <3>1, <3>2
  <2>3. j \in Below(i) /\ j \notin Below(j)
    BY <1>6, <2>1
  <2>4. <<Below(j), Below(i)>> \in StrictSubsetOrdering(ws)
    BY <2>2, <2>3 DEF StrictSubsetOrdering
  <2>5. QED
    BY <1>4, <1>5, <2>4
<1>7. \A j \in ws : i <= j
  BY <1>6
<1>8. QED
  BY <1>7 DEF First

\* The same for the writes of a queue or of a batch.
LEMMA FirstOfWrites ==
  ASSUME issued \in Seq(CommandWrites), NEW ws \in SUBSET DOMAIN issued, ws # {}
  PROVE  First(ws) \in ws /\ \A j \in ws : First(ws) <= j
<1>1. Len(issued) \in Nat /\ DOMAIN issued = 1..Len(issued)
  OBVIOUS
<1>2. QED
  BY <1>1, FirstIsLeast

\* With nothing in flight no thread has a batch, and every write is queued or
\* in memory.
LEMMA NothingInFlight ==
  ASSUME LandInv, inflight = 0
  PROVE  /\ \A t \in Threads : pc[t] # "applying" /\ batch[t] = {}
         /\ DOMAIN issued = q \cup landed
BY DEF LandInv, OneInFlight, WritesKept

\* A step that leaves the queue, the batches and memory alone, and takes no
\* thread into a write or out of one, keeps the invariant.
LEMMA MovesKeep ==
  ASSUME LandInv, TypeOK',
         UNCHANGED <<q, inflight, batch, buffer, issued, landed>>,
         \A t \in Threads : /\ (pc'[t] = "applying") = (pc[t] = "applying")
                            /\ (stage'[t] = "none") = (stage[t] = "none")
  PROVE  LandInv'
<1>1. OneInFlight'
  BY DEF LandInv, OneInFlight
<1>2. WritesKept'
  BY DEF LandInv, WritesKept, First
<1>3. BatchInOrder'
  BY DEF LandInv, BatchInOrder
<1>4. QED
  BY <1>1, <1>2, <1>3 DEF LandInv

\* A thread that has no write in flight takes writes off the queue, when no
\* other thread has one and every write they must follow has left the queue.
LEMMA TakeKeeps ==
  ASSUME LandInv, TypeOK', NEW t \in Threads, NEW ws \in SUBSET q, ws # {},
         \A u \in Threads : u # t => pc[u] # "applying",
         batch[t] \subseteq landed,
         Take(t, ws, 0), UNCHANGED <<issued, landed>>,
         \A i \in ws : \A j \in 1..(i - 1) :
           Order!Ordered(issued[j], issued[i]) => j \notin q \ ws
  PROVE  LandInv'
<1>1. /\ pc \in [Threads \cup Waiters -> Places] /\ batch \in [Threads -> SUBSET DOMAIN issued]
      /\ stage \in [Threads -> {"none", "stored", "silent"}]
      /\ buffer \in [Threads -> {0} \cup DOMAIN issued]
      /\ issued \in Seq(CommandWrites) /\ q \in SUBSET DOMAIN issued
      /\ landed \in SUBSET DOMAIN issued
  BY DEF LandInv, TypeOK
<1>2. First(ws) \in ws /\ \A j \in ws : First(ws) <= j
  BY <1>1, FirstOfWrites
<1>3. /\ batch'[t] = ws /\ stage'[t] = "stored" /\ buffer'[t] = First(ws)
      /\ pc'[t] = "applying" /\ inflight' = 1 /\ q' = q \ ws
      /\ \A u \in Threads : u # t =>
           /\ pc'[u] = pc[u] /\ batch'[u] = batch[u]
           /\ stage'[u] = stage[u] /\ buffer'[u] = buffer[u]
      /\ issued' = issued /\ landed' = landed
  BY <1>1 DEF Take, Goto
<1>4. \A u \in Threads : u # t => batch[u] = {} /\ stage[u] = "none" /\ buffer[u] = 0
  BY DEF LandInv, OneInFlight
<1>5. q \cap landed = {} /\ DOMAIN issued = q \cup landed
  BY <1>4 DEF LandInv, WritesKept
<1>6. OneInFlight'
  <2>1. ASSUME NEW u \in Threads, u # t
        PROVE  /\ pc'[u] # "applying" /\ batch'[u] = {} /\ stage'[u] = "none" /\ buffer'[u] = 0
    BY <1>3, <1>4, <2>1
  <2>2. QED
    BY <1>3, <2>1 DEF OneInFlight
<1>7. WritesKept'
  <2>1. \A u \in Threads : u # t => batch'[u] = {} /\ buffer'[u] = 0
    BY <1>3, <1>4
  <2>2. UNION {batch'[u] : u \in Threads} = ws
    BY <1>3, <2>1
  <2>3. First(ws) # 0
    BY <1>1, <1>2
  <2>4. DOMAIN issued' = q' \cup landed' \cup UNION {batch'[u] : u \in Threads}
    BY <1>3, <1>5, <2>2
  <2>5. \A i \in ws : i \notin q' /\ i \notin landed'
    BY <1>3, <1>5
  <2>6. \A u \in Threads : \A i \in batch'[u] :
          i \notin q' /\ (i \in landed' <=> i = First(batch'[u]) /\ buffer'[u] = 0)
    BY <1>3, <2>1, <2>3, <2>5
  <2>7. \A u \in Threads : buffer'[u] # 0 => buffer'[u] = First(batch'[u])
    BY <1>3, <2>1
  <2>8. QED
    BY <1>3, <1>5, <2>4, <2>6, <2>7 DEF WritesKept, First
<1>8. BatchInOrder'
  <2> SUFFICES ASSUME NEW u \in Threads, NEW i \in batch'[u], NEW j \in 1..(i - 1),
                      Order!Ordered(issued[j], issued[i])
               PROVE  j \in landed' \cup batch'[u]
    BY <1>3 DEF BatchInOrder, Order!Ordered, Order!CellsOf
  <2>1. u = t /\ i \in ws
    BY <1>3, <1>4
  <2>2. j \in DOMAIN issued
    BY <1>1, <2>1
  <2>3. QED
    BY <1>3, <1>5, <2>1, <2>2
<1>9. QED
  BY <1>6, <1>7, <1>8 DEF LandInv

\* A thread whose whole batch has landed lets go of it.
LEMMA ReleaseKeeps ==
  ASSUME LandInv, TypeOK', NEW t \in Threads, pc[t] = "applying",
         buffer[t] = 0, batch[t] \subseteq landed,
         pc'[t] # "applying", \A u \in Threads : u # t => pc'[u] = pc[u],
         batch' = [batch EXCEPT ![t] = {}], stage' = [stage EXCEPT ![t] = "none"],
         UNCHANGED <<q, buffer, issued, landed>>
  PROVE  LandInv'
<1>1. batch \in [Threads -> SUBSET DOMAIN issued] /\ stage \in [Threads -> {"none", "stored", "silent"}]
  BY DEF LandInv, TypeOK
<1>2. \A u \in Threads : pc'[u] # "applying"
  BY DEF LandInv, OneInFlight
<1>3. \A u \in Threads : batch'[u] = {} /\ stage'[u] = "none" /\ buffer'[u] = 0
  BY <1>1 DEF LandInv, OneInFlight
<1>4. OneInFlight'
  BY <1>2, <1>3 DEF OneInFlight
<1>5. WritesKept'
  <2>1. \A u \in Threads : batch[u] \subseteq landed
    BY DEF LandInv, OneInFlight
  <2>2. DOMAIN issued = q \cup landed /\ q \cap landed = {}
    BY <2>1 DEF LandInv, WritesKept
  <2>3. UNION {batch'[u] : u \in Threads} = {}
    BY <1>3
  <2>4. QED
    BY <1>3, <2>2, <2>3 DEF WritesKept
<1>6. BatchInOrder'
  BY <1>3 DEF BatchInOrder
<1>7. QED
  BY <1>4, <1>5, <1>6 DEF LandInv

\* The facts about threads and places the steps use.
LEMMA ThreadFacts ==
  /\ Workers \cap Submitters = {} /\ Threads \cap Waiters = {}
  /\ Submitters \subseteq Threads /\ Workers \subseteq Threads
BY ConstantsAssumption DEF Threads, Workers

\* The types a step of one thread keeps when it moves between places with the
\* same depth, whatever it does to its batch.
LEMMA LocalStepTypes ==
  ASSUME TypeOK, NEW t \in Threads, NEW l \in Places, Goto(t, l),
         t \in Submitters => l \notin {"guest", "begin"} /\ pc[t] \notin {"guest", "begin"},
         NEW ws \in SUBSET DOMAIN issued, batch' = [batch EXCEPT ![t] = ws],
         NEW s \in {"none", "stored", "silent"}, stage' = [stage EXCEPT ![t] = s],
         buffer' \in [Threads -> {0} \cup DOMAIN issued],
         inflight' \in {0, 1}, q' \in SUBSET DOMAIN issued, fold' \in Submitters \cup {None},
         UNCHANGED <<active, latency, depth, guest, issued, landed>>
  PROVE  TypeOK'
<1>1. Submitters \subseteq Threads /\ Threads \subseteq Threads \cup Waiters
  BY ThreadFacts
<1>2. pc' \in [Threads \cup Waiters -> Places]
  BY <1>1 DEF TypeOK, Goto
<1>3. \A u \in Submitters : depth'[u] = IF pc'[u] \in {"guest", "begin"} THEN 0 ELSE 1
  <2> TAKE u \in Submitters
  <2>1. CASE u = t
    BY <1>1, <2>1 DEF TypeOK, Goto
  <2>2. CASE u # t
    BY <1>1, <2>2 DEF TypeOK, Goto
  <2>3. QED
    BY <2>1, <2>2
<1>4. active' = Cardinality(Open')
  BY DEF TypeOK, Open
<1>5. /\ batch' \in [Threads -> SUBSET DOMAIN issued']
      /\ stage' \in [Threads -> {"none", "stored", "silent"}]
      /\ buffer' \in [Threads -> {0} \cup DOMAIN issued']
  BY DEF TypeOK
<1>6. mem' = mem /\ expected' = expected /\ issued' = issued /\ landed' = landed
      /\ latency' = latency /\ depth' = depth
  BY DEF guest
<1>7. QED
  BY <1>2, <1>3, <1>4, <1>5, <1>6 DEF TypeOK

\* A worker that drains, before its first write or after one has landed.
LEMMA DrainKeeps ==
  ASSUME LandInv, NEW t \in Workers, NEW sleepers, NEW busy \in {0, 1},
         Drain(t, sleepers, busy),
         \/ pc[t] # "applying" /\ busy = inflight
         \/ pc[t] = "applying" /\ buffer[t] = 0 /\ batch[t] \subseteq landed /\ busy = 0,
         UNCHANGED <<active, latency, depth, fold, guest, issued, landed>>
  PROVE  LandInv'
<1>1. t \in Threads /\ t \notin Submitters
  BY ThreadFacts
<1>2. /\ batch \in [Threads -> SUBSET DOMAIN issued] /\ stage \in [Threads -> {"none", "stored", "silent"}]
      /\ buffer \in [Threads -> {0} \cup DOMAIN issued] /\ issued \in Seq(CommandWrites)
      /\ q \in SUBSET DOMAIN issued /\ pc \in [Threads \cup Waiters -> Places]
      /\ fold \in Submitters \cup {None} /\ inflight \in {0, 1}
  BY DEF LandInv, TypeOK
<1>3. \A u \in Threads : u # t /\ busy = 0 => pc[u] # "applying"
  <2>1. CASE pc[t] = "applying"
    BY <1>1, <2>1 DEF LandInv, OneInFlight
  <2>2. CASE pc[t] # "applying" /\ busy = inflight
    BY <2>2 DEF LandInv, OneInFlight
  <2>3. QED
    BY <2>1, <2>2
<1>4. ASSUME NEW l \in Places, l # "applying", Goto(t, l), inflight' = busy,
             batch' = [batch EXCEPT ![t] = {}], stage' = [stage EXCEPT ![t] = "none"],
             UNCHANGED <<q, buffer>>
      PROVE  LandInv'
  <2>1. TypeOK'
    <3>1. /\ {} \in SUBSET DOMAIN issued /\ "none" \in {"none", "stored", "silent"}
          /\ buffer' \in [Threads -> {0} \cup DOMAIN issued] /\ q' \in SUBSET DOMAIN issued
          /\ inflight' \in {0, 1} /\ fold' \in Submitters \cup {None} /\ TypeOK
      BY <1>2, <1>4 DEF LandInv
    <3>2. QED
      BY <1>1, <1>4, <3>1, LocalStepTypes
  <2>2. pc'[t] # "applying" /\ \A u \in Threads : u # t => pc'[u] = pc[u]
    BY <1>1, <1>2, <1>4 DEF Goto
  <2>3. CASE pc[t] = "applying"
    BY <1>1, <1>4, <2>1, <2>2, <2>3, ReleaseKeeps
  <2>4. CASE pc[t] # "applying"
    <3>1. batch[t] = {} /\ stage[t] = "none"
      BY <1>1, <2>4 DEF LandInv, OneInFlight
    <3>2. batch' = batch /\ stage' = stage /\ inflight' = inflight
      BY <1>1, <1>2, <1>4, <2>4, <3>1
    <3>3. \A u \in Threads : /\ (pc'[u] = "applying") = (pc[u] = "applying")
                              /\ (stage'[u] = "none") = (stage[u] = "none")
      BY <2>2, <2>4, <3>2
    <3>4. QED
      BY <1>4, <2>1, <3>2, <3>3, MovesKeep
  <2>5. QED
    BY <2>3, <2>4
<1>5. CASE busy > 0 /\ Sleep(t, "drain", sleepers, busy)
  BY <1>4, <1>5 DEF Sleep, Places
<1>6. CASE busy = 0 /\ q = {} /\ Drained(t, sleepers, busy)
  BY <1>4, <1>6 DEF Drained, Places
<1>7. CASE busy = 0 /\ q # {} /\ Take(t, {First(q)}, busy)
  <2>1. First(q) \in q /\ \A j \in q : First(q) <= j
    <3>1. issued \in Seq(CommandWrites) /\ q \in SUBSET DOMAIN issued /\ q # {}
      BY <1>2, <1>7
    <3>2. QED
      BY <3>1, FirstOfWrites
  <2>2. First({First(q)}) = First(q)
    <3>1. issued \in Seq(CommandWrites) /\ {First(q)} \in SUBSET DOMAIN issued
      BY <1>2, <2>1
    <3>2. First({First(q)}) \in {First(q)}
      BY <3>1, FirstOfWrites
    <3>3. QED
      BY <3>2
  <2>3. TypeOK'
    <3>1. buffer' \in [Threads -> {0} \cup DOMAIN issued]
      BY <1>1, <1>2, <1>7, <2>1, <2>2 DEF Take
    <3>2. /\ {First(q)} \in SUBSET DOMAIN issued /\ q' \in SUBSET DOMAIN issued /\ inflight' = 1
          /\ fold' \in Submitters \cup {None} /\ "applying" \in Places
      BY <1>2, <1>7, <2>1 DEF Take, Places
    <3>3. QED
      BY <1>1, <1>7, <3>1, <3>2, LocalStepTypes DEF LandInv, Take
  <2>4. batch[t] \subseteq landed
    BY <1>1 DEF LandInv, OneInFlight
  <2>5. \A i \in {First(q)} : \A j \in 1..(i - 1) : j \notin q
    <3>1. First(q) \in Nat /\ q \subseteq Nat
      BY <1>2, <2>1
    <3>2. QED
      BY <2>1, <3>1
  <2>6. QED
    BY <1>1, <1>3, <1>7, <2>1, <2>3, <2>4, <2>5, TakeKeeps
<1>8. QED
  BY <1>5, <1>6, <1>7 DEF Drain

\* A thread that lands nothing goes from place to place.
LEMMA MoveKeeps ==
  ASSUME LandInv, NEW t \in Threads, NEW l \in Places, Goto(t, l),
         l # "applying", pc[t] # "applying",
         t \in Submitters => l \notin {"guest", "begin"} /\ pc[t] \notin {"guest", "begin"},
         fold' \in Submitters \cup {None},
         UNCHANGED <<q, inflight, batch, stage, buffer, active, latency, depth, guest, issued, landed>>
  PROVE  LandInv'
<1>1. /\ batch \in [Threads -> SUBSET DOMAIN issued] /\ stage \in [Threads -> {"none", "stored", "silent"}]
      /\ buffer \in [Threads -> {0} \cup DOMAIN issued] /\ q \in SUBSET DOMAIN issued
      /\ inflight \in {0, 1} /\ pc \in [Threads \cup Waiters -> Places] /\ TypeOK
  BY DEF LandInv, TypeOK
<1>2. batch' = [batch EXCEPT ![t] = batch[t]] /\ stage' = [stage EXCEPT ![t] = stage[t]]
  BY <1>1
<1>3. batch[t] \in SUBSET DOMAIN issued /\ stage[t] \in {"none", "stored", "silent"}
  BY <1>1
<1>4. TypeOK'
  <2>1. buffer' \in [Threads -> {0} \cup DOMAIN issued] /\ q' \in SUBSET DOMAIN issued /\ inflight' \in {0, 1}
    BY <1>1
  <2>2. QED
    BY <1>1, <1>2, <1>3, <2>1, LocalStepTypes
<1>5. \A u \in Threads : /\ (pc'[u] = "applying") = (pc[u] = "applying")
                         /\ (stage'[u] = "none") = (stage[u] = "none")
  BY <1>1 DEF Goto
<1>6. QED
  BY <1>4, <1>5, MovesKeep

\* A thread that lands nothing waits on the queue.
LEMMA SleepKeeps ==
  ASSUME LandInv, NEW t \in Threads, NEW l \in Places \ {"applying", "guest", "begin"},
         pc[t] # "applying", t \in Submitters => pc[t] \notin {"guest", "begin"},
         Sleep(t, l, asleep, inflight),
         UNCHANGED <<active, latency, depth, fold, guest, issued, landed>>
  PROVE  LandInv'
<1>1. /\ batch \in [Threads -> SUBSET DOMAIN issued] /\ stage \in [Threads -> {"none", "stored", "silent"}]
      /\ batch[t] = {} /\ stage[t] = "none" /\ fold \in Submitters \cup {None}
  BY DEF LandInv, TypeOK, OneInFlight
<1>2. batch' = batch /\ stage' = stage
  BY <1>1 DEF Sleep
<1>3. QED
  BY <1>1, <1>2, MoveKeeps DEF Sleep

\* A worker at the gate: it waits, or goes on to drain.
LEMMA GateKeeps ==
  ASSUME LandInv, NEW t \in Workers, pc[t] # "applying", Gate(t),
         UNCHANGED <<active, latency, depth, fold, guest, issued, landed>>
  PROVE  LandInv'
<1>1. t \in Threads /\ t \notin Submitters /\ inflight \in {0, 1}
  BY ThreadFacts DEF LandInv, TypeOK
<1>2. CASE Sleep(t, "gate", asleep, inflight)
  BY <1>1, <1>2, SleepKeeps DEF Places
<1>3. CASE Sleep(t, "latency", asleep, inflight)
  BY <1>1, <1>3, SleepKeeps DEF Places
<1>4. CASE Drain(t, asleep, inflight)
  BY <1>1, <1>4, DrainKeeps
<1>5. QED
  BY <1>2, <1>3, <1>4 DEF Gate

\* A write reaches memory, and is one that may land.
LEMMA FlushKeeps ==
  ASSUME LandInv, NEW t \in Threads, Flush(t)
  PROVE  LandInv' /\ Order!Land(First(batch[t]))
<1> DEFINE b == buffer[t]
<1>1. /\ batch \in [Threads -> SUBSET DOMAIN issued] /\ stage \in [Threads -> {"none", "stored", "silent"}]
      /\ buffer \in [Threads -> {0} \cup DOMAIN issued] /\ issued \in Seq(CommandWrites)
      /\ q \in SUBSET DOMAIN issued /\ landed \in SUBSET DOMAIN issued
      /\ mem \in [Cells -> {0} \cup DOMAIN issued]
  BY DEF LandInv, TypeOK
<1>2. /\ pc[t] = "applying" /\ batch[t] # {} /\ b = First(batch[t]) /\ b # 0
      /\ \A u \in Threads : u # t => batch[u] = {} /\ stage[u] = "none" /\ buffer[u] = 0
      /\ \A u \in Threads : pc[u] = "applying" => u = t
  BY DEF LandInv, OneInFlight, WritesKept, Flush
<1>3. b \in batch[t] /\ \A j \in batch[t] : b <= j
  BY <1>1, <1>2, FirstOfWrites
<1>4. b \in DOMAIN issued /\ b \notin q /\ b \notin landed
  BY <1>1, <1>2, <1>3 DEF LandInv, WritesKept
<1>5. /\ buffer' = [buffer EXCEPT ![t] = 0] /\ landed' = landed \cup {b}
      /\ stage' \in [Threads -> {"none", "stored", "silent"}] /\ stage'[t] # "none"
      /\ \A u \in Threads : u # t => stage'[u] = stage[u]
      /\ mem' \in [Cells -> {0} \cup DOMAIN issued]
      /\ q' = q /\ inflight' = inflight /\ batch' = batch /\ pc' = pc /\ issued' = issued
      /\ depth' = depth /\ active' = active /\ fold' = fold /\ latency' = latency /\ expected' = expected
  BY <1>1, <1>2, <1>4 DEF Flush, scopes, LandInv, OneInFlight
<1>6. TypeOK'
  <2>1. buffer' \in [Threads -> {0} \cup DOMAIN issued'] /\ landed' \in SUBSET DOMAIN issued'
    BY <1>1, <1>4, <1>5
  <2>2. active' = Cardinality(Open')
    BY <1>5 DEF LandInv, TypeOK, Open
  <2>3. QED
    BY <1>5, <2>1, <2>2 DEF LandInv, TypeOK
<1>7. OneInFlight'
  BY <1>1, <1>2, <1>5 DEF LandInv, OneInFlight
<1>8. WritesKept'
  <2>1. DOMAIN issued' = q' \cup landed' \cup UNION {batch'[u] : u \in Threads}
    BY <1>3, <1>5 DEF LandInv, WritesKept
  <2>2. q' \cap landed' = {}
    BY <1>4, <1>5 DEF LandInv, WritesKept
  <2>3. First(batch'[t]) = b
    BY <1>2, <1>5
  <2>4. ASSUME NEW i \in batch[t]
        PROVE  i \notin q /\ (i \in landed' <=> i = b /\ buffer'[t] = 0)
    BY <1>1, <1>2, <1>5, <2>4 DEF LandInv, WritesKept
  <2>5. \A u \in Threads : \A i \in batch'[u] :
          i \notin q' /\ (i \in landed' <=> i = First(batch'[u]) /\ buffer'[u] = 0)
    BY <1>2, <1>5, <2>3, <2>4
  <2>6. \A u \in Threads : buffer'[u] = 0
    BY <1>1, <1>2, <1>5
  <2>7. QED
    BY <2>1, <2>2, <2>5, <2>6 DEF WritesKept, First
<1>9. BatchInOrder'
  BY <1>5 DEF LandInv, BatchInOrder
<1>10. Order!Land(b)
  <2>1. ASSUME NEW j \in 1..(b - 1), Order!Ordered(issued[j], issued[b]) PROVE j \in landed
    <3>1. j \in landed \cup batch[t]
      BY <1>3, <2>1 DEF LandInv, BatchInOrder
    <3>2. j \notin batch[t]
      BY <1>1, <1>3, <1>4
    <3>3. QED
      BY <3>1, <3>2
  <2>2. QED
    BY <1>4, <1>5, <2>1 DEF Order!Land
<1>11. QED
  BY <1>2, <1>6, <1>7, <1>8, <1>9, <1>10 DEF LandInv

\* Waking the label's waiters disturbs nothing but them.
LEMMA WakeKeeps ==
  ASSUME LandInv, NEW t \in Threads, WakeLabel(t)
  PROVE  LandInv'
<1>1. /\ stage \in [Threads -> {"none", "stored", "silent"}] /\ pc \in [Threads \cup Waiters -> Places]
      /\ stage[t] = "stored"
  BY DEF LandInv, TypeOK, WakeLabel
<1>2. \A u \in Threads : pc'[u] = pc[u] /\ (stage'[u] = "none") = (stage[u] = "none")
  BY <1>1, ThreadFacts DEF WakeLabel, ParkedOn
<1>3. TypeOK'
  <2>1. pc' \in [Threads \cup Waiters -> Places] /\ stage' \in [Threads -> {"none", "stored", "silent"}]
    BY <1>1 DEF WakeLabel, Places
  <2>2. \A u \in Submitters : depth'[u] = IF pc'[u] \in {"guest", "begin"} THEN 0 ELSE 1
    BY <1>2, ThreadFacts DEF LandInv, TypeOK, WakeLabel, scopes
  <2>3. active' = Cardinality(Open')
    BY DEF LandInv, TypeOK, WakeLabel, scopes, Open
  <2>4. QED
    BY <2>1, <2>2, <2>3 DEF LandInv, TypeOK, WakeLabel, scopes, guest
<1>4. QED
  BY <1>2, <1>3, MovesKeep DEF WakeLabel

\* The first write of a batch has landed; the next one becomes the first.
LEMMA NextKeeps ==
  ASSUME LandInv, NEW t \in Threads, NextOfBatch(t)
  PROVE  LandInv'
<1> DEFINE f == First(batch[t])
           ws == batch[t] \ {f}
<1>1. /\ batch \in [Threads -> SUBSET DOMAIN issued] /\ stage \in [Threads -> {"none", "stored", "silent"}]
      /\ buffer \in [Threads -> {0} \cup DOMAIN issued] /\ issued \in Seq(CommandWrites)
      /\ q \in SUBSET DOMAIN issued /\ landed \in SUBSET DOMAIN issued
  BY DEF LandInv, TypeOK
<1>2. /\ pc[t] = "applying" /\ batch[t] # {} /\ buffer[t] = 0 /\ batch[t] # {f}
      /\ \A u \in Threads : u # t => batch[u] = {} /\ stage[u] = "none" /\ buffer[u] = 0
      /\ \A u \in Threads : pc[u] = "applying" => u = t
  BY DEF LandInv, OneInFlight, NextOfBatch
<1>3. f \in batch[t] /\ f \in landed
  BY <1>1, <1>2, FirstOfWrites DEF LandInv, WritesKept
<1>4. ws # {} /\ ws \in SUBSET DOMAIN issued
  BY <1>1, <1>2, <1>3
<1>5. First(ws) \in ws
  BY <1>1, <1>4, FirstOfWrites
<1>6. /\ batch'[t] = ws /\ buffer'[t] = First(ws) /\ stage'[t] = "stored"
      /\ \A u \in Threads : u # t => batch'[u] = batch[u] /\ buffer'[u] = buffer[u] /\ stage'[u] = stage[u]
      /\ q' = q /\ inflight' = inflight /\ pc' = pc /\ issued' = issued /\ landed' = landed
  BY <1>1 DEF NextOfBatch
<1>7. TypeOK'
  <2>1. batch'[t] = ws /\ batch' = [batch EXCEPT ![t] = ws]
    BY <1>1 DEF NextOfBatch
  <2>2. buffer' = [buffer EXCEPT ![t] = First(ws)]
    BY <2>1 DEF NextOfBatch
  <2>3. /\ batch' \in [Threads -> SUBSET DOMAIN issued] /\ stage' \in [Threads -> {"none", "stored", "silent"}]
        /\ buffer' \in [Threads -> {0} \cup DOMAIN issued]
    BY <1>1, <1>4, <1>5, <2>1, <2>2 DEF NextOfBatch
  <2>4. active' = Cardinality(Open')
    BY DEF LandInv, TypeOK, NextOfBatch, scopes, Open
  <2>5. QED
    BY <1>6, <2>3, <2>4 DEF LandInv, TypeOK, NextOfBatch, scopes, guest
<1>8. OneInFlight'
  BY <1>2, <1>4, <1>6 DEF LandInv, OneInFlight
<1>9. WritesKept'
  <2>1. UNION {batch[u] : u \in Threads} = batch[t] /\ UNION {batch'[u] : u \in Threads} = ws
    BY <1>2, <1>6
  <2>2. DOMAIN issued' = q' \cup landed' \cup UNION {batch'[u] : u \in Threads}
    BY <1>3, <1>6, <2>1 DEF LandInv, WritesKept
  <2>3. First(ws) # 0
    BY <1>1, <1>5
  <2>4. \A i \in ws : i \notin q /\ i \notin landed
    BY <1>2 DEF LandInv, WritesKept
  <2>5. \A u \in Threads : \A i \in batch'[u] :
          i \notin q' /\ (i \in landed' <=> i = First(batch'[u]) /\ buffer'[u] = 0)
    BY <1>2, <1>6, <2>3, <2>4
  <2>6. \A u \in Threads : buffer'[u] # 0 => buffer'[u] = First(batch'[u])
    BY <1>2, <1>6
  <2>7. q' \cap landed' = {}
    BY <1>6 DEF LandInv, WritesKept
  <2>8. QED
    BY <2>2, <2>5, <2>6, <2>7 DEF WritesKept, First
<1>10. BatchInOrder'
  <2> SUFFICES ASSUME NEW u \in Threads, NEW i \in batch'[u], NEW j \in 1..(i - 1),
                      Order!Ordered(issued[j], issued[i])
               PROVE  j \in landed' \cup batch'[u]
    BY <1>6 DEF BatchInOrder, Order!Ordered, Order!CellsOf
  <2>1. u = t /\ i \in batch[t]
    BY <1>2, <1>6
  <2>2. j \in landed \cup batch[t]
    BY <2>1 DEF LandInv, BatchInOrder
  <2>3. QED
    BY <1>3, <1>6, <2>1, <2>2
<1>11. QED
  BY <1>7, <1>8, <1>9, <1>10 DEF LandInv

\* The last write of a batch has landed: a worker drains on, the renderer looks
\* for more.
LEMMA FinishKeeps ==
  ASSUME LandInv, NEW t \in Threads, Finish(t)
  PROVE  LandInv'
<1>1. /\ batch \in [Threads -> SUBSET DOMAIN issued] /\ stage \in [Threads -> {"none", "stored", "silent"}]
      /\ buffer \in [Threads -> {0} \cup DOMAIN issued] /\ issued \in Seq(CommandWrites)
      /\ q \in SUBSET DOMAIN issued /\ fold \in Submitters \cup {None}
      /\ pc \in [Threads \cup Waiters -> Places]
  BY DEF LandInv, TypeOK
<1>2. /\ pc[t] = "applying" /\ batch[t] # {} /\ inflight = 1 /\ buffer[t] = 0
      /\ batch[t] = {First(batch[t])}
  BY DEF LandInv, OneInFlight, Finish
<1>3. batch[t] \subseteq landed
  <2>1. First(batch[t]) \in landed
    BY <1>1, <1>2, FirstOfWrites DEF LandInv, WritesKept
  <2>2. QED
    BY <1>2, <2>1
<1>4. CASE t \in Workers
  <2>1. Drain(t, {}, 0)
    BY <1>2, <1>4 DEF Finish
  <2>2. QED
    BY <1>2, <1>3, <1>4, <2>1, DrainKeeps DEF Finish, scopes
<1>5. CASE t \notin Workers
  <2>1. /\ Goto(t, "render") /\ inflight' = 0
        /\ batch' = [batch EXCEPT ![t] = {}] /\ stage' = [stage EXCEPT ![t] = "none"]
        /\ UNCHANGED <<q, buffer, active, latency, depth, fold, guest, issued, landed>>
    BY <1>2, <1>5 DEF Finish, scopes
  <2>2. TypeOK'
    <3>1. /\ buffer' \in [Threads -> {0} \cup DOMAIN issued] /\ q' \in SUBSET DOMAIN issued
          /\ "render" \in Places /\ {} \in SUBSET DOMAIN issued /\ inflight' \in {0, 1}
          /\ "none" \in {"none", "stored", "silent"} /\ fold' \in Submitters \cup {None} /\ TypeOK
          /\ "render" \notin {"guest", "begin"} /\ pc[t] \notin {"guest", "begin"}
      BY <1>1, <1>2, <2>1 DEF Places, LandInv
    <3>2. QED
      BY <2>1, <3>1, LocalStepTypes
  <2>3. pc'[t] # "applying" /\ \A u \in Threads : u # t => pc'[u] = pc[u]
    BY <1>1, <2>1 DEF Goto
  <2>4. QED
    BY <1>2, <1>3, <2>1, <2>2, <2>3, ReleaseKeeps
<1>6. QED
  BY <1>4, <1>5

\* The imports that have not returned are counted as one enters or leaves.
LEMMA OpenGrows ==
  ASSUME TypeOK, NEW t \in Submitters, depth[t] = 0, depth' = [depth EXCEPT ![t] = 1]
  PROVE  Cardinality(Open') = active + 1
<1>1. IsFiniteSet(Open)
  BY ConstantsAssumption, FS_Subset DEF Open
<1>2. depth \in [Submitters -> {0, 1}] /\ active = Cardinality(Open)
  BY DEF TypeOK
<1>3. t \notin Open /\ Open' = Open \cup {t}
  BY <1>2 DEF Open
<1>4. QED
  BY <1>1, <1>2, <1>3, FS_AddElement

LEMMA OpenShrinks ==
  ASSUME TypeOK, NEW t \in Submitters, depth[t] = 1, depth' = [depth EXCEPT ![t] = 0]
  PROVE  Cardinality(Open') = active - 1
<1>1. IsFiniteSet(Open)
  BY ConstantsAssumption, FS_Subset DEF Open
<1>2. depth \in [Submitters -> {0, 1}] /\ active = Cardinality(Open)
  BY DEF TypeOK
<1>3. t \in Open /\ Open' = Open \ {t}
  BY <1>2 DEF Open
<1>4. QED
  BY <1>1, <1>2, <1>3, FS_RemoveElement

\* Entering an import, or waiting to.
LEMMA BeginKeeps ==
  ASSUME LandInv, NEW t \in Submitters, pc[t] \in {"guest", "begin"}, Begin(t)
  PROVE  LandInv'
<1>1. /\ pc \in [Threads \cup Waiters -> Places] /\ depth \in [Submitters -> {0, 1}]
      /\ t \in Threads /\ depth[t] = 0 /\ active = Cardinality(Open)
      /\ \A u \in Submitters : depth[u] = IF pc[u] \in {"guest", "begin"} THEN 0 ELSE 1
  BY ThreadFacts DEF LandInv, TypeOK
<1>2. PICK l \in {"inside", "begin"} : Goto(t, l)
  BY DEF Begin
<1>3. TypeOK'
  <2>1. pc' \in [Threads \cup Waiters -> Places]
    BY <1>1, <1>2 DEF Goto, Places
  <2>2. CASE inflight = 0
    <3>1. depth' = [depth EXCEPT ![t] = 1] /\ active' = active + 1 /\ pc' = [pc EXCEPT ![t] = "inside"]
      BY <1>1, <2>2 DEF Begin, Goto
    <3>2. active' = Cardinality(Open')
      BY <1>1, <3>1, OpenGrows DEF LandInv
    <3>3. depth' \in [Submitters -> {0, 1}]
      BY <1>1, <3>1
    <3>4. \A u \in Submitters : depth'[u] = IF pc'[u] \in {"guest", "begin"} THEN 0 ELSE 1
      BY <1>1, <3>1, ThreadFacts
    <3>5. QED
      BY <2>1, <3>2, <3>3, <3>4 DEF LandInv, TypeOK, Begin, guest
  <2>3. CASE inflight # 0
    <3>1. UNCHANGED <<depth, active>> /\ pc' = [pc EXCEPT ![t] = "begin"]
      BY <2>3 DEF Begin, Goto
    <3>2. active' = Cardinality(Open')
      BY <1>1, <3>1 DEF Open
    <3>3. \A u \in Submitters : depth'[u] = IF pc'[u] \in {"guest", "begin"} THEN 0 ELSE 1
      BY <1>1, <3>1, ThreadFacts
    <3>4. QED
      BY <2>1, <3>1, <3>2, <3>3 DEF LandInv, TypeOK, Begin, guest
  <2>4. QED
    BY <2>2, <2>3
<1>4. \A u \in Threads : (pc'[u] = "applying") = (pc[u] = "applying")
  BY <1>1, <1>2 DEF Goto
<1>5. QED
  BY <1>3, <1>4, MovesKeep DEF Begin

\* Leaving it.
LEMMA ScopeEndKeeps ==
  ASSUME LandInv, NEW t \in Submitters, ScopeEnd(t)
  PROVE  LandInv'
<1>1. /\ pc \in [Threads \cup Waiters -> Places] /\ depth \in [Submitters -> {0, 1}]
      /\ t \in Threads /\ pc[t] = "returning" /\ depth[t] = 1 /\ latency \in BOOLEAN
      /\ \A u \in Submitters : depth[u] = IF pc[u] \in {"guest", "begin"} THEN 0 ELSE 1
      /\ active = Cardinality(Open) /\ IsFiniteSet(Open)
  BY ThreadFacts, ConstantsAssumption, FS_Subset DEF LandInv, TypeOK, ScopeEnd, Open
<1>2. active \in Int
  BY <1>1, FS_CardinalityType
<1>3. TypeOK'
  <2>1. depth' = [depth EXCEPT ![t] = 0] /\ active' = active - 1 /\ pc' = [pc EXCEPT ![t] = "guest"]
    BY <1>1 DEF ScopeEnd, Goto
  <2>2. active' = Cardinality(Open')
    BY <1>1, <2>1, OpenShrinks DEF LandInv
  <2>3. /\ pc' \in [Threads \cup Waiters -> Places] /\ depth' \in [Submitters -> {0, 1}]
        /\ latency' \in BOOLEAN
    BY <1>1, <2>1 DEF ScopeEnd, Places
  <2>4. \A u \in Submitters : depth'[u] = IF pc'[u] \in {"guest", "begin"} THEN 0 ELSE 1
    BY <1>1, <2>1, ThreadFacts
  <2>5. QED
    BY <2>2, <2>3, <2>4 DEF LandInv, TypeOK, ScopeEnd, guest
<1>4. \A u \in Threads : (pc'[u] = "applying") = (pc[u] = "applying")
  BY <1>1 DEF ScopeEnd, Goto
<1>5. QED
  BY <1>3, <1>4, MovesKeep DEF ScopeEnd

\* A write joins the queue at its back: it changes no place of another.
LEMMA EnqueueKeeps ==
  ASSUME LandInv, NEW t \in Submitters, Enqueue(t)
  PROVE  LandInv' /\ \E w \in CommandWrites : Order!Issue(w)
<1> DEFINE n == Len(issued)
<1>1. /\ issued \in Seq(CommandWrites) /\ q \in SUBSET DOMAIN issued /\ landed \in SUBSET DOMAIN issued
      /\ batch \in [Threads -> SUBSET DOMAIN issued]
  BY DEF LandInv, TypeOK
<1>2. PICK w \in CommandWrites : issued' = Append(issued, w)
  BY DEF Enqueue
<1>3. /\ n \in Nat /\ DOMAIN issued = 1..n /\ issued' \in Seq(CommandWrites)
      /\ Len(issued') = n + 1 /\ DOMAIN issued' = DOMAIN issued \cup {n + 1}
      /\ n + 1 \notin DOMAIN issued /\ \A i \in DOMAIN issued : issued'[i] = issued[i]
  BY <1>1, <1>2
<1>4. /\ q' = q \cup {n + 1}
      /\ UNCHANGED <<inflight, batch, stage, buffer, active, latency, depth, fold, pc, guest, landed>>
  BY <1>3 DEF Enqueue, scopes
<1>5. TypeOK'
  <2>1. active' = Cardinality(Open')
    BY <1>4 DEF LandInv, TypeOK, Open
  <2>2. q' \in SUBSET DOMAIN issued' /\ landed' \in SUBSET DOMAIN issued'
    BY <1>1, <1>3, <1>4
  <2>3. /\ batch' \in [Threads -> SUBSET DOMAIN issued'] /\ buffer' \in [Threads -> {0} \cup DOMAIN issued']
        /\ mem' \in [Cells -> {0} \cup DOMAIN issued']
    BY <1>3, <1>4 DEF LandInv, TypeOK, guest
  <2>4. expected' \in [Waiters -> [at : Labels \cup {None}, value : {0} \cup DOMAIN issued']]
    <3>1. expected' = expected /\ {0} \cup DOMAIN issued \subseteq {0} \cup DOMAIN issued'
      BY <1>3, <1>4 DEF guest
    <3>2. expected \in [Waiters -> [at : Labels \cup {None}, value : {0} \cup DOMAIN issued]]
      BY DEF LandInv, TypeOK
    <3>3. QED
      BY <3>1, <3>2
  <2>5. QED
    BY <1>3, <1>4, <2>1, <2>2, <2>3, <2>4 DEF LandInv, TypeOK
<1>6. OneInFlight'
  BY <1>4 DEF LandInv, OneInFlight
<1>7. WritesKept'
  <2>1. DOMAIN issued' = q' \cup landed' \cup UNION {batch'[u] : u \in Threads}
    BY <1>3, <1>4 DEF LandInv, WritesKept
  <2>2. q' \cap landed' = {}
    BY <1>1, <1>3, <1>4 DEF LandInv, WritesKept
  <2>3. ASSUME NEW u \in Threads, NEW i \in batch[u]
        PROVE  i \notin q' /\ (i \in landed <=> i = First(batch[u]) /\ buffer[u] = 0)
    BY <1>1, <1>3, <1>4 DEF LandInv, WritesKept
  <2>4. \A u \in Threads : buffer[u] # 0 => buffer[u] = First(batch[u])
    BY DEF LandInv, WritesKept
  <2>5. QED
    BY <1>4, <2>1, <2>2, <2>3, <2>4 DEF WritesKept, First
<1>8. BatchInOrder'
  <2> SUFFICES ASSUME NEW u \in Threads, NEW i \in batch[u], NEW j \in 1..(i - 1),
                      Order!Ordered(issued'[j], issued'[i])
               PROVE  j \in landed \cup batch[u]
    BY <1>4 DEF BatchInOrder, Order!Ordered, Order!CellsOf
  <2>1. i \in DOMAIN issued /\ j \in DOMAIN issued
    BY <1>1, <1>3
  <2>2. Order!Ordered(issued[j], issued[i])
    BY <1>3, <2>1
  <2>3. QED
    BY <2>2 DEF LandInv, BatchInOrder
<1>9. Order!Issue(w)
  BY <1>2, <1>4 DEF Order!Issue
<1>10. QED
  BY <1>5, <1>6, <1>7, <1>8, <1>9 DEF LandInv

\* The renderer takes only writes that nothing queued has to precede.
LEMMA RenderKeeps ==
  ASSUME LandInv, NEW t \in Submitters, Render(t)
  PROVE  LandInv'
<1>1. /\ t \in Threads /\ pc[t] \in {"folding", "render"} /\ issued \in Seq(CommandWrites)
      /\ q \in SUBSET DOMAIN issued /\ buffer \in [Threads -> {0} \cup DOMAIN issued]
      /\ fold \in Submitters \cup {None} /\ TypeOK
      /\ UNCHANGED <<active, latency, depth, fold, guest, issued, landed>>
  BY ThreadFacts DEF LandInv, TypeOK, Render, scopes
<1>2. CASE Sleep(t, "render", asleep, inflight)
  <2>1. "render" \in Places \ {"applying", "guest", "begin"}
    BY DEF Places
  <2>2. QED
    BY <1>1, <1>2, <2>1, SleepKeeps
<1>3. CASE inflight = 0 /\ RendererWrites # {} /\ Take(t, RendererWrites, inflight)
  <2>1. RendererWrites \in SUBSET q
    BY DEF RendererWrites
  <2>2. First(RendererWrites) \in RendererWrites
    BY <1>1, <1>3, <2>1, FirstOfWrites
  <2>3. TypeOK'
    <3>1. /\ buffer' \in [Threads -> {0} \cup DOMAIN issued] /\ q' \in SUBSET DOMAIN issued /\ inflight' = 1
          /\ RendererWrites \in SUBSET DOMAIN issued /\ "applying" \in Places
          /\ fold' \in Submitters \cup {None}
      BY <1>1, <1>3, <2>1, <2>2 DEF Take, Places
    <3>2. QED
      BY <1>1, <1>3, <3>1, LocalStepTypes DEF Take
  <2>4. batch[t] = {} /\ \A u \in Threads : pc[u] # "applying"
    BY <1>1, <1>3, NothingInFlight
  <2>5. ASSUME NEW i \in RendererWrites, NEW j \in 1..(i - 1), Order!Ordered(issued[j], issued[i])
        PROVE  j \notin q
    <3>1. issued[j].fence /\ CellsOf(issued[j]) \cap CellsOf(issued[i]) # {}
      BY <2>5 DEF RendererWrites, Order!Ordered, Order!CellsOf, CellsOf
    <3>2. CellsOf(issued[i]) \cap CompletionCells = {}
      BY DEF RendererWrites
    <3>3. QED
      BY <3>1, <3>2 DEF CompletionCells
  <2>6. QED
    BY <1>1, <1>3, <2>1, <2>3, <2>4, <2>5, TakeKeeps
<1>4. CASE /\ Goto(t, "folding") /\ UNCHANGED <<q, inflight, batch, stage, buffer>>
  <2>1. "folding" \in Places
    BY DEF Places
  <2>2. QED
    BY <1>1, <1>4, <2>1, MoveKeeps
<1>5. QED
  BY <1>2, <1>3, <1>4 DEF Render

\* A guest thread that waits on a label is none of the queue's business.
LEMMA WaiterKeeps ==
  ASSUME LandInv, NEW w \in Waiters, NEW l \in Places, Goto(w, l),
         expected' \in [Waiters -> [at : Labels \cup {None}, value : {0} \cup DOMAIN issued]],
         UNCHANGED <<queue, scopes, mem, issued, landed>>
  PROVE  LandInv'
<1>1. pc \in [Threads \cup Waiters -> Places] /\ pc' = [pc EXCEPT ![w] = l]
  BY DEF LandInv, TypeOK, Goto
<1>2. \A u \in Threads : pc'[u] = pc[u] /\ stage'[u] = stage[u]
  BY <1>1, ThreadFacts DEF queue
<1>3. TypeOK'
  <2>1. \A u \in Submitters : depth'[u] = IF pc'[u] \in {"guest", "begin"} THEN 0 ELSE 1
    BY <1>2, ThreadFacts DEF LandInv, TypeOK, scopes
  <2>2. active' = Cardinality(Open')
    BY DEF LandInv, TypeOK, scopes, Open
  <2>3. pc' \in [Threads \cup Waiters -> Places]
    BY <1>1
  <2>4. QED
    BY <2>1, <2>2, <2>3 DEF LandInv, TypeOK, queue, scopes
<1>4. QED
  BY <1>2, <1>3, MovesKeep DEF queue

LEMMA WaiterStepsKeep ==
  ASSUME LandInv, NEW w \in Waiters, WaitOnAddress(w) \/ CheckLabel(w) \/ TimeOut(w)
  PROVE  LandInv'
<1>1. /\ expected \in [Waiters -> [at : Labels \cup {None}, value : {0} \cup DOMAIN issued]]
      /\ mem \in [Cells -> {0} \cup DOMAIN issued] /\ Labels \subseteq Cells
  BY ConstantsAssumption DEF LandInv, TypeOK
<1>2. CASE WaitOnAddress(w)
  <2>1. PICK l \in Labels : expected' = [expected EXCEPT ![w] = [at |-> l, value |-> mem[l]]]
    BY <1>2 DEF WaitOnAddress
  <2>2. expected' \in [Waiters -> [at : Labels \cup {None}, value : {0} \cup DOMAIN issued]]
    BY <1>1, <2>1
  <2>3. QED
    BY <1>2, <2>2, WaiterKeeps DEF WaitOnAddress, Places
<1>3. CASE Return(w)
  <2>1. expected' \in [Waiters -> [at : Labels \cup {None}, value : {0} \cup DOMAIN issued]]
    BY <1>1, <1>3 DEF Return, NoWait
  <2>2. QED
    BY <1>3, <2>1, WaiterKeeps DEF Return, Places
<1>4. CASE Goto(w, "parked") /\ UNCHANGED <<queue, scopes, eop, guest, issued, landed, open>>
  BY <1>1, <1>4, WaiterKeeps DEF Places, guest
<1>5. QED
  BY <1>2, <1>3, <1>4 DEF CheckLabel, TimeOut

\* The invariant holds at first.
LEMMA InitHolds == Init => LandInv
<1> SUFFICES ASSUME Init PROVE LandInv
  OBVIOUS
<1>1. /\ issued = <<>> /\ DOMAIN issued = {} /\ issued \in Seq(CommandWrites)
  BY DEF Init
<1>2. Open = {} /\ active = Cardinality(Open)
  <2>1. Open = {}
    BY DEF Init, Open
  <2>2. QED
    BY <2>1, FS_EmptySet DEF Init
<1>3. TypeOK
  <2>1. /\ pc \in [Threads \cup Waiters -> Places]
        /\ \A t \in Submitters : depth[t] = IF pc[t] \in {"guest", "begin"} THEN 0 ELSE 1
    BY ThreadFacts DEF Init, Places
  <2>2. expected \in [Waiters -> [at : Labels \cup {None}, value : {0} \cup DOMAIN issued]]
    BY DEF Init, NoWait
  <2>3. /\ q \in SUBSET DOMAIN issued /\ landed \in SUBSET DOMAIN issued /\ inflight \in {0, 1}
        /\ depth \in [Submitters -> {0, 1}] /\ fold \in Submitters \cup {None} /\ latency \in BOOLEAN
        /\ batch \in [Threads -> SUBSET DOMAIN issued]
        /\ stage \in [Threads -> {"none", "stored", "silent"}]
        /\ buffer \in [Threads -> {0} \cup DOMAIN issued] /\ mem \in [Cells -> {0} \cup DOMAIN issued]
    BY DEF Init
  <2>4. QED
    BY <1>1, <1>2, <2>1, <2>2, <2>3 DEF TypeOK
<1>4. \A t \in Threads : pc[t] # "applying" /\ batch[t] = {} /\ stage[t] = "none" /\ buffer[t] = 0
  BY ThreadFacts DEF Init
<1>5. OneInFlight
  BY <1>4 DEF OneInFlight
<1>6. WritesKept
  <2>1. q = {} /\ landed = {} /\ UNION {batch[t] : t \in Threads} = {}
    BY <1>4 DEF Init
  <2>2. QED
    BY <1>1, <1>4, <2>1 DEF WritesKept
<1>7. BatchInOrder
  BY <1>4 DEF BatchInOrder
<1>8. QED
  BY <1>3, <1>5, <1>6, <1>7 DEF LandInv

\* The steps that land nothing, by a thread that has a batch or by none.
LEMMA QuietStepsKeep ==
  ASSUME LandInv,
         \/ Rest \/ EopTake \/ EopPost \/ LatencyOver
         \/ \E t \in Workers : AtGate(t) \/ AtDrain(t)
         \/ \E t \in Submitters : StartFold(t) \/ Reject(t) \/ EndFold(t)
  PROVE  LandInv' /\ UNCHANGED <<issued, landed>>
<1>1. /\ "pend" \in Workers /\ "eop" \in Workers /\ inflight \in {0, 1} /\ fold \in Submitters \cup {None}
      /\ "rest" \in Places /\ "gate" \in Places /\ "folding" \in Places /\ "returning" \in Places
  BY DEF LandInv, TypeOK, Workers, Places
<1>2. CASE Rest
  <2>1. CASE Sleep("pend", "rest", asleep, inflight)
    BY <1>1, <1>2, <2>1, SleepKeeps, ThreadFacts DEF Rest, scopes
  <2>2. CASE Gate("pend")
    BY <1>1, <1>2, <2>2, GateKeeps DEF Rest, scopes
  <2>3. QED
    BY <1>2, <2>1, <2>2 DEF Rest
<1>3. CASE EopTake
  BY <1>1, <1>3, MoveKeeps, ThreadFacts DEF EopTake, queue, scopes
<1>4. CASE EopPost
  <2>1. PICK l \in {"gate", "rest"} : Goto("eop", l)
    BY <1>4 DEF EopPost
  <2>2. QED
    BY <1>1, <1>4, <2>1, MoveKeeps, ThreadFacts DEF EopPost, queue, scopes
<1>5. CASE LatencyOver
  <2>1. active' = Cardinality(Open')
    BY <1>5 DEF LandInv, TypeOK, LatencyOver, Open
  <2>2. TypeOK'
    BY <1>5, <2>1 DEF LandInv, TypeOK, LatencyOver, queue, guest
  <2>3. QED
    BY <1>5, <2>2, MovesKeep DEF LatencyOver, queue
<1>6. ASSUME NEW t \in Workers, AtGate(t) PROVE LandInv' /\ UNCHANGED <<issued, landed>>
  BY <1>6, GateKeeps DEF AtGate, scopes
<1>7. ASSUME NEW t \in Workers, AtDrain(t) PROVE LandInv' /\ UNCHANGED <<issued, landed>>
  BY <1>1, <1>7, DrainKeeps DEF AtDrain, scopes
<1>8. ASSUME NEW t \in Submitters, StartFold(t) PROVE LandInv' /\ UNCHANGED <<issued, landed>>
  BY <1>1, <1>8, MoveKeeps, ThreadFacts DEF StartFold, queue
<1>9. ASSUME NEW t \in Submitters, Reject(t) PROVE LandInv' /\ UNCHANGED <<issued, landed>>
  BY <1>1, <1>9, MoveKeeps, ThreadFacts DEF Reject, queue, scopes
<1>10. ASSUME NEW t \in Submitters, EndFold(t) PROVE LandInv' /\ UNCHANGED <<issued, landed>>
  BY <1>1, <1>10, MoveKeeps, ThreadFacts DEF EndFold, queue
<1>11. QED
  BY <1>2, <1>3, <1>4, <1>5, <1>6, <1>7, <1>8, <1>9, <1>10

\* What a step does to the writes issued and landed.
OrderStep == [Order!Next]_<<issued, landed>>

LEMMA LandingKeeps ==
  ASSUME LandInv, NEW t \in Threads, Applying(t)
  PROVE  LandInv' /\ OrderStep
<1>1. CASE Flush(t)
  <2>1. First(batch[t]) \in DOMAIN issued /\ Order!Land(First(batch[t]))
    BY <1>1, FlushKeeps DEF Order!Land
  <2>2. QED
    BY <1>1, <2>1, FlushKeeps DEF OrderStep, Order!Next
<1>2. CASE WakeLabel(t)
  BY <1>2, WakeKeeps DEF WakeLabel, OrderStep
<1>3. CASE NextOfBatch(t)
  BY <1>3, NextKeeps DEF NextOfBatch, OrderStep
<1>4. CASE Finish(t)
  BY <1>4, FinishKeeps DEF Finish, OrderStep
<1>5. QED
  BY <1>1, <1>2, <1>3, <1>4 DEF Applying

\* Every step keeps the invariant, and is one of OrderedWrites or none.
LEMMA StepKeeps ==
  ASSUME LandInv, [Next]_vars
  PROVE  LandInv' /\ OrderStep
<1>1. ASSUME NEW t \in Threads, Applying(t) PROVE LandInv' /\ OrderStep
  BY <1>1, LandingKeeps
<1>2. ASSUME NEW t \in Submitters, pc[t] \in {"guest", "begin"} /\ Begin(t)
      PROVE  LandInv' /\ OrderStep
  BY <1>2, BeginKeeps DEF Begin, OrderStep
<1>3. ASSUME NEW t \in Submitters, Enqueue(t) PROVE LandInv' /\ OrderStep
  BY <1>3, EnqueueKeeps DEF OrderStep, Order!Next
<1>4. ASSUME NEW t \in Submitters, Render(t) PROVE LandInv' /\ OrderStep
  BY <1>4, RenderKeeps DEF Render, OrderStep
<1>5. ASSUME NEW t \in Submitters, ScopeEnd(t) PROVE LandInv' /\ OrderStep
  BY <1>5, ScopeEndKeeps DEF ScopeEnd, OrderStep
<1>6. CASE \/ Rest \/ EopTake \/ EopPost \/ LatencyOver
           \/ \E t \in Workers : AtGate(t) \/ AtDrain(t)
           \/ \E t \in Submitters : StartFold(t) \/ Reject(t) \/ EndFold(t)
  BY <1>6, QuietStepsKeep DEF OrderStep
<1>7. ASSUME NEW w \in Waiters, WaitOnAddress(w) \/ CheckLabel(w) \/ TimeOut(w)
      PROVE  LandInv' /\ OrderStep
  <2>1. UNCHANGED <<issued, landed>>
    BY <1>7 DEF WaitOnAddress, CheckLabel, TimeOut, Return
  <2>2. QED
    BY <1>7, <2>1, WaiterStepsKeep DEF OrderStep
<1>8. CASE UNCHANGED vars
  <2>1. UNCHANGED <<q, inflight, batch, stage, buffer, pc, active, latency, depth, fold, guest, issued, landed>>
    BY <1>8 DEF vars, queue, scopes
  <2>2. TypeOK'
    <3>1. active' = Cardinality(Open')
      BY <2>1 DEF LandInv, TypeOK, Open
    <3>2. QED
      BY <2>1, <3>1 DEF LandInv, TypeOK, guest
  <2>3. QED
    BY <2>1, <2>2, MovesKeep DEF OrderStep
<1>9. CASE Next
  BY <1>1, <1>2, <1>3, <1>4, <1>5, <1>6, <1>7, <1>9, ThreadFacts DEF Next, Worker, Inside
<1>10. QED
  BY <1>8, <1>9

\* The invariant of the proofs, of every state.
THEOREM LandInvHolds == Spec => []LandInv
<1>1. LandInv /\ [Next]_vars => LandInv'
  BY StepKeeps
<1>2. QED
  BY <1>1, InitHolds, PTL DEF Spec

\* Every variable has its type in every state, and the count of active submits
\* (PendQueue::active_submits) is that of the imports that have not returned.
THEOREM TypeCorrect == Spec => []TypeOK
<1>1. LandInv => TypeOK
  BY DEF LandInv
<1>2. QED
  BY <1>1, LandInvHolds, PTL

\* The queue, the two workers and the renderer implement OrderedWrites: a write
\* lands once, and no completion fence passes a write it shares a cell with,
\* nor is it passed by one, whoever lands them.
THEOREM LandsInOrder == Spec => LandInOrder
<1>1. Init => Order!Init
  BY DEF Init, Order!Init
<1>2. LandInv /\ [Next]_vars => [Order!Next]_<<issued, landed>>
  BY StepKeeps DEF OrderStep
<1>3. QED
  BY <1>1, <1>2, LandInvHolds, PTL DEF Spec, LandInOrder, Order!Spec

\* A step that leaves the end-of-pipe queue alone keeps EventInv, if the worker
\* gets to its post only when everything issued has landed.
LEMMA EventsKept ==
  ASSUME TypeOK, EventInv, UNCHANGED eop, issued' \in Seq(CommandWrites),
         Len(issued) <= Len(issued'), landed \subseteq landed',
         (pc'["eop"] = "rest") = (pc["eop"] = "rest"),
         pc'["eop"] = "posting" => pc["eop"] = "posting" \/ 1..Len(issued) \subseteq landed'
  PROVE  EventInv'
<1>1. /\ pulses' = pulses /\ burst' = burst /\ pulsed' = pulsed /\ posted' = posted
      /\ issued \in Seq(CommandWrites)
  BY DEF eop, TypeOK
<1>2. /\ pulses \in Nat /\ burst \in Nat /\ posted \in Nat /\ pulsed \in Seq(0..Len(issued))
      /\ posted + burst + pulses = Len(pulsed) /\ (pc["eop"] = "rest") = (burst = 0)
      /\ pc["eop"] = "posting" => \A i \in 1..pulsed[posted + 1] : i \in landed
      /\ EventsAfterWrites
  BY DEF EventInv
<1>3. Len(issued) \in Nat /\ Len(issued') \in Nat /\ 0..Len(issued) \subseteq 0..Len(issued')
  BY <1>1
<1>4. pulsed \in Seq(0..Len(issued'))
  BY <1>2, <1>3
<1>5. EventsAfterWrites'
  BY <1>1, <1>2 DEF EventsAfterWrites
<1>6. ASSUME pc'["eop"] = "posting"
      PROVE  \A i \in 1..pulsed'[posted' + 1] : i \in landed'
  <2>1. CASE pc["eop"] = "posting"
    BY <1>1, <1>2, <2>1
  <2>2. CASE 1..Len(issued) \subseteq landed'
    <3>1. burst # 0
      BY <1>2, <1>6
    <3>2. posted + 1 \in 1..Len(pulsed)
      BY <1>2, <3>1
    <3>3. pulsed[posted + 1] \in 0..Len(issued)
      BY <1>2, <3>2
    <3>4. QED
      BY <1>1, <1>3, <2>2, <3>3
  <2>3. QED
    BY <1>6, <2>1, <2>2
<1>7. QED
  BY <1>1, <1>2, <1>4, <1>5, <1>6 DEF EventInv

\* The end-of-pipe worker stops draining only when everything has landed.
LEMMA DrainedLanded ==
  ASSUME LandInv, NEW t \in Workers, NEW sleepers, NEW busy \in {0, 1},
         Drain(t, sleepers, busy), t = "eop" => pc["eop"] # "rest",
         \/ pc[t] # "applying" /\ busy = inflight
         \/ pc[t] = "applying" /\ buffer[t] = 0 /\ batch[t] \subseteq landed /\ busy = 0
  PROVE  /\ (pc'["eop"] = "rest") = (pc["eop"] = "rest")
         /\ pc'["eop"] = "posting" => pc["eop"] = "posting" \/ 1..Len(issued) \subseteq landed
<1>1. /\ pc \in [Threads \cup Waiters -> Places] /\ t \in Threads /\ "eop" \in Threads
      /\ issued \in Seq(CommandWrites) /\ inflight \in {0, 1}
  BY DEF LandInv, TypeOK, Threads, Workers
<1>2. CASE t # "eop"
  BY <1>1, <1>2 DEF Drain, Sleep, Drained, Take, Goto
<1>3. CASE t = "eop"
  <2>1. CASE Sleep(t, "drain", sleepers, busy)
    BY <1>1, <1>3, <2>1 DEF Sleep, Goto
  <2>2. CASE Take(t, {First(q)}, busy)
    BY <1>1, <1>3, <2>2 DEF Take, Goto
  <2>3. CASE busy = 0 /\ q = {} /\ Drained(t, sleepers, busy)
    <3>1. pc'["eop"] = "posting"
      BY <1>1, <1>3, <2>3 DEF Drained, Goto
    <3>2. \A u \in Threads : batch[u] \subseteq landed
      BY <1>1, <2>3 DEF LandInv, OneInFlight
    <3>3. DOMAIN issued \subseteq landed
      BY <2>3, <3>2 DEF LandInv, WritesKept
    <3>4. QED
      BY <1>1, <1>3, <3>1, <3>3
  <2>4. QED
    BY <2>1, <2>2, <2>3 DEF Drain
<1>4. QED
  BY <1>2, <1>3

\* Pulses are counted, taken and posted one by one.
LEMMA PulsesKept ==
  ASSUME TypeOK, EventInv, EopTake \/ EopPost \/ \E t \in Submitters : EndFold(t)
  PROVE  EventInv'
<1>1. /\ pulses \in Nat /\ burst \in Nat /\ posted \in Nat /\ pulsed \in Seq(0..Len(issued))
      /\ posted + burst + pulses = Len(pulsed) /\ (pc["eop"] = "rest") = (burst = 0)
      /\ pc["eop"] = "posting" => \A i \in 1..pulsed[posted + 1] : i \in landed
      /\ EventsAfterWrites
  BY DEF EventInv
<1>2. /\ pc \in [Threads \cup Waiters -> Places] /\ "eop" \in Threads \cup Waiters
      /\ "eop" \notin Submitters /\ issued \in Seq(CommandWrites) /\ Len(issued) \in Nat
  BY ConstantsAssumption DEF TypeOK, Threads, Workers
<1>3. CASE EopTake
  <2>1. /\ burst' = pulses /\ pulses' = 0 /\ pulses > 0 /\ burst = 0 /\ pc["eop"] = "rest"
        /\ pc' = [pc EXCEPT !["eop"] = "gate"] /\ UNCHANGED <<pulsed, posted, issued, landed>>
    BY <1>1, <1>3 DEF EopTake, Goto
  <2>2. EventsAfterWrites'
    BY <1>1, <2>1 DEF EventsAfterWrites
  <2>3. pc'["eop"] = "gate"
    BY <1>2, <2>1
  <2>4. QED
    BY <1>1, <2>1, <2>2, <2>3 DEF EventInv
<1>4. CASE EopPost
  <2>1. /\ pc["eop"] = "posting" /\ posted' = posted + 1 /\ burst' = burst - 1
        /\ pc' = [pc EXCEPT !["eop"] = IF burst' > 0 THEN "gate" ELSE "rest"]
        /\ UNCHANGED <<pulses, pulsed, issued, landed>>
    BY <1>4 DEF EopPost, Goto
  <2>2. burst # 0 /\ burst' \in Nat
    BY <1>1, <2>1
  <2>3. EventsAfterWrites'
    <3>1. ASSUME NEW k \in 1..posted', NEW i \in 1..pulsed[k] PROVE i \in landed
      <4>1. k \in 1..posted \/ k = posted + 1
        BY <1>1, <2>1
      <4>2. QED
        BY <1>1, <2>1, <4>1 DEF EventsAfterWrites
    <3>2. QED
      BY <2>1, <3>1 DEF EventsAfterWrites
  <2>4. pc'["eop"] # "posting" /\ (pc'["eop"] = "rest") = (burst' = 0)
    <3>1. CASE burst' > 0
      BY <1>2, <2>1, <3>1
    <3>2. CASE ~ (burst' > 0)
      <4>1. burst' = 0
        BY <2>2, <3>2
      <4>2. pc'["eop"] = "rest"
        BY <1>2, <2>1, <3>2
      <4>3. QED
        BY <4>1, <4>2
    <3>3. QED
      BY <3>1, <3>2
  <2>5. QED
    BY <1>1, <2>1, <2>2, <2>3, <2>4 DEF EventInv
<1>5. ASSUME NEW t \in Submitters, EndFold(t) PROVE EventInv'
  <2>1. pc'["eop"] = pc["eop"] /\ UNCHANGED <<burst, posted, issued, landed>>
    BY <1>2, <1>5 DEF EndFold, Goto
  <2>2. CASE pulses' = pulses + 1 /\ pulsed' = Append(pulsed, Len(issued))
    <3>1. /\ pulsed' \in Seq(0..Len(issued)) /\ Len(pulsed') = Len(pulsed) + 1
          /\ \A k \in 1..Len(pulsed) : pulsed'[k] = pulsed[k]
      BY <1>1, <1>2, <2>2
    <3>2. EventsAfterWrites'
      <4>1. \A k \in 1..posted : pulsed'[k] = pulsed[k]
        <5>1. posted + burst + pulses = Len(pulsed) /\ posted \in Nat /\ burst \in Nat /\ pulses \in Nat
          BY <1>1
        <5>2. Len(pulsed) \in Nat /\ posted <= Len(pulsed)
          BY <5>1
        <5>3. \A k \in 1..posted : k \in 1..Len(pulsed)
          BY <5>1, <5>2
        <5>4. QED
          BY <3>1, <5>3
      <4>2. QED
        BY <1>1, <2>1, <4>1 DEF EventsAfterWrites
    <3>3. pc["eop"] = "posting" => posted + 1 \in 1..Len(pulsed)
      BY <1>1
    <3>4. QED
      BY <1>1, <2>1, <2>2, <3>1, <3>2, <3>3 DEF EventInv
  <2>3. CASE UNCHANGED <<pulses, pulsed>>
    <3>1. EventsAfterWrites'
      BY <1>1, <2>1, <2>3 DEF EventsAfterWrites
    <3>2. QED
      BY <1>1, <2>1, <2>3, <3>1 DEF EventInv
  <2>4. QED
    BY <1>5, <2>2, <2>3 DEF EndFold
<1>6. QED
  BY <1>3, <1>4, <1>5

\* The steps that neither issue nor land a write, as the end-of-pipe worker sees
\* them: its place changes only when it drains.
LEMMA WorkersKeepEvents ==
  ASSUME LandInv, EventInv, NEW t \in Workers,
         AtGate(t) \/ AtDrain(t) \/ Finish(t) \/ (t = "pend" /\ Rest)
  PROVE  EventInv'
<1>1. /\ pc \in [Threads \cup Waiters -> Places] /\ t \in Threads /\ t \notin Submitters
      /\ "eop" \in Threads /\ issued \in Seq(CommandWrites) /\ inflight \in {0, 1} /\ TypeOK
      /\ batch \in [Threads -> SUBSET DOMAIN issued]
  BY ThreadFacts DEF LandInv, TypeOK, Threads, Workers
<1>2. UNCHANGED <<eop, issued, landed>>
  BY DEF AtGate, AtDrain, Finish, Rest
<1>3. SUFFICES /\ (pc'["eop"] = "rest") = (pc["eop"] = "rest")
               /\ pc'["eop"] = "posting" => pc["eop"] = "posting" \/ 1..Len(issued) \subseteq landed
  BY <1>1, <1>2, EventsKept
<1>4. ASSUME NEW l \in {"rest", "gate", "latency"}, Sleep(t, l, asleep, inflight),
             t = "eop" => l # "rest" /\ pc["eop"] # "rest"
      PROVE  /\ (pc'["eop"] = "rest") = (pc["eop"] = "rest")
             /\ pc'["eop"] = "posting" => pc["eop"] = "posting"
  BY <1>1, <1>4 DEF Sleep, Goto
<1>5. ASSUME Gate(t), t = "eop" => pc["eop"] # "rest", pc[t] # "applying"
      PROVE  /\ (pc'["eop"] = "rest") = (pc["eop"] = "rest")
             /\ pc'["eop"] = "posting" => pc["eop"] = "posting" \/ 1..Len(issued) \subseteq landed
  <2>1. CASE Sleep(t, "gate", asleep, inflight) \/ Sleep(t, "latency", asleep, inflight)
    BY <1>4, <1>5, <2>1
  <2>2. CASE Drain(t, asleep, inflight)
    BY <1>1, <1>5, <2>2, DrainedLanded
  <2>3. QED
    BY <1>5, <2>1, <2>2 DEF Gate
<1>6. CASE AtGate(t)
  BY <1>5, <1>6 DEF AtGate
<1>7. CASE AtDrain(t)
  BY <1>1, <1>7, DrainedLanded DEF AtDrain
<1>8. CASE Finish(t)
  <2>1. /\ pc[t] = "applying" /\ batch[t] # {} /\ inflight = 1 /\ buffer[t] = 0
        /\ batch[t] = {First(batch[t])} /\ Drain(t, {}, inflight - 1)
    BY <1>1, <1>8 DEF LandInv, OneInFlight, Finish
  <2>2. First(batch[t]) \in landed
    BY <1>1, <2>1, FirstOfWrites DEF LandInv, WritesKept
  <2>3. batch[t] \subseteq landed /\ inflight - 1 = 0 /\ inflight - 1 \in {0, 1}
    BY <2>1, <2>2
  <2>4. QED
    BY <2>1, <2>3, DrainedLanded
<1>9. CASE t = "pend" /\ Rest
  <2>1. CASE Sleep(t, "rest", asleep, inflight)
    BY <1>4, <1>9, <2>1
  <2>2. CASE Gate(t)
    BY <1>5, <1>9, <2>2 DEF Rest
  <2>3. QED
    BY <1>9, <2>1, <2>2 DEF Rest
<1>10. QED
  BY <1>6, <1>7, <1>8, <1>9

LEMMA OthersKeepEvents ==
  ASSUME LandInv, LandInv', EventInv,
         \/ LatencyOver
         \/ \E t \in Threads : Flush(t) \/ WakeLabel(t) \/ NextOfBatch(t)
         \/ \E t \in Submitters :
              \/ Begin(t) \/ StartFold(t) \/ Enqueue(t) \/ Render(t) \/ ScopeEnd(t)
              \/ Finish(t) \/ Reject(t)
         \/ \E w \in Waiters : WaitOnAddress(w) \/ CheckLabel(w) \/ TimeOut(w)
         \/ UNCHANGED vars
  PROVE  EventInv'
<1>1. /\ pc \in [Threads \cup Waiters -> Places] /\ "eop" \in Threads /\ "eop" \notin Submitters
      /\ "eop" \notin Waiters /\ issued \in Seq(CommandWrites) /\ issued' \in Seq(CommandWrites)
      /\ "eop" \in Workers /\ TypeOK
  BY ConstantsAssumption DEF LandInv, TypeOK, Threads, Workers
<1>2. SUFFICES /\ UNCHANGED eop /\ Len(issued) <= Len(issued') /\ landed \subseteq landed'
               /\ pc'["eop"] = pc["eop"]
  BY <1>1, EventsKept
<1>3. CASE LatencyOver \/ UNCHANGED vars
  BY <1>1, <1>3 DEF LatencyOver, vars
<1>4. ASSUME NEW t \in Threads, Flush(t) \/ WakeLabel(t) \/ NextOfBatch(t)
      PROVE  /\ UNCHANGED <<eop, issued>> /\ landed \subseteq landed' /\ pc'["eop"] = pc["eop"]
  BY <1>1, <1>4 DEF Flush, WakeLabel, NextOfBatch, ParkedOn
<1>5. ASSUME NEW t \in Submitters, Enqueue(t)
      PROVE  UNCHANGED <<eop, landed, pc>> /\ Len(issued) <= Len(issued')
  <2>1. PICK w \in CommandWrites : issued' = Append(issued, w)
    BY <1>5 DEF Enqueue
  <2>2. QED
    BY <1>1, <1>5, <2>1 DEF Enqueue
<1>6. ASSUME NEW t \in Submitters,
             Begin(t) \/ StartFold(t) \/ Render(t) \/ ScopeEnd(t) \/ Finish(t) \/ Reject(t)
      PROVE  UNCHANGED <<eop, issued, landed>> /\ pc'["eop"] = pc["eop"]
  <2>1. UNCHANGED <<eop, issued, landed>>
    BY <1>6 DEF Begin, StartFold, Render, ScopeEnd, Finish, Reject
  <2>2. \E l \in Places : Goto(t, l)
    <3>1. t \notin Workers
      BY ThreadFacts
    <3>2. QED
      BY <1>6, <3>1 DEF Begin, StartFold, Render, ScopeEnd, Finish, Reject, Sleep, Take, Places
  <2>3. QED
    BY <1>1, <2>1, <2>2 DEF Goto
<1>7. ASSUME NEW w \in Waiters, WaitOnAddress(w) \/ CheckLabel(w) \/ TimeOut(w)
      PROVE  UNCHANGED <<eop, issued, landed>> /\ pc'["eop"] = pc["eop"]
  BY <1>1, <1>7 DEF WaitOnAddress, CheckLabel, TimeOut, Return, Goto
<1>8. QED
  BY <1>1, <1>3, <1>4, <1>5, <1>6, <1>7

LEMMA EventStep ==
  ASSUME LandInv, LandInv', EventInv, [Next]_vars
  PROVE  EventInv'
<1>1. TypeOK
  BY DEF LandInv
<1>2. CASE EopTake \/ EopPost \/ \E t \in Submitters : EndFold(t)
  BY <1>1, <1>2, PulsesKept
<1>3. CASE \E t \in Workers : AtGate(t) \/ AtDrain(t) \/ Finish(t) \/ (t = "pend" /\ Rest)
  BY <1>3, WorkersKeepEvents
<1>4. CASE \/ LatencyOver
           \/ \E t \in Threads : Flush(t) \/ WakeLabel(t) \/ NextOfBatch(t)
           \/ \E t \in Submitters :
                \/ Begin(t) \/ StartFold(t) \/ Enqueue(t) \/ Render(t) \/ ScopeEnd(t)
                \/ Finish(t) \/ Reject(t)
           \/ \E w \in Waiters : WaitOnAddress(w) \/ CheckLabel(w) \/ TimeOut(w)
           \/ UNCHANGED vars
  BY <1>4, OthersKeepEvents
<1>5. QED
  <2>1. "pend" \in Workers
    BY DEF Workers
  <2>2. QED
    BY <1>2, <1>3, <1>4, <2>1, ThreadFacts DEF Next, Worker, Inside, Applying

\* When the guest takes an end-of-pipe event, every write queued before the
\* pulse was fired is in memory (eop_worker drains before it posts).
THEOREM EventsFollowWrites == Spec => []EventsAfterWrites
<1>1. Init => EventInv
  <2> SUFFICES ASSUME Init PROVE EventInv
    OBVIOUS
  <2>1. pc["eop"] = "rest"
    BY DEF Init, Threads, Workers
  <2>2. pulses = 0 /\ burst = 0 /\ posted = 0 /\ pulsed = <<>> /\ issued = <<>>
    BY DEF Init
  <2>3. EventsAfterWrites
    BY <2>2 DEF EventsAfterWrites
  <2>4. QED
    BY <2>1, <2>2, <2>3 DEF EventInv
<1>2. LandInv /\ LandInv' /\ EventInv /\ [Next]_vars => EventInv'
  BY EventStep
<1>3. EventInv => EventsAfterWrites
  BY DEF EventInv
<1>4. QED
  BY <1>1, <1>2, <1>3, LandInvHolds, PTL DEF Spec

=============================================================================
