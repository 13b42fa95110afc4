---------------------------- MODULE EqueueProofs ----------------------------
(***************************************************************************)
(* Safety of the event queues for every number of threads, queues, timers  *)
(* and registrations, and any cap.  Two invariants carry it: EqueueInv, on *)
(* what posts a thread may have to make and on an address, which is not    *)
(* used again while a reference to what was there is held; and AllSettled, *)
(* on where the completions and expirations are that a queue is owed.      *)
(***************************************************************************)
EXTENDS Equeue, FiniteSetTheorems, SequenceTheorems, TLAPS

\* Completions are kept apart; everything else may be merged.
Counts == {"tag", "eop"}
Kept(e) == e.distinct <=> e.key \in Counts

PostType == [eq : Handles, identity : {0} \cup Identities, event : Event]
QueueType == [ready : Seq(Event), coalescible : Nat, deleted : BOOLEAN]
TimerPlace == {"unused", "asleep", "posting", "stopping", "done"}
TimerType == [eq : Handles \cup {None}, periodic : BOOLEAN, cancelled : BOOLEAN,
              at : TimerPlace, meant : {0} \cup Identities]
ReadType == [identity : {0} \cup Identities, at : {"unused", "asleep", "posted"}]
TakenType == [tags : SUBSET Nat, eop : Nat, expired : Nat]
OwedType == [tags : SUBSET Nat, eop : Nat, expired : Nat, shed : Nat]

Types ==
  /\ table \in [Handles -> {0} \cup Identities]
  /\ at \in [Identities -> Handles \cup {None}]
  /\ queue \in [Identities -> QueueType]
  /\ regs \in [Sources -> Seq(Handles)]
  /\ pc \in [Threads -> {"idle", "deleting", "locking", "asleep"}]
  /\ timed \in [Threads -> BOOLEAN]
  /\ todo \in [Posters -> Seq(PostType)]
  /\ held \in [Posters -> {0} \cup Identities]
  /\ timer \in [Timers -> TimerType]
  /\ timerOf \in [Handles -> Timers \cup {None}]
  /\ eopPending \in Nat /\ burst \in Nat
  /\ pq \in Seq(PostType)
  /\ hwm \in [Identities -> Nat]
  /\ read \in [Reads -> ReadType]
  /\ work \in Nat
  /\ taken \in [Identities -> TakenType]
  /\ owed \in [Identities -> OwedType]

\* A well formed queue, with its completions apart.
WellKept(s) ==
  s \in QueueType /\ QueueOK(s) /\ \A k \in DOMAIN s.ready : Kept(s.ready[k])
Queues == \A i \in Identities : WellKept(queue[i])

\* A thread in a handler posts nothing and has a queue; a post in progress has
\* the queue it found.
Holding ==
  /\ \A t \in Threads : pc[t] # "idle" => todo[t] = <<>> /\ held[t] # 0
  /\ \A p \in Posters : held[p] # 0 /\ todo[p] = <<>> => p \in Threads /\ pc[p] # "idle"
  /\ \A p \in Posters : held[p] # 0 /\ todo[p] # <<>> =>
       /\ Head(todo[p]).eq = at[held[p]]
       /\ Head(todo[p]).identity \in {0, held[p]}

\* What each thread may have to post.
Fits(p, q) ==
  /\ q.identity = 0 \/ at[q.identity] = q.eq
  /\ Kept(q.event)
  /\ q.event.key = "tag" <=> p = "ptr"
  /\ p = "ptr" => q.identity # 0
  /\ p = "eop" => q.event.key = "eop" /\ q.identity = 0
Posts ==
  /\ \A p \in Posters : \A k \in DOMAIN todo[p] : Fits(p, todo[p][k])
  /\ \A k \in DOMAIN pq : Fits("ptr", pq[k])
  /\ \A k \in Reads : todo[k] # <<>> => read[k].at = "posted"

TimerPosts ==
  \A k \in Timers :
    /\ timer[k].at \in {"asleep", "posting"} =>
         timer[k].meant # 0 /\ timer[k].eq \in Handles /\ at[timer[k].meant] = timer[k].eq
    /\ timer[k].at = "unused" => timer[k].meant = 0
    /\ todo[k] # <<>> =>
         /\ timer[k].at = "posting" /\ Len(todo[k]) = 1
         /\ Head(todo[k]).eq = timer[k].eq /\ Head(todo[k]).identity = 0
         /\ Head(todo[k]).event.key \in Clocks /\ Head(todo[k]).event.data = 1

\* A handle names the queue that is there; no address is used again while a
\* thread has a reference to what was there; a deleted queue has no handle.
Addresses ==
  /\ \A h \in Handles : table[h] # 0 => at[table[h]] = h
  /\ \A p \in Posters : held[p] # 0 =>
       at[held[p]] # None /\ table[at[held[p]]] \in {0, held[p]}
  /\ \A t \in Threads : pc[t] = "deleting" => ~Bound(held[t])
  /\ \A i \in Identities : queue[i].deleted => i \in Created /\ ~Bound(i)
  /\ \A k \in Reads : read[k].at = "asleep" => read[k].identity \in Created

\* Nothing has happened to a queue that is not yet created.
Fresh ==
  \A i \in Identities \ Created :
    /\ queue[i] = Empty
    /\ taken[i] = [tags |-> {}, eop |-> 0, expired |-> 0]
    /\ owed[i] = [tags |-> {}, eop |-> 0, expired |-> 0, shed |-> 0]

\* The tags given out so far.
Numbered == \A i \in Identities : \A n \in owed[i].tags : n <= work

EqueueInv ==
  Types /\ Queues /\ Holding /\ Posts /\ TimerPosts /\ Addresses /\ Fresh /\ Numbered

-----------------------------------------------------------------------------
(***************************************************************************)
(* Sets of positions.                                                      *)
(***************************************************************************)
LEMMA LeastExists ==
  ASSUME NEW K \in SUBSET Nat, K # {}
  PROVE  \E x \in K : \A y \in K : x <= y
<1>1. PICK x \in K : \A y \in K : ~(<<y, x>> \in OpToRel(<, Nat))
  BY NatLessThanWellFounded, WFMin
<1>2. \A y \in K : ~(y < x)
  BY <1>1 DEF OpToRel
<1>3. QED
  BY <1>2

LEMMA OldestIs ==
  ASSUME NEW K \in SUBSET Nat, K # {}
  PROVE  Oldest(K) \in K /\ \A y \in K : Oldest(K) <= y
BY LeastExists DEF Oldest

\* The position an entry had before the one at v was taken out.
Was(v, k) == IF k < v THEN k ELSE k + 1

LEMMA RemovedAt ==
  ASSUME NEW S, NEW s \in Seq(S), NEW v \in 1 .. Len(s)
  PROVE  /\ RemoveAt(s, v) \in Seq(S) /\ Len(RemoveAt(s, v)) = Len(s) - 1
         /\ \A k \in 1 .. Len(s) - 1 : RemoveAt(s, v)[k] = s[Was(v, k)]
<1> DEFINE a == SubSeq(s, 1, v - 1)
           b == SubSeq(s, v + 1, Len(s))
<1>1. Len(s) \in Nat /\ \A k \in 1 .. Len(s) : s[k] \in S
  BY LenProperties, ElementOfSeq
<1>2. a \in Seq(S) /\ Len(a) = v - 1 /\ \A k \in 1 .. v - 1 : a[k] = s[k]
  BY <1>1, SubSeqProperties
<1>3. b \in Seq(S) /\ Len(b) = Len(s) - v /\ \A k \in 1 .. Len(s) - v : b[k] = s[v + k]
  <2>1. \A k \in v + 1 .. Len(s) : s[k] \in S
    BY <1>1
  <2>2. /\ b \in Seq(S) /\ Len(b) = IF v + 1 <= Len(s) THEN Len(s) - (v + 1) + 1 ELSE 0
        /\ \A k \in 1 .. Len(s) - (v + 1) + 1 : b[k] = s[v + 1 + k - 1]
    BY <1>1, <2>1, SubSeqProperties
  <2>3. QED
    BY <1>1, <2>2
<1>4. /\ a \o b \in Seq(S) /\ Len(a \o b) = Len(a) + Len(b)
      /\ \A k \in 1 .. Len(a) + Len(b) : (a \o b)[k] = IF k <= Len(a) THEN a[k] ELSE b[k - Len(a)]
  BY <1>2, <1>3, ConcatProperties
<1>5. RemoveAt(s, v) = a \o b
  BY DEF RemoveAt
<1> HIDE DEF a, b
<1>6. Len(a) + Len(b) = Len(s) - 1
  BY <1>1, <1>2, <1>3
<1>7. ASSUME NEW k \in 1 .. Len(s) - 1 PROVE (a \o b)[k] = s[Was(v, k)]
  <2>1. CASE k < v
    BY <1>1, <1>2, <1>4, <1>6, <2>1 DEF Was
  <2>2. CASE ~(k < v)
    <3>1. k - Len(a) \in 1 .. Len(s) - v /\ v + (k - Len(a)) = k + 1
      BY <1>1, <1>2, <2>2
    <3>2. (a \o b)[k] = b[k - Len(a)]
      BY <1>1, <1>2, <1>4, <1>6, <2>2
    <3>3. QED
      BY <1>3, <2>2, <3>1, <3>2 DEF Was
  <2>3. QED
    BY <2>1, <2>2
<1>8. QED
  BY <1>4, <1>5, <1>6, <1>7

LEMMA PositionsFinite ==
  ASSUME NEW n \in Nat, NEW P \in SUBSET (1 .. n)
  PROVE  IsFiniteSet(P) /\ Cardinality(P) \in Nat
<1>1. IsFiniteSet(1 .. n)
  BY FS_Interval
<1>2. QED
  BY <1>1, FS_Subset, FS_CardinalityType

\* Taking the entry at v out leaves the others of a kind.
LEMMA Shifted ==
  ASSUME NEW n \in Nat, NEW P \in SUBSET (1 .. n), NEW v \in 1 .. n
  PROVE  Cardinality({k \in 1 .. n - 1 : Was(v, k) \in P}) = Cardinality(P \ {v})
<1> DEFINE Q == {k \in 1 .. n - 1 : Was(v, k) \in P}
           f == [k \in Q |-> Was(v, k)]
<1>1. f \in [Q -> P \ {v}]
  BY DEF Was
<1>2. \A j, k \in Q : f[j] = f[k] => j = k
  BY DEF Was
<1>3. ASSUME NEW p \in P \ {v} PROVE \E k \in Q : f[k] = p
  <2>1. CASE p < v
    <3>1. p \in Q /\ f[p] = p
      BY <2>1 DEF Was
    <3>2. QED
      BY <3>1
  <2>2. CASE ~(p < v)
    <3>1. p - 1 \in Q /\ f[p - 1] = p
      BY <2>2 DEF Was
    <3>2. QED
      BY <3>1
  <2>3. QED
    BY <2>1, <2>2
<1>4. f \in Bijection(Q, P \ {v})
  BY <1>1, <1>2, <1>3 DEF Bijection, Injection, Surjection, IsInjective
<1>5. IsFiniteSet(Q)
  <2>1. Q \in SUBSET (1 .. n)
    OBVIOUS
  <2>2. QED
    BY <2>1, PositionsFinite
<1>6. QED
  BY <1>4, <1>5, FS_Bijection DEF ExistsBijection

\* Cutting a sequence after m splits its positions.
LEMMA Cut ==
  ASSUME NEW n \in Nat, NEW P \in SUBSET (1 .. n), NEW m \in 0 .. n
  PROVE  Cardinality(P) = Cardinality({k \in P : k <= m})
                            + Cardinality({k \in 1 .. n - m : k + m \in P})
<1> DEFINE A == {k \in P : k <= m}
           B == {k \in P : m < k}
           Q == {k \in 1 .. n - m : k + m \in P}
           f == [k \in Q |-> k + m]
<1>1. f \in [Q -> B] /\ \A j, k \in Q : f[j] = f[k] => j = k
  OBVIOUS
<1>2. ASSUME NEW p \in B PROVE \E k \in Q : f[k] = p
  <2>1. p - m \in Q /\ f[p - m] = p
    OBVIOUS
  <2>2. QED
    BY <2>1
<1>3. f \in Bijection(Q, B)
  BY <1>1, <1>2 DEF Bijection, Injection, Surjection, IsInjective
<1>4. IsFiniteSet(Q) /\ IsFiniteSet(A) /\ IsFiniteSet(B) /\ Cardinality(A) \in Nat
      /\ Cardinality(B) \in Nat
  <2>1. A \in SUBSET (1 .. n) /\ B \in SUBSET (1 .. n)
    OBVIOUS
  <2>2. Q \in SUBSET (1 .. n - m) /\ n - m \in Nat
    OBVIOUS
  <2>3. IsFiniteSet(Q)
    BY <2>2, PositionsFinite
  <2>4. IsFiniteSet(A) /\ Cardinality(A) \in Nat
    BY <2>1, PositionsFinite
  <2>5. IsFiniteSet(B) /\ Cardinality(B) \in Nat
    BY <2>1, PositionsFinite
  <2>6. QED
    BY <2>3, <2>4, <2>5
<1>5. Cardinality(B) = Cardinality(Q)
  BY <1>3, <1>4, FS_Bijection DEF ExistsBijection
<1>6. P = A \cup B /\ A \cap B = {}
  <2>1. \A p \in P : p \in Int
    OBVIOUS
  <2>2. m \in Int
    OBVIOUS
  <2>3. \A p \in P : (p <= m \/ m < p) /\ ~(p <= m /\ m < p)
    BY <2>1, <2>2
  <2>4. QED
    BY <2>3
<1>7. Cardinality(P) = Cardinality(A) + Cardinality(B) - 0
  BY <1>4, <1>6, FS_Union, FS_EmptySet
<1>8. QED
  BY <1>4, <1>5, <1>7

-----------------------------------------------------------------------------
(***************************************************************************)
(* One queue: what a post and a wait do to its entries.                    *)
(***************************************************************************)
\* The tags come out in the order of their numbers.
Ascending(r) == \A j, k \in OfKey(r, "tag") : j < k => r[j].data < r[k].data

LEMMA Reading ==
  ASSUME NEW S, NEW r \in Seq(S)
  PROVE  Len(r) \in Nat /\ DOMAIN r = 1 .. Len(r) /\ \A k \in 1 .. Len(r) : r[k] \in S
BY LenProperties, ElementOfSeq

LEMMA Entered ==
  ASSUME NEW S, NEW r \in Seq(S), NEW e \in S
  PROVE  /\ Append(r, e) \in Seq(S) /\ Len(Append(r, e)) = Len(r) + 1
         /\ \A k \in 1 .. Len(r) : Append(r, e)[k] = r[k]
         /\ Append(r, e)[Len(r) + 1] = e
BY AppendProperties

LEMMA Mergeable ==
  ASSUME NEW s, WellKept(s)
  PROVE  /\ Coalescible(s) \in SUBSET (1 .. Len(s.ready)) /\ IsFiniteSet(Coalescible(s))
         /\ s.coalescible = Cardinality(Coalescible(s))
         /\ s.ready \in Seq(Event) /\ s.coalescible \in Nat /\ s.deleted \in BOOLEAN
<1>1. s.ready \in Seq(Event) /\ s.coalescible \in Nat /\ s.deleted \in BOOLEAN
  BY DEF WellKept, QueueType
<1>2. Coalescible(s) \in SUBSET (1 .. Len(s.ready)) /\ Len(s.ready) \in Nat
  BY <1>1, Reading DEF Coalescible
<1>3. QED
  BY <1>1, <1>2, PositionsFinite DEF WellKept, QueueOK

LEMMA QueueChanged ==
  ASSUME NEW s \in QueueType, NEW x \in Seq(Event), NEW y \in Nat
  PROVE  [s EXCEPT !.ready = x, !.coalescible = y] \in QueueType
BY DEF QueueType

LEMMA PushedKeeps ==
  ASSUME NEW s, WellKept(s), NEW e \in Event, Kept(e),
         ~e.distinct => SameKnote(s, e) = {} /\ s.coalescible < Cap
  PROVE  /\ WellKept(Pushed(s, e))
         /\ Pushed(s, e).ready = Append(s.ready, e) /\ Pushed(s, e).deleted = s.deleted
<1> DEFINE q == Pushed(s, e)
           n == Len(s.ready)
           C == Coalescible(s)
<1>1. /\ s.ready \in Seq(Event) /\ s.coalescible \in Nat /\ s.deleted \in BOOLEAN
      /\ s \in QueueType /\ n \in Nat /\ DOMAIN s.ready = 1 .. n
      /\ C \in SUBSET (1 .. n) /\ IsFiniteSet(C) /\ s.coalescible = Cardinality(C)
      /\ s.coalescible <= Cap
  BY Mergeable, Reading DEF WellKept, QueueType, QueueOK
<1>2. e.distinct \in BOOLEAN
  BY DEF Event
<1>4. /\ Append(s.ready, e) \in Seq(Event) /\ DOMAIN Append(s.ready, e) = 1 .. n + 1
      /\ \A k \in 1 .. n : Append(s.ready, e)[k] = s.ready[k]
      /\ Append(s.ready, e)[n + 1] = e
  BY <1>1, Entered, Reading
<1>5. /\ q.ready = Append(s.ready, e) /\ q.deleted = s.deleted
      /\ q.coalescible = s.coalescible + (IF e.distinct THEN 0 ELSE 1)
  <2>1. q.ready = Append(s.ready, e)
    BY <1>1 DEF Pushed, QueueType
  <2>2. q.deleted = s.deleted
    BY <1>1 DEF Pushed, QueueType
  <2>3. q.coalescible = s.coalescible + (IF e.distinct THEN 0 ELSE 1)
    BY <1>1 DEF Pushed, QueueType
  <2>4. QED
    BY <2>1, <2>2, <2>3
<1>6. q \in QueueType
  <2> DEFINE x == Append(s.ready, e)
             y == s.coalescible + (IF e.distinct THEN 0 ELSE 1)
  <2>1. x \in Seq(Event) /\ y \in Nat
    BY <1>1, <1>4
  <2>2. q = [s EXCEPT !.ready = x, !.coalescible = y]
    BY DEF Pushed
  <2> HIDE DEF x, y
  <2>3. [s EXCEPT !.ready = x, !.coalescible = y] \in QueueType
    BY <1>1, <2>1, QueueChanged
  <2>4. QED
    BY <2>2, <2>3
<1> HIDE DEF q
<1>7. \A k \in DOMAIN q.ready : k \in 1 .. n \/ k = n + 1
  BY <1>1, <1>4, <1>5
<1>8. \A k \in DOMAIN q.ready : q.ready[k] \in Event /\ Kept(q.ready[k])
  <2>1. ASSUME NEW k \in DOMAIN q.ready PROVE q.ready[k] \in Event /\ Kept(q.ready[k])
    <3>1. CASE k \in 1 .. n
      BY <1>1, <1>4, <1>5, <3>1, Reading DEF WellKept
    <3>2. CASE k = n + 1
      BY <1>4, <1>5, <3>2
    <3>3. QED
      BY <1>7, <2>1, <3>1, <3>2
  <2>2. QED
    BY <2>1
<1>9. Coalescible(q) = IF e.distinct THEN C ELSE C \cup {n + 1}
  <2>1. \A k \in 1 .. n : q.ready[k] = s.ready[k] /\ k \in DOMAIN q.ready /\ k \in DOMAIN s.ready
    BY <1>1, <1>4, <1>5
  <2>2. n + 1 \in DOMAIN q.ready /\ q.ready[n + 1] = e /\ n + 1 \notin DOMAIN s.ready
    BY <1>1, <1>4, <1>5
  <2>3. QED
    BY <1>1, <1>2, <1>7, <2>1, <2>2 DEF Coalescible
<1>10. q.coalescible = Cardinality(Coalescible(q)) /\ q.coalescible <= Cap
  <2>1. CASE e.distinct
    BY <1>1, <1>5, <1>9, <2>1
  <2>2. CASE ~e.distinct
    <3>1. n + 1 \notin C
      BY <1>1
    <3>2. Cardinality(C \cup {n + 1}) = Cardinality(C) + 1
      BY <1>1, <3>1, FS_AddElement
    <3>3. QED
      BY <1>1, <1>5, <1>9, <2>2, <3>2, ConstantsAssumption
  <2>3. QED
    BY <2>1, <2>2
<1>11. ASSUME NEW j \in Coalescible(q), NEW k \in Coalescible(q), q.ready[j].key = q.ready[k].key
       PROVE j = k
  <2>1. \A i \in C : q.ready[i] = s.ready[i]
    BY <1>1, <1>4, <1>5
  <2>2. \A i \in C : ~e.distinct => s.ready[i].key # e.key
    BY DEF SameKnote
  <2>3. q.ready[n + 1] = e
    BY <1>4, <1>5
  <2>4. CASE j \in C /\ k \in C
    BY <1>11, <2>1, <2>4 DEF WellKept, QueueOK
  <2>5. QED
    BY <1>9, <1>11, <2>1, <2>2, <2>3, <2>4
<1>12. QueueOK(q)
  BY <1>1, <1>5, <1>8, <1>10, <1>11 DEF QueueOK
<1>13. QED
  BY <1>5, <1>6, <1>8, <1>12 DEF WellKept, q

LEMMA ShedKeeps ==
  ASSUME NEW s, WellKept(s), NEW e \in Event, ~e.distinct, s.coalescible >= Cap
  PROVE  LET v == Oldest(Coalescible(s))
             q == Shed(s, e)
         IN  /\ v \in Coalescible(s)
             /\ WellKept(q) /\ q.ready = RemoveAt(s.ready, v) /\ q.coalescible < Cap
             /\ q.deleted = s.deleted
             /\ SameKnote(s, e) = {} => SameKnote(q, e) = {}
<1> DEFINE v == Oldest(Coalescible(s))
           q == Shed(s, e)
           n == Len(s.ready)
           C == Coalescible(s)
<1>1. /\ s.ready \in Seq(Event) /\ s.coalescible \in Nat /\ s.deleted \in BOOLEAN
      /\ s \in QueueType /\ n \in Nat /\ DOMAIN s.ready = 1 .. n
      /\ C \in SUBSET (1 .. n) /\ IsFiniteSet(C) /\ s.coalescible = Cardinality(C)
      /\ s.coalescible <= Cap /\ \A k \in 1 .. n : s.ready[k] \in Event /\ Kept(s.ready[k])
  BY Mergeable, Reading DEF WellKept, QueueType, QueueOK
<1>2. C # {}
  BY <1>1, FS_EmptySet, ConstantsAssumption
<1>3. v \in C
  BY <1>1, <1>2, OldestIs
<1>4. v \in 1 .. n
  BY <1>1, <1>3
<1> HIDE DEF v
<1>5. q = [ready |-> RemoveAt(s.ready, v), coalescible |-> s.coalescible - 1, deleted |-> s.deleted]
  BY <1>1, <1>2 DEF Shed, QueueType, v
<1>6. /\ RemoveAt(s.ready, v) \in Seq(Event) /\ Len(RemoveAt(s.ready, v)) = n - 1
      /\ \A k \in 1 .. n - 1 : RemoveAt(s.ready, v)[k] = s.ready[Was(v, k)]
  BY <1>1, <1>4, RemovedAt
<1>7. DOMAIN RemoveAt(s.ready, v) = 1 .. n - 1
  BY <1>6, Reading
<1>8. /\ q.ready = RemoveAt(s.ready, v) /\ q.deleted = s.deleted
      /\ q.coalescible = s.coalescible - 1
  BY <1>5
<1>9. s.coalescible - 1 \in Nat
  BY <1>1, ConstantsAssumption
<1>10. q \in QueueType
  <2> DEFINE x == RemoveAt(s.ready, v)
             y == s.coalescible - 1
  <2>1. /\ q = [ready |-> x, coalescible |-> y, deleted |-> s.deleted]
        /\ x \in Seq(Event) /\ y \in Nat /\ s.deleted \in BOOLEAN
    BY <1>1, <1>5, <1>6, <1>9 DEF QueueType
  <2> HIDE DEF x, y, q
  <2>2. QED
    BY <2>1 DEF QueueType
<1> HIDE DEF q
<1>11. \A k \in 1 .. n - 1 : Was(v, k) \in 1 .. n /\ q.ready[k] = s.ready[Was(v, k)]
  <2>1. n \in Nat
    BY <1>1
  <2>2. \A k \in 1 .. n - 1 : Was(v, k) \in 1 .. n
    BY <1>4, <2>1 DEF Was
  <2>3. QED
    BY <1>6, <1>8, <2>2
<1>12. \A k \in DOMAIN q.ready : q.ready[k] \in Event /\ Kept(q.ready[k])
  BY <1>1, <1>7, <1>8, <1>11
<1>13. Coalescible(q) = {k \in 1 .. n - 1 : Was(v, k) \in C}
  BY <1>1, <1>7, <1>8, <1>11 DEF Coalescible
<1>14. Cardinality(Coalescible(q)) = Cardinality(C) - 1
  <2>0. Cardinality({k \in 1 .. n - 1 : Was(v, k) \in C}) = Cardinality(C \ {v})
    BY <1>1, <1>4, Shifted
  <2>1. Cardinality(Coalescible(q)) = Cardinality(C \ {v})
    BY <1>13, <2>0
  <2>2. Cardinality(C \ {v}) = Cardinality(C) - 1
    BY <1>1, <1>3, FS_RemoveElement
  <2>3. QED
    BY <2>1, <2>2
<1>15. ASSUME NEW j \in Coalescible(q), NEW k \in Coalescible(q), q.ready[j].key = q.ready[k].key
       PROVE j = k
  <2>1. Was(v, j) = Was(v, k)
    BY <1>11, <1>13, <1>15 DEF WellKept, QueueOK
  <2>2. QED
    BY <1>4, <1>13, <2>1 DEF Was
<1>16. q.coalescible < Cap /\ q.coalescible = Cardinality(Coalescible(q)) /\ q.coalescible <= Cap
  BY <1>1, <1>8, <1>14, ConstantsAssumption
<1>17. QueueOK(q)
  BY <1>1, <1>8, <1>12, <1>15, <1>16 DEF QueueOK
<1>18. WellKept(q)
  BY <1>10, <1>12, <1>17 DEF WellKept
<1>19. ASSUME SameKnote(s, e) = {} PROVE SameKnote(q, e) = {}
  BY <1>11, <1>13, <1>19 DEF SameKnote
<1>20. QED
  BY <1>3, <1>8, <1>16, <1>18, <1>19 DEF v, q

LEMMA MergedKeeps ==
  ASSUME NEW s, WellKept(s), NEW e \in Event, Kept(e), ~e.distinct,
         NEW k \in SameKnote(s, e)
  PROVE  LET q == Merged(s, e, k)
         IN  /\ WellKept(q) /\ q.deleted = s.deleted
             /\ DOMAIN q.ready = DOMAIN s.ready
             /\ k \in DOMAIN s.ready /\ s.ready[k].key = e.key /\ s.ready[k].data \in Nat
             /\ q.ready[k].key = e.key
             /\ q.ready[k].data = IF e.key \in Clocks THEN s.ready[k].data + e.data ELSE e.data
             /\ \A j \in DOMAIN s.ready : j # k => q.ready[j] = s.ready[j]
<1> DEFINE q == Merged(s, e, k)
           n == Len(s.ready)
           d == IF e.key \in Clocks THEN s.ready[k].data + e.data ELSE e.data
           m == [e EXCEPT !.data = d]
<1>1. /\ s.ready \in Seq(Event) /\ s.coalescible \in Nat /\ s.deleted \in BOOLEAN
      /\ s \in QueueType /\ n \in Nat /\ DOMAIN s.ready = 1 .. n
      /\ \A j \in 1 .. n : s.ready[j] \in Event /\ Kept(s.ready[j])
  BY Mergeable, Reading DEF WellKept, QueueType, QueueOK
<1>2. k \in Coalescible(s) /\ k \in 1 .. n /\ s.ready[k].key = e.key /\ ~s.ready[k].distinct
  BY <1>1 DEF SameKnote, Coalescible
<1>3. s.ready[k].data \in Nat /\ e.data \in Nat /\ e.key \in Keys /\ e.distinct \in BOOLEAN
  BY <1>1, <1>2 DEF Event
<1>4. d \in Nat
  BY <1>3
<1>5. m = [key |-> e.key, data |-> d, distinct |-> e.distinct]
  BY DEF Event
<1>6. m \in Event /\ m.key = e.key /\ m.data = d /\ m.distinct = e.distinct
  BY <1>3, <1>4, <1>5 DEF Event
<1>7. Kept(m)
  BY <1>6 DEF Kept
<1>8. q = [ready |-> [s.ready EXCEPT ![k] = m], coalescible |-> s.coalescible, deleted |-> s.deleted]
  <2>1. \A x : [s EXCEPT !.ready[k] = x]
                  = [ready |-> [s.ready EXCEPT ![k] = x], coalescible |-> s.coalescible,
                     deleted |-> s.deleted]
    BY <1>1 DEF QueueType
  <2>2. q = [s EXCEPT !.ready[k] = m]
    BY <1>3, <1>5 DEF Merged, Event
  <2>3. QED
    BY <2>1, <2>2
<1> HIDE DEF m, d
<1>9. /\ [s.ready EXCEPT ![k] = m] \in Seq(Event)
      /\ DOMAIN [s.ready EXCEPT ![k] = m] = 1 .. n
  BY <1>1, <1>2, <1>6, ExceptSeq
<1>10. /\ q.ready = [s.ready EXCEPT ![k] = m] /\ q.coalescible = s.coalescible
       /\ q.deleted = s.deleted /\ q \in QueueType
  BY <1>1, <1>8, <1>9 DEF QueueType
<1> HIDE DEF q
<1>11. DOMAIN q.ready = 1 .. n /\ q.ready[k] = m /\ \A j \in 1 .. n : j # k => q.ready[j] = s.ready[j]
  BY <1>1, <1>2, <1>9, <1>10
<1>12. \A j \in 1 .. n : q.ready[j].key = s.ready[j].key /\ q.ready[j].distinct = s.ready[j].distinct
  <2>1. e.distinct = FALSE /\ s.ready[k].distinct = FALSE
    BY <1>1, <1>2, <1>3 DEF Event
  <2>2. QED
    BY <1>2, <1>6, <1>11, <2>1
<1>13. Coalescible(q) = Coalescible(s)
  BY <1>1, <1>11, <1>12 DEF Coalescible
<1>14. \A j \in DOMAIN q.ready : q.ready[j] \in Event /\ Kept(q.ready[j])
  BY <1>1, <1>6, <1>7, <1>11
<1>15. \A i, j \in Coalescible(q) : q.ready[i].key = q.ready[j].key => i = j
  <2>1. Coalescible(s) \in SUBSET (1 .. n)
    BY <1>1 DEF Coalescible
  <2>2. QED
    BY <1>12, <1>13, <2>1 DEF WellKept, QueueOK
<1>16. QueueOK(q)
  BY <1>10, <1>13, <1>14, <1>15 DEF WellKept, QueueOK
<1>17. q.ready[k].key = e.key /\ q.ready[k].data = d
  BY <1>6, <1>11
<1>18. WellKept(q)
  BY <1>10, <1>14, <1>16 DEF WellKept
<1>19. QED
  BY <1>1, <1>2, <1>3, <1>10, <1>11, <1>17, <1>18 DEF q, d

LEMMA PostedKeeps ==
  ASSUME NEW s, WellKept(s), NEW e \in Event, Kept(e)
  PROVE  WellKept(Posted(s, e)) /\ Posted(s, e).deleted = s.deleted
<1>0. SameKnote(s, e) \in SUBSET Nat /\ s.coalescible \in Nat
  BY Mergeable DEF SameKnote
<1>1. CASE e.distinct
  <2>1. Posted(s, e) = Pushed(s, e)
    BY <1>1 DEF Posted, Shed
  <2>2. QED
    BY <1>1, <2>1, PushedKeeps
<1>2. CASE ~e.distinct /\ SameKnote(s, e) # {}
  <2>1. Oldest(SameKnote(s, e)) \in SameKnote(s, e)
    BY <1>0, <1>2, OldestIs
  <2>2. Posted(s, e) = Merged(s, e, Oldest(SameKnote(s, e)))
    BY <1>2 DEF Posted
  <2>3. QED
    BY <1>2, <2>1, <2>2, MergedKeeps
<1>3. CASE ~e.distinct /\ SameKnote(s, e) = {} /\ s.coalescible >= Cap
  <2>1. Posted(s, e) = Pushed(Shed(s, e), e)
    BY <1>3 DEF Posted
  <2>2. /\ WellKept(Shed(s, e)) /\ SameKnote(Shed(s, e), e) = {}
        /\ Shed(s, e).coalescible < Cap /\ Shed(s, e).deleted = s.deleted
    BY <1>3, ShedKeeps
  <2>3. QED
    BY <2>1, <2>2, PushedKeeps
<1>4. CASE ~e.distinct /\ SameKnote(s, e) = {} /\ ~(s.coalescible >= Cap)
  <2>1. Posted(s, e) = Pushed(s, e)
    BY <1>4 DEF Posted, Shed
  <2>2. s.coalescible < Cap
    BY <1>0, <1>4, ConstantsAssumption
  <2>3. QED
    BY <1>4, <2>1, <2>2, PushedKeeps
<1>5. QED
  BY <1>1, <1>2, <1>3, <1>4

-----------------------------------------------------------------------------
(***************************************************************************)
(* What a queue holds: its tags, its completions and its expirations.      *)
(***************************************************************************)
LEMMA ContentsType ==
  ASSUME NEW r \in Seq(Event)
  PROVE  /\ \A c : OfKey(r, c) \in SUBSET (1 .. Len(r)) /\ IsFiniteSet(OfKey(r, c))
         /\ Tags(r) \subseteq Nat /\ Completions(r) \in Nat
         /\ \A c : Expired(r, c) \in Nat
         /\ Expirations(r) \in Nat
<1>1. /\ Len(r) \in Nat /\ DOMAIN r = 1 .. Len(r)
      /\ \A k \in 1 .. Len(r) : r[k] \in Event /\ r[k].data \in Nat
  <2>1. Len(r) \in Nat /\ DOMAIN r = 1 .. Len(r) /\ \A k \in 1 .. Len(r) : r[k] \in Event
    BY Reading
  <2>2. \A e \in Event : e.data \in Nat
    BY DEF Event
  <2>3. QED
    BY <2>1, <2>2
<1>2. ASSUME NEW c
      PROVE  /\ OfKey(r, c) \in SUBSET (1 .. Len(r)) /\ IsFiniteSet(OfKey(r, c))
             /\ Cardinality(OfKey(r, c)) \in Nat
  <2>1. OfKey(r, c) \in SUBSET (1 .. Len(r))
    BY <1>1 DEF OfKey
  <2>2. QED
    BY <1>1, <2>1, PositionsFinite
<1>3. ASSUME NEW c PROVE Expired(r, c) \in Nat
  <2>1. CASE OfKey(r, c) = {}
    BY <2>1 DEF Expired
  <2>2. CASE OfKey(r, c) # {}
    <3>1. OfKey(r, c) \in SUBSET Nat
      BY <1>2
    <3>2. Oldest(OfKey(r, c)) \in OfKey(r, c)
      BY <2>2, <3>1, OldestIs
    <3>3. r[Oldest(OfKey(r, c))].data \in Nat
      BY <1>1, <1>2, <3>2
    <3>4. QED
      BY <2>2, <3>3 DEF Expired
  <2>3. QED
    BY <2>1, <2>2
<1>4. Tags(r) \subseteq Nat /\ Completions(r) \in Nat
  BY <1>1, <1>2 DEF Tags, Completions
<1>5. Expirations(r) \in Nat
  BY <1>3 DEF Expirations
<1>6. QED
  BY <1>2, <1>3, <1>4, <1>5

\* The entry just added is the last of its kind.
LEMMA EnteredContents ==
  ASSUME NEW r \in Seq(Event), NEW e \in Event
  PROVE  LET q == Append(r, e)
         IN  /\ \A c : OfKey(q, c) = OfKey(r, c) \cup (IF e.key = c THEN {Len(r) + 1} ELSE {})
             /\ Tags(q) = Tags(r) \cup (IF e.key = "tag" THEN {e.data} ELSE {})
             /\ Completions(q) = Completions(r) + (IF e.key = "eop" THEN 1 ELSE 0)
             /\ Ascending(r) /\ (e.key = "tag" => \A a \in Tags(r) : a < e.data) => Ascending(q)
<1> DEFINE q == Append(r, e)
           n == Len(r)
<1>1. n \in Nat /\ DOMAIN r = 1 .. n
  BY Reading
<1>2. /\ q \in Seq(Event) /\ Len(q) = n + 1 /\ DOMAIN q = 1 .. n + 1
      /\ \A k \in 1 .. n : q[k] = r[k]
      /\ q[n + 1] = e
  BY Entered, Reading
<1> HIDE DEF q, n
<1>3. \A k : k \in 1 .. n + 1 <=> k \in 1 .. n \/ k = n + 1
  BY <1>1
<1>4. \A c : OfKey(q, c) = OfKey(r, c) \cup (IF e.key = c THEN {n + 1} ELSE {})
  BY <1>1, <1>2, <1>3 DEF OfKey
<1>5. \A c : OfKey(r, c) \in SUBSET (1 .. n) /\ IsFiniteSet(OfKey(r, c))
  BY ContentsType DEF n
<1>6. n + 1 \notin 1 .. n
  BY <1>1
<1>7. Tags(q) = Tags(r) \cup (IF e.key = "tag" THEN {e.data} ELSE {})
  <2>1. \A k \in OfKey(r, "tag") : q[k] = r[k]
    BY <1>2, <1>5
  <2>2. QED
    BY <1>2, <1>4, <2>1 DEF Tags
<1>8. Completions(q) = Completions(r) + (IF e.key = "eop" THEN 1 ELSE 0)
  <2>1. CASE e.key = "eop"
    <3>1. OfKey(q, "eop") = OfKey(r, "eop") \cup {n + 1} /\ n + 1 \notin OfKey(r, "eop")
      BY <1>4, <1>5, <1>6, <2>1
    <3>2. Cardinality(OfKey(q, "eop")) = Cardinality(OfKey(r, "eop")) + 1
      BY <1>5, <3>1, FS_AddElement
    <3>3. QED
      BY <2>1, <3>2 DEF Completions
  <2>2. CASE e.key # "eop"
    <3>1. OfKey(q, "eop") = OfKey(r, "eop")
      BY <1>4, <2>2
    <3>2. Completions(r) \in Nat
      BY ContentsType
    <3>3. QED
      BY <2>2, <3>1, <3>2 DEF Completions
  <2>3. QED
    BY <2>1, <2>2
<1>9. ASSUME Ascending(r), e.key = "tag" => \A a \in Tags(r) : a < e.data
      PROVE  Ascending(q)
  <2>1. ASSUME NEW j \in OfKey(q, "tag"), NEW k \in OfKey(q, "tag"), j < k
        PROVE  q[j].data < q[k].data
    <3>1. j \in OfKey(r, "tag") /\ (k \in OfKey(r, "tag") \/ (k = n + 1 /\ e.key = "tag"))
      <4>1. j # n + 1 \/ k # n + 1
        BY <1>1, <2>1
      <4>2. j \in OfKey(r, "tag") \/ j = n + 1
        BY <1>4
      <4>3. k \in OfKey(r, "tag") \/ (k = n + 1 /\ e.key = "tag")
        <5>1. CASE e.key = "tag"
          BY <1>4, <2>1, <5>1
        <5>2. CASE e.key # "tag"
          BY <1>4, <2>1, <5>2
        <5>3. QED
          BY <5>1, <5>2
      <4>4. ~(j = n + 1 /\ k \in 1 .. n)
        BY <1>1, <2>1
      <4>5. QED
        BY <1>5, <4>1, <4>2, <4>3, <4>4
    <3>2. q[j] = r[j]
      BY <1>2, <1>5, <3>1
    <3>3. CASE k \in OfKey(r, "tag")
      <4>1. q[k] = r[k]
        BY <1>2, <1>5, <3>3
      <4>2. QED
        BY <1>9, <2>1, <3>1, <3>2, <3>3, <4>1 DEF Ascending
    <3>4. CASE k = n + 1 /\ e.key = "tag"
      <4>1. r[j].data \in Tags(r)
        BY <3>1 DEF Tags
      <4>2. QED
        BY <1>2, <1>9, <3>2, <3>4, <4>1
    <3>5. QED
      BY <3>1, <3>3, <3>4
  <2>2. QED
    BY <2>1 DEF Ascending
<1>10. QED
  BY <1>4, <1>7, <1>8, <1>9 DEF q, n

\* Shedding an entry that may be merged touches no tag and no completion.
LEMMA RemovedContents ==
  ASSUME NEW r \in Seq(Event), NEW v \in 1 .. Len(r), r[v].key \notin Counts
  PROVE  LET q == RemoveAt(r, v)
         IN  /\ \A c : OfKey(q, c) = {k \in 1 .. Len(r) - 1 : Was(v, k) \in OfKey(r, c)}
             /\ Tags(q) = Tags(r) /\ Completions(q) = Completions(r)
             /\ Ascending(r) => Ascending(q)
<1> DEFINE q == RemoveAt(r, v)
           n == Len(r)
<1>1. n \in Nat /\ DOMAIN r = 1 .. n
  BY Reading
<1>2. /\ q \in Seq(Event) /\ Len(q) = n - 1 /\ DOMAIN q = 1 .. n - 1
      /\ \A k \in 1 .. n - 1 : q[k] = r[Was(v, k)]
  <2>1. /\ q \in Seq(Event) /\ Len(q) = n - 1
        /\ \A k \in 1 .. n - 1 : q[k] = r[Was(v, k)]
    BY RemovedAt
  <2> HIDE DEF q
  <2>2. DOMAIN q = 1 .. Len(q)
    BY <2>1, Reading
  <2>3. QED
    BY <2>1, <2>2
<1> HIDE DEF q
<1>3. \A k \in 1 .. n - 1 : Was(v, k) \in 1 .. n
  BY <1>1 DEF Was
<1>4. \A c : OfKey(q, c) = {k \in 1 .. n - 1 : Was(v, k) \in OfKey(r, c)}
  BY <1>1, <1>2, <1>3 DEF OfKey
<1>5. v \notin OfKey(r, "tag") /\ v \notin OfKey(r, "eop")
  BY DEF OfKey, Counts
<1>6. \A p \in 1 .. n : p # v => \E k \in 1 .. n - 1 : Was(v, k) = p
  <2>1. ASSUME NEW p \in 1 .. n, p # v PROVE \E k \in 1 .. n - 1 : Was(v, k) = p
    <3>1. CASE p < v
      BY <1>1, <3>1 DEF Was
    <3>2. CASE v < p
      <4>1. p - 1 \in 1 .. n - 1 /\ Was(v, p - 1) = p
        BY <1>1, <3>2 DEF Was
      <4>2. QED
        BY <4>1
    <3>3. QED
      BY <1>1, <2>1, <3>1, <3>2
  <2>2. QED
    BY <2>1
<1>7. \A c : OfKey(r, c) \in SUBSET (1 .. n)
  BY ContentsType
<1>8. Tags(q) = Tags(r)
  <2>1. ASSUME NEW p \in OfKey(r, "tag") PROVE \E k \in OfKey(q, "tag") : q[k] = r[p]
    <3>1. p \in 1 .. n /\ p # v
      BY <1>5, <1>7
    <3>2. PICK k \in 1 .. n - 1 : Was(v, k) = p
      BY <1>6, <3>1
    <3>3. QED
      BY <1>2, <1>4, <3>2
  <2>2. ASSUME NEW k \in OfKey(q, "tag") PROVE \E p \in OfKey(r, "tag") : q[k] = r[p]
    BY <1>2, <1>4
  <2>3. QED
    BY <2>1, <2>2 DEF Tags
<1>9. Completions(q) = Completions(r)
  <2> DEFINE P == OfKey(r, "eop")
  <2>1. P \in SUBSET (1 .. n) /\ P \ {v} = P
    BY <1>5, <1>7
  <2> HIDE DEF P
  <2>2. Cardinality({k \in 1 .. n - 1 : Was(v, k) \in P}) = Cardinality(P \ {v})
    BY <1>1, <2>1, Shifted
  <2>3. OfKey(q, "eop") = {k \in 1 .. n - 1 : Was(v, k) \in P}
    BY <1>4 DEF P
  <2>4. QED
    BY <2>1, <2>2, <2>3 DEF P, Completions
<1>10. ASSUME Ascending(r) PROVE Ascending(q)
  <2>1. \A j, k \in 1 .. n - 1 : j < k => Was(v, j) < Was(v, k)
    BY <1>1 DEF Was
  <2>2. QED
    BY <1>2, <1>4, <1>10, <2>1 DEF Ascending
<1>11. QED
  BY <1>4, <1>8, <1>9, <1>10 DEF q

\* So does merging into one.
LEMMA MergedContents ==
  ASSUME NEW r \in Seq(Event), NEW q \in Seq(Event), DOMAIN q = DOMAIN r,
         NEW k \in DOMAIN r, q[k].key = r[k].key, r[k].key \notin Counts,
         \A j \in DOMAIN r : j # k => q[j] = r[j]
  PROVE  /\ \A c : OfKey(q, c) = OfKey(r, c)
         /\ Tags(q) = Tags(r) /\ Completions(q) = Completions(r)
         /\ Ascending(r) => Ascending(q)
<1>1. \A c : OfKey(q, c) = OfKey(r, c)
  BY DEF OfKey
<1>2. \A j \in OfKey(r, "tag") : q[j] = r[j]
  BY DEF OfKey, Counts
<1>3. Tags(q) = Tags(r) /\ Completions(q) = Completions(r)
  BY <1>1, <1>2 DEF Tags, Completions
<1>4. Ascending(r) => Ascending(q)
  BY <1>1, <1>2 DEF Ascending
<1>5. QED
  BY <1>1, <1>3, <1>4

\* At most one entry is of key c.
Once(r, c) == \A j, k \in OfKey(r, c) : j = k

LEMMA ExpiredIs ==
  ASSUME NEW r \in Seq(Event), NEW c, Once(r, c)
  PROVE  /\ \A k \in OfKey(r, c) : Expired(r, c) = r[k].data
         /\ OfKey(r, c) = {} => Expired(r, c) = 0
<1>1. ASSUME NEW k \in OfKey(r, c) PROVE Expired(r, c) = r[k].data
  <2>1. OfKey(r, c) \in SUBSET Nat /\ OfKey(r, c) # {}
    <3>1. OfKey(r, c) \in SUBSET (1 .. Len(r)) /\ Len(r) \in Nat
      BY ContentsType, Reading
    <3>2. QED
      BY <1>1, <3>1
  <2>2. Oldest(OfKey(r, c)) = k
    BY <2>1, OldestIs DEF Once
  <2>3. QED
    BY <2>1, <2>2 DEF Expired
<1>2. QED
  BY <1>1 DEF Expired

LEMMA ExpiredEntered ==
  ASSUME NEW r \in Seq(Event), NEW e \in Event, NEW c, Once(r, c),
         e.key = c => OfKey(r, c) = {}
  PROVE  Expired(Append(r, e), c) = Expired(r, c) + (IF e.key = c THEN e.data ELSE 0)
<1> DEFINE q == Append(r, e)
<1>1. /\ q \in Seq(Event) /\ Len(r) \in Nat
      /\ \A k \in 1 .. Len(r) : q[k] = r[k]
      /\ q[Len(r) + 1] = e
  BY Entered, Reading
<1>2. OfKey(q, c) = OfKey(r, c) \cup (IF e.key = c THEN {Len(r) + 1} ELSE {})
  BY EnteredContents
<1> HIDE DEF q
<1>3. OfKey(r, c) \in SUBSET (1 .. Len(r)) /\ Expired(r, c) \in Nat
  BY ContentsType
<1>4. Once(q, c)
  BY <1>2 DEF Once
<1>5. CASE e.key = c
  <2>1. Expired(r, c) = 0 /\ Expired(q, c) = e.data
    BY <1>1, <1>2, <1>4, <1>5, ExpiredIs
  <2>2. e.data \in Nat
    BY DEF Event
  <2>3. QED
    BY <1>5, <2>1, <2>2 DEF q
<1>6. CASE e.key # c
  <2>1. Expired(q, c) = Expired(r, c)
    <3>1. CASE OfKey(r, c) = {}
      BY <1>1, <1>2, <1>4, <1>6, <3>1, ExpiredIs
    <3>2. ASSUME NEW k \in OfKey(r, c) PROVE Expired(q, c) = Expired(r, c)
      <4>1. q[k] = r[k] /\ k \in OfKey(q, c)
        BY <1>1, <1>2, <1>3
      <4>2. QED
        BY <1>1, <1>4, <4>1, ExpiredIs
    <3>3. QED
      BY <3>1, <3>2
  <2>2. QED
    BY <1>3, <1>6, <2>1 DEF q
<1>7. QED
  BY <1>5, <1>6

LEMMA ExpiredRemoved ==
  ASSUME NEW r \in Seq(Event), NEW v \in 1 .. Len(r), r[v].key \notin Counts,
         NEW c, Once(r, c)
  PROVE  /\ Expired(RemoveAt(r, v), c) + (IF r[v].key = c THEN r[v].data ELSE 0) = Expired(r, c)
         /\ Once(RemoveAt(r, v), c)
<1> DEFINE q == RemoveAt(r, v)
<1>1. /\ q \in Seq(Event) /\ Len(r) \in Nat /\ DOMAIN r = 1 .. Len(r)
      /\ \A k \in 1 .. Len(r) - 1 : q[k] = r[Was(v, k)]
      /\ r[v].data \in Nat
  <2>1. r[v] \in Event
    BY Reading
  <2>2. r[v].data \in Nat
    BY <2>1 DEF Event
  <2>3. Len(r) \in Nat /\ DOMAIN r = 1 .. Len(r)
    BY Reading
  <2>4. q \in Seq(Event) /\ \A k \in 1 .. Len(r) - 1 : q[k] = r[Was(v, k)]
    BY RemovedAt
  <2>5. QED
    BY <2>2, <2>3, <2>4
<1>2. OfKey(q, c) = {k \in 1 .. Len(r) - 1 : Was(v, k) \in OfKey(r, c)}
  BY RemovedContents
<1> HIDE DEF q
<1>3. OfKey(r, c) \in SUBSET (1 .. Len(r)) /\ Expired(r, c) \in Nat
  BY ContentsType
<1>4. Once(q, c)
  <2>1. ASSUME NEW j \in OfKey(q, c), NEW k \in OfKey(q, c) PROVE j = k
    <3>1. Was(v, j) = Was(v, k) /\ j \in 1 .. Len(r) - 1 /\ k \in 1 .. Len(r) - 1
      BY <1>2 DEF Once
    <3>2. QED
      BY <1>1, <3>1 DEF Was
  <2>2. QED
    BY <2>1 DEF Once
<1>5. CASE r[v].key = c
  <2>1. v \in OfKey(r, c)
    BY <1>1, <1>5 DEF OfKey
  <2>2. \A k \in 1 .. Len(r) - 1 : Was(v, k) # v
    BY <1>1 DEF Was
  <2>3. OfKey(q, c) = {}
    BY <1>2, <2>1, <2>2 DEF Once
  <2>4. Expired(r, c) = r[v].data /\ Expired(q, c) = 0
    BY <1>1, <1>4, <2>1, <2>3, ExpiredIs
  <2>5. QED
    BY <1>1, <1>4, <1>5, <2>4 DEF q
<1>6. CASE r[v].key # c
  <2>1. Expired(q, c) = Expired(r, c)
    <3>1. CASE OfKey(r, c) = {}
      <4>1. OfKey(q, c) = {}
        BY <1>2, <3>1
      <4>2. QED
        BY <1>1, <1>4, <3>1, <4>1, ExpiredIs
    <3>2. ASSUME NEW p \in OfKey(r, c) PROVE Expired(q, c) = Expired(r, c)
      <4>1. p # v
        BY <1>6 DEF OfKey
      <4>2. \E k \in 1 .. Len(r) - 1 : Was(v, k) = p
        <5>1. CASE p < v
          BY <1>1, <1>3, <5>1 DEF Was
        <5>2. CASE v < p
          <6>1. p - 1 \in 1 .. Len(r) - 1 /\ Was(v, p - 1) = p
            BY <1>1, <1>3, <5>2 DEF Was
          <6>2. QED
            BY <6>1
        <5>3. QED
          BY <1>1, <1>3, <4>1, <5>1, <5>2
      <4>3. PICK k \in 1 .. Len(r) - 1 : Was(v, k) = p
        BY <4>2
      <4>4. k \in OfKey(q, c) /\ q[k] = r[p]
        BY <1>1, <1>2, <4>3
      <4>5. Expired(q, c) = q[k].data
        BY <1>4, <4>4, <1>1, ExpiredIs
      <4>6. Expired(r, c) = r[p].data
        BY ExpiredIs
      <4>7. QED
        BY <4>4, <4>5, <4>6
    <3>3. QED
      BY <3>1, <3>2
  <2>2. QED
    BY <1>3, <1>4, <1>6, <2>1 DEF q
<1>7. QED
  BY <1>5, <1>6

LEMMA ExpiredMerged ==
  ASSUME NEW r \in Seq(Event), NEW q \in Seq(Event), DOMAIN q = DOMAIN r,
         NEW k \in DOMAIN r, q[k].key = r[k].key,
         \A j \in DOMAIN r : j # k => q[j] = r[j],
         NEW c, Once(r, c), NEW d \in Nat,
         r[k].key = c => q[k].data = r[k].data + d
  PROVE  Expired(q, c) = Expired(r, c) + (IF r[k].key = c THEN d ELSE 0)
<1>1. OfKey(q, c) = OfKey(r, c)
  BY DEF OfKey
<1>2. Once(q, c)
  BY <1>1 DEF Once
<1>3. Expired(r, c) \in Nat
  BY ContentsType
<1>4. CASE r[k].key = c
  <2>1. k \in OfKey(r, c)
    BY <1>4 DEF OfKey
  <2>2. Expired(q, c) = q[k].data /\ Expired(r, c) = r[k].data
    BY <1>1, <1>2, <2>1, ExpiredIs
  <2>3. QED
    BY <1>4, <2>2
<1>5. CASE r[k].key # c
  <2>1. \A j \in OfKey(r, c) : q[j] = r[j]
    BY <1>5 DEF OfKey
  <2>2. Expired(q, c) = Expired(r, c)
    BY <1>1, <1>2, <2>1, ExpiredIs
  <2>3. QED
    BY <1>3, <1>5, <2>2
<1>6. QED
  BY <1>4, <1>5

LEMMA ClocksOnce ==
  ASSUME NEW s, WellKept(s), NEW c \in Keys \ Counts
  PROVE  Once(s.ready, c) /\ OfKey(s.ready, c) \subseteq Coalescible(s)
<1>1. s.ready \in Seq(Event)
  BY Mergeable
<1>2. ASSUME NEW k \in OfKey(s.ready, c) PROVE k \in Coalescible(s)
  <2>1. k \in DOMAIN s.ready /\ s.ready[k].key = c
    BY DEF OfKey
  <2>2. Kept(s.ready[k])
    BY <2>1 DEF WellKept
  <2>3. QED
    BY <2>1, <2>2 DEF Kept, Coalescible
<1>3. \A j, k \in OfKey(s.ready, c) : j = k
  <2>1. \A j \in OfKey(s.ready, c) : s.ready[j].key = c
    BY DEF OfKey
  <2>2. QED
    BY <1>2, <2>1 DEF WellKept, QueueOK
<1>4. QED
  BY <1>2, <1>3 DEF Once

-----------------------------------------------------------------------------
(***************************************************************************)
(* What a post adds to a queue, and what a wait takes from it.             *)
(***************************************************************************)
\* A post adds its entry, merges it or sheds one to make room for it.
LEMMA PostedIs ==
  ASSUME NEW s, WellKept(s), NEW e \in Event, Kept(e)
  PROVE  \/ /\ e.distinct \/ SameKnote(s, e) = {}
            /\ Posted(s, e).ready = Append(s.ready, e) /\ ShedExpirations(s, e) = 0
         \/ /\ ~e.distinct /\ ShedExpirations(s, e) = 0
            /\ \E k \in SameKnote(s, e) : Posted(s, e) = Merged(s, e, k)
         \/ /\ ~e.distinct /\ SameKnote(s, e) = {}
            /\ \E v \in Coalescible(s) :
                 /\ Posted(s, e).ready = Append(RemoveAt(s.ready, v), e)
                 /\ ShedExpirations(s, e) =
                      IF s.ready[v].key \in Clocks THEN s.ready[v].data ELSE 0
<1>0. SameKnote(s, e) \in SUBSET Nat /\ s.coalescible \in Nat
  BY Mergeable DEF SameKnote
<1>1. CASE e.distinct
  <2>1. Posted(s, e) = Pushed(s, e) /\ ShedExpirations(s, e) = 0
    BY <1>1 DEF Posted, Shed, ShedExpirations
  <2>2. Pushed(s, e).ready = Append(s.ready, e)
    BY <1>1, PushedKeeps
  <2>3. QED
    BY <1>1, <2>1, <2>2
<1>2. CASE ~e.distinct /\ SameKnote(s, e) # {}
  <2>1. Oldest(SameKnote(s, e)) \in SameKnote(s, e)
    BY <1>0, <1>2, OldestIs
  <2>2. Posted(s, e) = Merged(s, e, Oldest(SameKnote(s, e)))
    BY <1>2 DEF Posted
  <2>3. ShedExpirations(s, e) = 0
    BY <1>2 DEF ShedExpirations
  <2>4. QED
    BY <1>2, <2>1, <2>2, <2>3
<1>3. CASE ~e.distinct /\ SameKnote(s, e) = {} /\ s.coalescible >= Cap
  <2> DEFINE v == Oldest(Coalescible(s))
  <2>1. Posted(s, e) = Pushed(Shed(s, e), e)
    BY <1>3 DEF Posted
  <2>2. /\ WellKept(Shed(s, e)) /\ SameKnote(Shed(s, e), e) = {} /\ v \in Coalescible(s)
        /\ Shed(s, e).coalescible < Cap /\ Shed(s, e).ready = RemoveAt(s.ready, v)
    BY <1>3, ShedKeeps
  <2>3. Posted(s, e).ready = Append(RemoveAt(s.ready, v), e)
    BY <2>1, <2>2, PushedKeeps
  <2>4. Coalescible(s) # {}
    BY <2>2
  <2>5. ShedExpirations(s, e) = IF s.ready[v].key \in Clocks THEN s.ready[v].data ELSE 0
    BY <1>3, <2>4 DEF ShedExpirations
  <2> HIDE DEF v
  <2>6. QED
    BY <1>3, <2>2, <2>3, <2>5
<1>4. CASE ~e.distinct /\ SameKnote(s, e) = {} /\ ~(s.coalescible >= Cap)
  <2>1. Posted(s, e) = Pushed(s, e) /\ ShedExpirations(s, e) = 0
    BY <1>4 DEF Posted, Shed, ShedExpirations
  <2>2. s.coalescible < Cap
    BY <1>0, <1>4, ConstantsAssumption
  <2>3. Pushed(s, e).ready = Append(s.ready, e)
    BY <1>4, <2>2, PushedKeeps
  <2>4. QED
    BY <1>4, <2>1, <2>3
<1>5. QED
  BY <1>1, <1>2, <1>3, <1>4

LEMMA MergeableKeys ==
  ASSUME NEW s, WellKept(s), NEW v \in Coalescible(s)
  PROVE  v \in 1 .. Len(s.ready) /\ s.ready[v].key \in Keys \ Counts /\ s.ready[v].data \in Nat
<1>1. v \in 1 .. Len(s.ready) /\ s.ready \in Seq(Event) /\ v \in DOMAIN s.ready
      /\ ~s.ready[v].distinct
  BY Mergeable DEF Coalescible
<1>2. s.ready[v] \in Event /\ Kept(s.ready[v])
  BY <1>1, Reading DEF WellKept
<1>3. QED
  BY <1>1, <1>2 DEF Kept, Event

\* Nothing is lost of the tags and the completions, and their order is kept.
LEMMA PostedContents ==
  ASSUME NEW s, WellKept(s), NEW e \in Event, Kept(e)
  PROVE  LET r == s.ready
             q == Posted(s, e).ready
         IN  /\ Tags(q) = Tags(r) \cup (IF e.key = "tag" THEN {e.data} ELSE {})
             /\ Completions(q) = Completions(r) + (IF e.key = "eop" THEN 1 ELSE 0)
             /\ Ascending(r) /\ (e.key = "tag" => \A a \in Tags(r) : a < e.data) => Ascending(q)
<1> DEFINE r == s.ready
           q == Posted(s, e).ready
<1>1. r \in Seq(Event) /\ Completions(r) \in Nat
  BY Mergeable, ContentsType
<1>2. CASE q = Append(r, e)
  BY <1>1, <1>2, EnteredContents
<1>3. ASSUME ~e.distinct PROVE e.key \notin Counts /\ e.key # "tag" /\ e.key # "eop"
  BY <1>3 DEF Kept, Counts
<1>4. ASSUME ~e.distinct, NEW k \in SameKnote(s, e), Posted(s, e) = Merged(s, e, k)
      PROVE  Tags(q) = Tags(r) /\ Completions(q) = Completions(r) /\ (Ascending(r) => Ascending(q))
  <2>1. /\ WellKept(Posted(s, e)) /\ DOMAIN q = DOMAIN r /\ k \in DOMAIN r
        /\ r[k].key = e.key /\ q[k].key = e.key /\ \A j \in DOMAIN r : j # k => q[j] = r[j]
    BY <1>4, MergedKeeps
  <2>2. q \in Seq(Event)
    BY <2>1, Mergeable
  <2> HIDE DEF q, r
  <2>3. QED
    BY <1>1, <1>3, <1>4, <2>1, <2>2, MergedContents
<1>5. ASSUME ~e.distinct, NEW v \in Coalescible(s), q = Append(RemoveAt(r, v), e)
      PROVE  Tags(q) = Tags(r) /\ Completions(q) = Completions(r) /\ (Ascending(r) => Ascending(q))
  <2>1. v \in 1 .. Len(r) /\ r[v].key \notin Counts
    BY MergeableKeys
  <2> DEFINE m == RemoveAt(r, v)
  <2>2. m \in Seq(Event)
    BY <1>1, <2>1, RemovedAt
  <2>3. Tags(m) = Tags(r) /\ Completions(m) = Completions(r) /\ (Ascending(r) => Ascending(m))
    BY <1>1, <2>1, RemovedContents
  <2> HIDE DEF m, r
  <2>4. /\ Tags(Append(m, e)) = Tags(m)
        /\ Completions(Append(m, e)) = Completions(m) + 0
        /\ Ascending(m) => Ascending(Append(m, e))
    BY <1>3, <1>5, <2>2, EnteredContents
  <2>5. q = Append(m, e)
    BY <1>5 DEF m, r
  <2> HIDE DEF q
  <2>6. QED
    BY <1>1, <2>3, <2>4, <2>5
<1>6. \/ q = Append(r, e)
      \/ ~e.distinct /\ \E k \in SameKnote(s, e) : Posted(s, e) = Merged(s, e, k)
      \/ ~e.distinct /\ \E v \in Coalescible(s) : q = Append(RemoveAt(r, v), e)
  BY PostedIs
<1> HIDE DEF q, r
<1>7. CASE ~e.distinct /\ Tags(q) = Tags(r) /\ Completions(q) = Completions(r)
           /\ (Ascending(r) => Ascending(q))
  BY <1>1, <1>3, <1>7 DEF q, r
<1>8. QED
  BY <1>2, <1>4, <1>5, <1>6, <1>7

\* Nor of the expirations but those of an entry that is shed.
LEMMA PostedExpirations ==
  ASSUME NEW s, WellKept(s), NEW e \in Event, Kept(e)
  PROVE  /\ Expirations(Posted(s, e).ready) + ShedExpirations(s, e)
              = Expirations(s.ready) + (IF e.key \in Clocks THEN e.data ELSE 0)
         /\ ShedExpirations(s, e) \in Nat
<1> DEFINE r == s.ready
           q == Posted(s, e).ready
           here(c) == IF e.key = c THEN e.data ELSE 0
<1>1. /\ r \in Seq(Event) /\ e.data \in Nat /\ q \in Seq(Event)
      /\ WellKept(Posted(s, e))
  <2>1. e.data \in Nat
    BY DEF Event
  <2>2. QED
    BY <2>1, Mergeable, PostedKeeps
<1>2. \A c \in Clocks : Once(r, c) /\ Expired(r, c) \in Nat /\ Expired(q, c) \in Nat /\ here(c) \in Nat
  <2>1. Clocks \subseteq Keys \ Counts
    BY DEF Clocks, Keys, Counts
  <2>2. QED
    BY <1>1, <2>1, ClocksOnce, ContentsType
<1>3. e.distinct => e.key \notin Clocks
  BY DEF Kept, Counts, Clocks
<1>4. ASSUME NEW c \in Clocks, q = Append(r, e), e.distinct \/ SameKnote(s, e) = {}
      PROVE  Expired(q, c) = Expired(r, c) + here(c)
  <2>1. e.key = c => OfKey(r, c) = {}
    <3>1. Clocks \subseteq Keys \ Counts
      BY DEF Clocks, Keys, Counts
    <3>2. OfKey(r, c) \subseteq Coalescible(s)
      BY <3>1, ClocksOnce
    <3>3. QED
      BY <1>3, <1>4, <3>2 DEF SameKnote, OfKey
  <2>2. QED
    BY <1>1, <1>2, <1>4, <2>1, ExpiredEntered
<1>5. ASSUME NEW c \in Clocks, ~e.distinct, NEW k \in SameKnote(s, e),
             Posted(s, e) = Merged(s, e, k)
      PROVE  Expired(q, c) = Expired(r, c) + here(c)
  <2>1. /\ DOMAIN q = DOMAIN r /\ k \in DOMAIN r
        /\ r[k].key = e.key /\ q[k].key = e.key /\ \A j \in DOMAIN r : j # k => q[j] = r[j]
        /\ e.key \in Clocks => q[k].data = r[k].data + e.data
    BY <1>5, MergedKeeps
  <2>2. Once(r, c)
    BY <1>2
  <2>3. q[k].key = r[k].key /\ (r[k].key = c => q[k].data = r[k].data + e.data)
    BY <2>1
  <2> HIDE DEF q, r
  <2>4. Expired(q, c) = Expired(r, c) + (IF r[k].key = c THEN e.data ELSE 0)
    BY <1>1, <2>1, <2>2, <2>3, ExpiredMerged
  <2>5. QED
    BY <2>1, <2>4
<1>6. ASSUME NEW c \in Clocks, ~e.distinct, SameKnote(s, e) = {}, NEW v \in Coalescible(s),
             q = Append(RemoveAt(r, v), e)
      PROVE  Expired(q, c) + (IF r[v].key = c THEN r[v].data ELSE 0) = Expired(r, c) + here(c)
  <2>1. v \in 1 .. Len(r) /\ r[v].key \notin Counts /\ r[v].data \in Nat
    BY MergeableKeys
  <2> DEFINE m == RemoveAt(r, v)
  <2>2. m \in Seq(Event) /\ Expired(m, c) \in Nat
    <3>1. m \in Seq(Event)
      BY <1>1, <2>1, RemovedAt
    <3>2. QED
      BY <3>1, ContentsType
  <2>3. Expired(m, c) + (IF r[v].key = c THEN r[v].data ELSE 0) = Expired(r, c) /\ Once(m, c)
    BY <1>1, <1>2, <2>1, ExpiredRemoved
  <2>4. e.key = c => OfKey(m, c) = {}
    <3>1. Clocks \subseteq Keys \ Counts
      BY DEF Clocks, Keys, Counts
    <3>2. OfKey(r, c) \subseteq Coalescible(s)
      BY <3>1, ClocksOnce
    <3>3. e.key = c => OfKey(r, c) = {}
      BY <1>6, <3>2 DEF SameKnote, OfKey
    <3>4. OfKey(m, c) = {k \in 1 .. Len(r) - 1 : Was(v, k) \in OfKey(r, c)}
      BY <1>1, <2>1, RemovedContents
    <3>5. QED
      BY <3>3, <3>4
  <2> HIDE DEF m, r
  <2>5. Expired(Append(m, e), c) = Expired(m, c) + here(c)
    BY <2>2, <2>3, <2>4, ExpiredEntered
  <2>6. q = Append(m, e)
    BY <1>6 DEF m, r
  <2> HIDE DEF q
  <2>7. Expired(r, c) \in Nat /\ here(c) \in Nat /\ Expired(q, c) = Expired(m, c) + here(c)
    BY <1>2, <2>5, <2>6
  <2> HIDE DEF here
  <2>8. QED
    BY <2>1, <2>2, <2>3, <2>7
<1> DEFINE d == IF e.key \in Clocks THEN e.data ELSE 0
<1>7. here("timer") + here("hrtimer") = d /\ "timer" \in Clocks /\ "hrtimer" \in Clocks
  BY <1>1 DEF Clocks
<1> HIDE DEF q, r
<1>8. ASSUME \A c \in Clocks : Expired(q, c) = Expired(r, c) + here(c)
      PROVE  Expirations(q) = Expirations(r) + d /\ Expirations(q) \in Nat
  <2>1. Expired(q, "timer") = Expired(r, "timer") + here("timer")
        /\ Expired(q, "hrtimer") = Expired(r, "hrtimer") + here("hrtimer")
    BY <1>7, <1>8
  <2> HIDE DEF here, d
  <2>2. QED
    BY <1>2, <1>7, <2>1 DEF Expirations
<1>9. ASSUME NEW v \in Coalescible(s),
             \A c \in Clocks : Expired(q, c) + (IF r[v].key = c THEN r[v].data ELSE 0)
                                 = Expired(r, c) + here(c)
      PROVE  Expirations(q) + (IF r[v].key \in Clocks THEN r[v].data ELSE 0) = Expirations(r) + d
  <2>1. r[v].data \in Nat
    BY MergeableKeys DEF r
  <2> DEFINE x == IF r[v].key = "timer" THEN r[v].data ELSE 0
             y == IF r[v].key = "hrtimer" THEN r[v].data ELSE 0
  <2>2. x + y = (IF r[v].key \in Clocks THEN r[v].data ELSE 0) /\ x \in Nat /\ y \in Nat
    BY <2>1 DEF Clocks
  <2>3. Expired(q, "timer") + x = Expired(r, "timer") + here("timer")
        /\ Expired(q, "hrtimer") + y = Expired(r, "hrtimer") + here("hrtimer")
    BY <1>7, <1>9
  <2>4. /\ Expired(q, "timer") \in Nat /\ Expired(r, "timer") \in Nat /\ here("timer") \in Nat
        /\ Expired(q, "hrtimer") \in Nat /\ Expired(r, "hrtimer") \in Nat
        /\ here("hrtimer") \in Nat
    BY <1>2, <1>7 DEF q, r
  <2> HIDE DEF x, y, here, d
  <2>5. Expirations(q) + (x + y) = Expirations(r) + d
    <3> DEFINE a1 == Expired(q, "timer")
               a2 == Expired(q, "hrtimer")
               b1 == Expired(r, "timer")
               b2 == Expired(r, "hrtimer")
               h1 == here("timer")
               h2 == here("hrtimer")
    <3>0. /\ a1 \in Nat /\ a2 \in Nat /\ b1 \in Nat /\ b2 \in Nat /\ h1 \in Nat /\ h2 \in Nat
          /\ x \in Nat /\ y \in Nat /\ a1 + x = b1 + h1 /\ a2 + y = b2 + h2
      BY <2>2, <2>3, <2>4
    <3> HIDE DEF a1, a2, b1, b2, h1, h2
    <3>1. (a1 + a2) + (x + y) = (b1 + b2) + (h1 + h2)
      BY <3>0
    <3>2. Expirations(q) = a1 + a2 /\ Expirations(r) = b1 + b2 /\ h1 + h2 = d
      BY <1>7 DEF Expirations, a1, a2, b1, b2, h1, h2
    <3>3. QED
      BY <3>1, <3>2
  <2>6. QED
    BY <2>2, <2>5
<1>10. Expirations(q) \in Nat
  BY <1>1, ContentsType
<1>11. \/ (e.distinct \/ SameKnote(s, e) = {}) /\ q = Append(r, e) /\ ShedExpirations(s, e) = 0
       \/ /\ ~e.distinct /\ ShedExpirations(s, e) = 0
          /\ \E k \in SameKnote(s, e) : Posted(s, e) = Merged(s, e, k)
       \/ /\ ~e.distinct /\ SameKnote(s, e) = {}
          /\ \E v \in Coalescible(s) :
               /\ q = Append(RemoveAt(r, v), e)
               /\ ShedExpirations(s, e) = IF r[v].key \in Clocks THEN r[v].data ELSE 0
  BY PostedIs DEF q, r
<1>12. CASE (e.distinct \/ SameKnote(s, e) = {}) /\ q = Append(r, e) /\ ShedExpirations(s, e) = 0
  BY <1>4, <1>8, <1>10, <1>12 DEF q, r
<1>13. CASE /\ ~e.distinct /\ ShedExpirations(s, e) = 0
            /\ \E k \in SameKnote(s, e) : Posted(s, e) = Merged(s, e, k)
  BY <1>5, <1>8, <1>10, <1>13 DEF q, r
<1>14. ASSUME ~e.distinct, SameKnote(s, e) = {}, NEW v \in Coalescible(s),
              q = Append(RemoveAt(r, v), e),
              ShedExpirations(s, e) = IF r[v].key \in Clocks THEN r[v].data ELSE 0
       PROVE  Expirations(q) + ShedExpirations(s, e) = Expirations(r) + d
              /\ ShedExpirations(s, e) \in Nat
  <2>1. r[v].data \in Nat
    BY MergeableKeys DEF r
  <2>2. \A c \in Clocks : Expired(q, c) + (IF r[v].key = c THEN r[v].data ELSE 0)
                            = Expired(r, c) + here(c)
    BY <1>6, <1>14 DEF q, r
  <2>3. QED
    BY <1>9, <1>14, <2>1, <2>2
<1>15. QED
  BY <1>11, <1>12, <1>13, <1>14 DEF q, r

\* A wait that takes n entries.
LEMMA Least2 ==
  ASSUME NEW m \in Nat, NEW n \in Nat
  PROVE  Min({m, n}) \in {m, n} /\ Min({m, n}) <= m /\ Min({m, n}) <= n
<1>1. {m, n} \in SUBSET Nat /\ {m, n} # {}
  OBVIOUS
<1>2. PICK x \in {m, n} : \A y \in {m, n} : x <= y
  BY <1>1, LeastExists
<1>3. Min({m, n}) = CHOOSE z \in {m, n} : \A y \in {m, n} : z <= y
  BY DEF Min
<1>4. QED
  BY <1>2, <1>3

LEMMA CutSequence ==
  ASSUME NEW r \in Seq(Event), NEW n \in 0 .. Len(r)
  PROVE  LET got == SubSeq(r, 1, n)
             rest == SubSeq(r, n + 1, Len(r))
         IN  /\ got \in Seq(Event) /\ Len(got) = n /\ \A k \in 1 .. n : got[k] = r[k]
             /\ rest \in Seq(Event) /\ Len(rest) = Len(r) - n
             /\ \A k \in 1 .. Len(r) - n : rest[k] = r[k + n]
             /\ \A c : OfKey(got, c) = {k \in OfKey(r, c) : k <= n}
             /\ \A c : OfKey(rest, c) = {k \in 1 .. Len(r) - n : k + n \in OfKey(r, c)}
<1> DEFINE got == SubSeq(r, 1, n)
           rest == SubSeq(r, n + 1, Len(r))
<1>1. Len(r) \in Nat /\ DOMAIN r = 1 .. Len(r) /\ \A k \in 1 .. Len(r) : r[k] \in Event
  BY Reading
<1>2. got \in Seq(Event) /\ Len(got) = n /\ \A k \in 1 .. n : got[k] = r[k]
  <2>1. \A k \in 1 .. n : r[k] \in Event
    BY <1>1
  <2>2. /\ got \in Seq(Event) /\ Len(got) = IF 1 <= n THEN n - 1 + 1 ELSE 0
        /\ \A k \in 1 .. n - 1 + 1 : got[k] = r[1 + k - 1]
    BY <1>1, <2>1, SubSeqProperties
  <2>3. n \in Nat /\ (IF 1 <= n THEN n - 1 + 1 ELSE 0) = n
    BY <1>1
  <2>4. \A k \in 1 .. n : k \in 1 .. n - 1 + 1 /\ 1 + k - 1 = k
    BY <2>3
  <2> HIDE DEF got
  <2>5. \A k \in 1 .. n : got[k] = r[k]
    BY <2>2, <2>4
  <2>6. QED
    BY <2>2, <2>3, <2>5
<1>3. /\ rest \in Seq(Event) /\ Len(rest) = Len(r) - n
      /\ \A k \in 1 .. Len(r) - n : rest[k] = r[k + n]
  <2>1. \A k \in n + 1 .. Len(r) : r[k] \in Event
    BY <1>1
  <2>2. /\ rest \in Seq(Event)
        /\ Len(rest) = IF n + 1 <= Len(r) THEN Len(r) - (n + 1) + 1 ELSE 0
        /\ \A k \in 1 .. Len(r) - (n + 1) + 1 : rest[k] = r[n + 1 + k - 1]
    BY <1>1, <2>1, SubSeqProperties
  <2>3. n \in Nat /\ n <= Len(r)
    BY <1>1
  <2>4. (IF n + 1 <= Len(r) THEN Len(r) - (n + 1) + 1 ELSE 0) = Len(r) - n
    <3>1. Len(r) \in Nat
      BY <1>1
    <3>2. QED
      BY <2>3, <3>1
  <2>5. \A k \in 1 .. Len(r) - n : k \in 1 .. Len(r) - (n + 1) + 1 /\ n + 1 + k - 1 = k + n
    BY <1>1, <2>3
  <2> HIDE DEF rest
  <2>6. \A k \in 1 .. Len(r) - n : rest[k] = r[k + n]
    BY <2>2, <2>5
  <2>7. QED
    BY <2>2, <2>4, <2>6
<1>4. DOMAIN got = 1 .. n /\ DOMAIN rest = 1 .. Len(r) - n
  BY <1>2, <1>3, Reading
<1> HIDE DEF got, rest
<1>5. \A c : OfKey(got, c) = {k \in OfKey(r, c) : k <= n}
  BY <1>1, <1>2, <1>4 DEF OfKey
<1>6. \A c : OfKey(rest, c) = {k \in 1 .. Len(r) - n : k + n \in OfKey(r, c)}
  BY <1>1, <1>3, <1>4 DEF OfKey
<1>7. QED
  BY <1>2, <1>3, <1>5, <1>6 DEF got, rest

\* What is taken comes first, and with what stays it is all there was.
LEMMA TookContents ==
  ASSUME NEW s, WellKept(s), NEW n \in 0 .. Len(s.ready)
  PROVE  LET r == s.ready
             got == SubSeq(r, 1, n)
             rest == SubSeq(r, n + 1, Len(r))
         IN  /\ Tags(r) = Tags(got) \cup Tags(rest)
             /\ Completions(r) = Completions(got) + Completions(rest)
             /\ Ascending(r) => Ascending(rest) /\ Before(Tags(got), Tags(rest))
             /\ Expirations(r) = Expirations(got) + Expirations(rest)
<1> DEFINE r == s.ready
           got == SubSeq(r, 1, n)
           rest == SubSeq(r, n + 1, Len(r))
           up(c) == {k \in OfKey(r, c) : k <= n}
           down(c) == {k \in 1 .. Len(r) - n : k + n \in OfKey(r, c)}
<1>1. r \in Seq(Event) /\ Len(r) \in Nat /\ DOMAIN r = 1 .. Len(r)
  BY Mergeable, Reading
<1>2. /\ got \in Seq(Event) /\ rest \in Seq(Event)
      /\ \A k \in 1 .. n : got[k] = r[k]
      /\ \A k \in 1 .. Len(r) - n : rest[k] = r[k + n]
      /\ \A c : OfKey(got, c) = up(c) /\ OfKey(rest, c) = down(c)
  <2>1. n \in 0 .. Len(r)
    OBVIOUS
  <2> HIDE DEF r
  <2>2. got \in Seq(Event) /\ \A k \in 1 .. n : got[k] = r[k]
    BY <1>1, <2>1, CutSequence
  <2>3. rest \in Seq(Event) /\ \A k \in 1 .. Len(r) - n : rest[k] = r[k + n]
    BY <1>1, <2>1, CutSequence
  <2>4. \A c : OfKey(got, c) = up(c)
    BY <1>1, <2>1, CutSequence
  <2>5. \A c : OfKey(rest, c) = down(c)
    BY <1>1, <2>1, CutSequence
  <2>6. QED
    BY <2>2, <2>3, <2>4, <2>5
<1>3. \A c : OfKey(r, c) \in SUBSET (1 .. Len(r))
  BY <1>1, ContentsType
<1> HIDE DEF r, got, rest
<1>4. ASSUME NEW c
      PROVE  /\ \A k \in OfKey(got, c) : k \in OfKey(r, c) /\ k <= n /\ got[k] = r[k]
             /\ \A k \in OfKey(rest, c) : k + n \in OfKey(r, c) /\ k \in Nat \ {0} /\ rest[k] = r[k + n]
             /\ \A p \in OfKey(r, c) : p \in OfKey(got, c) \/ p - n \in OfKey(rest, c)
  <2>1. ASSUME NEW k \in OfKey(got, c) PROVE k \in OfKey(r, c) /\ k <= n /\ got[k] = r[k]
    <3>1. k \in OfKey(r, c) /\ k <= n
      BY <1>2
    <3>2. k \in 1 .. n
      BY <1>1, <1>3, <3>1
    <3>3. QED
      BY <1>2, <3>1, <3>2
  <2>2. ASSUME NEW k \in OfKey(rest, c)
        PROVE  k + n \in OfKey(r, c) /\ k \in Nat \ {0} /\ rest[k] = r[k + n]
    <3>1. k \in 1 .. Len(r) - n /\ k + n \in OfKey(r, c)
      BY <1>2
    <3>2. QED
      BY <1>1, <1>2, <3>1
  <2>3. ASSUME NEW p \in OfKey(r, c) PROVE p \in OfKey(got, c) \/ p - n \in OfKey(rest, c)
    <3>1. p \in 1 .. Len(r) /\ p \in Int /\ n \in Int
      BY <1>1, <1>3
    <3>2. CASE p <= n
      BY <1>2, <3>2
    <3>3. CASE ~(p <= n)
      <4>1. p - n \in 1 .. Len(r) - n /\ (p - n) + n = p
        BY <1>1, <3>1, <3>3
      <4>2. p - n \in down(c)
        BY <4>1
      <4>3. QED
        BY <1>2, <4>2
    <3>4. QED
      BY <3>2, <3>3
  <2>4. QED
    BY <2>1, <2>2, <2>3
<1>5. Tags(r) = Tags(got) \cup Tags(rest)
  <2>1. \A k \in OfKey(got, "tag") : got[k].data \in Tags(r)
    BY <1>4 DEF Tags
  <2>2. \A k \in OfKey(rest, "tag") : rest[k].data \in Tags(r)
    BY <1>4 DEF Tags
  <2>3. ASSUME NEW p \in OfKey(r, "tag") PROVE r[p].data \in Tags(got) \cup Tags(rest)
    <3>1. CASE p \in OfKey(got, "tag")
      BY <1>4, <3>1 DEF Tags
    <3>2. CASE p - n \in OfKey(rest, "tag")
      <4>1. (p - n) + n = p
        BY <1>1, <1>3
      <4>2. rest[p - n] = r[p]
        BY <1>4, <3>2, <4>1
      <4>3. QED
        BY <3>2, <4>2 DEF Tags
    <3>3. QED
      BY <1>4, <3>1, <3>2
  <2>4. QED
    BY <2>1, <2>2, <2>3 DEF Tags
<1>6. Completions(r) = Completions(got) + Completions(rest)
  <2> DEFINE P == OfKey(r, "eop")
  <2>1. P \in SUBSET (1 .. Len(r))
    BY <1>3
  <2> HIDE DEF P
  <2>2. n \in 0 .. Len(r)
    BY DEF r
  <2>3. Cardinality(P) = Cardinality({k \in P : k <= n})
                           + Cardinality({k \in 1 .. Len(r) - n : k + n \in P})
    BY <1>1, <2>1, <2>2, Cut
  <2>4. OfKey(got, "eop") = {k \in P : k <= n}
        /\ OfKey(rest, "eop") = {k \in 1 .. Len(r) - n : k + n \in P}
    BY <1>2 DEF P
  <2>5. QED
    BY <2>3, <2>4 DEF Completions, P
<1>7. ASSUME Ascending(r) PROVE Ascending(rest) /\ Before(Tags(got), Tags(rest))
  <2>1. ASSUME NEW j \in OfKey(rest, "tag"), NEW k \in OfKey(rest, "tag"), j < k
        PROVE  rest[j].data < rest[k].data
    <3>1. j + n < k + n
      BY <1>1, <1>4, <2>1
    <3>2. QED
      BY <1>4, <1>7, <3>1 DEF Ascending
  <2>2. ASSUME NEW j \in OfKey(got, "tag"), NEW k \in OfKey(rest, "tag")
        PROVE  got[j].data < rest[k].data
    <3>1. j \in OfKey(r, "tag") /\ k + n \in OfKey(r, "tag") /\ j <= n /\ k \in Nat \ {0}
          /\ got[j] = r[j] /\ rest[k] = r[k + n]
      BY <1>4
    <3>2. j \in Int /\ n \in Int
      BY <1>1, <1>3, <3>1
    <3>3. j < k + n
      BY <3>1, <3>2
    <3>4. QED
      BY <1>7, <3>1, <3>3 DEF Ascending
  <2>3. QED
    BY <2>1, <2>2 DEF Ascending, Before, Tags
<1>8. ASSUME NEW c \in Clocks
      PROVE  Expired(r, c) = Expired(got, c) + Expired(rest, c)
  <2>1. Once(r, c)
    <3>1. Clocks \subseteq Keys \ Counts
      BY DEF Clocks, Keys, Counts
    <3>2. QED
      BY <3>1, ClocksOnce DEF r
  <2>2. Once(got, c) /\ Once(rest, c)
    <3>1. ASSUME NEW j \in OfKey(rest, c), NEW k \in OfKey(rest, c) PROVE j = k
      <4>1. j + n = k + n /\ j \in Nat /\ k \in Nat
        BY <1>4, <2>1 DEF Once
      <4>2. QED
        BY <1>1, <4>1
    <3>2. QED
      BY <1>4, <2>1, <3>1 DEF Once
  <2>3. ASSUME NEW j \in OfKey(got, c), NEW k \in OfKey(rest, c) PROVE FALSE
    <3>1. j = k + n /\ j <= n /\ k \in Nat \ {0}
      BY <1>4, <2>1 DEF Once
    <3>2. QED
      BY <1>1, <3>1
  <2>4. CASE OfKey(r, c) = {}
    <3>1. OfKey(got, c) = {} /\ OfKey(rest, c) = {}
      BY <1>4, <2>4
    <3>2. QED
      BY <1>1, <1>2, <2>1, <2>2, <2>4, <3>1, ExpiredIs
  <2>5. ASSUME NEW p \in OfKey(r, c) PROVE Expired(r, c) = Expired(got, c) + Expired(rest, c)
    <3>1. Expired(r, c) = r[p].data /\ Expired(r, c) \in Nat
      BY <1>1, <2>1, ExpiredIs, ContentsType
    <3>2. CASE p \in OfKey(got, c)
      <4>1. Expired(got, c) = r[p].data
        BY <1>2, <1>4, <2>2, <3>2, ExpiredIs
      <4>2. Expired(rest, c) = 0
        BY <1>2, <2>2, <2>3, <3>2, ExpiredIs
      <4>3. QED
        BY <3>1, <4>1, <4>2
    <3>3. CASE p - n \in OfKey(rest, c)
      <4>1. (p - n) + n = p
        BY <1>1, <1>3
      <4>2. rest[p - n] = r[p]
        BY <1>4, <3>3, <4>1
      <4>3. Expired(rest, c) = r[p].data
        BY <1>2, <2>2, <3>3, <4>2, ExpiredIs
      <4>4. Expired(got, c) = 0
        BY <1>2, <2>2, <2>3, <3>3, ExpiredIs
      <4>5. QED
        BY <3>1, <4>3, <4>4
    <3>4. QED
      BY <1>4, <3>2, <3>3
  <2>6. QED
    BY <2>4, <2>5
<1>9. Expirations(r) = Expirations(got) + Expirations(rest)
  <2>1. /\ Expired(r, "timer") = Expired(got, "timer") + Expired(rest, "timer")
        /\ Expired(r, "hrtimer") = Expired(got, "hrtimer") + Expired(rest, "hrtimer")
    BY <1>8 DEF Clocks
  <2>2. \A c : Expired(got, c) \in Nat /\ Expired(rest, c) \in Nat
    BY <1>2, ContentsType
  <2>3. QED
    BY <2>1, <2>2 DEF Expirations
<1>10. QED
  BY <1>5, <1>6, <1>7, <1>9 DEF r, got, rest

LEMMA TookKeeps ==
  ASSUME NEW s, WellKept(s), NEW n \in 0 .. Len(s.ready)
  PROVE  /\ WellKept(Took(s, n)) /\ Took(s, n).deleted = s.deleted
         /\ Took(s, n).ready = SubSeq(s.ready, n + 1, Len(s.ready))
         /\ s.ready = <<>> => Took(s, n).ready = <<>>
<1> DEFINE q == Took(s, n)
           rest == SubSeq(s.ready, n + 1, Len(s.ready))
           L == Len(s.ready)
           C == Coalescible(s)
           up == {k \in C : k <= n}
           down == {k \in 1 .. L - n : k + n \in C}
<1>1. /\ s.ready \in Seq(Event) /\ s.coalescible \in Nat /\ s.deleted \in BOOLEAN
      /\ s \in QueueType /\ L \in Nat /\ DOMAIN s.ready = 1 .. L
      /\ C \in SUBSET (1 .. L) /\ s.coalescible = Cardinality(C) /\ s.coalescible <= Cap
      /\ \A k \in 1 .. L : s.ready[k] \in Event /\ Kept(s.ready[k])
  BY Mergeable, Reading DEF WellKept, QueueType, QueueOK
<1>2. rest \in Seq(Event) /\ Len(rest) = L - n /\ \A k \in 1 .. L - n : rest[k] = s.ready[k + n]
  BY <1>1, CutSequence
<1>3. DOMAIN rest = 1 .. L - n
  BY <1>2, Reading
<1> HIDE DEF rest
<1>4. Cardinality(C) = Cardinality(up) + Cardinality(down)
  BY <1>1, Cut
<1>5. Cardinality(up) \in Nat /\ Cardinality(down) \in Nat
  <2>1. up \in SUBSET (1 .. L) /\ down \in SUBSET (1 .. L)
    BY <1>1
  <2>2. Cardinality(up) \in Nat
    BY <1>1, <2>1, PositionsFinite
  <2>3. Cardinality(down) \in Nat
    BY <1>1, <2>1, PositionsFinite
  <2>4. QED
    BY <2>2, <2>3
<1>6. /\ q = [s EXCEPT !.ready = rest, !.coalescible = s.coalescible - Cardinality(up)]
      /\ q.ready = rest /\ q.deleted = s.deleted
      /\ q.coalescible = s.coalescible - Cardinality(up)
  <2>1. q = [s EXCEPT !.ready = rest, !.coalescible = s.coalescible - Cardinality(up)]
    BY DEF Took, rest
  <2> HIDE DEF up
  <2>2. QED
    BY <1>1, <2>1 DEF QueueType
<1> HIDE DEF q
<1>7. s.coalescible - Cardinality(up) = Cardinality(down)
  BY <1>1, <1>4, <1>5
<1>8. q \in QueueType
  <2> DEFINE y == s.coalescible - Cardinality(up)
  <2>1. y \in Nat
    BY <1>5, <1>7
  <2>2. q = [s EXCEPT !.ready = rest, !.coalescible = y]
    BY <1>6
  <2> HIDE DEF y
  <2>3. [s EXCEPT !.ready = rest, !.coalescible = y] \in QueueType
    BY <1>1, <1>2, <2>1, QueueChanged
  <2>4. QED
    BY <2>2, <2>3
<1>9. \A k \in DOMAIN q.ready : k + n \in 1 .. L /\ q.ready[k] = s.ready[k + n]
  BY <1>1, <1>2, <1>3, <1>6
<1>10. Coalescible(q) = down
  BY <1>1, <1>3, <1>6, <1>9 DEF Coalescible
<1>11. \A k \in DOMAIN q.ready : q.ready[k] \in Event /\ Kept(q.ready[k])
  BY <1>1, <1>9
<1>12. ASSUME NEW j \in Coalescible(q), NEW k \in Coalescible(q), q.ready[j].key = q.ready[k].key
       PROVE  j = k
  <2>1. j + n \in C /\ k + n \in C /\ j \in 1 .. L - n /\ k \in 1 .. L - n
    BY <1>10
  <2>2. q.ready[j] = s.ready[j + n] /\ q.ready[k] = s.ready[k + n]
    BY <1>3, <1>6, <1>9, <2>1
  <2>3. j + n = k + n
    BY <1>12, <2>1, <2>2 DEF WellKept, QueueOK
  <2>4. QED
    BY <1>1, <2>1, <2>3
<1>13. q.coalescible = Cardinality(Coalescible(q)) /\ q.coalescible <= Cap
  <2>1. q.coalescible = Cardinality(down) /\ Cardinality(Coalescible(q)) = Cardinality(down)
    BY <1>6, <1>7, <1>10
  <2> HIDE DEF up, down
  <2>2. Cardinality(down) <= Cardinality(C)
    BY <1>4, <1>5
  <2>3. QED
    BY <1>1, <1>4, <1>5, <2>1, <2>2, ConstantsAssumption
<1>14. WellKept(q)
  BY <1>1, <1>6, <1>8, <1>11, <1>12, <1>13 DEF WellKept, QueueOK
<1>15. ASSUME s.ready = <<>> PROVE rest = <<>>
  <2>1. L = 0
    BY <1>15
  <2>2. n = 0
    BY <2>1
  <2>3. Len(rest) = 0
    BY <1>2, <2>1, <2>2
  <2>4. QED
    BY <1>2, <2>3, EmptySeq
<1>16. QED
  BY <1>6, <1>14, <1>15 DEF q, rest

-----------------------------------------------------------------------------
(***************************************************************************)
(* The invariant.                                                          *)
(***************************************************************************)
LEMMA EmptyKept == WellKept(Empty)
<1>1. Empty.ready = <<>> /\ Empty.coalescible = 0 /\ Empty.deleted = FALSE /\ Empty \in QueueType
  BY DEF Empty, QueueType
<1>2. DOMAIN Empty.ready = {} /\ Coalescible(Empty) = {}
  BY <1>1 DEF Coalescible
<1>3. 0 = Cardinality(Coalescible(Empty)) /\ 0 <= Cap
  BY <1>2, FS_EmptySet, ConstantsAssumption
<1>4. QED
  BY <1>1, <1>2, <1>3 DEF WellKept, QueueOK

LEMMA InitInv ==
  ASSUME Init
  PROVE  EqueueInv
<1>1. Types
  <2>1. Empty \in QueueType
    BY DEF Empty, QueueType
  <2>2. NoTimer \in TimerType
    BY DEF NoTimer, TimerType, TimerPlace
  <2>3. [identity |-> 0, at |-> "unused"] \in ReadType
    BY DEF ReadType
  <2>4. [tags |-> {}, eop |-> 0, expired |-> 0] \in TakenType
    BY DEF TakenType
  <2>5. [tags |-> {}, eop |-> 0, expired |-> 0, shed |-> 0] \in OwedType
    BY DEF OwedType
  <2>6. QED
    BY <2>1, <2>2, <2>3, <2>4, <2>5 DEF Init, Types
<1>2. Queues
  BY EmptyKept DEF Init, Queues
<1>3. Holding
  BY DEF Init, Holding
<1>4. Posts
  BY DEF Init, Posts, Posters
<1>5. TimerPosts
  BY DEF Init, TimerPosts, NoTimer, Posters
<1>6. Addresses
  BY DEF Init, Addresses, Empty
<1>7. Fresh /\ Numbered
  BY DEF Init, Fresh, Numbered
<1>8. QED
  BY <1>1, <1>2, <1>3, <1>4, <1>5, <1>6, <1>7 DEF EqueueInv

LEMMA PostIs ==
  ASSUME NEW ps \in Seq(PostType), NEW k \in DOMAIN ps
  PROVE  /\ ps[k] \in PostType /\ ps[k].eq \in Handles /\ ps[k].identity \in {0} \cup Identities
         /\ ps[k].event \in Event
<1>1. ps[k] \in PostType
  BY Reading
<1>2. QED
  BY <1>1 DEF PostType

LEMMA CreateKeeps ==
  ASSUME EqueueInv, NEW t \in Callers, Create(t)
  PROVE  EqueueInv'
<1>1. PICK i \in Identities, h \in Handles :
        /\ i \notin Created /\ Unreferenced(h)
        /\ table' = [table EXCEPT ![h] = i]
        /\ at' = [at EXCEPT ![i] = h]
  BY DEF Create
<1>2. UNCHANGED <<queue, regs, pc, timed, todo, held, timer, timerOf, eopPending, burst,
                  pq, hwm, read, work, taken, owed>>
  BY DEF Create, gpu, files, clocks, history
<1>3. Types'
  BY <1>1, <1>2 DEF EqueueInv, Types
<1>4. Queues'
  BY <1>2 DEF EqueueInv, Queues
<1>5. at[i] = None /\ h # None /\ \A j \in Identities : j # i => at'[j] = at[j]
  BY <1>1, ConstantsAssumption DEF EqueueInv, Types, Created
<1>6. \A q : (q.identity \in {0} \cup Identities /\ q.eq \in Handles) =>
         \A p : Fits(p, q) => Fits(p, q)'
  BY <1>5, ConstantsAssumption DEF Fits
<1>7. Posts'
  <2>1. ASSUME NEW p \in Posters, NEW k \in DOMAIN todo[p] PROVE Fits(p, todo[p][k])'
    <3>1. todo[p][k].eq \in Handles /\ todo[p][k].identity \in {0} \cup Identities
      BY PostIs DEF EqueueInv, Types
    <3>2. Fits(p, todo[p][k])
      BY DEF EqueueInv, Posts
    <3>3. QED
      BY <1>2, <1>6, <3>1, <3>2
  <2>2. ASSUME NEW k \in DOMAIN pq PROVE Fits("ptr", pq[k])'
    <3>1. pq[k].eq \in Handles /\ pq[k].identity \in {0} \cup Identities
      BY PostIs DEF EqueueInv, Types
    <3>2. Fits("ptr", pq[k])
      BY DEF EqueueInv, Posts
    <3>3. QED
      BY <1>2, <1>6, <3>1, <3>2
  <2>3. QED
    BY <1>2, <2>1, <2>2 DEF EqueueInv, Posts
<1>8. Holding'
  BY <1>2, <1>5 DEF EqueueInv, Types, Holding, Addresses
<1>9. TimerPosts'
  <2>1. ASSUME NEW k \in Timers, timer[k].at \in {"asleep", "posting"}
        PROVE  at'[timer[k].meant] = at[timer[k].meant]
    <3>1. timer[k].meant \in Identities /\ at[timer[k].meant] \in Handles
      BY <2>1 DEF EqueueInv, Types, TimerPosts, TimerType
    <3>2. QED
      BY <1>5, <3>1, ConstantsAssumption
  <2>2. QED
    BY <1>2, <2>1 DEF EqueueInv, TimerPosts
<1>10. Addresses'
  <2>1. table[h] # i /\ \A g \in Handles : g # h => table'[g] = table[g]
    <3>1. i # 0
      BY ConstantsAssumption DEF Identities
    <3>2. table[h] # i
      BY <1>1, <1>5, <3>1 DEF EqueueInv, Addresses
    <3>3. QED
      BY <1>1, <3>2 DEF EqueueInv, Types
  <2>2. table'[h] = i /\ at'[i] = h
    BY <1>1 DEF EqueueInv, Types
  <2>3. \A j \in Created : j # i /\ at'[j] = at[j] /\ at[j] \in Handles
    BY <1>1, <1>5 DEF EqueueInv, Types, Created
  <2>4. \A g \in Handles : table'[g] # 0 => at'[table'[g]] = g
    <3>1. \A g \in Handles : table[g] # 0 => table[g] \in Created /\ at[table[g]] = g
      BY ConstantsAssumption DEF EqueueInv, Types, Addresses, Created
    <3>2. QED
      BY <2>1, <2>2, <2>3, <3>1
  <2>5. ASSUME NEW p \in Posters, held[p] # 0
        PROVE  /\ held[p] \in Created /\ at'[held[p]] = at[held[p]] /\ at[held[p]] # h
               /\ table'[at[held[p]]] = table[at[held[p]]]
    <3>1. held[p] \in Created
      BY <2>5 DEF EqueueInv, Types, Addresses, Created
    <3>2. at[held[p]] # h
      BY <1>1, <3>1 DEF Unreferenced
    <3>3. QED
      BY <2>1, <2>3, <3>1, <3>2
  <2>6. \A p \in Posters : held[p] # 0 =>
          at'[held[p]] # None /\ table'[at'[held[p]]] \in {0, held[p]}
    BY <2>5 DEF EqueueInv, Addresses
  <2>7. \A j \in Created : ~Bound(j) => ~(Bound(j)')
    <3>1. ASSUME NEW j \in Created, Bound(j)' PROVE Bound(j)
      <4>1. j # i /\ at'[j] = at[j] /\ table'[at[j]] = j
        BY <2>3, <3>1 DEF Bound
      <4>2. QED
        BY <2>1, <2>2, <2>3, <3>1, <4>1 DEF Bound
    <3>2. QED
      BY <3>1
  <2>8. \A u \in Threads : pc[u] = "deleting" => held[u] \in Created
    BY <2>5 DEF EqueueInv, Holding, Posters
  <2>9. \A j \in Identities : j \in Created => j \in Created'
    BY <1>5 DEF Created
  <2>10. (\A u \in Threads : pc[u] = "deleting" => ~Bound(held[u]))'
    <3>1. ASSUME NEW u \in Threads, pc[u] = "deleting" PROVE ~(Bound(held[u])')
      <4>1. ~Bound(held[u]) /\ held[u] \in Created
        BY <2>8, <3>1 DEF EqueueInv, Addresses
      <4>2. PICK j \in Created : j = held[u] /\ ~Bound(j)
        BY <4>1
      <4>3. ~(Bound(j)')
        BY <2>7, <4>2
      <4>4. held'[u] = j
        BY <1>2, <4>2
      <4>5. QED
        BY <4>3, <4>4 DEF Bound, Created
    <3>2. QED
      BY <1>2, <3>1
  <2>11. \A j \in Identities : queue'[j].deleted => (j \in Created /\ ~Bound(j))'
    BY <1>2, <2>7, <2>9 DEF EqueueInv, Addresses
  <2>12. \A k \in Reads : read'[k].at = "asleep" => (read[k].identity \in Created)'
    BY <1>2, <2>9 DEF EqueueInv, Types, ReadType, Addresses, Created
  <2>13. QED
    BY <1>2, <2>4, <2>6, <2>10, <2>11, <2>12 DEF Addresses
<1>11. Fresh' /\ Numbered'
  BY <1>1, <1>2, <1>5, ConstantsAssumption DEF EqueueInv, Types, Fresh, Numbered, Created
<1>12. QED
  BY <1>3, <1>4, <1>7, <1>8, <1>9, <1>10, <1>11 DEF EqueueInv

\* What is left to post was to be posted before.
LEMMA TailIs ==
  ASSUME NEW S, NEW ps \in Seq(S), ps # <<>>
  PROVE  /\ Tail(ps) \in Seq(S) /\ Len(Tail(ps)) = Len(ps) - 1 /\ Len(ps) \in Nat \ {0}
         /\ DOMAIN ps = 1 .. Len(ps) /\ DOMAIN Tail(ps) = 1 .. Len(ps) - 1
         /\ Head(ps) = ps[1] /\ ps[1] \in S /\ 1 \in DOMAIN ps
         /\ \A k \in DOMAIN Tail(ps) : Tail(ps)[k] = ps[k + 1] /\ k + 1 \in DOMAIN ps
<1>1. Len(ps) \in Nat \ {0} /\ DOMAIN ps = 1 .. Len(ps) /\ \A k \in 1 .. Len(ps) : ps[k] \in S
  BY Reading, EmptySeq
<1>2. /\ Tail(ps) \in Seq(S) /\ Len(Tail(ps)) = Len(ps) - 1 /\ Head(ps) = ps[1]
      /\ \A k \in 1 .. Len(ps) - 1 : Tail(ps)[k] = ps[k + 1]
  BY HeadTailProperties
<1>3. DOMAIN Tail(ps) = 1 .. Len(ps) - 1
  BY <1>2, Reading
<1>4. QED
  BY <1>1, <1>2, <1>3

\* The post a thread is about to make.
LEMMA HeadIs ==
  ASSUME EqueueInv, NEW p \in Posters, todo[p] # <<>>
  PROVE  /\ todo[p] \in Seq(PostType) /\ Head(todo[p]) \in PostType
         /\ Head(todo[p]).eq \in Handles /\ Head(todo[p]).identity \in {0} \cup Identities
         /\ Head(todo[p]).event \in Event /\ Fits(p, Head(todo[p]))
         /\ p \in Threads => pc[p] = "idle"
<1>1. todo[p] \in Seq(PostType)
  BY DEF EqueueInv, Types
<1>2. Head(todo[p]) = todo[p][1] /\ 1 \in DOMAIN todo[p]
  BY <1>1, TailIs
<1>3. Fits(p, Head(todo[p]))
  BY <1>2 DEF EqueueInv, Posts
<1>4. p \in Threads => pc[p] = "idle"
  BY DEF EqueueInv, Holding
<1>5. QED
  BY <1>1, <1>2, <1>3, <1>4, PostIs

LEMMA FindKeeps ==
  ASSUME EqueueInv, NEW p \in Posters, Find(p)
  PROVE  EqueueInv'
<1> DEFINE q == Head(todo[p])
           f == Found(q.eq, q.identity)
<1>1. /\ todo[p] # <<>> /\ held[p] = 0
      /\ \/ f = 0 /\ todo' = [todo EXCEPT ![p] = Tail(@)] /\ held' = held
         \/ f # 0 /\ held' = [held EXCEPT ![p] = f] /\ todo' = todo
      /\ UNCHANGED <<table, at, queue, regs, pc, timed, timer, timerOf, eopPending, burst, pq,
                     hwm, read, work, taken, owed>>
  BY DEF Find, gpu, files, clocks, history
<1>2. /\ todo[p] \in Seq(PostType) /\ q.eq \in Handles /\ q.identity \in {0} \cup Identities
      /\ (p \in Threads => pc[p] = "idle")
  BY <1>1, HeadIs
<1>3. f # 0 => f = table[q.eq] /\ q.identity \in {0, f} /\ at[f] = q.eq /\ f \in Identities
  BY <1>2 DEF Found, EqueueInv, Types, Addresses
<1> HIDE DEF f, q
<1>4. /\ Tail(todo[p]) \in Seq(PostType)
      /\ \A k \in DOMAIN Tail(todo[p]) : Tail(todo[p])[k] = todo[p][k + 1] /\ k + 1 \in DOMAIN todo[p]
  BY <1>1, <1>2, TailIs
<1>5. /\ \A r \in Posters : r # p => todo'[r] = todo[r] /\ held'[r] = held[r]
      /\ \/ f = 0 /\ todo'[p] = Tail(todo[p]) /\ held'[p] = 0
         \/ f # 0 /\ todo'[p] = todo[p] /\ held'[p] = f
  BY <1>1 DEF EqueueInv, Types
<1>6. Types'
  <2>1. todo' \in [Posters -> Seq(PostType)]
    BY <1>1, <1>4 DEF EqueueInv, Types
  <2>2. held' \in [Posters -> {0} \cup Identities]
    BY <1>1, <1>3 DEF EqueueInv, Types
  <2>3. QED
    BY <1>1, <2>1, <2>2 DEF EqueueInv, Types
<1>7. Queues' /\ Fresh' /\ Numbered'
  BY <1>1 DEF EqueueInv, Queues, Fresh, Numbered, Created
<1>8. Holding'
  BY <1>1, <1>2, <1>3, <1>5 DEF EqueueInv, Holding, Posters, q
<1>9. \A r \in Posters : \A k \in DOMAIN todo'[r] : \E j \in DOMAIN todo[r] : todo'[r][k] = todo[r][j]
  <2>1. \A k \in DOMAIN Tail(todo[p]) : \E j \in DOMAIN todo[p] : Tail(todo[p])[k] = todo[p][j]
    BY <1>4
  <2>2. todo'[p] \in {todo[p], Tail(todo[p])} /\ \A r \in Posters : r # p => todo'[r] = todo[r]
    BY <1>5
  <2>3. ASSUME NEW r \in Posters, NEW k \in DOMAIN todo'[r]
        PROVE  \E j \in DOMAIN todo[r] : todo'[r][k] = todo[r][j]
    <3>1. CASE todo'[r] = todo[r]
      BY <3>1
    <3>2. CASE r = p /\ todo'[p] = Tail(todo[p])
      BY <2>1, <3>2
    <3>3. QED
      BY <2>2, <3>1, <3>2
  <2>4. QED
    BY <2>3
<1>10. Posts'
  <2>1. \A r \in Posters : \A k \in DOMAIN todo'[r] : Fits(r, todo'[r][k])
    BY <1>9 DEF EqueueInv, Posts
  <2>2. \A r \in Reads : todo'[r] # <<>> => todo[r] # <<>>
    BY <1>1, <1>5 DEF Posters
  <2>3. QED
    BY <1>1, <2>1, <2>2 DEF EqueueInv, Posts, Fits
<1>11. TimerPosts'
  <2>1. \A k \in Timers : todo'[k] # <<>> => todo'[k] = todo[k]
    <3>1. ASSUME p \in Timers PROVE Tail(todo[p]) = <<>>
      <4>1. Len(todo[p]) = 1
        BY <1>1, <3>1 DEF EqueueInv, TimerPosts
      <4>2. Len(Tail(todo[p])) = 0
        BY <1>1, <1>2, <4>1, TailIs
      <4>3. QED
        BY <1>4, <4>2, EmptySeq
    <3>2. QED
      BY <1>5, <3>1 DEF Posters
  <2>2. QED
    BY <1>1, <2>1 DEF EqueueInv, TimerPosts
<1>12. Addresses'
  <2>1. ASSUME NEW r \in Posters, held'[r] # 0
        PROVE  at[held'[r]] # None /\ table[at[held'[r]]] \in {0, held'[r]}
    <3>1. CASE r = p
      BY <1>2, <1>3, <1>5, <2>1, <3>1, ConstantsAssumption
    <3>2. CASE r # p
      BY <1>5, <2>1, <3>2 DEF EqueueInv, Addresses
    <3>3. QED
      BY <3>1, <3>2
  <2>2. \A u \in Threads : pc[u] = "deleting" => held'[u] = held[u]
    BY <1>2, <1>5 DEF Posters
  <2>3. QED
    BY <1>1, <2>1, <2>2 DEF EqueueInv, Addresses, Bound, Created
<1>13. QED
  BY <1>6, <1>7, <1>8, <1>10, <1>11, <1>12 DEF EqueueInv

\* A reference is to a queue that was created.
LEMMA HeldIs ==
  ASSUME EqueueInv, NEW p \in Posters, held[p] # 0
  PROVE  held[p] \in Created /\ at[held[p]] \in Handles
BY DEF EqueueInv, Types, Addresses, Created

\* Posting wakes threads and goes on to the next post.
LEMMA DeliverIs ==
  ASSUME EqueueInv, NEW p \in Posters, Deliver(p)
  PROVE  LET i == held[p]
             e == Head(todo[p]).event
         IN  /\ todo[p] # <<>> /\ i # 0 /\ i \in Created /\ e \in Event /\ Kept(e)
             /\ \/ /\ queue[i].deleted
                   /\ UNCHANGED <<queue, owed>>
                \/ /\ ~queue[i].deleted
                   /\ queue' = [queue EXCEPT ![i] = Posted(queue[i], e)]
                   /\ owed' = [owed EXCEPT ![i].shed = owed[i].shed + ShedExpirations(queue[i], e)]
             /\ todo' = [todo EXCEPT ![p] = Tail(todo[p])]
             /\ held' = [held EXCEPT ![p] = 0]
             /\ pc' \in [Threads -> {"idle", "deleting", "locking", "asleep"}]
             /\ \A t \in Threads : pc'[t] = pc[t] \/ (pc[t] = "asleep" /\ pc'[t] = "locking")
             /\ ~queue[i].deleted => \A t \in Threads : held[t] = i => pc'[t] # "asleep"
             /\ UNCHANGED <<table, at, regs, timed, timer, timerOf, eopPending, burst, pq,
                            hwm, read, work, taken>>
<1> DEFINE i == held[p]
           e == Head(todo[p]).event
<1>1. /\ todo[p] # <<>> /\ i # 0
      /\ \/ queue[i].deleted /\ UNCHANGED <<queue, pc, owed>>
         \/ /\ ~queue[i].deleted
            /\ queue' = [queue EXCEPT ![i] = Posted(queue[i], e)]
            /\ owed' = [owed EXCEPT ![i].shed = owed[i].shed + ShedExpirations(queue[i], e)]
            /\ pc' = Notified(i)
      /\ todo' = [todo EXCEPT ![p] = Tail(todo[p])] /\ held' = [held EXCEPT ![p] = 0]
      /\ UNCHANGED <<table, at, regs, timed, timer, timerOf, eopPending, burst, pq,
                     hwm, read, work, taken>>
  BY DEF Deliver, gpu, files, clocks
<1>2. e \in Event /\ Kept(e)
  BY <1>1, HeadIs DEF Fits
<1>3. i \in Created
  BY <1>1, HeldIs
<1>4. pc \in [Threads -> {"idle", "deleting", "locking", "asleep"}]
  BY DEF EqueueInv, Types
<1> HIDE DEF i, e
<1>5. /\ pc' \in [Threads -> {"idle", "deleting", "locking", "asleep"}]
      /\ \A t \in Threads : pc'[t] = pc[t] \/ (pc[t] = "asleep" /\ pc'[t] = "locking")
      /\ ~queue[i].deleted => \A t \in Threads : held[t] = i => pc'[t] # "asleep"
  <2>1. CASE queue[i].deleted
    BY <1>1, <1>4, <2>1
  <2>2. CASE ~queue[i].deleted
    BY <1>1, <1>4, <2>2 DEF Notified
  <2>3. QED
    BY <2>1, <2>2
<1>6. QED
  BY <1>1, <1>2, <1>3, <1>5 DEF i, e

LEMMA DeliverKeeps ==
  ASSUME EqueueInv, NEW p \in Posters, Deliver(p)
  PROVE  EqueueInv'
<1> DEFINE i == held[p]
           e == Head(todo[p]).event
<1>1. /\ todo[p] # <<>> /\ i # 0 /\ i \in Created /\ i \in Identities /\ e \in Event /\ Kept(e)
      /\ \/ /\ queue[i].deleted
            /\ UNCHANGED <<queue, owed>>
         \/ /\ ~queue[i].deleted
            /\ queue' = [queue EXCEPT ![i] = Posted(queue[i], e)]
            /\ owed' = [owed EXCEPT ![i].shed = owed[i].shed + ShedExpirations(queue[i], e)]
      /\ todo' = [todo EXCEPT ![p] = Tail(todo[p])]
      /\ held' = [held EXCEPT ![p] = 0]
      /\ pc' \in [Threads -> {"idle", "deleting", "locking", "asleep"}]
      /\ \A t \in Threads : pc'[t] = pc[t] \/ (pc[t] = "asleep" /\ pc'[t] = "locking")
      /\ UNCHANGED <<table, at, regs, timed, timer, timerOf, eopPending, burst, pq,
                     hwm, read, work, taken>>
  BY DeliverIs DEF Created
<1>2. /\ todo[p] \in Seq(PostType) /\ (p \in Threads => pc[p] = "idle")
  BY <1>1, HeadIs
<1> HIDE DEF i, e
<1>3. /\ Tail(todo[p]) \in Seq(PostType)
      /\ \A k \in DOMAIN Tail(todo[p]) : Tail(todo[p])[k] = todo[p][k + 1] /\ k + 1 \in DOMAIN todo[p]
  BY <1>1, <1>2, TailIs
<1>4. /\ \A r \in Posters : r # p => todo'[r] = todo[r] /\ held'[r] = held[r]
      /\ todo'[p] = Tail(todo[p]) /\ held'[p] = 0
  BY <1>1 DEF EqueueInv, Types
<1>5. WellKept(queue[i])
  BY <1>1 DEF EqueueInv, Queues
<1>6. /\ WellKept(Posted(queue[i], e)) /\ Posted(queue[i], e).deleted = queue[i].deleted
      /\ ShedExpirations(queue[i], e) \in Nat
  BY <1>1, <1>5, PostedKeeps, PostedExpirations
<1>7. \A j \in Identities : WellKept(queue'[j]) /\ queue'[j].deleted = queue[j].deleted
  <2>1. \A j \in Identities : queue'[j] = queue[j] \/ (j = i /\ queue'[j] = Posted(queue[i], e))
    BY <1>1 DEF EqueueInv, Types
  <2>2. QED
    BY <1>6, <2>1 DEF EqueueInv, Queues
<1>8. /\ owed' \in [Identities -> OwedType] /\ \A j \in Identities : owed'[j].tags = owed[j].tags
      /\ \A j \in Identities : j # i => owed'[j] = owed[j]
  <2>1. owed[i].shed \in Nat
    BY <1>1 DEF EqueueInv, Types, OwedType
  <2> DEFINE d == owed[i].shed + ShedExpirations(queue[i], e)
  <2>2. d \in Nat
    BY <1>6, <2>1
  <2>3. owed' = owed \/ owed' = [owed EXCEPT ![i].shed = d]
    BY <1>1
  <2> HIDE DEF d
  <2>4. owed \in [Identities -> OwedType]
    BY DEF EqueueInv, Types
  <2>5. [owed[i] EXCEPT !.shed = d] \in OwedType /\ [owed[i] EXCEPT !.shed = d].tags = owed[i].tags
    <3>1. owed[i] \in OwedType
      BY <1>1, <2>4 DEF Created
    <3>2. QED
      BY <2>2, <3>1 DEF OwedType
  <2>6. owed' = owed \/ owed' = [owed EXCEPT ![i] = [owed[i] EXCEPT !.shed = d]]
    BY <1>1, <2>3, <2>4
  <2>7. QED
    BY <1>1, <2>4, <2>5, <2>6
<1>9. queue' \in [Identities -> QueueType]
  <2>1. queue \in [Identities -> QueueType] /\ Posted(queue[i], e) \in QueueType
    BY <1>6 DEF EqueueInv, Types, WellKept
  <2>2. QED
    BY <1>1, <2>1
<1>10. Types'
  BY <1>1, <1>3, <1>8, <1>9 DEF EqueueInv, Types
<1>11. Queues'
  BY <1>7 DEF Queues
<1>12. Holding'
  <2>1. ASSUME NEW t \in Threads, pc'[t] # "idle" PROVE t # p /\ pc[t] # "idle"
    BY <1>1, <1>2, <2>1
  <2>2. \A t \in Threads : pc'[t] # "idle" => todo'[t] = <<>> /\ held'[t] # 0
    BY <1>4, <2>1 DEF EqueueInv, Holding, Posters
  <2>3. \A r \in Posters : held'[r] # 0 => r # p
    BY <1>4
  <2>4. \A t \in Threads : pc[t] # "idle" => pc'[t] # "idle"
    BY <1>1
  <2>5. \A r \in Posters : held'[r] # 0 /\ todo'[r] = <<>> => r \in Threads /\ pc'[r] # "idle"
    BY <1>4, <2>3, <2>4 DEF EqueueInv, Holding
  <2>6. \A r \in Posters : held'[r] # 0 /\ todo'[r] # <<>> =>
          Head(todo'[r]).eq = at'[held'[r]] /\ Head(todo'[r]).identity \in {0, held'[r]}
    BY <1>1, <1>4, <2>3 DEF EqueueInv, Holding
  <2>7. QED
    BY <2>2, <2>5, <2>6 DEF Holding
<1>13. Posts'
  <2>1. \A r \in Posters : \A k \in DOMAIN todo'[r] : \E j \in DOMAIN todo[r] : todo'[r][k] = todo[r][j]
    <3>1. ASSUME NEW r \in Posters, NEW k \in DOMAIN todo'[r]
          PROVE  \E j \in DOMAIN todo[r] : todo'[r][k] = todo[r][j]
      <4>1. CASE r = p
        BY <1>3, <1>4, <3>1, <4>1
      <4>2. CASE r # p
        BY <1>4, <3>1, <4>2
      <4>3. QED
        BY <4>1, <4>2
    <3>2. QED
      BY <3>1
  <2>2. \A r \in Posters : \A k \in DOMAIN todo'[r] : Fits(r, todo'[r][k])
    BY <2>1 DEF EqueueInv, Posts
  <2>3. \A r \in Reads : todo'[r] # <<>> => todo[r] # <<>>
    BY <1>1, <1>4 DEF Posters
  <2>4. UNCHANGED <<at, pq, read>>
    BY <1>1
  <2>5. QED
    BY <2>2, <2>3, <2>4 DEF EqueueInv, Posts, Fits
<1>14. TimerPosts'
  <2>1. \A k \in Timers : todo'[k] # <<>> => todo'[k] = todo[k]
    <3>1. ASSUME p \in Timers PROVE Tail(todo[p]) = <<>>
      <4>1. Len(todo[p]) = 1
        BY <1>1, <3>1 DEF EqueueInv, TimerPosts
      <4>2. Len(Tail(todo[p])) = 0
        BY <1>1, <1>2, <4>1, TailIs
      <4>3. QED
        BY <1>3, <4>2, EmptySeq
    <3>2. QED
      BY <1>4, <3>1 DEF Posters
  <2>2. QED
    BY <1>1, <2>1 DEF EqueueInv, TimerPosts
<1>15. Addresses'
  <2>1. \A r \in Posters : held'[r] # 0 => held'[r] = held[r]
    BY <1>4
  <2>2. \A t \in Threads : pc'[t] = "deleting" => pc[t] = "deleting" /\ held'[t] = held[t]
    BY <1>1, <1>2, <1>4 DEF Posters
  <2>3. \A j \in Identities : queue'[j].deleted = queue[j].deleted
    BY <1>7
  <2>4. QED
    BY <1>1, <2>1, <2>2, <2>3 DEF EqueueInv, Addresses, Bound, Created
<1>16. Fresh'
  <2>1. \A j \in Identities \ Created : j # i /\ queue'[j] = queue[j] /\ owed'[j] = owed[j]
    BY <1>1, <1>8 DEF EqueueInv, Types
  <2>2. QED
    BY <1>1, <2>1 DEF EqueueInv, Fresh, Created
<1>17. Numbered'
  BY <1>1, <1>8 DEF EqueueInv, Numbered
<1>18. QED
  BY <1>10, <1>11, <1>12, <1>13, <1>14, <1>15, <1>16, <1>17 DEF EqueueInv

\* A thread with nothing to do has no reference.
LEMMA IdleIs ==
  ASSUME EqueueInv, NEW t \in Threads, Idle(t)
  PROVE  pc[t] = "idle" /\ todo[t] = <<>> /\ held[t] = 0 /\ t \in Posters
BY DEF EqueueInv, Holding, Idle, Posters

LEMMA WithoutType ==
  ASSUME NEW s \in Seq(Handles), NEW h \in Handles
  PROVE  Without(s, h) \in Seq(Handles)
<1>1. CASE Contains(s, h)
  <2>1. \E k \in 1 .. Len(s) : s[k] = h
    BY <1>1 DEF Contains
  <2>2. DOMAIN s = 1 .. Len(s)
    BY Reading
  <2>3. (CHOOSE k \in DOMAIN s : s[k] = h) \in 1 .. Len(s)
    BY <2>1, <2>2
  <2>4. QED
    BY <1>1, <2>3, RemovedAt DEF Without
<1>2. CASE ~Contains(s, h)
  BY <1>2 DEF Without
<1>3. QED
  BY <1>1, <1>2

LEMMA DeleteKeeps ==
  ASSUME EqueueInv, NEW t \in Callers, NEW h \in Handles, Delete(t, h)
  PROVE  EqueueInv'
<1> DEFINE i == table[h]
<1>1. /\ table' = [table EXCEPT ![h] = 0]
      /\ regs' = [s \in Sources |-> Without(regs[s], h)]
      /\ timer' = [k \in Timers |->
           IF k = timerOf[h] THEN [timer[k] EXCEPT !.cancelled = TRUE] ELSE timer[k]]
      /\ timerOf' = [timerOf EXCEPT ![h] = None]
      /\ held' = [held EXCEPT ![t] = i]
      /\ pc' = [pc EXCEPT ![t] = IF i # 0 THEN "deleting" ELSE "idle"]
      /\ UNCHANGED <<at, queue, timed, todo, eopPending, burst, pq, hwm, read, work, taken, owed>>
  BY DEF Delete, Live, gpu, files, history
<1>2. /\ t \in Threads /\ pc[t] = "idle" /\ todo[t] = <<>> /\ held[t] = 0 /\ t \in Posters
      /\ i \in {0} \cup Identities
  BY IdleIs DEF Delete, Threads, EqueueInv, Types
<1> HIDE DEF i
<1>3. /\ \A p \in Posters : p # t => held'[p] = held[p]
      /\ \A u \in Threads : u # t => pc'[u] = pc[u]
      /\ held'[t] = i /\ pc'[t] = (IF i # 0 THEN "deleting" ELSE "idle")
      /\ \A g \in Handles : g # h => table'[g] = table[g]
      /\ table'[h] = 0
  BY <1>1, <1>2 DEF EqueueInv, Types
<1>4. Types'
  <2>1. regs' \in [Sources -> Seq(Handles)]
    BY <1>1, WithoutType DEF EqueueInv, Types
  <2>2. timer' \in [Timers -> TimerType]
    <3>1. \A k \in Timers : timer[k] \in TimerType
      BY DEF EqueueInv, Types
    <3>2. \A x \in TimerType : [x EXCEPT !.cancelled = TRUE] \in TimerType
      BY DEF TimerType
    <3>3. QED
      BY <1>1, <3>1, <3>2
  <2>3. QED
    BY <1>1, <1>2, <2>1, <2>2 DEF EqueueInv, Types
<1>5. Queues' /\ Fresh' /\ Numbered'
  BY <1>1 DEF EqueueInv, Queues, Fresh, Numbered, Created
<1>6. Holding'
  BY <1>1, <1>2, <1>3 DEF EqueueInv, Holding, Posters
<1>7. Posts'
  BY <1>1 DEF EqueueInv, Posts, Fits
<1>8. TimerPosts'
  <2>1. \A k \in Timers : timer'[k].at = timer[k].at /\ timer'[k].meant = timer[k].meant
                            /\ timer'[k].eq = timer[k].eq
    BY <1>1 DEF EqueueInv, Types, TimerType
  <2>2. QED
    BY <1>1, <2>1 DEF EqueueInv, TimerPosts
<1>9. Addresses'
  <2>1. i # 0 => at[i] = h
    BY DEF EqueueInv, Addresses, i
  <2>2. \A g \in Handles : table'[g] # 0 => at[table'[g]] = g
    BY <1>3 DEF EqueueInv, Addresses
  <2>3. \A p \in Posters : held'[p] # 0 => at[held'[p]] # None /\ at[held'[p]] \in Handles
    <3>1. ASSUME NEW p \in Posters, held'[p] # 0
          PROVE  at[held'[p]] # None /\ at[held'[p]] \in Handles
      <4>1. CASE p = t
        BY <1>3, <2>1, <3>1, <4>1, ConstantsAssumption
      <4>2. CASE p # t
        BY <1>3, <3>1, <4>2, HeldIs, ConstantsAssumption
      <4>3. QED
        BY <4>1, <4>2
    <3>2. QED
      BY <3>1
  <2>4. \A p \in Posters : held'[p] # 0 => table'[at[held'[p]]] \in {0, held'[p]}
    <3>1. ASSUME NEW p \in Posters, held'[p] # 0 PROVE table'[at[held'[p]]] \in {0, held'[p]}
      <4>1. CASE p = t
        BY <1>3, <2>1, <3>1, <4>1
      <4>2. CASE p # t
        BY <1>3, <2>3, <3>1, <4>2 DEF EqueueInv, Addresses
      <4>3. QED
        BY <4>1, <4>2
    <3>2. QED
      BY <3>1
  <2>5. \A j \in Created : at[j] \in Handles /\ (table'[at[j]] = j => table[at[j]] = j)
    <3>1. \A j \in Created : at[j] \in Handles /\ j # 0
      BY ConstantsAssumption DEF EqueueInv, Types, Created, Identities
    <3>2. QED
      BY <1>3, <3>1
  <2>6. ASSUME NEW u \in Threads, pc'[u] = "deleting"
        PROVE  ~(held'[u] \in Created /\ table'[at[held'[u]]] = held'[u])
    <3>1. CASE u = t
      BY <1>3, <2>1, <2>6, <3>1
    <3>2. CASE u # t
      BY <1>3, <2>5, <2>6, <3>2 DEF EqueueInv, Addresses, Bound, Posters
    <3>3. QED
      BY <3>1, <3>2
  <2>7. \A j \in Identities : queue[j].deleted => j \in Created /\ ~(table'[at[j]] = j)
    BY <2>5 DEF EqueueInv, Addresses, Bound
  <2>8. QED
    BY <1>1, <2>2, <2>3, <2>4, <2>6, <2>7 DEF EqueueInv, Addresses, Bound, Created
<1>10. QED
  BY <1>4, <1>5, <1>6, <1>7, <1>8, <1>9 DEF EqueueInv

LEMMA MarkDeletedKeeps ==
  ASSUME EqueueInv, NEW t \in Threads, MarkDeleted(t)
  PROVE  EqueueInv'
<1> DEFINE i == held[t]
           q == [queue[i] EXCEPT !.deleted = TRUE]
<1>1. /\ pc[t] = "deleting"
      /\ queue' = [queue EXCEPT ![i].deleted = TRUE]
      /\ pc' = [Notified(i) EXCEPT ![t] = "idle"]
      /\ held' = [held EXCEPT ![t] = 0]
      /\ UNCHANGED <<table, at, regs, timed, todo, timer, timerOf, eopPending, burst, pq, hwm,
                     read, work, taken, owed>>
  BY DEF MarkDeleted, gpu, files, clocks, history
<1>2. t \in Posters /\ i # 0 /\ todo[t] = <<>> /\ i \in Created /\ ~Bound(i)
  <2>1. t \in Posters /\ i # 0 /\ todo[t] = <<>> /\ ~Bound(i)
    BY <1>1 DEF EqueueInv, Holding, Addresses, Posters
  <2>2. QED
    BY <2>1, HeldIs
<1>3. i \in Identities
  BY <1>2 DEF Created
<1> HIDE DEF i
<1>4. /\ pc' \in [Threads -> {"idle", "deleting", "locking", "asleep"}] /\ pc'[t] = "idle"
      /\ \A u \in Threads : u # t => pc'[u] = pc[u] \/ (pc[u] = "asleep" /\ pc'[u] = "locking")
  BY <1>1 DEF EqueueInv, Types, Notified
<1>5. held'[t] = 0 /\ \A p \in Posters : p # t => held'[p] = held[p]
  BY <1>1, <1>2 DEF EqueueInv, Types
<1>6. /\ q \in QueueType /\ q.ready = queue[i].ready /\ q.coalescible = queue[i].coalescible
      /\ q.deleted = TRUE /\ queue' = [queue EXCEPT ![i] = q]
      /\ queue \in [Identities -> QueueType]
  BY <1>1, <1>3 DEF EqueueInv, Types, QueueType
<1> HIDE DEF q
<1>7. WellKept(q)
  <2>1. WellKept(queue[i])
    BY <1>3 DEF EqueueInv, Queues
  <2>2. Coalescible(q) = Coalescible(queue[i])
    BY <1>6 DEF Coalescible
  <2>3. QED
    BY <1>6, <2>1, <2>2 DEF WellKept, QueueOK
<1>8. Types'
  <2>1. queue' \in [Identities -> QueueType]
    BY <1>3, <1>6
  <2>2. held' \in [Posters -> {0} \cup Identities]
    BY <1>1 DEF EqueueInv, Types
  <2>3. QED
    BY <1>1, <1>4, <2>1, <2>2 DEF EqueueInv, Types
<1>9. Queues'
  BY <1>6, <1>7 DEF EqueueInv, Queues
<1>10. Fresh' /\ Numbered'
  BY <1>1, <1>2, <1>6 DEF EqueueInv, Fresh, Numbered, Created
<1>11. Holding'
  BY <1>1, <1>2, <1>4, <1>5 DEF EqueueInv, Holding, Posters
<1>12. Posts' /\ TimerPosts'
  BY <1>1 DEF EqueueInv, Posts, Fits, TimerPosts
<1>13. Addresses'
  <2>1. \A u \in Threads : pc'[u] = "deleting" => u # t /\ pc[u] = "deleting" /\ held'[u] = held[u]
    BY <1>4, <1>5 DEF Posters
  <2>2. \A p \in Posters : held'[p] # 0 => held'[p] = held[p]
    BY <1>5
  <2>3. \A j \in Identities : queue'[j].deleted => j \in Created /\ ~Bound(j)
    BY <1>2, <1>6 DEF EqueueInv, Addresses
  <2>4. QED
    BY <1>1, <2>1, <2>2, <2>3 DEF EqueueInv, Addresses, Bound, Created
<1>14. QED
  BY <1>8, <1>9, <1>10, <1>11, <1>12, <1>13 DEF EqueueInv

LEMMA CallWaitKeeps ==
  ASSUME EqueueInv, NEW t \in Waiters, NEW h \in Handles, CallWait(t, h)
  PROVE  EqueueInv'
<1>1. /\ table[h] # 0 /\ timed' \in [Threads -> BOOLEAN]
      /\ held' = [held EXCEPT ![t] = table[h]]
      /\ pc' = [pc EXCEPT ![t] = "locking"]
      /\ UNCHANGED <<table, at, queue, regs, todo, timer, timerOf, eopPending, burst, pq, hwm,
                     read, work, taken, owed>>
  BY DEF CallWait, Live, gpu, files, clocks, history, EqueueInv, Types
<1>2. /\ t \in Threads /\ pc[t] = "idle" /\ todo[t] = <<>> /\ held[t] = 0 /\ t \in Posters
      /\ table[h] \in Identities /\ at[table[h]] = h
  BY <1>1, IdleIs DEF CallWait, Threads, EqueueInv, Types, Addresses
<1>3. /\ \A p \in Posters : p # t => held'[p] = held[p]
      /\ \A u \in Threads : u # t => pc'[u] = pc[u]
      /\ held'[t] = table[h] /\ pc'[t] = "locking"
  BY <1>1, <1>2 DEF EqueueInv, Types
<1>4. Types'
  BY <1>1, <1>2 DEF EqueueInv, Types
<1>5. Queues' /\ Fresh' /\ Numbered' /\ Posts' /\ TimerPosts'
  BY <1>1 DEF EqueueInv, Queues, Fresh, Numbered, Created, Posts, Fits, TimerPosts
<1>6. Holding'
  BY <1>1, <1>2, <1>3 DEF EqueueInv, Holding, Posters
<1>7. Addresses'
  <2>1. \A p \in Posters : held'[p] # 0 => at[held'[p]] # None /\ table[at[held'[p]]] \in {0, held'[p]}
    BY <1>2, <1>3, ConstantsAssumption DEF EqueueInv, Addresses
  <2>2. \A u \in Threads : pc'[u] = "deleting" => pc[u] = "deleting" /\ held'[u] = held[u]
    BY <1>3 DEF Posters
  <2>3. QED
    BY <1>1, <2>1, <2>2 DEF EqueueInv, Addresses, Bound, Created
<1>8. QED
  BY <1>4, <1>5, <1>6, <1>7 DEF EqueueInv

\* Falling asleep and waking change nothing but where the thread is.
LEMMA SleepWakeKeep ==
  ASSUME EqueueInv, NEW t \in Threads, Sleep(t) \/ Wake(t)
  PROVE  EqueueInv'
<1>1. /\ pc[t] \in {"locking", "asleep"}
      /\ pc' = [pc EXCEPT ![t] = "asleep"] \/ pc' = [pc EXCEPT ![t] = "locking"]
      /\ UNCHANGED <<table, at, queue, regs, timed, todo, held, timer, timerOf, eopPending, burst,
                     pq, hwm, read, work, taken, owed>>
  BY DEF Sleep, Wake, gpu, files, clocks, history
<1>2. \A u \in Threads : (pc'[u] = "idle" <=> pc[u] = "idle")
                           /\ (pc'[u] = "deleting" <=> pc[u] = "deleting")
  BY <1>1 DEF EqueueInv, Types
<1>3. Types'
  BY <1>1 DEF EqueueInv, Types
<1>4. Queues' /\ Fresh' /\ Numbered' /\ Posts' /\ TimerPosts'
  BY <1>1 DEF EqueueInv, Queues, Fresh, Numbered, Created, Posts, Fits, TimerPosts
<1>5. Holding' /\ Addresses'
  BY <1>1, <1>2 DEF EqueueInv, Holding, Addresses, Bound, Created
<1>6. QED
  BY <1>3, <1>4, <1>5 DEF EqueueInv

LEMMA ReturnKeeps ==
  ASSUME EqueueInv, NEW t \in Threads, Return(t)
  PROVE  /\ EqueueInv'
         /\ \E n \in 0 .. Len(queue[held[t]].ready) :
              LET got == SubSeq(queue[held[t]].ready, 1, n)
                  i == held[t]
              IN  /\ i \in Identities
                  /\ queue' = [queue EXCEPT ![i] = Took(queue[i], n)]
                  /\ taken' = [taken EXCEPT
                       ![i] = [tags |-> taken[i].tags \cup Tags(got),
                               eop |-> taken[i].eop + Completions(got),
                               expired |-> taken[i].expired + Expirations(got)]]
<1> DEFINE i == held[t]
           s == queue[i]
<1>1. /\ pc[t] \in {"locking", "asleep"}
      /\ pc' = [pc EXCEPT ![t] = "idle"] /\ timed' = [timed EXCEPT ![t] = FALSE]
      /\ held' = [held EXCEPT ![t] = 0]
      /\ UNCHANGED <<table, at, regs, todo, timer, timerOf, eopPending, burst, pq, hwm, read, work,
                     owed>>
  BY DEF Return, gpu, files, clocks
<1>2. t \in Posters /\ i # 0 /\ todo[t] = <<>> /\ i \in Created /\ i \in Identities
  <2>1. t \in Posters /\ i # 0 /\ todo[t] = <<>>
    BY <1>1 DEF EqueueInv, Holding, Posters
  <2>2. QED
    BY <2>1, HeldIs DEF Created
<1>3. WellKept(s)
  BY <1>2 DEF EqueueInv, Queues
<1>4. s.ready \in Seq(Event) /\ Len(s.ready) \in Nat
  BY <1>3, Mergeable, Reading
<1>5. PICK num \in 1 .. MaxNum :
        LET n == Min({num, Len(s.ready)})
            got == SubSeq(s.ready, 1, n)
        IN  /\ queue' = [queue EXCEPT ![i] = Took(s, n)]
            /\ taken' = [taken EXCEPT
                 ![i] = [tags |-> taken[i].tags \cup Tags(got),
                         eop |-> taken[i].eop + Completions(got),
                         expired |-> taken[i].expired + Expirations(got)]]
  <2>1. taken \in [Identities -> TakenType] /\ queue \in [Identities -> QueueType]
    BY DEF EqueueInv, Types
  <2>2. QED
    BY <1>2, <2>1 DEF Return
<1>6. Min({num, Len(s.ready)}) \in 0 .. Len(s.ready)
  <2>1. num \in Nat
    BY ConstantsAssumption
  <2>2. QED
    BY <1>4, <2>1, Least2
<1>7. PICK n \in 0 .. Len(s.ready) : n = Min({num, Len(s.ready)})
  BY <1>6
<1> DEFINE got == SubSeq(s.ready, 1, n)
           d == [tags |-> taken[i].tags \cup Tags(got), eop |-> taken[i].eop + Completions(got),
                 expired |-> taken[i].expired + Expirations(got)]
<1>8. queue' = [queue EXCEPT ![i] = Took(s, n)] /\ taken' = [taken EXCEPT ![i] = d]
  BY <1>5, <1>7
<1>9. WellKept(Took(s, n)) /\ Took(s, n).deleted = s.deleted
  BY <1>3, TookKeeps
<1>10. d \in TakenType
  <2>1. got \in Seq(Event)
    BY <1>4, CutSequence
  <2>2. Tags(got) \subseteq Nat /\ Completions(got) \in Nat /\ Expirations(got) \in Nat
    BY <2>1, ContentsType
  <2>3. taken[i].tags \subseteq Nat /\ taken[i].eop \in Nat /\ taken[i].expired \in Nat
    BY <1>2 DEF EqueueInv, Types, TakenType
  <2> HIDE DEF got
  <2>4. QED
    BY <2>2, <2>3 DEF TakenType
<1> HIDE DEF i, s, d
<1>11. pc'[t] = "idle" /\ \A u \in Threads : u # t => pc'[u] = pc[u]
  BY <1>1 DEF EqueueInv, Types
<1>12. held'[t] = 0 /\ \A p \in Posters : p # t => held'[p] = held[p]
  BY <1>1, <1>2 DEF EqueueInv, Types
<1>13. \A j \in Identities : WellKept(queue'[j]) /\ queue'[j].deleted = queue[j].deleted
  <2>1. \A j \in Identities : queue'[j] = queue[j] \/ (j = i /\ queue'[j] = Took(s, n))
    BY <1>8 DEF EqueueInv, Types
  <2>2. QED
    BY <1>9, <2>1 DEF EqueueInv, Queues, s
<1>14. Types'
  <2>1. queue' \in [Identities -> QueueType] /\ taken' \in [Identities -> TakenType]
    BY <1>2, <1>8, <1>9, <1>10 DEF EqueueInv, Types, WellKept
  <2>2. /\ held' \in [Posters -> {0} \cup Identities] /\ timed' \in [Threads -> BOOLEAN]
        /\ pc' \in [Threads -> {"idle", "deleting", "locking", "asleep"}]
    BY <1>1 DEF EqueueInv, Types
  <2>3. QED
    BY <1>1, <2>1, <2>2 DEF EqueueInv, Types
<1>15. Queues'
  BY <1>13 DEF Queues
<1>16. Fresh'
  <2>1. \A j \in Identities \ Created : queue'[j] = queue[j] /\ taken'[j] = taken[j]
    BY <1>2, <1>8 DEF EqueueInv, Types
  <2>2. QED
    BY <1>1, <2>1 DEF EqueueInv, Fresh, Created
<1>17. Numbered' /\ Posts' /\ TimerPosts'
  BY <1>1 DEF EqueueInv, Numbered, Posts, Fits, TimerPosts
<1>18. Holding'
  BY <1>1, <1>2, <1>11, <1>12 DEF EqueueInv, Holding, Posters
<1>19. Addresses'
  <2>1. \A u \in Threads : pc'[u] = "deleting" => pc[u] = "deleting" /\ held'[u] = held[u]
    BY <1>11, <1>12 DEF Posters
  <2>2. \A p \in Posters : held'[p] # 0 => held'[p] = held[p]
    BY <1>12
  <2>3. QED
    BY <1>1, <1>13, <2>1, <2>2 DEF EqueueInv, Addresses, Bound, Created
<1>20. EqueueInv'
  BY <1>14, <1>15, <1>16, <1>17, <1>18, <1>19 DEF EqueueInv
<1>21. QED
  BY <1>2, <1>8, <1>20 DEF i, s, d

-----------------------------------------------------------------------------
LEMMA PostersApart ==
  /\ \A p \in Threads \cup Timers \cup Reads : p # "pump" /\ p # "eop" /\ p # "ptr"
  /\ \A p \in Threads : p \notin Timers /\ p \notin Reads
  /\ \A p \in Workers : p \notin Threads /\ p \notin Timers /\ p \notin Reads
  /\ \A p \in Timers : p \notin Reads
  /\ "pump" \in Posters /\ "eop" \in Posters /\ "ptr" \in Posters
BY PostersAssumption DEF Workers, Posters

\* A thread that has nothing to do plans posts that are its own to make.
LEMMA PlanKeeps ==
  ASSUME EqueueInv, NEW p \in Posters, NEW ps \in Seq(PostType),
         \A k \in DOMAIN ps : Fits(p, ps[k]),
         todo[p] = <<>>, held[p] = 0,
         todo' = [todo EXCEPT ![p] = ps], UNCHANGED <<table, at, queue, pc, held>>,
         p \in Threads => pc[p] = "idle"
  PROVE  /\ todo' \in [Posters -> Seq(PostType)] /\ todo'[p] = ps
         /\ \A r \in Posters : r # p => todo'[r] = todo[r]
         /\ Holding'
         /\ \A r \in Posters : \A k \in DOMAIN todo'[r] : Fits(r, todo'[r][k])
<1>1. /\ todo' \in [Posters -> Seq(PostType)] /\ todo'[p] = ps
      /\ \A r \in Posters : r # p => todo'[r] = todo[r]
  BY DEF EqueueInv, Types
<1>2. Holding'
  BY <1>1 DEF EqueueInv, Holding, Posters
<1>3. \A r \in Posters : \A k \in DOMAIN todo'[r] : Fits(r, todo'[r][k])
  BY <1>1 DEF EqueueInv, Posts
<1>4. QED
  BY <1>1, <1>2, <1>3

LEMMA Alone ==
  ASSUME NEW q \in PostType
  PROVE  /\ <<q>> \in Seq(PostType) /\ DOMAIN <<q>> = {1} /\ <<q>>[1] = q /\ Head(<<q>>) = q
         /\ Len(<<q>>) = 1
OBVIOUS

\* A post to each registration of a source.
LEMMA SnapshotIs ==
  ASSUME EqueueInv, NEW s \in Sources, NEW once \in BOOLEAN
  PROVE  /\ Snapshot(s, once) \in Seq(PostType) /\ DOMAIN Snapshot(s, once) = DOMAIN regs[s]
         /\ \A k \in DOMAIN regs[s] :
              /\ Snapshot(s, once)[k].eq = regs[s][k]
              /\ Snapshot(s, once)[k].identity = 0
              /\ Snapshot(s, once)[k].event.key = s
<1>1. regs[s] \in Seq(Handles)
  BY DEF EqueueInv, Types
<1>2. /\ Len(regs[s]) \in Nat /\ DOMAIN regs[s] = 1 .. Len(regs[s])
      /\ \A k \in 1 .. Len(regs[s]) : regs[s][k] \in Handles
  BY <1>1, Reading
<1>3. s \in Keys
  BY DEF Keys
<1>4. ASSUME NEW k \in DOMAIN regs[s]
      PROVE  /\ Snapshot(s, once)[k] \in PostType
             /\ Snapshot(s, once)[k].eq = regs[s][k]
             /\ Snapshot(s, once)[k].identity = 0
             /\ Snapshot(s, once)[k].event.key = s
  <2>1. Snapshot(s, once)[k] = Post(regs[s][k], 0, s, 0, once)
    BY DEF Snapshot
  <2>2. regs[s][k] \in Handles
    BY <1>2
  <2>3. QED
    BY <1>3, <2>1, <2>2 DEF Post, PostType, Event
<1>5. Snapshot(s, once) \in [1 .. Len(regs[s]) -> PostType]
  BY <1>2, <1>4 DEF Snapshot
<1>6. Snapshot(s, once) \in Seq(PostType)
  BY <1>2, <1>5, SeqDef
<1>7. QED
  BY <1>2, <1>4, <1>6 DEF Snapshot

LEMMA SnapshotDistinct ==
  ASSUME NEW s \in Sources, NEW k \in DOMAIN regs[s]
  PROVE  ~Snapshot(s, FALSE)[k].event.distinct /\ Snapshot(s, TRUE)[k].event.distinct
BY DEF Snapshot, Post

\* A guest thread, the pump or the end-of-pipe worker plans a post to each
\* registration, or a thread one post of its own.
LEMMA TriggersKeep ==
  ASSUME EqueueInv,
         \/ \E t \in Callers : TriggerFlip(t) \/ \E h \in Handles : TriggerUser(t, h)
         \/ PumpTick
         \/ EopPostNow
  PROVE  EqueueInv'
<1>1. ASSUME NEW p \in Posters, NEW ps \in Seq(PostType),
             \A k \in DOMAIN ps : Fits(p, ps[k]),
             todo[p] = <<>>, held[p] = 0, p \notin Timers, p \notin Reads,
             p \in Threads => pc[p] = "idle",
             todo' = [todo EXCEPT ![p] = ps],
             burst' \in Nat, work' \in Nat, work <= work',
             UNCHANGED <<table, at, queue, regs, pc, timed, held, timer, timerOf, eopPending,
                         pq, hwm, read, taken, owed>>
      PROVE  EqueueInv'
  <2>1. /\ todo' \in [Posters -> Seq(PostType)] /\ todo'[p] = ps
        /\ \A r \in Posters : r # p => todo'[r] = todo[r]
        /\ Holding'
        /\ \A r \in Posters : \A k \in DOMAIN todo'[r] : Fits(r, todo'[r][k])
    BY <1>1, PlanKeeps
  <2>2. Types'
    BY <1>1, <2>1 DEF EqueueInv, Types
  <2>3. Queues' /\ Fresh' /\ Addresses'
    BY <1>1 DEF EqueueInv, Queues, Fresh, Created, Addresses, Bound
  <2>4. Numbered'
    BY <1>1 DEF EqueueInv, Numbered, Types, OwedType
  <2>5. \A k \in Timers \cup Reads : todo'[k] = todo[k]
    BY <1>1, <2>1 DEF Posters
  <2>6. TimerPosts'
    BY <1>1, <2>5 DEF EqueueInv, TimerPosts
  <2>7. Posts'
    BY <1>1, <2>1, <2>5 DEF EqueueInv, Posts, Fits
  <2>8. QED
    BY <2>1, <2>2, <2>3, <2>4, <2>6, <2>7 DEF EqueueInv
<1>2. work \in Nat /\ burst \in Nat
  BY DEF EqueueInv, Types
<1>3. /\ "flip" \in Sources /\ "vblank" \in Sources /\ "eop" \in Sources
      /\ "user" \in Keys \ Counts
  BY DEF Sources, Keys, Counts
<1>4. ASSUME NEW p \in Posters, p # "ptr", p # "eop", NEW s \in {"flip", "vblank"}
      PROVE  /\ Snapshot(s, FALSE) \in Seq(PostType)
             /\ \A k \in DOMAIN Snapshot(s, FALSE) : Fits(p, Snapshot(s, FALSE)[k])
  <2> DEFINE ps == Snapshot(s, FALSE)
  <2>1. s \in Sources /\ s \notin Counts
    BY DEF Sources, Counts
  <2>2. /\ ps \in Seq(PostType) /\ DOMAIN ps = DOMAIN regs[s]
        /\ \A k \in DOMAIN regs[s] :
             ps[k].identity = 0 /\ ps[k].event.key = s /\ ~ps[k].event.distinct
    <3>1. /\ ps \in Seq(PostType) /\ DOMAIN ps = DOMAIN regs[s]
          /\ \A k \in DOMAIN regs[s] : ps[k].identity = 0 /\ ps[k].event.key = s
      BY <2>1, SnapshotIs
    <3>2. \A k \in DOMAIN regs[s] : ~ps[k].event.distinct
      BY <2>1, SnapshotDistinct
    <3>3. QED
      BY <3>1, <3>2
  <2> HIDE DEF ps
  <2>3. \A k \in DOMAIN ps : Kept(ps[k].event)
    BY <2>1, <2>2 DEF Kept
  <2>4. \A k \in DOMAIN ps : Fits(p, ps[k])
    BY <1>4, <2>1, <2>2, <2>3 DEF Fits, Counts
  <2>5. QED
    BY <2>2, <2>4 DEF ps
<1>5. /\ Snapshot("eop", TRUE) \in Seq(PostType)
      /\ \A k \in DOMAIN Snapshot("eop", TRUE) : Fits("eop", Snapshot("eop", TRUE)[k])
  <2> DEFINE ps == Snapshot("eop", TRUE)
  <2>1. /\ ps \in Seq(PostType) /\ DOMAIN ps = DOMAIN regs["eop"]
        /\ \A k \in DOMAIN regs["eop"] :
             ps[k].identity = 0 /\ ps[k].event.key = "eop" /\ ps[k].event.distinct
    <3>1. ps \in Seq(PostType) /\ DOMAIN ps = DOMAIN regs["eop"]
      BY <1>3, SnapshotIs
    <3>2. \A k \in DOMAIN regs["eop"] : ps[k].identity = 0 /\ ps[k].event.key = "eop"
      BY DEF Snapshot, Post
    <3>3. \A k \in DOMAIN regs["eop"] : ps[k].event.distinct
      BY <1>3, SnapshotDistinct
    <3>4. QED
      BY <3>1, <3>2, <3>3
  <2> HIDE DEF ps
  <2>2. \A k \in DOMAIN ps : Kept(ps[k].event)
    BY <2>1 DEF Kept, Counts
  <2>3. \A k \in DOMAIN ps : Fits("eop", ps[k])
    BY <2>1, <2>2 DEF Fits
  <2>4. QED
    BY <2>1, <2>3 DEF ps
<1>6. ASSUME NEW t \in Callers, TriggerFlip(t) PROVE EqueueInv'
  <2>1. t \in Threads
    BY DEF Threads
  <2>2. pc[t] = "idle" /\ todo[t] = <<>> /\ held[t] = 0 /\ t \in Posters
    BY <1>6, <2>1, IdleIs DEF TriggerFlip
  <2>3. t # "ptr" /\ t # "eop" /\ t \notin Timers /\ t \notin Reads
    BY <2>1, PostersApart
  <2>4. /\ todo' = [todo EXCEPT ![t] = Snapshot("flip", FALSE)]
        /\ work' = work + 1
        /\ UNCHANGED <<table, at, queue, regs, pc, timed, held, timer, timerOf, eopPending,
                       burst, pq, hwm, read, taken, owed>>
    BY <1>6 DEF TriggerFlip, Plan, Made, gpu, files, clocks, history
  <2> DEFINE ps == Snapshot("flip", FALSE)
  <2>5. ps \in Seq(PostType) /\ \A k \in DOMAIN ps : Fits(t, ps[k])
    BY <1>4, <2>2, <2>3
  <2>6. work' \in Nat /\ work <= work' /\ burst' \in Nat
    BY <1>2, <2>4
  <2>7. todo' = [todo EXCEPT ![t] = ps]
    BY <2>4
  <2> HIDE DEF ps
  <2>8. QED
    BY <1>1, <2>2, <2>3, <2>4, <2>5, <2>6, <2>7
<1>7. ASSUME NEW t \in Callers, NEW h \in Handles, TriggerUser(t, h) PROVE EqueueInv'
  <2> DEFINE ps == <<Post(h, 0, "user", 0, FALSE)>>
  <2>1. t \in Threads
    BY DEF Threads
  <2>2. pc[t] = "idle" /\ todo[t] = <<>> /\ held[t] = 0 /\ t \in Posters
    BY <1>7, <2>1, IdleIs DEF TriggerUser
  <2>3. t # "ptr" /\ t # "eop" /\ t \notin Timers /\ t \notin Reads
    BY <2>1, PostersApart
  <2>4. /\ todo' = [todo EXCEPT ![t] = ps]
        /\ work' = work + 1
        /\ UNCHANGED <<table, at, queue, regs, pc, timed, held, timer, timerOf, eopPending,
                       burst, pq, hwm, read, taken, owed>>
    BY <1>7 DEF TriggerUser, Plan, Made, gpu, files, clocks, history
  <2>5. ps \in Seq(PostType) /\ \A k \in DOMAIN ps : Fits(t, ps[k])
    <3>1. /\ ps \in Seq(PostType) /\ DOMAIN ps = {1}
          /\ ps[1].identity = 0 /\ ps[1].event.key = "user" /\ ~ps[1].event.distinct
      <4> DEFINE q == Post(h, 0, "user", 0, FALSE)
      <4>1. /\ q \in PostType /\ q.identity = 0 /\ q.event.key = "user" /\ ~q.event.distinct
        BY DEF Post, PostType, Event, Keys
      <4> HIDE DEF q
      <4>2. <<q>> \in Seq(PostType) /\ DOMAIN <<q>> = {1} /\ <<q>>[1] = q
        BY <4>1, Alone
      <4>3. ps = <<q>>
        BY DEF q
      <4>4. QED
        BY <4>1, <4>2, <4>3
    <3> HIDE DEF ps
    <3>2. QED
      BY <1>3, <2>3, <3>1 DEF Fits, Kept
  <2>6. work' \in Nat /\ work <= work' /\ burst' \in Nat
    BY <1>2, <2>4
  <2> HIDE DEF ps
  <2>7. QED
    BY <1>1, <2>2, <2>3, <2>4, <2>5, <2>6
<1>8. ASSUME NEW p \in Workers, todo[p] = <<>>
      PROVE  p \in Posters /\ held[p] = 0 /\ p \notin Timers /\ p \notin Reads /\ p \notin Threads
  <2>1. p \in Posters /\ p \notin Timers /\ p \notin Reads /\ p \notin Threads
    BY PostersApart DEF Posters
  <2>2. QED
    BY <1>8, <2>1 DEF EqueueInv, Holding
<1>9. ASSUME PumpTick PROVE EqueueInv'
  <2>1. /\ todo' = [todo EXCEPT !["pump"] = Snapshot("vblank", FALSE)]
        /\ todo["pump"] = <<>> /\ work' = work + 1
        /\ UNCHANGED <<table, at, queue, regs, pc, timed, held, timer, timerOf, eopPending,
                       burst, pq, hwm, read, taken, owed>>
    BY <1>9 DEF PumpTick, Plan, Made, gpu, files, clocks, history
  <2> DEFINE ps == Snapshot("vblank", FALSE)
  <2>2. "pump" \in Workers
    BY DEF Workers
  <2>3. /\ "pump" \in Posters /\ held["pump"] = 0 /\ "pump" \notin Timers
        /\ "pump" \notin Reads /\ "pump" \notin Threads
    BY <1>8, <2>1, <2>2
  <2>4. ps \in Seq(PostType) /\ \A k \in DOMAIN ps : Fits("pump", ps[k])
    BY <1>4, <2>3
  <2>5. work' \in Nat /\ work <= work' /\ burst' \in Nat
    BY <1>2, <2>1
  <2>6. todo' = [todo EXCEPT !["pump"] = ps]
    BY <2>1
  <2> HIDE DEF ps
  <2>7. QED
    BY <1>1, <2>1, <2>3, <2>4, <2>5, <2>6
<1>10. ASSUME EopPostNow PROVE EqueueInv'
  <2>1. /\ todo' = [todo EXCEPT !["eop"] = Snapshot("eop", TRUE)]
        /\ todo["eop"] = <<>> /\ burst > 0 /\ burst' = burst - 1
        /\ UNCHANGED <<table, at, queue, regs, pc, timed, held, timer, timerOf, eopPending,
                       pq, hwm, read, work, taken, owed>>
    BY <1>10 DEF EopPostNow, Plan, gpu, files, clocks, history
  <2> DEFINE ps == Snapshot("eop", TRUE)
  <2>2. "eop" \in Workers
    BY DEF Workers
  <2>3. /\ "eop" \in Posters /\ held["eop"] = 0 /\ "eop" \notin Timers
        /\ "eop" \notin Reads /\ "eop" \notin Threads
    BY <1>8, <2>1, <2>2
  <2>4. ps \in Seq(PostType) /\ \A k \in DOMAIN ps : Fits("eop", ps[k])
    BY <1>5
  <2>5. work' \in Nat /\ work <= work' /\ burst' \in Nat
    BY <1>2, <2>1
  <2>6. todo' = [todo EXCEPT !["eop"] = ps]
    BY <2>1
  <2> HIDE DEF ps
  <2>7. QED
    BY <1>1, <2>1, <2>3, <2>4, <2>5, <2>6
<1>11. QED
  BY <1>6, <1>7, <1>9, <1>10

\* Only a registration, the count of pending completions, or what they owe,
\* changes.
LEMMA RegistersKeep ==
  ASSUME EqueueInv,
         \/ \E t \in Callers : TriggerEop(t) \/ \E h \in Handles, s \in Sources : Register(t, s, h)
         \/ EopTake
  PROVE  EqueueInv'
<1>1. ASSUME regs' \in [Sources -> Seq(Handles)], eopPending' \in Nat, burst' \in Nat,
             work' \in Nat, work <= work',
             owed' \in [Identities -> OwedType],
             \A i \in Identities : owed'[i].tags = owed[i].tags,
             \A i \in Identities \ Created : owed'[i] = owed[i],
             UNCHANGED <<table, at, queue, pc, timed, todo, held, timer, timerOf, pq, hwm, read,
                         taken>>
      PROVE  EqueueInv'
  <2>1. Types'
    BY <1>1 DEF EqueueInv, Types
  <2>2. Queues' /\ Holding' /\ Posts' /\ TimerPosts' /\ Addresses'
    BY <1>1 DEF EqueueInv, Queues, Holding, Posts, Fits, TimerPosts, Addresses, Bound, Created
  <2>3. Fresh'
    BY <1>1 DEF EqueueInv, Fresh, Created
  <2>4. Numbered'
    BY <1>1 DEF EqueueInv, Types, OwedType, Numbered
  <2>5. QED
    BY <2>1, <2>2, <2>3, <2>4 DEF EqueueInv
<1>2. work \in Nat /\ burst \in Nat /\ eopPending \in Nat /\ owed \in [Identities -> OwedType]
      /\ regs \in [Sources -> Seq(Handles)]
  BY DEF EqueueInv, Types
<1>3. ASSUME NEW t \in Callers, TriggerEop(t) PROVE EqueueInv'
  <2>1. /\ eopPending' = eopPending + 1 /\ work' = work + 1
        /\ owed' = [i \in Identities |->
             IF i \in Created /\ table[at[i]] = i /\ Contains(regs["eop"], at[i])
             THEN [owed[i] EXCEPT !.eop = owed[i].eop + 1] ELSE owed[i]]
        /\ UNCHANGED <<table, at, queue, regs, pc, timed, todo, held, timer, timerOf, burst, pq,
                       hwm, read, taken>>
    BY <1>3 DEF TriggerEop, Made, files, clocks
  <2>2. \A i \in Identities : [owed[i] EXCEPT !.eop = owed[i].eop + 1] \in OwedType
                                /\ [owed[i] EXCEPT !.eop = owed[i].eop + 1].tags = owed[i].tags
    <3>1. ASSUME NEW i \in Identities, NEW d \in Nat
          PROVE  [owed[i] EXCEPT !.eop = d] \in OwedType /\ [owed[i] EXCEPT !.eop = d].tags = owed[i].tags
      BY <1>2 DEF OwedType
    <3>2. \A i \in Identities : owed[i].eop + 1 \in Nat
      BY <1>2 DEF OwedType
    <3>3. QED
      BY <3>1, <3>2
  <2>3. /\ owed' \in [Identities -> OwedType] /\ \A i \in Identities : owed'[i].tags = owed[i].tags
        /\ \A i \in Identities \ Created : owed'[i] = owed[i]
    BY <1>2, <2>1, <2>2
  <2>4. QED
    BY <1>1, <1>2, <2>1, <2>3
<1>4. ASSUME NEW t \in Callers, NEW h \in Handles, NEW s \in Sources, Register(t, s, h)
      PROVE  EqueueInv'
  <2>1. /\ regs' = [regs EXCEPT ![s] = Append(regs[s], h)] /\ work' = work + 1
        /\ UNCHANGED <<table, at, queue, pc, timed, todo, held, timer, timerOf, eopPending, burst,
                       pq, hwm, read, taken, owed>>
    BY <1>4 DEF Register, Made, gpu, files, clocks, history
  <2>2. regs' \in [Sources -> Seq(Handles)]
    BY <1>2, <2>1
  <2>3. QED
    BY <1>1, <1>2, <2>1, <2>2
<1>5. ASSUME EopTake PROVE EqueueInv'
  <2>1. /\ burst' = eopPending /\ eopPending' = 0
        /\ UNCHANGED <<table, at, queue, regs, pc, timed, todo, held, timer, timerOf, pq, hwm,
                       read, work, taken, owed>>
    BY <1>5 DEF EopTake, files, clocks, history
  <2>2. QED
    BY <1>1, <1>2, <2>1
<1>6. QED
  BY <1>3, <1>4, <1>5

LEMMA Most2 ==
  ASSUME NEW m \in Nat, NEW n \in Nat
  PROVE  Max({m, n}) \in Nat
<1>1. \E x \in {m, n} : \A y \in {m, n} : x >= y
  OBVIOUS
<1>2. Max({m, n}) = CHOOSE x \in {m, n} : \A y \in {m, n} : x >= y
  BY DEF Max
<1>3. QED
  BY <1>1, <1>2

\* A request's tag is the next number.
LEMMA SubmitTagIs ==
  ASSUME EqueueInv, NEW t \in Callers, NEW i \in Identities, SubmitTag(t, i)
  PROVE  LET q == Post(at[i], i, "tag", work + 1, TRUE)
         IN  /\ i \in Created /\ table[at[i]] = i
             /\ q \in PostType /\ q.identity = i /\ q.event.data = work + 1 /\ Fits("ptr", q)
             /\ pq' = Append(pq, q)
             /\ owed' = [owed EXCEPT ![i] = [owed[i] EXCEPT !.tags = owed[i].tags \cup {work + 1}]]
             /\ work' = work + 1
             /\ UNCHANGED <<table, at, queue, regs, pc, timed, todo, held, timer, timerOf,
                            eopPending, burst, hwm, read, taken>>
<1> DEFINE q == Post(at[i], i, "tag", work + 1, TRUE)
<1>1. /\ i \in Created /\ table[at[i]] = i /\ pq' = Append(pq, q) /\ work' = work + 1
      /\ UNCHANGED <<table, at, queue, regs, pc, timed, todo, held, timer, timerOf,
                     eopPending, burst, hwm, read, taken>>
  BY DEF SubmitTag, Made, Bound, gpu, clocks
<1>2. owed' = [owed EXCEPT ![i] = [owed[i] EXCEPT !.tags = owed[i].tags \cup {work + 1}]]
  <2>1. owed' = [owed EXCEPT ![i].tags = owed[i].tags \cup {work'}]
    BY DEF SubmitTag, EqueueInv, Types
  <2>2. QED
    BY <1>1, <2>1 DEF EqueueInv, Types
<1>3. at[i] \in Handles /\ i # 0 /\ work + 1 \in Nat
  BY <1>1, ConstantsAssumption DEF EqueueInv, Types, Created, Identities
<1>4. /\ q \in PostType /\ q.identity = i /\ q.eq = at[i] /\ q.event.data = work + 1
      /\ q.event.key = "tag" /\ q.event.distinct
  BY <1>3 DEF Post, PostType, Event, Keys
<1> HIDE DEF q
<1>5. Kept(q.event)
  BY <1>4 DEF Kept, Counts
<1>6. Fits("ptr", q)
  BY <1>3, <1>4, <1>5 DEF Fits
<1>7. QED
  BY <1>1, <1>2, <1>4, <1>6 DEF q

LEMMA FilesKeep ==
  ASSUME EqueueInv,
         \/ \E t \in Callers, i \in Identities :
              SubmitTag(t, i) \/ \E k \in Reads : SubmitCounter(t, i, k)
         \/ PtrTake
         \/ \E k \in Reads : ReadWake(k)
  PROVE  EqueueInv'
<1>0. /\ work \in Nat /\ pq \in Seq(PostType) /\ hwm \in [Identities -> Nat]
      /\ read \in [Reads -> ReadType]
  BY DEF EqueueInv, Types
<1>1. ASSUME NEW t \in Callers, NEW i \in Identities, SubmitTag(t, i) PROVE EqueueInv'
  <2> DEFINE q == Post(at[i], i, "tag", work + 1, TRUE)
             o == [owed[i] EXCEPT !.tags = owed[i].tags \cup {work + 1}]
  <2>1. /\ i \in Created /\ q \in PostType /\ Fits("ptr", q)
        /\ pq' = Append(pq, q) /\ owed' = [owed EXCEPT ![i] = o] /\ work' = work + 1
        /\ UNCHANGED <<table, at, queue, regs, pc, timed, todo, held, timer, timerOf,
                       eopPending, burst, hwm, read, taken>>
    BY <1>1, SubmitTagIs
  <2>2. o \in OwedType /\ o.tags = owed[i].tags \cup {work + 1}
    <3> DEFINE tags == owed[i].tags \cup {work + 1}
    <3>1. owed[i] \in OwedType
      BY DEF EqueueInv, Types
    <3>2. tags \in SUBSET Nat
      BY <1>0, <3>1 DEF OwedType
    <3>3. o = [owed[i] EXCEPT !.tags = tags]
      OBVIOUS
    <3> HIDE DEF tags, o
    <3>4. o \in OwedType /\ o.tags = tags
      BY <3>1, <3>2, <3>3 DEF OwedType
    <3>5. QED
      BY <3>4 DEF tags
  <2> HIDE DEF q, o
  <2>3. pq' \in Seq(PostType) /\ \A k \in DOMAIN pq' : Fits("ptr", pq'[k])
    <3>1. /\ Append(pq, q) \in Seq(PostType) /\ Len(pq) \in Nat /\ DOMAIN pq = 1 .. Len(pq)
          /\ DOMAIN Append(pq, q) = 1 .. Len(pq) + 1
          /\ \A k \in 1 .. Len(pq) : Append(pq, q)[k] = pq[k]
          /\ Append(pq, q)[Len(pq) + 1] = q
      BY <1>0, <2>1, Entered, Reading
    <3>2. \A k \in 1 .. Len(pq) + 1 : k \in 1 .. Len(pq) \/ k = Len(pq) + 1
      BY <3>1
    <3>3. \A k \in 1 .. Len(pq) : Fits("ptr", pq[k])
      BY <3>1 DEF EqueueInv, Posts
    <3>4. QED
      BY <2>1, <3>1, <3>2, <3>3
  <2>4. Types'
    BY <1>0, <2>1, <2>2, <2>3 DEF EqueueInv, Types
  <2>5. Queues' /\ Holding' /\ TimerPosts' /\ Addresses'
    BY <2>1 DEF EqueueInv, Queues, Holding, TimerPosts, Addresses, Bound, Created
  <2>6. Posts'
    BY <2>1, <2>3 DEF EqueueInv, Posts, Fits
  <2>7. Fresh'
    BY <2>1 DEF EqueueInv, Types, Fresh, Created
  <2>8. Numbered'
    <3>1. ASSUME NEW j \in Identities, NEW n \in owed'[j].tags PROVE n <= work'
      <4>1. n \in owed[j].tags \/ n = work + 1
        BY <2>1, <2>2, <3>1 DEF EqueueInv, Types
      <4>2. \A m \in owed[j].tags : m <= work /\ m \in Nat
        BY DEF EqueueInv, Types, OwedType, Numbered
      <4>3. QED
        BY <1>0, <2>1, <4>1, <4>2
    <3>2. QED
      BY <3>1 DEF Numbered
  <2>9. QED
    BY <2>4, <2>5, <2>6, <2>7, <2>8 DEF EqueueInv
<1>2. ASSUME NEW t \in Callers, NEW i \in Identities, NEW k \in Reads, SubmitCounter(t, i, k)
      PROVE  EqueueInv'
  <2>1. /\ i \in Created /\ read[k].at = "unused" /\ work' = work + 1
        /\ read' = [read EXCEPT ![k] = [identity |-> i, at |-> "asleep"]]
        /\ UNCHANGED <<table, at, queue, regs, pc, timed, todo, held, timer, timerOf,
                       eopPending, burst, pq, taken, owed>>
    BY <1>2 DEF SubmitCounter, Made, Bound, gpu, clocks, history
  <2>2. hwm' \in [Identities -> Nat]
    <3>1. PICK cnt \in 1 .. (hwm[i] + 1) : hwm' = [hwm EXCEPT ![i] = Max({hwm[i], cnt})]
      BY <1>2 DEF SubmitCounter
    <3>2. Max({hwm[i], cnt}) \in Nat
      BY <1>0, Most2
    <3>3. QED
      BY <1>0, <3>1, <3>2
  <2>3. Types'
    <3>1. read' \in [Reads -> ReadType]
      BY <1>0, <2>1 DEF ReadType
    <3>2. QED
      BY <1>0, <2>1, <2>2, <3>1 DEF EqueueInv, Types
  <2>4. Queues' /\ Holding' /\ TimerPosts' /\ Fresh'
    BY <2>1 DEF EqueueInv, Queues, Holding, TimerPosts, Fresh, Created
  <2>5. Numbered'
    BY <1>0, <2>1 DEF EqueueInv, Types, OwedType, Numbered
  <2>6. Posts'
    <3>1. todo[k] = <<>> /\ \A j \in Reads : j # k => read'[j] = read[j]
      BY <1>0, <2>1 DEF EqueueInv, Posts
    <3>2. QED
      BY <2>1, <3>1 DEF EqueueInv, Posts, Fits
  <2>7. Addresses'
    <3>1. \A j \in Reads : read'[j].at = "asleep" => read'[j].identity \in Created
      BY <1>0, <2>1 DEF EqueueInv, Addresses
    <3>2. QED
      BY <2>1, <3>1 DEF EqueueInv, Addresses, Bound, Created
  <2>8. QED
    BY <2>3, <2>4, <2>5, <2>6, <2>7 DEF EqueueInv
<1>3. ASSUME PtrTake PROVE EqueueInv'
  <2>1. /\ todo["ptr"] = <<>> /\ todo' = [todo EXCEPT !["ptr"] = pq] /\ pq' = <<>>
        /\ UNCHANGED <<table, at, queue, regs, pc, timed, held, timer, timerOf, eopPending,
                       burst, hwm, read, work, taken, owed>>
    BY <1>3 DEF PtrTake, Plan, gpu, clocks, history
  <2>2. "ptr" \in Posters /\ "ptr" \notin Timers /\ "ptr" \notin Reads /\ "ptr" \notin Threads
    BY PostersApart DEF Workers
  <2>3. held["ptr"] = 0
    BY <2>1, <2>2 DEF EqueueInv, Holding
  <2>4. \A k \in DOMAIN pq : Fits("ptr", pq[k])
    BY DEF EqueueInv, Posts
  <2>5. /\ todo' \in [Posters -> Seq(PostType)] /\ todo'["ptr"] = pq
        /\ \A r \in Posters : r # "ptr" => todo'[r] = todo[r]
        /\ Holding'
        /\ \A r \in Posters : \A k \in DOMAIN todo'[r] : Fits(r, todo'[r][k])
    BY <1>0, <2>1, <2>2, <2>3, <2>4, PlanKeeps
  <2>6. Types'
    <3>1. pq' \in Seq(PostType)
      BY <2>1
    <3>2. QED
      BY <2>1, <2>5, <3>1 DEF EqueueInv, Types
  <2>7. Queues' /\ Addresses' /\ Fresh' /\ Numbered'
    BY <2>1 DEF EqueueInv, Queues, Addresses, Bound, Fresh, Created, Numbered
  <2>8. \A k \in Timers \cup Reads : todo'[k] = todo[k]
    BY <2>2, <2>5 DEF Posters
  <2>9. TimerPosts'
    BY <2>1, <2>8 DEF EqueueInv, TimerPosts
  <2>10. Posts'
    <3>1. DOMAIN pq' = {}
      BY <2>1
    <3>2. QED
      BY <2>1, <2>5, <2>8, <3>1 DEF EqueueInv, Posts, Fits
  <2>11. QED
    BY <2>5, <2>6, <2>7, <2>9, <2>10 DEF EqueueInv
<1>4. ASSUME NEW k \in Reads, ReadWake(k) PROVE EqueueInv'
  <2> DEFINE i == read[k].identity
             q == Post(at[i], i, "knote", hwm[i], FALSE)
             ps == <<q>>
  <2>1. /\ read[k].at = "asleep" /\ todo' = [todo EXCEPT ![k] = ps]
        /\ read' = [read EXCEPT ![k] = [identity |-> 0, at |-> "posted"]]
        /\ UNCHANGED <<table, at, queue, regs, pc, timed, held, timer, timerOf, eopPending,
                       burst, pq, hwm, work, taken, owed>>
    BY <1>4 DEF ReadWake, Plan, gpu, clocks, history
  <2>2. i \in Identities /\ at[i] \in Handles /\ hwm[i] \in Nat
    BY <1>0, <2>1 DEF EqueueInv, Types, Addresses, Created
  <2>3. k \in Posters /\ k # "ptr" /\ k # "eop" /\ k \notin Timers /\ k \notin Threads
    BY PostersApart DEF Posters
  <2>4. todo[k] = <<>> /\ held[k] = 0
    BY <2>1, <2>3 DEF EqueueInv, Posts, Holding
  <2>5. /\ q \in PostType /\ q.identity = i /\ q.eq = at[i] /\ q.event.key = "knote"
        /\ ~q.event.distinct
    BY <2>2 DEF Post, PostType, Event, Keys
  <2> HIDE DEF q, i
  <2>6. Fits(k, q)
    <3>1. Kept(q.event)
      BY <2>5 DEF Kept, Counts
    <3>2. QED
      BY <2>3, <2>5, <3>1 DEF Fits
  <2>7. ps \in Seq(PostType) /\ \A j \in DOMAIN ps : Fits(k, ps[j])
    BY <2>5, <2>6, Alone
  <2> HIDE DEF ps
  <2>8. /\ todo' \in [Posters -> Seq(PostType)] /\ todo'[k] = ps
        /\ \A r \in Posters : r # k => todo'[r] = todo[r]
        /\ Holding'
        /\ \A r \in Posters : \A j \in DOMAIN todo'[r] : Fits(r, todo'[r][j])
    BY <2>1, <2>3, <2>4, <2>7, PlanKeeps
  <2>9. Types'
    <3>1. read' \in [Reads -> ReadType]
      BY <1>0, <2>1 DEF ReadType
    <3>2. QED
      BY <2>1, <2>8, <3>1 DEF EqueueInv, Types
  <2>10. Queues' /\ Fresh' /\ Numbered'
    BY <2>1 DEF EqueueInv, Queues, Fresh, Created, Numbered
  <2>11. Addresses'
    <3>1. \A j \in Reads : read'[j].at = "asleep" => read'[j] = read[j]
      BY <1>0, <2>1
    <3>2. QED
      BY <2>1, <3>1 DEF EqueueInv, Addresses, Bound, Created
  <2>12. \A j \in Timers : todo'[j] = todo[j]
    BY <2>3, <2>8 DEF Posters
  <2>13. TimerPosts'
    BY <2>1, <2>12 DEF EqueueInv, TimerPosts
  <2>14. Posts'
    <3>1. read'[k].at = "posted" /\ \A j \in Reads : j # k => todo'[j] = todo[j] /\ read'[j] = read[j]
      BY <1>0, <2>1, <2>8 DEF Posters
    <3>2. QED
      BY <2>1, <2>8, <3>1 DEF EqueueInv, Posts, Fits
  <2>15. QED
    BY <2>8, <2>9, <2>10, <2>11, <2>13, <2>14 DEF EqueueInv
<1>5. QED
  BY <1>1, <1>2, <1>3, <1>4

\* Arming, stopping and ending a timer leaves its posts alone.
LEMMA TimersKeep ==
  ASSUME EqueueInv,
         \/ \E t \in Callers, h \in Handles :
              DeleteTimer(t, h) \/ \E k \in Timers : AddTimer(t, h, k)
         \/ \E k \in Timers : TimerPosted(k) \/ TimerForget(k)
  PROVE  EqueueInv'
<1>0. timer \in [Timers -> TimerType] /\ timerOf \in [Handles -> Timers \cup {None}]
      /\ work \in Nat
  BY DEF EqueueInv, Types
<1>1. ASSUME timer' \in [Timers -> TimerType], timerOf' \in [Handles -> Timers \cup {None}],
             work' \in Nat, work <= work',
             \A k \in Timers :
               \/ /\ timer'[k].eq = timer[k].eq /\ timer'[k].meant = timer[k].meant
                  /\ \/ timer'[k].at = timer[k].at
                     \/ /\ timer[k].at = "posting" /\ todo[k] = <<>>
                        /\ timer'[k].at \in {"asleep", "stopping"}
               \/ timer[k].at # "posting" /\ timer'[k].at = "done"
               \/ /\ timer[k].at # "posting" /\ timer'[k].at = "asleep"
                  /\ timer'[k].meant # 0 /\ timer'[k].eq \in Handles
                  /\ at[timer'[k].meant] = timer'[k].eq,
             UNCHANGED <<table, at, queue, regs, pc, timed, todo, held, eopPending, burst, pq,
                         hwm, read, taken, owed>>
      PROVE  EqueueInv'
  <2>1. Types'
    BY <1>1 DEF EqueueInv, Types
  <2>2. Queues' /\ Holding' /\ Posts' /\ Addresses' /\ Fresh'
    BY <1>1 DEF EqueueInv, Queues, Holding, Posts, Fits, Addresses, Bound, Created, Fresh
  <2>3. Numbered'
    BY <1>0, <1>1 DEF EqueueInv, Types, OwedType, Numbered
  <2>4. TimerPosts'
    BY <1>1 DEF EqueueInv, TimerPosts
  <2>5. QED
    BY <2>1, <2>2, <2>3, <2>4 DEF EqueueInv
<1>2. ASSUME NEW t \in Callers, NEW h \in Handles, DeleteTimer(t, h) PROVE EqueueInv'
  <2>1. /\ timerOf[h] # None /\ timer' = [timer EXCEPT ![timerOf[h]].cancelled = TRUE]
        /\ timerOf' = [timerOf EXCEPT ![h] = None]
        /\ UNCHANGED <<table, at, queue, regs, pc, timed, todo, held, eopPending, burst, pq,
                       hwm, read, work, taken, owed>>
    BY <1>2 DEF DeleteTimer, gpu, files, history
  <2>2. /\ timer' \in [Timers -> TimerType]
        /\ \A k \in Timers : timer'[k].eq = timer[k].eq /\ timer'[k].meant = timer[k].meant
                              /\ timer'[k].at = timer[k].at
    BY <1>0, <2>1 DEF TimerType
  <2>3. timerOf' \in [Handles -> Timers \cup {None}]
    BY <1>0, <2>1
  <2>4. QED
    BY <1>0, <1>1, <2>1, <2>2, <2>3
<1>3. ASSUME NEW t \in Callers, NEW h \in Handles, NEW k \in Timers, AddTimer(t, h, k)
      PROVE  EqueueInv'
  <2>1. /\ table[h] # 0 /\ timer[k].at = "unused" /\ work' = work + 1
        /\ timerOf' = [timerOf EXCEPT ![h] = k]
        /\ UNCHANGED <<table, at, queue, regs, pc, timed, todo, held, eopPending, burst, pq,
                       hwm, read, taken, owed>>
    BY <1>3 DEF AddTimer, Live, Made, gpu, files, history
  <2>2. PICK periodic \in BOOLEAN :
         timer' = [j \in Timers |->
           IF j = k THEN [eq |-> h, periodic |-> periodic, cancelled |-> FALSE,
                          at |-> "asleep", meant |-> table[h]]
           ELSE IF j = timerOf[h] THEN [timer[j] EXCEPT !.cancelled = TRUE]
           ELSE timer[j]]
    BY <1>3 DEF AddTimer
  <2>3. table[h] \in Identities /\ at[table[h]] = h
    BY <2>1 DEF EqueueInv, Types, Addresses
  <2>4. /\ timer'[k] \in TimerType /\ timer'[k].eq = h /\ timer'[k].at = "asleep"
        /\ timer'[k].meant = table[h]
    BY <2>2, <2>3 DEF TimerType, TimerPlace
  <2>5. \A j \in Timers : j # k =>
          /\ timer'[j] \in TimerType /\ timer'[j].eq = timer[j].eq
          /\ timer'[j].meant = timer[j].meant /\ timer'[j].at = timer[j].at
    BY <1>0, <2>2 DEF TimerType
  <2>6. timer' \in [Timers -> TimerType]
    BY <2>2, <2>4, <2>5
  <2>7. timerOf' \in [Handles -> Timers \cup {None}] /\ work' \in Nat /\ work <= work'
    BY <1>0, <2>1
  <2>8. \A j \in Timers :
          \/ /\ timer'[j].eq = timer[j].eq /\ timer'[j].meant = timer[j].meant
             /\ timer'[j].at = timer[j].at
          \/ /\ timer[j].at # "posting" /\ timer'[j].at = "asleep"
             /\ timer'[j].meant # 0 /\ timer'[j].eq \in Handles
             /\ at[timer'[j].meant] = timer'[j].eq
    BY <2>1, <2>3, <2>4, <2>5
  <2>9. QED
    BY <1>1, <2>1, <2>6, <2>7, <2>8
<1>4. ASSUME NEW k \in Timers, TimerPosted(k) PROVE EqueueInv'
  <2>1. /\ timer[k].at = "posting" /\ todo[k] = <<>>
        /\ \/ timer' = [timer EXCEPT ![k].at = "asleep"]
           \/ timer' = [timer EXCEPT ![k].at = "stopping"]
        /\ UNCHANGED <<table, at, queue, regs, pc, timed, todo, held, timerOf, eopPending, burst,
                       pq, hwm, read, work, taken, owed>>
    BY <1>4 DEF TimerPosted, TimerStops, gpu, files, history
  <2>2. /\ timer' \in [Timers -> TimerType]
        /\ \A j \in Timers : timer'[j].eq = timer[j].eq /\ timer'[j].meant = timer[j].meant
        /\ \A j \in Timers : j # k => timer'[j].at = timer[j].at
        /\ timer'[k].at \in {"asleep", "stopping"}
    BY <1>0, <2>1 DEF TimerType, TimerPlace
  <2>3. \A j \in Timers :
          /\ timer'[j].eq = timer[j].eq /\ timer'[j].meant = timer[j].meant
          /\ \/ timer'[j].at = timer[j].at
             \/ /\ timer[j].at = "posting" /\ todo[j] = <<>>
                /\ timer'[j].at \in {"asleep", "stopping"}
    BY <2>1, <2>2
  <2>4. QED
    BY <1>0, <1>1, <2>1, <2>2, <2>3
<1>5. ASSUME NEW k \in Timers, TimerForget(k) PROVE EqueueInv'
  <2> DEFINE d == [NoTimer EXCEPT !.at = "done"]
  <2>1. /\ timer[k].at = "stopping" /\ timer' = [timer EXCEPT ![k] = d]
        /\ timerOf' = [h \in Handles |-> IF timerOf[h] = k THEN None ELSE timerOf[h]]
        /\ UNCHANGED <<table, at, queue, regs, pc, timed, todo, held, eopPending, burst,
                       pq, hwm, read, work, taken, owed>>
    BY <1>5 DEF TimerForget, gpu, files, history
  <2>2. d \in TimerType /\ d.at = "done"
    BY DEF TimerType, TimerPlace, NoTimer
  <2> HIDE DEF d
  <2>3. /\ timer' \in [Timers -> TimerType] /\ timer'[k].at = "done"
        /\ \A j \in Timers : j # k => timer'[j] = timer[j]
    BY <1>0, <2>1, <2>2
  <2>4. timerOf' \in [Handles -> Timers \cup {None}]
    BY <1>0, <2>1
  <2>5. \A j \in Timers :
          \/ /\ timer'[j].eq = timer[j].eq /\ timer'[j].meant = timer[j].meant
             /\ timer'[j].at = timer[j].at
          \/ timer[j].at # "posting" /\ timer'[j].at = "done"
    BY <2>1, <2>3
  <2>6. QED
    BY <1>0, <1>1, <2>1, <2>3, <2>4, <2>5
<1>6. QED
  BY <1>2, <1>3, <1>4, <1>5

\* A timer that wakes stops, or has one expiration of its queue to post.
LEMMA TimerWakeIs ==
  ASSUME EqueueInv, NEW k \in Timers, TimerWake(k)
  PROVE  /\ timer[k].at = "asleep"
         /\ UNCHANGED <<table, at, queue, regs, pc, timed, held, timerOf, eopPending, burst, pq,
                        hwm, read, taken>>
         /\ \/ /\ timer' = [timer EXCEPT ![k].at = "stopping"]
               /\ UNCHANGED <<todo, work, owed>>
            \/ /\ timer' = [timer EXCEPT ![k].at = "posting"] /\ work' = work + 1
               /\ \E q \in PostType :
                    /\ todo' = [todo EXCEPT ![k] = <<q>>]
                    /\ q.eq = timer[k].eq /\ q.identity = 0 /\ q.event.key \in Clocks
                    /\ q.event.data = 1 /\ ~q.event.distinct
               /\ owed' = [owed EXCEPT ![timer[k].meant] =
                    [owed[timer[k].meant] EXCEPT !.expired = owed[timer[k].meant].expired + 1]]
<1>1. /\ timer[k].at = "asleep"
      /\ UNCHANGED <<table, at, queue, regs, pc, timed, held, timerOf, eopPending, burst, pq,
                     hwm, read, taken>>
  BY DEF TimerWake, gpu, files
<1>2. CASE /\ timer[k].cancelled /\ TimerStops(k) /\ UNCHANGED <<todo, work, owed>>
  BY <1>1, <1>2 DEF TimerStops
<1>3. CASE /\ Made
           /\ timer' = [timer EXCEPT ![k].at = "posting"]
           /\ Plan(k, <<Post(timer[k].eq, 0,
                             IF timer[k].periodic THEN "timer" ELSE "hrtimer", 1, FALSE)>>)
           /\ owed' = [owed EXCEPT ![timer[k].meant].expired = @ + 1]
  <2> DEFINE c == IF timer[k].periodic THEN "timer" ELSE "hrtimer"
             q == Post(timer[k].eq, 0, c, 1, FALSE)
  <2>1. c \in Clocks /\ c \in Keys
    BY DEF Clocks, Keys
  <2>2. timer[k].eq \in Handles /\ timer[k].meant \in Identities
    BY <1>1 DEF EqueueInv, Types, TimerType, TimerPosts
  <2>3. todo' = [todo EXCEPT ![k] = <<q>>] /\ work' = work + 1
    BY <1>3 DEF Plan, Made
  <2> HIDE DEF c
  <2>4. /\ q \in PostType /\ q.eq = timer[k].eq /\ q.identity = 0 /\ q.event.key = c
        /\ q.event.data = 1 /\ ~q.event.distinct
    BY <2>1, <2>2 DEF Post, PostType, Event
  <2> HIDE DEF q
  <2>5. owed' = [owed EXCEPT ![timer[k].meant] =
                   [owed[timer[k].meant] EXCEPT !.expired = owed[timer[k].meant].expired + 1]]
    BY <1>3, <2>2 DEF EqueueInv, Types
  <2>6. QED
    BY <1>1, <1>3, <2>1, <2>3, <2>4, <2>5
<1>4. QED
  BY <1>1, <1>2, <1>3 DEF TimerWake

LEMMA TimerWakeKeeps ==
  ASSUME EqueueInv, NEW k \in Timers, TimerWake(k)
  PROVE  EqueueInv'
<1>0. /\ timer \in [Timers -> TimerType] /\ work \in Nat /\ owed \in [Identities -> OwedType]
      /\ timer[k].at = "asleep"
  BY TimerWakeIs DEF EqueueInv, Types
<1>1. k \in Posters /\ k # "ptr" /\ k # "eop" /\ k \notin Reads /\ k \notin Threads
  BY PostersApart DEF Posters
<1>2. todo[k] = <<>> /\ held[k] = 0
  BY <1>0, <1>1 DEF EqueueInv, TimerPosts, Holding
<1>3. CASE timer' = [timer EXCEPT ![k].at = "stopping"] /\ UNCHANGED <<todo, work, owed>>
  <2>1. /\ timer' \in [Timers -> TimerType] /\ timer'[k].at = "stopping"
        /\ \A j \in Timers : j # k => timer'[j] = timer[j]
    BY <1>0, <1>3 DEF TimerType, TimerPlace
  <2>2. UNCHANGED <<table, at, queue, regs, pc, timed, held, timerOf, eopPending, burst, pq,
                    hwm, read, taken>>
    BY TimerWakeIs
  <2>3. Types'
    BY <1>3, <2>1, <2>2 DEF EqueueInv, Types
  <2>4. TimerPosts'
    BY <1>2, <1>3, <2>1, <2>2 DEF EqueueInv, TimerPosts
  <2>5. Queues' /\ Holding' /\ Posts' /\ Addresses' /\ Fresh' /\ Numbered'
    BY <1>3, <2>2 DEF EqueueInv, Queues, Holding, Posts, Fits, Addresses, Bound, Created, Fresh,
                      Numbered
  <2>6. QED
    BY <2>3, <2>4, <2>5 DEF EqueueInv
<1>4. ASSUME NEW q \in PostType,
             timer' = [timer EXCEPT ![k].at = "posting"], work' = work + 1,
             todo' = [todo EXCEPT ![k] = <<q>>],
             q.eq = timer[k].eq, q.identity = 0, q.event.key \in Clocks,
             q.event.data = 1, ~q.event.distinct,
             owed' = [owed EXCEPT ![timer[k].meant] =
               [owed[timer[k].meant] EXCEPT !.expired = owed[timer[k].meant].expired + 1]]
      PROVE  EqueueInv'
  <2> DEFINE ps == <<q>>
             m == timer[k].meant
             o == [owed[m] EXCEPT !.expired = owed[m].expired + 1]
  <2>1. m \in Identities /\ m \in Created
    BY <1>0, ConstantsAssumption DEF EqueueInv, Types, TimerType, TimerPosts, Created
  <2>2. UNCHANGED <<table, at, queue, regs, pc, timed, held, timerOf, eopPending, burst, pq,
                    hwm, read, taken>>
    BY TimerWakeIs
  <2>3. Fits(k, q)
    <3>1. q.event.key \notin Counts
      BY <1>4 DEF Clocks, Counts
    <3>2. Kept(q.event)
      BY <1>4, <3>1 DEF Kept
    <3>3. QED
      BY <1>1, <1>4, <3>1, <3>2 DEF Fits, Counts
  <2>4. ps \in Seq(PostType) /\ (\A j \in DOMAIN ps : Fits(k, ps[j])) /\ Len(ps) = 1 /\ Head(ps) = q
    BY <2>3, Alone
  <2>5. todo' = [todo EXCEPT ![k] = ps]
    BY <1>4
  <2> HIDE DEF ps
  <2>6. /\ todo' \in [Posters -> Seq(PostType)] /\ todo'[k] = ps
        /\ \A r \in Posters : r # k => todo'[r] = todo[r]
        /\ Holding'
        /\ \A r \in Posters : \A j \in DOMAIN todo'[r] : Fits(r, todo'[r][j])
    BY <1>1, <1>2, <2>2, <2>4, <2>5, PlanKeeps
  <2>7. o \in OwedType /\ o.tags = owed[m].tags
    <3> DEFINE d == owed[m].expired + 1
    <3>1. owed[m] \in OwedType
      BY <1>0, <2>1
    <3>2. d \in Nat
      BY <3>1 DEF OwedType
    <3>3. o = [owed[m] EXCEPT !.expired = d]
      OBVIOUS
    <3> HIDE DEF d, o
    <3>4. QED
      BY <3>1, <3>2, <3>3 DEF OwedType
  <2>8. owed' = [owed EXCEPT ![m] = o]
    BY <1>4
  <2> HIDE DEF o, m
  <2>9. /\ owed' \in [Identities -> OwedType]
        /\ \A j \in Identities : owed'[j].tags = owed[j].tags
        /\ \A j \in Identities \ Created : owed'[j] = owed[j]
    BY <1>0, <2>1, <2>7, <2>8
  <2>10. /\ timer' \in [Timers -> TimerType] /\ timer'[k].at = "posting"
         /\ timer'[k].eq = timer[k].eq /\ timer'[k].meant = timer[k].meant
         /\ \A j \in Timers : j # k => timer'[j] = timer[j]
    BY <1>0, <1>4 DEF TimerType, TimerPlace
  <2>11. Types'
    BY <1>0, <1>4, <2>2, <2>6, <2>9, <2>10 DEF EqueueInv, Types
  <2>12. TimerPosts'
    <3>1. \A j \in Timers : j # k => todo'[j] = todo[j]
      BY <2>6 DEF Posters
    <3>2. QED
      BY <1>0, <1>4, <2>2, <2>4, <2>6, <2>10, <3>1 DEF EqueueInv, TimerPosts
  <2>13. Queues' /\ Addresses'
    BY <2>2 DEF EqueueInv, Queues, Addresses, Bound, Created
  <2>14. Fresh'
    BY <2>2, <2>9 DEF EqueueInv, Fresh, Created
  <2>15. Numbered'
    BY <1>0, <1>4, <2>9 DEF EqueueInv, OwedType, Numbered
  <2>16. Posts'
    <3>1. \A j \in Reads : todo'[j] = todo[j]
      BY <1>1, <2>6 DEF Posters
    <3>2. QED
      BY <2>2, <2>6, <3>1 DEF EqueueInv, Posts, Fits
  <2>17. QED
    BY <2>6, <2>11, <2>12, <2>13, <2>14, <2>15, <2>16 DEF EqueueInv
<1>5. QED
  BY <1>3, <1>4, TimerWakeIs

-----------------------------------------------------------------------------
LEMMA NextKeeps ==
  ASSUME EqueueInv, [Next]_vars
  PROVE  EqueueInv'
<1>1. ASSUME NEW t \in Callers, Guest(t) PROVE EqueueInv'
  <2>1. CASE Create(t)
    BY <2>1, CreateKeeps
  <2>2. CASE TriggerFlip(t)
    BY <2>2, TriggersKeep
  <2>3. CASE TriggerEop(t)
    BY <2>3, RegistersKeep
  <2>4. ASSUME NEW h \in Handles, Delete(t, h) PROVE EqueueInv'
    BY <2>4, DeleteKeeps
  <2>5. ASSUME NEW h \in Handles, TriggerUser(t, h) PROVE EqueueInv'
    BY <2>5, TriggersKeep
  <2>6. ASSUME NEW h \in Handles, DeleteTimer(t, h) PROVE EqueueInv'
    BY <2>6, TimersKeep
  <2>7. ASSUME NEW h \in Handles, NEW s \in Sources, Register(t, s, h) PROVE EqueueInv'
    BY <2>7, RegistersKeep
  <2>8. ASSUME NEW h \in Handles, NEW k \in Timers, AddTimer(t, h, k) PROVE EqueueInv'
    BY <2>8, TimersKeep
  <2>9. ASSUME NEW i \in Identities, SubmitTag(t, i) PROVE EqueueInv'
    BY <2>9, FilesKeep
  <2>10. ASSUME NEW i \in Identities, NEW k \in Reads, SubmitCounter(t, i, k) PROVE EqueueInv'
    BY <2>10, FilesKeep
  <2>11. QED
    BY <1>1, <2>1, <2>2, <2>3, <2>4, <2>5, <2>6, <2>7, <2>8, <2>9, <2>10 DEF Guest
<1>2. ASSUME NEW t \in Waiters, NEW h \in Handles, CallWait(t, h) PROVE EqueueInv'
  BY <1>2, CallWaitKeeps
<1>3. ASSUME NEW t \in Threads, Handling(t) \/ Wake(t) PROVE EqueueInv'
  BY <1>3, MarkDeletedKeeps, SleepWakeKeep, ReturnKeeps DEF Handling
<1>4. ASSUME NEW p \in Posters, Posting(p) PROVE EqueueInv'
  BY <1>4, FindKeeps, DeliverKeeps DEF Posting
<1>5. ASSUME PumpTick \/ EopTake \/ EopPostNow \/ PtrTake PROVE EqueueInv'
  BY <1>5, TriggersKeep, RegistersKeep, FilesKeep
<1>6. ASSUME NEW k \in Timers, Clock(k) PROVE EqueueInv'
  BY <1>6, TimerWakeKeeps, TimersKeep DEF Clock
<1>7. ASSUME NEW k \in Reads, ReadWake(k) PROVE EqueueInv'
  BY <1>7, FilesKeep
<1>8. CASE UNCHANGED vars
  <2>1. UNCHANGED <<table, at, queue, regs, pc, timed, todo, held, timer, timerOf, eopPending,
                    burst, pq, hwm, read, work, taken, owed>>
    BY <1>8 DEF vars, gpu, files, clocks, history
  <2>2. Types' /\ Queues' /\ Holding' /\ Numbered'
    BY <2>1 DEF EqueueInv, Types, Queues, Holding, Numbered
  <2>3. Posts' /\ TimerPosts' /\ Addresses' /\ Fresh'
    BY <2>1 DEF EqueueInv, Posts, Fits, TimerPosts, Addresses, Bound, Fresh, Created
  <2>4. QED
    BY <2>2, <2>3 DEF EqueueInv
<1>9. QED
  BY <1>1, <1>2, <1>3, <1>4, <1>5, <1>6, <1>7, <1>8 DEF Next

LEMMA AlwaysInv == Spec => []EqueueInv
BY InitInv, NextKeeps, PTL DEF Spec

LEMMA InvTypes ==
  ASSUME EqueueInv
  PROVE  TypeOK
<1>1. \A i \in Identities : QueueOK(queue[i])
  BY DEF EqueueInv, Queues, WellKept
<1>2. \A s \in Sources : \A k \in DOMAIN regs[s] : regs[s][k] \in Handles
  BY Reading DEF EqueueInv, Types
<1>3. QED
  BY <1>1, <1>2 DEF EqueueInv, Types, TypeOK

\* Every variable has its type and every queue is well formed: the count that
\* guards the cap is the number of entries that may be merged, no two of them
\* are of one key, and there are never more of them than the cap.
THEOREM TypeCorrect == Spec => []TypeOK
BY AlwaysInv, InvTypes, PTL

-----------------------------------------------------------------------------
(***************************************************************************)
(* No sleeper is missed.                                                   *)
(***************************************************************************)
\* A queue gets entries or is deleted only under its lock, with every sleeper
\* told; a thread that looks goes to sleep only on a queue that has neither.
LEMMA SleepersKeep ==
  ASSUME EqueueInv, NoSleeperMissed, [Next]_vars
  PROVE  NoSleeperMissed'
<1>1. ASSUME UNCHANGED <<pc, queue>>,
             \A t \in Threads : pc[t] = "asleep" => held'[t] = held[t]
      PROVE  NoSleeperMissed'
  BY <1>1 DEF NoSleeperMissed, Ready
<1>2. ASSUME UNCHANGED <<pc, queue, held>> PROVE NoSleeperMissed'
  BY <1>1, <1>2
<1>3. ASSUME NEW t \in Callers, Guest(t), ~(\E h \in Handles : Delete(t, h))
      PROVE  UNCHANGED <<pc, queue, held>>
  <2>1. CASE Create(t) \/ TriggerFlip(t) \/ TriggerEop(t)
    BY <2>1 DEF Create, TriggerFlip, TriggerEop
  <2>2. CASE \E h \in Handles :
               \/ TriggerUser(t, h) \/ DeleteTimer(t, h)
               \/ \E s \in Sources : Register(t, s, h)
               \/ \E k \in Timers : AddTimer(t, h, k)
    BY <2>2 DEF TriggerUser, DeleteTimer, Register, AddTimer
  <2>3. CASE \E i \in Identities : SubmitTag(t, i) \/ \E k \in Reads : SubmitCounter(t, i, k)
    BY <2>3 DEF SubmitTag, SubmitCounter
  <2>4. QED
    BY <1>3, <2>1, <2>2, <2>3 DEF Guest
<1>4. ASSUME NEW t \in Callers, NEW h \in Handles, Delete(t, h) PROVE NoSleeperMissed'
  <2>1. t \in Threads /\ pc[t] = "idle"
    BY <1>4 DEF Delete, Idle, Threads
  <2>2. /\ pc' = [pc EXCEPT ![t] = IF Live(h) THEN "deleting" ELSE "idle"]
        /\ held' = [held EXCEPT ![t] = table[h]] /\ queue' = queue
    BY <1>4 DEF Delete
  <2>3. \A u \in Threads : pc'[u] = "asleep" => pc[u] = "asleep" /\ held'[u] = held[u]
    BY <2>1, <2>2 DEF EqueueInv, Types, Posters
  <2>4. QED
    BY <2>2, <2>3 DEF NoSleeperMissed, Ready
<1>5. ASSUME NEW t \in Waiters, NEW h \in Handles, CallWait(t, h) PROVE NoSleeperMissed'
  <2>1. t \in Threads
    BY DEF Threads
  <2>2. /\ pc' = [pc EXCEPT ![t] = "locking"]
        /\ held' = [held EXCEPT ![t] = table[h]] /\ queue' = queue
    BY <1>5 DEF CallWait
  <2>3. \A u \in Threads : pc'[u] = "asleep" => pc[u] = "asleep" /\ held'[u] = held[u]
    BY <2>1, <2>2 DEF EqueueInv, Types, Posters
  <2>4. QED
    BY <2>2, <2>3 DEF NoSleeperMissed, Ready
<1>6. ASSUME NEW t \in Threads, MarkDeleted(t) PROVE NoSleeperMissed'
  <2>1. /\ queue' = [queue EXCEPT ![held[t]].deleted = TRUE]
        /\ pc' = [Notified(held[t]) EXCEPT ![t] = "idle"]
        /\ held' = [held EXCEPT ![t] = 0]
    BY <1>6 DEF MarkDeleted
  <2>2. ASSUME NEW u \in Threads, pc'[u] = "asleep"
        PROVE  pc[u] = "asleep" /\ held[u] # held[t] /\ held'[u] = held[u]
    BY <2>1, <2>2 DEF EqueueInv, Types, Notified, Posters
  <2>3. \A j \in Identities : j # held[t] => queue'[j] = queue[j]
    BY <2>1 DEF EqueueInv, Types
  <2>4. \A u \in Threads : pc[u] = "asleep" => held[u] \in Identities
    BY DEF EqueueInv, Types, Holding, Posters
  <2>5. QED
    BY <2>2, <2>3, <2>4 DEF NoSleeperMissed, Ready
<1>7. ASSUME NEW t \in Threads, Sleep(t) \/ Wake(t) PROVE NoSleeperMissed'
  <2>1. queue' = queue /\ held' = held
    BY <1>7 DEF Sleep, Wake
  <2>2. \A u \in Threads : pc'[u] = "asleep" => pc[u] = "asleep" \/ ~Ready(held[u])
    BY <1>7 DEF Sleep, Wake, EqueueInv, Types
  <2>3. QED
    BY <2>1, <2>2 DEF NoSleeperMissed, Ready
<1>8. ASSUME NEW t \in Threads, Return(t) PROVE NoSleeperMissed'
  <2>1. pc' = [pc EXCEPT ![t] = "idle"] /\ held' = [held EXCEPT ![t] = 0]
    BY <1>8 DEF Return
  <2>2. PICK n \in 0 .. Len(queue[held[t]].ready) :
          held[t] \in Identities /\ queue' = [queue EXCEPT ![held[t]] = Took(queue[held[t]], n)]
    BY <1>8, ReturnKeeps
  <2>3. WellKept(queue[held[t]])
    BY <2>2 DEF EqueueInv, Queues
  <2>4. /\ Took(queue[held[t]], n).deleted = queue[held[t]].deleted
        /\ queue[held[t]].ready = <<>> => Took(queue[held[t]], n).ready = <<>>
    BY <2>3, TookKeeps
  <2>5. \A j \in Identities : queue'[j].deleted = queue[j].deleted
                                /\ (queue[j].ready = <<>> => queue'[j].ready = <<>>)
    BY <2>2, <2>4 DEF EqueueInv, Types
  <2>6. \A u \in Threads : pc'[u] = "asleep" => pc[u] = "asleep" /\ held'[u] = held[u]
    BY <2>1 DEF EqueueInv, Types, Posters
  <2>7. \A u \in Threads : pc[u] = "asleep" => held[u] \in Identities
    BY DEF EqueueInv, Types, Holding, Posters
  <2>8. QED
    BY <2>5, <2>6, <2>7 DEF NoSleeperMissed, Ready
<1>9. ASSUME NEW p \in Posters, Find(p) PROVE NoSleeperMissed'
  <2>1. p \in Threads => pc[p] = "idle"
    BY <1>9, HeadIs DEF Find
  <2>2. /\ UNCHANGED <<pc, queue>>
        /\ held' = held \/ \E i : held' = [held EXCEPT ![p] = i]
    BY <1>9 DEF Find
  <2>3. \A u \in Threads : pc[u] = "asleep" => held'[u] = held[u]
    BY <2>1, <2>2 DEF EqueueInv, Types, Posters
  <2>4. QED
    BY <1>1, <2>2, <2>3
<1>10. ASSUME NEW p \in Posters, Deliver(p) PROVE NoSleeperMissed'
  <2> DEFINE i == held[p]
  <2>1. /\ i \in Identities
        /\ \/ queue[i].deleted /\ queue' = queue
           \/ ~queue[i].deleted /\ \E q : queue' = [queue EXCEPT ![i] = q]
        /\ held' = [held EXCEPT ![p] = 0]
        /\ \A t \in Threads : pc'[t] = pc[t] \/ (pc[t] = "asleep" /\ pc'[t] = "locking")
        /\ ~queue[i].deleted => \A t \in Threads : held[t] = i => pc'[t] # "asleep"
    BY <1>10, DeliverIs DEF Created
  <2> HIDE DEF i
  <2>2. p \in Threads => pc[p] = "idle"
    BY <1>10, HeadIs DEF Deliver
  <2>3. \A u \in Threads : pc'[u] = "asleep" => pc[u] = "asleep" /\ held'[u] = held[u]
    BY <2>1, <2>2 DEF EqueueInv, Types, Posters
  <2>4. \A u \in Threads : pc'[u] = "asleep" => queue'[held[u]] = queue[held[u]]
    <3>1. \A u \in Threads : pc[u] = "asleep" => held[u] \in Identities
      BY DEF EqueueInv, Types, Holding, Posters
    <3>2. QED
      BY <2>1, <2>3, <3>1 DEF EqueueInv, Types
  <2>5. QED
    BY <2>3, <2>4 DEF NoSleeperMissed, Ready
<1>11. ASSUME PumpTick \/ EopTake \/ EopPostNow \/ PtrTake PROVE UNCHANGED <<pc, queue, held>>
  BY <1>11 DEF PumpTick, EopTake, EopPostNow, PtrTake
<1>12. ASSUME NEW k \in Timers, Clock(k) PROVE UNCHANGED <<pc, queue, held>>
  BY <1>12 DEF Clock, TimerWake, TimerPosted, TimerForget
<1>13. ASSUME NEW k \in Reads, ReadWake(k) PROVE UNCHANGED <<pc, queue, held>>
  BY <1>13 DEF ReadWake
<1>14. CASE UNCHANGED vars
  BY <1>2, <1>14 DEF vars
<1>15. QED
  BY <1>2, <1>3, <1>4, <1>5, <1>6, <1>7, <1>8, <1>9, <1>10, <1>11, <1>12, <1>13, <1>14
     DEF Next, Handling, Posting

\* No thread sleeps on a queue that has events or is deleted: a post and a
\* deletion wake every sleeper, and the wait looks again under the lock.
THEOREM SleepersWoken == Spec => []NoSleeperMissed
<1>1. Init => NoSleeperMissed
  BY DEF Init, NoSleeperMissed
<1>2. QED
  BY <1>1, AlwaysInv, SleepersKeep, PTL DEF Spec

-----------------------------------------------------------------------------
(***************************************************************************)
(* What a queue is owed.                                                   *)
(***************************************************************************)
\* ExpirationsCounted, of one queue.
InFlight(i) == {k \in Timers : timer[k].meant = i /\ todo[k] # <<>>}
Counted(i) ==
  taken[i].expired + Expirations(queue[i].ready) + owed[i].shed + Cardinality(InFlight(i))
    >= owed[i].expired

Settled(i) == TagsInOrder(i) /\ EopDelivered(i) /\ Counted(i)
AllSettled == \A i \in Identities : Bound(i) => Settled(i)

LEMMA SettledIs == AllSettled <=> CompletionsKept /\ ExpirationsCounted
BY DEF AllSettled, Settled, Counted, InFlight, CompletionsKept, ExpirationsCounted

LEMMA TagsStay ==
  ASSUME NEW i \in Identities, TagsInOrder(i),
         queue'[i].ready = queue[i].ready, taken'[i].tags = taken[i].tags,
         owed'[i].tags = owed[i].tags, todo'["ptr"] = todo["ptr"], pq' = pq
  PROVE  TagsInOrder(i)'
BY DEF TagsInOrder

\* The parts of TagsInOrder, apart from where they are kept.
TagLine(i, r, T, ps, rest, O) ==
  /\ \A j, k \in OfKey(r, "tag") : j < k => r[j].data < r[k].data
  /\ \A qs \in {ps, rest} : \A j, k \in DOMAIN qs :
       qs[j].identity = i /\ qs[k].identity = i /\ j < k =>
         qs[j].event.data < qs[k].event.data
  /\ Before(T, Tags(r)) /\ Before(T \cup Tags(r), PostedTags(ps, i))
  /\ Before(T \cup Tags(r) \cup PostedTags(ps, i), PostedTags(rest, i))
  /\ T \cup Tags(r) \cup PostedTags(ps, i) \cup PostedTags(rest, i) = O

LEMMA InLine ==
  ASSUME NEW i \in Identities,
         TagLine(i, queue'[i].ready, taken'[i].tags, todo'["ptr"], pq', owed'[i].tags)
  PROVE  TagsInOrder(i)'
BY DEF TagsInOrder, TagLine

LEMMA EopStays ==
  ASSUME NEW i \in Identities, EopDelivered(i), at'[i] = at[i],
         queue'[i].ready = queue[i].ready, taken'[i].eop = taken[i].eop,
         owed'[i].eop = owed[i].eop, todo'["eop"] = todo["eop"],
         regs'["eop"] = regs["eop"], eopPending' = eopPending, burst' = burst
  PROVE  EopDelivered(i)'
BY DEF EopDelivered

LEMMA CountStays ==
  ASSUME NEW i \in Identities, Counted(i), InFlight(i)' = InFlight(i),
         queue'[i].ready = queue[i].ready, taken'[i].expired = taken[i].expired,
         owed'[i].expired = owed[i].expired, owed'[i].shed = owed[i].shed
  PROVE  Counted(i)'
BY DEF Counted

\* What matters to a queue's debts is unchanged.
LEMMA Unmoved ==
  ASSUME NEW i \in Identities, Settled(i), at'[i] = at[i],
         queue'[i].ready = queue[i].ready, InFlight(i)' = InFlight(i),
         regs'["eop"] = regs["eop"], todo'["ptr"] = todo["ptr"], todo'["eop"] = todo["eop"],
         UNCHANGED <<pq, eopPending, burst, taken, owed>>
  PROVE  Settled(i)'
<1>1. TagsInOrder(i)'
  BY TagsStay DEF Settled
<1>2. EopDelivered(i)'
  BY EopStays DEF Settled
<1>3. Counted(i)'
  BY CountStays DEF Settled
<1>4. QED
  BY <1>1, <1>2, <1>3 DEF Settled

\* The parts of the debts are numbers.
LEMMA FlightsFinite ==
  \A i : IsFiniteSet(InFlight(i)) /\ Cardinality(InFlight(i)) \in Nat
BY ConstantsAssumption, FS_Subset, FS_CardinalityType DEF InFlight

LEMMA DebtTypes ==
  ASSUME EqueueInv, NEW i \in Identities
  PROVE  /\ taken[i].eop \in Nat /\ taken[i].expired \in Nat /\ taken[i].tags \subseteq Nat
         /\ owed[i].eop \in Nat /\ owed[i].expired \in Nat /\ owed[i].shed \in Nat
         /\ owed[i].tags \subseteq Nat
         /\ WellKept(queue[i]) /\ queue[i].ready \in Seq(Event)
         /\ Completions(queue[i].ready) \in Nat /\ Expirations(queue[i].ready) \in Nat
         /\ Tags(queue[i].ready) \subseteq Nat
         /\ eopPending \in Nat /\ burst \in Nat /\ pq \in Seq(PostType)
         /\ todo["eop"] \in Seq(PostType) /\ todo["ptr"] \in Seq(PostType)
         /\ regs["eop"] \in Seq(Handles)
<1>1. taken[i] \in TakenType /\ owed[i] \in OwedType
  BY DEF EqueueInv, Types
<1>2. WellKept(queue[i])
  BY DEF EqueueInv, Queues
<1>3. queue[i].ready \in Seq(Event)
  BY <1>2, Mergeable
<1>4. /\ Completions(queue[i].ready) \in Nat /\ Expirations(queue[i].ready) \in Nat
      /\ Tags(queue[i].ready) \subseteq Nat
  BY <1>3, ContentsType
<1>5. /\ eopPending \in Nat /\ burst \in Nat /\ pq \in Seq(PostType)
      /\ todo["eop"] \in Seq(PostType) /\ todo["ptr"] \in Seq(PostType)
      /\ regs["eop"] \in Seq(Handles)
  BY PostersApart DEF EqueueInv, Types, Sources
<1>6. QED
  BY <1>1, <1>2, <1>3, <1>4, <1>5 DEF TakenType, OwedType

\* The posts on their way to a queue's handle.
Coming(ps, h) == {k \in DOMAIN ps : ps[k].eq = h}
LEMMA ComingType ==
  ASSUME NEW ps \in Seq(PostType), NEW h
  PROVE  /\ Coming(ps, h) \in SUBSET (1 .. Len(ps)) /\ IsFiniteSet(Coming(ps, h))
         /\ Cardinality(Coming(ps, h)) \in Nat
<1>1. Coming(ps, h) \in SUBSET (1 .. Len(ps)) /\ Len(ps) \in Nat
  BY Reading DEF Coming
<1>2. QED
  BY <1>1, PositionsFinite

\* The first post goes.
LEMMA ComingTail ==
  ASSUME NEW ps \in Seq(PostType), ps # <<>>, NEW h
  PROVE  Cardinality(Coming(ps, h))
           = Cardinality(Coming(Tail(ps), h)) + (IF ps[1].eq = h THEN 1 ELSE 0)
<1> DEFINE n == Len(ps)
           P == Coming(ps, h)
           up == {k \in P : k <= 1}
           down == {k \in 1 .. n - 1 : k + 1 \in P}
<1>1. /\ n \in Nat \ {0} /\ DOMAIN Tail(ps) = 1 .. n - 1 /\ DOMAIN ps = 1 .. n
      /\ \A k \in 1 .. n - 1 : Tail(ps)[k] = ps[k + 1]
  BY TailIs
<1>2. P \in SUBSET (1 .. n)
  BY ComingType
<1>3. Cardinality(P) = Cardinality(up) + Cardinality(down)
  <2>1. 1 \in 0 .. n
    BY <1>1
  <2> HIDE DEF P, n
  <2>2. QED
    BY <1>1, <1>2, <2>1, Cut
<1>4. Coming(Tail(ps), h) = down
  BY <1>1 DEF Coming
<1>5. up = IF ps[1].eq = h THEN {1} ELSE {}
  BY <1>1, <1>2 DEF Coming
<1>6. Cardinality(up) = IF ps[1].eq = h THEN 1 ELSE 0
  <2> HIDE DEF up
  <2>1. QED
    BY <1>5, FS_EmptySet, FS_Singleton
<1>7. Cardinality(down) \in Nat
  <2>1. down \in SUBSET (1 .. n - 1) /\ n - 1 \in Nat
    BY <1>1
  <2> HIDE DEF down, n
  <2>2. QED
    BY <2>1, PositionsFinite
<1> HIDE DEF up, down
<1>8. QED
  BY <1>3, <1>4, <1>6, <1>7

LEMMA EopIs ==
  ASSUME NEW i \in Identities
  PROVE  EopDelivered(i) <=>
           taken[i].eop + Completions(queue[i].ready) + Cardinality(Coming(todo["eop"], at[i]))
             + (IF Contains(regs["eop"], at[i]) THEN eopPending + burst ELSE 0) >= owed[i].eop
BY DEF EopDelivered, Coming

\* Which queues have their handle changes only when one is created or deleted.
LEMMA SameBound ==
  ASSUME UNCHANGED <<table, at>>, NEW i \in Identities
  PROVE  Bound(i)' <=> Bound(i)
BY DEF Bound, Created

\* A step that delivers nothing, owes nothing and plans nothing for a queue.
LEMMA QuietSettles ==
  ASSUME AllSettled, UNCHANGED <<table, at>>,
         \A i \in Identities : Bound(i) =>
           queue'[i].ready = queue[i].ready /\ InFlight(i)' = InFlight(i),
         regs'["eop"] = regs["eop"], todo'["ptr"] = todo["ptr"], todo'["eop"] = todo["eop"],
         UNCHANGED <<pq, eopPending, burst, taken, owed>>
  PROVE  AllSettled'
<1>1. ASSUME NEW i \in Identities, Bound(i)' PROVE Settled(i)'
  <2>1. Bound(i) /\ Settled(i) /\ at'[i] = at[i]
    BY <1>1, SameBound DEF AllSettled
  <2>2. queue'[i].ready = queue[i].ready /\ InFlight(i)' = InFlight(i)
    BY <2>1
  <2>3. QED
    BY <2>1, <2>2, Unmoved
<1>2. QED
  BY <1>1 DEF AllSettled

\* Handlers, and posts of the other threads.
LEMMA WaitsSettle ==
  ASSUME EqueueInv, AllSettled,
         \/ \E t \in Waiters, h \in Handles : CallWait(t, h)
         \/ \E t \in Threads : Sleep(t) \/ Wake(t) \/ MarkDeleted(t)
  PROVE  AllSettled'
<1>1. UNCHANGED <<table, at, regs, todo, pq, eopPending, burst, taken, owed, timer>>
  BY DEF CallWait, Sleep, Wake, MarkDeleted, clocks, gpu, files, history
<1>2. \A i \in Identities : queue'[i].ready = queue[i].ready
  <2>1. CASE queue' = queue
    BY <2>1
  <2>2. ASSUME NEW t \in Threads, MarkDeleted(t)
        PROVE  \A i \in Identities : queue'[i].ready = queue[i].ready
    <3>1. queue \in [Identities -> QueueType] /\ queue' = [queue EXCEPT ![held[t]].deleted = TRUE]
      BY <2>2 DEF MarkDeleted, EqueueInv, Types
    <3>2. QED
      BY <3>1 DEF QueueType
  <2>3. QED
    BY <2>1, <2>2 DEF CallWait, Sleep, Wake
<1>3. \A i \in Identities : InFlight(i)' = InFlight(i)
  BY <1>1 DEF InFlight
<1>4. QED
  BY <1>1, <1>2, <1>3, QuietSettles

LEMMA OthersPlan ==
  ASSUME EqueueInv, NEW p \in Posters \ ({"ptr", "eop"} \cup Timers),
         NEW ps, todo' = [todo EXCEPT ![p] = ps]
  PROVE  /\ todo'["ptr"] = todo["ptr"] /\ todo'["eop"] = todo["eop"]
         /\ \A k \in Timers : todo'[k] = todo[k]
<1>1. todo \in [Posters -> Seq(PostType)]
  BY DEF EqueueInv, Types
<1>2. QED
  BY <1>1, PostersApart DEF Posters

LEMMA PlansSettle ==
  ASSUME EqueueInv, AllSettled,
         \/ \E t \in Callers : TriggerFlip(t) \/ \E h \in Handles : TriggerUser(t, h)
         \/ PumpTick
         \/ \E k \in Reads : ReadWake(k)
         \/ \E t \in Callers, i \in Identities, k \in Reads : SubmitCounter(t, i, k)
  PROVE  AllSettled'
<1>1. UNCHANGED <<table, at, queue, regs, pq, eopPending, burst, taken, owed, timer>>
  BY DEF TriggerFlip, TriggerUser, PumpTick, ReadWake, SubmitCounter, clocks, gpu, files, history
<1>2. \/ todo' = todo
      \/ \E p \in Callers \cup {"pump"} \cup Reads : \E ps : todo' = [todo EXCEPT ![p] = ps]
  BY DEF TriggerFlip, TriggerUser, PumpTick, ReadWake, SubmitCounter, Plan
<1>3. Callers \cup {"pump"} \cup Reads \subseteq Posters \ ({"ptr", "eop"} \cup Timers)
  BY PostersApart, PostersAssumption DEF Posters, Threads, Workers
<1>4. /\ todo'["ptr"] = todo["ptr"] /\ todo'["eop"] = todo["eop"]
      /\ \A k \in Timers : todo'[k] = todo[k]
  BY <1>2, <1>3, OthersPlan
<1>5. \A i \in Identities : InFlight(i)' = InFlight(i)
  BY <1>1, <1>4 DEF InFlight
<1>6. QED
  BY <1>1, <1>4, <1>5, QuietSettles

\* Arming, stopping and ending a timer: none has a post to make.
LEMMA ClocksSettle ==
  ASSUME EqueueInv, AllSettled,
         \/ \E t \in Callers, h \in Handles :
              DeleteTimer(t, h) \/ \E k \in Timers : AddTimer(t, h, k)
         \/ \E k \in Timers : TimerPosted(k) \/ TimerForget(k)
  PROVE  AllSettled'
<1>0. timer \in [Timers -> TimerType]
  BY DEF EqueueInv, Types
<1>1. UNCHANGED <<table, at, queue, regs, todo, pq, eopPending, burst, taken, owed>>
  BY DEF DeleteTimer, AddTimer, TimerPosted, TimerForget, gpu, files, history
<1>2. \A k \in Timers : todo[k] # <<>> => timer[k].at = "posting"
  BY DEF EqueueInv, TimerPosts
<1>3. \A j \in Timers : timer'[j].meant = timer[j].meant \/ todo[j] = <<>>
  <2>1. ASSUME NEW t \in Callers, NEW h \in Handles, DeleteTimer(t, h)
        PROVE  \A j \in Timers : timer'[j].meant = timer[j].meant
    BY <1>0, <2>1 DEF DeleteTimer, TimerType
  <2>2. ASSUME NEW t \in Callers, NEW h \in Handles, NEW k \in Timers, AddTimer(t, h, k)
        PROVE  \A j \in Timers : timer'[j].meant = timer[j].meant \/ todo[j] = <<>>
    <3>1. todo[k] = <<>>
      BY <1>2, <2>2 DEF AddTimer
    <3>2. \A j \in Timers : j # k => timer'[j].meant = timer[j].meant
      BY <1>0, <2>2 DEF AddTimer, TimerType
    <3>3. QED
      BY <3>1, <3>2
  <2>3. ASSUME NEW k \in Timers, TimerPosted(k)
        PROVE  \A j \in Timers : timer'[j].meant = timer[j].meant
    BY <1>0, <2>3 DEF TimerPosted, TimerStops, TimerType
  <2>4. ASSUME NEW k \in Timers, TimerForget(k)
        PROVE  \A j \in Timers : timer'[j].meant = timer[j].meant \/ todo[j] = <<>>
    <3>1. todo[k] = <<>>
      BY <1>2, <2>4 DEF TimerForget
    <3>2. \A j \in Timers : j # k => timer'[j].meant = timer[j].meant
      BY <1>0, <2>4 DEF TimerForget
    <3>3. QED
      BY <3>1, <3>2
  <2>5. QED
    BY <2>1, <2>2, <2>3, <2>4
<1>4. \A i \in Identities : InFlight(i)' = InFlight(i)
  BY <1>1, <1>3 DEF InFlight
<1>5. QED
  BY <1>1, <1>4, QuietSettles

\* Creating a queue gives it an address nothing on its way is bound for.
LEMMA CreateSettles ==
  ASSUME EqueueInv, AllSettled, NEW t \in Callers, Create(t)
  PROVE  AllSettled'
<1>1. PICK i \in Identities, h \in Handles :
        /\ i \notin Created
        /\ table' = [table EXCEPT ![h] = i] /\ at' = [at EXCEPT ![i] = h]
  BY DEF Create
<1>2. UNCHANGED <<queue, regs, todo, pq, eopPending, burst, taken, owed, timer>>
  BY DEF Create, clocks, gpu, files, history
<1>3. table \in [Handles -> {0} \cup Identities] /\ at \in [Identities -> Handles \cup {None}]
  BY DEF EqueueInv, Types
<1>4. \A j \in Identities : InFlight(j)' = InFlight(j)
  BY <1>2 DEF InFlight
<1>5. ASSUME NEW j \in Identities, j # i, Bound(j)' PROVE Settled(j)'
  <2>1. at'[j] = at[j] /\ at[j] # None /\ table'[at[j]] = j
    BY <1>1, <1>3, <1>5 DEF Bound, Created
  <2>2. at[j] \in Handles /\ table[at[j]] = j
    BY <1>1, <1>3, <1>5, <2>1
  <2>3. Settled(j)
    BY <2>1, <2>2 DEF AllSettled, Bound, Created
  <2>4. QED
    BY <1>2, <1>4, <2>1, <2>3, Unmoved
<1>6. Settled(i)'
  <2>1. /\ queue[i].ready = <<>> /\ taken[i].tags = {} /\ owed[i].tags = {} /\ owed[i].eop = 0
        /\ owed[i].expired = 0 /\ at[i] = None
    BY <1>1 DEF EqueueInv, Fresh, Empty, Created
  <2>2. OfKey(<<>>, "tag") = {} /\ Tags(<<>>) = {}
    BY DEF OfKey, Tags
  <2>3. ASSUME NEW ps \in {todo["ptr"], pq}
        PROVE  \A k \in DOMAIN ps : ps[k].identity # i
    <3>1. /\ \A k \in DOMAIN ps : Fits("ptr", ps[k])
          /\ ps \in Seq(PostType)
      BY PostersApart DEF EqueueInv, Posts, Types
    <3>2. \A k \in DOMAIN ps : ps[k].eq \in Handles
      BY <3>1, PostIs
    <3>3. \A h2 \in Handles : h2 # None
      BY ConstantsAssumption
    <3>4. i # 0
      BY ConstantsAssumption DEF Identities
    <3>5. QED
      BY <2>1, <3>1, <3>2, <3>3, <3>4 DEF Fits
  <2>4. PostedTags(todo["ptr"], i) = {} /\ PostedTags(pq, i) = {}
    BY <2>3 DEF PostedTags
  <2>5. TagsInOrder(i)'
    BY <1>2, <2>1, <2>2, <2>3, <2>4 DEF TagsInOrder, Before
  <2>6. EopDelivered(i)'
    <3> DEFINE a == taken'[i].eop
               b == Completions(queue'[i].ready)
               c == Cardinality(Coming(todo'["eop"], at'[i]))
               d == IF Contains(regs'["eop"], at'[i]) THEN eopPending' + burst' ELSE 0
    <3>1. a \in Nat /\ b \in Nat /\ eopPending' \in Nat /\ burst' \in Nat
      BY <1>2, DebtTypes
    <3>2. c \in Nat /\ d \in Nat
      <4>1. todo["eop"] \in Seq(PostType)
        BY DebtTypes
      <4>2. QED
        BY <1>2, <3>1, <4>1, ComingType
    <3>3. owed'[i].eop = 0
      BY <1>2, <2>1
    <3> HIDE DEF a, b, c, d
    <3>4. a + b + c + d >= owed'[i].eop
      BY <3>1, <3>2, <3>3
    <3>5. QED
      BY <3>4 DEF EopDelivered, Coming, a, b, c, d
  <2>7. Counted(i)'
    <3>1. /\ taken[i].expired \in Nat /\ Expirations(queue[i].ready) \in Nat
          /\ owed[i].shed \in Nat /\ Cardinality(InFlight(i)) \in Nat
      BY DebtTypes, FlightsFinite
    <3>2. Counted(i)
      <4> DEFINE x == Expirations(queue[i].ready)
                 y == Cardinality(InFlight(i))
                 a == taken[i].expired
                 b == owed[i].shed
      <4>1. x \in Nat /\ y \in Nat /\ a \in Nat /\ b \in Nat
        BY <3>1
      <4>2. owed[i].expired = 0
        BY <2>1
      <4> HIDE DEF x, y, a, b
      <4>3. a + x + b + y >= 0
        BY <4>1
      <4>4. QED
        BY <4>2, <4>3 DEF Counted, x, y, a, b
    <3>3. QED
      BY <1>2, <1>4, <3>2, CountStays
  <2>8. QED
    BY <2>5, <2>6, <2>7 DEF Settled
<1>7. QED
  BY <1>5, <1>6 DEF AllSettled

\* Taking one queue's registrations out leaves the others'.
LEMMA WithoutContains ==
  ASSUME NEW s \in Seq(Handles), NEW h \in Handles, NEW g \in Handles, g # h
  PROVE  Contains(Without(s, h), g) <=> Contains(s, g)
<1>1. CASE ~Contains(s, h)
  BY <1>1 DEF Without
<1>2. CASE Contains(s, h)
  <2> DEFINE v == CHOOSE k \in DOMAIN s : s[k] = h
             q == RemoveAt(s, v)
             n == Len(s)
  <2>1. n \in Nat /\ DOMAIN s = 1 .. n
    BY Reading
  <2>2. v \in 1 .. n /\ s[v] = h
    BY <1>2, <2>1 DEF Contains
  <2> HIDE DEF v
  <2>3. Len(q) = n - 1 /\ \A k \in 1 .. n - 1 : q[k] = s[Was(v, k)]
    BY <2>2, RemovedAt
  <2>4. Without(s, h) = q
    BY <1>2 DEF Without, v
  <2> HIDE DEF q, n
  <2>5. ASSUME NEW k \in 1 .. n - 1, q[k] = g PROVE \E j \in 1 .. n : s[j] = g
    <3>1. Was(v, k) \in 1 .. n
      BY <2>1, <2>2 DEF Was
    <3>2. QED
      BY <2>3, <2>5, <3>1
  <2>6. ASSUME NEW j \in 1 .. n, s[j] = g PROVE \E k \in 1 .. n - 1 : q[k] = g
    <3>1. j # v
      BY <2>2, <2>6
    <3>2. CASE j < v
      <4>1. j \in 1 .. n - 1 /\ Was(v, j) = j
        BY <2>1, <2>2, <3>2 DEF Was
      <4>2. QED
        BY <2>3, <2>6, <4>1
    <3>3. CASE v < j
      <4>1. j - 1 \in 1 .. n - 1 /\ Was(v, j - 1) = j
        BY <2>1, <2>2, <3>3 DEF Was
      <4>2. QED
        BY <2>3, <2>6, <4>1
    <3>4. QED
      BY <2>1, <2>2, <3>1, <3>2, <3>3
  <2>7. QED
    BY <2>3, <2>4, <2>5, <2>6 DEF Contains, n
<1>3. QED
  BY <1>1, <1>2

LEMMA DeleteSettles ==
  ASSUME EqueueInv, AllSettled, NEW t \in Callers, NEW h \in Handles, Delete(t, h)
  PROVE  AllSettled'
<1>1. /\ table' = [table EXCEPT ![h] = 0]
      /\ regs' = [s \in Sources |-> Without(regs[s], h)]
      /\ UNCHANGED <<at, queue, todo, eopPending, burst, pq, taken, owed>>
  BY DEF Delete, gpu, files, history
<1>2. \A k \in Timers : timer'[k].meant = timer[k].meant
  BY DEF Delete, EqueueInv, Types, TimerType
<1>3. \A i \in Identities : InFlight(i)' = InFlight(i)
  BY <1>1, <1>2 DEF InFlight
<1>4. ASSUME NEW i \in Identities, Bound(i)' PROVE Settled(i)'
  <2>1. /\ at[i] \in Handles /\ at[i] # h /\ Bound(i) /\ at'[i] = at[i]
    <3>1. at \in [Identities -> Handles \cup {None}] /\ table \in [Handles -> {0} \cup Identities]
      BY DEF EqueueInv, Types
    <3>2. at[i] \in Handles /\ table'[at[i]] = i /\ i # 0
      BY <1>1, <1>4, <3>1, ConstantsAssumption DEF Bound, Created, Identities
    <3>3. at[i] # h /\ table[at[i]] = i
      BY <1>1, <3>1, <3>2
    <3>4. QED
      BY <1>1, <1>4, <3>2, <3>3 DEF Bound, Created
  <2>2. Settled(i)
    BY <2>1 DEF AllSettled
  <2>3. TagsInOrder(i)' /\ Counted(i)'
    BY <1>1, <1>3, <2>2, TagsStay, CountStays DEF Settled
  <2>4. Contains(regs'["eop"], at[i]) <=> Contains(regs["eop"], at[i])
    <3>1. regs["eop"] \in Seq(Handles) /\ regs'["eop"] = Without(regs["eop"], h)
      BY <1>1, DebtTypes DEF Sources
    <3>2. QED
      BY <2>1, <3>1, WithoutContains
  <2>5. EopDelivered(i)'
    BY <1>1, <2>1, <2>2, <2>4 DEF Settled, EopDelivered
  <2>6. QED
    BY <2>3, <2>5 DEF Settled
<1>5. QED
  BY <1>4 DEF AllSettled

\* The tags at the head of the line change places with no other.
LEMMA TagsTaken ==
  ASSUME NEW i \in Identities, TagsInOrder(i),
         taken'[i].tags \cup Tags(queue'[i].ready) = taken[i].tags \cup Tags(queue[i].ready),
         Ascending(queue'[i].ready), Before(taken'[i].tags, Tags(queue'[i].ready)),
         owed'[i].tags = owed[i].tags, todo'["ptr"] = todo["ptr"], pq' = pq
  PROVE  TagsInOrder(i)'
<1> DEFINE A == taken[i].tags \cup Tags(queue[i].ready)
<1>1. /\ \A j, k \in OfKey(queue'[i].ready, "tag") :
           j < k => queue'[i].ready[j].data < queue'[i].ready[k].data
      /\ taken'[i].tags \cup Tags(queue'[i].ready) = A
  BY DEF Ascending
<1>2. /\ Before(A, PostedTags(todo["ptr"], i))
      /\ Before(A \cup PostedTags(todo["ptr"], i), PostedTags(pq, i))
      /\ A \cup PostedTags(todo["ptr"], i) \cup PostedTags(pq, i) = owed[i].tags
      /\ \A ps \in {todo["ptr"], pq} : \A j, k \in DOMAIN ps :
           ps[j].identity = i /\ ps[k].identity = i /\ j < k =>
             ps[j].event.data < ps[k].event.data
  BY DEF TagsInOrder
<1> HIDE DEF A
<1>3. QED
  BY <1>1, <1>2 DEF TagsInOrder

LEMMA ReturnSettles ==
  ASSUME EqueueInv, AllSettled, NEW t \in Threads, Return(t)
  PROVE  AllSettled'
<1>1. PICK i \in Identities : \E m \in 0 .. Len(queue[i].ready) :
        LET got == SubSeq(queue[i].ready, 1, m)
        IN  /\ queue' = [queue EXCEPT ![i] = Took(queue[i], m)]
            /\ taken' = [taken EXCEPT ![i] = [tags |-> taken[i].tags \cup Tags(got),
                                              eop |-> taken[i].eop + Completions(got),
                                              expired |-> taken[i].expired + Expirations(got)]]
  BY ReturnKeeps
<1> DEFINE s == queue[i]
           r == s.ready
<1>2. PICK n \in 0 .. Len(r) :
         LET got == SubSeq(r, 1, n)
         IN  /\ queue' = [queue EXCEPT ![i] = Took(s, n)]
             /\ taken' = [taken EXCEPT ![i] = [tags |-> taken[i].tags \cup Tags(got),
                                               eop |-> taken[i].eop + Completions(got),
                                               expired |-> taken[i].expired + Expirations(got)]]
  BY <1>1
<1> DEFINE got == SubSeq(r, 1, n)
           rest == SubSeq(r, n + 1, Len(r))
<1>3. UNCHANGED <<table, at, regs, todo, timer, eopPending, burst, pq, owed>>
  BY DEF Return, clocks, gpu, files
<1>4. \A j \in Identities : InFlight(j)' = InFlight(j)
  BY <1>3 DEF InFlight
<1>5. WellKept(s) /\ r \in Seq(Event)
  BY DebtTypes
<1>6. /\ Tags(r) = Tags(got) \cup Tags(rest)
      /\ Completions(r) = Completions(got) + Completions(rest)
      /\ Ascending(r) => Ascending(rest) /\ Before(Tags(got), Tags(rest))
      /\ Expirations(r) = Expirations(got) + Expirations(rest)
  BY <1>5, TookContents
<1>7. Took(s, n).ready = rest
  BY <1>5, TookKeeps
<1>8. /\ Completions(got) \in Nat /\ Completions(rest) \in Nat
      /\ Expirations(got) \in Nat /\ Expirations(rest) \in Nat
  <2>1. got \in Seq(Event) /\ rest \in Seq(Event)
    BY <1>5, CutSequence
  <2>2. QED
    BY <2>1, ContentsType
<1> HIDE DEF got, rest
<1>9. /\ queue'[i].ready = rest
      /\ taken'[i].tags = taken[i].tags \cup Tags(got)
      /\ taken'[i].eop = taken[i].eop + Completions(got)
      /\ taken'[i].expired = taken[i].expired + Expirations(got)
      /\ \A j \in Identities : j # i => queue'[j] = queue[j] /\ taken'[j] = taken[j]
  BY <1>2, <1>7 DEF EqueueInv, Types, got
<1> HIDE DEF r, s
<1>10. ASSUME NEW j \in Identities, Bound(j)' PROVE Settled(j)'
  <2>1. Settled(j) /\ at'[j] = at[j]
    BY <1>3, <1>10, SameBound DEF AllSettled
  <2>2. CASE j # i
    <3>1. queue'[j].ready = queue[j].ready /\ taken'[j] = taken[j]
      BY <1>9, <2>2
    <3>2. TagsInOrder(j)' /\ EopDelivered(j)' /\ Counted(j)'
      BY <1>3, <1>4, <2>1, <3>1, TagsStay, EopStays, CountStays DEF Settled
    <3>3. QED
      BY <3>2 DEF Settled
  <2>3. CASE j = i
    <3>0. i \in Identities /\ r = queue[i].ready
      BY <2>3 DEF r, s
    <3>1. TagsInOrder(i)'
      <4>1. Ascending(r) /\ Before(taken[i].tags, Tags(r))
        BY <2>1, <2>3, <3>0 DEF Settled, TagsInOrder, Ascending
      <4>2. Before(taken'[i].tags, Tags(rest))
        BY <1>6, <1>9, <4>1 DEF Before
      <4>3. taken'[i].tags \cup Tags(rest) = taken[i].tags \cup Tags(r)
        BY <1>6, <1>9
      <4>4. QED
        BY <1>3, <1>6, <1>9, <2>1, <2>3, <3>0, <4>1, <4>2, <4>3, TagsTaken DEF Settled
    <3>2. EopDelivered(i)'
      <4> DEFINE x == Cardinality(Coming(todo["eop"], at[i]))
                 y == IF Contains(regs["eop"], at[i]) THEN eopPending + burst ELSE 0
                 g == Completions(got)
                 z == Completions(rest)
      <4>1. taken[i].eop \in Nat /\ owed[i].eop \in Nat /\ x \in Nat /\ y \in Nat
        BY <3>0, DebtTypes, ComingType
      <4>2. taken[i].eop + (g + z) + x + y >= owed[i].eop
        BY <1>6, <2>1, <2>3, <3>0, EopIs DEF Settled
      <4>3. g \in Nat /\ z \in Nat /\ taken'[i].eop = taken[i].eop + g
        BY <1>8, <1>9
      <4> HIDE DEF x, y, g, z
      <4>4. taken'[i].eop + z + x + y >= owed[i].eop
        BY <4>1, <4>2, <4>3
      <4>5. QED
        BY <1>3, <1>9, <2>1, <2>3, <4>4 DEF EopDelivered, Coming, x, y, z
    <3>3. Counted(i)'
      <4> DEFINE x == Cardinality(InFlight(i))
                 g == Expirations(got)
                 z == Expirations(rest)
      <4>1. taken[i].expired \in Nat /\ owed[i].expired \in Nat /\ owed[i].shed \in Nat /\ x \in Nat
        BY <3>0, DebtTypes, FlightsFinite
      <4>2. taken[i].expired + (g + z) + owed[i].shed + x >= owed[i].expired
        BY <1>6, <2>1, <2>3, <3>0 DEF Settled, Counted
      <4>3. g \in Nat /\ z \in Nat /\ taken'[i].expired = taken[i].expired + g
        BY <1>8, <1>9
      <4>4. x' = x
        BY <1>4, <3>0
      <4> HIDE DEF x, g, z
      <4>5. taken'[i].expired + z + owed[i].shed + x >= owed[i].expired
        BY <4>1, <4>2, <4>3
      <4>6. QED
        BY <1>3, <1>9, <4>4, <4>5 DEF Counted, x, z
    <3>4. QED
      BY <2>3, <3>1, <3>2, <3>3 DEF Settled
  <2>4. QED
    BY <2>2, <2>3
<1>11. QED
  BY <1>10 DEF AllSettled

\* The end-of-pipe worker: what is pending, in the burst or planned is on its way.
LEMMA RegisterSettles ==
  ASSUME EqueueInv, AllSettled,
         \E t \in Callers, h \in Handles, s \in Sources : Register(t, s, h)
  PROVE  AllSettled'
<1>1. PICK h \in Handles, s \in Sources : regs' = [regs EXCEPT ![s] = Append(@, h)]
  BY DEF Register
<1>2. UNCHANGED <<table, at, queue, todo, timer, eopPending, burst, pq, taken, owed>>
  BY DEF Register, clocks, gpu, files, history
<1>3. \A i \in Identities : InFlight(i)' = InFlight(i)
  BY <1>2 DEF InFlight
<1>4. \A g : Contains(regs["eop"], g) => Contains(regs'["eop"], g)
  <2>1. regs["eop"] \in Seq(Handles) /\ regs \in [Sources -> Seq(Handles)] /\ "eop" \in Sources
    BY DebtTypes DEF EqueueInv, Types, Sources
  <2>2. CASE s # "eop"
    BY <1>1, <2>1, <2>2
  <2>3. CASE s = "eop"
    <3>1. regs'["eop"] = Append(regs["eop"], h)
      BY <1>1, <2>1, <2>3
    <3>2. /\ Len(regs'["eop"]) = Len(regs["eop"]) + 1 /\ Len(regs["eop"]) \in Nat
          /\ \A k \in 1 .. Len(regs["eop"]) : regs'["eop"][k] = regs["eop"][k]
      BY <2>1, <3>1, Entered, Reading
    <3>3. QED
      BY <3>2 DEF Contains
  <2>4. QED
    BY <2>2, <2>3
<1>5. ASSUME NEW i \in Identities, Bound(i)' PROVE Settled(i)'
  <2>1. Settled(i) /\ at'[i] = at[i]
    BY <1>2, <1>5, SameBound DEF AllSettled
  <2>2. TagsInOrder(i)' /\ Counted(i)'
    BY <1>2, <1>3, <2>1, TagsStay, CountStays DEF Settled
  <2>3. EopDelivered(i)'
    <3> DEFINE x == taken[i].eop
               y == Completions(queue[i].ready)
               z == Cardinality(Coming(todo["eop"], at[i]))
               old == IF Contains(regs["eop"], at[i]) THEN eopPending + burst ELSE 0
               new == IF Contains(regs'["eop"], at[i]) THEN eopPending + burst ELSE 0
    <3>1. x \in Nat /\ y \in Nat /\ z \in Nat /\ eopPending + burst \in Nat /\ owed[i].eop \in Nat
      BY DebtTypes, ComingType
    <3>2. x + y + z + old >= owed[i].eop
      BY <2>1, EopIs DEF Settled
    <3>3. old \in Nat /\ new \in Nat /\ new >= old
      <4> DEFINE b == eopPending + burst
      <4>1. b \in Nat
        BY <3>1
      <4> HIDE DEF b
      <4>2. QED
        BY <1>4, <4>1 DEF b
    <3> HIDE DEF x, y, z, old, new
    <3>4. x + y + z + new >= owed[i].eop
      BY <3>1, <3>2, <3>3
    <3>5. QED
      BY <1>2, <2>1, <3>4 DEF EopDelivered, Coming, x, y, z, new
  <2>4. QED
    BY <2>2, <2>3 DEF Settled
<1>6. QED
  BY <1>5 DEF AllSettled

LEMMA TriggerEopSettles ==
  ASSUME EqueueInv, AllSettled, NEW t \in Callers, TriggerEop(t)
  PROVE  AllSettled'
<1>1. /\ eopPending' = eopPending + 1
      /\ owed' = [i \in Identities |->
           IF Bound(i) /\ Contains(regs["eop"], at[i])
           THEN [owed[i] EXCEPT !.eop = @ + 1] ELSE owed[i]]
      /\ UNCHANGED <<table, at, queue, regs, todo, timer, burst, pq, taken>>
  BY DEF TriggerEop, Bound, clocks, files
<1>2. \A i \in Identities : InFlight(i)' = InFlight(i)
  BY <1>1 DEF InFlight
<1>3. ASSUME NEW i \in Identities, Bound(i)' PROVE Settled(i)'
  <2>1. Bound(i) /\ Settled(i) /\ at'[i] = at[i] /\ owed[i] \in OwedType
    BY <1>1, <1>3, SameBound DEF AllSettled, EqueueInv, Types
  <2>2. /\ owed'[i].tags = owed[i].tags /\ owed'[i].expired = owed[i].expired
        /\ owed'[i].shed = owed[i].shed
        /\ owed'[i].eop = IF Contains(regs["eop"], at[i]) THEN owed[i].eop + 1 ELSE owed[i].eop
    <3>1. CASE Contains(regs["eop"], at[i])
      BY <1>1, <2>1, <3>1 DEF OwedType
    <3>2. CASE ~Contains(regs["eop"], at[i])
      BY <1>1, <2>1, <3>2
    <3>3. QED
      BY <3>1, <3>2
  <2>3. TagsInOrder(i)' /\ Counted(i)'
    BY <1>1, <1>2, <2>1, <2>2, TagsStay, CountStays DEF Settled
  <2>4. EopDelivered(i)'
    <3> DEFINE x == taken[i].eop
               y == Completions(queue[i].ready)
               z == Cardinality(Coming(todo["eop"], at[i]))
               old == IF Contains(regs["eop"], at[i]) THEN eopPending + burst ELSE 0
               new == IF Contains(regs["eop"], at[i]) THEN eopPending + 1 + burst ELSE 0
    <3>1. /\ x \in Nat /\ y \in Nat /\ z \in Nat /\ eopPending \in Nat /\ burst \in Nat
          /\ owed[i].eop \in Nat
      BY DebtTypes, ComingType
    <3>2. x + y + z + old >= owed[i].eop
      BY <2>1, EopIs DEF Settled
    <3>3. /\ old \in Nat /\ new \in Nat
          /\ IF Contains(regs["eop"], at[i]) THEN new = old + 1 ELSE new = old
      BY <3>1
    <3> HIDE DEF x, y, z, old, new
    <3>4. x + y + z + new >= owed'[i].eop
      BY <2>2, <3>1, <3>2, <3>3
    <3>5. QED
      BY <1>1, <2>1, <3>4 DEF EopDelivered, Coming, x, y, z, new
  <2>5. QED
    BY <2>3, <2>4 DEF Settled
<1>4. QED
  BY <1>3 DEF AllSettled

LEMMA EopTakeSettles ==
  ASSUME EqueueInv, AllSettled, EopTake
  PROVE  AllSettled'
<1>1. /\ burst = 0 /\ burst' = eopPending /\ eopPending' = 0
      /\ UNCHANGED <<table, at, queue, regs, todo, timer, pq, taken, owed>>
  BY DEF EopTake, clocks, files, history
<1>2. \A i \in Identities : InFlight(i)' = InFlight(i)
  BY <1>1 DEF InFlight
<1>3. ASSUME NEW i \in Identities, Bound(i)' PROVE Settled(i)'
  <2>1. Settled(i) /\ at'[i] = at[i]
    BY <1>1, <1>3, SameBound DEF AllSettled
  <2>2. TagsInOrder(i)' /\ Counted(i)'
    BY <1>1, <1>2, <2>1, TagsStay, CountStays DEF Settled
  <2>3. eopPending' + burst' = eopPending + burst
    BY <1>1, DebtTypes
  <2>4. EopDelivered(i)'
    BY <1>1, <2>1, <2>3 DEF Settled, EopDelivered
  <2>5. QED
    BY <2>2, <2>4 DEF Settled
<1>4. QED
  BY <1>3 DEF AllSettled

\* One completion of the burst becomes a post to every registered queue.
LEMMA EopPostSettles ==
  ASSUME EqueueInv, AllSettled, EopPostNow
  PROVE  AllSettled'
<1> DEFINE ps == Snapshot("eop", TRUE)
<1>1. /\ burst > 0 /\ todo["eop"] = <<>> /\ burst' = burst - 1
      /\ todo' = [todo EXCEPT !["eop"] = ps]
      /\ UNCHANGED <<table, at, queue, regs, timer, eopPending, pq, taken, owed>>
  BY DEF EopPostNow, Plan, clocks, files, history
<1>2. /\ ps \in Seq(PostType) /\ DOMAIN ps = DOMAIN regs["eop"]
      /\ \A k \in DOMAIN regs["eop"] : ps[k].eq = regs["eop"][k]
  BY SnapshotIs DEF Sources
<1> HIDE DEF ps
<1>3. /\ todo'["eop"] = ps /\ todo'["ptr"] = todo["ptr"] /\ \A k \in Timers : todo'[k] = todo[k]
  BY <1>1, PostersApart DEF EqueueInv, Types, Posters
<1>4. \A i \in Identities : InFlight(i)' = InFlight(i)
  BY <1>1, <1>3 DEF InFlight
<1>5. ASSUME NEW i \in Identities, Bound(i)' PROVE Settled(i)'
  <2>1. Settled(i) /\ at'[i] = at[i]
    BY <1>1, <1>5, SameBound DEF AllSettled
  <2>2. TagsInOrder(i)' /\ Counted(i)'
    BY <1>1, <1>3, <1>4, <2>1, TagsStay, CountStays DEF Settled
  <2>3. EopDelivered(i)'
    <3> DEFINE x == taken[i].eop
               y == Completions(queue[i].ready)
               z == Cardinality(Coming(ps, at[i]))
               old == IF Contains(regs["eop"], at[i]) THEN eopPending + burst ELSE 0
               new == IF Contains(regs["eop"], at[i]) THEN eopPending + burst' ELSE 0
    <3>1. /\ x \in Nat /\ y \in Nat /\ z \in Nat /\ eopPending \in Nat /\ burst \in Nat
          /\ owed[i].eop \in Nat
      BY <1>2, DebtTypes, ComingType
    <3>2. x + y + old >= owed[i].eop
      <4>1. Coming(<<>>, at[i]) = {} /\ Cardinality({}) = 0
        BY FS_EmptySet DEF Coming
      <4>2. x + y + 0 + old >= owed[i].eop
        BY <1>1, <2>1, <4>1, EopIs DEF Settled
      <4>3. old \in Nat
        BY <3>1
      <4> HIDE DEF x, y, old
      <4>4. QED
        BY <3>1, <4>2, <4>3
    <3>3. z + new >= old /\ new \in Nat /\ old \in Nat
      <4>1. CASE ~Contains(regs["eop"], at[i])
        <5> HIDE DEF z
        <5>1. QED
          BY <3>1, <4>1
      <4>2. CASE Contains(regs["eop"], at[i])
        <5>1. regs["eop"] \in Seq(Handles)
          BY DebtTypes
        <5>2. PICK k \in DOMAIN regs["eop"] : regs["eop"][k] = at[i]
          BY <4>2, <5>1, Reading DEF Contains
        <5>3. k \in Coming(ps, at[i]) /\ IsFiniteSet(Coming(ps, at[i]))
          BY <1>2, <5>2, ComingType DEF Coming
        <5>4. z # 0
          BY <5>3, FS_EmptySet
        <5>5. new = eopPending + (burst - 1) /\ old = eopPending + burst /\ burst > 0
          BY <1>1, <4>2
        <5>6. z \in Nat /\ eopPending \in Nat /\ burst \in Nat
          BY <3>1
        <5> HIDE DEF z, new, old
        <5>7. burst - 1 \in Nat /\ z >= 1
          BY <5>4, <5>5, <5>6
        <5>8. new \in Nat /\ old \in Nat /\ old = new + 1
          BY <5>5, <5>6, <5>7
        <5>9. QED
          BY <5>6, <5>7, <5>8
      <4>3. QED
        BY <4>1, <4>2
    <3> HIDE DEF x, y, z, old, new
    <3>4. x + y + z + new >= owed[i].eop
      BY <3>1, <3>2, <3>3
    <3>5. QED
      BY <1>1, <1>3, <2>1, <3>4 DEF EopDelivered, Coming, x, y, z, new
  <2>4. QED
    BY <2>2, <2>3 DEF Settled
<1>6. QED
  BY <1>5 DEF AllSettled

\* The completion worker takes the whole list.
LEMMA PtrTakeSettles ==
  ASSUME EqueueInv, AllSettled, PtrTake
  PROVE  AllSettled'
<1>1. /\ todo["ptr"] = <<>> /\ pq' = <<>> /\ todo' = [todo EXCEPT !["ptr"] = pq]
      /\ UNCHANGED <<table, at, queue, regs, timer, eopPending, burst, taken, owed>>
  BY DEF PtrTake, Plan, clocks, gpu, history
<1>2. todo'["ptr"] = pq /\ todo'["eop"] = todo["eop"] /\ \A k \in Timers : todo'[k] = todo[k]
  BY <1>1, PostersApart DEF EqueueInv, Types, Posters
<1>3. \A i \in Identities : InFlight(i)' = InFlight(i)
  BY <1>1, <1>2 DEF InFlight
<1>4. ASSUME NEW i \in Identities, Bound(i)' PROVE Settled(i)'
  <2>1. Settled(i) /\ at'[i] = at[i]
    BY <1>1, <1>4, SameBound DEF AllSettled
  <2>2. EopDelivered(i)' /\ Counted(i)'
    BY <1>1, <1>2, <1>3, <2>1, EopStays, CountStays DEF Settled
  <2>3. PostedTags(<<>>, i) = {}
    BY DEF PostedTags
  <2>4. TagsInOrder(i)'
    <3> DEFINE A == taken[i].tags \cup Tags(queue[i].ready)
               Q == PostedTags(pq, i)
    <3>1. /\ \A j, k \in OfKey(queue[i].ready, "tag") :
               j < k => queue[i].ready[j].data < queue[i].ready[k].data
          /\ Before(taken[i].tags, Tags(queue[i].ready))
          /\ \A j, k \in DOMAIN pq : pq[j].identity = i /\ pq[k].identity = i /\ j < k =>
               pq[j].event.data < pq[k].event.data
          /\ Before(A, Q) /\ A \cup Q = owed[i].tags
      BY <1>1, <2>1, <2>3 DEF Settled, TagsInOrder, Before
    <3>2. Before(A \cup Q, {}) /\ Before(A, {})
      BY DEF Before
    <3>3. \A j, k \in DOMAIN <<>> : FALSE
      OBVIOUS
    <3> HIDE DEF A, Q
    <3>4. A \cup Q \cup {} = owed[i].tags
      BY <3>1
    <3>5. \A ps \in {pq, <<>>} : \A j, k \in DOMAIN ps :
            ps[j].identity = i /\ ps[k].identity = i /\ j < k =>
              ps[j].event.data < ps[k].event.data
      BY <3>1, <3>3
    <3>6. PostedTags(<<>>, i) = {} /\ Before(A, PostedTags(<<>>, i))
          /\ Before(A \cup PostedTags(<<>>, i), {})
      BY <2>3, <3>2 DEF Before
    <3>7. TagLine(i, queue[i].ready, taken[i].tags, pq, <<>>, owed[i].tags)
      BY <3>1, <3>2, <3>4, <3>5, <3>6 DEF TagLine, A, Q
    <3>8. QED
      BY <1>1, <1>2, <3>7, InLine
  <2>5. QED
    BY <2>2, <2>4 DEF Settled
<1>5. QED
  BY <1>4 DEF AllSettled

\* A request's tag comes after all those given out before.
LEMMA SubmitTagSettles ==
  ASSUME EqueueInv, AllSettled, NEW t \in Callers, NEW b \in Identities, SubmitTag(t, b)
  PROVE  AllSettled'
<1> DEFINE q == Post(at[b], b, "tag", work + 1, TRUE)
<1>1. /\ q \in PostType /\ q.identity = b /\ q.event.data = work + 1
      /\ pq' = Append(pq, q)
      /\ owed' = [owed EXCEPT ![b] = [owed[b] EXCEPT !.tags = owed[b].tags \cup {work + 1}]]
      /\ UNCHANGED <<table, at, queue, regs, todo, timer, eopPending, burst, taken>>
  BY SubmitTagIs
<1> HIDE DEF q
<1>2. /\ owed'[b].tags = owed[b].tags \cup {work + 1} /\ owed'[b].eop = owed[b].eop
      /\ owed'[b].expired = owed[b].expired /\ owed'[b].shed = owed[b].shed
      /\ \A i \in Identities : i # b => owed'[i] = owed[i]
  BY <1>1 DEF EqueueInv, Types, OwedType
<1>3. pq \in Seq(PostType) /\ Len(pq) \in Nat /\ DOMAIN pq = 1 .. Len(pq)
  BY DebtTypes, Reading
<1>4. /\ DOMAIN pq' = 1 .. Len(pq) + 1 /\ pq'[Len(pq) + 1] = q
      /\ \A k \in 1 .. Len(pq) : pq'[k] = pq[k]
  BY <1>1, <1>3, Entered, Reading
<1>5. \A i \in Identities : InFlight(i)' = InFlight(i)
  BY <1>1 DEF InFlight
<1>6. ASSUME NEW i \in Identities
      PROVE  PostedTags(pq', i) = PostedTags(pq, i) \cup (IF i = b THEN {work + 1} ELSE {})
  <2> DEFINE n == Len(pq)
             J == {j \in DOMAIN pq : pq[j].identity = i}
             K == {j \in DOMAIN pq' : pq'[j].identity = i}
  <2>1. K = J \cup (IF i = b THEN {n + 1} ELSE {})
    BY <1>1, <1>3, <1>4
  <2>2. (\A k \in J : pq'[k] = pq[k]) /\ n + 1 \notin J
    BY <1>3, <1>4
  <2> HIDE DEF n, J, K
  <2>3. \A k \in K : k \in J \/ (k = n + 1 /\ i = b)
    BY <2>1
  <2>4. \A k \in J : k \in K /\ pq'[k].event.data = pq[k].event.data
    BY <2>1, <2>2
  <2>5. i = b => n + 1 \in K /\ pq'[n + 1].event.data = work + 1
    BY <1>1, <1>4, <2>1 DEF n
  <2>6. {pq'[k].event.data : k \in K}
          = {pq[k].event.data : k \in J} \cup (IF i = b THEN {work + 1} ELSE {})
    BY <2>3, <2>4, <2>5
  <2>7. QED
    BY <2>6 DEF PostedTags, J, K
<1>7. ASSUME NEW i \in Identities, Bound(i)' PROVE Settled(i)'
  <2>1. Settled(i) /\ at'[i] = at[i]
    BY <1>1, <1>7, SameBound DEF AllSettled
  <2>2. EopDelivered(i)' /\ Counted(i)'
    BY <1>1, <1>2, <1>5, <2>1, EopStays, CountStays DEF Settled
  <2>3. TagsInOrder(i)'
    <3> DEFINE A == taken[i].tags \cup Tags(queue[i].ready)
               P == PostedTags(todo["ptr"], i)
               Q == PostedTags(pq, i)
               R == PostedTags(pq', i)
               new == IF i = b THEN {work + 1} ELSE {}
    <3>1. /\ \A j, k \in OfKey(queue[i].ready, "tag") :
               j < k => queue[i].ready[j].data < queue[i].ready[k].data
          /\ Before(taken[i].tags, Tags(queue[i].ready))
          /\ \A j, k \in DOMAIN todo["ptr"] :
               todo["ptr"][j].identity = i /\ todo["ptr"][k].identity = i /\ j < k =>
                 todo["ptr"][j].event.data < todo["ptr"][k].event.data
          /\ \A j, k \in DOMAIN pq : pq[j].identity = i /\ pq[k].identity = i /\ j < k =>
               pq[j].event.data < pq[k].event.data
          /\ Before(A, P) /\ Before(A \cup P, Q) /\ A \cup P \cup Q = owed[i].tags
      BY <2>1 DEF Settled, TagsInOrder
    <3>2. R = Q \cup new /\ owed'[i].tags = owed[i].tags \cup new
      BY <1>2, <1>6
    <3>3. \A d \in owed[i].tags : d \in Nat /\ d < work + 1
      BY DebtTypes DEF EqueueInv, Types, Numbered
    <3>4. \A j \in DOMAIN pq : pq[j].identity = i => pq[j].event.data \in Q
      BY DEF PostedTags
    <3> HIDE DEF A, P, Q, R
    <3>5. Before(A \cup P, R) /\ A \cup P \cup R = owed'[i].tags
      BY <3>1, <3>2, <3>3 DEF Before
    <3>6. ASSUME NEW j \in DOMAIN pq', NEW k \in DOMAIN pq',
                 pq'[j].identity = i, pq'[k].identity = i, j < k
          PROVE  pq'[j].event.data < pq'[k].event.data
      <4>1. j \in 1 .. Len(pq)
        BY <1>3, <1>4, <3>6
      <4>2. pq'[j] = pq[j]
        BY <1>4, <4>1
      <4>3. CASE k \in 1 .. Len(pq)
        BY <1>3, <1>4, <3>1, <3>6, <4>1, <4>2, <4>3
      <4>4. CASE k = Len(pq) + 1
        <5>1. pq'[k].event.data = work + 1
          BY <1>1, <1>4, <4>4
        <5>2. pq[j].event.data \in owed[i].tags
          BY <1>3, <3>1, <3>4, <3>6, <4>1, <4>2
        <5>3. QED
          BY <3>3, <4>2, <5>1, <5>2
      <4>5. QED
        BY <1>3, <1>4, <4>3, <4>4
    <3>7. \A ps \in {todo["ptr"], pq'} : \A j, k \in DOMAIN ps :
            ps[j].identity = i /\ ps[k].identity = i /\ j < k =>
              ps[j].event.data < ps[k].event.data
      BY <3>1, <3>6
    <3>8. QED
      BY <1>1, <3>1, <3>5, <3>7 DEF TagsInOrder, A, P, R
  <2>4. QED
    BY <2>2, <2>3 DEF Settled
<1>8. QED
  BY <1>7 DEF AllSettled

\* A timer's next expiration is in flight.
LEMMA TimerWakeSettles ==
  ASSUME EqueueInv, AllSettled, NEW k \in Timers, TimerWake(k)
  PROVE  AllSettled'
<1>0. /\ timer[k].at = "asleep"
      /\ UNCHANGED <<table, at, queue, regs, eopPending, burst, pq, taken>>
      /\ timer' = [timer EXCEPT ![k].at = "stopping"] \/ timer' = [timer EXCEPT ![k].at = "posting"]
  BY TimerWakeIs
<1>1. \A j \in Timers : timer'[j].meant = timer[j].meant
  <2>1. timer \in [Timers -> TimerType]
    BY DEF EqueueInv, Types
  <2>2. CASE timer' = [timer EXCEPT ![k].at = "stopping"]
    BY <2>1, <2>2 DEF TimerType
  <2>3. CASE timer' = [timer EXCEPT ![k].at = "posting"]
    BY <2>1, <2>3 DEF TimerType
  <2>4. QED
    BY <1>0, <2>2, <2>3
<1>2. CASE UNCHANGED <<todo, owed>>
  <2>1. \A i \in Identities : InFlight(i)' = InFlight(i)
    BY <1>1, <1>2 DEF InFlight
  <2>2. QED
    BY <1>0, <1>2, <2>1, QuietSettles
<1>3. ASSUME NEW q, NEW m, m = timer[k].meant, todo' = [todo EXCEPT ![k] = <<q>>],
             owed' = [owed EXCEPT ![m] = [owed[m] EXCEPT !.expired = owed[m].expired + 1]]
      PROVE  AllSettled'
  <2>1. m \in Identities /\ todo[k] = <<>> /\ owed[m] \in OwedType
    BY <1>0, <1>3 DEF EqueueInv, Types, TimerType, TimerPosts
  <2>2. /\ todo'[k] = <<q>> /\ \A j \in Timers : j # k => todo'[j] = todo[j]
        /\ todo'["ptr"] = todo["ptr"] /\ todo'["eop"] = todo["eop"]
    BY <1>3, PostersApart DEF EqueueInv, Types, Posters
  <2>3. /\ owed'[m].tags = owed[m].tags /\ owed'[m].eop = owed[m].eop
        /\ owed'[m].expired = owed[m].expired + 1 /\ owed'[m].shed = owed[m].shed
        /\ \A j \in Identities : j # m => owed'[j] = owed[j]
    BY <1>3, <2>1 DEF EqueueInv, Types, OwedType
  <2>4. \A j \in Identities : j # m => InFlight(j)' = InFlight(j)
    BY <1>1, <1>3, <2>2 DEF InFlight
  <2>5. InFlight(m)' = InFlight(m) \cup {k} /\ k \notin InFlight(m)
    <3>1. <<q>> # <<>>
      OBVIOUS
    <3>2. QED
      BY <1>1, <1>3, <2>1, <2>2, <3>1 DEF InFlight
  <2>6. ASSUME NEW i \in Identities, Bound(i)' PROVE Settled(i)'
    <3>1. Settled(i) /\ at'[i] = at[i]
      BY <1>0, <2>6, SameBound DEF AllSettled
    <3>2. TagsInOrder(i)' /\ EopDelivered(i)'
      BY <1>0, <2>2, <2>3, <3>1, TagsStay, EopStays DEF Settled
    <3>3. CASE i # m
      <4>1. Counted(i)'
        BY <1>0, <2>3, <2>4, <3>1, <3>3, CountStays DEF Settled
      <4>2. QED
        BY <3>2, <4>1 DEF Settled
    <3>4. CASE i = m
      <4> DEFINE x == Expirations(queue[i].ready)
                 old == Cardinality(InFlight(i))
                 new == Cardinality(InFlight(i)')
      <4>1. /\ taken[i].expired \in Nat /\ x \in Nat /\ owed[i].shed \in Nat /\ old \in Nat
            /\ owed[i].expired \in Nat
        BY DebtTypes, FlightsFinite
      <4>2. new = old + 1
        BY <2>5, <3>4, FlightsFinite, FS_AddElement
      <4>3. taken[i].expired + x + owed[i].shed + old >= owed[i].expired
        BY <3>1 DEF Settled, Counted
      <4> HIDE DEF x, old, new
      <4>4. taken[i].expired + x + owed'[i].shed + new >= owed'[i].expired
        BY <2>3, <3>4, <4>1, <4>2, <4>3
      <4>5. Counted(i)'
        BY <1>0, <4>4 DEF Counted, x, new
      <4>6. QED
        BY <3>2, <4>5 DEF Settled
    <3>5. QED
      BY <3>3, <3>4
  <2>7. QED
    BY <2>6 DEF AllSettled
<1>4. \/ UNCHANGED <<todo, owed>>
      \/ \E q : /\ todo' = [todo EXCEPT ![k] = <<q>>]
               /\ owed' = [owed EXCEPT ![timer[k].meant] =
                    [owed[timer[k].meant] EXCEPT !.expired = owed[timer[k].meant].expired + 1]]
  BY TimerWakeIs
<1>5. CASE \E q : /\ todo' = [todo EXCEPT ![k] = <<q>>]
                  /\ owed' = [owed EXCEPT ![timer[k].meant] =
                       [owed[timer[k].meant] EXCEPT !.expired = owed[timer[k].meant].expired + 1]]
  <2>1. PICK q : /\ todo' = [todo EXCEPT ![k] = <<q>>]
                 /\ owed' = [owed EXCEPT ![timer[k].meant] =
                      [owed[timer[k].meant] EXCEPT !.expired = owed[timer[k].meant].expired + 1]]
    BY <1>5
  <2>2. PICK m : m = timer[k].meant
    OBVIOUS
  <2>3. owed' = [owed EXCEPT ![m] = [owed[m] EXCEPT !.expired = owed[m].expired + 1]]
    BY <2>1, <2>2
  <2>4. QED
    BY <1>3, <2>1, <2>2, <2>3
<1>6. QED
  BY <1>2, <1>4, <1>5

\* The rest of a plan is in the order of the whole.
LEMMA TailTags ==
  ASSUME NEW ps \in Seq(PostType), ps # <<>>, NEW i
  PROVE  /\ PostedTags(ps, i) = PostedTags(Tail(ps), i)
                \cup (IF ps[1].identity = i THEN {ps[1].event.data} ELSE {})
         /\ (\A j, k \in DOMAIN ps : ps[j].identity = i /\ ps[k].identity = i /\ j < k =>
               ps[j].event.data < ps[k].event.data)
            => /\ \A j, k \in DOMAIN Tail(ps) :
                    Tail(ps)[j].identity = i /\ Tail(ps)[k].identity = i /\ j < k =>
                      Tail(ps)[j].event.data < Tail(ps)[k].event.data
               /\ ps[1].identity = i =>
                    \A b \in PostedTags(Tail(ps), i) : ps[1].event.data < b
<1> DEFINE n == Len(ps)
           qs == Tail(ps)
<1>1. /\ n \in Nat \ {0} /\ DOMAIN ps = 1 .. n /\ DOMAIN qs = 1 .. n - 1
      /\ \A k \in 1 .. n - 1 : qs[k] = ps[k + 1] /\ k + 1 \in 1 .. n
  <2>1. DOMAIN qs = 1 .. n - 1 /\ DOMAIN ps = 1 .. n /\ n \in Nat \ {0}
    BY TailIs
  <2>2. \A k \in DOMAIN qs : qs[k] = ps[k + 1] /\ k + 1 \in DOMAIN ps
    BY TailIs
  <2>3. QED
    BY <2>1, <2>2
<1> HIDE DEF n, qs
<1>2. \A k \in 1 .. n : k = 1 \/ (k - 1 \in 1 .. n - 1 /\ ps[k] = qs[k - 1])
  <2>1. ASSUME NEW k \in 1 .. n, k # 1 PROVE k - 1 \in 1 .. n - 1 /\ ps[k] = qs[k - 1]
    <3>1. k - 1 \in 1 .. n - 1 /\ (k - 1) + 1 = k
      BY <1>1, <2>1
    <3>2. QED
      BY <1>1, <3>1
  <2>2. QED
    BY <2>1
<1>3. PostedTags(ps, i) = PostedTags(qs, i)
        \cup (IF ps[1].identity = i THEN {ps[1].event.data} ELSE {})
  <2>1. ASSUME NEW d \in PostedTags(ps, i)
        PROVE  d \in PostedTags(qs, i) \/ (ps[1].identity = i /\ d = ps[1].event.data)
    <3>1. PICK k \in 1 .. n : ps[k].identity = i /\ d = ps[k].event.data
      BY <1>1 DEF PostedTags
    <3>2. QED
      BY <1>1, <1>2, <3>1 DEF PostedTags
  <2>2. ASSUME NEW d \in PostedTags(qs, i) PROVE d \in PostedTags(ps, i)
    <3>1. PICK k \in 1 .. n - 1 : qs[k].identity = i /\ d = qs[k].event.data
      BY <1>1 DEF PostedTags
    <3>2. QED
      BY <1>1, <3>1 DEF PostedTags
  <2>3. ps[1].identity = i => ps[1].event.data \in PostedTags(ps, i)
    BY <1>1 DEF PostedTags
  <2>4. QED
    BY <2>1, <2>2, <2>3
<1>4. ASSUME \A j, k \in DOMAIN ps : ps[j].identity = i /\ ps[k].identity = i /\ j < k =>
               ps[j].event.data < ps[k].event.data
      PROVE  /\ \A j, k \in DOMAIN qs : qs[j].identity = i /\ qs[k].identity = i /\ j < k =>
                  qs[j].event.data < qs[k].event.data
             /\ ps[1].identity = i => \A b \in PostedTags(qs, i) : ps[1].event.data < b
  <2>1. ASSUME NEW j \in 1 .. n - 1, NEW k \in 1 .. n - 1,
               qs[j].identity = i, qs[k].identity = i, j < k
        PROVE  qs[j].event.data < qs[k].event.data
    <3>1. j + 1 < k + 1
      BY <1>1, <2>1
    <3>2. QED
      BY <1>1, <1>4, <2>1, <3>1
  <2>2. ASSUME ps[1].identity = i, NEW b \in PostedTags(qs, i) PROVE ps[1].event.data < b
    <3>1. PICK k \in 1 .. n - 1 : qs[k].identity = i /\ b = qs[k].event.data
      BY <1>1 DEF PostedTags
    <3>2. 1 < k + 1 /\ k + 1 \in 1 .. n /\ 1 \in 1 .. n
      BY <1>1
    <3>3. QED
      BY <1>1, <1>4, <2>2, <3>1, <3>2
  <2>3. QED
    BY <1>1, <2>1, <2>2
<1>5. QED
  BY <1>3, <1>4 DEF qs

\* A post that is not for a queue may be dropped or go elsewhere.
LEMMA Elsewhere ==
  ASSUME EqueueInv, NEW p \in Posters, todo[p] # <<>>,
         todo' = [todo EXCEPT ![p] = Tail(todo[p])],
         NEW i \in Identities, Settled(i),
         p = "ptr" => Head(todo[p]).identity # i,
         p = "eop" => Head(todo[p]).eq # at[i],
         p \in Timers => timer[p].meant # i,
         queue'[i] = queue[i], owed'[i] = owed[i],
         UNCHANGED <<at, timer, regs, pq, eopPending, burst, taken>>
  PROVE  Settled(i)'
<1> DEFINE ps == todo[p]
<1>1. /\ ps \in Seq(PostType) /\ Head(ps) = ps[1] /\ todo'[p] = Tail(ps)
      /\ \A r \in Posters : r # p => todo'[r] = todo[r]
      /\ "ptr" \in Posters /\ "eop" \in Posters
  <2>1. todo \in [Posters -> Seq(PostType)]
    BY DEF EqueueInv, Types
  <2>2. ps \in Seq(PostType) /\ ps # <<>>
    BY <2>1
  <2>3. QED
    BY <2>1, <2>2, TailIs, PostersApart
<1>2. TagsInOrder(i)'
  <2>1. CASE p # "ptr"
    BY <1>1, <2>1, TagsStay DEF Settled
  <2>2. CASE p = "ptr"
    <3> DEFINE A == taken[i].tags \cup Tags(queue[i].ready)
               P == PostedTags(ps, i)
               Q == PostedTags(pq, i)
               qs == Tail(ps)
    <3>1. /\ \A j, k \in OfKey(queue[i].ready, "tag") :
               j < k => queue[i].ready[j].data < queue[i].ready[k].data
          /\ Before(taken[i].tags, Tags(queue[i].ready))
          /\ \A j, k \in DOMAIN ps :
               ps[j].identity = i /\ ps[k].identity = i /\ j < k =>
                 ps[j].event.data < ps[k].event.data
          /\ \A j, k \in DOMAIN pq : pq[j].identity = i /\ pq[k].identity = i /\ j < k =>
               pq[j].event.data < pq[k].event.data
          /\ Before(A, P) /\ Before(A \cup P, Q) /\ A \cup P \cup Q = owed[i].tags
      BY <2>2 DEF Settled, TagsInOrder
    <3>2. /\ PostedTags(qs, i) = P
          /\ \A j, k \in DOMAIN qs :
               qs[j].identity = i /\ qs[k].identity = i /\ j < k =>
                 qs[j].event.data < qs[k].event.data
      <4> HIDE DEF ps
      <4>1. ps[1].identity # i /\ ps # <<>>
        BY <1>1, <2>2 DEF ps
      <4>2. PostedTags(ps, i) = PostedTags(Tail(ps), i) \cup {}
        BY <1>1, <4>1, TailTags
      <4>3. \A j, k \in DOMAIN Tail(ps) :
              Tail(ps)[j].identity = i /\ Tail(ps)[k].identity = i /\ j < k =>
                Tail(ps)[j].event.data < Tail(ps)[k].event.data
        BY <1>1, <3>1, <4>1, TailTags
      <4>4. QED
        BY <4>2, <4>3
    <3>3. todo'["ptr"] = qs
      BY <1>1, <2>2
    <3> HIDE DEF A, P, Q, qs, ps
    <3>4. \A rs \in {qs, pq} : \A j, k \in DOMAIN rs :
            rs[j].identity = i /\ rs[k].identity = i /\ j < k =>
              rs[j].event.data < rs[k].event.data
      BY <3>1, <3>2
    <3>5. PostedTags(qs, i) = P /\ PostedTags(pq, i) = Q
      BY <3>2 DEF Q
    <3>6. TagLine(i, queue[i].ready, taken[i].tags, qs, pq, owed[i].tags)
      BY <3>1, <3>4, <3>5 DEF TagLine, A
    <3>7. QED
      BY <3>3, <3>6, InLine
  <2>3. QED
    BY <2>1, <2>2
<1>3. EopDelivered(i)'
  <2>1. CASE p # "eop"
    BY <1>1, <2>1, EopStays DEF Settled
  <2>2. CASE p = "eop"
    <3> HIDE DEF ps
    <3>1. ps # <<>> /\ ps[1].eq # at[i] /\ ps = todo["eop"]
      BY <1>1, <2>2 DEF ps
    <3>2. Cardinality(Coming(Tail(ps), at[i])) = Cardinality(Coming(ps, at[i]))
      <4>1. Cardinality(Coming(Tail(ps), at[i])) \in Nat
        BY <1>1, <3>1, TailIs, ComingType
      <4>2. QED
        BY <1>1, <3>1, <4>1, ComingTail
    <3>3. todo'["eop"] = Tail(ps)
      BY <1>1, <2>2
    <3>4. QED
      BY <3>1, <3>2, <3>3 DEF Settled, EopDelivered, Coming
  <2>3. QED
    BY <2>1, <2>2
<1>4. Counted(i)'
  <2>1. InFlight(i)' = InFlight(i)
    BY <1>1 DEF InFlight, Posters
  <2>2. QED
    BY <2>1, CountStays DEF Settled
<1>5. QED
  BY <1>2, <1>3, <1>4 DEF Settled

LEMMA FindSettles ==
  ASSUME EqueueInv, AllSettled, NEW p \in Posters, Find(p)
  PROVE  AllSettled'
<1> DEFINE q == Head(todo[p])
           f == Found(q.eq, q.identity)
<1>1. /\ todo[p] # <<>>
      /\ \/ f = 0 /\ todo' = [todo EXCEPT ![p] = Tail(@)]
         \/ f # 0 /\ todo' = todo
      /\ UNCHANGED <<table, at, queue, regs, timer, eopPending, burst, pq, taken, owed>>
  BY DEF Find, gpu, files, clocks, history
<1>2. CASE todo' = todo
  <2>1. \A i \in Identities : InFlight(i)' = InFlight(i)
    BY <1>1, <1>2 DEF InFlight
  <2>2. QED
    BY <1>1, <1>2, <2>1, QuietSettles
<1>3. CASE f = 0 /\ todo' = [todo EXCEPT ![p] = Tail(@)]
  <2>1. ASSUME NEW i \in Identities, Bound(i)' PROVE Settled(i)'
    <3>1. Bound(i) /\ Settled(i) /\ i # 0 /\ table[at[i]] = i
      BY <1>1, <2>1, SameBound, ConstantsAssumption DEF AllSettled, Bound, Identities
    <3>2. Fits(p, q) /\ q.eq \in Handles
      BY <1>1, HeadIs
    <3>3. p = "ptr" => q.identity # i
      BY <1>3, <3>1, <3>2 DEF Fits, Found
    <3>4. p = "eop" => q.eq # at[i]
      BY <1>3, <3>1, <3>2 DEF Fits, Found
    <3>5. p \in Timers => timer[p].meant # i
      <4>1. ASSUME p \in Timers, timer[p].meant = i PROVE FALSE
        <5>1. q.eq = at[i] /\ q.identity = 0
          BY <1>1, <4>1 DEF EqueueInv, TimerPosts
        <5>2. QED
          BY <1>3, <3>1, <5>1 DEF Found
      <4>2. QED
        BY <4>1
    <3>6. todo' = [todo EXCEPT ![p] = Tail(todo[p])]
      BY <1>3
    <3>7. QED
      BY <1>1, <3>1, <3>3, <3>4, <3>5, <3>6, Elsewhere
  <2>2. QED
    BY <2>1 DEF AllSettled
<1>4. QED
  BY <1>1, <1>2, <1>3

\* A post that arrives at the queue it is for is in it.
LEMMA Arrives ==
  ASSUME EqueueInv, NEW p \in Posters, todo[p] # <<>>, held[p] # 0,
         todo' = [todo EXCEPT ![p] = Tail(todo[p])],
         NEW i \in Identities, i = held[p], Settled(i),
         NEW e \in Event, e = Head(todo[p]).event, Kept(e),
         queue'[i] = Posted(queue[i], e),
         owed'[i] = [owed[i] EXCEPT !.shed = owed[i].shed + ShedExpirations(queue[i], e)],
         UNCHANGED <<at, timer, regs, pq, eopPending, burst, taken>>
  PROVE  Settled(i)'
<1> DEFINE ps == todo[p]
           r == queue[i].ready
           new == Posted(queue[i], e).ready
           shed == ShedExpirations(queue[i], e)
<1>1. /\ ps \in Seq(PostType) /\ Head(ps) = ps[1] /\ todo'[p] = Tail(ps)
      /\ \A u \in Posters : u # p => todo'[u] = todo[u]
      /\ "ptr" \in Posters /\ "eop" \in Posters
  <2>1. todo \in [Posters -> Seq(PostType)]
    BY DEF EqueueInv, Types
  <2>2. ps \in Seq(PostType) /\ ps # <<>>
    BY <2>1
  <2>3. QED
    BY <2>1, <2>2, TailIs, PostersApart
<1>2. /\ Fits(p, ps[1]) /\ ps[1].eq = at[i] /\ ps[1].identity \in {0, i} /\ ps[1].event = e
  <2>1. Fits(p, Head(ps)) /\ Head(ps).eq = at[i] /\ Head(ps).identity \in {0, i}
    BY HeadIs DEF EqueueInv, Holding
  <2>2. QED
    BY <1>1, <2>1
<1>3. /\ Tags(new) = Tags(r) \cup (IF e.key = "tag" THEN {e.data} ELSE {})
      /\ Completions(new) = Completions(r) + (IF e.key = "eop" THEN 1 ELSE 0)
      /\ Ascending(r) /\ (e.key = "tag" => \A a \in Tags(r) : a < e.data) => Ascending(new)
      /\ Expirations(new) + shed = Expirations(r) + (IF e.key \in Clocks THEN e.data ELSE 0)
      /\ shed \in Nat
  <2>1. WellKept(queue[i]) /\ Kept(e)
    BY DebtTypes
  <2>2. /\ Tags(new) = Tags(r) \cup (IF e.key = "tag" THEN {e.data} ELSE {})
        /\ Completions(new) = Completions(r) + (IF e.key = "eop" THEN 1 ELSE 0)
        /\ Ascending(r) /\ (e.key = "tag" => \A a \in Tags(r) : a < e.data) => Ascending(new)
    <3>1. Tags(new) = Tags(r) \cup (IF e.key = "tag" THEN {e.data} ELSE {})
      BY <2>1, PostedContents
    <3>2. Completions(new) = Completions(r) + (IF e.key = "eop" THEN 1 ELSE 0)
      BY <2>1, PostedContents
    <3>3. Ascending(r) /\ (e.key = "tag" => \A a \in Tags(r) : a < e.data) => Ascending(new)
      BY <2>1, PostedContents
    <3>4. QED
      BY <3>1, <3>2, <3>3
  <2>3. /\ Expirations(new) + shed = Expirations(r) + (IF e.key \in Clocks THEN e.data ELSE 0)
        /\ shed \in Nat
    BY <2>1, PostedExpirations
  <2> HIDE DEF new, shed, r
  <2>4. QED
    BY <2>2, <2>3
<1>4. /\ queue'[i].ready = new /\ owed'[i].tags = owed[i].tags /\ owed'[i].eop = owed[i].eop
      /\ owed'[i].expired = owed[i].expired /\ owed'[i].shed = owed[i].shed + shed
  BY DEF EqueueInv, Types, OwedType
<1> HIDE DEF new, shed
<1>5. TagsInOrder(i)'
  <2>1. CASE p # "ptr"
    <3>1. e.key # "tag" /\ todo'["ptr"] = todo["ptr"]
      BY <1>1, <1>2, <2>1 DEF Fits
    <3>2. Ascending(r) /\ Before(taken[i].tags, Tags(r))
      BY DEF Settled, TagsInOrder, Ascending
    <3>3. Tags(new) = Tags(r) /\ Ascending(new)
      BY <1>3, <3>1, <3>2
    <3> HIDE DEF r
    <3>4. TagsInOrder(i) /\ r = queue[i].ready
      BY DEF Settled, r
    <3>5. /\ taken'[i].tags \cup Tags(queue'[i].ready) = taken[i].tags \cup Tags(queue[i].ready)
          /\ Ascending(queue'[i].ready) /\ Before(taken'[i].tags, Tags(queue'[i].ready))
      BY <1>4, <3>2, <3>3, <3>4
    <3>6. QED
      BY <1>4, <3>1, <3>4, <3>5, TagsTaken
  <2>2. CASE p = "ptr"
    <3> DEFINE T == taken[i].tags
               P == PostedTags(ps, i)
               qs == Tail(ps)
               R == PostedTags(qs, i)
               Q == PostedTags(pq, i)
               d == e.data
    <3>1. /\ Ascending(r) /\ Before(T, Tags(r))
          /\ \A j, k \in DOMAIN ps :
               ps[j].identity = i /\ ps[k].identity = i /\ j < k =>
                 ps[j].event.data < ps[k].event.data
          /\ \A j, k \in DOMAIN pq : pq[j].identity = i /\ pq[k].identity = i /\ j < k =>
               pq[j].event.data < pq[k].event.data
          /\ Before(T \cup Tags(r), P) /\ Before(T \cup Tags(r) \cup P, Q)
          /\ T \cup Tags(r) \cup P \cup Q = owed[i].tags
      BY <2>2 DEF Settled, TagsInOrder, Ascending
    <3>2. e.key = "tag" /\ ps[1].identity = i /\ todo'["ptr"] = qs
      BY <1>1, <1>2, <2>2 DEF Fits
    <3>3. /\ P = R \cup {d}
          /\ \A j, k \in DOMAIN qs :
               qs[j].identity = i /\ qs[k].identity = i /\ j < k =>
                 qs[j].event.data < qs[k].event.data
          /\ \A b \in R : d < b
      <4> HIDE DEF ps
      <4>1. ps # <<>> /\ ps[1].event.data = d
        BY <1>2 DEF ps
      <4>2. P = R \cup {d}
        BY <1>1, <3>2, <4>1, TailTags
      <4>3. \A j, k \in DOMAIN qs :
              qs[j].identity = i /\ qs[k].identity = i /\ j < k =>
                qs[j].event.data < qs[k].event.data
        BY <1>1, <3>1, <4>1, TailTags
      <4>4. \A b \in R : ps[1].event.data < b
        BY <1>1, <3>1, <3>2, <4>1, TailTags
      <4>5. QED
        BY <4>1, <4>2, <4>3, <4>4
    <3> HIDE DEF T, P, Q, R, d, qs, ps, r
    <3>4. \A a \in T \cup Tags(r) : a < d
      BY <3>1, <3>3 DEF Before
    <3>5. Ascending(new) /\ Tags(new) = Tags(r) \cup {d}
      BY <1>3, <3>1, <3>2, <3>4 DEF d
    <3>6. /\ Before(T, Tags(new)) /\ Before(T \cup Tags(new), R)
          /\ Before(T \cup Tags(new) \cup R, Q)
          /\ T \cup Tags(new) \cup R \cup Q = owed[i].tags
      BY <3>1, <3>3, <3>4, <3>5 DEF Before
    <3>7. \A rs \in {qs, pq} : \A j, k \in DOMAIN rs :
            rs[j].identity = i /\ rs[k].identity = i /\ j < k =>
              rs[j].event.data < rs[k].event.data
      BY <3>1, <3>3
    <3>8. \A j, k \in OfKey(new, "tag") : j < k => new[j].data < new[k].data
      BY <3>5 DEF Ascending
    <3>9. /\ todo'["ptr"] = qs /\ taken'[i].tags = T /\ queue'[i].ready = new
          /\ owed'[i].tags = owed[i].tags /\ pq' = pq
      BY <1>4, <3>2 DEF T
    <3>10. PostedTags(qs, i) = R /\ PostedTags(pq, i) = Q
      BY DEF R, Q
    <3> HIDE DEF T
    <3>11. /\ Before(T, Tags(new)) /\ Before(T \cup Tags(new), PostedTags(qs, i))
           /\ Before(T \cup Tags(new) \cup PostedTags(qs, i), PostedTags(pq, i))
           /\ T \cup Tags(new) \cup PostedTags(qs, i) \cup PostedTags(pq, i) = owed[i].tags
      BY <3>6, <3>10
    <3>12. TagLine(i, new, T, qs, pq, owed[i].tags)
      BY <3>7, <3>8, <3>11 DEF TagLine
    <3>13. QED
      BY <3>9, <3>12, InLine
  <2>3. QED
    BY <2>1, <2>2
<1>6. EopDelivered(i)'
  <2> DEFINE x == taken[i].eop
             y == Completions(r)
             z == Completions(new)
             old == Cardinality(Coming(todo["eop"], at[i]))
             now == Cardinality(Coming(todo'["eop"], at[i]))
             w == IF Contains(regs["eop"], at[i]) THEN eopPending + burst ELSE 0
  <2>1. /\ x \in Nat /\ y \in Nat /\ old \in Nat /\ w \in Nat /\ owed[i].eop \in Nat
    BY DebtTypes, ComingType
  <2>2. x + y + old + w >= owed[i].eop
    BY EopIs DEF Settled
  <2>3. z + now >= y + old /\ z \in Nat /\ now \in Nat
    <3>1. CASE p # "eop"
      <4>1. now = old
        BY <1>1, <3>1
      <4>2. z = y \/ z = y + 1
        BY <1>3, <2>1
      <4> HIDE DEF y, z, old, now
      <4>3. QED
        BY <2>1, <4>1, <4>2
    <3>2. CASE p = "eop"
      <4>1. e.key = "eop"
        BY <1>2, <3>2 DEF Fits
      <4>2. z = y + 1
        BY <1>3, <4>1
      <4> HIDE DEF ps
      <4>3. ps # <<>> /\ ps = todo["eop"] /\ todo'["eop"] = Tail(ps)
        BY <1>1, <3>2 DEF ps
      <4>4. old = now + 1 /\ now \in Nat
        <5>1. now \in Nat
          BY <1>1, <4>3, TailIs, ComingType
        <5>2. Cardinality(Coming(ps, at[i]))
                = Cardinality(Coming(Tail(ps), at[i])) + (IF ps[1].eq = at[i] THEN 1 ELSE 0)
          BY <1>1, <4>3, ComingTail
        <5>3. QED
          BY <1>2, <4>3, <5>1, <5>2
      <4> HIDE DEF y, z, old, now
      <4>5. QED
        BY <2>1, <4>2, <4>4
    <3>3. QED
      BY <3>1, <3>2
  <2>4. x + z + now + w >= owed[i].eop
    <3> DEFINE o == owed[i].eop
    <3>1. o \in Nat /\ x + y + old + w >= o
      BY <2>1, <2>2
    <3> HIDE DEF x, y, z, old, now, w, o
    <3>2. x + w + (z + now) >= o
      BY <2>1, <2>3, <3>1
    <3>3. x + z + now + w >= o
      BY <2>1, <2>3, <3>1, <3>2
    <3>4. QED
      BY <3>3 DEF o
  <2> HIDE DEF x, y, z, old, now, w
  <2>5. QED
    BY <1>4, <2>4 DEF EopDelivered, Coming, x, z, now, w
<1>7. Counted(i)'
  <2> DEFINE x == taken[i].expired
             y == Expirations(r)
             z == Expirations(new)
             old == Cardinality(InFlight(i))
             now == Cardinality(InFlight(i)')
             c == IF e.key \in Clocks THEN e.data ELSE 0
  <2>1. /\ x \in Nat /\ y \in Nat /\ old \in Nat /\ owed[i].expired \in Nat /\ owed[i].shed \in Nat
        /\ c \in Nat
    BY DebtTypes, FlightsFinite DEF Event
  <2>2. z \in Nat
    <3>1. WellKept(Posted(queue[i], e))
      BY DebtTypes, PostedKeeps
    <3>2. new \in Seq(Event)
      BY <3>1, Mergeable DEF new
    <3>3. QED
      BY <3>2, ContentsType
  <2>3. now + c >= old /\ now \in Nat
    <3>1. CASE p \notin Timers
      <4>1. InFlight(i)' = InFlight(i)
        BY <1>1, <3>1 DEF InFlight, Posters
      <4>2. now = old
        BY <4>1
      <4> HIDE DEF now, old, c
      <4>3. QED
        BY <2>1, <4>2
    <3>2. CASE p \in Timers
      <4>1. /\ Len(todo[p]) = 1 /\ Head(todo[p]).event.key \in Clocks
            /\ Head(todo[p]).event.data = 1
        BY <3>2 DEF EqueueInv, TimerPosts
      <4>2. c = 1
        BY <4>1
      <4>3. Tail(ps) = <<>>
        <5>1. Tail(ps) \in Seq(PostType) /\ Len(Tail(ps)) = 0
          BY <1>1, <4>1, TailIs
        <5>2. QED
          BY <5>1, EmptySeq
      <4>4. InFlight(i)' = InFlight(i) \ {p}
        <5>1. todo'[p] = <<>> /\ \A k \in Timers : k # p => todo'[k] = todo[k]
          BY <1>1, <4>3 DEF Posters
        <5>2. QED
          BY <3>2, <5>1 DEF InFlight
      <4>5. now = (IF p \in InFlight(i) THEN old - 1 ELSE old)
        <5>1. IsFiniteSet(InFlight(i))
          BY FlightsFinite
        <5>2. Cardinality(InFlight(i) \ {p})
                = IF p \in InFlight(i) THEN Cardinality(InFlight(i)) - 1
                  ELSE Cardinality(InFlight(i))
          BY <5>1, FS_RemoveElement
        <5>3. QED
          BY <4>4, <5>2
      <4>6. p \in InFlight(i) => old # 0
        BY FlightsFinite, FS_EmptySet
      <4> HIDE DEF now, old, c
      <4>7. QED
        BY <2>1, <4>2, <4>5, <4>6
    <3>3. QED
      BY <3>1, <3>2
  <2>4. x + y + owed[i].shed + old >= owed[i].expired
    BY DEF Settled, Counted
  <2>5. z + shed = y + c /\ shed \in Nat
    BY <1>3
  <2> DEFINE o == owed[i].shed
             b == owed[i].expired
  <2>6. x + (z + shed) + o + now >= b
    <3>1. o \in Nat /\ b \in Nat /\ x + y + o + old >= b
      BY <2>1, <2>4
    <3>2. /\ x \in Nat /\ y \in Nat /\ z \in Nat /\ old \in Nat /\ now \in Nat /\ c \in Nat
          /\ shed \in Nat /\ now + c >= old /\ z + shed = y + c
      BY <2>1, <2>2, <2>3, <2>5
    <3> HIDE DEF x, y, z, old, now, c, shed, o, b
    <3>3. (x + y + o) + (now + c) >= b
      BY <3>1, <3>2
    <3>4. x + (y + c) + o + now >= b
      BY <3>1, <3>2, <3>3
    <3>5. QED
      BY <3>2, <3>4
  <2>7. x + z + (o + shed) + now >= b
    <3>1. /\ o \in Nat /\ b \in Nat /\ x \in Nat /\ z \in Nat /\ now \in Nat /\ shed \in Nat
      BY <2>1, <2>2, <2>3, <2>5
    <3> HIDE DEF x, y, z, old, now, c, shed, o, b
    <3>2. QED
      BY <2>6, <3>1
  <2> HIDE DEF shed
  <2>8. QED
    BY <1>4, <2>7 DEF Counted
<1>8. QED
  BY <1>5, <1>6, <1>7 DEF Settled

LEMMA DeliverSettles ==
  ASSUME EqueueInv, AllSettled, NEW p \in Posters, Deliver(p)
  PROVE  AllSettled'
<1>1. PICK h \in Identities : h = held[p]
  BY DeliverIs DEF Created
<1>2. PICK e \in Event : e = Head(todo[p]).event
  BY DeliverIs
<1>3. /\ todo[p] # <<>> /\ h # 0 /\ h \in Created /\ Kept(e)
      /\ \/ /\ queue[h].deleted
            /\ UNCHANGED <<queue, owed>>
         \/ /\ ~queue[h].deleted
            /\ queue' = [queue EXCEPT ![h] = Posted(queue[h], e)]
            /\ owed' = [owed EXCEPT ![h].shed = owed[h].shed + ShedExpirations(queue[h], e)]
      /\ todo' = [todo EXCEPT ![p] = Tail(todo[p])]
  BY <1>1, <1>2, DeliverIs
<1>4. UNCHANGED <<table, at, regs, timer, eopPending, burst, pq, taken>>
  BY DEF Deliver, clocks, gpu, files
<1>5. /\ Head(todo[p]).eq = at[h] /\ Head(todo[p]).identity \in {0, h}
      /\ table[at[h]] \in {0, h} /\ (queue[h].deleted => ~Bound(h))
  BY <1>1, <1>3 DEF EqueueInv, Holding, Addresses
<1>6. ASSUME NEW i \in Identities, Bound(i)' PROVE Settled(i)'
  <2>1. Bound(i) /\ Settled(i) /\ i # 0 /\ table[at[i]] = i
    BY <1>4, <1>6, SameBound, ConstantsAssumption DEF AllSettled, Bound, Identities
  <2>2. CASE i = h
    <3>1. /\ queue' = [queue EXCEPT ![h] = Posted(queue[h], e)]
          /\ owed' = [owed EXCEPT ![h].shed = owed[h].shed + ShedExpirations(queue[h], e)]
      BY <1>3, <1>5, <2>1, <2>2
    <3>2. /\ queue'[i] = Posted(queue[i], e)
          /\ owed'[i] = [owed[i] EXCEPT !.shed = owed[i].shed + ShedExpirations(queue[i], e)]
      BY <2>2, <3>1 DEF EqueueInv, Types
    <3>3. held[p] # 0 /\ i = held[p]
      BY <1>1, <1>3, <2>2
    <3>4. QED
      BY <1>2, <1>3, <1>4, <2>1, <3>2, <3>3, Arrives
  <2>3. CASE i # h
    <3>1. at[h] # at[i]
      BY <1>5, <2>1, <2>3
    <3>2. queue'[i] = queue[i] /\ owed'[i] = owed[i]
      BY <1>3, <2>3 DEF EqueueInv, Types
    <3>3. Fits(p, Head(todo[p]))
      BY <1>3, HeadIs
    <3>4. p = "ptr" => Head(todo[p]).identity # i
      BY <1>5, <2>1, <2>3
    <3>5. p = "eop" => Head(todo[p]).eq # at[i]
      BY <1>5, <3>1
    <3>6. p \in Timers => timer[p].meant # i
      <4>1. ASSUME p \in Timers, timer[p].meant = i PROVE FALSE
        <5>1. Head(todo[p]).eq = at[i]
          BY <1>3, <4>1 DEF EqueueInv, TimerPosts
        <5>2. QED
          BY <1>5, <3>1, <5>1
      <4>2. QED
        BY <4>1
    <3>7. QED
      BY <1>3, <1>4, <2>1, <3>2, <3>4, <3>5, <3>6, Elsewhere
  <2>4. QED
    BY <2>2, <2>3
<1>7. QED
  BY <1>6 DEF AllSettled

LEMMA NextSettles ==
  ASSUME EqueueInv, AllSettled, [Next]_vars
  PROVE  AllSettled'
<1>1. ASSUME NEW t \in Callers, Guest(t) PROVE AllSettled'
  <2>1. CASE Create(t)
    BY <2>1, CreateSettles
  <2>2. CASE TriggerFlip(t)
    BY <2>2, PlansSettle
  <2>3. CASE TriggerEop(t)
    BY <2>3, TriggerEopSettles
  <2>4. ASSUME NEW h \in Handles, Delete(t, h) PROVE AllSettled'
    BY <2>4, DeleteSettles
  <2>5. ASSUME NEW h \in Handles, TriggerUser(t, h) PROVE AllSettled'
    BY <2>5, PlansSettle
  <2>6. ASSUME NEW h \in Handles, DeleteTimer(t, h) PROVE AllSettled'
    BY <2>6, ClocksSettle
  <2>7. ASSUME NEW h \in Handles, NEW s \in Sources, Register(t, s, h) PROVE AllSettled'
    BY <2>7, RegisterSettles
  <2>8. ASSUME NEW h \in Handles, NEW k \in Timers, AddTimer(t, h, k) PROVE AllSettled'
    BY <2>8, ClocksSettle
  <2>9. ASSUME NEW i \in Identities, SubmitTag(t, i) PROVE AllSettled'
    BY <2>9, SubmitTagSettles
  <2>10. ASSUME NEW i \in Identities, NEW k \in Reads, SubmitCounter(t, i, k) PROVE AllSettled'
    BY <2>10, PlansSettle
  <2>11. QED
    BY <1>1, <2>1, <2>2, <2>3, <2>4, <2>5, <2>6, <2>7, <2>8, <2>9, <2>10 DEF Guest
<1>2. ASSUME NEW t \in Waiters, NEW h \in Handles, CallWait(t, h) PROVE AllSettled'
  BY <1>2, WaitsSettle
<1>3. ASSUME NEW t \in Threads, Handling(t) \/ Wake(t) PROVE AllSettled'
  BY <1>3, WaitsSettle, ReturnSettles DEF Handling
<1>4. ASSUME NEW p \in Posters, Posting(p) PROVE AllSettled'
  BY <1>4, FindSettles, DeliverSettles DEF Posting
<1>5. ASSUME PumpTick \/ EopTake \/ EopPostNow \/ PtrTake PROVE AllSettled'
  BY <1>5, PlansSettle, EopTakeSettles, EopPostSettles, PtrTakeSettles
<1>6. ASSUME NEW k \in Timers, Clock(k) PROVE AllSettled'
  BY <1>6, TimerWakeSettles, ClocksSettle DEF Clock
<1>7. ASSUME NEW k \in Reads, ReadWake(k) PROVE AllSettled'
  BY <1>7, PlansSettle
<1>8. CASE UNCHANGED vars
  <2>1. UNCHANGED <<table, at, queue, regs, todo, timer, eopPending, burst, pq, taken, owed>>
    BY <1>8 DEF vars, gpu, files, clocks, history
  <2>2. \A i \in Identities : InFlight(i)' = InFlight(i)
    BY <2>1 DEF InFlight
  <2>3. QED
    BY <2>1, <2>2, QuietSettles
<1>9. QED
  BY <1>1, <1>2, <1>3, <1>4, <1>5, <1>6, <1>7, <1>8 DEF Next

LEMMA AlwaysSettled == Spec => []AllSettled
<1>1. Init => AllSettled
  BY DEF Init, AllSettled, Bound, Created
<1>2. QED
  BY <1>1, AlwaysInv, NextSettles, PTL DEF Spec

\* A file completion bound to a queue is delivered to it exactly once and in
\* the order of submission, and every end-of-pipe completion triggered while a
\* queue is registered is taken, in the queue or on its way: neither is ever
\* merged, shed, reordered or sent to a later queue at the same address.
THEOREM CompletionsDelivered == Spec => []CompletionsKept
BY AlwaysSettled, SettledIs, PTL

\* Every expiration of a queue's timers is in an event the guest took or will
\* take, in flight, or was given up by a queue at its cap.
THEOREM ExpirationsDelivered == Spec => []ExpirationsCounted
BY AlwaysSettled, SettledIs, PTL
=============================================================================
