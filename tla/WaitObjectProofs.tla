-------------------------- MODULE WaitObjectProofs --------------------------
(***************************************************************************)
(* Safety of the kernel event flag and semaphore for every finite set of   *)
(* threads, every set of bits, every request and every number of calls.    *)
(* The argument is ObjectInv, the inductive invariant stated in            *)
(* WaitObject.  Its parts are kept for different reasons: the value by     *)
(* what a wait may take, the waiter count and the destroyer by the         *)
(* bookkeeping of one thread's move, and the sleepers because a step that  *)
(* makes a request satisfiable wakes every sleeper.                        *)
(***************************************************************************)
EXTENDS WaitObject, FiniteSetTheorems, TLAPS

\* The threads `waiters' counts, and where a thread can be.
CountedThreads == {t \in Threads : pc[t] \in Counted}
Place == Counted \cup {"idle", "destroy"}

\* What a step of a handler inside a wait does, n counting its thread.
WaitStep(t, n) ==
  /\ pc[t] \notin {"parked", "destroy"}
  /\ \E r \in Requests, d \in {"none", "ahead", "past"}, late \in BOOLEAN :
       Park(t, r, d, n, late) \/ Leave(t, r, n, late)
  /\ UNCHANGED <<kind, deleted, freed>>
  /\ calls' \in 0 .. MaxCalls

(***************************************************************************)
(* The waiter count.                                                       *)
(***************************************************************************)
\* The counted threads are finitely many, so their number is a number.
LEMMA CountedFinite ==
  IsFiniteSet(CountedThreads) /\ Cardinality(CountedThreads) \in Nat
<1>1. CountedThreads \in SUBSET Threads
  BY DEF CountedThreads
<1>2. IsFiniteSet(CountedThreads)
  BY <1>1, FS_Subset, ThreadsAssumption
<1>3. QED
  BY <1>2, FS_CardinalityType

\* Counting one thread more or one thread less.
LEMMA CountOneMore ==
  ASSUME NEW t \in Threads
  PROVE  /\ IsFiniteSet(CountedThreads \cup {t})
         /\ Cardinality(CountedThreads \cup {t}) \in Nat
         /\ t \in CountedThreads => CountedThreads \cup {t} = CountedThreads
         /\ t \notin CountedThreads =>
              Cardinality(CountedThreads \cup {t}) = Cardinality(CountedThreads) + 1
         /\ Cardinality(CountedThreads \ {t}) = Cardinality(CountedThreads \cup {t}) - 1
<1>1. IsFiniteSet(CountedThreads) /\ Cardinality(CountedThreads) \in Nat
  BY CountedFinite
<1>2. /\ IsFiniteSet(CountedThreads \cup {t})
      /\ Cardinality(CountedThreads \cup {t}) =
           IF t \in CountedThreads THEN Cardinality(CountedThreads)
                                   ELSE Cardinality(CountedThreads) + 1
  BY <1>1, FS_AddElement
<1>3. Cardinality(CountedThreads \ {t}) =
        IF t \in CountedThreads THEN Cardinality(CountedThreads) - 1
                                ELSE Cardinality(CountedThreads)
  BY <1>1, FS_RemoveElement
<1>4. t \in CountedThreads => CountedThreads \cup {t} = CountedThreads
  OBVIOUS
<1>5. QED
  BY <1>1, <1>2, <1>3, <1>4

\* When only t is counted, every other thread is idle or about to destroy.
LEMMA LastCounted ==
  ASSUME NEW t \in Threads, Cardinality(CountedThreads \cup {t}) = 1
  PROVE  CountedThreads \subseteq {t}
<1>1. IsFiniteSet(CountedThreads \cup {t})
  BY CountOneMore
<1>2. PICK x : CountedThreads \cup {t} = {x}
  BY <1>1, FS_Singleton
<1>3. QED
  BY <1>2

\* EnterWait counts its thread before it looks at the value; a thread that
\* resumes is counted already: both go on with the same count.
LEMMA WaitStepOf ==
  ASSUME TypeOK, WaitersAsk, NEW t \in Threads, EnterWait(t) \/ ResumeWait(t)
  PROVE  WaitStep(t, Cardinality(CountedThreads \cup {t}))
<1>1. waiters = Cardinality(CountedThreads)
  BY DEF TypeOK, CountedThreads
<1>2. CASE EnterWait(t)
  <2>1. t \notin CountedThreads
    BY <1>2 DEF EnterWait, Called, CountedThreads, Counted
  <2>2. waiters + 1 = Cardinality(CountedThreads \cup {t})
    BY <1>1, <2>1, CountOneMore
  <2>3. pc[t] \notin {"parked", "destroy"} /\ calls' \in 0 .. MaxCalls
    BY <1>2, NeedsAssumption DEF EnterWait, Called, TypeOK
  <2>4. PICK r \in Requests, d \in {"none", "ahead"} :
          Park(t, r, d, waiters + 1, FALSE) \/ Leave(t, r, waiters + 1, FALSE)
    BY <1>2 DEF EnterWait
  <2>5. \E q \in Requests, e \in {"none", "ahead", "past"}, late \in BOOLEAN :
          Park(t, q, e, waiters + 1, late) \/ Leave(t, q, waiters + 1, late)
    BY <2>4
  <2>6. UNCHANGED <<kind, deleted, freed>>
    BY <1>2 DEF EnterWait
  <2>7. QED
    BY <2>2, <2>3, <2>5, <2>6 DEF WaitStep
<1>3. CASE ResumeWait(t)
  <2>1. t \in CountedThreads /\ pc[t] \in Counted
    BY <1>3 DEF ResumeWait, CountedThreads, Counted
  <2>2. waiters = Cardinality(CountedThreads \cup {t})
    BY <1>1, <2>1, CountOneMore
  <2>3. /\ pc[t] \notin {"parked", "destroy"}
        /\ calls' \in 0 .. MaxCalls
        /\ UNCHANGED <<kind, deleted, freed>>
    BY <1>3 DEF ResumeWait, TypeOK
  <2>4. request[t] \in Requests /\ deadline[t] \in {"none", "ahead", "past"}
    BY <2>1 DEF WaitersAsk, TypeOK
  <2>5. PICK late \in BOOLEAN : Park(t, request[t], deadline[t], waiters, late)
                                \/ Leave(t, request[t], waiters, late)
    BY <1>3 DEF ResumeWait
  <2>6. \E r \in Requests, d \in {"none", "ahead", "past"}, l \in BOOLEAN :
          Park(t, r, d, waiters, l) \/ Leave(t, r, waiters, l)
    BY <2>4, <2>5
  <2>7. QED
    BY <2>2, <2>3, <2>6 DEF WaitStep
<1>4. QED
  BY <1>2, <1>3

(***************************************************************************)
(* The value.                                                              *)
(***************************************************************************)
Values ==
  /\ bits \in SUBSET Bits
  /\ count \in Int
  /\ surplus \in [Bits -> Int]
  /\ stock \in Int
  /\ Conserved

\* A wait consumes bits that are 1 only.
LEMMA ClearedIsSet ==
  ASSUME kind = "flag", NEW r \in Requests
  PROVE  Cleared(r) \subseteq bits
<1>1. r.clear \in {"none", "all", "pattern"}
  BY BitsAssumption DEF Requests, FlagRequest
<1>2. QED
  BY <1>1 DEF Cleared

\* Taking what is there keeps the account, and satisfies no other request.
LEMMA TakeKeeps ==
  ASSUME Values, kind \in {"flag", "sema"}, UNCHANGED kind,
         NEW r \in Requests, Satisfied(r), Take(r)
  PROVE  /\ Values'
         /\ \A q \in Requests : Satisfied(q)' => Satisfied(q)
<1>1. CASE kind = "sema"
  <2>1. Requests = Needs /\ Needs \subseteq Nat \ {0}
    BY <1>1, NeedsAssumption DEF Requests
  <2>2. /\ count' = count - r /\ stock' = stock - r /\ count >= r
        /\ UNCHANGED <<bits, surplus>>
    BY <1>1 DEF Take, Satisfied
  <2>3. Values'
    BY <2>1, <2>2 DEF Values, Conserved
  <2>4. ASSUME NEW q \in Requests, Satisfied(q)' PROVE Satisfied(q)
    BY <1>1, <2>1, <2>2, <2>4 DEF Satisfied, Values
  <2>5. QED
    BY <2>3, <2>4
<1>2. CASE kind = "flag"
  <2>1. /\ bits' = bits \ Cleared(r) /\ Cleared(r) \subseteq bits
        /\ UNCHANGED <<count, stock>>
        /\ surplus' = [b \in Bits |-> IF b \in Cleared(r) THEN surplus[b] - 1 ELSE surplus[b]]
    BY <1>2, ClearedIsSet DEF Take
  <2>2. ASSUME NEW b \in Bits PROVE surplus'[b] >= IF b \in bits' THEN 1 ELSE 0
    <3>1. CASE b \in Cleared(r)
      BY <2>1, <3>1 DEF Values, Conserved
    <3>2. CASE b \notin Cleared(r)
      BY <2>1, <3>2 DEF Values, Conserved
    <3>3. QED
      BY <3>1, <3>2
  <2>3. bits' \in SUBSET Bits /\ surplus' \in [Bits -> Int]
    BY <2>1 DEF Values
  <2>4. Values'
    BY <2>1, <2>2, <2>3 DEF Values, Conserved
  <2>5. ASSUME NEW q \in Requests, Satisfied(q)' PROVE Satisfied(q)
    BY <1>2, <2>1, <2>5 DEF Satisfied
  <2>6. QED
    BY <2>4, <2>5
<1>3. QED
  BY <1>1, <1>2

\* A set or a signal adds to the account what it adds to the value.
LEMMA PutKeeps ==
  ASSUME Values, (kind = "flag" /\ PutBits) \/ (kind # "flag" /\ PutUnits)
  PROVE  Values'
<1>1. CASE PutBits
  <2>1. PICK m \in Masks :
          /\ bits' = bits \cup m
          /\ surplus' = [b \in Bits |-> IF b \in m THEN surplus[b] + 1 ELSE surplus[b]]
          /\ UNCHANGED <<count, stock>>
    BY <1>1 DEF PutBits
  <2>2. bits' \in SUBSET Bits /\ surplus' \in [Bits -> Int]
    BY <2>1, BitsAssumption DEF Values
  <2>3. ASSUME NEW b \in Bits PROVE surplus'[b] >= IF b \in bits' THEN 1 ELSE 0
    <3>1. CASE b \in m
      BY <2>1, <3>1 DEF Values, Conserved
    <3>2. CASE b \notin m
      BY <2>1, <3>2 DEF Values, Conserved
    <3>3. QED
      BY <3>1, <3>2
  <2>4. QED
    BY <2>1, <2>2, <2>3 DEF Values, Conserved
<1>2. CASE PutUnits
  BY <1>2, NeedsAssumption DEF PutUnits, Values, Conserved
<1>3. QED
  BY <1>1, <1>2

(***************************************************************************)
(* One thread's move.                                                      *)
(***************************************************************************)
\* Goto changes the place of one thread.
LEMMA GotoMove ==
  ASSUME pc \in [Threads -> Place], NEW t \in Threads, NEW label \in Place, Goto(t, label)
  PROVE  /\ pc' \in [Threads -> Place]
         /\ pc'[t] = label
         /\ \A u \in Threads \ {t} : pc'[u] = pc[u]
         /\ label \in Counted => CountedThreads' = CountedThreads \cup {t}
         /\ label \notin Counted => CountedThreads' = CountedThreads \ {t}
BY DEF Goto, CountedThreads, Place, Counted

\* A broadcast leaves no thread asleep; otherwise only t changes its place.
LEMMA BroadcastMove ==
  ASSUME pc \in [Threads -> Place], NEW t \in Threads, NEW label \in {"idle", "destroy"},
         pc[t] = "idle", Broadcast(t, label)
  PROVE  /\ pc' \in [Threads -> Place]
         /\ pc'[t] = label
         /\ \A u \in Threads : pc'[u] # "parked"
         /\ \A u \in Threads \ {t} :
              /\ pc'[u] = "idle" <=> pc[u] = "idle"
              /\ pc'[u] = "destroy" <=> pc[u] = "destroy"
         /\ CountedThreads' = CountedThreads
BY DEF Broadcast, CountedThreads, Place, Counted

\* What the invariant says of one call: the object is neither deleted nor
\* freed, and nobody is about to free it.
LEMMA CalledLive ==
  ASSUME ObjectInv, NEW t \in Threads, Called(t)
  PROVE  /\ pc[t] = "idle" /\ ~deleted /\ freed = 0
         /\ \A u \in Threads : pc[u] # "destroy"
         /\ calls' \in 0 .. MaxCalls
BY NeedsAssumption DEF ObjectInv, TypeOK, Called, OneDestroyer

\* The invariant, in the terms of the lemmas above.
LEMMA InvParts ==
  ASSUME ObjectInv
  PROVE  /\ Values
         /\ kind \in {"flag", "sema"}
         /\ pc \in [Threads -> Place]
         /\ waiters = Cardinality(CountedThreads)
BY DEF ObjectInv, TypeOK, Values, Place, CountedThreads

(***************************************************************************)
(* The steps.                                                              *)
(***************************************************************************)
\* At first the object is alive and nobody is in a call.
LEMMA InvInit == Init => ObjectInv
<1> SUFFICES ASSUME Init PROVE ObjectInv
  OBVIOUS
<1>1. {t \in Threads : pc[t] \in Counted} = {}
  BY DEF Init, Counted
<1>2. Cardinality({t \in Threads : pc[t] \in Counted}) = 0
  BY <1>1, FS_EmptySet
<1>3. bits \in SUBSET Bits /\ count \in Int /\ count >= 0
  BY BitsAssumption DEF Init
<1>4. TypeOK
  <2>1. kind \in {"flag", "sema"} /\ calls \in 0 .. MaxCalls
    BY NeedsAssumption DEF Init
  <2>2. surplus \in [Bits -> Int] /\ stock \in Int
    BY <1>3 DEF Init
  <2>3. /\ deleted \in BOOLEAN /\ freed \in Nat
        /\ pc \in [Threads -> Counted \cup {"idle", "destroy"}]
        /\ request \in [Threads -> Requests \cup {NoRequest}]
        /\ deadline \in [Threads -> {"none", "ahead", "past"}]
    BY DEF Init
  <2>4. waiters = Cardinality({t \in Threads : pc[t] \in Counted})
    BY <1>2 DEF Init
  <2>5. QED
    BY <1>3, <2>1, <2>2, <2>3, <2>4 DEF TypeOK
<1>5. WaitersAsk /\ NoStrandedWaiter /\ OneDestroyer /\ FreedUnused
  BY DEF Init, WaitersAsk, NoStrandedWaiter, OneDestroyer, FreedUnused, Counted
<1>6. Conserved
  BY <1>3 DEF Init, Conserved
<1>7. QED
  BY <1>4, <1>5, <1>6 DEF ObjectInv

\* A set or a signal wakes whoever it may satisfy.
LEMMA PutStep == ASSUME ObjectInv, NEW t \in Threads, Put(t) PROVE ObjectInv'
<1>1. /\ pc[t] = "idle" /\ ~deleted /\ freed = 0
      /\ \A u \in Threads : pc[u] # "destroy"
      /\ calls' \in 0 .. MaxCalls
  BY CalledLive DEF Put
<1>2. Values'
  BY PutKeeps, InvParts DEF Put
<1>3. /\ pc' \in [Threads -> Place] /\ pc'[t] = "idle"
      /\ \A u \in Threads : pc'[u] # "parked"
      /\ \A u \in Threads \ {t} : pc'[u] = "destroy" <=> pc[u] = "destroy"
      /\ CountedThreads' = CountedThreads
  BY <1>1, BroadcastMove, InvParts DEF Put
<1>4. TypeOK'
  BY <1>1, <1>2, <1>3, InvParts
     DEF ObjectInv, TypeOK, Put, Values, Place, CountedThreads, Requests
<1>5. WaitersAsk'
  BY <1>3 DEF ObjectInv, WaitersAsk, CountedThreads, Put, Requests
<1>6. NoStrandedWaiter' /\ OneDestroyer' /\ FreedUnused'
  BY <1>1, <1>3 DEF Put, NoStrandedWaiter, OneDestroyer, FreedUnused
<1>7. QED
  BY <1>2, <1>4, <1>5, <1>6 DEF ObjectInv, Values

\* Clearing bits satisfies nobody.
LEMMA ClearStep == ASSUME ObjectInv, NEW t \in Threads, Clear(t) PROVE ObjectInv'
<1>1. /\ kind = "flag" /\ bits' \subseteq bits
      /\ UNCHANGED <<kind, count, deleted, waiters, freed, pc, request, deadline, surplus, stock>>
  BY DEF Clear, history
<1>2. calls' \in 0 .. MaxCalls
  BY CalledLive DEF Clear
<1>3. TypeOK'
  BY <1>1, <1>2 DEF ObjectInv, TypeOK, Requests
<1>4. Conserved'
  BY <1>1 DEF ObjectInv, TypeOK, Conserved
<1>5. NoStrandedWaiter'
  BY <1>1 DEF ObjectInv, NoStrandedWaiter, Satisfied
<1>6. WaitersAsk' /\ OneDestroyer' /\ FreedUnused'
  BY <1>1 DEF ObjectInv, WaitersAsk, OneDestroyer, FreedUnused, Requests
<1>7. QED
  BY <1>3, <1>4, <1>5, <1>6 DEF ObjectInv

\* A poll takes like a wait, but never sleeps.
LEMMA PollStep == ASSUME ObjectInv, NEW t \in Threads, Poll(t) PROVE ObjectInv'
<1>1. /\ UNCHANGED <<kind, deleted, waiters, freed, pc, request, deadline>>
      /\ calls' \in 0 .. MaxCalls
  BY CalledLive DEF Poll
<1>2. Values' /\ \A q \in Requests : Satisfied(q)' => Satisfied(q)
  <2>1. PICK r \in Requests : IF Satisfied(r) THEN Take(r) ELSE TakeNothing
    BY DEF Poll
  <2>2. CASE Satisfied(r)
    BY <1>1, <2>1, <2>2, TakeKeeps, InvParts
  <2>3. CASE ~Satisfied(r)
    BY <1>1, <2>1, <2>3, InvParts
       DEF TakeNothing, value, history, Values, Conserved, Satisfied
  <2>4. QED
    BY <2>2, <2>3
<1>3. TypeOK'
  BY <1>1, <1>2 DEF ObjectInv, TypeOK, Values, Requests
<1>4. NoStrandedWaiter'
  BY <1>1, <1>2 DEF ObjectInv, NoStrandedWaiter, WaitersAsk, Counted, Satisfied
<1>5. WaitersAsk' /\ OneDestroyer' /\ FreedUnused'
  BY <1>1 DEF ObjectInv, WaitersAsk, OneDestroyer, FreedUnused, Requests
<1>6. QED
  BY <1>2, <1>3, <1>4, <1>5 DEF ObjectInv, Values

\* A thread parks when its request is not there, with the object alive, and
\* what it asks for is then still not there.
LEMMA ParkStep ==
  ASSUME ObjectInv, NEW t \in Threads, pc[t] \notin {"parked", "destroy"},
         NEW r \in Requests, NEW d \in {"none", "ahead", "past"}, NEW late \in BOOLEAN,
         Park(t, r, d, Cardinality(CountedThreads \cup {t}), late),
         UNCHANGED <<kind, deleted, freed>>, calls' \in 0 .. MaxCalls
  PROVE  ObjectInv'
<1>1. /\ ~deleted /\ ~Satisfied(r) /\ Goto(t, "parked")
      /\ waiters' = Cardinality(CountedThreads \cup {t})
      /\ request' = [request EXCEPT ![t] = r]
      /\ deadline' = [deadline EXCEPT ![t] = d]
      /\ UNCHANGED <<bits, count, surplus, stock>>
  BY DEF Park, Ready, TakeNothing, value, history
<1>2. "parked" \in Place /\ "parked" \in Counted
  BY DEF Place, Counted
<1>3. /\ pc' \in [Threads -> Place] /\ pc'[t] = "parked"
      /\ \A u \in Threads \ {t} : pc'[u] = pc[u]
      /\ CountedThreads' = CountedThreads \cup {t}
  BY <1>1, <1>2, GotoMove, InvParts
<1>4. request' \in [Threads -> Requests \cup {NoRequest}] /\ request'[t] = r
      /\ \A u \in Threads \ {t} : request'[u] = request[u]
  BY <1>1 DEF ObjectInv, TypeOK
<1>5. deadline' \in [Threads -> {"none", "ahead", "past"}]
  BY <1>1 DEF ObjectInv, TypeOK
<1>6. TypeOK'
  <2>1. waiters' = Cardinality({u \in Threads : pc'[u] \in Counted})
    BY <1>1, <1>3 DEF CountedThreads
  <2>2. request' \in [Threads -> Requests' \cup {NoRequest}]
    BY <1>4 DEF Requests
  <2>3. QED
    BY <1>1, <1>3, <1>5, <2>1, <2>2 DEF ObjectInv, TypeOK, Place
<1>7. WaitersAsk'
  BY <1>3, <1>4 DEF ObjectInv, WaitersAsk, Requests
<1>8. NoStrandedWaiter'
  BY <1>1, <1>3, <1>4 DEF ObjectInv, NoStrandedWaiter, Satisfied
<1>9. OneDestroyer'
  BY <1>1, <1>3 DEF ObjectInv, OneDestroyer
<1>10. FreedUnused' /\ Conserved'
  BY <1>1 DEF ObjectInv, FreedUnused, Conserved, OneDestroyer
<1>11. QED
  BY <1>6, <1>7, <1>8, <1>9, <1>10 DEF ObjectInv

\* A thread leaves with what it asked for or with nothing; when it is the
\* last of a deleted object, every other thread is idle.
LEMMA LeaveStep ==
  ASSUME ObjectInv, NEW t \in Threads, pc[t] \notin {"parked", "destroy"},
         ~(pc[t] = "idle" /\ deleted),
         NEW r \in Requests, NEW late \in BOOLEAN,
         Leave(t, r, Cardinality(CountedThreads \cup {t}), late),
         UNCHANGED <<kind, deleted, freed>>, calls' \in 0 .. MaxCalls
  PROVE  ObjectInv'
<1> DEFINE last == deleted /\ Cardinality(CountedThreads \cup {t}) = 1
           label == IF last THEN "destroy" ELSE "idle"
<1>1. /\ IF Satisfied(r) /\ ~deleted THEN Take(r) ELSE TakeNothing
      /\ Goto(t, label)
      /\ waiters' = Cardinality(CountedThreads \cup {t}) - 1
      /\ request' = [request EXCEPT ![t] = NoRequest]
      /\ deadline' = [deadline EXCEPT ![t] = "none"]
  BY DEF Leave
<1>2. label \in {"idle", "destroy"} /\ label \in Place /\ label \notin Counted
  BY DEF Place, Counted
<1> HIDE DEF label
<1>3. /\ pc' \in [Threads -> Place] /\ pc'[t] = label
      /\ \A u \in Threads \ {t} : pc'[u] = pc[u]
      /\ CountedThreads' = CountedThreads \ {t}
  BY <1>1, <1>2, GotoMove, InvParts
<1>4. Values' /\ \A q \in Requests : Satisfied(q)' => Satisfied(q)
  <2>1. CASE Satisfied(r) /\ ~deleted
    BY <1>1, <2>1, TakeKeeps, InvParts
  <2>2. CASE ~(Satisfied(r) /\ ~deleted)
    BY <1>1, <2>2, InvParts DEF TakeNothing, value, history, Values, Conserved, Satisfied
  <2>3. QED
    BY <2>1, <2>2
<1>5. TypeOK'
  <2>1. waiters' = Cardinality({u \in Threads : pc'[u] \in Counted})
    BY <1>1, <1>3, CountOneMore DEF CountedThreads
  <2>2. /\ request' \in [Threads -> Requests' \cup {NoRequest}]
        /\ deadline' \in [Threads -> {"none", "ahead", "past"}]
    BY <1>1 DEF ObjectInv, TypeOK, Requests
  <2>3. QED
    BY <1>3, <1>4, <2>1, <2>2 DEF ObjectInv, TypeOK, Place, Values
<1>6. WaitersAsk'
  BY <1>1, <1>2, <1>3 DEF ObjectInv, TypeOK, WaitersAsk, Requests
<1>7. NoStrandedWaiter'
  <2> SUFFICES ASSUME NEW u \in Threads, pc'[u] = "parked"
               PROVE  ~deleted' /\ ~Satisfied(request[u])'
    BY DEF NoStrandedWaiter
  <2>1. u # t /\ pc[u] = "parked" /\ request'[u] = request[u]
    BY <1>1, <1>2, <1>3 DEF ObjectInv, TypeOK
  <2>2. request[u] \in Requests /\ ~deleted /\ ~Satisfied(request[u])
    BY <2>1 DEF ObjectInv, WaitersAsk, NoStrandedWaiter, Counted
  <2>3. QED
    BY <1>4, <2>1, <2>2 DEF Satisfied
<1>8. freed = 0
  BY DEF ObjectInv, FreedUnused, OneDestroyer, TypeOK
<1>9. \A u \in Threads : pc[u] # "destroy"
  BY DEF ObjectInv, OneDestroyer
<1>10. OneDestroyer'
  <2>1. CASE last
    <3>1. \A u \in Threads \ {t} : pc[u] \notin Counted
      BY <2>1, LastCounted DEF CountedThreads
    <3>2. \A u \in Threads \ {t} : pc'[u] = "idle"
      BY <1>3, <1>9, <3>1, InvParts DEF Place
    <3>3. QED
      BY <1>8, <2>1, <3>2 DEF OneDestroyer
  <2>2. CASE ~last
    BY <1>3, <1>8, <1>9, <2>2 DEF OneDestroyer, label
  <2>3. QED
    BY <2>1, <2>2
<1>11. FreedUnused'
  BY <1>8 DEF FreedUnused
<1>12. QED
  BY <1>4, <1>5, <1>6, <1>7, <1>10, <1>11 DEF ObjectInv, Values

\* A wait, from its call or from a wakeup, ends in one of these two ways.
LEMMA WaitKeeps ==
  ASSUME ObjectInv, NEW t \in Threads, EnterWait(t) \/ ResumeWait(t)
  PROVE  ObjectInv'
<1>1. WaitStep(t, Cardinality(CountedThreads \cup {t}))
  BY WaitStepOf DEF ObjectInv
<1>2. ~(pc[t] = "idle" /\ deleted)
  BY DEF EnterWait, ResumeWait, Called
<1>3. QED
  BY <1>1, <1>2, ParkStep, LeaveStep DEF WaitStep

\* Delete lets every sleeper go, and frees the object itself only when no
\* thread is counted.
LEMMA DeleteStep == ASSUME ObjectInv, NEW t \in Threads, Delete(t) PROVE ObjectInv'
<1> DEFINE label == IF waiters > 0 THEN "idle" ELSE "destroy"
<1>1. /\ pc[t] = "idle" /\ ~deleted /\ freed = 0
      /\ \A u \in Threads : pc[u] # "destroy"
      /\ calls' \in 0 .. MaxCalls
  BY CalledLive DEF Delete
<1>2. /\ deleted' = TRUE /\ Broadcast(t, label) /\ label \in {"idle", "destroy"}
      /\ UNCHANGED <<kind, bits, count, waiters, freed, request, deadline, surplus, stock>>
  BY DEF Delete, value, history
<1> HIDE DEF label
<1>3. /\ pc' \in [Threads -> Place] /\ pc'[t] = label
      /\ \A u \in Threads : pc'[u] # "parked"
      /\ \A u \in Threads \ {t} : /\ pc'[u] = "idle" <=> pc[u] = "idle"
                                  /\ pc'[u] = "destroy" <=> pc[u] = "destroy"
      /\ CountedThreads' = CountedThreads
  BY <1>1, <1>2, BroadcastMove, InvParts
<1>4. TypeOK'
  BY <1>1, <1>2, <1>3, InvParts DEF ObjectInv, TypeOK, Place, CountedThreads, Requests
<1>5. WaitersAsk'
  BY <1>2, <1>3 DEF ObjectInv, WaitersAsk, CountedThreads, Requests
<1>6. NoStrandedWaiter' /\ FreedUnused' /\ Conserved'
  BY <1>1, <1>2, <1>3 DEF ObjectInv, NoStrandedWaiter, FreedUnused, Conserved
<1>7. OneDestroyer'
  <2>1. CASE waiters > 0
    BY <1>1, <1>2, <1>3, <2>1 DEF OneDestroyer, label
  <2>2. CASE ~(waiters > 0)
    <3>1. CountedThreads = {}
      BY <2>2, InvParts, CountedFinite, FS_EmptySet
    <3>2. \A u \in Threads : pc[u] = "idle"
      BY <1>1, <3>1, InvParts DEF CountedThreads, Place
    <3>3. QED
      BY <1>1, <1>2, <1>3, <3>2 DEF OneDestroyer
  <2>3. QED
    BY <2>1, <2>2
<1>8. QED
  BY <1>4, <1>5, <1>6, <1>7 DEF ObjectInv

\* A condvar wait that returns leaves its thread counted.
LEMMA CondReturnsStep ==
  ASSUME ObjectInv, NEW t \in Threads, CondReturns(t) PROVE ObjectInv'
<1> DEFINE label == IF deadline[t] = "past" THEN "expired" ELSE "woken"
<1>1. /\ pc[t] = "parked" /\ Goto(t, label)
      /\ UNCHANGED <<kind, bits, count, deleted, waiters, freed, request, deadline,
                     surplus, stock, calls>>
  BY DEF CondReturns, value, history
<1>2. label \in Counted /\ label \in Place /\ label \notin {"parked", "destroy", "idle"}
  BY DEF Place, Counted
<1> HIDE DEF label
<1>3. /\ pc' \in [Threads -> Place] /\ pc'[t] = label
      /\ \A u \in Threads \ {t} : pc'[u] = pc[u]
      /\ CountedThreads' = CountedThreads \cup {t}
  BY <1>1, <1>2, GotoMove, InvParts
<1>4. CountedThreads' = CountedThreads
  BY <1>1, <1>3 DEF CountedThreads, Counted
<1>5. TypeOK'
  BY <1>1, <1>3, <1>4, InvParts DEF ObjectInv, TypeOK, Place, CountedThreads, Requests
<1>6. WaitersAsk'
  BY <1>1, <1>4 DEF ObjectInv, WaitersAsk, CountedThreads, Requests
<1>7. NoStrandedWaiter'
  BY <1>1, <1>2, <1>3 DEF ObjectInv, NoStrandedWaiter, Satisfied
<1>8. OneDestroyer'
  BY <1>1, <1>2, <1>3 DEF ObjectInv, OneDestroyer
<1>9. FreedUnused' /\ Conserved'
  BY <1>1 DEF ObjectInv, FreedUnused, Conserved
<1>10. QED
  BY <1>5, <1>6, <1>7, <1>8, <1>9 DEF ObjectInv

\* The passing of a deadline is seen only by the wait's own condvar.
LEMMA DeadlineStep ==
  ASSUME ObjectInv, NEW t \in Threads, DeadlinePasses(t) PROVE ObjectInv'
<1>1. /\ deadline' = [deadline EXCEPT ![t] = "past"]
      /\ UNCHANGED <<kind, bits, count, deleted, waiters, freed, pc, request,
                     surplus, stock, calls>>
  BY DEF DeadlinePasses, value, history
<1>2. TypeOK'
  BY <1>1 DEF ObjectInv, TypeOK, Requests
<1>3. WaitersAsk' /\ Conserved' /\ NoStrandedWaiter' /\ OneDestroyer' /\ FreedUnused'
  BY <1>1 DEF ObjectInv, WaitersAsk, Conserved, NoStrandedWaiter, OneDestroyer,
              FreedUnused, Requests, Satisfied
<1>4. QED
  BY <1>2, <1>3 DEF ObjectInv

\* The storage is freed with every thread out of the object.
LEMMA DestroyStep == ASSUME ObjectInv, NEW t \in Threads, Destroy(t) PROVE ObjectInv'
<1>1. /\ pc[t] = "destroy" /\ freed' = freed + 1 /\ Goto(t, "idle")
      /\ UNCHANGED <<kind, bits, count, deleted, waiters, request, deadline,
                     surplus, stock, calls>>
  BY DEF Destroy, value, history
<1>2. deleted /\ freed = 0 /\ \A u \in Threads \ {t} : pc[u] = "idle"
  BY <1>1 DEF ObjectInv, OneDestroyer
<1>3. "idle" \in Place /\ "idle" \notin Counted /\ "destroy" \notin Counted
  BY DEF Place, Counted
<1>4. /\ pc' \in [Threads -> Place] /\ pc'[t] = "idle"
      /\ \A u \in Threads \ {t} : pc'[u] = pc[u]
      /\ CountedThreads' = CountedThreads \ {t}
  BY <1>1, <1>3, GotoMove, InvParts
<1>5. CountedThreads' = CountedThreads
  BY <1>1, <1>3, <1>4 DEF CountedThreads
<1>6. \A u \in Threads : pc'[u] = "idle"
  BY <1>2, <1>4
<1>7. TypeOK'
  BY <1>1, <1>2, <1>4, <1>5, InvParts
     DEF ObjectInv, TypeOK, Place, CountedThreads, Requests
<1>8. WaitersAsk' /\ NoStrandedWaiter'
  BY <1>3, <1>6 DEF WaitersAsk, NoStrandedWaiter
<1>9. OneDestroyer' /\ FreedUnused' /\ Conserved'
  BY <1>1, <1>2, <1>6 DEF ObjectInv, OneDestroyer, FreedUnused, Conserved
<1>10. QED
  BY <1>7, <1>8, <1>9 DEF ObjectInv

\* No step takes the object out of the invariant.
LEMMA InvPreserved == ObjectInv /\ [Next]_vars => ObjectInv'
<1> SUFFICES ASSUME ObjectInv, [Next]_vars PROVE ObjectInv'
  OBVIOUS
<1>1. ASSUME NEW t \in Threads, Put(t) \/ Clear(t) \/ Poll(t) PROVE ObjectInv'
  BY <1>1, PutStep, ClearStep, PollStep
<1>2. ASSUME NEW t \in Threads, EnterWait(t) \/ ResumeWait(t) PROVE ObjectInv'
  BY <1>2, WaitKeeps
<1>3. ASSUME NEW t \in Threads, Delete(t) \/ Destroy(t) PROVE ObjectInv'
  BY <1>3, DeleteStep, DestroyStep
<1>4. ASSUME NEW t \in Threads, CondReturns(t) \/ DeadlinePasses(t) PROVE ObjectInv'
  BY <1>4, CondReturnsStep, DeadlineStep
<1>5. ASSUME UNCHANGED vars PROVE ObjectInv'
  <2>1. UNCHANGED <<kind, bits, count, deleted, waiters, freed, pc, request, deadline,
                    surplus, stock, calls>>
    BY <1>5 DEF vars, value, history
  <2>2. TypeOK'
    BY <2>1 DEF ObjectInv, TypeOK, Requests
  <2>3. WaitersAsk' /\ Conserved' /\ NoStrandedWaiter' /\ OneDestroyer' /\ FreedUnused'
    BY <2>1 DEF ObjectInv, WaitersAsk, Conserved, NoStrandedWaiter, OneDestroyer,
                FreedUnused, Requests, Satisfied
  <2>4. QED
    BY <2>2, <2>3 DEF ObjectInv
<1>6. QED
  BY <1>1, <1>2, <1>3, <1>4, <1>5 DEF Next

(***************************************************************************)
(* The results.                                                            *)
(***************************************************************************)
\* ObjectInv is an invariant of the event flag and of the semaphore.
THEOREM ObjectInvariant == Spec => []ObjectInv
BY InvInit, InvPreserved, PTL DEF Spec

\* Every variable keeps its type, and `waiters' is the number of threads in
\* a wait.
THEOREM ObjectTypeCorrect == Spec => []TypeOK
<1>1. ObjectInv => TypeOK
  BY DEF ObjectInv
<1>2. QED
  BY ObjectInvariant, <1>1, PTL

\* The storage of a deleted event flag or semaphore is freed once, with no
\* thread in a handler of it.
THEOREM ObjectFreedUnused == Spec => []FreedUnused
<1>1. ObjectInv => FreedUnused
  BY DEF ObjectInv
<1>2. QED
  BY ObjectInvariant, <1>1, PTL

\* No thread is asleep on a satisfied request or on a deleted object.
THEOREM ObjectStrandsNobody == Spec => []NoStrandedWaiter
<1>1. ObjectInv => NoStrandedWaiter
  BY DEF ObjectInv
<1>2. QED
  BY ObjectInvariant, <1>1, PTL

\* Units and bits are handed out as often as they were put in, whatever
\* waits time out or are cut short by a delete.
THEOREM ObjectConserves == Spec => []Conserved
<1>1. ObjectInv => Conserved
  BY DEF ObjectInv
<1>2. QED
  BY ObjectInvariant, <1>1, PTL

=============================================================================
