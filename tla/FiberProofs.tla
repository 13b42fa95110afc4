---------------------------- MODULE FiberProofs ----------------------------
(***************************************************************************)
(* Proofs about Fiber, for guests whose fibers keep to one thread and do   *)
(* not return from their entry once they have been suspended: for every    *)
(* set of threads and fibers and any number of calls, the records say what *)
(* the machine does.  MCFiberMigrate and MCFiberReturn show that neither   *)
(* condition can be dropped.                                               *)
(***************************************************************************)
EXTENDS Fiber, FiniteSetTheorems, TLAPS

\* The two conditions on the guest.
Tame == ~Migrate /\ ~LateEnds

\* What a thread executes is what its record says, and a fiber of its own.
OwnFiber ==
  /\ running = current
  /\ \A t \in Threads : active[t] <=> running[t] # NoFiber
  /\ \A t \in Threads, f \in Fibers : running[t] = f => home[f] = t
  /\ \A f \in Fibers : state[f] = "run" <=> running[home[f]] = f

\* Frames are saved on the fiber's own thread, with its own context, and a
\* fiber has frames if it has been suspended or is being executed.
OwnFrames ==
  /\ local = home
  /\ \A f \in Fibers : /\ suspended[f] => context[f] = f
                       /\ f \in entered <=> suspended[f] \/ state[f] = "run"

\* Whoever called an entry that has not been left since is where it was.
CallerWaits ==
  \A t \in Threads, f \in Fibers :
    running[t] = f /\ ~suspended[f] =>
      \/ caller[f] = t
      \/ caller[f] \in Fibers /\ home[caller[f]] = t

FiberInv == TypeOK /\ OwnFiber /\ OwnFrames /\ CallerWaits

LEMMA InitHolds == Init => FiberInv
<1>1. SUFFICES ASSUME Init PROVE FiberInv
  OBVIOUS
<1>2. TypeOK
  BY <1>1, GuestAssumption DEF Init, TypeOK
<1>3. OwnFiber /\ OwnFrames /\ CallerWaits
  BY <1>1, ValuesAssumption DEF Init, OwnFiber, OwnFrames, CallerWaits
<1>4. QED
  BY <1>2, <1>3 DEF FiberInv

\* The types a step leaves alone.
LEMMA CalledTypes ==
  ASSUME TypeOK, NEW t \in Threads, Called(t)
  PROVE  calls' \in 0 .. MaxCalls /\ home' \in [Fibers -> Threads] /\ home' = home
BY GuestAssumption DEF TypeOK, Called

\* A fiber its thread may have is not being executed.
LEMMA HandedRests ==
  ASSUME Tame, FiberInv, NEW t \in Threads, NEW f \in Fibers, Handed(f, t)
  PROVE  home[f] = t /\ local[f] = t /\ state[f] # "run" /\ running[t] # f
BY DEF Tame, FiberInv, TypeOK, OwnFiber, OwnFrames, Handed

\* Initialize and Finalize touch a fiber at rest and make it one that never ran.
LEMMA ResetKeeps ==
  ASSUME Tame, FiberInv, NEW t \in Threads, NEW f \in Fibers, Called(t), Handed(f, t),
         state' = [state EXCEPT ![f] = "idle"] \/ state' = [state EXCEPT ![f] = "none"],
         suspended' = [suspended EXCEPT ![f] = FALSE],
         entered' = entered \ {f},
         UNCHANGED <<context, local, threadVars, running, caller>>
  PROVE  FiberInv'
<1>1. TypeOK'
  BY CalledTypes DEF FiberInv, TypeOK, threadVars
<1>2. home' = home /\ state[f] # "run" /\ \A u \in Threads : running[u] # f
  BY CalledTypes, HandedRests DEF FiberInv, Handed
<1>3. OwnFiber'
  BY <1>2 DEF FiberInv, TypeOK, OwnFiber, threadVars
<1>4. OwnFrames'
  BY <1>2 DEF FiberInv, TypeOK, OwnFrames, threadVars
<1>5. CallerWaits'
  BY <1>2 DEF FiberInv, TypeOK, CallerWaits, threadVars
<1>6. QED
  BY <1>1, <1>3, <1>4, <1>5 DEF FiberInv

\* Thread t goes into f: it executes f and says so, f has frames, and nobody
\* else loses the frame its entry returns to.
LEMMA EntersOwn ==
  ASSUME Tame, FiberInv, NEW t \in Threads, NEW f \in Fibers, Handed(f, t),
         NEW by \in Threads \cup Fibers, GoInto(t, f, by)
  PROVE  /\ running' = [running EXCEPT ![t] = f] /\ current' = running'
         /\ entered' = entered \cup {f}
         /\ caller' \in [Fibers -> Threads \cup Fibers \cup {Nowhere}]
         /\ ~suspended[f] => caller'[f] = by
         /\ \A u \in Threads, g \in Fibers :
              u # t /\ running[u] = g /\ ~suspended[g] => caller'[g] = caller[g]
<1>1. home[f] = t /\ local[f] = t /\ running[t] # f /\ running = current
  BY HandedRests DEF FiberInv, OwnFiber
<1>2. suspended[f] => context[f] = f /\ f \in entered
  BY DEF FiberInv, OwnFrames
<1>3. caller \in [Fibers -> Threads \cup Fibers \cup {Nowhere}]
      /\ running \in [Threads -> Fibers \cup {NoFiber, Nowhere}]
  BY DEF FiberInv, TypeOK
<1>4. /\ running' = [running EXCEPT ![t] = f] /\ current' = running'
      /\ entered' = entered \cup {f}
  BY <1>1, <1>2, <1>3 DEF GoInto
<1>5. caller' = IF suspended[f] THEN Popped(f, caller)
                ELSE [Popped(f, caller) EXCEPT ![f] = by]
  BY <1>2 DEF GoInto
<1>6. ASSUME NEW u \in Threads, NEW g \in Fibers, u # t, running[u] = g, ~suspended[g]
      PROVE  caller'[g] = caller[g]
  <2>1. g \notin FramesOf(f)
    BY <1>1, <1>6, ValuesAssumption DEF FiberInv, CallerWaits, FramesOf
  <2>2. g # f
    BY <1>6 DEF Handed
  <2>3. QED
    BY <1>3, <1>5, <2>1, <2>2 DEF Popped
<1>7. QED
  BY <1>3, <1>4, <1>5, <1>6 DEF Popped

LEMMA RunKeeps ==
  ASSUME Tame, FiberInv, NEW t \in Threads, NEW f \in Fibers, Run(t, f)
  PROVE  FiberInv'
<1>1. /\ Handed(f, t) /\ GoInto(t, f, t) /\ Called(t) /\ ~active[t]
      /\ active' = [active EXCEPT ![t] = TRUE] /\ state' = [state EXCEPT ![f] = "run"]
      /\ UNCHANGED <<suspended, context, local>>
  BY DEF Run
<1>2. /\ running' = [running EXCEPT ![t] = f] /\ current' = running'
      /\ entered' = entered \cup {f}
      /\ caller' \in [Fibers -> Threads \cup Fibers \cup {Nowhere}]
      /\ ~suspended[f] => caller'[f] = t
      /\ \A u \in Threads, g \in Fibers :
           u # t /\ running[u] = g /\ ~suspended[g] => caller'[g] = caller[g]
  BY <1>1, EntersOwn
<1>3. home' = home /\ home[f] = t /\ running[t] = NoFiber /\ NoFiber \notin Fibers
  BY <1>1, CalledTypes, HandedRests, ValuesAssumption DEF FiberInv, OwnFiber
<1>4. TypeOK'
  <2>1. current' \in [Threads -> Fibers \cup {NoFiber}]
    BY <1>2 DEF FiberInv, TypeOK, OwnFiber
  <2>2. QED
    BY <1>1, <1>2, <2>1, CalledTypes DEF FiberInv, TypeOK
<1>5. OwnFiber'
  BY <1>1, <1>2, <1>3 DEF FiberInv, TypeOK, OwnFiber
<1>6. OwnFrames'
  BY <1>1, <1>2, <1>3 DEF FiberInv, TypeOK, OwnFrames
<1>7. CallerWaits'
  BY <1>1, <1>2, <1>3 DEF FiberInv, TypeOK, CallerWaits
<1>8. QED
  BY <1>4, <1>5, <1>6, <1>7 DEF FiberInv

\* A thread in a fiber executes the fiber its record names, and it is in no other.
LEMMA InsideFiber ==
  ASSUME FiberInv, NEW t \in Threads, running[t] \in Fibers \/ current[t] # NoFiber
  PROVE  /\ current[t] \in Fibers /\ running[t] = current[t] /\ home[current[t]] = t
         /\ state[current[t]] = "run" /\ current[t] \in entered
         /\ \A u \in Threads : running[u] = current[t] => u = t
BY ValuesAssumption DEF FiberInv, TypeOK, OwnFiber, OwnFrames

LEMMA SwitchKeeps ==
  ASSUME Tame, FiberInv, NEW t \in Threads, NEW f \in Fibers, Switch(t, f)
  PROVE  FiberInv'
<1> DEFINE c == current[t]
<1>1. /\ Handed(f, t) /\ GoInto(t, f, running[t]) /\ Called(t) /\ active[t]
      /\ state' = [state EXCEPT ![c] = "idle", ![f] = "run"]
      /\ suspended' = [suspended EXCEPT ![c] = TRUE]
      /\ context' = [context EXCEPT ![c] = running[t]]
      /\ local' = [local EXCEPT ![c] = t] /\ active' = active /\ c # NoFiber /\ f # c
  BY DEF Switch, SaveContext
<1>2. /\ c \in Fibers /\ running[t] = c /\ home[c] = t /\ c \in entered
      /\ \A u \in Threads : running[u] = c => u = t
  BY <1>1, InsideFiber
<1>3. /\ running' = [running EXCEPT ![t] = f] /\ current' = running'
      /\ entered' = entered \cup {f}
      /\ caller' \in [Fibers -> Threads \cup Fibers \cup {Nowhere}]
      /\ ~suspended[f] => caller'[f] = c
      /\ \A u \in Threads, g \in Fibers :
           u # t /\ running[u] = g /\ ~suspended[g] => caller'[g] = caller[g]
  BY <1>1, <1>2, EntersOwn
<1>4. home' = home /\ home[f] = t /\ NoFiber \notin Fibers
  BY <1>1, CalledTypes, HandedRests, ValuesAssumption DEF FiberInv
<1>5. TypeOK'
  <2>1. current' \in [Threads -> Fibers \cup {NoFiber}]
    BY <1>3 DEF FiberInv, TypeOK, OwnFiber
  <2>2. \A g \in Fibers : suspended'[g] => context'[g] # NoFiber
    BY <1>1, <1>2, <1>4 DEF FiberInv, TypeOK
  <2>3. QED
    BY <1>1, <1>2, <1>3, <2>1, <2>2, CalledTypes DEF FiberInv, TypeOK
<1>6. OwnFiber'
  BY <1>1, <1>2, <1>3, <1>4 DEF FiberInv, TypeOK, OwnFiber
<1>7. OwnFrames'
  BY <1>1, <1>2, <1>3, <1>4 DEF FiberInv, TypeOK, OwnFrames
<1>8. CallerWaits'
  BY <1>1, <1>2, <1>3, <1>4 DEF FiberInv, TypeOK, CallerWaits
<1>9. QED
  BY <1>5, <1>6, <1>7, <1>8 DEF FiberInv

\* Back in sceFiberRun, thread t is in no fiber; the one it left is at rest,
\* suspended with its frames or ended without any.
LEMMA BackKeeps ==
  ASSUME Tame, FiberInv, NEW t \in Threads, NEW c \in Fibers, c = current[t],
         Called(t), BackInRun(t),
         \/ SaveContext(t, c) /\ entered' = entered
         \/ ~suspended[c] /\ entered' = entered \ {c} /\ UNCHANGED <<suspended, context, local>>
  PROVE  FiberInv'
<1>1. /\ state' = [state EXCEPT ![c] = "idle"]
      /\ current' = [current EXCEPT ![t] = NoFiber] /\ active' = [active EXCEPT ![t] = FALSE]
      /\ running' = [running EXCEPT ![t] = NoFiber] /\ caller' = Popped(t, caller)
  BY DEF BackInRun, FiberInv, TypeOK
<1>2. /\ running[t] = c /\ home[c] = t /\ c \in entered
      /\ \A u \in Threads : running[u] = c => u = t
  BY ValuesAssumption, InsideFiber
<1>3. home' = home /\ NoFiber \notin Fibers
  BY CalledTypes, ValuesAssumption DEF FiberInv
<1>4. /\ suspended' \in [Fibers -> BOOLEAN] /\ local' = local
      /\ context' \in [Fibers -> Fibers \cup {NoFiber}]
      /\ entered' \in SUBSET Fibers
      /\ \A g \in Fibers : suspended'[g] => context'[g] = g
      /\ \A g \in Fibers : g # c => suspended'[g] = suspended[g]
      /\ \A g \in Fibers : g # c => (g \in entered' <=> g \in entered)
      /\ c \in entered' <=> suspended'[c]
  <2>1. /\ suspended \in [Fibers -> BOOLEAN] /\ context \in [Fibers -> Fibers \cup {NoFiber}]
        /\ local \in [Fibers -> Threads] /\ local[c] = t /\ entered \in SUBSET Fibers
        /\ \A g \in Fibers : suspended[g] => context[g] = g
    BY <1>2 DEF FiberInv, TypeOK, OwnFrames
  <2>2. CASE SaveContext(t, c) /\ entered' = entered
    BY <1>2, <2>1, <2>2 DEF SaveContext
  <2>3. CASE ~suspended[c] /\ entered' = entered \ {c} /\ UNCHANGED <<suspended, context, local>>
    BY <2>1, <2>3
  <2>4. QED
    BY <2>2, <2>3
<1>5. TypeOK'
  <2>1. caller' \in [Fibers -> Threads \cup Fibers \cup {Nowhere}]
    BY <1>1 DEF Popped, FiberInv, TypeOK
  <2>2. \A g \in Fibers : suspended'[g] => context'[g] # NoFiber
    BY <1>3, <1>4
  <2>3. QED
    BY <1>1, <1>4, <2>1, <2>2, CalledTypes DEF FiberInv, TypeOK
<1>6. OwnFiber'
  BY <1>1, <1>2, <1>3 DEF FiberInv, TypeOK, OwnFiber
<1>7. OwnFrames'
  BY <1>1, <1>3, <1>4 DEF FiberInv, TypeOK, OwnFrames
<1>8. CallerWaits'
  <2>1. ASSUME NEW u \in Threads, NEW g \in Fibers, running'[u] = g, ~suspended'[g]
        PROVE  caller'[g] = u \/ (caller'[g] \in Fibers /\ home[caller'[g]] = u)
    <3>1. u # t /\ running[u] = g /\ g # c
      BY <1>1, <1>2, <1>3, <2>1 DEF FiberInv, TypeOK
    <3>2. caller[g] = u \/ (caller[g] \in Fibers /\ home[caller[g]] = u)
      BY <1>4, <2>1, <3>1 DEF FiberInv, CallerWaits
    <3>3. caller'[g] = caller[g]
      BY <1>1, <3>1, <3>2, ValuesAssumption DEF Popped, FramesOf
    <3>4. QED
      BY <3>2, <3>3
  <2>2. QED
    BY <1>3, <2>1 DEF CallerWaits
<1>9. QED
  BY <1>5, <1>6, <1>7, <1>8 DEF FiberInv

LEMMA ReturnToThreadKeeps ==
  ASSUME Tame, FiberInv, NEW t \in Threads, ReturnToThread(t)
  PROVE  FiberInv'
<1>1. current[t] \in Fibers
  BY InsideFiber DEF ReturnToThread
<1>2. QED
  BY <1>1, BackKeeps DEF ReturnToThread

\* An entry returns to whoever called it: to the thread, in either case.
LEMMA EntryReturnsKeeps ==
  ASSUME Tame, FiberInv, NEW t \in Threads, EntryReturns(t)
  PROVE  FiberInv'
<1> DEFINE c == running[t]
<1>1. /\ c \in Fibers /\ c = current[t] /\ ~suspended[c]
  BY InsideFiber DEF EntryReturns, Tame
<1>2. caller[c] = t \/ (caller[c] \in Fibers /\ local[caller[c]] = t)
  BY <1>1 DEF FiberInv, CallerWaits, OwnFrames
<1>3. /\ BackInRun(t) /\ Called(t) /\ entered' = entered \ {c}
      /\ UNCHANGED <<suspended, context, local>>
  BY <1>2 DEF EntryReturns
<1>4. QED
  BY <1>1, <1>3, BackKeeps

LEMMA StepKeeps == Tame /\ FiberInv /\ [Next]_vars => FiberInv'
<1>1. SUFFICES ASSUME Tame, FiberInv, [Next]_vars PROVE FiberInv'
  OBVIOUS
<1>2. ASSUME NEW t \in Threads, NEW f \in Fibers, Initialize(t, f) PROVE FiberInv'
  BY <1>1, <1>2, ResetKeeps DEF Initialize
<1>3. ASSUME NEW t \in Threads, NEW f \in Fibers, Finalize(t, f) PROVE FiberInv'
  BY <1>1, <1>3, ResetKeeps DEF Finalize
<1>4. ASSUME NEW t \in Threads, NEW f \in Fibers, Run(t, f) PROVE FiberInv'
  BY <1>1, <1>4, RunKeeps
<1>5. ASSUME NEW t \in Threads, NEW f \in Fibers, Switch(t, f) PROVE FiberInv'
  BY <1>1, <1>5, SwitchKeeps
<1>6. ASSUME NEW t \in Threads, ReturnToThread(t) PROVE FiberInv'
  BY <1>1, <1>6, ReturnToThreadKeeps
<1>7. ASSUME NEW t \in Threads, EntryReturns(t) PROVE FiberInv'
  BY <1>1, <1>7, EntryReturnsKeeps
<1>8. ASSUME UNCHANGED vars PROVE FiberInv'
  BY <1>1, <1>8 DEF vars, recordVars, threadVars, machineVars, FiberInv, TypeOK, OwnFiber,
                    OwnFrames, CallerWaits
<1>9. QED
  BY <1>1, <1>2, <1>3, <1>4, <1>5, <1>6, <1>7, <1>8 DEF Next

-----------------------------------------------------------------------------
\* The invariant holds for every tame guest.
THEOREM FiberInvHolds ==
  ASSUME Tame
  PROVE  Spec => []FiberInv
<1>1. Tame
  OBVIOUS
<1>2. FiberInv /\ [Next]_vars => FiberInv'
  BY <1>1, StepKeeps
<1>3. QED
  BY <1>2, InitHolds, PTL DEF Spec

\* Every variable has its type, and a suspended fiber has a context.
THEOREM FiberTypeCorrect ==
  ASSUME Tame
  PROVE  Spec => []TypeOK
<1>1. FiberInv => TypeOK
  BY DEF FiberInv
<1>2. QED
  BY <1>1, FiberInvHolds, PTL

\* What a thread's record says it runs is what it executes (ThreadFibers in
\* hle_fiber.cpp).
THEOREM RecordsAreRight ==
  ASSUME Tame
  PROVE  Spec => []CurrentIsRunning
<1>1. FiberInv => CurrentIsRunning
  BY DEF FiberInv, OwnFiber, CurrentIsRunning
<1>2. QED
  BY <1>1, FiberInvHolds, PTL

\* A fiber is in state Run exactly while one thread executes it.
THEOREM RunIsExecuted ==
  ASSUME Tame
  PROVE  Spec => []RunMeansRunning
<1>1. ASSUME FiberInv, NEW f \in Fibers
      PROVE  Cardinality({t \in Threads : running[t] = f})
               = (IF state[f] = "run" THEN 1 ELSE 0)
  <2>1. CASE state[f] = "run"
    <3>1. {t \in Threads : running[t] = f} = {home[f]}
      BY <1>1, <2>1 DEF FiberInv, TypeOK, OwnFiber
    <3>2. QED
      BY <2>1, <3>1, FS_Singleton
  <2>2. CASE state[f] # "run"
    <3>1. {t \in Threads : running[t] = f} = {}
      BY <1>1, <2>2 DEF FiberInv, OwnFiber
    <3>2. QED
      BY <2>2, <3>1, FS_EmptySet
  <2>3. QED
    BY <2>1, <2>2
<1>2. FiberInv => RunMeansRunning
  BY <1>1 DEF RunMeansRunning
<1>3. QED
  BY <1>2, FiberInvHolds, PTL

\* A fiber at rest is marked suspended exactly if it has frames, and then its
\* context resumes its own: a run never calls an entry on top of live frames.
THEOREM SuspendedIsEntered ==
  ASSUME Tame
  PROVE  Spec => []SuspendedMeansEntered
<1>1. FiberInv => SuspendedMeansEntered
  BY DEF FiberInv, OwnFrames, SuspendedMeansEntered
<1>2. QED
  BY <1>1, FiberInvHolds, PTL

\* The plain return of an entry is a return to the thread (the comment in
\* fiber_run_impl), which a guest that is not tame can refute.
THEOREM TameNeverStrands ==
  ASSUME Tame
  PROVE  Spec => []ReturnNeverStrands
<1>1. FiberInv => ReturnNeverStrands
  BY ValuesAssumption DEF FiberInv, TypeOK, OwnFiber, ReturnNeverStrands
<1>2. QED
  BY <1>1, FiberInvHolds, PTL
=============================================================================
