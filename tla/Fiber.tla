------------------------------- MODULE Fiber -------------------------------
(***************************************************************************)
(* The cooperative fibers of prosper (src/hle/hle_fiber.cpp).  A fiber's   *)
(* guest code runs on its own stack, on the thread that runs or switches   *)
(* to it; a handler leaves a fiber by saving a register context in its     *)
(* record and jumping to another one.  Beside the records, which each      *)
(* thread keeps of itself and the handlers keep of each fiber, the model   *)
(* has what the machine really does: whose code each thread executes, and  *)
(* which frames are on which stack.                                        *)
(*                                                                         *)
(* A frame saved with a context holds a local `thread': the record of the  *)
(* thread it was saved on.  Handlers are steps: the guest never hands one  *)
(* fiber to two threads at the same time.                                  *)
(***************************************************************************)
EXTENDS Naturals, FiniteSets

CONSTANTS
  Threads,
  Fibers,
  NoFiber,
  Nowhere,  \* a frame that is not on a stack any more
  Migrate,  \* fibers move between threads
  LateEnds, \* a fiber that has been suspended may return from its entry
  MaxCalls  \* bound: calls in all

ASSUME ValuesAssumption ==
  /\ NoFiber \notin Fibers \cup Threads /\ Nowhere \notin Fibers \cup Threads
  /\ NoFiber # Nowhere /\ Threads \cap Fibers = {}
ASSUME GuestAssumption ==
  Migrate \in BOOLEAN /\ LateEnds \in BOOLEAN /\ MaxCalls \in Nat

VARIABLES
  state,     \* GuestFiber::state ("none": no record in g_fibers)
  suspended, \* FiberRecord::suspended
  context,   \* FiberRecord::resume: the fiber whose code it resumes
  local,     \* the `thread' in the frame saved with it
  active, current, \* ThreadFibers of each thread
  running,   \* machine: the fiber whose code a thread executes, NoFiber for
             \* its own stack, Nowhere if it returned into a dead frame
  entered,   \* machine: fibers whose entry was called and did not return
  caller,    \* machine: who holds the frame that called the entry: a thread
             \* (in sceFiberRun) or a fiber (in sceFiberSwitch)
  home,      \* guest: the thread that keeps to a fiber when none migrates
  calls

recordVars == <<state, suspended, context, local>>
threadVars == <<active, current>>
machineVars == <<running, entered, caller>>
vars == <<recordVars, threadVars, machineVars, home, calls>>

Init ==
  /\ state = [f \in Fibers |-> "none"]
  /\ suspended = [f \in Fibers |-> FALSE]
  /\ context = [f \in Fibers |-> NoFiber]
  /\ local \in [Fibers -> Threads]
  /\ home = local
  /\ active = [t \in Threads |-> FALSE]
  /\ current = [t \in Threads |-> NoFiber]
  /\ running = [t \in Threads |-> NoFiber]
  /\ entered = {}
  /\ caller = [f \in Fibers |-> Nowhere]
  /\ calls = 0

Called(t) ==
  /\ running[t] # Nowhere
  /\ calls < MaxCalls
  /\ calls' = calls + 1
  /\ UNCHANGED home

\* The guest may hand fiber f to thread t.
Handed(f, t) == /\ Migrate \/ home[f] = t
                /\ \A u \in Threads : running[u] # f

(***************************************************************************)
(* fiber_initialize and fiber_finalize.                                    *)
(***************************************************************************)
Initialize(t, f) ==
  /\ Called(t)
  /\ Handed(f, t)
  /\ state' = [state EXCEPT ![f] = "idle"]
  /\ suspended' = [suspended EXCEPT ![f] = FALSE]
  /\ entered' = entered \ {f}
  /\ UNCHANGED <<context, local, threadVars, running, caller>>

Finalize(t, f) ==
  /\ Called(t)
  /\ state[f] = "idle"
  /\ Handed(f, t)
  /\ state' = [state EXCEPT ![f] = "none"]
  /\ suspended' = [suspended EXCEPT ![f] = FALSE]
  /\ entered' = entered \ {f}
  /\ UNCHANGED <<context, local, threadVars, running, caller>>

(***************************************************************************)
(* The transfers of control.                                               *)
(***************************************************************************)
\* The handler frames that x held when it called entries are popped.
FramesOf(x) == {g \in Fibers : caller[g] = x}
Popped(x, c) == [g \in Fibers |-> IF g \in FramesOf(x) THEN Nowhere ELSE c[g]]

\* Wrong variant: a context is saved and not marked so.
SaveUnmarked(t, c) ==
  /\ context' = [context EXCEPT ![c] = running[t]]
  /\ local' = [local EXCEPT ![c] = t]
  /\ UNCHANGED suspended

\* Wrong variant: a fiber is marked suspended and has no context.
MarkUnsaved(t, c) ==
  /\ suspended' = [suspended EXCEPT ![c] = TRUE]
  /\ local' = [local EXCEPT ![c] = t]
  /\ UNCHANGED context

\* Leave fiber c: its context is where thread t executes now.
SaveContext(t, c) ==
  /\ suspended' = [suspended EXCEPT ![c] = TRUE]
  /\ context' = [context EXCEPT ![c] = running[t]]
  /\ local' = [local EXCEPT ![c] = t]

\* Thread t goes into f, having made it current: it resumes f's context,
\* whose frame then makes f current on the thread of that frame, or it calls
\* f's entry from the handler's frame on by's stack.
GoInto(t, f, by) ==
  IF suspended[f]
  THEN /\ running' = [running EXCEPT ![t] = context[f]]
       /\ current' = [current EXCEPT ![t] = f, ![local[f]] = f]
       /\ caller' = Popped(context[f], caller)
       /\ UNCHANGED entered
  ELSE /\ running' = [running EXCEPT ![t] = f]
       /\ current' = [current EXCEPT ![t] = f]
       /\ caller' = [Popped(f, caller) EXCEPT ![f] = by]
       /\ entered' = entered \cup {f}

\* Wrong variant: back in sceFiberRun, the fiber stays in state Run.
BackInRunForgetful(t) ==
  /\ current' = [current EXCEPT ![t] = NoFiber]
  /\ active' = [active EXCEPT ![t] = FALSE]
  /\ running' = [running EXCEPT ![t] = NoFiber]
  /\ caller' = Popped(t, caller)
  /\ UNCHANGED state

\* The rest of fiber_run_impl on thread t, from either way back to it.
BackInRun(t) ==
  /\ state' = [f \in Fibers |-> IF f = current[t] THEN "idle" ELSE state[f]]
  /\ current' = [current EXCEPT ![t] = NoFiber]
  /\ active' = [active EXCEPT ![t] = FALSE]
  /\ running' = [running EXCEPT ![t] = NoFiber]
  /\ caller' = Popped(t, caller)

\* sceFiberRun.
Run(t, f) ==
  /\ Called(t)
  /\ state[f] # "none"
  /\ ~active[t]
  /\ Handed(f, t)
  /\ active' = [active EXCEPT ![t] = TRUE]
  /\ state' = [state EXCEPT ![f] = "run"]
  /\ GoInto(t, f, t)
  /\ UNCHANGED <<suspended, context, local>>

\* Wrong variant: the target of a switch is not made current.
SwitchUnrecorded(t, f) ==
  /\ Called(t)
  /\ active[t] /\ current[t] # NoFiber
  /\ f # current[t]
  /\ state[f] = "idle"
  /\ Handed(f, t)
  /\ ~suspended[f]
  /\ SaveContext(t, current[t])
  /\ state' = [state EXCEPT ![current[t]] = "idle", ![f] = "run"]
  /\ running' = [running EXCEPT ![t] = f]
  /\ caller' = [Popped(f, caller) EXCEPT ![f] = running[t]]
  /\ entered' = entered \cup {f}
  /\ UNCHANGED <<active, current>>

\* sceFiberSwitch.
Switch(t, f) ==
  /\ Called(t)
  /\ active[t] /\ current[t] # NoFiber
  /\ f # current[t]
  /\ state[f] = "idle"
  /\ Handed(f, t)
  /\ SaveContext(t, current[t])
  /\ state' = [state EXCEPT ![current[t]] = "idle", ![f] = "run"]
  /\ GoInto(t, f, running[t])
  /\ UNCHANGED active

\* sceFiberReturnToThread.
ReturnToThread(t) ==
  /\ Called(t)
  /\ active[t] /\ current[t] # NoFiber
  /\ SaveContext(t, current[t])
  /\ BackInRun(t)
  /\ UNCHANGED entered

\* The entry of the fiber that thread t executes returns, into the frame that
\* called it: sceFiberRun's, or that of sceFiberSwitch, which jumps to the
\* root context of its own `thread'.
EntryReturns(t) ==
  /\ Called(t)
  /\ running[t] \in Fibers
  /\ LateEnds \/ ~suspended[running[t]]
  /\ entered' = entered \ {running[t]}
  /\ LET c == caller[running[t]] IN
       IF c = t \/ (c \in Fibers /\ local[c] = t)
       THEN BackInRun(t)
       ELSE /\ running' = [running EXCEPT ![t] = Nowhere]
            /\ UNCHANGED <<state, threadVars, caller>>
  /\ UNCHANGED <<suspended, context, local>>

Next == \E t \in Threads :
  \/ \E f \in Fibers : Initialize(t, f) \/ Finalize(t, f) \/ Run(t, f) \/ Switch(t, f)
  \/ ReturnToThread(t) \/ EntryReturns(t)

Spec == Init /\ [][Next]_vars

(***************************************************************************)
(* Properties.                                                             *)
(***************************************************************************)
\* Every variable has its type, and a suspended fiber has a context.
TypeOK ==
  /\ state \in [Fibers -> {"none", "idle", "run"}]
  /\ suspended \in [Fibers -> BOOLEAN]
  /\ context \in [Fibers -> Fibers \cup {NoFiber}]
  /\ \A f \in Fibers : suspended[f] => context[f] # NoFiber
  /\ local \in [Fibers -> Threads]
  /\ active \in [Threads -> BOOLEAN]
  /\ current \in [Threads -> Fibers \cup {NoFiber}]
  /\ running \in [Threads -> Fibers \cup {NoFiber, Nowhere}]
  /\ entered \in SUBSET Fibers
  /\ caller \in [Fibers -> Threads \cup Fibers \cup {Nowhere}]
  /\ home \in [Fibers -> Threads]
  /\ calls \in 0 .. MaxCalls

\* What a thread's record says it runs is what it executes: sceFiberGetSelf
\* is right, and a fiber that leaves saves its own context in its own record.
CurrentIsRunning ==
  \A t \in Threads : /\ running[t] \in Fibers => current[t] = running[t]
                     /\ active[t] <=> running[t] # NoFiber

\* A fiber is in state Run exactly while a thread executes it, one thread.
RunMeansRunning ==
  \A f \in Fibers :
    Cardinality({t \in Threads : running[t] = f}) = (IF state[f] = "run" THEN 1 ELSE 0)

\* A fiber that is not being executed is marked suspended exactly if it has
\* frames on its stack: the next run resumes those, and never its entry on
\* top of them or a context whose frames are gone.
SuspendedMeansEntered ==
  \A f \in Fibers :
    state[f] = "idle" => /\ suspended[f] <=> f \in entered
                         /\ suspended[f] => context[f] = f

\* A plain return of an entry is a return to the thread: it cannot strand the
\* caller.  (The comment in fiber_run_impl.)
ReturnNeverStrands == \A t \in Threads : running[t] # Nowhere
=============================================================================
