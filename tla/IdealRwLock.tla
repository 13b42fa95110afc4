---------------------------- MODULE IdealRwLock ----------------------------
(***************************************************************************)
(* What POSIX promises of a reader/writer lock to callers that keep its    *)
(* rules.  The rule that matters here: an unlock is only ever made while   *)
(* there is a hold for it to release; any other is undefined, and in glibc *)
(* corrupts the lock (issue 2012).  A read hold has no owner: a fiber may  *)
(* release on one thread what it took on another.                          *)
(***************************************************************************)
EXTENDS Integers

CONSTANTS Threads, NoThread

VARIABLES
  readers,  \* read holds
  writer    \* the thread with the write hold

Init == readers = 0 /\ writer = NoThread

Read ==
  /\ writer = NoThread
  /\ readers' = readers + 1
  /\ UNCHANGED writer

Write(t) ==
  /\ writer = NoThread /\ readers = 0
  /\ writer' = t
  /\ UNCHANGED readers

ReadUnlock ==
  /\ readers > 0
  /\ readers' = readers - 1
  /\ UNCHANGED writer

WriteUnlock(t) ==
  /\ writer = t
  /\ writer' = NoThread
  /\ UNCHANGED readers

Next == Read \/ ReadUnlock \/ \E t \in Threads : Write(t) \/ WriteUnlock(t)

Spec == Init /\ [][Next]_<<readers, writer>>
=============================================================================
