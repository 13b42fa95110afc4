----------------------------- MODULE MCSyncSlot -----------------------------
(***************************************************************************)
(* Instance of SyncSlot for TLC.  One kind stands for each combination of  *)
(* self-initialisation and busy check (a mutex behaves as a rwlock here).  *)
(* Threads and blocks are interchangeable.                                 *)
(***************************************************************************)
EXTENDS SyncSlot, TLC

MCKinds == {"rwlock", "cond", "sem", "barrier"}
Symmetry == Permutations(Threads) \cup Permutations(Objs)
=============================================================================
