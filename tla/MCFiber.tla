------------------------------ MODULE MCFiber ------------------------------
(* Instance of Fiber for TLC: threads and fibers are interchangeable. *)
EXTENDS Fiber, TLC

Symmetry == Permutations(Threads) \cup Permutations(Fibers)
=============================================================================
