---------------------------- MODULE MCCondSlots ----------------------------
(* Instance of CondSlots for TLC: threads and condvars are interchangeable. *)
EXTENDS CondSlots, TLC

Symmetry == Permutations(Threads) \cup Permutations(Conds)
=============================================================================
