------------------------------ MODULE MCEqueue ------------------------------
(***************************************************************************)
(* Instance of Equeue for TLC: one address, so that a second queue must    *)
(* reuse it, and a cap of one, so that two keys overflow the queue.        *)
(***************************************************************************)
EXTENDS Equeue
=============================================================================
