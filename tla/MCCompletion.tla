---------------------------- MODULE MCCompletion ----------------------------
(***************************************************************************)
(* Instance of Completion for TLC: the label is the second of two cells,   *)
(* so that a write of both covers it without beginning at it.              *)
(***************************************************************************)
EXTENDS Completion
=============================================================================
