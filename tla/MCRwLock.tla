------------------------------ MODULE MCRwLock ------------------------------
(***************************************************************************)
(* Instance of RwLock for TLC: three threads cover a stray unlock racing   *)
(* two balanced writers, the interleaving the source documents.            *)
(***************************************************************************)
EXTENDS RwLock
=============================================================================
