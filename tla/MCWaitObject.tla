--------------------------- MODULE MCWaitObject ---------------------------
(***************************************************************************)
(* Instance of WaitObject for TLC: two bits, and waits for either of them, *)
(* for both, and for one to be consumed.                                   *)
(***************************************************************************)
EXTENDS WaitObject

CONSTANTS b1, b2

MCBits == {b1, b2}
MCMasks == {{b1}, {b1, b2}}
MCFlagRequests ==
  {[pattern |-> {b1}, all |-> TRUE, clear |-> "pattern"],
   [pattern |-> {b1, b2}, all |-> TRUE, clear |-> "none"],
   [pattern |-> {b1, b2}, all |-> FALSE, clear |-> "all"]}
MCNeeds == {1, 2}
=============================================================================
