--------------------------- MODULE OrderedWrites ---------------------------
(***************************************************************************)
(* What the guest may rely on when the GPU writes its memory: every write  *)
(* lands, and two writes to a common cell, one of them a completion label, *)
(* land in the order of their submission.  Writes that share no cell, and  *)
(* two plain writes, may land in either order.                             *)
(***************************************************************************)
EXTENDS Integers, Sequences

CONSTANTS Writes  \* the writes that may be submitted

VARIABLES
  issued,  \* the writes submitted so far, in order
  landed   \* those that reached memory, by their places in `issued'

\* The cells a write covers.
CellsOf(w) == w.base..(w.base + w.len - 1)

Ordered(v, w) == CellsOf(v) \cap CellsOf(w) # {} /\ (v.fence \/ w.fence)

Init == issued = <<>> /\ landed = {}

Issue(w) == issued' = Append(issued, w) /\ UNCHANGED landed

Land(i) ==
  /\ i \in DOMAIN issued \ landed
  /\ \A j \in 1..(i - 1) : Ordered(issued[j], issued[i]) => j \in landed
  /\ landed' = landed \cup {i}
  /\ UNCHANGED issued

Next ==
  \/ \E w \in Writes : Issue(w)
  \/ \E i \in DOMAIN issued : Land(i)

Spec == Init /\ [][Next]_<<issued, landed>>

=============================================================================
