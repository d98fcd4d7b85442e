--------------------------- MODULE OrderPromises ---------------------------
(***************************************************************************)
(* What the commitment of customer orders comes to: an order is promised   *)
(* at most once, and its window has room for it beside every other order   *)
(* that is promised there and not yet scheduled.  OrderCommitment          *)
(* implements this.                                                        *)
(***************************************************************************)
EXTENDS Integers, FiniteSets

CONSTANTS Order, Window, Capacity

VARIABLES
  window,   \* of each promised order; 0 for the others
  waiting   \* the promised orders that no plan has scheduled yet

Init == window = [o \in Order |-> 0] /\ waiting = {}

Promise(o, w) ==
  /\ window[o] = 0
  /\ Cardinality({p \in waiting : window[p] = w}) < Capacity
  /\ window' = [window EXCEPT ![o] = w]
  /\ waiting' = waiting \cup {o}

Schedule(os) == waiting' = waiting \ os /\ UNCHANGED window

Next ==
  \/ \E o \in Order, w \in Window : Promise(o, w)
  \/ \E os \in SUBSET waiting : Schedule(os)

Spec == Init /\ [][Next]_<<window, waiting>>
=============================================================================
