------------------------- MODULE MCOrderCommitment -------------------------
(* Small instances of OrderCommitment for TLC.                             *)
EXTENDS OrderCommitment, TLC

CONSTANTS o1, o2, p0, p1

Windows == {1, 2}

EmptyPlans == [p \in Plan |-> [w \in Window |-> 0]]

Message(o, v, due) ==
  [order |-> o, version |-> v, received |-> v, due |-> due, plan |-> p0]

\* Two orders, one of which is revised; one version comes with two contents.
Messages == {Message(o1, 1, 1), Message(o1, 1, 2), Message(o1, 2, 2), Message(o2, 1, 2)}

\* Two worlds, explored in one run.  In the first, plans are completed and
\* batches held or scheduled while no time passes; in the second there is one
\* plan and no order is revised, and snapshots arrive and age and a window begins.
VARIABLE world

Explored ==
  \/ world = "plans" /\ captured <= 1 /\ now = 0
  \/ /\ world = "time"
     /\ publication[p1] = "Unavailable" /\ \A d \in DecisionID : batch[d].version <= 1
     /\ \A i \in Made : evaluations[i].content \in {Message(o1, 1, 1), Message(o2, 1, 2)}

WorldInit == Init /\ world \in {"plans", "time"}
Explore == Next /\ UNCHANGED world /\ Explored'

Exploration == WorldInit /\ [][Explore]_<<vars, world>>

Symmetry == Permutations(DecisionID)
=============================================================================
