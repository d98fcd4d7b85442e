----------------------------- MODULE AtomicStore -----------------------------
(***************************************************************************)
(* What the state store promises to everything above it: writes happen one *)
(* after the other, each on top of all the earlier ones, and each moves    *)
(* the revision by one.  StateStore implements this.                       *)
(***************************************************************************)
EXTENDS Integers

CONSTANT Update

VARIABLES
  contents,   \* the updates whose effects the stored state holds
  revision

vars == <<contents, revision>>

Init == contents = {} /\ revision = 0

Commit(u) ==
  /\ u \notin contents
  /\ contents' = contents \cup {u}
  /\ revision' = revision + 1

Next == \E u \in Update : Commit(u)

Spec == Init /\ [][Next]_vars
=============================================================================
