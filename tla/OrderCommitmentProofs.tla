------------------------ MODULE OrderCommitmentProofs ------------------------
(* Theorems about OrderCommitment for every value of its constants.         *)
EXTENDS OrderCommitment, FiniteSetTheorems, SequenceTheorems, WellFoundedInduction, TLAPS

-----------------------------------------------------------------------------
(* The inductive invariant.                                                 *)

Statuses == {"Awaiting", "Superseded", "Accepted", "Rejected"}

MessageSpace == [order : Order, version : Nat, received : Nat, due : Window, plan : Plan]

EvaluationInv(e) ==
  /\ {"content", "checked", "chosen", "seen", "facts", "status", "decision"} \subseteq DOMAIN e
  /\ e.content \in MessageSpace /\ e.status \in Statuses
  /\ e.checked \in BOOLEAN /\ e.chosen \in Nat /\ e.seen \in Nat
  /\ e.facts.snapshot = IF e.checked THEN e.seen ELSE 0
  /\ e.status = "Accepted" => e.facts.window \in Window

ListInv ==
  /\ \E n \in Nat : DOMAIN evaluations = 1 .. n /\ evaluations = [i \in 1 .. n |-> evaluations[i]]
  /\ \A i \in Made : EvaluationInv(evaluations[i])

StateInv ==
  /\ captured \in Nat /\ expired \in Nat /\ now \in Nat
  /\ batch \in [DecisionID -> [status : {"Absent", "Active", "Held", "Converted"}, version : Nat]]
  /\ contains \in [Plan -> SUBSET Confirmed]

\* Each confirmed batch belongs to one acceptance, and no order has two of them.
LinkInv ==
  /\ \A i \in Accepted : evaluations[i].decision \in Confirmed
  /\ \A d \in Confirmed : \E i \in Accepted : evaluations[i].decision = d
  /\ \A i, j \in Accepted :
       \/ evaluations[i].decision = evaluations[j].decision
       \/ evaluations[i].content.order = evaluations[j].content.order
       => i = j

DecidableInv == OneDecidable /\ VersionsAdvance

IInv == ListInv /\ StateInv /\ LinkInv /\ DecidableInv /\ AllocatedWithinSupply

-----------------------------------------------------------------------------
(* Sets and lists.                                                          *)

LEMMA LeastNat ==
  ASSUME NEW S \in SUBSET Nat, S # {}
  PROVE  \E n \in S : \A m \in S : n <= m
  <1> DEFINE less == {p \in Nat \X Nat : p[1] < p[2]}
  <1>1. IsWellFoundedOn(less, Nat)
    BY NatLessThanWellFounded, Zenon DEF OpToRel
  <1>2. \E n \in S : \A m \in S : <<m, n>> \notin less
    BY <1>1, WFMin, Zenon
  <1>3. \A m, n \in Nat : <<m, n>> \notin less => n <= m
    OBVIOUS
  <1> QED  BY <1>2, <1>3

\* Of finitely many numbers one is the greatest: the one with fewest above it.
LEMMA Greatest ==
  ASSUME NEW S \in SUBSET Nat, IsFiniteSet(S), S # {}
  PROVE  Max(S) \in S
  <1> DEFINE above(v) == {u \in S : u > v}
             counts == {Cardinality(above(x)) : x \in S}
  <1>1. \A x \in S : IsFiniteSet(above(x)) /\ Cardinality(above(x)) \in Nat
    BY FS_Subset, FS_CardinalityType
  <1>2. counts \in SUBSET Nat /\ counts # {}
    BY <1>1
  <1>3. PICK x \in S : \A y \in S : Cardinality(above(x)) <= Cardinality(above(y))
    <2> HIDE DEF above
    <2>1. PICK n \in counts : \A m \in counts : n <= m
      BY <1>2, LeastNat
    <2> QED  BY <2>1
  <1>4. ASSUME NEW y \in S, y > x PROVE FALSE
    <2>1. above(y) \in SUBSET above(x) /\ y \in above(x) /\ y \notin above(y)
      <3>1. x \in Nat /\ y \in Nat /\ \A z \in S : z > y => z > x
        BY <1>4
      <3>2. ~(y > y)
        BY <3>1
      <3>3. above(y) \subseteq above(x)
        BY <3>1
      <3>4. y \in above(x) /\ y \notin above(y)
        BY <1>4, <3>2
      <3> QED  BY <3>3, <3>4
    <2> HIDE DEF above
    <2>2. Cardinality(above(y)) <= Cardinality(above(x)) /\ Cardinality(above(y)) # Cardinality(above(x))
      BY <1>1, <2>1, FS_Subset
    <2> QED  BY <1>1, <1>3, <2>2
  <1>5. \A y \in S : x >= y
    BY <1>4
  <1> QED  BY <1>5 DEF Max

LEMMA Smallest ==
  ASSUME NEW S \in SUBSET Nat, S # {}
  PROVE  Min(S) \in S
  BY LeastNat DEF Min

LEMMA AppendAtEnd ==
  ASSUME NEW n \in Nat, NEW s, DOMAIN s = 1 .. n, s = [i \in 1 .. n |-> s[i]], NEW e
  PROVE  /\ DOMAIN Append(s, e) = 1 .. (n + 1)
         /\ Append(s, e) = [i \in 1 .. (n + 1) |-> Append(s, e)[i]]
         /\ Append(s, e)[n + 1] = e
         /\ \A i \in 1 .. n : Append(s, e)[i] = s[i]
  <1> DEFINE all == {s[i] : i \in 1 .. n} \cup {e}
  <1>1. s \in Seq(all) /\ Len(s) = n
    BY SeqDef
  <1>2. e \in all
    OBVIOUS
  <1> HIDE DEF all
  <1>3. Append(s, e) \in Seq(all) /\ Len(Append(s, e)) = n + 1
    BY <1>1, <1>2, AppendProperties
  <1>4. DOMAIN Append(s, e) = 1 .. (n + 1) /\ Append(s, e) = [i \in 1 .. (n + 1) |-> Append(s, e)[i]]
    BY <1>3
  <1> QED  BY <1>1, <1>2, <1>4, AppendProperties

-----------------------------------------------------------------------------
(* Acceptances and their batches.                                           *)

Found ==
  \A d \in Confirmed :
    /\ AcceptanceOf(d) \in Accepted /\ evaluations[AcceptanceOf(d)].decision = d
    /\ \A i \in Accepted : evaluations[i].decision = d => i = AcceptanceOf(d)

LEMMA AcceptanceFound == LinkInv => Found
  <1> SUFFICES ASSUME LinkInv, NEW d \in Confirmed
               PROVE  /\ AcceptanceOf(d) \in Accepted /\ evaluations[AcceptanceOf(d)].decision = d
                      /\ \A i \in Accepted : evaluations[i].decision = d => i = AcceptanceOf(d)
    BY DEF Found
  <1>1. \E i \in Accepted : evaluations[i].decision = d
    BY DEF LinkInv
  <1>2. AcceptanceOf(d) \in Accepted /\ evaluations[AcceptanceOf(d)].decision = d
    BY <1>1 DEF AcceptanceOf
  <1> QED  BY <1>2 DEF LinkInv

\* An acceptance keeps its batch as long as it keeps itself.
LEMMA AcceptanceKept ==
  ASSUME LinkInv, LinkInv', Accepted \subseteq Accepted', Confirmed \subseteq Confirmed',
         \A i \in Accepted : evaluations'[i] = evaluations[i]
  PROVE  \A d \in Confirmed : AcceptanceOf(d)' = AcceptanceOf(d) /\ WindowOf(d)' = WindowOf(d)
  <1> SUFFICES ASSUME NEW d \in Confirmed
               PROVE  AcceptanceOf(d)' = AcceptanceOf(d) /\ WindowOf(d)' = WindowOf(d)
    OBVIOUS
  <1>1. AcceptanceOf(d) \in Accepted /\ evaluations[AcceptanceOf(d)].decision = d
    BY AcceptanceFound DEF Found
  <1>0. Found'
    BY AcceptanceFound, PTL
  <1>2. /\ AcceptanceOf(d)' \in Accepted' /\ evaluations'[AcceptanceOf(d)'].decision = d
        /\ \A i \in Accepted' : evaluations'[i].decision = d => i = AcceptanceOf(d)'
    BY <1>0 DEF Found
  <1>3. AcceptanceOf(d)' = AcceptanceOf(d)
    BY <1>1, <1>2
  <1> QED  BY <1>1, <1>3 DEF WindowOf

LEMMA ConfirmedFinite ==
  ASSUME ListInv, LinkInv
  PROVE  IsFiniteSet(Confirmed) /\ Cardinality(Confirmed) \in Nat
  <1>1. PICK n \in Nat : DOMAIN evaluations = 1 .. n
    BY DEF ListInv
  <1> DEFINE f == [d \in Confirmed |-> AcceptanceOf(d)]
  <1>2. f \in Injection(Confirmed, 1 .. n)
    BY <1>1, AcceptanceFound DEF Found, Injection, IsInjective, Accepted, Made
  <1>3. IsFiniteSet(1 .. n)
    BY FS_Interval
  <1>4. IsFiniteSet(Confirmed)
    BY <1>2, <1>3, FS_Injection
  <1> QED  BY <1>4, FS_CardinalityType

LEMMA AllocatedKept ==
  ASSUME LinkInv, LinkInv', Accepted \subseteq Accepted',
         \A i \in Accepted : evaluations'[i] = evaluations[i], Confirmed' = Confirmed
  PROVE  Allocated' = Allocated
  <1>1. \A d \in Confirmed : AcceptanceOf(d)' = AcceptanceOf(d) /\ AcceptanceOf(d) \in Accepted
    BY AcceptanceKept, AcceptanceFound DEF Found
  <1>2. \A d \in Confirmed :
          (evaluations[AcceptanceOf(d)].facts.material)' = evaluations[AcceptanceOf(d)].facts.material
    BY <1>1
  <1> QED  BY <1>2 DEF Allocated

-----------------------------------------------------------------------------
(* Evaluations are added.                                                   *)

LEMMA AddEffect ==
  ASSUME ListInv, NEW e, Add(e)
  PROVE  \E n \in Nat :
           /\ DOMAIN evaluations = 1 .. n /\ DOMAIN evaluations' = 1 .. (n + 1)
           /\ evaluations' = [i \in 1 .. (n + 1) |-> evaluations'[i]]
           /\ evaluations'[n + 1] = e
           /\ \A i \in 1 .. n :
                IF evaluations[i].content.order = e.content.order /\ evaluations[i].status = "Awaiting"
                THEN evaluations'[i] = [evaluations[i] EXCEPT !.status = "Superseded"]
                ELSE evaluations'[i] = evaluations[i]
  <1>1. PICK n \in Nat : DOMAIN evaluations = 1 .. n
    BY DEF ListInv
  <1> DEFINE rest == Superseding(e)
  <1>2. rest = [i \in 1 .. n |->
                  IF evaluations[i].content.order = e.content.order /\ evaluations[i].status = "Awaiting"
                  THEN [evaluations[i] EXCEPT !.status = "Superseded"] ELSE evaluations[i]]
    BY <1>1 DEF Superseding, Made, OfOrder
  <1>3. evaluations' = Append(rest, e)
    BY DEF Add
  <1> HIDE DEF rest
  <1>4. DOMAIN rest = 1 .. n /\ rest = [i \in 1 .. n |-> rest[i]]
    BY <1>2
  <1>5. /\ DOMAIN evaluations' = 1 .. (n + 1)
        /\ evaluations' = [i \in 1 .. (n + 1) |-> evaluations'[i]]
        /\ evaluations'[n + 1] = e /\ \A i \in 1 .. n : evaluations'[i] = rest[i]
    BY <1>3, <1>4, AppendAtEnd
  <1> QED  BY <1>1, <1>2, <1>5

\* Only what awaits a decision is touched, and nothing is accepted.
LEMMA AddKeeps ==
  ASSUME ListInv, NEW e, Add(e), e.status = "Awaiting"
  PROVE  /\ Accepted' = Accepted
         /\ \A i \in Made : evaluations[i].status # "Awaiting" => evaluations'[i] = evaluations[i]
  <1>1. PICK n \in Nat :
           /\ DOMAIN evaluations = 1 .. n /\ DOMAIN evaluations' = 1 .. (n + 1)
           /\ evaluations' = [i \in 1 .. (n + 1) |-> evaluations'[i]]
           /\ evaluations'[n + 1] = e
           /\ \A i \in 1 .. n :
                IF evaluations[i].content.order = e.content.order /\ evaluations[i].status = "Awaiting"
                THEN evaluations'[i] = [evaluations[i] EXCEPT !.status = "Superseded"]
                ELSE evaluations'[i] = evaluations[i]
    BY AddEffect
  <1>2. \A i \in 1 .. n : "status" \in DOMAIN evaluations[i]
    BY <1>1 DEF ListInv, Made, EvaluationInv
  <1>3. \A i \in 1 .. n : evaluations'[i].status = "Accepted" <=> evaluations[i].status = "Accepted"
    BY <1>1, <1>2
  <1>4. \A i : i \in 1 .. (n + 1) <=> i \in 1 .. n \/ i = n + 1
    OBVIOUS
  <1> QED  BY <1>1, <1>3, <1>4 DEF Accepted, Made

LEMMA AddStep ==
  ASSUME IInv, NEW e, Add(e), EvaluationInv(e), e.status = "Awaiting",
         \A i \in OfOrder(e.content.order) :
           evaluations[i].status # "Accepted" /\ ~Before(e.content, evaluations[i].content)
  PROVE  IInv'
  <1> USE DEF IInv
  <1>1. PICK n \in Nat :
           /\ DOMAIN evaluations = 1 .. n /\ DOMAIN evaluations' = 1 .. (n + 1)
           /\ evaluations' = [i \in 1 .. (n + 1) |-> evaluations'[i]]
           /\ evaluations'[n + 1] = e
           /\ \A i \in 1 .. n :
                IF evaluations[i].content.order = e.content.order /\ evaluations[i].status = "Awaiting"
                THEN evaluations'[i] = [evaluations[i] EXCEPT !.status = "Superseded"]
                ELSE evaluations'[i] = evaluations[i]
    BY AddEffect
  <1>2. \A i \in 1 .. n : EvaluationInv(evaluations[i])
    BY <1>1 DEF ListInv, Made
  <1>3. \A i \in 1 .. n :
          /\ EvaluationInv(evaluations'[i]) /\ evaluations'[i].content = evaluations[i].content
          /\ evaluations'[i].status =
               IF evaluations[i].content.order = e.content.order /\ evaluations[i].status = "Awaiting"
               THEN "Superseded" ELSE evaluations[i].status
    BY <1>1, <1>2 DEF EvaluationInv, Statuses
  <1>4. ListInv'
    <2>1. \E m \in Nat : /\ DOMAIN evaluations' = 1 .. m
                         /\ evaluations' = [i \in 1 .. m |-> evaluations'[i]]
      BY <1>1
    <2>2. \A i \in 1 .. (n + 1) : EvaluationInv(evaluations'[i])
      BY <1>1, <1>3
    <2>3. \A i \in Made' : EvaluationInv(evaluations'[i])
      BY <1>1, <2>2 DEF Made
    <2> QED  BY <2>1, <2>3 DEF ListInv, Made, EvaluationInv
  <1>5. Accepted' = Accepted /\ \A i \in Accepted : evaluations'[i] = evaluations[i]
    BY AddKeeps DEF Accepted
  <1>6. Confirmed' = Confirmed
    BY DEF Add, Confirmed, Batches!Absent
  <1>7. StateInv'
    BY <1>6 DEF Add, StateInv
  <1>8. LinkInv'
    BY <1>5, <1>6 DEF LinkInv
  <1>9. OneDecidable'
    <2> SUFFICES ASSUME NEW i \in 1 .. (n + 1), NEW j \in 1 .. (n + 1),
                        evaluations'[i].status = "Awaiting", i # j,
                        evaluations'[i].content.order = evaluations'[j].content.order
                 PROVE  j < i /\ evaluations'[j].status \in {"Superseded", "Rejected"}
      BY <1>1 DEF OneDecidable, Made
    <2>1. CASE i = n + 1
      <3>1. j \in 1 .. n /\ j < i /\ evaluations[j].content.order = e.content.order
        BY <1>1, <1>3, <2>1
      <3>2. evaluations[j].status # "Accepted" /\ evaluations[j].status \in Statuses
        BY <1>1, <1>2, <3>1 DEF OfOrder, Made, EvaluationInv
      <3> QED  BY <1>3, <3>1, <3>2 DEF Statuses
    <2>2. CASE i \in 1 .. n
      <3>1. evaluations[i].status = "Awaiting" /\ evaluations[i].content.order # e.content.order
        BY <1>3, <2>2
      <3>2. j \in 1 .. n
        BY <1>1, <1>3, <2>2, <3>1
      <3>3. evaluations[j].content.order = evaluations[i].content.order
        BY <1>3, <2>2, <3>2
      <3>4. j < i /\ evaluations[j].status \in {"Superseded", "Rejected"}
        BY <1>1, <2>2, <3>1, <3>2, <3>3 DEF DecidableInv, OneDecidable, Made
      <3> QED  BY <1>3, <3>2, <3>4
    <2> QED  BY <2>1, <2>2
  <1>10. VersionsAdvance'
    <2> SUFFICES ASSUME NEW i \in 1 .. (n + 1), NEW j \in 1 .. (n + 1), i < j,
                        evaluations'[i].content.order = evaluations'[j].content.order
                 PROVE  ~Before(evaluations'[j].content, evaluations'[i].content)
      BY <1>1 DEF VersionsAdvance, Made, Before
    <2>1. i \in 1 .. n /\ evaluations'[i].content = evaluations[i].content
      BY <1>3
    <2>2. CASE j = n + 1
      BY <1>1, <2>1, <2>2 DEF OfOrder, Made
    <2>3. CASE j \in 1 .. n
      BY <1>1, <1>3, <2>1, <2>3 DEF DecidableInv, VersionsAdvance, Made
    <2> QED  BY <2>2, <2>3
  <1>11. Allocated' = Allocated
    BY <1>5, <1>6, <1>8, AllocatedKept
  <1>12. AllocatedWithinSupply'
    BY <1>11 DEF AllocatedWithinSupply
  <1> QED  BY <1>4, <1>7, <1>8, <1>9, <1>10, <1>12 DEF DecidableInv

\* An evaluation as the handlers make it.
LEMMA EvaluationMade ==
  ASSUME StateInv, NEW c \in MessageSpace, NEW checked \in BOOLEAN, NEW chosen \in Nat
  PROVE  /\ EvaluationInv(Evaluation(c, checked, chosen))
         /\ Evaluation(c, checked, chosen).status = "Awaiting"
         /\ Evaluation(c, checked, chosen).content = c
  <1>1. Selected(chosen) \in Nat
    BY DEF Selected, StateInv
  <1>2. Facts(c, checked, Selected(chosen)).snapshot = IF checked THEN Selected(chosen) ELSE 0
    BY DEF Facts
  <1> QED  BY <1>1, <1>2 DEF Evaluation, EvaluationInv, Statuses

LEMMA IntakeStep ==
  ASSUME IInv, NEW c \in Content, NEW chosen \in 0 .. MaxSnapshots, Intake(c, chosen)
  PROVE  IInv'
  <1> DEFINE e == Evaluation(c, TRUE, chosen)
  <1>1. c \in MessageSpace /\ chosen \in Nat
    BY CommitmentAssumption DEF MessageSpace
  <1>2. EvaluationInv(e) /\ e.status = "Awaiting" /\ e.content = c
    BY <1>1, EvaluationMade DEF IInv
  <1>3. Add(e)
    BY DEF Intake
  <1>4. \A i \in OfOrder(c.order) :
          evaluations[i].status # "Accepted" /\ ~Before(c, evaluations[i].content)
    BY DEF Intake, New
  <1> HIDE DEF e
  <1> QED  BY <1>2, <1>3, <1>4, AddStep

LEMMA ReevaluateStep ==
  ASSUME IInv, NEW i \in Made, NEW p \in Plan, NEW checked \in BOOLEAN,
         NEW chosen \in 0 .. MaxSnapshots, Reevaluate(i, p, checked, chosen)
  PROVE  IInv'
  <1> DEFINE c == [evaluations[i].content EXCEPT !.plan = p]
             e == Evaluation(c, checked, chosen)
  <1>1. \A k \in Made : evaluations[k].content \in MessageSpace
    BY DEF IInv, ListInv, EvaluationInv
  <1>2. /\ c \in MessageSpace /\ chosen \in Nat /\ c.order = evaluations[i].content.order
        /\ c.received = evaluations[i].content.received /\ c.version = evaluations[i].content.version
    <2>1. evaluations[i].content \in MessageSpace
      BY <1>1
    <2>2. chosen \in Nat
      BY CommitmentAssumption
    <2> QED  BY <2>1, <2>2 DEF MessageSpace
  <1>3. Add(e) /\ evaluations[i].status = "Awaiting"
    BY DEF Reevaluate
  <1> HIDE DEF c
  <1>4. EvaluationInv(e) /\ e.status = "Awaiting" /\ e.content = c
    BY <1>2, EvaluationMade DEF IInv
  <1>5. ASSUME NEW k \in OfOrder(c.order)
        PROVE  evaluations[k].status # "Accepted" /\ ~Before(c, evaluations[k].content)
    <2>1. k \in Made /\ evaluations[k].content.order = evaluations[i].content.order
      BY <1>2 DEF OfOrder
    <2>2. CASE k = i
      BY <1>1, <1>2, <1>3, <2>2 DEF Before, MessageSpace
    <2>3. CASE k # i
      <3>1. k < i /\ evaluations[k].status \in {"Superseded", "Rejected"}
        BY <1>3, <2>1, <2>3 DEF IInv, DecidableInv, OneDecidable
      <3>2. ~Before(evaluations[i].content, evaluations[k].content)
        BY <2>1, <3>1 DEF IInv, DecidableInv, VersionsAdvance
      <3> QED  BY <1>2, <3>1, <3>2 DEF Before
    <2> QED  BY <2>2, <2>3
  <1> HIDE DEF e
  <1> QED  BY <1>3, <1>4, <1>5, AddStep

-----------------------------------------------------------------------------
(* Decisions.                                                               *)

LEMMA DecideEffect ==
  ASSUME ListInv, NEW i \in Made, NEW s, NEW d, Decide(i, s, d)
  PROVE  /\ Made' = Made
         /\ \A k \in Made \ {i} : evaluations'[k] = evaluations[k]
         /\ evaluations'[i] = [evaluations[i] EXCEPT !.status = s, !.decision = d]
         /\ evaluations'[i].status = s /\ evaluations'[i].decision = d
         /\ evaluations'[i].content = evaluations[i].content
         /\ evaluations'[i].facts = evaluations[i].facts
  <1>1. {"content", "facts", "status", "decision"} \subseteq DOMAIN evaluations[i]
    BY DEF ListInv, EvaluationInv
  <1>2. /\ Made' = Made
        /\ \A k \in Made \ {i} : evaluations'[k] = evaluations[k]
        /\ evaluations'[i] = [evaluations[i] EXCEPT !.status = s, !.decision = d]
    BY DEF Decide, Made
  <1> QED  BY <1>1, <1>2

\* A decision is on the one evaluation of its order that can be decided.
LEMMA DecideStep ==
  ASSUME ListInv, DecidableInv, NEW i \in Made, NEW s \in {"Accepted", "Rejected"}, NEW d,
         evaluations[i].status = "Awaiting", Decide(i, s, d),
         s = "Accepted" => evaluations[i].facts.window \in Window
  PROVE  ListInv' /\ DecidableInv'
  <1>1. /\ Made' = Made
        /\ \A k \in Made \ {i} : evaluations'[k] = evaluations[k]
        /\ evaluations'[i] = [evaluations[i] EXCEPT !.status = s, !.decision = d]
        /\ evaluations'[i].status = s /\ evaluations'[i].decision = d
        /\ evaluations'[i].content = evaluations[i].content
        /\ evaluations'[i].facts = evaluations[i].facts
    BY DecideEffect
  <1>2. EvaluationInv(evaluations'[i])
    <2>1. EvaluationInv(evaluations[i])
      BY DEF ListInv
    <2> QED  BY <1>1, <2>1 DEF EvaluationInv, Statuses
  <1>3. ListInv'
    <2>1. PICK n \in Nat : DOMAIN evaluations = 1 .. n /\ evaluations = [k \in 1 .. n |-> evaluations[k]]
      BY DEF ListInv
    <2>2. DOMAIN evaluations' = 1 .. n /\ evaluations' = [k \in 1 .. n |-> evaluations'[k]]
      BY <2>1 DEF Decide
    <2>3. \A k \in Made' : EvaluationInv(evaluations'[k])
      BY <1>1, <1>2 DEF ListInv
    <2> QED  BY <2>2, <2>3 DEF ListInv, Made, EvaluationInv
  <1>4. OneDecidable'
    <2> SUFFICES ASSUME NEW k \in Made, NEW j \in Made,
                        evaluations'[k].status = "Awaiting", k # j,
                        evaluations'[k].content.order = evaluations'[j].content.order
                 PROVE  j < k /\ evaluations'[j].status \in {"Superseded", "Rejected"}
      BY <1>1 DEF OneDecidable
    <2>1. k # i /\ evaluations'[k] = evaluations[k]
      BY <1>1
    <2>2. evaluations[j].content.order = evaluations[k].content.order
      BY <1>1, <2>1
    <2>3. j < k /\ evaluations[j].status \in {"Superseded", "Rejected"}
      BY <2>1, <2>2 DEF DecidableInv, OneDecidable
    <2> QED  BY <1>1, <2>3
  <1>5. \A k \in Made : evaluations'[k].content = evaluations[k].content
    BY <1>1
  <1>6. VersionsAdvance'
    BY <1>1, <1>5 DEF DecidableInv, VersionsAdvance, Before
  <1> QED  BY <1>3, <1>4, <1>6 DEF DecidableInv

LEMMA RejectStep ==
  ASSUME IInv, NEW i \in Made, NEW d \in DecisionID, Reject(i, d)
  PROVE  IInv'
  <1> USE DEF IInv
  <1>1. Decide(i, "Rejected", d) /\ evaluations[i].status = "Awaiting"
    BY DEF Reject
  <1>2. ListInv' /\ DecidableInv'
    BY <1>1, DecideStep
  <1>3. Accepted' = Accepted /\ \A k \in Accepted : evaluations'[k] = evaluations[k]
    <2>1. /\ Made' = Made /\ \A k \in Made \ {i} : evaluations'[k] = evaluations[k]
          /\ evaluations'[i].status = "Rejected"
      BY <1>1, DecideEffect
    <2> QED  BY <1>1, <2>1 DEF Accepted
  <1>4. Confirmed' = Confirmed
    BY DEF Reject, Confirmed, Batches!Absent
  <1>5. StateInv'
    BY <1>4 DEF Reject, StateInv
  <1>6. LinkInv'
    BY <1>3, <1>4 DEF LinkInv
  <1>7. AllocatedWithinSupply'
    BY <1>3, <1>4, <1>6, AllocatedKept DEF AllocatedWithinSupply
  <1> QED  BY <1>2, <1>5, <1>6, <1>7

\* What an acceptance found is so now: a window ahead with room, and material.
LEMMA FoundNow ==
  ASSUME StateInv, NEW e, EvaluationInv(e), Current(e), Acceptable(e)
  PROVE  /\ e.facts.window \in Window /\ Fits(e.content.plan, e.facts.window)
         /\ now < e.facts.window
         /\ e.facts.material = "Feasible" => Cardinality(Allocated) + 1 <= Supply
         /\ e.checked => expired < e.seen /\ (e.chosen = 0 => e.seen = captured)
  <1> DEFINE found == CapacityFacts(e.content)
  <1>1. Facts(e.content, e.checked, Selected(e.chosen)) = e.facts
    BY DEF Current
  <1>2. /\ e.facts.capacity = found.capacity /\ e.facts.window = found.window
        /\ e.facts.material = MaterialStatus(e.checked, Selected(e.chosen))
        /\ e.facts.snapshot = IF e.checked THEN Selected(e.chosen) ELSE 0
    BY <1>1 DEF Facts
  <1>3. /\ e.facts.capacity \in {"OnTime", "LaterSafeDate"}
        /\ e.facts.material \in {"Feasible", "SkippedPendingConfirmation"}
    BY DEF Acceptable
  <1>4. e.facts.window \in Window /\ Fits(e.content.plan, e.facts.window)
    <2> DEFINE onTime == {w \in InTime(e.content) : Fits(e.content.plan, w)}
               later == {w \in Ahead : Fits(e.content.plan, w)}
    <2>1. onTime \subseteq Window /\ later \subseteq Window
      BY DEF InTime, Ahead
    <2>2. onTime \in SUBSET Nat /\ later \in SUBSET Nat /\ IsFiniteSet(onTime)
      BY <2>1, CommitmentAssumption, FS_Subset
    <2>3. found = CASE onTime # {} ->
                         [capacity |-> "OnTime", window |-> Max(onTime), considered |-> InTime(e.content)]
                    [] onTime = {} /\ later # {} ->
                         [capacity |-> "LaterSafeDate", window |-> Min(later), considered |-> Ahead]
                    [] OTHER -> [capacity |-> "NotAssessable", window |-> 0, considered |-> Ahead]
      BY DEF CapacityFacts
    <2> HIDE DEF found
    <2>4. CASE onTime # {}
      <3>1. Max(onTime) \in onTime
        BY <2>2, <2>4, Greatest
      <3>2. e.facts.window = Max(onTime)
        BY <1>2, <2>3, <2>4
      <3> QED  BY <2>1, <3>1, <3>2
    <2>5. CASE onTime = {} /\ later # {}
      <3>1. Min(later) \in later
        BY <2>2, <2>5, Smallest
      <3>2. e.facts.window = Min(later)
        BY <1>2, <2>3, <2>5
      <3> QED  BY <2>1, <3>1, <3>2
    <2>6. CASE onTime = {} /\ later = {}
      <3>1. found.capacity = "NotAssessable"
        BY <2>3, <2>6
      <3> QED  BY <1>2, <1>3, <3>1
    <2> QED  BY <2>4, <2>5, <2>6
  <1>5. e.facts.material = "Feasible" => Cardinality(Allocated) + 1 <= Supply
    BY <1>2 DEF MaterialStatus
  <1>6. ASSUME e.checked PROVE expired < e.seen /\ (e.chosen = 0 => e.seen = captured)
    <2>1. e.seen = Selected(e.chosen) /\ e.seen \in Nat /\ expired \in Nat
      BY <1>2, <1>6 DEF EvaluationInv, StateInv
    <2>2. ~(e.seen <= expired)
      BY <1>2, <1>3, <1>6, <2>1 DEF MaterialStatus
    <2> QED  BY <2>1, <2>2 DEF Selected
  <1> QED  BY <1>4, <1>5, <1>6 DEF Current

LEMMA AcceptStep ==
  ASSUME IInv, NEW i \in Made, NEW d \in DecisionID, Accept(i, d)
  PROVE  IInv'
  <1> USE DEF IInv
  <1>1. /\ Decide(i, "Accepted", d) /\ evaluations[i].status = "Awaiting"
        /\ Accepted \cap OfOrder(evaluations[i].content.order) = {}
        /\ Batches!Confirm(d)
    BY DEF Accept, Confirm
  <1>2. /\ evaluations[i].facts.window \in Window
        /\ evaluations[i].facts.material = "Feasible" => Cardinality(Allocated) + 1 <= Supply
    BY FoundNow DEF Accept, ListInv
  <1>3. ListInv' /\ DecidableInv'
    BY <1>1, <1>2, DecideStep
  <1>4. /\ Accepted' = Accepted \cup {i} /\ i \notin Accepted
        /\ \A k \in Accepted : evaluations'[k] = evaluations[k]
        /\ evaluations'[i].decision = d /\ evaluations'[i].content = evaluations[i].content
        /\ evaluations'[i].facts = evaluations[i].facts
    BY <1>1, DecideEffect DEF Accepted
  <1>5. d \notin Confirmed /\ Confirmed' = Confirmed \cup {d}
    <2>1. /\ batch[d] = Batches!Absent
          /\ batch' = [batch EXCEPT ![d] = [status |-> "Active", version |-> 1]]
      BY <1>1 DEF Batches!Confirm
    <2>2. DOMAIN batch = DecisionID
      BY DEF StateInv
    <2>3. [status |-> "Active", version |-> 1] # Batches!Absent
      BY DEF Batches!Absent
    <2> QED  BY <2>1, <2>2, <2>3 DEF Confirmed, Batches!Absent
  <1>6. StateInv'
    BY <1>1, <1>5 DEF Accept, StateInv, Batches!Confirm
  <1>7. LinkInv'
    <2>1. \A k \in Accepted : /\ evaluations[k].decision # d
                              /\ evaluations[k].content.order # evaluations[i].content.order
      BY <1>1, <1>5 DEF LinkInv, OfOrder, Accepted
    <2>2. \A k, j \in Accepted' :
            \/ evaluations'[k].decision = evaluations'[j].decision
            \/ evaluations'[k].content.order = evaluations'[j].content.order
            => k = j
      BY <1>4, <2>1 DEF LinkInv
    <2>3. \A k \in Accepted' : evaluations'[k].decision \in Confirmed'
      BY <1>4, <1>5 DEF LinkInv
    <2>4. \A c \in Confirmed' : \E k \in Accepted' : evaluations'[k].decision = c
      BY <1>4, <1>5 DEF LinkInv
    <2> QED  BY <2>2, <2>3, <2>4 DEF LinkInv
  <1>8. AllocatedWithinSupply'
    <2>1. /\ \A c \in Confirmed : AcceptanceOf(c)' = AcceptanceOf(c) /\ AcceptanceOf(c) \in Accepted
          /\ Found'
      <3>1. Found'
        BY <1>7, AcceptanceFound, PTL
      <3> QED  BY <1>4, <1>5, <1>7, <3>1, AcceptanceKept, AcceptanceFound DEF Found
    <2>2. AcceptanceOf(d)' = i
      BY <1>4, <1>5, <2>1 DEF Found
    <2>3. \A c \in Confirmed :
            evaluations'[AcceptanceOf(c)'].facts.material = evaluations[AcceptanceOf(c)].facts.material
      BY <1>4, <2>1
    <2>4. Allocated' = Allocated \cup
                       (IF evaluations[i].facts.material = "Feasible" THEN {d} ELSE {})
      BY <1>4, <1>5, <2>2, <2>3 DEF Allocated
    <2>5. IsFiniteSet(Allocated) /\ d \notin Allocated
      BY <1>5, ConfirmedFinite, FS_Subset DEF Allocated
    <2>6. CASE evaluations[i].facts.material = "Feasible"
      <3>1. Allocated' = Allocated \cup {d}
        BY <2>4, <2>6
      <3>2. Cardinality(Allocated \cup {d}) = Cardinality(Allocated) + 1
        BY <2>5, FS_AddElement
      <3> QED  BY <1>2, <2>6, <3>1, <3>2 DEF AllocatedWithinSupply
    <2>7. CASE evaluations[i].facts.material # "Feasible"
      BY <2>4, <2>7 DEF AllocatedWithinSupply
    <2> QED  BY <2>6, <2>7
  <1> QED  BY <1>3, <1>6, <1>7, <1>8

-----------------------------------------------------------------------------
(* Steps that decide nothing.                                               *)

LEMMA QuietStep ==
  ASSUME IInv, UNCHANGED evaluations, Confirmed' = Confirmed, StateInv'
  PROVE  IInv'
  <1> USE DEF IInv
  <1>1. Accepted' = Accepted /\ Made' = Made
    BY DEF Accepted, Made
  <1>2. ListInv'
    BY <1>1 DEF ListInv, EvaluationInv
  <1>3. LinkInv'
    BY <1>1 DEF LinkInv
  <1>4. DecidableInv'
    BY <1>1 DEF DecidableInv, OneDecidable, VersionsAdvance, Before
  <1>5. AllocatedWithinSupply'
    BY <1>1, <1>3, AllocatedKept DEF AllocatedWithinSupply
  <1> QED  BY <1>2, <1>3, <1>4, <1>5

\* Runs move batches that are confirmed, and they stay so.
LEMMA MoveEffect ==
  ASSUME StateInv, NEW bs \in SUBSET DecisionID, NEW s, Batches!Move(bs, s)
  PROVE  /\ Confirmed' = Confirmed /\ bs \subseteq Confirmed
         /\ batch' \in [DecisionID -> [status : {"Absent", "Active", "Held", "Converted"}, version : Nat]]
         /\ \A d \in DecisionID : Batches!Pending(d)' => Batches!Pending(d)
  <1>1. /\ \A b \in bs : batch[b].status \in {"Active", "Held"}
        /\ s \in {"Held", "Converted"}
        /\ batch' = [b \in DecisionID |->
             IF b \in bs THEN [status |-> s, version |-> batch[b].version + 1] ELSE batch[b]]
    BY DEF Batches!Move, Batches!Pending
  <1>2. \A b \in bs : batch[b] # Batches!Absent /\ batch'[b] # Batches!Absent
    BY <1>1 DEF Batches!Absent
  <1>3. Confirmed' = Confirmed /\ bs \subseteq Confirmed
    BY <1>1, <1>2 DEF Confirmed, Batches!Absent
  <1>4. batch' \in [DecisionID -> [status : {"Absent", "Active", "Held", "Converted"}, version : Nat]]
    BY <1>1 DEF StateInv
  <1> QED  BY <1>1, <1>3, <1>4 DEF Batches!Pending

LEMMA HoldStep ==
  ASSUME IInv, NEW bs \in SUBSET DecisionID, Hold(bs)
  PROVE  IInv'
  <1>1. Confirmed' = Confirmed /\ StateInv'
    BY MoveEffect DEF Hold, IInv, StateInv
  <1> QED  BY <1>1, QuietStep DEF Hold

LEMMA CompleteStep ==
  ASSUME IInv, NEW bs \in SUBSET DecisionID, NEW p \in Plan, Complete(bs, p)
  PROVE  IInv'
  <1>1. PICK before \in SUBSET {d \in DecisionID : batch[d].status = "Converted"} :
          contains' = [contains EXCEPT ![p] = bs \cup before]
    BY DEF Complete
  <1>2. before \subseteq Confirmed
    BY <1>1 DEF Confirmed, Batches!Absent
  <1>3. /\ Confirmed' = Confirmed /\ bs \subseteq Confirmed
        /\ batch' \in [DecisionID -> [status : {"Absent", "Active", "Held", "Converted"}, version : Nat]]
    BY MoveEffect DEF Complete, IInv
  <1>4. StateInv'
    BY <1>1, <1>2, <1>3 DEF Complete, IInv, StateInv
  <1> QED  BY <1>3, <1>4, QuietStep DEF Complete

LEMMA WorldStep ==
  ASSUME IInv, \/ \E p \in Plan : Approve(p) \/ Retire(p)
               \/ Capture \/ Expire \/ Tick \/ UNCHANGED vars
  PROVE  IInv'
  <1>1. UNCHANGED <<evaluations, batch, contains>>
    BY DEF Approve, Retire, Capture, Expire, Tick, vars
  <1>2. Confirmed' = Confirmed
    BY <1>1 DEF Confirmed, Batches!Absent
  <1>3. captured' \in Nat /\ expired' \in Nat /\ now' \in Nat
    BY DEF Approve, Retire, Capture, Expire, Tick, vars, IInv, StateInv
  <1>4. StateInv'
    BY <1>1, <1>2, <1>3 DEF IInv, StateInv
  <1> QED  BY <1>1, <1>2, <1>4, QuietStep

-----------------------------------------------------------------------------
(* The invariant.                                                           *)

LEMMA Initially == Init => IInv
  <1> SUFFICES ASSUME Init PROVE IInv
    OBVIOUS
  <1>1. Made = {} /\ Accepted = {} /\ Confirmed = {} /\ evaluations = <<>>
    BY DEF Init, Made, Accepted, Confirmed, Batches!Init, Batches!Absent
  <1>2. ListInv
    <2>1. DOMAIN evaluations = 1 .. 0 /\ evaluations = [i \in 1 .. 0 |-> evaluations[i]]
      BY <1>1
    <2> QED  BY <1>1, <2>1 DEF ListInv
  <1>3. StateInv
    BY DEF StateInv, Init, Batches!Init, Batches!Absent
  <1>4. LinkInv /\ DecidableInv
    BY <1>1 DEF LinkInv, DecidableInv, OneDecidable, VersionsAdvance
  <1>5. AllocatedWithinSupply
    BY <1>1, FS_EmptySet, CommitmentAssumption DEF AllocatedWithinSupply, Allocated
  <1> QED  BY <1>2, <1>3, <1>4, <1>5 DEF IInv

LEMMA Inductive == IInv /\ [Next]_vars => IInv'
  <1> SUFFICES ASSUME IInv, [Next]_vars PROVE IInv'
    OBVIOUS
  <1>1. CASE \E c \in Content, chosen \in 0 .. MaxSnapshots : Intake(c, chosen)
    BY <1>1, IntakeStep
  <1>2. CASE \E i \in Made, p \in Plan, checked \in BOOLEAN, chosen \in 0 .. MaxSnapshots :
               Reevaluate(i, p, checked, chosen)
    BY <1>2, ReevaluateStep
  <1>3. CASE \E i \in Made, d \in DecisionID : Accept(i, d) \/ Reject(i, d)
    BY <1>3, AcceptStep, RejectStep
  <1>4. CASE \E bs \in SUBSET DecisionID : Hold(bs) \/ \E p \in Plan : Complete(bs, p)
    BY <1>4, HoldStep, CompleteStep
  <1>5. CASE \/ \E p \in Plan : Approve(p) \/ Retire(p)
             \/ Capture \/ Expire \/ Tick \/ UNCHANGED vars
    BY <1>5, WorldStep
  <1> QED  BY <1>1, <1>2, <1>3, <1>4, <1>5 DEF Next

\* The invariant holds in every behaviour of OrderCommitment.
THEOREM InvariantHolds == Spec => []IInv
  <1>1. Init => IInv
    BY Initially
  <1>2. IInv /\ [Next]_vars => IInv'
    BY Inductive
  <1> QED  BY <1>1, <1>2, PTL DEF Spec

\* However messages about orders come, are repeated and change, one evaluation
\* at most of an order can be decided, of its latest version, and every batch
\* was confirmed for one order.
THEOREM NoDoubtWhatIsDecided == Spec => []DecisionsUnambiguous
  <1>1. LinkInv => OneOrderPerBatch
    BY DEF LinkInv, OneOrderPerBatch
  <1>2. IInv => DecisionsUnambiguous
    BY <1>1 DEF IInv, DecidableInv, DecisionsUnambiguous
  <1> QED  BY <1>2, InvariantHolds, PTL

\* Material is never allocated twice: the acceptances there are need no more
\* than the supply, whatever was evaluated on which snapshot and when.
THEOREM MaterialSuffices == Spec => []AllocatedWithinSupply
  <1>1. IInv => AllocatedWithinSupply
    BY DEF IInv
  <1> QED  BY <1>1, InvariantHolds, PTL

-----------------------------------------------------------------------------
(* What a step may do to evaluations.                                       *)

\* Apart from acceptances, a step leaves the accepted evaluations as they are,
\* and only touches others that await a decision.
LEMMA OtherSteps ==
  ASSUME IInv, [Next]_vars, ~\E i \in Made, d \in DecisionID : Accept(i, d)
  PROVE  /\ Accepted' = Accepted
         /\ \A i \in Made : evaluations[i].status # "Awaiting" => evaluations'[i] = evaluations[i]
  <1> USE DEF IInv
  <1>1. ASSUME NEW c \in Content, NEW chosen \in 0 .. MaxSnapshots, Intake(c, chosen)
        PROVE  /\ Accepted' = Accepted
               /\ \A i \in Made : evaluations[i].status # "Awaiting" => evaluations'[i] = evaluations[i]
    BY <1>1, AddKeeps DEF Intake, Evaluation
  <1>2. ASSUME NEW i \in Made, NEW p \in Plan, NEW checked \in BOOLEAN,
               NEW chosen \in 0 .. MaxSnapshots, Reevaluate(i, p, checked, chosen)
        PROVE  /\ Accepted' = Accepted
               /\ \A k \in Made : evaluations[k].status # "Awaiting" => evaluations'[k] = evaluations[k]
    BY <1>2, AddKeeps DEF Reevaluate, Evaluation
  <1>3. ASSUME NEW i \in Made, NEW d \in DecisionID, Reject(i, d)
        PROVE  /\ Accepted' = Accepted
               /\ \A k \in Made : evaluations[k].status # "Awaiting" => evaluations'[k] = evaluations[k]
    <2>1. Decide(i, "Rejected", d) /\ evaluations[i].status = "Awaiting"
      BY <1>3 DEF Reject
    <2>2. /\ Made' = Made /\ \A k \in Made \ {i} : evaluations'[k] = evaluations[k]
          /\ evaluations'[i].status = "Rejected"
      BY <2>1, DecideEffect
    <2> QED  BY <2>1, <2>2 DEF Accepted
  <1>4. ASSUME UNCHANGED evaluations
        PROVE  /\ Accepted' = Accepted
               /\ \A i \in Made : evaluations[i].status # "Awaiting" => evaluations'[i] = evaluations[i]
    BY <1>4 DEF Accepted, Made
  <1>5. CASE \/ \E bs \in SUBSET DecisionID : Hold(bs) \/ \E p \in Plan : Complete(bs, p)
             \/ \E p \in Plan : Approve(p) \/ Retire(p)
             \/ Capture \/ Expire \/ Tick \/ UNCHANGED vars
    BY <1>4, <1>5 DEF Hold, Complete, Approve, Retire, Capture, Expire, Tick, vars
  <1> QED  BY <1>1, <1>2, <1>3, <1>5 DEF Next

\* An acceptance adds one accepted evaluation, the one that awaited it.
LEMMA AcceptEffect ==
  ASSUME IInv, NEW i \in Made, NEW d \in DecisionID, Accept(i, d)
  PROVE  /\ Accepted' = Accepted \cup {i} /\ i \notin Accepted
         /\ evaluations[i].status = "Awaiting"
         /\ \A k \in Made \ {i} : evaluations'[k] = evaluations[k]
         /\ evaluations'[i].decision = d /\ evaluations'[i].content = evaluations[i].content
         /\ evaluations'[i].facts = evaluations[i].facts
  <1>1. Decide(i, "Accepted", d) /\ evaluations[i].status = "Awaiting"
    BY DEF Accept
  <1>2. /\ Made' = Made /\ \A k \in Made \ {i} : evaluations'[k] = evaluations[k]
        /\ evaluations'[i].status = "Accepted" /\ evaluations'[i].decision = d
        /\ evaluations'[i].content = evaluations[i].content
        /\ evaluations'[i].facts = evaluations[i].facts
    BY <1>1, DecideEffect DEF IInv
  <1> QED  BY <1>1, <1>2 DEF Accepted

\* No late message, repeated decision or new evaluation touches an evaluation
\* that was decided or superseded.
THEOREM DecidedStaysDecided == Spec => DecisionsAreFinal
  <1>1. IInv /\ [Next]_vars =>
          [\A i \in Made : evaluations[i].status # "Awaiting" => evaluations'[i] = evaluations[i]]_vars
    <2> SUFFICES ASSUME IInv, [Next]_vars, NEW i \in Made, evaluations[i].status # "Awaiting"
                 PROVE  evaluations'[i] = evaluations[i]
      OBVIOUS
    <2>1. CASE \E k \in Made, d \in DecisionID : Accept(k, d)
      BY <2>1, AcceptEffect
    <2>2. CASE ~\E k \in Made, d \in DecisionID : Accept(k, d)
      BY <2>2, OtherSteps
    <2> QED  BY <2>1, <2>2
  <1> QED  BY <1>1, InvariantHolds, PTL DEF Spec, DecisionsAreFinal

\* An order is only accepted into a window that lies ahead and on a snapshot
\* that is not too old and, unless it was chosen, still the latest.
THEOREM EvidenceIsValid == Spec => AcceptedOnValidEvidence
  <1> DEFINE Valid(i) == LET e == evaluations[i]
                         IN  /\ now < e.facts.window
                             /\ e.checked => expired < e.seen /\ (e.chosen = 0 => e.seen = captured)
  <1>1. IInv /\ [Next]_vars => [\A i \in Accepted' \ Accepted : Valid(i)]_vars
    <2> SUFFICES ASSUME IInv, [Next]_vars, NEW i \in Accepted' \ Accepted
                 PROVE  Valid(i)
      OBVIOUS
    <2>1. CASE \E k \in Made, d \in DecisionID : Accept(k, d)
      <3>1. PICK k \in Made, d \in DecisionID : Accept(k, d)
        BY <2>1
      <3>2. i = k
        BY <3>1, AcceptEffect
      <3>3. EvaluationInv(evaluations[k]) /\ Current(evaluations[k]) /\ Acceptable(evaluations[k])
        BY <3>1 DEF Accept, IInv, ListInv
      <3> QED  BY <3>2, <3>3, FoundNow DEF IInv
    <2>2. CASE ~\E k \in Made, d \in DecisionID : Accept(k, d)
      BY <2>2, OtherSteps
    <2> QED  BY <2>1, <2>2
  <1> QED  BY <1>1, InvariantHolds, PTL DEF Spec, AcceptedOnValidEvidence

-----------------------------------------------------------------------------
(* The promises made to customers.                                          *)

PromisedWindow ==
  [o \in Order |->
    IF PromiseOf(o) = {} THEN 0
    ELSE evaluations[CHOOSE i \in PromiseOf(o) : TRUE].facts.window]

PromisedWaiting ==
  {o \in Order : \E i \in PromiseOf(o) : Batches!Pending(evaluations[i].decision)}

\* The promise of an order is its only accepted evaluation.
LEMMA OnePromise ==
  ASSUME LinkInv, NEW i \in Accepted
  PROVE  /\ PromiseOf(evaluations[i].content.order) = {i}
         /\ \A o \in Order : i \in PromiseOf(o) =>
              /\ PromiseOf(o) = {i} /\ PromisedWindow[o] = evaluations[i].facts.window
  <1>1. PromiseOf(evaluations[i].content.order) = {i}
    BY DEF LinkInv, PromiseOf
  <1>2. ASSUME NEW o \in Order, i \in PromiseOf(o)
        PROVE  PromiseOf(o) = {i} /\ PromisedWindow[o] = evaluations[i].facts.window
    <2>1. PromiseOf(o) = {i}
      BY <1>1, <1>2 DEF PromiseOf
    <2>2. (CHOOSE k \in PromiseOf(o) : TRUE) = i
      BY <2>1
    <2> QED  BY <2>1, <2>2 DEF PromisedWindow
  <1> QED  BY <1>1, <1>2

\* Other steps make no promise and take none back.
LEMMA PromisesKept ==
  ASSUME IInv, [Next]_vars, ~\E i \in Made, d \in DecisionID : Accept(i, d)
  PROVE  PromisedWindow' = PromisedWindow /\ PromisedWaiting' \subseteq PromisedWaiting
  <1> USE DEF IInv
  <1>1. Accepted' = Accepted /\ \A i \in Accepted : evaluations'[i] = evaluations[i]
    BY OtherSteps DEF Accepted
  <1>2. \A d \in DecisionID : Batches!Pending(d)' => Batches!Pending(d)
    <2>1. CASE UNCHANGED batch
      BY <2>1 DEF Batches!Pending
    <2>2. CASE \E bs \in SUBSET DecisionID, s \in {"Held", "Converted"} : Batches!Move(bs, s)
      BY <2>2, MoveEffect
    <2>3. \/ UNCHANGED batch
          \/ \E bs \in SUBSET DecisionID, s \in {"Held", "Converted"} : Batches!Move(bs, s)
      BY DEF Next, vars, Intake, Reevaluate, Add, Reject, Hold, Complete, Approve, Retire,
             Capture, Expire, Tick
    <2> QED  BY <2>1, <2>2, <2>3
  <1>3. \A o \in Order : PromiseOf(o)' = PromiseOf(o)
    BY <1>1 DEF PromiseOf
  <1>4. PromisedWindow' = PromisedWindow
    <2>1. ASSUME NEW o \in Order, PromiseOf(o) # {}
          PROVE  (evaluations[CHOOSE i \in PromiseOf(o) : TRUE].facts.window)' =
                 evaluations[CHOOSE i \in PromiseOf(o) : TRUE].facts.window
      <3>1. (CHOOSE i \in PromiseOf(o) : TRUE) \in Accepted
        BY <2>1 DEF PromiseOf
      <3> QED  BY <1>1, <1>3, <3>1
    <2> QED  BY <1>3, <2>1 DEF PromisedWindow
  <1>5. \A o \in Order : \A i \in PromiseOf(o) :
          evaluations'[i] = evaluations[i] /\ evaluations[i].decision \in DecisionID
    BY <1>1 DEF PromiseOf, LinkInv, Confirmed
  <1>6. PromisedWaiting' \subseteq PromisedWaiting
    BY <1>2, <1>3, <1>5 DEF PromisedWaiting
  <1> QED  BY <1>4, <1>6

\* The orders that wait for a window are among those that reserve it.
LEMMA RoomLeft ==
  ASSUME IInv, NEW p \in Plan, NEW w \in Window, Fits(p, w)
  PROVE  Cardinality({o \in PromisedWaiting : PromisedWindow[o] = w}) < Capacity
  <1> USE DEF IInv
  <1> DEFINE there == {o \in PromisedWaiting : PromisedWindow[o] = w}
             bars == {d \in contains[p] : WindowOf(d) = w}
             promise(o) == CHOOSE i \in PromiseOf(o) : Batches!Pending(evaluations[i].decision)
             batchOf == [o \in there |-> evaluations[promise(o)].decision]
  <1>1. \A o \in there : /\ promise(o) \in PromiseOf(o) /\ promise(o) \in Accepted
                         /\ evaluations[promise(o)].content.order = o
                         /\ Batches!Pending(evaluations[promise(o)].decision)
                         /\ evaluations[promise(o)].facts.window = w
    <2> SUFFICES ASSUME NEW o \in there
                 PROVE  /\ promise(o) \in PromiseOf(o) /\ promise(o) \in Accepted
                        /\ evaluations[promise(o)].content.order = o
                        /\ Batches!Pending(evaluations[promise(o)].decision)
                        /\ evaluations[promise(o)].facts.window = w
      OBVIOUS
    <2>1. o \in Order /\ \E i \in PromiseOf(o) : Batches!Pending(evaluations[i].decision)
      BY DEF PromisedWaiting
    <2>2. promise(o) \in PromiseOf(o) /\ Batches!Pending(evaluations[promise(o)].decision)
      BY <2>1
    <2> HIDE DEF promise
    <2>3. promise(o) \in Accepted /\ evaluations[promise(o)].content.order = o
      BY <2>2 DEF PromiseOf
    <2>4. PromisedWindow[o] = evaluations[promise(o)].facts.window
      BY <2>1, <2>2, <2>3, OnePromise
    <2> QED  BY <2>2, <2>3, <2>4
  <1> HIDE DEF promise
  <1>2. \A o \in there : evaluations[promise(o)].decision \in Reserved(w)
    <2> SUFFICES ASSUME NEW o \in there
                 PROVE  evaluations[promise(o)].decision \in Reserved(w)
      OBVIOUS
    <2>1. promise(o) \in Accepted /\ evaluations[promise(o)].decision \in Confirmed
      BY <1>1 DEF LinkInv
    <2>2. AcceptanceOf(evaluations[promise(o)].decision) = promise(o)
      BY <2>1, AcceptanceFound DEF Found
    <2> QED  BY <1>1, <2>1, <2>2 DEF Reserved, WindowOf
  <1>3. batchOf \in Injection(there, Reserved(w))
    <2>1. \A a, b \in there :
            evaluations[promise(a)].decision = evaluations[promise(b)].decision => a = b
      BY <1>1 DEF LinkInv
    <2> HIDE DEF there
    <2>2. batchOf \in [there -> Reserved(w)]
      BY <1>2
    <2>3. \A a, b \in there : batchOf[a] = batchOf[b] => a = b
      BY <2>1
    <2> HIDE DEF batchOf
    <2> QED  BY <2>2, <2>3 DEF Injection, IsInjective
  <1>4. /\ IsFiniteSet(Reserved(w)) /\ Cardinality(Reserved(w)) \in Nat
        /\ Cardinality(bars) \in Nat /\ Scheduled[p][w] \in Nat /\ Capacity \in Nat
    <2>1. Reserved(w) \subseteq Confirmed /\ bars \subseteq Confirmed
      BY DEF Reserved, StateInv
    <2>2. IsFiniteSet(Reserved(w)) /\ IsFiniteSet(bars)
      BY <2>1, ConfirmedFinite, FS_Subset
    <2> QED  BY <2>2, FS_CardinalityType, CommitmentAssumption
  <1>5. Cardinality(there) \in Nat /\ Cardinality(there) <= Cardinality(Reserved(w))
    <2> HIDE DEF there, batchOf
    <2> QED  BY <1>3, <1>4, FS_Injection, FS_CardinalityType
  <1>6. Scheduled[p][w] + Cardinality(bars) + Cardinality(Reserved(w)) + 1 <= Capacity
    BY DEF Fits, Load
  <1> HIDE DEF there, bars
  <1>7. Cardinality(there) < Capacity
    BY <1>4, <1>5, <1>6
  <1> QED  BY <1>7 DEF there

\* An acceptance promises the order its window.
LEMMA AcceptPromises ==
  ASSUME IInv, NEW i \in Made, NEW d \in DecisionID, Accept(i, d)
  PROVE  \E o \in Order, w \in Window :
           /\ PromisedWindow[o] = 0
           /\ Cardinality({p \in PromisedWaiting : PromisedWindow[p] = w}) < Capacity
           /\ PromisedWindow' = [PromisedWindow EXCEPT ![o] = w]
           /\ PromisedWaiting' = PromisedWaiting \cup {o}
  <1> USE DEF IInv
  <1> DEFINE order == evaluations[i].content.order
             window == evaluations[i].facts.window
  <1>1. EvaluationInv(evaluations[i]) /\ order \in Order /\ evaluations[i].content.plan \in Plan
    BY DEF ListInv, EvaluationInv, MessageSpace
  <1>2. window \in Window /\ Fits(evaluations[i].content.plan, window)
    BY <1>1, FoundNow DEF Accept
  <1>3. /\ Accepted' = Accepted \cup {i} /\ i \notin Accepted
        /\ \A k \in Accepted : evaluations'[k] = evaluations[k]
        /\ evaluations'[i].decision = d /\ evaluations'[i].content = evaluations[i].content
        /\ evaluations'[i].facts = evaluations[i].facts
    BY AcceptEffect DEF Accepted
  <1>4. PromiseOf(order) = {}
    BY DEF Accept, PromiseOf, OfOrder, Accepted
  <1>5. /\ \A o \in Order \ {order} : PromiseOf(o)' = PromiseOf(o)
        /\ PromiseOf(order)' = {i}
    BY <1>3, <1>4 DEF PromiseOf
  <1>6. \A b \in DecisionID : b # d => Batches!Pending(b)' = Batches!Pending(b)
    BY DEF Accept, Confirm, Batches!Confirm, Batches!Pending, StateInv
  <1>7. Batches!Pending(d)'
    BY DEF Accept, Confirm, Batches!Confirm, Batches!Pending, StateInv
  <1>8. d \notin Confirmed
    BY DEF Accept, Confirm, Batches!Confirm, Confirmed
  <1>9. PromisedWindow' = [PromisedWindow EXCEPT ![order] = window]
    <2>1. ASSUME NEW o \in Order \ {order}
          PROVE  PromisedWindow'[o] = PromisedWindow[o]
      <3>1. PromiseOf(o) \subseteq Accepted /\ PromiseOf(o)' = PromiseOf(o)
        BY <1>5 DEF PromiseOf
      <3>2. CASE PromiseOf(o) = {}
        BY <3>1, <3>2 DEF PromisedWindow
      <3>3. CASE PromiseOf(o) # {}
        <4>1. (CHOOSE k \in PromiseOf(o) : TRUE) \in Accepted
          BY <3>1, <3>3
        <4> QED  BY <1>3, <3>1, <3>3, <4>1 DEF PromisedWindow
      <3> QED  BY <3>2, <3>3
    <2>2. PromisedWindow'[order] = window
      <3>1. (CHOOSE k \in PromiseOf(order)' : TRUE) = i
        BY <1>5
      <3> QED  BY <1>1, <1>3, <1>5, <3>1 DEF PromisedWindow
    <2>3. PromisedWindow' = [o \in Order |-> PromisedWindow'[o]]
      BY DEF PromisedWindow
    <2>4. PromisedWindow = [o \in Order |-> PromisedWindow[o]]
      BY DEF PromisedWindow
    <2> HIDE DEF order, window
    <2> QED  BY <2>1, <2>2, <2>3, <2>4
  <1>10. PromisedWaiting' = PromisedWaiting \cup {order}
    <2>1. order \in PromisedWaiting'
      BY <1>1, <1>3, <1>5, <1>7 DEF PromisedWaiting
    <2>2. \A o \in Order \ {order} : \A k \in PromiseOf(o) :
            /\ evaluations'[k] = evaluations[k]
            /\ evaluations[k].decision \in DecisionID /\ evaluations[k].decision # d
      BY <1>3, <1>8 DEF PromiseOf, LinkInv, Confirmed
    <2>3. \A o \in Order \ {order} : o \in PromisedWaiting' <=> o \in PromisedWaiting
      BY <1>5, <1>6, <2>2 DEF PromisedWaiting
    <2>4. PromisedWaiting \subseteq Order /\ PromisedWaiting' \subseteq Order
      BY DEF PromisedWaiting
    <2> QED  BY <1>1, <2>1, <2>3, <2>4
  <1>11. PromisedWindow[order] = 0
    BY <1>1, <1>4 DEF PromisedWindow
  <1>12. Cardinality({p \in PromisedWaiting : PromisedWindow[p] = window}) < Capacity
    BY <1>1, <1>2, RoomLeft
  <1> QED  BY <1>1, <1>2, <1>9, <1>10, <1>11, <1>12

\* Both modules count alike.
LEMMA SameCardinality == \A S : Promises!Cardinality(S) = Cardinality(S)
  BY Zenon DEF Cardinality, Promises!Cardinality

\* Every order is promised once at most, in a window that had room for it beside
\* all that was promised there and not yet scheduled: an acceptance is a promise
\* of OrderPromises, and no other step makes one or takes one back.
THEOREM PromisesAreKept == Spec => ImplementsPromises
  <1>1. Init => Promises!Init
    <2> SUFFICES ASSUME Init PROVE Promises!Init
      OBVIOUS
    <2>1. \A o \in Order : PromiseOf(o) = {}
      BY DEF Init, PromiseOf, Accepted, Made
    <2> QED  BY <2>1 DEF Promises!Init
  <1>2. IInv /\ [Next]_vars => [Promises!Next]_<<PromisedWindow, PromisedWaiting>>
    <2> SUFFICES ASSUME IInv, [Next]_vars
                 PROVE  \/ Promises!Next
                        \/ UNCHANGED <<PromisedWindow, PromisedWaiting>>
      OBVIOUS
    <2>1. CASE \E i \in Made, d \in DecisionID : Accept(i, d)
      <3>1. PICK o \in Order, w \in Window :
              /\ PromisedWindow[o] = 0
              /\ Cardinality({p \in PromisedWaiting : PromisedWindow[p] = w}) < Capacity
              /\ PromisedWindow' = [PromisedWindow EXCEPT ![o] = w]
              /\ PromisedWaiting' = PromisedWaiting \cup {o}
        BY <2>1, AcceptPromises
      <3>2. Promises!Promise(o, w)
        BY <3>1, SameCardinality, Zenon DEF Promises!Promise, PromisedWindow, PromisedWaiting
      <3> QED  BY <3>2 DEF Promises!Next
    <2>2. CASE ~\E i \in Made, d \in DecisionID : Accept(i, d)
      <3> DEFINE os == PromisedWaiting \ PromisedWaiting'
      <3>1. PromisedWindow' = PromisedWindow /\ PromisedWaiting' = PromisedWaiting \ os
        BY <2>2, PromisesKept
      <3>2. os \in SUBSET PromisedWaiting
        OBVIOUS
      <3> HIDE DEF os
      <3>3. Promises!Schedule(os)
        BY <3>1 DEF Promises!Schedule, PromisedWindow, PromisedWaiting
      <3> QED  BY <3>2, <3>3 DEF Promises!Next, PromisedWaiting
    <2> QED  BY <2>1, <2>2
  <1> QED
    BY <1>1, <1>2, InvariantHolds, PTL
    DEF Spec, ImplementsPromises, Promises!Spec, PromisedWindow, PromisedWaiting

=============================================================================
