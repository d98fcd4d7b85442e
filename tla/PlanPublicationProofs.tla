------------------------ MODULE PlanPublicationProofs -----------------------
(* Theorems about PlanPublication and FiniteScheduler, the two modules that   *)
(* MCPlanPublication checks, for every value of their constants.             *)
EXTENDS PlanPublication, FiniteScheduler, FiniteSetTheorems, SequenceTheorems,
        NaturalsInduction, WellFoundedInduction, TLAPS

-----------------------------------------------------------------------------
(* The inductive invariant, one part for each table.                        *)

OneActive(table) ==
  \A i, j \in DOMAIN table : table[i].status = "Active" /\ table[j].status = "Active" => i = j

TableInv(table) ==
  OneActive(table) /\ \A i \in DOMAIN table : "status" \in DOMAIN table[i]

AssignmentsInv ==
  /\ \E n \in Nat : DOMAIN assignments = 1 .. n /\ assignments = [i \in 1 .. n |-> assignments[i]]
  /\ \A i \in DOMAIN assignments : {"status", "resource"} \subseteq DOMAIN assignments[i]
  /\ \A i, j \in DOMAIN assignments :
       /\ assignments[i].status = "Active" /\ assignments[j].status = "Active"
       /\ assignments[i].resource = assignments[j].resource
       => i = j

VersionsInv ==
  /\ \A v \in DOMAIN versions : "publication" \in DOMAIN versions[v]
  /\ \A v, w \in DOMAIN versions :
       versions[v].publication = "Published" /\ versions[w].publication = "Published" => v = w

RunFields ==
  {"problem", "status", "plan", "applied", "publication", "package", "supersedes", "supersededBy"}

\* What only a run that has been published can have.
Out == {"Published", "PublicationRevoked", "Superseded"}

RunInv(n) ==
  LET run == runs[n]
  IN /\ RunFields \subseteq DOMAIN run
     /\ run.publication # Nothing => run.status = "Completed"
     /\ run.publication = "Superseded" <=> run.supersededBy # Nothing
     /\ run.supersededBy # Nothing =>
          run.supersededBy \in DOMAIN runs /\ runs[run.supersededBy].supersedes = n
     /\ run.supersedes # Nothing =>
          /\ run.supersedes \in DOMAIN runs /\ runs[run.supersedes].supersededBy = n
          /\ run.publication \in Out
     /\ run.package # Nothing => run.package.fingerprint = run.plan /\ run.publication \in Out

RunsInv ==
  /\ Nothing \notin DOMAIN runs
  /\ \A n \in DOMAIN runs : RunInv(n)
  /\ \A n, m \in DOMAIN runs :
       /\ runs[n].problem = runs[m].problem
       /\ runs[n].publication = "Published" /\ runs[m].publication = "Published"
       => n = m

PlansInv ==
  AssignmentsInv /\ TableInv(strategies) /\ TableInv(policies) /\ VersionsInv /\ RunsInv

-----------------------------------------------------------------------------
(* Numbers and finite sets.                                                 *)

\* What holds of a finite set when it holds of the set without any one of its
\* elements, holds of every finite set.
LEMMA SubsetInduction ==
  ASSUME NEW S, IsFiniteSet(S), NEW good,
         \A T \in SUBSET S : (\A x \in T : T \ {x} \in good) => T \in good
  PROVE  SUBSET S \subseteq good
  <1> DEFINE bad == {T \in SUBSET S : T \notin good}
             less == StrictSubsetOrdering(S)
  <1>1. IsWellFoundedOn(less, SUBSET S)
    <2>1. FiniteSubsetsOf(S) = SUBSET S
      BY FS_FiniteSubsetsOfFinite
    <2> QED  BY <2>1, FS_StrictSubsetOrderingWellFounded
  <1>2. SUFFICES ASSUME bad # {} PROVE FALSE
    OBVIOUS
  <1>3. bad \subseteq SUBSET S
    OBVIOUS
  <1> HIDE DEF bad, less
  <1>4. PICK T \in bad : \A U \in bad : <<U, T>> \notin less
    BY <1>1, <1>2, <1>3, WFMin
  <1> USE DEF bad
  <1>5. PICK x \in T : T \ {x} \notin good
    BY <1>4
  <1>6. T \ {x} \in bad
    BY <1>4, <1>5
  <1>7. <<T \ {x}, T>> \in less
    BY <1>4, <1>5 DEF less, StrictSubsetOrdering
  <1> QED  BY <1>4, <1>6, <1>7

\* What holds of the empty set, and of a set with one element more, holds of every
\* finite set.
LEMMA FiniteInduction ==
  ASSUME NEW S, IsFiniteSet(S), NEW good, {} \in good,
         \A T \in SUBSET S : \A x \in S \ T : T \in good => T \cup {x} \in good
  PROVE  S \in good
  <1>1. ASSUME NEW T \in SUBSET S, \A x \in T : T \ {x} \in good PROVE T \in good
    <2>1. CASE T = {}
      BY <2>1
    <2>2. ASSUME NEW x \in T PROVE T \in good
      <3>1. T \ {x} \in SUBSET S /\ x \in S \ (T \ {x}) /\ (T \ {x}) \cup {x} = T
        OBVIOUS
      <3> QED  BY <1>1, <3>1
    <2> QED  BY <2>1, <2>2
  <1> QED  BY <1>1, SubsetInduction

\* A finite set of integers has a greatest and a least element.
LEMMA Greatest ==
  ASSUME NEW S \in SUBSET Int, IsFiniteSet(S), S # {}
  PROVE  /\ Max(S) \in S /\ \A m \in S : m <= Max(S)
         /\ Min(S) \in S /\ \A m \in S : Min(S) <= m
  <1> DEFINE good == {T \in SUBSET S :
                T # {} => /\ \E n \in T : \A m \in T : m <= n
                          /\ \E n \in T : \A m \in T : n <= m}
  <1>1. {} \in good
    OBVIOUS
  <1>2. ASSUME NEW T \in SUBSET S, NEW x \in S \ T, T \in good
        PROVE  T \cup {x} \in good
    <2>1. CASE T = {}
      BY <2>1
    <2>2. CASE T # {}
      <3>1. PICK n \in T : \A m \in T : m <= n
        BY <1>2, <2>2
      <3>2. PICK l \in T : \A m \in T : l <= m
        BY <1>2, <2>2
      <3>3. \E k \in T \cup {x} : \A m \in T \cup {x} : m <= k
        <4>1. CASE x <= n
          BY <3>1, <4>1
        <4>2. CASE ~(x <= n)
          BY <3>1, <4>2
        <4> QED  BY <4>1, <4>2
      <3>4. \E k \in T \cup {x} : \A m \in T \cup {x} : k <= m
        <4>1. CASE l <= x
          BY <3>2, <4>1
        <4>2. CASE ~(l <= x)
          BY <3>2, <4>2
        <4> QED  BY <4>1, <4>2
      <3> QED  BY <3>3, <3>4
    <2> QED  BY <2>1, <2>2
  <1>3. S \in good
    <2> HIDE DEF good
    <2> QED  BY <1>1, <1>2, FiniteInduction
  <1>4. \E n \in S : \A m \in S : n >= m
    BY <1>3
  <1>5. \E n \in S : \A m \in S : n <= m
    BY <1>3
  <1>6. Max(S) \in S /\ \A m \in S : Max(S) >= m
    BY <1>4 DEF Max
  <1>7. Min(S) \in S /\ \A m \in S : Min(S) <= m
    BY <1>5 DEF Min
  <1>8. \A m \in S : m \in Int /\ Max(S) \in Int
    BY <1>6
  <1> QED  BY <1>6, <1>7, <1>8

-----------------------------------------------------------------------------
(* Tables.                                                                  *)

\* A record that becomes active leaves no other one active.
LEMMA CreatedKeepsOne ==
  ASSUME NEW table, TableInv(table), NEW record, "status" \in DOMAIN record
  PROVE  TableInv(Created(table, record))
  <1> DEFINE rest == IF record.status = "Active" THEN RetireTable(table) ELSE table
             next == Put(rest, record.id, record)
  <1>1. /\ DOMAIN rest = DOMAIN table
        /\ \A i \in DOMAIN rest : "status" \in DOMAIN rest[i]
        /\ record.status = "Active" => \A i \in DOMAIN rest : rest[i].status # "Active"
        /\ OneActive(rest)
    <2>1. CASE record.status = "Active"
      <3>1. /\ DOMAIN rest = DOMAIN table
            /\ \A i \in DOMAIN table : rest[i] = IF table[i].status = "Active"
                 THEN [table[i] EXCEPT !.status = "Retired"] ELSE table[i]
        BY <2>1 DEF RetireTable
      <3>2. \A i \in DOMAIN table : "status" \in DOMAIN rest[i] /\ rest[i].status # "Active"
        BY <3>1 DEF TableInv
      <3> QED  BY <3>1, <3>2 DEF OneActive
    <2>2. CASE record.status # "Active"
      <3>1. rest = table
        BY <2>2
      <3> QED  BY <2>2, <3>1 DEF TableInv
    <2> QED  BY <2>1, <2>2
  <1>2. Created(table, record) = next
    BY DEF Created
  <1> HIDE DEF rest
  <1>3. /\ DOMAIN next = DOMAIN rest \cup {record.id} /\ next[record.id] = record
        /\ \A i \in DOMAIN rest \ {record.id} : next[i] = rest[i]
    BY DEF Put
  <1> HIDE DEF next
  <1>4. TableInv(next)
    BY <1>1, <1>3 DEF TableInv, OneActive
  <1> QED  BY <1>2, <1>4

LEMMA AtMostOne ==
  ASSUME NEW S, \A x, y \in S : x = y
  PROVE  Cardinality(S) <= 1
  <1>1. CASE S = {}
    BY <1>1, FS_EmptySet
  <1>2. CASE S # {}
    <2>1. PICK x : S = {x}
      BY <1>2
    <2>2. Cardinality(S) = 1
      BY <2>1, FS_Singleton, Zenon
    <2> QED  BY <2>2
  <1> QED  BY <1>1, <1>2

LEMMA Enough == PlansInv => OneInForce
  <1> SUFFICES ASSUME PlansInv PROVE OneInForce
    OBVIOUS
  <1>1. \A table \in {strategies, policies} :
          Cardinality({i \in DOMAIN table : table[i].status = "Active"}) <= 1
    BY AtMostOne DEF PlansInv, TableInv, OneActive
  <1>2. Cardinality({v \in DOMAIN versions : versions[v].publication = "Published"}) <= 1
    BY AtMostOne DEF PlansInv, VersionsInv
  <1>3. \A n, m \in DOMAIN runs : runs[n].supersededBy = m <=> runs[m].supersedes = n
    BY DEF PlansInv, RunsInv, RunInv
  <1>4. \A n, m \in DOMAIN runs : n # m /\ runs[n].problem = runs[m].problem =>
          ~(runs[n].publication = "Published" /\ runs[m].publication = "Published")
    BY DEF PlansInv, RunsInv
  <1>5. \A n \in DOMAIN runs :
          /\ runs[n].publication = "Superseded" <=> runs[n].supersededBy # Nothing
          /\ runs[n].package # Nothing => runs[n].package.fingerprint = Fingerprint(runs[n])
    BY DEF PlansInv, RunsInv, RunInv, Fingerprint
  <1> QED  BY <1>1, <1>2, <1>3, <1>4, <1>5 DEF OneInForce, PlansInv, AssignmentsInv

-----------------------------------------------------------------------------
(* Assignments.                                                             *)

LEMMA AppendAtEnd ==
  ASSUME NEW n \in Nat, NEW s, DOMAIN s = 1 .. n, s = [i \in 1 .. n |-> s[i]], NEW e
  PROVE  /\ DOMAIN Append(s, e) = 1 .. (n + 1)
         /\ Append(s, e) = [i \in 1 .. (n + 1) |-> Append(s, e)[i]]
         /\ Append(s, e)[n + 1] = e
         /\ \A i \in 1 .. n : Append(s, e)[i] = s[i]
  <1> DEFINE all == {s[i] : i \in 1 .. n} \cup {e}
  <1>1. s \in Seq(all) /\ Len(s) = n
    BY SeqDef
  <1>2. e \in all
    OBVIOUS
  <1> HIDE DEF all
  <1>3. Append(s, e) \in Seq(all) /\ Len(Append(s, e)) = n + 1
    BY <1>1, <1>2, AppendProperties
  <1>4. DOMAIN Append(s, e) = 1 .. (n + 1) /\ Append(s, e) = [i \in 1 .. (n + 1) |-> Append(s, e)[i]]
    BY <1>3
  <1> QED  BY <1>1, <1>2, <1>4, AppendProperties

LEMMA AssignmentStep ==
  ASSUME AssignmentsInv, NEW a \in Assignment, CreateAssignment(a)
  PROVE  AssignmentsInv'
  <1> DEFINE rest == IF a.status = "Active" THEN RetireOthers(assignments, a.resource)
                     ELSE assignments
  <1>1. PICK n \in Nat :
          DOMAIN assignments = 1 .. n /\ assignments = [i \in 1 .. n |-> assignments[i]]
    BY DEF AssignmentsInv
  <1>2. {"status", "resource"} \subseteq DOMAIN a
    BY InputsAssumption
  <1>3. /\ DOMAIN rest = 1 .. n /\ rest = [i \in 1 .. n |-> rest[i]]
        /\ \A i \in 1 .. n :
             /\ {"status", "resource"} \subseteq DOMAIN rest[i]
             /\ rest[i].resource = assignments[i].resource
             /\ rest[i].status = "Active" =>
                  /\ assignments[i].status = "Active"
                  /\ a.status = "Active" => rest[i].resource # a.resource
    <2>1. CASE a.status # "Active"
      BY <1>1, <2>1 DEF AssignmentsInv
    <2>2. CASE a.status = "Active"
      <3>1. rest = [i \in 1 .. n |->
                      IF assignments[i].resource = a.resource /\ assignments[i].status = "Active"
                      THEN [assignments[i] EXCEPT !.status = "Retired"] ELSE assignments[i]]
        BY <1>1, <2>2 DEF RetireOthers
      <3>2. \A i \in 1 .. n : {"status", "resource"} \subseteq DOMAIN assignments[i]
        BY <1>1 DEF AssignmentsInv
      <3> HIDE DEF rest
      <3>3. ASSUME NEW i \in 1 .. n
            PROVE  /\ {"status", "resource"} \subseteq DOMAIN rest[i]
                   /\ rest[i].resource = assignments[i].resource
                   /\ rest[i].status = "Active" =>
                        assignments[i].status = "Active" /\ rest[i].resource # a.resource
        <4>1. CASE assignments[i].resource = a.resource /\ assignments[i].status = "Active"
          BY <3>1, <3>2, <4>1
        <4>2. CASE ~(assignments[i].resource = a.resource /\ assignments[i].status = "Active")
          BY <3>1, <3>2, <4>2
        <4> QED  BY <4>1, <4>2
      <3> QED  BY <3>1, <3>3
    <2> QED  BY <2>1, <2>2
  <1>4. assignments' = Append(rest, a)
    BY DEF CreateAssignment
  <1> HIDE DEF rest
  <1>5. /\ DOMAIN assignments' = 1 .. (n + 1)
        /\ assignments' = [i \in 1 .. (n + 1) |-> assignments'[i]]
        /\ assignments'[n + 1] = a /\ \A i \in 1 .. n : assignments'[i] = rest[i]
    BY <1>3, <1>4, AppendAtEnd
  <1>6. \A i \in 1 .. (n + 1) : {"status", "resource"} \subseteq DOMAIN assignments'[i]
    BY <1>2, <1>3, <1>5
  <1>7. ASSUME NEW i \in 1 .. (n + 1), NEW j \in 1 .. (n + 1),
               assignments'[i].status = "Active", assignments'[j].status = "Active",
               assignments'[i].resource = assignments'[j].resource
        PROVE  i = j
    <2>1. CASE i \in 1 .. n /\ j \in 1 .. n
      <3>1. /\ assignments[i].status = "Active" /\ assignments[j].status = "Active"
            /\ assignments[i].resource = assignments[j].resource
        BY <1>3, <1>5, <1>7, <2>1
      <3> QED  BY <1>1, <2>1, <3>1 DEF AssignmentsInv
    <2>2. CASE i = n + 1 /\ j \in 1 .. n
      BY <1>3, <1>5, <1>7, <2>2
    <2>3. CASE j = n + 1 /\ i \in 1 .. n
      BY <1>3, <1>5, <1>7, <2>3
    <2> QED  BY <2>1, <2>2, <2>3
  <1>8. \E k \in Nat : DOMAIN assignments' = 1 .. k /\ assignments' = [i \in 1 .. k |-> assignments'[i]]
    BY <1>5
  <1> QED  BY <1>5, <1>6, <1>7, <1>8 DEF AssignmentsInv

-----------------------------------------------------------------------------
(* Versions.                                                                *)

LEMMA CreateVersionStep ==
  ASSUME VersionsInv, NEW v \in Version, CreateVersion(v)
  PROVE  VersionsInv'
  <1> DEFINE created == [id |-> v.id, captured |-> v.captured, valid |-> v.valid,
                         resources |-> v.resources, publication |-> "Draft"]
  <1>1. "publication" \in DOMAIN created /\ created.publication = "Draft"
    OBVIOUS
  <1>2. versions' = Put(versions, v.id, created) /\ v.id \notin DOMAIN versions
    BY DEF CreateVersion
  <1> HIDE DEF created
  <1>3. /\ DOMAIN versions' = DOMAIN versions \cup {v.id} /\ versions'[v.id] = created
        /\ \A w \in DOMAIN versions : versions'[w] = versions[w]
    BY <1>2 DEF Put
  <1> QED  BY <1>1, <1>3 DEF VersionsInv

\* Publishing and going back leave one version in force.
LEMMA InForceStep ==
  ASSUME VersionsInv, NEW id \in DOMAIN versions, versions' = InForce(id)
  PROVE  VersionsInv'
  <1>1. /\ DOMAIN versions' = DOMAIN versions
        /\ \A v \in DOMAIN versions :
             versions'[v] = [versions[v] EXCEPT !.publication =
               IF v = id THEN "Published"
               ELSE IF @ = "Published" THEN "Inactive" ELSE @]
    BY DEF InForce
  <1>2. \A v \in DOMAIN versions :
          /\ "publication" \in DOMAIN versions'[v]
          /\ v # id => versions'[v].publication # "Published"
    BY <1>1 DEF VersionsInv
  <1> QED  BY <1>1, <1>2 DEF VersionsInv

LEMMA RetireVersionStep ==
  ASSUME VersionsInv, NEW id, RetireVersion(id)
  PROVE  VersionsInv'
  <1>1. /\ DOMAIN versions' = DOMAIN versions
        /\ \A v \in DOMAIN versions : v # id => versions'[v] = versions[v]
        /\ id \in DOMAIN versions
        /\ versions'[id] = [versions[id] EXCEPT !.publication = "Retired"]
    BY DEF RetireVersion
  <1>2. "publication" \in DOMAIN versions'[id] /\ versions'[id].publication = "Retired"
    BY <1>1 DEF VersionsInv
  <1> QED  BY <1>1, <1>2 DEF VersionsInv

-----------------------------------------------------------------------------
(* Runs.                                                                    *)

LEMMA CreateRunStep ==
  ASSUME RunsInv, NEW q \in RunRequest, CreateRun(q)
  PROVE  RunsInv'
  <1>1. q.id # Nothing /\ q.id \notin DOMAIN runs
    BY InputsAssumption DEF CreateRun
  <1>2. /\ DOMAIN runs' = DOMAIN runs \cup {q.id}
        /\ \A n \in DOMAIN runs : runs'[n] = runs[n]
        /\ RunFields \subseteq DOMAIN runs'[q.id]
        /\ runs'[q.id].publication = Nothing /\ runs'[q.id].package = Nothing
        /\ runs'[q.id].supersedes = Nothing /\ runs'[q.id].supersededBy = Nothing
    BY <1>1 DEF CreateRun, Put, RunFields
  <1>3. Nothing # "Superseded" /\ Nothing # "Published"
    BY InputsAssumption
  <1>4. RunInv(q.id)'
    BY <1>2, <1>3 DEF RunInv
  <1>5. ASSUME NEW n \in DOMAIN runs PROVE RunInv(n)'
    BY <1>2 DEF RunInv, RunsInv
  <1>6. \A n, m \in DOMAIN runs' :
          /\ runs'[n].problem = runs'[m].problem
          /\ runs'[n].publication = "Published" /\ runs'[m].publication = "Published"
          => n = m
    BY <1>2, <1>3 DEF RunsInv
  <1> QED  BY <1>1, <1>2, <1>4, <1>5, <1>6 DEF RunsInv

\* A run is only executed while nothing of it has been published.
LEMMA ExecuteRunStep ==
  ASSUME RunsInv, NEW n \in DOMAIN runs, NEW outcome, NEW retried, ExecuteRun(n, outcome, retried)
  PROVE  RunsInv'
  <1>1. RunInv(n) /\ runs[n].status = "Pending"
    BY DEF RunsInv, ExecuteRun
  <1>2. /\ runs[n].publication = Nothing /\ runs[n].package = Nothing
        /\ runs[n].supersedes = Nothing /\ runs[n].supersededBy = Nothing
    BY <1>1, InputsAssumption DEF RunInv, Out
  <1>3. /\ DOMAIN runs' = DOMAIN runs
        /\ \A m \in DOMAIN runs : m # n => runs'[m] = runs[m]
        /\ RunFields \subseteq DOMAIN runs'[n]
        /\ runs'[n].problem = runs[n].problem
        /\ runs'[n].publication = (IF outcome = "Feasible" THEN "Draft" ELSE Nothing)
        /\ outcome = "Feasible" => runs'[n].status = "Completed"
        /\ runs'[n].package = Nothing
        /\ runs'[n].supersedes = Nothing /\ runs'[n].supersededBy = Nothing
    BY <1>1, <1>2 DEF ExecuteRun, RunInv, RunFields
  <1>4. Nothing # "Superseded" /\ Nothing # "Published"
    BY InputsAssumption
  <1>5. RunInv(n)'
    BY <1>3, <1>4 DEF RunInv
  <1>6. ASSUME NEW m \in DOMAIN runs, m # n PROVE RunInv(m)'
    <2>1. RunInv(m)
      BY DEF RunsInv
    <2>2. runs[m].supersededBy # n /\ runs[m].supersedes # n
      BY <1>2, <2>1 DEF RunInv, RunsInv
    <2> QED  BY <1>3, <1>6, <2>1, <2>2 DEF RunInv
  <1>7. \A k, m \in DOMAIN runs' :
          /\ runs'[k].problem = runs'[m].problem
          /\ runs'[k].publication = "Published" /\ runs'[m].publication = "Published"
          => k = m
    BY <1>3, <1>4 DEF RunsInv
  <1> QED  BY <1>3, <1>5, <1>6, <1>7 DEF RunsInv

LEMMA MoveStep ==
  ASSUME RunsInv, NEW n, NEW role, NEW action \in {"Review", "Approve", "Revoke"},
         Move(n, action, role)
  PROVE  RunsInv'
  <1>1. RunInv(n) /\ n \in DOMAIN runs
    BY DEF RunsInv, Move, MayMove
  <1>2. /\ runs[n].status = "Completed"
        /\ runs[n].publication # "Superseded"
        /\ Transition(action)[2] \in {"Reviewed", "Approved", "PublicationRevoked"}
        /\ runs[n].publication \in Out => Transition(action)[2] = "PublicationRevoked"
    <2>1. PublicationState(runs[n]) = Transition(action)[1]
      BY DEF Move, MayMove
    <2>2. Transition(action) \in {<<"Draft", "Reviewed">>, <<"Reviewed", "Approved">>,
                                  <<"Published", "PublicationRevoked">>}
      BY DEF Transition
    <2>3. \/ Transition(action)[1] = "Draft" /\ Transition(action)[2] = "Reviewed"
          \/ Transition(action)[1] = "Reviewed" /\ Transition(action)[2] = "Approved"
          \/ Transition(action)[1] = "Published" /\ Transition(action)[2] = "PublicationRevoked"
      BY <2>2
    <2>4. \/ runs[n].publication = Transition(action)[1]
          \/ /\ runs[n].publication = Nothing /\ runs[n].status = "Completed"
             /\ Transition(action)[1] = "Draft"
      BY <2>1, <2>3 DEF PublicationState
    <2>5. runs[n].status = "Completed"
      BY <1>1, <2>3, <2>4, InputsAssumption DEF RunInv
    <2> QED  BY <2>3, <2>4, <2>5, InputsAssumption DEF Out
  <1>3. /\ DOMAIN runs' = DOMAIN runs
        /\ \A m \in DOMAIN runs : m # n => runs'[m] = runs[m]
        /\ RunFields \subseteq DOMAIN runs'[n]
        /\ runs'[n].publication = Transition(action)[2]
        /\ runs'[n].status = runs[n].status /\ runs'[n].plan = runs[n].plan
        /\ runs'[n].problem = runs[n].problem /\ runs'[n].package = runs[n].package
        /\ runs'[n].supersedes = runs[n].supersedes
        /\ runs'[n].supersededBy = runs[n].supersededBy
    BY <1>1 DEF Move, RunInv, RunFields
  <1>4. RunInv(n)'
    BY <1>1, <1>2, <1>3 DEF RunInv, RunsInv, Out
  <1>5. ASSUME NEW m \in DOMAIN runs, m # n PROVE RunInv(m)'
    BY <1>3, <1>5 DEF RunInv, RunsInv
  <1>6. \A k, m \in DOMAIN runs' :
          /\ runs'[k].problem = runs'[m].problem
          /\ runs'[k].publication = "Published" /\ runs'[m].publication = "Published"
          => k = m
    BY <1>2, <1>3 DEF RunsInv
  <1> QED  BY <1>1, <1>3, <1>4, <1>5, <1>6 DEF RunsInv

\* The one published plan of the problem, if there is one, gives way.
LEMMA PublishStep ==
  ASSUME RunsInv, NEW n, NEW role, Publish(n, role)
  PROVE  RunsInv'
  <1>1. /\ n \in DOMAIN runs /\ RunInv(n) /\ n # Nothing
        /\ runs[n].publication = "Approved" /\ runs[n].status = "Completed"
    BY DEF RunsInv, RunInv, Publish, MayMove, PublicationState, Transition
  <1>2. /\ runs[n].supersedes = Nothing /\ runs[n].supersededBy = Nothing
        /\ \A m \in DOMAIN runs : runs[m].supersededBy # n
    BY <1>1 DEF RunInv, RunsInv, Out
  <1>3. \A m \in Superseded(n) :
          /\ m \in DOMAIN runs /\ m # n /\ runs[m].problem = runs[n].problem
          /\ runs[m].publication = "Published" /\ runs[m].supersededBy = Nothing
    BY DEF Superseded, PublicationState, RunsInv, RunInv
  <1>4. \A m, k \in Superseded(n) : m = k
    BY <1>3 DEF RunsInv
  <1>5. /\ Supersedes(n) \in Superseded(n) \cup {Nothing}
        /\ \A m \in Superseded(n) : Supersedes(n) = m
    <2> DEFINE earlier == Superseded(n) \cup
                          {m \in DOMAIN runs \ {n} : /\ runs[m].problem = runs[n].problem
                                                     /\ runs[m].supersededBy = n}
    <2>1. earlier = Superseded(n)
      BY <1>2
    <2>2. Supersedes(n) = IF earlier = {} THEN Nothing ELSE CHOOSE m \in earlier : TRUE
      BY DEF Supersedes
    <2> HIDE DEF earlier
    <2> QED  BY <1>4, <2>1, <2>2
  <1>6. /\ DOMAIN runs' = DOMAIN runs
        /\ runs'[n] = [runs[n] EXCEPT !.publication = "Published", !.package = Package(runs[n]),
                                      !.supersedes = Supersedes(n)]
        /\ \A m \in Superseded(n) :
             runs'[m] = [runs[m] EXCEPT !.publication = "Superseded", !.supersededBy = n]
        /\ \A m \in DOMAIN runs : m # n /\ m \notin Superseded(n) => runs'[m] = runs[m]
    BY <1>1, <1>3 DEF Publish
  <1>7. /\ RunFields \subseteq DOMAIN runs'[n]
        /\ runs'[n].publication = "Published" /\ runs'[n].supersedes = Supersedes(n)
        /\ runs'[n].supersededBy = Nothing /\ runs'[n].package = Package(runs[n])
        /\ runs'[n].plan = runs[n].plan /\ runs'[n].status = "Completed"
        /\ runs'[n].problem = runs[n].problem
    BY <1>1, <1>2, <1>6 DEF RunInv, RunFields
  <1>8. ASSUME NEW m \in Superseded(n)
        PROVE  /\ RunFields \subseteq DOMAIN runs'[m]
               /\ runs'[m].publication = "Superseded" /\ runs'[m].supersededBy = n
               /\ runs'[m].supersedes = runs[m].supersedes /\ runs'[m].package = runs[m].package
               /\ runs'[m].plan = runs[m].plan /\ runs'[m].status = runs[m].status
               /\ runs'[m].problem = runs[m].problem
    <2>1. RunFields \subseteq DOMAIN runs[m]
      BY <1>3 DEF RunsInv, RunInv
    <2>2. runs'[m] = [runs[m] EXCEPT !.publication = "Superseded", !.supersededBy = n]
      BY <1>6
    <2> QED  BY <2>1, <2>2 DEF RunFields
  <1>9. RunInv(n)'
    <2>1. Package(runs[n]).fingerprint = runs[n].plan
      BY DEF Package, Fingerprint
    <2>2. Supersedes(n) # Nothing =>
            Supersedes(n) \in DOMAIN runs' /\ runs'[Supersedes(n)].supersededBy = n
      BY <1>3, <1>5, <1>6, <1>8
    <2> QED  BY <1>7, <2>1, <2>2 DEF RunInv, Out
  <1>10. ASSUME NEW m \in Superseded(n) PROVE RunInv(m)'
    <2>1. RunInv(m) /\ m # Nothing /\ runs[m].status = "Completed"
      BY <1>3, InputsAssumption DEF RunsInv, RunInv
    <2>2. n \in DOMAIN runs' /\ runs'[n].supersedes = m
      BY <1>1, <1>5, <1>6, <1>7
    <2>3. runs[m].supersedes # Nothing =>
            runs[m].supersedes \in DOMAIN runs /\ runs'[runs[m].supersedes].supersededBy = m
      <3> SUFFICES ASSUME runs[m].supersedes # Nothing
                   PROVE  /\ runs[m].supersedes \in DOMAIN runs
                          /\ runs'[runs[m].supersedes].supersededBy = m
        OBVIOUS
      <3>1. runs[m].supersedes \in DOMAIN runs /\ runs[runs[m].supersedes].supersededBy = m
        BY <2>1 DEF RunInv
      <3>2. runs[m].supersedes # n /\ runs[m].supersedes \notin Superseded(n)
        BY <1>2, <1>3, <2>1, <3>1
      <3> QED  BY <1>6, <3>1, <3>2
    <2> QED  BY <1>1, <1>6, <1>8, <2>1, <2>2, <2>3 DEF RunInv, Out
  <1>11. ASSUME NEW m \in DOMAIN runs, m # n, m \notin Superseded(n) PROVE RunInv(m)'
    <2>1. RunInv(m) /\ runs'[m] = runs[m] /\ m # Nothing
      BY <1>6, <1>11 DEF RunsInv
    <2>2. runs[m].supersededBy # Nothing =>
            runs[m].supersededBy \in DOMAIN runs' /\ runs'[runs[m].supersededBy].supersedes = m
      <3> SUFFICES ASSUME runs[m].supersededBy # Nothing
                   PROVE  /\ runs[m].supersededBy \in DOMAIN runs'
                          /\ runs'[runs[m].supersededBy].supersedes = m
        OBVIOUS
      <3>1. /\ runs[m].supersededBy \in DOMAIN runs /\ runs[m].supersededBy # n
            /\ runs[runs[m].supersededBy].supersedes = m
        BY <1>2, <2>1 DEF RunInv
      <3>2. CASE runs[m].supersededBy \in Superseded(n)
        BY <1>6, <1>8, <3>1, <3>2
      <3>3. CASE runs[m].supersededBy \notin Superseded(n)
        BY <1>6, <3>1, <3>3
      <3> QED  BY <3>2, <3>3
    <2>3. runs[m].supersedes # Nothing =>
            runs[m].supersedes \in DOMAIN runs' /\ runs'[runs[m].supersedes].supersededBy = m
      <3> SUFFICES ASSUME runs[m].supersedes # Nothing
                   PROVE  /\ runs[m].supersedes \in DOMAIN runs'
                          /\ runs'[runs[m].supersedes].supersededBy = m
        OBVIOUS
      <3>1. runs[m].supersedes \in DOMAIN runs /\ runs[runs[m].supersedes].supersededBy = m
        BY <2>1 DEF RunInv
      <3>2. runs[m].supersedes # n /\ runs[m].supersedes \notin Superseded(n)
        BY <1>2, <1>3, <2>1, <3>1
      <3> QED  BY <1>6, <3>1, <3>2
    <2> QED  BY <1>6, <2>1, <2>2, <2>3 DEF RunInv
  <1>12. \A k, m \in DOMAIN runs' :
          /\ runs'[k].problem = runs'[m].problem
          /\ runs'[k].publication = "Published" /\ runs'[m].publication = "Published"
          => k = m
    <2>1. ASSUME NEW m \in DOMAIN runs, m # n, runs'[m].publication = "Published"
          PROVE  /\ runs'[m] = runs[m] /\ runs[m].publication = "Published"
                 /\ runs[m].problem # runs[n].problem
      <3>1. m \notin Superseded(n)
        BY <1>8, <2>1
      <3>2. runs'[m] = runs[m]
        BY <1>6, <2>1, <3>1
      <3>3. runs[m].publication = "Published" => PublicationState(runs[m]) = "Published"
        BY InputsAssumption DEF PublicationState
      <3> QED  BY <2>1, <3>1, <3>2, <3>3 DEF Superseded
    <2> SUFFICES ASSUME NEW k \in DOMAIN runs, NEW m \in DOMAIN runs,
                        runs'[k].problem = runs'[m].problem,
                        runs'[k].publication = "Published", runs'[m].publication = "Published"
                 PROVE  k = m
      BY <1>6
    <2>2. CASE k # n /\ m # n
      BY <2>1, <2>2 DEF RunsInv
    <2>3. CASE k = n \/ m = n
      BY <1>7, <2>1, <2>3
    <2> QED  BY <2>2, <2>3
  <1> QED  BY <1>1, <1>6, <1>9, <1>10, <1>11, <1>12 DEF RunsInv

-----------------------------------------------------------------------------
(* The invariant is inductive, and the theorem.                             *)

LEMMA Initially == PlansInit => PlansInv
  <1> SUFFICES ASSUME PlansInit PROVE PlansInv
    OBVIOUS
  <1> USE DEF PlansInit, InputsInit
  <1>1. AssignmentsInv
    <2>1. DOMAIN assignments = 1 .. 0 /\ assignments = [i \in 1 .. 0 |-> assignments[i]]
      OBVIOUS
    <2> QED  BY <2>1 DEF AssignmentsInv
  <1>2. TableInv(strategies) /\ TableInv(policies)
    BY DEF TableInv, OneActive
  <1>3. VersionsInv /\ RunsInv
    BY DEF VersionsInv, RunsInv
  <1> QED  BY <1>1, <1>2, <1>3 DEF PlansInv

LEMMA ConfigureStep == PlansInv /\ Configure => PlansInv'
  <1> SUFFICES ASSUME PlansInv, Configure PROVE PlansInv'
    OBVIOUS
  <1> USE DEF PlansInv
  <1>1. CASE \E c \in BaseCalendar : CreateCalendar(c)
    BY <1>1 DEF CreateCalendar, AssignmentsInv, VersionsInv, RunsInv, RunInv
  <1>2. CASE \E a \in Assignment : CreateAssignment(a)
    <2>1. AssignmentsInv'
      BY <1>2, AssignmentStep
    <2> QED  BY <1>2, <2>1 DEF CreateAssignment, VersionsInv, RunsInv, RunInv
  <1>3. CASE \E o \in Override : CreateOverride(o)
    BY <1>3 DEF CreateOverride, AssignmentsInv, VersionsInv, RunsInv, RunInv
  <1>4. CASE \E s \in Strategy : CreateStrategy(s)
    <2>1. TableInv(strategies')
      BY <1>4, CreatedKeepsOne, InputsAssumption DEF CreateStrategy
    <2> QED  BY <1>4, <2>1 DEF CreateStrategy, AssignmentsInv, VersionsInv, RunsInv, RunInv
  <1>5. CASE \E p \in Policy : CreatePolicy(p)
    <2>1. TableInv(policies')
      BY <1>5, CreatedKeepsOne, InputsAssumption DEF CreatePolicy
    <2> QED  BY <1>5, <2>1 DEF CreatePolicy, AssignmentsInv, VersionsInv, RunsInv, RunInv
  <1>6. CASE \E v \in Version : CreateVersion(v)
    <2>1. VersionsInv'
      BY <1>6, CreateVersionStep
    <2> QED  BY <1>6, <2>1 DEF CreateVersion, AssignmentsInv, RunsInv, RunInv
  <1>7. CASE \E id \in Ids(Version) : PublishVersion(id) \/ RollbackVersion(id) \/ RetireVersion(id)
    <2>1. VersionsInv'
      BY <1>7, InForceStep, RetireVersionStep DEF PublishVersion, RollbackVersion
    <2>2. UNCHANGED <<assignments, strategies, policies, runs>>
      BY <1>7 DEF PublishVersion, RollbackVersion, RetireVersion
    <2> QED  BY <2>1, <2>2 DEF AssignmentsInv, RunsInv, RunInv
  <1> QED  BY <1>1, <1>2, <1>3, <1>4, <1>5, <1>6, <1>7 DEF Configure

LEMMA Inductive == PlansInv /\ [PlansNext]_planVars => PlansInv'
  <1> SUFFICES ASSUME PlansInv, [PlansNext]_planVars PROVE PlansInv'
    OBVIOUS
  <1>1. CASE Configure
    BY <1>1, ConfigureStep
  <1>2. ASSUME RunsInv', UNCHANGED <<assignments, versions, strategies, policies>>
        PROVE  PlansInv'
    BY <1>2 DEF PlansInv, AssignmentsInv, VersionsInv
  <1>3. CASE \E q \in RunRequest : AskForRun(q)
    <2>1. RunsInv'
      BY <1>3, CreateRunStep DEF AskForRun, PlansInv
    <2> QED  BY <1>2, <1>3, <2>1 DEF AskForRun, CreateRun
  <1>4. CASE \E n \in DOMAIN runs, outcome \in {"Feasible", "Infeasible", "Error"},
               retried \in BOOLEAN : Solve(n, outcome, retried)
    <2>1. RunsInv'
      BY <1>4, ExecuteRunStep DEF Solve, PlansInv
    <2> QED  BY <1>2, <1>4, <2>1 DEF Solve, ExecuteRun
  <1>5. CASE \E n \in DOMAIN runs, role \in Role, action \in {"Review", "Approve", "Revoke"} :
               Move(n, action, role)
    <2>1. RunsInv'
      BY <1>5, MoveStep DEF PlansInv
    <2> QED  BY <1>2, <1>5, <2>1 DEF Move
  <1>6. CASE \E n \in DOMAIN runs, role \in Role : Publish(n, role)
    <2>1. RunsInv'
      BY <1>6, PublishStep DEF PlansInv
    <2> QED  BY <1>2, <1>6, <2>1 DEF Publish
  <1>7. CASE UNCHANGED planVars
    <2>1. RunsInv'
      BY <1>7 DEF PlansInv, RunsInv, RunInv, planVars, inputVars
    <2> QED  BY <1>2, <1>7, <2>1 DEF planVars, inputVars
  <1> QED  BY <1>1, <1>3, <1>4, <1>5, <1>6, <1>7 DEF PlansNext

\* Whatever is created, replaced, brought back, revoked and published, and in
\* whatever order, one of a kind is in force, and a plan that gave way and the
\* plan that took its place name each other.
THEOREM OneOfAKind == PlansSpec => []OneInForce
  <1>1. PlansInit => PlansInv
    BY Initially
  <1>2. PlansInv /\ [PlansNext]_planVars => PlansInv'
    BY Inductive
  <1>3. PlansInv => OneInForce
    BY Enough
  <1> QED  BY <1>1, <1>2, <1>3, PTL DEF PlansSpec
-----------------------------------------------------------------------------
(* A run is planned as its planner was shown.                               *)

\* No two rules have one name.
RulesInv ==
  /\ calendars \subseteq BaseCalendar /\ \A c, d \in calendars : c.id = d.id => c = d
  /\ \A o, p \in overrides : o.id = p.id => o = p
  /\ \A i \in DOMAIN assignments : {"id", "calendar"} \subseteq DOMAIN assignments[i]
  /\ \A i, j \in DOMAIN assignments : assignments[i].id = assignments[j].id => i = j

DataInv ==
  /\ IsFiniteSet(DOMAIN versions)
  /\ \A v \in DOMAIN versions :
       /\ {"captured", "resources"} \subseteq DOMAIN versions[v]
       /\ \E w \in Version : /\ versions[v].captured = w.captured
                             /\ versions[v].resources = w.resources

\* The plan a run would get now is the one shown when it was created.
RunShown(n) ==
  /\ n \in DOMAIN shown
  /\ {"version", "frozen"} \subseteq DOMAIN runs[n]
  /\ runs[n].version \in DOMAIN versions
  /\ Plan(runs[n]) = shown[n]
  /\ runs[n].plan \in {Nothing, shown[n]}

ShownInv == RulesInv /\ DataInv /\ \A n \in DOMAIN runs : RunShown(n)

\* Leaving out the rules that are not active before they are applied makes no
\* difference.
LEMMA ActiveOfActive ==
  ASSUME NEW rules
  PROVE  Active(Active(rules)) = Active(rules)
  BY DEF Active

KeptActive(made) == RestrictValues(made, LAMBDA a : a.status = "Active")

LEMMA FrozenApplicable ==
  ASSUME NEW r, NEW cals, NEW made
  PROVE  /\ Applicable(r, Active(cals), KeptActive(made)) = Applicable(r, cals, made)
         /\ \A i \in Applicable(r, cals, made) : KeptActive(made)[i] = made[i]
  <1>1. /\ DOMAIN KeptActive(made) = {i \in DOMAIN made : made[i].status = "Active"}
        /\ \A i \in DOMAIN KeptActive(made) : KeptActive(made)[i] = made[i]
    BY DEF KeptActive, RestrictValues, Restrict
  <1>2. Applicable(r, Active(cals), KeptActive(made)) = Applicable(r, cals, made)
    BY <1>1, ActiveOfActive DEF Applicable
  <1>3. \A i \in Applicable(r, cals, made) : KeptActive(made)[i] = made[i]
    BY <1>1 DEF Applicable
  <1> QED  BY <1>2, <1>3

LEMMA FrozenAssigned ==
  ASSUME NEW r, NEW cals, NEW made, NEW n \in Nat, DOMAIN made = 1 .. n
  PROVE  Assigned(r, Active(cals), KeptActive(made)) = Assigned(r, cals, made)
  <1> DEFINE applicable == Applicable(r, cals, made)
  <1>1. Applicable(r, Active(cals), KeptActive(made)) = applicable
    BY FrozenApplicable
  <1>2. \A i \in applicable : KeptActive(made)[i] = made[i]
    BY FrozenApplicable
  <1>3. CASE applicable = {}
    BY <1>1, <1>3 DEF Assigned
  <1>4. CASE applicable # {}
    <2>1. applicable \in SUBSET (1 .. n)
      BY DEF Applicable
    <2>2. IsFiniteSet(applicable) /\ applicable \in SUBSET Int
      BY <2>1, FS_Interval, FS_Subset
    <2> HIDE DEF applicable
    <2>3. Max(applicable) \in applicable
      BY <1>4, <2>2, Greatest
    <2>4. KeptActive(made)[Max(applicable)].calendar = made[Max(applicable)].calendar
      BY <1>2, <2>3
    <2> DEFINE Named(from, id) == CHOOSE c \in from : c.id = id
    <2>5. Assigned(r, cals, made) =
            [r EXCEPT !.calendar = WorkCalendar(
               Named(Active(cals), made[Max(applicable)].calendar))]
      BY <1>4 DEF Assigned, applicable
    <2>6. Assigned(r, Active(cals), KeptActive(made)) =
            [r EXCEPT !.calendar = WorkCalendar(
               Named(Active(Active(cals)), KeptActive(made)[Max(applicable)].calendar))]
      BY <1>1, <1>4 DEF Assigned
    <2> HIDE DEF Named
    <2> QED  BY <2>4, <2>5, <2>6, ActiveOfActive
  <1> QED  BY <1>3, <1>4

LEMMA FrozenSuffices ==
  ASSUME NEW resources, NEW cals, NEW made, NEW over, NEW n \in Nat, DOMAIN made = 1 .. n
  PROVE  Windows(resources, Active(cals), KeptActive(made), Active(over))
           = Windows(resources, cals, made, over)
  <1>1. \A r : Overridden(r, Active(over)) = Overridden(r, over)
    BY ActiveOfActive DEF Overridden
  <1>2. \A r : Prepared(r, Active(cals), KeptActive(made), Active(over))
               = Prepared(r, cals, made, over)
    BY <1>1, FrozenAssigned DEF Prepared
  <1>3. \A id : CapacityBuckets(Prepared(CHOOSE x \in resources : x.id = id, Active(cals),
                                        KeptActive(made), Active(over)))
                = CapacityBuckets(Prepared(CHOOSE x \in resources : x.id = id, cals, made, over))
    BY <1>2
  <1> QED  BY <1>3 DEF Windows

\* What is frozen when a run is created gives the windows shown then.
LEMMA ShownAtFirst ==
  ASSUME AssignmentsInv, NEW run, run.frozen = FrozenInputs
  PROVE  Plan(run) = Preview(versions[run.version])
  BY FrozenSuffices DEF Plan, Preview, FrozenInputs, KeptActive, AssignmentsInv

\* Master data keep their resources for ever.
ResourcesStand ==
  \A v \in DOMAIN versions :
    v \in DOMAIN versions' /\ versions'[v].resources = versions[v].resources

LEMMA RunKept ==
  ASSUME NEW n, RunShown(n), ResourcesStand,
         n \in DOMAIN shown', shown'[n] = shown[n],
         {"version", "frozen"} \subseteq DOMAIN runs'[n],
         runs'[n].version = runs[n].version, runs'[n].frozen = runs[n].frozen,
         runs'[n].plan \in {Nothing, runs[n].plan, Plan(runs[n])}
  PROVE  RunShown(n)'
  <1>1. runs[n].version \in DOMAIN versions
    BY DEF RunShown
  <1>2. Plan(runs[n])' = Plan(runs[n])
    BY <1>1 DEF Plan, ResourcesOf, ResourcesStand
  <1>3. Plan(runs[n]) = shown[n] /\ runs[n].plan \in {Nothing, shown[n]}
    BY DEF RunShown
  <1>4. runs'[n].version \in DOMAIN versions'
    BY <1>1 DEF ResourcesStand
  <1>5. Plan(runs[n])' = shown'[n]
    BY <1>2, <1>3
  <1>6. runs'[n].plan \in {Nothing, shown'[n]}
    BY <1>3
  <1> QED  BY <1>4, <1>5, <1>6 DEF RunShown

\* A new version stands beside the others.
LEMMA DataStep ==
  ASSUME DataInv,
         \/ \E v \in Version : CreateVersion(v)
         \/ \E id \in DOMAIN versions : versions' = InForce(id) \/ RetireVersion(id)
  PROVE  DataInv' /\ ResourcesStand
  <1>1. CASE \E v \in Version : CreateVersion(v)
    <2>1. PICK v \in Version : CreateVersion(v)
      BY <1>1
    <2> DEFINE created == [id |-> v.id, captured |-> v.captured, valid |-> v.valid,
                           resources |-> v.resources, publication |-> "Draft"]
    <2>2. /\ {"captured", "resources"} \subseteq DOMAIN created
          /\ created.captured = v.captured /\ created.resources = v.resources
      OBVIOUS
    <2>3. versions' = Put(versions, v.id, created) /\ v.id \notin DOMAIN versions
      BY <2>1 DEF CreateVersion
    <2> HIDE DEF created
    <2>4. /\ DOMAIN versions' = DOMAIN versions \cup {v.id} /\ versions'[v.id] = created
          /\ \A w \in DOMAIN versions : versions'[w] = versions[w]
      BY <2>3 DEF Put
    <2>5. IsFiniteSet(DOMAIN versions')
      BY <2>4, FS_AddElement DEF DataInv
    <2> QED  BY <2>2, <2>4, <2>5 DEF DataInv, ResourcesStand
  <1>2. CASE \E id \in DOMAIN versions : versions' = InForce(id) \/ RetireVersion(id)
    <2>1. DOMAIN versions' = DOMAIN versions
      BY <1>2 DEF InForce, RetireVersion
    <2>2. ASSUME NEW v \in DOMAIN versions
          PROVE  /\ {"captured", "resources"} \subseteq DOMAIN versions'[v]
                 /\ versions'[v].captured = versions[v].captured
                 /\ versions'[v].resources = versions[v].resources
      <3>1. {"captured", "resources"} \subseteq DOMAIN versions[v]
        BY DEF DataInv
      <3>2. \E p : versions'[v] = [versions[v] EXCEPT !.publication = p] \/ versions'[v] = versions[v]
        <4>1. PICK id \in DOMAIN versions : versions' = InForce(id) \/ RetireVersion(id)
          BY <1>2
        <4>2. CASE versions' = InForce(id)
          BY <4>2, Zenon DEF InForce
        <4>3. CASE RetireVersion(id)
          BY <4>3 DEF RetireVersion
        <4> QED  BY <4>1, <4>2, <4>3
      <3> QED  BY <3>1, <3>2
    <2> QED  BY <2>1, <2>2 DEF DataInv, ResourcesStand
  <1> QED  BY <1>1, <1>2

\* A rule is made once.
LEMMA RulesStep ==
  ASSUME AssignmentsInv, RulesInv,
         \/ \E c \in BaseCalendar : CreateCalendar(c)
         \/ \E a \in Assignment : CreateAssignment(a)
         \/ \E o \in Override : CreateOverride(o)
  PROVE  RulesInv'
  <1>1. CASE \E c \in BaseCalendar : CreateCalendar(c)
    BY <1>1 DEF CreateCalendar, RulesInv, Ids
  <1>2. CASE \E o \in Override : CreateOverride(o)
    BY <1>2 DEF CreateOverride, RulesInv, Ids
  <1>3. ASSUME NEW a \in Assignment, CreateAssignment(a)
        PROVE  RulesInv'
    <2> DEFINE rest == IF a.status = "Active" THEN RetireOthers(assignments, a.resource)
                       ELSE assignments
    <2>1. PICK n \in Nat :
            DOMAIN assignments = 1 .. n /\ assignments = [i \in 1 .. n |-> assignments[i]]
      BY DEF AssignmentsInv
    <2>2. {"id", "calendar"} \subseteq DOMAIN a
      BY InputsAssumption
    <2>3. /\ DOMAIN rest = 1 .. n /\ rest = [i \in 1 .. n |-> rest[i]]
          /\ \A i \in 1 .. n : {"id", "calendar"} \subseteq DOMAIN rest[i]
                               /\ rest[i].id = assignments[i].id
      <3>1. CASE a.status # "Active"
        BY <2>1, <3>1 DEF RulesInv
      <3>2. CASE a.status = "Active"
        <4>1. rest = [i \in 1 .. n |->
                        IF assignments[i].resource = a.resource /\ assignments[i].status = "Active"
                        THEN [assignments[i] EXCEPT !.status = "Retired"] ELSE assignments[i]]
          BY <2>1, <3>2 DEF RetireOthers
        <4>2. \A i \in 1 .. n : {"id", "calendar"} \subseteq DOMAIN assignments[i]
          BY <2>1 DEF RulesInv
        <4> HIDE DEF rest
        <4>3. ASSUME NEW i \in 1 .. n
              PROVE  {"id", "calendar"} \subseteq DOMAIN rest[i] /\ rest[i].id = assignments[i].id
          <5>1. rest[i] \in {assignments[i], [assignments[i] EXCEPT !.status = "Retired"]}
            BY <4>1
          <5> QED  BY <4>2, <5>1
        <4> QED  BY <4>1, <4>3
      <3> QED  BY <3>1, <3>2
    <2>4. assignments' = Append(rest, a)
      BY <1>3 DEF CreateAssignment
    <2> HIDE DEF rest
    <2>5. /\ DOMAIN assignments' = 1 .. (n + 1)
          /\ assignments'[n + 1] = a /\ \A i \in 1 .. n : assignments'[i] = rest[i]
      BY <2>3, <2>4, AppendAtEnd
    <2>6. \A i \in 1 .. (n + 1) : {"id", "calendar"} \subseteq DOMAIN assignments'[i]
      BY <2>2, <2>3, <2>5
    <2>7. \A i \in 1 .. n : assignments[i].id # a.id
      BY <1>3, <2>1 DEF CreateAssignment
    <2>8. ASSUME NEW i \in 1 .. (n + 1), NEW j \in 1 .. (n + 1),
                 assignments'[i].id = assignments'[j].id
          PROVE  i = j
      <3>1. CASE i \in 1 .. n /\ j \in 1 .. n
        BY <2>1, <2>3, <2>5, <2>8, <3>1 DEF RulesInv
      <3>2. CASE i = n + 1 \/ j = n + 1
        BY <2>3, <2>5, <2>7, <2>8, <3>2
      <3> QED  BY <3>1, <3>2
    <2>9. UNCHANGED <<calendars, overrides>>
      BY <1>3 DEF CreateAssignment
    <2> QED  BY <2>5, <2>6, <2>8, <2>9 DEF RulesInv
  <1> QED  BY <1>1, <1>2, <1>3

\* Each operation on runs leaves the frozen copies alone.
LEMMA ShownStep ==
  ASSUME PlansInv, ShownInv, [PlansNext]_planVars
  PROVE  ShownInv'
  <1> USE DEF ShownInv
  <1>1. \A n \in DOMAIN runs :
          RunShown(n) /\ n \in DOMAIN shown /\ {"version", "frozen"} \subseteq DOMAIN runs[n]
                      /\ "plan" \in DOMAIN runs[n]
    BY DEF RunShown, PlansInv, RunsInv, RunInv, RunFields
  <1>2. ASSUME UNCHANGED versions PROVE DataInv' /\ ResourcesStand
    BY <1>2 DEF DataInv, ResourcesStand
  <1>3. ASSUME UNCHANGED <<calendars, assignments, overrides>> PROVE RulesInv'
    BY <1>3 DEF RulesInv
  <1>4. ASSUME UNCHANGED <<runs, shown>>, ResourcesStand
        PROVE  \A n \in DOMAIN runs' : RunShown(n)'
    <2>1. ASSUME NEW n \in DOMAIN runs PROVE RunShown(n)'
      BY <1>1, <1>4, RunKept
    <2> QED  BY <1>4, <2>1
  <1>5. CASE Configure
    <2>1. UNCHANGED <<runs, shown>>
      BY <1>5 DEF Configure, CreateCalendar, CreateAssignment, CreateOverride, CreateStrategy,
                  CreatePolicy, CreateVersion, PublishVersion, RollbackVersion, RetireVersion
    <2>2. CASE UNCHANGED <<calendars, assignments, overrides, versions>>
      BY <1>2, <1>3, <1>4, <2>1, <2>2
    <2>3. CASE /\ UNCHANGED versions
               /\ \/ \E c \in BaseCalendar : CreateCalendar(c)
                  \/ \E a \in Assignment : CreateAssignment(a)
                  \/ \E o \in Override : CreateOverride(o)
      BY <1>2, <1>4, <2>1, <2>3, RulesStep DEF PlansInv
    <2>4. CASE /\ UNCHANGED <<calendars, assignments, overrides>>
               /\ \/ \E v \in Version : CreateVersion(v)
                  \/ \E id \in DOMAIN versions : versions' = InForce(id) \/ RetireVersion(id)
      BY <1>3, <1>4, <2>1, <2>4, DataStep
    <2>5. \/ UNCHANGED <<calendars, assignments, overrides, versions>>
          \/ /\ UNCHANGED versions
             /\ \/ \E c \in BaseCalendar : CreateCalendar(c)
                \/ \E a \in Assignment : CreateAssignment(a)
                \/ \E o \in Override : CreateOverride(o)
          \/ /\ UNCHANGED <<calendars, assignments, overrides>>
             /\ \/ \E v \in Version : CreateVersion(v)
                \/ \E id \in DOMAIN versions : versions' = InForce(id) \/ RetireVersion(id)
      <3>1. CASE \E c \in BaseCalendar : CreateCalendar(c)
        BY <3>1 DEF CreateCalendar
      <3>2. CASE \E a \in Assignment : CreateAssignment(a)
        BY <3>2 DEF CreateAssignment
      <3>3. CASE \E o \in Override : CreateOverride(o)
        BY <3>3 DEF CreateOverride
      <3>4. CASE \/ \E s \in Strategy : CreateStrategy(s)
                 \/ \E p \in Policy : CreatePolicy(p)
        BY <3>4 DEF CreateStrategy, CreatePolicy
      <3>5. CASE \E v \in Version : CreateVersion(v)
        BY <3>5 DEF CreateVersion
      <3>6. CASE \E id \in Ids(Version) :
                   PublishVersion(id) \/ RollbackVersion(id) \/ RetireVersion(id)
        BY <3>6 DEF PublishVersion, RollbackVersion, RetireVersion
      <3> QED  BY <1>5, <3>1, <3>2, <3>3, <3>4, <3>5, <3>6 DEF Configure
    <2> QED  BY <2>2, <2>3, <2>4, <2>5
  <1>6. CASE \E q \in RunRequest : AskForRun(q)
    <2>1. PICK q \in RunRequest : AskForRun(q)
      BY <1>6
    <2>2. UNCHANGED <<calendars, assignments, overrides, versions, strategies, policies>>
      BY <2>1 DEF AskForRun, CreateRun
    <2>3. /\ q.id \notin DOMAIN runs /\ q.version \in DOMAIN versions
          /\ DOMAIN runs' = DOMAIN runs \cup {q.id}
          /\ \A n \in DOMAIN runs : runs'[n] = runs[n]
          /\ {"version", "frozen"} \subseteq DOMAIN runs'[q.id]
          /\ runs'[q.id].version = q.version /\ runs'[q.id].frozen = FrozenInputs
          /\ runs'[q.id].plan = Nothing
      BY <2>1 DEF AskForRun, CreateRun, Put
    <2>4. /\ q.id \in DOMAIN shown' /\ shown'[q.id] = Preview(versions[q.version])
          /\ \A n \in DOMAIN shown : n # q.id => n \in DOMAIN shown' /\ shown'[n] = shown[n]
      BY <2>1 DEF AskForRun, Put
    <2>5. ASSUME NEW n \in DOMAIN runs PROVE RunShown(n)'
      <3>1. n \in DOMAIN shown' /\ shown'[n] = shown[n] /\ runs'[n] = runs[n]
        BY <1>1, <2>3, <2>4
      <3>2. ResourcesStand
        BY <1>2, <2>2
      <3> QED  BY <1>1, <3>1, <3>2, RunKept
    <2>6. RunShown(q.id)'
      <3>1. Plan(runs'[q.id]) = Preview(versions[q.version])
        BY <2>3, ShownAtFirst DEF PlansInv
      <3>2. Plan(runs[q.id])' = Plan(runs'[q.id])
        BY <2>2 DEF Plan
      <3> QED  BY <2>2, <2>3, <2>4, <3>1, <3>2 DEF RunShown
    <2> QED  BY <1>2, <1>3, <2>2, <2>3, <2>5, <2>6
  <1>7. CASE \E n \in DOMAIN runs, outcome \in {"Feasible", "Infeasible", "Error"},
               retried \in BOOLEAN : Solve(n, outcome, retried)
    <2>1. PICK n \in DOMAIN runs, outcome \in {"Feasible", "Infeasible", "Error"},
               retried \in BOOLEAN : Solve(n, outcome, retried)
      BY <1>7
    <2>2. UNCHANGED <<calendars, assignments, overrides, versions, strategies, policies, shown>>
      BY <2>1 DEF Solve, ExecuteRun
    <2>3. /\ DOMAIN runs' = DOMAIN runs
          /\ \A m \in DOMAIN runs : m # n => runs'[m] = runs[m]
      BY <2>1 DEF Solve, ExecuteRun
    <2>4. /\ {"version", "frozen"} \subseteq DOMAIN runs'[n]
          /\ runs'[n].version = runs[n].version /\ runs'[n].frozen = runs[n].frozen
          /\ runs'[n].plan \in {Nothing, Plan(runs[n])}
      BY <1>1, <2>1 DEF Solve, ExecuteRun
    <2>5. ResourcesStand
      BY <1>2, <2>2
    <2>6. ASSUME NEW m \in DOMAIN runs PROVE RunShown(m)'
      BY <1>1, <2>2, <2>3, <2>4, <2>5, RunKept
    <2> QED  BY <1>2, <1>3, <2>2, <2>3, <2>6
  <1>8. ASSUME NEW n, NEW role,
               Publish(n, role) \/ \E action \in {"Review", "Approve", "Revoke"} : Move(n, action, role)
        PROVE  ShownInv'
    <2>1. UNCHANGED <<calendars, assignments, overrides, versions, strategies, policies, shown>>
      BY <1>8 DEF Publish, Move
    <2>2. DOMAIN runs' = DOMAIN runs
      BY <1>8 DEF Publish, Move
    <2>3. ASSUME NEW m \in DOMAIN runs
          PROVE  /\ {"version", "frozen"} \subseteq DOMAIN runs'[m]
                 /\ runs'[m].version = runs[m].version /\ runs'[m].frozen = runs[m].frozen
                 /\ runs'[m].plan = runs[m].plan
      <3>1. \/ runs'[m] = runs[m]
            \/ \E p : runs'[m] = [runs[m] EXCEPT !.publication = p]
            \/ \E p, k, s : runs'[m] = [runs[m] EXCEPT !.publication = p, !.package = k,
                                                       !.supersedes = s]
            \/ \E p, s : runs'[m] = [runs[m] EXCEPT !.publication = p, !.supersededBy = s]
        <4>1. CASE Publish(n, role)
          <5>1. CASE m = n
            <6>1. runs'[m] = [runs[m] EXCEPT !.publication = "Published",
                                !.package = Package(runs[n]), !.supersedes = Supersedes(n)]
              BY <4>1, <5>1 DEF Publish, Superseded
            <6> QED  BY <6>1
          <5>2. CASE m # n /\ m \in Superseded(n)
            BY <4>1, <5>2 DEF Publish
          <5>3. CASE m # n /\ m \notin Superseded(n)
            BY <4>1, <5>3 DEF Publish
          <5> QED  BY <5>1, <5>2, <5>3
        <4>2. CASE \E action \in {"Review", "Approve", "Revoke"} : Move(n, action, role)
          BY <4>2 DEF Move
        <4> QED  BY <1>8, <4>1, <4>2
      <3>2. {"version", "frozen", "plan"} \subseteq DOMAIN runs[m]
        BY <1>1
      <3> QED  BY <3>1, <3>2
    <2>4. ResourcesStand
      BY <1>2, <2>1
    <2>5. ASSUME NEW m \in DOMAIN runs PROVE RunShown(m)'
      BY <1>1, <2>1, <2>2, <2>3, <2>4, RunKept
    <2> QED  BY <1>2, <1>3, <2>1, <2>2, <2>5
  <1>9. CASE UNCHANGED planVars
    BY <1>2, <1>3, <1>4, <1>9 DEF planVars, inputVars
  <1> QED  BY <1>5, <1>6, <1>7, <1>8, <1>9 DEF PlansNext

-----------------------------------------------------------------------------
(* What the pages say of a rule.                                            *)

LEMMA LatestIsThere ==
  ASSUME DataInv, DOMAIN versions # {}
  PROVE  Latest \in DOMAIN versions
  <1> DEFINE Captured(v) == versions[v].captured
             captured == {Captured(v) : v \in DOMAIN versions}
             image == [v \in DOMAIN versions |-> Captured(v)]
  <1>1. captured \in SUBSET Int /\ captured # {}
    BY InputsAssumption DEF DataInv
  <1>2. IsFiniteSet(captured)
    <2>1. image \in [DOMAIN versions -> captured]
      OBVIOUS
    <2>2. captured = {image[v] : v \in DOMAIN versions}
      OBVIOUS
    <2>3. image \in Surjection(DOMAIN versions, captured)
      BY <2>1, <2>2 DEF Surjection
    <2> QED  BY <2>3, FS_Surjection DEF DataInv
  <1>3. Max(captured) \in captured /\ \A m \in captured : m <= Max(captured)
    <2> HIDE DEF captured
    <2> QED  BY <1>1, <1>2, Greatest
  <1>4. \E v \in DOMAIN versions : \A w \in DOMAIN versions :
          versions[w].captured <= versions[v].captured
    BY <1>3
  <1> QED  BY <1>4 DEF Latest

\* The rules applied in a run created now.
Now == AppliedRules([version |-> Latest, frozen |-> FrozenInputs])

ResourcesNow == versions[Latest].resources
InForceFor(r) == Applicable(r, calendars, assignments)

LEMMA AppliedNow ==
  ASSUME AssignmentsInv, NEW id
  PROVE  /\ id \in Now.assignments <=>
              \E r \in ResourcesNow : \E i \in InForceFor(r) : assignments[i].id = id
         /\ id \in Now.calendars <=>
              \E r \in ResourcesNow : \E i \in InForceFor(r) : assignments[i].calendar = id
         /\ id \in Now.overrides <=>
              \E o \in Active(overrides) :
                /\ o.id = id
                /\ \E r \in ResourcesNow :
                     LET assigned == Assigned(r, calendars, assignments)
                     IN Matches(o, assigned)
                        /\ (o.type = "ExclusionOrMaintenance" => assigned.calendar # Nothing)
  <1> DEFINE Made(resources, cals, as) ==
               UNION {{as[i] : i \in Applicable(r, cals, as)} : r \in resources}
             Concerning(o, resources, cals, as) == \E r \in resources :
               LET assigned == Assigned(r, cals, as)
               IN Matches(o, assigned)
                  /\ (o.type = "ExclusionOrMaintenance" => assigned.calendar # Nothing)
             Rules(resources, cals, as, over) ==
               [assignments |-> Ids(Made(resources, cals, as)),
                calendars |-> {a.calendar : a \in Made(resources, cals, as)},
                overrides |-> Ids({o \in over : Concerning(o, resources, cals, as)})]
             frozen == KeptActive(assignments)
             made == UNION {{frozen[i] : i \in Applicable(r, Active(calendars), frozen)} :
                              r \in ResourcesNow}
             Concerned(o) == \E r \in ResourcesNow :
               LET assigned == Assigned(r, Active(calendars), frozen)
               IN Matches(o, assigned)
                  /\ (o.type = "ExclusionOrMaintenance" => assigned.calendar # Nothing)
  <1>1. Now = [assignments |-> Ids(made), calendars |-> {a.calendar : a \in made},
               overrides |-> Ids({o \in Active(overrides) : Concerned(o)})]
    <2>1. \A run : AppliedRules(run) =
            Rules(versions[run.version].resources, run.frozen.calendars, run.frozen.assignments,
                  run.frozen.overrides)
      BY DEF AppliedRules, ResourcesOf
    <2>2. /\ FrozenInputs.calendars = Active(calendars) /\ FrozenInputs.assignments = frozen
          /\ FrozenInputs.overrides = Active(overrides)
      BY DEF FrozenInputs, KeptActive
    <2>3. Rules(ResourcesNow, Active(calendars), frozen, Active(overrides)) =
            [assignments |-> Ids(made), calendars |-> {a.calendar : a \in made},
             overrides |-> Ids({o \in Active(overrides) : Concerned(o)})]
      OBVIOUS
    <2> HIDE DEF Rules, frozen, made, Concerned
    <2>4. PICK run : run = [version |-> Latest, frozen |-> FrozenInputs]
      OBVIOUS
    <2>5. run.version = Latest /\ run.frozen = FrozenInputs
      BY <2>4
    <2>6. Now = Rules(ResourcesNow, Active(calendars), frozen, Active(overrides))
      BY <2>1, <2>2, <2>4, <2>5 DEF Now, ResourcesNow
    <2> QED  BY <2>3, <2>6
  <1>2. \A r : /\ Applicable(r, Active(calendars), frozen) = InForceFor(r)
               /\ \A i \in InForceFor(r) : frozen[i] = assignments[i]
    BY FrozenApplicable DEF InForceFor
  <1>3. \A r : Assigned(r, Active(calendars), frozen) = Assigned(r, calendars, assignments)
    BY FrozenAssigned DEF AssignmentsInv
  <1> HIDE DEF frozen
  <1>4. /\ Now.assignments = Ids(made) /\ Now.calendars = {a.calendar : a \in made}
        /\ Now.overrides = Ids({o \in Active(overrides) : Concerned(o)})
    <2> HIDE DEF made, Concerned
    <2> QED  BY <1>1
  <1>5. \A x : x \in made <=> \E r \in ResourcesNow : \E i \in InForceFor(r) : x = assignments[i]
    BY <1>2
  <1>6. /\ id \in Now.assignments <=>
              \E r \in ResourcesNow : \E i \in InForceFor(r) : assignments[i].id = id
        /\ id \in Now.calendars <=>
              \E r \in ResourcesNow : \E i \in InForceFor(r) : assignments[i].calendar = id
    <2> HIDE DEF made
    <2> QED  BY <1>4, <1>5 DEF Ids
  <1>7. \A o : Concerned(o) <=>
          \E r \in ResourcesNow :
            LET assigned == Assigned(r, calendars, assignments)
            IN Matches(o, assigned)
               /\ (o.type = "ExclusionOrMaintenance" => assigned.calendar # Nothing)
    BY <1>3
  <1>8. id \in Now.overrides <=> \E o \in Active(overrides) : o.id = id /\ Concerned(o)
    <2> HIDE DEF Concerned
    <2> QED  BY <1>4 DEF Ids
  <1> HIDE DEF Concerned
  <1> QED  BY <1>6, <1>7, <1>8

\* The working calendar of a resource keeps its name, whatever is closed or added.
LEMMA CalendarStays ==
  ASSUME NEW r, NEW over, {"id", "calendar"} \subseteq DOMAIN r,
         r.calendar # Nothing => "id" \in DOMAIN r.calendar
  PROVE  LET final == Overridden(r, over)
         IN IF r.calendar = Nothing THEN final.calendar = Nothing
            ELSE final.calendar.id = r.calendar.id
  <1> DEFINE matched == {o \in Active(over) : Matches(o, r)}
             exclusions == {o \in matched : o.type = "ExclusionOrMaintenance"}
             closed == {[start |-> o.start, end |-> o.end] : o \in exclusions}
             added == {ExtraWindow(o) : o \in matched \ exclusions}
             extended == [r EXCEPT !.extra = @ \cup added]
  <1>1. extended.calendar = r.calendar /\ "calendar" \in DOMAIN extended
    <2> HIDE DEF added
    <2> QED  OBVIOUS
  <1>2. Overridden(r, over) = IF r.calendar = Nothing THEN extended
                              ELSE [extended EXCEPT !.calendar.maintenance = @ \cup closed]
    BY DEF Overridden
  <1> HIDE DEF extended, closed
  <1>3. CASE r.calendar = Nothing
    BY <1>1, <1>2, <1>3
  <1>4. CASE r.calendar # Nothing
    <2>1. Overridden(r, over).calendar
            = [extended.calendar EXCEPT !.maintenance = @ \cup closed]
      BY <1>1, <1>2, <1>4
    <2> QED  BY <1>1, <1>4, <2>1
  <1> QED  BY <1>3, <1>4

\* The calendar a resource is said to work by is that of its one active
\* assignment, or else its own.
LEMMA NamedGoverns ==
  ASSUME PlansInv, RulesInv, NEW r, {"id", "calendar"} \subseteq DOMAIN r,
         r.calendar # Nothing => "id" \in DOMAIN r.calendar,
         NamedCalendar(r) \in Ids(Active(calendars))
  PROVE  Governing(r) # Nothing /\ Governing(r).id = NamedCalendar(r)
  <1> DEFINE made == {i \in DOMAIN assignments :
                        assignments[i].status = "Active" /\ assignments[i].resource = r.id}
             final == Prepared(r, calendars, assignments, overrides)
             named == {c \in Active(calendars) : \E a \in Active(ToSet(assignments)) :
                         a.resource = r.id /\ a.calendar = c.id}
  <1>1. \A c \in Active(calendars) :
          c.id # Nothing /\ WorkCalendar(c) # Nothing /\ WorkCalendar(c).id = c.id
    BY InputsAssumption DEF RulesInv, Active, WorkCalendar
  <1>2. NamedCalendar(r) # Nothing
    BY <1>1 DEF Ids
  <1>3. \A c \in Active(calendars) :
          c \in named <=> \E i \in made : assignments[i].calendar = c.id
    BY DEF Active, ToSet
  <1>4. Governing(r) = IF named = {} THEN r.calendar ELSE WorkCalendar(CHOOSE c \in named : TRUE)
    BY DEF Governing
  <1>5. NamedCalendar(r) = IF made # {} THEN assignments[Min(made)].calendar
                           ELSE IF final.calendar = Nothing THEN Nothing ELSE final.calendar.id
    BY DEF NamedCalendar
  <1>6. named \subseteq Active(calendars)
    OBVIOUS
  <1> HIDE DEF named
  <1>7. CASE made # {}
    <2>1. \A i, j \in made : i = j
      BY DEF PlansInv, AssignmentsInv
    <2>2. \E i \in made : i = Min(made)
      <3>1. made \subseteq Nat
        BY DEF PlansInv, AssignmentsInv
      <3>2. PICK i \in made : TRUE
        BY <1>7
      <3>3. \A j \in made : i <= j
        BY <2>1, <3>1, <3>2
      <3>4. \E k \in made : \A j \in made : k <= j
        BY <3>2, <3>3
      <3> QED  BY <3>4 DEF Min
    <2>3. PICK i \in made : i = Min(made)
      BY <2>2
    <2>4. NamedCalendar(r) = assignments[i].calendar
      BY <1>5, <1>7, <2>3
    <2>5. PICK d \in Active(calendars) : d.id = NamedCalendar(r)
      BY DEF Ids
    <2> HIDE DEF made
    <2>6. d \in named
      BY <1>3, <2>3, <2>4, <2>5
    <2>7. \A c \in named : c.id = NamedCalendar(r)
      BY <1>3, <1>6, <2>1, <2>3, <2>4
    <2>8. PICK e \in named : e = CHOOSE c \in named : TRUE
      BY <2>6
    <2> QED  BY <1>1, <1>4, <1>6, <2>6, <2>7, <2>8
  <1>8. CASE made = {}
    <2>1. named = {}
      BY <1>3, <1>6, <1>8
    <2>2. Applicable(r, calendars, assignments) = {}
      BY <1>8 DEF Applicable
    <2>3. final = Overridden(r, overrides)
      BY <2>2 DEF Prepared, Assigned
    <2> HIDE DEF final
    <2>4. IF r.calendar = Nothing THEN final.calendar = Nothing
          ELSE final.calendar.id = r.calendar.id
      BY <2>3, CalendarStays
    <2>5. r.calendar # Nothing
      BY <1>2, <1>5, <1>8, <2>4
    <2> QED  BY <1>2, <1>4, <1>5, <1>8, <2>1, <2>4, <2>5
  <1> QED  BY <1>7, <1>8

LEMMA AssignmentStatusTrue ==
  ASSUME PlansInv, RulesInv, DOMAIN versions # {}, NEW a \in ToSet(assignments)
  PROVE  AssignmentStatus(a) = "Eligible"
           <=> a.id \in Now.assignments \ AppliedIn("assignments")
  <1>1. PICK k \in DOMAIN assignments : a = assignments[k]
    BY DEF ToSet
  <1>2. a.id \in Now.assignments <=>
          \E r \in ResourcesNow : \E i \in InForceFor(r) : assignments[i].id = a.id
    BY AppliedNow DEF PlansInv
  <1>3. a.id \in Now.assignments <=> \E r \in ResourcesNow : k \in InForceFor(r)
    BY <1>1, <1>2 DEF RulesInv, InForceFor, Applicable
  <1>4. a.id \in Now.assignments <=>
          /\ a.status = "Active" /\ a.resource \in Ids(ResourcesNow)
          /\ a.calendar \in Ids(Active(calendars))
    BY <1>1, <1>3 DEF InForceFor, Applicable, Ids
  <1>5. CASE a.id \in AppliedIn("assignments")
    BY <1>5 DEF AssignmentStatus
  <1>6. CASE a.id \notin AppliedIn("assignments")
    BY <1>4, <1>6 DEF AssignmentStatus, ResourcesNow
  <1> QED  BY <1>5, <1>6

LEMMA CalendarStatusTrue ==
  ASSUME PlansInv, RulesInv, NEW c \in calendars,
         c.id \in Now.calendars \ AppliedIn("calendars")
  PROVE  CalendarStatus(c) = "Eligible"
  <1>1. PICK r \in ResourcesNow : \E j \in InForceFor(r) : assignments[j].calendar = c.id
    BY AppliedNow DEF PlansInv
  <1>2. PICK i \in InForceFor(r) : assignments[i].calendar = c.id
    BY <1>1
  <1>3. /\ i \in DOMAIN assignments /\ assignments[i].status = "Active"
        /\ \E d \in Active(calendars) : d.id = c.id
    BY <1>2 DEF InForceFor, Applicable
  <1>4. c.status = "Active"
    BY <1>3 DEF RulesInv, Active
  <1>5. \E j \in DOMAIN assignments :
          assignments[j].status = "Active" /\ assignments[j].calendar = c.id
    BY <1>2, <1>3
  <1> QED  BY <1>4, <1>5 DEF CalendarStatus

LEMMA OverrideStatusTrue ==
  ASSUME PlansInv, RulesInv, DataInv, DOMAIN versions # {}, NEW o \in overrides,
         o.resource # Nothing, o.type # "ExclusionOrMaintenance"
  PROVE  OverrideStatus(o) = "Eligible" <=> o.id \in Now.overrides \ AppliedIn("overrides")
  <1>1. \A r \in ResourcesNow : "id" \in DOMAIN r
    BY LatestIsThere, InputsAssumption DEF DataInv, ResourcesNow
  <1>2. \A r \in ResourcesNow : Assigned(r, calendars, assignments).id = r.id
    <2>1. ASSUME NEW r \in ResourcesNow PROVE Assigned(r, calendars, assignments).id = r.id
      <3>1. \/ Assigned(r, calendars, assignments) = r
            \/ \E c : Assigned(r, calendars, assignments) = [r EXCEPT !.calendar = c]
        BY DEF Assigned
      <3> QED  BY <1>1, <3>1
    <2> QED  BY <2>1
  <1>3. \A r \in ResourcesNow :
          Matches(o, Assigned(r, calendars, assignments)) <=> Matches(o, r)
    BY <1>2 DEF Matches
  <1>4. o.id \in Now.overrides <=> o.status = "Active" /\ \E r \in ResourcesNow : Matches(o, r)
    <2>1. o.id \in Now.overrides <=>
            \E p \in Active(overrides) :
              /\ p.id = o.id
              /\ \E r \in ResourcesNow :
                   LET assigned == Assigned(r, calendars, assignments)
                   IN Matches(p, assigned)
                      /\ (p.type = "ExclusionOrMaintenance" => assigned.calendar # Nothing)
      BY AppliedNow DEF PlansInv
    <2>2. \A p \in Active(overrides) : p.id = o.id => p = o
      BY DEF RulesInv, Active
    <2>3. o \in Active(overrides) <=> o.status = "Active"
      BY DEF Active
    <2> QED  BY <1>3, <2>1, <2>2, <2>3
  <1>5. CASE o.id \in AppliedIn("overrides")
    BY <1>5 DEF OverrideStatus
  <1>6. CASE o.id \notin AppliedIn("overrides")
    BY <1>4, <1>6 DEF OverrideStatus, ResourcesNow
  <1> QED  BY <1>5, <1>6

LEMMA ShownEnough == PlansInv /\ ShownInv => PlannedAsShown
  <1> SUFFICES ASSUME PlansInv, ShownInv PROVE PlannedAsShown
    OBVIOUS
  <1>1. \A n \in DOMAIN runs : runs[n].plan # Nothing => runs[n].plan = shown[n]
    BY DEF ShownInv, RunShown
  <1>2. ASSUME DOMAIN versions # {} PROVE Statuses
    <2>1. ASSUME NEW r \in ResourcesNow, NamedCalendar(r) \in Ids(Active(calendars))
          PROVE  Governing(r) # Nothing /\ Governing(r).id = NamedCalendar(r)
      <3>1. /\ {"id", "calendar"} \subseteq DOMAIN r
            /\ r.calendar # Nothing => "id" \in DOMAIN r.calendar
        BY <1>2, LatestIsThere, InputsAssumption DEF ShownInv, DataInv, ResourcesNow
      <3> QED  BY <2>1, <3>1, NamedGoverns DEF ShownInv
    <2>2. \A a \in ToSet(assignments) : AssignmentStatus(a) = "Eligible"
            <=> a.id \in Now.assignments \ AppliedIn("assignments")
      BY <1>2, AssignmentStatusTrue DEF ShownInv
    <2>3. \A c \in calendars : c.id \in Now.calendars \ AppliedIn("calendars")
            => CalendarStatus(c) = "Eligible"
      BY CalendarStatusTrue DEF ShownInv
    <2>4. \A o \in overrides : o.resource # Nothing /\ o.type # "ExclusionOrMaintenance" =>
            (OverrideStatus(o) = "Eligible" <=> o.id \in Now.overrides \ AppliedIn("overrides"))
      BY <1>2, OverrideStatusTrue DEF ShownInv
    <2> QED  BY <2>1, <2>2, <2>3, <2>4, Zenon DEF Statuses, Now, ResourcesNow
  <1>3. Statuses
    BY <1>2 DEF Statuses
  <1> QED  BY <1>1, <1>3 DEF PlannedAsShown

LEMMA ShownInitially == PlansInit => ShownInv
  BY FS_EmptySet DEF PlansInit, InputsInit, ShownInv, RulesInv, DataInv

\* A run is planned on the windows its planner was shown when it was created,
\* whatever is assigned, retired, overridden or published since; and what the pages
\* say of a calendar, an assignment or an override is so.
THEOREM RunsArePlannedAsShown == PlansSpec => []PlannedAsShown
  <1>1. PlansInit => PlansInv /\ ShownInv
    BY Initially, ShownInitially
  <1>2. PlansInv /\ ShownInv /\ [PlansNext]_planVars => PlansInv' /\ ShownInv'
    BY Inductive, ShownStep
  <1>3. PlansInv /\ ShownInv => PlannedAsShown
    BY ShownEnough
  <1> QED  BY <1>1, <1>2, <1>3, PTL DEF PlansSpec

(***************************************************************************)
(* FiniteScheduler.                                                        *)
(***************************************************************************)

\* What holds of 0, and of n + 1 when it holds of n, holds of every natural number.
LEMMA SetOfNumbers ==
  ASSUME NEW good, 0 \in good, \A n \in Nat : n \in good => n + 1 \in good
  PROVE  Nat \subseteq good
  <1> DEFINE bad == {n \in Nat : n \notin good}
             less == {p \in Nat \X Nat : p[1] < p[2]}
  <1>1. IsWellFoundedOn(less, Nat)
    BY NatLessThanWellFounded, Zenon DEF OpToRel
  <1>2. SUFFICES ASSUME bad # {} PROVE FALSE
    OBVIOUS
  <1>3. bad \subseteq Nat
    OBVIOUS
  <1> HIDE DEF bad
  <1>4. PICK n \in bad : \A m \in bad : <<m, n>> \notin less
    BY <1>1, <1>2, <1>3, WFMin, Zenon
  <1> USE DEF bad
  <1>5. n \in Nat /\ n # 0 /\ n - 1 \in Nat /\ n - 1 < n
    BY <1>4
  <1>6. n - 1 \in bad
    BY <1>4, <1>5
  <1>7. <<n - 1, n>> \in less
    BY <1>5
  <1> QED  BY <1>4, <1>6, <1>7

\* The recursion by which MapThenFoldSet goes through the subsets of a set.
Pick(T) == CHOOSE x \in T : TRUE

Folds(S, base, step, it) ==
  it = [T \in SUBSET S |-> IF T = {} THEN base ELSE step[Pick(T)][it[T \ {Pick(T)}]]]

LEMMA FoldExists ==
  ASSUME NEW S, IsFiniteSet(S), NEW D, NEW base \in D, NEW step \in [S -> [D -> D]]
  PROVE  \E it \in [SUBSET S -> D] : Folds(S, base, step, it)
  <1> DEFINE Small(n) == {T \in SUBSET S : Cardinality(T) <= n}
             Value(it, T) == IF T = {} THEN base ELSE step[Pick(T)][it[T \ {Pick(T)}]]
             good == {n \in Nat : \E it \in [Small(n) -> D] : \A T \in Small(n) : it[T] = Value(it, T)}
  <1>1. \A T \in SUBSET S : /\ Cardinality(T) \in Nat
                            /\ Cardinality(T) = 0 <=> T = {}
                            /\ Cardinality(T) <= Cardinality(S)
    <2> SUFFICES ASSUME NEW T \in SUBSET S
                 PROVE  /\ Cardinality(T) \in Nat
                        /\ Cardinality(T) = 0 <=> T = {}
                        /\ Cardinality(T) <= Cardinality(S)
      OBVIOUS
    <2>1. IsFiniteSet(T)
      BY FS_Subset
    <2> QED  BY <2>1, FS_Subset, FS_CardinalityType, FS_EmptySet
  <1>2. \A T \in (SUBSET S) \ {{}} :
          /\ Pick(T) \in T /\ Pick(T) \in S
          /\ T \ {Pick(T)} \in SUBSET S /\ Cardinality(T \ {Pick(T)}) = Cardinality(T) - 1
    <2> SUFFICES ASSUME NEW T \in (SUBSET S) \ {{}}
                 PROVE  /\ Pick(T) \in T /\ Pick(T) \in S
                        /\ T \ {Pick(T)} \in SUBSET S
                        /\ Cardinality(T \ {Pick(T)}) = Cardinality(T) - 1
      OBVIOUS
    <2>1. IsFiniteSet(T) /\ Pick(T) \in T
      BY FS_Subset DEF Pick
    <2>2. PICK x \in T : x = Pick(T)
      BY <2>1
    <2>3. Cardinality(T \ {x}) = Cardinality(T) - 1
      BY <2>1, FS_RemoveElement
    <2> QED  BY <2>2, <2>3
  <1>3. 0 \in good
    <2> DEFINE it == [T \in Small(0) |-> base]
    <2>1. \A T \in Small(0) : T = {}
      BY <1>1
    <2>2. it \in [Small(0) -> D] /\ \A T \in Small(0) : it[T] = Value(it, T)
      BY <2>1
    <2> QED  BY <2>2
  <1>4. ASSUME NEW n \in Nat, n \in good PROVE n + 1 \in good
    <2>1. PICK it \in [Small(n) -> D] : \A T \in Small(n) : it[T] = Value(it, T)
      BY <1>4
    <2> DEFINE next == [T \in Small(n + 1) |-> IF T \in Small(n) THEN it[T] ELSE Value(it, T)]
    <2>2. \A T \in Small(n + 1) : T # {} => T \ {Pick(T)} \in Small(n)
      BY <1>1, <1>2
    <2>3. \A T \in Small(n + 1) : T \notin Small(n) => T # {}
      BY <1>1
    <2>4. next \in [Small(n + 1) -> D]
      <3> SUFFICES ASSUME NEW T \in Small(n + 1), T \notin Small(n) PROVE Value(it, T) \in D
        BY <2>1
      <3>1. it[T \ {Pick(T)}] \in D /\ step[Pick(T)] \in [D -> D]
        BY <1>2, <2>1, <2>2, <2>3
      <3> QED  BY <2>3, <3>1
    <2>5. ASSUME NEW T \in Small(n + 1) PROVE next[T] = Value(next, T)
      <3>1. next[T] = Value(it, T)
        BY <2>1
      <3>2. T # {} => next[T \ {Pick(T)}] = it[T \ {Pick(T)}]
        <4>1. Small(n) \subseteq Small(n + 1)
          BY <1>1
        <4> QED  BY <2>2, <4>1
      <3> HIDE DEF next
      <3> QED  BY <3>1, <3>2
    <2> HIDE DEF next, Small, Value
    <2>6. \E other \in [Small(n + 1) -> D] : \A T \in Small(n + 1) : other[T] = Value(other, T)
      BY <2>4, <2>5
    <2> QED  BY <2>6
  <1>5. Nat \subseteq good
    <2> HIDE DEF good
    <2> QED  BY <1>3, <1>4, SetOfNumbers
  <1>6. PICK it \in [Small(Cardinality(S)) -> D] :
          \A T \in Small(Cardinality(S)) : it[T] = Value(it, T)
    BY <1>1, <1>5
  <1>7. Small(Cardinality(S)) = SUBSET S
    BY <1>1
  <1>8. it = [T \in SUBSET S |-> Value(it, T)]
    BY <1>6, <1>7
  <1> QED  BY <1>6, <1>7, <1>8 DEF Folds

\* A sum does not depend on the order in which it is taken.
IsSum(S, f, sum) ==
  /\ sum \in [SUBSET S -> Int] /\ sum[{}] = 0
  /\ \A T \in SUBSET S : \A x \in T : sum[T] = f[x] + sum[T \ {x}]

LEMMA FoldSums ==
  ASSUME NEW S, IsFiniteSet(S), NEW f \in [S -> Int], NEW it,
         it = [T \in SUBSET S |-> IF T = {} THEN 0 ELSE f[Pick(T)] + it[T \ {Pick(T)}]]
  PROVE  IsSum(S, f, it)
  <1> DEFINE typed == {T \in SUBSET S : it[T] \in Int}
             good == {T \in SUBSET S : \A x \in T : it[T] = f[x] + it[T \ {x}]}
  <1>1. \A T \in SUBSET S : it[T] = IF T = {} THEN 0 ELSE f[Pick(T)] + it[T \ {Pick(T)}]
    OBVIOUS
  <1>2. \A T \in SUBSET S : T # {} => Pick(T) \in T /\ f[Pick(T)] \in Int
    BY DEF Pick
  <1>3. SUBSET S \subseteq typed
    <2>1. ASSUME NEW T \in SUBSET S, \A x \in T : T \ {x} \in typed PROVE T \in typed
      <3>1. CASE T = {}
        BY <1>1, <3>1
      <3>2. CASE T # {}
        <4>1. T \ {Pick(T)} \in typed /\ f[Pick(T)] \in Int
          BY <1>2, <2>1, <3>2
        <4>2. it[T] = f[Pick(T)] + it[T \ {Pick(T)}]
          BY <1>1, <3>2
        <4> QED  BY <4>1, <4>2
      <3> QED  BY <3>1, <3>2
    <2> HIDE DEF typed
    <2> QED  BY <2>1, SubsetInduction
  <1>4. \A T \in SUBSET S : it[T] \in Int
    BY <1>3
  <1>5. ASSUME NEW T \in SUBSET S, \A x \in T : T \ {x} \in good PROVE T \in good
    <2> SUFFICES ASSUME NEW x \in T PROVE it[T] = f[x] + it[T \ {x}]
      OBVIOUS
    <2>1. PICK c \in T : c = Pick(T) /\ it[T] = f[c] + it[T \ {c}]
      BY <1>1, <1>2
    <2>2. CASE x = c
      BY <2>1, <2>2
    <2>3. CASE x # c
      <3>1. it[T \ {c}] = f[x] + it[(T \ {c}) \ {x}]
        BY <1>5, <2>3
      <3>2. it[T \ {x}] = f[c] + it[(T \ {x}) \ {c}]
        BY <1>5, <2>3
      <3>3. (T \ {c}) \ {x} = (T \ {x}) \ {c}
        OBVIOUS
      <3>4. it[(T \ {x}) \ {c}] \in Int /\ f[x] \in Int /\ f[c] \in Int
        BY <1>4
      <3>5. \A a, b, rest \in Int : a + (b + rest) = b + (a + rest)
        OBVIOUS
      <3>6. it[T] = f[c] + (f[x] + it[(T \ {x}) \ {c}])
        BY <2>1, <3>1, <3>3
      <3>7. it[T] = f[x] + (f[c] + it[(T \ {x}) \ {c}])
        BY <3>4, <3>5, <3>6
      <3> QED  BY <3>2, <3>7
    <2> QED  BY <2>2, <2>3
  <1>6. SUBSET S \subseteq good
    <2> HIDE DEF good
    <2> QED  BY <1>5, SubsetInduction
  <1>7. it \in [SUBSET S -> Int]
    <2>1. it = [T \in SUBSET S |-> it[T]]
      BY <1>1
    <2> QED  BY <1>4, <2>1
  <1>8. it[{}] = 0
    BY <1>1
  <1> QED  BY <1>6, <1>7, <1>8 DEF IsSum

LEMMA SumsAgree ==
  ASSUME NEW S, IsFiniteSet(S), NEW f, NEW g, NEW sum, NEW other,
         NEW R, S \subseteq R, IsSum(R, f, sum), IsSum(S, g, other), \A x \in S : f[x] = g[x]
  PROVE  \A T \in SUBSET S : sum[T] = other[T]
  <1> DEFINE good == {T \in SUBSET S : sum[T] = other[T]}
  <1>1. ASSUME NEW T \in SUBSET S, \A x \in T : T \ {x} \in good PROVE T \in good
    <2>1. CASE T = {}
      BY <2>1 DEF IsSum
    <2>2. CASE T # {}
      <3>1. PICK x \in T : TRUE
        BY <2>2
      <3>2. sum[T] = f[x] + sum[T \ {x}] /\ other[T] = g[x] + other[T \ {x}]
        BY <3>1 DEF IsSum
      <3> QED  BY <1>1, <3>1, <3>2
    <2> QED  BY <2>1, <2>2
  <1>2. SUBSET S \subseteq good
    <2> HIDE DEF good
    <2> QED  BY <1>1, SubsetInduction
  <1> QED  BY <1>2

\* The sum that MapThenSumSet takes of the values of a function.
Total(f, T) == MapThenSumSet(LAMBDA x : f[x], T)

LEMMA TotalIsSum ==
  ASSUME NEW S, IsFiniteSet(S), NEW f, \A x \in S : f[x] \in Int
  PROVE  \E sum : IsSum(S, f, sum) /\ \A T \in SUBSET S : Total(f, T) = sum[T]
  <1> DEFINE It(T, it) == it = [U \in SUBSET T |-> IF U = {} THEN 0 ELSE f[Pick(U)] + it[U \ {Pick(U)}]]
  <1>1. ASSUME NEW T \in SUBSET S PROVE \E sum : IsSum(T, f, sum) /\ Total(f, T) = sum[T]
    <2> DEFINE step == [x \in T |-> [n \in Int |-> f[x] + n]]
               g == [x \in T |-> f[x]]
    <2>1. step \in [T -> [Int -> Int]] /\ g \in [T -> Int]
      OBVIOUS
    <2>2. IsFiniteSet(T)
      BY FS_Subset
    <2>3. PICK it \in [SUBSET T -> Int] : Folds(T, 0, step, it)
      <3>1. 0 \in Int
        OBVIOUS
      <3> HIDE DEF step
      <3> QED  BY <2>1, <2>2, <3>1, FoldExists, Zenon
    <2>4. It(T, it)
      <3>1. \A U \in SUBSET T : U # {} => Pick(U) \in T /\ it[U \ {Pick(U)}] \in Int
        BY DEF Pick
      <3>2. \A U \in SUBSET T : U # {} =>
              step[Pick(U)][it[U \ {Pick(U)}]] = f[Pick(U)] + it[U \ {Pick(U)}]
        BY <3>1
      <3> HIDE DEF step
      <3> QED  BY <2>3, <3>2 DEF Folds
    <2>5. PICK iter : iter = (CHOOSE i : It(T, i)) /\ It(T, iter)
      <3> HIDE DEF It
      <3> QED  BY <2>4
    <2>6. Total(f, T) = iter[T]
      BY <2>5 DEF Total, MapThenSumSet, MapThenFoldSet, Pick
    <2>7. \A U \in SUBSET T : U # {} => Pick(U) \in T
      BY DEF Pick
    <2>8. iter = [U \in SUBSET T |-> IF U = {} THEN 0 ELSE g[Pick(U)] + iter[U \ {Pick(U)}]]
      BY <2>5, <2>7
    <2>9. IsSum(T, g, iter)
      <3> HIDE DEF g
      <3> QED  BY <2>1, <2>2, <2>8, FoldSums
    <2>10. IsSum(T, f, iter)
      BY <2>9 DEF IsSum
    <2> QED  BY <2>6, <2>10
  <1>2. PICK sum : IsSum(S, f, sum)
    BY <1>1
  <1>3. ASSUME NEW T \in SUBSET S PROVE Total(f, T) = sum[T]
    <2>1. PICK other : IsSum(T, f, other) /\ Total(f, T) = other[T]
      BY <1>1
    <2>2. IsFiniteSet(T)
      BY FS_Subset
    <2>3. \A U \in SUBSET T : sum[U] = other[U]
      BY <1>2, <2>1, <2>2, SumsAgree
    <2> QED  BY <2>1, <2>3
  <1> QED  BY <1>2, <1>3

LEMMA FiniteImage ==
  ASSUME NEW S, IsFiniteSet(S), NEW f
  PROVE  IsFiniteSet({f[x] : x \in S})
  <1> DEFINE g == [x \in S |-> f[x]]
  <1>1. g \in Surjection(S, {f[x] : x \in S})
    BY DEF Surjection
  <1> QED  BY <1>1, FS_Surjection

\* Equal sums of equally many equal parts, each Minute times as large, say.
LEMMA TotalMoves ==
  ASSUME NEW S, IsFiniteSet(S), NEW f, \A x \in S : f[x] \in Int, NEW k \in Int,
         NEW R, NEW g, NEW move, \A x \in S : move[x] \in R /\ g[move[x]] = k * f[x],
         \A y \in R : \E x \in S : y = move[x],
         \A x, y \in S : move[x] = move[y] => x = y
  PROVE  Total(g, R) = k * Total(f, S)
  <1> DEFINE Moved(T) == {move[x] : x \in T}
  <1>1. PICK sum : IsSum(S, f, sum) /\ \A T \in SUBSET S : Total(f, T) = sum[T]
    BY TotalIsSum
  <1>2. IsFiniteSet(Moved(S))
    BY FiniteImage
  <1>3. \A y \in Moved(S) : g[y] \in Int
    OBVIOUS
  <1>4. PICK other : IsSum(Moved(S), g, other) /\ \A T \in SUBSET Moved(S) : Total(g, T) = other[T]
    <2> HIDE DEF Moved
    <2> QED  BY <1>2, <1>3, TotalIsSum
  <1> DEFINE good == {T \in SUBSET S : other[Moved(T)] = k * sum[T]}
  <1>5. ASSUME NEW T \in SUBSET S, \A x \in T : T \ {x} \in good PROVE T \in good
    <2>1. CASE T = {}
      <3>1. Moved(T) = {}
        BY <2>1
      <3>2. sum[T] = 0 /\ other[Moved(T)] = 0
        <4> HIDE DEF Moved
        <4> QED  BY <1>1, <1>4, <2>1, <3>1 DEF IsSum
      <3>3. k * 0 = 0
        OBVIOUS
      <3> QED  BY <3>2, <3>3
    <2>2. CASE T # {}
      <3>1. PICK x \in T : TRUE
        BY <2>2
      <3>2. sum[T] = f[x] + sum[T \ {x}] /\ f[x] \in Int /\ sum[T \ {x}] \in Int
        BY <1>1, <3>1 DEF IsSum
      <3>3. Moved(T) \ {move[x]} = Moved(T \ {x}) /\ move[x] \in Moved(T)
        BY <3>1
      <3>4. Moved(T) \in SUBSET Moved(S)
        OBVIOUS
      <3>5. other[Moved(T)] = g[move[x]] + other[Moved(T \ {x})]
        <4> HIDE DEF Moved
        <4>1. \A U \in SUBSET Moved(S) : \A y \in U : other[U] = g[y] + other[U \ {y}]
          BY <1>4 DEF IsSum
        <4>2. PICK U \in SUBSET Moved(S) : U = Moved(T)
          BY <3>4
        <4>3. PICK y \in U : y = move[x]
          BY <3>3, <4>2
        <4>4. other[U] = g[y] + other[U \ {y}]
          BY <4>1
        <4>5. U \ {y} = Moved(T \ {x})
          BY <3>3, <4>2, <4>3
        <4> QED  BY <4>2, <4>3, <4>4, <4>5
      <3>6. other[Moved(T \ {x})] = k * sum[T \ {x}]
        BY <1>5
      <3>7. other[Moved(T)] = k * f[x] + k * sum[T \ {x}]
        BY <3>5, <3>6
      <3>8. \A a, b \in Int : k * (a + b) = k * a + k * b
        OBVIOUS
      <3>9. k * sum[T] = k * f[x] + k * sum[T \ {x}]
        BY <3>2, <3>8
      <3> QED  BY <3>7, <3>9
    <2> QED  BY <2>1, <2>2
  <1>6. SUBSET S \subseteq good
    <2> HIDE DEF good
    <2> QED  BY <1>5, SubsetInduction
  <1>7. other[Moved(S)] = k * sum[S]
    BY <1>6
  <1>8. R = Moved(S)
    OBVIOUS
  <1> HIDE DEF good, Moved
  <1> QED  BY <1>1, <1>4, <1>7, <1>8


-----------------------------------------------------------------------------
(* What maintenance leaves of a segment.                                     *)

Segment == [start : Int, end : Int]

Dated(windows) == IsFiniteSet(windows) /\ \A w \in windows : w.start \in Int /\ w.end \in Int

LEMMA EndsOfTwo ==
  ASSUME NEW a \in Int, NEW b \in Int
  PROVE  /\ Max({a, b}) = IF a >= b THEN a ELSE b
         /\ Min({a, b}) = IF a <= b THEN a ELSE b
  <1>1. \E x \in {a, b} : \A y \in {a, b} : x >= y
    OBVIOUS
  <1>2. \E x \in {a, b} : \A y \in {a, b} : x =< y
    OBVIOUS
  <1>3. Max({a, b}) \in {a, b} /\ \A y \in {a, b} : Max({a, b}) >= y
    BY <1>1 DEF Max
  <1>4. Min({a, b}) \in {a, b} /\ \A y \in {a, b} : Min({a, b}) =< y
    BY <1>2 DEF Min
  <1> QED  BY <1>3, <1>4

\* One window leaves at most a piece before it and a piece after it.
LEMMA PiecesLeft ==
  ASSUME NEW s \in Segment, NEW w, w.start \in Int, w.end \in Int
  PROVE  /\ Pieces(s, w) \in SUBSET Segment /\ IsFiniteSet(Pieces(s, w))
         /\ \A t \in Int : (\E p \in Pieces(s, w) : Within(t, p)) <=> Within(t, s) /\ ~Within(t, w)
         /\ \A p, q \in Pieces(s, w) : p # q => p.end <= q.start \/ q.end <= p.start
         /\ \A p \in Pieces(s, w) : s.start <= p.start /\ p.end <= s.end
         /\ \A p \in Pieces(s, w) : p = s \/ p.start < p.end
  <1> DEFINE from == Max({s.start, w.start})
             to == Min({s.end, w.end})
             head == [start |-> s.start, end |-> from]
             tail == [start |-> to, end |-> s.end]
  <1>1. s.start \in Int /\ s.end \in Int
    BY DEF Segment
  <1>2. /\ from = IF s.start >= w.start THEN s.start ELSE w.start
        /\ to = IF s.end <= w.end THEN s.end ELSE w.end
    BY <1>1, EndsOfTwo
  <1>3. /\ from >= to => Pieces(s, w) = {s}
        /\ ~(from >= to) => \A p : p \in Pieces(s, w) <=>
             \/ p = head /\ s.start < from
             \/ p = tail /\ to < s.end
    BY DEF Pieces, Piece
  <1>4. from \in Int /\ to \in Int
    BY <1>1, <1>2
  <1> HIDE DEF from, to
  <1>5. CASE from >= to
    <2>1. IsFiniteSet({s})
      BY FS_Singleton
    <2>2. \A t \in Int : Within(t, s) => ~Within(t, w)
      BY <1>1, <1>2, <1>5 DEF Within
    <2>3. Pieces(s, w) = {s}
      BY <1>3, <1>5
    <2> QED  BY <1>1, <2>1, <2>2, <2>3
  <1>6. CASE ~(from >= to)
    <2>1. \A p : p \in Pieces(s, w) <=> (p = head /\ s.start < from) \/ (p = tail /\ to < s.end)
      BY <1>3, <1>6
    <2>2. Pieces(s, w) \subseteq {head, tail} /\ head \in Segment /\ tail \in Segment
      <3>1. head \in Segment /\ tail \in Segment
        BY <1>1, <1>4 DEF Segment
      <3> HIDE DEF head, tail
      <3> QED  BY <2>1, <3>1
    <2>3. IsFiniteSet({head, tail})
      <3>1. IsFiniteSet({head})
        BY FS_Singleton
      <3>2. IsFiniteSet({head} \cup {tail})
        BY <3>1, FS_AddElement
      <3> QED  BY <3>2
    <2>4. IsFiniteSet(Pieces(s, w))
      BY <2>2, <2>3, FS_Subset
    <2>5. ASSUME NEW t \in Int
          PROVE  (\E p \in Pieces(s, w) : Within(t, p)) <=> Within(t, s) /\ ~Within(t, w)
      <3>1. (\E p \in Pieces(s, w) : Within(t, p)) <=>
              \/ Within(t, head) /\ s.start < from
              \/ Within(t, tail) /\ to < s.end
        <4> HIDE DEF head, tail
        <4> QED  BY <2>1
      <3>2. /\ Within(t, head) <=> s.start <= t /\ t < from
            /\ Within(t, tail) <=> to <= t /\ t < s.end
        BY DEF Within
      <3>3. /\ Within(t, s) <=> s.start <= t /\ t < s.end
            /\ Within(t, w) <=> w.start <= t /\ t < w.end
        BY DEF Within
      <3>4. (\E p \in Pieces(s, w) : Within(t, p)) <=>
              (s.start <= t /\ t < from) \/ (to <= t /\ t < s.end)
        BY <1>1, <1>4, <3>1, <3>2
      <3> HIDE DEF head, tail
      <3>5. ((s.start <= t /\ t < from) \/ (to <= t /\ t < s.end)) <=>
              (s.start <= t /\ t < s.end) /\ ~(w.start <= t /\ t < w.end)
        BY <1>1, <1>2, <1>4, <1>6
      <3> QED  BY <3>3, <3>4, <3>5
    <2>6. \A p, q \in Pieces(s, w) : p # q => p.end <= q.start \/ q.end <= p.start
      BY <1>1, <1>4, <1>6, <2>1
    <2>7. \A p \in Pieces(s, w) : /\ s.start <= p.start /\ p.end <= s.end
                                  /\ p.start < p.end
      BY <1>1, <1>2, <1>4, <1>6, <2>1
    <2> QED  BY <2>2, <2>4, <2>5, <2>6, <2>7
  <1> QED  BY <1>5, <1>6

\* What a window leaves of pieces.
AllPieces(R, w) == UNION {Pieces(s, w) : s \in R}

\* The pieces R are what the windows of U leave of a segment.
Left(segment, U, R) ==
  /\ R \in SUBSET Segment /\ IsFiniteSet(R)
  /\ \A t \in Int : (\E p \in R : Within(t, p)) <=>
                      Within(t, segment) /\ \A w \in U : ~Within(t, w)
  /\ \A p, q \in R : p # q => p.end <= q.start \/ q.end <= p.start
  /\ \A p \in R : segment.start <= p.start /\ p.end <= segment.end
  /\ \A p \in R : p = segment \/ p.start < p.end

LEMMA LeftOfPieces ==
  ASSUME NEW segment \in Segment, NEW U, NEW w \in U, w.start \in Int, w.end \in Int,
         NEW R, Left(segment, U \ {w}, R)
  PROVE  Left(segment, U, AllPieces(R, w))
  <1> DEFINE next == UNION {Pieces(s, w) : s \in R}
             left == [s \in R |-> Pieces(s, w)]
  <1>1. R \in SUBSET Segment /\ IsFiniteSet(R)
    BY DEF Left
  <1>2. \A s \in R : /\ Pieces(s, w) \in SUBSET Segment /\ IsFiniteSet(Pieces(s, w))
                     /\ \A t \in Int : (\E p \in Pieces(s, w) : Within(t, p))
                                         <=> Within(t, s) /\ ~Within(t, w)
    BY <1>1, PiecesLeft
  <1>3. \A s \in R : \A p, q \in Pieces(s, w) : p # q => p.end <= q.start \/ q.end <= p.start
    BY <1>1, PiecesLeft
  <1>4. \A s \in R : \A p \in Pieces(s, w) : s.start <= p.start /\ p.end <= s.end
    BY <1>1, PiecesLeft
  <1>5. next \in SUBSET Segment
    BY <1>2
  <1>6. IsFiniteSet(next)
    <2>1. IsFiniteSet({left[s] : s \in R})
      <3> HIDE DEF left
      <3> QED  BY <1>1, FiniteImage
    <2>2. \A T \in {left[s] : s \in R} : IsFiniteSet(T)
      BY <1>2
    <2>3. IsFiniteSet(UNION {left[s] : s \in R})
      <3> HIDE DEF left
      <3> QED  BY <2>1, <2>2, FS_UNION
    <2>4. next = UNION {left[s] : s \in R}
      OBVIOUS
    <2> QED  BY <2>3, <2>4
  <1>7. \A p : p \in next <=> \E s \in R : p \in Pieces(s, w)
    OBVIOUS
  <1> HIDE DEF next, left
  <1>8. ASSUME NEW t \in Int
        PROVE  (\E p \in next : Within(t, p)) <=> Within(t, segment) /\ \A v \in U : ~Within(t, v)
    <2>1. (\E p \in next : Within(t, p)) <=> (\E s \in R : Within(t, s)) /\ ~Within(t, w)
      BY <1>2, <1>7
    <2>2. (\E s \in R : Within(t, s)) <=> Within(t, segment) /\ \A v \in U \ {w} : ~Within(t, v)
      BY DEF Left
    <2> QED  BY <2>1, <2>2
  <1>9. ASSUME NEW p \in next, NEW q \in next, p # q PROVE p.end <= q.start \/ q.end <= p.start
    <2>1. PICK s \in R : p \in Pieces(s, w)
      BY <1>7
    <2>2. PICK r \in R : q \in Pieces(r, w)
      BY <1>7
    <2>3. CASE s = r
      BY <1>3, <1>9, <2>1, <2>2, <2>3
    <2>4. CASE s # r
      <3>1. s.end <= r.start \/ r.end <= s.start
        BY <2>4 DEF Left
      <3>2. s.start <= p.start /\ p.end <= s.end /\ r.start <= q.start /\ q.end <= r.end
        BY <1>4, <2>1, <2>2
      <3>3. p \in Segment /\ q \in Segment /\ s \in Segment /\ r \in Segment
        BY <1>1, <1>2, <2>1, <2>2
      <3> QED  BY <3>1, <3>2, <3>3 DEF Segment
    <2> QED  BY <2>3, <2>4
  <1>10. ASSUME NEW p \in next PROVE segment.start <= p.start /\ p.end <= segment.end
    <2>1. PICK s \in R : p \in Pieces(s, w)
      BY <1>7
    <2>2. s.start <= p.start /\ p.end <= s.end
      BY <1>4, <2>1
    <2>3. segment.start <= s.start /\ s.end <= segment.end
      BY DEF Left
    <2>4. p \in Segment /\ s \in Segment
      BY <1>1, <1>2, <2>1
    <2> QED  BY <2>2, <2>3, <2>4 DEF Segment
  <1>11. ASSUME NEW p \in next PROVE p = segment \/ p.start < p.end
    <2>1. PICK s \in R : p \in Pieces(s, w)
      BY <1>7
    <2>2. p = s \/ p.start < p.end
      BY <1>1, <2>1, PiecesLeft
    <2>3. s = segment \/ s.start < s.end
      BY DEF Left
    <2> QED  BY <2>2, <2>3
  <1>12. AllPieces(R, w) = next
    BY DEF AllPieces, next
  <1> QED  BY <1>5, <1>6, <1>8, <1>9, <1>10, <1>11, <1>12 DEF Left

LEMMA LeftOfAll ==
  ASSUME NEW segment \in Segment, NEW W, Dated(W), NEW it,
         it = [U \in SUBSET W |-> IF U = {} THEN {segment}
                                  ELSE AllPieces(it[U \ {Pick(U)}], Pick(U))]
  PROVE  Left(segment, W, it[W])
  <1> DEFINE good == {U \in SUBSET W : Left(segment, U, it[U])}
  <1>1. IsFiniteSet(W)
    BY DEF Dated
  <1>4. \A U \in SUBSET W : U # {} => it[U] = AllPieces(it[U \ {Pick(U)}], Pick(U))
    OBVIOUS
  <1>2. ASSUME NEW U \in SUBSET W, \A w \in U : U \ {w} \in good PROVE U \in good
    <2>1. CASE U = {}
      <3>1. it[U] = {segment}
        BY <2>1
      <3>2. {segment} \in SUBSET Segment /\ IsFiniteSet({segment})
        BY FS_Singleton
      <3>3. segment.start \in Int /\ segment.end \in Int
        BY DEF Segment
      <3>4. Left(segment, U, {segment})
        BY <2>1, <3>2, <3>3 DEF Left
      <3> QED  BY <3>1, <3>4
    <2>2. CASE U # {}
      <3>1. PICK w \in U : w = Pick(U)
        BY <2>2 DEF Pick
      <3>2. it[U] = AllPieces(it[U \ {w}], w)
        BY <1>4, <2>2, <3>1
      <3>3. Left(segment, U \ {w}, it[U \ {w}])
        BY <1>2
      <3>4. w.start \in Int /\ w.end \in Int
        BY DEF Dated
      <3>5. Left(segment, U, AllPieces(it[U \ {w}], w))
        BY <3>3, <3>4, LeftOfPieces
      <3> QED  BY <3>2, <3>5
    <2> QED  BY <2>1, <2>2
  <1>3. SUBSET W \subseteq good
    <2> HIDE DEF good
    <2> QED  BY <1>1, <1>2, SubsetInduction
  <1> QED  BY <1>3

\* What is left of a segment when all of the maintenance is taken out of it.
LEMMA MaintenanceTaken ==
  ASSUME NEW segment \in Segment, NEW W, Dated(W)
  PROVE  Left(segment, W, SubtractMaintenance(segment, W))
  <1> DEFINE D == {R \in SUBSET Segment : IsFiniteSet(R)}
             Value(it, U) == IF U = {} THEN {segment}
                             ELSE AllPieces(it[U \ {Pick(U)}], Pick(U))
             It(it) == it = [U \in SUBSET W |-> Value(it, U)]
             step == [w \in W |-> [R \in D |-> AllPieces(R, w)]]
  <1>1. IsFiniteSet(W)
    BY DEF Dated
  <1>2. {segment} \in D
    BY FS_Singleton
  <1>3. step \in [W -> [D -> D]]
    <2> SUFFICES ASSUME NEW w \in W, NEW R \in D PROVE AllPieces(R, w) \in D
      OBVIOUS
    <2> DEFINE left == [s \in R |-> Pieces(s, w)]
    <2>1. \A s \in R : Pieces(s, w) \in SUBSET Segment /\ IsFiniteSet(Pieces(s, w))
      BY PiecesLeft DEF Dated
    <2>2. IsFiniteSet({left[s] : s \in R})
      <3> HIDE DEF left
      <3> QED  BY FiniteImage
    <2>3. \A T \in {left[s] : s \in R} : IsFiniteSet(T)
      BY <2>1
    <2>4. IsFiniteSet(UNION {left[s] : s \in R})
      <3> HIDE DEF left
      <3> QED  BY <2>2, <2>3, FS_UNION
    <2>5. UNION {left[s] : s \in R} = AllPieces(R, w)
      BY DEF AllPieces
    <2> QED  BY <2>1, <2>4, <2>5
  <1>4. PICK table \in [SUBSET W -> D] : Folds(W, {segment}, step, table)
    <2> HIDE DEF step, D
    <2> QED  BY <1>1, <1>2, <1>3, FoldExists
  <1>5. It(table)
    <2>1. \A U \in SUBSET W : U # {} => Pick(U) \in W /\ table[U \ {Pick(U)}] \in D
      <3>1. \A U \in SUBSET W : U # {} => Pick(U) \in U
        BY DEF Pick
      <3> HIDE DEF D
      <3> QED  BY <1>4, <3>1
    <2>2. \A U \in SUBSET W : U # {} =>
            step[Pick(U)][table[U \ {Pick(U)}]] = AllPieces(table[U \ {Pick(U)}], Pick(U))
      <3> HIDE DEF D
      <3> QED  BY <2>1
    <2> HIDE DEF step, D
    <2> QED  BY <1>4, <2>2 DEF Folds
  <1>6. PICK it : it = (CHOOSE other : It(other)) /\ It(it)
    <2> HIDE DEF It
    <2> QED  BY <1>5
  <1>7. SubtractMaintenance(segment, W) = it[W]
    BY <1>6 DEF SubtractMaintenance, FoldSet, MapThenFoldSet, Pick, AllPieces
  <1>8. it = [U \in SUBSET W |-> IF U = {} THEN {segment}
                               ELSE AllPieces(it[U \ {Pick(U)}], Pick(U))]
    BY <1>6
  <1>9. Left(segment, W, it[W])
    <2> HIDE DEF It, Value, step, D
    <2> QED  BY <1>8, LeftOfAll
  <1> QED  BY <1>7, <1>9

-----------------------------------------------------------------------------
(* The windows of a resource are windows: whole numbers of minutes.          *)

LEMMA FiniteUnion ==
  ASSUME NEW S, IsFiniteSet(S), NEW f, \A x \in S : IsFiniteSet(f[x])
  PROVE  IsFiniteSet(UNION {f[x] : x \in S})
  <1>1. IsFiniteSet({f[x] : x \in S})
    BY FiniteImage
  <1> QED  BY <1>1, FS_UNION

LEMMA LengthsAddUp ==
  ASSUME NEW T, IsFiniteSet(T), \A x \in T : x.start \in Int /\ x.end \in Int
  PROVE  MapThenSumSet(Length, T) = Total([x \in T |-> Length(x)], T)
  <1> DEFINE f == [x \in T |-> Length(x)]
             A(it) == it = [U \in SUBSET T |-> IF U = {} THEN 0 ELSE f[Pick(U)] + it[U \ {Pick(U)}]]
             B(it) == it = [U \in SUBSET T |-> IF U = {} THEN 0 ELSE Length(Pick(U)) + it[U \ {Pick(U)}]]
  <1>1. \A it : A(it) <=> B(it)
    <2>1. \A U \in SUBSET T : U # {} => Pick(U) \in T
      BY DEF Pick
    <2>2. \A U \in SUBSET T : U # {} => f[Pick(U)] = Length(Pick(U))
      BY <2>1
    <2> HIDE DEF f
    <2> QED  BY <2>2
  <1>2. Total(f, T) = (CHOOSE it : A(it))[T]
    BY DEF Total, MapThenSumSet, MapThenFoldSet, Pick
  <1>3. MapThenSumSet(Length, T) = (CHOOSE it : B(it))[T]
    BY DEF MapThenSumSet, MapThenFoldSet, Pick
  <1>4. (CHOOSE it : A(it)) = (CHOOSE it : B(it))
    <2> HIDE DEF A, B
    <2> QED  BY <1>1
  <1> QED  BY <1>2, <1>3, <1>4

LEMMA TotalIsInteger ==
  ASSUME NEW T, IsFiniteSet(T), NEW f, \A x \in T : f[x] \in Int
  PROVE  Total(f, T) \in Int
  <1>1. PICK sum : IsSum(T, f, sum) /\ \A U \in SUBSET T : Total(f, U) = sum[U]
    BY TotalIsSum
  <1>2. sum[T] \in Int
    BY <1>1 DEF IsSum
  <1> QED  BY <1>1, <1>2

LEMMA LengthsAreInteger ==
  ASSUME NEW T \in SUBSET Segment, IsFiniteSet(T)
  PROVE  MapThenSumSet(Length, T) \in Int
  <1> DEFINE f == [x \in T |-> Length(x)]
  <1>1. \A x \in T : x.start \in Int /\ x.end \in Int
    BY DEF Segment
  <1>2. \A x \in T : f[x] \in Int
    BY <1>1 DEF Length
  <1>3. Total(f, T) \in Int
    <2> HIDE DEF f
    <2> QED  BY <1>2, TotalIsInteger
  <1> QED  BY <1>1, <1>3, LengthsAddUp

LEMMA MaintenanceDated ==
  ASSUME NEW r, Measured(r), r.calendar # Nothing
  PROVE  Dated(r.calendar.maintenance)
  BY DEF Measured, Clocked, Dated

LEMMA DayPartsAreSegments ==
  ASSUME NEW w, w.start \in Int, w.end \in Int
  PROVE  DayParts(w) \in SUBSET Segment /\ IsFiniteSet(DayParts(w))
  <1> DEFINE days == DateOf(w.start) .. DateOf(w.end - 1)
             part == [d \in days |-> [start |-> Max({w.start, d * Day}), end |-> Min({w.end, (d + 1) * Day})]]
  <1>1. DateOf(w.start) \in Int /\ DateOf(w.end - 1) \in Int
    BY CalendarAssumption DEF DateOf
  <1>2. IsFiniteSet(days)
    BY <1>1, FS_Interval
  <1>3. DayParts(w) = {part[d] : d \in days}
    BY DEF DayParts
  <1>4. ASSUME NEW d \in days PROVE part[d] \in Segment
    <2>1. d \in Int /\ Day \in Int
      BY <1>1, CalendarAssumption
    <2>2. d * Day \in Int /\ (d + 1) * Day \in Int
      BY <2>1
    <2>3. Max({w.start, d * Day}) \in Int /\ Min({w.end, (d + 1) * Day}) \in Int
      BY <2>2, EndsOfTwo
    <2> QED  BY <2>3 DEF Segment
  <1>5. IsFiniteSet({part[d] : d \in days})
    <2> HIDE DEF part, days
    <2> QED  BY <1>2, FiniteImage
  <1> HIDE DEF part, days
  <1> QED  BY <1>3, <1>4, <1>5

LEMMA SegmentsAreSegments ==
  ASSUME NEW r, Measured(r), NEW w, w.start \in Int, w.end \in Int
  PROVE  Segments(r, w) \in SUBSET Segment /\ IsFiniteSet(Segments(r, w))
  <1>1. CASE r.calendar = Nothing
    <2>1. Segments(r, w) = {[start |-> w.start, end |-> w.end]}
      BY <1>1 DEF Segments
    <2>2. [start |-> w.start, end |-> w.end] \in Segment
      BY DEF Segment
    <2>3. IsFiniteSet({[start |-> w.start, end |-> w.end]})
      BY FS_Singleton
    <2> QED  BY <2>1, <2>2, <2>3
  <1>2. CASE r.calendar # Nothing
    <2> DEFINE parts == {p \in DayParts(w) : DateOf(p.start) \notin r.calendar.holidays}
               left == [p \in parts |-> SubtractMaintenance(p, r.calendar.maintenance)]
    <2>1. parts \in SUBSET Segment /\ IsFiniteSet(parts)
      BY DayPartsAreSegments, FS_Subset
    <2>2. Dated(r.calendar.maintenance)
      BY <1>2, MaintenanceDated
    <2>3. ASSUME NEW p \in parts PROVE left[p] \in SUBSET Segment /\ IsFiniteSet(left[p])
      <3>1. p \in Segment
        BY <2>1
      <3>2. Left(p, r.calendar.maintenance, SubtractMaintenance(p, r.calendar.maintenance))
        BY <2>2, <3>1, MaintenanceTaken
      <3> QED  BY <3>2 DEF Left
    <2>4. Segments(r, w) = UNION {left[p] : p \in parts}
      BY <1>2 DEF Segments
    <2> HIDE DEF left, parts
    <2>5. IsFiniteSet(UNION {left[p] : p \in parts})
      BY <2>1, <2>3, FiniteUnion
    <2> QED  BY <2>3, <2>4, <2>5
  <1> QED  BY <1>1, <1>2

Counted(b) == b.start \in Int /\ b.end \in Int /\ b.minutes \in Nat

LEMMA ExtraCounted ==
  ASSUME NEW r, Measured(r), NEW b \in ExtraBuckets(r)
  PROVE  Counted(b)
  <1>1. PICK w \in r.extra :
          b \in {Bucket(<<"extra", w.of>>, s, Granted(w, Segments(r, w), s)) :
                   s \in {p \in Segments(r, w) : Granted(w, Segments(r, w), p) > 0}}
    BY DEF ExtraBuckets
  <1>2. PICK s \in Segments(r, w) : /\ Granted(w, Segments(r, w), s) > 0
                                    /\ b = Bucket(<<"extra", w.of>>, s, Granted(w, Segments(r, w), s))
    BY <1>1
  <1>3. w.start \in Int /\ w.end \in Int /\ w.minutes \in Int
    BY DEF Measured
  <1>4. Segments(r, w) \in SUBSET Segment /\ IsFiniteSet(Segments(r, w))
    BY <1>3, SegmentsAreSegments
  <1> DEFINE before == {x \in Segments(r, w) : x.end <= s.start}
  <1>5. MapThenSumSet(Length, before) \in Int
    <2>1. before \in SUBSET Segment /\ IsFiniteSet(before)
      BY <1>4, FS_Subset
    <2> HIDE DEF before
    <2> QED  BY <2>1, LengthsAreInteger
  <1>6. s.start \in Int /\ s.end \in Int /\ Length(s) \in Int
    BY <1>4 DEF Segment, Length
  <1>7. Granted(w, Segments(r, w), s) = Min({Length(s), w.minutes - MapThenSumSet(Length, before)})
    BY DEF Granted
  <1>8. Granted(w, Segments(r, w), s) \in Int
    <2> HIDE DEF before
    <2>1. w.minutes - MapThenSumSet(Length, before) \in Int
      BY <1>3, <1>5
    <2> QED  BY <1>6, <1>7, <2>1, EndsOfTwo
  <1> HIDE DEF before
  <1>9. b.start = s.start /\ b.end = s.end /\ b.minutes = Granted(w, Segments(r, w), s)
    BY <1>2 DEF Bucket
  <1> QED  BY <1>2, <1>6, <1>8, <1>9 DEF Counted

\* A shift on a date.
Cut(d, shift) == [start |-> d * Day + shift.start, end |-> d * Day + shift.end]

LEMMA ShiftBucketsAre ==
  ASSUME NEW r, NEW b
  PROVE  b \in ShiftBuckets(r) <=>
           \E d \in WorkingDates(r) : \E shift \in r.calendar.shifts :
             \E s \in SubtractMaintenance(Cut(d, shift), r.calendar.maintenance) :
               Length(s) > 0 /\ b = Bucket(<<"shift", shift.name>>, s, Length(s))
  <1> DEFINE left(d, shift) == SubtractMaintenance(Cut(d, shift), r.calendar.maintenance)
             open(d, shift) == {p \in left(d, shift) : Length(p) > 0}
             here(d, shift) == {Bucket(<<"shift", shift.name>>, s, Length(s)) : s \in open(d, shift)}
  <1>1. ShiftBuckets(r) = UNION {here(d, shift) : d \in WorkingDates(r), shift \in r.calendar.shifts}
    BY DEF ShiftBuckets, Cut
  <1>2. \A d, shift : b \in here(d, shift) <=>
          \E s \in left(d, shift) : Length(s) > 0 /\ b = Bucket(<<"shift", shift.name>>, s, Length(s))
    <2> HIDE DEF left
    <2> QED  OBVIOUS
  <1> HIDE DEF here
  <1>3. b \in ShiftBuckets(r) <=>
          \E d \in WorkingDates(r) : \E shift \in r.calendar.shifts : b \in here(d, shift)
    BY <1>1
  <1> QED  BY <1>2, <1>3

LEMMA CutIsSegment ==
  ASSUME NEW r, Measured(r), r.calendar # Nothing, NEW d \in WorkingDates(r),
         NEW shift \in r.calendar.shifts
  PROVE  Cut(d, shift) \in Segment /\ d \in Int /\ shift.start \in Int /\ shift.end \in Int
  <1>1. d \in Int /\ Day \in Int /\ shift.start \in Int /\ shift.end \in Int
    BY CalendarAssumption DEF Measured, Clocked, WorkingDates
  <1>2. d * Day \in Int
    BY <1>1
  <1> QED  BY <1>1, <1>2 DEF Segment, Cut

LEMMA ShiftsCounted ==
  ASSUME NEW r, Measured(r), r.calendar # Nothing, NEW b \in ShiftBuckets(r)
  PROVE  Counted(b)
  <1>1. PICK d \in WorkingDates(r), shift \in r.calendar.shifts :
          \E s \in SubtractMaintenance(Cut(d, shift), r.calendar.maintenance) :
            Length(s) > 0 /\ b = Bucket(<<"shift", shift.name>>, s, Length(s))
    BY ShiftBucketsAre
  <1>2. PICK s \in SubtractMaintenance(Cut(d, shift), r.calendar.maintenance) :
          Length(s) > 0 /\ b = Bucket(<<"shift", shift.name>>, s, Length(s))
    BY <1>1
  <1>3. Cut(d, shift) \in Segment
    BY CutIsSegment
  <1>4. Dated(r.calendar.maintenance)
    BY MaintenanceDated
  <1>5. s \in Segment
    <2>1. Left(Cut(d, shift), r.calendar.maintenance,
               SubtractMaintenance(Cut(d, shift), r.calendar.maintenance))
      BY <1>3, <1>4, MaintenanceTaken
    <2> QED  BY <2>1, <1>2 DEF Left
  <1>6. b.start = s.start /\ b.end = s.end /\ b.minutes = Length(s) /\ Length(s) > 0
    BY <1>2 DEF Bucket
  <1> QED  BY <1>5, <1>6 DEF Segment, Length, Counted

LEMMA BucketsCounted ==
  ASSUME NEW r, Measured(r), \A d \in DOMAIN r.capacity : r.capacity[d] >= 0,
         NEW b \in CapacityBuckets(r)
  PROVE  Counted(b)
  <1>1. CASE b \in ExtraBuckets(r)
    BY <1>1, ExtraCounted
  <1>2. CASE b \notin ExtraBuckets(r) /\ r.calendar # Nothing
    BY <1>2, ShiftsCounted DEF CapacityBuckets
  <1>3. CASE b \notin ExtraBuckets(r) /\ r.calendar = Nothing
    <2>1. PICK d \in DOMAIN r.capacity :
            b = Bucket(<<"day", d>>, [start |-> d * Day, end |-> (d + 1) * Day], r.capacity[d])
      BY <1>3 DEF CapacityBuckets
    <2>2. d \in Int /\ r.capacity[d] \in Int /\ r.capacity[d] >= 0 /\ Day \in Int
      BY CalendarAssumption DEF Measured
    <2>3. b.start = d * Day /\ b.end = (d + 1) * Day /\ b.minutes = r.capacity[d]
      BY <2>1 DEF Bucket
    <2>4. d * Day \in Int /\ (d + 1) * Day \in Int
      BY <2>2
    <2> QED  BY <2>2, <2>3, <2>4 DEF Counted
  <1> QED  BY <1>1, <1>2, <1>3

-----------------------------------------------------------------------------
(* The problem of a request, and the rows of a schedule.                     *)

Made(q, x, n) ==
  [name |-> <<x.id, n.id>>, order |-> x.id, sequence |-> n.sequence, resource |-> n.resource,
   takes |-> [id \in {n.resource} \cup n.alternates |->
                Effective(WorkMinutes(n, x), ResourceOf(q, id).efficiency)],
   family |-> IF n.family = Nothing THEN x.product ELSE n.family,
   earliest |-> OffsetOrNothing(q, n.earliest), latest |-> OffsetOrNothing(q, n.latest),
   early |-> n.earliest # Nothing /\ n.earliest < q.start,
   closed |-> n.earliest # Nothing /\ n.latest # Nothing /\ n.earliest >= n.latest]

LEMMA MadeFields ==
  ASSUME NEW q, NEW x, NEW n
  PROVE  /\ Made(q, x, n).name = <<x.id, n.id>> /\ Made(q, x, n).order = x.id
         /\ Made(q, x, n).sequence = n.sequence /\ Made(q, x, n).resource = n.resource
         /\ DOMAIN Made(q, x, n).takes = {n.resource} \cup n.alternates
         /\ \A id \in {n.resource} \cup n.alternates :
              Made(q, x, n).takes[id] = Effective(WorkMinutes(n, x), ResourceOf(q, id).efficiency)
         /\ Made(q, x, n).family = IF n.family = Nothing THEN x.product ELSE n.family
         /\ Made(q, x, n).earliest = OffsetOrNothing(q, n.earliest)
         /\ Made(q, x, n).latest = OffsetOrNothing(q, n.latest)
         /\ Made(q, x, n).early = (n.earliest # Nothing /\ n.earliest < q.start)
  BY DEF Made

LEMMA MadeOperations ==
  ASSUME NEW q, NEW x
  PROVE  OperationsOf(q, x) = {Made(q, x, n) : n \in Route(q, x).operations}
  BY DEF OperationsOf, Made

LEMMA BuildFields ==
  ASSUME NEW q
  PROVE  /\ Build(q).start = q.start /\ Build(q).setups = q.setups
         /\ Build(q).operations = UNION {OperationsOf(q, x) : x \in q.orders}
         /\ Build(q).constraints = {r.id : r \in {r \in q.resources : r.constraint}}
         /\ \A r \in q.resources : /\ Build(q).units[r.id] = ResourceOf(q, r.id).units
                                   /\ Build(q).windows[r.id] = WindowsOf(q, ResourceOf(q, r.id))
  BY DEF Build

LEMMA OperationsMade ==
  ASSUME NEW q, NEW o
  PROVE  o \in Build(q).operations <=>
           \E x \in q.orders : \E n \in Route(q, x).operations : o = Made(q, x, n)
  BY BuildFields, MadeOperations

LEMMA RouteFound ==
  ASSUME NEW q, ValidRequest(q), NEW x \in q.orders
  PROVE  Route(q, x) \in q.routings
  <1>1. PICK g \in q.routings : g.product = x.product
    BY DEF ValidRequest
  <1> DEFINE primary == {h \in q.routings : h.product = g.product /\ h.primary}
  <1>2. Cardinality(primary) = 1
    BY DEF ValidRequest
  <1>3. primary # {}
    <2> HIDE DEF primary
    <2> QED  BY <1>2, FS_EmptySet
  <1>4. \E h \in q.routings : h.product = x.product /\ h.primary
    BY <1>1, <1>3
  <1> QED  BY <1>4 DEF Route

LEMMA ResourceFound ==
  ASSUME NEW q, ValidRequest(q), NEW r \in q.resources
  PROVE  ResourceOf(q, r.id) = r
  <1>1. \A u, v \in q.resources : u.id = v.id => u = v
    BY DEF ValidRequest
  <1> QED  BY <1>1 DEF ResourceOf

\* The scheduler answered the request with this schedule.
Answered(q, given, s) ==
  /\ q \in Request /\ ValidRequest(q)
  /\ ~Refused(Build(q), given)
  /\ s \in Schedules(Build(q), given)

RowOf(q, s, o) ==
  [operation |-> o.name, order |-> o.order, resource |-> s[o].resource,
   start |-> q.start + Minute * s[o].start, end |-> q.start + Minute * s[o].end]

LEMMA RowFields ==
  ASSUME NEW q, NEW s, NEW o
  PROVE  /\ RowOf(q, s, o).operation = o.name /\ RowOf(q, s, o).order = o.order
         /\ RowOf(q, s, o).resource = s[o].resource
         /\ RowOf(q, s, o).start = q.start + Minute * s[o].start
         /\ RowOf(q, s, o).end = q.start + Minute * s[o].end
  BY DEF RowOf

\* An operation is on the floor under the name of its order and its step.
LEMMA NamesIdentify ==
  ASSUME NEW q, NEW given, ValidRequest(q), ~Refused(Build(q), given),
         NEW x \in q.orders, NEW n \in Route(q, x).operations,
         NEW y \in q.orders, NEW m \in Route(q, y).operations,
         x.id = y.id, n.id = m.id
  PROVE  x = y /\ n = m
  <1>1. x = y
    BY DEF ValidRequest
  <1>2. Made(q, x, n) \in Build(q).operations /\ Made(q, x, m) \in Build(q).operations
    BY <1>1, OperationsMade
  <1>3. Made(q, x, n).name = Made(q, x, m).name
    BY MadeFields
  <1>4. Made(q, x, n) = Made(q, x, m)
    BY <1>2, <1>3 DEF Refused
  <1>5. n.sequence = m.sequence
    <2>1. Made(q, x, n).sequence = n.sequence /\ Made(q, x, m).sequence = m.sequence
      BY MadeFields
    <2> QED  BY <1>4, <2>1
  <1>6. Route(q, x) \in q.routings
    BY RouteFound
  <1> QED  BY <1>1, <1>5, <1>6 DEF ValidRequest

LEMMA RowIsAbout ==
  ASSUME NEW q, NEW given, NEW s, ValidRequest(q), ~Refused(Build(q), given),
         NEW x \in q.orders, NEW n \in Route(q, x).operations
  PROVE  /\ OrderOf(q, RowOf(q, s, Made(q, x, n))) = x
         /\ RoutedOf(q, RowOf(q, s, Made(q, x, n))) = n
  <1>1. PICK row : row = RowOf(q, s, Made(q, x, n))
    OBVIOUS
  <1>2. row.operation = <<x.id, n.id>> /\ row.order = x.id
    BY <1>1, RowFields, MadeFields
  <1>3. OrderOf(q, row) = x
    <2>1. \A y \in q.orders : y.id = x.id => y = x
      BY DEF ValidRequest
    <2> QED  BY <1>2, <2>1 DEF OrderOf
  <1>4. RoutedOf(q, row) = n
    <2>1. \A m \in Route(q, x).operations : m.id = n.id => m = n
      BY NamesIdentify
    <2>2. row.operation[2] = n.id
      BY <1>2
    <2> QED  BY <1>3, <2>1, <2>2 DEF RoutedOf
  <1> QED  BY <1>1, <1>3, <1>4

\* What the constraints say of a schedule.
LEMMA ScheduleFacts ==
  ASSUME NEW q, NEW given, NEW s, Answered(q, given, s)
  PROVE  /\ DOMAIN s = Build(q).operations
         /\ \A o \in Build(q).operations : s[o] \in Places(Build(q), given, o)
         /\ \A a, b \in Build(q).operations : Precedes(a, b) => s[a].end <= s[b].start
         /\ \A id \in Build(q).constraints :
              Shared(Build(q), s, id) /\ ChangedOver(Build(q), s, id) /\ Spent(Build(q), s, id)
  BY DEF Answered, Schedules

LEMMA PlaceFacts ==
  ASSUME NEW q, NEW given, NEW s, Answered(q, given, s), NEW o \in Build(q).operations
  PROVE  /\ s[o].resource \in DOMAIN o.takes
         /\ s[o].start \in Int /\ 0 <= s[o].start
         /\ s[o].end = s[o].start + o.takes[s[o].resource]
         /\ o.earliest # Nothing => o.earliest <= s[o].start
         /\ o.latest # Nothing => s[o].end <= o.latest
         /\ \A k \in given : k.operation = o.name =>
              s[o].resource = k.resource /\ s[o].start = Offset(Build(q), k.start)
  <1>1. PICK last : last = Ahead(Build(q), given)
    OBVIOUS
  <1>2. s[o] \in Places(Build(q), given, o)
    BY ScheduleFacts
  <1>3. PICK id \in DOMAIN o.takes :
          s[o] \in {[resource |-> id, start |-> t, end |-> t + o.takes[id]] : t \in 0 .. last}
    BY <1>1, <1>2 DEF Places
  <1>4. PICK t \in 0 .. last : s[o] = [resource |-> id, start |-> t, end |-> t + o.takes[id]]
    BY <1>3
  <1>5. /\ o.earliest # Nothing => o.earliest <= s[o].start
        /\ o.latest # Nothing => s[o].end <= o.latest
        /\ \A k \in given : k.operation = o.name =>
             s[o].resource = k.resource /\ s[o].start = Offset(Build(q), k.start)
    BY <1>2 DEF Places
  <1>6. t \in Int /\ 0 <= t
    BY <1>4
  <1>7. s[o].resource = id /\ s[o].start = t /\ s[o].end = t + o.takes[id]
    BY <1>4
  <1> QED  BY <1>5, <1>6, <1>7

\* Its operations are placed on their resources for as long as they take there,
\* whether or not the solver would place them so.
Placed(q, given, s) ==
  /\ q \in Request /\ ValidRequest(q) /\ ~Refused(Build(q), given)
  /\ DOMAIN s = Build(q).operations
  /\ \A o \in Build(q).operations :
       /\ s[o].resource \in DOMAIN o.takes
       /\ s[o].start \in Int /\ 0 <= s[o].start
       /\ s[o].end = s[o].start + o.takes[s[o].resource]

LEMMA AnswersArePlaced ==
  ASSUME NEW q, NEW given, NEW s, Answered(q, given, s)
  PROVE  Placed(q, given, s)
  <1>1. q \in Request /\ ValidRequest(q) /\ ~Refused(Build(q), given)
    BY DEF Answered
  <1>2. DOMAIN s = Build(q).operations
    BY ScheduleFacts
  <1> QED  BY <1>1, <1>2, PlaceFacts DEF Placed

LEMMA RowsAre ==
  ASSUME NEW q, NEW given, NEW s, Placed(q, given, s)
  PROVE  Rows(Build(q), s) = {RowOf(q, s, o) : o \in Build(q).operations}
  <1>1. DOMAIN s = Build(q).operations /\ Build(q).start = q.start
    BY BuildFields DEF Placed
  <1>2. Rows(Build(q), s) = {RowOf(q, s, o) : o \in DOMAIN s}
    <2>1. PICK p : p = Build(q)
      OBVIOUS
    <2>2. p.start = q.start
      BY <1>1, <2>1
    <2>3. Rows(p, s) = {RowOf(q, s, o) : o \in DOMAIN s}
      BY <2>2 DEF Rows, RowOf
    <2> QED  BY <2>1, <2>3
  <1> QED  BY <1>1, <1>2

-----------------------------------------------------------------------------
(* Minutes and ticks.                                                        *)

LEMMA Quotient ==
  ASSUME NEW a \in Int, NEW b \in Nat \ {0}
  PROVE  a \div b \in Int /\ b * (a \div b) <= a /\ a < b * (a \div b) + b
  OBVIOUS

LEMMA Longer ==
  ASSUME NEW a \in Int, NEW b \in Int, NEW k \in Nat, a <= b
  PROVE  k * a <= k * b /\ a * k <= b * k /\ k * a \in Int /\ k * b \in Int
  OBVIOUS

\* A date is cut to the minute before it, and one before the start to the minute after.
LEMMA OffsetCuts ==
  ASSUME NEW q, q.start \in Int, NEW date \in Int
  PROVE  /\ Offset(q, date) \in Int
         /\ q.start <= date => /\ q.start + Minute * Offset(q, date) <= date
                               /\ date < q.start + Minute * Offset(q, date) + Minute
         /\ date < q.start => Offset(q, date) <= 0
  <1>1. Minute \in Nat \ {0}
    BY SchedulerAssumption
  <1>2. CASE q.start <= date
    <2>1. date - q.start \in Int
      OBVIOUS
    <2>2. PICK o : o = (date - q.start) \div Minute
      OBVIOUS
    <2>3. o \in Int /\ Minute * o <= date - q.start /\ date - q.start < Minute * o + Minute
      BY <1>1, <2>1, <2>2, Quotient
    <2>4. Offset(q, date) = o
      BY <1>2, <2>2 DEF Offset
    <2>5. PICK ticks \in Int : ticks = Minute * o
      BY <1>1, <2>3
    <2> QED  BY <1>1, <1>2, <2>3, <2>4, <2>5
  <1>3. CASE date < q.start
    <2>1. q.start - date \in Int /\ q.start - date >= 0
      BY <1>3
    <2>2. PICK o : o = (q.start - date) \div Minute
      OBVIOUS
    <2>3. o \in Int /\ Minute * o <= q.start - date /\ q.start - date < Minute * o + Minute
      BY <1>1, <2>1, <2>2, Quotient
    <2>4. Offset(q, date) = -o
      BY <1>3, <2>2 DEF Offset
    <2>5. o >= 0
      <3>1. SUFFICES ASSUME o + 1 <= 0 PROVE FALSE
        BY <2>3
      <3>2. Minute * (o + 1) <= Minute * 0
        BY <1>1, <2>3, <3>1, Longer
      <3>3. Minute * (o + 1) = Minute * o + Minute
        BY <1>1, <2>3
      <3> QED  BY <1>1, <2>1, <2>3, <3>2, <3>3
    <2> QED  BY <1>3, <2>3, <2>4, <2>5
  <1> QED  BY <1>2, <1>3

\* At the efficiency of the resource the work is done in the time it is given.
LEMMA EffectiveSuffices ==
  ASSUME NEW minutes \in Int, NEW efficiency \in Nat \ {0}
  PROVE  /\ Effective(minutes, efficiency) \in Int /\ Effective(minutes, efficiency) >= 1
         /\ Effective(minutes, efficiency) * efficiency >= minutes * 100
  <1>1. PICK k : k = (minutes * 100 + efficiency - 1) \div efficiency
    OBVIOUS
  <1>2. minutes * 100 + efficiency - 1 \in Int
    OBVIOUS
  <1>3. k \in Int /\ minutes * 100 + efficiency - 1 < efficiency * k + efficiency
    BY <1>1, <1>2, Quotient
  <1>4. Effective(minutes, efficiency) = Max({1, k})
    BY <1>1 DEF Effective
  <1>5. PICK e : e = Effective(minutes, efficiency)
    OBVIOUS
  <1>6. e \in Int /\ e >= 1 /\ e >= k
    BY <1>3, <1>4, <1>5, EndsOfTwo
  <1>7. efficiency * k <= efficiency * e
    BY <1>3, <1>6, Longer
  <1>8. efficiency * k \in Int /\ efficiency * e \in Int /\ efficiency * e = e * efficiency
    BY <1>3, <1>6
  <1>9. efficiency * k >= minutes * 100
    BY <1>2, <1>3, <1>8
  <1> QED  BY <1>5, <1>6, <1>7, <1>8, <1>9

\* What the fields of a request are.
LEMMA RequestFields ==
  ASSUME NEW q \in Request
  PROVE  /\ q.start \in Int /\ Nothing \notin Int
         /\ \A s \in DOMAIN q.setups : q.setups[s] \in Int
         /\ \A r \in q.resources : Measured(r) /\ r.efficiency \in Nat \ {0}
         /\ \A g \in q.routings :
              /\ IsFiniteSet(g.operations)
              /\ \A o \in g.operations : /\ o.minutes \in Int
                                         /\ o.earliest = Nothing \/ o.earliest \in Int
                                         /\ o.latest = Nothing \/ o.latest \in Int
         /\ IsFiniteSet(q.orders) /\ \A x \in q.orders : x.parts \in Int
         /\ Minute \in Nat \ {0} /\ Share \in Nat \ {0}
  BY SchedulerAssumption

\* An operation of a routing and the resources it may be done on.
LEMMA WorkFacts ==
  ASSUME NEW q \in Request, ValidRequest(q),
         NEW x \in q.orders, NEW n \in Route(q, x).operations, NEW id \in DOMAIN Made(q, x, n).takes
  PROVE  /\ WorkMinutes(n, x) \in Int
         /\ id \in {n.resource} \cup n.alternates
         /\ ResourceOf(q, id) \in q.resources /\ ResourceOf(q, id).id = id
         /\ ResourceOf(q, id).efficiency \in Nat \ {0}
         /\ Made(q, x, n).takes[id] \in Int /\ Made(q, x, n).takes[id] >= 1
         /\ Made(q, x, n).takes[id] * ResourceOf(q, id).efficiency >= WorkMinutes(n, x) * 100
  <1>1. Route(q, x) \in q.routings
    BY RouteFound
  <1>2. WorkMinutes(n, x) \in Int
    <2>1. n.minutes \in Int /\ x.parts \in Int /\ Share \in Nat \ {0}
      BY <1>1, RequestFields
    <2>2. n.minutes * x.parts \in Int
      BY <2>1
    <2> QED  BY <2>1, <2>2, Quotient DEF WorkMinutes
  <1>3. id \in {n.resource} \cup n.alternates
    BY MadeFields
  <1>4. id \in {r.id : r \in q.resources}
    BY <1>1, <1>3 DEF ValidRequest
  <1>5. ResourceOf(q, id) \in q.resources /\ ResourceOf(q, id).id = id
    BY <1>4 DEF ResourceOf
  <1>6. ResourceOf(q, id).efficiency \in Nat \ {0}
    BY <1>5, RequestFields
  <1>7. Made(q, x, n).takes[id] = Effective(WorkMinutes(n, x), ResourceOf(q, id).efficiency)
    BY <1>3, MadeFields
  <1> QED  BY <1>2, <1>3, <1>5, <1>6, <1>7, EffectiveSuffices

-----------------------------------------------------------------------------
(* Each operation has its place, its time and its turn.                      *)

RowsUnder(q, s, name) == {row \in Rows(Build(q), s) : row.operation = name}

LEMMA PlacedOnce ==
  ASSUME NEW q, NEW given, NEW s, Answered(q, given, s),
         NEW x \in q.orders, NEW n \in Route(q, x).operations
  PROVE  Cardinality(RowsUnder(q, s, <<x.id, n.id>>)) = 1
  <1> DEFINE here == {row \in Rows(Build(q), s) : row.operation = <<x.id, n.id>>}
             mine == RowOf(q, s, Made(q, x, n))
  <1>1. ValidRequest(q) /\ ~Refused(Build(q), given)
    BY DEF Answered
  <1>2. mine \in here
    BY RowsAre, OperationsMade, RowFields, MadeFields, AnswersArePlaced
  <1>3. ASSUME NEW row \in here PROVE row = mine
    <2>1. PICK o \in Build(q).operations : row = RowOf(q, s, o)
      BY RowsAre, AnswersArePlaced
    <2>2. PICK y \in q.orders : \E m \in Route(q, y).operations : o = Made(q, y, m)
      BY OperationsMade
    <2>3. PICK m \in Route(q, y).operations : o = Made(q, y, m)
      BY <2>2
    <2>4. <<y.id, m.id>> = <<x.id, n.id>>
      BY <2>1, <2>3, RowFields, MadeFields
    <2>5. y = x /\ m = n
      BY <1>1, <2>4, NamesIdentify
    <2> QED  BY <2>1, <2>3, <2>5
  <1>4. here = {mine}
    BY <1>2, <1>3
  <1> HIDE DEF here, mine
  <1>5. Cardinality(here) = 1
    BY <1>4, FS_Singleton
  <1> QED  BY <1>5 DEF here, RowsUnder

LEMMA AnsweredFacts ==
  ASSUME NEW q, NEW given, NEW s, Answered(q, given, s)
  PROVE  q \in Request /\ ValidRequest(q) /\ ~Refused(Build(q), given)
  BY DEF Answered

\* An operation begins at a whole minute of the plan, lasts at least one, and for as
\* long as its work takes on the resource.
LEMMA RowTimes ==
  ASSUME NEW q, NEW given, NEW s, Placed(q, given, s), NEW o \in Build(q).operations
  PROVE  /\ q.start \in Int /\ s[o].start \in Int /\ 0 <= s[o].start
         /\ s[o].end \in Int /\ s[o].start + 1 <= s[o].end
         /\ Minute * s[o].start \in Int /\ Minute * s[o].end \in Int
         /\ Minute * s[o].start >= 0
         /\ RowOf(q, s, o).start \in Int /\ RowOf(q, s, o).end \in Int
  <1>1. q \in Request /\ ValidRequest(q)
    BY DEF Placed
  <1>2. PICK x \in q.orders : \E n \in Route(q, x).operations : o = Made(q, x, n)
    BY OperationsMade
  <1>3. PICK n \in Route(q, x).operations : o = Made(q, x, n)
    BY <1>2
  <1>4. o.takes[s[o].resource] \in Int /\ o.takes[s[o].resource] >= 1
    BY <1>1, <1>3, WorkFacts DEF Placed
  <1>5. /\ s[o].start \in Int /\ 0 <= s[o].start
        /\ s[o].end = s[o].start + o.takes[s[o].resource]
    BY DEF Placed
  <1>6. q.start \in Int /\ Minute \in Nat
    BY <1>1, RequestFields
  <1>7. s[o].end \in Int /\ s[o].start + 1 <= s[o].end
    BY <1>4, <1>5
  <1>8. Minute * s[o].start \in Int /\ Minute * s[o].end \in Int /\ Minute * s[o].start >= Minute * 0
    BY <1>5, <1>6, <1>7, Longer
  <1>9. Minute * 0 = 0
    BY <1>6
  <1> QED  BY <1>5, <1>6, <1>7, <1>8, <1>9, RowFields

LEMMA EnoughTime ==
  ASSUME NEW q, NEW given, NEW s, Answered(q, given, s),
         NEW x \in q.orders, NEW n \in Route(q, x).operations,
         NEW o, o = Made(q, x, n)
  PROVE  Length(RowOf(q, s, o)) * ResourceOf(q, s[o].resource).efficiency
           >= WorkMinutes(n, x) * 100 * Minute
  <1>1. q \in Request /\ ValidRequest(q) /\ o \in Build(q).operations
    BY AnsweredFacts, OperationsMade
  <1>2. PICK e : e = ResourceOf(q, s[o].resource).efficiency
    OBVIOUS
  <1>3. PICK t : t = o.takes[s[o].resource]
    OBVIOUS
  <1>4. s[o].resource \in DOMAIN o.takes /\ s[o].start \in Int /\ s[o].end = s[o].start + t
    BY <1>1, <1>3, PlaceFacts
  <1>5. /\ t \in Int /\ e \in Nat \ {0} /\ WorkMinutes(n, x) \in Int
        /\ t * e >= WorkMinutes(n, x) * 100
    BY <1>1, <1>2, <1>3, <1>4, WorkFacts
  <1>6. Minute \in Nat /\ q.start \in Int
    BY <1>1, RequestFields
  <1>7. Length(RowOf(q, s, o)) = Minute * t
    <2>1. Minute * s[o].start \in Int /\ Minute * (s[o].start + t) = Minute * s[o].start + Minute * t
          /\ Minute * t \in Int
      BY <1>4, <1>5, <1>6
    <2> QED  BY <1>4, <1>6, <2>1, RowFields DEF Length
  <1>8. Minute * t * e = Minute * (t * e) /\ t * e \in Int
    BY <1>5, <1>6
  <1>9. Minute * (WorkMinutes(n, x) * 100) <= Minute * (t * e)
    <2>1. WorkMinutes(n, x) * 100 \in Int
      BY <1>5
    <2> QED  BY <1>5, <1>6, <1>8, <2>1, Longer
  <1>10. WorkMinutes(n, x) * 100 * Minute = Minute * (WorkMinutes(n, x) * 100)
    BY <1>5, <1>6
  <1> QED  BY <1>2, <1>7, <1>8, <1>9, <1>10

LEMMA WithinDates ==
  ASSUME NEW q, NEW given, NEW s, Answered(q, given, s),
         NEW x \in q.orders, NEW n \in Route(q, x).operations,
         NEW o, o = Made(q, x, n)
  PROVE  /\ q.start <= RowOf(q, s, o).start
         /\ n.earliest # Nothing => n.earliest < RowOf(q, s, o).start + Minute
         /\ n.latest # Nothing => RowOf(q, s, o).end <= n.latest
  <1>1. q \in Request /\ ValidRequest(q) /\ ~Refused(Build(q), given) /\ o \in Build(q).operations
    BY AnsweredFacts, OperationsMade
  <1>2. /\ q.start \in Int /\ s[o].start \in Int /\ 0 <= s[o].start
        /\ s[o].end \in Int /\ s[o].start + 1 <= s[o].end
        /\ Minute * s[o].start \in Int /\ Minute * s[o].end \in Int /\ Minute * s[o].start >= 0
    BY <1>1, RowTimes, AnswersArePlaced
  <1>3. Minute \in Nat /\ Nothing \notin Int
    BY <1>1, RequestFields
  <1>4. Route(q, x) \in q.routings
    BY <1>1, RouteFound
  <1>5. /\ RowOf(q, s, o).start = q.start + Minute * s[o].start
        /\ RowOf(q, s, o).end = q.start + Minute * s[o].end
    BY RowFields
  <1>6. ASSUME n.earliest # Nothing PROVE n.earliest < RowOf(q, s, o).start + Minute
    <2>1. n.earliest \in Int
      BY <1>1, <1>4, <1>6, RequestFields
    <2>2. ~o.early
      BY <1>1 DEF Refused
    <2>3. q.start <= n.earliest
      <3>1. o.early = (n.earliest # Nothing /\ n.earliest < q.start)
        BY MadeFields
      <3>2. ~(n.earliest # Nothing /\ n.earliest < q.start)
        BY <2>2, <3>1, Zenon
      <3> QED  BY <1>2, <1>6, <2>1, <3>2
    <2>4. PICK f : f = Offset(q, n.earliest)
      OBVIOUS
    <2>5. f \in Int /\ n.earliest < q.start + Minute * f + Minute
      BY <1>2, <2>1, <2>3, <2>4, OffsetCuts
    <2>6. o.earliest = f
      BY <1>6, <2>4, MadeFields DEF OffsetOrNothing
    <2>7. f <= s[o].start
      BY <1>1, <1>3, <2>5, <2>6, PlaceFacts
    <2>8. Minute * f <= Minute * s[o].start /\ Minute * f \in Int
      BY <1>2, <1>3, <2>5, <2>7, Longer
    <2> QED  BY <1>2, <1>3, <1>5, <2>1, <2>5, <2>8
  <1>7. ASSUME n.latest # Nothing PROVE RowOf(q, s, o).end <= n.latest
    <2>1. n.latest \in Int
      BY <1>1, <1>4, <1>7, RequestFields
    <2>2. PICK f : f = Offset(q, n.latest)
      OBVIOUS
    <2>3. /\ f \in Int
          /\ q.start <= n.latest => q.start + Minute * f <= n.latest
          /\ n.latest < q.start => f <= 0
      BY <1>2, <2>1, <2>2, OffsetCuts
    <2>4. o.latest = f
      BY <1>7, <2>2, MadeFields DEF OffsetOrNothing
    <2>5. s[o].end <= f
      BY <1>1, <1>3, <2>3, <2>4, PlaceFacts
    <2>6. q.start <= n.latest
      BY <1>2, <2>1, <2>3, <2>5
    <2>7. Minute * s[o].end <= Minute * f /\ Minute * f \in Int
      BY <1>2, <1>3, <2>3, <2>5, Longer
    <2> QED  BY <1>2, <1>3, <1>5, <2>1, <2>3, <2>6, <2>7
  <1> QED  BY <1>2, <1>5, <1>6, <1>7

LEMMA InTurn ==
  ASSUME NEW q, NEW given, NEW s, Answered(q, given, s),
         NEW a \in Build(q).operations, NEW b \in Build(q).operations, Precedes(a, b)
  PROVE  RowOf(q, s, a).end <= RowOf(q, s, b).start
  <1>1. s[a].end <= s[b].start
    BY ScheduleFacts
  <1>2. q.start \in Int /\ s[a].end \in Int /\ s[b].start \in Int
        /\ Minute * s[a].end \in Int /\ Minute * s[b].start \in Int
    BY RowTimes, AnswersArePlaced
  <1>3. Minute \in Nat
    BY SchedulerAssumption
  <1>4. Minute * s[a].end <= Minute * s[b].start
    BY <1>1, <1>2, <1>3, Longer
  <1> QED  BY <1>2, <1>4, RowFields

LEMMA AllDoneInTurn ==
  ASSUME NEW q, NEW given, NEW s, Answered(q, given, s)
  PROVE  DoneInTurn(q, Rows(Build(q), s), Minute)
  <1>1. q \in Request /\ ValidRequest(q) /\ ~Refused(Build(q), given)
    BY AnsweredFacts
  <1>2. ASSUME NEW x \in q.orders, NEW n \in Route(q, x).operations
        PROVE  Cardinality({row \in Rows(Build(q), s) : row.operation = <<x.id, n.id>>}) = 1
    <2>1. Cardinality(RowsUnder(q, s, <<x.id, n.id>>)) = 1
      BY PlacedOnce
    <2> QED  BY <2>1 DEF RowsUnder
  <1>3. ASSUME NEW row \in Rows(Build(q), s)
        PROVE  /\ row.resource \in {RoutedOf(q, row).resource} \cup RoutedOf(q, row).alternates
               /\ q.start <= row.start
               /\ Length(row) * ResourceOf(q, row.resource).efficiency
                    >= WorkMinutes(RoutedOf(q, row), OrderOf(q, row)) * 100 * Minute
               /\ RoutedOf(q, row).earliest # Nothing =>
                    RoutedOf(q, row).earliest < row.start + Minute
               /\ RoutedOf(q, row).latest # Nothing => row.end <= RoutedOf(q, row).latest
               /\ \A m \in Rows(Build(q), s) :
                    m.order = row.order /\ RoutedOf(q, m).sequence < RoutedOf(q, row).sequence
                      => m.end <= row.start
    <2>1. PICK o \in Build(q).operations : row = RowOf(q, s, o)
      BY RowsAre, AnswersArePlaced
    <2>2. PICK x \in q.orders : \E n \in Route(q, x).operations : o = Made(q, x, n)
      BY OperationsMade
    <2>3. PICK n \in Route(q, x).operations : o = Made(q, x, n)
      BY <2>2
    <2>4. OrderOf(q, row) = x /\ RoutedOf(q, row) = n
      BY <1>1, <2>1, <2>3, RowIsAbout
    <2>5. row.resource = s[o].resource
      BY <2>1, RowFields
    <2>6. row.resource \in {n.resource} \cup n.alternates
      BY <2>3, <2>5, PlaceFacts, MadeFields
    <2>7. Length(row) * ResourceOf(q, row.resource).efficiency >= WorkMinutes(n, x) * 100 * Minute
      BY <2>1, <2>3, <2>5, EnoughTime
    <2>8. /\ q.start <= row.start
          /\ n.earliest # Nothing => n.earliest < row.start + Minute
          /\ n.latest # Nothing => row.end <= n.latest
      BY <2>1, <2>3, WithinDates
    <2>9. ASSUME NEW m \in Rows(Build(q), s), m.order = row.order,
                 RoutedOf(q, m).sequence < n.sequence
          PROVE  m.end <= row.start
      <3>1. PICK a \in Build(q).operations : m = RowOf(q, s, a)
        BY RowsAre, AnswersArePlaced
      <3>2. PICK y \in q.orders : \E k \in Route(q, y).operations : a = Made(q, y, k)
        BY OperationsMade
      <3>3. PICK k \in Route(q, y).operations : a = Made(q, y, k)
        BY <3>2
      <3>4. RoutedOf(q, m) = k
        BY <1>1, <3>1, <3>3, RowIsAbout
      <3>5. a.order = o.order /\ a.sequence < o.sequence
        BY <2>1, <2>3, <2>9, <3>1, <3>3, <3>4, RowFields, MadeFields
      <3> QED  BY <2>1, <3>1, <3>5, InTurn DEF Precedes
    <2> QED  BY <2>4, <2>6, <2>7, <2>8, <2>9
  <1> QED  BY <1>2, <1>3 DEF DoneInTurn

LEMMA AllLeftInPlace ==
  ASSUME NEW q, NEW given, NEW s, Answered(q, given, s), \A k \in given : k.start \in Int
  PROVE  LeftInPlace(given, Rows(Build(q), s), Minute)
  <1> SUFFICES ASSUME NEW k \in given
               PROVE  \E row \in Rows(Build(q), s) :
                        /\ row.operation = k.operation /\ row.resource = k.resource
                        /\ row.start <= k.start /\ k.start < row.start + Minute
    BY DEF LeftInPlace
  <1>1. q \in Request /\ ValidRequest(q) /\ ~Refused(Build(q), given)
    BY AnsweredFacts
  <1>2. Build(q).start = q.start /\ q.start \in Int /\ k.start \in Int /\ Minute \in Nat
    BY <1>1, BuildFields, RequestFields
  <1>3. /\ ~(k.start < Build(q).start)
        /\ \E o \in Build(q).operations : o.name = k.operation /\ k.resource \in DOMAIN o.takes
    BY <1>1 DEF Refused
  <1>4. PICK o \in Build(q).operations : o.name = k.operation
    BY <1>3
  <1>5. s[o].resource = k.resource /\ s[o].start = Offset(Build(q), k.start)
    BY <1>4, PlaceFacts
  <1>6. Offset(Build(q), k.start) = Offset(q, k.start)
    BY <1>2 DEF Offset
  <1>7. /\ q.start + Minute * s[o].start <= k.start
        /\ k.start < q.start + Minute * s[o].start + Minute
    BY <1>2, <1>3, <1>5, <1>6, OffsetCuts
  <1>8. RowOf(q, s, o) \in Rows(Build(q), s)
    BY RowsAre, AnswersArePlaced
  <1> QED  BY <1>4, <1>5, <1>7, <1>8, RowFields

-----------------------------------------------------------------------------
(* The capacity of constraints.                                              *)

LEMMA OrderKept ==
  ASSUME NEW a \in Int, NEW b \in Int, NEW k \in Nat \ {0}
  PROVE  a <= b <=> k * a <= k * b
  <1>1. ASSUME a <= b PROVE k * a <= k * b
    BY <1>1, Longer
  <1>2. ASSUME b + 1 <= a PROVE k * b < k * a
    <2>1. k * (b + 1) <= k * a
      BY <1>2, Longer
    <2>2. k * (b + 1) = k * b + k /\ k * b \in Int /\ k * a \in Int
      OBVIOUS
    <2> QED  BY <2>1, <2>2
  <1>3. k * b \in Int /\ k * a \in Int
    OBVIOUS
  <1> QED  BY <1>1, <1>2, <1>3

LEMMA FinitelyMany ==
  ASSUME NEW q, q \in Request, ValidRequest(q)
  PROVE  IsFiniteSet(Build(q).operations)
  <1> DEFINE all == [x \in q.orders |-> OperationsOf(q, x)]
  <1>1. ASSUME NEW x \in q.orders PROVE IsFiniteSet(OperationsOf(q, x))
    <2> DEFINE S == Route(q, x).operations
               made == [n \in S |-> Made(q, x, n)]
    <2>1. IsFiniteSet(S)
      BY RouteFound, RequestFields
    <2>2. OperationsOf(q, x) = {made[n] : n \in S}
      BY MadeOperations
    <2> HIDE DEF made, S
    <2> QED  BY <2>1, <2>2, FiniteImage
  <1>2. Build(q).operations = UNION {all[x] : x \in q.orders}
    <2>1. UNION {OperationsOf(q, x) : x \in q.orders} = UNION {all[x] : x \in q.orders}
      OBVIOUS
    <2>2. Build(q).operations = UNION {OperationsOf(q, x) : x \in q.orders}
      BY BuildFields
    <2> QED  BY <2>1, <2>2
  <1>3. \A x \in q.orders : IsFiniteSet(all[x])
    BY <1>1
  <1>4. IsFiniteSet(q.orders)
    BY RequestFields
  <1> HIDE DEF all
  <1> QED  BY <1>2, <1>3, <1>4, FiniteUnion

Here(q, s, id) == {row \in Rows(Build(q), s) : row.resource = id}

LEMMA RowsHere ==
  ASSUME NEW q, NEW given, NEW s, Placed(q, given, s), NEW id
  PROVE  /\ IsFiniteSet(On(s, id))
         /\ On(s, id) \subseteq Build(q).operations
         /\ \A row : row \in Here(q, s, id) <=> \E o \in On(s, id) : row = RowOf(q, s, o)
         /\ \A o, n \in On(s, id) : RowOf(q, s, o) = RowOf(q, s, n) => o = n
  <1>1. q \in Request /\ ValidRequest(q) /\ ~Refused(Build(q), given)
    BY DEF Placed
  <1>2. DOMAIN s = Build(q).operations
    BY DEF Placed
  <1>3. On(s, id) = {o \in Build(q).operations : s[o].resource = id}
    BY <1>2 DEF On
  <1>4. IsFiniteSet(On(s, id))
    BY <1>1, <1>3, FinitelyMany, FS_Subset
  <1>5. ASSUME NEW row PROVE row \in Here(q, s, id) <=> \E o \in On(s, id) : row = RowOf(q, s, o)
    BY <1>3, RowsAre, RowFields DEF Here
  <1>6. ASSUME NEW o \in On(s, id), NEW n \in On(s, id), RowOf(q, s, o) = RowOf(q, s, n)
        PROVE  o = n
    <2>1. o.name = n.name
      BY <1>6, RowFields
    <2>2. o \in Build(q).operations /\ n \in Build(q).operations
      BY <1>3
    <2> QED  BY <1>1, <2>1, <2>2 DEF Refused
  <1> QED  BY <1>3, <1>4, <1>5, <1>6

LEMMA ConstraintFacts ==
  ASSUME NEW q, NEW given, NEW s, Answered(q, given, s), NEW r \in q.resources, r.constraint
  PROVE  /\ Shared(Build(q), s, r.id) /\ ChangedOver(Build(q), s, r.id) /\ Spent(Build(q), s, r.id)
         /\ Build(q).units[r.id] = r.units /\ Build(q).windows[r.id] = WindowsOf(q, r)
  <1>1. ValidRequest(q)
    BY AnsweredFacts
  <1>2. r.id \in Build(q).constraints
    BY BuildFields
  <1>3. ResourceOf(q, r.id) = r
    BY <1>1, ResourceFound
  <1> QED  BY <1>2, <1>3, ScheduleFacts, BuildFields

\* Rows overlap as the places they are made of.
LEMMA SameTime ==
  ASSUME NEW q, NEW given, NEW s, Placed(q, given, s),
         NEW o \in Build(q).operations, NEW n \in Build(q).operations
  PROVE  /\ Within(RowOf(q, s, o).start, RowOf(q, s, n)) <=> Within(s[o].start, s[n])
         /\ RowOf(q, s, n).start > RowOf(q, s, o).start <=> s[o].start < s[n].start
  <1>1. PICK a \in Int, b \in Int, e \in Int : a = s[o].start /\ b = s[n].start /\ e = s[n].end
    BY RowTimes
  <1>2. q.start \in Int /\ Minute \in Nat \ {0}
    BY RequestFields DEF Placed
  <1>3. Minute * a \in Int /\ Minute * b \in Int /\ Minute * e \in Int
    BY <1>1, <1>2
  <1>4. /\ b <= a <=> Minute * b <= Minute * a
        /\ e <= a <=> Minute * e <= Minute * a
    BY <1>1, <1>2, OrderKept
  <1>5. /\ RowOf(q, s, o).start = q.start + Minute * a
        /\ RowOf(q, s, n).start = q.start + Minute * b
        /\ RowOf(q, s, n).end = q.start + Minute * e
    BY <1>1, RowFields
  <1>6. Within(s[o].start, s[n]) <=> b <= a /\ a < e
    BY <1>1 DEF Within
  <1>7. Within(RowOf(q, s, o).start, RowOf(q, s, n)) <=>
          q.start + Minute * b <= q.start + Minute * a /\ q.start + Minute * a < q.start + Minute * e
    BY <1>5 DEF Within
  <1>8. b <= a /\ a < e <=>
          q.start + Minute * b <= q.start + Minute * a /\ q.start + Minute * a < q.start + Minute * e
    BY <1>1, <1>2, <1>3, <1>4
  <1>9. q.start + Minute * b > q.start + Minute * a <=> a < b
    BY <1>1, <1>2, <1>3, <1>4
  <1> QED  BY <1>1, <1>5, <1>6, <1>7, <1>8, <1>9

AtOnce(rows, row) == {n \in rows : Within(row.start, n)}

LEMMA UnitsSuffice ==
  ASSUME NEW q, NEW given, NEW s, Answered(q, given, s), NEW r \in q.resources, r.constraint,
         NEW row \in Here(q, s, r.id)
  PROVE  Cardinality(AtOnce(Here(q, s, r.id), row)) <= r.units
  <1>1. PICK o \in On(s, r.id) : row = RowOf(q, s, o)
    BY RowsHere, AnswersArePlaced
  <1> DEFINE M == {n \in On(s, r.id) : Within(s[o].start, s[n])}
             T == AtOnce(Here(q, s, r.id), row)
             f == [n \in M |-> RowOf(q, s, n)]
  <1>2. Cardinality(M) <= r.units
    BY ConstraintFacts DEF Shared
  <1>3. IsFiniteSet(M)
    BY RowsHere, FS_Subset, AnswersArePlaced
  <1>4. On(s, r.id) \subseteq Build(q).operations
    BY RowsHere, AnswersArePlaced
  <1>5. \A n \in On(s, r.id) : Within(row.start, RowOf(q, s, n)) <=> Within(s[o].start, s[n])
    BY <1>1, <1>4, SameTime, AnswersArePlaced
  <1>6. \A t : t \in T <=> \E n \in M : t = RowOf(q, s, n)
    BY <1>5, RowsHere, AnswersArePlaced DEF AtOnce
  <1>7. f \in [M -> T] /\ \A t \in T : \E n \in M : f[n] = t
    BY <1>6
  <1>8. \A a, b \in M : f[a] = f[b] => a = b
    BY RowsHere, AnswersArePlaced
  <1> HIDE DEF M, T, f
  <1>9. f \in Surjection(M, T) /\ f \in Injection(M, T)
    BY <1>7, <1>8 DEF Surjection, Injection, IsInjective
  <1>10. Cardinality(T) = Cardinality(M)
    BY <1>3, <1>9, FS_Surjection
  <1> QED  BY <1>2, <1>10 DEF T

LEMMA RowFamily ==
  ASSUME NEW q, NEW given, NEW s, Answered(q, given, s), NEW o \in Build(q).operations
  PROVE  FamilyOf(q, RowOf(q, s, o)) = o.family
  <1>1. PICK x \in q.orders : \E n \in Route(q, x).operations : o = Made(q, x, n)
    BY OperationsMade
  <1>2. PICK n \in Route(q, x).operations : o = Made(q, x, n)
    BY <1>1
  <1>3. OrderOf(q, RowOf(q, s, o)) = x /\ RoutedOf(q, RowOf(q, s, o)) = n
    BY <1>2, AnsweredFacts, RowIsAbout
  <1> QED  BY <1>2, <1>3, MadeFields DEF FamilyOf

LEMMA ChangeoverInTime ==
  ASSUME NEW q, NEW given, NEW s, Answered(q, given, s), NEW r \in q.resources, r.constraint,
         r.units = 1, NEW row \in Here(q, s, r.id), NEW next \in Here(q, s, r.id),
         next.start > row.start
  PROVE  row.end + Changeover(q, row, next) <= next.start
  <1>1. PICK o \in On(s, r.id) : row = RowOf(q, s, o)
    BY RowsHere, AnswersArePlaced
  <1>2. PICK n \in On(s, r.id) : next = RowOf(q, s, n)
    BY RowsHere, AnswersArePlaced
  <1>3. o \in Build(q).operations /\ n \in Build(q).operations
    BY RowsHere, AnswersArePlaced
  <1>4. s[o].start < s[n].start
    BY <1>1, <1>2, <1>3, SameTime, AnswersArePlaced
  <1>5. s[o].end + Setup(Build(q), r.id, o, n) <= s[n].start
    BY <1>4, ConstraintFacts DEF ChangedOver
  <1> DEFINE key == <<r.id, o.family, n.family>>
             minutes == IF key \in DOMAIN q.setups THEN q.setups[key] ELSE 0
  <1>6. Setup(Build(q), r.id, o, n) = minutes
    BY BuildFields DEF Setup
  <1>7. minutes \in Int
    BY AnsweredFacts, RequestFields
  <1>8. Changeover(q, row, next) = minutes * Minute
    <2>1. row.resource = r.id
      BY DEF Here
    <2>2. FamilyOf(q, row) = o.family /\ FamilyOf(q, next) = n.family
      BY <1>1, <1>2, <1>3, RowFamily
    <2>3. Changeover(q, row, next) = IF key \in DOMAIN q.setups THEN q.setups[key] * Minute ELSE 0
      BY <2>1, <2>2 DEF Changeover
    <2>4. Minute \in Nat
      BY SchedulerAssumption
    <2> QED  BY <2>3, <2>4
  <1>9. /\ q.start \in Int /\ s[o].end \in Int /\ s[n].start \in Int
        /\ Minute * s[o].end \in Int /\ Minute * s[n].start \in Int /\ Minute \in Nat
    BY <1>3, RowTimes, SchedulerAssumption, AnswersArePlaced
  <1> HIDE DEF minutes
  <1>10. Minute * (s[o].end + minutes) <= Minute * s[n].start
    <2>1. PICK a \in Int, b \in Int, c \in Int :
            a = s[o].end /\ b = s[n].start /\ c = minutes
      BY <1>7, <1>9
    <2>2. a + c <= b /\ a + c \in Int
      BY <1>5, <1>6, <2>1
    <2>3. Minute * (a + c) <= Minute * b
      BY <1>9, <2>2, Longer
    <2> QED  BY <2>1, <2>3
  <1>11. Minute * (s[o].end + minutes) = Minute * s[o].end + minutes * Minute /\ minutes * Minute \in Int
    BY <1>7, <1>9
  <1>12. row.end = q.start + Minute * s[o].end /\ next.start = q.start + Minute * s[n].start
    BY <1>1, <1>2, RowFields
  <1> QED  BY <1>8, <1>9, <1>10, <1>11, <1>12

AsWindow(q, b) ==
  [of |-> b, start |-> Offset(q, b.start * Minute), end |-> Offset(q, b.end * Minute),
   minutes |-> b.minutes]

LEMMA WindowsAre ==
  ASSUME NEW q, NEW r
  PROVE  WindowsOf(q, r) = {AsWindow(q, b) : b \in CapacityBuckets(r)}
  BY DEF WindowsOf, AsWindow

\* An operation that fits a window of the solver works within the bucket it stands for.
LEMMA WindowHolds ==
  ASSUME NEW q, NEW given, NEW s, Answered(q, given, s), NEW o \in Build(q).operations,
         NEW b, Counted(b), Fits(AsWindow(q, b), s[o])
  PROVE  /\ b.start * Minute < RowOf(q, s, o).start + Minute
         /\ RowOf(q, s, o).end <= b.end * Minute
  <1>1. PICK start \in Int, end \in Int : start = s[o].start /\ end = s[o].end /\ 0 <= start
    BY RowTimes, AnswersArePlaced
  <1>2. q.start \in Int /\ Minute \in Nat \ {0}
    BY AnsweredFacts, RequestFields
  <1>3. PICK from \in Int, to \in Int : from = b.start * Minute /\ to = b.end * Minute
    <2>1. b.start \in Int /\ b.end \in Int
      BY DEF Counted
    <2> QED  BY <1>2, <2>1
  <1>4. PICK f \in Int, t \in Int : f = Offset(q, from) /\ t = Offset(q, to)
    BY <1>2, OffsetCuts
  <1>5. f <= start /\ end <= t /\ t > 0
    BY <1>1, <1>3, <1>4 DEF Fits, AsWindow
  <1>6. Minute * f <= Minute * start /\ Minute * end <= Minute * t /\ Minute * start >= Minute * 0
    BY <1>1, <1>2, <1>5, Longer
  <1>7. Minute * f \in Int /\ Minute * start \in Int /\ Minute * end \in Int /\ Minute * t \in Int
        /\ Minute * 0 = 0
    BY <1>2
  <1>8. from < q.start + Minute * start + Minute
    <2>1. CASE q.start <= from
      <3>1. from < q.start + Minute * f + Minute
        BY <1>2, <1>4, <2>1, OffsetCuts
      <3> QED  BY <1>2, <1>6, <1>7, <3>1
    <2>2. CASE from < q.start
      BY <1>2, <1>6, <1>7, <2>2
    <2> QED  BY <1>2, <2>1, <2>2
  <1>9. q.start + Minute * end <= to
    <2>1. q.start <= to
      BY <1>2, <1>4, <1>5, OffsetCuts
    <2>2. q.start + Minute * t <= to
      BY <1>2, <1>4, <2>1, OffsetCuts
    <2> QED  BY <1>2, <1>6, <1>7, <2>2
  <1> QED  BY <1>1, <1>3, <1>8, <1>9, RowFields

LEMMA TimesAddUp ==
  ASSUME NEW s, NEW T
  PROVE  TimeOf(s, T) = Total([o \in T |-> Length(s[o])], T)
  <1> DEFINE f == [o \in T |-> Length(s[o])]
             A(it) == it = [U \in SUBSET T |-> IF U = {} THEN 0 ELSE f[Pick(U)] + it[U \ {Pick(U)}]]
             B(it) == it = [U \in SUBSET T |-> IF U = {} THEN 0 ELSE Length(s[Pick(U)]) + it[U \ {Pick(U)}]]
  <1>1. \A it : A(it) <=> B(it)
    <2>1. \A U \in SUBSET T : U # {} => Pick(U) \in T
      BY DEF Pick
    <2>2. \A U \in SUBSET T : U # {} => f[Pick(U)] = Length(s[Pick(U)])
      BY <2>1
    <2> HIDE DEF f
    <2> QED  BY <2>2
  <1>2. Total(f, T) = (CHOOSE it : A(it))[T]
    BY DEF Total, MapThenSumSet, MapThenFoldSet, Pick
  <1>3. TimeOf(s, T) = (CHOOSE it : B(it))[T]
    BY DEF TimeOf, MapThenSumSet, MapThenFoldSet, Pick
  <1>4. (CHOOSE it : A(it)) = (CHOOSE it : B(it))
    <2> HIDE DEF A, B
    <2> QED  BY <1>1
  <1> QED  BY <1>2, <1>3, <1>4

\* The rows of some operations of one resource take Minute ticks for each of their minutes.
LEMMA TicksOfMinutes ==
  ASSUME NEW q, NEW given, NEW s, Placed(q, given, s), NEW id, NEW T \in SUBSET On(s, id),
         NEW R, \A row : row \in R <=> \E o \in T : row = RowOf(q, s, o)
  PROVE  /\ IsFiniteSet(T) /\ TimeOf(s, T) \in Int
         /\ MapThenSumSet(Length, R) = Minute * TimeOf(s, T)
  <1> DEFINE f == [o \in T |-> Length(s[o])]
             g == [row \in R |-> Length(row)]
             move == [o \in T |-> RowOf(q, s, o)]
  <1>1. IsFiniteSet(T) /\ T \subseteq Build(q).operations
    BY RowsHere, FS_Subset
  <1>2. Minute \in Int
    BY SchedulerAssumption
  <1>3. ASSUME NEW o \in T
        PROVE  /\ f[o] \in Int
               /\ move[o] \in R /\ g[move[o]] = Minute * f[o]
    <2>1. /\ q.start \in Int /\ s[o].start \in Int /\ s[o].end \in Int
          /\ Minute * s[o].start \in Int /\ Minute * s[o].end \in Int
      BY <1>1, RowTimes
    <2>2. f[o] = s[o].end - s[o].start
      BY DEF Length
    <2>3. move[o] = RowOf(q, s, o) /\ move[o] \in R
      OBVIOUS
    <2>4. g[move[o]] = (q.start + Minute * s[o].end) - (q.start + Minute * s[o].start)
      <3>1. PICK row : row = RowOf(q, s, o)
        OBVIOUS
      <3>2. g[move[o]] = Length(row)
        BY <2>3, <3>1
      <3>3. row.start = q.start + Minute * s[o].start /\ row.end = q.start + Minute * s[o].end
        BY <3>1, RowFields
      <3>4. Length(row) = row.end - row.start
        BY DEF Length
      <3> QED  BY <3>2, <3>3, <3>4
    <2>5. Minute * (s[o].end - s[o].start) = Minute * s[o].end - Minute * s[o].start
      BY <1>2, <2>1
    <2> QED  BY <2>1, <2>2, <2>3, <2>4, <2>5
  <1>4. \A a, b \in T : move[a] = move[b] => a = b
    BY RowsHere
  <1>5. R = {move[o] : o \in T}
    OBVIOUS
  <1>6. ASSUME NEW row \in R PROVE row.start \in Int /\ row.end \in Int
    <2>1. PICK o \in T : row = RowOf(q, s, o)
      OBVIOUS
    <2> QED  BY <1>1, <2>1, RowTimes
  <1>7. IsFiniteSet(R)
    <2> HIDE DEF move
    <2> QED  BY <1>1, <1>5, FiniteImage
  <1>8. TimeOf(s, T) = Total(f, T) /\ MapThenSumSet(Length, R) = Total(g, R)
    <2>1. TimeOf(s, T) = Total(f, T)
      BY TimesAddUp
    <2>2. MapThenSumSet(Length, R) = Total(g, R)
      BY <1>6, <1>7, LengthsAddUp
    <2> QED  BY <2>1, <2>2
  <1> HIDE DEF f, g, move
  <1>9. Total(g, R) = Minute * Total(f, T)
    <2>1. \A o \in T : f[o] \in Int
      BY <1>3
    <2>2. \A o \in T : move[o] \in R /\ g[move[o]] = Minute * f[o]
      BY <1>3
    <2>3. \A row \in R : \E o \in T : row = move[o]
      BY <1>5
    <2>4. IsFiniteSet(T)
      BY <1>1
    <2> QED  BY ONLY <1>2, <1>4, <2>1, <2>2, <2>3, <2>4, TotalMoves
  <1>10. Total(f, T) \in Int
    BY <1>1, <1>3, TotalIsInteger
  <1> QED  BY <1>1, <1>8, <1>9, <1>10

LEMMA NothingTakesNoTime == MapThenSumSet(Length, {}) = 0
  <1>1. IsFiniteSet({})
    BY FS_EmptySet
  <1> DEFINE f == [x \in {} |-> Length(x)]
  <1>2. MapThenSumSet(Length, {}) = Total(f, {})
    BY <1>1, LengthsAddUp
  <1> HIDE DEF f
  <1>3. PICK sum : IsSum({}, f, sum) /\ \A U \in SUBSET {} : Total(f, U) = sum[U]
    BY <1>1, TotalIsSum
  <1>4. sum[{}] = 0
    BY <1>3 DEF IsSum
  <1> QED  BY <1>2, <1>3, <1>4

SpentOn(s, on, windows) ==
  \E c \in [on -> windows] :
    /\ \A o \in on : Fits(c[o], s[o])
    /\ \A w \in windows : TimeOf(s, {o \in on : c[o] = w}) <= w.minutes

\* Every row works in the bucket that the window of its operation stands for.
LEMMA AllRostered ==
  ASSUME NEW q, NEW given, NEW s, Answered(q, given, s), NEW r \in q.resources, r.constraint,
         CapacityBuckets(r) # {}
  PROVE  \E choice \in [Here(q, s, r.id) -> CapacityBuckets(r)] :
           Rostered(CapacityBuckets(r), Here(q, s, r.id), choice, Minute)
  <1> DEFINE on == On(s, r.id)
             here == Here(q, s, r.id)
             buckets == CapacityBuckets(r)
             windows == WindowsOf(q, r)
  <1>1. PICK c \in [on -> windows] :
          /\ \A o \in on : Fits(c[o], s[o])
          /\ \A w \in windows : TimeOf(s, {o \in on : c[o] = w}) <= w.minutes
    <2>1. windows # {}
      BY WindowsAre
    <2>2. Spent(Build(q), s, r.id) /\ Build(q).windows[r.id] = windows
      BY ConstraintFacts
    <2> HIDE DEF windows
    <2>3. Build(q).windows[r.id] # {} => SpentOn(s, on, Build(q).windows[r.id])
      BY <2>2 DEF Spent, SpentOn
    <2>4. SpentOn(s, on, windows)
      BY <2>1, <2>2, <2>3
    <2> QED  BY <2>4 DEF SpentOn
  <1> DEFINE back == [w \in windows |-> CHOOSE b \in buckets : AsWindow(q, b) = w]
             operation == [row \in here |-> CHOOSE o \in on : RowOf(q, s, o) = row]
             choice == [row \in here |-> back[c[operation[row]]]]
  <1>2. \A w \in windows : back[w] \in buckets /\ AsWindow(q, back[w]) = w
    BY WindowsAre
  <1>3. \A row \in here : operation[row] \in on /\ RowOf(q, s, operation[row]) = row
    BY RowsHere, AnswersArePlaced
  <1>4. \A o \in on : RowOf(q, s, o) \in here /\ operation[RowOf(q, s, o)] = o
    <2>1. \A o \in on : RowOf(q, s, o) \in here
      BY RowsHere, AnswersArePlaced
    <2>2. \A o, n \in on : RowOf(q, s, o) = RowOf(q, s, n) => o = n
      BY RowsHere, AnswersArePlaced
    <2> QED  BY <1>3, <2>1, <2>2
  <1>5. \A row \in here : choice[row] = back[c[operation[row]]]
    OBVIOUS
  <1>6. \A b \in buckets : Counted(b)
    <2>1. Measured(r)
      BY AnsweredFacts, RequestFields
    <2>2. \A d \in DOMAIN r.capacity : r.capacity[d] >= 0
      BY AnsweredFacts DEF ValidRequest
    <2> QED  BY <2>1, <2>2, BucketsCounted
  <1> HIDE DEF back, operation, choice
  <1>7. choice \in [here -> buckets]
    BY <1>2, <1>3 DEF choice
  <1>8. ASSUME NEW row \in here
        PROVE  /\ choice[row].start * Minute < row.start + Minute
               /\ row.end <= choice[row].end * Minute
    <2>1. PICK o \in on : o = operation[row] /\ row = RowOf(q, s, o)
      BY <1>3
    <2>2. PICK b \in buckets : b = choice[row] /\ AsWindow(q, b) = c[o]
      BY <1>2, <1>5, <2>1
    <2>3. Fits(AsWindow(q, b), s[o]) /\ Counted(b)
      BY <1>1, <1>6, <2>2
    <2>4. o \in Build(q).operations
      BY RowsHere, AnswersArePlaced
    <2> QED  BY <2>1, <2>2, <2>3, <2>4, WindowHolds
  <1>9. ASSUME NEW b \in buckets
        PROVE  MapThenSumSet(Length, {row \in here : choice[row] = b}) <= b.minutes * Minute
    <2> DEFINE R == {row \in here : choice[row] = b}
               w == AsWindow(q, b)
               T == {o \in on : c[o] = w}
    <2>1. w \in windows /\ w.minutes = b.minutes
      BY WindowsAre DEF AsWindow
    <2>2. b.minutes \in Nat /\ Minute \in Nat
      BY <1>6, SchedulerAssumption DEF Counted
    <2> HIDE DEF w
    <2>3. CASE back[w] = b
      <3>1. \A o \in on : choice[RowOf(q, s, o)] = back[c[o]]
        BY <1>4, <1>5
      <3>2. \A o \in on : choice[RowOf(q, s, o)] = b <=> c[o] = w
        <4>1. \A o \in on : c[o] \in windows
          OBVIOUS
        <4>2. \A o \in on : back[c[o]] = back[w] => c[o] = w
          BY <1>2, <2>1, <4>1
        <4> QED  BY <2>3, <3>1, <4>2
      <3>3. \A row : row \in R <=> \E o \in T : row = RowOf(q, s, o)
        <4>1. \A row : row \in here <=> \E o \in on : row = RowOf(q, s, o)
          BY RowsHere, AnswersArePlaced
        <4> QED  BY <3>2, <4>1
      <3>4. TimeOf(s, T) <= w.minutes
        BY <1>1, <2>1
      <3>5. T \in SUBSET on
        OBVIOUS
      <3> HIDE DEF R, T
      <3>6. TimeOf(s, T) \in Int /\ MapThenSumSet(Length, R) = Minute * TimeOf(s, T)
        BY <3>3, <3>5, TicksOfMinutes, AnswersArePlaced
      <3>7. PICK t \in Int : t = TimeOf(s, T)
        BY <3>6
      <3>8. Minute * t <= Minute * b.minutes
        BY <2>1, <2>2, <3>4, <3>7, Longer
      <3>9. Minute * b.minutes = b.minutes * Minute
        BY <2>2
      <3>10. MapThenSumSet(Length, R) <= b.minutes * Minute
        BY <3>6, <3>7, <3>8, <3>9
      <3> QED  BY <3>10 DEF R
    <2>4. CASE back[w] # b
      <3>1. \A v \in windows : back[v] # b
        BY <1>2, <2>4 DEF w
      <3>2. \A row \in here : c[operation[row]] \in windows
        BY <1>3
      <3>3. R = {}
        BY <1>5, <3>1, <3>2
      <3>4. 0 <= b.minutes * Minute
        BY <2>2
      <3> HIDE DEF R
      <3>5. MapThenSumSet(Length, R) <= b.minutes * Minute
        BY <3>3, <3>4, NothingTakesNoTime
      <3> QED  BY <3>5 DEF R
    <2> QED  BY <2>3, <2>4
  <1>10. Rostered(buckets, here, choice, Minute)
    BY <1>8, <1>9 DEF Rostered
  <1> HIDE DEF here, buckets
  <1>11. \E f \in [here -> buckets] : Rostered(buckets, here, f, Minute)
    BY <1>7, <1>10
  <1> QED  BY <1>11 DEF here, buckets

LEMMA CapacitySuffices ==
  ASSUME NEW q, NEW given, NEW s, Answered(q, given, s), NEW r \in q.resources, r.constraint
  PROVE  WithinCapacity(q, r, Here(q, s, r.id), Minute)
  <1> DEFINE here == Here(q, s, r.id)
  <1>1. ASSUME NEW row \in here PROVE Cardinality({n \in here : Within(row.start, n)}) <= r.units
    <2>1. Cardinality(AtOnce(here, row)) <= r.units
      BY UnitsSuffice
    <2> QED  BY <2>1 DEF AtOnce
  <1>2. ASSUME r.units = 1, NEW row \in here, NEW n \in {n \in here : n.start > row.start}
        PROVE  row.end + Changeover(q, row, n) <= n.start
    BY <1>2, ChangeoverInTime
  <1>3. CapacityBuckets(r) # {} => \E choice \in [here -> CapacityBuckets(r)] :
          Rostered(CapacityBuckets(r), here, choice, Minute)
    BY AllRostered
  <1> HIDE DEF here
  <1>4. WithinCapacity(q, r, here, Minute)
    BY <1>1, <1>2, <1>3 DEF WithinCapacity
  <1> QED  BY <1>4 DEF here

LEMMA AnswersAreExecutable ==
  ASSUME NEW q, NEW given, NEW s, Answered(q, given, s), \A k \in given : k.start \in Int
  PROVE  Executable(q, given, Rows(Build(q), s), Minute)
  <1>1. DoneInTurn(q, Rows(Build(q), s), Minute) /\ LeftInPlace(given, Rows(Build(q), s), Minute)
    BY AllDoneInTurn, AllLeftInPlace
  <1>2. ASSUME NEW r \in {r \in q.resources : r.constraint}
        PROVE  WithinCapacity(q, r, {row \in Rows(Build(q), s) : row.resource = r.id}, Minute)
    <2>1. WithinCapacity(q, r, Here(q, s, r.id), Minute)
      BY CapacitySuffices
    <2> QED  BY <2>1 DEF Here
  <1> QED  BY <1>1, <1>2 DEF Executable

-----------------------------------------------------------------------------
(* A plan that can be carried out keeps to the constraints of the solver.   *)

\* It can be carried out to the minute, and it knows no changeovers.
CarriedOut(q, given, s) ==
  /\ Placed(q, given, s) /\ DOMAIN q.setups = {}
  /\ \A k \in given : k.start \in Int
  /\ Executable(q, given, Rows(Build(q), s), 1)

LEMMA CarriedOutFacts ==
  ASSUME NEW q, NEW given, NEW s, CarriedOut(q, given, s)
  PROVE  /\ Placed(q, given, s) /\ q \in Request /\ ValidRequest(q) /\ ~Refused(Build(q), given)
         /\ q.start \in Int /\ Minute \in Nat \ {0} /\ Nothing \notin Int
         /\ DOMAIN q.setups = {} /\ \A k \in given : k.start \in Int
         /\ DoneInTurn(q, Rows(Build(q), s), 1) /\ LeftInPlace(given, Rows(Build(q), s), 1)
         /\ \A r \in q.resources : r.constraint => WithinCapacity(q, r, Here(q, s, r.id), 1)
  <1>1. q \in Request
    BY DEF CarriedOut, Placed
  <1> QED  BY <1>1, RequestFields DEF CarriedOut, Placed, Executable, Here

\* A date is reached exactly when the minute it is cut to is.
LEMMA DateReached ==
  ASSUME NEW q, q.start \in Int, NEW date \in Int, NEW start \in Int, 0 <= start
  PROVE  /\ date <= q.start + Minute * start => Offset(q, date) <= start
         /\ q.start + Minute * start <= date => start <= Offset(q, date)
  <1>1. PICK f \in Int : f = Offset(q, date)
    BY OffsetCuts
  <1>2. Minute \in Nat \ {0}
    BY SchedulerAssumption
  <1>3. Minute * f \in Int /\ Minute * start \in Int /\ Minute * 0 <= Minute * start /\ Minute * 0 = 0
    BY <1>2, Longer
  <1>4. CASE q.start <= date
    <2>1. q.start + Minute * f <= date /\ date < q.start + Minute * f + Minute
      BY <1>1, <1>4, OffsetCuts
    <2>2. ASSUME date <= q.start + Minute * start PROVE f <= start
      <3>1. Minute * f <= Minute * start
        BY <1>3, <2>1, <2>2
      <3> QED  BY <1>2, <3>1, OrderKept
    <2>3. ASSUME q.start + Minute * start <= date PROVE start <= f
      <3>1. SUFFICES ASSUME f + 1 <= start PROVE FALSE
        OBVIOUS
      <3>2. Minute * (f + 1) <= Minute * start
        BY <1>2, <3>1, OrderKept
      <3>3. Minute * (f + 1) = Minute * f + Minute
        BY <1>2
      <3> QED  BY <1>2, <1>3, <2>1, <2>3, <3>2, <3>3
    <2> QED  BY <1>1, <2>2, <2>3
  <1>5. CASE date < q.start
    <2>1. f <= 0
      BY <1>1, <1>5, OffsetCuts
    <2> QED  BY <1>1, <1>3, <1>5, <2>1
  <1> QED  BY <1>4, <1>5

LEMMA DatesKept ==
  ASSUME NEW q, NEW given, NEW s, CarriedOut(q, given, s), NEW o \in Build(q).operations
  PROVE  /\ o.earliest # Nothing => o.earliest <= s[o].start
         /\ o.latest # Nothing => s[o].end <= o.latest
  <1>1. PICK x \in q.orders : \E n \in Route(q, x).operations : o = Made(q, x, n)
    BY OperationsMade
  <1>2. PICK n \in Route(q, x).operations : o = Made(q, x, n)
    BY <1>1
  <1>3. PICK row : row = RowOf(q, s, o)
    OBVIOUS
  <1>4. row \in Rows(Build(q), s) /\ RoutedOf(q, row) = n
    BY <1>2, <1>3, CarriedOutFacts, RowsAre, RowIsAbout
  <1>5. /\ n.earliest # Nothing => n.earliest < row.start + 1
        /\ n.latest # Nothing => row.end <= n.latest
    BY <1>4, CarriedOutFacts DEF DoneInTurn
  <1>6. /\ q.start \in Int /\ s[o].start \in Int /\ s[o].end \in Int /\ 0 <= s[o].start
        /\ 0 <= s[o].end /\ Minute * s[o].start \in Int /\ Minute * s[o].end \in Int
        /\ row.start = q.start + Minute * s[o].start /\ row.end = q.start + Minute * s[o].end
    <2>1. /\ s[o].start \in Int /\ s[o].end \in Int /\ 0 <= s[o].start /\ s[o].start + 1 <= s[o].end
      BY CarriedOutFacts, RowTimes
    <2> QED  BY <1>3, <2>1, CarriedOutFacts, RowTimes, RowFields
  <1>7. Route(q, x) \in q.routings
    BY CarriedOutFacts, RouteFound
  <1>8. n.earliest = Nothing \/ n.earliest \in Int
    BY <1>7, CarriedOutFacts, RequestFields
  <1>9. n.latest = Nothing \/ n.latest \in Int
    BY <1>7, CarriedOutFacts, RequestFields
  <1>10. ASSUME o.earliest # Nothing PROVE o.earliest <= s[o].start
    <2>1. o.earliest = Offset(q, n.earliest) /\ n.earliest # Nothing
      BY <1>2, <1>10, MadeFields DEF OffsetOrNothing
    <2>2. n.earliest <= q.start + Minute * s[o].start
      BY <1>5, <1>6, <1>8, <2>1
    <2> QED  BY <1>6, <1>8, <2>1, <2>2, DateReached
  <1>11. ASSUME o.latest # Nothing PROVE s[o].end <= o.latest
    <2>1. o.latest = Offset(q, n.latest) /\ n.latest # Nothing
      BY <1>2, <1>11, MadeFields DEF OffsetOrNothing
    <2>2. q.start + Minute * s[o].end <= n.latest
      BY <1>5, <1>6, <2>1
    <2> QED  BY <1>6, <1>9, <2>1, <2>2, DateReached
  <1> QED  BY <1>10, <1>11

LEMMA KeptKept ==
  ASSUME NEW q, NEW given, NEW s, CarriedOut(q, given, s), NEW o \in Build(q).operations,
         NEW k \in given, k.operation = o.name
  PROVE  s[o].resource = k.resource /\ s[o].start = Offset(Build(q), k.start)
  <1>1. PICK row \in Rows(Build(q), s) :
          /\ row.operation = k.operation /\ row.resource = k.resource
          /\ row.start <= k.start /\ k.start < row.start + 1
    BY CarriedOutFacts DEF LeftInPlace
  <1>2. PICK n \in Build(q).operations : row = RowOf(q, s, n)
    BY <1>1, CarriedOutFacts, RowsAre
  <1>3. n = o
    <2>1. n.name = o.name
      BY <1>1, <1>2, RowFields
    <2> QED  BY <2>1, CarriedOutFacts DEF Refused
  <1>4. /\ q.start \in Int /\ s[o].start \in Int /\ 0 <= s[o].start /\ Minute * s[o].start \in Int
        /\ row.start \in Int /\ row.start = q.start + Minute * s[o].start /\ k.start \in Int
    BY <1>2, <1>3, CarriedOutFacts, RowTimes, RowFields
  <1>5. row.start = k.start
    BY <1>1, <1>4
  <1>6. Offset(q, k.start) \in Int /\ Offset(q, k.start) = s[o].start
    <2>1. PICK minute \in Int : minute = s[o].start /\ 0 <= minute
      BY <1>4
    <2>2. k.start <= q.start + Minute * minute /\ q.start + Minute * minute <= k.start
      BY <1>4, <1>5, <2>1
    <2>3. PICK f \in Int : f = Offset(q, k.start)
      BY <1>4, OffsetCuts
    <2>4. f <= minute /\ minute <= f
      BY <1>4, <2>1, <2>2, <2>3, DateReached
    <2> QED  BY <2>1, <2>3, <2>4
  <1>7. Offset(Build(q), k.start) = Offset(q, k.start)
    BY BuildFields DEF Offset
  <1> QED  BY <1>1, <1>2, <1>3, <1>4, <1>6, <1>7, RowFields

LEMMA TurnKept ==
  ASSUME NEW q, NEW given, NEW s, CarriedOut(q, given, s),
         NEW a \in Build(q).operations, NEW b \in Build(q).operations, Precedes(a, b)
  PROVE  s[a].end <= s[b].start
  <1>1. PICK x \in q.orders : \E n \in Route(q, x).operations : a = Made(q, x, n)
    BY OperationsMade
  <1>2. PICK n \in Route(q, x).operations : a = Made(q, x, n)
    BY <1>1
  <1>3. PICK y \in q.orders : \E m \in Route(q, y).operations : b = Made(q, y, m)
    BY OperationsMade
  <1>4. PICK m \in Route(q, y).operations : b = Made(q, y, m)
    BY <1>3
  <1>5. PICK first, second : first = RowOf(q, s, a) /\ second = RowOf(q, s, b)
    OBVIOUS
  <1>6. /\ first \in Rows(Build(q), s) /\ second \in Rows(Build(q), s)
        /\ RoutedOf(q, first) = n /\ RoutedOf(q, second) = m
    BY <1>2, <1>4, <1>5, CarriedOutFacts, RowsAre, RowIsAbout
  <1>7. first.order = second.order /\ n.sequence < m.sequence
    BY <1>2, <1>4, <1>5, RowFields, MadeFields DEF Precedes
  <1>8. first.end <= second.start
    BY <1>6, <1>7, CarriedOutFacts DEF DoneInTurn
  <1>9. /\ q.start \in Int /\ s[a].end \in Int /\ s[b].start \in Int
        /\ Minute * s[a].end \in Int /\ Minute * s[b].start \in Int
    BY CarriedOutFacts, RowTimes
  <1>10. Minute * s[a].end <= Minute * s[b].start
    BY <1>5, <1>8, <1>9, RowFields
  <1> QED  BY <1>9, <1>10, CarriedOutFacts, OrderKept

\* Of constraints: never too many at a time.
LEMMA SharedKept ==
  ASSUME NEW q, NEW given, NEW s, CarriedOut(q, given, s), NEW r \in q.resources, r.constraint
  PROVE  Shared(Build(q), s, r.id)
  <1> SUFFICES ASSUME NEW o \in On(s, r.id)
               PROVE  Cardinality({n \in On(s, r.id) : Within(s[o].start, s[n])})
                        <= Build(q).units[r.id]
    BY DEF Shared
  <1>1. PICK row : row = RowOf(q, s, o)
    OBVIOUS
  <1> DEFINE M == {n \in On(s, r.id) : Within(s[o].start, s[n])}
             T == AtOnce(Here(q, s, r.id), row)
             f == [n \in M |-> RowOf(q, s, n)]
  <1>2. row \in Here(q, s, r.id)
    BY <1>1, CarriedOutFacts, RowsHere
  <1>3. Cardinality(T) <= r.units
    BY <1>2, CarriedOutFacts DEF WithinCapacity, AtOnce
  <1>4. Build(q).units[r.id] = r.units
    BY CarriedOutFacts, ResourceFound, BuildFields
  <1>5. IsFiniteSet(M) /\ On(s, r.id) \subseteq Build(q).operations
    BY CarriedOutFacts, RowsHere, FS_Subset
  <1>6. \A n \in On(s, r.id) : Within(row.start, RowOf(q, s, n)) <=> Within(s[o].start, s[n])
    BY <1>1, <1>5, CarriedOutFacts, SameTime
  <1>7. \A t : t \in T <=> \E n \in M : t = RowOf(q, s, n)
    BY <1>6, CarriedOutFacts, RowsHere DEF AtOnce
  <1>8. f \in [M -> T] /\ \A t \in T : \E n \in M : f[n] = t
    BY <1>7
  <1>9. \A a, b \in M : f[a] = f[b] => a = b
    BY CarriedOutFacts, RowsHere
  <1> HIDE DEF M, T, f
  <1>10. f \in Surjection(M, T) /\ f \in Injection(M, T)
    BY <1>8, <1>9 DEF Surjection, Injection, IsInjective
  <1>11. Cardinality(T) = Cardinality(M)
    BY <1>5, <1>10, FS_Surjection
  <1> QED  BY <1>3, <1>4, <1>11 DEF M

LEMMA ChangeoverKept ==
  ASSUME NEW q, NEW given, NEW s, CarriedOut(q, given, s), NEW r \in q.resources, r.constraint
  PROVE  ChangedOver(Build(q), s, r.id)
  <1> SUFFICES ASSUME Build(q).units[r.id] = 1, NEW o \in On(s, r.id), NEW n \in On(s, r.id),
                      s[o].start < s[n].start
               PROVE  s[o].end + Setup(Build(q), r.id, o, n) <= s[n].start
    BY DEF ChangedOver
  <1>1. r.units = 1
    BY CarriedOutFacts, ResourceFound, BuildFields
  <1>2. PICK row, next : row = RowOf(q, s, o) /\ next = RowOf(q, s, n)
    OBVIOUS
  <1> DEFINE here == Here(q, s, r.id)
             after == {m \in here : m.start > row.start}
             starts == {m.start : m \in after}
  <1>3. row \in here /\ next \in here
    BY <1>2, CarriedOutFacts, RowsHere
  <1>4. o \in Build(q).operations /\ n \in Build(q).operations
    BY CarriedOutFacts, RowsHere
  <1>5. next \in after
    BY <1>2, <1>3, <1>4, CarriedOutFacts, SameTime
  <1>6. \A m \in here : m.start \in Int
    <2>1. \A m \in here : \E a \in On(s, r.id) : m = RowOf(q, s, a)
      BY CarriedOutFacts, RowsHere
    <2>2. \A a \in On(s, r.id) : RowOf(q, s, a).start \in Int
      BY CarriedOutFacts, RowsHere, RowTimes
    <2> QED  BY <2>1, <2>2
  <1>7. IsFiniteSet(here)
    <2> DEFINE f == [a \in On(s, r.id) |-> RowOf(q, s, a)]
    <2>1. IsFiniteSet(On(s, r.id)) /\ here = {f[a] : a \in On(s, r.id)}
      BY CarriedOutFacts, RowsHere
    <2> HIDE DEF f, here
    <2> QED  BY <2>1, FiniteImage
  <1>8. IsFiniteSet(starts) /\ starts \in SUBSET Int /\ starts # {}
    <2>1. IsFiniteSet(after)
      BY <1>7, FS_Subset
    <2> DEFINE g == [m \in after |-> m.start]
    <2>2. starts = {g[m] : m \in after}
      OBVIOUS
    <2>3. starts \in SUBSET Int /\ starts # {}
      BY <1>5, <1>6
    <2> HIDE DEF g, after, starts
    <2>4. IsFiniteSet(starts)
      BY <2>1, <2>2, FiniteImage
    <2> QED  BY <2>3, <2>4
  <1>9. PICK m \in after : \A a \in after : m.start <= a.start
    <2> HIDE DEF after
    <2>1. Min(starts) \in starts /\ \A t \in starts : Min(starts) <= t
      <3> HIDE DEF starts
      <3> QED  BY <1>8, Greatest
    <2> QED  BY <2>1
  <1>10. row.end + Changeover(q, row, m) <= m.start
    BY <1>1, <1>3, <1>9, CarriedOutFacts DEF WithinCapacity
  <1>11. Changeover(q, row, m) = 0 /\ Setup(Build(q), r.id, o, n) = 0
    BY CarriedOutFacts, BuildFields DEF Changeover, Setup
  <1>12. m.start <= next.start
    BY <1>5, <1>9
  <1>13. /\ q.start \in Int /\ s[o].end \in Int /\ s[n].start \in Int
         /\ Minute * s[o].end \in Int /\ Minute * s[n].start \in Int
    BY <1>4, CarriedOutFacts, RowTimes
  <1>14. row.end = q.start + Minute * s[o].end /\ next.start = q.start + Minute * s[n].start
    BY <1>2, RowFields
  <1>15. m.start \in Int
    BY <1>6, <1>9
  <1>16. Minute * s[o].end <= Minute * s[n].start
    BY <1>10, <1>11, <1>12, <1>13, <1>14, <1>15
  <1>17. s[o].end <= s[n].start
    BY <1>13, <1>16, CarriedOutFacts, OrderKept
  <1> QED  BY <1>11, <1>13, <1>17

-----------------------------------------------------------------------------
(* Sums of numbers that are not negative.                                   *)

LEMMA TotalGrows ==
  ASSUME NEW S, IsFiniteSet(S), NEW f, \A x \in S : f[x] \in Int /\ 0 <= f[x]
  PROVE  \A V \in SUBSET S : \A U \in SUBSET V : 0 <= Total(f, U) /\ Total(f, U) <= Total(f, V)
  <1>1. PICK sum : IsSum(S, f, sum) /\ \A T \in SUBSET S : Total(f, T) = sum[T]
    BY TotalIsSum
  <1> DEFINE good == {V \in SUBSET S : \A U \in SUBSET V : 0 <= sum[U] /\ sum[U] <= sum[V]}
  <1>2. \A T \in SUBSET S : sum[T] \in Int
    BY <1>1 DEF IsSum
  <1>3. \A T \in SUBSET S : \A x \in T : sum[T] = f[x] + sum[T \ {x}]
    BY <1>1 DEF IsSum
  <1>4. ASSUME NEW V \in SUBSET S, \A x \in V : V \ {x} \in good PROVE V \in good
    <2>1. \A x \in V : \A U \in SUBSET (V \ {x}) :
             0 <= sum[U] /\ sum[U] <= sum[V \ {x}] /\ sum[V \ {x}] <= sum[V]
      <3> SUFFICES ASSUME NEW x \in V, NEW U \in SUBSET (V \ {x})
                   PROVE  0 <= sum[U] /\ sum[U] <= sum[V \ {x}] /\ sum[V \ {x}] <= sum[V]
        OBVIOUS
      <3>1. 0 <= sum[U] /\ sum[U] <= sum[V \ {x}]
        BY <1>4
      <3>2. sum[V] = f[x] + sum[V \ {x}] /\ sum[V \ {x}] \in Int /\ f[x] \in Int /\ 0 <= f[x]
        BY <1>2, <1>3
      <3> QED  BY <3>1, <3>2
    <2>2. 0 <= sum[V]
      <3>1. CASE V = {}
        BY <1>1, <3>1 DEF IsSum
      <3>2. CASE V # {}
        <4>1. PICK x \in V : TRUE
          BY <3>2
        <4>2. V \ {x} \in SUBSET (V \ {x})
          OBVIOUS
        <4>3. 0 <= sum[V \ {x}] /\ sum[V \ {x}] <= sum[V] /\ sum[V] \in Int /\ sum[V \ {x}] \in Int
          BY <1>2, <2>1, <4>2
        <4> QED  BY <4>3
      <3> QED  BY <3>1, <3>2
    <2>3. ASSUME NEW U \in SUBSET V PROVE 0 <= sum[U] /\ sum[U] <= sum[V]
      <3>1. CASE U = V
        BY <1>2, <2>2, <3>1
      <3>2. CASE U # V
        <4>1. PICK x \in V : x \notin U
          BY <3>2
        <4>2. U \in SUBSET (V \ {x})
          BY <4>1
        <4>3. 0 <= sum[U] /\ sum[U] <= sum[V \ {x}] /\ sum[V \ {x}] <= sum[V]
          BY <2>1, <4>2
        <4>4. sum[U] \in Int /\ sum[V] \in Int /\ sum[V \ {x}] \in Int
          BY <1>2
        <4> QED  BY <4>3, <4>4
      <3> QED  BY <3>1, <3>2
    <2> QED  BY <2>3
  <1>5. SUBSET S \subseteq good
    <2> HIDE DEF good
    <2>1. \A T \in SUBSET S : (\A x \in T : T \ {x} \in good) => T \in good
      BY <1>4
    <2> QED  BY <2>1, SubsetInduction
  <1> QED  BY <1>1, <1>5

LEMMA TotalWithOne ==
  ASSUME NEW S, IsFiniteSet(S), NEW f, \A x \in S : f[x] \in Int, NEW x \in S
  PROVE  Total(f, S) = f[x] + Total(f, S \ {x})
  <1>1. PICK sum : IsSum(S, f, sum) /\ \A T \in SUBSET S : Total(f, T) = sum[T]
    BY TotalIsSum
  <1>2. sum[S] = f[x] + sum[S \ {x}]
    BY <1>1 DEF IsSum
  <1> QED  BY <1>1, <1>2

LEMMA TotalIsLess ==
  ASSUME NEW S, IsFiniteSet(S), NEW f, NEW g, \A x \in S : f[x] \in Int /\ g[x] \in Int /\ f[x] <= g[x]
  PROVE  Total(f, S) <= Total(g, S)
  <1>1. PICK sum : IsSum(S, f, sum) /\ \A T \in SUBSET S : Total(f, T) = sum[T]
    BY TotalIsSum
  <1>2. PICK more : IsSum(S, g, more) /\ \A T \in SUBSET S : Total(g, T) = more[T]
    BY TotalIsSum
  <1> DEFINE good == {V \in SUBSET S : sum[V] <= more[V]}
  <1>3. ASSUME NEW V \in SUBSET S, \A x \in V : V \ {x} \in good PROVE V \in good
    <2>1. CASE V = {}
      BY <1>1, <1>2, <2>1 DEF IsSum
    <2>2. CASE V # {}
      <3>1. PICK x \in V : TRUE
        BY <2>2
      <3>2. sum[V] = f[x] + sum[V \ {x}] /\ more[V] = g[x] + more[V \ {x}]
        BY <1>1, <1>2 DEF IsSum
      <3>3. sum[V \ {x}] \in Int /\ more[V \ {x}] \in Int
        BY <1>1, <1>2 DEF IsSum
      <3>4. sum[V \ {x}] <= more[V \ {x}]
        BY <1>3, <3>1
      <3> QED  BY <3>2, <3>3, <3>4
    <2> QED  BY <2>1, <2>2
  <1>4. SUBSET S \subseteq good
    <2> HIDE DEF good
    <2>1. \A T \in SUBSET S : (\A x \in T : T \ {x} \in good) => T \in good
      BY <1>3
    <2> QED  BY <2>1, SubsetInduction
  <1> QED  BY <1>1, <1>2, <1>4

LEMMA TotalOfNone ==
  ASSUME NEW f PROVE Total(f, {}) = 0
  <1>1. IsFiniteSet({})
    BY FS_EmptySet
  <1>2. PICK sum : IsSum({}, f, sum) /\ \A U \in SUBSET {} : Total(f, U) = sum[U]
    BY <1>1, TotalIsSum
  <1> QED  BY <1>2 DEF IsSum

\* The work that is spent in a window of the solver is no more than it has minutes.
LEMMA RosterKept ==
  ASSUME NEW q, NEW given, NEW s, CarriedOut(q, given, s), NEW r \in q.resources, r.constraint
  PROVE  Spent(Build(q), s, r.id)
  <1>1. Build(q).windows[r.id] = WindowsOf(q, r)
    BY CarriedOutFacts, ResourceFound, BuildFields
  <1> DEFINE on == On(s, r.id)
             here == Here(q, s, r.id)
             buckets == CapacityBuckets(r)
             windows == WindowsOf(q, r)
  <1> SUFFICES ASSUME windows # {} PROVE SpentOn(s, on, Build(q).windows[r.id])
    <2>1. Build(q).windows[r.id] = windows
      BY <1>1
    <2> HIDE DEF windows, on
    <2>2. Build(q).windows[r.id] # {} => SpentOn(s, on, Build(q).windows[r.id])
      BY <2>1
    <2> QED  BY ONLY <2>2 DEF Spent, SpentOn, on
  <1>2. buckets # {}
    BY WindowsAre
  <1>3. PICK choice \in [here -> buckets] : Rostered(buckets, here, choice, 1)
    BY <1>2, CarriedOutFacts DEF WithinCapacity
  <1>4. \A b \in buckets : Counted(b)
    <2>1. Measured(r)
      BY CarriedOutFacts, RequestFields
    <2>2. \A d \in DOMAIN r.capacity : r.capacity[d] >= 0
      BY CarriedOutFacts DEF ValidRequest
    <2> QED  BY <2>1, <2>2, BucketsCounted
  <1>5. \A o \in on : RowOf(q, s, o) \in here /\ o \in Build(q).operations
    BY CarriedOutFacts, RowsHere
  <1> DEFINE c == [o \in on |-> AsWindow(q, choice[RowOf(q, s, o)])]
  <1>6. \A o \in on : choice[RowOf(q, s, o)] \in buckets
    BY <1>3, <1>5
  <1>7. c \in [on -> windows]
    BY <1>6, WindowsAre
  <1>8. \A b, d \in buckets : AsWindow(q, b) = AsWindow(q, d) => b = d
    BY DEF AsWindow
  <1>9. ASSUME NEW b \in buckets
        PROVE  TimeOf(s, {o \in on : c[o] = AsWindow(q, b)}) <= b.minutes
    <2> DEFINE T == {o \in on : c[o] = AsWindow(q, b)}
               R == {row \in here : choice[row] = b}
    <2>1. \A o \in on : c[o] = AsWindow(q, b) <=> choice[RowOf(q, s, o)] = b
      BY <1>6, <1>8
    <2>2. \A row : row \in R <=> \E o \in T : row = RowOf(q, s, o)
      <3>1. \A row : row \in here <=> \E o \in on : row = RowOf(q, s, o)
        BY CarriedOutFacts, RowsHere
      <3> HIDE DEF c
      <3> QED  BY <2>1, <3>1
    <2>3. T \in SUBSET on
      OBVIOUS
    <2>4. MapThenSumSet(Length, R) <= b.minutes * Minute
      BY <1>3 DEF Rostered
    <2> HIDE DEF T, R
    <2>5. TimeOf(s, T) \in Int /\ MapThenSumSet(Length, R) = Minute * TimeOf(s, T)
      <3>1. T \in SUBSET On(s, r.id) /\ Placed(q, given, s)
        BY <2>3 DEF CarriedOut
      <3>2. \A row : row \in R <=> \E o \in T : row = RowOf(q, s, o)
        BY <2>2
      <3> QED  BY ONLY <3>1, <3>2, TicksOfMinutes
    <2>6. PICK t \in Int : t = TimeOf(s, T)
      BY <2>5
    <2>7. b.minutes \in Int /\ Minute \in Nat \ {0} /\ b.minutes * Minute = Minute * b.minutes
      BY <1>4, SchedulerAssumption DEF Counted
    <2>8. Minute * t <= Minute * b.minutes
      BY <2>4, <2>5, <2>6, <2>7
    <2>9. TimeOf(s, T) <= b.minutes
      BY <2>6, <2>7, <2>8, OrderKept
    <2> QED  BY <2>9 DEF T
  <1>10. ASSUME NEW o \in on PROVE Fits(c[o], s[o])
    <2>1. PICK row : row = RowOf(q, s, o)
      OBVIOUS
    <2>2. PICK b \in buckets : b = choice[row]
      BY <1>6, <2>1
    <2>3. PICK w : w = AsWindow(q, b)
      OBVIOUS
    <2>4. c[o] = w
      BY <2>1, <2>2, <2>3
    <2>5. b.start * Minute < row.start + 1 /\ row.end <= b.end * Minute
      BY <1>3, <1>5, <2>1, <2>2 DEF Rostered
    <2>6. /\ q.start \in Int /\ s[o].start \in Int /\ 0 <= s[o].start
          /\ s[o].end \in Int /\ s[o].start + 1 <= s[o].end
          /\ Minute * s[o].start \in Int /\ Minute * s[o].end \in Int
      BY <1>5, CarriedOutFacts, RowTimes
    <2>7. row.start = q.start + Minute * s[o].start /\ row.end = q.start + Minute * s[o].end
      BY <2>1, RowFields
    <2>8. PICK from \in Int, to \in Int : from = b.start * Minute /\ to = b.end * Minute
      BY <1>4, SchedulerAssumption DEF Counted
    <2>9. w.start = Offset(q, from) /\ w.end = Offset(q, to) /\ w.minutes = b.minutes
      BY <2>3, <2>8 DEF AsWindow
    <2>10. Offset(q, from) \in Int /\ Offset(q, to) \in Int
      BY <2>6, <2>8, OffsetCuts
    <2>11. PICK start \in Int, end \in Int : start = s[o].start /\ end = s[o].end
      BY <2>6
    <2>12. from <= q.start + Minute * start /\ q.start + Minute * end <= to
      BY <2>5, <2>6, <2>7, <2>8, <2>11
    <2>13. Offset(q, from) <= start /\ end <= Offset(q, to) /\ 0 <= start /\ 1 <= end
      BY <2>6, <2>8, <2>11, <2>12, DateReached
    <2>14. Length(s[o]) <= b.minutes
      <3> DEFINE T == {n \in on : c[n] = AsWindow(q, b)}
                 f == [n \in T |-> Length(s[n])]
      <3>1. IsFiniteSet(T) /\ o \in T
        BY <2>3, <2>4, CarriedOutFacts, RowsHere, FS_Subset
      <3>2. \A n \in T : f[n] \in Int /\ 0 <= f[n]
        <4> SUFFICES ASSUME NEW n \in T PROVE f[n] \in Int /\ 0 <= f[n]
          OBVIOUS
        <4>1. s[n].start \in Int /\ s[n].end \in Int /\ s[n].start + 1 <= s[n].end
          BY <1>5, CarriedOutFacts, RowTimes
        <4> QED  BY <4>1 DEF Length
      <3>3. TimeOf(s, T) = Total(f, T)
        BY TimesAddUp
      <3>4. TimeOf(s, T) <= b.minutes
        BY <1>9
      <3>5. f[o] = Length(s[o])
        BY <3>1
      <3> HIDE DEF T, f
      <3>6. Total(f, T) = f[o] + Total(f, T \ {o})
        BY <3>1, <3>2, TotalWithOne
      <3>7. 0 <= Total(f, T \ {o})
        BY <3>1, <3>2, TotalGrows
      <3>8. Total(f, T \ {o}) \in Int
        <4>1. IsFiniteSet(T \ {o})
          BY <3>1, FS_Subset
        <4> QED  BY <3>2, <4>1, TotalIsInteger
      <3>9. b.minutes \in Int
        BY <1>4 DEF Counted
      <3> QED  BY <3>1, <3>2, <3>3, <3>4, <3>5, <3>6, <3>7, <3>8, <3>9
    <2>15. Fits(w, s[o])
      BY <2>9, <2>10, <2>11, <2>13, <2>14 DEF Fits
    <2> QED  BY <2>4, <2>15
  <1>11. ASSUME NEW w \in windows PROVE TimeOf(s, {o \in on : c[o] = w}) <= w.minutes
    <2>1. PICK b \in buckets : w = AsWindow(q, b)
      BY WindowsAre
    <2>2. w.minutes = b.minutes
      BY <2>1 DEF AsWindow
    <2> HIDE DEF c
    <2> QED  BY <1>9, <2>1, <2>2
  <1> HIDE DEF c, on, windows
  <1>12. SpentOn(s, on, windows)
    BY <1>7, <1>10, <1>11 DEF SpentOn
  <1> QED  BY <1>1, <1>12 DEF windows

-----------------------------------------------------------------------------
(* The horizon.                                                              *)

\* A resource has finitely many windows.
Countable(r) ==
  /\ Measured(r) /\ IsFiniteSet(DOMAIN r.capacity) /\ IsFiniteSet(r.extra)
  /\ r.calendar # Nothing => IsFiniteSet(r.calendar.shifts)

LEMMA BucketsFinite ==
  ASSUME NEW r, Countable(r)
  PROVE  IsFiniteSet(CapacityBuckets(r))
  <1>1. IsFiniteSet(ExtraBuckets(r))
    <2> DEFINE W == {w \in r.extra : w.minutes > 0 /\ w.start < w.end}
               open(w) == {p \in Segments(r, w) : Granted(w, Segments(r, w), p) > 0}
               made(w) == {Bucket(<<"extra", w.of>>, s, Granted(w, Segments(r, w), s)) : s \in open(w)}
               f == [w \in W |-> made(w)]
    <2>1. IsFiniteSet(W)
      BY FS_Subset DEF Countable
    <2>2. ASSUME NEW w \in W PROVE IsFiniteSet(made(w))
      <3>1. w.start \in Int /\ w.end \in Int
        BY DEF Countable, Measured
      <3>2. IsFiniteSet(Segments(r, w))
        BY <3>1, SegmentsAreSegments DEF Countable
      <3>3. IsFiniteSet(open(w))
        BY <3>2, FS_Subset
      <3> DEFINE g == [s \in open(w) |-> Bucket(<<"extra", w.of>>, s, Granted(w, Segments(r, w), s))]
      <3>4. made(w) = {g[s] : s \in open(w)}
        OBVIOUS
      <3> HIDE DEF g, open, made
      <3> QED  BY <3>3, <3>4, FiniteImage
    <2>3. ExtraBuckets(r) = UNION {f[w] : w \in W}
      <3>1. ExtraBuckets(r) = UNION {made(w) : w \in W}
        BY DEF ExtraBuckets
      <3> HIDE DEF made, W
      <3> QED  BY <3>1
    <2>4. \A w \in W : IsFiniteSet(f[w])
      BY <2>2
    <2> HIDE DEF f, W
    <2> QED  BY <2>1, <2>3, <2>4, FiniteUnion
  <1>2. CASE r.calendar # Nothing
    <2> DEFINE dates == WorkingDates(r)
               shifts == r.calendar.shifts
               left(x) == SubtractMaintenance(Cut(x[1], x[2]), r.calendar.maintenance)
               made(x) == {Bucket(<<"shift", x[2].name>>, s, Length(s)) : s \in left(x)}
               f == [x \in dates \X shifts |-> made(x)]
    <2>1. IsFiniteSet(dates) /\ IsFiniteSet(shifts)
      BY <1>2, FS_Subset DEF Countable, WorkingDates
    <2>2. IsFiniteSet(dates \X shifts)
      <3> HIDE DEF dates, shifts
      <3> QED  BY <2>1, FS_Product
    <2>3. ASSUME NEW x \in dates \X shifts PROVE IsFiniteSet(made(x))
      <3>1. x[1] \in dates /\ x[2] \in shifts
        OBVIOUS
      <3>2. Cut(x[1], x[2]) \in Segment
        BY <1>2, <3>1, CutIsSegment DEF Countable
      <3>3. Dated(r.calendar.maintenance)
        BY <1>2, MaintenanceDated DEF Countable
      <3>4. IsFiniteSet(left(x))
        BY <3>2, <3>3, MaintenanceTaken DEF Left
      <3> DEFINE g == [s \in left(x) |-> Bucket(<<"shift", x[2].name>>, s, Length(s))]
      <3>5. made(x) = {g[s] : s \in left(x)}
        OBVIOUS
      <3> HIDE DEF g, left, made
      <3> QED  BY <3>4, <3>5, FiniteImage
    <2>4. ShiftBuckets(r) \subseteq UNION {f[x] : x \in dates \X shifts}
      <3> SUFFICES ASSUME NEW b \in ShiftBuckets(r)
                   PROVE  \E x \in dates \X shifts : b \in f[x]
        OBVIOUS
      <3>1. PICK d \in dates, shift \in shifts :
              \E s \in SubtractMaintenance(Cut(d, shift), r.calendar.maintenance) :
                Length(s) > 0 /\ b = Bucket(<<"shift", shift.name>>, s, Length(s))
        BY ShiftBucketsAre
      <3>2. PICK s \in SubtractMaintenance(Cut(d, shift), r.calendar.maintenance) :
              b = Bucket(<<"shift", shift.name>>, s, Length(s))
        BY <3>1
      <3>3. PICK x \in dates \X shifts : x = <<d, shift>>
        OBVIOUS
      <3>4. x[1] = d /\ x[2] = shift
        BY <3>3
      <3>5. b \in made(x)
        BY <3>2, <3>4
      <3> QED  BY <3>5
    <2>5. \A x \in dates \X shifts : IsFiniteSet(f[x])
      BY <2>3
    <2>6. IsFiniteSet(UNION {f[x] : x \in dates \X shifts})
      <3> HIDE DEF f, dates, shifts
      <3> QED  BY <2>2, <2>5, FiniteUnion
    <2>7. IsFiniteSet(ShiftBuckets(r))
      <3> HIDE DEF f, dates, shifts
      <3> QED  BY <2>4, <2>6, FS_Subset
    <2> QED  BY <1>1, <1>2, <2>7, FS_Union DEF CapacityBuckets
  <1>3. CASE r.calendar = Nothing
    <2> DEFINE D == DOMAIN r.capacity
               f == [d \in D |->
                       Bucket(<<"day", d>>, [start |-> d * Day, end |-> (d + 1) * Day], r.capacity[d])]
               days == {f[d] : d \in D}
    <2>1. CapacityBuckets(r) = ExtraBuckets(r) \cup days
      BY <1>3 DEF CapacityBuckets
    <2>2. IsFiniteSet(D)
      BY DEF Countable
    <2>3. IsFiniteSet(days)
      <3> HIDE DEF f, D
      <3> QED  BY <2>2, FiniteImage
    <2> HIDE DEF days
    <2> QED  BY <1>1, <2>1, <2>3, FS_Union
  <1> QED  BY <1>2, <1>3

LEMMA Limits ==
  ASSUME NEW q \in Request
  PROVE  /\ q.buffer \in Int /\ \A x \in q.orders : x.due \in Int
         /\ IsFiniteSet(q.resources) /\ \A r \in q.resources : Countable(r) /\ r.units \in Int
         /\ \A g \in q.routings : \A n \in g.operations : IsFiniteSet(n.alternates)
  BY SchedulerAssumption DEF Countable

\* The minutes an operation takes on the slowest of its resources.
Slowest(o) == Max(Range(o.takes))

LEMMA TakesFacts ==
  ASSUME NEW q \in Request, ValidRequest(q), NEW o \in Build(q).operations
  PROVE  /\ Slowest(o) \in Int /\ 1 <= Slowest(o)
         /\ \A id \in DOMAIN o.takes : o.takes[id] \in Int /\ 1 <= o.takes[id] /\ o.takes[id] <= Slowest(o)
  <1>1. PICK x \in q.orders : \E n \in Route(q, x).operations : o = Made(q, x, n)
    BY OperationsMade
  <1>2. PICK n \in Route(q, x).operations : o = Made(q, x, n)
    BY <1>1
  <1>3. \A id \in DOMAIN o.takes : o.takes[id] \in Int /\ 1 <= o.takes[id]
    BY <1>2, WorkFacts
  <1>4. DOMAIN o.takes = {n.resource} \cup n.alternates
    BY <1>2, MadeFields
  <1>5. IsFiniteSet(DOMAIN o.takes)
    <2>1. IsFiniteSet(n.alternates)
      BY RouteFound, Limits
    <2>2. IsFiniteSet({n.resource})
      BY FS_Singleton
    <2> QED  BY <1>4, <2>1, <2>2, FS_Union
  <1> DEFINE all == Range(o.takes)
  <1>6. all = {o.takes[id] : id \in DOMAIN o.takes}
    BY DEF Range
  <1>7. IsFiniteSet(all)
    <2> HIDE DEF all
    <2> QED  BY <1>5, <1>6, FiniteImage
  <1>8. all \in SUBSET Int /\ all # {} /\ \A id \in DOMAIN o.takes : o.takes[id] \in all
    BY <1>3, <1>4, <1>6
  <1>9. Max(all) \in all /\ \A m \in all : m <= Max(all)
    <2> HIDE DEF all
    <2> QED  BY <1>7, <1>8, Greatest
  <1>10. \A m \in all : m \in Int /\ 1 <= m
    BY <1>3, <1>6
  <1> HIDE DEF all
  <1> QED  BY <1>3, <1>8, <1>9, <1>10 DEF all, Slowest

LEMMA WorkAddsUp ==
  ASSUME NEW q \in Request, ValidRequest(q)
  PROVE  /\ Work(Build(q)) = Total([o \in Build(q).operations |-> Slowest(o)], Build(q).operations)
         /\ Work(Build(q)) \in Int /\ 0 <= Work(Build(q))
  <1> DEFINE T == Build(q).operations
             f == [o \in T |-> Slowest(o)]
             A(it) == it = [U \in SUBSET T |-> IF U = {} THEN 0 ELSE f[Pick(U)] + it[U \ {Pick(U)}]]
             B(it) == it = [U \in SUBSET T |-> IF U = {} THEN 0
                                               ELSE Max(Range(Pick(U).takes)) + it[U \ {Pick(U)}]]
  <1>1. \A it : A(it) <=> B(it)
    <2>1. \A U \in SUBSET T : U # {} => Pick(U) \in T
      BY DEF Pick
    <2>2. \A U \in SUBSET T : U # {} => f[Pick(U)] = Max(Range(Pick(U).takes))
      BY <2>1 DEF Slowest
    <2> HIDE DEF f, T
    <2> QED  BY <2>2
  <1>2. Total(f, T) = (CHOOSE it : A(it))[T]
    BY DEF Total, MapThenSumSet, MapThenFoldSet, Pick
  <1>3. Work(Build(q)) = (CHOOSE it : B(it))[T]
    BY DEF Work, MapThenSumSet, MapThenFoldSet, Pick
  <1>4. (CHOOSE it : A(it)) = (CHOOSE it : B(it))
    <2> HIDE DEF A, B
    <2> QED  BY <1>1
  <1>5. Work(Build(q)) = Total(f, T)
    BY <1>2, <1>3, <1>4
  <1>6. \A o \in T : f[o] \in Int /\ 0 <= f[o]
    <2> SUFFICES ASSUME NEW o \in T PROVE f[o] \in Int /\ 0 <= f[o]
      OBVIOUS
    <2>1. Slowest(o) \in Int /\ 1 <= Slowest(o)
      BY TakesFacts
    <2> QED  BY <2>1
  <1>7. IsFiniteSet(T)
    BY FinitelyMany
  <1> HIDE DEF f, T, A, B
  <1>8. Total(f, T) \in Int /\ 0 <= Total(f, T)
    BY <1>6, <1>7, TotalIsInteger, TotalGrows
  <1> QED  BY <1>5, <1>8 DEF f, T

LEMMA TablesAre ==
  ASSUME NEW q, ValidRequest(q)
  PROVE  /\ DOMAIN Build(q).windows = {r.id : r \in q.resources}
         /\ \A r \in q.resources : Build(q).windows[r.id] = WindowsOf(q, r)
         /\ DOMAIN Build(q).due = {x.id : x \in q.orders}
         /\ \A x \in q.orders : Build(q).due[x.id] = Offset(q, x.due - q.buffer * Minute)
  <1>1. \A r \in q.resources : Build(q).windows[r.id] = WindowsOf(q, r)
    BY BuildFields, ResourceFound
  <1>2. DOMAIN Build(q).windows = {r.id : r \in q.resources} /\ DOMAIN Build(q).due = {x.id : x \in q.orders}
    BY DEF Build
  <1>3. ASSUME NEW x \in q.orders PROVE Build(q).due[x.id] = Offset(q, x.due - q.buffer * Minute)
    <2> DEFINE same == CHOOSE y \in q.orders : y.id = x.id
    <2>1. same = x
      BY DEF ValidRequest
    <2>2. Build(q).due[x.id] = Offset(q, same.due - q.buffer * Minute)
      BY DEF Build
    <2> QED  BY <2>1, <2>2
  <1> QED  BY <1>1, <1>2, <1>3

Closings(p) == UNION {{w.end : w \in p.windows[id]} : id \in DOMAIN p.windows}
KeptEnds(p, given) ==
  {Offset(p, x[1].start) + x[2].takes[x[1].resource] :
     x \in {x \in given \X p.operations : x[1].operation = x[2].name}}
Latests(p) == {o.latest : o \in p.operations} \ {Nothing}

\* All of the numbers of which the horizon is the greatest are whole.
Numbers(S) == IsFiniteSet(S) /\ S \in SUBSET Int

LEMMA DuesAreNumbers ==
  ASSUME NEW q \in Request, ValidRequest(q)
  PROVE  Numbers(Range(Build(q).due))
  <1> DEFINE D == DOMAIN Build(q).due
             id == [x \in q.orders |-> x.id]
             f == Build(q).due
  <1>1. D = {id[x] : x \in q.orders}
    <2>1. D = {x.id : x \in q.orders}
      BY TablesAre
    <2>2. {x.id : x \in q.orders} = {id[x] : x \in q.orders}
      OBVIOUS
    <2> QED  BY ONLY <2>1, <2>2
  <1>2. IsFiniteSet(q.orders)
    BY RequestFields
  <1>3. IsFiniteSet(D)
    <2> HIDE DEF D, id
    <2> QED  BY <1>1, <1>2, FiniteImage
  <1>4. Range(f) = {f[d] : d \in D}
    BY DEF Range
  <1>5. ASSUME NEW d \in D PROVE f[d] \in Int
    <2>1. PICK x \in q.orders : d = x.id
      BY TablesAre
    <2>2. PICK date : date = x.due - q.buffer * Minute
      OBVIOUS
    <2>3. q.start \in Int /\ date \in Int
      BY <2>2, Limits, RequestFields, SchedulerAssumption
    <2>4. f[d] = Offset(q, date)
      BY <2>1, <2>2, TablesAre
    <2> QED  BY <2>3, <2>4, OffsetCuts
  <1> HIDE DEF D, f
  <1>6. IsFiniteSet({f[d] : d \in D})
    BY <1>3, FiniteImage
  <1> QED  BY <1>4, <1>5, <1>6 DEF Numbers, f

LEMMA WindowsAreNumbers ==
  ASSUME NEW q \in Request, ValidRequest(q), NEW r \in q.resources
  PROVE  IsFiniteSet(WindowsOf(q, r)) /\ \A w \in WindowsOf(q, r) : w.end \in Int
  <1>1. Countable(r)
    BY Limits
  <1>2. IsFiniteSet(CapacityBuckets(r))
    BY <1>1, BucketsFinite
  <1>3. \A b \in CapacityBuckets(r) : Counted(b)
    BY <1>1, BucketsCounted DEF Countable, ValidRequest
  <1> DEFINE f == [b \in CapacityBuckets(r) |-> AsWindow(q, b)]
  <1>4. WindowsOf(q, r) = {f[b] : b \in CapacityBuckets(r)}
    BY WindowsAre
  <1>5. ASSUME NEW w \in WindowsOf(q, r) PROVE w.end \in Int
    <2>1. PICK b \in CapacityBuckets(r) : w = AsWindow(q, b)
      BY WindowsAre
    <2>2. PICK to \in Int : to = b.end * Minute
      BY <1>3, SchedulerAssumption DEF Counted
    <2>3. q.start \in Int
      BY RequestFields
    <2>4. w.end = Offset(q, to)
      BY <2>1, <2>2 DEF AsWindow
    <2> QED  BY <2>3, <2>4, OffsetCuts
  <1>6. IsFiniteSet(WindowsOf(q, r))
    <2> HIDE DEF f
    <2> QED  BY <1>2, <1>4, FiniteImage
  <1> QED  BY <1>5, <1>6

LEMMA ClosingsAreNumbers ==
  ASSUME NEW q \in Request, ValidRequest(q)
  PROVE  Numbers(Closings(Build(q)))
  <1> DEFINE of == [r \in q.resources |-> {w.end : w \in WindowsOf(q, r)}]
  <1>1. Closings(Build(q)) = UNION {of[r] : r \in q.resources}
    <2> DEFINE p == Build(q)
               ids == DOMAIN p.windows
               at(id) == {w.end : w \in p.windows[id]}
    <2>1. \A r \in q.resources : at(r.id) = of[r] /\ r.id \in ids
      BY TablesAre
    <2>2. \A id \in ids : \E r \in q.resources : id = r.id
      BY TablesAre
    <2>3. Closings(p) = UNION {at(id) : id \in ids}
      BY DEF Closings
    <2> HIDE DEF at, ids, of
    <2> QED  BY <2>1, <2>2, <2>3
  <1>2. ASSUME NEW r \in q.resources PROVE IsFiniteSet(of[r]) /\ of[r] \in SUBSET Int
    <2> DEFINE W == WindowsOf(q, r)
               end == [w \in W |-> w.end]
    <2>1. IsFiniteSet(W) /\ \A w \in W : w.end \in Int
      BY WindowsAreNumbers
    <2>2. of[r] = {end[w] : w \in W}
      OBVIOUS
    <2>3. of[r] \in SUBSET Int
      BY <2>1
    <2> HIDE DEF W, end, of
    <2> QED  BY <2>1, <2>2, <2>3, FiniteImage
  <1>3. IsFiniteSet(q.resources)
    BY Limits
  <1> HIDE DEF of
  <1>4. IsFiniteSet(UNION {of[r] : r \in q.resources})
    BY <1>2, <1>3, FiniteUnion
  <1> QED  BY <1>1, <1>2, <1>4 DEF Numbers

LEMMA LatestsAreNumbers ==
  ASSUME NEW q \in Request, ValidRequest(q)
  PROVE  Numbers(Latests(Build(q)))
  <1> DEFINE T == Build(q).operations
             f == [o \in T |-> o.latest]
  <1>1. IsFiniteSet(T)
    BY FinitelyMany
  <1>2. IsFiniteSet({f[o] : o \in T})
    <2> HIDE DEF f, T
    <2> QED  BY <1>1, FiniteImage
  <1>3. IsFiniteSet(Latests(Build(q)))
    <2>1. Latests(Build(q)) \subseteq {f[o] : o \in T}
      BY DEF Latests
    <2> HIDE DEF f, T
    <2> QED  BY <1>2, <2>1, FS_Subset
  <1>4. ASSUME NEW o \in T PROVE o.latest = Nothing \/ o.latest \in Int
    <2>1. PICK x \in q.orders : \E n \in Route(q, x).operations : o = Made(q, x, n)
      BY OperationsMade
    <2>2. PICK n \in Route(q, x).operations : o = Made(q, x, n)
      BY <2>1
    <2>3. q.start \in Int /\ (n.latest = Nothing \/ n.latest \in Int)
      BY RouteFound, RequestFields
    <2> QED  BY <2>2, <2>3, MadeFields, OffsetCuts DEF OffsetOrNothing
  <1> QED  BY <1>3, <1>4 DEF Latests, Numbers

LEMMA KeptEndsAreNumbers ==
  ASSUME NEW q \in Request, ValidRequest(q), NEW given, IsFiniteSet(given),
         \A k \in given : k.start \in Int, ~Refused(Build(q), given)
  PROVE  /\ Numbers(KeptEnds(Build(q), given))
         /\ \A k \in given, o \in Build(q).operations : k.operation = o.name =>
              /\ Offset(Build(q), k.start) \in Int /\ k.resource \in DOMAIN o.takes
              /\ Offset(Build(q), k.start) + o.takes[k.resource] \in KeptEnds(Build(q), given)
  <1> DEFINE p == Build(q)
             T == p.operations
             X == {x \in given \X T : x[1].operation = x[2].name}
             f == [x \in X |-> Offset(p, x[1].start) + x[2].takes[x[1].resource]]
  <1>1. IsFiniteSet(X)
    <2>1. IsFiniteSet(T)
      BY FinitelyMany
    <2>2. IsFiniteSet(given \X T)
      <3> HIDE DEF T
      <3> QED  BY <2>1, FS_Product
    <2> QED  BY <2>2, FS_Subset
  <1>2. KeptEnds(p, given) = {f[x] : x \in X}
    BY DEF KeptEnds
  <1>3. IsFiniteSet(KeptEnds(p, given))
    <2> HIDE DEF f, X, T, p
    <2> QED  BY <1>1, <1>2, FiniteImage
  <1>4. ASSUME NEW k \in given, NEW o \in T, k.operation = o.name
        PROVE  /\ Offset(p, k.start) \in Int /\ k.resource \in DOMAIN o.takes
               /\ o.takes[k.resource] \in Int
    <2>1. PICK n \in T : n.name = k.operation /\ k.resource \in DOMAIN n.takes
      BY DEF Refused
    <2>2. n = o
      BY <1>4, <2>1 DEF Refused
    <2>3. Offset(p, k.start) = Offset(q, k.start)
      BY BuildFields DEF Offset
    <2>4. q.start \in Int
      BY RequestFields
    <2>5. Offset(q, k.start) \in Int
      BY <2>4, OffsetCuts
    <2> QED  BY <2>1, <2>2, <2>3, <2>5, TakesFacts
  <1>5. ASSUME NEW k \in given, NEW o \in T, k.operation = o.name
        PROVE  Offset(p, k.start) + o.takes[k.resource] \in KeptEnds(p, given)
    <2>1. PICK x \in X : x = <<k, o>>
      BY <1>5
    <2>2. x[1] = k /\ x[2] = o
      BY <2>1
    <2> HIDE DEF X
    <2> QED  BY <1>2, <2>1, <2>2
  <1>6. ASSUME NEW e \in KeptEnds(p, given) PROVE e \in Int
    <2>1. PICK x \in X : e = f[x]
      BY <1>2
    <2>2. x[1] \in given /\ x[2] \in T /\ x[1].operation = x[2].name
      BY <2>1
    <2>3. PICK a \in Int, b \in Int : a = Offset(p, x[1].start) /\ b = x[2].takes[x[1].resource]
      BY <1>4, <2>2
    <2>4. e = a + b
      BY <2>1, <2>3
    <2> QED  BY <2>4
  <1> QED  BY <1>3, <1>4, <1>5, <1>6 DEF Numbers

\* How far the solver looks ahead: the time that operations may have spent by then,
\* whatever limits them, and then as much time as all of the work takes.
LEMMA AheadIs ==
  ASSUME NEW q \in Request, ValidRequest(q), NEW given, IsFiniteSet(given),
         \A k \in given : k.start \in Int, ~Refused(Build(q), given), DOMAIN q.setups = {},
         NEW p, p = Build(q)
  PROVE  /\ Work(p) \in Int /\ 0 <= Work(p) /\ Ahead(p, given) \in Int
         /\ 2 * Work(p) <= Ahead(p, given)
         /\ \A e \in Closings(p) \cup KeptEnds(p, given) \cup Latests(p) :
              e \in Int /\ e + Work(p) <= Ahead(p, given)
  <1>1. PICK work \in Int : work = Work(p) /\ 0 <= work
    BY WorkAddsUp
  <1>2. MapThenSumSet(LAMBDA s : p.setups[s], DOMAIN p.setups) = 0
    <2>1. DOMAIN p.setups = {}
      BY BuildFields
    <2>2. Total(p.setups, {}) = 0
      BY TotalOfNone
    <2> QED  BY <2>1, <2>2 DEF Total
  <1> DEFINE dated == Range(p.due) \cup Closings(p) \cup KeptEnds(p, given)
             first == {2 * work, 1}
             more == [d \in dated |-> d + work]
             last == [d \in Latests(p) |-> d + work]
             all == first \cup {more[d] : d \in dated} \cup {last[d] : d \in Latests(p)}
  <1>3. Ahead(p, given) = Max(all)
    <2> DEFINE busy == Work(p) + MapThenSumSet(LAMBDA s : p.setups[s], DOMAIN p.setups)
               closings == UNION {{w.end : w \in p.windows[id]} : id \in DOMAIN p.windows}
               ends == {Offset(p, x[1].start) + x[2].takes[x[1].resource] :
                          x \in {x \in given \X p.operations : x[1].operation = x[2].name}}
               latest == {o.latest : o \in p.operations} \ {Nothing}
    <2>1. busy = work
      <3> DEFINE setups == MapThenSumSet(LAMBDA s : p.setups[s], DOMAIN p.setups)
      <3>1. busy = Work(p) + setups /\ setups = 0
        BY <1>2
      <3> HIDE DEF setups, busy
      <3> QED  BY <1>1, <3>1
    <2>2. closings = Closings(p) /\ ends = KeptEnds(p, given) /\ latest = Latests(p)
      BY DEF Closings, KeptEnds, Latests
    <2>3. Ahead(p, given) = Max({2 * busy, 1} \cup {d + busy : d \in Range(p.due) \cup closings \cup ends}
                                  \cup {d + Work(p) : d \in latest})
      BY DEF Ahead
    <2> HIDE DEF busy, closings, ends, latest
    <2>4. Ahead(p, given) = Max(first \cup {d + work : d \in dated} \cup {d + work : d \in Latests(p)})
      BY <1>1, <2>1, <2>2, <2>3
    <2>5. {d + work : d \in dated} = {more[d] : d \in dated}
      OBVIOUS
    <2>6. {d + work : d \in Latests(p)} = {last[d] : d \in Latests(p)}
      OBVIOUS
    <2> HIDE DEF dated, more, last, first
    <2> QED  BY <2>4, <2>5, <2>6
  <1>4. Numbers(dated)
    <2>1. Numbers(Range(p.due)) /\ Numbers(Closings(p)) /\ Numbers(KeptEnds(p, given))
      BY DuesAreNumbers, ClosingsAreNumbers, KeptEndsAreNumbers
    <2>2. IsFiniteSet(Range(p.due) \cup Closings(p))
      BY <2>1, FS_Union DEF Numbers
    <2>3. IsFiniteSet(dated)
      BY <2>1, <2>2, FS_Union DEF Numbers
    <2> QED  BY <2>1, <2>3 DEF Numbers
  <1>5. Numbers(Latests(p))
    BY LatestsAreNumbers
  <1> HIDE DEF dated
  <1>6. Numbers({more[d] : d \in dated}) /\ Numbers({last[d] : d \in Latests(p)})
    <2>1. \A d \in dated : more[d] \in Int
      BY <1>4 DEF Numbers
    <2>2. \A d \in Latests(p) : last[d] \in Int
      BY <1>5 DEF Numbers
    <2> HIDE DEF more, last
    <2>3. IsFiniteSet({more[d] : d \in dated}) /\ IsFiniteSet({last[d] : d \in Latests(p)})
      BY <1>4, <1>5, FiniteImage DEF Numbers
    <2> QED  BY <2>1, <2>2, <2>3 DEF Numbers
  <1>7. IsFiniteSet(all) /\ all \in SUBSET Int /\ 2 * work \in all
    <2>1. IsFiniteSet(first)
      <3>1. IsFiniteSet({2 * work}) /\ IsFiniteSet({1})
        BY FS_Singleton
      <3>2. first = {2 * work} \cup {1}
        OBVIOUS
      <3> QED  BY <3>1, <3>2, FS_Union
    <2>2. first \in SUBSET Int /\ 2 * work \in first
      OBVIOUS
    <2> HIDE DEF first, more, last
    <2>3. IsFiniteSet(first \cup {more[d] : d \in dated})
      BY <1>6, <2>1, FS_Union DEF Numbers
    <2>4. IsFiniteSet(all)
      BY <1>6, <2>3, FS_Union DEF Numbers
    <2> QED  BY <1>6, <2>2, <2>4 DEF Numbers
  <1>8. Max(all) \in all /\ \A m \in all : m <= Max(all)
    <2> HIDE DEF all
    <2> QED  BY <1>7, Greatest
  <1>9. ASSUME NEW e \in dated PROVE e \in Int /\ e + work <= Max(all)
    <2>1. more[e] = e + work /\ more[e] \in all
      OBVIOUS
    <2> HIDE DEF all, more
    <2> QED  BY <1>4, <1>8, <2>1 DEF Numbers
  <1>10. ASSUME NEW e \in Latests(p) PROVE e \in Int /\ e + work <= Max(all)
    <2>1. last[e] = e + work /\ last[e] \in all
      OBVIOUS
    <2> HIDE DEF all, last
    <2> QED  BY <1>5, <1>8, <2>1 DEF Numbers
  <1>11. Closings(p) \cup KeptEnds(p, given) \subseteq dated
    BY DEF dated
  <1> HIDE DEF all
  <1> QED  BY <1>1, <1>3, <1>7, <1>8, <1>9, <1>10, <1>11

-----------------------------------------------------------------------------
(* A plan that can be carried out, but ends beyond the horizon, can be drawn *)
(* together: what is late has no dates and no windows, and may be done, one  *)
(* operation after another, in the time that is left for all of the work.    *)

Packing(L, f, at, base, from) ==
  /\ \A o \in L : from[o] \in Int /\ base <= from[o] /\ from[o] + f[o] <= base + Total(f, L)
  /\ \A a, b \in L : a # b => from[a] + f[a] <= from[b] \/ from[b] + f[b] <= from[a]
  /\ \A a, b \in L : at[a] < at[b] => from[a] + f[a] <= from[b]

LEMMA PackingExists ==
  ASSUME NEW L, IsFiniteSet(L), NEW f, NEW at, NEW base \in Int,
         \A o \in L : f[o] \in Int /\ 1 <= f[o] /\ at[o] \in Int
  PROVE  \E from : Packing(L, f, at, base, from)
  <1> DEFINE good == {V \in SUBSET L : \E from : Packing(V, f, at, base, from)}
  <1>1. ASSUME NEW V \in SUBSET L, \A x \in V : V \ {x} \in good PROVE V \in good
    <2>1. IsFiniteSet(V)
      BY FS_Subset
    <2>2. CASE V = {}
      <3>1. Packing(V, f, at, base, <<>>)
        BY <2>2 DEF Packing
      <3> QED  BY <3>1
    <2>3. CASE V # {}
      <3> DEFINE times == {at[o] : o \in V}
      <3>1. IsFiniteSet(times) /\ times \in SUBSET Int /\ times # {}
        BY <2>1, <2>3, FiniteImage
      <3>2. Max(times) \in times /\ \A m \in times : m <= Max(times)
        <4> HIDE DEF times
        <4> QED  BY <3>1, Greatest
      <3>3. PICK x \in V : \A o \in V : at[o] <= at[x]
        BY <3>2
      <3>4. PICK rest : Packing(V \ {x}, f, at, base, rest)
        BY <1>1
      <3>5. PICK sum \in Int : sum = Total(f, V \ {x}) /\ 0 <= sum
        <4>1. IsFiniteSet(V \ {x})
          BY <2>1, FS_Subset
        <4>2. \A o \in V \ {x} : f[o] \in Int /\ 0 <= f[o]
          <5> SUFFICES ASSUME NEW o \in V \ {x} PROVE f[o] \in Int /\ 0 <= f[o]
            OBVIOUS
          <5>1. f[o] \in Int /\ 1 <= f[o]
            OBVIOUS
          <5> QED  BY <5>1
        <4>3. Total(f, V \ {x}) \in Int /\ 0 <= Total(f, V \ {x})
          BY <4>1, <4>2, TotalIsInteger, TotalGrows
        <4> QED  BY <4>3
      <3>6. Total(f, V) = f[x] + sum
        BY <2>1, <3>5, TotalWithOne
      <3> DEFINE from == [o \in V |-> IF o = x THEN base + sum ELSE rest[o]]
      <3>7. from[x] = base + sum /\ \A o \in V \ {x} : from[o] = rest[o]
        OBVIOUS
      <3>8. \A o \in V \ {x} : /\ from[o] \in Int /\ f[o] \in Int /\ 1 <= f[o]
                               /\ base <= from[o] /\ from[o] + f[o] <= base + sum
        BY <3>4, <3>5, <3>7 DEF Packing
      <3> HIDE DEF from
      <3>9. from[x] \in Int /\ base <= from[x] /\ f[x] \in Int /\ 1 <= f[x]
        BY <3>5, <3>7
      <3>10. ASSUME NEW o \in V
             PROVE  from[o] \in Int /\ base <= from[o] /\ from[o] + f[o] <= base + Total(f, V)
        <4>1. CASE o = x
          BY <3>5, <3>6, <3>7, <3>9, <4>1
        <4>2. CASE o # x
          BY <3>5, <3>6, <3>8, <3>9, <4>2
        <4> QED  BY <4>1, <4>2
      <3>11. ASSUME NEW a \in V, NEW b \in V, a # b
             PROVE  from[a] + f[a] <= from[b] \/ from[b] + f[b] <= from[a]
        <4>1. CASE a = x
          BY <3>7, <3>8, <3>11, <4>1
        <4>2. CASE b = x
          BY <3>7, <3>8, <3>11, <4>2
        <4>3. CASE a # x /\ b # x
          BY <3>4, <3>7, <3>11, <4>3 DEF Packing
        <4> QED  BY <4>1, <4>2, <4>3
      <3>12. ASSUME NEW a \in V, NEW b \in V, at[a] < at[b] PROVE from[a] + f[a] <= from[b]
        <4>1. a # x /\ a # b
          <5>1. at[b] <= at[x] /\ at[a] \in Int /\ at[b] \in Int /\ at[x] \in Int
            BY <3>3
          <5> QED  BY <3>12, <5>1
        <4>2. CASE b = x
          BY <3>7, <3>8, <4>1, <4>2
        <4>3. CASE b # x
          BY <3>4, <3>7, <3>12, <4>1, <4>3 DEF Packing
        <4> QED  BY <4>2, <4>3
      <3>13. Packing(V, f, at, base, from)
        BY <3>10, <3>11, <3>12 DEF Packing
      <3> QED  BY <3>13
    <2> QED  BY <2>2, <2>3
  <1>2. SUBSET L \subseteq good
    <2> HIDE DEF good
    <2>1. \A T \in SUBSET L : (\A x \in T : T \ {x} \in good) => T \in good
      BY <1>1
    <2> QED  BY <2>1, SubsetInduction
  <1> QED  BY <1>2

\* A plan of the kind that the property is about.
Loose(q, given, s) == CarriedOut(q, given, s) /\ IsFiniteSet(given) /\ Ordinary(Build(q))

Border(q, given) == Ahead(Build(q), given) - Work(Build(q))
Late(q, given, s) == {o \in Build(q).operations : s[o].end > Border(q, given)}

LEMMA BorderIs ==
  ASSUME NEW q, NEW given, NEW s, Loose(q, given, s)
  PROVE  /\ Ahead(Build(q), given) \in Int /\ Work(Build(q)) \in Int /\ Border(q, given) \in Int
         /\ 0 <= Border(q, given) /\ Border(q, given) <= Ahead(Build(q), given)
         /\ Ahead(Build(q), given) = Border(q, given) + Work(Build(q))
         /\ \A e \in Closings(Build(q)) \cup KeptEnds(Build(q), given) \cup Latests(Build(q)) :
              e \in Int /\ e <= Border(q, given)
  <1>1. PICK p : p = Build(q)
    OBVIOUS
  <1>2. /\ Work(p) \in Int /\ 0 <= Work(p) /\ Ahead(p, given) \in Int
        /\ 2 * Work(p) <= Ahead(p, given)
        /\ \A e \in Closings(p) \cup KeptEnds(p, given) \cup Latests(p) :
             e \in Int /\ e + Work(p) <= Ahead(p, given)
    BY <1>1, CarriedOutFacts, AheadIs DEF Loose
  <1>3. PICK work \in Int, last \in Int : work = Work(p) /\ last = Ahead(p, given)
    BY <1>2
  <1>4. Border(q, given) = last - work
    BY <1>1, <1>3 DEF Border
  <1>5. \A e \in Closings(p) \cup KeptEnds(p, given) \cup Latests(p) : e \in Int /\ e + work <= last
    BY <1>2, <1>3
  <1>6. \A e \in Closings(p) \cup KeptEnds(p, given) \cup Latests(p) : e \in Int /\ e <= last - work
    BY <1>5
  <1> QED  BY <1>1, <1>2, <1>3, <1>4, <1>6

\* What is late has no date, was not kept, and is not on a constraint with windows.
LEMMA LateIsFree ==
  ASSUME NEW q, NEW given, NEW s, Loose(q, given, s), NEW o \in Late(q, given, s)
  PROVE  /\ o \in Build(q).operations /\ s[o].end > Border(q, given)
         /\ o.earliest = Nothing /\ o.latest = Nothing
         /\ \A k \in given : k.operation # o.name
         /\ \A r \in q.resources : r.constraint /\ s[o].resource = r.id =>
              Build(q).windows[r.id] = {}
  <1>1. PICK p : p = Build(q)
    OBVIOUS
  <1>2. o \in p.operations /\ s[o].end > Border(q, given)
    BY <1>1 DEF Late
  <1>3. CarriedOut(q, given, s) /\ q \in Request /\ ValidRequest(q)
    BY CarriedOutFacts DEF Loose
  <1>4. s[o].end \in Int /\ Border(q, given) \in Int
    BY <1>1, <1>2, <1>3, CarriedOutFacts, RowTimes, BorderIs
  <1>5. o.latest = Nothing
    <2> SUFFICES ASSUME o.latest # Nothing PROVE FALSE
      OBVIOUS
    <2>1. o.latest \in Latests(p)
      BY <1>2 DEF Latests
    <2>2. o.latest \in Int /\ o.latest <= Border(q, given)
      BY <1>1, <2>1, BorderIs
    <2>3. s[o].end <= o.latest
      BY <1>1, <1>2, <1>3, DatesKept
    <2> QED  BY <1>2, <1>4, <2>2, <2>3
  <1>6. o.earliest = Nothing
    BY <1>1, <1>2, <1>5 DEF Loose, Ordinary
  <1>7. ASSUME NEW k \in given, k.operation = o.name PROVE FALSE
    <2>1. s[o].resource = k.resource /\ s[o].start = Offset(p, k.start)
      BY <1>1, <1>2, <1>3, <1>7, KeptKept
    <2>2. /\ Offset(p, k.start) + o.takes[k.resource] \in KeptEnds(p, given)
      BY <1>1, <1>2, <1>3, <1>7, CarriedOutFacts, KeptEndsAreNumbers DEF Loose
    <2>3. s[o].end = s[o].start + o.takes[s[o].resource]
      BY <1>1, <1>2, <1>3 DEF CarriedOut, Placed
    <2>4. s[o].end \in KeptEnds(p, given)
      BY <2>1, <2>2, <2>3
    <2>5. s[o].end <= Border(q, given)
      BY <1>1, <2>4, BorderIs
    <2> QED  BY <1>2, <1>4, <2>5
  <1>8. ASSUME NEW r \in q.resources, r.constraint, s[o].resource = r.id, p.windows[r.id] # {} PROVE FALSE
    <2>1. Spent(p, s, r.id)
      BY <1>1, <1>3, <1>8, RosterKept
    <2>2. o \in On(s, r.id)
      BY <1>1, <1>2, <1>3, <1>8 DEF On, CarriedOut, Placed
    <2>3. PICK c \in [On(s, r.id) -> p.windows[r.id]] : \A n \in On(s, r.id) : Fits(c[n], s[n])
      BY <1>8, <2>1 DEF Spent
    <2>4. PICK w \in p.windows[r.id] : w = c[o] /\ s[o].end <= w.end
      BY <2>2, <2>3 DEF Fits
    <2>5. r.id \in DOMAIN p.windows
      BY <1>1, <1>3, TablesAre
    <2>6. w.end \in Closings(p)
      BY <2>4, <2>5 DEF Closings
    <2>7. w.end \in Int /\ w.end <= Border(q, given)
      BY <1>1, <2>6, BorderIs
    <2> QED  BY <1>2, <1>4, <2>4, <2>7
  <1> QED  BY <1>1, <1>2, <1>5, <1>6, <1>7, <1>8

Drawn(q, given, s, t) ==
  /\ t = [o \in Build(q).operations |->
            [resource |-> s[o].resource, start |-> t[o].start, end |-> t[o].end]]
  /\ \A o \in Build(q).operations :
       /\ t[o].start \in Int /\ 0 <= t[o].start
       /\ t[o].end = t[o].start + o.takes[s[o].resource]
       /\ t[o].end \in Int /\ t[o].start + 1 <= t[o].end /\ t[o].end <= Ahead(Build(q), given)
       /\ o \notin Late(q, given, s) =>
            t[o].start = s[o].start /\ t[o].end = s[o].end /\ t[o].end <= Border(q, given)
       /\ o \in Late(q, given, s) => Border(q, given) <= t[o].start
  /\ \A a, b \in Late(q, given, s) : a # b => t[a].end <= t[b].start \/ t[b].end <= t[a].start
  /\ \A a, b \in Late(q, given, s) : s[a].start < s[b].start => t[a].end <= t[b].start

LEMMA DrawnTogether ==
  ASSUME NEW q, NEW given, NEW s, Loose(q, given, s)
  PROVE  \E t : Drawn(q, given, s, t)
  <1> DEFINE ops == Build(q).operations
             late == Late(q, given, s)
             border == Border(q, given)
             last == Ahead(Build(q), given)
             len == [o \in ops |-> o.takes[s[o].resource]]
             slow == [o \in ops |-> Slowest(o)]
             at == [o \in ops |-> s[o].start]
  <1>1. CarriedOut(q, given, s) /\ Placed(q, given, s) /\ q \in Request /\ ValidRequest(q)
    BY CarriedOutFacts DEF Loose
  <1>2. IsFiniteSet(ops)
    BY <1>1, FinitelyMany
  <1>3. late \subseteq ops
    BY DEF Late
  <1>4. \A o \in ops : /\ s[o].start \in Int /\ 0 <= s[o].start
                       /\ s[o].end \in Int /\ s[o].end = s[o].start + o.takes[s[o].resource]
                       /\ s[o].resource \in DOMAIN o.takes
    BY <1>1, RowTimes DEF Placed
  <1>5. ASSUME NEW o \in ops
        PROVE  len[o] \in Int /\ 1 <= len[o] /\ slow[o] \in Int /\ 1 <= slow[o] /\ len[o] <= slow[o]
    BY <1>1, <1>4, TakesFacts
  <1>6. border \in Int /\ 0 <= border /\ border <= last /\ last \in Int /\ last = border + Total(slow, ops)
    BY <1>1, BorderIs, WorkAddsUp
  <1>7. \A o \in ops : at[o] = s[o].start /\ at[o] \in Int
    BY <1>4
  <1>8. \A o \in ops : len[o] = o.takes[s[o].resource]
    OBVIOUS
  <1>9. \A o \in late : s[o].end > border
    BY DEF Late
  <1>10. \A o \in ops : o \notin late => s[o].end <= border
    <2> SUFFICES ASSUME NEW o \in ops, o \notin late PROVE s[o].end <= border
      OBVIOUS
    <2>1. ~(s[o].end > border)
      BY DEF Late
    <2>2. s[o].end \in Int /\ border \in Int
      BY <1>4, <1>6
    <2> QED  BY <2>1, <2>2
  <1> HIDE DEF ops, late, border, last, len, slow, at
  <1>11. IsFiniteSet(late)
    BY <1>2, <1>3, FS_Subset
  <1>12. PICK from : Packing(late, len, at, border, from)
    <2>1. \A o \in late : len[o] \in Int /\ 1 <= len[o] /\ at[o] \in Int
      BY <1>3, <1>5, <1>7
    <2> QED  BY <1>6, <1>11, <2>1, PackingExists
  <1>13. PICK sum \in Int : sum = Total(len, late) /\ border + sum <= last
    <2>1. \A o \in ops : len[o] \in Int /\ 0 <= len[o]
      <3> SUFFICES ASSUME NEW o \in ops PROVE len[o] \in Int /\ 0 <= len[o]
        OBVIOUS
      <3>1. len[o] \in Int /\ 1 <= len[o]
        BY <1>5
      <3> QED  BY <3>1
    <2>2. Total(len, late) <= Total(len, ops) /\ Total(len, ops) \in Int /\ Total(len, late) \in Int
      <3>1. Total(len, late) <= Total(len, ops)
        BY <1>2, <1>3, <2>1, TotalGrows
      <3>2. Total(len, ops) \in Int
        BY <1>2, <2>1, TotalIsInteger
      <3>3. Total(len, late) \in Int
        BY <1>3, <1>11, <2>1, TotalIsInteger
      <3> QED  BY <3>1, <3>2, <3>3
    <2>3. Total(len, ops) <= Total(slow, ops) /\ Total(slow, ops) \in Int
      <3>1. Total(len, ops) <= Total(slow, ops)
        BY <1>2, <1>5, TotalIsLess
      <3>2. Total(slow, ops) \in Int
        BY <1>2, <1>5, TotalIsInteger
      <3> QED  BY <3>1, <3>2
    <2> QED  BY <1>6, <2>2, <2>3
  <1> DEFINE begin == [o \in ops |-> IF o \in late THEN from[o] ELSE s[o].start]
             t == [o \in ops |-> [resource |-> s[o].resource, start |-> begin[o],
                                  end |-> begin[o] + len[o]]]
  <1>14. \A o \in ops : t[o] = [resource |-> s[o].resource, start |-> t[o].start, end |-> t[o].end]
                        /\ t[o].start = begin[o] /\ t[o].end = begin[o] + len[o]
    OBVIOUS
  <1>15. \A o \in late : begin[o] = from[o]
    BY <1>3
  <1>16. \A o \in ops : o \notin late => begin[o] = s[o].start
    OBVIOUS
  <1>17. t = [o \in ops |-> [resource |-> s[o].resource, start |-> t[o].start, end |-> t[o].end]]
    OBVIOUS
  <1> HIDE DEF begin, t
  <1>18. ASSUME NEW o \in ops
         PROVE  /\ t[o].start \in Int /\ 0 <= t[o].start
                /\ t[o].end = t[o].start + o.takes[s[o].resource]
                /\ t[o].end \in Int /\ t[o].start + 1 <= t[o].end /\ t[o].end <= last
                /\ o \notin late => t[o].start = s[o].start /\ t[o].end = s[o].end /\ t[o].end <= border
                /\ o \in late => border <= t[o].start
    <2>1. PICK l \in Int : l = len[o] /\ 1 <= l /\ l = o.takes[s[o].resource]
      BY <1>5, <1>8
    <2>2. CASE o \in late
      <3>1. PICK b \in Int : b = from[o] /\ border <= b /\ b + l <= border + sum
        BY <1>12, <1>13, <2>1, <2>2 DEF Packing
      <3>2. t[o].start = b /\ t[o].end = b + l
        BY <1>14, <1>15, <2>1, <2>2, <3>1
      <3> QED  BY <1>6, <1>13, <2>1, <2>2, <3>1, <3>2
    <2>3. CASE o \notin late
      <3>1. t[o].start = s[o].start /\ t[o].end = s[o].start + l
        BY <1>14, <1>16, <2>1, <2>3
      <3>2. s[o].end = s[o].start + l /\ s[o].start \in Int /\ 0 <= s[o].start /\ s[o].end <= border
        BY <1>4, <1>10, <2>1, <2>3
      <3> QED  BY <1>6, <2>1, <2>3, <3>1, <3>2
    <2> QED  BY <2>2, <2>3
  <1>19. \A a, b \in late : a # b => t[a].end <= t[b].start \/ t[b].end <= t[a].start
    BY <1>3, <1>12, <1>14, <1>15 DEF Packing
  <1>20. \A a, b \in late : s[a].start < s[b].start => t[a].end <= t[b].start
    BY <1>3, <1>7, <1>12, <1>14, <1>15 DEF Packing
  <1>21. Drawn(q, given, s, t)
    BY <1>17, <1>18, <1>19, <1>20 DEF Drawn, ops, late, border, last
  <1> QED  BY <1>21

\* What a schedule has that is drawn together.
LEMMA DrawnFacts ==
  ASSUME NEW q, NEW given, NEW s, Loose(q, given, s), NEW t, Drawn(q, given, s, t),
         NEW o \in Build(q).operations
  PROVE  /\ DOMAIN t = Build(q).operations /\ DOMAIN s = Build(q).operations
         /\ t[o].resource = s[o].resource /\ s[o].resource \in DOMAIN o.takes
         /\ s[o].start \in Int /\ s[o].end \in Int /\ s[o].start + 1 <= s[o].end
         /\ t[o].start \in Int /\ t[o].end \in Int /\ t[o].start + 1 <= t[o].end
         /\ Border(q, given) \in Int
         /\ o \in Late(q, given, s) => Border(q, given) <= t[o].start /\ s[o].end > Border(q, given)
         /\ o \notin Late(q, given, s) =>
              t[o].start = s[o].start /\ t[o].end = s[o].end /\ t[o].end <= Border(q, given)
  <1>1. /\ Placed(q, given, s) /\ DOMAIN s = Build(q).operations
        /\ s[o].resource \in DOMAIN o.takes
    BY CarriedOutFacts DEF Loose, Placed
  <1>2. s[o].start \in Int /\ s[o].end \in Int /\ s[o].start + 1 <= s[o].end
    BY <1>1, RowTimes
  <1>3. t = [n \in Build(q).operations |->
               [resource |-> s[n].resource, start |-> t[n].start, end |-> t[n].end]]
    BY DEF Drawn
  <1>4. DOMAIN t = Build(q).operations
    BY <1>3
  <1>5. t[o].resource = s[o].resource
    BY <1>3
  <1>6. Border(q, given) \in Int
    BY BorderIs
  <1>7. o \in Late(q, given, s) => s[o].end > Border(q, given)
    BY DEF Late
  <1> QED  BY <1>1, <1>2, <1>4, <1>5, <1>6, <1>7 DEF Drawn

LEMMA DrawnInPlace ==
  ASSUME NEW q, NEW given, NEW s, Loose(q, given, s), NEW t, Drawn(q, given, s, t),
         NEW o \in Build(q).operations
  PROVE  t[o] \in Places(Build(q), given, o)
  <1> DEFINE p == Build(q)
             last == Ahead(p, given)
             at(id) == {[resource |-> id, start |-> m, end |-> m + o.takes[id]] : m \in 0 .. last}
  <1>1. PICK id : id = s[o].resource /\ id \in DOMAIN o.takes
    BY DrawnFacts
  <1>2. PICK begin \in Int : begin = t[o].start
    BY DrawnFacts
  <1>3. /\ t[o] = [resource |-> id, start |-> begin, end |-> t[o].end]
        /\ 0 <= begin /\ t[o].end = begin + o.takes[id] /\ t[o].end <= last
    BY <1>1, <1>2 DEF Drawn
  <1>4. begin <= last /\ last \in Int
    <2>1. t[o].end \in Int /\ begin + 1 <= t[o].end
      BY <1>2, DrawnFacts
    <2>2. last \in Int
      BY BorderIs
    <2> HIDE DEF last
    <2> QED  BY <1>2, <1>3, <2>1, <2>2
  <1>5. t[o] \in UNION {at(i) : i \in DOMAIN o.takes}
    <2>1. begin \in 0 .. last
      <3> HIDE DEF last
      <3> QED  BY <1>2, <1>3, <1>4
    <2> HIDE DEF last
    <2>2. t[o] \in at(id)
      BY <1>3, <2>1
    <2> HIDE DEF at
    <2> QED  BY <1>1, <2>2
  <1>6. /\ CarriedOut(q, given, s)
        /\ t[o].resource = id
    BY <1>1, DrawnFacts DEF Loose
  <1>7. /\ o.earliest # Nothing => o.earliest <= t[o].start
        /\ o.latest # Nothing => t[o].end <= o.latest
        /\ \A k \in given : k.operation = o.name =>
             t[o].resource = k.resource /\ t[o].start = Offset(p, k.start)
    <2>1. CASE o \in Late(q, given, s)
      BY <2>1, LateIsFree
    <2>2. CASE o \notin Late(q, given, s)
      <3>1. t[o].resource = s[o].resource /\ t[o].start = s[o].start /\ t[o].end = s[o].end
        BY <2>2, DrawnFacts
      <3> QED  BY <1>6, <3>1, DatesKept, KeptKept
    <2> QED  BY <2>1, <2>2
  <1>8. t[o].resource \in p.constraints /\ p.windows[t[o].resource] # {} =>
          \E w \in p.windows[t[o].resource] : Fits(w, t[o])
    <2> SUFFICES ASSUME id \in p.constraints, p.windows[id] # {}
                 PROVE  \E w \in p.windows[id] : Fits(w, t[o])
      BY <1>6
    <2>1. PICK r \in q.resources : r.constraint /\ r.id = id
      BY BuildFields
    <2>2. o \notin Late(q, given, s)
      BY <1>1, <2>1, LateIsFree
    <2>3. t[o].start = s[o].start /\ t[o].end = s[o].end
      BY <2>2, DrawnFacts
    <2>4. Spent(p, s, id)
      BY <1>6, <2>1, RosterKept
    <2>5. o \in On(s, id)
      BY <1>1, DrawnFacts DEF On
    <2>6. \E w \in p.windows[id] : Fits(w, s[o])
      BY <2>4, <2>5 DEF Spent
    <2> QED  BY <2>3, <2>6 DEF Fits, Length
  <1>9. t[o].end <= last
    BY <1>3
  <1> QED  BY <1>5, <1>7, <1>8, <1>9 DEF Places

LEMMA DrawnInTurn ==
  ASSUME NEW q, NEW given, NEW s, Loose(q, given, s), NEW t, Drawn(q, given, s, t),
         NEW a \in Build(q).operations, NEW b \in Build(q).operations, Precedes(a, b)
  PROVE  t[a].end <= t[b].start
  <1>1. s[a].end <= s[b].start
    BY TurnKept DEF Loose
  <1>2. /\ s[a].start \in Int /\ s[a].end \in Int /\ s[a].start + 1 <= s[a].end
        /\ s[b].start \in Int /\ s[b].end \in Int /\ s[b].start + 1 <= s[b].end
        /\ t[a].end \in Int /\ t[b].start \in Int /\ t[b].end \in Int /\ t[b].start + 1 <= t[b].end
        /\ Border(q, given) \in Int
    BY DrawnFacts
  <1>3. CASE a \in Late(q, given, s) /\ b \in Late(q, given, s)
    <2>1. s[a].start < s[b].start
      BY <1>1, <1>2
    <2> QED  BY <1>3, <2>1 DEF Drawn
  <1>4. CASE a \in Late(q, given, s) /\ b \notin Late(q, given, s)
    <2>1. s[a].end > Border(q, given) /\ s[b].end <= Border(q, given)
      BY <1>4, DrawnFacts
    <2> QED  BY <1>1, <1>2, <2>1
  <1>5. CASE a \notin Late(q, given, s) /\ b \in Late(q, given, s)
    <2>1. t[a].end <= Border(q, given) /\ Border(q, given) <= t[b].start
      BY <1>5, DrawnFacts
    <2> QED  BY <1>2, <2>1
  <1>6. CASE a \notin Late(q, given, s) /\ b \notin Late(q, given, s)
    BY <1>1, <1>6, DrawnFacts
  <1> QED  BY <1>3, <1>4, <1>5, <1>6

LEMMA DrawnOn ==
  ASSUME NEW q, NEW given, NEW s, Loose(q, given, s), NEW t, Drawn(q, given, s, t), NEW id
  PROVE  On(t, id) = On(s, id) /\ On(s, id) \subseteq Build(q).operations
  <1>1. \A o \in Build(q).operations : t[o].resource = s[o].resource
    BY DrawnFacts
  <1>2. DOMAIN t = Build(q).operations /\ DOMAIN s = Build(q).operations
    <2>1. DOMAIN s = Build(q).operations
      BY DEF Loose, CarriedOut, Placed
    <2>2. t = [o \in Build(q).operations |->
                 [resource |-> s[o].resource, start |-> t[o].start, end |-> t[o].end]]
      BY DEF Drawn
    <2> QED  BY <2>1, <2>2
  <1> QED  BY <1>1, <1>2 DEF On

\* Drawn together, an operation is done with no more others than before.
LEMMA DrawnApart ==
  ASSUME NEW q, NEW given, NEW s, Loose(q, given, s), NEW t, Drawn(q, given, s, t),
         NEW o \in Build(q).operations, NEW n \in Build(q).operations, Within(t[o].start, t[n])
  PROVE  Within(s[o].start, s[n])
  <1>1. /\ s[o].start \in Int /\ s[o].end \in Int /\ s[o].start + 1 <= s[o].end
        /\ s[n].start \in Int /\ s[n].end \in Int
        /\ t[o].start \in Int /\ t[o].end \in Int /\ t[o].start + 1 <= t[o].end
        /\ t[n].start \in Int /\ t[n].end \in Int /\ Border(q, given) \in Int
        /\ t[n].start <= t[o].start /\ t[o].start < t[n].end
    BY DrawnFacts DEF Within
  <1>2. CASE o = n
    BY <1>1, <1>2 DEF Within
  <1>3. CASE o # n /\ o \in Late(q, given, s) /\ n \in Late(q, given, s)
    <2>1. t[o].end <= t[n].start \/ t[n].end <= t[o].start
      BY <1>3 DEF Drawn
    <2> QED  BY <1>1, <2>1
  <1>4. CASE o \in Late(q, given, s) /\ n \notin Late(q, given, s)
    <2>1. t[n].end <= Border(q, given) /\ Border(q, given) <= t[o].start
      BY <1>4, DrawnFacts
    <2> QED  BY <1>1, <2>1
  <1>5. CASE o \notin Late(q, given, s) /\ n \in Late(q, given, s)
    <2>1. t[o].end <= Border(q, given) /\ Border(q, given) <= t[n].start
      BY <1>5, DrawnFacts
    <2> QED  BY <1>1, <2>1
  <1>6. CASE o \notin Late(q, given, s) /\ n \notin Late(q, given, s)
    <2>1. t[o].start = s[o].start /\ t[n].start = s[n].start /\ t[n].end = s[n].end
      BY <1>6, DrawnFacts
    <2> QED  BY <1>1, <2>1 DEF Within
  <1> QED  BY <1>2, <1>3, <1>4, <1>5, <1>6

LEMMA DrawnShared ==
  ASSUME NEW q, NEW given, NEW s, Loose(q, given, s), NEW t, Drawn(q, given, s, t),
         NEW r \in q.resources, r.constraint
  PROVE  Shared(Build(q), t, r.id)
  <1>1. PICK on : on = On(t, r.id) /\ on = On(s, r.id) /\ on \subseteq Build(q).operations
    BY DrawnOn
  <1>2. PICK units \in Int : units = Build(q).units[r.id]
    <2>1. Build(q).units[r.id] = r.units
      BY CarriedOutFacts, ResourceFound, BuildFields DEF Loose
    <2> QED  BY <2>1, CarriedOutFacts, Limits DEF Loose
  <1>3. IsFiniteSet(on)
    BY <1>1, CarriedOutFacts, RowsHere DEF Loose
  <1>4. Shared(Build(q), s, r.id)
    BY SharedKept DEF Loose
  <1>5. ASSUME NEW o \in on
        PROVE  Cardinality({n \in on : Within(t[o].start, t[n])}) <= units
    <2> DEFINE now == {n \in on : Within(t[o].start, t[n])}
               before == {n \in on : Within(s[o].start, s[n])}
    <2>1. now \subseteq before
      BY <1>1, DrawnApart
    <2>2. IsFiniteSet(before)
      BY <1>3, FS_Subset
    <2>3. Cardinality(before) <= units
      BY <1>1, <1>2, <1>4 DEF Shared
    <2> HIDE DEF now, before
    <2>4. Cardinality(now) <= Cardinality(before) /\ Cardinality(now) \in Nat /\ Cardinality(before) \in Nat
      BY <2>1, <2>2, FS_Subset, FS_CardinalityType
    <2>5. Cardinality(now) <= units
      BY <2>3, <2>4
    <2> QED  BY <2>5 DEF now
  <1> QED  BY ONLY <1>1, <1>2, <1>5 DEF Shared

LEMMA DrawnChangedOver ==
  ASSUME NEW q, NEW given, NEW s, Loose(q, given, s), NEW t, Drawn(q, given, s, t),
         NEW r \in q.resources, r.constraint
  PROVE  ChangedOver(Build(q), t, r.id)
  <1> SUFFICES ASSUME Build(q).units[r.id] = 1, NEW o \in On(s, r.id), NEW n \in On(s, r.id),
                      t[o].start < t[n].start
               PROVE  t[o].end + Setup(Build(q), r.id, o, n) <= t[n].start
    BY DrawnOn DEF ChangedOver
  <1>1. Setup(Build(q), r.id, o, n) = 0
    BY CarriedOutFacts, BuildFields DEF Setup, Loose
  <1>2. o \in Build(q).operations /\ n \in Build(q).operations
    BY DrawnOn
  <1>3. /\ t[o].start \in Int /\ t[o].end \in Int /\ t[n].start \in Int
        /\ t[n].end \in Int /\ t[n].start + 1 <= t[n].end
        /\ t[o].start + 1 <= t[o].end /\ Border(q, given) \in Int
    BY <1>2, DrawnFacts
  <1>4. t[o].end <= t[n].start
    <2>1. CASE o \in Late(q, given, s) /\ n \in Late(q, given, s)
      <3>1. o # n
        BY <1>3
      <3>2. t[o].end <= t[n].start \/ t[n].end <= t[o].start
        BY <2>1, <3>1 DEF Drawn
      <3> QED  BY <1>3, <3>2
    <2>2. CASE o \in Late(q, given, s) /\ n \notin Late(q, given, s)
      <3>1. t[n].end <= Border(q, given) /\ Border(q, given) <= t[o].start
        BY <1>2, <2>2, DrawnFacts
      <3> QED  BY <1>3, <3>1
    <2>3. CASE o \notin Late(q, given, s) /\ n \in Late(q, given, s)
      <3>1. t[o].end <= Border(q, given) /\ Border(q, given) <= t[n].start
        BY <1>2, <2>3, DrawnFacts
      <3> QED  BY <1>3, <3>1
    <2>4. CASE o \notin Late(q, given, s) /\ n \notin Late(q, given, s)
      <3>1. t[o].start = s[o].start /\ t[o].end = s[o].end /\ t[n].start = s[n].start
        BY <1>2, <2>4, DrawnFacts
      <3>2. s[o].end + Setup(Build(q), r.id, o, n) <= s[n].start
        BY <3>1, ChangeoverKept DEF ChangedOver, Loose
      <3> QED  BY <1>1, <1>3, <3>1, <3>2
    <2> QED  BY <2>1, <2>2, <2>3, <2>4
  <1> QED  BY <1>1, <1>3, <1>4

LEMMA SameMinutes ==
  ASSUME NEW s, NEW t, NEW T, \A o \in T : s[o].start = t[o].start /\ s[o].end = t[o].end
  PROVE  TimeOf(t, T) = TimeOf(s, T)
  <1>1. [o \in T |-> Length(t[o])] = [o \in T |-> Length(s[o])]
    <2>1. \A o \in T : Length(t[o]) = Length(s[o])
      BY DEF Length
    <2> QED  BY <2>1
  <1>2. TimeOf(t, T) = Total([o \in T |-> Length(t[o])], T)
    BY TimesAddUp
  <1>3. TimeOf(s, T) = Total([o \in T |-> Length(s[o])], T)
    BY TimesAddUp
  <1> QED  BY <1>1, <1>2, <1>3

LEMMA DrawnSpent ==
  ASSUME NEW q, NEW given, NEW s, Loose(q, given, s), NEW t, Drawn(q, given, s, t),
         NEW r \in q.resources, r.constraint
  PROVE  Spent(Build(q), t, r.id)
  <1> DEFINE on == On(s, r.id)
  <1>1. PICK windows : windows = Build(q).windows[r.id]
    OBVIOUS
  <1>2. on = On(t, r.id)
    BY DrawnOn
  <1> SUFFICES ASSUME windows # {} PROVE SpentOn(t, on, windows)
    <2> HIDE DEF on
    <2>1. Build(q).windows[r.id] # {} => SpentOn(t, on, Build(q).windows[r.id])
      BY <1>1
    <2> QED  BY ONLY <1>2, <2>1 DEF Spent, SpentOn
  <1>3. PICK c \in [on -> windows] :
          /\ \A o \in on : Fits(c[o], s[o])
          /\ \A w \in windows : TimeOf(s, {o \in on : c[o] = w}) <= w.minutes
    <2>1. Spent(Build(q), s, r.id)
      BY RosterKept DEF Loose
    <2> HIDE DEF on
    <2> QED  BY <1>1, <2>1 DEF Spent, on
  <1>4. \A o \in on : t[o].start = s[o].start /\ t[o].end = s[o].end
    <2> SUFFICES ASSUME NEW o \in on PROVE t[o].start = s[o].start /\ t[o].end = s[o].end
      OBVIOUS
    <2>1. s[o].resource = r.id /\ o \in Build(q).operations
      BY DrawnOn DEF On
    <2>2. o \notin Late(q, given, s)
      BY <1>1, <2>1, LateIsFree
    <2> QED  BY <2>1, <2>2, DrawnFacts
  <1> HIDE DEF on
  <1>5. \A o \in on : Fits(c[o], t[o])
    BY <1>3, <1>4 DEF Fits, Length
  <1>6. ASSUME NEW w \in windows PROVE TimeOf(t, {o \in on : c[o] = w}) <= w.minutes
    <2> DEFINE T == {o \in on : c[o] = w}
    <2>1. TimeOf(s, T) <= w.minutes
      BY <1>3
    <2>2. \A o \in T : s[o].start = t[o].start /\ s[o].end = t[o].end
      BY <1>4
    <2> HIDE DEF T
    <2>3. TimeOf(t, T) = TimeOf(s, T)
      BY <2>2, SameMinutes
    <2>4. TimeOf(t, T) <= w.minutes
      BY <2>1, <2>3
    <2> QED  BY <2>4 DEF T
  <1> QED  BY <1>5, <1>6 DEF SpentOn

\* An order that is not overdue is late by less than the horizon.
LEMMA DrawnInTime ==
  ASSUME NEW q, NEW given, NEW s, Loose(q, given, s), NEW t, Drawn(q, given, s, t),
         NEW x \in Served(Build(q))
  PROVE  Completion(t, x) - Build(q).due[x] <= Ahead(Build(q), given)
  <1> DEFINE ops == Build(q).operations
             served == {o \in ops : o.order = x}
             end == [o \in served |-> t[o].end]
             ends == {end[o] : o \in served}
  <1>1. /\ IsFiniteSet(ops) /\ q \in Request /\ ValidRequest(q)
        /\ Ahead(Build(q), given) \in Int
    BY CarriedOutFacts, FinitelyMany, BorderIs DEF Loose
  <1>2. IsFiniteSet(served) /\ served # {}
    BY <1>1, FS_Subset DEF Served
  <1>3. \A o \in ops : t[o].end \in Int /\ t[o].end <= Ahead(Build(q), given)
    BY DEF Drawn
  <1>4. Completion(t, x) = Max(ends)
    <2>1. DOMAIN t = ops
      BY DEF Drawn
    <2>2. {t[o].end : o \in served} = ends
      OBVIOUS
    <2>3. Completion(t, x) = Max({t[o].end : o \in {o \in DOMAIN t : o.order = x}})
      BY DEF Completion
    <2> QED  BY <2>1, <2>2, <2>3
  <1>5. ends \in SUBSET Int /\ ends # {} /\ \A e \in ends : e <= Ahead(Build(q), given)
    BY <1>2, <1>3
  <1>6. IsFiniteSet(ends)
    <2> HIDE DEF end, served
    <2> QED  BY <1>2, FiniteImage
  <1> HIDE DEF ends
  <1>7. Max(ends) \in ends
    BY <1>5, <1>6, Greatest
  <1>8. Build(q).due[x] \in Int /\ Build(q).due[x] >= 0
    <2>1. x \in DOMAIN Build(q).due
      BY DEF Served
    <2>2. Build(q).due[x] \in Range(Build(q).due)
      BY <2>1 DEF Range
    <2>3. Build(q).due[x] \in Int
      BY <1>1, <2>2, DuesAreNumbers DEF Numbers
    <2>4. Build(q).due[x] >= 0
      BY <2>1 DEF Loose, Ordinary
    <2> QED  BY <2>3, <2>4
  <1>9. PICK c \in Int, d \in Int, last \in Int :
          /\ c = Completion(t, x) /\ d = Build(q).due[x] /\ last = Ahead(Build(q), given)
          /\ c <= last /\ d >= 0
    BY <1>1, <1>4, <1>5, <1>7, <1>8
  <1> QED  BY <1>9

\* If a plan can be carried out, the solver can answer with one.
LEMMA AnAnswerExists ==
  ASSUME NEW q, NEW given, NEW s, Loose(q, given, s)
  PROVE  Schedules(Build(q), given) # {}
  <1>1. PICK t : Drawn(q, given, s, t)
    BY DrawnTogether
  <1>2. PICK p : p = Build(q)
    OBVIOUS
  <1> DEFINE places == [o \in p.operations |-> Places(p, given, o)]
  <1>3. \A o \in p.operations : t[o] \in places[o]
    BY <1>1, <1>2, DrawnInPlace
  <1>4. t \in [p.operations -> UNION Range(places)]
    <2>1. t = [o \in p.operations |->
                 [resource |-> s[o].resource, start |-> t[o].start, end |-> t[o].end]]
      BY <1>1, <1>2 DEF Drawn
    <2>2. \A o \in p.operations : places[o] \in Range(places)
      BY DEF Range
    <2> HIDE DEF places
    <2>3. \A o \in p.operations : t[o] \in UNION Range(places)
      BY <1>3, <2>2
    <2>4. DOMAIN t = p.operations /\ t = [o \in p.operations |-> t[o]]
      BY <2>1
    <2> QED  BY <2>3, <2>4
  <1>5. \A a, b \in p.operations : Precedes(a, b) => t[a].end <= t[b].start
    BY <1>1, <1>2, DrawnInTurn
  <1>6. \A id \in p.constraints : Shared(p, t, id) /\ ChangedOver(p, t, id) /\ Spent(p, t, id)
    <2> SUFFICES ASSUME NEW id \in p.constraints
                 PROVE  Shared(p, t, id) /\ ChangedOver(p, t, id) /\ Spent(p, t, id)
      OBVIOUS
    <2>1. PICK r \in q.resources : r.constraint /\ r.id = id
      BY <1>2, BuildFields
    <2> QED  BY <1>1, <1>2, <2>1, DrawnShared, DrawnChangedOver, DrawnSpent
  <1>7. \A x \in Served(p) : Completion(t, x) - p.due[x] <= Ahead(p, given)
    BY <1>1, <1>2, DrawnInTime
  <1> HIDE DEF places
  <1>8. t \in Schedules(p, given)
    BY <1>3, <1>4, <1>5, <1>6, <1>7 DEF Schedules, places
  <1> QED  BY <1>2, <1>8

-----------------------------------------------------------------------------
(* The invariant: what was answered last is a schedule of what was asked, or  *)
(* there is none.                                                            *)

AnswersInv ==
  /\ IsFiniteSet(source) /\ \A row \in source : row.start \in Int
  /\ IsFiniteSet(kept) /\ \A k \in kept : k.start \in Int
  /\ result.rows # {} =>
       /\ asked \in Request /\ ValidRequest(asked) /\ ~Refused(Build(asked), kept)
       /\ \E s \in Schedules(Build(asked), kept) : result.rows = Rows(Build(asked), s)
  /\ result.status = "Infeasible" =>
       asked \in DOMAIN Built /\ ~Refused(Build(asked), kept) /\ Schedules(Build(asked), kept) = {}

LEMMA AnswerFacts ==
  ASSUME NEW p, NEW given, NEW answer \in Answers(p, given), answer.rows # {}
  PROVE  ~Refused(p, given) /\ \E s \in Schedules(p, given) : answer.rows = Rows(p, s)
  <1>1. \A status : Without(status).rows = {}
    BY DEF Without
  <1>2. \A status, some : \A a \in Solved(status, p, some) : \E s \in some : a.rows = Rows(p, s)
    BY DEF Solved
  <1>3. answer \notin {Without("Unavailable"), Without("Error"), Without("Infeasible"), Without("TimeLimit")}
    BY <1>1
  <1> DEFINE all == Schedules(p, given)
             best == {s \in all : Cost(p, s) = Min({Cost(p, t) : t \in all})}
  <1>4. ~Refused(p, given) /\ (answer \in Solved("Optimal", p, best) \/ answer \in Solved("Feasible", p, all))
    BY <1>3 DEF Answers
  <1>5. best \subseteq all
    OBVIOUS
  <1> HIDE DEF best, all
  <1>6. \E s \in all : answer.rows = Rows(p, s)
    BY <1>2, <1>4, <1>5
  <1> QED  BY <1>4, <1>6 DEF all

LEMMA NoAnswerFacts ==
  ASSUME NEW p, NEW given, NEW answer \in Answers(p, given), answer.status = "Infeasible"
  PROVE  ~Refused(p, given) /\ Schedules(p, given) = {}
  <1>1. \A status : Without(status).status = status
    BY DEF Without
  <1>2. \A status, some : \A a \in Solved(status, p, some) : a.status = status
    BY DEF Solved
  <1> DEFINE all == Schedules(p, given)
             best == {s \in all : Cost(p, s) = Min({Cost(p, t) : t \in all})}
  <1>3. /\ answer \notin {Without("Unavailable"), Without("Error"), Without("TimeLimit")}
        /\ answer \notin Solved("Optimal", p, best) /\ answer \notin Solved("Feasible", p, all)
    <2> HIDE DEF best, all
    <2> QED  BY <1>1, <1>2
  <1>4. CASE Refused(p, given)
    BY <1>3, <1>4 DEF Answers
  <1>5. CASE ~Refused(p, given) /\ all # {}
    BY <1>3, <1>5 DEF Answers
  <1> QED  BY <1>4, <1>5

LEMMA BuiltFields ==
  ASSUME NEW q \in DOMAIN Built
  PROVE  q \in Request /\ ValidRequest(q) /\ Built[q] = Build(q)
  BY DEF Built

LEMMA RowsDated ==
  ASSUME NEW q, NEW given, NEW s, Answered(q, given, s)
  PROVE  /\ \A row \in Rows(Build(q), s) : row.start \in Int
         /\ IsFiniteSet(Rows(Build(q), s))
  <1>1. Placed(q, given, s)
    BY AnswersArePlaced
  <1> DEFINE T == Build(q).operations
             f == [o \in T |-> RowOf(q, s, o)]
  <1>2. Rows(Build(q), s) = {f[o] : o \in T}
    <2>1. Rows(Build(q), s) = {RowOf(q, s, o) : o \in T}
      BY <1>1, RowsAre
    <2>2. {RowOf(q, s, o) : o \in T} = {f[o] : o \in T}
      OBVIOUS
    <2> QED  BY ONLY <2>1, <2>2
  <1>3. \A o \in T : f[o].start \in Int
    BY <1>1, RowTimes
  <1>4. IsFiniteSet(T)
    BY <1>1, FinitelyMany DEF Placed
  <1> HIDE DEF f, T
  <1> QED  BY <1>2, <1>3, <1>4, FiniteImage

LEMMA AnswersInit == ScheduleInit => AnswersInv
  BY FS_EmptySet DEF ScheduleInit, AnswersInv, Without

LEMMA AnswersStay == AnswersInv /\ [ScheduleNext]_scheduleVars => AnswersInv'
  <1> SUFFICES ASSUME AnswersInv, [ScheduleNext]_scheduleVars PROVE AnswersInv'
    OBVIOUS
  <1>1. ASSUME NEW q \in DOMAIN Built, NEW given, asked' = q, kept' = given,
               result' \in Answers(Built[q], given), result'.rows # {}
        PROVE  /\ asked' \in Request /\ ValidRequest(asked') /\ ~Refused(Build(asked'), kept')
               /\ \E s \in Schedules(Build(asked'), kept') : result'.rows = Rows(Build(asked'), s)
               /\ IsFiniteSet(result'.rows) /\ \A row \in result'.rows : row.start \in Int
    <2>1. q \in Request /\ ValidRequest(q) /\ Built[q] = Build(q)
      BY BuiltFields
    <2>2. PICK answer \in Answers(Build(q), given) : answer = result'
      BY <1>1, <2>1
    <2>3. /\ ~Refused(Build(q), given)
          /\ \E s \in Schedules(Build(q), given) : answer.rows = Rows(Build(q), s)
      BY <1>1, <2>2, AnswerFacts
    <2>4. PICK s \in Schedules(Build(q), given) : answer.rows = Rows(Build(q), s)
      BY <2>3
    <2>5. Answered(q, given, s)
      BY <2>1, <2>3 DEF Answered
    <2>6. IsFiniteSet(answer.rows) /\ \A row \in answer.rows : row.start \in Int
      BY <2>4, <2>5, RowsDated
    <2> QED  BY <1>1, <2>1, <2>2, <2>3, <2>4, <2>6
  <1>2. ASSUME NEW q \in DOMAIN Built, NEW given, asked' = q, kept' = given,
               result' \in Answers(Built[q], given), result'.status = "Infeasible"
        PROVE  /\ asked' \in DOMAIN Built /\ ~Refused(Build(asked'), kept')
               /\ Schedules(Build(asked'), kept') = {}
    <2>1. Built[q] = Build(q)
      BY BuiltFields
    <2>2. PICK answer \in Answers(Build(q), given) : answer = result'
      BY <1>2, <2>1
    <2>3. ~Refused(Build(q), given) /\ Schedules(Build(q), given) = {}
      BY <1>2, <2>2, NoAnswerFacts
    <2> QED  BY <1>2, <2>3
  <1>3. /\ IsFiniteSet(source) /\ \A row \in source : row.start \in Int
        /\ IsFiniteSet(kept) /\ \A k \in kept : k.start \in Int
    BY DEF AnswersInv
  <1>4. ASSUME NEW q \in Request, ExecuteSchedule(q) PROVE AnswersInv'
    <2>1. /\ q \in DOMAIN Built /\ asked' = q /\ kept' = {}
          /\ result' \in Answers(Built[q], {})
          /\ source' = IF result'.rows = {} THEN source ELSE result'.rows
      BY <1>4 DEF ExecuteSchedule
    <2>2. result'.rows # {} =>
            /\ asked' \in Request /\ ValidRequest(asked') /\ ~Refused(Build(asked'), kept')
            /\ \E s \in Schedules(Build(asked'), kept') : result'.rows = Rows(Build(asked'), s)
            /\ IsFiniteSet(result'.rows) /\ \A row \in result'.rows : row.start \in Int
      BY <1>1, <2>1
    <2>3. result'.status = "Infeasible" =>
            /\ asked' \in DOMAIN Built /\ ~Refused(Build(asked'), kept')
            /\ Schedules(Build(asked'), kept') = {}
      BY <1>2, <2>1
    <2>4. IsFiniteSet(source') /\ \A row \in source' : row.start \in Int
      BY <1>3, <2>1, <2>2
    <2>5. IsFiniteSet(kept') /\ \A k \in kept' : k.start \in Int
      BY <2>1, FS_EmptySet
    <2> QED  BY <2>2, <2>3, <2>4, <2>5 DEF AnswersInv
  <1>5. ASSUME NEW q \in Request, NEW window, NEW lockedOrders,
               ReplanSchedule(q, window, lockedOrders)
        PROVE  AnswersInv'
    <2>1. /\ q \in DOMAIN Built /\ asked' = q
          /\ kept' = KeptOf(source, q.start, window, lockedOrders)
          /\ result' \in Answers(Built[q], kept') /\ source' = source
      BY <1>5 DEF ReplanSchedule
    <2>2. \A k \in kept' : k.start \in Int
      BY <1>3, <2>1 DEF KeptOf
    <2>3. IsFiniteSet(kept')
      <3> DEFINE some == {row \in source :
                            row.order \in lockedOrders
                              \/ (window > 0 /\ row.start <= q.start + window * Minute)}
                 f == [row \in some |-> [operation |-> row.operation, resource |-> row.resource,
                                         start |-> row.start]]
      <3>1. IsFiniteSet(some)
        BY <1>3, FS_Subset
      <3>2. kept' = {f[row] : row \in some}
        BY <2>1 DEF KeptOf
      <3> HIDE DEF some, f
      <3> QED  BY <3>1, <3>2, FiniteImage
    <2>4. result'.rows # {} =>
            /\ asked' \in Request /\ ValidRequest(asked') /\ ~Refused(Build(asked'), kept')
            /\ \E s \in Schedules(Build(asked'), kept') : result'.rows = Rows(Build(asked'), s)
      BY <1>1, <2>1
    <2>5. result'.status = "Infeasible" =>
            /\ asked' \in DOMAIN Built /\ ~Refused(Build(asked'), kept')
            /\ Schedules(Build(asked'), kept') = {}
      BY <1>2, <2>1
    <2> QED  BY <1>3, <2>1, <2>2, <2>3, <2>4, <2>5 DEF AnswersInv
  <1>6. CASE UNCHANGED scheduleVars
    BY <1>6 DEF AnswersInv, scheduleVars
  <1> QED  BY <1>4, <1>5, <1>6 DEF ScheduleNext

\* A schedule that is answered can be carried out, for any number of resources,
\* routings and orders, any calendars, and any sequence of executions and replans.
THEOREM AnswersCanBeCarriedOut == ScheduleSpec => []ScheduleIsExecutable
  <1>1. AnswersInv => ScheduleIsExecutable
    <2> SUFFICES ASSUME AnswersInv, result.rows # {} PROVE Executable(asked, kept, result.rows, Minute)
      BY DEF ScheduleIsExecutable
    <2>1. PICK s \in Schedules(Build(asked), kept) : result.rows = Rows(Build(asked), s)
      BY DEF AnswersInv
    <2>2. Answered(asked, kept, s) /\ \A k \in kept : k.start \in Int
      BY DEF AnswersInv, Answered
    <2> QED  BY <2>1, <2>2, AnswersAreExecutable
  <1> QED  BY <1>1, AnswersInit, AnswersStay, PTL DEF ScheduleSpec

(***************************************************************************)
(* PlanPublication: the windows of a resource.  (The lemmas on calendars     *)
(* above are shared with the schedules.)                                     *)
(***************************************************************************)

\* Infeasible is said of an ordinary problem only if it has no schedule that could be
\* carried out to the minute, within the horizon of the solver or beyond it, for any
\* resources, routings and orders, and whatever a replan was to keep.
THEOREM InfeasibleOnlyIfThereIsNone == ScheduleSpec => []InfeasibleIsTrue
  <1>1. AnswersInv => InfeasibleIsTrue
    <2> SUFFICES ASSUME AnswersInv, result.status = "Infeasible", Ordinary(Built[asked])
                 PROVE  InfeasibleIsTrue
      BY DEF InfeasibleIsTrue
    <2>1. /\ asked \in Request /\ ValidRequest(asked) /\ Built[asked] = Build(asked)
          /\ ~Refused(Build(asked), kept) /\ Schedules(Build(asked), kept) = {}
          /\ IsFiniteSet(kept) /\ \A k \in kept : k.start \in Int
      BY BuiltFields DEF AnswersInv
    <2> DEFINE p == Built[asked]
               at(o, id) == {[resource |-> id, start |-> m, end |-> m + o.takes[id]] :
                               m \in 0 .. 2 * Ahead(p, kept)}
               places == [o \in p.operations |-> UNION {at(o, id) : id \in DOMAIN o.takes}]
    <2>2. p = Built[asked]
      OBVIOUS
    <2>3. ASSUME NEW s \in [p.operations -> UNION Range(places)],
                 \A o \in p.operations : s[o] \in places[o],
                 Executable(asked, kept, Rows(p, s), 1)
          PROVE  FALSE
      <3>1. ASSUME NEW o \in p.operations
            PROVE  /\ s[o].resource \in DOMAIN o.takes
                   /\ s[o].start \in Int /\ 0 <= s[o].start
                   /\ s[o].end = s[o].start + o.takes[s[o].resource]
        <4>1. s[o] \in UNION {at(o, id) : id \in DOMAIN o.takes}
          BY <2>3
        <4>2. PICK id \in DOMAIN o.takes : s[o] \in at(o, id)
          <5> HIDE DEF at
          <5> QED  BY <4>1
        <4>3. PICK m \in 0 .. 2 * Ahead(p, kept) :
                s[o] = [resource |-> id, start |-> m, end |-> m + o.takes[id]]
          BY <4>2
        <4> QED  BY <4>3
      <3>2. DOMAIN s = p.operations
        <4> HIDE DEF places
        <4> QED  OBVIOUS
      <3>3. Placed(asked, kept, s)
        BY <2>1, <2>2, <3>1, <3>2 DEF Placed
      <3>4. DOMAIN asked.setups = {}
        BY <2>1, BuildFields DEF Ordinary
      <3>5. Loose(asked, kept, s)
        BY <2>1, <2>2, <2>3, <3>3, <3>4 DEF Loose, CarriedOut
      <3> QED  BY <2>1, <3>5, AnAnswerExists
    <2>4. \A s \in [p.operations -> UNION Range(places)] :
            (\A o \in p.operations : s[o] \in places[o]) => ~Executable(asked, kept, Rows(p, s), 1)
      BY <2>3
    <2> QED  BY ONLY <2>4 DEF InfeasibleIsTrue
  <1> QED  BY <1>1, AnswersInit, AnswersStay, PTL DEF ScheduleSpec

-----------------------------------------------------------------------------
(* Segments that follow each other, and the minutes in them.                 *)

Apart(R) ==
  /\ R \in SUBSET Segment /\ IsFiniteSet(R)
  /\ \A p \in R : p.start < p.end
  /\ \A p, q \in R : p # q => p.end <= q.start \/ q.end <= p.start

MinutesOf(R) == {t \in Int : \E p \in R : Within(t, p)}

LEMMA LengthSum ==
  ASSUME NEW R \in SUBSET Segment, IsFiniteSet(R)
  PROVE  \E sum : /\ IsSum(R, [x \in R |-> Length(x)], sum)
                  /\ \A T \in SUBSET R : MapThenSumSet(Length, T) = sum[T]
  <1> DEFINE f == [x \in R |-> Length(x)]
  <1>1. \A x \in R : x.start \in Int /\ x.end \in Int /\ f[x] = Length(x) /\ f[x] \in Int
    BY DEF Segment, Length
  <1> HIDE DEF f
  <1>2. PICK sum : IsSum(R, f, sum) /\ \A T \in SUBSET R : Total(f, T) = sum[T]
    BY <1>1, TotalIsSum
  <1>3. ASSUME NEW T \in SUBSET R PROVE MapThenSumSet(Length, T) = sum[T]
    <2> DEFINE g == [x \in T |-> Length(x)]
    <2>1. IsFiniteSet(T)
      BY FS_Subset
    <2>2. \A x \in T : x.start \in Int /\ x.end \in Int
      BY <1>1
    <2>3. MapThenSumSet(Length, T) = Total(g, T)
      BY <2>1, <2>2, LengthsAddUp
    <2>4. \A x \in T : g[x] = f[x] /\ g[x] \in Int
      BY <1>1
    <2> HIDE DEF g
    <2>5. PICK other : IsSum(T, g, other) /\ \A U \in SUBSET T : Total(g, U) = other[U]
      BY <2>1, <2>4, TotalIsSum
    <2>6. sum[T] = other[T]
      BY <1>2, <2>1, <2>4, <2>5, SumsAgree
    <2> QED  BY <2>3, <2>5, <2>6
  <1> QED  BY <1>2, <1>3 DEF f

LEMMA MinutesCounted ==
  ASSUME NEW R, Apart(R)
  PROVE  IsFiniteSet(MinutesOf(R)) /\ Cardinality(MinutesOf(R)) = MapThenSumSet(Length, R)
  <1> DEFINE f == [x \in R |-> Length(x)]
  <1>1. R \in SUBSET Segment /\ IsFiniteSet(R)
    BY DEF Apart
  <1>2. PICK sum : IsSum(R, f, sum) /\ \A T \in SUBSET R : MapThenSumSet(Length, T) = sum[T]
    BY <1>1, LengthSum
  <1>3. \A x \in R : /\ x.start \in Int /\ x.end \in Int /\ x.start < x.end
                     /\ f[x] = x.end - x.start
    BY DEF Apart, Segment, Length
  <1> HIDE DEF f
  <1> DEFINE good == {T \in SUBSET R : /\ IsFiniteSet(MinutesOf(T))
                                       /\ Cardinality(MinutesOf(T)) = sum[T]}
  <1>4. ASSUME NEW T \in SUBSET R, \A x \in T : T \ {x} \in good PROVE T \in good
    <2>1. CASE T = {}
      <3>1. MinutesOf(T) = {}
        BY <2>1 DEF MinutesOf
      <3>2. sum[T] = 0
        BY <1>2, <2>1 DEF IsSum
      <3> QED  BY <3>1, <3>2, FS_EmptySet
    <2>2. ASSUME NEW x \in T PROVE T \in good
      <3> DEFINE here == x.start .. (x.end - 1)
                 rest == MinutesOf(T \ {x})
      <3>1. IsFiniteSet(here) /\ Cardinality(here) = x.end - x.start
        BY <1>3, FS_Interval
      <3>2. IsFiniteSet(rest) /\ Cardinality(rest) = sum[T \ {x}]
        BY <1>4
      <3>3. MinutesOf(T) = here \cup rest
        <4>1. \A t \in Int : Within(t, x) <=> t \in here
          BY <1>3 DEF Within
        <4>2. here \subseteq Int
          BY <1>3
        <4> HIDE DEF here
        <4> QED  BY <4>1, <4>2 DEF MinutesOf
      <3>4. here \cap rest = {}
        <4> SUFFICES ASSUME NEW t \in here, t \in rest PROVE FALSE
          OBVIOUS
        <4>1. PICK p \in T \ {x} : t \in Int /\ Within(t, p)
          BY DEF MinutesOf
        <4>2. p.end <= x.start \/ x.end <= p.start
          BY <4>1 DEF Apart
        <4>3. x.start <= t /\ t <= x.end - 1 /\ p.start <= t /\ t < p.end
          BY <1>3, <4>1 DEF Within
        <4>4. p \in R
          BY <4>1
        <4> QED  BY <1>3, <4>1, <4>2, <4>3, <4>4
      <3> HIDE DEF here, rest
      <3>5. IsFiniteSet(here \cup rest)
            /\ Cardinality(here \cup rest) = Cardinality(here) + Cardinality(rest) - Cardinality({})
        BY <3>1, <3>2, <3>4, FS_Union
      <3>6. sum[T] = f[x] + sum[T \ {x}] /\ sum[T \ {x}] \in Int
        BY <1>2 DEF IsSum
      <3>7. Cardinality({}) = 0
        BY FS_EmptySet
      <3>8. Cardinality(MinutesOf(T)) = sum[T]
        BY <1>3, <3>1, <3>2, <3>3, <3>5, <3>6, <3>7
      <3> QED  BY <3>3, <3>5, <3>8
    <2> QED  BY <2>1, <2>2
  <1>5. SUBSET R \subseteq good
    <2> HIDE DEF good
    <2> QED  BY <1>1, <1>4, SubsetInduction
  <1> QED  BY <1>2, <1>5

LEMMA LastOfAll ==
  ASSUME NEW R, Apart(R), R # {}
  PROVE  \E x \in R : \A p \in R : p # x => p.end <= x.start
  <1> DEFINE start == [p \in R |-> p.start]
             starts == {start[p] : p \in R}
  <1>1. \A p \in R : p.start \in Int /\ p.end \in Int /\ p.start < p.end
    BY DEF Apart, Segment
  <1>2. IsFiniteSet(starts)
    <2> HIDE DEF start
    <2> QED  BY FiniteImage DEF Apart
  <1>3. starts \in SUBSET Int /\ starts # {}
    BY <1>1
  <1>4. Max(starts) \in starts /\ \A m \in starts : m <= Max(starts)
    <2> HIDE DEF starts
    <2> QED  BY <1>2, <1>3, Greatest
  <1>5. PICK x \in R : x.start = Max(starts)
    BY <1>4
  <1>6. \A p \in R : p.start <= x.start
    BY <1>4, <1>5
  <1>7. ASSUME NEW p \in R, p # x PROVE p.end <= x.start
    <2>1. p.end <= x.start \/ x.end <= p.start
      BY <1>7 DEF Apart
    <2> QED  BY <1>1, <1>6, <2>1
  <1> QED  BY <1>7

\* What is granted to the segments, the earliest first, is what there is to grant,
\* as far as it can be spent.
LEMMA GrantsAddUp ==
  ASSUME NEW R, Apart(R), NEW w, w.minutes \in Nat
  PROVE  /\ \A s \in R : Granted(w, R, s) \in Int
         /\ Total([s \in R |-> Granted(w, R, s)], {s \in R : Granted(w, R, s) > 0})
              = Min({w.minutes, MapThenSumSet(Length, R)})
  <1> DEFINE f == [x \in R |-> Length(x)]
             g == [s \in R |-> Granted(w, R, s)]
             before(s) == {x \in R : x.end <= s.start}
  <1>1. R \in SUBSET Segment /\ IsFiniteSet(R)
    BY DEF Apart
  <1>2. PICK sum : IsSum(R, f, sum) /\ \A T \in SUBSET R : MapThenSumSet(Length, T) = sum[T]
    BY <1>1, LengthSum
  <1>3. \A x \in R : /\ x.start \in Int /\ x.end \in Int /\ x.start < x.end
                     /\ f[x] = Length(x) /\ f[x] \in Int /\ f[x] > 0
    BY DEF Apart, Segment, Length
  <1>4. \A T \in SUBSET R : sum[T] \in Int
    BY <1>2 DEF IsSum
  <1>5. ASSUME NEW s \in R
        PROVE  g[s] = (IF f[s] <= w.minutes - sum[before(s)] THEN f[s] ELSE w.minutes - sum[before(s)])
               /\ g[s] \in Int
    <2>1. before(s) \in SUBSET R
      OBVIOUS
    <2>2. Granted(w, R, s) = Min({Length(s), w.minutes - MapThenSumSet(Length, before(s))})
      BY DEF Granted
    <2> HIDE DEF before, f
    <2>3. Granted(w, R, s) = Min({f[s], w.minutes - sum[before(s)]})
      BY <1>2, <1>3, <2>1, <2>2
    <2>4. w.minutes - sum[before(s)] \in Int
      BY <1>4, <2>1
    <2> QED  BY <1>3, <2>3, <2>4, EndsOfTwo
  <1>6. \A s \in R : g[s] = Granted(w, R, s)
    OBVIOUS
  <1> HIDE DEF f, g, before
  <1>7. PICK granted : IsSum(R, g, granted) /\ \A T \in SUBSET R : Total(g, T) = granted[T]
    <2>1. \A s \in R : g[s] \in Int
      BY <1>5
    <2> QED  BY <1>1, <2>1, TotalIsSum
  <1> DEFINE Some(T) == {s \in T : g[s] > 0}
             Initial(T) == \A p \in T : \A q \in R \ T : p.end <= q.start
             good == {T \in SUBSET R : Initial(T) => granted[Some(T)] = Min({w.minutes, sum[T]})}
  <1>8. ASSUME NEW T \in SUBSET R, \A x \in T : T \ {x} \in good PROVE T \in good
    <2> SUFFICES ASSUME Initial(T) PROVE granted[Some(T)] = Min({w.minutes, sum[T]})
      OBVIOUS
    <2>1. CASE T = {}
      <3>1. Some(T) = {}
        BY <2>1
      <3>2. granted[{}] = 0 /\ sum[{}] = 0
        BY <1>2, <1>7 DEF IsSum
      <3>3. PICK m \in Nat : m = w.minutes
        OBVIOUS
      <3>4. 0 \in Int /\ m \in Int
        OBVIOUS
      <3>5. Min({m, 0}) = IF m <= 0 THEN m ELSE 0
        BY <3>4, EndsOfTwo
      <3>6. Min({m, 0}) = 0
        BY <3>5
      <3> QED  BY <2>1, <3>1, <3>2, <3>3, <3>6
    <2>2. CASE T # {}
      <3>1. Apart(T)
        BY <1>1, FS_Subset DEF Apart
      <3>2. PICK x \in T : \A p \in T : p # x => p.end <= x.start
        BY <2>2, <3>1, LastOfAll
      <3>3. Initial(T \ {x})
        BY <3>2
      <3>4. granted[Some(T \ {x})] = Min({w.minutes, sum[T \ {x}]})
        BY <1>8, <3>3
      <3>5. before(x) = T \ {x}
        <4> USE DEF before
        <4>1. ASSUME NEW s \in before(x) PROVE s \in T \ {x}
          <5>1. s \in R /\ s.end <= x.start
            OBVIOUS
          <5>2. s \notin T => x.end <= s.start
            BY <5>1
          <5> QED  BY <1>3, <5>1, <5>2
        <4>2. \A s \in T \ {x} : s \in before(x)
          BY <3>2
        <4> HIDE DEF before
        <4> QED  BY <4>1, <4>2
      <3>6. sum[T] = f[x] + sum[T \ {x}] /\ sum[T \ {x}] \in Int /\ sum[T] \in Int
        BY <1>2, <1>4 DEF IsSum
      <3>7. g[x] = (IF f[x] <= w.minutes - sum[T \ {x}] THEN f[x] ELSE w.minutes - sum[T \ {x}])
        BY <1>5, <3>5
      <3>8. granted[Some(T)] = IF g[x] > 0 THEN g[x] + granted[Some(T \ {x})]
                               ELSE granted[Some(T \ {x})]
        <4>1. CASE g[x] > 0
          <5>1. Some(T) \in SUBSET R /\ x \in Some(T) /\ Some(T) \ {x} = Some(T \ {x})
            BY <4>1
          <5> HIDE DEF Some
          <5> QED  BY <1>7, <4>1, <5>1 DEF IsSum
        <4>2. CASE ~(g[x] > 0)
          <5>1. Some(T) = Some(T \ {x})
            BY <4>2
          <5> QED  BY <4>2, <5>1
        <4> QED  BY <4>1, <4>2
      <3> HIDE DEF Some, Initial
      <3>9. PICK m \in Nat, l \in Int, n \in Int : m = w.minutes /\ l = sum[T \ {x}] /\ n = f[x]
        BY <1>3, <3>6
      <3>10. n > 0
        BY <1>3, <3>9
      <3>11. Min({m, l}) = (IF m <= l THEN m ELSE l)
             /\ Min({m, n + l}) = (IF m <= n + l THEN m ELSE n + l)
        BY EndsOfTwo
      <3>12. granted[Some(T)] = IF g[x] > 0 THEN g[x] + Min({m, l}) ELSE Min({m, l})
        BY <3>4, <3>8, <3>9
      <3>13. g[x] = (IF n <= m - l THEN n ELSE m - l)
        BY <3>7, <3>9
      <3>14. granted[Some(T)] = Min({m, n + l})
        BY ONLY <3>10, <3>11, <3>12, <3>13, m \in Nat, l \in Int, n \in Int
      <3> QED  BY <3>6, <3>9, <3>14
    <2> QED  BY <2>1, <2>2
  <1>9. R \in good
    <2> HIDE DEF good
    <2> QED  BY <1>1, <1>8, SubsetInduction
  <1>10. Initial(R)
    OBVIOUS
  <1>11. granted[Some(R)] = Min({w.minutes, sum[R]})
    BY <1>9, <1>10
  <1>12. Some(R) = {s \in R : Granted(w, R, s) > 0}
    BY <1>6
  <1>13. Total(g, Some(R)) = granted[Some(R)]
    BY <1>7
  <1> HIDE DEF Some, good, Initial
  <1> QED  BY <1>2, <1>5, <1>6, <1>11, <1>12, <1>13 DEF g

\* A minute is in the day its number divided by Day says.
LEMMA DayBounds ==
  ASSUME NEW t \in Int, NEW d \in Int
  PROVE  /\ DateOf(t) \in Int /\ d * Day \in Int /\ (d + 1) * Day \in Int
         /\ DateOf(t) = d <=> d * Day <= t /\ t < (d + 1) * Day
  <1>1. Day \in Nat \ {0}
    BY CalendarAssumption
  <1>2. PICK q : q = t \div Day
    OBVIOUS
  <1>3. q \in Int /\ Day * q <= t /\ t < Day * q + Day
    BY <1>1, <1>2, Quotient
  <1>4. DateOf(t) = q
    BY <1>2 DEF DateOf
  <1>5. /\ d * Day \in Int /\ (d + 1) * Day = d * Day + Day
        /\ Day * q = q * Day /\ (q + 1) * Day = q * Day + Day /\ q * Day \in Int
    BY <1>1, <1>3
  <1>6. CASE d = q
    BY <1>1, <1>3, <1>4, <1>5, <1>6
  <1>7. CASE d + 1 <= q
    <2>1. (d + 1) * Day <= q * Day
      BY <1>1, <1>3, <1>7, Longer
    <2> QED  BY <1>1, <1>3, <1>4, <1>5, <1>7, <2>1
  <1>8. CASE q + 1 <= d
    <2>1. (q + 1) * Day <= d * Day
      BY <1>1, <1>3, <1>8, Longer
    <2> QED  BY <1>1, <1>3, <1>4, <1>5, <1>8, <2>1
  <1> QED  BY <1>3, <1>6, <1>7, <1>8

LEMMA DatesAreIntegers ==
  ASSUME NEW t \in Int
  PROVE  DateOf(t) \in Int
  BY CalendarAssumption, Quotient DEF DateOf

LEMMA DatesInOrder ==
  ASSUME NEW t \in Int, NEW u \in Int, t <= u
  PROVE  DateOf(t) <= DateOf(u)
  <1>1. PICK d \in Int, e \in Int : d = DateOf(t) /\ e = DateOf(u)
    BY DayBounds
  <1>2. Day \in Nat
    BY CalendarAssumption
  <1>3. d * Day <= t /\ u < (e + 1) * Day /\ d * Day \in Int /\ (e + 1) * Day \in Int
    BY <1>1, DayBounds
  <1>4. SUFFICES ASSUME e + 1 <= d PROVE FALSE
    BY <1>1
  <1>5. (e + 1) * Day <= d * Day
    BY <1>1, <1>2, <1>4, Longer
  <1> QED  BY <1>3, <1>5

\* What of a window lies in one day.
DayPart(w, d) == [start |-> Max({w.start, d * Day}), end |-> Min({w.end, (d + 1) * Day})]

LEMMA DayPartIs ==
  ASSUME NEW w, w.start \in Int, w.end \in Int, w.start < w.end,
         NEW d \in DateOf(w.start) .. DateOf(w.end - 1)
  PROVE  LET part == DayPart(w, d)
         IN /\ part \in Segment /\ part.start < part.end /\ DateOf(part.start) = d
            /\ d \in Int /\ d * Day <= part.start /\ part.end <= (d + 1) * Day
            /\ \A t \in Int : Within(t, part) <=> Within(t, w) /\ DateOf(t) = d
  <1>1. PICK from \in Int, to \in Int, last \in Int :
          from = w.start /\ to = w.end /\ last = w.end - 1
    OBVIOUS
  <1>2. PICK lo \in Int, hi \in Int, first \in Int, final \in Int :
          /\ d \in Int /\ lo = d * Day /\ hi = (d + 1) * Day
          /\ first = DateOf(from) /\ final = DateOf(last)
    <2>1. DateOf(from) \in Int /\ DateOf(last) \in Int
      BY DatesAreIntegers
    <2>2. d \in Int
      BY <1>1, <2>1
    <2> QED  BY <2>1, <2>2, DayBounds
  <1>3. lo < hi /\ first <= d /\ d <= final
    BY <1>1, <1>2, CalendarAssumption
  <1>4. from < hi
    <2>1. from < (first + 1) * Day /\ (first + 1) * Day \in Int
      BY <1>2, DayBounds
    <2>2. (first + 1) * Day <= (d + 1) * Day
      BY <1>2, <1>3, Longer, CalendarAssumption
    <2> QED  BY <1>2, <2>1, <2>2
  <1>5. lo < to
    <2>1. final * Day <= last /\ final * Day \in Int
      BY <1>2, DayBounds
    <2>2. d * Day <= final * Day
      BY <1>2, <1>3, Longer, CalendarAssumption
    <2> QED  BY <1>1, <1>2, <2>1, <2>2
  <1>6. PICK start \in Int, end \in Int :
          /\ start = (IF from >= lo THEN from ELSE lo) /\ start = Max({from, lo})
          /\ end = (IF to <= hi THEN to ELSE hi) /\ end = Min({to, hi})
    <2>1. (IF from >= lo THEN from ELSE lo) \in Int /\ (IF to <= hi THEN to ELSE hi) \in Int
      OBVIOUS
    <2> QED  BY <2>1, EndsOfTwo
  <1>7. DayPart(w, d) = [start |-> start, end |-> end]
    BY <1>1, <1>2, <1>6 DEF DayPart
  <1>8. start < end /\ lo <= start /\ end <= hi
    BY <1>1, <1>3, <1>4, <1>5, <1>6
  <1>9. DateOf(start) = d
    BY <1>2, <1>8, DayBounds
  <1>10. ASSUME NEW t \in Int PROVE start <= t /\ t < end <=> Within(t, w) /\ DateOf(t) = d
    <2>1. DateOf(t) = d <=> lo <= t /\ t < hi
      BY <1>2, DayBounds
    <2> QED  BY <1>1, <1>6, <2>1 DEF Within
  <1> QED  BY <1>2, <1>7, <1>8, <1>9, <1>10 DEF Segment, Within

\* The segments of an extra window are disjoint, and what no maintenance and no day
\* off closes.
LEMMA SegmentsAre ==
  ASSUME NEW r, Measured(r), NEW w, w.start \in Int, w.end \in Int, w.start < w.end
  PROVE  /\ Apart(Segments(r, w))
         /\ \A t \in Int : (\E s \in Segments(r, w) : Within(t, s)) <=>
              /\ Within(t, w)
              /\ r.calendar # Nothing => /\ DateOf(t) \notin r.calendar.holidays
                                         /\ \A m \in r.calendar.maintenance : ~Within(t, m)
  <1>1. Segments(r, w) \in SUBSET Segment /\ IsFiniteSet(Segments(r, w))
    BY SegmentsAreSegments
  <1>2. CASE r.calendar = Nothing
    <2>1. Segments(r, w) = {[start |-> w.start, end |-> w.end]}
      BY <1>2 DEF Segments
    <2> QED  BY <1>1, <1>2, <2>1 DEF Apart, Within
  <1>3. CASE r.calendar # Nothing
    <2> DEFINE days == DateOf(w.start) .. DateOf(w.end - 1)
               open == {d \in days : d \notin r.calendar.holidays}
               left(d) == SubtractMaintenance(DayPart(w, d), r.calendar.maintenance)
               closed(t) == \E m \in r.calendar.maintenance : Within(t, m)
    <2>1. DayParts(w) = {DayPart(w, d) : d \in days}
      BY DEF DayParts, DayPart
    <2>2. \A d \in days : DateOf(DayPart(w, d).start) = d
      BY DayPartIs
    <2>3. Segments(r, w) =
            UNION {SubtractMaintenance(p, r.calendar.maintenance) :
                     p \in {p \in DayParts(w) : DateOf(p.start) \notin r.calendar.holidays}}
      BY <1>3 DEF Segments
    <2> HIDE DEF days
    <2>4. \A s : s \in Segments(r, w) <=> \E d \in open : s \in left(d)
      BY <2>1, <2>2, <2>3
    <2>5. ASSUME NEW d \in open
          PROVE  /\ Left(DayPart(w, d), r.calendar.maintenance, left(d))
                 /\ DayPart(w, d).start < DayPart(w, d).end
                 /\ \A t \in Int : Within(t, DayPart(w, d)) <=> Within(t, w) /\ DateOf(t) = d
      <3>1. DayPart(w, d) \in Segment
        BY DayPartIs DEF days
      <3>2. Left(DayPart(w, d), r.calendar.maintenance, left(d))
        BY <1>3, <3>1, MaintenanceDated, MaintenanceTaken
      <3> QED  BY <3>2, DayPartIs DEF days
    <2> HIDE DEF open, left
    <2>6. \A s \in Segments(r, w) : s.start < s.end
      BY <2>4, <2>5 DEF Left
    <2>7. ASSUME NEW p \in Segments(r, w), NEW q \in Segments(r, w), p # q
          PROVE  p.end <= q.start \/ q.end <= p.start
      <3>1. PICK d \in open : p \in left(d)
        BY <2>4
      <3>2. PICK e \in open : q \in left(e)
        BY <2>4
      <3>3. CASE d = e
        BY <2>5, <2>7, <3>1, <3>2, <3>3 DEF Left
      <3>4. CASE d # e
        <4>1. /\ DayPart(w, d).start <= p.start /\ p.end <= DayPart(w, d).end
              /\ DayPart(w, e).start <= q.start /\ q.end <= DayPart(w, e).end
          BY <2>5, <3>1, <3>2 DEF Left
        <4>2. /\ DayPart(w, d) \in Segment /\ DayPart(w, e) \in Segment /\ d \in Int /\ e \in Int
              /\ d * Day <= DayPart(w, d).start /\ DayPart(w, d).end <= (d + 1) * Day
              /\ e * Day <= DayPart(w, e).start /\ DayPart(w, e).end <= (e + 1) * Day
          BY DayPartIs DEF open, days
        <4>3. /\ p.start \in Int /\ p.end \in Int /\ q.start \in Int /\ q.end \in Int
              /\ DayPart(w, d).start \in Int /\ DayPart(w, d).end \in Int
              /\ DayPart(w, e).start \in Int /\ DayPart(w, e).end \in Int
          BY <1>1, <4>2 DEF Segment
        <4>4. CASE d + 1 <= e
          <5>1. (d + 1) * Day <= e * Day /\ (d + 1) * Day \in Int /\ e * Day \in Int
            BY <4>2, <4>4, Longer, CalendarAssumption
          <5> QED  BY <4>1, <4>2, <4>3, <5>1
        <4>5. CASE e + 1 <= d
          <5>1. (e + 1) * Day <= d * Day /\ (e + 1) * Day \in Int /\ d * Day \in Int
            BY <4>2, <4>5, Longer, CalendarAssumption
          <5> QED  BY <4>1, <4>2, <4>3, <5>1
        <4> QED  BY <3>4, <4>2, <4>4, <4>5
      <3> QED  BY <3>3, <3>4
    <2>8. ASSUME NEW t \in Int
          PROVE  (\E s \in Segments(r, w) : Within(t, s)) <=>
                   Within(t, w) /\ DateOf(t) \notin r.calendar.holidays /\ ~closed(t)
      <3>1. \A d \in open : (\E s \in left(d) : Within(t, s)) <=>
                              Within(t, w) /\ DateOf(t) = d /\ ~closed(t)
        BY <2>5 DEF Left
      <3>2. (\E s \in Segments(r, w) : Within(t, s)) <=>
              Within(t, w) /\ DateOf(t) \in open /\ ~closed(t)
        BY <2>4, <3>1
      <3>3. Within(t, w) => DateOf(t) \in days
        <4> SUFFICES ASSUME Within(t, w) PROVE DateOf(t) \in days
          OBVIOUS
        <4>1. w.start <= t /\ t <= w.end - 1 /\ w.end - 1 \in Int
          BY DEF Within
        <4>2. DateOf(w.start) <= DateOf(t) /\ DateOf(t) <= DateOf(w.end - 1)
          BY <4>1, DatesInOrder
        <4>3. DateOf(w.start) \in Int /\ DateOf(t) \in Int /\ DateOf(w.end - 1) \in Int
          BY <4>1, DayBounds
        <4> QED  BY <4>2, <4>3 DEF days
      <3> QED  BY <3>2, <3>3 DEF open
    <2> QED  BY <1>1, <1>3, <2>6, <2>7, <2>8 DEF Apart
  <1> QED  BY <1>2, <1>3

-----------------------------------------------------------------------------
(* What a resource works by when calendars and overrides are applied.        *)

OverridesInv ==
  overrides \subseteq Override /\ IsFiniteSet(overrides) /\ \A o \in overrides : o.start < o.end

CalendarFields == {"id", "weekdays", "shifts", "maintenance", "holidays"}

Ends(o) == [start |-> o.start, end |-> o.end]
Spans == {Ends(o) : o \in Override}

StaysCalendar(calendar) ==
  \A closed \in SUBSET Spans : [calendar EXCEPT !.maintenance = @ \cup closed] # Nothing

\* A resource of master data, and what else the operators need to know of it.
Known(r) ==
  /\ {"id", "calendar", "capacity", "extra"} \subseteq DOMAIN r
  /\ r.calendar # Nothing => CalendarFields \subseteq DOMAIN r.calendar /\ StaysCalendar(r.calendar)
  /\ Measured(r) /\ r.extra = {}

LEMMA ResourcesKnown ==
  ASSUME DataInv, NEW v \in DOMAIN versions, NEW r \in versions[v].resources
  PROVE  Known(r)
  <1>1. PICK w \in Version : r \in w.resources
    BY DEF DataInv
  <1>2. ASSUME r.calendar # Nothing PROVE StaysCalendar(r.calendar)
    BY <1>1, <1>2, InputsAssumption DEF StaysCalendar, Spans, Ends
  <1>3. /\ {"id", "calendar", "capacity", "extra"} \subseteq DOMAIN r
        /\ r.calendar # Nothing => CalendarFields \subseteq DOMAIN r.calendar
        /\ Measured(r) /\ r.extra = {}
    BY <1>1, InputsAssumption DEF CalendarFields
  <1> QED  BY <1>2, <1>3 DEF Known

LEMMA GoverningIs ==
  ASSUME PlansInv, RulesInv, NEW r, Known(r)
  PROVE  LET assigned == Assigned(r, calendars, assignments)
         IN Known(assigned) /\ assigned.calendar = Governing(r)
            /\ assigned.id = r.id /\ assigned.capacity = r.capacity
  <1> DEFINE applicable == Applicable(r, calendars, assignments)
             named == {c \in Active(calendars) : \E a \in Active(ToSet(assignments)) :
                         a.resource = r.id /\ a.calendar = c.id}
             found(id) == CHOOSE c \in Active(calendars) : c.id = id
  <1>1. \A c \in Active(calendars) :
          /\ c.id # Nothing /\ WorkCalendar(c) # Nothing /\ Clocked(c)
          /\ StaysCalendar(WorkCalendar(c))
    BY InputsAssumption DEF RulesInv, Active, StaysCalendar, Spans, Ends
  <1>2. \A i : i \in applicable <=>
          /\ i \in DOMAIN assignments
          /\ assignments[i].status = "Active" /\ assignments[i].resource = r.id
          /\ \E c \in Active(calendars) : c.id = assignments[i].calendar
    BY DEF Applicable
  <1>3. \A c \in Active(calendars) : c \in named <=>
          \E i \in DOMAIN assignments :
            /\ assignments[i].status = "Active" /\ assignments[i].resource = r.id
            /\ assignments[i].calendar = c.id
    BY DEF Active, ToSet
  <1>4. Governing(r) = IF named = {} THEN r.calendar ELSE WorkCalendar(CHOOSE c \in named : TRUE)
    BY DEF Governing
  <1>5. Assigned(r, calendars, assignments) =
          IF applicable = {} THEN r
          ELSE [r EXCEPT !.calendar = WorkCalendar(found(assignments[Max(applicable)].calendar))]
    BY DEF Assigned
  <1>6. named \subseteq Active(calendars)
    OBVIOUS
  <1>7. PICK n \in Nat : DOMAIN assignments = 1 .. n
    BY DEF PlansInv, AssignmentsInv
  <1>8. applicable \in SUBSET (1 .. n)
    BY <1>2, <1>7
  <1> HIDE DEF named, applicable
  <1>9. IsFiniteSet(applicable) /\ applicable \in SUBSET Int
    <2>1. IsFiniteSet(1 .. n)
      BY FS_Interval
    <2>2. IsFiniteSet(applicable)
      BY <1>8, <2>1, FS_Subset
    <2>3. \A i \in applicable : i \in Int
      BY <1>8
    <2> QED  BY <2>2, <2>3
  <1>10. CASE applicable = {}
    <2>1. named = {}
      <3> SUFFICES ASSUME NEW c \in named PROVE FALSE
        OBVIOUS
      <3>1. c \in Active(calendars)
        BY <1>6
      <3> QED  BY <1>2, <1>3, <1>10, <3>1
    <2> QED  BY <1>4, <1>5, <1>10, <2>1
  <1>11. CASE applicable # {}
    <2>1. PICK i \in applicable : i = Max(applicable)
      BY <1>9, <1>11, Greatest
    <2>2. PICK c \in Active(calendars) : c.id = assignments[i].calendar
      BY <1>2, <2>1
    <2>3. \A d \in Active(calendars) : d.id = c.id => d = c
      BY DEF RulesInv, Active
    <2>4. found(assignments[i].calendar) = c
      BY <2>2, <2>3
    <2>5. c \in named
      BY <1>2, <1>3, <2>1, <2>2
    <2>6. ASSUME NEW d \in named PROVE d = c
      <3>1. d \in Active(calendars)
        BY <1>6
      <3>2. PICK j \in DOMAIN assignments :
              /\ assignments[j].status = "Active" /\ assignments[j].resource = r.id
              /\ assignments[j].calendar = d.id
        BY <1>3, <3>1
      <3>3. i = j
        BY <1>2, <2>1, <3>2 DEF PlansInv, AssignmentsInv
      <3> QED  BY <2>2, <2>3, <3>1, <3>2, <3>3
    <2>7. Governing(r) = WorkCalendar(c)
      BY <1>4, <2>5, <2>6
    <2> HIDE DEF found
    <2>8. Assigned(r, calendars, assignments) = [r EXCEPT !.calendar = WorkCalendar(c)]
      BY <1>5, <1>11, <2>1, <2>4
    <2>9. WorkCalendar(c) # Nothing /\ Clocked(c) /\ StaysCalendar(WorkCalendar(c))
      BY <1>1
    <2>10. CalendarFields \subseteq DOMAIN WorkCalendar(c) /\ Clocked(WorkCalendar(c))
      BY <2>9 DEF CalendarFields, WorkCalendar, Clocked
    <2>11. PICK calendar : calendar = WorkCalendar(c)
      OBVIOUS
    <2>12. Known([r EXCEPT !.calendar = calendar])
      BY <2>9, <2>10, <2>11 DEF Known, Measured
    <2> QED  BY <2>7, <2>8, <2>11, <2>12 DEF Known
  <1> QED  BY <1>10, <1>11

LEMMA ConcernsIs ==
  ASSUME PlansInv, RulesInv, NEW r, Known(r), NEW o
  PROVE  Concerns(o, r) <=> o.status = "Active" /\ Matches(o, Assigned(r, calendars, assignments))
  BY GoverningIs DEF Concerns, Matches

Exclusions(r) == {o \in overrides : Concerns(o, r) /\ o.type = "ExclusionOrMaintenance"}
Exclude(r) == {Ends(o) : o \in Exclusions(r)}
Extend(r) == {ExtraWindow(o) : o \in ExtraRules(r)}

LEMMA WindowsMeasured ==
  ASSUME OverridesInv, NEW r
  PROVE  /\ Dated(Exclude(r))
         /\ \A w \in Extend(r) : w.start \in Int /\ w.end \in Int /\ w.minutes \in Int
  <1>1. \A o \in overrides : o.start \in Int /\ o.end \in Int /\ o.delta \in Int
    BY InputsAssumption DEF OverridesInv
  <1>2. IsFiniteSet(Exclude(r))
    <2> DEFINE ends == [o \in Exclusions(r) |-> Ends(o)]
    <2>1. IsFiniteSet(Exclusions(r))
      BY FS_Subset DEF OverridesInv, Exclusions
    <2>2. IsFiniteSet({ends[o] : o \in Exclusions(r)})
      <3> HIDE DEF ends
      <3> QED  BY <2>1, FiniteImage
    <2> QED  BY <2>2 DEF Exclude
  <1>3. ASSUME NEW w \in Exclude(r) PROVE w.start \in Int /\ w.end \in Int
    <2>1. PICK o \in overrides : w = Ends(o)
      BY DEF Exclude, Exclusions
    <2> QED  BY <1>1, <2>1 DEF Ends
  <1>4. ASSUME NEW w \in Extend(r) PROVE w.start \in Int /\ w.end \in Int /\ w.minutes \in Int
    <2>1. PICK o \in overrides : w = ExtraWindow(o)
      BY DEF Extend, ExtraRules
    <2> QED  BY <1>1, <2>1 DEF ExtraWindow, Budget, Length
  <1> QED  BY <1>2, <1>3, <1>4 DEF Dated

\* What is excluded becomes maintenance of the calendar that governs the resource;
\* the rest opens windows of its own.
LEMMA PreparedIs ==
  ASSUME PlansInv, RulesInv, OverridesInv, NEW r, Known(r)
  PROVE  LET prepared == Prepared(r, calendars, assignments, overrides)
         IN /\ Measured(prepared)
            /\ prepared.capacity = r.capacity /\ prepared.extra = Extend(r)
            /\ prepared.calendar = Nothing <=> Governing(r) = Nothing
            /\ Governing(r) # Nothing =>
                 /\ prepared.calendar.weekdays = Governing(r).weekdays
                 /\ prepared.calendar.shifts = Governing(r).shifts
                 /\ prepared.calendar.holidays = Governing(r).holidays
                 /\ prepared.calendar.maintenance = Governing(r).maintenance \cup Exclude(r)
  <1> DEFINE matched(a) == {o \in Active(overrides) : Matches(o, a)}
             exclusions(a) == {o \in matched(a) : o.type = "ExclusionOrMaintenance"}
  <1>1. PICK a : a = Assigned(r, calendars, assignments)
    OBVIOUS
  <1>2. Known(a) /\ a.calendar = Governing(r) /\ a.capacity = r.capacity
    BY <1>1, GoverningIs
  <1>3. \A o : o \in matched(a) <=> o \in overrides /\ Concerns(o, r)
    BY <1>1, ConcernsIs DEF Active
  <1>4. {[start |-> o.start, end |-> o.end] : o \in exclusions(a)} = Exclude(r)
    <2>1. exclusions(a) = Exclusions(r)
      BY <1>3 DEF Exclusions
    <2> QED  BY <2>1 DEF Exclude, Ends
  <1>5. {ExtraWindow(o) : o \in matched(a) \ exclusions(a)} = Extend(r)
    <2>1. matched(a) \ exclusions(a) = ExtraRules(r)
      BY <1>3 DEF ExtraRules
    <2> QED  BY <2>1 DEF Extend
  <1>6. Overridden(a, overrides) =
          IF a.calendar = Nothing
          THEN [a EXCEPT !.extra = @ \cup {ExtraWindow(o) : o \in matched(a) \ exclusions(a)}]
          ELSE [[a EXCEPT !.extra = @ \cup {ExtraWindow(o) : o \in matched(a) \ exclusions(a)}]
                  EXCEPT !.calendar.maintenance =
                    @ \cup {[start |-> o.start, end |-> o.end] : o \in exclusions(a)}]
    BY DEF Overridden
  <1> HIDE DEF matched, exclusions
  <1>7. PICK extra, closed : extra = Extend(r) /\ closed = Exclude(r)
    OBVIOUS
  <1>8. Prepared(r, calendars, assignments, overrides) =
          IF a.calendar = Nothing THEN [a EXCEPT !.extra = @ \cup extra]
          ELSE [[a EXCEPT !.extra = @ \cup extra] EXCEPT !.calendar.maintenance = @ \cup closed]
    BY <1>1, <1>4, <1>5, <1>6, <1>7 DEF Prepared
  <1>9. PICK extended : extended = [a EXCEPT !.extra = @ \cup extra]
    OBVIOUS
  <1>10. /\ extended.capacity = a.capacity /\ extended.extra = extra /\ extended.calendar = a.calendar
         /\ {"capacity", "extra", "calendar"} \subseteq DOMAIN extended
    BY <1>2, <1>9 DEF Known
  <1>11. \A w \in extra : w.start \in Int /\ w.end \in Int /\ w.minutes \in Int
    BY <1>7, WindowsMeasured
  <1>12. \A d \in DOMAIN a.capacity : {d, a.capacity[d]} \subseteq Int
    BY <1>2 DEF Known, Measured
  <1>13. CASE a.calendar = Nothing
    <2>1. Prepared(r, calendars, assignments, overrides) = extended
      BY <1>8, <1>9, <1>13
    <2> QED  BY <1>2, <1>7, <1>10, <1>11, <1>12, <1>13, <2>1 DEF Measured
  <1>14. CASE a.calendar # Nothing
    <2>1. Prepared(r, calendars, assignments, overrides) =
            [extended EXCEPT !.calendar.maintenance = @ \cup closed]
      BY <1>8, <1>9, <1>14
    <2>2. PICK calendar : calendar = [a.calendar EXCEPT !.maintenance = @ \cup closed]
      OBVIOUS
    <2>3. Prepared(r, calendars, assignments, overrides) = [extended EXCEPT !.calendar = calendar]
      BY <1>10, <2>1, <2>2
    <2>4. /\ calendar.weekdays = a.calendar.weekdays /\ calendar.shifts = a.calendar.shifts
          /\ calendar.holidays = a.calendar.holidays
          /\ calendar.maintenance = a.calendar.maintenance \cup closed
      BY <1>2, <1>14, <2>2 DEF Known, CalendarFields
    <2>5. Clocked(a.calendar)
      BY <1>2, <1>14 DEF Known, Measured
    <2>6. Dated(closed)
      BY <1>7, WindowsMeasured
    <2>7. Clocked(calendar)
      <3>1. IsFiniteSet(calendar.maintenance)
        BY <2>4, <2>5, <2>6, FS_Union DEF Clocked, Dated
      <3> QED  BY <2>4, <2>5, <2>6, <3>1 DEF Clocked, Dated
    <2>8. calendar # Nothing
      <3>1. closed \in SUBSET Spans
        BY <1>7 DEF Exclude, Exclusions, Spans, OverridesInv
      <3> QED  BY <1>2, <1>14, <2>2, <3>1 DEF Known, StaysCalendar
    <2>9. PICK prepared : prepared = [extended EXCEPT !.calendar = calendar]
      OBVIOUS
    <2>10. /\ prepared.capacity = a.capacity /\ prepared.extra = extra
           /\ prepared.calendar = calendar
      BY <1>10, <2>9
    <2> QED  BY <1>2, <1>7, <1>11, <1>12, <1>14, <2>3, <2>4, <2>7, <2>8, <2>9, <2>10 DEF Measured
  <1> QED  BY <1>13, <1>14

-----------------------------------------------------------------------------
(* The windows of a resource, minute by minute.                              *)

LEMMA ExtraBucketsAre ==
  ASSUME NEW r, NEW b
  PROVE  b \in ExtraBuckets(r) <=>
           \E w \in r.extra : /\ w.minutes > 0 /\ w.start < w.end
                              /\ \E s \in Segments(r, w) :
                                   /\ Granted(w, Segments(r, w), s) > 0
                                   /\ b = Bucket(<<"extra", w.of>>, s, Granted(w, Segments(r, w), s))
  <1> DEFINE open(w) == {p \in Segments(r, w) : Granted(w, Segments(r, w), p) > 0}
             here(w) == {Bucket(<<"extra", w.of>>, s, Granted(w, Segments(r, w), s)) : s \in open(w)}
  <1>1. ExtraBuckets(r) = UNION {here(w) : w \in {w \in r.extra : w.minutes > 0 /\ w.start < w.end}}
    BY DEF ExtraBuckets
  <1>2. \A w : b \in here(w) <=>
          \E s \in Segments(r, w) :
            /\ Granted(w, Segments(r, w), s) > 0
            /\ b = Bucket(<<"extra", w.of>>, s, Granted(w, Segments(r, w), s))
    OBVIOUS
  <1> HIDE DEF here
  <1>3. b \in ExtraBuckets(r) <=>
          \E w \in r.extra : w.minutes > 0 /\ w.start < w.end /\ b \in here(w)
    BY <1>1
  <1> QED  BY <1>2, <1>3

LEMMA Remainder ==
  ASSUME NEW t \in Int
  PROVE  t % Day = t - DateOf(t) * Day
  <1>1. Day \in Nat \ {0}
    BY CalendarAssumption
  <1>2. t % Day = t - Day * (t \div Day)
    BY <1>1
  <1>3. t \div Day \in Int
    BY <1>1, Quotient
  <1> QED  BY <1>1, <1>2, <1>3 DEF DateOf

\* The minutes of a shift on a date.
LEMMA CutIs ==
  ASSUME NEW d \in Int, NEW shift, shift.start \in Int, shift.end \in Int,
         0 <= shift.start, shift.end <= Day, NEW t \in Int
  PROVE  Within(t, Cut(d, shift)) <=> DateOf(t) = d /\ Within(t % Day, shift)
  <1>1. PICK lo \in Int, from \in Int, to \in Int :
          lo = d * Day /\ from = shift.start /\ to = shift.end
    BY DayBounds
  <1>2. (d + 1) * Day = lo + Day /\ Day \in Nat
    BY <1>1, CalendarAssumption
  <1>3. DateOf(t) = d <=> lo <= t /\ t < lo + Day
    BY <1>1, <1>2, DayBounds
  <1>4. DateOf(t) = d => t % Day = t - lo
    BY <1>1, Remainder
  <1>5. Within(t, Cut(d, shift)) <=> lo + from <= t /\ t < lo + to
    BY <1>1 DEF Within, Cut
  <1>6. lo + from <= t /\ t < lo + to => DateOf(t) = d
    BY <1>1, <1>2, <1>3
  <1>7. DateOf(t) = d => (Within(t % Day, shift) <=> from <= t - lo /\ t - lo < to)
    BY <1>1, <1>4 DEF Within
  <1> QED  BY <1>1, <1>5, <1>6, <1>7

\* What closes a minute is maintenance of the prepared calendar, or a day off.
ClosedFor(r, t) ==
  r.calendar # Nothing =>
    /\ DateOf(t) \notin r.calendar.holidays
    /\ \A m \in r.calendar.maintenance : ~Within(t, m)

LEMMA ClosedIs ==
  ASSUME PlansInv, RulesInv, OverridesInv, NEW r, Known(r), NEW t
  PROVE  ClosedFor(Prepared(r, calendars, assignments, overrides), t) <=> ~Closed(r, t)
  <1>1. PICK prepared : prepared = Prepared(r, calendars, assignments, overrides)
    OBVIOUS
  <1>2. /\ prepared.calendar = Nothing <=> Governing(r) = Nothing
        /\ Governing(r) # Nothing =>
             /\ prepared.calendar.holidays = Governing(r).holidays
             /\ prepared.calendar.maintenance = Governing(r).maintenance \cup Exclude(r)
    BY <1>1, PreparedIs
  <1>3. (\E m \in Exclude(r) : Within(t, m)) <=>
          \E o \in overrides : /\ Concerns(o, r) /\ o.type = "ExclusionOrMaintenance"
                               /\ Within(t, o)
    <2>1. \A o : Within(t, Ends(o)) <=> Within(t, o)
      BY DEF Ends, Within
    <2>2. \A m : m \in Exclude(r) <=>
            \E o \in overrides : /\ Concerns(o, r) /\ o.type = "ExclusionOrMaintenance"
                                 /\ m = Ends(o)
      BY DEF Exclude, Exclusions
    <2> QED  BY <2>1, <2>2
  <1> QED  BY <1>1, <1>2, <1>3 DEF ClosedFor, Closed

\* The windows no override opened are the shifts, or the days.
LEMMA BaseWindows ==
  ASSUME PlansInv, RulesInv, OverridesInv, NEW r, Known(r), NEW t \in Int
  PROVE  LET buckets == CapacityBuckets(Prepared(r, calendars, assignments, overrides))
         IN (\E b \in buckets : Within(t, b) /\ \A o \in ExtraRules(r) : b \notin Opened(buckets, o))
              <=> OnShift(r, t) /\ ~Closed(r, t)
  <1>1. PICK p : p = Prepared(r, calendars, assignments, overrides)
    OBVIOUS
  <1>2. /\ Measured(p) /\ p.capacity = r.capacity /\ p.extra = Extend(r)
        /\ p.calendar = Nothing <=> Governing(r) = Nothing
        /\ Governing(r) # Nothing =>
             /\ p.calendar.weekdays = Governing(r).weekdays /\ p.calendar.shifts = Governing(r).shifts
             /\ p.calendar.holidays = Governing(r).holidays
    BY <1>1, PreparedIs
  <1>3. ClosedFor(p, t) <=> ~Closed(r, t)
    BY <1>1, ClosedIs
  <1> DEFINE buckets == CapacityBuckets(p)
             days == {Bucket(<<"day", d>>, [start |-> d * Day, end |-> (d + 1) * Day], p.capacity[d]) :
                        d \in DOMAIN p.capacity}
             base == IF p.calendar # Nothing THEN ShiftBuckets(p) ELSE days
  <1>4. buckets = ExtraBuckets(p) \cup base
    BY DEF CapacityBuckets
  <1>5. ASSUME NEW b \in ExtraBuckets(p) PROVE \E o \in ExtraRules(r) : b \in Opened(buckets, o)
    <2>1. PICK w \in p.extra : \E s \in Segments(p, w) :
            b = Bucket(<<"extra", w.of>>, s, Granted(w, Segments(p, w), s))
      BY ExtraBucketsAre
    <2>2. PICK o \in ExtraRules(r) : w = ExtraWindow(o)
      BY <1>2, <2>1 DEF Extend
    <2>3. b.of = <<"extra", o.id>>
      BY <2>1, <2>2 DEF Bucket, ExtraWindow
    <2> QED  BY <1>4, <2>3 DEF Opened
  <1>6. ASSUME NEW b \in base PROVE \A o \in ExtraRules(r) : b \notin Opened(buckets, o)
    <2>1. CASE p.calendar # Nothing
      <3>1. \E name : b.of = <<"shift", name>>
        BY <2>1, ShiftBucketsAre DEF Bucket
      <3> QED  BY <3>1 DEF Opened
    <2>2. CASE p.calendar = Nothing
      <3>1. \E d : b.of = <<"day", d>>
        BY <2>2 DEF Bucket
      <3> QED  BY <3>1 DEF Opened
    <2> QED  BY <2>1, <2>2
  <1>7. (\E b \in buckets : Within(t, b) /\ \A o \in ExtraRules(r) : b \notin Opened(buckets, o))
          <=> \E b \in base : Within(t, b)
    <2> HIDE DEF buckets, base
    <2> QED  BY <1>4, <1>5, <1>6
  <1>8. CASE p.calendar = Nothing
    <2>1. \A d \in DOMAIN p.capacity : d \in Int
      BY <1>2 DEF Measured
    <2>2. ASSUME NEW d \in DOMAIN p.capacity
          PROVE  Within(t, Bucket(<<"day", d>>, [start |-> d * Day, end |-> (d + 1) * Day], p.capacity[d]))
                   <=> DateOf(t) = d
      BY <2>1, DayBounds DEF Within, Bucket
    <2>3. (\E b \in days : Within(t, b)) <=> DateOf(t) \in DOMAIN p.capacity
      BY <2>2
    <2> QED  BY <1>1, <1>2, <1>3, <1>7, <1>8, <2>3 DEF OnShift, ClosedFor
  <1>9. CASE p.calendar # Nothing
    <2>1. ASSUME NEW d \in WorkingDates(p), NEW shift \in p.calendar.shifts
          PROVE  (\E s \in SubtractMaintenance(Cut(d, shift), p.calendar.maintenance) : Within(t, s)) <=>
                   /\ DateOf(t) = d /\ Within(t % Day, shift)
                   /\ \A m \in p.calendar.maintenance : ~Within(t, m)
      <3>1. Cut(d, shift) \in Segment /\ d \in Int /\ shift.start \in Int /\ shift.end \in Int
        BY <1>2, <1>9, CutIsSegment
      <3>2. 0 <= shift.start /\ shift.end <= Day
        BY <1>2, <1>9 DEF Measured, Clocked
      <3>3. Left(Cut(d, shift), p.calendar.maintenance,
                 SubtractMaintenance(Cut(d, shift), p.calendar.maintenance))
        BY <1>2, <1>9, <3>1, MaintenanceDated, MaintenanceTaken
      <3>4. Within(t, Cut(d, shift)) <=> DateOf(t) = d /\ Within(t % Day, shift)
        BY <3>1, <3>2, CutIs
      <3> QED  BY <3>3, <3>4 DEF Left
    <2>2. ASSUME NEW d \in WorkingDates(p), NEW shift \in p.calendar.shifts,
                 NEW s \in SubtractMaintenance(Cut(d, shift), p.calendar.maintenance), Within(t, s)
          PROVE  Length(s) > 0
      <3>1. Cut(d, shift) \in Segment
        BY <1>2, <1>9, CutIsSegment
      <3>2. s \in Segment
        BY <1>2, <1>9, <3>1, MaintenanceDated, MaintenanceTaken DEF Left
      <3> QED  BY <2>2, <3>2 DEF Segment, Within, Length
    <2>3. \A s, of, minutes : Within(t, Bucket(of, s, minutes)) <=> Within(t, s)
      BY DEF Within, Bucket
    <2>4. (\E b \in ShiftBuckets(p) : Within(t, b)) <=>
            \E d \in WorkingDates(p) : \E shift \in p.calendar.shifts :
              \E s \in SubtractMaintenance(Cut(d, shift), p.calendar.maintenance) : Within(t, s)
      <3>1. ASSUME NEW b \in ShiftBuckets(p), Within(t, b)
            PROVE  \E d \in WorkingDates(p) : \E shift \in p.calendar.shifts :
                     \E s \in SubtractMaintenance(Cut(d, shift), p.calendar.maintenance) : Within(t, s)
        <4>1. PICK d \in WorkingDates(p), shift \in p.calendar.shifts :
                \E s \in SubtractMaintenance(Cut(d, shift), p.calendar.maintenance) :
                  Length(s) > 0 /\ b = Bucket(<<"shift", shift.name>>, s, Length(s))
          BY ShiftBucketsAre
        <4>2. \E s \in SubtractMaintenance(Cut(d, shift), p.calendar.maintenance) : Within(t, s)
          BY <2>3, <3>1, <4>1
        <4> QED  BY <4>2
      <3>2. ASSUME NEW d \in WorkingDates(p), NEW shift \in p.calendar.shifts,
                   NEW s \in SubtractMaintenance(Cut(d, shift), p.calendar.maintenance), Within(t, s)
            PROVE  \E b \in ShiftBuckets(p) : Within(t, b)
        <4>1. PICK b : b = Bucket(<<"shift", shift.name>>, s, Length(s))
          OBVIOUS
        <4>2. b \in ShiftBuckets(p)
          BY <2>2, <3>2, <4>1, ShiftBucketsAre
        <4> QED  BY <2>3, <3>2, <4>1, <4>2
      <3> QED  BY <3>1, <3>2
    <2>5. (\E b \in ShiftBuckets(p) : Within(t, b)) <=>
            /\ DateOf(t) \in WorkingDates(p)
            /\ \E shift \in p.calendar.shifts : Within(t % Day, shift)
            /\ \A m \in p.calendar.maintenance : ~Within(t, m)
      BY <2>1, <2>4
    <2>6. DateOf(t) \in WorkingDates(p) <=>
            /\ DateOf(t) \in DOMAIN r.capacity /\ DateOf(t) \notin p.calendar.holidays
            /\ Weekday(DateOf(t)) \in p.calendar.weekdays
      BY <1>2 DEF WorkingDates
    <2>7. base = ShiftBuckets(p)
      BY <1>9
    <2> HIDE DEF base, buckets
    <2> QED  BY <1>1, <1>2, <1>3, <1>7, <1>9, <2>5, <2>6, <2>7 DEF OnShift, ClosedFor, buckets
  <1> QED  BY <1>8, <1>9

LEMMA MinutesAddUp ==
  ASSUME NEW B
  PROVE  MapThenSumSet(LAMBDA b : b.minutes, B) = Total([b \in B |-> b.minutes], B)
  <1> DEFINE f == [b \in B |-> b.minutes]
             A(it) == it = [U \in SUBSET B |-> IF U = {} THEN 0 ELSE f[Pick(U)] + it[U \ {Pick(U)}]]
             C(it) == it = [U \in SUBSET B |-> IF U = {} THEN 0 ELSE Pick(U).minutes + it[U \ {Pick(U)}]]
  <1>1. \A it : A(it) <=> C(it)
    <2>1. \A U \in SUBSET B : U # {} => Pick(U) \in B
      BY DEF Pick
    <2>2. \A U \in SUBSET B : U # {} => f[Pick(U)] = Pick(U).minutes
      BY <2>1
    <2> HIDE DEF f
    <2> QED  BY <2>2
  <1>2. Total(f, B) = (CHOOSE it : A(it))[B]
    BY DEF Total, MapThenSumSet, MapThenFoldSet, Pick
  <1>3. MapThenSumSet(LAMBDA b : b.minutes, B) = (CHOOSE it : C(it))[B]
    BY DEF MapThenSumSet, MapThenFoldSet, Pick
  <1>4. (CHOOSE it : A(it)) = (CHOOSE it : C(it))
    <2> HIDE DEF A, C
    <2> QED  BY <1>1
  <1> QED  BY <1>2, <1>3, <1>4

\* An override opens the minutes of its window that nothing closes, and grants as
\* many as it has.
LEMMA OpenedAsGranted ==
  ASSUME PlansInv, RulesInv, OverridesInv, NEW r, Known(r), NEW o \in ExtraRules(r)
  PROVE  LET buckets == CapacityBuckets(Prepared(r, calendars, assignments, overrides))
         IN /\ \A b \in Opened(buckets, o) : \A t \in Horizon :
                 Within(t, b) => Within(t, o) /\ ~Closed(r, t)
            /\ MapThenSumSet(LAMBDA b : b.minutes, Opened(buckets, o))
                 = Min({Budget(o), Cardinality({t \in Horizon : Within(t, o) /\ ~Closed(r, t)})})
  <1>1. PICK p : p = Prepared(r, calendars, assignments, overrides)
    OBVIOUS
  <1>2. Measured(p) /\ p.extra = Extend(r)
    BY <1>1, PreparedIs
  <1>3. /\ o \in overrides /\ o \in Override /\ o.start < o.end
        /\ o.start \in Int /\ o.end \in Int /\ o.delta \in Int
    BY InputsAssumption DEF ExtraRules, OverridesInv
  <1>4. Budget(o) \in Nat /\ Budget(o) > 0
    BY <1>3 DEF Budget, Length
  <1>5. PICK w \in p.extra : /\ w = ExtraWindow(o) /\ w.of = o.id /\ w.minutes = Budget(o)
                             /\ w.start = o.start /\ w.end = o.end
    <2>1. ExtraWindow(o) \in Extend(r)
      BY DEF Extend
    <2>2. /\ ExtraWindow(o).of = o.id /\ ExtraWindow(o).minutes = Budget(o)
          /\ ExtraWindow(o).start = o.start /\ ExtraWindow(o).end = o.end
      BY DEF ExtraWindow
    <2> QED  BY <1>2, <2>1, <2>2
  <1>6. ASSUME NEW other \in p.extra, other.of = o.id PROVE other = w
    <2>1. PICK q \in ExtraRules(r) : other = ExtraWindow(q)
      BY <1>2 DEF Extend
    <2>2. q.id = o.id
      BY <1>6, <2>1 DEF ExtraWindow
    <2> QED  BY <1>3, <1>5, <2>1, <2>2 DEF RulesInv, ExtraRules
  <1> DEFINE buckets == CapacityBuckets(p)
             opened == Opened(buckets, o)
             R == Segments(p, w)
             g == [s \in R |-> Granted(w, R, s)]
             some == {s \in R : Granted(w, R, s) > 0}
             move(s) == Bucket(<<"extra", o.id>>, s, Granted(w, R, s))
  <1>7. \A b : b \in opened <=> \E s \in some : b = move(s)
    <2>1. ASSUME NEW b \in opened PROVE \E s \in some : b = move(s)
      <3>1. b \in buckets /\ b.of = <<"extra", o.id>>
        BY DEF Opened
      <3>2. b \notin ShiftBuckets(p)
        BY <3>1, ShiftBucketsAre DEF Bucket
      <3>3. \A d, s, m : b # Bucket(<<"day", d>>, s, m)
        BY <3>1 DEF Bucket
      <3>4. b \in ExtraBuckets(p)
        BY <3>1, <3>2, <3>3 DEF CapacityBuckets
      <3>5. PICK v \in p.extra : \E s \in Segments(p, v) :
              /\ Granted(v, Segments(p, v), s) > 0
              /\ b = Bucket(<<"extra", v.of>>, s, Granted(v, Segments(p, v), s))
        BY <3>4, ExtraBucketsAre
      <3>6. v.of = o.id
        BY <3>1, <3>5 DEF Bucket
      <3> QED  BY <1>5, <1>6, <3>5, <3>6
    <2>2. ASSUME NEW s \in some PROVE move(s) \in opened
      <3>1. move(s) \in ExtraBuckets(p)
        BY <1>3, <1>4, <1>5, ExtraBucketsAre
      <3>2. move(s).of = <<"extra", o.id>>
        BY DEF Bucket
      <3> QED  BY <3>1, <3>2 DEF Opened, CapacityBuckets
    <2> QED  BY <2>1, <2>2
  <1>8. Apart(R)
    BY <1>2, <1>3, <1>5, SegmentsAre
  <1>9. ASSUME NEW t \in Int
        PROVE  (\E s \in R : Within(t, s)) <=> Within(t, o) /\ ~Closed(r, t)
    <2>1. (\E s \in R : Within(t, s)) <=> Within(t, w) /\ ClosedFor(p, t)
      BY <1>2, <1>3, <1>5, SegmentsAre DEF ClosedFor
    <2>2. ClosedFor(p, t) <=> ~Closed(r, t)
      BY <1>1, ClosedIs
    <2> QED  BY <1>5, <2>1, <2>2 DEF Within
  <1>10. ASSUME NEW b \in opened, NEW t \in Horizon, Within(t, b)
         PROVE  Within(t, o) /\ ~Closed(r, t)
    <2>1. PICK s \in R : b = move(s)
      BY <1>7
    <2>2. Within(t, s)
      BY <1>10, <2>1 DEF Within, Bucket
    <2> QED  BY <1>9, <2>2, HorizonAssumption
  <1>11. MinutesOf(R) = {t \in Horizon : Within(t, o) /\ ~Closed(r, t)}
    <2>1. \A t \in Int : Within(t, o) => t \in Horizon
      BY <1>3, HorizonAssumption DEF Within
    <2> HIDE DEF R
    <2> QED  BY <1>9, <2>1, HorizonAssumption DEF MinutesOf
  <1>12. MapThenSumSet(LAMBDA b : b.minutes, opened) = Total(g, some)
    <2> DEFINE minutes == [b \in opened |-> b.minutes]
               moved == [s \in some |-> move(s)]
    <2>1. MapThenSumSet(LAMBDA b : b.minutes, opened) = Total(minutes, opened)
      BY MinutesAddUp
    <2>2. IsFiniteSet(some)
      BY <1>8, FS_Subset DEF Apart
    <2>3. \A s \in some : g[s] \in Int
      BY <1>4, <1>5, <1>8, GrantsAddUp
    <2>4. \A s \in some : moved[s] \in opened /\ minutes[moved[s]] = 1 * g[s]
      <3>1. \A s \in some : moved[s] \in opened /\ moved[s].minutes = g[s]
        BY <1>7 DEF Bucket
      <3> HIDE DEF moved, g, opened, some
      <3> QED  BY <2>3, <3>1
    <2>5. \A b \in opened : \E s \in some : b = moved[s]
      BY <1>7
    <2>6. \A s, v \in some : moved[s] = moved[v] => s = v
      BY <1>8 DEF Bucket, Apart, Segment
    <2> HIDE DEF minutes, moved, opened, some, g
    <2>7. Total(minutes, opened) = 1 * Total(g, some)
      BY <2>2, <2>3, <2>4, <2>5, <2>6, TotalMoves
    <2>8. Total(g, some) \in Int
      BY <2>2, <2>3, TotalIsInteger
    <2> QED  BY <2>1, <2>7, <2>8
  <1>13. Total(g, some) = Min({w.minutes, MapThenSumSet(Length, R)})
    BY <1>4, <1>5, <1>8, GrantsAddUp
  <1>14. MapThenSumSet(Length, R) = Cardinality(MinutesOf(R))
    BY <1>8, MinutesCounted
  <1> HIDE DEF R, g, some, opened
  <1>15. MapThenSumSet(LAMBDA b : b.minutes, opened)
           = Min({Budget(o), Cardinality({t \in Horizon : Within(t, o) /\ ~Closed(r, t)})})
    BY <1>5, <1>11, <1>12, <1>13, <1>14
  <1> QED  BY <1>1, <1>10, <1>15 DEF opened

-----------------------------------------------------------------------------
(* Every resource of every version, at every moment.                         *)

LEMMA PreviewOf ==
  ASSUME NEW v \in DOMAIN versions, NEW r \in versions[v].resources,
         \A x \in versions[v].resources : x.id = r.id => x = r
  PROVE  Preview(versions[v])[r.id] = CapacityBuckets(Prepared(r, calendars, assignments, overrides))
  <1> DEFINE resources == versions[v].resources
             chosen == CHOOSE x \in resources : x.id = r.id
  <1>1. r.id \in Ids(resources)
    BY DEF Ids
  <1>2. chosen = r
    OBVIOUS
  <1> HIDE DEF chosen
  <1>3. Preview(versions[v])[r.id] =
          CapacityBuckets(Prepared(chosen, calendars, assignments, overrides))
    BY <1>1 DEF Preview, Windows, ResourcesOf, chosen
  <1> QED  BY <1>2, <1>3

LEMMA PriorityFollowed ==
  PlansInv /\ ShownInv /\ OverridesInv => WindowsFollowPriority
  <1> SUFFICES ASSUME PlansInv, ShownInv, OverridesInv,
                      NEW v \in DOMAIN versions, NEW r \in versions[v].resources,
                      \A x \in versions[v].resources : x.id = r.id => x = r
               PROVE  FollowsPriority(r, Preview(versions[v])[r.id])
    BY DEF WindowsFollowPriority
  <1>1. RulesInv /\ Known(r)
    BY ResourcesKnown DEF ShownInv
  <1>2. PICK buckets : buckets = CapacityBuckets(Prepared(r, calendars, assignments, overrides))
    OBVIOUS
  <1>3. Preview(versions[v])[r.id] = buckets
    BY <1>2, PreviewOf
  <1>4. ASSUME NEW t \in Horizon
        PROVE  (\E b \in buckets : Within(t, b) /\ \A o \in ExtraRules(r) : b \notin Opened(buckets, o))
                 <=> OnShift(r, t) /\ ~Closed(r, t)
    BY <1>1, <1>2, BaseWindows, HorizonAssumption
  <1>5. ASSUME NEW o \in ExtraRules(r)
        PROVE  /\ \A b \in Opened(buckets, o) : \A t \in Horizon :
                    Within(t, b) => Within(t, o) /\ ~Closed(r, t)
               /\ MapThenSumSet(LAMBDA b : b.minutes, Opened(buckets, o))
                    = Min({Budget(o), Cardinality({t \in Horizon : Within(t, o) /\ ~Closed(r, t)})})
    BY <1>1, <1>2, OpenedAsGranted
  <1>6. FollowsPriority(r, buckets)
    BY <1>4, <1>5 DEF FollowsPriority
  <1> QED  BY <1>3, <1>6

LEMMA OverridesStep == OverridesInv /\ [PlansNext]_planVars => OverridesInv'
  <1> SUFFICES ASSUME OverridesInv, [PlansNext]_planVars PROVE OverridesInv'
    OBVIOUS
  <1>1. ASSUME NEW o \in Override, CreateOverride(o) PROVE OverridesInv'
    <2>1. overrides' = overrides \cup {o} /\ o.start < o.end
      BY <1>1 DEF CreateOverride
    <2>2. IsFiniteSet(overrides')
      BY <2>1, FS_AddElement DEF OverridesInv
    <2> QED  BY <2>1, <2>2 DEF OverridesInv
  <1>2. ASSUME UNCHANGED overrides PROVE OverridesInv'
    BY <1>2 DEF OverridesInv
  <1>3. CASE Configure
    BY <1>1, <1>2, <1>3 DEF Configure, CreateCalendar, CreateAssignment, CreateStrategy, CreatePolicy,
       CreateVersion, PublishVersion, RollbackVersion, RetireVersion
  <1>4. CASE \E q \in RunRequest : AskForRun(q)
    BY <1>2, <1>4 DEF AskForRun, CreateRun
  <1>5. CASE \E n \in DOMAIN runs, answer \in {"Feasible", "Infeasible", "Error"}, retried \in BOOLEAN :
               Solve(n, answer, retried)
    BY <1>2, <1>5 DEF Solve, ExecuteRun
  <1>6. CASE \E n \in DOMAIN runs, role \in Role, action \in {"Review", "Approve", "Revoke"} :
               Move(n, action, role)
    BY <1>2, <1>6 DEF Move
  <1>7. CASE \E n \in DOMAIN runs, role \in Role : Publish(n, role)
    BY <1>2, <1>7 DEF Publish
  <1>8. CASE UNCHANGED planVars
    BY <1>2, <1>8 DEF planVars, inputVars
  <1> QED  BY <1>3, <1>4, <1>5, <1>6, <1>7, <1>8 DEF PlansNext

\* The capacity a planner is shown is what the documented priority of the rules
\* gives, minute by minute, for any calendars, assignments and overrides made, in
\* whatever order: base shifts less maintenance and days off, and each extra window
\* within its budget wherever no stronger rule closes it.
THEOREM WindowsAreByPriority == PlansSpec => []WindowsFollowPriority
  <1>1. PlansInit => PlansInv /\ ShownInv /\ OverridesInv
    <2>1. PlansInit => OverridesInv
      BY FS_EmptySet DEF PlansInit, InputsInit, OverridesInv
    <2> QED  BY <2>1, Initially, ShownInitially
  <1>2. PlansInv /\ ShownInv /\ OverridesInv /\ [PlansNext]_planVars
          => PlansInv' /\ ShownInv' /\ OverridesInv'
    BY Inductive, ShownStep, OverridesStep
  <1>3. PlansInv /\ ShownInv /\ OverridesInv => WindowsFollowPriority
    BY PriorityFollowed
  <1> QED  BY <1>1, <1>2, <1>3, PTL DEF PlansSpec
=============================================================================
