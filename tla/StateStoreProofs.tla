-------------------------- MODULE StateStoreProofs --------------------------
(* Theorems about StateStore for every value of its constants.             *)
EXTENDS StateStore, TLAPS

-----------------------------------------------------------------------------
(* Type correctness.                                                       *)

LEMMA NoRequestDiffers == NoRequest \notin Request
BY StoreAssumption DEF Request, State

LEMMA NoBackupDiffers == NoBackup \notin State
BY StoreAssumption DEF State

LEMMA AppliedType ==
  ASSUME NEW x \in State, NEW u \in Update
  PROVE  /\ Applied(x, u) \in State
         /\ Applied(x, u).contents = x.contents \cup {u}
         /\ Applied(x, u).revision = x.revision
BY DEF Applied, State

LEMMA NextRevisionType ==
  ASSUME NEW x \in State
  PROVE  /\ NextRevision(x) \in State
         /\ NextRevision(x).contents = x.contents
         /\ NextRevision(x).revision = x.revision + 1
BY DEF NextRevision, State

LEMMA NewStateType == NewState \in State
BY DEF NewState, State

\* The stage of a request is all that changes when it commits.
LEMMA CommittedRequest ==
  ASSUME NEW q \in Request
  PROVE  /\ [q EXCEPT !.stage = "committed"] \in Request
         /\ [q EXCEPT !.stage = "committed"].update = q.update
         /\ [q EXCEPT !.stage = "committed"].expected = q.expected
         /\ [q EXCEPT !.stage = "committed"].stage = "committed"
BY DEF Request

LEMMA RequestType ==
  ASSUME NEW u \in Update, NEW x \in Nat \cup {AnyRevision}, NEW undo \in State,
         NEW stage \in {"handled", "committed"}
  PROVE  [update |-> u, expected |-> x, undo |-> undo, stage |-> stage] \in Request
BY DEF Request

\* The alternatives of Next, with the types of their parameters.
LEMMA NextCases ==
  ASSUME TypeOK, Next
  PROVE  \/ \E s \in Server, u \in Update, x \in Nat \cup {AnyRevision} :
              Handle(s, u, x) \/ AtomicUpdate(s, u, x)
         \/ \E s \in Server :
              \/ Undo(s) \/ Save(s) \/ SaveConflict(s) \/ AtomicUpdateRefused(s)
              \/ Backup(s) \/ Crash(s) \/ Start(s)
         \/ Damage
<1>1. \A x \in {AnyRevision} \cup {c.revision : c \in committed} :
        x \in Nat \cup {AnyRevision}
  BY DEF TypeOK, State
<1>2. CASE \E s \in Server, u \in Update,
              x \in {AnyRevision} \cup {c.revision : c \in committed} :
             Handle(s, u, x) \/ AtomicUpdate(s, u, x)
  BY <1>1, <1>2, Zenon
<1>3. CASE ~(\E s \in Server, u \in Update,
                x \in {AnyRevision} \cup {c.revision : c \in committed} :
               Handle(s, u, x) \/ AtomicUpdate(s, u, x))
  BY <1>3, Zenon DEF Next
<1> QED
  BY <1>2, <1>3, Zenon

LEMMA InitTypeOK == Init => TypeOK
<1> SUFFICES ASSUME Init PROVE TypeOK
  OBVIOUS
<1>1. damages \in 0..MaxDamage /\ backupFailures \in 0..MaxBackupFailures
  BY StoreAssumption DEF Init
<1>2. memory \in [Server -> State] /\ request \in [Server -> Request \cup {NoRequest}]
  BY NewStateType DEF Init
<1> QED
  BY <1>1, <1>2, NewStateType DEF Init, TypeOK

LEMMA NextTypeOK == TypeOK /\ [Next]_vars => TypeOK'
<1> SUFFICES ASSUME TypeOK, [Next]_vars PROVE TypeOK'
  OBVIOUS
<1>1. ASSUME NEW s \in Server, NEW u \in Update, NEW x \in Nat \cup {AnyRevision},
             Handle(s, u, x)
      PROVE  TypeOK'
  <2>1. memory[s] \in State /\ Applied(memory[s], u) \in State
    BY AppliedType DEF TypeOK
  <2>2. [update |-> u, expected |-> x, undo |-> memory[s], stage |-> "handled"] \in Request
    BY <2>1, RequestType
  <2> QED
    BY <1>1, <2>1, <2>2 DEF Handle, TypeOK, files, counters
<1>2. ASSUME NEW s \in Server, NEW u \in Update, NEW x \in Nat \cup {AnyRevision},
             AtomicUpdate(s, u, x)
      PROVE  TypeOK'
  <2>1. db \in State /\ db' \in State
    BY <1>2, AppliedType, NextRevisionType DEF TypeOK, AtomicUpdate
  <2>2. [update |-> u, expected |-> x, undo |-> db, stage |-> "committed"] \in Request
    BY <2>1, RequestType
  <2> QED
    BY <1>2, <2>1, <2>2 DEF AtomicUpdate, TypeOK, counters
<1>3. ASSUME NEW s \in Server, Undo(s)
      PROVE  TypeOK'
  <2>1. request[s].undo \in State
    BY <1>3 DEF Undo, Handled, TypeOK, Request
  <2> QED
    BY <1>3, <2>1 DEF Undo, Done, TypeOK, files, counters
<1>4. ASSUME NEW s \in Server, Save(s)
      PROVE  TypeOK'
  <2>1. db' = NextRevision(memory[s]) /\ db' \in State
    BY <1>4, NextRevisionType DEF TypeOK, Save
  <2>2. memory' = [memory EXCEPT ![s] = db']
    BY <1>4, <2>1 DEF Save, TypeOK
  <2>3. [request[s] EXCEPT !.stage = "committed"] \in Request
    BY <1>4, CommittedRequest DEF TypeOK, Save, Handled
  <2>4. request' \in [Server -> Request \cup {NoRequest}]
    BY <1>4, <2>3 DEF TypeOK, Save
  <2> QED
    BY <1>4, <2>1, <2>2, <2>4 DEF Save, TypeOK, counters
<1>5. ASSUME NEW s \in Server, SaveConflict(s) \/ AtomicUpdateRefused(s)
      PROVE  TypeOK'
  BY <1>5 DEF SaveConflict, AtomicUpdateRefused, Done, TypeOK, files, counters
<1>6. ASSUME NEW s \in Server, Backup(s)
      PROVE  TypeOK'
  <2>1. request[s].update \in Update
    BY <1>6 DEF Backup, Committed, TypeOK, Request
  <2>2. backupFailures' \in 0..MaxBackupFailures
    BY <1>6, StoreAssumption DEF Backup, TypeOK, counters
  <2> QED
    BY <1>6, <2>1, <2>2 DEF Backup, Done, TypeOK, counters
<1>7. ASSUME NEW s \in Server, Crash(s)
      PROVE  TypeOK'
  BY <1>7, NewStateType DEF Crash, Done, TypeOK, files, counters
<1>8. ASSUME NEW s \in Server, Start(s)
      PROVE  TypeOK'
  BY <1>8 DEF Start, TypeOK, counters
<1>9. ASSUME Damage
      PROVE  TypeOK'
  BY <1>9, StoreAssumption DEF Damage, TypeOK
<1>10. ASSUME UNCHANGED vars
       PROVE  TypeOK'
  BY <1>10 DEF vars, TypeOK
<1> QED
  BY <1>1, <1>2, <1>3, <1>4, <1>5, <1>6, <1>7, <1>8, <1>9, <1>10, NextCases

\* Every variable always has its type.
THEOREM TypeCorrect == Spec => []TypeOK
BY InitTypeOK, NextTypeOK, PTL DEF Spec

-----------------------------------------------------------------------------
(* The inductive invariant.                                                *)

\* What the memory of a process is made of: a committed state, and on top of
\* it the effect of the request the process is serving.
ServerInv(s) ==
  /\ request[s] # NoRequest => s \in up
  /\ s \in up /\ ~Handled(s) => memory[s] \in committed
  /\ Handled(s) =>
       /\ request[s].undo \in committed
       /\ memory[s] = Applied(request[s].undo, request[s].update)
       /\ IfMatch(request[s].expected, request[s].undo)
       /\ \A c \in committed : request[s].update \notin c.contents
  /\ Committed(s) => request[s].update \in memory[s].contents

OneRequestPerUpdate ==
  \A s, t \in Server :
    s # t /\ request[s] # NoRequest /\ request[t] # NoRequest
      => request[s].update # request[t].update

\* The stored state is the latest committed one and contains all earlier ones.
Latest ==
  \A c \in committed :
    /\ c.revision <= db.revision
    /\ c.contents \subseteq db.contents
    /\ c.revision = db.revision => c = db

FilesInv ==
  /\ db \in committed /\ bak \in committed \cup {NoBackup}
  /\ damages = 0 => ~damaged /\ Latest /\ acked \subseteq db.contents

IInv ==
  /\ TypeOK
  /\ \A s \in Server : ServerInv(s)
  /\ OneRequestPerUpdate
  /\ FilesInv

LEMMA InitIInv == Init => IInv
<1> SUFFICES ASSUME Init PROVE IInv
  OBVIOUS
<1>1. \A s \in Server : request[s] = NoRequest /\ memory[s] = NewState
  BY DEF Init
<1>2. (\A s \in Server : ServerInv(s)) /\ OneRequestPerUpdate
  BY <1>1 DEF Init, ServerInv, OneRequestPerUpdate, Handled, Committed
<1>3. Latest
  BY DEF Init, Latest, NewState
<1> QED
  BY <1>2, <1>3, InitTypeOK DEF Init, IInv, FilesInv

\* A process that takes no part in a step keeps its invariant when every newly
\* committed state leaves its update out.
LEMMA OtherServer ==
  ASSUME NEW t \in Server, ServerInv(t),
         request'[t] = request[t], memory'[t] = memory[t],
         t \in up' <=> t \in up,
         committed \subseteq committed',
         Handled(t) => \A c \in committed' \ committed : request[t].update \notin c.contents
  PROVE  ServerInv(t)'
BY DEF ServerInv, Handled, Committed

\* A state committed on top of the latest one is the new latest one.
LEMMA CommitKeepsLatest ==
  ASSUME TypeOK, Latest, db' \in State,
         db'.revision = db.revision + 1, db.contents \subseteq db'.contents,
         committed' = committed \cup {db'}
  PROVE  Latest'
BY DEF Latest, TypeOK, State

LEMMA NextIInv == IInv /\ [Next]_vars => IInv'
<1> SUFFICES ASSUME IInv, [Next]_vars PROVE IInv'
  OBVIOUS
<1> DEFINE Goal == (\A t \in Server : ServerInv(t)') /\ OneRequestPerUpdate' /\ FilesInv'
<1>1. TypeOK /\ TypeOK'
  BY NextTypeOK DEF IInv
<1>2. /\ \A t \in Server : ServerInv(t)
      /\ OneRequestPerUpdate /\ FilesInv
  BY DEF IInv
<1>3. ASSUME NEW s \in Server, NEW u \in Update, NEW x \in Nat \cup {AnyRevision},
             Handle(s, u, x)
      PROVE  Goal
  <2> DEFINE q == [update |-> u, expected |-> x, undo |-> memory[s], stage |-> "handled"]
  <2>1. /\ s \in up /\ request[s] = NoRequest /\ Unused(u) /\ IfMatch(x, memory[s])
        /\ memory' = [memory EXCEPT ![s] = Applied(memory[s], u)]
        /\ request' = [request EXCEPT ![s] = q]
        /\ UNCHANGED <<db, bak, damaged, up, acked, committed, damages>>
    BY <1>3 DEF Handle, Idle, files, counters
  <2>2. q \in Request /\ q # NoRequest
    BY <1>1, RequestType, NoRequestDiffers DEF TypeOK
  <2>3. ServerInv(s)'
    <3>1. memory'[s] = Applied(memory[s], u) /\ request'[s] = q
      BY <1>1, <2>1 DEF TypeOK
    <3>2. memory[s] \in committed
      BY <1>2, <2>1 DEF ServerInv, Handled
    <3> QED
      BY <2>1, <2>2, <3>1, <3>2 DEF ServerInv, Handled, Committed, Unused
  <2>4. ASSUME NEW t \in Server, t # s
        PROVE  ServerInv(t)'
    BY <1>1, <1>2, <2>1, <2>4, OtherServer DEF TypeOK
  <2>5. OneRequestPerUpdate'
    <3>1. ASSUME NEW t \in Server, t # s, request'[t] # NoRequest
          PROVE  request'[t].update # u
      BY <1>1, <2>1, <3>1 DEF TypeOK, Unused
    <3>2. request'[s].update = u
      BY <1>1, <2>1 DEF TypeOK
    <3> HIDE DEF q
    <3> QED
      BY <1>1, <1>2, <2>1, <3>1, <3>2 DEF OneRequestPerUpdate, TypeOK
  <2>6. FilesInv'
    BY <1>2, <2>1 DEF FilesInv, Latest
  <2> QED
    BY <2>3, <2>4, <2>5, <2>6
<1>4. ASSUME NEW s \in Server, NEW u \in Update, NEW x \in Nat \cup {AnyRevision},
             AtomicUpdate(s, u, x)
      PROVE  Goal
  <2> DEFINE q == [update |-> u, expected |-> x, undo |-> db, stage |-> "committed"]
  <2>1. /\ s \in up /\ request[s] = NoRequest /\ Unused(u)
        /\ memory' = [memory EXCEPT ![s] = db']
        /\ committed' = committed \cup {db'}
        /\ request' = [request EXCEPT ![s] = q]
        /\ UNCHANGED <<bak, damaged, up, acked, damages>>
    BY <1>4 DEF AtomicUpdate, Idle, counters
  <2>2. q \in Request /\ q # NoRequest
    BY <1>1, RequestType, NoRequestDiffers DEF TypeOK
  <2>3. /\ db' \in State /\ db'.contents = db.contents \cup {u}
        /\ db'.revision = db.revision + 1
    BY <1>1, <1>4, AppliedType, NextRevisionType DEF TypeOK, AtomicUpdate
  <2>4. ServerInv(s)'
    <3>1. memory'[s] = db' /\ request'[s] = q
      BY <1>1, <2>1 DEF TypeOK
    <3> QED
      BY <2>1, <2>2, <2>3, <3>1 DEF ServerInv, Handled, Committed
  <2>5. ASSUME NEW t \in Server, t # s
        PROVE  ServerInv(t)'
    <3>1. ASSUME Handled(t)
          PROVE  request[t].update \notin db'.contents
      <4>1. request[t].update # u
        BY <2>1, <3>1 DEF Unused, Handled
      <4>2. request[t].update \notin db.contents
        BY <1>2, <3>1 DEF ServerInv, FilesInv
      <4> QED
        BY <2>3, <4>1, <4>2
    <3> QED
      BY <1>1, <1>2, <2>1, <2>5, <3>1, OtherServer DEF TypeOK
  <2>6. OneRequestPerUpdate'
    <3>1. ASSUME NEW t \in Server, t # s, request'[t] # NoRequest
          PROVE  request'[t].update # u
      BY <1>1, <2>1, <3>1 DEF TypeOK, Unused
    <3>2. request'[s].update = u
      BY <1>1, <2>1 DEF TypeOK
    <3> HIDE DEF q
    <3> QED
      BY <1>1, <1>2, <2>1, <3>1, <3>2 DEF OneRequestPerUpdate, TypeOK
  <2>7. FilesInv'
    <3>1. damages = 0 => Latest'
      BY <1>1, <1>2, <2>1, <2>3, CommitKeepsLatest DEF FilesInv
    <3> QED
      BY <1>2, <2>1, <2>3, <3>1 DEF FilesInv
  <2> QED
    BY <2>4, <2>5, <2>6, <2>7
<1>5. ASSUME NEW s \in Server, Save(s)
      PROVE  Goal
  <2> DEFINE q == [request[s] EXCEPT !.stage = "committed"]
             u == request[s].update
  <2>1. /\ s \in up /\ request[s] # NoRequest /\ Handled(s)
        /\ db.revision = memory[s].revision
        /\ db' = NextRevision(memory[s])
        /\ committed' = committed \cup {db'}
        /\ UNCHANGED <<bak, damaged, up, acked, damages>>
    BY <1>5 DEF Save, Handled, counters
  <2>2. request[s] \in Request /\ memory[s] \in State
    BY <1>1, <2>1 DEF TypeOK
  <2>3. /\ q \in Request /\ q # NoRequest /\ q.update = u /\ q.stage = "committed"
        /\ memory' = [memory EXCEPT ![s] = db']
        /\ request' = [request EXCEPT ![s] = q]
    BY <1>1, <1>5, <2>2, CommittedRequest, NoRequestDiffers DEF Save, TypeOK
  <2>4. /\ request[s].undo \in State /\ u \in Update
        /\ memory[s] = Applied(request[s].undo, u)
        /\ request[s].undo \in committed
    BY <1>2, <2>1, <2>2 DEF ServerInv, Request
  <2>5. /\ db' \in State /\ db'.revision = db.revision + 1
        /\ db'.contents = request[s].undo.contents \cup {u}
        /\ request[s].undo.revision = db.revision
    BY <2>1, <2>2, <2>4, AppliedType, NextRevisionType
  <2>6. /\ memory'[s] = db' /\ request'[s] = q
        /\ \A t \in Server : t # s => memory'[t] = memory[t] /\ request'[t] = request[t]
    BY <1>1, <2>3 DEF TypeOK
  <2> HIDE DEF q
  <2>7. ServerInv(s)'
    BY <2>1, <2>3, <2>5, <2>6 DEF ServerInv, Handled, Committed
  <2>8. ASSUME NEW t \in Server, t # s
        PROVE  ServerInv(t)'
    <3>1. ASSUME Handled(t)
          PROVE  request[t].update \notin db'.contents
      <4>1. request[t].update # u
        BY <1>2, <2>1, <2>8, <3>1 DEF OneRequestPerUpdate, Handled
      <4>2. request[t].update \notin request[s].undo.contents
        BY <1>2, <2>4, <3>1 DEF ServerInv
      <4> QED
        BY <2>5, <4>1, <4>2
    <3> QED
      BY <1>2, <2>1, <2>6, <2>8, <3>1, OtherServer
  <2>9. OneRequestPerUpdate'
    BY <1>2, <2>1, <2>3, <2>6 DEF OneRequestPerUpdate
  <2>10. FilesInv'
    <3>1. ASSUME damages = 0
          PROVE  Latest' /\ db.contents \subseteq db'.contents
      <4>1. request[s].undo = db
        BY <1>2, <2>4, <2>5, <3>1 DEF FilesInv, Latest
      <4>2. db.contents \subseteq db'.contents
        BY <2>5, <4>1
      <4> QED
        BY <1>1, <1>2, <2>1, <2>5, <3>1, <4>2, CommitKeepsLatest DEF FilesInv
    <3> QED
      BY <1>2, <2>1, <3>1 DEF FilesInv
  <2> QED
    BY <2>7, <2>8, <2>9, <2>10
<1>6. ASSUME NEW s \in Server, Undo(s)
      PROVE  Goal
  <2>1. /\ Handled(s)
        /\ memory' = [memory EXCEPT ![s] = request[s].undo]
        /\ request' = [request EXCEPT ![s] = NoRequest]
        /\ UNCHANGED <<db, bak, damaged, up, acked, committed, damages>>
    BY <1>6 DEF Undo, Done, files, counters
  <2>2. ServerInv(s)'
    BY <1>1, <1>2, <2>1 DEF ServerInv, Handled, Committed, TypeOK
  <2>3. ASSUME NEW t \in Server, t # s
        PROVE  ServerInv(t)'
    BY <1>1, <1>2, <2>1, <2>3, OtherServer DEF TypeOK
  <2>4. OneRequestPerUpdate' /\ FilesInv'
    BY <1>1, <1>2, <2>1 DEF OneRequestPerUpdate, FilesInv, Latest, TypeOK
  <2> QED
    BY <2>2, <2>3, <2>4
<1>7. ASSUME NEW s \in Server, SaveConflict(s) \/ AtomicUpdateRefused(s)
      PROVE  Goal
  <2>1. /\ memory' = [memory EXCEPT ![s] = db]
        /\ request' = [request EXCEPT ![s] = NoRequest]
        /\ UNCHANGED <<db, bak, damaged, up, acked, committed, damages>>
    BY <1>1, <1>7
    DEF SaveConflict, AtomicUpdateRefused, Idle, Done, files, counters, TypeOK
  <2>2. ServerInv(s)'
    BY <1>1, <1>2, <2>1 DEF ServerInv, FilesInv, Handled, Committed, TypeOK
  <2>3. ASSUME NEW t \in Server, t # s
        PROVE  ServerInv(t)'
    BY <1>1, <1>2, <2>1, <2>3, OtherServer DEF TypeOK
  <2>4. OneRequestPerUpdate' /\ FilesInv'
    BY <1>1, <1>2, <2>1 DEF OneRequestPerUpdate, FilesInv, Latest, TypeOK
  <2> QED
    BY <2>2, <2>3, <2>4
<1>8. ASSUME NEW s \in Server, Backup(s)
      PROVE  Goal
  <2>1. /\ Committed(s) /\ bak' \in {bak, db}
        /\ acked' = acked \cup {request[s].update}
        /\ request' = [request EXCEPT ![s] = NoRequest]
        /\ UNCHANGED <<db, damaged, up, memory, committed, damages>>
    BY <1>8 DEF Backup, Done, counters
  <2>2. /\ memory[s] \in committed /\ request[s].update \in memory[s].contents
    BY <1>2, <2>1 DEF ServerInv, Handled, Committed
  <2>3. ServerInv(s)'
    BY <1>1, <2>1, <2>2 DEF ServerInv, Handled, Committed, TypeOK
  <2>4. ASSUME NEW t \in Server, t # s
        PROVE  ServerInv(t)'
    BY <1>1, <1>2, <2>1, <2>4, OtherServer DEF TypeOK
  <2>5. OneRequestPerUpdate'
    BY <1>1, <1>2, <2>1 DEF OneRequestPerUpdate, TypeOK
  <2>6. FilesInv'
    BY <1>2, <2>1, <2>2 DEF FilesInv, Latest
  <2> QED
    BY <2>3, <2>4, <2>5, <2>6
<1>9. ASSUME NEW s \in Server, Crash(s)
      PROVE  Goal
  <2>1. /\ up' = up \ {s}
        /\ memory' = [memory EXCEPT ![s] = NewState]
        /\ request' = [request EXCEPT ![s] = NoRequest]
        /\ UNCHANGED <<db, bak, damaged, acked, committed, damages>>
    BY <1>9 DEF Crash, Done, files, counters
  <2>2. ServerInv(s)'
    BY <1>1, <2>1 DEF ServerInv, Handled, Committed, TypeOK
  <2>3. ASSUME NEW t \in Server, t # s
        PROVE  ServerInv(t)'
    BY <1>1, <1>2, <2>1, <2>3, OtherServer DEF TypeOK
  <2>4. OneRequestPerUpdate' /\ FilesInv'
    BY <1>1, <1>2, <2>1 DEF OneRequestPerUpdate, FilesInv, Latest, TypeOK
  <2> QED
    BY <2>2, <2>3, <2>4
<1>10. ASSUME NEW s \in Server, Start(s)
      PROVE  Goal
  <2>1. /\ s \notin up /\ up' = up \cup {s}
        /\ damaged => bak # NoBackup
        /\ db' = IF damaged THEN bak ELSE db
        /\ damaged' = FALSE
        /\ memory' = [memory EXCEPT ![s] = db']
        /\ UNCHANGED <<bak, request, acked, committed, damages>>
    BY <1>10 DEF Start, counters
  <2>2. request[s] = NoRequest /\ db' \in committed
    BY <1>2, <2>1 DEF ServerInv, FilesInv
  <2>3. ServerInv(s)'
    BY <1>1, <2>1, <2>2 DEF ServerInv, Handled, Committed, TypeOK
  <2>4. ASSUME NEW t \in Server, t # s
        PROVE  ServerInv(t)'
    BY <1>1, <1>2, <2>1, <2>4, OtherServer DEF TypeOK
  <2>5. OneRequestPerUpdate' /\ FilesInv'
    BY <1>2, <2>1, <2>2 DEF OneRequestPerUpdate, FilesInv, Latest
  <2> QED
    BY <2>3, <2>4, <2>5
<1>11. ASSUME Damage
       PROVE  Goal
  <2>1. /\ damages' # 0
        /\ UNCHANGED <<db, bak, up, memory, request, acked, committed>>
    BY <1>1, <1>11, StoreAssumption DEF Damage, TypeOK
  <2>2. ASSUME NEW t \in Server
        PROVE  ServerInv(t)'
    BY <1>2, <2>1, OtherServer
  <2> QED
    BY <1>2, <2>1, <2>2 DEF OneRequestPerUpdate, FilesInv
<1>12. ASSUME UNCHANGED vars
       PROVE  Goal
  <2>1. ASSUME NEW t \in Server
        PROVE  ServerInv(t)'
    BY <1>2, <1>12, OtherServer DEF vars
  <2> QED
    BY <1>2, <1>12, <2>1 DEF OneRequestPerUpdate, FilesInv, Latest, vars
<1> HIDE DEF Goal
<1>13. Goal
  BY <1>1, <1>3, <1>4, <1>5, <1>6, <1>7, <1>8, <1>9, <1>10, <1>11, <1>12, NextCases
<1> QED
  BY <1>1, <1>13 DEF Goal, IInv

LEMMA InductiveInvariant == Spec => []IInv
BY InitIInv, NextIInv, PTL DEF Spec

-----------------------------------------------------------------------------
(* The theorems.                                                           *)

\* No read ever sees anything but a committed state: whatever is refused, fails
\* or crashes, and even when the file was restored from the backup.
THEOREM OnlyCommittedIsRead == Spec => []ReadsAreCommitted
<1>1. IInv => ReadsAreCommitted
  BY DEF IInv, TypeOK, ServerInv, ReadsAreCommitted, Handled
<1> QED
  BY <1>1, InductiveInvariant, PTL

\* What was acknowledged is in the file as long as the file was never damaged.
THEOREM AcknowledgedKept == Spec => []AcknowledgedIsStored
<1>1. IInv => AcknowledgedIsStored
  BY DEF IInv, FilesInv, AcknowledgedIsStored
<1> QED
  BY <1>1, InductiveInvariant, PTL

\* A write sent with If-Match commits only on top of the revision it names.
THEOREM IfMatchIsHonoured == Spec => IfMatchHonoured
<1> DEFINE Honoured(s) == Committed(s)' /\ ~Committed(s) => IfMatch(request'[s].expected, db)
<1>1. ASSUME IInv, IInv', [Next]_vars, NEW s \in Server
      PROVE  Honoured(s)
  <2>1. TypeOK /\ ServerInv(s)
    BY <1>1 DEF IInv
  <2>2. ASSUME NEW t \in Server, NEW u \in Update, NEW x \in Nat \cup {AnyRevision},
               Handle(t, u, x) \/ AtomicUpdate(t, u, x)
        PROVE  Honoured(s)
    BY <2>1, <2>2 DEF Handle, AtomicUpdate, Idle, Committed, TypeOK
  <2>3. ASSUME NEW t \in Server, Save(t)
        PROVE  Honoured(s)
    <3>1. t = s => IfMatch(request'[s].expected, db)
      <4>1. ASSUME t = s
            PROVE  /\ request[s] \in Request /\ request'[s].expected = request[s].expected
                   /\ IfMatch(request[s].expected, request[s].undo)
                   /\ memory[s] = Applied(request[s].undo, request[s].update)
                   /\ memory[s].revision = db.revision
        BY <2>1, <2>3, <4>1, CommittedRequest DEF Save, Handled, TypeOK, ServerInv
      <4>2. ASSUME t = s
            PROVE  request[s].undo.revision = db.revision
        BY <4>1, <4>2, AppliedType DEF Request
      <4> QED
        BY <4>1, <4>2 DEF IfMatch
    <3>2. t # s => request'[s] = request[s] /\ up' = up
      BY <2>1, <2>3 DEF Save, TypeOK
    <3> QED
      BY <3>1, <3>2 DEF Committed
  <2>4. ASSUME NEW t \in Server,
               Undo(t) \/ SaveConflict(t) \/ AtomicUpdateRefused(t) \/ Backup(t) \/ Crash(t)
        PROVE  Honoured(s)
    BY <2>1, <2>4
    DEF Undo, SaveConflict, AtomicUpdateRefused, Backup, Crash, Done, Committed, TypeOK
  <2>5. ASSUME NEW t \in Server, Start(t)
        PROVE  Honoured(s)
    BY <2>1, <2>5 DEF Start, Committed, ServerInv
  <2>6. ASSUME Damage \/ UNCHANGED vars
        PROVE  Honoured(s)
    BY <2>6 DEF Damage, vars, Committed
  <2> HIDE DEF Honoured
  <2> QED
    BY <1>1, <2>1, <2>2, <2>3, <2>4, <2>5, <2>6, NextCases
<1>2. IInv /\ IInv' /\ [Next]_vars => \A s \in Server : Honoured(s)
  BY <1>1
<1>3. (\A s \in Server : Honoured(s)) =>
        [\A s \in Server :
           Committed(s)' /\ ~Committed(s) => IfMatch(request'[s].expected, db)]_vars
  OBVIOUS
<1> QED
  BY <1>2, <1>3, InductiveInvariant, PTL DEF Spec, IfMatchHonoured

-----------------------------------------------------------------------------
(* Refinement.                                                             *)

\* Every step commits one new update on top of what is stored, or leaves what
\* is stored alone.
LEMMA StepRefines ==
  MaxDamage = 0 /\ IInv /\ [Next]_vars => [Store!Next]_(Store!vars)
<1> SUFFICES ASSUME MaxDamage = 0, IInv, [Next]_vars PROVE [Store!Next]_(Store!vars)
  OBVIOUS
<1>1. TypeOK /\ damages = 0 /\ ~damaged /\ Latest /\ db \in committed
  BY DEF IInv, TypeOK, FilesInv
<1>2. ASSUME NEW s \in Server, NEW u \in Update, NEW x \in Nat \cup {AnyRevision},
             AtomicUpdate(s, u, x)
      PROVE  Store!Commit(u)
  BY <1>1, <1>2, AppliedType, NextRevisionType
  DEF AtomicUpdate, Unused, Store!Commit, TypeOK
<1>3. ASSUME NEW s \in Server, Save(s)
      PROVE  request[s].update \in Update /\ Store!Commit(request[s].update)
  <2> DEFINE u == request[s].update
             base == request[s].undo
  <2>1. /\ request[s] \in Request /\ memory[s] \in State
        /\ db.revision = memory[s].revision /\ db' = NextRevision(memory[s])
    BY <1>1, <1>3 DEF Save, Handled, TypeOK
  <2>2. /\ base \in committed /\ memory[s] = Applied(base, u)
        /\ u \notin db.contents
    BY <1>1, <1>3 DEF Save, IInv, ServerInv
  <2>3. base \in State /\ u \in Update
    BY <2>1 DEF Request
  <2>4. base = db
    BY <1>1, <2>1, <2>2, <2>3, AppliedType DEF Latest
  <2> QED
    BY <2>1, <2>2, <2>3, <2>4, AppliedType, NextRevisionType DEF Store!Commit
<1>4. ASSUME NEW s \in Server, NEW u \in Update, NEW x \in Nat \cup {AnyRevision},
             Handle(s, u, x)
      PROVE  UNCHANGED db
  BY <1>4 DEF Handle, files
<1>5. ASSUME NEW s \in Server,
             \/ Undo(s) \/ SaveConflict(s) \/ AtomicUpdateRefused(s)
             \/ Backup(s) \/ Crash(s) \/ Start(s)
      PROVE  UNCHANGED db
  BY <1>1, <1>5
  DEF Undo, SaveConflict, AtomicUpdateRefused, Backup, Crash, Start, files
<1>6. ASSUME Damage \/ UNCHANGED vars
      PROVE  UNCHANGED db
  BY <1>6 DEF Damage, vars
<1>7. (\E u \in Update : Store!Commit(u)) \/ UNCHANGED db
  BY <1>1, <1>2, <1>3, <1>4, <1>5, <1>6, NextCases
<1> QED
  BY <1>7 DEF Store!Next, Store!vars

\* As long as the file is never damaged, any number of processes writing to it
\* is one sequence of writes, each on top of all earlier ones.
THEOREM ImplementsStore == ASSUME MaxDamage = 0 PROVE Spec => ImplementsAtomicStore
<1>1. Init => Store!Init
  BY DEF Init, Store!Init, NewState
<1>2. IInv /\ [Next]_vars => [Store!Next]_(Store!vars)
  BY StepRefines
<1> QED
  BY <1>1, <1>2, InductiveInvariant, PTL DEF Spec, ImplementsAtomicStore, Store!Spec

-----------------------------------------------------------------------------
(* A single process.                                                       *)

\* What a process has in its memory is the file, with the update in its hands.
MemoryIsFile(s) ==
  /\ ~Handled(s) => memory[s] = db
  /\ Handled(s) => request[s].undo = db /\ memory[s] = Applied(db, request[s].update)
  /\ Committed(s) => request[s].update \in db.contents

\* As long as no backup failed, the backup is between what was acknowledged
\* and the file.
BackupBetween ==
  backupFailures = 0 => acked \subseteq BackedUp /\ BackedUp \subseteq db.contents

AloneInv == (\A s \in up : MemoryIsFile(s)) /\ BackupBetween

LEMMA AloneInitially ==
  ASSUME Init
  PROVE  AloneInv
  BY DEF Init, AloneInv, MemoryIsFile, BackupBetween, BackedUp, Handled, Committed, NewState

LEMMA AloneStays ==
  ASSUME \A s, t \in Server : s = t, IInv, AloneInv, [Next]_vars
  PROVE  AloneInv'
<1>0. TypeOK /\ \A s \in Server : request[s] # NoRequest => s \in up
  BY DEF IInv, ServerInv
<1>1. ASSUME NEW s \in Server, NEW u \in Update, NEW x \in Nat \cup {AnyRevision},
             Handle(s, u, x)
      PROVE  AloneInv'
  <2>1. s \in up /\ memory[s] = db /\ s \in Server
    BY <1>1 DEF Handle, Idle, Handled, AloneInv, MemoryIsFile
  <2>2. memory'[s] = Applied(db, u)
    BY <1>0, <1>1, <2>1 DEF Handle, TypeOK
  <2>3. /\ request'[s].update = u /\ request'[s].undo = db /\ request'[s].stage = "handled"
        /\ UNCHANGED <<files, up, acked, counters>>
    BY <1>0, <1>1, <2>1 DEF Handle, TypeOK
  <2>4. MemoryIsFile(s)'
    <3>1. request'[s] # NoRequest
      <4>1. memory[s] \in State
        BY <1>0 DEF TypeOK
      <4>2. [update |-> u, expected |-> x, undo |-> memory[s], stage |-> "handled"] \in Request
        BY <4>1, RequestType
      <4>3. request'[s] = [update |-> u, expected |-> x, undo |-> memory[s], stage |-> "handled"]
        BY <1>0, <1>1 DEF Handle, TypeOK
      <4> QED  BY <4>2, <4>3, NoRequestDiffers
    <3> QED  BY <2>1, <2>2, <2>3, <3>1 DEF MemoryIsFile, Handled, Committed, files
  <2>5. \A r \in up' : r = s
    BY <1>0, <2>3 DEF TypeOK
  <2> QED  BY <2>3, <2>4, <2>5 DEF AloneInv, BackupBetween, BackedUp, files, counters
<1>2. ASSUME NEW s \in Server, NEW u \in Update, NEW x \in Nat \cup {AnyRevision},
             AtomicUpdate(s, u, x)
      PROVE  AloneInv'
  <2>1. db' = NextRevision(Applied(db, u)) /\ s \in up /\ memory'[s] = db'
    BY <1>0, <1>2 DEF AtomicUpdate, TypeOK, Idle
  <2>2. db'.contents = db.contents \cup {u}
    BY <1>0, <2>1, AppliedType, NextRevisionType DEF TypeOK
  <2>3. /\ request'[s].update = u /\ request'[s].stage = "committed"
        /\ UNCHANGED <<bak, up, acked, counters>>
    BY <1>0, <1>2 DEF AtomicUpdate, TypeOK
  <2>4. MemoryIsFile(s)'
    BY <2>1, <2>2, <2>3 DEF MemoryIsFile, Handled, Committed
  <2>5. \A r \in up' : r = s
    BY <1>0, <2>3 DEF TypeOK
  <2> QED  BY <2>2, <2>3, <2>4, <2>5 DEF AloneInv, BackupBetween, BackedUp, counters
<1>3. ASSUME NEW s \in Server, Undo(s)
      PROVE  AloneInv'
  <2>1. /\ s \in up /\ request[s].undo = db /\ memory'[s] = db /\ request'[s] = NoRequest
        /\ UNCHANGED <<files, up, acked, counters>>
    BY <1>0, <1>3 DEF Undo, Handled, Done, TypeOK, AloneInv, MemoryIsFile
  <2>2. MemoryIsFile(s)'
    BY <2>1 DEF MemoryIsFile, Handled, Committed, files
  <2>3. \A r \in up' : r = s
    BY <1>0, <2>1 DEF TypeOK
  <2> QED  BY <2>1, <2>2, <2>3 DEF AloneInv, BackupBetween, BackedUp, files, counters
<1>4. ASSUME NEW s \in Server, Save(s)
      PROVE  AloneInv'
  <2>1. /\ s \in up /\ Handled(s) /\ memory[s] = Applied(db, request[s].update)
        /\ request[s] \in Request /\ request[s].update \in Update
    BY <1>0, <1>4 DEF Save, Handled, AloneInv, MemoryIsFile, TypeOK, Request
  <2>2. db' = NextRevision(memory[s]) /\ memory'[s] = db' /\ UNCHANGED <<bak, up, acked, counters>>
    BY <1>0, <1>4 DEF Save, TypeOK
  <2>3. db'.contents = db.contents \cup {request[s].update}
    BY <1>0, <2>1, <2>2, AppliedType, NextRevisionType DEF TypeOK
  <2>4. request'[s] = [request[s] EXCEPT !.stage = "committed"]
    BY <1>0, <1>4 DEF Save, TypeOK
  <2>5. request'[s].update = request[s].update /\ request'[s].stage = "committed"
    BY <2>1, <2>4, CommittedRequest
  <2>6. MemoryIsFile(s)'
    BY <2>1, <2>2, <2>3, <2>5 DEF MemoryIsFile, Handled, Committed
  <2>7. \A r \in up' : r = s
    BY <1>0, <2>2 DEF TypeOK
  <2> QED  BY <2>2, <2>3, <2>6, <2>7 DEF AloneInv, BackupBetween, BackedUp, counters
<1>5. ASSUME NEW s \in Server, SaveConflict(s) \/ AtomicUpdateRefused(s)
      PROVE  AloneInv'
  <2>1. /\ s \in up /\ memory'[s] = db /\ request'[s] = NoRequest
        /\ UNCHANGED <<files, up, acked, counters>>
    BY <1>0, <1>5 DEF SaveConflict, AtomicUpdateRefused, Handled, Idle, Done, TypeOK
  <2>2. MemoryIsFile(s)'
    BY <2>1 DEF MemoryIsFile, Handled, Committed, files
  <2>3. \A r \in up' : r = s
    BY <1>0, <2>1 DEF TypeOK
  <2> QED  BY <2>1, <2>2, <2>3 DEF AloneInv, BackupBetween, BackedUp, files, counters
<1>6. ASSUME NEW s \in Server, Backup(s)
      PROVE  AloneInv'
  <2>1. /\ s \in up /\ memory[s] = db /\ request[s].update \in db.contents
        /\ request'[s] = NoRequest /\ UNCHANGED <<db, up, memory>>
        /\ acked' = acked \cup {request[s].update}
    BY <1>0, <1>6 DEF Backup, Committed, Handled, Done, TypeOK, AloneInv, MemoryIsFile
  <2>2. MemoryIsFile(s)'
    BY <2>1 DEF MemoryIsFile, Handled, Committed
  <2>3. \A r \in up' : r = s
    BY <1>0, <2>1 DEF TypeOK
  <2>4. ASSUME bak' = db, UNCHANGED counters PROVE BackupBetween'
    BY <1>0, <2>1, <2>4, NoBackupDiffers DEF TypeOK, AloneInv, BackupBetween, BackedUp, counters
  <2>5. ASSUME backupFailures' = backupFailures + 1 PROVE BackupBetween'
    BY <1>0, <2>5 DEF BackupBetween, TypeOK
  <2>6. BackupBetween'
    BY <1>6, <2>4, <2>5 DEF Backup
  <2> QED  BY <2>2, <2>3, <2>6 DEF AloneInv
<1>7. ASSUME NEW s \in Server, Crash(s)
      PROVE  AloneInv'
  <2>1. up' = {} /\ UNCHANGED <<files, acked, counters>>
    BY <1>0, <1>7 DEF Crash, TypeOK
  <2> QED  BY <2>1 DEF AloneInv, BackupBetween, BackedUp, files, counters
<1>8. ASSUME NEW s \in Server, Start(s)
      PROVE  AloneInv'
  <2>0. request[s] = NoRequest
    BY <1>0, <1>8 DEF Start
  <2>1. /\ memory'[s] = db' /\ UNCHANGED <<bak, request, acked, counters>>
        /\ (bak # NoBackup /\ db' = bak) \/ db' = db
    BY <1>0, <1>8 DEF Start, TypeOK
  <2>2. MemoryIsFile(s)'
    BY <2>0, <2>1 DEF MemoryIsFile, Handled, Committed
  <2>3. \A r \in up' : r = s
    BY <1>0, <1>8 DEF TypeOK, Start
  <2> QED  BY <2>1, <2>2, <2>3 DEF AloneInv, BackupBetween, BackedUp, counters
<1>9. ASSUME Damage
      PROVE  AloneInv'
  BY <1>9 DEF Damage, AloneInv, BackupBetween, BackedUp, MemoryIsFile, Handled, Committed
<1>10. ASSUME UNCHANGED vars
       PROVE  AloneInv'
  BY <1>10 DEF vars, files, counters, AloneInv, BackupBetween, BackedUp, MemoryIsFile, Handled, Committed
<1> QED
  BY <1>0, <1>1, <1>2, <1>3, <1>4, <1>5, <1>6, <1>7, <1>8, <1>9, <1>10, NextCases

\* A single process loses nothing it acknowledged to damage of the file, as long
\* as no backup has failed.
THEOREM AcknowledgedSurvives ==
  ASSUME \A s, t \in Server : s = t PROVE Spec => []AcknowledgedSurvivesDamage
<1>1. IInv /\ AloneInv /\ [Next]_vars => AloneInv'
  BY AloneStays
<1>2. AloneInv => AcknowledgedSurvivesDamage
  BY DEF AloneInv, BackupBetween, BackedUp, AcknowledgedSurvivesDamage
<1> QED
  BY <1>1, <1>2, AloneInitially, InductiveInvariant, PTL DEF Spec
=============================================================================
