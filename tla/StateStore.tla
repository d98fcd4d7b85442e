----------------------------- MODULE StateStore -----------------------------
(***************************************************************************)
(* sdbr/state_store.py and the write path of sdbr/api.py around it: API    *)
(* processes that share one SQLite file, each with the whole state in its  *)
(* memory.  A write request changes the memory under the process's state   *)
(* lock and saves it if the file still has the revision the memory was     *)
(* loaded with; execute, process-queued and renew-lease instead reload,    *)
(* change and write inside one BEGIN IMMEDIATE transaction.  A commit is   *)
(* followed by a backup of the file, and a process that finds the file     *)
(* damaged starts from that backup, or, before there is one, not at all.   *)
(*                                                                         *)
(* The contents of the state are the set of updates applied to it.  A      *)
(* request refused before it touched anything (If-Match, authorization)    *)
(* changes nothing and is no action here; reads hold the same lock and     *)
(* see memory[s].                                                          *)
(***************************************************************************)
EXTENDS Integers, FiniteSets

CONSTANTS
  Server,              \* API processes
  Update,              \* the effects of write requests
  AnyRevision,         \* a request without If-Match
  NoRequest,
  NoBackup,            \* there is no backup file yet
  MaxDamage,           \* bound: how often the file is damaged
  MaxBackupFailures    \* bound: how often a backup fails

ASSUME StoreAssumption ==
  /\ AnyRevision \notin Nat
  /\ NoRequest \notin [update: Update, expected: Nat \cup {AnyRevision},
                       undo: [contents: SUBSET Update, revision: Nat],
                       stage: {"handled", "committed"}]
  /\ NoBackup \notin [contents: SUBSET Update, revision: Nat]
  /\ MaxDamage \in Nat /\ MaxBackupFailures \in Nat

VARIABLES
  db,          \* what the database file holds
  bak,         \* what the backup file holds, once there is one
  damaged,     \* the database file cannot be read
  up,          \* the processes that run
  memory,      \* the state in the memory of each process
  request,     \* the write request each process is serving
  acked,       \* the updates answered with success
  committed,   \* every state ever committed
  damages, backupFailures

vars == <<db, bak, damaged, up, memory, request, acked, committed, damages, backupFailures>>
files == <<db, bak, damaged>>
counters == <<damages, backupFailures>>

State == [contents: SUBSET Update, revision: Nat]

Request ==
  [update: Update, expected: Nat \cup {AnyRevision}, undo: State, stage: {"handled", "committed"}]

NewState == [contents |-> {}, revision |-> 0]

Init ==
  /\ db = NewState /\ bak = NoBackup /\ damaged = FALSE
  /\ up = Server
  /\ memory = [s \in Server |-> NewState]
  /\ request = [s \in Server |-> NoRequest]
  /\ acked = {} /\ committed = {NewState}
  /\ damages = 0 /\ backupFailures = 0

-----------------------------------------------------------------------------

Applied(state, u) == [state EXCEPT !.contents = @ \cup {u}]

NextRevision(state) == [state EXCEPT !.revision = @ + 1]

\* A new effect; one whose request failed may be requested again.
Unused(u) ==
  /\ \A c \in committed : u \notin c.contents
  /\ \A s \in Server : request[s] # NoRequest => request[s].update # u

Idle(s) == s \in up /\ request[s] = NoRequest
Handled(s) == s \in up /\ request[s] # NoRequest /\ request[s].stage = "handled"
Committed(s) == s \in up /\ request[s] # NoRequest /\ request[s].stage = "committed"

\* _client_revision_from_if_match against the revision of a state.
IfMatch(expected, state) == expected = AnyRevision \/ expected = state.revision

Done(s) == request' = [request EXCEPT ![s] = NoRequest]

-----------------------------------------------------------------------------
(* A request through persist_successful_writes.                            *)

\* If-Match is compared with the memory, the memory is snapshotted and the
\* handler changes it.
Handle(s, u, expected) ==
  /\ Idle(s) /\ Unused(u) /\ IfMatch(expected, memory[s])
  /\ memory' = [memory EXCEPT ![s] = Applied(@, u)]
  /\ request' = [request EXCEPT ![s] =
       [update |-> u, expected |-> expected, undo |-> memory[s], stage |-> "handled"]]
  /\ UNCHANGED <<files, up, acked, committed, counters>>

\* The handler answers with an error or raises, or save fails on the file.
Undo(s) ==
  /\ Handled(s)
  /\ memory' = [memory EXCEPT ![s] = request[s].undo]
  /\ Done(s)
  /\ UNCHANGED <<files, up, acked, committed, counters>>

\* Deviation of Save: the revision in the file is not compared.
SaveUnchecked(s) ==
  /\ Handled(s) /\ ~damaged
  /\ db' = NextRevision(memory[s])
  /\ memory' = [memory EXCEPT ![s] = NextRevision(@)]
  /\ committed' = committed \cup {db'}
  /\ request' = [request EXCEPT ![s].stage = "committed"]
  /\ UNCHANGED <<bak, damaged, up, acked, counters>>

\* save() commits.
Save(s) ==
  /\ Handled(s) /\ ~damaged
  /\ db.revision = memory[s].revision
  /\ db' = NextRevision(memory[s])
  /\ memory' = [memory EXCEPT ![s] = NextRevision(@)]
  /\ committed' = committed \cup {db'}
  /\ request' = [request EXCEPT ![s].stage = "committed"]
  /\ UNCHANGED <<bak, damaged, up, acked, counters>>

\* Deviation of SaveConflict: the client is told its write was saved.
SaveConflictAcknowledged(s) ==
  /\ Handled(s) /\ ~damaged
  /\ db.revision # memory[s].revision
  /\ memory' = [memory EXCEPT ![s] = db]
  /\ acked' = acked \cup {request[s].update}
  /\ Done(s)
  /\ UNCHANGED <<files, up, committed, counters>>

\* save() finds another revision: the memory is reloaded, the answer is 409.
SaveConflict(s) ==
  /\ Handled(s) /\ ~damaged
  /\ db.revision # memory[s].revision
  /\ memory' = [memory EXCEPT ![s] = db]
  /\ Done(s)
  /\ UNCHANGED <<files, up, acked, committed, counters>>

-----------------------------------------------------------------------------
(* A request through atomic_update.                                        *)

\* Deviation of AtomicUpdate: If-Match is compared with the stale memory.
AtomicUpdateStaleMatch(s, u, expected) ==
  /\ Idle(s) /\ Unused(u) /\ ~damaged /\ IfMatch(expected, memory[s])
  /\ db' = NextRevision(Applied(db, u))
  /\ memory' = [memory EXCEPT ![s] = db']
  /\ committed' = committed \cup {db'}
  /\ request' = [request EXCEPT ![s] =
       [update |-> u, expected |-> expected, undo |-> db, stage |-> "committed"]]
  /\ UNCHANGED <<bak, damaged, up, acked, counters>>

AtomicUpdate(s, u, expected) ==
  /\ Idle(s) /\ Unused(u) /\ ~damaged /\ IfMatch(expected, db)
  /\ db' = NextRevision(Applied(db, u))
  /\ memory' = [memory EXCEPT ![s] = db']
  /\ committed' = committed \cup {db'}
  /\ request' = [request EXCEPT ![s] =
       [update |-> u, expected |-> expected, undo |-> db, stage |-> "committed"]]
  /\ UNCHANGED <<bak, damaged, up, acked, counters>>

\* Deviation of AtomicUpdateRefused: the rejected mutation stays in memory.
AtomicUpdateKept(s) ==
  /\ Idle(s) /\ ~damaged
  /\ \E u \in Update : Unused(u) /\ memory' = [memory EXCEPT ![s] = Applied(db, u)]
  /\ UNCHANGED <<files, up, request, acked, committed, counters>>

\* If-Match fails, the mutation is rejected, or the write fails: what was read
\* at the start of the transaction is restored to the memory.
AtomicUpdateRefused(s) ==
  /\ Idle(s) /\ ~damaged
  /\ memory' = [memory EXCEPT ![s] = db]
  /\ UNCHANGED <<files, up, request, acked, committed, counters>>

-----------------------------------------------------------------------------
(* After a commit, and the environment.                                    *)

\* Deviation of Backup: the commit is not copied.
BackupSkipped(s) ==
  /\ Committed(s)
  /\ acked' = acked \cup {request[s].update}
  /\ Done(s)
  /\ UNCHANGED <<files, up, memory, committed, counters>>

\* _committed_outcome; the answer is a success whether the backup succeeds or
\* not.
Backup(s) ==
  /\ Committed(s)
  /\ \/ ~damaged /\ bak' = db /\ UNCHANGED counters
     \/ /\ backupFailures < MaxBackupFailures
        /\ backupFailures' = backupFailures + 1
        /\ UNCHANGED <<bak, damages>>
  /\ acked' = acked \cup {request[s].update}
  /\ Done(s)
  /\ UNCHANGED <<db, damaged, up, memory, committed>>

\* The process dies; what a client was not told is not known to it.
Crash(s) ==
  /\ s \in up
  /\ up' = up \ {s}
  /\ memory' = [memory EXCEPT ![s] = NewState]
  /\ Done(s)
  /\ UNCHANGED <<files, acked, committed, counters>>

\* SQLiteWorkbenchStateStore.__init__; a damaged file is replaced by the backup,
\* and where there is none the constructor raises and the process stays down.
Start(s) ==
  /\ s \notin up
  /\ damaged => bak # NoBackup
  /\ up' = up \cup {s}
  /\ db' = IF damaged THEN bak ELSE db
  /\ damaged' = FALSE
  /\ memory' = [memory EXCEPT ![s] = db']
  /\ UNCHANGED <<bak, request, acked, committed, counters>>

Damage ==
  /\ damages < MaxDamage /\ ~damaged
  /\ damaged' = TRUE /\ damages' = damages + 1
  /\ UNCHANGED <<db, bak, up, memory, request, acked, committed, backupFailures>>

Next ==
  \/ \E s \in Server, u \in Update, expected \in {AnyRevision} \cup {c.revision : c \in committed} :
       Handle(s, u, expected) \/ AtomicUpdate(s, u, expected)
  \/ \E s \in Server :
       \/ Undo(s) \/ Save(s) \/ SaveConflict(s)
       \/ AtomicUpdateRefused(s) \/ Backup(s)
       \/ Crash(s) \/ Start(s)
  \/ Damage

Spec == Init /\ [][Next]_vars

-----------------------------------------------------------------------------
(* What the store promises.                                                *)

\* Every variable has its type.
TypeOK ==
  /\ db \in State /\ bak \in State \cup {NoBackup} /\ damaged \in BOOLEAN
  /\ up \subseteq Server
  /\ memory \in [Server -> State]
  /\ request \in [Server -> Request \cup {NoRequest}]
  /\ acked \subseteq Update /\ committed \subseteq State
  /\ damages \in 0..MaxDamage /\ backupFailures \in 0..MaxBackupFailures

\* What a read is answered with was committed, with the revision it is labelled
\* with: no refused, failed or half-done write is ever visible.
ReadsAreCommitted ==
  \A s \in up : request[s] = NoRequest => memory[s] \in committed

\* While the file stays readable, what a client was told is saved is in it.
AcknowledgedIsStored == damages = 0 => acked \subseteq db.contents

\* What a backup would restore.
BackedUp == IF bak = NoBackup THEN {} ELSE bak.contents

\* What was acknowledged survives damage to the file as long as no backup has
\* failed.  For a single process: a second one that kept an older state in its
\* memory while the first restored the file can back up the restored file.
AcknowledgedSurvivesDamage ==
  backupFailures = 0 => acked \subseteq IF damaged THEN BackedUp ELSE db.contents

\* A write sent with If-Match is only committed on top of that very revision.
IfMatchHonoured ==
  [][\A s \in Server :
       Committed(s)' /\ ~Committed(s) => IfMatch(request'[s].expected, db)]_vars

\* A commit keeps everything committed before it.
CommitsExtend ==
  [][db'.revision > db.revision => db.contents \subseteq db'.contents]_vars

Store == INSTANCE AtomicStore WITH contents <- db.contents, revision <- db.revision

\* Writes from any number of processes take effect one after the other, each on
\* top of all earlier ones.
ImplementsAtomicStore == Store!Spec
=============================================================================
