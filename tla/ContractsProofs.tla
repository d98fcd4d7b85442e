--------------------------- MODULE ContractsProofs ---------------------------
(* Theorems about Contracts and the four ledgers it is composed of, for every *)
(* value of their constants.                                                  *)
EXTENDS Contracts, FiniteSetTheorems, WellFoundedInduction, TLAPS

-----------------------------------------------------------------------------
(* Sequences of whatever messages consist of, and the least of their indices. *)

IsSeq(s) == \E S : s \in Seq(S)

LEMMA SeqIsSeq ==
  ASSUME NEW S, NEW s \in Seq(S) PROVE IsSeq(s)
  BY DEF IsSeq

LEMMA NoneIsSeq == IsSeq(<<>>)
  <1>1. <<>> \in Seq(BOOLEAN)
    OBVIOUS
  <1> QED  BY <1>1, SeqIsSeq

LEMMA NothingInEmpty == \A i \in DOMAIN <<>> : FALSE
  OBVIOUS

LEMMA AppendSeq ==
  ASSUME NEW s, IsSeq(s), NEW x
  PROVE  /\ IsSeq(Append(s, x))
         /\ \A i \in DOMAIN s : i \in DOMAIN Append(s, x) /\ Append(s, x)[i] = s[i]
         /\ \A i \in DOMAIN Append(s, x) : i \in DOMAIN s \/ Append(s, x)[i] = x
         /\ \E n \in DOMAIN Append(s, x) : /\ n \notin DOMAIN s /\ Append(s, x)[n] = x
                                           /\ \A i \in DOMAIN Append(s, x) : i \in DOMAIN s \/ i = n
  <1>1. PICK S : s \in Seq(S)
    BY DEF IsSeq
  <1> DEFINE T == S \cup {x}
  <1>2. s \in Seq(T)
    BY <1>1
  <1>3. Append(s, x) \in Seq(T) /\ DOMAIN Append(s, x) = 1 .. Len(s) + 1
    BY <1>2
  <1>4. DOMAIN s = 1 .. Len(s) /\ Len(s) \in Nat
    BY <1>1
  <1>5. \A i \in 1 .. Len(s) : Append(s, x)[i] = s[i]
    BY <1>2
  <1>6. Append(s, x)[Len(s) + 1] = x
    BY <1>2
  <1> HIDE DEF T
  <1> QED  BY <1>3, <1>4, <1>5, <1>6 DEF IsSeq

LEMMA AppendAt ==
  ASSUME NEW s, IsSeq(s), NEW x
  PROVE  LET n == Len(s) + 1 IN
         /\ DOMAIN s \subseteq Nat /\ n \in Nat /\ n \notin DOMAIN s
         /\ DOMAIN Append(s, x) = DOMAIN s \cup {n}
         /\ Append(s, x)[n] = x
         /\ \A i \in DOMAIN s : i < n /\ ~(n < i) /\ Append(s, x)[i] = s[i]
  <1>1. PICK S : s \in Seq(S)
    BY DEF IsSeq
  <1> DEFINE T == S \cup {x}
  <1>2. s \in Seq(T)
    BY <1>1
  <1>3. DOMAIN Append(s, x) = 1 .. Len(s) + 1 /\ Append(s, x)[Len(s) + 1] = x
    BY <1>2
  <1>4. DOMAIN s = 1 .. Len(s) /\ Len(s) \in Nat
    BY <1>1
  <1>5. \A i \in 1 .. Len(s) : Append(s, x)[i] = s[i]
    BY <1>2
  <1> HIDE DEF T
  <1> QED  BY <1>3, <1>4, <1>5

LEMMA Least ==
  ASSUME NEW S \in SUBSET Nat, S # {}
  PROVE  Min(S) \in S /\ \A m \in S : Min(S) <= m
  <1> DEFINE less == {p \in Nat \X Nat : p[1] < p[2]}
  <1>1. IsWellFoundedOn(less, Nat)
    BY NatLessThanWellFounded, Zenon DEF OpToRel
  <1>2. \E n \in S : \A m \in S : <<m, n>> \notin less
    BY <1>1, WFMin, Zenon
  <1>3. \A m, n \in Nat : <<m, n>> \notin less => n <= m
    OBVIOUS
  <1>4. \E n \in S : \A m \in S : n <= m
    BY <1>2, <1>3
  <1> QED  BY <1>4 DEF Min

LEMMA TailSeq ==
  ASSUME NEW s, IsSeq(s), s # <<>>
  PROVE  /\ IsSeq(Tail(s))
         /\ 1 \in DOMAIN s /\ Head(s) = s[1]
         /\ \A i \in DOMAIN Tail(s) : i + 1 \in DOMAIN s /\ Tail(s)[i] = s[i + 1]
  <1>1. PICK S : s \in Seq(S)
    BY DEF IsSeq
  <1>2. Tail(s) \in Seq(S)
    BY <1>1
  <1>3. Len(s) \in Nat \ {0} /\ DOMAIN s = 1 .. Len(s)
    BY <1>1
  <1>4. DOMAIN Tail(s) = 1 .. Len(s) - 1
    BY <1>1, <1>3
  <1>5. \A i \in 1 .. Len(s) - 1 : Tail(s)[i] = s[i + 1]
    BY <1>1, <1>3
  <1> QED  BY <1>1, <1>2, <1>3, <1>4, <1>5 DEF IsSeq

LEMMA ConcatSeq ==
  ASSUME NEW s, NEW t, IsSeq(s), IsSeq(t)
  PROVE  /\ IsSeq(s \o t)
         /\ \A i \in DOMAIN (s \o t) :
              \/ i \in DOMAIN s /\ (s \o t)[i] = s[i]
              \/ i - Len(s) \in DOMAIN t /\ (s \o t)[i] = t[i - Len(s)] /\ i \notin DOMAIN s
         /\ Len(s) \in Int
         /\ \A i \in DOMAIN (s \o t) : i \in Int
  <1>1. PICK S : s \in Seq(S)
    BY DEF IsSeq
  <1>2. PICK T : t \in Seq(T)
    BY DEF IsSeq
  <1> DEFINE U == S \cup T
  <1>3. s \in Seq(U) /\ t \in Seq(U)
    BY <1>1, <1>2
  <1> HIDE DEF U
  <1>4. s \o t \in Seq(U) /\ Len(s \o t) = Len(s) + Len(t)
    BY <1>3
  <1>5. Len(s) \in Nat /\ Len(t) \in Nat /\ DOMAIN s = 1 .. Len(s) /\ DOMAIN t = 1 .. Len(t)
    BY <1>3
  <1>6. DOMAIN (s \o t) = 1 .. Len(s) + Len(t)
    BY <1>4, <1>5
  <1>7. \A i \in 1 .. Len(s) : (s \o t)[i] = s[i]
    BY <1>3, <1>5
  <1>8. \A i \in Len(s) + 1 .. Len(s) + Len(t) : (s \o t)[i] = t[i - Len(s)]
    BY <1>3, <1>5
  <1> QED  BY <1>4, <1>5, <1>6, <1>7, <1>8 DEF IsSeq

-----------------------------------------------------------------------------
(* The exchange with DDAE: its inductive invariant.                          *)

RunFields == {"config", "content", "path", "status"}

ShapeInv ==
  /\ IsSeq(inbound) /\ IsSeq(counted) /\ IsSeq(ledger)
  /\ IsSeq(delivering.queue) /\ IsSeq(delivering.records)
  /\ delivering = [run |-> delivering.run, queue |-> delivering.queue,
                   records |-> delivering.records]
  /\ runs = [r \in DOMAIN runs |-> runs[r]]
  /\ \A r \in DOMAIN runs : RunFields \subseteq DOMAIN runs[r]

AcceptedAs(config, content) ==
  \E i \in DOMAIN inbound :
    inbound[i].status \in Accepting /\ inbound[i].config = config /\ inbound[i].content = content

\* The register holds what was accepted, and calls usable what is complete.
RegisterEntry(c, entry) ==
  /\ AcceptedAs(c, entry.content)
  /\ entry.usable =>
       entry.content.approved /\ Consistent(entry.content) /\ entry.content.local \subseteq known

RegisterInv == \A c \in DOMAIN configurations : RegisterEntry(c, configurations[c])

PackagesInv == \A p \in DOMAIN packages : AcceptedAs(packages[p].config, packages[p].content)

RunsInv == FrozenIsResolved /\ \A r \in DOMAIN runs :
  runs[r].config # NoConfig => AcceptedAs(runs[r].config, runs[r].content)

\* A message of a run that has not been touched by a package since.
About(m) ==
  /\ m.run \in DOMAIN runs /\ m.key = <<m.type, m.run>>
  /\ runs[m.run].path # "Package" =>
       m.config = runs[m.run].config /\ m.content = runs[m.run].content

MessagesInv ==
  /\ \A i \in DOMAIN delivering.queue : About(delivering.queue[i])
  /\ \A i \in DOMAIN counted : About(counted[i])
  /\ \A i, j \in DOMAIN counted : counted[i].key = counted[j].key => i = j

Delivered(record) == record.status \in {"Accepted", "Duplicate"}

\* Records say the truth, and one at most says that its attempt was the one.
TrueRecords(records) ==
  /\ \A i \in DOMAIN records : Delivered(records[i]) =>
       \E j \in DOMAIN counted : counted[j].key = records[i].key
  /\ \A i, j \in DOMAIN records :
       records[i].key = records[j].key /\ records[i].status = "Accepted"
       /\ records[j].status = "Accepted" => i = j

\* What is being recorded is not in the ledger yet.
RecordsInv ==
  /\ TrueRecords(ledger) /\ TrueRecords(delivering.records)
  /\ \A i \in DOMAIN ledger, j \in DOMAIN delivering.records :
       ledger[i].status = "Accepted" /\ delivering.records[j].status = "Accepted" =>
         ledger[i].key # delivering.records[j].key

FrozenInv == RegisterInv /\ PackagesInv /\ RunsInv
ReportsInv == MessagesInv /\ RecordsInv
ExchangeInv == ShapeInv /\ FrozenInv /\ ReportsInv

-----------------------------------------------------------------------------

LEMMA ExchangeInitially == ExchangeInit => ExchangeInv
  <1> SUFFICES ASSUME ExchangeInit PROVE ExchangeInv
    OBVIOUS
  <1>1. ShapeInv
    BY NoneIsSeq DEF ExchangeInit, ShapeInv, NoDelivery
  <1>2. FrozenInv
    BY DEF ExchangeInit, FrozenInv, RegisterInv, PackagesInv, RunsInv, FrozenIsResolved
  <1>3. ReportsInv
    BY NothingInEmpty DEF ExchangeInit, ReportsInv, MessagesInv, RecordsInv, TrueRecords, NoDelivery
  <1> QED  BY <1>1, <1>2, <1>3 DEF ExchangeInv

LEMMA ExchangeEnough == ExchangeInv => FrozenConfiguration /\ FeedbackIsTrue
  <1> SUFFICES ASSUME ExchangeInv PROVE FrozenConfiguration /\ FeedbackIsTrue
    OBVIOUS
  <1>1. FrozenConfiguration
    BY DEF ExchangeInv, FrozenInv, RunsInv, FrozenConfiguration, FrozenWasAccepted, AcceptedAs
  <1>2. FeedbackNamesFrozen
    BY DEF ExchangeInv, ReportsInv, MessagesInv, About, FeedbackNamesFrozen
  <1>3. CountedOnce
    BY DEF ExchangeInv, ReportsInv, MessagesInv, About, CountedOnce
  <1>4. LedgerIsTrue
    BY DEF ExchangeInv, ReportsInv, RecordsInv, TrueRecords, Delivered, LedgerIsTrue
  <1> QED  BY <1>1, <1>2, <1>3, <1>4 DEF FeedbackIsTrue

\* What was accepted stays accepted when another message has been answered.
LEMMA StaysAccepted ==
  ASSUME IsSeq(inbound), NEW a, inbound' = Append(inbound, a), NEW c, NEW content
  PROVE  /\ AcceptedAs(c, content) => AcceptedAs(c, content)'
         /\ a.status \in Accepting /\ a.config = c /\ a.content = content => AcceptedAs(c, content)'
  BY AppendSeq DEF AcceptedAs

LEMMA AnswerIsSound ==
  ASSUME NEW m, AnswerTo(m).status \in Accepting
  PROVE  /\ AnswerTo(m).config = m.config /\ AnswerTo(m).content = m.content
         /\ AnswerTo(m).usable =>
              m.content.approved /\ Consistent(m.content) /\ m.content.local \subseteq known
  BY DEF AnswerTo, Answer, Accepting, Acceptable, Pending

\* While no delivery is in progress, a step that leaves the messages alone and
\* changes no run but through a package leaves the reports true.
LEMMA ReportsKept ==
  ASSUME ExchangeInv, Idle, UNCHANGED delivery,
         DOMAIN runs \subseteq DOMAIN runs',
         \A r \in DOMAIN runs : runs'[r].path = "Package" \/
           /\ runs'[r].path = runs[r].path
           /\ runs'[r].config = runs[r].config /\ runs'[r].content = runs[r].content
  PROVE  ReportsInv'
  <1>1. \A i \in DOMAIN counted : About(counted[i])'
    BY DEF ExchangeInv, ReportsInv, MessagesInv, About, delivery
  <1>2. delivering.queue = <<>>
    BY DEF Idle, NoDelivery
  <1>3. MessagesInv'
    BY <1>1, <1>2, NothingInEmpty DEF ExchangeInv, ReportsInv, MessagesInv, delivery
  <1>4. RecordsInv'
    BY DEF ExchangeInv, ReportsInv, RecordsInv, TrueRecords, Delivered, delivery
  <1> QED  BY <1>3, <1>4 DEF ReportsInv

\* While one is in progress, configurations, packages and runs wait.
LEMMA FrozenKept == ExchangeInv /\ UNCHANGED exchange => FrozenInv'
  BY DEF ExchangeInv, FrozenInv, RegisterInv, RegisterEntry, PackagesInv, RunsInv, FrozenIsResolved,
         AcceptedAs, Resolved, exchange

LEMMA ConfigurationStep ==
  ASSUME ExchangeInv, NEW m, ReceiveConfiguration(m) PROVE ExchangeInv'
  <1> DEFINE a == AnswerTo(m)
  <1>1. /\ inbound' = Append(inbound, a) /\ IsSeq(inbound) /\ Idle
        /\ UNCHANGED <<known, packages, packageKeys, runs, delivery>>
    BY DEF ReceiveConfiguration, ExchangeInv, ShapeInv
  <1>2. ShapeInv'
    BY <1>1, AppendSeq DEF ExchangeInv, ShapeInv, delivery
  <1>3. ASSUME NEW c, NEW content, AcceptedAs(c, content) PROVE AcceptedAs(c, content)'
    BY <1>1, <1>3, StaysAccepted
  <1>4. RegisterInv'
    <2>1. CASE a.status \notin Accepting
      <3>1. configurations' = configurations
        BY <2>1 DEF ReceiveConfiguration
      <3> QED  BY <1>1, <1>3, <3>1
            DEF ExchangeInv, FrozenInv, RegisterInv, RegisterEntry, AcceptedAs
    <2>2. CASE a.status \in Accepting
      <3>1. configurations' = [c \in DOMAIN configurations \cup {m.config} |->
                  IF c = m.config THEN [content |-> m.content, usable |-> a.usable]
                  ELSE configurations[c]]
        BY <2>2 DEF ReceiveConfiguration
      <3>2. AcceptedAs(m.config, m.content)'
        BY <1>1, <2>2, AnswerIsSound, StaysAccepted
      <3>3. a.usable =>
              m.content.approved /\ Consistent(m.content) /\ m.content.local \subseteq known
        BY <2>2, AnswerIsSound
      <3> HIDE DEF a
      <3>4. ASSUME NEW c \in DOMAIN configurations' PROVE RegisterEntry(c, configurations[c])'
        <4>1. CASE c = m.config
          BY <1>1, <3>1, <3>2, <3>3, <4>1 DEF RegisterEntry, AcceptedAs
        <4>2. CASE c # m.config
          <5>1. c \in DOMAIN configurations /\ configurations'[c] = configurations[c]
            BY <3>1, <4>2
          <5>2. RegisterEntry(c, configurations[c])
            BY <5>1 DEF ExchangeInv, FrozenInv, RegisterInv
          <5> QED  BY <1>1, <1>3, <5>1, <5>2 DEF RegisterEntry, AcceptedAs
        <4> QED  BY <4>1, <4>2
      <3> QED  BY <3>4 DEF RegisterInv
    <2> QED  BY <2>1, <2>2
  <1>5. PackagesInv'
    BY <1>1, <1>3 DEF ExchangeInv, FrozenInv, PackagesInv, AcceptedAs
  <1>6. RunsInv'
    BY <1>1, <1>3 DEF ExchangeInv, FrozenInv, RunsInv, FrozenIsResolved, Resolved, AcceptedAs
  <1>7. ReportsInv'
    BY <1>1, ReportsKept
  <1> QED  BY <1>2, <1>4, <1>5, <1>6, <1>7 DEF ExchangeInv, FrozenInv

LEMMA ReferenceStep ==
  ASSUME ExchangeInv, NEW ref, CreateReference(ref) PROVE ExchangeInv'
  <1>1. /\ Idle /\ known \subseteq known'
        /\ UNCHANGED <<inbound, configurations, packages, packageKeys, runs, delivery>>
    BY DEF CreateReference
  <1>2. ShapeInv'
    BY <1>1 DEF ExchangeInv, ShapeInv, delivery
  <1>3. FrozenInv'
    BY <1>1 DEF ExchangeInv, FrozenInv, RegisterInv, RegisterEntry, PackagesInv, RunsInv,
                FrozenIsResolved, AcceptedAs, Resolved
  <1>4. ReportsInv'
    BY <1>1, ReportsKept
  <1> QED  BY <1>2, <1>3, <1>4 DEF ExchangeInv

LEMMA PackageStep ==
  ASSUME ExchangeInv, NEW p, ReceivePackage(p) PROVE ExchangeInv'
  <1>1. Idle /\ UNCHANGED <<known, inbound, configurations, runs, delivery>>
    BY DEF ReceivePackage
  <1>2. ShapeInv'
    BY <1>1 DEF ExchangeInv, ShapeInv, delivery
  <1>3. PackagesInv'
    <2>1. CASE MatchesConfiguration(p)
      <3>1. AcceptedAs(p.config, p.content)
        BY <2>1 DEF MatchesConfiguration, ExchangeInv, FrozenInv, RegisterInv, RegisterEntry
      <3>2. \A i \in DOMAIN packages' : packages'[i] = p \/ (i \in DOMAIN packages /\ packages'[i] = packages[i])
        BY <2>1 DEF ReceivePackage
      <3> QED  BY <1>1, <3>1, <3>2 DEF ExchangeInv, FrozenInv, PackagesInv, AcceptedAs
    <2>2. CASE ~MatchesConfiguration(p)
      BY <1>1, <2>2 DEF ReceivePackage, ExchangeInv, FrozenInv, PackagesInv, AcceptedAs
    <2> QED  BY <2>1, <2>2
  <1>4. RegisterInv' /\ RunsInv'
    BY <1>1 DEF ExchangeInv, FrozenInv, RegisterInv, RegisterEntry, RunsInv, FrozenIsResolved,
                AcceptedAs, Resolved
  <1>5. ReportsInv'
    BY <1>1, ReportsKept
  <1> QED  BY <1>2, <1>3, <1>4, <1>5 DEF ExchangeInv, FrozenInv

\* A run that is sound in itself may take its place among the others.
SoundRun(run) ==
  /\ RunFields \subseteq DOMAIN run
  /\ run.config # NoConfig => AcceptedAs(run.config, run.content)
  /\ run.path = "Config" =>
       /\ run.content.approved /\ Consistent(run.content)
       /\ run.content.local \subseteq known
       /\ Resolved(run.content, run.master)

LEMMA RunStep ==
  ASSUME ExchangeInv, Idle, UNCHANGED <<known, inbound, configurations, packages, delivery>>,
         NEW r, NEW run, SoundRun(run),
         runs' = [x \in DOMAIN runs \cup {r} |-> IF x = r THEN run ELSE runs[x]],
         r \in DOMAIN runs => run.path = "Package" \/
           /\ run.path = runs[r].path
           /\ run.config = runs[r].config /\ run.content = runs[r].content
  PROVE  ExchangeInv'
  <1>1. /\ DOMAIN runs' = DOMAIN runs \cup {r} /\ runs'[r] = run
        /\ \A x \in DOMAIN runs : x # r => runs'[x] = runs[x]
    OBVIOUS
  <1>2. ShapeInv'
    <2>1. \A x \in DOMAIN runs' : RunFields \subseteq DOMAIN runs'[x]
      BY <1>1 DEF ExchangeInv, ShapeInv, SoundRun
    <2>2. runs' = [x \in DOMAIN runs' |-> runs'[x]]
      BY <1>1
    <2> QED  BY <2>1, <2>2 DEF ExchangeInv, ShapeInv, delivery
  <1>3. RunsInv'
    BY <1>1 DEF ExchangeInv, FrozenInv, RunsInv, FrozenIsResolved, SoundRun, AcceptedAs, Resolved
  <1>4. RegisterInv' /\ PackagesInv'
    BY DEF ExchangeInv, FrozenInv, RegisterInv, RegisterEntry, PackagesInv, AcceptedAs
  <1>5. ReportsInv'
    BY <1>1, ReportsKept
  <1> QED  BY <1>2, <1>3, <1>4, <1>5 DEF ExchangeInv, FrozenInv

LEMMA CreateRunStep ==
  ASSUME ExchangeInv, NEW r, NEW c, NEW master, CreateRun(r, c, master) PROVE ExchangeInv'
  <1> DEFINE run == FrozenRun(c, configurations[c].content, master, "Config")
  <1>1. RegisterEntry(c, configurations[c]) /\ configurations[c].usable
    BY DEF CreateRun, Usable, ExchangeInv, FrozenInv, RegisterInv
  <1>2. SoundRun(run)
    BY <1>1 DEF CreateRun, SoundRun, RunFields, FrozenRun, RegisterEntry
  <1> QED  BY <1>2, RunStep DEF CreateRun, WithRun

LEMMA CreateLegacyRunStep ==
  ASSUME ExchangeInv, NEW r, NEW master, CreateLegacyRun(r, master) PROVE ExchangeInv'
  <1>1. SoundRun(FrozenRun(NoConfig, NoConfig, master, "Legacy"))
    BY DEF SoundRun, RunFields, FrozenRun
  <1> QED  BY <1>1, RunStep DEF CreateLegacyRun, WithRun

LEMMA FreezePackageStep ==
  ASSUME ExchangeInv, NEW r, NEW i, FreezePackage(r, i) PROVE ExchangeInv'
  <1> DEFINE after == [runs[r] EXCEPT !.config = packages[i].config,
                                      !.content = packages[i].content, !.path = "Package"]
  <1>1. r \in DOMAIN runs /\ i \in DOMAIN packages /\ RunFields \subseteq DOMAIN runs[r]
    BY DEF FreezePackage, ExchangeInv, ShapeInv
  <1>2. runs' = [x \in DOMAIN runs \cup {r} |-> IF x = r THEN after ELSE runs[x]]
    BY <1>1 DEF FreezePackage, ExchangeInv, ShapeInv
  <1>3. /\ after.config = packages[i].config /\ after.content = packages[i].content
        /\ after.path = "Package" /\ RunFields \subseteq DOMAIN after
    BY <1>1 DEF RunFields
  <1>4. SoundRun(after)
    BY <1>1, <1>3 DEF SoundRun, ExchangeInv, FrozenInv, PackagesInv
  <1> HIDE DEF after
  <1> QED  BY <1>2, <1>3, <1>4, RunStep DEF FreezePackage

LEMMA FinishRunStep ==
  ASSUME ExchangeInv, NEW r, FinishRun(r) PROVE ExchangeInv'
  <1> DEFINE after == [runs[r] EXCEPT !.status = "Completed"]
  <1>1. r \in DOMAIN runs /\ RunFields \subseteq DOMAIN runs[r]
    BY DEF FinishRun, ExchangeInv, ShapeInv
  <1>2. runs' = [x \in DOMAIN runs \cup {r} |-> IF x = r THEN after ELSE runs[x]]
    BY <1>1 DEF FinishRun, ExchangeInv, ShapeInv
  <1>3. /\ RunFields \subseteq DOMAIN after
        /\ after.path = runs[r].path /\ after.config = runs[r].config
        /\ after.content = runs[r].content /\ after.master = runs[r].master
    BY <1>1 DEF RunFields
  <1>4. SoundRun(after)
    BY <1>1, <1>3 DEF SoundRun, ExchangeInv, FrozenInv, RunsInv, FrozenIsResolved
  <1> HIDE DEF after
  <1> QED  BY <1>1, <1>2, <1>3, <1>4, RunStep DEF FinishRun

-----------------------------------------------------------------------------
(* Deliveries.                                                              *)

LEMMA PairSeq ==
  ASSUME NEW a, NEW b
  PROVE  IsSeq(<<a, b>>) /\ \A i \in DOMAIN <<a, b>> : <<a, b>>[i] = a \/ <<a, b>>[i] = b
  <1> DEFINE S == {a, b}
  <1>1. <<a, b>> \in Seq(S)
    OBVIOUS
  <1>2. \A i \in DOMAIN <<a, b>> : <<a, b>>[i] = a \/ <<a, b>>[i] = b
    OBVIOUS
  <1> QED  BY <1>1, <1>2 DEF IsSeq

LEMMA FeedbackIsAbout ==
  ASSUME NEW r \in DOMAIN runs, NEW type PROVE About(Feedback(type, r))
  BY DEF About, Feedback, FeedbackKey, ReportedContent

LEMMA BeginDeliveryStep ==
  ASSUME ExchangeInv, NEW r, BeginDelivery(r) PROVE ExchangeInv'
  <1> DEFINE first == Feedback("PlanningRun", r)
             second == Feedback("Variance", r)
  <1>1. /\ r \in DOMAIN runs /\ UNCHANGED <<exchange, ledger, counted>>
        /\ delivering' = [run |-> r, queue |-> <<first, second>>, records |-> <<>>]
    BY DEF BeginDelivery
  <1>2. About(first) /\ About(second)
    BY <1>1, FeedbackIsAbout
  <1> HIDE DEF first, second
  <1>3. delivering'.queue = <<first, second>> /\ delivering'.records = <<>>
    BY <1>1
  <1>4. ShapeInv'
    BY <1>1, <1>3, PairSeq, NoneIsSeq DEF ExchangeInv, ShapeInv, exchange
  <1>5. \A i \in DOMAIN delivering'.queue : About(delivering'.queue[i])
    BY <1>2, <1>3, PairSeq
  <1>6. MessagesInv'
    BY <1>1, <1>5 DEF ExchangeInv, ReportsInv, MessagesInv, About, exchange
  <1>7. RecordsInv'
    BY <1>1, <1>3, NothingInEmpty DEF ExchangeInv, ReportsInv, RecordsInv, TrueRecords, Delivered
  <1> QED  BY <1>1, <1>4, <1>6, <1>7, FrozenKept DEF ExchangeInv, ReportsInv

\* A record says Accepted only if this attempt is what DDAE counted, and says
\* that the message was delivered only if DDAE has it now.
LEMMA RecordIsTrue ==
  ASSUME IsSeq(counted), NEW outcome, NEW m,
         counted' = IF outcome # "request lost" /\ Counts(m) THEN Append(counted, m) ELSE counted
  PROVE  LET record == RecordOf(m, outcome) IN
         /\ record.key = m.key
         /\ Delivered(record) => \E j \in DOMAIN counted' : counted'[j].key = record.key
         /\ record.status = "Accepted" => \A j \in DOMAIN counted : counted[j].key # record.key
  <1> DEFINE record == RecordOf(m, outcome)
  <1>1. record.key = m.key /\ (Delivered(record) => outcome = "answered")
    BY DEF RecordOf, Delivered
  <1>2. record.status = "Accepted" => Counts(m)
    BY DEF RecordOf, DdaeAnswer
  <1> HIDE DEF record
  <1>3. Delivered(record) => \E j \in DOMAIN counted' : counted'[j].key = m.key
    <2>1. CASE Counts(m)
      BY <1>1, <2>1, AppendSeq
    <2>2. CASE ~Counts(m)
      BY <2>2 DEF Counts
    <2> QED  BY <2>1, <2>2
  <1>4. record.status = "Accepted" => \A j \in DOMAIN counted : counted[j].key # record.key
    BY <1>1, <1>2 DEF Counts
  <1> QED  BY <1>1, <1>3, <1>4 DEF record

\* What was counted stays counted.
LEMMA StaysCounted ==
  ASSUME IsSeq(counted), NEW m, counted' = Append(counted, m) \/ counted' = counted, NEW key,
         \E j \in DOMAIN counted : counted[j].key = key
  PROVE  \E j \in DOMAIN counted' : counted'[j].key = key
  BY AppendSeq

LEMMA PostStep ==
  ASSUME ExchangeInv, NEW outcome, Post(outcome) PROVE ExchangeInv'
  <1> DEFINE m == Head(delivering.queue)
             record == RecordOf(m, outcome)
  <1>1. /\ delivering.queue # <<>> /\ UNCHANGED <<exchange, posts, ledger>>
        /\ counted' = IF outcome # "request lost" /\ Counts(m) THEN Append(counted, m) ELSE counted
        /\ delivering' = [delivering EXCEPT !.queue = Tail(@), !.records = Append(@, record)]
    BY DEF Post
  <1>2. /\ IsSeq(counted) /\ IsSeq(delivering.queue) /\ IsSeq(delivering.records)
        /\ delivering = [run |-> delivering.run, queue |-> delivering.queue,
                         records |-> delivering.records]
    BY DEF ExchangeInv, ShapeInv
  <1>3. m = delivering.queue[1] /\ About(m)
    <2>1. m = delivering.queue[1] /\ 1 \in DOMAIN delivering.queue
      BY <1>1, <1>2, TailSeq
    <2>2. About(delivering.queue[1])
      BY <2>1 DEF ExchangeInv, ReportsInv, MessagesInv
    <2> QED  BY <2>1, <2>2
  <1>4. /\ record.key = m.key
        /\ Delivered(record) => \E j \in DOMAIN counted' : counted'[j].key = record.key
        /\ record.status = "Accepted" => \A j \in DOMAIN counted : counted[j].key # record.key
    BY <1>1, <1>2, RecordIsTrue
  <1> HIDE DEF m, record
  <1>5. delivering' = [run |-> delivering.run, queue |-> Tail(delivering.queue),
                       records |-> Append(delivering.records, record)]
    BY <1>1, <1>2
  <1>6. delivering'.queue = Tail(delivering.queue)
        /\ delivering'.records = Append(delivering.records, record)
    BY <1>5
  <1>7. ShapeInv'
    <2>1. IsSeq(counted') /\ IsSeq(delivering'.queue) /\ IsSeq(delivering'.records)
      BY <1>1, <1>2, <1>6, AppendSeq, TailSeq
    <2>2. delivering' = [run |-> delivering'.run, queue |-> delivering'.queue,
                         records |-> delivering'.records]
      BY <1>5
    <2> QED  BY <1>1, <2>1, <2>2 DEF ExchangeInv, ShapeInv, exchange
  <1>8. MessagesInv'
    <2>1. \A i \in DOMAIN delivering'.queue : About(delivering'.queue[i])
      <3>1. \A i \in DOMAIN Tail(delivering.queue) :
              /\ i + 1 \in DOMAIN delivering.queue
              /\ Tail(delivering.queue)[i] = delivering.queue[i + 1]
        BY <1>1, <1>2, TailSeq
      <3>2. \A i \in DOMAIN delivering.queue : About(delivering.queue[i])
        BY DEF ExchangeInv, ReportsInv, MessagesInv
      <3> QED  BY <1>6, <3>1, <3>2
    <2>2. \A i \in DOMAIN counted' : About(counted'[i])
      <3>1. \A i \in DOMAIN counted : About(counted[i])
        BY DEF ExchangeInv, ReportsInv, MessagesInv
      <3>2. \A i \in DOMAIN Append(counted, m) :
              \/ i \in DOMAIN counted /\ Append(counted, m)[i] = counted[i]
              \/ Append(counted, m)[i] = m
        BY <1>2, AppendSeq
      <3> QED  BY <1>1, <1>3, <3>1, <3>2
    <2>3. \A i, j \in DOMAIN counted' : counted'[i].key = counted'[j].key => i = j
      <3>1. CASE counted' = counted
        BY <3>1 DEF ExchangeInv, ReportsInv, MessagesInv
      <3>2. CASE counted' = Append(counted, m) /\ Counts(m)
        BY <1>2, <3>2, AppendSeq DEF ExchangeInv, ReportsInv, MessagesInv, Counts
      <3> QED  BY <1>1, <3>1, <3>2
    <2>4. runs' = runs
      BY <1>1 DEF exchange
    <2> QED  BY <2>1, <2>2, <2>3, <2>4 DEF MessagesInv, About
  <1>9. RecordsInv'
    <2>1. ASSUME NEW key, \E j \in DOMAIN counted : counted[j].key = key
          PROVE  \E j \in DOMAIN counted' : counted'[j].key = key
      BY <1>1, <1>2, <2>1, StaysCounted
    <2>2. TrueRecords(ledger)'
      <3>1. TrueRecords(ledger) /\ ledger' = ledger
        BY <1>1 DEF ExchangeInv, ReportsInv, RecordsInv
      <3> QED  BY <2>1, <3>1 DEF TrueRecords, Delivered
    <2>3. \A i \in DOMAIN ledger :
            ledger[i].status = "Accepted" /\ record.status = "Accepted" => ledger[i].key # record.key
      BY <1>4 DEF ExchangeInv, ReportsInv, RecordsInv, TrueRecords, Delivered
    <2>4. \A i \in DOMAIN delivering.records :
            delivering.records[i].status = "Accepted" /\ record.status = "Accepted" =>
              delivering.records[i].key # record.key
      BY <1>4 DEF ExchangeInv, ReportsInv, RecordsInv, TrueRecords, Delivered
    <2>5. TrueRecords(delivering.records)'
      <3> DEFINE after == Append(delivering.records, record)
      <3>1. \A i \in DOMAIN after :
              \/ i \in DOMAIN delivering.records /\ after[i] = delivering.records[i]
              \/ after[i] = record
        BY <1>2, AppendSeq
      <3>2. PICK n \in DOMAIN after :
              /\ n \notin DOMAIN delivering.records /\ after[n] = record
              /\ \A i \in DOMAIN after : i \in DOMAIN delivering.records \/ i = n
        BY <1>2, AppendSeq
      <3>3. \A i \in DOMAIN delivering.records : after[i] = delivering.records[i]
        BY <1>2, AppendSeq
      <3> HIDE DEF after
      <3>4. \A i \in DOMAIN after : Delivered(after[i]) =>
              \E j \in DOMAIN counted' : counted'[j].key = after[i].key
        BY <1>4, <2>1, <3>1 DEF ExchangeInv, ReportsInv, RecordsInv, TrueRecords
      <3>5. \A i, j \in DOMAIN after :
              after[i].key = after[j].key /\ after[i].status = "Accepted"
              /\ after[j].status = "Accepted" => i = j
        BY <2>4, <3>2, <3>3 DEF ExchangeInv, ReportsInv, RecordsInv, TrueRecords
      <3>6. delivering'.records = after
        BY <1>6 DEF after
      <3> QED  BY <3>4, <3>5, <3>6 DEF TrueRecords, Delivered
    <2>6. \A i \in DOMAIN ledger, j \in DOMAIN delivering'.records :
            ledger[i].status = "Accepted" /\ delivering'.records[j].status = "Accepted" =>
              ledger[i].key # delivering'.records[j].key
      BY <1>2, <1>6, <2>3, AppendSeq DEF ExchangeInv, ReportsInv, RecordsInv
    <2> QED  BY <1>1, <2>2, <2>5, <2>6 DEF RecordsInv
  <1> QED  BY <1>1, <1>7, <1>8, <1>9, FrozenKept DEF ExchangeInv, ReportsInv

\* The ledger takes the records of the delivery over.
LEMMA RecordsJoin ==
  ASSUME ExchangeInv, NEW all, all = ledger \o delivering.records
  PROVE  IsSeq(all) /\ TrueRecords(all)
  <1>1. IsSeq(ledger) /\ IsSeq(delivering.records) /\ RecordsInv
    BY DEF ExchangeInv, ShapeInv, ReportsInv
  <1>2. IsSeq(all) /\ Len(ledger) \in Int /\ \A i \in DOMAIN all : i \in Int
    BY <1>1, ConcatSeq
  <1>3. \A i \in DOMAIN all :
          \/ i \in DOMAIN ledger /\ all[i] = ledger[i]
          \/ /\ i - Len(ledger) \in DOMAIN delivering.records
             /\ all[i] = delivering.records[i - Len(ledger)] /\ i \notin DOMAIN ledger
    BY <1>1, ConcatSeq
  <1>4. \A i \in DOMAIN all : Delivered(all[i]) =>
          \E j \in DOMAIN counted : counted[j].key = all[i].key
    BY <1>1, <1>3 DEF RecordsInv, TrueRecords
  <1>5. ASSUME NEW i \in DOMAIN all, NEW j \in DOMAIN all, all[i].key = all[j].key,
               all[i].status = "Accepted", all[j].status = "Accepted"
        PROVE  i = j
    <2>1. CASE i \in DOMAIN ledger /\ all[i] = ledger[i] /\ j \in DOMAIN ledger /\ all[j] = ledger[j]
      BY <1>1, <1>5, <2>1 DEF RecordsInv, TrueRecords
    <2>2. CASE /\ i - Len(ledger) \in DOMAIN delivering.records
               /\ all[i] = delivering.records[i - Len(ledger)]
               /\ j - Len(ledger) \in DOMAIN delivering.records
               /\ all[j] = delivering.records[j - Len(ledger)]
      <3>1. i - Len(ledger) = j - Len(ledger)
        BY <1>1, <1>5, <2>2 DEF RecordsInv, TrueRecords
      <3> QED  BY <1>2, <3>1
    <2> QED  BY <1>1, <1>3, <1>5, <2>1, <2>2 DEF RecordsInv
  <1> QED  BY <1>2, <1>4, <1>5 DEF TrueRecords

\* A delivery that ends, with its records stored or lost, leaves nothing behind.
LEMMA DeliveryEnds ==
  ASSUME ExchangeInv, UNCHANGED <<exchange, posts, counted>>, delivering' = NoDelivery,
         ledger' = ledger \/ ledger' = ledger \o delivering.records
  PROVE  ExchangeInv'
  <1>1. IsSeq(ledger') /\ TrueRecords(ledger')
    BY RecordsJoin DEF ExchangeInv, ShapeInv, ReportsInv, RecordsInv
  <1>2. delivering'.queue = <<>> /\ delivering'.records = <<>>
    BY DEF NoDelivery
  <1>3. ShapeInv'
    BY <1>1, <1>2, NoneIsSeq DEF ExchangeInv, ShapeInv, exchange, NoDelivery
  <1>4. MessagesInv'
    BY <1>2, NothingInEmpty DEF ExchangeInv, ReportsInv, MessagesInv, About, exchange
  <1>5. RecordsInv'
    BY <1>1, <1>2, NothingInEmpty DEF RecordsInv, TrueRecords, Delivered
  <1> QED  BY <1>3, <1>4, <1>5, FrozenKept DEF ExchangeInv, ReportsInv

-----------------------------------------------------------------------------
(* What holds of the exchange.                                              *)

LEMMA ExchangeInductive == ExchangeInv /\ [ExchangeNext]_exchangeVars => ExchangeInv'
  <1> SUFFICES ASSUME ExchangeInv, [ExchangeNext]_exchangeVars PROVE ExchangeInv'
    OBVIOUS
  <1>1. ASSUME NEW m \in Message, ReceiveConfiguration(m) PROVE ExchangeInv'
    BY <1>1, ConfigurationStep
  <1>2. ASSUME NEW ref \in Reference, CreateReference(ref) PROVE ExchangeInv'
    BY <1>2, ReferenceStep
  <1>3. ASSUME NEW p \in Package, ReceivePackage(p) PROVE ExchangeInv'
    BY <1>3, PackageStep
  <1>4. ASSUME NEW r \in Run, NEW m \in DOMAIN Master, NEW c \in DOMAIN configurations,
               CreateRun(r, c, m)
        PROVE  ExchangeInv'
    BY <1>4, CreateRunStep
  <1>5. ASSUME NEW r \in Run, NEW m \in DOMAIN Master, CreateLegacyRun(r, m) PROVE ExchangeInv'
    BY <1>5, CreateLegacyRunStep
  <1>6. ASSUME NEW r \in Run, NEW i \in DOMAIN packages, FreezePackage(r, i) PROVE ExchangeInv'
    BY <1>6, FreezePackageStep
  <1>7. ASSUME NEW r \in Run, FinishRun(r) PROVE ExchangeInv'
    BY <1>7, FinishRunStep
  <1>8. ASSUME NEW r \in Run, BeginDelivery(r) PROVE ExchangeInv'
    BY <1>8, BeginDeliveryStep
  <1>9. ASSUME NEW o \in Outcome, Post(o) PROVE ExchangeInv'
    BY <1>9, PostStep
  <1>10. CASE EndDelivery
    BY <1>10, DeliveryEnds DEF EndDelivery
  <1>11. CASE LoseDelivery
    BY <1>11, DeliveryEnds DEF LoseDelivery
  <1>12. CASE UNCHANGED exchangeVars
    BY <1>12 DEF exchangeVars, exchange, delivery, ExchangeInv, ShapeInv, FrozenInv, RegisterInv,
                 RegisterEntry, PackagesInv, RunsInv, FrozenIsResolved, AcceptedAs, Resolved,
                 ReportsInv, MessagesInv, About, RecordsInv, TrueRecords, Delivered
  <1> QED  BY <1>1, <1>2, <1>3, <1>4, <1>5, <1>6, <1>7, <1>8, <1>9, <1>10, <1>11, <1>12
           DEF ExchangeNext

\* However configurations, packages and references arrive, what a run froze was
\* accepted under the name the run gives it, and was complete if the run was
\* created with it.
THEOREM FrozenConfigurationHolds == ExchangeSpec => []FrozenConfiguration
  <1>1. ExchangeInv => FrozenConfiguration
    BY ExchangeEnough
  <1> QED  BY <1>1, ExchangeInitially, ExchangeInductive, PTL DEF ExchangeSpec

\* Over lost requests, lost answers, lost ledgers and repeated deliveries, DDAE
\* counts each kind of feedback of a run once, about what the run froze, and
\* the ledger of deliveries says nothing that is not so.
THEOREM FeedbackIsTrueHolds == ExchangeSpec => []FeedbackIsTrue
  <1>1. ExchangeInv => FeedbackIsTrue
    BY ExchangeEnough
  <1> QED  BY <1>1, ExchangeInitially, ExchangeInductive, PTL DEF ExchangeSpec

-----------------------------------------------------------------------------
(* What is said to a key, in the exchange.                                  *)

LEMMA FirstIsRepeated ==
  ASSUME IsSeq(inbound), NEW m, NEW i \in DOMAIN inbound, inbound[i].key = m.key
  PROVE  \E f \in DOMAIN inbound :
           /\ inbound[f].key = m.key /\ ~(i < f)
           /\ AnswerTo(m) = Answer(m.key, "Duplicate", inbound[f].usable, inbound[f].config,
                                   inbound[f].content)
  <1>1. DOMAIN inbound \subseteq Nat
    BY AppendAt
  <1>2. Previous(m.key) \in SUBSET Nat /\ i \in Previous(m.key)
    BY <1>1 DEF Previous
  <1>3. Min(Previous(m.key)) \in Previous(m.key) /\ Min(Previous(m.key)) <= i
    BY <1>2, Least
  <1>4. AnswerTo(m) = LET first == inbound[Min(Previous(m.key))]
                      IN  Answer(m.key, "Duplicate", first.usable, first.config, first.content)
    BY <1>2 DEF AnswerTo
  <1> DEFINE f == Min(Previous(m.key))
  <1>5. f \in DOMAIN inbound /\ inbound[f].key = m.key
    BY <1>3 DEF Previous
  <1>6. ~(i < f)
    BY <1>1, <1>3, <1>5
  <1> QED  BY <1>4, <1>5, <1>6

LEMMA AnswersKept ==
  ASSUME IsSeq(inbound), KeyAnsweredAlike, NEW m, inbound' = Append(inbound, AnswerTo(m))
  PROVE  KeyAnsweredAlike'
  <1> DEFINE a == AnswerTo(m)
             n == Len(inbound) + 1
  <1>1. a.key = m.key
    BY DEF AnswerTo, Answer
  <1>2. /\ DOMAIN inbound \subseteq Nat /\ n \in Nat /\ n \notin DOMAIN inbound
        /\ DOMAIN inbound' = DOMAIN inbound \cup {n} /\ inbound'[n] = a
        /\ \A i \in DOMAIN inbound : i < n /\ ~(n < i) /\ inbound'[i] = inbound[i]
    BY AppendAt
  <1>3. ASSUME NEW i \in DOMAIN inbound, inbound[i].key = m.key
        PROVE  /\ a.status = "Duplicate" /\ a.usable = inbound[i].usable
               /\ a.config = inbound[i].config /\ a.content = inbound[i].content
    <2>1. PICK f \in DOMAIN inbound :
            /\ inbound[f].key = m.key /\ ~(i < f)
            /\ a = Answer(m.key, "Duplicate", inbound[f].usable, inbound[f].config, inbound[f].content)
      BY <1>3, FirstIsRepeated
    <2>2. /\ a.status = "Duplicate" /\ a.usable = inbound[f].usable
          /\ a.config = inbound[f].config /\ a.content = inbound[f].content
      BY <2>1 DEF Answer
    <2>3. CASE f = i
      BY <2>2, <2>3
    <2>4. CASE f < i
      BY <1>3, <2>1, <2>2, <2>4 DEF KeyAnsweredAlike
    <2> QED  BY <1>2, <2>1, <2>3, <2>4
  <1> HIDE DEF a, n
  <1>4. ASSUME NEW i \in DOMAIN inbound', NEW j \in DOMAIN inbound', i < j,
               inbound'[i].key = inbound'[j].key
        PROVE  /\ inbound'[j].status = "Duplicate"
               /\ inbound'[j].usable = inbound'[i].usable
               /\ inbound'[j].config = inbound'[i].config
               /\ inbound'[j].content = inbound'[i].content
    <2>1. CASE j = n
      <3>1. i \in DOMAIN inbound
        BY <1>2, <1>4, <2>1
      <3> QED  BY <1>1, <1>2, <1>3, <1>4, <2>1, <3>1
    <2>2. CASE j \in DOMAIN inbound
      <3>1. i \in DOMAIN inbound
        BY <1>2, <1>4, <2>2
      <3> QED  BY <1>2, <1>4, <2>2, <3>1 DEF KeyAnsweredAlike
    <2> QED  BY <1>2, <2>1, <2>2
  <1> QED  BY <1>4 DEF KeyAnsweredAlike

LEMMA KeyAnsweredInductive ==
  ASSUME ExchangeInv, KeyAnsweredAlike, [ExchangeNext]_exchangeVars
  PROVE  KeyAnsweredAlike'
  <1>1. CASE inbound' = inbound
    BY <1>1 DEF KeyAnsweredAlike
  <1>2. CASE \E m : inbound' = Append(inbound, AnswerTo(m))
    BY <1>2, AnswersKept DEF ExchangeInv, ShapeInv
  <1>3. inbound' = inbound \/ \E m : inbound' = Append(inbound, AnswerTo(m))
    BY DEF ExchangeNext, exchangeVars, exchange, delivery, ReceiveConfiguration, CreateReference,
           ReceivePackage, CreateRun, CreateLegacyRun, FreezePackage, FinishRun, BeginDelivery,
           Post, EndDelivery, LoseDelivery
  <1> QED  BY <1>1, <1>2, <1>3

\* Whenever a message with a known key arrives, DDAE hears the first answer again.
THEOREM KeysAreAnsweredAlike == ExchangeSpec => []KeyAnsweredAlike
  <1>1. ExchangeInit => KeyAnsweredAlike
    BY NothingInEmpty DEF ExchangeInit, KeyAnsweredAlike
  <1>2. ExchangeInv /\ KeyAnsweredAlike /\ [ExchangeNext]_exchangeVars => KeyAnsweredAlike'
    BY KeyAnsweredInductive
  <1> QED  BY <1>1, <1>2, ExchangeInitially, ExchangeInductive, PTL DEF ExchangeSpec

-----------------------------------------------------------------------------
(* The inbox of integration messages.  They are recorded once, and a mark    *)
(* for a replay changes nothing else of a record.                           *)

IntegrationFields == {"contract", "key", "id", "status"}

IntegrationInv ==
  /\ IsSeq(integrations)
  /\ \A i \in DOMAIN integrations : IntegrationFields \subseteq DOMAIN integrations[i]
  /\ RecordedOnce

LEMMA TakeInStep ==
  ASSUME IntegrationInv, NEW m, TakeIn(m)
  PROVE  IntegrationInv'
  <1> DEFINE r == IntegrationRecord(m)
             n == Len(integrations) + 1
             ack == [contract |-> m.contract, key |-> IdempotencyKey(m), status |-> IntegrationStatus(m)]
  <1>1. /\ r.contract = m.contract /\ r.key = IdempotencyKey(m) /\ r.status = IntegrationStatus(m)
        /\ ack.contract = m.contract /\ ack.key = IdempotencyKey(m) /\ ack.status = IntegrationStatus(m)
        /\ IntegrationFields \subseteq DOMAIN r
    BY DEF IntegrationRecord, IntegrationFields
  <1>2. acknowledged' = acknowledged \cup {ack}
    BY DEF TakeIn
  <1>3. CASE IntegrationStatus(m) = "Duplicate"
    <2>1. integrations' = integrations
      BY <1>3 DEF TakeIn
    <2> QED  BY <1>1, <1>2, <1>3, <2>1 DEF IntegrationInv, RecordedOnce, SameKeyed
  <1>4. CASE IntegrationStatus(m) # "Duplicate"
    <2>1. integrations' = Append(integrations, r) /\ IsSeq(integrations)
      BY <1>4 DEF TakeIn, IntegrationInv
    <2>2. \A i \in DOMAIN integrations :
            ~(integrations[i].contract = m.contract /\ integrations[i].key = IdempotencyKey(m))
      BY <1>4 DEF IntegrationStatus, SameMessage
    <2>3. /\ n \notin DOMAIN integrations
          /\ DOMAIN integrations' = DOMAIN integrations \cup {n} /\ integrations'[n] = r
          /\ \A i \in DOMAIN integrations : integrations'[i] = integrations[i]
      BY <2>1, AppendAt
    <2>4. IsSeq(integrations')
      BY <2>1, AppendSeq
    <2> HIDE DEF r, n, ack
    <2>5. ASSUME NEW i \in DOMAIN integrations', NEW j \in DOMAIN integrations',
                 SameKeyed(integrations'[i], integrations'[j])
          PROVE  i = j
      BY <1>1, <2>2, <2>3, <2>5 DEF IntegrationInv, RecordedOnce, SameKeyed
    <2>6. ASSUME NEW a \in acknowledged', a.status # "Duplicate"
          PROVE  \E i \in DOMAIN integrations' :
                   SameKeyed(integrations'[i], a) /\ integrations'[i].status = a.status
      BY <1>1, <1>2, <2>3, <2>6 DEF IntegrationInv, RecordedOnce, SameKeyed
    <2>7. \A i \in DOMAIN integrations' : IntegrationFields \subseteq DOMAIN integrations'[i]
      BY <1>1, <2>3 DEF IntegrationInv
    <2> QED  BY <2>4, <2>5, <2>6, <2>7 DEF IntegrationInv, RecordedOnce
  <1> QED  BY <1>3, <1>4

LEMMA ReplayStep ==
  ASSUME IntegrationInv, NEW id, RequestReplay(id)
  PROVE  IntegrationInv'
  <1>1. acknowledged' = acknowledged
    BY DEF RequestReplay
  <1>2. PICK f, v : integrations' = [integrations EXCEPT ![f].replay = v]
    BY DEF RequestReplay
  <1>3. PICK S : integrations \in Seq(S)
    BY DEF IntegrationInv, IsSeq
  <1> DEFINE T == S \cup {[integrations[f] EXCEPT !.replay = v]}
  <1>4. /\ integrations \in [1 .. Len(integrations) -> S] /\ Len(integrations) \in Nat
        /\ DOMAIN integrations = 1 .. Len(integrations)
    BY <1>3
  <1>5. /\ DOMAIN integrations' = DOMAIN integrations
        /\ \A i \in DOMAIN integrations :
             integrations'[i] = IF i = f THEN [integrations[f] EXCEPT !.replay = v] ELSE integrations[i]
    BY <1>2, <1>4
  <1>6. \A i \in DOMAIN integrations :
          /\ IntegrationFields \subseteq DOMAIN integrations'[i]
          /\ integrations'[i].contract = integrations[i].contract
          /\ integrations'[i].key = integrations[i].key
          /\ integrations'[i].status = integrations[i].status
    BY <1>5 DEF IntegrationInv, IntegrationFields
  <1>7. RecordedOnce'
    BY <1>1, <1>5, <1>6 DEF IntegrationInv, RecordedOnce, SameKeyed
  <1>8. integrations' \in [1 .. Len(integrations) -> T]
    <2>1. integrations' = [i \in DOMAIN integrations |-> integrations'[i]]
      BY <1>2, <1>4
    <2>2. \A i \in DOMAIN integrations : integrations'[i] \in T
      BY <1>4, <1>5
    <2> HIDE DEF T
    <2> QED  BY <1>4, <2>1, <2>2
  <1> HIDE DEF T
  <1>9. integrations' \in Seq(T)
    BY <1>4, <1>8
  <1> QED  BY <1>5, <1>6, <1>7, <1>9 DEF IntegrationInv, IsSeq

LEMMA IntegrationInductive == IntegrationInv /\ [IntegrationNext]_integrationVars => IntegrationInv'
  <1> SUFFICES ASSUME IntegrationInv, [IntegrationNext]_integrationVars PROVE IntegrationInv'
    OBVIOUS
  <1>1. CASE \E m : TakeIn(m)
    BY <1>1, TakeInStep
  <1>2. CASE \E id : RequestReplay(id)
    BY <1>2, ReplayStep
  <1>3. CASE UNCHANGED integrationVars
    BY <1>3 DEF integrationVars, IntegrationInv, RecordedOnce
  <1> QED  BY <1>1, <1>2, <1>3 DEF IntegrationNext, ReceiveIntegration, IssueDispatch

\* However messages are repeated, mended, numbered alike by several senders or
\* marked for a replay, a message is recorded once and acknowledged as recorded.
THEOREM MessagesRecordedOnce == IntegrationSpec => []RecordedOnce
  <1>1. IntegrationInit => IntegrationInv
    BY NoneIsSeq, NothingInEmpty DEF IntegrationInit, IntegrationInv, RecordedOnce
  <1>2. IntegrationInv => RecordedOnce
    BY DEF IntegrationInv
  <1> QED  BY <1>1, <1>2, IntegrationInductive, PTL DEF IntegrationSpec

-----------------------------------------------------------------------------
(* The inboxes of external evidence.                                       *)

LEMMA NothingAdded ==
  ASSUME NEW s, NEW t, IsSeq(s), IsSeq(t), s \o t = <<>>
  PROVE  s = <<>> /\ t = <<>>
  <1>1. PICK S : s \in Seq(S)
    BY DEF IsSeq
  <1>2. PICK T : t \in Seq(T)
    BY DEF IsSeq
  <1> DEFINE U == S \cup T
  <1>3. s \in Seq(U) /\ t \in Seq(U)
    BY <1>1, <1>2
  <1> HIDE DEF U
  <1>4. Len(s) + Len(t) = 0
    BY <1>3
  <1>5. Len(s) = 0 /\ Len(t) = 0
    BY <1>3, <1>4
  <1> QED  BY <1>3, <1>5

\* A check that adds no error was passed.
LEMMA Passed ==
  /\ \A c, code : IsSeq(Error(c, code))
  /\ \A c, code : Error(c, code) = <<>> => ~c
  <1>1. ASSUME NEW c, NEW code PROVE IsSeq(Error(c, code)) /\ (Error(c, code) = <<>> => ~c)
    <2>1. CASE c
      <3>1. <<code>> \in Seq({code}) /\ <<code>> # <<>>
        OBVIOUS
      <3> QED  BY <2>1, <3>1, SeqIsSeq DEF Error
    <2>2. CASE ~c
      BY <2>2, NoneIsSeq DEF Error
    <2> QED  BY <2>1, <2>2
  <1> QED  BY <1>1

\* A message of stock or execution evidence without errors passed all checks.
LEMMA StockPassed ==
  ASSUME NEW m, StockErrors(m) = <<>>
  PROVE  ReversalErrors(m) = <<>> /\ StockSupersessionErrors(m) = <<>>
  <1> DEFINE a == AuthorityErrors(m)
             b == ReversalErrors(m)
             c == StockSupersessionErrors(m)
             d == Error(~m.scope, "CONTRACT_SCOPE_VIOLATION")
             e == Error(m.name \notin names, "UNKNOWN_ITEM")
  <1>1. IsSeq(a) /\ IsSeq(b) /\ IsSeq(c) /\ IsSeq(d) /\ IsSeq(e)
    BY Passed DEF AuthorityErrors, ReversalErrors, StockSupersessionErrors
  <1>2. (((a \o b) \o c) \o d) \o e = <<>>
    BY DEF StockErrors
  <1> HIDE DEF a, b, c, d, e
  <1>3. IsSeq(a \o b) /\ IsSeq((a \o b) \o c) /\ IsSeq(((a \o b) \o c) \o d)
    BY <1>1, ConcatSeq
  <1>4. ((a \o b) \o c) \o d = <<>>
    BY <1>1, <1>2, <1>3, NothingAdded
  <1>5. (a \o b) \o c = <<>>
    BY <1>1, <1>3, <1>4, NothingAdded
  <1>6. c = <<>> /\ a \o b = <<>>
    BY <1>1, <1>3, <1>5, NothingAdded
  <1>7. b = <<>>
    BY <1>1, <1>6, NothingAdded
  <1> QED  BY <1>6, <1>7 DEF b, c

LEMMA FrozenConfigErrorsSeq == \A m : IsSeq(FrozenConfigErrors(m))
  <1> SUFFICES ASSUME NEW m PROVE IsSeq(FrozenConfigErrors(m))
    OBVIOUS
  <1>1. ASSUME NEW a PROVE <<a>> \in Seq({a})
    OBVIOUS
  <1> QED  BY <1>1, SeqIsSeq, Passed DEF FrozenConfigErrors

LEMMA ReferenceErrorsSeq == \A m : IsSeq(ReferenceErrors(m))
  <1> SUFFICES ASSUME NEW m PROVE IsSeq(ReferenceErrors(m))
    OBVIOUS
  <1> DEFINE a == Error(m.run \notin names, "MISSING_PLANNING_RUN")
             b == Error(m.order \notin names, "UNKNOWN_WORK_ORDER")
             c == Error(~(m.operations \subseteq names), "UNKNOWN_OPERATION")
  <1>1. IsSeq(a) /\ IsSeq(b) /\ IsSeq(c)
    BY Passed
  <1>2. ReferenceErrors(m) = (a \o b) \o c
    BY DEF ReferenceErrors
  <1> HIDE DEF a, b, c
  <1> QED  BY <1>1, <1>2, ConcatSeq

\* The check of supersession is itself two checks: one of corrections, one of
\* reversals.
LEMMA ExecutionSupersessionPassed ==
  ASSUME NEW m
  PROVE  /\ IsSeq(ExecutionSupersessionErrors(m))
         /\ ExecutionSupersessionErrors(m) = <<>> =>
              /\ m.supersedes # NoEvidence => m.supersedes \in KnownPackages("Execution")
              /\ m.reverses # NoEvidence => m.reverses \in KnownEvents
  <1> DEFINE lost == \/ m.corrects /\ m.correctsEvent = NoEvidence /\ m.supersedes = NoEvidence
                     \/ m.supersedes # NoEvidence /\ m.supersedes \notin KnownPackages("Execution")
             wild == \/ m.reversal /\ m.reverses = NoEvidence
                     \/ m.reverses # NoEvidence /\ m.reverses \notin KnownEvents
             a == Error(lost, "SUPERSESSION_TARGET_NOT_FOUND")
             b == Error(wild, "REVERSAL_TARGET_NOT_FOUND")
  <1>1. ExecutionSupersessionErrors(m) = a \o b
    BY DEF ExecutionSupersessionErrors
  <1> HIDE DEF lost, wild
  <1>2. IsSeq(a) /\ IsSeq(b) /\ (a = <<>> => ~lost) /\ (b = <<>> => ~wild)
    BY Passed
  <1> HIDE DEF a, b
  <1>3. IsSeq(a \o b) /\ (a \o b = <<>> => ~lost /\ ~wild)
    BY <1>2, ConcatSeq, NothingAdded
  <1> QED  BY <1>1, <1>3 DEF lost, wild

LEMMA ExecutionPassed ==
  ASSUME NEW m, ExecutionErrors(m) = <<>>
  PROVE  /\ LateCaptureErrors(m) = <<>> /\ MaterialBoundaryErrors(m) = <<>>
         /\ ExecutionSupersessionErrors(m) = <<>>
  <1> DEFINE a == Error(~m.scope, "CONTRACT_SCOPE_VIOLATION")
             b == ReferenceErrors(m)
             c == FrozenConfigErrors(m)
             d == LateCaptureErrors(m)
             e == MaterialBoundaryErrors(m)
             f == ExecutionSupersessionErrors(m)
  <1>1. IsSeq(a) /\ IsSeq(b) /\ IsSeq(c) /\ IsSeq(d) /\ IsSeq(e) /\ IsSeq(f)
    BY Passed, ReferenceErrorsSeq, FrozenConfigErrorsSeq, ExecutionSupersessionPassed
       DEF LateCaptureErrors, MaterialBoundaryErrors
  <1>2. ((((a \o b) \o c) \o d) \o e) \o f = <<>>
    BY DEF ExecutionErrors
  <1> HIDE DEF a, b, c, d, e, f
  <1>3. /\ IsSeq(a \o b) /\ IsSeq((a \o b) \o c) /\ IsSeq(((a \o b) \o c) \o d)
        /\ IsSeq((((a \o b) \o c) \o d) \o e)
    BY <1>1, ConcatSeq
  <1>4. f = <<>> /\ (((a \o b) \o c) \o d) \o e = <<>>
    BY <1>1, <1>2, <1>3, NothingAdded
  <1>5. e = <<>> /\ ((a \o b) \o c) \o d = <<>>
    BY <1>1, <1>3, <1>4, NothingAdded
  <1>6. d = <<>>
    BY <1>1, <1>3, <1>5, NothingAdded
  <1> QED  BY <1>4, <1>5, <1>6 DEF d, e, f

LEMMA AcceptedWithoutErrors ==
  ASSUME NEW m, StatusOf(m) = "Accepted" PROVE ErrorsOf(m) = <<>>
  BY DEF StatusOf, StatusForErrors

\* What a message accepted now may refer to: what the ledger has accepted.
Backed(x) == \E j \in DOMAIN evidence : evidence[j].status = "Accepted" /\ evidence[j].message = x

LEMMA AcceptedIsBacked ==
  \A contract : \A x \in AcceptedBy(contract) : x.contract = contract /\ Backed(x)
  BY DEF AcceptedBy, AcceptedEvidence, Backed

LEMMA KnownIsBacked ==
  /\ \A contract : \A p \in KnownPackages(contract) :
       \E x : Backed(x) /\ x.contract = contract /\ x.package = p
  /\ \A v \in KnownMovements : \E x : Backed(x) /\ x.contract = "Stock" /\ x.movement = v
  /\ \A v \in KnownEvents : \E x : Backed(x) /\ x.contract = "Execution" /\ x.event = v
  /\ \A o \in Started : \E x : Backed(x) /\ x.contract = "Execution" /\ o \in x.started
  BY AcceptedIsBacked DEF KnownPackages, KnownMovements, KnownEvents, Started

\* What each check lets pass.
LEMMA StockRefers ==
  ASSUME NEW m, StockErrors(m) = <<>>
  PROVE  /\ m.corrects => m.supersedes \in KnownPackages("Stock")
         /\ m.reversal => m.reverses \in KnownMovements
  BY StockPassed, Passed DEF StockSupersessionErrors, ReversalErrors

LEMMA MaterialRefers ==
  ASSUME NEW m, MaterialBoundaryErrors(m) = <<>>, NEW u \in m.materials
  PROVE  \/ u.stock \in KnownPackages("Stock")
         \/ u.stock = NoEvidence /\ u.authority \in names
  <1> DEFINE lacking(w) == \/ w.stock = NoEvidence /\ w.authority = NoEvidence
                           \/ w.stock # NoEvidence /\ w.stock \notin KnownPackages("Stock")
                           \/ w.authority # NoEvidence /\ w.authority \notin names
  <1>1. ~ \E w \in m.materials : lacking(w)
    BY Passed DEF MaterialBoundaryErrors
  <1>2. ~ lacking(u)
    BY <1>1
  <1> QED  BY <1>2

LEMMA CompletionRefers ==
  ASSUME NEW m, LateCaptureErrors(m) = <<>>, NEW c \in m.completed
  PROVE  c.object \in Started \/ c.reconciled \/ (c.stated /\ c.object # m.order)
  <1> DEFINE early(d) == d.object \notin Started /\ ~(d.stated /\ d.object # m.order) /\ ~d.reconciled
  <1>1. ~ \E d \in m.completed : early(d)
    BY Passed DEF LateCaptureErrors
  <1>2. ~ early(c)
    BY <1>1
  <1> QED  BY <1>2

\* The message is appended with its verdict, after all there was.
LEMMA Taken ==
  ASSUME IsSeq(evidence), NEW r, evidence' = Append(evidence, r)
  PROVE  \E n \in Nat :
           /\ n \notin DOMAIN evidence /\ DOMAIN evidence = 1 .. (n - 1)
           /\ DOMAIN evidence' = DOMAIN evidence \cup {n} /\ evidence'[n] = r
           /\ \A i \in DOMAIN evidence : i \in Nat /\ i < n /\ ~(n < i) /\ evidence'[i] = evidence[i]
           /\ \A i \in DOMAIN evidence : \A j \in 1 .. (i - 1) : j \in DOMAIN evidence
  <1> DEFINE n == Len(evidence) + 1
  <1>1. DOMAIN evidence = 1 .. Len(evidence) /\ Len(evidence) \in Nat
    BY DEF IsSeq
  <1>2. /\ n \in Nat /\ n \notin DOMAIN evidence
        /\ DOMAIN evidence' = DOMAIN evidence \cup {n} /\ evidence'[n] = r
        /\ \A i \in DOMAIN evidence : i < n /\ ~(n < i) /\ evidence'[i] = evidence[i]
    BY AppendAt
  <1>3. DOMAIN evidence = 1 .. (n - 1)
    BY <1>1
  <1> HIDE DEF n
  <1>4. \A i \in DOMAIN evidence : i \in Nat /\ \A j \in 1 .. (i - 1) : j \in DOMAIN evidence
    BY <1>2, <1>3
  <1> QED  BY <1>2, <1>3, <1>4

LEMMA AcceptedRests ==
  ASSUME IsSeq(evidence), RestsOnAccepted, NEW m, m.contract \in Contract,
         evidence' = Append(evidence, [message |-> m, status |-> StatusOf(m)]), names' = names
  PROVE  RestsOnAccepted'
  <1> DEFINE r == [message |-> m, status |-> StatusOf(m)]
  <1>1. PICK n \in Nat :
          /\ n \notin DOMAIN evidence /\ DOMAIN evidence = 1 .. (n - 1)
          /\ DOMAIN evidence' = DOMAIN evidence \cup {n} /\ evidence'[n] = r
          /\ \A i \in DOMAIN evidence : i \in Nat /\ i < n /\ ~(n < i) /\ evidence'[i] = evidence[i]
          /\ \A i \in DOMAIN evidence : \A j \in 1 .. (i - 1) : j \in DOMAIN evidence
    BY Taken
  <1>2. r.message = m /\ r.status = StatusOf(m)
    OBVIOUS
  <1> HIDE DEF r
  <1> DEFINE stock == AcceptedBefore(n, "Stock")'
             execution == AcceptedBefore(n, "Execution")'
  <1>3. ASSUME NEW x, Backed(x)
        PROVE  (x.contract = "Stock" => x \in stock) /\ (x.contract = "Execution" => x \in execution)
    BY <1>1, <1>3 DEF Backed, AcceptedBefore
  <1> HIDE DEF stock, execution
  <1>4. ASSUME r.status = "Accepted" PROVE Rests(m, stock, execution)
    <2>1. ErrorsOf(m) = <<>>
      BY <1>2, <1>4, AcceptedWithoutErrors
    <2>2. CASE m.contract = "Supplier"
      BY <2>2 DEF Rests
    <2>3. CASE m.contract = "Stock"
      <3>1. StockErrors(m) = <<>>
        BY <2>1, <2>3 DEF ErrorsOf
      <3>2. /\ m.corrects => m.supersedes \in KnownPackages("Stock")
            /\ m.reversal => m.reverses \in KnownMovements
        BY <3>1, StockRefers
      <3> QED  BY <1>3, <2>3, <3>2, KnownIsBacked DEF Rests
    <2>4. CASE m.contract = "Execution"
      <3>1. ExecutionErrors(m) = <<>>
        BY <2>1, <2>4 DEF ErrorsOf
      <3>2. /\ LateCaptureErrors(m) = <<>> /\ MaterialBoundaryErrors(m) = <<>>
            /\ ExecutionSupersessionErrors(m) = <<>>
        BY <3>1, ExecutionPassed
      <3>3. /\ m.supersedes # NoEvidence => m.supersedes \in KnownPackages("Execution")
            /\ m.reverses # NoEvidence => m.reverses \in KnownEvents
        BY <3>2, ExecutionSupersessionPassed
      <3>4. /\ m.supersedes # NoEvidence => \E x \in execution : x.package = m.supersedes
            /\ m.reverses # NoEvidence => \E x \in execution : x.event = m.reverses
        BY <1>3, <3>3, KnownIsBacked
      <3>5. ASSUME NEW u \in m.materials
            PROVE  (\E x \in stock : x.package = u.stock) \/ (u.stock = NoEvidence /\ u.authority \in names)
        BY <1>3, <3>2, MaterialRefers, KnownIsBacked
      <3>6. ASSUME NEW c \in m.completed
            PROVE  \/ \E x \in execution : c.object \in x.started
                   \/ c.reconciled
                   \/ c.stated /\ c.object # m.order
        BY <1>3, <3>2, CompletionRefers, KnownIsBacked
      <3> QED  BY <2>4, <3>4, <3>5, <3>6 DEF Rests
    <2> QED  BY <2>2, <2>3, <2>4 DEF Contract
  <1>5. ASSUME NEW i \in DOMAIN evidence, NEW c PROVE AcceptedBefore(i, c)' = AcceptedBefore(i, c)
    BY <1>1 DEF AcceptedBefore
  <1>6. ASSUME NEW i \in DOMAIN evidence', evidence'[i].status = "Accepted"
        PROVE  Rests(evidence'[i].message, AcceptedBefore(i, "Stock")', AcceptedBefore(i, "Execution")')
    <2>1. CASE i = n
      BY <1>1, <1>2, <1>4, <1>6, <2>1 DEF stock, execution
    <2>2. CASE i \in DOMAIN evidence
      BY <1>1, <1>5, <1>6, <2>2 DEF RestsOnAccepted
    <2> QED  BY <1>1, <2>1, <2>2
  <1> QED  BY <1>6 DEF RestsOnAccepted, Rests

LEMMA VerdictsKept ==
  ASSUME IsSeq(evidence), OneVerdictPerKey, NEW m,
         evidence' = Append(evidence, [message |-> m, status |-> StatusOf(m)])
  PROVE  OneVerdictPerKey'
  <1> DEFINE r == [message |-> m, status |-> StatusOf(m)]
  <1>1. PICK n \in Nat :
          /\ n \notin DOMAIN evidence /\ DOMAIN evidence = 1 .. (n - 1)
          /\ DOMAIN evidence' = DOMAIN evidence \cup {n} /\ evidence'[n] = r
          /\ \A i \in DOMAIN evidence : i \in Nat /\ i < n /\ ~(n < i) /\ evidence'[i] = evidence[i]
          /\ \A i \in DOMAIN evidence : \A j \in 1 .. (i - 1) : j \in DOMAIN evidence
    BY Taken
  <1>2. r.message = m /\ r.status = StatusOf(m)
    OBVIOUS
  <1> HIDE DEF r
  <1>3. ASSUME NEW i \in DOMAIN evidence, \A k \in 1 .. (i - 1) : ~SameKey(i, k),
               evidence[i].message.contract = m.contract, evidence[i].message.key = m.key
        PROVE  r.status = IF m = evidence[i].message THEN "Duplicate" ELSE "DeadLettered"
    <2>1. WithKey(m) \in SUBSET Nat /\ i \in WithKey(m)
      BY <1>1, <1>3 DEF WithKey
    <2>2. Min(WithKey(m)) \in WithKey(m) /\ Min(WithKey(m)) <= i
      BY <2>1, Least
    <2>3. Min(WithKey(m)) = i
      <3> DEFINE f == Min(WithKey(m))
      <3>1. f \in DOMAIN evidence /\ f <= i /\ SameKey(i, f)
        BY <1>3, <2>2 DEF WithKey, SameKey
      <3> HIDE DEF f
      <3>2. f \notin 1 .. (i - 1)
        BY <1>3, <3>1
      <3>3. f = i
        BY <1>1, <3>1, <3>2
      <3> QED  BY <3>3 DEF f
    <2>4. FirstWithKey(m) = evidence[i].message
      BY <2>3 DEF FirstWithKey
    <2> QED  BY <1>2, <2>1, <2>4 DEF StatusOf
  <1>5. ASSUME NEW i \in DOMAIN evidence', NEW j \in DOMAIN evidence', i < j, First(i)', SameKey(i, j)'
        PROVE  evidence'[j].status =
                 IF evidence'[j].message = evidence'[i].message THEN "Duplicate" ELSE "DeadLettered"
    <2>1. i \in DOMAIN evidence /\ evidence'[i] = evidence[i]
      BY <1>1, <1>5
    <2>2. \A k \in 1 .. (i - 1) : ~SameKey(i, k)
      BY <1>1, <1>5, <2>1 DEF First, SameKey
    <2>3. CASE j = n
      <3>1. evidence[i].message.contract = m.contract /\ evidence[i].message.key = m.key
        BY <1>1, <1>2, <1>5, <2>1, <2>3 DEF SameKey
      <3> QED  BY <1>1, <1>2, <1>3, <2>1, <2>2, <2>3, <3>1
    <2>4. CASE j \in DOMAIN evidence
      <3>1. First(i) /\ SameKey(i, j) /\ evidence'[j] = evidence[j]
        BY <1>1, <1>5, <2>1, <2>2, <2>4 DEF First, SameKey
      <3> QED  BY <1>5, <2>1, <2>4, <3>1 DEF OneVerdictPerKey
    <2> QED  BY <1>1, <2>3, <2>4
  <1> QED  BY <1>5 DEF OneVerdictPerKey

EvidenceInv == IsSeq(evidence) /\ OneVerdictPerKey /\ RestsOnAccepted

LEMMA EvidenceInductive == EvidenceInv /\ [EvidenceNext]_evidenceVars => EvidenceInv'
  <1> SUFFICES ASSUME EvidenceInv, [EvidenceNext]_evidenceVars PROVE EvidenceInv'
    OBVIOUS
  <1>1. ASSUME NEW m \in EvidenceMessage, ReceiveEvidence(m) PROVE EvidenceInv'
    <2>1. /\ evidence' = Append(evidence, [message |-> m, status |-> StatusOf(m)])
          /\ names' = names
      BY <1>1 DEF ReceiveEvidence
    <2>2. m.contract \in Contract
      BY EvidenceAssumption
    <2>3. IsSeq(evidence')
      BY <2>1, AppendSeq DEF EvidenceInv
    <2> QED  BY <2>1, <2>2, <2>3, AcceptedRests, VerdictsKept DEF EvidenceInv
  \* A name learnt is never forgotten, so an authority stays known.
  <1>2. ASSUME evidence' = evidence, names \subseteq names' PROVE EvidenceInv'
    <2>1. IsSeq(evidence') /\ OneVerdictPerKey'
      BY <1>2 DEF EvidenceInv, OneVerdictPerKey, First, SameKey
    <2>2. ASSUME NEW i \in DOMAIN evidence, evidence[i].status = "Accepted"
          PROVE  Rests(evidence[i].message, AcceptedBefore(i, "Stock"), AcceptedBefore(i, "Execution"))
      BY <2>2 DEF EvidenceInv, RestsOnAccepted
    <2>3. ASSUME NEW i, NEW c PROVE AcceptedBefore(i, c)' = AcceptedBefore(i, c)
      BY <1>2 DEF AcceptedBefore
    <2>4. RestsOnAccepted'
      BY <1>2, <2>2, <2>3 DEF RestsOnAccepted, Rests
    <2> QED  BY <2>1, <2>4 DEF EvidenceInv
  <1>3. CASE \E n \in Name : Learn(n)
    BY <1>2, <1>3 DEF Learn
  <1>4. CASE UNCHANGED evidenceVars
    BY <1>2, <1>4 DEF evidenceVars
  <1> QED  BY <1>1, <1>3, <1>4 DEF EvidenceNext

LEMMA EvidenceInitially == EvidenceInit => EvidenceInv
  BY NoneIsSeq, NothingInEmpty DEF EvidenceInit, EvidenceInv, OneVerdictPerKey, RestsOnAccepted

\* Whatever arrives in whatever order, the three inboxes keep the first verdict
\* on a key: the original is a duplicate for ever, all else under it refused.
THEOREM EvidenceJudgedOnce == EvidenceSpec => []OneVerdictPerKey
  <1>1. EvidenceInv => OneVerdictPerKey
    BY DEF EvidenceInv
  <1> QED  BY <1>1, EvidenceInitially, EvidenceInductive, PTL DEF EvidenceSpec

\* What accepted evidence says it replaces or reverses was accepted before it.
\* So was the stock its material comes from, unless it names an authority and
\* no package, and the start of what it completes, unless the completion was
\* captured late and reconciled or is of an operation that states its own start.
\* This holds for any messages, in any order, whatever names are known when.
THEOREM EvidenceRests == EvidenceSpec => []RestsOnAccepted
  <1>1. EvidenceInv => RestsOnAccepted
    BY DEF EvidenceInv
  <1> QED  BY <1>1, EvidenceInitially, EvidenceInductive, PTL DEF EvidenceSpec

-----------------------------------------------------------------------------
(* The replenishment ledger.  First, finite sets.                                                             *)

LEMMA ImageFinite ==
  ASSUME NEW S, IsFiniteSet(S), NEW T, NEW f \in [S -> T]
  PROVE  IsFiniteSet({f[x] : x \in S})
  <1> DEFINE R == {f[x] : x \in S}
  <1>1. f \in Surjection(S, R)
    BY DEF Surjection
  <1> QED  BY <1>1, FS_Surjection

LEMMA OneElement ==
  ASSUME NEW S, NEW x, S = {x}
  PROVE  IsFiniteSet(S) /\ Cardinality(S) = 1
  BY FS_Singleton

LEMMA SoleElement ==
  ASSUME NEW S, IsFiniteSet(S), Cardinality(S) = 1
  PROVE  \E x : S = {x}
  BY FS_Singleton

\* If the numbers of the elements are 1 to as many as there are, no two
\* elements have the same number.
LEMMA NumberedOnce ==
  ASSUME NEW S, IsFiniteSet(S), {x.version : x \in S} = 1 .. Cardinality(S),
         NEW x \in S, NEW y \in S, x.version = y.version
  PROVE  x = y
  <1> DEFINE n == Cardinality(S)
             f == [z \in S |-> z.version]
  <1>1. n \in Nat
    BY FS_CardinalityType
  <1>2. Cardinality(1 .. n) = n
    BY <1>1, FS_Interval
  <1>3. f \in Surjection(S, 1 .. n)
    BY DEF Surjection
  <1>4. f \in Injection(S, 1 .. n)
    <2> HIDE DEF f
    <2> QED  BY <1>2, <1>3, FS_SurjSameCardinalityImpliesInj
  <1>5. f[x] = f[y]
    OBVIOUS
  <1> HIDE DEF f
  <1> QED  BY <1>4, <1>5 DEF Injection, IsInjective

-----------------------------------------------------------------------------
(* The ledger that is valid, with what the validators do not look at: which   *)
(* aggregate an event is about, and that what supersedes is the next version. *)

RecommendationIDs == (Item \X (Nat \ {0})) \X (Nat \ {0})

AboutSomething(L, e) ==
  \/ \E c \in L.chains : e.of = ChainID(c)
  \/ \E r \in L.recs : e.of = RecommendationID(r)

SupersededByNext(e) ==
  e.type = Superseding =>
    /\ e.after = "Superseded" /\ e.of \in RecommendationIDs /\ e.related = e.of[2] + 1

Tended(L) ==
  /\ IsFiniteSet(L.recs) /\ IsFiniteSet(L.events)
  /\ \A e \in L.events : AboutSomething(L, e) /\ SupersededByNext(e)

LedgerInv ==
  /\ runtimePackages \in [DOMAIN runtimePackages -> Content]
  /\ DOMAIN runtimePackages \subseteq RuntimePackage
  /\ reservations \in 0 .. MaxReservationChanges
  /\ WorkbenchValid(Stored) /\ Tended(Stored)
  /\ AuthorityUsedOnce
  /\ RepeatedRequestsAnswered

LEMMA StoredFields ==
  /\ Stored.runs = evaluationRuns /\ Stored.rows = rows /\ Stored.chains = chains
  /\ Stored.recs = recs /\ Stored.events = events
  BY DEF Stored

\* A version that is not the last has been superseded, so one at most is current.
LEMMA SupersededIsFinal ==
  ASSUME NEW L, Tended(L), NEW id,
         Folds(L, id, "RecommendationVersionCreated", "Blocked"),
         NEW e \in EventsOf(L, id), e.type = Superseding
  PROVE  Status(L, id) = "Superseded"
  <1> DEFINE es == EventsOf(L, id)
             n == Cardinality(es)
             last == CHOOSE x \in es : \A o \in es : o.version <= x.version
  <1>1. IsFiniteSet(es) /\ n \in Nat
    BY FS_Subset, FS_CardinalityType DEF EventsOf, Tended
  <1>2. {x.version : x \in es} = 1 .. n
    BY DEF Folds
  <1> HIDE DEF n
  <1>3. \A x \in es : x.version \in Nat /\ x.version <= n /\ 1 <= x.version
    BY <1>1, <1>2
  <1>4. n \in 1 .. n
    BY <1>1, <1>3
  <1>5. \E x \in es : x.version = n
    BY <1>2, <1>4
  <1>6. last \in es /\ \A o \in es : o.version <= last.version
    BY <1>3, <1>5
  <1>7. \A x \in es : IF x.version = 1 THEN x.type = "RecommendationVersionCreated"
                                       ELSE x.type = Superseding
    BY DEF Folds
  <1>8. e.version # 1
    BY <1>7 DEF Superseding
  <1>9. last.version # 1
    BY <1>3, <1>6, <1>8
  <1>10. last.type = Superseding /\ last \in L.events
    BY <1>6, <1>7, <1>9 DEF EventsOf
  <1>11. last.after = "Superseded"
    BY <1>10 DEF Tended, SupersededByNext
  <1> QED  BY <1>11 DEF Status

LEMMA OneCurrent ==
  ASSUME NEW L, Tended(L), RecommendationsValid(L), NEW c \in L.chains
  PROVE  Cardinality({r \in OnChain(L, ChainID(c)) :
                        Status(L, RecommendationID(r)) # "Superseded"}) <= 1
  <1> DEFINE on == OnChain(L, ChainID(c))
             n == Cardinality(on)
             current == {r \in on : Status(L, RecommendationID(r)) # "Superseded"}
  <1>1. IsFiniteSet(on) /\ n \in Nat
    BY FS_Subset, FS_CardinalityType DEF OnChain, Tended
  <1>2. /\ {r.version : r \in on} = 1 .. n
        /\ \A r \in on : /\ r.predecessor = r.version - 1
                         /\ r.version > 1 =>
                              Cardinality({e \in L.events :
                                /\ e.type = Superseding /\ e.of = <<r.chain, r.predecessor>>
                                /\ e.related = r.version}) = 1
    BY DEF RecommendationsValid
  <1>3. ASSUME NEW r \in on, r.version # n PROVE Status(L, RecommendationID(r)) = "Superseded"
    <2>1. r.version \in 1 .. n
      BY <1>2
    <2>2. r.version + 1 \in 1 .. n
      BY <1>1, <1>3, <2>1
    <2>3. PICK s \in on : s.version = r.version + 1
      BY <1>2, <2>2
    <2>4. s.predecessor = r.version /\ s.version > 1 /\ s.chain = r.chain
      <3>1. r.version \in Nat /\ 1 <= r.version
        BY <1>1, <2>1
      <3>2. s.predecessor = s.version - 1 /\ s.chain = ChainID(c) /\ r.chain = ChainID(c)
        BY <1>2 DEF OnChain
      <3> QED  BY <2>3, <3>1, <3>2
    <2> DEFINE es == {e \in L.events : /\ e.type = Superseding /\ e.of = <<s.chain, s.predecessor>>
                                       /\ e.related = s.version}
    <2>5. Cardinality(es) = 1
      BY <1>2, <2>4
    <2>6. IsFiniteSet(es)
      BY FS_Subset DEF Tended
    <2>7. PICK e : es = {e}
      BY <2>5, <2>6, SoleElement
    <2>8. e \in EventsOf(L, RecommendationID(r)) /\ e.type = Superseding
      BY <2>4, <2>7 DEF EventsOf, RecommendationID
    <2>9. Folds(L, RecommendationID(r), "RecommendationVersionCreated", "Blocked")
      BY DEF RecommendationsValid, OnChain
    <2> QED  BY <2>8, <2>9, SupersededIsFinal
  <1>4. ASSUME NEW x \in current, NEW y \in current PROVE x = y
    BY <1>1, <1>2, <1>3, NumberedOnce
  <1>5. current = {} \/ \E x : current = {x}
    BY <1>4
  <1> HIDE DEF current
  <1>6. CASE current = {}
    BY <1>6, FS_EmptySet DEF current
  <1>7. CASE \E x : current = {x}
    BY <1>7, OneElement DEF current
  <1> QED  BY <1>5, <1>6, <1>7

-----------------------------------------------------------------------------
(* The evaluation of an authority that is not recorded, due for some items.  *)

Due(ev, q) ==
  /\ WorkbenchValid(Stored) /\ Tended(Stored)
  /\ ev \in Evaluation /\ ev.content.short \subseteq Item /\ q \in Request /\ NotRecorded(ev)

\* Nothing the ledger holds is of that evaluation.
LEMMA NothingOfIt ==
  ASSUME NEW ev, NEW q, Due(ev, q)
  PROVE  /\ \A row \in rows : row.evaluation # ev
         /\ \A r \in recs : r.evaluation # ev
         /\ \A c \in chains : c.openedBy # ev
         /\ \A e \in events : e.evaluation # ev
  <1>1. \A x \in evaluationRuns : x.evaluation # ev
    BY DEF Due, NotRecorded
  <1>2. /\ \A row \in rows : \E x \in evaluationRuns : x.evaluation = row.evaluation
        /\ \A c \in chains : \E r \in recs : r.evaluation = c.openedBy
        /\ \A r \in recs : \E row \in rows : row.evaluation = r.evaluation
        /\ \A e \in events : \E x \in evaluationRuns : x.evaluation = e.evaluation
    BY StoredFields DEF Due, WorkbenchValid, OnChain
  <1> QED  BY <1>1, <1>2

\* The chain of an item and its last version so far.
IdOf(i, ev) == ChainID(ChainFor(i, ev))
LastOf(i, ev) == LastVersion(IdOf(i, ev))

\* The chain of an item: the one there is or, for a fresh item, a new one.
LEMMA ChainOfItem ==
  ASSUME NEW ev, NEW q, Due(ev, q), NEW i \in Item
  PROVE  /\ ChainFor(i, ev) \in Chain /\ ChainFor(i, ev).item = i
         /\ IdOf(i, ev) \in Item \X (Nat \ {0}) /\ IdOf(i, ev)[1] = i
         /\ \/ ChainFor(i, ev) \in chains /\ OpenChain(i) = {ChainFor(i, ev)}
            \/ ChainFor(i, ev) = NewChain(i, ev) /\ OpenChain(i) = {} /\ LastOf(i, ev) = 0
         /\ LastOf(i, ev) \in Nat /\ LastOf(i, ev) = Cardinality(OnChain(Stored, IdOf(i, ev)))
         /\ IsFiniteSet(OnChain(Stored, IdOf(i, ev)))
         /\ {r.version : r \in OnChain(Stored, IdOf(i, ev))} = 1 .. LastOf(i, ev)
  <1> DEFINE c == ChainFor(i, ev)
             id == IdOf(i, ev)
             n == LastOf(i, ev)
             on == OnChain(Stored, id)
  <1>1. /\ chains \subseteq Chain /\ \A x, y \in chains : x.item = y.item => x = y
        /\ \A x \in chains : {r.version : r \in OnChain(Stored, ChainID(x))}
                             = 1 .. Cardinality(OnChain(Stored, ChainID(x)))
        /\ \A r \in recs : \E x \in chains : ChainID(x) = r.chain
    BY StoredFields DEF Due, WorkbenchValid, ChainsValid, RecommendationsValid
  <1>2. IsFiniteSet(on) /\ n \in Nat /\ n = Cardinality(on)
    <2>1. IsFiniteSet(on)
      BY FS_Subset DEF OnChain, Due, Tended
    <2> QED  BY <2>1, FS_CardinalityType DEF LastVersion, LastOf
  <1>3. CASE OpenChain(i) = {}
    <2>1. c = NewChain(i, ev)
      BY <1>3 DEF ChainFor
    <2>2. c \in Chain /\ c.item = i /\ c.cycle = 1
      BY <2>1 DEF NewChain, Chain, Due
    <2>3. \A x \in chains : x.item # i
      BY <1>3 DEF OpenChain
    <2>4. id = <<i, 1>>
      BY <2>2 DEF ChainID, IdOf
    <2>5. on = {}
      <3>1. \A x \in chains : ChainID(x) # id
        BY <2>3, <2>4 DEF ChainID
      <3> QED  BY <1>1, <3>1, StoredFields DEF OnChain
    <2>6. n = 0
      BY <1>2, <2>5, FS_EmptySet
    <2> HIDE DEF n, on, c
    <2>7. {r.version : r \in on} = 1 .. n
      BY <2>5, <2>6
    <2> QED  BY <1>2, <1>3, <2>1, <2>2, <2>4, <2>6, <2>7 DEF n, on, c
  <1>4. CASE OpenChain(i) # {}
    <2>1. c \in OpenChain(i)
      BY <1>4 DEF ChainFor
    <2>2. c \in chains /\ c.item = i /\ c \in Chain
      BY <1>1, <2>1 DEF OpenChain
    <2>3. OpenChain(i) = {c}
      BY <1>1, <2>1, <2>2 DEF OpenChain
    <2>4. {r.version : r \in on} = 1 .. n
      BY <1>1, <2>2 DEF LastVersion, LastOf, IdOf
    <2>5. id \in Item \X (Nat \ {0}) /\ id[1] = i
      BY <2>2 DEF ChainID, Chain, IdOf
    <2> HIDE DEF n, on, c
    <2> QED  BY <1>2, <2>2, <2>3, <2>4, <2>5 DEF n, on, c
  <1> QED  BY <1>3, <1>4

LEMMA NewOfItem ==
  ASSUME NEW ev, NEW q, Due(ev, q), NEW i \in Item
  PROVE  LET r == NewRecommendation(i, ev) IN
         /\ r \in Recommendation /\ r.evaluation = ev /\ r.chain = IdOf(i, ev) /\ r.chain[1] = i
         /\ r.version = LastOf(i, ev) + 1 /\ r.predecessor = LastOf(i, ev)
         /\ r.version \in Nat \ {0} /\ r.predecessor = r.version - 1
         /\ RecommendationID(r) = <<IdOf(i, ev), LastOf(i, ev) + 1>>
         /\ RecommendationID(r) \in RecommendationIDs
         /\ \A x \in recs : x.chain = IdOf(i, ev) => x.version \in 1 .. LastOf(i, ev)
  <1> DEFINE r == NewRecommendation(i, ev)
             id == IdOf(i, ev)
             n == LastOf(i, ev)
  <1>1. /\ id \in Item \X (Nat \ {0}) /\ id[1] = i /\ n \in Nat
        /\ {x.version : x \in OnChain(Stored, id)} = 1 .. n
    BY ChainOfItem
  <1>2. /\ r = [chain |-> id, version |-> n + 1, evaluation |-> ev, predecessor |-> n]
    BY DEF NewRecommendation, IdOf, LastOf
  <1> HIDE DEF r, id, n
  <1>3. /\ r.evaluation = ev /\ r.chain = id /\ r.version = n + 1 /\ r.predecessor = n
        /\ r.version \in Nat \ {0} /\ r.predecessor = r.version - 1
    BY <1>1, <1>2
  <1>4. r \in Recommendation
    BY <1>1, <1>2 DEF Recommendation, Due
  <1>5. RecommendationID(r) = <<id, n + 1>> /\ <<id, n + 1>> \in RecommendationIDs
    BY <1>1, <1>3 DEF RecommendationID, RecommendationIDs
  <1>6. \A x \in recs : x.chain = id => x.version \in 1 .. n
    BY <1>1, StoredFields DEF OnChain
  <1> QED  BY <1>1, <1>3, <1>4, <1>5, <1>6 DEF r, id, n

\* Its events are about the chain, the new version and the version before it.
LEMMA OpenedFields ==
  ASSUME NEW ev, NEW q, Due(ev, q), NEW i \in Item
  PROVE  LET e == ChainEvent(i, ev, q) IN
         /\ e.type = "ReplenishmentChainOpened" /\ e.of = <<i, 1>> /\ e.version = 1
         /\ e.evaluation = ev /\ e.request = q /\ e.before = NoStatus /\ e.after = "Open"
         /\ e \in Event
  <1> DEFINE e == ChainEvent(i, ev, q)
  <1>1. e = [type |-> "ReplenishmentChainOpened", of |-> <<i, 1>>, version |-> 1,
             evaluation |-> ev, request |-> q, related |-> 0, before |-> NoStatus, after |-> "Open"]
    BY DEF ChainEvent, ChainID, NewChain
  <1> HIDE DEF e
  <1>2. e \in Event
    BY <1>1 DEF Event, Due
  <1>3. /\ e.type = "ReplenishmentChainOpened" /\ e.of = <<i, 1>> /\ e.version = 1
        /\ e.evaluation = ev /\ e.request = q /\ e.before = NoStatus /\ e.after = "Open"
    BY <1>1
  <1> QED  BY <1>2, <1>3 DEF e

LEMMA CreatedFields ==
  ASSUME NEW ev, NEW q, Due(ev, q), NEW i \in Item
  PROVE  LET e == CreationEvent(NewRecommendation(i, ev), q) IN
         /\ e.type = "RecommendationVersionCreated" /\ e.of = <<IdOf(i, ev), LastOf(i, ev) + 1>>
         /\ e.version = 1 /\ e.evaluation = ev /\ e.request = q /\ e.related = LastOf(i, ev)
         /\ e.before = NoStatus /\ e.after = "Blocked" /\ e \in Event
  <1> DEFINE new == NewRecommendation(i, ev)
             e == CreationEvent(new, q)
             id == IdOf(i, ev)
             n == LastOf(i, ev)
  <1>1. /\ id \in Item \X (Nat \ {0}) /\ n \in Nat /\ new.evaluation = ev
        /\ new.predecessor = n /\ RecommendationID(new) = <<id, n + 1>>
        /\ <<id, n + 1>> \in RecommendationIDs
    BY ChainOfItem, NewOfItem
  <1> HIDE DEF id, n, new
  <1>2. e = [type |-> "RecommendationVersionCreated", of |-> <<id, n + 1>>, version |-> 1,
             evaluation |-> ev, request |-> q, related |-> n, before |-> NoStatus, after |-> "Blocked"]
    BY <1>1 DEF CreationEvent
  <1> HIDE DEF e
  <1>3. e \in Event
    BY <1>1, <1>2 DEF Event, RecommendationIDs, Due
  <1>4. /\ e.type = "RecommendationVersionCreated" /\ e.of = <<id, n + 1>>
        /\ e.version = 1 /\ e.evaluation = ev /\ e.request = q /\ e.related = n
        /\ e.before = NoStatus /\ e.after = "Blocked"
    BY <1>2
  <1> QED  BY <1>3, <1>4 DEF id, n, new, e

LEMMA SupersedingFields ==
  ASSUME NEW ev, NEW q, Due(ev, q), NEW i \in Item
  PROVE  \A e \in SupersessionEvent(NewRecommendation(i, ev), q) :
           /\ LastOf(i, ev) # 0 /\ e.type = Superseding
           /\ e.of = <<IdOf(i, ev), LastOf(i, ev)>> /\ e.related = LastOf(i, ev) + 1
           /\ e.evaluation = ev /\ e.request = q /\ e.after = "Superseded"
           /\ e.version = Cardinality(EventsOf(Stored, e.of)) + 1
           /\ e.before = Status(Stored, e.of)
           /\ e = [type |-> Superseding, of |-> e.of, version |-> e.version, evaluation |-> ev,
                   request |-> q, related |-> e.related, before |-> e.before,
                   after |-> "Superseded"]
  <1> DEFINE new == NewRecommendation(i, ev)
             id == IdOf(i, ev)
             n == LastOf(i, ev)
             old == <<id, n>>
             made == [type |-> Superseding, of |-> old,
                      version |-> Cardinality(EventsOf(Stored, old)) + 1,
                      evaluation |-> ev, request |-> q, related |-> n + 1,
                      before |-> Status(Stored, old), after |-> "Superseded"]
  <1>1. /\ n \in Nat /\ new.evaluation = ev /\ new.chain = id
        /\ new.version = n + 1 /\ new.predecessor = n
    BY ChainOfItem, NewOfItem
  <1> HIDE DEF id, n, new
  <1>2. SupersessionEvent(new, q) = IF n = 0 THEN {} ELSE {made}
    BY <1>1 DEF SupersessionEvent
  <1>3. /\ made.type = Superseding /\ made.of = old /\ made.related = n + 1
        /\ made.evaluation = ev /\ made.request = q /\ made.after = "Superseded"
        /\ made.version = Cardinality(EventsOf(Stored, old)) + 1
        /\ made.before = Status(Stored, old)
        /\ made = [type |-> Superseding, of |-> made.of, version |-> made.version,
                   evaluation |-> ev, request |-> q, related |-> made.related,
                   before |-> made.before, after |-> "Superseded"]
    OBVIOUS
  <1>4. ASSUME NEW e \in SupersessionEvent(new, q)
        PROVE  n # 0 /\ e = made
    BY <1>2
  <1> HIDE DEF made, old
  <1>5. ASSUME NEW e \in SupersessionEvent(new, q)
        PROVE  /\ n # 0 /\ e.type = Superseding /\ e.of = old /\ e.related = n + 1
               /\ e.evaluation = ev /\ e.request = q /\ e.after = "Superseded"
               /\ e.version = Cardinality(EventsOf(Stored, e.of)) + 1
               /\ e.before = Status(Stored, e.of)
               /\ e = [type |-> Superseding, of |-> e.of, version |-> e.version,
                       evaluation |-> ev, request |-> q, related |-> e.related,
                       before |-> e.before, after |-> "Superseded"]
    BY <1>3, <1>4
  <1> QED  BY <1>5 DEF id, n, new, old

LEMMA IdentifiersApart ==
  \A x \in Item \X (Nat \ {0}) : \A y \in RecommendationIDs : x # y
  BY ReplenishmentAssumption DEF RecommendationIDs

\* Until it is superseded, a version has the event of its creation and no other.
LEMMA LastIsCurrent ==
  ASSUME NEW ev, NEW q, Due(ev, q), NEW i \in Item,
         LastOf(i, ev) # 0
  PROVE  LET old == <<IdOf(i, ev), LastOf(i, ev)>>
         IN  /\ \E r \in recs : RecommendationID(r) = old
             /\ \A e \in events : e.type = Superseding => e.of # old
             /\ Status(Stored, old) = "Blocked"
             /\ \E e : /\ EventsOf(Stored, old) = {e} /\ e.version = 1 /\ e.after = "Blocked"
                       /\ e.before = NoStatus /\ e.type = "RecommendationVersionCreated"
  <1> DEFINE id == IdOf(i, ev)
             n == LastOf(i, ev)
             old == <<id, n>>
             es == EventsOf(Stored, old)
  <1>1. /\ n \in Nat /\ n # 0 /\ {r.version : r \in OnChain(Stored, id)} = 1 .. n
        /\ \A x \in recs : x.chain = id => x.version \in 1 .. n
    BY ChainOfItem, NewOfItem
  <1> HIDE DEF id, n
  <1>2. PICK r \in recs : RecommendationID(r) = old
    <2>1. n \in 1 .. n
      BY <1>1
    <2>2. PICK r \in OnChain(Stored, id) : r.version = n
      BY <1>1, <2>1
    <2> QED  BY <2>2, StoredFields DEF OnChain, RecommendationID
  <1>3. Folds(Stored, old, "RecommendationVersionCreated", "Blocked")
    BY <1>2, StoredFields DEF Due, WorkbenchValid, RecommendationsValid
  <1>4. ASSUME NEW e \in events, e.type = Superseding, e.of = old PROVE FALSE
    <2>1. e.related = n + 1
      BY <1>4, StoredFields DEF Due, Tended, SupersededByNext
    <2>2. PICK x \in recs : RecommendationID(x) = <<e.of[1], e.related>>
      BY <1>4, StoredFields DEF Due, WorkbenchValid, EventReferencesValid
    <2>3. x.chain = id /\ x.version = n + 1
      BY <1>4, <2>1, <2>2 DEF RecommendationID
    <2>4. n + 1 \in 1 .. n
      BY <1>1, <2>3
    <2> QED  BY <1>1, <2>4
  <1>5. /\ IsFiniteSet(es) /\ es # {} /\ {e.version : e \in es} = 1 .. Cardinality(es)
        /\ Cardinality(es) \in Nat
    <2>1. IsFiniteSet(es)
      BY FS_Subset, StoredFields DEF EventsOf, Due, Tended
    <2> QED  BY <1>3, <2>1, FS_CardinalityType DEF Folds
  <1>6. \A e \in es : /\ e.version = 1 /\ e.after = "Blocked"
                      /\ e.before = NoStatus /\ e.type = "RecommendationVersionCreated"
    <2>1. \A e \in es : e.type # Superseding
      BY <1>4, StoredFields DEF EventsOf
    <2> QED  BY <1>3, <2>1 DEF Folds
  <1>7. Cardinality(es) = 1
    <2> HIDE DEF es
    <2>1. {e.version : e \in es} = {1}
      BY <1>5, <1>6
    <2>2. 1 .. Cardinality(es) = {1}
      BY <1>5, <2>1
    <2> DEFINE m == Cardinality(es)
    <2>3. m \in Nat /\ 1 .. m = {1}
      BY <1>5, <2>2
    <2> HIDE DEF m
    <2>4. 1 \in 1 .. m /\ ~(2 \in 1 .. m)
      BY <2>3
    <2>5. m = 1
      BY <2>3, <2>4
    <2> QED  BY <2>5 DEF m
  <1>8. PICK e : es = {e}
    BY <1>5, <1>7, SoleElement
  <1>9. Status(Stored, old) = "Blocked"
    <2>1. e \in es /\ \A o \in es : o.version <= e.version
      BY <1>6, <1>8
    <2>2. (CHOOSE x \in es : \A o \in es : o.version <= x.version) \in es
      BY <2>1
    <2> QED  BY <1>6, <2>2 DEF Status
  <1> QED  BY <1>2, <1>4, <1>6, <1>8, <1>9 DEF id, n

-----------------------------------------------------------------------------
(* The ledger with the write set.                                           *)

Fresh(ev) == {i \in ev.content.short : OpenChain(i) = {}}

LEMMA StagedFields ==
  ASSUME NEW ev, NEW q
  PROVE  LET L == Staged(ev, q) IN
         /\ L.runs = evaluationRuns \cup {[evaluation |-> ev, request |-> q]}
         /\ L.rows = rows \cup {NewRow(i, ev) : i \in Item}
         /\ L.chains = chains \cup {NewChain(i, ev) : i \in Fresh(ev)}
         /\ L.recs = recs \cup {NewRecommendation(i, ev) : i \in ev.content.short}
         /\ \A e : e \in L.events <=>
              \/ e \in events
              \/ \E i \in Fresh(ev) : e = ChainEvent(i, ev, q)
              \/ \E i \in ev.content.short :
                   \/ e = CreationEvent(NewRecommendation(i, ev), q)
                   \/ e \in SupersessionEvent(NewRecommendation(i, ev), q)
  <1> DEFINE L == Staged(ev, q)
             new == {NewRecommendation(i, ev) : i \in ev.content.short}
             more == events
                \cup {ChainEvent(i, ev, q) : i \in Fresh(ev)}
                \cup {CreationEvent(r, q) : r \in new}
                \cup UNION {SupersessionEvent(r, q) : r \in new}
  <1>1. /\ L.runs = evaluationRuns \cup {[evaluation |-> ev, request |-> q]}
        /\ L.rows = rows \cup {NewRow(i, ev) : i \in Item}
        /\ L.chains = chains \cup {NewChain(i, ev) : i \in Fresh(ev)}
        /\ L.recs = recs \cup new
        /\ L.events = more
    BY DEF Staged, RowsWith, Fresh
  <1>2. \A e : e \in more <=>
              \/ e \in events
              \/ \E i \in Fresh(ev) : e = ChainEvent(i, ev, q)
              \/ \E i \in ev.content.short :
                   \/ e = CreationEvent(NewRecommendation(i, ev), q)
                   \/ e \in SupersessionEvent(NewRecommendation(i, ev), q)
    OBVIOUS
  <1> QED  BY <1>1, <1>2

\* An event of an aggregate is either old or one of the three kinds.
LEMMA EventsOfStaged ==
  ASSUME NEW ev, NEW q, Due(ev, q), NEW id, NEW e \in EventsOf(Staged(ev, q), id)
  PROVE  \/ e \in EventsOf(Stored, id)
         \/ \E i \in Fresh(ev) : e = ChainEvent(i, ev, q) /\ id = <<i, 1>>
         \/ \E i \in ev.content.short :
              \/ /\ e = CreationEvent(NewRecommendation(i, ev), q)
                 /\ id = <<IdOf(i, ev), LastOf(i, ev) + 1>>
              \/ /\ e \in SupersessionEvent(NewRecommendation(i, ev), q)
                 /\ LastOf(i, ev) # 0 /\ id = <<IdOf(i, ev), LastOf(i, ev)>>
  <1>1. e \in Staged(ev, q).events /\ e.of = id
    BY DEF EventsOf
  <1>2. CASE e \in events
    BY <1>1, <1>2, StoredFields DEF EventsOf
  <1>3. ASSUME NEW i \in Fresh(ev), e = ChainEvent(i, ev, q) PROVE id = <<i, 1>>
    <2>1. i \in Item
      BY DEF Fresh, Due
    <2>2. e.of = <<i, 1>>
      BY <1>3, <2>1, OpenedFields
    <2> QED  BY <1>1, <2>2
  <1>4. ASSUME NEW i \in ev.content.short
        PROVE  /\ e = CreationEvent(NewRecommendation(i, ev), q) =>
                    id = <<IdOf(i, ev), LastOf(i, ev) + 1>>
               /\ e \in SupersessionEvent(NewRecommendation(i, ev), q) =>
                    LastOf(i, ev) # 0 /\ id = <<IdOf(i, ev), LastOf(i, ev)>>
    <2>1. i \in Item
      BY DEF Due
    <2>2. ASSUME e = CreationEvent(NewRecommendation(i, ev), q)
          PROVE  id = <<IdOf(i, ev), LastOf(i, ev) + 1>>
      BY <1>1, <2>1, <2>2, CreatedFields
    <2>3. ASSUME e \in SupersessionEvent(NewRecommendation(i, ev), q)
          PROVE  LastOf(i, ev) # 0 /\ id = <<IdOf(i, ev), LastOf(i, ev)>>
      <3>1. LastOf(i, ev) # 0 /\ e.of = <<IdOf(i, ev), LastOf(i, ev)>>
        BY <2>1, <2>3, SupersedingFields
      <3> QED  BY <1>1, <3>1
    <2> QED  BY <2>2, <2>3
  <1>5. \/ e \in events
        \/ \E i \in Fresh(ev) : e = ChainEvent(i, ev, q)
        \/ \E i \in ev.content.short :
             \/ e = CreationEvent(NewRecommendation(i, ev), q)
             \/ e \in SupersessionEvent(NewRecommendation(i, ev), q)
    BY <1>1, StagedFields
  <1> QED  BY <1>2, <1>3, <1>4, <1>5

LEMMA OldEventsStay ==
  ASSUME NEW ev, NEW q, NEW id
  PROVE  EventsOf(Stored, id) \subseteq EventsOf(Staged(ev, q), id)
  BY StagedFields, StoredFields DEF EventsOf

\* What old events are about.
LEMMA OldTargets ==
  ASSUME NEW ev, NEW q, Due(ev, q), NEW id, EventsOf(Stored, id) # {}
  PROVE  \/ \E c \in chains : id = ChainID(c)
         \/ \E r \in recs : id = RecommendationID(r)
  BY StoredFields DEF Due, Tended, AboutSomething, EventsOf

LEMMA Typed ==
  ASSUME NEW ev, NEW q, Due(ev, q)
  PROVE  /\ \A c \in chains : c \in Chain /\ ChainID(c) \in Item \X (Nat \ {0})
         /\ \A r \in recs : r \in Recommendation /\ RecommendationID(r) \in RecommendationIDs
  BY StoredFields DEF Due, WorkbenchValid, ChainsValid, RecommendationsValid, Chain, ChainID,
     Recommendation, RecommendationID, RecommendationIDs

\* Chains fold.
LEMMA NewChainFolds ==
  ASSUME NEW ev, NEW q, Due(ev, q), NEW i \in Fresh(ev)
  PROVE  Folds(Staged(ev, q), <<i, 1>>, "ReplenishmentChainOpened", "Open")
  <1> DEFINE L == Staged(ev, q)
             e == ChainEvent(i, ev, q)
  <1>1. i \in Item /\ OpenChain(i) = {} /\ <<i, 1>> \in Item \X (Nat \ {0})
    BY DEF Fresh, Due
  <1>2. EventsOf(Stored, <<i, 1>>) = {}
    <2>1. \A c \in chains : ChainID(c) # <<i, 1>>
      BY <1>1 DEF ChainID, OpenChain
    <2>2. \A r \in recs : RecommendationID(r) # <<i, 1>>
      BY <1>1, Typed, IdentifiersApart
    <2> QED  BY <2>1, <2>2, OldTargets
  <1>3. /\ e.type = "ReplenishmentChainOpened" /\ e.of = <<i, 1>> /\ e.version = 1
        /\ e.before = NoStatus /\ e.after = "Open"
    BY <1>1, OpenedFields
  <1>4. e \in EventsOf(L, <<i, 1>>)
    BY <1>3, StagedFields DEF EventsOf
  <1>5. ASSUME NEW x \in EventsOf(L, <<i, 1>>) PROVE x = e
    <2>1. ASSUME NEW j \in ev.content.short, NEW n PROVE <<i, 1>> # <<IdOf(j, ev), n>>
      <3>1. IdOf(j, ev) \in Item \X (Nat \ {0})
        BY ChainOfItem DEF Due
      <3>2. i # IdOf(j, ev)
        BY <1>1, <3>1, ReplenishmentAssumption
      <3> QED  BY <3>2
    <2>2. ASSUME NEW j \in Fresh(ev), <<i, 1>> = <<j, 1>> PROVE j = i
      BY <2>2
    <2> QED  BY <1>2, <2>1, <2>2, EventsOfStaged
  <1> HIDE DEF e, L
  <1>6. EventsOf(L, <<i, 1>>) = {e}
    BY <1>4, <1>5
  <1>7. Cardinality(EventsOf(L, <<i, 1>>)) = 1
    BY <1>6, OneElement
  <1>8. {x.version : x \in EventsOf(L, <<i, 1>>)} = 1 .. 1
    BY <1>3, <1>6
  <1> QED  BY <1>3, <1>6, <1>7, <1>8 DEF Folds, L

LEMMA OldChainFolds ==
  ASSUME NEW ev, NEW q, Due(ev, q), NEW c \in chains
  PROVE  Folds(Staged(ev, q), ChainID(c), "ReplenishmentChainOpened", "Open")
  <1>1. Folds(Stored, ChainID(c), "ReplenishmentChainOpened", "Open")
    BY StoredFields DEF Due, WorkbenchValid, ChainsValid
  <1>2. ChainID(c) \in Item \X (Nat \ {0}) /\ ChainID(c)[1] = c.item
    BY Typed DEF ChainID
  <1>3. ASSUME NEW i \in Fresh(ev) PROVE ChainID(c) # <<i, 1>>
    BY <1>2 DEF Fresh, OpenChain, ChainID
  <1>4. ASSUME NEW i \in ev.content.short
        PROVE  \A n : ChainID(c) # <<IdOf(i, ev), n>>
    <2> DEFINE d == IdOf(i, ev)
    <2>1. d \in Item \X (Nat \ {0}) /\ c.item \in Item
      BY <1>2, ChainOfItem DEF Due
    <2>2. c.item # d
      BY <2>1, ReplenishmentAssumption
    <2> QED  BY <1>2, <2>2
  <1>5. EventsOf(Staged(ev, q), ChainID(c)) = EventsOf(Stored, ChainID(c))
    <2>1. ASSUME NEW e \in EventsOf(Staged(ev, q), ChainID(c))
          PROVE  e \in EventsOf(Stored, ChainID(c))
      BY <1>3, <1>4, EventsOfStaged
    <2> QED  BY <2>1, OldEventsStay
  <1> QED  BY <1>1, <1>5 DEF Folds

\* Different items have different chains.
LEMMA ItemOfChain ==
  ASSUME NEW ev, NEW q, Due(ev, q), NEW i \in Item, NEW j \in Item, IdOf(i, ev) = IdOf(j, ev)
  PROVE  i = j
  BY ChainOfItem

\* Recommendations fold: new ones, those that are superseded and the others.
LEMMA NewRecommendationFolds ==
  ASSUME NEW ev, NEW q, Due(ev, q), NEW i \in ev.content.short
  PROVE  Folds(Staged(ev, q), RecommendationID(NewRecommendation(i, ev)),
               "RecommendationVersionCreated", "Blocked")
  <1> DEFINE L == Staged(ev, q)
             id == <<IdOf(i, ev), LastOf(i, ev) + 1>>
             e == CreationEvent(NewRecommendation(i, ev), q)
  <1>1. i \in Item /\ ev.content.short \subseteq Item
    BY DEF Due
  <1>2. /\ RecommendationID(NewRecommendation(i, ev)) = id /\ id \in RecommendationIDs
        /\ LastOf(i, ev) \in Nat
        /\ \A x \in recs : x.chain = IdOf(i, ev) => x.version \in 1 .. LastOf(i, ev)
    BY <1>1, NewOfItem, ChainOfItem
  <1>3. /\ e.type = "RecommendationVersionCreated" /\ e.of = id
        /\ e.version = 1 /\ e.before = NoStatus /\ e.after = "Blocked"
    BY <1>1, CreatedFields
  <1> HIDE DEF e
  <1>4. EventsOf(Stored, id) = {}
    <2>1. \A c \in chains : ChainID(c) # id
      BY <1>2, Typed, IdentifiersApart
    <2>2. ASSUME NEW r \in recs, RecommendationID(r) = id PROVE FALSE
      <3>1. r.chain = IdOf(i, ev) /\ r.version = LastOf(i, ev) + 1
        BY <2>2 DEF RecommendationID
      <3>2. LastOf(i, ev) + 1 \in 1 .. LastOf(i, ev)
        BY <1>2, <3>1
      <3> QED  BY <1>2, <3>2
    <2> QED  BY <2>1, <2>2, OldTargets
  <1>5. e \in EventsOf(L, id)
    BY <1>3, StagedFields DEF EventsOf, e
  <1>6. ASSUME NEW x \in EventsOf(L, id) PROVE x = e
    <2>1. ASSUME NEW j \in Fresh(ev) PROVE <<j, 1>> # id
      <3>1. <<j, 1>> \in Item \X (Nat \ {0})
        BY DEF Fresh, Due
      <3> QED  BY <1>2, <3>1, IdentifiersApart
    <2>2. ASSUME NEW j \in ev.content.short, NEW n, id = <<IdOf(j, ev), n>>
          PROVE  j = i /\ n = LastOf(i, ev) + 1
      BY <1>1, <2>2, ItemOfChain
    <2>3. LastOf(i, ev) # LastOf(i, ev) + 1
      BY <1>2
    <2>4. \/ \E j \in Fresh(ev) : id = <<j, 1>>
          \/ \E j \in ev.content.short :
               \/ x = CreationEvent(NewRecommendation(j, ev), q) /\ id = <<IdOf(j, ev), LastOf(j, ev) + 1>>
               \/ id = <<IdOf(j, ev), LastOf(j, ev)>>
      BY <1>4, EventsOfStaged
    <2>5. PICK j \in ev.content.short :
               \/ x = CreationEvent(NewRecommendation(j, ev), q) /\ id = <<IdOf(j, ev), LastOf(j, ev) + 1>>
               \/ id = <<IdOf(j, ev), LastOf(j, ev)>>
      BY <2>1, <2>4
    <2>6. j = i
      BY <2>2, <2>5
    <2> QED  BY <2>2, <2>3, <2>5, <2>6 DEF e
  <1> HIDE DEF L
  <1>7. EventsOf(L, id) = {e}
    BY <1>5, <1>6
  <1>8. Cardinality(EventsOf(L, id)) = 1
    BY <1>7, OneElement
  <1>9. {x.version : x \in EventsOf(L, id)} = 1 .. 1
    BY <1>3, <1>7
  <1>10. Folds(L, id, "RecommendationVersionCreated", "Blocked")
    BY <1>3, <1>7, <1>8, <1>9 DEF Folds
  <1> QED  BY <1>2, <1>10 DEF L

\* The version that an item's next one supersedes.
LEMMA SupersededFolds ==
  ASSUME NEW ev, NEW q, Due(ev, q), NEW i \in ev.content.short, LastOf(i, ev) # 0
  PROVE  Folds(Staged(ev, q), <<IdOf(i, ev), LastOf(i, ev)>>,
               "RecommendationVersionCreated", "Blocked")
  <1> DEFINE L == Staged(ev, q)
             id == <<IdOf(i, ev), LastOf(i, ev)>>
  <1>1. i \in Item /\ ev.content.short \subseteq Item /\ LastOf(i, ev) \in Nat
    BY ChainOfItem DEF Due
  <1>2. /\ \E r \in recs : RecommendationID(r) = id
        /\ Status(Stored, id) = "Blocked"
        /\ \E e : /\ EventsOf(Stored, id) = {e} /\ e.version = 1 /\ e.after = "Blocked"
                  /\ e.before = NoStatus /\ e.type = "RecommendationVersionCreated"
    BY <1>1, LastIsCurrent
  <1>3. id \in RecommendationIDs
    BY <1>2, Typed
  <1>4. PICK e : /\ EventsOf(Stored, id) = {e} /\ e.version = 1 /\ e.after = "Blocked"
                 /\ e.before = NoStatus /\ e.type = "RecommendationVersionCreated"
    BY <1>2
  <1>5. PICK f : SupersessionEvent(NewRecommendation(i, ev), q) = {f}
    <2>1. NewRecommendation(i, ev).predecessor # 0
      BY <1>1, NewOfItem
    <2> QED  BY <2>1 DEF SupersessionEvent
  <1>6. /\ f.type = Superseding /\ f.of = id /\ f.version = Cardinality(EventsOf(Stored, id)) + 1
        /\ f.before = Status(Stored, id)
    <2>1. f \in SupersessionEvent(NewRecommendation(i, ev), q)
      BY <1>5
    <2>2. f.type = Superseding /\ f.of = <<IdOf(i, ev), LastOf(i, ev)>>
      BY <1>1, <2>1, SupersedingFields
    <2>3. f.version = Cardinality(EventsOf(Stored, f.of)) + 1 /\ f.before = Status(Stored, f.of)
      BY <1>1, <2>1, SupersedingFields
    <2> QED  BY <2>2, <2>3
  <1>7. f.version = 2 /\ f.before = "Blocked"
    <2>1. Cardinality(EventsOf(Stored, id)) = 1
      BY <1>4, OneElement
    <2> QED  BY <1>2, <1>6, <2>1
  <1>8. e \in EventsOf(L, id)
    BY <1>4, OldEventsStay
  <1>9. f \in EventsOf(L, id)
    BY <1>5, <1>6, StagedFields DEF EventsOf
  <1>10. ASSUME NEW x \in EventsOf(L, id) PROVE x = e \/ x = f
    <2>1. ASSUME NEW j \in Fresh(ev) PROVE <<j, 1>> # id
      <3>1. <<j, 1>> \in Item \X (Nat \ {0})
        BY DEF Fresh, Due
      <3> QED  BY <1>3, <3>1, IdentifiersApart
    <2>2. ASSUME NEW j \in ev.content.short, NEW n, id = <<IdOf(j, ev), n>>
          PROVE  j = i /\ n = LastOf(i, ev)
      BY <1>1, <2>2, ItemOfChain
    <2>3. LastOf(i, ev) # LastOf(i, ev) + 1
      BY <1>1
    <2>4. \/ x \in EventsOf(Stored, id)
          \/ \E j \in Fresh(ev) : id = <<j, 1>>
          \/ \E j \in ev.content.short :
               \/ id = <<IdOf(j, ev), LastOf(j, ev) + 1>>
               \/ x \in SupersessionEvent(NewRecommendation(j, ev), q) /\ id = <<IdOf(j, ev), LastOf(j, ev)>>
      BY EventsOfStaged
    <2>5. CASE x \in EventsOf(Stored, id)
      BY <1>4, <2>5
    <2>6. ASSUME NEW j \in ev.content.short,
               \/ id = <<IdOf(j, ev), LastOf(j, ev) + 1>>
               \/ x \in SupersessionEvent(NewRecommendation(j, ev), q) /\ id = <<IdOf(j, ev), LastOf(j, ev)>>
          PROVE x = f
      <3>1. j = i
        BY <2>2, <2>6
      <3> QED  BY <1>5, <2>2, <2>3, <2>6, <3>1
    <2> QED  BY <2>1, <2>4, <2>5, <2>6
  <1> HIDE DEF L, id
  <1>11. EventsOf(L, id) = {e, f}
    BY <1>8, <1>9, <1>10
  <1>12. Cardinality(EventsOf(L, id)) = 2
    <2>1. f \notin {e}
      BY <1>4, <1>7
    <2>2. IsFiniteSet({e}) /\ Cardinality({e}) = 1
      BY OneElement
    <2>3. Cardinality({e} \cup {f}) = Cardinality({e}) + 1
      BY <2>1, <2>2, FS_AddElement
    <2>4. {e} \cup {f} = {e, f}
      OBVIOUS
    <2> QED  BY <1>11, <2>2, <2>3, <2>4
  <1>13. {x.version : x \in EventsOf(L, id)} = 1 .. 2
    BY <1>4, <1>7, <1>11
  <1> QED
    <2>1. \A x \in {e, f} :
           IF x.version = 1
           THEN x.type = "RecommendationVersionCreated" /\ x.before = NoStatus /\ x.after = "Blocked"
           ELSE /\ x.type = Superseding /\ x.before = "Blocked"
                /\ \E p \in {e, f} : p.version = x.version - 1 /\ p.after = x.before
      BY <1>4, <1>6, <1>7
    <2> QED  BY <1>11, <1>12, <1>13, <2>1 DEF Folds, L, id

LEMMA OldRecommendationFolds ==
  ASSUME NEW ev, NEW q, Due(ev, q), NEW r \in recs
  PROVE  Folds(Staged(ev, q), RecommendationID(r), "RecommendationVersionCreated", "Blocked")
  <1> DEFINE id == RecommendationID(r)
             L == Staged(ev, q)
  <1>1. id \in RecommendationIDs /\ id = <<r.chain, r.version>>
    BY Typed DEF RecommendationID
  <1>2. CASE \E i \in ev.content.short : LastOf(i, ev) # 0 /\ id = <<IdOf(i, ev), LastOf(i, ev)>>
    BY <1>2, SupersededFolds
  <1>3. CASE ~ \E i \in ev.content.short : LastOf(i, ev) # 0 /\ id = <<IdOf(i, ev), LastOf(i, ev)>>
    <2>1. ASSUME NEW j \in Fresh(ev) PROVE <<j, 1>> # id
      <3>1. <<j, 1>> \in Item \X (Nat \ {0})
        BY DEF Fresh, Due
      <3> QED  BY <1>1, <3>1, IdentifiersApart
    <2>2. ASSUME NEW j \in ev.content.short, id = <<IdOf(j, ev), LastOf(j, ev) + 1>> PROVE FALSE
      <3>1. j \in Item /\ r.chain = IdOf(j, ev) /\ r.version = LastOf(j, ev) + 1
        BY <1>1, <2>2 DEF Due
      <3>2. LastOf(j, ev) \in Nat /\ r.version \in 1 .. LastOf(j, ev)
        BY <3>1, NewOfItem, ChainOfItem
      <3> QED  BY <3>1, <3>2
    <2> HIDE DEF id
    <2>3. ASSUME NEW x \in EventsOf(L, id) PROVE x \in EventsOf(Stored, id)
      BY <1>3, <2>1, <2>2, EventsOfStaged
    <2>4. EventsOf(L, id) = EventsOf(Stored, id)
      BY <2>3, OldEventsStay
    <2>5. Folds(Stored, id, "RecommendationVersionCreated", "Blocked")
      BY StoredFields DEF id, Due, WorkbenchValid, RecommendationsValid
    <2> QED  BY <2>4, <2>5 DEF Folds, id
  <1> QED  BY <1>2, <1>3

\* The events by which a version superseded the one before it.
SupersededBy(L, r) ==
  {e \in L.events : /\ e.type = Superseding /\ e.of = <<r.chain, r.predecessor>>
                    /\ e.related = r.version}

\* What is new in the ledger.
LEMMA NewChainFields ==
  ASSUME NEW ev, NEW q, Due(ev, q), NEW i \in Fresh(ev)
  PROVE  /\ i \in Item /\ i \in ev.content.short /\ NewChain(i, ev) \in Chain
         /\ NewChain(i, ev) = ChainFor(i, ev) /\ ChainID(NewChain(i, ev)) = <<i, 1>>
         /\ ChainID(NewChain(i, ev)) = IdOf(i, ev) /\ NewChain(i, ev).item = i
         /\ NewChain(i, ev).openedBy = ev /\ LastOf(i, ev) = 0
  <1>1. i \in Item /\ OpenChain(i) = {} /\ i \in ev.content.short
    BY DEF Fresh, Due
  <1>2. ChainFor(i, ev) \in Chain /\ ChainFor(i, ev) = NewChain(i, ev) /\ LastOf(i, ev) = 0
    BY <1>1, ChainOfItem
  <1>3. /\ NewChain(i, ev).item = i /\ NewChain(i, ev).openedBy = ev
        /\ ChainID(NewChain(i, ev)) = <<i, 1>>
    BY DEF NewChain, ChainID
  <1> QED  BY <1>1, <1>2, <1>3 DEF IdOf

LEMMA NewEventFields ==
  ASSUME NEW ev, NEW q, Due(ev, q), NEW e \in Staged(ev, q).events, e \notin events
  PROVE  /\ e.evaluation = ev /\ e.request = q /\ e \in Event
         /\ \/ \E i \in Fresh(ev) : e = ChainEvent(i, ev, q)
            \/ \E i \in ev.content.short :
                 \/ e = CreationEvent(NewRecommendation(i, ev), q)
                 \/ /\ e \in SupersessionEvent(NewRecommendation(i, ev), q)
                    /\ LastOf(i, ev) # 0 /\ e.type = Superseding
                    /\ e.of = <<IdOf(i, ev), LastOf(i, ev)>> /\ e.of \in RecommendationIDs
                    /\ e.related = LastOf(i, ev) + 1 /\ e.after = "Superseded"
  <1>1. \/ \E i \in Fresh(ev) : e = ChainEvent(i, ev, q)
        \/ \E i \in ev.content.short :
             \/ e = CreationEvent(NewRecommendation(i, ev), q)
             \/ e \in SupersessionEvent(NewRecommendation(i, ev), q)
    BY StagedFields
  <1>2. ASSUME NEW i \in Fresh(ev), e = ChainEvent(i, ev, q)
        PROVE  e.evaluation = ev /\ e.request = q /\ e \in Event
    BY <1>2, NewChainFields, OpenedFields
  <1>3. ASSUME NEW i \in ev.content.short, e = CreationEvent(NewRecommendation(i, ev), q)
        PROVE  e.evaluation = ev /\ e.request = q /\ e \in Event
    <2>1. i \in Item
      BY DEF Due
    <2> QED  BY <1>3, <2>1, CreatedFields
  <1>4. ASSUME NEW i \in ev.content.short, e \in SupersessionEvent(NewRecommendation(i, ev), q)
        PROVE  /\ e.evaluation = ev /\ e.request = q /\ e \in Event
               /\ LastOf(i, ev) # 0 /\ e.type = Superseding
               /\ e.of = <<IdOf(i, ev), LastOf(i, ev)>> /\ e.of \in RecommendationIDs
               /\ e.related = LastOf(i, ev) + 1 /\ e.after = "Superseded"
    <2> DEFINE old == <<IdOf(i, ev), LastOf(i, ev)>>
    <2>1. i \in Item
      BY DEF Due
    <2>2. /\ LastOf(i, ev) # 0 /\ e.type = Superseding /\ e.of = old
          /\ e.related = LastOf(i, ev) + 1 /\ e.evaluation = ev /\ e.request = q
          /\ e.after = "Superseded"
      BY <1>4, <2>1, SupersedingFields
    <2>3. /\ e.version = Cardinality(EventsOf(Stored, e.of)) + 1 /\ e.before = Status(Stored, e.of)
          /\ e = [type |-> Superseding, of |-> e.of, version |-> e.version, evaluation |-> ev,
                  request |-> q, related |-> e.related, before |-> e.before,
                  after |-> "Superseded"]
      BY <1>4, <2>1, SupersedingFields
    <2>4. /\ \E r \in recs : RecommendationID(r) = old
          /\ Status(Stored, old) = "Blocked"
          /\ \E x : EventsOf(Stored, old) = {x}
      <3>1. LastOf(i, ev) # 0
        BY <2>2
      <3> QED  BY <2>1, <3>1, LastIsCurrent
    <2>5. old \in RecommendationIDs
      BY <2>4, Typed
    <2>6. e.version = 2 /\ e.before = "Blocked"
      <3>1. Cardinality(EventsOf(Stored, old)) = 1
        BY <2>4, OneElement
      <3> QED  BY <2>2, <2>3, <2>4, <3>1
    <2>7. LastOf(i, ev) \in Nat /\ ev \in Evaluation /\ q \in Request
      BY <2>1, ChainOfItem DEF Due
    <2> HIDE DEF old
    <2>8. e \in Event
      BY <2>2, <2>3, <2>5, <2>6, <2>7 DEF Event, RecommendationIDs
    <2> QED  BY <2>2, <2>5, <2>8 DEF old
  <1> QED  BY <1>1, <1>2, <1>3, <1>4

LEMMA SupersededOnceBefore ==
  ASSUME NEW ev, NEW q, Due(ev, q), NEW r \in recs, r.version > 1
  PROVE  Cardinality(SupersededBy(Staged(ev, q), r)) = 1
  <1>1. Cardinality(SupersededBy(Stored, r)) = 1 /\ r.predecessor = r.version - 1
    <2>1. PICK c \in chains : ChainID(c) = r.chain
      BY StoredFields DEF Due, WorkbenchValid, RecommendationsValid
    <2>2. r \in OnChain(Stored, ChainID(c))
      BY <2>1, StoredFields DEF OnChain
    <2> QED  BY <2>2, StoredFields DEF Due, WorkbenchValid, RecommendationsValid, SupersededBy
  <1>2. ASSUME NEW e \in SupersededBy(Staged(ev, q), r), e \notin events PROVE FALSE
    <2>1. /\ e \in Staged(ev, q).events /\ e.type = Superseding
          /\ e.of = <<r.chain, r.predecessor>> /\ e.related = r.version
      BY DEF SupersededBy
    <2>2. ASSUME NEW i \in Fresh(ev), e = ChainEvent(i, ev, q) PROVE FALSE
      BY <2>1, <2>2, NewChainFields, OpenedFields DEF Superseding
    <2>3. ASSUME NEW i \in ev.content.short, e = CreationEvent(NewRecommendation(i, ev), q) PROVE FALSE
      <3>1. i \in Item
        BY DEF Due
      <3>2. e.type = "RecommendationVersionCreated"
        BY <2>3, <3>1, CreatedFields
      <3> QED  BY <2>1, <3>2 DEF Superseding
    <2>4. ASSUME NEW i \in ev.content.short, e.of = <<IdOf(i, ev), LastOf(i, ev)>>,
                 e.related = LastOf(i, ev) + 1
          PROVE  FALSE
      <3>1. i \in Item /\ r.chain = IdOf(i, ev) /\ r.version = LastOf(i, ev) + 1
        BY <2>1, <2>4 DEF Due
      <3>2. LastOf(i, ev) \in Nat /\ r.version \in 1 .. LastOf(i, ev)
        BY <3>1, ChainOfItem, NewOfItem
      <3> QED  BY <3>1, <3>2
    <2> QED  BY <1>2, <2>1, <2>2, <2>3, <2>4, NewEventFields
  <1>3. \A e \in events : e \in Staged(ev, q).events
    BY StagedFields
  <1>4. SupersededBy(Staged(ev, q), r) = SupersededBy(Stored, r)
    BY <1>2, <1>3, StoredFields DEF SupersededBy
  <1> QED  BY <1>1, <1>4

LEMMA SupersededOnceNow ==
  ASSUME NEW ev, NEW q, Due(ev, q), NEW i \in ev.content.short, LastOf(i, ev) # 0
  PROVE  Cardinality(SupersededBy(Staged(ev, q), NewRecommendation(i, ev))) = 1
  <1> DEFINE r == NewRecommendation(i, ev)
             old == <<IdOf(i, ev), LastOf(i, ev)>>
             L == Staged(ev, q)
  <1>1. i \in Item /\ ev.content.short \subseteq Item
    BY DEF Due
  <1>2. r.chain = IdOf(i, ev) /\ r.predecessor = LastOf(i, ev) /\ r.version = LastOf(i, ev) + 1
    BY <1>1, NewOfItem
  <1>3. PICK f : SupersessionEvent(r, q) = {f}
    BY <1>2 DEF SupersessionEvent
  <1>4. f.type = Superseding /\ f.of = old /\ f.related = LastOf(i, ev) + 1
    BY <1>1, <1>3, SupersedingFields
  <1> HIDE DEF r
  <1>5. f \in SupersededBy(L, r)
    <2>1. f \in L.events
      BY <1>3, StagedFields DEF r
    <2> QED  BY <1>2, <1>4, <2>1 DEF SupersededBy
  <1>6. ASSUME NEW e \in SupersededBy(L, r) PROVE e = f
    <2>1. e \in L.events /\ e.type = Superseding /\ e.of = old
      BY <1>2 DEF SupersededBy
    <2>2. e \notin events
      <3>1. \A x \in events : x.type = Superseding => x.of # old
        BY <1>1, LastIsCurrent
      <3> QED  BY <2>1, <3>1
    <2>3. ASSUME NEW j \in Fresh(ev), e = ChainEvent(j, ev, q) PROVE FALSE
      BY <2>1, <2>3, NewChainFields, OpenedFields DEF Superseding
    <2>4. ASSUME NEW j \in ev.content.short, e = CreationEvent(NewRecommendation(j, ev), q) PROVE FALSE
      <3>1. e.type = "RecommendationVersionCreated"
        BY <1>1, <2>4, CreatedFields
      <3> QED  BY <2>1, <3>1 DEF Superseding
    <2>5. PICK j \in ev.content.short :
                 /\ e \in SupersessionEvent(NewRecommendation(j, ev), q)
                 /\ e.of = <<IdOf(j, ev), LastOf(j, ev)>>
      BY <2>1, <2>2, <2>3, <2>4, NewEventFields
    <2>6. j = i
      BY <1>1, <2>1, <2>5, ItemOfChain
    <2> QED  BY <1>3, <2>5, <2>6 DEF r
  <1> HIDE DEF L
  <1>7. SupersededBy(L, r) = {f}
    BY <1>5, <1>6
  <1> QED  BY <1>7, OneElement DEF L, r

LEMMA ChainsStayValid ==
  ASSUME NEW ev, NEW q, Due(ev, q)
  PROVE  ChainsValid(Staged(ev, q))
  <1> DEFINE L == Staged(ev, q)
  <1>1. L.chains = chains \cup {NewChain(i, ev) : i \in Fresh(ev)}
    BY StagedFields
  <1> HIDE DEF L
  <1>2. chains \subseteq Chain /\ \A c, d \in chains : c.item = d.item => c = d
    BY StoredFields DEF Due, WorkbenchValid, ChainsValid
  <1>3. L.chains \subseteq Chain
    BY <1>1, <1>2, NewChainFields
  <1>4. ASSUME NEW c \in L.chains PROVE Folds(L, ChainID(c), "ReplenishmentChainOpened", "Open")
    <2>1. CASE c \in chains
      BY <2>1, OldChainFolds DEF L
    <2>2. ASSUME NEW i \in Fresh(ev), c = NewChain(i, ev)
          PROVE  Folds(L, ChainID(c), "ReplenishmentChainOpened", "Open")
      BY <2>2, NewChainFields, NewChainFolds DEF L
    <2> QED  BY <1>1, <2>1, <2>2
  <1>5. ASSUME NEW c \in L.chains, NEW d \in L.chains, c.item = d.item PROVE c = d
    <2>1. ASSUME NEW i \in Fresh(ev), NEW x \in chains PROVE x.item # NewChain(i, ev).item
      BY NewChainFields DEF Fresh, OpenChain
    <2>2. ASSUME NEW i \in Fresh(ev), NEW j \in Fresh(ev), NewChain(i, ev).item = NewChain(j, ev).item
          PROVE  i = j
      BY <2>2, NewChainFields
    <2> QED  BY <1>1, <1>2, <1>5, <2>1, <2>2
  <1> QED  BY <1>3, <1>4, <1>5 DEF ChainsValid, L

LEMMA NumbersOnChain ==
  ASSUME NEW ev, NEW q, Due(ev, q), NEW i \in ev.content.short
  PROVE  LET on == OnChain(Staged(ev, q), IdOf(i, ev)) IN
         /\ on = OnChain(Stored, IdOf(i, ev)) \cup {NewRecommendation(i, ev)}
         /\ {r.version : r \in on} = 1 .. Cardinality(on)
  <1> DEFINE id == IdOf(i, ev)
             n == LastOf(i, ev)
             new == NewRecommendation(i, ev)
             old == OnChain(Stored, id)
             on == OnChain(Staged(ev, q), id)
  <1>1. i \in Item /\ ev.content.short \subseteq Item
    BY DEF Due
  <1>2. /\ n \in Nat /\ n = Cardinality(old) /\ IsFiniteSet(old)
        /\ {r.version : r \in old} = 1 .. n
    BY <1>1, ChainOfItem
  <1>3. new.chain = id /\ new.version = n + 1
    BY <1>1, NewOfItem
  <1>4. on = old \cup {new}
    <2>1. ASSUME NEW j \in ev.content.short, NewRecommendation(j, ev).chain = id PROVE j = i
      <3>1. NewRecommendation(j, ev).chain = IdOf(j, ev)
        BY <1>1, NewOfItem
      <3> QED  BY <1>1, <2>1, <3>1, ItemOfChain
    <2>2. Staged(ev, q).recs = recs \cup {NewRecommendation(j, ev) : j \in ev.content.short}
      BY StagedFields
    <2> QED  BY <1>3, <2>1, <2>2, StoredFields DEF OnChain
  <1> HIDE DEF old, new, n, on
  <1>5. new \notin old
    <2>1. n + 1 \notin 1 .. n
      BY <1>2
    <2> QED  BY <1>2, <1>3, <2>1
  <1>6. Cardinality(on) = n + 1
    BY <1>2, <1>4, <1>5, FS_AddElement
  <1>7. {r.version : r \in on} = (1 .. n) \cup {n + 1}
    BY <1>2, <1>3, <1>4
  <1>8. (1 .. n) \cup {n + 1} = 1 .. n + 1
    BY <1>2
  <1> QED  BY <1>4, <1>6, <1>7, <1>8 DEF on, old, new

LEMMA RecommendationsStayValid ==
  ASSUME NEW ev, NEW q, Due(ev, q)
  PROVE  RecommendationsValid(Staged(ev, q))
  <1> DEFINE L == Staged(ev, q)
  <1>1. /\ L.chains = chains \cup {NewChain(i, ev) : i \in Fresh(ev)}
        /\ L.recs = recs \cup {NewRecommendation(i, ev) : i \in ev.content.short}
        /\ ev.content.short \subseteq Item
    BY StagedFields DEF Due
  <1>2. /\ recs \subseteq Recommendation
        /\ \A r \in recs : \E c \in chains : ChainID(c) = r.chain
        /\ \A c \in chains :
             /\ {r.version : r \in OnChain(Stored, ChainID(c))} = 1..Cardinality(OnChain(Stored, ChainID(c)))
             /\ \A r \in OnChain(Stored, ChainID(c)) : r.predecessor = r.version - 1
    BY StoredFields DEF Due, WorkbenchValid, RecommendationsValid
  <1> HIDE DEF L
  <1>3. L.recs \subseteq Recommendation
    BY <1>1, <1>2, NewOfItem
  <1>4. ASSUME NEW i \in ev.content.short PROVE ChainFor(i, ev) \in L.chains
    <2>1. i \in Item
      BY <1>1
    <2>2. CASE OpenChain(i) = {}
      BY <1>1, <2>1, <2>2, ChainOfItem DEF Fresh
    <2>3. CASE OpenChain(i) # {}
      BY <1>1, <2>1, <2>3, ChainOfItem
    <2> QED  BY <2>2, <2>3
  <1>5. ASSUME NEW r \in L.recs
        PROVE  /\ \E c \in L.chains : ChainID(c) = r.chain
               /\ Folds(L, RecommendationID(r), "RecommendationVersionCreated", "Blocked")
    <2>1. CASE r \in recs
      BY <1>1, <1>2, <2>1, OldRecommendationFolds DEF L
    <2>2. ASSUME NEW i \in ev.content.short, r = NewRecommendation(i, ev)
          PROVE  /\ \E c \in L.chains : ChainID(c) = r.chain
                 /\ Folds(L, RecommendationID(r), "RecommendationVersionCreated", "Blocked")
      <3>1. r.chain = ChainID(ChainFor(i, ev))
        BY <1>1, <2>2, NewOfItem DEF IdOf
      <3>2. Folds(L, RecommendationID(r), "RecommendationVersionCreated", "Blocked")
        BY <2>2, NewRecommendationFolds DEF L
      <3> QED  BY <1>4, <3>1, <3>2
    <2> QED  BY <1>1, <2>1, <2>2
  <1>6. ASSUME NEW r \in L.recs
        PROVE  /\ r.predecessor = r.version - 1
               /\ r.version > 1 => Cardinality(SupersededBy(L, r)) = 1
    <2>1. CASE r \in recs
      <3>1. PICK c \in chains : ChainID(c) = r.chain
        BY <1>2, <2>1
      <3>2. r \in OnChain(Stored, ChainID(c))
        BY <2>1, <3>1, StoredFields DEF OnChain
      <3> QED  BY <1>2, <2>1, <3>2, SupersededOnceBefore DEF L
    <2>2. ASSUME NEW i \in ev.content.short, r = NewRecommendation(i, ev)
          PROVE  /\ r.predecessor = r.version - 1
                 /\ r.version > 1 => Cardinality(SupersededBy(L, r)) = 1
      <3>1. /\ r.predecessor = r.version - 1 /\ r.version = LastOf(i, ev) + 1
            /\ LastOf(i, ev) \in Nat
        BY <1>1, <2>2, NewOfItem, ChainOfItem
      <3>2. r.version > 1 => LastOf(i, ev) # 0
        BY <3>1
      <3> QED  BY <2>2, <3>1, <3>2, SupersededOnceNow DEF L
    <2> QED  BY <1>1, <2>1, <2>2
  <1>7. ASSUME NEW c \in L.chains
        PROVE  {r.version : r \in OnChain(L, ChainID(c))} = 1..Cardinality(OnChain(L, ChainID(c)))
    <2>1. ASSUME NEW i \in ev.content.short, ChainID(c) = IdOf(i, ev)
          PROVE  {r.version : r \in OnChain(L, ChainID(c))} = 1..Cardinality(OnChain(L, ChainID(c)))
      BY <2>1, NumbersOnChain DEF L
    <2>2. CASE \A i \in ev.content.short : ChainID(c) # IdOf(i, ev)
      <3>1. c \in chains
        BY <1>1, <2>2, NewChainFields
      <3>2. \A i \in ev.content.short : NewRecommendation(i, ev).chain # ChainID(c)
        BY <1>1, <2>2, NewOfItem
      <3>3. OnChain(L, ChainID(c)) = OnChain(Stored, ChainID(c))
        BY <1>1, <3>2, StoredFields DEF OnChain
      <3> QED  BY <1>2, <3>1, <3>3
    <2> QED  BY <2>1, <2>2
  <1>8. \A c \in L.chains :
       LET on == OnChain(L, ChainID(c))
       IN  /\ {r.version : r \in on} = 1..Cardinality(on)
           /\ \A r \in on :
                /\ r.predecessor = r.version - 1
                /\ r.version > 1 => Cardinality(SupersededBy(L, r)) = 1
    BY <1>6, <1>7 DEF OnChain
  <1>9. RecommendationsValid(L)
    BY <1>3, <1>5, <1>8 DEF RecommendationsValid, SupersededBy
  <1> QED  BY <1>9 DEF L

LEMMA EventReferencesStayValid ==
  ASSUME NEW ev, NEW q, Due(ev, q)
  PROVE  EventReferencesValid(Staged(ev, q))
  <1> DEFINE L == Staged(ev, q)
  <1>1. /\ L.recs = recs \cup {NewRecommendation(i, ev) : i \in ev.content.short}
        /\ ev.content.short \subseteq Item
    BY StagedFields DEF Due
  <1>2. EventReferencesValid(Stored)
    BY DEF Due, WorkbenchValid
  <1> HIDE DEF L
  <1>3. ASSUME NEW e \in L.events PROVE e \in Event
    BY <1>2, NewEventFields, StoredFields DEF EventReferencesValid, L
  <1>4. ASSUME NEW e \in L.events, e.type = "RecommendationVersionCreated"
        PROVE  \E r \in L.recs : RecommendationID(r) = e.of /\ e.related = r.predecessor
    <2>1. CASE e \in events
      BY <1>1, <1>2, <1>4, <2>1, StoredFields DEF EventReferencesValid
    <2>2. CASE e \notin events
      <3>1. ASSUME NEW i \in Fresh(ev), e = ChainEvent(i, ev, q) PROVE FALSE
        BY <1>4, <3>1, NewChainFields, OpenedFields
      <3>2. PICK i \in ev.content.short : e = CreationEvent(NewRecommendation(i, ev), q)
        BY <1>4, <2>2, <3>1, NewEventFields DEF L, Superseding
      <3>3. i \in Item
        BY <1>1
      <3>4. e.of = <<IdOf(i, ev), LastOf(i, ev) + 1>> /\ e.related = LastOf(i, ev)
        BY <3>2, <3>3, CreatedFields
      <3>5. /\ RecommendationID(NewRecommendation(i, ev)) = <<IdOf(i, ev), LastOf(i, ev) + 1>>
            /\ NewRecommendation(i, ev).predecessor = LastOf(i, ev)
        BY <3>3, NewOfItem
      <3> QED  BY <1>1, <3>4, <3>5
    <2> QED  BY <2>1, <2>2
  <1>5. ASSUME NEW e \in L.events, e.type = Superseding
        PROVE  \E r \in L.recs : /\ RecommendationID(r) = <<e.of[1], e.related>>
                                 /\ e.evaluation = r.evaluation
    <2>1. CASE e \in events
      BY <1>1, <1>2, <1>5, <2>1, StoredFields DEF EventReferencesValid
    <2>2. CASE e \notin events
      <3>1. ASSUME NEW i \in Fresh(ev), e = ChainEvent(i, ev, q) PROVE FALSE
        BY <1>5, <3>1, NewChainFields, OpenedFields DEF Superseding
      <3>2. ASSUME NEW i \in ev.content.short, e = CreationEvent(NewRecommendation(i, ev), q) PROVE FALSE
        <4>1. e.type = "RecommendationVersionCreated"
          BY <1>1, <3>2, CreatedFields
        <4> QED  BY <1>5, <4>1 DEF Superseding
      <3>3. PICK i \in ev.content.short : /\ e.of = <<IdOf(i, ev), LastOf(i, ev)>>
                                          /\ e.related = LastOf(i, ev) + 1
        BY <2>2, <3>1, <3>2, NewEventFields DEF L
      <3>4. e.evaluation = ev
        BY <2>2, NewEventFields DEF L
      <3>5. /\ RecommendationID(NewRecommendation(i, ev)) = <<IdOf(i, ev), LastOf(i, ev) + 1>>
            /\ NewRecommendation(i, ev).evaluation = ev
        BY <1>1, NewOfItem
      <3> QED  BY <1>1, <3>3, <3>4, <3>5
    <2> QED  BY <2>1, <2>2
  <1>6. EventReferencesValid(L)
    BY <1>3, <1>4, <1>5 DEF EventReferencesValid
  <1> QED  BY <1>6 DEF L

LEMMA NewRowFields ==
  ASSUME NEW ev, NEW q, Due(ev, q), NEW i \in Item
  PROVE  /\ NewRow(i, ev).evaluation = ev
         /\ i \in ev.content.short =>
              /\ NewRow(i, ev).rec = RecommendationID(NewRecommendation(i, ev))
              /\ NewRow(i, ev).rec # <<>>
              /\ NewRow(i, ev) = [evaluation |-> ev, item |-> i,
                                  rec |-> RecommendationID(NewRecommendation(i, ev))]
         /\ i \notin ev.content.short => NewRow(i, ev).rec = <<>>
  <1>1. RecommendationID(NewRecommendation(i, ev)) # <<>>
    BY DEF RecommendationID
  <1> QED  BY <1>1 DEF NewRow

\* What the write set is recorded as.
LEMMA OwnOfStaged ==
  ASSUME NEW ev, NEW q, Due(ev, q)
  PROVE  LET L == Staged(ev, q) IN
         /\ {row \in L.rows : row.evaluation = ev} = {NewRow(i, ev) : i \in Item}
         /\ {r \in L.recs : r.evaluation = ev} = {NewRecommendation(i, ev) : i \in ev.content.short}
         /\ {c \in L.chains : c.openedBy = ev} = {NewChain(i, ev) : i \in Fresh(ev)}
         /\ {e \in L.events : e.evaluation = ev} = L.events \ events
  <1> DEFINE L == Staged(ev, q)
  <1>0. ev.content.short \subseteq Item
    BY DEF Due
  <1>1. {row \in L.rows : row.evaluation = ev} = {NewRow(i, ev) : i \in Item}
    <2>1. L.rows = rows \cup {NewRow(i, ev) : i \in Item}
      BY StagedFields
    <2> HIDE DEF L
    <2> QED  BY <2>1, NothingOfIt, NewRowFields
  <1>2. {r \in L.recs : r.evaluation = ev} = {NewRecommendation(i, ev) : i \in ev.content.short}
    <2>1. L.recs = recs \cup {NewRecommendation(i, ev) : i \in ev.content.short}
      BY StagedFields
    <2>2. \A i \in ev.content.short : NewRecommendation(i, ev).evaluation = ev
      BY <1>0, NewOfItem
    <2> HIDE DEF L
    <2> QED  BY <2>1, <2>2, NothingOfIt
  <1>3. {c \in L.chains : c.openedBy = ev} = {NewChain(i, ev) : i \in Fresh(ev)}
    <2>1. L.chains = chains \cup {NewChain(i, ev) : i \in Fresh(ev)}
      BY StagedFields
    <2> HIDE DEF L
    <2> QED  BY <2>1, NothingOfIt, NewChainFields
  <1>4. {e \in L.events : e.evaluation = ev} = L.events \ events
    BY NothingOfIt, NewEventFields
  <1> QED  BY <1>1, <1>2, <1>3, <1>4

LEMMA OwnResultValid ==
  ASSUME NEW ev, NEW q, Due(ev, q)
  PROVE  ResultValid(Staged(ev, q), q, Result(Staged(ev, q), ev))
  <1> DEFINE L == Staged(ev, q)
             r == Result(L, ev)
             new == {NewRecommendation(i, ev) : i \in ev.content.short}
             made == {ChainID(c) : c \in {c \in L.chains : c.openedBy = ev}}
             mine == {x \in L.recs : x.evaluation = ev}
             ours == {row \in L.rows : row.evaluation = ev}
             ids == {RecommendationID(x) : x \in mine}
  <1>0. ev.content.short \subseteq Item
    BY DEF Due
  <1>1. /\ ours = {NewRow(i, ev) : i \in Item} /\ mine = new
        /\ made = {ChainID(NewChain(i, ev)) : i \in Fresh(ev)}
        /\ {e \in L.events : e.evaluation = ev} = L.events \ events
    BY OwnOfStaged
  <1>2. /\ r.evaluation = ev /\ r.rows = ours /\ r.created = made
        /\ r.reused = {x.chain : x \in mine} \ made
        /\ r.recs = ids /\ r.events = L.events \ events
    BY DEF Result
  <1>3. ChainsValid(L) /\ RecommendationsValid(L) /\ EventReferencesValid(L)
    BY ChainsStayValid, RecommendationsStayValid, EventReferencesStayValid
  <1>4. \E x \in L.runs : x.evaluation = ev /\ x.request = q
    <2>1. [evaluation |-> ev, request |-> q] \in L.runs
      BY StagedFields
    <2> QED  BY <2>1
  <1>5. ASSUME NEW e \in L.events \ events
        PROVE  e.request = q /\ (e.type = Superseding => <<e.of[1], e.related>> \in ids)
    <2>1. e.request = q
      BY NewEventFields
    <2>2. ASSUME e.type = Superseding
          PROVE  <<e.of[1], e.related>> \in ids
      <3>1. PICK x \in L.recs : /\ RecommendationID(x) = <<e.of[1], e.related>>
                                /\ e.evaluation = x.evaluation
        BY <1>3, <2>2 DEF EventReferencesValid
      <3>2. e.evaluation = ev
        BY NewEventFields
      <3> QED  BY <3>1, <3>2
    <2> QED  BY <2>1, <2>2
  <1> HIDE DEF L, r
  <1>6. r.created \cap r.reused = {}
    BY <1>2
  <1>7. {id[1] : id \in r.recs} = r.created \cup r.reused
    <2>1. made \subseteq {x.chain : x \in mine}
      <3>1. ASSUME NEW i \in Fresh(ev) PROVE ChainID(NewChain(i, ev)) \in {x.chain : x \in mine}
        <4>1. i \in ev.content.short /\ i \in Item /\ ChainID(NewChain(i, ev)) = IdOf(i, ev)
          BY NewChainFields
        <4>2. NewRecommendation(i, ev).chain = IdOf(i, ev)
          BY <4>1, NewOfItem
        <4>3. NewRecommendation(i, ev) \in mine
          BY <1>1, <4>1
        <4> QED  BY <4>1, <4>2, <4>3
      <3> QED  BY <1>1, <3>1
    <2>2. {id[1] : id \in ids} = {x.chain : x \in mine}
      <3>1. \A x \in mine : RecommendationID(x) \in ids /\ RecommendationID(x)[1] = x.chain
        BY DEF RecommendationID
      <3>2. \A id \in ids : \E x \in mine : id = RecommendationID(x)
        OBVIOUS
      <3> HIDE DEF mine, ids
      <3> QED  BY <3>1, <3>2
    <2> HIDE DEF mine, made, ids
    <2> QED  BY <1>2, <2>1, <2>2
  <1>8. r.recs = {row.rec : row \in r.rows} \ {<<>>}
    <2>1. r.rows = {NewRow(i, ev) : i \in Item}
          /\ r.recs = {RecommendationID(NewRecommendation(i, ev)) : i \in ev.content.short}
      BY <1>1, <1>2
    <2>2. ASSUME NEW i \in ev.content.short
          PROVE  RecommendationID(NewRecommendation(i, ev)) \in {row.rec : row \in r.rows} \ {<<>>}
      BY <1>0, <2>1, NewRowFields
    <2>3. ASSUME NEW i \in Item, NewRow(i, ev).rec # <<>>
          PROVE  NewRow(i, ev).rec \in r.recs
      BY <2>1, <2>3, NewRowFields
    <2> QED  BY <2>1, <2>2, <2>3
  <1>13. \A e \in r.events : /\ e.request = q
                             /\ e.type = Superseding => <<e.of[1], e.related>> \in r.recs
    <2> HIDE DEF ids, mine, made, ours
    <2>1. r.events = L.events \ events /\ r.recs = ids
      BY <1>2
    <2>2. ASSUME NEW e \in r.events
          PROVE  e.request = q /\ (e.type = Superseding => <<e.of[1], e.related>> \in r.recs)
      <3>1. e \in L.events \ events
        BY <2>1
      <3>2. e.request = q /\ (e.type = Superseding => <<e.of[1], e.related>> \in ids)
        BY <1>5, <3>1
      <3> QED  BY <2>1, <3>2
    <2> QED  BY <2>2
  <1>11. r.recs = {RecommendationID(x) : x \in {x \in L.recs : x.evaluation = r.evaluation}}
    BY <1>2
  <1> HIDE DEF mine, made, ours, ids
  <1>9. r.rows = {row \in L.rows : row.evaluation = r.evaluation}
    BY <1>2 DEF ours
  <1>10. r.created = {ChainID(c) : c \in {c \in L.chains : c.openedBy = r.evaluation}}
    BY <1>2 DEF made
  <1>12. r.events = {e \in L.events : e.evaluation = r.evaluation}
    BY <1>1, <1>2
  <1>14. \E x \in L.runs : x.evaluation = r.evaluation /\ x.request = q
    BY <1>2, <1>4
  <1>15. ResultValid(L, q, r)
    BY <1>3, <1>6, <1>7, <1>8, <1>9, <1>10, <1>11, <1>12, <1>13, <1>14 DEF ResultValid
  <1> QED  BY <1>15 DEF L, r

\* An evaluation that is due is recorded.
LEMMA DueIsRecordable ==
  ASSUME NEW ev, NEW q, Due(ev, q)
  PROVE  Recordable(ev, q)
  BY OwnResultValid DEF Recordable, Due, WorkbenchValid

\* What an earlier request wrote is left as it was.
LEMMA ResultsStayValid ==
  ASSUME NEW ev, NEW q, Due(ev, q), NEW p, NEW r, ResultValid(Stored, p, r)
  PROVE  ResultValid(Staged(ev, q), p, r)
  <1> DEFINE L == Staged(ev, q)
  <1>0. ev.content.short \subseteq Item
    BY DEF Due
  <1>1. ChainsValid(L) /\ RecommendationsValid(L) /\ EventReferencesValid(L)
    BY ChainsStayValid, RecommendationsStayValid, EventReferencesStayValid
  <1>2. /\ \E x \in evaluationRuns : x.evaluation = r.evaluation /\ x.request = p
        /\ r.rows = {row \in rows : row.evaluation = r.evaluation}
        /\ r.created = {ChainID(c) : c \in {c \in chains : c.openedBy = r.evaluation}}
        /\ r.recs = {RecommendationID(x) : x \in {x \in recs : x.evaluation = r.evaluation}}
        /\ r.events = {e \in events : e.evaluation = r.evaluation}
        /\ r.created \cap r.reused = {}
        /\ {id[1] : id \in r.recs} = r.created \cup r.reused
        /\ r.recs = {row.rec : row \in r.rows} \ {<<>>}
        /\ \A e \in r.events :
             /\ e.request = p
             /\ e.type = Superseding => <<e.of[1], e.related>> \in r.recs
    BY StoredFields DEF ResultValid
  <1>3. r.evaluation # ev
    BY <1>2 DEF Due, NotRecorded
  <1>4. /\ evaluationRuns \subseteq L.runs
        /\ L.rows = rows \cup {NewRow(i, ev) : i \in Item}
        /\ L.chains = chains \cup {NewChain(i, ev) : i \in Fresh(ev)}
        /\ L.recs = recs \cup {NewRecommendation(i, ev) : i \in ev.content.short}
        /\ \A e \in L.events : e \in events \/ e.evaluation = ev
        /\ \A e \in events : e \in L.events
    BY StagedFields, NewEventFields
  <1>5. /\ \A i \in Item : NewRow(i, ev).evaluation = ev
        /\ \A i \in Fresh(ev) : NewChain(i, ev).openedBy = ev
        /\ \A i \in ev.content.short : NewRecommendation(i, ev).evaluation = ev
    BY <1>0, NewRowFields, NewChainFields, NewOfItem
  <1> HIDE DEF L
  <1>6. {row \in L.rows : row.evaluation = r.evaluation} = {row \in rows : row.evaluation = r.evaluation}
    BY <1>3, <1>4, <1>5
  <1>7. {c \in L.chains : c.openedBy = r.evaluation} = {c \in chains : c.openedBy = r.evaluation}
    BY <1>3, <1>4, <1>5
  <1>8. {x \in L.recs : x.evaluation = r.evaluation} = {x \in recs : x.evaluation = r.evaluation}
    BY <1>3, <1>4, <1>5
  <1>9. {e \in L.events : e.evaluation = r.evaluation} = {e \in events : e.evaluation = r.evaluation}
    BY <1>3, <1>4
  <1>10. \E x \in L.runs : x.evaluation = r.evaluation /\ x.request = p
    BY <1>2, <1>4
  <1>11. ResultValid(L, p, r)
    BY <1>1, <1>2, <1>6, <1>7, <1>8, <1>9, <1>10 DEF ResultValid
  <1> QED  BY <1>11 DEF L

LEMMA StaysTended ==
  ASSUME NEW ev, NEW q, Due(ev, q)
  PROVE  Tended(Staged(ev, q))
  <1> DEFINE L == Staged(ev, q)
             short == ev.content.short
             created == {CreationEvent(NewRecommendation(i, ev), q) : i \in short}
             opened == {ChainEvent(i, ev, q) : i \in Fresh(ev)}
             superseded == {SupersessionEvent(NewRecommendation(i, ev), q) : i \in short}
             new == {NewRecommendation(i, ev) : i \in short}
  <1>1. short \subseteq Item /\ IsFiniteSet(short) /\ IsFiniteSet(Fresh(ev))
    <2>1. short \subseteq Item
      BY DEF Due
    <2>2. IsFiniteSet(short)
      BY <2>1, ReplenishmentAssumption, FS_Subset
    <2>3. Fresh(ev) \subseteq short
      BY DEF Fresh
    <2> QED  BY <2>1, <2>2, <2>3, FS_Subset
  <1>2. IsFiniteSet(recs) /\ IsFiniteSet(events)
        /\ \A e \in events : AboutSomething(Stored, e) /\ SupersededByNext(e)
    BY StoredFields DEF Due, Tended
  <1>3. IsFiniteSet(new) /\ IsFiniteSet(created) /\ IsFiniteSet(opened) /\ IsFiniteSet(superseded)
    <2> DEFINE f == [i \in short |-> NewRecommendation(i, ev)]
               g == [i \in short |-> CreationEvent(NewRecommendation(i, ev), q)]
               h == [i \in Fresh(ev) |-> ChainEvent(i, ev, q)]
               k == [i \in short |-> SupersessionEvent(NewRecommendation(i, ev), q)]
    <2>1. IsFiniteSet({f[i] : i \in short})
      <3>1. f \in [short -> new]
        OBVIOUS
      <3> HIDE DEF f
      <3> QED  BY <1>1, <3>1, ImageFinite
    <2>2. IsFiniteSet({g[i] : i \in short})
      <3>1. g \in [short -> created]
        OBVIOUS
      <3> HIDE DEF g
      <3> QED  BY <1>1, <3>1, ImageFinite
    <2>3. IsFiniteSet({h[i] : i \in Fresh(ev)})
      <3>1. h \in [Fresh(ev) -> opened]
        OBVIOUS
      <3> HIDE DEF h
      <3> QED  BY <1>1, <3>1, ImageFinite
    <2>4. IsFiniteSet({k[i] : i \in short})
      <3>1. k \in [short -> superseded]
        OBVIOUS
      <3> HIDE DEF k
      <3> QED  BY <1>1, <3>1, ImageFinite
    <2>5. /\ {f[i] : i \in short} = new /\ {g[i] : i \in short} = created
          /\ {h[i] : i \in Fresh(ev)} = opened /\ {k[i] : i \in short} = superseded
      OBVIOUS
    <2> HIDE DEF f, g, h, k
    <2> QED  BY <2>1, <2>2, <2>3, <2>4, <2>5
  <1>4. \A s \in superseded : IsFiniteSet(s)
    <2> SUFFICES ASSUME NEW i \in short
                 PROVE  IsFiniteSet(SupersessionEvent(NewRecommendation(i, ev), q))
      OBVIOUS
    <2>1. SupersessionEvent(NewRecommendation(i, ev), q) = {}
            \/ \E e : SupersessionEvent(NewRecommendation(i, ev), q) = {e}
      BY DEF SupersessionEvent
    <2>2. CASE SupersessionEvent(NewRecommendation(i, ev), q) = {}
      BY <2>2, FS_EmptySet
    <2>3. CASE \E e : SupersessionEvent(NewRecommendation(i, ev), q) = {e}
      BY <2>3, OneElement
    <2> QED  BY <2>1, <2>2, <2>3
  <1>5. IsFiniteSet(UNION superseded)
    <2> HIDE DEF superseded
    <2> QED  BY <1>3, <1>4, FS_UNION
  <1>6. L.events = events \cup (opened \cup (created \cup UNION superseded))
    BY StagedFields
  <1>7. L.recs = recs \cup new /\ L.chains = chains \cup {NewChain(i, ev) : i \in Fresh(ev)}
    BY StagedFields
  <1>8. IsFiniteSet(L.recs) /\ IsFiniteSet(L.events)
    <2> HIDE DEF L, created, opened, superseded, new
    <2>1. IsFiniteSet(created \cup UNION superseded)
      BY <1>3, <1>5, FS_Union
    <2>2. IsFiniteSet(opened \cup (created \cup UNION superseded))
      BY <1>3, <2>1, FS_Union
    <2>3. IsFiniteSet(events \cup (opened \cup (created \cup UNION superseded)))
      BY <1>2, <2>2, FS_Union
    <2>4. IsFiniteSet(recs \cup new)
      BY <1>2, <1>3, FS_Union
    <2> QED  BY <1>6, <1>7, <2>3, <2>4
  <1>9. ASSUME NEW e \in L.events PROVE AboutSomething(L, e) /\ SupersededByNext(e)
    <2>1. CASE e \in events
      <3> HIDE DEF L
      <3>1. AboutSomething(L, e)
        BY <1>2, <1>7, <2>1, StoredFields DEF AboutSomething
      <3> QED  BY <1>2, <2>1, <3>1
    <2>2. ASSUME NEW i \in Fresh(ev), e = ChainEvent(i, ev, q)
          PROVE  AboutSomething(L, e) /\ SupersededByNext(e)
      <3>1. e.of = <<i, 1>> /\ e.type = "ReplenishmentChainOpened"
        BY <2>2, NewChainFields, OpenedFields
      <3>2. NewChain(i, ev) \in L.chains /\ ChainID(NewChain(i, ev)) = <<i, 1>>
        BY <1>7, NewChainFields
      <3> HIDE DEF L
      <3> QED  BY <3>1, <3>2 DEF AboutSomething, SupersededByNext, Superseding
    <2>3. ASSUME NEW i \in short, e = CreationEvent(NewRecommendation(i, ev), q)
          PROVE  AboutSomething(L, e) /\ SupersededByNext(e)
      <3>1. i \in Item
        BY <1>1
      <3>2. e.type = "RecommendationVersionCreated" /\ e.of = <<IdOf(i, ev), LastOf(i, ev) + 1>>
        BY <2>3, <3>1, CreatedFields
      <3>3. RecommendationID(NewRecommendation(i, ev)) = <<IdOf(i, ev), LastOf(i, ev) + 1>>
        BY <3>1, NewOfItem
      <3>4. NewRecommendation(i, ev) \in L.recs
        BY <1>7
      <3> HIDE DEF L
      <3> QED  BY <3>2, <3>3, <3>4 DEF AboutSomething, SupersededByNext, Superseding
    <2>4. ASSUME NEW i \in short, LastOf(i, ev) # 0, e.type = Superseding,
                 e.of = <<IdOf(i, ev), LastOf(i, ev)>>, e.of \in RecommendationIDs,
                 e.related = LastOf(i, ev) + 1, e.after = "Superseded"
          PROVE  AboutSomething(L, e) /\ SupersededByNext(e)
      <3>1. i \in Item
        BY <1>1
      <3>2. \E r \in recs : RecommendationID(r) = <<IdOf(i, ev), LastOf(i, ev)>>
        BY <2>4, <3>1, LastIsCurrent
      <3> HIDE DEF L
      <3> QED  BY <1>7, <2>4, <3>2 DEF AboutSomething, SupersededByNext
    <2> QED  BY <2>1, <2>2, <2>3, <2>4, NewEventFields
  <1> HIDE DEF L
  <1>10. Tended(L)
    BY <1>8, <1>9 DEF Tended
  <1> QED  BY <1>10 DEF L

LEMMA WorkbenchStaysValid ==
  ASSUME NEW ev, NEW q, Due(ev, q)
  PROVE  WorkbenchValid(Staged(ev, q))
  <1> DEFINE L == Staged(ev, q)
  <1>0. ev.content.short \subseteq Item
    BY DEF Due
  <1>1. ChainsValid(L) /\ RecommendationsValid(L) /\ EventReferencesValid(L)
    BY ChainsStayValid, RecommendationsStayValid, EventReferencesStayValid
  <1>2. \A c \in L.chains :
       Cardinality({r \in OnChain(L, ChainID(c)) :
                      Status(L, RecommendationID(r)) # "Superseded"}) <= 1
    BY <1>1, StaysTended, OneCurrent
  <1>3. /\ L.runs = evaluationRuns \cup {[evaluation |-> ev, request |-> q]}
        /\ L.rows = rows \cup {NewRow(i, ev) : i \in Item}
        /\ L.chains = chains \cup {NewChain(i, ev) : i \in Fresh(ev)}
        /\ L.recs = recs \cup {NewRecommendation(i, ev) : i \in ev.content.short}
    BY StagedFields
  <1>4. /\ \A row \in rows : \E x \in evaluationRuns : x.evaluation = row.evaluation
        /\ \A c \in chains :
             \E r \in recs : r.chain = ChainID(c) /\ r.version = 1 /\ r.evaluation = c.openedBy
        /\ \A r \in recs :
             [evaluation |-> r.evaluation, item |-> r.chain[1], rec |-> RecommendationID(r)] \in rows
        /\ \A e \in events :
             \E x \in evaluationRuns : x.evaluation = e.evaluation /\ x.request = e.request
    BY StoredFields DEF Due, WorkbenchValid, OnChain
  <1>5. \A e \in L.events : e \in events \/ (e.evaluation = ev /\ e.request = q)
    BY NewEventFields
  <1>6. \E x \in L.runs : x.evaluation = ev /\ x.request = q
    <2>1. [evaluation |-> ev, request |-> q] \in L.runs
      BY <1>3
    <2> QED  BY <2>1
  <1> HIDE DEF L
  <1>7. \A e \in L.events : \E x \in L.runs : x.evaluation = e.evaluation /\ x.request = e.request
    BY <1>3, <1>4, <1>5, <1>6
  <1>8. \A row \in L.rows : \E x \in L.runs : x.evaluation = row.evaluation
    BY <1>3, <1>4, <1>6, NewRowFields
  <1>9. \A c \in L.chains :
          \E r \in OnChain(L, ChainID(c)) : r.version = 1 /\ r.evaluation = c.openedBy
    <2>1. ASSUME NEW i \in Fresh(ev)
          PROVE  LET r == NewRecommendation(i, ev) IN
                 /\ r \in L.recs /\ r.chain = ChainID(NewChain(i, ev)) /\ r.version = 1
                 /\ r.evaluation = NewChain(i, ev).openedBy
      BY <1>3, NewChainFields, NewOfItem
    <2>2. ASSUME NEW c \in L.chains
          PROVE  \E r \in L.recs : r.chain = ChainID(c) /\ r.version = 1 /\ r.evaluation = c.openedBy
      BY <1>3, <1>4, <2>1
    <2> QED  BY <2>2 DEF OnChain
  <1>10. ASSUME NEW r \in L.recs
         PROVE [evaluation |-> r.evaluation, item |-> r.chain[1], rec |-> RecommendationID(r)] \in L.rows
    <2>1. CASE r \in recs
      BY <1>3, <1>4, <2>1
    <2>2. ASSUME NEW i \in ev.content.short, r = NewRecommendation(i, ev)
          PROVE [evaluation |-> r.evaluation, item |-> r.chain[1], rec |-> RecommendationID(r)] \in L.rows
      <3>1. i \in Item
        BY <1>0
      <3>2. r.evaluation = ev /\ r.chain[1] = i
        BY <2>2, <3>1, NewOfItem
      <3>3. NewRow(i, ev) = [evaluation |-> ev, item |-> i, rec |-> RecommendationID(r)]
        BY <2>2, <3>1, NewRowFields
      <3>4. NewRow(i, ev) \in L.rows
        BY <1>3, <3>1
      <3> QED  BY <3>2, <3>3, <3>4
    <2> QED  BY <1>3, <2>1, <2>2
  <1>11. WorkbenchValid(L)
    BY <1>1, <1>2, <1>7, <1>8, <1>9, <1>10 DEF WorkbenchValid
  <1> QED  BY <1>11 DEF L

-----------------------------------------------------------------------------
(* The invariant of the ledger, step by step.                              *)

\* The evaluation of a package the ledger keeps is due if it is not recorded.
LEMMA PackageIsDue ==
  ASSUME LedgerInv, NEW q \in Request, NEW p \in DOMAIN runtimePackages,
         NotRecorded(EvaluationOf(p))
  PROVE  Due(EvaluationOf(p), q)
  <1>1. p \in RuntimePackage /\ runtimePackages[p] \in Content
    BY DEF LedgerInv
  <1>2. EvaluationOf(p) \in Evaluation /\ EvaluationOf(p).content = runtimePackages[p]
    BY <1>1 DEF LedgerInv, EvaluationOf, Evaluation
  <1>3. runtimePackages[p].short \subseteq Item
    BY <1>1 DEF Content
  <1> QED  BY <1>2, <1>3 DEF LedgerInv, Due

\* A step that writes nothing to the ledger.
LEMMA NothingWritten ==
  ASSUME LedgerInv, UNCHANGED written,
         (runtimePackages \in [DOMAIN runtimePackages -> Content])',
         (DOMAIN runtimePackages \subseteq RuntimePackage)',
         (reservations \in 0 .. MaxReservationChanges)'
  PROVE  LedgerInv'
  <1>1. Stored' = Stored
    BY DEF Stored, written
  <1>2. WorkbenchValid(Stored)' /\ Tended(Stored)'
    BY <1>1 DEF LedgerInv
  <1>3. AuthorityUsedOnce' /\ RepeatedRequestsAnswered'
    BY <1>1 DEF LedgerInv, written, AuthorityUsedOnce, RepeatedRequestsAnswered
  <1> QED  BY <1>2, <1>3 DEF LedgerInv

\* The step that writes: the new result is valid and the old ones stay so.
LEMMA EvaluateStep ==
  ASSUME LedgerInv, NEW q \in Request, NEW p \in RuntimePackage, Evaluate(q, p)
  PROVE  LedgerInv'
  <1>1. PICK ev : ev = EvaluationOf(p)
    OBVIOUS
  <1>2. Due(ev, q)
    BY <1>1, PackageIsDue DEF Evaluate
  <1>3. PICK L : L = Staged(ev, q)
    OBVIOUS
  <1>4. /\ evaluationRuns' = L.runs /\ rows' = L.rows /\ chains' = L.chains
        /\ recs' = L.recs /\ events' = L.events
        /\ results' = [r \in DOMAIN results \cup {q} |-> IF r = q THEN Result(L, ev) ELSE results[r]]
        /\ NotRecorded(ev)
        /\ UNCHANGED <<configuration, runtimePackages, reservations>>
    BY <1>1, <1>3 DEF Evaluate
  <1>5. L = [runs |-> L.runs, rows |-> L.rows, chains |-> L.chains, recs |-> L.recs, events |-> L.events]
    BY <1>3 DEF Staged
  <1>6. Stored' = L
    BY <1>4, <1>5 DEF Stored
  <1>7. WorkbenchValid(Stored)' /\ Tended(Stored)'
    BY <1>2, <1>3, <1>6, WorkbenchStaysValid, StaysTended
  <1>8. AuthorityUsedOnce'
    <2>1. evaluationRuns' = evaluationRuns \cup {[evaluation |-> ev, request |-> q]}
      BY <1>3, <1>4, StagedFields
    <2> QED  BY <1>4, <2>1 DEF AuthorityUsedOnce, LedgerInv, NotRecorded
  <1>9. ASSUME NEW x \in DOMAIN results' PROVE ResultValid(L, x, results'[x])
    <2>1. CASE x = q
      <3>1. results'[x] = Result(L, ev)
        BY <1>4, <2>1
      <3> QED  BY <1>2, <1>3, <2>1, <3>1, OwnResultValid
    <2>2. CASE x # q
      <3>1. x \in DOMAIN results /\ results'[x] = results[x]
        BY <1>4, <2>2
      <3>2. ResultValid(Stored, x, results[x])
        BY <3>1 DEF LedgerInv, RepeatedRequestsAnswered
      <3> QED  BY <1>2, <1>3, <3>1, <3>2, ResultsStayValid
    <2> QED  BY <2>1, <2>2
  <1>10. RepeatedRequestsAnswered'
    BY <1>6, <1>9 DEF RepeatedRequestsAnswered
  <1>11. /\ (runtimePackages \in [DOMAIN runtimePackages -> Content])'
         /\ (DOMAIN runtimePackages \subseteq RuntimePackage)'
         /\ (reservations \in 0 .. MaxReservationChanges)'
    BY <1>4 DEF LedgerInv
  <1> QED  BY <1>7, <1>8, <1>10, <1>11 DEF LedgerInv

LEMMA LedgerInductive ==
  ASSUME LedgerInv, [LedgerNext]_ledgerVars
  PROVE  LedgerInv'
  <1>1. ASSUME NEW q \in Request, NEW p \in RuntimePackage, Evaluate(q, p)
        PROVE  LedgerInv'
    BY <1>1, EvaluateStep
  <1>2. ASSUME NEW p \in RuntimePackage, NEW content \in Content, ReceiveRuntimePackage(p, content)
        PROVE  LedgerInv'
    <2>1. /\ runtimePackages' = [x \in DOMAIN runtimePackages \cup {p} |->
                                   IF x = p THEN content ELSE runtimePackages[x]]
          /\ UNCHANGED <<reservations, written>>
      BY <1>2 DEF ReceiveRuntimePackage
    <2>2. /\ runtimePackages \in [DOMAIN runtimePackages -> Content]
          /\ DOMAIN runtimePackages \subseteq RuntimePackage
          /\ reservations \in 0 .. MaxReservationChanges
      BY DEF LedgerInv
    <2>3. /\ (runtimePackages \in [DOMAIN runtimePackages -> Content])'
          /\ (DOMAIN runtimePackages \subseteq RuntimePackage)'
      BY <2>1, <2>2
    <2> QED  BY <2>1, <2>2, <2>3, NothingWritten
  <1>3. ASSUME NEW f \in Configuration, ReplaceConfiguration(f) PROVE LedgerInv'
    BY <1>3, NothingWritten DEF ReplaceConfiguration, LedgerInv
  <1>4. ASSUME ReservationsChange PROVE LedgerInv'
    <2>1. (reservations \in 0 .. MaxReservationChanges)'
      BY <1>4, ReplenishmentAssumption DEF ReservationsChange, LedgerInv
    <2> QED  BY <1>4, <2>1, NothingWritten DEF ReservationsChange, LedgerInv
  <1>5. ASSUME UNCHANGED ledgerVars PROVE LedgerInv'
    BY <1>5, NothingWritten DEF ledgerVars, LedgerInv
  <1> QED  BY <1>1, <1>2, <1>3, <1>4, <1>5 DEF LedgerNext

LEMMA LedgerInitially ==
  ASSUME LedgerInit
  PROVE  LedgerInv
  <1>1. /\ Stored.runs = {} /\ Stored.rows = {} /\ Stored.chains = {} /\ Stored.recs = {}
        /\ Stored.events = {} /\ DOMAIN results = {} /\ DOMAIN runtimePackages = {}
        /\ runtimePackages = [p \in {} |-> {}] /\ reservations = 0 /\ evaluationRuns = {}
    BY DEF LedgerInit, Stored
  <1>2. ChainsValid(Stored) /\ RecommendationsValid(Stored) /\ EventReferencesValid(Stored)
    BY <1>1 DEF ChainsValid, RecommendationsValid, EventReferencesValid
  <1>3. WorkbenchValid(Stored)
    BY <1>1, <1>2 DEF WorkbenchValid
  <1>4. Tended(Stored)
    BY <1>1, FS_EmptySet DEF Tended
  <1>5. AuthorityUsedOnce /\ RepeatedRequestsAnswered
    BY <1>1 DEF AuthorityUsedOnce, RepeatedRequestsAnswered
  <1> HIDE DEF Stored
  <1>6. /\ runtimePackages \in [DOMAIN runtimePackages -> Content]
        /\ DOMAIN runtimePackages \subseteq RuntimePackage
        /\ reservations \in 0 .. MaxReservationChanges
    BY <1>1, ReplenishmentAssumption
  <1> QED  BY <1>3, <1>4, <1>5, <1>6 DEF LedgerInv

LEMMA LedgerAccepts ==
  ASSUME LedgerInv
  PROVE  EvaluationsAccepted /\ WorkbenchReadable /\ RepeatedRequestsAnswered /\ AuthorityUsedOnce
  <1>1. EvaluationsAccepted
    BY PackageIsDue, DueIsRecordable DEF EvaluationsAccepted
  <1> QED  BY <1>1 DEF LedgerInv, WorkbenchReadable

\* The view reads the ledger, requests are answered, evaluations are accepted.
LEMMA LedgerReadable ==
  LedgerSpec => [](WorkbenchReadable /\ RepeatedRequestsAnswered /\ EvaluationsAccepted)
  BY LedgerInitially, LedgerInductive, LedgerAccepts, PTL DEF LedgerSpec

\* However packages are repeated, models replaced and reservations changed, no
\* two evaluation runs record the same authority.
THEOREM AuthorityUsedOnceHolds == LedgerSpec => []AuthorityUsedOnce
  BY LedgerInitially, LedgerInductive, LedgerAccepts, PTL DEF LedgerSpec

-----------------------------------------------------------------------------
(* The ledgers side by side: none of them changes what another one holds.    *)

\* A behaviour of the server is a behaviour of each of its ledgers.
LEMMA LedgersApart ==
  ContractsSpec => ExchangeSpec /\ EvidenceSpec /\ LedgerSpec /\ IntegrationSpec
  <1>1. ContractsInit => ExchangeInit /\ EvidenceInit /\ LedgerInit /\ IntegrationInit
    BY DEF ContractsInit
  <1>2. [ContractsNext]_contractsVars =>
          /\ [ExchangeNext]_exchangeVars /\ [EvidenceNext]_evidenceVars
          /\ [LedgerNext]_ledgerVars /\ [IntegrationNext]_integrationVars
    BY DEF ContractsNext, ExchangeStep, EvidenceStep, LedgerStep, IntegrationStep, contractsVars
  <1> QED  BY <1>1, <1>2, PTL DEF ContractsSpec, ExchangeSpec, EvidenceSpec, LedgerSpec, IntegrationSpec

\* Wherever a message with a key arrives, what is said to it is what was said
\* the first time, in all inboxes of a server at once.
THEOREM VerdictsStandHolds == ContractsSpec => []VerdictsStand
  <1>1. KeyAnsweredAlike /\ OneVerdictPerKey /\ RecordedOnce => VerdictsStand
    BY DEF VerdictsStand
  <1> QED  BY <1>1, LedgersApart, KeysAreAnsweredAlike, EvidenceJudgedOnce, MessagesRecordedOnce, PTL

\* Whatever packages, configurations and reservations come between them,
\* evaluations leave a ledger that the workbench view reads, that answers every
\* recorded request from its result, and that accepts the next evaluation.
THEOREM LedgerStaysValidHolds == ContractsSpec => []LedgerStaysValid
  <1>1. WorkbenchReadable /\ RepeatedRequestsAnswered /\ EvaluationsAccepted => LedgerStaysValid
    BY DEF LedgerStaysValid
  <1> QED  BY <1>1, LedgersApart, LedgerReadable, PTL
=============================================================================
