----------------------- MODULE DatabaseRestoreProofs ------------------------
(***************************************************************************)
(* Proofs about the database: what its migrations promise, and that a      *)
(* restore loses nothing.                                                  *)
(*                                                                         *)
(* Migrations.  The recorded schema version is honest, and only a fully    *)
(* migrated database is served: for every number of processes that start   *)
(* at once and every database they start from, whether its version is      *)
(* honest or it has lost base tables, but for the one history in which a   *)
(* process reads the version of such a database and then misses the loss.  *)
(* Neither is inductive by itself.  The invariant that is says the same of *)
(* what every process carries in its local variable from one transaction   *)
(* to the next: a version it read, a baseline it detected, or a migration  *)
(* it has come to may be out of date when it is used, but since effects    *)
(* are never taken back it has not become a lie.  A version that was read  *)
(* without base tables may be one, until the tables are looked for.        *)
(*                                                                         *)
(* Restores.  For every number of processes, commits, crashes and          *)
(* restores, and for every file a restore may be given.  The properties    *)
(* speak of the moments after a step; the invariant says what each stage   *)
(* of a restore relies on: nobody runs, the candidate is migrated before   *)
(* anything is touched, what will be replaced is in a safety backup, and   *)
(* the log is folded in before it is removed.  The invariant of the        *)
(* migrations holds all along.                                             *)
(***************************************************************************)
EXTENDS DatabaseRestore, TLAPS

(* Migrations *)

MarksAreHonest ==
    \A p \in Starters :
        /\ pc[p] = "record" => Honest(mark[p], db.effects)
        /\ pc[p] = "check" => misled \/ p \in lost \/ Honest(mark[p], db.effects)
        /\ pc[p] = "migrate" => misled \/ Honest(mark[p] - 1, db.effects)

\* What a process carries in each of its states, for the types.
MarksInRange ==
    \A p \in Starters :
        /\ pc[p] \in {"record", "check"} => mark[p] \in 0 .. Current
        /\ pc[p] = "migrate" => mark[p] \in 1 .. Current + 1

IInv == TypeOK /\ MarksInRange /\ VersionIsHonest /\ MarksAreHonest /\ ServesMigrated

\* Effects are only ever added, and more effects keep a version honest.
LEMMA HonestGrows ==
    ASSUME NEW v \in Int, NEW E, NEW F, E \subseteq F, Honest(v, E)
    PROVE  Honest(v, F)
  BY DEF Honest

\* The empty history promises nothing.
LEMMA NothingIsHonest ==
    ASSUME NEW v \in Int, v <= 0, NEW E
    PROVE  Honest(v, E)
  BY DEF Honest, Versions

\* The baseline read off the shape of a database is honest.
LEMMA BaselineIsHonest ==
    ASSUME NEW d \in Database
    PROVE  Baseline(d) \in 0 .. 3 /\ Honest(Baseline(d), d.effects)
  BY DEF Baseline, Honest, Versions, Current, Database

\* Migration v on top of the effects of the ones before it: version v is honest.
LEMMA MigrationIsHonest ==
    ASSUME NEW v \in Versions, NEW E, Honest(v - 1, E)
    PROVE  Honest(v, E \cup Adds(v))
  BY DEF Honest, Adds, Versions, Current

\* A database that has its base tables is honest, and nobody has read one yet.
LEMMA InitIInv == Init => IInv
  <1> SUFFICES ASSUME Init PROVE IInv
    OBVIOUS
  <1>1. TypeOK
    <2>1. lost \in SUBSET Starters /\ misled \in BOOLEAN
      BY DEF Init
    <2> QED
      BY <2>1, MigrationAssumption DEF Init, TypeOK, Current
  <1>2. VersionIsHonest
    BY MigrationAssumption DEF Init, VersionIsHonest
  <1> QED
    BY <1>1, <1>2 DEF Init, IInv, MarksInRange, MarksAreHonest, ServesMigrated

\* A step that moves one process and leaves the database alone.
LEMMA QuietStep ==
    ASSUME IInv, NEW p \in Starters, NEW label, NEW m,
           label \in {"stopped", "detect", "record", "check", "migrate", "serving"},
           m \in 0 .. Current + 1,
           Goto(p, label, m), db' = db, stops' \in Nat,
           lost' \in SUBSET Starters, lost \ {p} \subseteq lost',
           misled' \in BOOLEAN, misled => misled',
           label \in {"record", "check"} => m \in 0 .. Current,
           label = "record" => Honest(m, db.effects),
           label = "check" => misled' \/ p \in lost' \/ Honest(m, db.effects),
           label = "migrate" => m \in 1 .. Current + 1 /\ (misled' \/ Honest(m - 1, db.effects)),
           label = "serving" => misled' \/ db.effects = Versions
    PROVE  IInv'
  <1>1. TypeOK'
    BY DEF IInv, TypeOK, Goto
  <1>2. VersionIsHonest'
    BY DEF IInv, VersionIsHonest, HonestDatabase
  <1>3. MarksInRange'
    BY DEF IInv, TypeOK, MarksInRange, Goto
  <1>4. MarksAreHonest'
    BY DEF IInv, TypeOK, MarksAreHonest, Goto
  <1>5. ServesMigrated'
    BY DEF IInv, TypeOK, ServesMigrated, Goto
  <1> QED
    BY <1>1, <1>2, <1>3, <1>4, <1>5 DEF IInv

\* A transaction that records version v and adds to the effects.
LEMMA Transaction ==
    ASSUME IInv, NEW p \in Starters, NEW v \in 0 .. Current, NEW m \in 1 .. Current + 1,
           NEW E \in SUBSET Versions, db.effects \subseteq E,
           db' = Recorded([db EXCEPT !.effects = E], v),
           Goto(p, "migrate", m), UNCHANGED <<stops, lost, misled>>,
           misled \/ Honest(v, E), misled \/ Honest(m - 1, E)
    PROVE  IInv'
  <1>1. db'.version = v /\ db'.effects = E /\ db' \in Database
    <2>1. db \in Database /\ v \in Nat
      BY DEF IInv, TypeOK, Current
    <2>2. db' = [[db EXCEPT !.effects = E] EXCEPT !.version = v]
      BY DEF Recorded
    <2> QED
      BY <2>1, <2>2 DEF Database
  <1>2. TypeOK'
    BY <1>1 DEF IInv, TypeOK, Goto
  <1>3. VersionIsHonest'
    BY <1>1 DEF VersionIsHonest, HonestDatabase
  <1>4. MarksInRange'
    BY DEF IInv, TypeOK, MarksInRange, Goto
  <1>5. MarksAreHonest'
    <2> SUFFICES ASSUME NEW q \in Starters
                 PROVE  /\ pc'[q] = "record" => Honest(mark'[q], E)
                        /\ pc'[q] = "check" => misled \/ q \in lost \/ Honest(mark'[q], E)
                        /\ pc'[q] = "migrate" => misled \/ Honest(mark'[q] - 1, E)
      BY <1>1 DEF MarksAreHonest
    <2>1. CASE q = p
      BY <2>1 DEF Goto, IInv, TypeOK
    <2>2. CASE q # p
      <3>1. pc'[q] = pc[q] /\ mark'[q] = mark[q] /\ mark[q] \in Int
        BY <2>2 DEF Goto, IInv, TypeOK
      <3>2. ASSUME Honest(mark[q], db.effects) PROVE Honest(mark[q], E)
        BY <3>1, <3>2, HonestGrows
      <3>3. ASSUME Honest(mark[q] - 1, db.effects) PROVE Honest(mark[q] - 1, E)
        <4>1. mark[q] - 1 \in Int
          BY <3>1
        <4> QED
          BY <3>3, <4>1, HonestGrows
      <3> QED
        BY <3>1, <3>2, <3>3 DEF IInv, MarksAreHonest
    <2> QED
      BY <2>1, <2>2
  <1>6. ServesMigrated'
    BY <1>1 DEF IInv, TypeOK, ServesMigrated, Goto
  <1> QED
    BY <1>2, <1>3, <1>4, <1>5, <1>6 DEF IInv

\* Every step of a starting process keeps the invariant.
LEMMA NextIInv == IInv /\ [Next]_vars => IInv'
  <1> SUFFICES ASSUME IInv, [Next]_vars PROVE IInv'
    OBVIOUS
  <1>1. CASE UNCHANGED vars
    BY <1>1 DEF vars, IInv, TypeOK, MarksInRange, VersionIsHonest, HonestDatabase,
                MarksAreHonest, ServesMigrated
  <1>2. CASE Next
    <2>1. PICK p \in Starters : Proceed(p) \/ Stop(p)
      BY <1>2 DEF Next
    <2> USE DEF Current
    <2>2. CASE Start(p)
      <3>1. CASE db.version = None
        BY <2>2, <3>1, QuietStep DEF Start, IInv, TypeOK
      <3>2. CASE db.version # None
        <4>1. db.version \in 0 .. 8 /\ Goto(p, "check", db.version)
          BY <2>2, <3>2 DEF Start, IInv, TypeOK, Database
        <4>2. misled \/ 1 \notin db.effects \/ Honest(db.version, db.effects)
          BY <3>2 DEF IInv, VersionIsHonest, HonestDatabase
        <4>3. /\ lost' = IF 1 \notin db.effects THEN lost \cup {p} ELSE lost
              /\ UNCHANGED <<db, stops, misled>>
          BY <2>2, <3>2 DEF Start
        <4>4. lost \in SUBSET Starters /\ misled \in BOOLEAN /\ stops \in Nat
          BY DEF IInv, TypeOK
        <4> QED
          BY <4>1, <4>2, <4>3, <4>4, QuietStep
      <3> QED
        BY <3>1, <3>2
    <2>3. CASE Detect(p)
      <3>1. Baseline(db) \in 0 .. 3 /\ Honest(Baseline(db), db.effects)
        BY BaselineIsHonest DEF IInv, TypeOK
      <3> QED
        BY <2>3, <3>1, QuietStep DEF Detect, IInv, TypeOK
    <2>4. CASE RecordBaseline(p)
      <3>1. mark[p] \in 0 .. 8 /\ Honest(mark[p], db.effects)
        BY <2>4 DEF RecordBaseline, IInv, MarksInRange, MarksAreHonest
      <3>2. db.effects \in SUBSET Versions /\ db = [db EXCEPT !.effects = db.effects]
        BY DEF IInv, TypeOK, Database
      <3>3. Honest(1 - 1, db.effects)
        BY NothingIsHonest
      <3> QED
        BY <2>4, <3>1, <3>2, <3>3, Transaction DEF RecordBaseline
    <2>5. CASE CheckTables(p)
      <3>1. /\ mark[p] \in 0 .. 8 /\ mark[p] # None
            /\ misled \/ p \in lost \/ Honest(mark[p], db.effects)
        BY <2>5, MigrationAssumption DEF CheckTables, IInv, MarksInRange, MarksAreHonest
      <3>2. FirstMigration(db, mark[p]) \in 1 .. 9
        BY <3>1 DEF FirstMigration
      <3>3. misled' = (misled \/ (p \in lost /\ 1 \in db.effects /\ ~Honest(mark[p], db.effects)))
        BY <2>5 DEF CheckTables
      <3>4. misled' \/ Honest(FirstMigration(db, mark[p]) - 1, db.effects)
        <4>1. CASE 1 \in db.effects
          <5>1. FirstMigration(db, mark[p]) - 1 = mark[p]
            BY <3>1, <4>1 DEF FirstMigration
          <5> QED
            BY <3>1, <3>3, <4>1, <5>1
        <4>2. CASE 1 \notin db.effects
          <5>1. FirstMigration(db, mark[p]) - 1 = 0
            BY <4>2 DEF FirstMigration
          <5> QED
            BY <5>1, NothingIsHonest
        <4> QED
          BY <4>1, <4>2
      <3>5. /\ misled \in BOOLEAN /\ misled' \in BOOLEAN
            /\ misled => misled'
            /\ lost \in SUBSET Starters /\ stops \in Nat
        BY <3>3 DEF IInv, TypeOK
      <3>6. /\ Goto(p, "migrate", FirstMigration(db, mark[p]))
            /\ lost' = lost \ {p} /\ UNCHANGED <<db, stops>>
        BY <2>5 DEF CheckTables
      <3> DEFINE m == FirstMigration(db, mark[p])
      <3>7. /\ m \in 0 .. Current + 1
            /\ Goto(p, "migrate", m)
            /\ m \in 1 .. Current + 1 /\ (misled' \/ Honest(m - 1, db.effects))
        BY <3>2, <3>4, <3>6
      <3>8. db' = db /\ stops' \in Nat /\ lost' \in SUBSET Starters /\ lost \ {p} \subseteq lost'
        BY <3>5, <3>6
      <3> HIDE DEF m
      <3> QED
        BY <3>5, <3>7, <3>8, QuietStep
    <2>6. CASE Migrate(p)
      <3> DEFINE v == mark[p]
                 E == db.effects \cup Adds(v)
      <3>1. v \in Versions /\ (misled \/ Honest(v - 1, db.effects))
        BY <2>6 DEF Migrate, IInv, MarksInRange, MarksAreHonest, Versions
      <3>2. misled \/ Honest(v, E)
        BY <3>1, MigrationIsHonest
      <3>3. E \in SUBSET Versions /\ db.effects \subseteq E
        BY <3>1 DEF IInv, TypeOK, Database, Adds, Versions
      <3>4. db' = Recorded([db EXCEPT !.effects = E], v) /\ Goto(p, "migrate", v + 1)
        BY <2>6 DEF Migrate, Migrated
      <3>5. v + 1 \in 1 .. Current + 1 /\ v \in 0 .. Current
        BY <3>1 DEF Versions
      <3>7. misled \/ Honest((v + 1) - 1, E)
        <4>1. (v + 1) - 1 = v
          BY <3>1 DEF Versions
        <4> QED
          BY <3>2, <4>1
      <3>6. UNCHANGED <<stops, lost, misled>>
        BY <2>6 DEF Migrate
      <3> HIDE DEF v, E
      <3> QED
        BY <3>2, <3>3, <3>4, <3>5, <3>6, <3>7, Transaction
    <2>7. CASE Seed(p)
      <3>1. mark[p] = 9 /\ (misled \/ Honest(mark[p] - 1, db.effects))
        BY <2>7 DEF Seed, IInv, MarksInRange, MarksAreHonest
      <3>2. misled \/ db.effects = Versions
        BY <3>1 DEF Honest, Versions, IInv, TypeOK, Database
      <3> QED
        BY <2>7, <3>2, QuietStep DEF Seed, IInv, TypeOK
    <2>8. CASE Stop(p)
      <3>1. /\ stops' \in Nat /\ misled \in BOOLEAN /\ UNCHANGED <<db, misled>>
            /\ lost' = lost \ {p} /\ lost \in SUBSET Starters
            /\ Goto(p, "stopped", 0)
        BY <2>8 DEF Stop, IInv, TypeOK
      <3> QED
        BY <3>1, QuietStep
    <2> QED
      BY <2>1, <2>2, <2>3, <2>4, <2>5, <2>6, <2>7, <2>8 DEF Proceed
  <1> QED
    BY <1>1, <1>2

\* However many processes migrate a database at once, and wherever any of them
\* stops, its recorded version never promises what it does not have, unless one
\* of them read the version of a database without base tables and was misled.
THEOREM VersionStaysHonest == Spec => []VersionIsHonest
  <1>1. IInv => VersionIsHonest
    BY DEF IInv
  <1> QED
    BY InitIInv, NextIInv, <1>1, PTL DEF Spec

\* Only a fully migrated database is ever served, whether it started from one
\* with an honest version or one that had lost base tables, unless a process
\* read that version and was misled by the tables another one recreated.
THEOREM OnlyMigratedIsServed == Spec => []ServesMigrated
  <1>1. IInv => ServesMigrated
    BY DEF IInv
  <1> QED
    BY InitIInv, NextIInv, <1>1, PTL DEF Spec
-----------------------------------------------------------------------------
(* Restores *)

Stages ==
    {"idle", "migrate", "safety", "checkpoint", "sidecars", "install", "installed"}

RestoreTypeOK ==
    /\ main \in Database /\ candidate \in Database \cup {None}
    /\ stage \in Stages

NobodyRuns == stage # "idle" => \A p \in Starters : pc[p] = "stopped"

\* The candidate: first a file that was accepted, then a migrated one.
CandidateIsSound ==
    /\ stage = "migrate" =>
         /\ candidate \in Database /\ Accepted(candidate)
         /\ 1 \in candidate.effects => HonestDatabase(candidate)
    /\ stage \in {"safety", "checkpoint", "sidecars", "install"} =>
         /\ candidate \in Database
         /\ candidate.version = Current /\ candidate.effects = Versions

LiveIsBackedUp == stage \in {"checkpoint", "sidecars", "install"} => db.data \in safety
LogIsFolded == stage \in {"sidecars", "install"} => main = db

RestoreIInv ==
    /\ IInv /\ RestoreTypeOK
    /\ NobodyRuns /\ CandidateIsSound /\ LiveIsBackedUp /\ LogIsFolded
    /\ LiveKeepsItsData /\ ReplacedDataIsSafe /\ InstalledIsMigrated

\* Whatever version an accepted file records, its migrations make it complete.
LEMMA MigrationsComplete ==
    ASSUME NEW d \in Database, Accepted(d), 1 \in d.effects => HonestDatabase(d)
    PROVE  d.effects \cup UNION {Adds(v) : v \in FirstMigration(d, d.version) .. Current}
             = Versions
  <1> DEFINE first == FirstMigration(d, d.version)
             added == UNION {Adds(v) : v \in first .. Current}
  <1>1. d.effects \subseteq Versions /\ d.version \in Nat \cup {None} /\ None \notin Nat
    BY MigrationAssumption DEF Database
  <1>2. first \in Nat /\ first >= 1
    BY <1>1 DEF FirstMigration
  <1>3. \A v \in first .. Current : v \in Adds(v) /\ Adds(v) \subseteq Versions
    BY <1>2 DEF Adds, Versions, Current
  <1>4. \A v \in first .. Current : v \in added
    BY <1>3
  <1>5. added \subseteq Versions
    BY <1>3
  <1>6. ASSUME NEW k \in Versions, k < first PROVE k \in d.effects \cup added
    <2>1. d.version # None /\ 1 \in d.effects /\ first = d.version + 1 /\ d.version \in Nat
      BY <1>1, <1>6 DEF FirstMigration, Versions
    <2>2. Honest(d.version, d.effects) /\ d.version <= Current
      BY <2>1 DEF HonestDatabase, Accepted
    <2>3. k \in d.effects \/ (k = 6 /\ d.version = 6)
      BY <1>6, <2>1, <2>2 DEF Honest, Versions, Current
    <2>4. CASE k = 6 /\ d.version = 6
      <3>1. 7 \in first .. Current /\ 6 \in Adds(7)
        BY <2>1, <2>4 DEF Current, Adds
      <3> QED
        BY <2>4, <3>1
    <2> QED
      BY <2>3, <2>4
  <1>7. \A k \in Versions : k \in d.effects \cup added
    BY <1>2, <1>4, <1>6 DEF Versions, Current
  <1>8. d.effects \cup added = Versions
    <2> HIDE DEF added
    <2> QED
      BY <1>1, <1>5, <1>7
  <1> QED
    BY <1>8

\* The application is at rest, with the database it finds.
LEMMA InitRestoreIInv == RestoreInit => RestoreIInv
  <1> SUFFICES ASSUME RestoreInit PROVE RestoreIInv
    OBVIOUS
  <1>1. IInv
    BY InitIInv DEF RestoreInit
  <1> QED
    BY <1>1 DEF RestoreInit, RestoreIInv, RestoreTypeOK, IInv, TypeOK, Stages, NobodyRuns,
                CandidateIsSound, LiveIsBackedUp, LogIsFolded, LiveKeepsItsData,
                ReplacedDataIsSafe, InstalledIsMigrated

\* A process that starts, migrates or stops commits no data.
LEMMA ProcessesKeepData ==
    ASSUME IInv, NEW p \in Starters, Proceed(p) \/ Stop(p)
    PROVE  db'.data = db.data
  <1>1. db \in Database
    BY DEF IInv, TypeOK
  <1> QED
    BY <1>1 DEF Proceed, Start, Detect, RecordBaseline, CheckTables, Migrate, Seed, Stop,
                Recorded, Migrated, Database

\* A step of the application, with no restore under way.
LEMMA IdleStep ==
    ASSUME RestoreIInv, IInv', stage = "idle", db'.data = latest',
           main' \in Database, UNCHANGED <<candidate, safety, stage, restores, replaced>>
    PROVE  RestoreIInv'
  BY DEF RestoreIInv, RestoreTypeOK, NobodyRuns, CandidateIsSound, LiveIsBackedUp, LogIsFolded,
         LiveKeepsItsData, ReplacedDataIsSafe, InstalledIsMigrated

\* A commit by a process that serves: no restore is under way, and the schema
\* stays what it is.
LEMMA CommitStep ==
    ASSUME RestoreIInv, NEW p \in Starters, Commit(p)
    PROVE  RestoreIInv'
  <1>1. /\ db \in Database /\ db' = [db EXCEPT !.data = @ + 1]
        /\ UNCHANGED <<pc, mark, stops, lost, misled>>
    BY DEF RestoreIInv, IInv, TypeOK, Commit
  <1>2. db' \in Database /\ db'.version = db.version /\ db'.effects = db.effects
        /\ db'.data = db.data + 1
    BY <1>1 DEF Database
  <1>3. IInv'
    BY <1>1, <1>2 DEF RestoreIInv, IInv, TypeOK, MarksInRange, VersionIsHonest, HonestDatabase,
                      MarksAreHonest, ServesMigrated
  <1>4. stage = "idle"
    BY DEF Commit, RestoreIInv, NobodyRuns
  <1> QED
    BY <1>2, <1>3, <1>4, IdleStep DEF Commit, files, RestoreIInv, RestoreTypeOK

\* While nobody runs, any honest database may take the place of the live one.
LEMMA ReplacedWhileStopped ==
    ASSUME IInv, \A p \in Starters : pc[p] = "stopped", UNCHANGED <<pc, mark, stops, lost>>,
           misled' \in BOOLEAN, db' \in Database, HonestDatabase(db')
    PROVE  IInv'
  BY DEF IInv, TypeOK, MarksInRange, VersionIsHonest, MarksAreHonest, ServesMigrated

\* Every step of a restore, and every abort, keeps what its stages rely on.
LEMMA RestoreStep ==
    ASSUME RestoreIInv, Restore \/ Abort
    PROVE  RestoreIInv'
  <1> USE DEF Stages
  <1>1. /\ IInv /\ db \in Database /\ main \in Database
        /\ candidate \in Database \cup {None} /\ stage \in Stages
    BY DEF RestoreIInv, RestoreTypeOK, IInv, TypeOK
  <1>2. ASSUME UNCHANGED <<db, pc, mark, stops, lost, misled>> PROVE IInv'
    BY <1>1, <1>2 DEF IInv, TypeOK, MarksInRange, VersionIsHonest, HonestDatabase,
                      MarksAreHonest, ServesMigrated
  <1>3. CASE BuildCandidate
    <2>1. IInv'
      BY <1>1, <1>2, <1>3 DEF BuildCandidate, Advance, IInv, TypeOK
    <2>2. /\ candidate' \in Database /\ Accepted(candidate')
          /\ 1 \in candidate'.effects => HonestDatabase(candidate')
      BY <1>3, RestoreAssumption DEF BuildCandidate
    <2> QED
      BY <1>1, <1>3, <2>1, <2>2
      DEF BuildCandidate, Advance, RestoreIInv, RestoreTypeOK, NobodyRuns, CandidateIsSound,
          ghosts, LiveIsBackedUp, LogIsFolded, LiveKeepsItsData, ReplacedDataIsSafe, InstalledIsMigrated
  <1>4. CASE MigrateCandidate
    <2>1. IInv'
      BY <1>1, <1>2, <1>4 DEF MigrateCandidate, Advance, IInv, TypeOK
    <2>2. /\ candidate \in Database /\ Accepted(candidate)
          /\ 1 \in candidate.effects => HonestDatabase(candidate)
      BY <1>4 DEF MigrateCandidate, Advance, RestoreIInv, CandidateIsSound
    <2>3. candidate.effects \cup
            UNION {Adds(v) : v \in FirstMigration(candidate, candidate.version) .. Current}
              = Versions
      BY <2>2, MigrationsComplete
    <2>4. candidate' = [candidate EXCEPT !.version = Current, !.effects = Versions]
      BY <1>4, <2>2, <2>3 DEF MigrateCandidate, Database
    <2>5. candidate' \in Database /\ candidate'.version = Current
          /\ candidate'.effects = Versions
      BY <2>2, <2>4 DEF Database, Current
    <2>6. /\ stage = "migrate" /\ stage' = "safety"
          /\ UNCHANGED <<db, pc, mark, stops, main, safety, restores, ghosts>>
      BY <1>4 DEF MigrateCandidate, Advance
    <2> QED
      BY <1>1, <2>1, <2>5, <2>6
      DEF RestoreIInv, RestoreTypeOK, NobodyRuns, CandidateIsSound, ghosts,
          LiveIsBackedUp, LogIsFolded, LiveKeepsItsData, ReplacedDataIsSafe, InstalledIsMigrated
  <1>5. CASE SafetyBackup
    <2>1. IInv'
      BY <1>1, <1>2, <1>5 DEF SafetyBackup, Advance, IInv, TypeOK
    <2> QED
      BY <1>1, <1>5, <2>1
      DEF SafetyBackup, Advance, RestoreIInv, RestoreTypeOK, NobodyRuns, CandidateIsSound, ghosts,
          LiveIsBackedUp, LogIsFolded, LiveKeepsItsData, ReplacedDataIsSafe, InstalledIsMigrated
  <1>6. CASE CheckpointLive
    <2>1. IInv'
      BY <1>1, <1>2, <1>6 DEF CheckpointLive, Advance, IInv, TypeOK
    <2> QED
      BY <1>1, <1>6, <2>1
      DEF CheckpointLive, Advance, RestoreIInv, RestoreTypeOK, NobodyRuns, CandidateIsSound,
          ghosts, LiveIsBackedUp, LogIsFolded, LiveKeepsItsData, ReplacedDataIsSafe,
          InstalledIsMigrated
  <1>7. CASE RemoveSidecars
    <2>1. main = db /\ UNCHANGED db
      BY <1>7 DEF RemoveSidecars, Advance, RestoreIInv, LogIsFolded
    <2>2. IInv'
      BY <1>1, <1>2, <1>7, <2>1 DEF RemoveSidecars, Advance, IInv, TypeOK
    <2> QED
      BY <1>1, <1>7, <2>1, <2>2
      DEF RemoveSidecars, Advance, RestoreIInv, RestoreTypeOK, NobodyRuns, CandidateIsSound,
          files, ghosts, LiveIsBackedUp, LogIsFolded, LiveKeepsItsData, ReplacedDataIsSafe,
          InstalledIsMigrated
  <1>8. CASE Install
    <2>1. /\ stage = "install" /\ stage' = "installed" /\ UNCHANGED <<pc, mark, stops, lost>>
          /\ misled' \in BOOLEAN
          /\ db' = candidate /\ main' = candidate /\ candidate' = None
          /\ latest' = candidate.data /\ replaced' = replaced \cup {latest}
          /\ UNCHANGED safety
      BY <1>8 DEF Install, Advance
    <2>2. /\ candidate \in Database
          /\ candidate.version = Current /\ candidate.effects = Versions
      BY <2>1 DEF RestoreIInv, CandidateIsSound
    <2>3. latest \in safety
      BY <2>1 DEF RestoreIInv, LiveIsBackedUp, LiveKeepsItsData
    <2>4. HonestDatabase(candidate)
      BY <2>2 DEF HonestDatabase, Honest
    <2>5. \A p \in Starters : pc[p] = "stopped"
      BY <2>1 DEF RestoreIInv, NobodyRuns
    <2>6. IInv'
      <3>1. db' \in Database /\ HonestDatabase(db')
        BY <2>1, <2>2, <2>4
      <3> QED
        BY <1>1, <2>1, <2>5, <3>1, ReplacedWhileStopped
    <2> QED
      BY <1>1, <2>1, <2>2, <2>3, <2>5, <2>6
      DEF RestoreIInv, RestoreTypeOK, NobodyRuns, CandidateIsSound, LiveIsBackedUp, LogIsFolded,
          LiveKeepsItsData, ReplacedDataIsSafe, InstalledIsMigrated
  <1>9. CASE Finish \/ Abort
    <2>1. /\ stage' = "idle" /\ candidate' \in Database \cup {None}
          /\ UNCHANGED <<db, main, safety, pc, mark, stops, lost, latest, replaced>>
          /\ UNCHANGED misled
      BY <1>1, <1>9 DEF Finish, Abort, Advance, files, ghosts, IInv, TypeOK
    <2>2. IInv'
      BY <1>2, <2>1
    <2> QED
      BY <1>1, <2>1, <2>2
      DEF RestoreIInv, RestoreTypeOK, NobodyRuns, CandidateIsSound, LiveIsBackedUp, LogIsFolded,
          LiveKeepsItsData, ReplacedDataIsSafe, InstalledIsMigrated
  <1> QED
    BY <1>3, <1>4, <1>5, <1>6, <1>7, <1>8, <1>9 DEF Restore

\* Every step of the application and of a restore keeps the invariant.
LEMMA NextRestoreIInv == RestoreIInv /\ [RestoreNext]_allVars => RestoreIInv'
  <1> SUFFICES ASSUME RestoreIInv, [RestoreNext]_allVars PROVE RestoreIInv'
    OBVIOUS
  <1>1. IInv /\ db.data = latest /\ main \in Database /\ db \in Database
    BY DEF RestoreIInv, RestoreTypeOK, LiveKeepsItsData, IInv, TypeOK
  <1>2. CASE UNCHANGED allVars
    <2>1. IInv'
      BY <1>1, <1>2, NextIInv DEF allVars
    <2> QED
      BY <1>2, <2>1
      DEF allVars, vars, files, ghosts, RestoreIInv, RestoreTypeOK, NobodyRuns, CandidateIsSound,
          LiveIsBackedUp, LogIsFolded, LiveKeepsItsData, ReplacedDataIsSafe, InstalledIsMigrated
  <1>3. ASSUME NEW p \in Starters, Continue(p) \/ Break(p) PROVE RestoreIInv'
    <2>1. Proceed(p) \/ Stop(p)
      BY <1>3 DEF Continue, Break
    <2>2. IInv'
      BY <1>1, <2>1, NextIInv DEF Next
    <2>3. db'.data = latest'
      BY <1>1, <1>3, <2>1, ProcessesKeepData DEF Continue, Break, ghosts
    <2> QED
      BY <1>1, <1>3, <2>2, <2>3, IdleStep DEF Continue, Break, files, ghosts
  <1>4. CASE AutoCheckpoint
    <2>1. IInv'
      BY <1>1, <1>4, NextIInv DEF AutoCheckpoint
    <2>2. db'.data = latest'
      BY <1>1, <1>4 DEF AutoCheckpoint, vars, ghosts
    <2> QED
      BY <1>1, <1>4, <2>1, <2>2, IdleStep DEF AutoCheckpoint, ghosts
  <1> QED
    BY <1>2, <1>3, <1>4, CommitStep, RestoreStep DEF RestoreNext

\* The live database holds what was last committed or installed, wherever a
\* restore stops: what only the write-ahead log held is never removed with it.
THEOREM RestoreLosesNoCommit == RestoreSpec => []LiveKeepsItsData
  <1>1. RestoreIInv => LiveKeepsItsData
    BY DEF RestoreIInv
  <1> QED
    BY InitRestoreIInv, NextRestoreIInv, <1>1, PTL DEF RestoreSpec

\* Whatever a restore replaces is in a safety backup.
THEOREM ReplacedDataIsBackedUp == RestoreSpec => []ReplacedDataIsSafe
  <1>1. RestoreIInv => ReplacedDataIsSafe
    BY DEF RestoreIInv
  <1> QED
    BY InitRestoreIInv, NextRestoreIInv, <1>1, PTL DEF RestoreSpec

\* Whatever age the source of a restore has, what is installed is migrated to
\* the current version and has every effect that version promises.
THEOREM OnlyMigratedIsInstalled == RestoreSpec => []InstalledIsMigrated
  <1>1. RestoreIInv => InstalledIsMigrated
    BY DEF RestoreIInv
  <1> QED
    BY InitRestoreIInv, NextRestoreIInv, <1>1, PTL DEF RestoreSpec

\* Restores that happen between runs of the application included, a database
\* never records a version that it does not have, and is served only when it
\* has every effect of the current one, unless a process was misled about the
\* version of a database without base tables since the last restore.
THEOREM RestoredStaysHonest == RestoreSpec => [](VersionIsHonest /\ ServesMigrated)
  <1>1. RestoreIInv => VersionIsHonest /\ ServesMigrated
    BY DEF RestoreIInv, IInv
  <1> QED
    BY InitRestoreIInv, NextRestoreIInv, <1>1, PTL DEF RestoreSpec
=============================================================================
