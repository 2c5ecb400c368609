--------------------------- MODULE SchemaMigration ---------------------------
(***************************************************************************)
(* Ordered schema migrations (backend/app/migrations.py): server processes *)
(* that start, one or several at a time, over a database of any age, each  *)
(* bringing it to the current version one transaction after another and    *)
(* each possibly dying or failing between any two of them.                 *)
(*                                                                         *)
(* A database is its recorded version (None: no metadata), the effects its *)
(* schema and its rows show (v: what migration v establishes; 1: all base  *)
(* tables exist; 6: every session has its statistics accumulator), whether *)
(* every stored row can be parsed and derived from, and its data, counted  *)
(* in commits.  A file that is missing is the empty database.              *)
(***************************************************************************)
EXTENDS Integers

CONSTANTS
    Starters,   \* server processes
    Databases,  \* the databases a deployment may start from
    MaxStops,   \* bound: crashes, failures and shutdowns
    None

Current == 8    \* CURRENT_SCHEMA_VERSION
Versions == 1 .. Current

Database ==
    [version : Nat \cup {None}, effects : SUBSET Versions, readable : BOOLEAN, data : Nat]

\* The recorded version tells the truth: its effects are there.  Version 6 of
\* an older release may have left sessions without an accumulator.
Honest(v, effects) ==
    \A k \in Versions : k <= v => k \in effects \/ (k = 6 /\ v = 6)

HonestDatabase(d) == d.version # None => Honest(d.version, d.effects)

\* A deployment starts from a database whose version is honest, or from one
\* that has lost base tables, whatever version it records.

ASSUME MigrationAssumption ==
    /\ None \notin Nat
    /\ MaxStops \in Nat
    /\ Databases \subseteq Database
    /\ \A d \in Databases : 1 \in d.effects => HonestDatabase(d)

VARIABLES
    db,     \* the live database, as committed
    pc,     \* where each process is
    mark,   \* the version it has read or detected, then its next migration
    stops,
    lost,   \* history: who read the version of a database without its base tables
            \* and has not looked for them yet
    misled  \* history: one of them then found them recreated by another, but not
            \* yet what the later migrations add

vars == <<db, pc, mark, stops, lost, misled>>

BaselineByAge(d) == IF d.effects = {} THEN 0 ELSE 3

\* _detect_baseline: the shape of an unversioned database pins its version.
Baseline(d) ==
    IF 1 \notin d.effects THEN 0
    ELSE IF 2 \notin d.effects THEN 1
    ELSE IF 3 \notin d.effects THEN 2 ELSE 3

\* Where migrate starts: at the first migration unless a complete database
\* records how far it came.
FirstMigration(d, recorded) ==
    IF recorded = None \/ 1 \notin d.effects THEN 1 ELSE recorded + 1

AddsAlone(v) == {v}

\* v7 also repairs the sessions a lenient v6 has left without an accumulator.
Adds(v) == IF v = 7 THEN {6, 7} ELSE {v}

\* v6 and v7 are strict: what cannot be derived exactly fails the migration.
\* v6 leaves the sessions alone that have an accumulator.
Refuses(d, v) == ~d.readable /\ (v = 7 \/ (v = 6 /\ 6 \notin d.effects))

Recorded(d, v) == [d EXCEPT !.version = v]

\* One migration and its version bump; every one is guarded, so that one whose
\* effects are present changes nothing.
Migrated(d, v) == Recorded([d EXCEPT !.effects = @ \cup Adds(v)], v)

Init ==
    /\ db \in Databases
    /\ pc = [p \in Starters |-> "stopped"]
    /\ mark = [p \in Starters |-> 0]
    /\ stops = 0
    /\ lost = {} /\ misled = FALSE

Goto(p, label, m) ==
    /\ pc' = [pc EXCEPT ![p] = label]
    /\ mark' = [mark EXCEPT ![p] = m]

\* A newer database is refused before anything is touched.
Start(p) ==
    /\ pc[p] = "stopped"
    /\ IF db.version = None THEN Goto(p, "detect", 0)
       ELSE db.version <= Current /\ Goto(p, "check", db.version)
    /\ lost' = IF db.version # None /\ 1 \notin db.effects THEN lost \cup {p} ELSE lost
    /\ UNCHANGED <<db, stops, misled>>

Detect(p) ==
    /\ pc[p] = "detect"
    /\ Goto(p, "record", Baseline(db))
    /\ UNCHANGED <<db, stops, lost, misled>>

RecordBaseline(p) ==
    /\ pc[p] = "record"
    /\ db' = Recorded(db, mark[p])
    /\ Goto(p, "migrate", 1)
    /\ UNCHANGED <<stops, lost, misled>>

\* The tables are looked for after the version was read, in a statement of its own.
CheckTables(p) ==
    /\ pc[p] = "check"
    /\ Goto(p, "migrate", FirstMigration(db, mark[p]))
    /\ misled' = (misled \/ (p \in lost /\ 1 \in db.effects /\ ~Honest(mark[p], db.effects)))
    /\ lost' = lost \ {p}
    /\ UNCHANGED <<db, stops>>

MigrateUnguarded(p) ==
    /\ pc[p] = "migrate" /\ mark[p] <= Current
    /\ ~Refuses(db, mark[p]) /\ mark[p] \notin db.effects
    /\ db' = Migrated(db, mark[p])
    /\ Goto(p, "migrate", mark[p] + 1)
    /\ UNCHANGED <<stops, lost, misled>>

Migrate(p) ==
    /\ pc[p] = "migrate" /\ mark[p] <= Current
    /\ ~Refuses(db, mark[p])
    /\ db' = Migrated(db, mark[p])
    /\ Goto(p, "migrate", mark[p] + 1)
    /\ UNCHANGED <<stops, lost, misled>>

\* The timeframe profiles are seeded, and the application serves.
Seed(p) ==
    /\ pc[p] = "migrate" /\ mark[p] > Current
    /\ Goto(p, "serving", 0)
    /\ UNCHANGED <<db, stops, lost, misled>>

\* A migration fails and is rolled back, the process dies, or it is shut down.
Stop(p) ==
    /\ pc[p] # "stopped" /\ stops < MaxStops
    /\ stops' = stops + 1
    /\ Goto(p, "stopped", 0)
    /\ lost' = lost \ {p}
    /\ UNCHANGED <<db, misled>>

Proceed(p) ==
    Start(p) \/ Detect(p) \/ RecordBaseline(p) \/ CheckTables(p) \/ Migrate(p) \/ Seed(p)

Next == \E p \in Starters : Proceed(p) \/ Stop(p)

Spec == Init /\ [][Next]_vars

-----------------------------------------------------------------------------
(* Properties *)

\* The types of the database and of the processes that migrate it.
TypeOK ==
    /\ db \in Database
    /\ pc \in [Starters -> {"stopped", "detect", "record", "check", "migrate", "serving"}]
    /\ mark \in [Starters -> 0 .. Current + 1]
    /\ stops \in Nat
    /\ lost \in SUBSET Starters /\ misled \in BOOLEAN

\* The recorded version of a database with its base tables never promises more
\* than the database has, although several processes may migrate it at once,
\* one of them writing a baseline that it detected before the others were done,
\* and any of them may die: a process that trusts the version skips nothing.
\* One history is excepted: a process read the version of a database that had
\* lost base tables, and when it looked for them another had recreated them but
\* not yet run the later migrations.
VersionIsHonest == misled \/ 1 \notin db.effects \/ HonestDatabase(db)

\* But for that history, an application serves only a fully migrated database,
\* one that had lost base tables included: every effect is there, and so every
\* session has an accumulator.
ServesMigrated ==
    misled \/ \A p \in Starters : pc[p] = "serving" => db.effects = Versions

\* What the docstring of migrate promises: "A database missing any base table
\* is completed the same way, even when it carries recorded metadata."  The
\* version and the tables are read one after the other, outside a transaction.
IncompleteIsCompleted == \A p \in Starters : pc[p] = "serving" => db.effects = Versions
=============================================================================
