--------------------------- MODULE DatabaseRestore ---------------------------
(***************************************************************************)
(* Restore of the database (backend/app/maintenance.py), composed with the *)
(* processes that migrate and serve it.  A commit lives in the write-ahead *)
(* log until a checkpoint folds it into the main file, so that what the    *)
(* main file holds by itself may be older than the database.               *)
(*                                                                         *)
(* As its documentation demands, a restore runs while the application is   *)
(* stopped; the application may have died with commits in the log.  An     *)
(* online backup is one consistent read and is the safety backup here.     *)
(***************************************************************************)
EXTENDS SchemaMigration

CONSTANTS
    Sources,     \* the files a restore may be given
    MaxCommits,  \* bound: commits of the live database
    MaxRestores  \* bound: restores

\* A file to restore from was written by a release of the application, whose
\* versions tell the truth, or it has lost base tables.
ASSUME RestoreAssumption ==
    /\ MaxCommits \in Nat /\ MaxRestores \in Nat
    /\ Sources \subseteq Database
    /\ \A s \in Sources : 1 \in s.effects => HonestDatabase(s)

VARIABLES
    main,       \* the live database as its main file alone holds it
    stage,      \* where the restore is
    candidate,  \* the copy it builds beside the live database
    safety,     \* the data held by safety backups
    restores,
    latest,     \* what the live database was last made to hold
    replaced    \* what it held before the restores that went through

files == <<main, candidate, safety>>
ghosts == <<latest, replaced>>
allVars == <<vars, files, stage, restores, ghosts>>

RestoreInit ==
    /\ Init
    /\ main = db
    /\ stage = "idle" /\ candidate = None
    /\ safety = {} /\ restores = 0
    /\ latest = db.data /\ replaced = {}

(* The application *)

Continue(p) ==
    /\ stage = "idle"
    /\ Proceed(p)
    /\ UNCHANGED <<files, stage, restores, ghosts>>

Break(p) ==
    /\ stage = "idle"
    /\ Stop(p)
    /\ UNCHANGED <<files, stage, restores, ghosts>>

Commit(p) ==
    /\ pc[p] = "serving" /\ db.data < MaxCommits
    /\ db' = [db EXCEPT !.data = @ + 1]
    /\ latest' = db.data + 1
    /\ UNCHANGED <<pc, mark, stops, lost, misled, files, stage, restores, replaced>>

\* SQLite checkpoints now and then, and when the last connection closes.
AutoCheckpoint ==
    /\ stage = "idle" /\ main # db /\ \E p \in Starters : pc[p] # "stopped"
    /\ main' = db
    /\ UNCHANGED <<vars, candidate, safety, stage, restores, ghosts>>

(* The restore, one step after another *)

\* With what is installed, whoever was misled about the old database is forgotten.
Advance(from, to) ==
    /\ stage = from /\ stage' = to
    /\ misled' = (misled /\ to # "installed")
    /\ UNCHANGED <<pc, mark, stops, lost>>

\* _validate_db and _check_source_schema: a newer or a foreign database is
\* refused; an unversioned one must have every base table.
Accepted(s) ==
    IF s.version = None THEN 1 \in s.effects ELSE s.version <= Current

BuildCandidate ==
    /\ \A p \in Starters : pc[p] = "stopped"
    /\ restores < MaxRestores
    /\ \E s \in Sources : Accepted(s) /\ candidate' = s
    /\ restores' = restores + 1
    /\ Advance("idle", "migrate")
    /\ UNCHANGED <<db, main, safety, ghosts>>

MigrateCandidateRecorded ==
    /\ Advance("migrate", "safety")
    /\ candidate' = IF candidate.version = None THEN Recorded(candidate, Current) ELSE candidate
    /\ UNCHANGED <<db, main, safety, restores, ghosts>>

\* migrate over a database nobody else has: every migration from the first.
MigrateCandidate ==
    LET todo == FirstMigration(candidate, candidate.version) .. Current
    IN  /\ Advance("migrate", "safety")
        /\ \A v \in todo : ~Refuses(candidate, v)
        /\ candidate' = [candidate EXCEPT !.version = Current,
                                          !.effects = @ \cup UNION {Adds(v) : v \in todo}]
        /\ UNCHANGED <<db, main, safety, restores, ghosts>>

SafetyCopyOfMain ==
    /\ Advance("safety", "checkpoint")
    /\ safety' = safety \cup {main.data}
    /\ UNCHANGED <<db, main, candidate, restores, ghosts>>

SafetyBackup ==
    /\ Advance("safety", "checkpoint")
    /\ safety' = safety \cup {db.data}
    /\ UNCHANGED <<db, main, candidate, restores, ghosts>>

CheckpointIgnoringBusy ==
    /\ Advance("checkpoint", "sidecars")
    /\ main' \in {db, main}
    /\ UNCHANGED <<db, candidate, safety, restores, ghosts>>

\* A busy checkpoint aborts the restore instead.
CheckpointLive ==
    /\ Advance("checkpoint", "sidecars")
    /\ main' = db
    /\ UNCHANGED <<db, candidate, safety, restores, ghosts>>

\* What only the log held is gone with it.
RemoveSidecars ==
    /\ Advance("sidecars", "install")
    /\ db' = main
    /\ UNCHANGED <<files, restores, ghosts>>

Install ==
    /\ Advance("install", "installed")
    /\ db' = candidate /\ main' = candidate
    /\ candidate' = None
    /\ latest' = candidate.data
    /\ replaced' = replaced \cup {latest}
    /\ UNCHANGED <<safety, restores>>

\* An error at any step (the candidate is removed), or the death of the
\* restoring process (it stays, under a name that is never used again).
Abort ==
    /\ stage # "idle"
    /\ candidate' = None
    /\ Advance(stage, "idle")
    /\ UNCHANGED <<db, main, safety, restores, ghosts>>

Finish ==
    /\ Advance("installed", "idle")
    /\ UNCHANGED <<db, files, restores, ghosts>>

Restore ==
    \/ BuildCandidate \/ MigrateCandidate \/ SafetyBackup \/ CheckpointLive
    \/ RemoveSidecars \/ Install \/ Finish

RestoreNext ==
    \/ \E p \in Starters : Continue(p) \/ Break(p) \/ Commit(p)
    \/ AutoCheckpoint \/ Restore \/ Abort

\* A process that has started goes on, one that stopped is started again, and
\* a restore that has begun either goes on or is aborted.
RestoreSpec ==
    /\ RestoreInit /\ [][RestoreNext]_allVars
    /\ \A p \in Starters : WF_allVars(Continue(p))
    /\ WF_allVars(stage # "idle" /\ (Restore \/ Abort))

-----------------------------------------------------------------------------
(* Properties *)

\* The live database holds what was last committed to it or installed, wherever
\* a restore failed or died: no commit is lost with the sidecars of the log.
LiveKeepsItsData == db.data = latest

\* Whatever a restore replaced is in a safety backup, the commits that only the
\* log held included.
ReplacedDataIsSafe == replaced \subseteq safety

\* A restore installs only fully migrated databases, whatever age the source.
InstalledIsMigrated ==
    stage = "installed" => db.version = Current /\ db.effects = Versions

\* Startup succeeds in the end: a database with readable rows is served, for
\* all the crashes in the middle of its migrations and the restores over it.
StartupSucceeds ==
    (db.readable /\ db.version \in 0 .. Current \cup {None}) ~>
        (\E p \in Starters : pc[p] = "serving")
=============================================================================
