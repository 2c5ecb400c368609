-------------------------- MODULE MCDatabaseRestore --------------------------
(***************************************************************************)
(* Small instance: databases of every age, two processes that start over   *)
(* them, and restores from good, old, damaged and unreadable files.        *)
(***************************************************************************)
EXTENDS DatabaseRestore

CONSTANTS p1, p2

File(version, effects, readable, data) ==
    [version |-> version, effects |-> effects, readable |-> readable, data |-> data]

\* What is left of a migrated database that has lost its trades and fills, with
\* the indexes and columns that v4, v5 and v8 gave them.
Damaged == {File(8, {2, 3, 6, 7}, TRUE, 0)}

Aged ==
    Damaged
    \cup {File(None, 1 .. v, TRUE, 0) : v \in {0, 1, 2, 3}}
    \cup {File(None, 2 .. 3, TRUE, 0), File(3, 1 .. 3, FALSE, 0)}
    \cup {File(6, 1 .. 5, TRUE, 0), File(6, 1 .. 5, FALSE, 0)}
    \cup {File(8, 1 .. 8, TRUE, 0), File(9, 1 .. 8, TRUE, 0)}

Backups ==
    {File(8, 1 .. 8, TRUE, 5), File(None, 1 .. 1, TRUE, 6), File(5, 1 .. 5, FALSE, 7),
     File(8, {2, 3, 6, 7}, TRUE, 7), File(9, 1 .. 8, TRUE, 7), File(None, {}, TRUE, 7)}
=============================================================================
