--------------------------- MODULE MCDatasetImport ---------------------------
(***************************************************************************)
(* Small instance: two imports of one symbol at once, which differ in the  *)
(* years they cover, beside two request threads and one session; one of    *)
(* them in an installation from before versions.                           *)
(***************************************************************************)
EXTENDS DatasetImport

CONSTANTS v1, v2, i1, i2, r1, r2, s1, s2

Imports == [v \in Versions |-> IF v = v1 THEN {1, 2, 3} ELSE {2, 3}]
Rewritten == [y \in Years |-> IF y = 1 THEN 2 ELSE 1]
Alike == Permutations(Importers) \cup Permutations(Readers) \cup Permutations(Sessions)
OneEach == [c \in Caches |-> 1]
=============================================================================
