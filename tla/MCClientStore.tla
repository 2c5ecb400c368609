---------------------------- MODULE MCClientStore ----------------------------
(***************************************************************************)
(* Small instances of the browser store: two sessions that are opened,     *)
(* changed, paged and left in turn.                                        *)
(***************************************************************************)
EXTENDS ClientStore, TLC

CONSTANTS s1, s2

Alike == Permutations(Sessions)
=============================================================================
