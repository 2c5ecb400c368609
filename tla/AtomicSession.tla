---------------------------- MODULE AtomicSession ----------------------------
(***************************************************************************)
(* What the session store promises: one replay session that mutations      *)
(* change one at a time, each of them working on the complete and latest   *)
(* history, until a deletion removes it for good.                          *)
(***************************************************************************)
EXTENDS SessionValues

VARIABLE session

AtomicInit == session \in Beginnings

Mutate ==
    /\ session # None
    /\ \E s \in Mutations(session) : session' = [s EXCEPT !.revision = @ + 1]

Delete ==
    /\ session # None
    /\ session' = None

AtomicSpec == AtomicInit /\ [][Mutate \/ Delete]_session
=============================================================================
