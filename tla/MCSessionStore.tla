--------------------------- MODULE MCSessionStore ---------------------------
(***************************************************************************)
(* Small instances of the session store: request threads in one or two     *)
(* server processes over one database.                                     *)
(***************************************************************************)
EXTENDS SessionStore, TLC

CONSTANTS r1, r2, p1, p2

\* A session in which only settings were changed so far, and one with a closed
\* trade, two open ones, and more fills than the window holds.
Untraded == [NewSession EXCEPT !.revision = 5]
Traded ==
    LET trade(n, state, rev) == [id |-> n, status |-> state, stamp |-> rev]
    IN  [revision |-> 6, opened |-> 3, closedTotal |-> 1, fillsTotal |-> 4,
         trades |-> <<trade(1, "closed", 6), trade(2, "open", 3), trade(3, "open", 4)>>,
         fills |-> <<1, 2, 3, 4>>]
Stages == {Untraded, Traded}
FirstStage == {NewSession}

Alike == Permutations(Requests) \cup Permutations(Processes)
=============================================================================
