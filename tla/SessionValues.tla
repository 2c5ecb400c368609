---------------------------- MODULE SessionValues ----------------------------
(***************************************************************************)
(* The values of a replay session and what its operations do to them.      *)
(*                                                                         *)
(* A session value is a ReplayState (backend/app/domain.py) reduced to     *)
(* what the store tells apart: the revision, the totals the snapshot row   *)
(* carries, the trades and the fills.  The stamp of a trade is the         *)
(* revision that last changed one of its fields; a fill is its number.     *)
(* The same operations act on a complete history (AtomicSession) and on    *)
(* the bounded working set a request holds in memory (SessionStore).       *)
(***************************************************************************)
EXTENDS Integers, Sequences, FiniteSets, Functions, Listing

CONSTANTS
    MaxTrades,   \* bound: entries per session
    Beginnings,  \* the sessions a behaviour may begin with: new ones, or later
    None         \* Python's None

Trade == [id : Nat \ {0}, status : {"open", "closed"}, stamp : Nat]
SessionValue ==
    [revision : Nat, opened : Nat, closedTotal : Nat, fillsTotal : Nat,
     trades : Seq(Trade), fills : Seq(Nat)]

NewSession ==
    [revision |-> 1, opened |-> 0, closedTotal |-> 0, fillsTotal |-> 0,
     trades |-> << >>, fills |-> << >>]

WithStatus(trades, status) == Chosen(trades, {t \in Range(trades) : t.status = status})
IdsOf(trades) == {trades[k].id : k \in DOMAIN trades}
OpenIds(s) == IdsOf(WithStatus(s.trades, "open"))

\* Numbers and appends n fills, as the execution engine does for every one.
Filled(s, n) ==
    [s EXCEPT !.fillsTotal = @ + n,
              !.fills = @ \o [k \in 1 .. n |-> s.fillsTotal + k]]

\* A market order: a new trade (ids are never reused) and its entry fill.
Opened(s) ==
    LET trade == [id |-> s.opened + 1, status |-> "open", stamp |-> s.revision + 1]
    IN  Filled([s EXCEPT !.opened = @ + 1, !.trades = Append(@, trade)], 1)

\* What one request does to open trades.  Those of closes close, a fill each (a
\* close, a close-all, the exits of a step); those of changes that stay open are
\* stamped (a moved level, the excursions of a step); n more fills are booked on
\* them (a partial close).
Affected(s, closes, changes, n) ==
    Filled([s EXCEPT
              !.closedTotal = @ + Cardinality(closes),
              !.trades = [k \in DOMAIN @ |->
                            IF @[k].id \in closes
                              THEN [@[k] EXCEPT !.status = "closed", !.stamp = s.revision + 1]
                            ELSE IF @[k].id \in changes
                              THEN [@[k] EXCEPT !.stamp = s.revision + 1]
                            ELSE @[k]]],
           Cardinality(closes) + n)

\* The outcomes a mutation may have on s: a market order; a change of settings
\* or a step, which closes any of the open trades and changes any of the others
\* at once; a partial close.
Mutations(s) ==
    (IF s.opened < MaxTrades THEN {Opened(s)} ELSE {})
    \cup {Affected(s, closes, changes, 0) :
            closes \in SUBSET OpenIds(s), changes \in SUBSET OpenIds(s)}
    \cup {Affected(s, {}, {id}, 1) : id \in OpenIds(s)}

\* A session as it may be found stored: ids and fills are numbered from 1 without
\* a gap, and the totals count what is there.
Whole(s) ==
    /\ s \in SessionValue /\ s.opened <= MaxTrades
    /\ Len(s.trades) = s.opened /\ \A k \in 1 .. s.opened : s.trades[k].id = k
    /\ s.fills = [k \in 1 .. s.fillsTotal |-> k]
    /\ s.closedTotal = Cardinality(IdsOf(WithStatus(s.trades, "closed")))

ASSUME BeginningsAssumption == \A s \in Beginnings : Whole(s)
=============================================================================
