---------------------------- MODULE SessionStore ----------------------------
(***************************************************************************)
(* Persistence of one replay session (backend/app/repository.py): request  *)
(* threads of one or more server processes load the session, change their  *)
(* own copy and save it by compare-and-swap on its revision.               *)
(*                                                                         *)
(* Shared, durable: the snapshot row and the trades and fills tables.      *)
(* Shared by the threads of a process, lost when it restarts: the cache of *)
(* hydrated states and the record of the rows already persisted.           *)
(* A save is one SQLite transaction and so one action; a load is a SELECT  *)
(* of its own for the row, for the open trades, for the closed ones and    *)
(* for the fills, each of which sees whatever is committed by then.        *)
(***************************************************************************)
EXTENDS SessionValues

CONSTANTS
    Requests,     \* request threads
    Processes,    \* server processes
    Window,       \* RECENT_CLOSED_TRADES_LIMIT
    FillWindow,   \* RECENT_FILLS_LIMIT
    MaxRevision   \* bound: the revision from which nothing is changed

\* What the row holds, and what a process remembers of the rows it has saved.
Rows == [revision : Nat, opened : Nat, closedTotal : Nat, fillsTotal : Nat]
Records == [revision : Nat, fills : SUBSET Nat, trades : SUBSET Trade]

ASSUME StoreAssumption ==
    /\ Window \in Nat \ {0} /\ FillWindow \in Nat \ {0}
    /\ MaxTrades \in Nat /\ MaxRevision \in Nat \ {0}
    /\ \A s \in Beginnings : s.revision \in 1 .. MaxRevision
    /\ None \notin SessionValue \cup Rows \cup Records

VARIABLES
    row,      \* the replay_sessions row: the snapshot's scalars; None: deleted
    table,    \* the trades table, in rowid order
    ledger,   \* the fills table, in rowid order
    cache,    \* _STATE_CACHE of each process
    tracker,  \* _PERSISTED_ROWS of each process
    pc,       \* where each request is
    home,     \* the process that serves it
    seen,     \* the revision a request looks for in the cache
    copy,     \* its ReplayState
    tracked   \* the tracking record its save started from

durable == <<row, table, ledger>>
memory == <<cache, tracker>>
local == <<pc, home, seen, copy, tracked>>
vars == <<durable, memory, local>>

\* The session as committed: the row together with the complete tables.
Stored ==
    IF row = None THEN None
    ELSE [revision |-> row.revision, opened |-> row.opened,
          closedTotal |-> row.closedTotal, fillsTotal |-> row.fillsTotal,
          trades |-> table, fills |-> ledger]

Atomic == INSTANCE AtomicSession WITH session <- Stored

Scalars(s) ==
    [revision |-> s.revision, opened |-> s.opened,
     closedTotal |-> s.closedTotal, fillsTotal |-> s.fillsTotal]

Recent(s, n) == SubSeq(s, IF Len(s) > n THEN Len(s) - n + 1 ELSE 1, Len(s))

\* _prune_working_set: the last closed trades of the list, the last fills.
Pruned(s) ==
    LET closed == Recent(WithStatus(s.trades, "closed"), Window)
        keep == IdsOf(WithStatus(s.trades, "open")) \cup IdsOf(closed)
    IN  [s EXCEPT !.trades = Chosen(@, {t \in Range(@) : t.id \in keep}),
                  !.fills = Recent(@, FillWindow)]

Known(rows, t) == t.id \in IdsOf(rows)

InsertOrReplace(rows, changed) ==
    Chosen(rows, {t \in Range(rows) : ~Known(changed, t)}) \o changed

\* INSERT ... ON CONFLICT(id) DO UPDATE, row by row: a known row stays where it is.
Upsert(rows, changed) ==
    [k \in DOMAIN rows |-> IF Known(changed, rows[k])
                             THEN CHOOSE t \in Range(changed) : t.id = rows[k].id
                             ELSE rows[k]]
    \o Chosen(changed, {t \in Range(changed) : ~Known(rows, t)})

\* The rows of the working set that the tracking record does not let us skip.
UnsavedTrades(s, record) ==
    Chosen(s.trades, Range(s.trades) \ IF record = None THEN {} ELSE record.trades)
UnsavedFills(s, record) ==
    Chosen(s.fills, Range(s.fills) \ (Range(ledger) \cup IF record = None THEN {} ELSE record.fills))

-----------------------------------------------------------------------------
Init ==
    /\ \E s \in Beginnings : row = Scalars(s) /\ table = s.trades /\ ledger = s.fills
    /\ cache = [p \in Processes |-> None]
    /\ tracker = [p \in Processes |-> None]
    /\ pc = [r \in Requests |-> "idle"]
    /\ home = [r \in Requests |-> None]
    /\ seen = [r \in Requests |-> None]
    /\ copy = [r \in Requests |-> None]
    /\ tracked = [r \in Requests |-> None]

Goto(r, label) == pc' = [pc EXCEPT ![r] = label]

\* The requests of rs end; what they held is garbage.
End(rs, label) ==
    LET cleared(f) == [r \in Requests |-> IF r \in rs THEN None ELSE f[r]]
    IN  /\ pc' = [r \in Requests |-> IF r \in rs THEN label ELSE pc[r]]
        /\ home' = cleared(home) /\ seen' = cleared(seen)
        /\ copy' = cleared(copy) /\ tracked' = cleared(tracked)

CachePutRestamped(r) ==
    cache' = [cache EXCEPT ![home[r]] =
                IF row = None THEN copy[r] ELSE [copy[r] EXCEPT !.revision = row.revision]]
CachePut(r) == cache' = [cache EXCEPT ![home[r]] = copy[r]]
CachePop(r) == cache' = [cache EXCEPT ![home[r]] = None]

(* Loading: load_state_cached and, on a miss, load_session *)

Begin(r, p) ==
    /\ pc[r] \in {"idle", "failed"} /\ row # None
    /\ Goto(r, "lookup")
    /\ home' = [home EXCEPT ![r] = p]
    /\ seen' = [seen EXCEPT ![r] = row.revision]
    /\ UNCHANGED <<durable, memory, copy, tracked>>

CacheServes(r) ==
    IF cache[home[r]] = None THEN FALSE ELSE cache[home[r]].revision = seen[r]

CacheHit(r) ==
    /\ pc[r] = "lookup" /\ CacheServes(r)
    /\ copy' = [copy EXCEPT ![r] = cache[home[r]]]
    /\ seen' = [seen EXCEPT ![r] = None]
    /\ Goto(r, "touch")
    /\ UNCHANGED <<durable, memory, home, tracked>>

CacheMiss(r) ==
    /\ pc[r] = "lookup" /\ ~CacheServes(r)
    /\ seen' = [seen EXCEPT ![r] = None]
    /\ Goto(r, "row")
    /\ UNCHANGED <<durable, memory, home, copy, tracked>>

\* move_to_end raises KeyError when another thread has just popped the entry.
Touch(r) ==
    /\ pc[r] = "touch"
    /\ IF cache[home[r]] # None
         THEN Goto(r, "loaded") /\ UNCHANGED <<home, seen, copy, tracked>>
         ELSE End({r}, "failed")
    /\ UNCHANGED <<durable, memory>>

ReadRow(r) ==
    /\ pc[r] = "row"
    /\ IF row = None
         THEN End({r}, "idle")
         ELSE /\ copy' = [copy EXCEPT ![r] =
                            [NewSession EXCEPT !.revision = row.revision,
                                                      !.opened = row.opened,
                                                      !.closedTotal = row.closedTotal,
                                                      !.fillsTotal = row.fillsTotal]]
              /\ Goto(r, "open")
              /\ UNCHANGED <<home, seen, tracked>>
    /\ UNCHANGED <<durable, memory>>

ReadTrades(r, status, rows) ==
    /\ pc[r] = status
    /\ copy' = [copy EXCEPT ![r].trades = @ \o rows]
    /\ Goto(r, IF status = "open" THEN "closed" ELSE "fills")
    /\ UNCHANGED <<durable, memory, home, seen, tracked>>

ReadOpenTrades(r) == ReadTrades(r, "open", WithStatus(table, "open"))
ReadClosedTrades(r) ==
    ReadTrades(r, "closed", Recent(WithStatus(table, "closed"), Window))

\* The last SELECT, and the totals: counted anew when the row has none but the
\* tables have rows, zero when the tables are empty.
ReadFills(r) ==
    LET fills == Recent(ledger, FillWindow)
        s == [copy[r] EXCEPT !.fills = fills]
        nothing == s.trades = << >> /\ fills = << >>
        closed == IF nothing THEN 0 ELSE Len(WithStatus(table, "closed"))
    IN  /\ pc[r] = "fills"
        /\ copy' = [copy EXCEPT ![r] =
                      IF nothing \/ (s.closedTotal = 0 /\ s.fillsTotal = 0)
                        THEN [s EXCEPT !.closedTotal = closed,
                                       !.fillsTotal = IF nothing THEN 0 ELSE Len(ledger)]
                        ELSE s]
        /\ Goto(r, "put")
        /\ UNCHANGED <<durable, memory, home, seen, tracked>>

PutLoaded(r) ==
    /\ pc[r] = "put"
    /\ CachePut(r)
    /\ Goto(r, "loaded")
    /\ UNCHANGED <<durable, tracker, home, seen, copy, tracked>>

\* A read is answered from the copy; an invalid mutation is refused.
Respond(r) ==
    /\ pc[r] = "loaded"
    /\ End({r}, "idle")
    /\ UNCHANGED <<durable, memory>>

(* Saving: save_session *)

\* The operation changes the copy in memory; the save looks up its record.
Change(r) ==
    LET record == tracker[home[r]]
        current == IF record = None THEN FALSE ELSE record.revision = copy[r].revision
    IN  /\ pc[r] = "loaded"
        /\ copy[r].revision < MaxRevision
        /\ \E s \in Mutations(copy[r]) : copy' = [copy EXCEPT ![r] = s]
        /\ tracked' = [tracked EXCEPT ![r] = IF current THEN record ELSE None]
        /\ Goto(r, "saving")
        /\ UNCHANGED <<durable, memory, home, seen>>

StillStored(r) == row # None

\* WHERE id = ? AND revision = ?
NotModified(r) == row # None /\ row.revision = copy[r].revision

Commit(r) ==
    LET s == [copy[r] EXCEPT !.revision = @ + 1]
    IN  /\ pc[r] = "saving"
        /\ NotModified(r)
        /\ row' = Scalars(s)
        /\ table' = Upsert(table, UnsavedTrades(s, tracked[r]))
        /\ ledger' = ledger \o UnsavedFills(s, tracked[r])
        /\ copy' = [copy EXCEPT ![r] = s]
        /\ tracked' = [tracked EXCEPT ![r] = None]
        /\ Goto(r, "saved")
        /\ UNCHANGED <<memory, home, seen>>

RollBackTracked(r) ==
    /\ pc[r] = "saving"
    /\ CachePop(r)
    /\ tracker' = [tracker EXCEPT ![home[r]] =
                     [revision |-> copy[r].revision, fills |-> Range(copy[r].fills),
                      trades |-> Range(copy[r].trades)]]
    /\ End({r}, "idle")
    /\ UNCHANGED durable

\* The compare-and-swap missed (409), or any statement of the transaction
\* failed: everything is rolled back and the cached state is dropped.
RollBack(r) ==
    /\ pc[r] = "saving"
    /\ CachePop(r)
    /\ End({r}, "idle")
    /\ UNCHANGED <<durable, tracker>>

Track(r) ==
    LET s == Pruned(copy[r])
    IN  /\ pc[r] = "saved"
        /\ copy' = [copy EXCEPT ![r] = s]
        /\ tracker' = [tracker EXCEPT ![home[r]] =
                         [revision |-> s.revision, fills |-> Range(s.fills),
                          trades |-> Range(s.trades)]]
        /\ Goto(r, "tracked")
        /\ UNCHANGED <<durable, cache, home, seen, tracked>>

PutSaved(r) ==
    /\ pc[r] = "tracked"
    /\ CachePut(r)
    /\ End({r}, "idle")
    /\ UNCHANGED <<durable, tracker>>

(* Deletion, eviction by other sessions, crashes *)

Delete(r, p) ==
    /\ pc[r] \in {"idle", "failed"} /\ row # None
    /\ row' = None
    /\ table' = << >> /\ ledger' = << >>
    /\ Goto(r, "deleted")
    /\ home' = [home EXCEPT ![r] = p]
    /\ UNCHANGED <<memory, seen, copy, tracked>>

PopDeleted(r) ==
    /\ pc[r] = "deleted"
    /\ CachePop(r)
    /\ End({r}, "idle")
    /\ UNCHANGED <<durable, tracker>>

\* Both dictionaries are bounded and shared with the other sessions.
Evict(p) ==
    /\ \/ cache[p] # None /\ cache' = [cache EXCEPT ![p] = None] /\ UNCHANGED tracker
       \/ tracker[p] # None /\ tracker' = [tracker EXCEPT ![p] = None] /\ UNCHANGED cache
    /\ UNCHANGED <<durable, local>>

\* A process dies between any two steps of its requests and starts again.
Restart(p) ==
    /\ cache' = [cache EXCEPT ![p] = None]
    /\ tracker' = [tracker EXCEPT ![p] = None]
    /\ End({r \in Requests : home[r] = p}, "idle")
    /\ UNCHANGED durable

Load(r) ==
    \/ \E p \in Processes : Begin(r, p)
    \/ CacheHit(r) \/ CacheMiss(r) \/ Touch(r) \/ ReadRow(r)
    \/ ReadOpenTrades(r) \/ ReadClosedTrades(r) \/ ReadFills(r) \/ PutLoaded(r)

Finish(r) ==
    \/ Respond(r) \/ Change(r) \/ Commit(r) \/ RollBack(r) \/ Track(r) \/ PutSaved(r)
    \/ PopDeleted(r) \/ \E p \in Processes : Delete(r, p)

Next ==
    \/ \E r \in Requests : Load(r) \/ Finish(r)
    \/ \E p \in Processes : Evict(p) \/ Restart(p)

Spec == Init /\ [][Next]_vars

-----------------------------------------------------------------------------
(* Properties *)

\* The types of what is stored; memory holds session values or nothing.
TypeOK ==
    /\ row = None => table = << >> /\ ledger = << >>
    /\ row # None => row.revision \in 1 .. MaxRevision
    /\ \A k \in DOMAIN table :
         table[k] \in [id : 1 .. MaxTrades, status : {"open", "closed"}, stamp : Nat]
    /\ \A r \in Requests : (copy[r] = None) = (pc[r] \in {"idle", "failed", "lookup", "row", "deleted"})

\* The store implements the atomic session: every commit applies one operation
\* to the complete and latest history, although the request worked on a bounded
\* window that it may have read from four different commits or from a cache, and
\* although rows that look persisted are not written again.
ImplementsAtomicSession == Atomic!AtomicSpec

\* s stands for the stored session: the scalars, every open trade, a full
\* window of genuine closed trades and exactly the latest fills.
StandsForStored(s) ==
    LET closed == WithStatus(s.trades, "closed")
        stored == WithStatus(table, "closed")
    IN  /\ Scalars(s) = row
        /\ WithStatus(s.trades, "open") = WithStatus(table, "open")
        /\ Range(closed) \subseteq Range(stored)
        /\ Len(closed) = Len(Recent(stored, Window))
        /\ s.closedTotal = Len(stored)
        /\ s.fills = Recent(ledger, FillWindow)

\* A copy that mixes several commits is always out of date: whatever claims the
\* stored revision, in a cache or in a request about to answer or to change it,
\* is the stored session.  (It is what makes the compare-and-swap sufficient.)
CurrentCopiesAreExact ==
    LET current(s) == s # None /\ row # None /\ s.revision = row.revision
    IN  /\ \A p \in Processes : current(cache[p]) => StandsForStored(cache[p])
        /\ \A r \in Requests :
             pc[r] \in {"put", "loaded", "tracked"} /\ current(copy[r])
               => StandsForStored(copy[r])

\* The record of persisted rows never lets a save skip a row that is not there:
\* at the stored revision it names only rows that are stored as it says (beside
\* the types).
TrackerIsHonest ==
    /\ TypeOK
    /\ \A p \in Processes :
         tracker[p] # None /\ row # None /\ tracker[p].revision = row.revision =>
              /\ tracker[p].trades \subseteq Range(table)
              /\ tracker[p].fills \subseteq Range(ledger)

\* Paging on from the snapshot of a current copy, whose cursor is its oldest
\* closed trade when the window is truncated, reaches every closed trade.
HistoryIsReachable ==
    \A r \in Requests :
        pc[r] = "loaded" /\ row # None /\ copy[r].revision = row.revision =>
            LET closed == WithStatus(copy[r].trades, "closed")
                truncated == copy[r].closedTotal > Len(closed) /\ closed # << >>
                cursor == CHOOSE k \in DOMAIN table : table[k].id = closed[1].id
                pages == IF truncated THEN SubSeq(table, 1, cursor - 1) ELSE << >>
            IN  IdsOf(WithStatus(table, "closed"))
                  \subseteq IdsOf(closed) \cup IdsOf(pages)
=============================================================================
