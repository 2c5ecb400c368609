----------------------------- MODULE ClientStore -----------------------------
(***************************************************************************)
(* The replay store of the browser (frontend/src/store.ts) against the     *)
(* server: one tab that opens sessions, mutates them, reconciles, pages    *)
(* back through history and leaves, while its requests are answered late,  *)
(* in any order, with an error or not at all as far as it can tell, and    *)
(* other tabs change or delete the same sessions.                          *)
(*                                                                         *)
(* The history is the fill ledger of a session: its records are numbered   *)
(* in the order the server inserts and lists them.  The closed trades go   *)
(* through the same code with the same loading flag and generation, but    *)
(* the server lists them by entry and not by close: what that does to them *)
(* is the subject of SessionStore.  Everything between two awaits is one   *)
(* action; a read of the server is two, since it loads the row of the      *)
(* session and its fills with SELECTs of which each sees the latest commit,*)
(* so that a snapshot may be a mixture of revisions.                       *)
(***************************************************************************)
EXTENDS Integers, FiniteSets, Sequences, SequencesExt

CONSTANTS
    Sessions,     \* session ids
    Batches,      \* how many fills a mutation may add
    Window,       \* RECENT_FILLS_LIMIT
    Page,         \* limit of a history page
    MaxRevision,  \* bound: server revisions
    MaxCalls,     \* bound: requests in flight
    MaxActions,   \* bound: actions of one page visit
    MaxLoads,     \* bound: snapshots and history loads of one page visit before the last
    None

Failures == {"gone", "error", "conflict"}

Snapshots ==
    [type : {"snapshot"}, id : Sessions, revision : Nat \ {0}, window : Seq(Nat), total : Nat,
     made : {"whole", "mixed"}]
Updates ==
    [type : {"update"}, id : Sessions, revision : Nat \ {0}, new : Seq(Nat), total : Nat]
Pages == [type : {"page"}, items : Seq(Nat), next : Nat \cup {None}]
Replies == Snapshots \cup Updates \cup Pages \cup [type : Failures]
Installed ==
    [id : Sessions, revision : Nat \ {0}, window : Seq(Nat), total : Nat,
     made : {"whole", "mixed", "merged"}]

ASSUME ClientAssumption ==
    /\ Batches \subseteq Nat
    /\ Window \in Nat \ {0} /\ Page \in Nat \ {0}
    /\ MaxRevision \in Nat /\ MaxCalls \in Nat
    /\ MaxActions \in Nat /\ MaxLoads \in Nat
    /\ None \notin Nat \cup Seq(Nat) \cup Sessions \cup Replies \cup Installed

VARIABLES
    server,      \* server[s][v]: how many fills session s had at revision v;
                 \* None at the end: it was deleted
    saved,       \* localStorage, of every tab: the session to restore
    replay,      \* the installed snapshot: [id, revision, window, total, made]
    older,       \* paged or evicted records, newest first
    cursor,      \* where the next page starts
    loading,     \* historyLoading
    busy, restoring,
    actions,     \* actionGeneration
    loads,       \* historyLoadGeneration
    calls        \* requests in flight

view == <<replay, older, cursor, loading>>
vars == <<server, saved, view, busy, restoring, actions, loads, calls>>

\* The elements of a sequence that are not in S, in their order.
Without(seq, S) ==
    LET kept == {i \in DOMAIN seq : seq[i] \notin S}
    IN  [k \in 1 .. Cardinality(kept) |->
            seq[CHOOSE i \in kept : Cardinality({j \in kept : j < i}) = k - 1]]

-----------------------------------------------------------------------------
(* The server: what the endpoints answer *)

Recent(n, k) == [i \in 1 .. (IF n < k THEN n ELSE k) |-> i + (IF n < k THEN 0 ELSE n - k)]

Deleted(s) == Last(server[s]) = None
RecordsOf(s) == Last(server[s])
\* What a SELECT finds of n fills, nothing once the session is deleted.
Found(n) == IF n = None THEN 0 ELSE n

\* The totals of a load that found so many fills in its window and counts them as
\* counted: the one the row carries, unless it carries none (a row without totals)
\* or nothing was found any more; never less than the fills at hand.
Totals(carried, found, counted) ==
    LET loaded == IF found = 0 THEN {0, carried}
                  ELSE {IF carried = 0 THEN counted ELSE carried}
    IN  {IF n < found THEN found ELSE n : n \in loaded}

\* The row read at one revision, the fills at another, maybe later one.
\* made (nothing reads it): whether the snapshot is the state of its revision.
SnapshotOf(s, row, window, total) ==
    [type |-> "snapshot", id |-> s, revision |-> row, window |-> window, total |-> total,
     made |-> IF total = server[s][row] /\ window = Recent(total, Window)
                THEN "whole" ELSE "mixed"]

UpdateOf(s, n) ==
    [type |-> "update", id |-> s, revision |-> Len(server[s]) + 1,
     new |-> [i \in 1 .. n |-> RecordsOf(s) + i], total |-> RecordsOf(s) + n]

\* Newest first, strictly before the cursor; a next cursor only if more follow.
\* A session deleted since the cursor was found has no records to page.
EmptyPage == [type |-> "page", items |-> << >>, next |-> None]
PageOf(before) ==
    LET items == Reverse(Recent(before - 1, Page))
    IN  [type |-> "page", items |-> items,
         next |-> IF before - 1 > Page THEN Last(items) ELSE None]

Failure(type) == [type |-> type]

Mutated(s, n) == [server EXCEPT ![s] = Append(@, RecordsOf(s) + n)]
CanMutate(s) == ~Deleted(s) /\ Len(server[s]) < MaxRevision

-----------------------------------------------------------------------------
(* The store *)

Init ==
    /\ server \in [Sessions -> {<<0>>}]
    /\ saved \in Sessions \cup {None}
    /\ replay = None /\ older = << >> /\ cursor = None /\ loading = FALSE
    /\ busy = FALSE /\ restoring = FALSE
    /\ actions = 0 /\ loads = 0
    /\ calls = {}

\* generation: the action or load generation the caller took before its await;
\* of a refresh, that of the action which waits for it (None: nobody waits).
\* row: the revision of the session row the server has read for it.
Call(kind, s, generation, at) ==
    [kind |-> kind, session |-> s, generation |-> generation, at |-> at, row |-> None,
     reply |-> None]

InstallSnapshot(x) ==
    /\ loads' = loads + 1
    /\ saved' = x.id
    /\ replay' = [id |-> x.id, revision |-> x.revision, window |-> x.window, total |-> x.total,
                  made |-> x.made]
    /\ older' = << >>
    /\ cursor' = IF x.total > Len(x.window) /\ x.window # << >> THEN x.window[1] ELSE None
    /\ loading' = FALSE

\* mergeUpdate and prependEvicted: the records pushed out of the window become
\* the newest of the older ones.
Merge(x) ==
    LET fresh == Without(x.new, Range(replay.window))
        all == replay.window \o fresh
        overflow == IF Len(all) > Window THEN Len(all) - Window ELSE 0
        evicted == Reverse(SubSeq(all, 1, overflow))
    IN  /\ replay' = [replay EXCEPT !.revision = x.revision, !.total = x.total,
                                    !.window = SubSeq(all, overflow + 1, Len(all)),
                                    !.made = IF @ = "whole" THEN @ ELSE "merged"]
        /\ older' = evicted \o Without(older, Range(evicted))
        /\ UNCHANGED <<cursor, loading, loads, saved>>

Begin(call) ==
    /\ Cardinality(calls) < MaxCalls
    /\ calls' = calls \cup {call}

(* What the user starts.  While a session is restored nothing else is shown. *)

\* App, once per page load.
RestoreSavedSession ==
    /\ ~restoring /\ saved # None /\ replay = None /\ actions = 0 /\ calls = {}
    /\ Begin(Call("restore", saved, None, None))
    /\ restoring' = TRUE
    /\ UNCHANGED <<server, saved, view, busy, actions, loads>>

\* Resume and create from the setup panel, mutations from the workspace.
Action(kind, s) ==
    /\ ~busy /\ ~restoring /\ actions < MaxActions
    /\ IF kind = "open" THEN replay = None
       ELSE replay # None /\ replay.id = s
    /\ Begin(Call(kind, s, actions + 1, None))
    /\ actions' = actions + 1
    /\ busy' = TRUE
    /\ UNCHANGED <<server, saved, view, restoring, loads>>

LoadOlder ==
    /\ ~restoring /\ replay # None /\ cursor # None /\ ~loading
    /\ loads < MaxLoads
    /\ Begin(Call("page", replay.id, loads + 1, cursor))
    /\ loads' = loads + 1
    /\ loading' = TRUE
    /\ UNCHANGED <<server, saved, replay, older, cursor, busy, restoring, actions>>

LeaveBusy ==
    /\ ~restoring /\ replay # None
    /\ actions' = actions + 1 /\ loads' = loads + 1
    /\ saved' = None
    /\ replay' = None /\ older' = << >> /\ cursor' = None /\ loading' = FALSE
    /\ UNCHANGED <<server, busy, restoring, calls>>

Leave ==
    /\ ~restoring /\ replay # None
    /\ actions' = actions + 1 /\ loads' = loads + 1
    /\ saved' = None
    /\ replay' = None /\ older' = << >> /\ cursor' = None /\ loading' = FALSE
    /\ busy' = FALSE
    /\ UNCHANGED <<server, restoring, calls>>

(* The server and the network *)

Answered(c, reply) == calls' = (calls \ {c}) \cup {[c EXCEPT !.reply = reply]}

Reads == {"open", "restore", "refresh", "page"}

\* get_state: the row, before the fills (or, in the cache, what was read with it).
ReadRow(c) ==
    /\ c.reply = None /\ c.row = None /\ c.kind \in Reads /\ ~Deleted(c.session)
    /\ calls' = (calls \ {c}) \cup {[c EXCEPT !.row = Len(server[c.session])]}
    /\ UNCHANGED <<server, saved, view, busy, restoring, actions, loads>>

Serve(c) ==
    LET s == c.session
        held == server[s]
    IN  /\ c.reply = None
        /\ \/ /\ c.row = None /\ Deleted(s)
              /\ Answered(c, Failure("gone"))
              /\ UNCHANGED server
           \/ /\ c.row # None /\ c.kind # "page"
              /\ \E fills \in c.row .. Len(held) : \E count \in fills .. Len(held) :
                   LET window == Recent(Found(held[fills]), Window)
                   IN  \E total \in Totals(held[c.row], Len(window), Found(held[count])) :
                         Answered(c, SnapshotOf(s, c.row, window, total))
              /\ UNCHANGED server
           \/ /\ c.row # None /\ c.kind = "page"
              /\ \/ Answered(c, PageOf(c.at))
                 \/ Deleted(s) /\ Answered(c, EmptyPage)
              /\ UNCHANGED server
           \/ /\ c.kind = "mutate" /\ CanMutate(s)
              /\ \E n \in Batches :
                   /\ Answered(c, UpdateOf(s, n))
                   /\ server' = Mutated(s, n)
        /\ UNCHANGED <<saved, view, busy, restoring, actions, loads>>

\* The save of the request met one of another tab's (409).
ServeConflict(c) ==
    /\ c.reply = None /\ c.kind = "mutate"
    /\ Answered(c, Failure("conflict"))
    /\ UNCHANGED <<server, saved, view, busy, restoring, actions, loads>>

\* Lost on the way there, on the way back (the server did its work), or refused.
Lose(c) ==
    /\ c.reply # Failure("error")
    /\ Answered(c, Failure("error"))
    /\ UNCHANGED <<server, saved, view, busy, restoring, actions, loads>>

MutateElsewhere(s) ==
    /\ CanMutate(s)
    /\ \E n \in Batches : server' = Mutated(s, n)
    /\ UNCHANGED <<saved, view, busy, restoring, actions, loads, calls>>

DeleteElsewhere(s) ==
    /\ ~Deleted(s)
    /\ server' = [server EXCEPT ![s] = Append(@, None)]
    /\ UNCHANGED <<saved, view, busy, restoring, actions, loads, calls>>

\* Another tab installs a snapshot, leaves, or deletes the session it saved.
SaveElsewhere ==
    /\ saved' \in Sessions \cup {None}
    /\ UNCHANGED <<server, view, busy, restoring, actions, loads, calls>>

(* What the store does with an answer *)

Answers(c, kinds, types) ==
    IF c.reply = None THEN FALSE ELSE c.kind \in kinds /\ c.reply.type \in types
\* busy ends with the action, unless a newer one or a leave took over.
EndAction(generation) == busy' = IF generation = actions THEN FALSE ELSE busy

Restored(c) ==
    /\ Answers(c, {"restore"}, {"snapshot", "gone", "error"})
    /\ IF c.reply.type = "snapshot" THEN InstallSnapshot(c.reply)
       ELSE /\ saved' = IF c.reply.type = "gone" THEN None ELSE saved
            /\ UNCHANGED <<view, loads>>
    /\ restoring' = FALSE
    /\ calls' = calls \ {c}
    /\ UNCHANGED <<server, busy, actions>>

\* The generation check of action: an answer nobody waits for is dropped.
Dropped(c) ==
    /\ Answers(c, {"open", "mutate"}, {"snapshot", "update"} \cup Failures)
    /\ c.generation # actions
    /\ calls' = calls \ {c}
    /\ UNCHANGED <<server, saved, view, busy, restoring, actions, loads>>

Current(c, kinds, types) == Answers(c, kinds, types) /\ c.generation = actions

Resumed(c) ==
    /\ Current(c, {"open"}, {"snapshot"})
    /\ InstallSnapshot(c.reply)
    /\ EndAction(c.generation)
    /\ calls' = calls \ {c}
    /\ UNCHANGED <<server, restoring, actions>>

FollowsAnySession(x) == x.revision = replay.revision + 1
FollowsAtAnyRevision(x) == x.id = replay.id

\* classifyUpdate, and the session check of applyUpdate.
Stale(x) == x.revision <= replay.revision
Follows(x) == x.revision = replay.revision + 1 /\ x.id = replay.id

\* applyUpdate on the installed revision: stale updates are ignored, the next
\* one is merged.
Applied(c) ==
    /\ Current(c, {"mutate"}, {"update"}) /\ replay # None
    /\ \/ Stale(c.reply) /\ UNCHANGED <<saved, view, loads>>
       \/ Follows(c.reply) /\ Merge(c.reply)
    /\ EndAction(c.generation)
    /\ calls' = calls \ {c}
    /\ UNCHANGED <<server, restoring, actions>>

\* refreshReplay for a gap, or for another session's update: the action waits.
Gap(c) ==
    /\ Current(c, {"mutate"}, {"update"}) /\ replay # None
    /\ ~Stale(c.reply) /\ ~Follows(c.reply)
    /\ calls' = (calls \ {c}) \cup {Call("refresh", replay.id, c.generation, None)}
    /\ UNCHANGED <<server, saved, view, busy, restoring, actions, loads>>

\* 409: the action is over at once, and the session is fetched again.
Conflicted(c) ==
    /\ Current(c, {"mutate"}, {"conflict"})
    /\ busy' = FALSE
    /\ calls' = (calls \ {c}) \cup
                (IF replay = None THEN {} ELSE {Call("refresh", replay.id, None, None)})
    /\ UNCHANGED <<server, saved, view, restoring, actions, loads>>

Failed(c) ==
    /\ Current(c, {"open", "mutate"}, {"gone", "error"})
    /\ busy' = FALSE
    /\ calls' = calls \ {c}
    /\ UNCHANGED <<server, saved, view, restoring, actions, loads>>

\* refreshReplay installs whatever snapshot it is answered with.
Refreshed(c) ==
    /\ Answers(c, {"refresh"}, {"snapshot", "gone", "error"})
    /\ IF c.reply.type = "snapshot" THEN InstallSnapshot(c.reply)
       ELSE UNCHANGED <<saved, view, loads>>
    /\ EndAction(c.generation)
    /\ calls' = calls \ {c}
    /\ UNCHANGED <<server, restoring, actions>>

AnyLoad(c) == replay # None

\* The generation check of the history loads.
CurrentLoad(c) == c.generation = loads

PageLoaded(c) ==
    /\ Answers(c, {"page"}, {"page", "gone", "error"})
    /\ IF CurrentLoad(c)
         THEN /\ loading' = FALSE
              /\ IF c.reply.type # "page" THEN UNCHANGED <<older, cursor>>
                 ELSE LET known == Range(replay.window) \cup Range(older)
                      IN  /\ older' = older \o Without(c.reply.items, known)
                          /\ cursor' = c.reply.next
         ELSE UNCHANGED <<older, cursor, loading>>
    /\ calls' = calls \ {c}
    /\ UNCHANGED <<server, saved, replay, busy, restoring, actions, loads>>

Receive(c) ==
    \/ Restored(c) \/ Dropped(c) \/ Resumed(c) \/ Applied(c) \/ Gap(c)
    \/ Conflicted(c) \/ Failed(c) \/ Refreshed(c) \/ PageLoaded(c)

Next ==
    \/ RestoreSavedSession
    \/ \E kind \in {"open", "mutate"}, s \in Sessions : Action(kind, s)
    \/ LoadOlder \/ Leave
    \/ \E c \in calls : ReadRow(c) \/ Serve(c) \/ ServeConflict(c) \/ Lose(c) \/ Receive(c)
    \/ \E s \in Sessions : MutateElsewhere(s) \/ DeleteElsewhere(s)
    \/ SaveElsewhere

Spec == Init /\ [][Next]_vars

-----------------------------------------------------------------------------
(* Properties *)

\* The types of the store; its window never outgrows the server's bound.
TypeOK ==
    /\ saved \in Sessions \cup {None}
    /\ \A c \in calls : c.row # None => c.kind \in Reads
    /\ replay # None =>
         /\ replay.id \in Sessions /\ replay.revision \in Nat \ {0}
         /\ Len(replay.window) <= Window
    /\ replay = None => older = << >> /\ cursor = None
    /\ {busy, restoring, loading} \subseteq BOOLEAN

\* However updates, conflicts, gaps, late answers and other tabs' changes
\* interleave, what is installed is what the server had at that revision: the
\* total and the window a load between two commits finds.  A load that commits
\* ran into shows the window of a later revision, with a total of its own, until
\* the next snapshot.
InstalledStateIsTrue ==
    LET held == server[replay.id]
        revision == replay.revision
    IN  replay # None =>
          /\ revision \in DOMAIN held
          /\ replay.made = "whole" =>
               replay.total = held[revision] /\ replay.window = Recent(replay.total, Window)
          /\ replay.made = "mixed" =>
               \E fills, count \in DOMAIN held :
                 /\ revision <= fills /\ fills <= count
                 /\ replay.window = Recent(Found(held[fills]), Window)
                 /\ replay.total \in Totals(held[revision], Len(replay.window), Found(held[count]))
          /\ replay.made = "merged" => replay.total = held[revision]

\* The history on screen has no hole, no duplicate and no misplaced record: the
\* older records and the window are one run up to the newest, and it starts where
\* the next page ends, even when records were evicted from the window while a
\* page was on its way; when there is no next page it starts at the first record,
\* unless the load was mixed or the session is gone.  Nothing is said once an
\* update is merged into a mixed load, which may have been read after it.
HistoryIsContiguous ==
    LET shown == Reverse(older) \o replay.window
        newest == IF replay.window = << >> THEN 0 ELSE Last(replay.window)
        From(first) == shown = [k \in 1 .. newest - first + 1 |-> first + k - 1]
    IN  replay # None =>
          \/ replay.made = "merged"
          \/ cursor # None /\ From(cursor)
          \/ cursor = None /\ From(1)
          \/ /\ cursor = None /\ (replay.made = "mixed" \/ Deleted(replay.id))
             /\ \E first \in 1 .. newest + 1 : From(first)

\* No spinner turns for nothing: whatever disables the workspace is waiting for
\* a request whose answer will end it (beside the types).
SpinnersEnd ==
    /\ TypeOK
    /\ busy => \E c \in calls :
         c.kind \in {"open", "mutate", "refresh"} /\ c.generation = actions
    /\ loading => \E c \in calls : c.kind = "page" /\ c.generation = loads
    /\ restoring => \E c \in calls : c.kind = "restore"

\* From the setup screen a session appears only while one is being opened or
\* restored: nothing a left session still had in flight brings it back.
SetupStaysPut ==
    [][replay = None /\ replay' # None => busy \/ restoring]_vars

\* While a session stays on screen its revision moves back only by a snapshot,
\* that of a refresh or of a resume whose generation nothing checks against what
\* was installed since: no update is ever merged into something newer.
UpdatesNeverGoBack ==
    [][(replay # None /\ replay' # None /\ replay'.id = replay.id
          /\ replay'.revision < replay.revision)
         => \E c \in calls \ calls' : c.reply.type = "snapshot"]_vars
=============================================================================
