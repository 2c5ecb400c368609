--------------------------- MODULE DatasetImport ---------------------------
(***************************************************************************)
(* The candles of one symbol (backend/app/market_data.py, repository.py    *)
(* publish_import, service.py create_session and session_bars): imports    *)
(* stage a version year by year, publish it by switching a pointer in one  *)
(* transaction and invalidate the caches; sessions pin the version that    *)
(* was current when they were created and read it through three LRUs.      *)
(*                                                                         *)
(* Imports and requests run in threads of one process.  A thread may lose  *)
(* the processor between any two dictionary operations, so an entry found  *)
(* by one step may be gone in the next.  The process may die at any time.  *)
(*                                                                         *)
(* A file is a stamp: 0 where there is none, 1 as an import wrote it.  The *)
(* files of the legacy dataset are replaced by a tool outside this code,   *)
(* which raises the stamp.  Every file holds one candle of the window.     *)
(***************************************************************************)
EXTENDS Sequences, SequencesExt, Listing

CONSTANTS
    Importers, Readers,     \* threads
    Sessions,
    Versions,               \* batch ids, one for each import there may be
    Legacy,                 \* data_version None: the unnumbered dataset
    Years,
    Source,                 \* the years in the file of each import
    Start,                  \* the year the sessions start in, and end in
    Limit,                  \* candles of context before the start
    Capacity,               \* of each cache
    MaxStamp,               \* bound: how often each legacy file is written
    Upgrades,               \* bound: the imports into an old installation
    None

Datasets == Versions \cup {Legacy}
Caches == {"scans", "bars", "sessions"}

\* What a session is given: the candles before its start, and those it replays.
Answer == [before : SUBSET (Years \X Nat), replay : SUBSET Years]

\* A file without candles is refused before anything is staged.
ASSUME DataAssumption ==
    /\ Legacy \notin Versions
    /\ None \notin Datasets /\ None \notin [Years -> Nat] /\ None \notin Answer
    /\ Years \subseteq Nat /\ IsFiniteSet(Years) /\ Start \in Years
    /\ Source \in [Versions -> (SUBSET Years) \ {{}}]
    /\ IsFiniteSet(Readers)
    /\ Capacity \in [Caches -> Nat \ {0}]
    /\ Upgrades \subseteq Versions
    /\ Limit \in Nat \ {0} /\ MaxStamp \in [Years -> Nat \ {0}]

VARIABLES
    files,     \* the stamp of each file of each dataset
    raw,       \* the versions whose source has been kept
    batches,   \* import_batches
    current,   \* symbols.data_version, None while the symbol is unknown
    pinned,    \* the dataset each session was created with
    import,    \* what each importing thread is doing
    begun,     \* the imports begun so far
    cache,     \* the LRUs: entries [key, value], least recently used first
    read       \* what each reading thread is doing

store == <<files, raw, batches, current, pinned>>
importing == <<import, begun>>
vars == <<store, importing, cache, read>>

\* The files of a complete version.
Whole(v) == [y \in Years |-> IF y \in Source[v] THEN 1 ELSE 0]
Missing == [y \in Years |-> 0]
Present(f) == {y \in Years : f[y] > 0}

(***************************************************************************)
(* An LRU.  get, move_to_end, assignment and the eviction loop are steps   *)
(* of their own in the actions below.                                      *)
(***************************************************************************)
Has(c, k) == \E i \in DOMAIN c : c[i].key = k
Entry(c, k) == c[CHOOSE i \in DOMAIN c : c[i].key = k]
Without(c, k) == RemoveAt(c, CHOOSE i \in DOMAIN c : c[i].key = k)
MovedToEnd(c, k) == Append(Without(c, k), Entry(c, k))

Assigned(c, k, v) ==
    IF Has(c, k) THEN [i \in DOMAIN c |-> IF c[i].key = k THEN [c[i] EXCEPT !.value = v] ELSE c[i]]
    ELSE Append(c, [key |-> k, value |-> v])

Evicted(c, cap) == IF Len(c) > cap THEN SubSeq(c, Len(c) - cap + 1, Len(c)) ELSE c

(***************************************************************************)
(* import_file                                                             *)
(***************************************************************************)
NoImport == [stage |-> "idle", version |-> None, keys |-> <<>>]

ImportAt(i, stage) == import[i].stage = stage
ImportGoes(i, stage) == import' = [import EXCEPT ![i].stage = stage]

\* The file was valid; a fresh batch id names the version directory.
BeginImport(i, v) ==
    /\ ImportAt(i, "idle")
    /\ v \notin begun
    /\ begun' = begun \cup {v}
    /\ import' = [import EXCEPT ![i] = [stage |-> "years", version |-> v, keys |-> Ascending(Source[v])]]
    /\ UNCHANGED <<store, cache, read>>

WriteYear(i) ==
    /\ ImportAt(i, "years")
    /\ files' = [files EXCEPT ![import[i].version][Head(import[i].keys)] = 1]
    /\ import' = [import EXCEPT ![i].keys = Tail(@),
                                ![i].stage = IF Len(import[i].keys) = 1 THEN "raw" ELSE "years"]
    /\ UNCHANGED <<raw, batches, current, pinned, begun, cache, read>>

CopyRaw(i) ==
    /\ ImportAt(i, "raw")
    /\ raw' = raw \cup {import[i].version}
    /\ ImportGoes(i, "publish")
    /\ UNCHANGED <<files, batches, current, pinned, begun, cache, read>>

PublishSeparately(i) ==
    /\ ImportAt(i, "publish")
    /\ batches' = batches \cup {import[i].version}
    /\ IF import[i].version \in batches
       THEN current' = import[i].version /\ ImportGoes(i, "list bars")
       ELSE UNCHANGED <<current, import>>
    /\ UNCHANGED <<files, raw, pinned, begun, cache, read>>

\* publish_import: the batch and the pointer in one transaction.
Publish(i) ==
    /\ ImportAt(i, "publish")
    /\ batches' = batches \cup {import[i].version}
    /\ current' = import[i].version
    /\ ImportGoes(i, "list bars")
    /\ UNCHANGED <<files, raw, pinned, begun, cache, read>>

\* Whatever fails up to the commit: the staged files and the raw copy go.
Fail(i) ==
    /\ import[i].stage \in {"years", "raw", "publish"}
    /\ import' = [import EXCEPT ![i].stage = "drop files", ![i].keys = <<>>]
    /\ UNCHANGED <<store, begun, cache, read>>

DropFiles(i) ==
    /\ ImportAt(i, "drop files")
    /\ files' = [files EXCEPT ![import[i].version] = Missing]
    /\ ImportGoes(i, "drop raw")
    /\ UNCHANGED <<raw, batches, current, pinned, begun, cache, read>>

DropRaw(i) ==
    /\ ImportAt(i, "drop raw")
    /\ raw' = raw \ {import[i].version}
    /\ import' = [import EXCEPT ![i] = NoImport]
    /\ UNCHANGED <<files, batches, current, pinned, begun, cache, read>>

(***************************************************************************)
(* invalidate_bars: the keys of the bars are listed and deleted one by     *)
(* one, then those of the scans.  A key another thread has removed raises  *)
(* KeyError, and the import answers with an error although it published.   *)
(***************************************************************************)
Invalidating == [bars |-> [list |-> "list bars", drop |-> "drop bars"],
                 scans |-> [list |-> "list scans", drop |-> "drop scans"]]

\* Leaves the listing or deleting of c, with keys yet to delete.
Onward(i, c, keys) ==
    import' = [import EXCEPT ![i] =
                 IF keys # <<>> THEN [@ EXCEPT !.stage = Invalidating[c].drop, !.keys = keys]
                 ELSE IF c = "scans" THEN NoImport
                 ELSE [@ EXCEPT !.stage = Invalidating["scans"].list, !.keys = <<>>]]

ListKeys(i, c) ==
    /\ ImportAt(i, Invalidating[c].list)
    /\ Onward(i, c, [n \in DOMAIN cache[c] |-> cache[c][n].key])
    /\ UNCHANGED <<store, begun, cache, read>>

DropKeyInsideTry(i, c) ==
    /\ ImportAt(i, Invalidating[c].drop)
    /\ IF Has(cache[c], Head(import[i].keys))
       THEN /\ cache' = [cache EXCEPT ![c] = Without(@, Head(import[i].keys))]
            /\ Onward(i, c, Tail(import[i].keys))
       ELSE /\ ImportGoes(i, "drop files")
            /\ UNCHANGED cache
    /\ UNCHANGED <<store, begun, read>>

DropKey(i, c) ==
    /\ ImportAt(i, Invalidating[c].drop)
    /\ IF Has(cache[c], Head(import[i].keys))
       THEN /\ cache' = [cache EXCEPT ![c] = Without(@, Head(import[i].keys))]
            /\ Onward(i, c, Tail(import[i].keys))
       ELSE /\ import' = [import EXCEPT ![i] = NoImport]
            /\ UNCHANGED cache
    /\ UNCHANGED <<store, begun, read>>

(***************************************************************************)
(* Requests.  create_session reads the pointer, counts the candles of the  *)
(* range, saves the session and answers with its state; every request on   *)
(* a session reads its bars.  What session_bars does is a row of lookups:  *)
(* the signature; the session's own entry, kept under that signature; and  *)
(* if it is of no use, the context with a scan of its own, the range with  *)
(* another, and a new entry.                                               *)
(***************************************************************************)
Following ==
    [size |-> "count", count |-> "signature",    \* of a new session only
     signature |-> "entry", entry |-> "scan", scan |-> "bars", bars |-> "range", range |-> "keep"]

NoRead ==
    [step |-> "idle", doing |-> "nothing", session |-> None, set |-> None,
     found |-> Missing,       \* the files the latest scan found
     signature |-> Missing,   \* the files the first scan found
     bars |-> {},             \* the context read so far
     todo |-> {},             \* the years of it not read yet
     candles |-> None,        \* what the session is given
     since |-> Missing]       \* the legacy files when the request began

\* The years of the context, newest first, and what a session reads of some files.
Newest(f) ==
    {y \in Present(f) : /\ y < Start
                        /\ Cardinality({z \in Present(f) : y < z /\ z < Start}) < Limit}
InRange(f) == Present(f) \cap {Start}
CandlesOf(f) == [before |-> {<<y, f[y]>> : y \in Newest(f)}, replay |-> InRange(f)]

At(r, step) == read[r].step = step
Doing(r) == read[r].doing

\* The cache, the key and the value of what a request is doing.
CacheOf(r) ==
    CASE Doing(r) \in {"size", "signature", "scan", "range"} -> "scans"
      [] Doing(r) = "bars" -> "bars"
      [] Doing(r) \in {"entry", "keep"} -> "sessions"

KeyOf(r) ==
    CASE CacheOf(r) = "scans" -> read[r].set
      [] CacheOf(r) = "bars" -> <<read[r].set, read[r].found>>
      [] CacheOf(r) = "sessions" -> read[r].session

ValueOf(r) ==
    CASE CacheOf(r) = "scans" -> read[r].found
      [] CacheOf(r) = "bars" -> read[r].bars
      [] CacheOf(r) = "sessions" ->
            [set |-> read[r].set, signature |-> read[r].signature,
             candles |-> [before |-> read[r].bars, replay |-> InRange(read[r].found)]]

\* A request goes on; once it has candles, it is answered.
Onwards(q) ==
    IF q.candles # None THEN NoRead
    ELSE [q EXCEPT !.doing = Following[q.doing],
                   !.step = CASE q.doing = "size" -> "count"
                              [] q.doing = "range" -> "insert"
                              [] OTHER -> "get",
                   !.found = IF q.doing \in {"size", "scan", "range"} THEN @ ELSE Missing,
                   !.signature = IF q.doing = "signature" THEN q.found ELSE @]

Proceed(r) == read' = [read EXCEPT ![r] = Onwards(@)]

\* KeyError, or a refusal: the request is answered with an error.
Refuse(r) == read' = [read EXCEPT ![r] = NoRead]

Begin(r, s, d, first) ==
    read' = [read EXCEPT ![r] = [NoRead EXCEPT !.step = "get", !.doing = first, !.session = s,
                                               !.set = d,
                                               !.since = IF d = Legacy THEN files[d] ELSE Missing]]

\* A new session: its id is fresh, and its dataset is the one that is current now.
CreateSession(r, s) ==
    /\ At(r, "idle")
    /\ current # None
    /\ pinned[s] = None /\ \A q \in Readers : read[q].session # s
    /\ Begin(r, s, current, "size")
    /\ UNCHANGED <<store, importing, cache>>

LoadSession(r, s) ==
    /\ At(r, "idle")
    /\ pinned[s] # None
    /\ Begin(r, s, pinned[s], "signature")
    /\ UNCHANGED <<store, importing, cache>>

CountRange(r) ==
    /\ At(r, "count")
    /\ IF InRange(read[r].found) # {}
       THEN /\ pinned' = [pinned EXCEPT ![read[r].session] = read[r].set]
            /\ Proceed(r)
       ELSE /\ Refuse(r)
            /\ UNCHANGED pinned
    /\ UNCHANGED <<files, raw, batches, current, importing, cache>>

HitAnySignature(r) == Has(cache[CacheOf(r)], KeyOf(r))

\* A session's entry serves the signature it was kept under.
Hit(r) ==
    /\ Has(cache[CacheOf(r)], KeyOf(r))
    /\ Doing(r) = "entry" =>
          LET e == Entry(cache["sessions"], KeyOf(r)).value
          IN  e.set = read[r].set /\ e.signature = read[r].signature

Found(r) ==
    /\ At(r, "get")
    /\ Hit(r)
    /\ LET v == Entry(cache[CacheOf(r)], KeyOf(r)).value
       IN  read' = [read EXCEPT ![r] = CASE CacheOf(r) = "scans" -> [@ EXCEPT !.step = "touch", !.found = v]
                                         [] CacheOf(r) = "bars" -> [@ EXCEPT !.step = "touch", !.bars = v]
                                         [] OTHER -> [@ EXCEPT !.step = "touch", !.candles = v.candles]]
    /\ UNCHANGED <<store, importing, cache>>

NotFound(r) ==
    /\ At(r, "get")
    /\ ~Hit(r)
    /\ CASE CacheOf(r) = "scans" -> read' = [read EXCEPT ![r].step = "scan"]
         [] CacheOf(r) = "bars" ->
               read' = [read EXCEPT ![r].step = "read",
                                    ![r].todo = {y \in Present(read[r].found) : y < Start}]
         [] OTHER -> Proceed(r)
    /\ UNCHANGED <<store, importing, cache>>

\* _scan_partitions.  Only a scan of a version that finds files is kept.
Kept(d, f) == d # Legacy /\ Present(f) # {}

ScanPartitions(r) ==
    /\ At(r, "scan")
    /\ LET after == [read[r] EXCEPT !.found = files[read[r].set]]
       IN  read' = [read EXCEPT ![r] = IF Kept(after.set, after.found)
                                       THEN [after EXCEPT !.step = "insert"]
                                       ELSE Onwards(after)]
    /\ UNCHANGED <<store, importing, cache>>

\* load_bars_before: the newest file not read yet, until the limit is reached.
ReadFile(r) ==
    /\ At(r, "read")
    /\ LET q == read[r]
           newest == {y \in q.todo : \A z \in q.todo : z <= y}
           bars == q.bars \cup {<<y, files[q.set][y]>> : y \in newest}
           left == IF Cardinality(bars) >= Limit THEN {} ELSE q.todo \ newest
       IN  read' = [read EXCEPT ![r].bars = bars, ![r].todo = left,
                                ![r].step = IF left = {} THEN "insert" ELSE "read"]
    /\ UNCHANGED <<store, importing, cache>>

\* The assignment; with the session's entry go the context and a new RangeBars.
Insert(r) ==
    /\ At(r, "insert")
    /\ cache' = [cache EXCEPT ![CacheOf(r)] = Assigned(@, KeyOf(r), ValueOf(r))]
    /\ read' = [read EXCEPT ![r].step = "settle",
                            ![r].candles = IF Doing(r) = "keep" THEN ValueOf(r).candles ELSE None]
    /\ UNCHANGED <<store, importing>>

\* move_to_end after a hit; move_to_end and the evictions after an insertion.
Settled(r, c) ==
    IF At(r, "touch") THEN MovedToEnd(c, KeyOf(r))
    ELSE Evicted(MovedToEnd(c, KeyOf(r)), Capacity[CacheOf(r)])

Touch(r) ==
    /\ read[r].step \in {"touch", "settle"}
    /\ Has(cache[CacheOf(r)], KeyOf(r))
    /\ cache' = [cache EXCEPT ![CacheOf(r)] = Settled(r, @)]
    /\ Proceed(r)
    /\ UNCHANGED <<store, importing>>

TouchNothing(r) ==
    /\ read[r].step \in {"touch", "settle"}
    /\ ~Has(cache[CacheOf(r)], KeyOf(r))
    /\ Refuse(r)
    /\ UNCHANGED <<store, importing, cache>>

(***************************************************************************)
(* Outside of the code: legacy files replaced, the process killed.         *)
(***************************************************************************)
ReplaceLegacyFile(y) ==
    /\ \E n \in Years : files[Legacy][n] > 0
    /\ files[Legacy][y] < MaxStamp[y]
    /\ files' = [files EXCEPT ![Legacy][y] = @ + 1]
    /\ UNCHANGED <<raw, batches, current, pinned, importing, cache, read>>

Restart ==
    /\ import' = [i \in Importers |-> NoImport]
    /\ cache' = [c \in Caches |-> <<>>]
    /\ read' = [r \in Readers |-> NoRead]
    /\ UNCHANGED <<store, begun>>

\* A new installation, or one from before versions.
Init ==
    /\ \/ current = None /\ files = [d \in Datasets |-> Missing] /\ begun = {}
       \/ /\ current = Legacy /\ begun = Versions \ Upgrades
          /\ files = [d \in Datasets |-> [y \in Years |-> IF d = Legacy THEN 1 ELSE 0]]
    /\ raw = {} /\ batches = {}
    /\ pinned = [s \in Sessions |-> None]
    /\ import = [i \in Importers |-> NoImport]
    /\ cache = [c \in Caches |-> <<>>]
    /\ read = [r \in Readers |-> NoRead]

Import(i) ==
    \/ \E v \in Versions : BeginImport(i, v)
    \/ WriteYear(i) \/ CopyRaw(i) \/ Publish(i)
    \/ Fail(i) \/ DropFiles(i) \/ DropRaw(i)
    \/ \E c \in DOMAIN Invalidating : ListKeys(i, c) \/ DropKey(i, c)

Request(r) ==
    \/ \E s \in Sessions : CreateSession(r, s) \/ LoadSession(r, s)
    \/ CountRange(r) \/ Found(r) \/ NotFound(r) \/ ScanPartitions(r) \/ ReadFile(r)
    \/ Insert(r) \/ Touch(r) \/ TouchNothing(r)

Next ==
    \/ \E i \in Importers : Import(i)
    \/ \E r \in Readers : Request(r)
    \/ \E y \in Years : ReplaceLegacyFile(y)
    \/ Restart

Spec == Init /\ [][Next]_vars

(***************************************************************************)
(* Properties                                                              *)
(***************************************************************************)
Stamped ==
    {f \in [Years -> UNION {0 .. MaxStamp[y] : y \in Years}] : \A y \in Years : f[y] <= MaxStamp[y]}

\* The types.  A cache holds no more than its capacity and the insertions under
\* way: one whose key was removed under it leaves no excess behind.
TypeOK ==
    /\ files \in [Datasets -> Stamped]
    /\ raw \subseteq Versions /\ batches \subseteq begun /\ begun \subseteq Versions
    /\ current \in Datasets \cup {None}
    /\ pinned \in [Sessions -> Datasets \cup {None}]
    /\ \A i \in Importers :
          /\ import[i].version \in begun \cup {None}
          /\ import[i].stage = "idle" <=> import[i].version = None
    /\ \A r \in Readers :
          /\ read[r].set \in Datasets \cup {None} /\ read[r].session \in Sessions \cup {None}
          /\ {read[r].found, read[r].signature, read[r].since} \subseteq Stamped
          /\ At(r, "idle") <=> read[r].doing = "nothing"
    /\ \A c \in Caches :
          Len(cache[c]) <= Capacity[c]
                           + Cardinality({r \in Readers : At(r, "settle") /\ CacheOf(r) = c})

\* A version that is current, recorded or pinned by a session has every file of
\* its import and the copy of its source, and every scan that has been kept of a
\* version found all of it, whatever was interrupted, failed or cleaned up beside
\* it (import_file, publish_import, _cached_scan).  The types come first.
InUse(v) == v = current \/ v \in batches \/ \E s \in Sessions : pinned[s] = v
VersionsStayWhole ==
    /\ TypeOK
    /\ \A v \in Versions : InUse(v) => files[v] = Whole(v) /\ v \in raw
    /\ \A n \in DOMAIN cache["scans"] : cache["scans"][n].value = Whole(cache["scans"][n].key)

\* What a session is given of a version is what the import published, though it
\* went through three caches; of the legacy dataset it is never older, file by
\* file, than the disk was when the request began (_cached_scan, session_bars).
AnswersAreExact ==
    \A r \in Readers :
       read[r].candles # None =>
          IF read[r].set \in Versions THEN read[r].candles = CandlesOf(Whole(read[r].set))
          ELSE \E f \in Stamped :
                  /\ \A y \in Years : read[r].since[y] <= f[y] /\ f[y] <= files[Legacy][y]
                  /\ read[r].candles = CandlesOf(f)

Contents == [v \in Versions |-> Whole(v)]

\* The files of a version count once its batch is recorded.
Data ==
    INSTANCE VersionedData WITH
        holds <- [d \in Datasets |-> IF d = Legacy \/ d \in batches THEN files[d] ELSE None],
        LegacyContents <- Stamped

\* Imports that are staged, fail, are cleaned up or die at any step, and sessions
\* created meanwhile, implement the store in which datasets appear whole and never
\* change (docs/architecture.md, data publication and session durability).
ImplementsVersionedData == Data!Spec
=============================================================================
