----------------------------- MODULE Downloader ------------------------------
(***************************************************************************)
(* The Dukascopy downloader (tools/dukascopy_downloader): runs of one      *)
(* export, each fetching its source periods through a cache on disk,       *)
(* parsing and validating them, and publishing a quality report, the CSV   *)
(* and its manifest as three files, one after another.  A run may die at   *)
(* any step.  Runs of one export follow one another.                       *)
(*                                                                         *)
(* A payload is whole (it has records up to the last bar of its period),   *)
(* early (well-formed, but fetched before the source had them), damaged as *)
(* delivered, or torn, that is written in part.                            *)
(***************************************************************************)
EXTENDS Naturals, FiniteSets

CONSTANTS
    Periods,     \* the source periods of the export
    Open,        \* those the catalog expects the market to be open in
    Retries,     \* --retries
    MaxRuns,     \* bound: runs
    None

ASSUME DownloaderAssumption ==
    /\ IsFiniteSet(Periods) /\ Open \subseteq Periods
    /\ Retries \in Nat \ {0} /\ MaxRuns \in Nat
    /\ None \notin {"whole", "early", "damaged", "torn", "published", "refused", "crashed"}
    /\ None \notin [Periods -> {"whole", "early", None}]

VARIABLES
    kind,      \* what is exported, of a gapless instrument: "ticks", "candles" that
               \* lie several to a source period, or "hours", the H1 and D1 candles
               \* made from ticks, which have records of a whole period or more
    options,   \* of the run: strict (no --allow-partial), refresh
    stage,     \* where the run is
    fetch,     \* each period's status: "todo", "writing", or that of its FetchResult
    attempts,
    cache,     \* the payload cached for a period
    temporary, \* the payload in its .tmp file
    quality,   \* the published files: trusted of the quality report,
    csv,       \* the payloads whose records the CSV holds,
    manifest,  \* and trusted of the manifest
    exit,      \* how the last run ended
    runs

fetching == <<fetch, attempts, cache, temporary>>
published == <<quality, csv, manifest>>
vars == <<kind, options, stage, fetching, published, exit, runs>>

Delivered == {"whole", "early", "damaged"}
Statuses == {"cached", "downloaded", "empty", "missing", "error", "parse_error"}
Fetched == {"cached", "downloaded"}

Init ==
    /\ kind \in {"ticks", "candles", "hours"}
    /\ options = [strict |-> TRUE, refresh |-> FALSE]
    /\ stage = "idle"
    /\ fetch = [p \in Periods |-> "todo"] /\ attempts = [p \in Periods |-> 0]
    /\ cache = [p \in Periods |-> None] /\ temporary = [p \in Periods |-> None]
    /\ quality = None /\ csv = None /\ manifest = None
    /\ exit = None /\ runs = 0

Begin ==
    /\ stage = "idle" /\ runs < MaxRuns
    /\ stage' = "fetch" /\ runs' = runs + 1
    /\ options' \in [strict : BOOLEAN, refresh : BOOLEAN]
    /\ UNCHANGED <<kind, fetching, published, exit>>

\* A run is over, and what it had in memory is gone.
Exits(how) ==
    /\ stage' = "idle" /\ exit' = how
    /\ fetch' = [p \in Periods |-> "todo"] /\ attempts' = [p \in Periods |-> 0]
    /\ UNCHANGED <<kind, options, cache, runs>>

(* fetch_to_cache, by the threads of a pool *)

Fetching(p, from, to) ==
    /\ stage = "fetch" /\ fetch[p] = from
    /\ fetch' = [fetch EXCEPT ![p] = to]
    /\ UNCHANGED <<kind, options, stage, published, exit, runs>>

FindCached(p) ==
    /\ cache[p] # None /\ ~options.refresh
    /\ Fetching(p, "todo", "cached")
    /\ UNCHANGED <<attempts, cache, temporary>>

Asks(p) == cache[p] = None \/ options.refresh

ReceiveInPlace(p) ==
    /\ Asks(p)
    /\ Fetching(p, "todo", "writing")
    /\ \E payload \in Delivered : temporary' = [temporary EXCEPT ![p] = payload]
    /\ cache' = [cache EXCEPT ![p] = "torn"]
    /\ UNCHANGED attempts

\* The payload goes into a temporary file first.
Receive(p) ==
    /\ Asks(p)
    /\ Fetching(p, "todo", "writing")
    /\ \E payload \in Delivered : temporary' = [temporary EXCEPT ![p] = payload]
    /\ UNCHANGED <<attempts, cache>>

Install(p) ==
    /\ Fetching(p, "writing", "downloaded")
    /\ cache' = [cache EXCEPT ![p] = temporary[p]]
    /\ temporary' = [temporary EXCEPT ![p] = None]
    /\ UNCHANGED attempts

\* An empty body, or 404 and 410, are answers; they leave the cache alone.
AnswerNothing(p) ==
    /\ Asks(p)
    /\ \E status \in {"empty", "missing"} : Fetching(p, "todo", status)
    /\ UNCHANGED <<attempts, cache, temporary>>

FailForever(p) ==
    /\ Asks(p)
    /\ Fetching(p, "todo", "todo")
    /\ attempts' = [attempts EXCEPT ![p] = (@ + 1) % Retries]
    /\ UNCHANGED <<cache, temporary>>

\* Any other failure is tried again, a number of times.
Fail(p) ==
    /\ Asks(p)
    /\ Fetching(p, "todo", IF attempts[p] + 1 < Retries THEN "todo" ELSE "error")
    /\ attempts' = [attempts EXCEPT ![p] = @ + 1]
    /\ UNCHANGED <<cache, temporary>>

(* Reading and validating *)

Parses(payload) == payload \in {"whole", "early"}

\* The records of a period, from the cache; a payload without any is None.
RecordsOf(p, status) == IF status[p] \in Fetched THEN cache[p] ELSE None

\* read_ticks, read_native_candles, read_tick_candles: when all are fetched.
Read ==
    /\ stage = "fetch"
    /\ \A p \in Periods : fetch[p] \in Statuses
    /\ fetch' = [p \in Periods |->
                    IF fetch[p] \in Fetched /\ ~Parses(cache[p]) THEN "parse_error" ELSE fetch[p]]
    /\ stage' = "quality"
    /\ UNCHANGED <<kind, options, attempts, cache, temporary, published, exit, runs>>

\* No bar of the period is missing.  A bar is there as soon as it has a record,
\* so that an early payload lacks bars only where a period has several.
HasItsBars(records) == records # None /\ (kind = "candles" => records = "whole")

TrustedByCount(status) ==
    \E p \in Periods : RecordsOf(p, status) # None

\* validate_ticks and validate_candles: some records, no expected period bad,
\* and in candles no gap while the market is open.
Trusted(status) ==
    /\ \E p \in Periods : RecordsOf(p, status) # None
    /\ \A p \in Open : status[p] \in Fetched
    /\ kind # "ticks" => \A p \in Open : HasItsBars(RecordsOf(p, status))

(* publish_candles, publish_ticks *)

Publishing(from, to) ==
    /\ stage = from /\ stage' = to
    /\ UNCHANGED <<kind, options, fetching, runs>>

WriteQuality ==
    /\ Publishing("quality", IF options.strict /\ ~Trusted(fetch) THEN "unlink csv" ELSE "csv")
    /\ quality' = Trusted(fetch)
    /\ UNCHANGED <<csv, manifest, exit>>

WriteCsv ==
    /\ Publishing("csv", "manifest")
    /\ csv' = [p \in Periods |-> RecordsOf(p, fetch)]
    /\ UNCHANGED <<quality, manifest, exit>>

WriteManifest ==
    /\ stage = "manifest"
    /\ manifest' = Trusted(fetch)
    /\ Exits("published")
    /\ UNCHANGED <<temporary, quality, csv>>

KeepCsv ==
    /\ Publishing("unlink csv", "unlink manifest")
    /\ UNCHANGED <<published, exit>>

\* A strict run whose validation failed takes back what was published before.
UnlinkCsv ==
    /\ Publishing("unlink csv", "unlink manifest")
    /\ csv' = None
    /\ UNCHANGED <<quality, manifest, exit>>

UnlinkManifest ==
    /\ stage = "unlink manifest"
    /\ manifest' = None
    /\ Exits("refused")
    /\ UNCHANGED <<temporary, quality, csv>>

\* The run dies; what it was writing is torn.
Crash ==
    /\ stage # "idle"
    /\ Exits("crashed")
    /\ temporary' = [p \in Periods |-> IF fetch[p] = "writing" THEN "torn" ELSE temporary[p]]
    /\ UNCHANGED published

Work ==
    \/ \E p \in Periods :
           FindCached(p) \/ Receive(p) \/ Install(p) \/ AnswerNothing(p) \/ Fail(p)
    \/ Read \/ WriteQuality \/ WriteCsv \/ WriteManifest \/ UnlinkCsv \/ UnlinkManifest

Next == Begin \/ Work \/ Crash

\* A run goes on until it ends; every request has a timeout.
Spec == Init /\ [][Next]_vars /\ WF_vars(Work)

-----------------------------------------------------------------------------
(* Properties *)

\* The types of the files and of the run.
TypeOK ==
    /\ kind \in {"ticks", "candles", "hours"}
    /\ options \in [strict : BOOLEAN, refresh : BOOLEAN]
    /\ fetch \in [Periods -> Statuses \cup {"todo", "writing"}]
    /\ attempts \in [Periods -> 0 .. Retries]
    /\ cache \in [Periods -> Delivered \cup {"torn", None}]
    /\ temporary \in [Periods -> Delivered \cup {"torn", None}]
    /\ quality \in BOOLEAN \cup {None} /\ manifest \in BOOLEAN \cup {None}
    /\ csv = None \/ csv \in [Periods -> {"whole", "early", None}]
    /\ exit \in {None, "published", "refused", "crashed"} /\ runs \in 0 .. MaxRuns

\* What the CSV must hold to be called complete: records of every period the
\* market was open in, and of candles every bar.
Complete == \A p \in Open : HasItsBars(csv[p])

Settled == stage = "idle" /\ exit \in {"published", "refused"}

\* When a run has ended by itself, report and manifest agree on a published CSV,
\* and vouch for it only if it has every period the market was open in and every
\* bar, whatever retries, cached payloads and earlier crashes it took.  They do
\* not say that a period had ended when it was fetched: of ticks, and of the H1
\* and D1 candles made from them, part of an hour is enough.
TrustIsEarned ==
    Settled /\ csv # None => manifest = quality /\ (manifest = TRUE => Complete)

\* A strict run leaves a complete CSV with its manifest or neither of them,
\* also when the run before it died between its files.
StrictLeavesNoPartial ==
    Settled /\ options.strict =>
        IF exit = "refused" THEN csv = None /\ manifest = None
        ELSE csv # None /\ Complete /\ manifest = TRUE

\* The cache never holds part of a payload, wherever runs die: what is found
\* there is never fetched again.
CacheIsWhole == \A p \in Periods : cache[p] # "torn"

\* A run ends: every period is decided after a bounded number of attempts.
RunsEnd == stage # "idle" ~> stage = "idle"
=============================================================================
