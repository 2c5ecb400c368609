--------------------------- MODULE MarketDataProofs ---------------------------
(***************************************************************************)
(* The market data on its way into a replay: what the downloader publishes *)
(* and what a session reads of a range.                                    *)
(*                                                                         *)
(* Downloader, for any number of periods, retries and runs, and wherever   *)
(* the runs before died: the cache holds whole payloads, a published       *)
(* export is trusted only when it is complete, and a strict run never      *)
(* leaves a partial one.  A run decides at its first file what it means to *)
(* publish and ends two files later, so the invariant carries the decision *)
(* from stage to stage: what was read parses, the report says what the     *)
(* validation said, and the CSV is the one the manifest will be written    *)
(* for.                                                                    *)
(*                                                                         *)
(* RangeBars, for any files, range, page size, bound and threads: a read   *)
(* returns the candles of the range it asks for, and the bars held are     *)
(* accounted for, however the reads interleave.  A page may be longer than *)
(* a page and may be evicted or replaced at any step, so the invariant     *)
(* says of each cached page that it reaches at least as far as its place   *)
(* requires, of the page in a thread's hand that it is the page of the     *)
(* candle the thread reads next, and of a count over its bound that some   *)
(* thread is still to look at it.                                          *)
(***************************************************************************)
EXTENDS Downloader, RangeBars, ListingProofs, SequenceTheorems
-----------------------------------------------------------------------------
(* Downloader *)

Stages == {"idle", "fetch", "quality", "csv", "manifest", "unlink csv", "unlink manifest"}

\* A temporary file that is going to be installed is whole, and an undecided
\* period has attempts left.
FetchesAreSound ==
    \A p \in Periods :
        /\ fetch[p] = "writing" => temporary[p] \in Delivered
        /\ fetch[p] = "todo" => attempts[p] < Retries

\* After the reading, every period is decided and what counts as fetched parses.
ReadingIsSound ==
    stage \in {"quality", "csv", "manifest"} =>
        \A p \in Periods :
            fetch[p] \in Statuses /\ (fetch[p] \in Fetched => Parses(cache[p]))

\* Past the report, a run publishes what it may publish.
DecisionStands ==
    /\ stage \in {"csv", "manifest"} =>
           (quality = Trusted(fetch)) /\ (options.strict => Trusted(fetch))
    /\ stage = "manifest" => csv = [p \in Periods |-> RecordsOf(p, fetch)]
    /\ stage \in {"unlink csv", "unlink manifest"} => options.strict
    /\ stage = "unlink manifest" => csv = None

Working == FetchesAreSound /\ ReadingIsSound /\ DecisionStands

IInv ==
    /\ TypeOK /\ stage \in Stages /\ CacheIsWhole
    /\ Working
    /\ TrustIsEarned /\ StrictLeavesNoPartial

\* Records that parsed are records a CSV may hold.
LEMMA RecordsParse ==
    ASSUME TypeOK, ReadingIsSound, stage \in {"quality", "csv", "manifest"},
           NEW p \in Periods
    PROVE  /\ RecordsOf(p, fetch) \in {"whole", "early", None}
           /\ fetch[p] \in Fetched => RecordsOf(p, fetch) \in {"whole", "early"}
  BY DEF ReadingIsSound, RecordsOf, Parses

\* A CSV written of records the validation trusts is complete.
LEMMA TrustedIsComplete ==
    ASSUME TypeOK, ReadingIsSound, stage \in {"quality", "csv", "manifest"},
           Trusted(fetch),
           csv = [p \in Periods |-> RecordsOf(p, fetch)]
    PROVE  Complete
  <1> SUFFICES ASSUME NEW p \in Open PROVE HasItsBars(csv[p])
    BY DEF Complete
  <1>1. p \in Periods /\ csv[p] = RecordsOf(p, fetch)
    BY DownloaderAssumption
  <1>2. fetch[p] \in Fetched
    BY DEF Trusted
  <1>3. csv[p] # None
    BY <1>1, <1>2, RecordsParse, DownloaderAssumption
  <1>4. CASE kind # "ticks"
    BY <1>1, <1>4 DEF Trusted
  <1>5. CASE kind = "ticks"
    BY <1>3, <1>5 DEF HasItsBars
  <1> QED
    BY <1>4, <1>5

\* Before the first run nothing is cached, published or under way.
LEMMA InitIInv == Init => IInv
  <1> SUFFICES ASSUME Init PROVE IInv
    OBVIOUS
  <1>1. TypeOK /\ stage \in Stages /\ CacheIsWhole
    BY DownloaderAssumption DEF Init, TypeOK, Stages, CacheIsWhole
  <1>2. Working
    BY DownloaderAssumption
    DEF Init, Working, FetchesAreSound, ReadingIsSound, DecisionStands
  <1>3. TrustIsEarned /\ StrictLeavesNoPartial
    BY DownloaderAssumption DEF Init, TrustIsEarned, StrictLeavesNoPartial, Settled
  <1> QED
    BY <1>1, <1>2, <1>3 DEF IInv

\* While a run is at work nothing is settled.
LEMMA Unsettled ==
    ASSUME stage' # "idle" \/ exit' = "crashed"
    PROVE  TrustIsEarned' /\ StrictLeavesNoPartial'
  BY DEF TrustIsEarned, StrictLeavesNoPartial, Settled

\* A step of the fetching: it may change one period and that period's payloads.
LEMMA FetchStep ==
    ASSUME IInv, NEW p \in Periods, NEW from, NEW to \in Statuses \cup {"todo", "writing"},
           Fetching(p, from, to),
           attempts' \in [Periods -> 0 .. Retries],
           cache' \in [Periods -> Delivered \cup {None}],
           temporary' \in [Periods -> Delivered \cup {"torn", None}],
           to = "writing" => temporary'[p] \in Delivered,
           to = "todo" => attempts'[p] < Retries,
           \A q \in Periods \ {p} :
               attempts'[q] = attempts[q] /\ temporary'[q] = temporary[q]
    PROVE  IInv'
  <1>1. stage = "fetch" /\ stage' = "fetch"
    BY DEF Fetching
  <1>2. TypeOK'
    BY DEF IInv, TypeOK, Fetching, published
  <1>3. CacheIsWhole'
    BY DownloaderAssumption DEF IInv, TypeOK, CacheIsWhole, Delivered
  <1>4. FetchesAreSound'
    BY DEF IInv, TypeOK, Working, FetchesAreSound, Fetching
  <1>5. ReadingIsSound' /\ DecisionStands'
    BY <1>1 DEF ReadingIsSound, DecisionStands
  <1>6. TrustIsEarned' /\ StrictLeavesNoPartial'
    BY <1>1, Unsettled
  <1> QED
    BY <1>1, <1>2, <1>3, <1>4, <1>5, <1>6 DEF IInv, Working, Stages

\* However a run ends, the next one finds no work of it in memory.
LEMMA RunEnds ==
    ASSUME IInv, NEW how \in {"published", "refused", "crashed"}, Exits(how),
           temporary' \in [Periods -> Delivered \cup {"torn", None}],
           quality' \in BOOLEAN \cup {None}, manifest' \in BOOLEAN \cup {None},
           csv' = None \/ csv' \in [Periods -> {"whole", "early", None}]
    PROVE  TypeOK' /\ stage' \in Stages /\ CacheIsWhole' /\ Working'
  <1>1. TypeOK'
    BY DownloaderAssumption DEF IInv, TypeOK, Exits
  <1>2. stage' \in Stages /\ CacheIsWhole'
    BY DEF IInv, Exits, Stages, CacheIsWhole
  <1>3. Working'
    BY DownloaderAssumption
    DEF Exits, Working, FetchesAreSound, ReadingIsSound, DecisionStands
  <1> QED
    BY <1>1, <1>2, <1>3

\* A run begins with the memory of no other.
LEMMA BeginKeeps == IInv /\ Begin => IInv'
  <1> SUFFICES ASSUME IInv, Begin PROVE IInv'
    OBVIOUS
  <1>1. TypeOK' /\ stage' \in Stages /\ CacheIsWhole'
    BY DownloaderAssumption
    DEF IInv, TypeOK, Begin, fetching, published, Stages, CacheIsWhole
  <1>2. FetchesAreSound'
    BY DEF IInv, Working, FetchesAreSound, Begin, fetching
  <1>3. ReadingIsSound' /\ DecisionStands'
    BY DEF Begin, ReadingIsSound, DecisionStands
  <1>4. TrustIsEarned' /\ StrictLeavesNoPartial'
    BY Unsettled DEF Begin
  <1> QED
    BY <1>1, <1>2, <1>3, <1>4 DEF IInv, Working

\* fetch_to_cache: a payload found, received, installed, missing or failed.
LEMMA FetchKeeps ==
    ASSUME IInv, NEW p \in Periods,
           FindCached(p) \/ Receive(p) \/ Install(p) \/ AnswerNothing(p) \/ Fail(p)
    PROVE  IInv'
  <1> USE DEF Statuses
  <1>1. /\ cache \in [Periods -> Delivered \cup {None}]
        /\ temporary \in [Periods -> Delivered \cup {"torn", None}]
        /\ attempts \in [Periods -> 0 .. Retries]
    BY DownloaderAssumption DEF IInv, TypeOK, CacheIsWhole
  <1>2. CASE FindCached(p)
    BY <1>1, <1>2, FetchStep DEF FindCached
  <1>3. CASE Receive(p)
    <2>1. PICK payload \in Delivered : temporary' = [temporary EXCEPT ![p] = payload]
      BY <1>3 DEF Receive
    <2>2. Fetching(p, "todo", "writing") /\ attempts' = attempts /\ cache' = cache
      BY <1>3 DEF Receive
    <2>3. /\ temporary' \in [Periods -> Delivered \cup {"torn", None}]
          /\ temporary'[p] \in Delivered
          /\ \A q \in Periods \ {p} : temporary'[q] = temporary[q]
      BY <1>1, <2>1
    <2> QED
      BY <1>1, <2>2, <2>3, FetchStep
  <1>4. CASE Install(p)
    <2>1. temporary[p] \in Delivered
      BY <1>4 DEF IInv, Working, FetchesAreSound, Install, Fetching
    <2>2. Fetching(p, "writing", "downloaded") /\ attempts' = attempts
      BY <1>4 DEF Install
    <2>3. cache' \in [Periods -> Delivered \cup {None}]
      BY <1>1, <1>4, <2>1 DEF Install
    <2>4. /\ temporary' \in [Periods -> Delivered \cup {"torn", None}]
          /\ \A q \in Periods \ {p} : temporary'[q] = temporary[q]
      BY <1>1, <1>4 DEF Install
    <2> QED
      BY <1>1, <2>2, <2>3, <2>4, FetchStep
  <1>5. CASE AnswerNothing(p)
    BY <1>1, <1>5, FetchStep DEF AnswerNothing
  <1>6. CASE Fail(p)
    <2> DEFINE to == IF attempts[p] + 1 < Retries THEN "todo" ELSE "error"
    <2>1. attempts[p] \in 0 .. Retries /\ attempts[p] < Retries
      BY <1>1, <1>6 DEF IInv, Working, FetchesAreSound, Fail, Fetching
    <2>2. attempts' = [attempts EXCEPT ![p] = attempts[p] + 1]
      BY <1>6 DEF Fail
    <2>3. attempts' \in [Periods -> 0 .. Retries] /\ attempts'[p] = attempts[p] + 1
      BY <1>1, <2>1, <2>2, DownloaderAssumption
    <2>4. to = "todo" => attempts'[p] < Retries
      BY <2>3
    <2>5. \A q \in Periods \ {p} : attempts'[q] = attempts[q]
      BY <1>1, <2>2
    <2>6. Fetching(p, "todo", to) /\ cache' = cache /\ temporary' = temporary
      BY <1>6 DEF Fail
    <2>7. to \in Statuses \cup {"todo", "writing"} /\ to # "writing"
      OBVIOUS
    <2> HIDE DEF to
    <2> QED
      BY <1>1, <2>3, <2>4, <2>5, <2>6, <2>7, FetchStep
  <1> QED
    BY <1>2, <1>3, <1>4, <1>5, <1>6

\* The reading keeps as fetched only what parses.
LEMMA ReadKeeps == IInv /\ Read => IInv'
  <1> SUFFICES ASSUME IInv, Read PROVE IInv'
    OBVIOUS
  <1>1. /\ stage' = "quality" /\ UNCHANGED <<kind, options, attempts, cache, temporary>>
        /\ UNCHANGED <<quality, csv, manifest, exit, runs>>
        /\ fetch' = [p \in Periods |->
                        IF fetch[p] \in Fetched /\ ~Parses(cache[p]) THEN "parse_error" ELSE fetch[p]]
        /\ \A p \in Periods : fetch[p] \in Statuses
    BY DEF Read, published
  <1>2. TypeOK' /\ stage' \in Stages /\ CacheIsWhole'
    BY <1>1 DEF IInv, TypeOK, Stages, CacheIsWhole, Statuses
  <1>3. \A p \in Periods : fetch'[p] \in Statuses /\ (fetch'[p] \in Fetched => Parses(cache[p]))
    BY <1>1 DEF Statuses, Fetched
  <1>4. FetchesAreSound'
    BY <1>3 DEF FetchesAreSound, Statuses
  <1>5. ReadingIsSound'
    BY <1>1, <1>3 DEF ReadingIsSound, Parses
  <1>6. DecisionStands' /\ TrustIsEarned' /\ StrictLeavesNoPartial'
    BY <1>1, Unsettled DEF DecisionStands
  <1> QED
    BY <1>2, <1>4, <1>5, <1>6 DEF IInv, Working

\* The report fixes the decision the other two files follow.
LEMMA WriteQualityKeeps == IInv /\ WriteQuality => IInv'
  <1> SUFFICES ASSUME IInv, WriteQuality PROVE IInv'
    OBVIOUS
  <1>1. /\ stage = "quality" /\ stage' # "idle"
        /\ stage' \in {"csv", "unlink csv"}
        /\ stage' = "csv" => (options.strict => Trusted(fetch))
        /\ stage' = "unlink csv" => options.strict
    BY DEF WriteQuality, Publishing
  <1>2. /\ UNCHANGED <<kind, options, fetch, attempts, cache, temporary, runs>>
        /\ UNCHANGED <<csv, manifest, exit>> /\ quality' = Trusted(fetch)
    BY DEF WriteQuality, Publishing, fetching
  <1>3. Trusted(fetch) \in BOOLEAN
    BY DEF Trusted
  <1>4. TypeOK' /\ stage' \in Stages /\ CacheIsWhole'
    BY <1>1, <1>2, <1>3 DEF IInv, TypeOK, Stages, CacheIsWhole
  <1>5. Trusted(fetch)' = Trusted(fetch)
    BY <1>2 DEF Trusted, HasItsBars, RecordsOf
  <1>6. FetchesAreSound' /\ ReadingIsSound'
    BY <1>1, <1>2 DEF IInv, Working, FetchesAreSound, ReadingIsSound, Parses
  <1>7. DecisionStands'
    BY <1>1, <1>2, <1>5 DEF DecisionStands
  <1>8. TrustIsEarned' /\ StrictLeavesNoPartial'
    BY <1>1, Unsettled
  <1> QED
    BY <1>4, <1>6, <1>7, <1>8 DEF IInv, Working

\* The CSV holds the records that were validated.
LEMMA WriteCsvKeeps == IInv /\ WriteCsv => IInv'
  <1> SUFFICES ASSUME IInv, WriteCsv PROVE IInv'
    OBVIOUS
  <1>1. stage = "csv" /\ stage' = "manifest"
    BY DEF WriteCsv, Publishing
  <1>2. /\ UNCHANGED <<kind, options, fetch, attempts, cache, temporary, runs>>
        /\ UNCHANGED <<quality, manifest, exit>>
        /\ csv' = [p \in Periods |-> RecordsOf(p, fetch)]
    BY DEF WriteCsv, Publishing, fetching
  <1>3. csv' \in [Periods -> {"whole", "early", None}]
    BY <1>1, <1>2, RecordsParse DEF IInv, Working
  <1>4. TypeOK' /\ stage' \in Stages /\ CacheIsWhole'
    BY <1>1, <1>2, <1>3 DEF IInv, TypeOK, Stages, CacheIsWhole
  <1>5. /\ Trusted(fetch)' = Trusted(fetch)
        /\ [p \in Periods |-> RecordsOf(p, fetch)]' = [p \in Periods |-> RecordsOf(p, fetch)]
    BY <1>2 DEF Trusted, HasItsBars, RecordsOf
  <1>6. FetchesAreSound' /\ ReadingIsSound'
    BY <1>1, <1>2 DEF IInv, Working, FetchesAreSound, ReadingIsSound, Parses
  <1>7. DecisionStands'
    BY <1>1, <1>2, <1>5 DEF IInv, Working, DecisionStands
  <1>8. TrustIsEarned' /\ StrictLeavesNoPartial'
    BY <1>1, Unsettled
  <1> QED
    BY <1>4, <1>6, <1>7, <1>8 DEF IInv, Working

\* The manifest vouches for the CSV beside it only if that one is complete.
LEMMA WriteManifestKeeps == IInv /\ WriteManifest => IInv'
  <1> SUFFICES ASSUME IInv, WriteManifest PROVE IInv'
    OBVIOUS
  <1>1. /\ stage = "manifest" /\ Exits("published")
        /\ manifest' = Trusted(fetch) /\ UNCHANGED <<temporary, quality, csv>>
    BY DEF WriteManifest
  <1>2. Trusted(fetch) \in BOOLEAN
    BY DEF Trusted
  <1>3. TypeOK' /\ stage' \in Stages /\ CacheIsWhole' /\ Working'
    BY <1>1, <1>2, RunEnds DEF IInv, TypeOK
  <1>4. quality = Trusted(fetch) /\ (options.strict => Trusted(fetch))
    BY <1>1 DEF IInv, Working, DecisionStands
  <1>5. csv = [p \in Periods |-> RecordsOf(p, fetch)]
    BY <1>1 DEF IInv, Working, DecisionStands
  <1>6. csv # None
    <2>1. csv \in [Periods -> {"whole", "early", None}]
      BY <1>1, <1>5, RecordsParse DEF IInv, Working
    <2> QED
      BY <2>1, DownloaderAssumption
  <1>7. Trusted(fetch) => Complete'
    <2>1. Trusted(fetch) => Complete
      BY <1>1, <1>5, TrustedIsComplete DEF IInv, Working
    <2>2. csv' = csv /\ kind' = kind
      BY <1>1 DEF Exits
    <2>3. Complete' <=> Complete
      BY <2>2 DEF Complete, HasItsBars
    <2> QED BY <2>1, <2>3
  <1>8. TrustIsEarned' /\ StrictLeavesNoPartial'
    BY <1>1, <1>2, <1>4, <1>6, <1>7
    DEF TrustIsEarned, StrictLeavesNoPartial, Exits
  <1> QED
    BY <1>3, <1>8 DEF IInv

\* Only a strict run takes a CSV back.
LEMMA UnlinkCsvKeeps == IInv /\ UnlinkCsv => IInv'
  <1> SUFFICES ASSUME IInv, UnlinkCsv PROVE IInv'
    OBVIOUS
  <1>1. /\ stage = "unlink csv" /\ stage' = "unlink manifest"
        /\ UNCHANGED <<kind, options, fetch, attempts, cache, temporary, runs>>
        /\ UNCHANGED <<quality, manifest, exit>> /\ csv' = None
    BY DEF UnlinkCsv, Publishing, fetching
  <1>2. TypeOK' /\ stage' \in Stages /\ CacheIsWhole'
    BY <1>1 DEF IInv, TypeOK, Stages, CacheIsWhole
  <1>3. Working'
    BY <1>1 DEF IInv, Working, FetchesAreSound, ReadingIsSound, DecisionStands
  <1>4. TrustIsEarned' /\ StrictLeavesNoPartial'
    BY <1>1, Unsettled
  <1> QED
    BY <1>2, <1>3, <1>4 DEF IInv

\* The manifest goes after its CSV.
LEMMA UnlinkManifestKeeps == IInv /\ UnlinkManifest => IInv'
  <1> SUFFICES ASSUME IInv, UnlinkManifest PROVE IInv'
    OBVIOUS
  <1>1. /\ stage = "unlink manifest" /\ Exits("refused")
        /\ manifest' = None /\ UNCHANGED <<temporary, quality, csv>>
    BY DEF UnlinkManifest
  <1>2. TypeOK' /\ stage' \in Stages /\ CacheIsWhole' /\ Working'
    BY <1>1, RunEnds DEF IInv, TypeOK
  <1>3. csv' = None /\ exit' = "refused"
    BY <1>1 DEF IInv, Working, DecisionStands, Exits
  <1>4. TrustIsEarned' /\ StrictLeavesNoPartial'
    BY <1>1, <1>3 DEF TrustIsEarned, StrictLeavesNoPartial
  <1> QED
    BY <1>2, <1>4 DEF IInv

\* A run that dies settles nothing, and tears temporary files only.
LEMMA CrashKeeps == IInv /\ Crash => IInv'
  <1> SUFFICES ASSUME IInv, Crash PROVE IInv'
    OBVIOUS
  <1>1. Exits("crashed") /\ UNCHANGED <<quality, csv, manifest>>
    BY DEF Crash, published
  <1>2. temporary' \in [Periods -> Delivered \cup {"torn", None}]
    BY DEF Crash, IInv, TypeOK
  <1>3. TypeOK' /\ stage' \in Stages /\ CacheIsWhole' /\ Working'
    BY <1>1, <1>2, RunEnds DEF IInv, TypeOK
  <1>4. TrustIsEarned' /\ StrictLeavesNoPartial'
    BY <1>1, Unsettled DEF Exits
  <1> QED
    BY <1>3, <1>4 DEF IInv

\* A step of something else changes nothing.
LEMMA StutterKeeps == IInv /\ UNCHANGED vars => IInv'
  <1> SUFFICES ASSUME IInv, UNCHANGED vars PROVE IInv'
    OBVIOUS
  <1>1. /\ UNCHANGED <<kind, options, stage, fetch, attempts, cache, temporary>>
        /\ UNCHANGED <<quality, csv, manifest, exit, runs>>
    BY DEF vars, fetching, published
  <1>2. Trusted(fetch)' = Trusted(fetch) /\ Complete' = Complete
    BY <1>1 DEF Trusted, HasItsBars, RecordsOf, Complete
  <1>3. [p \in Periods |-> RecordsOf(p, fetch)]' = [p \in Periods |-> RecordsOf(p, fetch)]
    BY <1>1 DEF RecordsOf
  <1>4. TypeOK' /\ stage' \in Stages /\ CacheIsWhole'
    BY <1>1 DEF IInv, TypeOK, CacheIsWhole
  <1>5. FetchesAreSound' /\ ReadingIsSound'
    BY <1>1 DEF IInv, Working, FetchesAreSound, ReadingIsSound, Parses
  <1>6. DecisionStands'
    BY <1>1, <1>2, <1>3 DEF IInv, Working, DecisionStands
  <1>7. TrustIsEarned' /\ StrictLeavesNoPartial'
    BY <1>1, <1>2 DEF IInv, TrustIsEarned, StrictLeavesNoPartial, Settled
  <1> QED
    BY <1>4, <1>5, <1>6, <1>7 DEF IInv, Working

\* Everything the invariant says holds in every state of the downloader.
THEOREM DownloaderInvariant == Spec => []IInv
  <1>1. Init => IInv
    BY InitIInv
  <1>2. IInv /\ [Next]_vars => IInv'
    BY BeginKeeps, FetchKeeps, ReadKeeps, WriteQualityKeeps, WriteCsvKeeps,
       WriteManifestKeeps, UnlinkCsvKeeps, UnlinkManifestKeeps, CrashKeeps, StutterKeeps
    DEF Next, Work
  <1> QED
    BY <1>1, <1>2, PTL DEF Spec

\* publish_candles and publish_ticks: a run that ended by itself vouches only for
\* a complete export, for any periods, retries and earlier crashes.
THEOREM PublishedTrustIsEarned == Spec => []TrustIsEarned
  <1>1. IInv => TrustIsEarned
    BY DEF IInv
  <1> QED
    BY <1>1, DownloaderInvariant, PTL

\* publish_candles and publish_ticks without --allow-partial: everything or nothing.
THEOREM StrictIsAllOrNothing == Spec => []StrictLeavesNoPartial
  <1>1. IInv => StrictLeavesNoPartial
    BY DEF IInv
  <1> QED
    BY <1>1, DownloaderInvariant, PTL

\* fetch_to_cache: what is in the cache was delivered as a whole.
THEOREM CacheStaysWhole == Spec => []CacheIsWhole
  <1>1. IInv => CacheIsWhole
    BY DEF IInv
  <1> QED
    BY <1>1, DownloaderInvariant, PTL
-----------------------------------------------------------------------------
(* RangeBars: the invariant *)

\* A cached page lies in its file and holds the rows of its place at least.
Loadable ==
    {p \in Page : /\ p.offset + p.len <= EndOf(p.file)
                  /\ Shorter(PageSize, EndOf(p.file) - p.offset) <= p.len}

OneEach(c) == \A j, k \in DOMAIN c : IsPage(c[j], c[k]) => j = k
HoldsIn(c, key) == \E k \in DOMAIN c : IsPage(c[k], key)

Ended == {"idle", "done", "failed"}
InHand == {"touch", "move", "count", "write", "evict", "held", "pop", "take"}
Counting == {"move", "count", "write"}

Reading ==
    [pc : Ended \cup InHand \cup {"lookup", "load"}, how : {"slice", "iterate"},
     from : Nat, upto : Nat, got : Seq(Files \X Nat), page : Page \cup {NoPage},
     due : Int, old : Int]

Reached(r) == r.from + Len(r.got)

\* What a thread has read is right so far, the page in its hand is that of the
\* candle it reads next, and it owes the count nothing but while it changes it.
ReadIsSound(r) ==
    /\ r \in Reading
    /\ r.upto <= Total /\ (r.how = "iterate" /\ r.pc # "idle" => r.upto = Total)
    /\ Reached(r) <= r.upto
    /\ r.got = SubSeq(InRange, r.from + 1, Reached(r))
    /\ r.pc \notin Ended => Reached(r) < r.upto
    /\ r.pc = "done" => Reached(r) = r.upto
    /\ r.pc \in InHand => r.page \in Loadable /\ IsPage(r.page, KeyOf(Reached(r)))
    /\ r.pc \notin Counting => r.due = 0

\* A thread that will look at the count again before its read goes on.
Watches(r, c) ==
    \/ r.pc \in {"count", "write", "evict", "held", "pop"}
    \/ r.pc = "move" /\ HoldsIn(c, KeyOf(Reached(r)))

OverBound(c, n) == n > MaxCachedBars /\ c # <<>>

ReadsAreSound ==
    read \in [Threads -> Reading] /\ \A t \in Threads : ReadIsSound(read[t])

PagesAreSound ==
    /\ pages \in Seq(Loadable) /\ OneEach(pages)
    /\ cachedBars \in Int /\ reads \in 0 .. MaxReads /\ drift \in Int

\* The bars held are accounted for, and somebody watches a count over its bound.
CountsAreSound ==
    /\ BarsOf(pages) = cachedBars + DueOf(read) + drift
    /\ OverBound(pages, cachedBars) => \E t \in Threads : Watches(read[t], pages)

RangeInv == ReadsAreSound /\ PagesAreSound /\ CountsAreSound
-----------------------------------------------------------------------------
(* RangeBars: the range *)

\* Where a file begins and ends in the range.
LEMMA FilesAre ==
    /\ Len(Rows) \in Nat /\ Len(Rows) > 0 /\ Files = 1 .. Len(Rows)
    /\ \A f \in Files :
         /\ RowsBefore(f) \in Nat /\ EndOf(f) \in Nat /\ Count(f) \in Nat
         /\ Count(f) = EndOf(f) - RowsBefore(f)
<1>1. /\ Rows \in Seq(Nat \ {0}) /\ Len(Rows) > 0
      /\ Before \in 0 .. Rows[1] /\ After \in 0 .. Rows[Len(Rows)]
      /\ Len(Rows) = 1 => Before + After <= Rows[1]
  BY RangeAssumption
<1>2. Len(Rows) \in Nat /\ Files = 1 .. Len(Rows) /\ \A f \in Files : Rows[f] \in Nat
  BY <1>1 DEF Files
<1>3. Rows[1] \in Nat /\ Rows[Len(Rows)] \in Nat /\ Before \in Nat /\ After \in Nat
  <2>1. 1 \in Files /\ Len(Rows) \in Files
    BY <1>1, <1>2
  <2>2. Rows[1] \in Nat /\ Rows[Len(Rows)] \in Nat
    BY <1>2, <2>1
  <2> QED BY <1>1, <2>2
<1>4. ASSUME NEW f \in Files
      PROVE  /\ RowsBefore(f) \in Nat /\ EndOf(f) \in Nat /\ RowsBefore(f) <= EndOf(f)
  <2>1. CASE f = 1 /\ f = Len(Rows)
    BY <1>1, <1>3, <2>1 DEF RowsBefore, EndOf
  <2>2. CASE f = 1 /\ f # Len(Rows)
    BY <1>1, <1>3, <2>2 DEF RowsBefore, EndOf
  <2>3. CASE f # 1 /\ f = Len(Rows)
    BY <1>1, <1>3, <2>3 DEF RowsBefore, EndOf
  <2>4. CASE f # 1 /\ f # Len(Rows)
    BY <1>2, <2>4 DEF RowsBefore, EndOf
  <2> QED BY <2>1, <2>2, <2>3, <2>4
<1>5. ASSUME NEW f \in Files PROVE Count(f) \in Nat /\ Count(f) = EndOf(f) - RowsBefore(f)
  <2>1. PICK a, b \in Nat : a = RowsBefore(f) /\ b = EndOf(f) /\ a <= b
    BY <1>4
  <2>2. Count(f) = b - a
    BY <2>1 DEF Count
  <2> QED BY <2>1, <2>2
<1> QED BY <1>1, <1>2, <1>4, <1>5

\* Each file adds its candles to those of the files before it.
LEMMA CumulativeIs ==
    /\ cumulative[1] = 0 /\ Total = cumulative[Len(Rows) + 1] /\ Total \in Nat
    /\ \A f \in Files :
         /\ cumulative[f] \in Nat /\ cumulative[f + 1] \in Nat
         /\ cumulative[f + 1] = cumulative[f] + Count(f)
         /\ \A h \in 1 .. Len(Rows) + 1 : f < h => cumulative[f + 1] <= cumulative[h]
<1> DEFINE n == Len(Rows)
           S == RunningSums(Counts)
<1>1. n \in Nat /\ n > 0 /\ Files = 1 .. n /\ \A f \in Files : Count(f) \in Nat
  BY FilesAre
<1>2. Counts \in Seq(Int) /\ Len(Counts) = n /\ \A f \in 1 .. n : Counts[f] = Count(f)
  BY <1>1 DEF Counts
<1>3. /\ S \in [0 .. n -> Int] /\ S[0] = 0
      /\ \A k \in 1 .. n : S[k] = S[k - 1] + Count(k)
  BY <1>2, RunningSumsAre
<1> HIDE DEF S, n
<1>4. \A f \in 1 .. n + 1 : cumulative[f] = S[f - 1]
  BY DEF cumulative, S, n
<1>5. \A k \in 0 .. n : S[k] \in Nat
  <2> DEFINE Bad == {k \in Nat : k <= n /\ S[k] \notin Nat}
  <2>1. ASSUME Bad # {} PROVE FALSE
    <3>1. PICK k \in Bad : \A l \in Bad : k <= l
      BY <2>1, LeastNat
    <3>2. k \in Nat /\ k <= n /\ S[k] \notin Nat /\ k # 0
      BY <1>3, <3>1
    <3>3. k - 1 \in Nat /\ k - 1 <= n /\ ~(k <= k - 1) /\ k \in 1 .. n
      BY <1>1, <3>2
    <3>4. S[k - 1] \in Nat
      <4>1. k - 1 \notin Bad
        <5> HIDE DEF Bad
        <5> QED BY <3>1, <3>3
      <4> QED BY <3>3, <4>1
    <3>5. S[k] = S[k - 1] + Count(k) /\ Count(k) \in Nat
      BY <1>1, <1>3, <3>3
    <3> QED BY <3>2, <3>4, <3>5
  <2> QED BY <2>1
<1>6. \A k \in 0 .. n : \A j \in 0 .. k : S[j] <= S[k]
  <2> DEFINE Bad == {k \in Nat : k <= n /\ ~\A j \in 0 .. k : S[j] <= S[k]}
  <2>1. ASSUME Bad # {} PROVE FALSE
    <3>1. PICK k \in Bad : \A l \in Bad : k <= l
      BY <2>1, LeastNat
    <3>2. k \in Nat /\ k <= n /\ ~\A j \in 0 .. k : S[j] <= S[k]
      BY <3>1
    <3>3. PICK j \in 0 .. k : ~(S[j] <= S[k])
      BY <3>2
    <3>4. j # k
      <4>1. k \in 0 .. n
        BY <1>1, <3>2
      <4>2. S[k] \in Nat
        BY <1>5, <4>1
      <4> QED BY <3>3, <4>2
    <3>5. PICK l : l = k - 1
      OBVIOUS
    <3>6. /\ l \in Nat /\ l <= n /\ ~(k <= l) /\ j \in 0 .. l /\ k \in 1 .. n
          /\ j \in 0 .. n /\ l \in 0 .. n
      BY <1>1, <3>2, <3>3, <3>4, <3>5
    <3>7. S[j] <= S[l]
      <4>1. l \notin Bad
        <5> HIDE DEF Bad
        <5> QED BY <3>1, <3>6
      <4> QED BY <3>6, <4>1
    <3>8. S[k] = S[l] + Count(k) /\ Count(k) \in Nat
      BY <1>1, <1>3, <3>5, <3>6
    <3>9. S[j] \in Nat /\ S[l] \in Nat
      BY <1>5, <3>6
    <3> QED BY ONLY <3>3, <3>7, <3>8, <3>9
  <2> SUFFICES ASSUME NEW k \in 0 .. n PROVE \A j \in 0 .. k : S[j] <= S[k]
    OBVIOUS
  <2>2. k \in Nat /\ k <= n /\ k \notin Bad
    BY <1>1, <2>1
  <2> QED BY <2>2
<1>7. Total = cumulative[n + 1] /\ Total = S[n] /\ Total \in Nat /\ cumulative[1] = 0
  <2>1. 1 \in 1 .. n + 1 /\ n + 1 \in 1 .. n + 1 /\ n \in 0 .. n /\ (n + 1) - 1 = n /\ 1 - 1 = 0
    BY <1>1
  <2> QED BY <1>3, <1>4, <1>5, <2>1 DEF Total, n
<1>8. ASSUME NEW f \in Files
      PROVE  /\ cumulative[f] \in Nat /\ cumulative[f + 1] \in Nat
             /\ cumulative[f + 1] = cumulative[f] + Count(f)
             /\ \A h \in 1 .. n + 1 : f < h => cumulative[f + 1] <= cumulative[h]
  <2>1. /\ f \in 1 .. n /\ f \in 1 .. n + 1 /\ f + 1 \in 1 .. n + 1 /\ (f + 1) - 1 = f
        /\ f - 1 \in 0 .. n /\ f \in 0 .. n
    BY <1>1
  <2>2. cumulative[f] = S[f - 1] /\ cumulative[f + 1] = S[f]
    BY <1>4, <2>1
  <2>3. ASSUME NEW h \in 1 .. n + 1, f < h PROVE cumulative[f + 1] <= cumulative[h]
    <3>1. h - 1 \in 0 .. n /\ f \in 0 .. h - 1
      BY <1>1, <2>1, <2>3
    <3>2. cumulative[h] = S[h - 1] /\ S[f] <= S[h - 1]
      BY <1>4, <1>6, <3>1
    <3> QED BY <2>2, <3>2
  <2> QED BY <1>3, <1>5, <2>1, <2>2, <2>3
<1> QED BY <1>7, <1>8 DEF n

\* Every candle of the range is in a file.
LEMMA Locates ==
    ASSUME NEW i \in 0 .. Total - 1
    PROVE  /\ locate[i] \in Files
           /\ cumulative[locate[i]] <= i /\ i < cumulative[locate[i] + 1]
<1> DEFINE n == Len(Rows)
           T == {f \in Nat : 1 <= f /\ f <= n + 1 /\ i < cumulative[f]}
<1>1. /\ n \in Nat /\ n > 0 /\ Files = 1 .. n /\ i \in Nat /\ i < Total
      /\ cumulative[1] = 0 /\ Total = cumulative[n + 1]
      /\ \A f \in Files : cumulative[f] \in Nat
  BY FilesAre, CumulativeIs
<1> HIDE DEF n
<1>2. n + 1 \in T
  BY <1>1
<1>3. PICK g \in T : \A h \in T : g <= h
  BY <1>2, LeastNat
<1>4. g \in Nat /\ 1 <= g /\ g <= n + 1 /\ i < cumulative[g] /\ g # 1
  BY <1>1, <1>3
<1>5. PICK f : f = g - 1
  OBVIOUS
<1>6. f \in Files /\ f \in Nat /\ 1 <= f /\ f <= n + 1 /\ ~(g <= f) /\ f + 1 = g
  BY <1>1, <1>4, <1>5
<1>7. f \notin T
  <2> HIDE DEF T
  <2> QED BY <1>3, <1>6
<1>8. cumulative[f] <= i /\ i < cumulative[f + 1]
  BY <1>1, <1>4, <1>6, <1>7
<1>9. locate[i] = CHOOSE h \in Files : cumulative[h] <= i /\ i < cumulative[h + 1]
  BY DEF locate
<1> QED BY <1>6, <1>8, <1>9

\* The candles of a file that are in the range.
PartOf(f) == [k \in 1 .. Count(f) |-> <<f, RowsBefore(f) + k - 1>>]

\* The range holds the candles of every file where the ones before them end.
LEMMA InRangeIs ==
    /\ InRange \in Seq(Files \X Nat) /\ Len(InRange) = Total
    /\ \A f \in Files : \A k \in 1 .. Count(f) :
         InRange[cumulative[f] + k] = <<f, RowsBefore(f) + k - 1>>
<1> DEFINE n == Len(Rows)
           A == Seq(Files \X Nat)
           move == [f \in 1 .. n |-> [s \in A |-> s \o PartOf(f)]]
           Grows(h) == h = [f \in 0 .. n |-> IF f = 0 THEN <<>> ELSE h[f - 1] \o PartOf(f)]
<1>1. /\ n \in Nat /\ n > 0 /\ Files = 1 .. n
      /\ \A f \in Files : RowsBefore(f) \in Nat /\ Count(f) \in Nat
  BY FilesAre
<1>2. ASSUME NEW f \in Files
      PROVE  /\ PartOf(f) \in A /\ Len(PartOf(f)) = Count(f)
             /\ \A k \in 1 .. Count(f) : PartOf(f)[k] = <<f, RowsBefore(f) + k - 1>>
  <2>1. PICK a, c \in Nat : a = RowsBefore(f) /\ c = Count(f)
    BY <1>1
  <2>2. PartOf(f) = [k \in 1 .. c |-> <<f, a + k - 1>>]
    BY <2>1 DEF PartOf
  <2>3. \A k \in 1 .. c : <<f, a + k - 1>> \in Files \X Nat
    BY <2>1
  <2>4. PICK B, q : B = Files \X Nat /\ q = PartOf(f)
    OBVIOUS
  <2>5. \A k \in 1 .. c : q[k] = <<f, a + k - 1>> /\ q[k] \in B
    BY <2>2, <2>3, <2>4
  <2>6. q \in [1 .. c -> B]
    BY <2>2, <2>4, <2>5
  <2>7. q \in Seq(B) /\ Len(q) = c
    BY ONLY c \in Nat, <2>6
  <2>8. A = Seq(B)
    BY <2>4
  <2> HIDE DEF A
  <2>9. PartOf(f) \in A /\ Len(PartOf(f)) = Count(f)
    BY <2>1, <2>4, <2>7, <2>8
  <2> QED BY <2>1, <2>4, <2>5, <2>9
<1> HIDE DEF n
<1>3. MovesOn(move, n, A)
  <2>1. ASSUME NEW f \in 1 .. n, NEW s \in A PROVE s \o PartOf(f) \in A
    BY <1>1, <1>2
  <2> QED BY <2>1 DEF MovesOn
<1>4. \A f \in 1 .. n, s \in A : move[f][s] = s \o PartOf(f)
  OBVIOUS
<1>5. <<>> \in A
  OBVIOUS
<1> HIDE DEF move, A
<1>6. PICK g \in [0 .. n -> A] : PassesThrough(g, <<>>, n, move)
  <2>1. PICK empty : empty = <<>>
    OBVIOUS
  <2>2. empty \in A /\ n \in Nat /\ MovesOn(move, n, A)
    BY <1>1, <1>3, <1>5, <2>1
  <2>3. \E g \in [0 .. n -> A] : PassesThrough(g, empty, n, move)
    BY ONLY <2>2, IteratesOver
  <2> QED BY <2>1, <2>3
<1>7. g[0] = <<>> /\ \A f \in 1 .. n : g[f] = move[f][g[f - 1]]
  BY <1>6 DEF PassesThrough
<1>8. \A f \in 1 .. n : g[f] = g[f - 1] \o PartOf(f) /\ g[f - 1] \in A
  <2> SUFFICES ASSUME NEW f \in 1 .. n PROVE g[f] = g[f - 1] \o PartOf(f) /\ g[f - 1] \in A
    OBVIOUS
  <2>1. f - 1 \in 0 .. n
    BY <1>1
  <2>2. g[f - 1] \in A
    BY <1>6, <2>1
  <2> QED BY <1>4, <1>7, <2>2
<1>9. Grows(g)
  <2>1. \A f \in 0 .. n : g[f] = IF f = 0 THEN <<>> ELSE g[f - 1] \o PartOf(f)
    <3> SUFFICES ASSUME NEW f \in 0 .. n, f # 0 PROVE g[f] = g[f - 1] \o PartOf(f)
      BY <1>7
    <3>1. f \in 1 .. n
      BY <1>1
    <3> QED BY <1>8, <3>1
  <2>2. g = [f \in 0 .. n |-> g[f]]
    BY <1>6
  <2> QED BY <2>1, <2>2
<1>10. PICK h : h = CHOOSE x : Grows(x)
  OBVIOUS
<1>11. InRange = h[n]
  BY <1>10 DEF InRange, PartOf, n
<1>12. Grows(h)
  <2> HIDE DEF Grows
  <2> QED BY <1>9, <1>10
<1>13. \A f \in 0 .. n : h[f] = g[f]
  <2>1. h[0] = <<>> /\ \A f \in 1 .. n : h[f] = h[f - 1] \o PartOf(f)
    <3>1. \A f \in 0 .. n : h[f] = IF f = 0 THEN <<>> ELSE h[f - 1] \o PartOf(f)
      BY <1>12
    <3>2. 0 \in 0 .. n /\ \A f \in 1 .. n : f \in 0 .. n /\ f # 0
      BY <1>1
    <3> QED BY <3>1, <3>2
  <2>2. StepsAlike(h, g, n)
    BY <1>7, <1>8, <2>1 DEF StepsAlike
  <2> QED BY <1>1, <2>2, StepwiseSame
<1>14. InRange = g[n] /\ g[n] \in A
  <2>1. n \in 0 .. n
    BY <1>1
  <2> QED BY <1>6, <1>11, <1>13, <2>1
<1> DEFINE Laid(m) ==
             /\ Len(g[m]) = cumulative[m + 1]
             /\ \A f \in 1 .. m : \A k \in 1 .. Count(f) :
                  g[m][cumulative[f] + k] = <<f, RowsBefore(f) + k - 1>>
           Bad == {m \in Nat : m <= n /\ ~Laid(m)}
<1>15. ASSUME Bad # {} PROVE FALSE
  <2>1. PICK m \in Bad : \A l \in Bad : m <= l
    BY <1>15, LeastNat
  <2>2. m \in Nat /\ m <= n /\ ~Laid(m)
    BY <2>1
  <2>3. m # 0
    <3>1. Laid(0)
      BY <1>7, CumulativeIs
    <3> HIDE DEF Laid
    <3> QED BY <2>2, <3>1
  <2>4. PICK l : l = m - 1
    OBVIOUS
  <2>5. l \in Nat /\ l <= n /\ ~(m <= l) /\ m \in 1 .. n /\ m = l + 1 /\ l \in 0 .. n
    BY <1>1, <2>2, <2>3, <2>4
  <2>6. Laid(l)
    <3> HIDE DEF Laid
    <3>1. l \notin Bad
      <4> HIDE DEF Bad
      <4> QED BY <2>1, <2>5
    <3> QED BY <2>5, <3>1
  <2>7. PICK p, q : p = g[l] /\ q = PartOf(m)
    OBVIOUS
  <2>8. p \in Seq(Files \X Nat) /\ q \in Seq(Files \X Nat) /\ Len(q) = Count(m) /\ g[m] = p \o q
    BY <1>1, <1>2, <1>6, <1>8, <2>4, <2>5, <2>7 DEF A
  <2>9. /\ Len(p \o q) = Len(p) + Len(q)
        /\ \A k \in 1 .. Len(p) + Len(q) :
             (p \o q)[k] = IF k <= Len(p) THEN p[k] ELSE q[k - Len(p)]
    BY <2>8, ConcatProperties
  <2>10. Len(p) = cumulative[m] /\ cumulative[m + 1] = cumulative[m] + Count(m)
    BY <1>1, <2>5, <2>6, <2>7, CumulativeIs
  <2>11. Len(g[m]) = cumulative[m + 1]
    BY <2>8, <2>9, <2>10
  <2>12. ASSUME NEW f \in 1 .. m, NEW k \in 1 .. Count(f)
         PROVE  g[m][cumulative[f] + k] = <<f, RowsBefore(f) + k - 1>>
    <3>0. f \in Files /\ m \in Files
      BY <1>1, <2>5
    <3>1. /\ f \in Files /\ m \in Files /\ Count(f) \in Nat
          /\ cumulative[f] \in Nat /\ cumulative[m] \in Nat
      BY <1>1, <3>0, CumulativeIs
    <3>2. PICK b \in Nat, c \in Nat : b = cumulative[f] + k /\ c = Count(m)
      BY <1>1, <3>1
    <3>3. CASE f = m
      <4>1. b \in 1 .. Len(p) + Len(q) /\ ~(b <= Len(p)) /\ b - Len(p) = k
        BY <2>8, <2>10, <3>1, <3>2, <3>3
      <4>2. (p \o q)[b] = q[k]
        BY <2>9, <4>1
      <4>3. q[k] = <<m, RowsBefore(m) + k - 1>>
        BY <1>2, <2>7, <3>1, <3>3
      <4> QED BY <2>8, <3>2, <3>3, <4>2, <4>3
    <3>4. CASE f # m
      <4>1. f \in 1 .. l
        BY <2>5, <3>4
      <4>2. p[b] = <<f, RowsBefore(f) + k - 1>>
        BY <2>6, <2>7, <3>2, <4>1
      <4>3. b <= Len(p)
        <5>1. m \in 1 .. Len(Rows) + 1 /\ f < m
          BY <1>1, <2>5, <3>4 DEF n
        <5>2. cumulative[f + 1] <= cumulative[m] /\ cumulative[f + 1] = cumulative[f] + Count(f)
          BY <3>1, <5>1, CumulativeIs
        <5> QED BY <2>10, <3>1, <3>2, <5>2
      <4>4. b \in 1 .. Len(p) + Len(q)
        <5>1. Len(p) \in Nat /\ Len(q) \in Nat /\ k \in Nat /\ 1 <= k
          BY <2>8, <3>1
        <5>2. 1 <= b
          BY ONLY <3>1, <3>2, <5>1
        <5> QED BY ONLY <3>2, <4>3, <5>1, <5>2
      <4> QED BY <2>8, <2>9, <3>2, <4>2, <4>3, <4>4
    <3> QED BY <3>3, <3>4
  <2>13. Laid(m)
    BY <2>11, <2>12
  <2> HIDE DEF Laid
  <2> QED BY <2>2, <2>13
<1>16. Laid(n)
  <2>1. n \notin Bad
    BY <1>15
  <2> HIDE DEF Laid
  <2> QED BY <1>1, <2>1
<1>17. Len(InRange) = Total
  BY <1>14, <1>16, CumulativeIs DEF n
<1> QED BY <1>1, <1>14, <1>16, <1>17 DEF A
\* A number divided, and multiplied back.
LEMMA Multiple ==
    ASSUME NEW r \in Nat, NEW d \in Nat, d > 0
    PROVE  /\ d * (r \div d) \in Nat
           /\ d * (r \div d) <= r /\ r < d * (r \div d) + d
<1>1. r \div d \in Nat /\ r % d \in Nat
  OBVIOUS
<1>2. r = d * (r \div d) + (r % d) /\ (r % d) < d
  OBVIOUS
<1> QED BY <1>1, <1>2

\* The candle with an index lies in its file and in the page of its place, and
\* the rows after it in the file follow it in the range.
LEMMA CandleIs ==
    ASSUME NEW i \in 0 .. Total - 1
    PROVE  /\ locate[i] \in Files /\ Row(i) \in Nat /\ Row(i) < EndOf(locate[i])
           /\ EndOf(locate[i]) - Row(i) = cumulative[locate[i] + 1] - i
           /\ cumulative[locate[i] + 1] \in Nat /\ cumulative[locate[i] + 1] <= Total
           /\ KeyOf(i).file = locate[i] /\ KeyOf(i).offset \in Nat
           /\ KeyOf(i).offset <= Row(i) /\ Row(i) < KeyOf(i).offset + PageSize
           /\ \A k \in Nat : Row(i) + k < EndOf(locate[i]) =>
                InRange[i + k + 1] = <<locate[i], Row(i) + k>>
<1>1. PICK f : f = locate[i]
  OBVIOUS
<1>2. f \in Files /\ cumulative[f] <= i /\ i < cumulative[f + 1]
  BY <1>1, Locates
<1>3. PICK a, b, c, d \in Nat :
        /\ a = RowsBefore(f) /\ b = EndOf(f) /\ c = cumulative[f] /\ d = cumulative[f + 1]
        /\ d = c + (b - a)
  <2>1. RowsBefore(f) \in Nat /\ EndOf(f) \in Nat /\ Count(f) = EndOf(f) - RowsBefore(f)
    BY <1>2, FilesAre
  <2>2. cumulative[f] \in Nat /\ cumulative[f + 1] \in Nat /\ cumulative[f + 1] = cumulative[f] + Count(f)
    BY <1>2, CumulativeIs
  <2> QED BY <2>1, <2>2
<1>4. i \in Nat /\ i < Total /\ c <= i /\ i < d /\ Total \in Nat
  <2>1. Total \in Nat
    BY CumulativeIs
  <2> QED BY <1>2, <1>3, <2>1
<1>5. PICK r \in Nat : r = Row(i) /\ r = i - c + a /\ r < b /\ b - r = d - i
  <2>1. Row(i) = i - c + a
    BY <1>1, <1>3 DEF Row
  <2>2. i - c + a \in Nat /\ i - c + a < b /\ b - (i - c + a) = d - i
    BY ONLY <1>3, <1>4, a \in Nat, b \in Nat, c \in Nat, d \in Nat
  <2> QED BY <2>1, <2>2
<1>6. d <= Total
  <2>1. PICK n \in Nat : n = Len(Rows) /\ Files = 1 .. n
    BY FilesAre
  <2>2. Total = cumulative[n + 1] /\ \A h \in 1 .. n + 1 : f < h => d <= cumulative[h]
    BY <1>2, <1>3, <2>1, CumulativeIs
  <2>3. n + 1 \in 1 .. n + 1 /\ f < n + 1
    BY <1>2, <2>1
  <2> QED BY <2>2, <2>3
<1>7. PageSize \in Nat /\ PageSize > 0
  BY RangeAssumption
<1>8. KeyOf(i).file = f /\ KeyOf(i).offset = PageSize * (r \div PageSize)
  BY <1>1, <1>5 DEF KeyOf
<1>9. KeyOf(i).offset \in Nat /\ KeyOf(i).offset <= r /\ r < KeyOf(i).offset + PageSize
  BY <1>7, <1>8, Multiple
<1>10. ASSUME NEW k \in Nat, r + k < b PROVE InRange[i + k + 1] = <<f, r + k>>
  <2>1. PICK l : l = r - a + k + 1
    OBVIOUS
  <2>2. /\ Count(f) = b - a /\ l \in 1 .. b - a /\ c + l = i + k + 1 /\ a + l - 1 = r + k
    <3>1. Count(f) = b - a
      BY <1>2, <1>3, FilesAre
    <3>2. l \in 1 .. b - a /\ c + l = i + k + 1 /\ a + l - 1 = r + k
      BY ONLY <1>3, <1>4, <1>5, <1>10, <2>1, a \in Nat, b \in Nat, c \in Nat, d \in Nat
    <3> QED BY <3>1, <3>2
  <2>3. InRange[c + l] = <<f, a + l - 1>>
    BY <1>2, <1>3, <2>2, InRangeIs
  <2> QED BY <2>2, <2>3
<1> QED BY <1>1, <1>2, <1>3, <1>5, <1>6, <1>8, <1>9, <1>10

-----------------------------------------------------------------------------
(* RangeBars: the pages *)

\* What a list is without one of its elements.
LEMMA RemovedIs ==
    ASSUME NEW E, NEW c \in Seq(E), NEW i \in 1 .. Len(c)
    PROVE  RemoveAt(c, i) \in Seq(E) /\ Dropped(c, RemoveAt(c, i), i)
<1> DEFINE front == SubSeq(c, 1, i - 1)
           back == SubSeq(c, i + 1, Len(c))
           w == RemoveAt(c, i)
<1>1. DOMAIN c = 1 .. Len(c) /\ Len(c) \in Nat /\ \A n \in 1 .. Len(c) : c[n] \in E
  BY LenProperties
<1>2. i \in 1 .. Len(c)
  OBVIOUS
<1>3. w = front \o back
  BY DEF RemoveAt
<1>4. front \in Seq(E) /\ Len(front) = i - 1 /\ \A n \in 1 .. i - 1 : front[n] = c[n]
  BY <1>1, <1>2, SubSeqProperties
<1>5. back \in Seq(E) /\ Len(back) = Len(c) - i /\ \A n \in 1 .. Len(c) - i : back[n] = c[i + n]
  <2>1. \A n \in i + 1 .. Len(c) : c[n] \in E
    BY <1>1, <1>2
  <2>2. i + 1 \in Int /\ Len(c) \in Int
    BY <1>1, <1>2
  <2>3. /\ back \in Seq(E)
        /\ Len(back) = IF i + 1 <= Len(c) THEN Len(c) - (i + 1) + 1 ELSE 0
        /\ \A n \in 1 .. Len(c) - (i + 1) + 1 : back[n] = c[(i + 1) + n - 1]
    BY <2>1, <2>2, SubSeqProperties
  <2> HIDE DEF back
  <2>4. PICK len \in Nat : len = Len(c)
    BY <1>1
  <2>5. Len(back) = Len(c) - i
    <3>1. CASE i + 1 <= Len(c)
      BY <1>1, <1>2, <2>3, <3>1
    <3>2. CASE ~(i + 1 <= Len(c))
      <4>1. i = len /\ Len(back) = 0
        BY <1>2, <2>3, <2>4, <3>2
      <4> QED BY <2>4, <4>1
    <3> QED BY <3>1, <3>2
  <2>6. ASSUME NEW n \in 1 .. Len(c) - i PROVE back[n] = c[i + n]
    <3>1. n \in 1 .. Len(c) - (i + 1) + 1 /\ (i + 1) + n - 1 = i + n
      BY <1>1, <1>2
    <3>2. back[n] = c[(i + 1) + n - 1]
      BY <2>3, <3>1
    <3> QED BY <3>1, <3>2
  <2> QED BY <2>3, <2>5, <2>6
<1> HIDE DEF w, front, back
<1>6. /\ w \in Seq(E) /\ Len(w) = Len(c) - 1
      /\ \A n \in 1 .. Len(c) - 1 : w[n] = IF n <= i - 1 THEN front[n] ELSE back[n - (i - 1)]
  <2>1. /\ front \o back \in Seq(E) /\ Len(front \o back) = Len(front) + Len(back)
        /\ \A n \in 1 .. Len(front) + Len(back) :
              (front \o back)[n] = IF n <= Len(front) THEN front[n] ELSE back[n - Len(front)]
    BY <1>4, <1>5, ConcatProperties
  <2>2. Len(front) + Len(back) = Len(c) - 1
    BY <1>1, <1>2, <1>4, <1>5
  <2> QED BY <1>3, <1>4, <2>1, <2>2
<1>7. \A n \in 1 .. Len(c) - 1 : w[n] = IF n < i THEN c[n] ELSE c[n + 1]
  <2> SUFFICES ASSUME NEW n \in 1 .. Len(c) - 1
               PROVE  w[n] = IF n < i THEN c[n] ELSE c[n + 1]
    OBVIOUS
  <2>1. w[n] = IF n <= i - 1 THEN front[n] ELSE back[n - (i - 1)]
    BY <1>6
  <2>2. CASE n < i
    BY <1>1, <1>2, <1>4, <2>1, <2>2
  <2>3. CASE ~(n < i)
    <3>1. n - (i - 1) \in 1 .. Len(c) - i /\ i + (n - (i - 1)) = n + 1 /\ ~(n <= i - 1)
      BY <1>1, <1>2, <2>3
    <3>2. w[n] = back[n - (i - 1)]
      BY <2>1, <3>1
    <3> QED BY <1>5, <2>3, <3>1, <3>2
  <2> QED BY <2>2, <2>3
<1> QED BY <1>6, <1>7 DEF w, Dropped

\* The bars of a list of pages, as a list of numbers.
LEMMA LengthsAre ==
    ASSUME NEW c \in Seq(Loadable)
    PROVE  \E v \in Seq(Int) : /\ BarsOf(c) = SumOf(v) /\ Len(v) = Len(c)
                               /\ \A k \in 1 .. Len(c) : v[k] = c[k].len
<1>1. PICK v : v = [k \in DOMAIN c |-> c[k].len]
  OBVIOUS
<1>2. DOMAIN c = 1 .. Len(c) /\ Len(c) \in Nat /\ \A k \in 1 .. Len(c) : c[k] \in Loadable
  OBVIOUS
<1>3. \A k \in 1 .. Len(c) : c[k].len \in Int
  BY <1>2 DEF Loadable, Page
<1>4. v \in Seq(Int) /\ Len(v) = Len(c) /\ \A k \in 1 .. Len(c) : v[k] = c[k].len
  BY <1>1, <1>2, <1>3
<1> QED BY <1>1, <1>4 DEF BarsOf

\* Pages have bars.
LEMMA BarsType ==
    ASSUME NEW c \in Seq(Loadable)
    PROVE  BarsOf(c) \in Int
<1>1. PICK v \in Seq(Int) : BarsOf(c) = SumOf(v)
  BY LengthsAre
<1> QED BY <1>1, SumType

\* A page more adds its bars.
LEMMA BarsAppended ==
    ASSUME NEW c \in Seq(Loadable), NEW p \in Loadable
    PROVE  BarsOf(Append(c, p)) = BarsOf(c) + p.len /\ BarsOf(c) \in Int
<1>1. PICK a : a = Append(c, p)
  OBVIOUS
<1>2. /\ a \in Seq(Loadable) /\ Len(a) = Len(c) + 1 /\ Len(c) \in Nat
      /\ \A k \in 1 .. Len(c) : a[k] = c[k]
      /\ a[Len(c) + 1] = p
  BY <1>1, AppendProperties
<1>3. PICK v \in Seq(Int) : /\ BarsOf(c) = SumOf(v) /\ Len(v) = Len(c)
                            /\ \A k \in 1 .. Len(c) : v[k] = c[k].len
  BY LengthsAre
<1>4. PICK w \in Seq(Int) : /\ BarsOf(a) = SumOf(w) /\ Len(w) = Len(a)
                            /\ \A k \in 1 .. Len(a) : w[k] = a[k].len
  BY <1>2, LengthsAre
<1>5. Len(w) = Len(v) + 1 /\ \A k \in 1 .. Len(v) : w[k] = v[k]
  BY <1>2, <1>3, <1>4
<1>6. SumOf(w) = SumOf(v) + w[Len(w)]
  BY <1>5, SumAppended
<1>7. w[Len(w)] = p.len
  BY <1>2, <1>4
<1> QED BY <1>1, <1>3, <1>4, <1>6, <1>7, SumType

\* A page less takes its bars away.
LEMMA BarsRemoved ==
    ASSUME NEW c \in Seq(Loadable), NEW w \in Seq(Loadable), NEW i \in 1 .. Len(c),
           Dropped(c, w, i)
    PROVE  BarsOf(w) = BarsOf(c) - c[i].len /\ BarsOf(c) \in Int
<1>1. PICK v \in Seq(Int) : /\ BarsOf(c) = SumOf(v) /\ Len(v) = Len(c)
                            /\ \A k \in 1 .. Len(c) : v[k] = c[k].len
  BY LengthsAre
<1>2. PICK u \in Seq(Int) : /\ BarsOf(w) = SumOf(u) /\ Len(u) = Len(w)
                            /\ \A k \in 1 .. Len(w) : u[k] = w[k].len
  BY LengthsAre
<1>3. /\ Len(w) = Len(c) - 1 /\ Len(c) \in Nat
      /\ \A n \in 1 .. Len(w) : w[n] = IF n < i THEN c[n] ELSE c[n + 1]
  BY DEF Dropped
<1>4. Dropped(v, u, i)
  <2>1. ASSUME NEW n \in 1 .. Len(u) PROVE u[n] = IF n < i THEN v[n] ELSE v[n + 1]
    <3>1. n \in 1 .. Len(w) /\ n \in 1 .. Len(c) /\ n + 1 \in 1 .. Len(c)
      BY <1>2, <1>3
    <3>2. u[n] = w[n].len /\ w[n] = IF n < i THEN c[n] ELSE c[n + 1]
      BY <1>2, <1>3, <3>1
    <3>3. v[n] = c[n].len /\ v[n + 1] = c[n + 1].len
      BY <1>1, <3>1
    <3> QED BY <3>2, <3>3
  <2> QED BY <1>1, <1>2, <1>3, <2>1 DEF Dropped
<1>5. i \in 1 .. Len(v)
  BY <1>1
<1>6. SumOf(u) = SumOf(v) - v[i]
  BY <1>4, <1>5, SumDropped
<1> QED BY <1>1, <1>2, <1>6, SumType

\* A page in the place of another changes the bars by the difference.
LEMMA BarsReplaced ==
    ASSUME NEW c \in Seq(Loadable), NEW w \in Seq(Loadable), Len(w) = Len(c),
           NEW i \in 1 .. Len(c), \A k \in 1 .. Len(c) : k # i => w[k] = c[k]
    PROVE  BarsOf(w) = BarsOf(c) - c[i].len + w[i].len /\ BarsOf(c) \in Int
<1>1. PICK v \in Seq(Int) : /\ BarsOf(c) = SumOf(v) /\ Len(v) = Len(c)
                            /\ \A k \in 1 .. Len(c) : v[k] = c[k].len
  BY LengthsAre
<1>2. PICK u \in Seq(Int) : /\ BarsOf(w) = SumOf(u) /\ Len(u) = Len(w)
                            /\ \A k \in 1 .. Len(w) : u[k] = w[k].len
  BY LengthsAre
<1>3. /\ Len(v) = Len(u) /\ i \in 1 .. Len(v)
      /\ \A k \in 1 .. Len(v) : k # i => v[k] = u[k]
  BY <1>1, <1>2
<1>4. SumOf(u) = SumOf(v) - v[i] + u[i]
  BY <1>3, SumsDiffer
<1>5. v[i] = c[i].len /\ u[i] = w[i].len
  BY <1>1, <1>2
<1> QED BY <1>1, <1>2, <1>4, <1>5, SumType

\* What is due changes with what is due of one thread.
LEMMA DueChanged ==
    ASSUME NEW f \in [Threads -> Reading], NEW g \in [Threads -> Reading], NEW t \in Threads,
           \A u \in Threads : u # t => g[u] = f[u]
    PROVE  DueOf(g) = DueOf(f) - f[t].due + g[t].due /\ DueOf(f) \in Int
<1>1. Workers \in Nat /\ Threads = 1 .. Workers
  BY RangeAssumption DEF Threads
<1>2. PICK v, w : v = [u \in Threads |-> f[u].due] /\ w = [u \in Threads |-> g[u].due]
  OBVIOUS
<1>3. \A u \in Threads : f[u].due \in Int /\ g[u].due \in Int
  BY DEF Reading
<1>4. v \in Seq(Int) /\ w \in Seq(Int) /\ Len(v) = Workers /\ Len(w) = Workers
  BY <1>1, <1>2, <1>3
<1>5. /\ Len(v) = Len(w) /\ t \in 1 .. Len(v)
      /\ \A u \in 1 .. Len(v) : u # t => v[u] = w[u]
  BY <1>1, <1>2, <1>4
<1>6. SumOf(w) = SumOf(v) - v[t] + w[t] /\ SumOf(v) \in Int
  BY <1>4, <1>5, SumsDiffer, SumType
<1>7. v[t] = f[t].due /\ w[t] = g[t].due
  BY <1>2
<1>8. DueOf(f) = SumOf(v) /\ DueOf(g) = SumOf(w)
  BY <1>2 DEF DueOf
<1> QED BY <1>6, <1>7, <1>8

\* Nobody owes anything at first.
LEMMA NothingDue ==
    ASSUME NEW f \in [Threads -> Reading], \A u \in Threads : f[u].due = 0
    PROVE  DueOf(f) = 0
<1>1. Workers \in Nat /\ Threads = 1 .. Workers
  BY RangeAssumption DEF Threads
<1>2. PICK v : v = [u \in Threads |-> f[u].due]
  OBVIOUS
<1>3. v \in Seq(Int) /\ DOMAIN v = Threads /\ \A u \in Threads : v[u] = 0
  BY <1>1, <1>2
<1>4. SumOver({}, v) = 0
  BY <1>3, SumOverNowhere
<1>5. PICK m : m = [k \in DOMAIN v |-> IF k \in {} THEN v[k] ELSE 0]
  OBVIOUS
<1>6. m = v
  BY <1>2, <1>3, <1>5
<1>7. SumOver({}, v) = SumOf(m)
  BY <1>5 DEF SumOver
<1> QED BY <1>2, <1>4, <1>6, <1>7 DEF DueOf

\* Of pages of different places some are left, and none of them twice.
LEMMA RemovedOnce ==
    ASSUME NEW c \in Seq(Loadable), NEW w \in Seq(Loadable), NEW i \in 1 .. Len(c),
           Dropped(c, w, i), OneEach(c)
    PROVE  /\ OneEach(w)
           /\ \A n \in DOMAIN w : ~IsPage(w[n], c[i])
           /\ \A key : HoldsIn(w, key) => HoldsIn(c, key)
<1>1. /\ Len(w) = Len(c) - 1 /\ Len(c) \in Nat /\ DOMAIN w = 1 .. Len(w) /\ DOMAIN c = 1 .. Len(c)
      /\ \A n \in 1 .. Len(w) : w[n] = IF n < i THEN c[n] ELSE c[n + 1]
  BY DEF Dropped
<1>2. ASSUME NEW n \in DOMAIN w
      PROVE  \E k \in DOMAIN c : w[n] = c[k] /\ k # i /\ k = IF n < i THEN n ELSE n + 1
  <2>1. n \in 1 .. Len(c) /\ n + 1 \in 1 .. Len(c)
    BY <1>1
  <2>2. CASE n < i
    BY <1>1, <2>1, <2>2
  <2>3. CASE ~(n < i)
    BY <1>1, <2>1, <2>3
  <2> QED BY <2>2, <2>3
<1>3. OneEach(w)
  <2> SUFFICES ASSUME NEW m \in DOMAIN w, NEW n \in DOMAIN w, IsPage(w[m], w[n]) PROVE m = n
    BY DEF OneEach
  <2>1. PICK j \in DOMAIN c : w[m] = c[j] /\ j = IF m < i THEN m ELSE m + 1
    BY <1>2
  <2>2. PICK k \in DOMAIN c : w[n] = c[k] /\ k = IF n < i THEN n ELSE n + 1
    BY <1>2
  <2>3. j = k
    BY <2>1, <2>2 DEF OneEach
  <2>4. m \in Nat /\ n \in Nat /\ i \in Nat
    BY <1>1
  <2> QED BY <2>1, <2>2, <2>3, <2>4
<1>4. ASSUME NEW n \in DOMAIN w PROVE ~IsPage(w[n], c[i])
  <2>1. PICK k \in DOMAIN c : w[n] = c[k] /\ k # i
    BY <1>2
  <2> QED BY <1>1, <2>1 DEF OneEach
<1>5. ASSUME NEW key, HoldsIn(w, key) PROVE HoldsIn(c, key)
  <2>1. PICK n \in DOMAIN w : IsPage(w[n], key)
    BY <1>5 DEF HoldsIn
  <2>2. PICK k \in DOMAIN c : w[n] = c[k]
    BY <1>2
  <2> QED BY <2>1, <2>2 DEF HoldsIn
<1> QED BY <1>3, <1>4, <1>5

\* A page of a new place may be appended.
LEMMA AppendedOnce ==
    ASSUME NEW c \in Seq(Loadable), NEW p \in Loadable, OneEach(c),
           \A n \in DOMAIN c : ~IsPage(c[n], p)
    PROVE  Append(c, p) \in Seq(Loadable) /\ OneEach(Append(c, p))
<1>1. PICK a : a = Append(c, p)
  OBVIOUS
<1>2. /\ a \in Seq(Loadable) /\ Len(a) = Len(c) + 1 /\ Len(c) \in Nat
      /\ \A k \in 1 .. Len(c) : a[k] = c[k]
      /\ a[Len(c) + 1] = p
  BY <1>1, AppendProperties
<1>3. DOMAIN c = 1 .. Len(c) /\ DOMAIN a = 1 .. Len(c) + 1
  BY <1>2
<1>4. OneEach(a)
  <2> SUFFICES ASSUME NEW m \in DOMAIN a, NEW n \in DOMAIN a, IsPage(a[m], a[n]) PROVE m = n
    BY DEF OneEach
  <2>1. IsPage(a[n], a[m])
    BY DEF IsPage
  <2>2. CASE m \in 1 .. Len(c) /\ n \in 1 .. Len(c)
    BY <1>2, <1>3, <2>2 DEF OneEach
  <2>3. CASE m = Len(c) + 1 /\ n \in 1 .. Len(c)
    BY <1>2, <1>3, <2>1, <2>3
  <2>4. CASE n = Len(c) + 1 /\ m \in 1 .. Len(c)
    BY <1>2, <1>3, <2>4
  <2> QED BY <1>2, <1>3, <2>2, <2>3, <2>4
<1> QED BY <1>1, <1>2, <1>4
-----------------------------------------------------------------------------
(* RangeBars: a page read *)

\* The list c is what the list s goes on with after place b.
GoesOn(s, b, c) == b + Len(c) <= Len(s) /\ \A k \in 1 .. Len(c) : c[k] = s[b + k]

\* What follows a stretch of a list is the rest of a longer stretch.
LEMMA Stretches ==
    ASSUME NEW E, NEW s \in Seq(E), NEW a \in Nat, NEW b \in Nat, NEW c \in Seq(E),
           a <= b, GoesOn(s, b, c)
    PROVE  SubSeq(s, a + 1, b) \o c = SubSeq(s, a + 1, b + Len(c))
<1> DEFINE p == SubSeq(s, a + 1, b)
           q == SubSeq(s, a + 1, b + Len(c))
<1>1. /\ Len(c) \in Nat /\ Len(s) \in Nat
      /\ b + Len(c) <= Len(s) /\ \A k \in 1 .. Len(c) : c[k] = s[b + k]
  BY DEF GoesOn
<1>2. PICK m \in Nat, n \in Nat : m = Len(c) /\ n = Len(s)
  BY <1>1
<1>3. p \in Seq(E) /\ Len(p) = b - a /\ \A k \in 1 .. b - a : p[k] = s[a + k]
  <2>1. \A k \in a + 1 .. b : s[k] \in E
    BY <1>1, <1>2
  <2>2. a + 1 \in Int /\ b \in Int
    OBVIOUS
  <2>3. /\ p \in Seq(E)
        /\ Len(p) = IF a + 1 <= b THEN b - (a + 1) + 1 ELSE 0
        /\ \A k \in 1 .. b - (a + 1) + 1 : p[k] = s[(a + 1) + k - 1]
    BY <2>1, <2>2, SubSeqProperties
  <2> HIDE DEF p
  <2>4. Len(p) = b - a
    <3>1. CASE a + 1 <= b
      BY <2>3, <3>1
    <3>2. CASE ~(a + 1 <= b)
      BY <2>3, <3>2
    <3> QED BY <3>1, <3>2
  <2>5. ASSUME NEW k \in 1 .. b - a PROVE p[k] = s[a + k]
    <3>1. k \in 1 .. b - (a + 1) + 1 /\ (a + 1) + k - 1 = a + k
      OBVIOUS
    <3> QED BY <2>3, <3>1
  <2> QED BY <2>3, <2>4, <2>5
<1>4. PICK d \in Nat : d = b + m
  OBVIOUS
<1>5. q \in Seq(E) /\ Len(q) = d - a /\ \A k \in 1 .. d - a : q[k] = s[a + k]
  <2>1. \A k \in a + 1 .. d : s[k] \in E
    BY <1>1, <1>2, <1>4
  <2>2. a + 1 \in Int /\ d \in Int /\ q = SubSeq(s, a + 1, d)
    BY <1>2, <1>4
  <2>3. /\ q \in Seq(E)
        /\ Len(q) = IF a + 1 <= d THEN d - (a + 1) + 1 ELSE 0
        /\ \A k \in 1 .. d - (a + 1) + 1 : q[k] = s[(a + 1) + k - 1]
    BY <2>1, <2>2, SubSeqProperties
  <2> HIDE DEF q
  <2>4. Len(q) = d - a
    <3>1. CASE a + 1 <= d
      BY <2>3, <3>1
    <3>2. CASE ~(a + 1 <= d)
      BY <1>4, <2>3, <3>2
    <3> QED BY <3>1, <3>2
  <2>5. ASSUME NEW k \in 1 .. d - a PROVE q[k] = s[a + k]
    <3>1. k \in 1 .. d - (a + 1) + 1 /\ (a + 1) + k - 1 = a + k
      OBVIOUS
    <3> QED BY <2>3, <3>1
  <2> QED BY <2>3, <2>4, <2>5
<1> HIDE DEF p, q
<1>6. /\ p \o c \in Seq(E) /\ Len(p \o c) = Len(p) + Len(c)
      /\ \A k \in 1 .. Len(p) + Len(c) :
           (p \o c)[k] = IF k <= Len(p) THEN p[k] ELSE c[k - Len(p)]
  BY <1>3, ConcatProperties
<1>7. Len(p \o c) = Len(q)
  BY <1>2, <1>3, <1>4, <1>5, <1>6
<1>8. ASSUME NEW k \in 1 .. Len(q) PROVE (p \o c)[k] = q[k]
  <2>1. k \in 1 .. d - a /\ k \in 1 .. Len(p) + Len(c)
    BY <1>5, <1>6, <1>7
  <2>2. CASE k <= Len(p)
    <3>1. k \in 1 .. b - a
      BY <1>3, <2>1, <2>2
    <3> QED BY <1>3, <1>5, <1>6, <2>1, <2>2, <3>1
  <2>3. CASE ~(k <= Len(p))
    <3>1. PICK l : l = k - Len(p)
      OBVIOUS
    <3>2. l \in 1 .. Len(c) /\ b + l = a + k
      BY <1>2, <1>3, <1>4, <2>1, <2>3, <3>1
    <3>3. (p \o c)[k] = c[l] /\ c[l] = s[b + l]
      BY <1>1, <1>6, <2>1, <2>3, <3>1, <3>2
    <3> QED BY <1>5, <2>1, <3>2, <3>3
  <2> QED BY <2>2, <2>3
<1>9. PICK x, y : x = p \o c /\ y = q
  OBVIOUS
<1>10. x \in Seq(E) /\ y \in Seq(E) /\ Len(x) = Len(y) /\ \A k \in 1 .. Len(x) : x[k] = y[k]
  BY <1>5, <1>6, <1>7, <1>8, <1>9
<1>11. x = y
  BY ONLY <1>10, SeqEqual
<1> QED BY <1>9, <1>11 DEF p, q

\* The page of a candle holds it, and the candles taken from it are the next
\* ones of the range, no more than are asked for.
LEMMA TakesNext ==
    ASSUME NEW r, ReadIsSound(r), r.pc \in InHand
    PROVE  LET candles == CandlesFrom(r.page, r, Reached(r))
           IN  /\ candles \in Seq(Files \X Nat) /\ Len(candles) > 0
               /\ Reached(r) + Len(candles) <= r.upto
               /\ r.got \o candles =
                    SubSeq(InRange, r.from + 1, Reached(r) + Len(candles))
<1>1. /\ r \in Reading /\ r.upto <= Total /\ Reached(r) < r.upto
      /\ r.how = "iterate" => r.upto = Total
      /\ r.got = SubSeq(InRange, r.from + 1, Reached(r))
      /\ r.page \in Loadable /\ IsPage(r.page, KeyOf(Reached(r)))
  <2>1. r.pc \notin Ended /\ r.pc # "idle"
    BY DEF InHand, Ended
  <2> QED BY <2>1 DEF ReadIsSound
<1>2. /\ r.from \in Nat /\ r.upto \in Nat /\ r.got \in Seq(Files \X Nat) /\ Len(r.got) \in Nat
      /\ r.how \in {"slice", "iterate"}
  <2>1. /\ r.from \in Nat /\ r.upto \in Nat /\ r.got \in Seq(Files \X Nat)
        /\ r.how \in {"slice", "iterate"}
    BY <1>1 DEF Reading
  <2>2. PICK g : g = r.got
    OBVIOUS
  <2>3. Len(g) \in Nat
    BY <2>1, <2>2
  <2> QED BY <2>1, <2>2, <2>3
<1>3. PICK i \in Nat : i = Reached(r) /\ r.from <= i /\ i < r.upto
  BY <1>1, <1>2 DEF Reached
<1>4. Total \in Nat /\ i \in 0 .. Total - 1
  <2>1. Total \in Nat
    BY CumulativeIs
  <2> QED BY <1>1, <1>2, <1>3, <2>1
<1>5. PICK f \in Files : f = locate[i]
  BY <1>4, CandleIs
<1>6. PICK R \in Nat, B \in Nat, o \in Nat, d \in Nat :
        /\ R = Row(i) /\ B = EndOf(f) /\ o = KeyOf(i).offset /\ d = cumulative[f + 1]
        /\ R < B /\ B - R = d - i /\ d <= Total /\ o <= R /\ R < o + PageSize
        /\ KeyOf(i).file = f
  <2>1. EndOf(f) \in Nat
    BY FilesAre
  <2>2. PICK R, B, o, d : R = Row(i) /\ B = EndOf(f) /\ o = KeyOf(i).offset /\ d = cumulative[f + 1]
    OBVIOUS
  <2>3. /\ R \in Nat /\ R < B /\ B - R = d - i /\ d \in Nat /\ d <= Total
        /\ KeyOf(i).file = f /\ o \in Nat /\ o <= R /\ R < o + PageSize
    BY <1>4, <1>5, <2>2, CandleIs
  <2> QED BY <2>1, <2>2, <2>3
<1>7. \A k \in Nat : R + k < B => InRange[i + k + 1] = <<f, R + k>>
  BY <1>4, <1>5, <1>6, CandleIs
<1>8. r.page.file = f /\ r.page.offset = o
  BY <1>1, <1>3, <1>6 DEF IsPage
<1>9. PICK L \in Nat : /\ L = r.page.len /\ o + L <= B
                       /\ L >= Shorter(PageSize, B - o)
  BY <1>1, <1>6, <1>8 DEF Loadable, Page
<1>10. PageSize \in Nat
  BY RangeAssumption
<1>11. PICK u \in Nat : u = r.upto /\ i < u
  BY <1>2, <1>3
<1>12. PICK s \in Nat : s = R - o /\ s < L
  <2>1. R - o \in Nat
    BY ONLY <1>6, R \in Nat, o \in Nat
  <2>2. CASE PageSize < B - o
    BY <1>6, <1>9, <1>10, <2>1, <2>2 DEF Shorter
  <2>3. CASE ~(PageSize < B - o)
    BY <1>6, <1>9, <1>10, <2>1, <2>3 DEF Shorter
  <2> QED BY <2>1, <2>2, <2>3
<1>13. PICK e \in Nat : /\ e = (IF r.how = "slice" THEN Shorter(L, s + u - i) ELSE L)
                        /\ s < e /\ e <= L /\ e - s <= u - i
  <2>1. CASE r.how = "slice"
    <3>1. PICK w \in Nat : w = s + u - i /\ s < w /\ w - s = u - i
      BY <1>11
    <3>2. CASE L < w
      BY <1>12, <2>1, <3>1, <3>2 DEF Shorter
    <3>3. CASE ~(L < w)
      BY <1>12, <2>1, <3>1, <3>3 DEF Shorter
    <3> QED BY <3>2, <3>3
  <2>2. CASE r.how # "slice"
    <3>1. u = Total
      BY <1>1, <1>2, <1>11, <2>2
    <3>2. L - s <= d - i
      BY ONLY <1>6, <1>9, <1>12, R \in Nat, B \in Nat, o \in Nat, d \in Nat, L \in Nat, s \in Nat, i \in Nat
    <3>3. L - s <= u - i
      BY ONLY <1>4, <1>6, <3>1, <3>2, d \in Nat, L \in Nat, s \in Nat, i \in Nat
    <3> QED BY <1>12, <2>2, <3>3
  <2> QED BY <2>1, <2>2
<1>14. PICK m \in Nat : m = e - s /\ m > 0 /\ m <= u - i /\ R + m <= B
  <2>1. e - s \in Nat /\ e - s > 0 /\ R + (e - s) <= B
    BY ONLY <1>6, <1>9, <1>12, <1>13, R \in Nat, B \in Nat, o \in Nat, L \in Nat, s \in Nat, e \in Nat
  <2> QED BY <1>13, <2>1
<1>15. PICK c : c = CandlesFrom(r.page, r, Reached(r))
  OBVIOUS
<1>16. c = [k \in 1 .. m |-> <<f, o + s + k - 1>>]
  <2>1. Longer(e - s, 0) = m
    BY <1>14 DEF Longer
  <2> QED BY <1>3, <1>6, <1>8, <1>9, <1>11, <1>12, <1>13, <1>15, <2>1 DEF CandlesFrom
<1>17. \A k \in 1 .. m : c[k] = InRange[i + k] /\ c[k] \in Files \X Nat
  <2> SUFFICES ASSUME NEW k \in 1 .. m
               PROVE  c[k] = InRange[i + k] /\ c[k] \in Files \X Nat
    OBVIOUS
  <2>1. PICK l \in Nat : l = k - 1
    BY <1>14
  <2>2. R + l < B /\ i + l + 1 = i + k /\ o + s + k - 1 = R + l
    BY ONLY <1>12, <1>14, <2>1, k \in 1 .. m, R \in Nat, B \in Nat, o \in Nat, m \in Nat, i \in Nat, l \in Nat
  <2>3. InRange[i + k] = <<f, R + l>>
    BY <1>7, <2>2
  <2> QED BY <1>16, <2>2, <2>3
<1>18. c \in Seq(Files \X Nat) /\ Len(c) = m
  <2>1. PICK E : E = Files \X Nat
    OBVIOUS
  <2>2. c \in [1 .. m -> E]
    BY <1>16, <1>17, <2>1
  <2>3. c \in Seq(E) /\ Len(c) = m
    BY ONLY <2>2, m \in Nat
  <2> QED BY <2>1, <2>3
<1>19. r.got \o c = SubSeq(InRange, r.from + 1, i + Len(c))
  <2>1. PICK E, a, whole : E = Files \X Nat /\ a = r.from /\ whole = InRange
    OBVIOUS
  <2>2. /\ whole \in Seq(E) /\ a \in Nat /\ i \in Nat /\ c \in Seq(E)
        /\ a <= i /\ GoesOn(whole, i, c)
    <3>1. whole \in Seq(E) /\ Len(whole) = Total
      BY <2>1, InRangeIs
    <3>2. i + m <= Total
      BY <1>1, <1>4, <1>11, <1>14
    <3>3. GoesOn(whole, i, c)
      BY <1>17, <1>18, <2>1, <3>1, <3>2 DEF GoesOn
    <3> QED BY <1>2, <1>3, <1>18, <2>1, <3>1, <3>3
  <2>3. SubSeq(whole, a + 1, i) \o c = SubSeq(whole, a + 1, i + Len(c))
    BY ONLY <2>2, Stretches
  <2>4. r.got = SubSeq(InRange, a + 1, i)
    BY <1>1, <1>3, <2>1
  <2> QED BY <2>1, <2>3, <2>4
<1>20. i + Len(c) <= r.upto /\ Len(c) > 0
  BY <1>11, <1>14, <1>18
<1> QED BY <1>3, <1>15, <1>18, <1>19, <1>20
-----------------------------------------------------------------------------
(* RangeBars: every step keeps the invariant *)

\* A step that leaves no count over its bound unwatched: its thread watches, or
\* it has not watched before, and what others hold on to is still there.
KeepsWatch(r, c, n, r2, c2, n2) ==
    \/ OverBound(c2, n2) => Watches(r2, c2)
    \/ /\ n2 = n /\ ~Watches(r, c)
       /\ c2 # <<>> => c # <<>>
       /\ \A key : HoldsIn(c, key) => HoldsIn(c2, key)

\* The bars b, the count n, the drift d and what is due before and after a step.
Balances(b, n, d, due, b2, n2, d2, due2) == b2 - n2 - d2 - due2 = b - n - d - due

\* Whatever the others do, a step of a thread that leaves its own read sound and
\* the pages sound, changes the bars as it says and watches the count, is sound.
LEMMA StepKeeps ==
    ASSUME RangeInv, NEW t \in Threads, NEW r, r = read[t], NEW r2,
           read' = [read EXCEPT ![t] = r2],
           ReadIsSound(r2), PagesAreSound',
           Balances(BarsOf(pages), cachedBars, drift, r.due,
                    BarsOf(pages'), cachedBars', drift', r2.due),
           KeepsWatch(r, pages, cachedBars, r2, pages', cachedBars')
    PROVE  RangeInv'
<1>1. /\ read \in [Threads -> Reading] /\ r2 \in Reading /\ r \in Reading
      /\ \A u \in Threads : ReadIsSound(read[u])
  BY DEF RangeInv, ReadsAreSound, ReadIsSound
<1>2. /\ read' \in [Threads -> Reading] /\ read'[t] = r2
      /\ \A u \in Threads : u # t => read'[u] = read[u]
  BY <1>1
<1>3. ReadsAreSound'
  <2>1. \A u \in Threads : ReadIsSound(read'[u])
    BY <1>1, <1>2
  <2> QED BY <1>2, <2>1 DEF ReadsAreSound
<1>4. BarsOf(pages') = cachedBars' + DueOf(read') + drift'
  <2>1. DueOf(read') = DueOf(read) - r.due + r2.due /\ DueOf(read) \in Int
    <3>1. PICK f, g : f = read /\ g = read'
      OBVIOUS
    <3>2. /\ f \in [Threads -> Reading] /\ g \in [Threads -> Reading] /\ t \in Threads
          /\ \A u \in Threads : u # t => g[u] = f[u]
      BY <1>1, <1>2, <3>1
    <3>3. DueOf(g) = DueOf(f) - f[t].due + g[t].due /\ DueOf(f) \in Int
      BY ONLY <3>2, DueChanged
    <3> QED BY <1>2, <3>1, <3>3
  <2>2. BarsOf(pages) = cachedBars + DueOf(read) + drift
    BY DEF RangeInv, CountsAreSound
  <2>3. /\ cachedBars \in Int /\ drift \in Int /\ cachedBars' \in Int /\ drift' \in Int
        /\ r.due \in Int /\ r2.due \in Int
    BY <1>1 DEF RangeInv, PagesAreSound, Reading
  <2>4. BarsOf(pages') \in Int
    <3>1. pages' \in Seq(Loadable)
      BY DEF PagesAreSound
    <3> QED BY <3>1, BarsType
  <2>5. BarsOf(pages') - cachedBars' - drift' - r2.due
           = BarsOf(pages) - cachedBars - drift - r.due
    BY DEF Balances
  <2> QED BY ONLY <2>1, <2>2, <2>3, <2>4, <2>5
<1>5. ASSUME OverBound(pages', cachedBars')
      PROVE  \E u \in Threads : Watches(read'[u], pages')
  <2>1. CASE Watches(r2, pages')
    BY <1>2, <2>1
  <2>2. CASE ~Watches(r2, pages')
    <3>1. /\ cachedBars' = cachedBars /\ ~Watches(r, pages)
          /\ pages' # <<>> => pages # <<>>
          /\ \A key : HoldsIn(pages, key) => HoldsIn(pages', key)
      BY <1>5, <2>2 DEF KeepsWatch
    <3>2. OverBound(pages, cachedBars)
      BY <1>5, <3>1 DEF OverBound
    <3>3. PICK u \in Threads : Watches(read[u], pages)
      BY <3>2 DEF RangeInv, CountsAreSound
    <3>4. u # t /\ read'[u] = read[u]
      BY <1>2, <3>1, <3>3
    <3>5. Watches(read[u], pages')
      BY <3>1, <3>3 DEF Watches
    <3> QED BY <3>4, <3>5
  <2> QED BY <2>1, <2>2
<1>6. CountsAreSound'
  BY <1>4, <1>5 DEF CountsAreSound
<1> QED BY <1>3, <1>6 DEF RangeInv

\* A step that changes neither pages nor counts is sound, if its thread watches
\* the count afterwards, did not do so before or sees the count within its bound.
LEMMA LookKeeps ==
    ASSUME RangeInv, NEW t \in Threads, NEW r, r = read[t], NEW r2,
           read' = [read EXCEPT ![t] = r2], ReadIsSound(r2), r2.due = r.due,
           UNCHANGED <<pages, cachedBars, drift>>, reads' \in 0 .. MaxReads,
           \/ Watches(r2, pages)
           \/ ~Watches(r, pages)
           \/ ~OverBound(pages, cachedBars)
    PROVE  RangeInv'
<1>1. /\ pages' = pages /\ cachedBars' = cachedBars /\ drift' = drift
  OBVIOUS
<1>2. PagesAreSound'
  BY <1>1 DEF RangeInv, PagesAreSound
<1>3. Balances(BarsOf(pages), cachedBars, drift, r.due,
               BarsOf(pages'), cachedBars', drift', r2.due)
  BY <1>1 DEF Balances
<1>4. KeepsWatch(r, pages, cachedBars, r2, pages', cachedBars')
  BY <1>1 DEF KeepsWatch
<1> QED BY <1>2, <1>3, <1>4, StepKeeps

\* What is known of a thread that reads.
LEMMA ReaderFacts ==
    ASSUME RangeInv, NEW t \in Threads, NEW r, r = read[t], r.pc \notin Ended
    PROVE  /\ At(t) = Reached(r)
           /\ r \in Reading /\ ReadIsSound(r) /\ PagesAreSound
           /\ Reached(r) \in 0 .. Total - 1
           /\ BarsOf(pages) \in Int
<1>1. At(t) = Reached(r)
  BY DEF At, Reached
<1>2. r \in Reading /\ ReadIsSound(r)
  BY DEF RangeInv, ReadsAreSound
<1>3. Reached(r) < r.upto /\ r.upto <= Total
  BY <1>2 DEF ReadIsSound
<1>4. Reached(r) \in Nat /\ r.upto \in Nat /\ Total \in Nat
  <2>1. r.from \in Nat /\ r.got \in Seq(Files \X Nat) /\ r.upto \in Nat
    BY <1>2 DEF Reading
  <2>2. PICK g : g = r.got
    OBVIOUS
  <2>3. Len(g) \in Nat
    BY <2>1, <2>2
  <2> QED BY <2>1, <2>2, <2>3, CumulativeIs DEF Reached
<1>5. BarsOf(pages) \in Int
  BY BarsType DEF RangeInv, PagesAreSound
<1> QED BY <1>1, <1>2, <1>3, <1>4, <1>5 DEF RangeInv

\* r2 is a thread at another point of the same read.
SameRead(r, r2) ==
    /\ r2 \in Reading
    /\ r2.how = r.how /\ r2.from = r.from /\ r2.upto = r.upto /\ r2.got = r.got

\* A read that has not gone on is as sound as it was, if its page is.
LEMMA StaysSound ==
    ASSUME NEW r, ReadIsSound(r), r.pc \notin Ended, NEW r2, SameRead(r, r2),
           r2.pc \notin {"idle", "done"},
           r2.pc \in InHand => r2.page \in Loadable /\ IsPage(r2.page, KeyOf(Reached(r))),
           r2.pc \notin Counting => r2.due = 0
    PROVE  ReadIsSound(r2) /\ Reached(r2) = Reached(r)
<1>1. Reached(r2) = Reached(r)
  BY DEF Reached, SameRead
<1>2. r.pc # "idle" /\ r.pc # "done"
  BY DEF Ended
<1> QED BY <1>1, <1>2 DEF ReadIsSound, SameRead

\* The record of a thread that has its page in hand and goes on to pc.
GoesTo(r, r2, pc, due, old) ==
    /\ r2 = [r EXCEPT !.pc = pc, !.due = due, !.old = old]
    /\ pc \in InHand \cup {"failed"} /\ due \in Int /\ old \in Int
    /\ pc \notin Counting => due = 0

\* It is as sound as it was.
LEMMA GoesToSound ==
    ASSUME NEW r, ReadIsSound(r), r.pc \in InHand, NEW pc, NEW due, NEW old,
           NEW r2, GoesTo(r, r2, pc, due, old)
    PROVE  /\ ReadIsSound(r2) /\ Reached(r2) = Reached(r)
           /\ r2.pc = pc /\ r2.due = due /\ r2.old = old /\ r2.page = r.page
<1>1. /\ r \in Reading /\ r.pc \notin Ended
      /\ r.page \in Loadable /\ IsPage(r.page, KeyOf(Reached(r)))
  BY DEF ReadIsSound, InHand, Ended
<1>2. /\ r2 = [r EXCEPT !.pc = pc, !.due = due, !.old = old]
      /\ pc \in InHand \cup {"failed"} /\ due \in Int /\ old \in Int
      /\ pc \notin Counting => due = 0
  BY DEF GoesTo
<1>3. /\ r2.pc = pc /\ r2.due = due /\ r2.old = old /\ r2.page = r.page
      /\ r2.how = r.how /\ r2.from = r.from /\ r2.upto = r.upto /\ r2.got = r.got
  BY ONLY <1>1, <1>2 DEF Reading
<1>4. r2 \in Reading
  <2>1. pc \in Ended \cup InHand \cup {"lookup", "load"}
    BY <1>2 DEF Ended
  <2> QED BY ONLY <1>1, <1>2, <2>1 DEF Reading
<1>5. r2.pc \notin {"idle", "done"}
  BY <1>2, <1>3 DEF InHand
<1>6. SameRead(r, r2)
  BY <1>3, <1>4 DEF SameRead
<1> QED BY <1>1, <1>2, <1>3, <1>5, <1>6, StaysSound

\* The pages of other places are the pages without the one of a place, if any.
LEMMA OthersAre ==
    ASSUME PagesAreSound, NEW key
    PROVE  /\ Others(key) \in Seq(Loadable) /\ OneEach(Others(key))
           /\ \A n \in DOMAIN Others(key) : ~IsPage(Others(key)[n], key)
           /\ ~Holds(key) => Others(key) = pages
           /\ Holds(key) => /\ PlaceOf(key) \in DOMAIN pages
                            /\ pages[PlaceOf(key)] \in Loadable
                            /\ IsPage(pages[PlaceOf(key)], key)
                            /\ BarsOf(Others(key)) = BarsOf(pages) - pages[PlaceOf(key)].len
                            /\ BarsOf(pages) \in Int
<1>1. pages \in Seq(Loadable) /\ OneEach(pages) /\ DOMAIN pages = 1 .. Len(pages)
  BY DEF PagesAreSound
<1>2. CASE ~Holds(key)
  <2>1. Others(key) = pages
    BY <1>2 DEF Others
  <2>2. \A n \in DOMAIN pages : ~IsPage(pages[n], key)
    BY <1>2 DEF Holds
  <2> QED BY <1>1, <1>2, <2>1, <2>2
<1>3. CASE Holds(key)
  <2>1. PICK i, w : i = PlaceOf(key) /\ w = Others(key)
    OBVIOUS
  <2>2. i \in DOMAIN pages /\ IsPage(pages[i], key)
    BY <1>3, <2>1 DEF Holds, PlaceOf
  <2>3. i \in 1 .. Len(pages) /\ pages[i] \in Loadable
    BY <1>1, <2>2
  <2>4. w = RemoveAt(pages, i)
    BY <1>3, <2>1 DEF Others
  <2>5. w \in Seq(Loadable) /\ Dropped(pages, w, i)
    BY <1>1, <2>3, <2>4, RemovedIs
  <2>6. OneEach(w) /\ \A n \in DOMAIN w : ~IsPage(w[n], pages[i])
    BY <1>1, <2>3, <2>5, RemovedOnce
  <2>7. \A n \in DOMAIN w : ~IsPage(w[n], key)
    BY <2>2, <2>6 DEF IsPage
  <2>8. BarsOf(w) = BarsOf(pages) - pages[i].len /\ BarsOf(pages) \in Int
    BY <1>1, <2>3, <2>5, BarsRemoved
  <2> QED BY <1>3, <2>1, <2>2, <2>3, <2>5, <2>6, <2>7, <2>8
<1> QED BY <1>2, <1>3

\* A lookup takes the page in hand or finds that there is none.
LEMMA LookupKeeps ==
    ASSUME RangeInv, NEW t \in Threads, Lookup(t)
    PROVE  RangeInv'
<1>1. PICK r, key : r = read[t] /\ key = KeyOf(At(t))
  OBVIOUS
<1>2. r.pc = "lookup" /\ r.pc \notin Ended /\ r.pc \notin Counting
  BY <1>1 DEF Lookup, Ended, Counting
<1>3. key = KeyOf(Reached(r)) /\ r \in Reading /\ ReadIsSound(r) /\ PagesAreSound
  BY <1>1, <1>2, ReaderFacts
<1>4. r.due = 0 /\ ~Watches(r, pages)
  BY <1>2, <1>3 DEF ReadIsSound, Watches
<1>5. UNCHANGED <<pages, cachedBars, drift>> /\ reads' \in 0 .. MaxReads
  BY <1>3 DEF Lookup, PagesAreSound
<1>6. CASE Holds(key)
  <2>1. PICK p : p = pages[PlaceOf(key)]
    OBVIOUS
  <2>2. p \in Loadable /\ IsPage(p, key)
    BY <1>3, <1>6, <2>1, OthersAre
  <2>3. PICK r2 : r2 = [r EXCEPT !.pc = "touch", !.page = p]
    OBVIOUS
  <2>4. read' = [read EXCEPT ![t] = r2]
    BY <1>1, <1>6, <2>1, <2>3 DEF Lookup
  <2>5. /\ SameRead(r, r2) /\ r2.pc = "touch" /\ r2.page = p /\ r2.due = 0
    BY <1>3, <1>4, <2>2, <2>3 DEF SameRead, Reading, Loadable, InHand
  <2>6. ReadIsSound(r2)
    BY <1>2, <1>3, <2>2, <2>5, StaysSound
  <2> QED BY <1>1, <1>4, <1>5, <2>4, <2>5, <2>6, LookKeeps
<1>7. CASE ~Holds(key)
  <2>1. PICK r2 : r2 = [r EXCEPT !.pc = "load"]
    OBVIOUS
  <2>2. read' = [read EXCEPT ![t] = r2]
    BY <1>1, <1>7, <2>1 DEF Lookup
  <2>3. /\ SameRead(r, r2) /\ r2.pc = "load" /\ r2.due = 0
    BY <1>3, <1>4, <2>1 DEF SameRead, Reading
  <2>4. ReadIsSound(r2)
    <3>1. r2.pc \notin InHand
      BY <2>3 DEF InHand
    <3> QED BY <1>2, <1>3, <2>3, <3>1, StaysSound
  <2> QED BY <1>1, <1>4, <1>5, <2>2, <2>3, <2>4, LookKeeps
<1> QED BY <1>6, <1>7

\* A page that is moved to the end is the same page among the same pages.
LEMMA MovedToEnd ==
    ASSUME PagesAreSound, NEW key, Holds(key), NEW w,
           w = Append(Others(key), pages[PlaceOf(key)])
    PROVE  /\ w \in Seq(Loadable) /\ OneEach(w) /\ BarsOf(w) = BarsOf(pages)
           /\ \A k : HoldsIn(pages, k) => HoldsIn(w, k)
<1>1. PICK c, p : c = Others(key) /\ p = pages[PlaceOf(key)]
  OBVIOUS
<1>2. /\ c \in Seq(Loadable) /\ OneEach(c) /\ p \in Loadable /\ IsPage(p, key)
      /\ \A n \in DOMAIN c : ~IsPage(c[n], key)
      /\ BarsOf(c) = BarsOf(pages) - p.len /\ BarsOf(pages) \in Int
  BY <1>1, OthersAre
<1>3. \A n \in DOMAIN c : ~IsPage(c[n], p)
  BY <1>2 DEF IsPage
<1>4. w \in Seq(Loadable) /\ OneEach(w)
  BY <1>1, <1>2, <1>3, AppendedOnce
<1>5. BarsOf(w) = BarsOf(c) + p.len
  BY <1>1, <1>2, BarsAppended
<1>6. p.len \in Int
  BY <1>2 DEF Loadable, Page
<1>7. BarsOf(w) = BarsOf(pages)
  BY ONLY <1>2, <1>5, <1>6
<1>8. ASSUME NEW k, HoldsIn(pages, k) PROVE HoldsIn(w, k)
  <2>1. PICK n \in DOMAIN pages : IsPage(pages[n], k)
    BY <1>8 DEF HoldsIn
  <2>2. PICK i : i = PlaceOf(key)
    OBVIOUS
  <2>3. /\ i \in DOMAIN pages /\ pages \in Seq(Loadable) /\ DOMAIN pages = 1 .. Len(pages)
    BY <2>2, OthersAre DEF PagesAreSound
  <2>4. /\ Len(w) = Len(c) + 1 /\ Len(c) \in Nat /\ w[Len(c) + 1] = p
        /\ \A m \in 1 .. Len(c) : w[m] = c[m]
        /\ DOMAIN w = 1 .. Len(c) + 1
    BY <1>1, <1>2, AppendProperties
  <2>5. CASE n = i
    <3>1. IsPage(w[Len(c) + 1], k) /\ Len(c) + 1 \in DOMAIN w
      BY <1>1, <2>1, <2>2, <2>4, <2>5
    <3> QED BY <3>1 DEF HoldsIn
  <2>6. CASE n # i
    <3>1. c = RemoveAt(pages, i)
      BY <1>1, <2>2 DEF Others
    <3>2. Dropped(pages, c, i)
      BY <2>3, <3>1, RemovedIs
    <3>3. PICK m : m = IF n < i THEN n ELSE n - 1
      OBVIOUS
    <3>4. m \in 1 .. Len(c) /\ c[m] = pages[n]
      <4>1. /\ Len(c) = Len(pages) - 1 /\ Len(pages) \in Nat
            /\ \A j \in 1 .. Len(c) : c[j] = IF j < i THEN pages[j] ELSE pages[j + 1]
        BY <2>3, <3>2 DEF Dropped
      <4>2. n \in 1 .. Len(pages) /\ i \in 1 .. Len(pages)
        BY <2>3
      <4>3. CASE n < i
        BY <3>3, <4>1, <4>2, <4>3
      <4>4. CASE ~(n < i)
        <5>1. m = n - 1 /\ m \in 1 .. Len(c) /\ ~(m < i) /\ m + 1 = n
          BY <2>6, <3>3, <4>1, <4>2, <4>4
        <5> QED BY <4>1, <5>1
      <4> QED BY <4>3, <4>4
    <3>5. IsPage(w[m], k) /\ m \in DOMAIN w
      BY <2>1, <2>4, <3>4
    <3> QED BY <3>5 DEF HoldsIn
  <2> QED BY <2>5, <2>6
<1> QED BY <1>4, <1>7, <1>8

\* move_to_end keeps the pages, or fails where the page is gone.
LEMMA TouchKeeps ==
    ASSUME RangeInv, NEW t \in Threads, Touch(t)
    PROVE  RangeInv'
<1>1. PICK r, key : r = read[t] /\ key = KeyOf(At(t))
  OBVIOUS
<1>2. r.pc = "touch" /\ r.pc \notin Ended /\ r.pc \notin Counting /\ r.pc \in InHand
  BY <1>1 DEF Touch, Ended, Counting, InHand
<1>3. /\ r \in Reading /\ ReadIsSound(r) /\ PagesAreSound /\ BarsOf(pages) \in Int
  BY <1>1, <1>2, ReaderFacts
<1>4. r.due = 0 /\ r.old \in Int /\ ~Watches(r, pages)
  BY <1>2, <1>3 DEF ReadIsSound, Reading, Watches
<1>5. cachedBars' = cachedBars /\ reads' = reads /\ drift' = drift
  BY DEF Touch
<1>6. PICK pc : pc = IF Holds(key) THEN "take" ELSE "failed"
  OBVIOUS
<1>7. PICK r2 : r2 = [r EXCEPT !.pc = pc]
  OBVIOUS
<1>8. read' = [read EXCEPT ![t] = r2]
  BY <1>1, <1>6, <1>7 DEF Touch
<1>9. ReadIsSound(r2) /\ r2.due = 0
  <2>1. r2 = [r EXCEPT !.pc = pc, !.due = r.due, !.old = r.old]
    BY <1>3, <1>7 DEF Reading
  <2>2. pc \in InHand \cup {"failed"} /\ pc \notin Counting /\ r.due \in Int
    BY <1>4, <1>6 DEF InHand, Counting
  <2>3. GoesTo(r, r2, pc, r.due, r.old)
    BY <1>4, <2>1, <2>2 DEF GoesTo
  <2> QED BY <1>2, <1>3, <1>4, <2>3, GoesToSound
<1>10. /\ pages' \in Seq(Loadable) /\ OneEach(pages') /\ BarsOf(pages') = BarsOf(pages)
       /\ pages' # <<>> => pages # <<>>
       /\ \A k : HoldsIn(pages, k) => HoldsIn(pages', k)
  <2>1. CASE Holds(key)
    <3>1. pages' = Append(Others(key), pages[PlaceOf(key)])
      BY <1>1, <2>1 DEF Touch
    <3>2. pages # <<>>
      BY <2>1 DEF Holds
    <3> QED BY <1>3, <2>1, <3>1, <3>2, MovedToEnd
  <2>2. CASE ~Holds(key)
    <3>1. pages' = pages
      BY <1>1, <2>2 DEF Touch
    <3> QED BY <1>3, <3>1 DEF PagesAreSound
  <2> QED BY <2>1, <2>2
<1>11. PagesAreSound'
  BY <1>3, <1>5, <1>10 DEF PagesAreSound
<1>12. Balances(BarsOf(pages), cachedBars, drift, r.due,
                BarsOf(pages'), cachedBars', drift', r2.due)
  BY <1>4, <1>5, <1>9, <1>10 DEF Balances
<1>13. KeepsWatch(r, pages, cachedBars, r2, pages', cachedBars')
  BY <1>4, <1>5, <1>10 DEF KeepsWatch
<1> QED BY <1>1, <1>8, <1>9, <1>11, <1>12, <1>13, StepKeeps

\* The page a read loads reaches at least as far as its place requires, and not
\* past the end of its file.
LEMMA LoadsEnough ==
    ASSUME NEW r, ReadIsSound(r), r.pc \notin Ended, NEW i \in 0 .. Total - 1, i = Reached(r),
           NEW p, p = [file |-> KeyOf(i).file, offset |-> KeyOf(i).offset, len |-> LengthFor(r, i)]
    PROVE  p \in Loadable /\ IsPage(p, KeyOf(i))
<1>1. PICK f \in Files : f = locate[i]
  BY CandleIs
<1>2. PICK R, B, o : R = Row(i) /\ B = EndOf(f) /\ o = KeyOf(i).offset
  OBVIOUS
<1>3. R \in Nat /\ R < B /\ o \in Nat /\ o <= R /\ KeyOf(i).file = f /\ cumulative[f + 1] \in Nat
  BY <1>1, <1>2, CandleIs
<1>4. B \in Nat
  BY <1>1, <1>2, FilesAre
<1>5. PICK a \in Nat : a = B - o /\ a > 0
  <2>1. B - o \in Nat /\ B - o > 0
    BY ONLY <1>3, <1>4
  <2> QED BY <2>1
<1>6. PageSize \in Nat /\ PageSize > 0
  BY RangeAssumption
<1>7. PICK w : w = Shorter(r.upto - i, cumulative[f + 1] - i)
  OBVIOUS
<1>8. w \in Int
  <2>1. r.upto \in Nat
    BY DEF ReadIsSound, Reading
  <2> QED BY <1>3, <1>7, <2>1 DEF Shorter
<1>9. PICK v \in Nat : v = (IF r.how = "slice" THEN Longer(w, PageSize) ELSE PageSize) /\ PageSize <= v
  <2>1. Longer(w, PageSize) \in Nat /\ PageSize <= Longer(w, PageSize)
    BY <1>6, <1>8 DEF Longer
  <2> QED BY <1>6, <2>1
<1>10. LengthFor(r, i) = Shorter(v, a)
  BY <1>1, <1>2, <1>5, <1>7, <1>9 DEF LengthFor
<1>11. PICK l : l = Shorter(v, a)
  OBVIOUS
<1>12. l \in Nat \ {0} /\ l <= a /\ Shorter(PageSize, a) <= l
  <2>1. CASE v < a
    BY <1>5, <1>6, <1>9, <1>11, <2>1 DEF Shorter
  <2>2. CASE ~(v < a)
    BY <1>5, <1>6, <1>9, <1>11, <2>2 DEF Shorter
  <2> QED BY <2>1, <2>2
<1>13. p = [file |-> f, offset |-> o, len |-> l]
  BY <1>2, <1>3, <1>10, <1>11
<1>14. o + l <= B
  BY ONLY <1>3, <1>4, <1>5, <1>12, a \in Nat
<1>15. p \in Page
  BY <1>3, <1>12, <1>13 DEF Page
<1>16. p \in Loadable
  BY <1>2, <1>5, <1>12, <1>13, <1>14, <1>15 DEF Loadable
<1> QED BY <1>2, <1>3, <1>13, <1>16 DEF IsPage

\* A page that is stored is there once, in the place of the one that was kept
\* under its key, if any.
LEMMA StoredIs ==
    ASSUME PagesAreSound, NEW p \in Loadable, NEW key,
           key = [file |-> p.file, offset |-> p.offset]
    PROVE  /\ Stored(p) \in Seq(Loadable) /\ OneEach(Stored(p)) /\ HoldsIn(Stored(p), key)
           /\ BarsOf(pages) \in Int
           /\ BarsOf(Stored(p)) =
                BarsOf(pages) + p.len - (IF Holds(key) THEN pages[PlaceOf(key)].len ELSE 0)
<1>1. pages \in Seq(Loadable) /\ OneEach(pages) /\ DOMAIN pages = 1 .. Len(pages)
  BY DEF PagesAreSound
<1>2. IsPage(p, key) /\ p.len \in Int
  BY DEF IsPage, Loadable, Page
<1>3. PICK w : w = Stored(p)
  OBVIOUS
<1>4. CASE ~Holds(key)
  <2>1. w = Append(pages, p)
    BY <1>3, <1>4 DEF Stored
  <2>2. \A n \in DOMAIN pages : ~IsPage(pages[n], p)
    BY <1>2, <1>4 DEF Holds, IsPage
  <2>3. w \in Seq(Loadable) /\ OneEach(w)
    BY <1>1, <2>1, <2>2, AppendedOnce
  <2>4. BarsOf(w) = BarsOf(pages) + p.len /\ BarsOf(pages) \in Int
    BY <1>1, <2>1, BarsAppended
  <2>5. HoldsIn(w, key)
    <3>1. w[Len(pages) + 1] = p /\ Len(pages) + 1 \in DOMAIN w
      BY <1>1, <2>1, <2>3, AppendProperties
    <3> QED BY <1>2, <3>1 DEF HoldsIn
  <2> QED BY <1>2, <1>3, <1>4, <2>3, <2>4, <2>5
<1>5. CASE Holds(key)
  <2>1. PICK i : i = PlaceOf(key)
    OBVIOUS
  <2>2. i \in DOMAIN pages /\ IsPage(pages[i], key) /\ pages[i].len \in Int
    <3>1. i \in DOMAIN pages /\ IsPage(pages[i], key) /\ pages[i] \in Loadable
      BY <1>5, <2>1, OthersAre
    <3> QED BY <3>1 DEF Loadable, Page
  <2>3. w = [pages EXCEPT ![i] = p]
    BY <1>3, <1>5, <2>1 DEF Stored
  <2>4. /\ w \in Seq(Loadable) /\ Len(w) = Len(pages) /\ DOMAIN w = DOMAIN pages
        /\ w[i] = p /\ \A k \in 1 .. Len(pages) : k # i => w[k] = pages[k]
    BY <1>1, <2>2, <2>3
  <2>5. i \in 1 .. Len(pages)
    BY <1>1, <2>2
  <2>6. BarsOf(w) = BarsOf(pages) - pages[i].len + w[i].len /\ BarsOf(pages) \in Int
    BY <1>1, <2>4, <2>5, BarsReplaced
  <2>7. BarsOf(w) = BarsOf(pages) + p.len - pages[i].len
    BY ONLY <1>2, <2>2, <2>4, <2>6
  <2>8. HoldsIn(w, key)
    BY <1>2, <2>2, <2>4 DEF HoldsIn
  <2>9. ASSUME NEW k \in DOMAIN pages
        PROVE  w[k].file = pages[k].file /\ w[k].offset = pages[k].offset
    BY <1>1, <1>2, <2>2, <2>4 DEF IsPage
  <2>10. OneEach(w)
    <3> SUFFICES ASSUME NEW m \in DOMAIN w, NEW n \in DOMAIN w, IsPage(w[m], w[n]) PROVE m = n
      BY DEF OneEach
    <3>1. IsPage(pages[m], pages[n])
      BY <2>4, <2>9 DEF IsPage
    <3> QED BY <1>1, <2>4, <3>1 DEF OneEach
  <2> QED BY <1>3, <1>5, <2>1, <2>4, <2>6, <2>7, <2>8, <2>10
<1> QED BY <1>4, <1>5

\* A page that is loaded takes the place of one loaded meanwhile, if any, whose
\* bars stay in the count.
LEMMA LoadKeeps ==
    ASSUME RangeInv, NEW t \in Threads, Load(t)
    PROVE  RangeInv'
<1>1. PICK r, i, key : r = read[t] /\ i = At(t) /\ key = KeyOf(i)
  OBVIOUS
<1>2. r.pc = "load" /\ r.pc \notin Ended /\ r.pc \notin Counting
  BY <1>1 DEF Load, Ended, Counting
<1>3. /\ i = Reached(r) /\ i \in 0 .. Total - 1 /\ r \in Reading /\ ReadIsSound(r)
      /\ PagesAreSound
  BY <1>1, <1>2, ReaderFacts
<1>4. r.due = 0
  BY <1>2, <1>3 DEF ReadIsSound
<1>5. cachedBars' = cachedBars /\ reads' = reads
  BY DEF Load
<1>6. PICK p : p = [file |-> KeyOf(i).file, offset |-> KeyOf(i).offset, len |-> LengthFor(r, i)]
  OBVIOUS
<1>7. p \in Loadable /\ IsPage(p, key)
  <2>1. p \in Loadable /\ IsPage(p, KeyOf(i))
    BY <1>2, <1>3, <1>6, LoadsEnough
  <2> QED BY <1>1, <2>1
<1>8. p.len \in Int
  BY <1>7 DEF Loadable, Page
<1>9. key = [file |-> p.file, offset |-> p.offset]
  BY <1>1, <1>6 DEF KeyOf
<1>10. PICK r2 : r2 = [r EXCEPT !.pc = "move", !.page = p, !.due = p.len]
  OBVIOUS
<1>11. /\ read' = [read EXCEPT ![t] = r2] /\ pages' = Stored(p)
       /\ drift' = IF Holds(key) THEN drift - pages[PlaceOf(key)].len ELSE drift
  <2>1. /\ read' = [read EXCEPT ![t].pc = "move", ![t].page = p, ![t].due = p.len]
        /\ pages' = Stored(p)
        /\ drift' = IF Holds(key) THEN drift - pages[PlaceOf(key)].len ELSE drift
    BY <1>1, <1>6 DEF Load
  <2> QED BY <1>1, <1>10, <2>1
<1>12. SameRead(r, r2) /\ r2.pc = "move" /\ r2.page = p /\ r2.due = p.len
  <2>1. /\ r2.pc = "move" /\ r2.page = p /\ r2.due = p.len
        /\ r2.how = r.how /\ r2.from = r.from /\ r2.upto = r.upto /\ r2.got = r.got
    BY ONLY <1>3, <1>10 DEF Reading
  <2>2. p \in Page \cup {NoPage} /\ "move" \in Ended \cup InHand \cup {"lookup", "load"}
    BY <1>7 DEF Loadable, InHand
  <2>3. r2 \in Reading
    BY ONLY <1>3, <1>8, <1>10, <2>2 DEF Reading
  <2> QED BY <2>1, <2>3 DEF SameRead
<1>13. ReadIsSound(r2) /\ Reached(r2) = Reached(r)
  <2>1. IsPage(r2.page, KeyOf(Reached(r))) /\ r2.page \in Loadable
    BY <1>1, <1>3, <1>7, <1>12
  <2>2. r2.pc \notin {"idle", "done"} /\ r2.pc \in Counting
    BY <1>12 DEF Counting
  <2> QED BY <1>2, <1>3, <1>12, <2>1, <2>2, StaysSound
<1>14. PICK gone : gone = IF Holds(key) THEN pages[PlaceOf(key)].len ELSE 0
  OBVIOUS
<1>15. gone \in Int
  <2>1. CASE Holds(key)
    <3>1. pages[PlaceOf(key)] \in Loadable
      BY <1>3, <2>1, OthersAre
    <3> QED BY <1>14, <2>1, <3>1 DEF Loadable, Page
  <2> QED BY <1>14, <2>1
<1>16. PICK w : w = Stored(p)
  OBVIOUS
<1>17. /\ w \in Seq(Loadable) /\ OneEach(w) /\ HoldsIn(w, key)
       /\ BarsOf(pages) \in Int /\ BarsOf(w) = BarsOf(pages) + p.len - gone
  BY <1>3, <1>7, <1>9, <1>14, <1>16, StoredIs
<1>18. drift \in Int /\ cachedBars \in Int /\ drift' = drift - gone
  BY <1>3, <1>11, <1>14 DEF PagesAreSound
<1>19. PagesAreSound'
  <2>1. drift' \in Int
    BY ONLY <1>15, <1>18
  <2> QED BY <1>3, <1>5, <1>11, <1>16, <1>17, <2>1 DEF PagesAreSound
<1>20. Balances(BarsOf(pages), cachedBars, drift, r.due,
                BarsOf(pages'), cachedBars', drift', r2.due)
  <2>1. BarsOf(pages') = BarsOf(pages) + p.len - gone
    BY <1>11, <1>16, <1>17
  <2>2. BarsOf(pages') - cachedBars' - drift' - r2.due = BarsOf(pages) - cachedBars - drift - r.due
    BY ONLY <1>4, <1>5, <1>8, <1>12, <1>15, <1>17, <1>18, <2>1
  <2> QED BY <2>2 DEF Balances
<1>21. KeepsWatch(r, pages, cachedBars, r2, pages', cachedBars')
  <2>1. HoldsIn(pages', KeyOf(Reached(r2)))
    BY <1>1, <1>3, <1>11, <1>13, <1>16, <1>17
  <2>2. Watches(r2, pages')
    BY <1>12, <2>1 DEF Watches
  <2> QED BY <2>2 DEF KeepsWatch
<1> QED BY <1>1, <1>11, <1>13, <1>19, <1>20, <1>21, StepKeeps

\* move_to_end of the stored page keeps the pages, or fails where the page is
\* gone, and its bars are never counted.
LEMMA MoveKeeps ==
    ASSUME RangeInv, NEW t \in Threads, Move(t)
    PROVE  RangeInv'
<1>1. PICK r, key : r = read[t] /\ key = KeyOf(At(t))
  OBVIOUS
<1>2. r.pc = "move" /\ r.pc \notin Ended /\ r.pc \in InHand
  BY <1>1 DEF Move, Ended, InHand
<1>3. /\ key = KeyOf(Reached(r)) /\ r \in Reading /\ ReadIsSound(r) /\ PagesAreSound
      /\ BarsOf(pages) \in Int
  BY <1>1, <1>2, ReaderFacts
<1>4. r.due \in Int /\ r.old \in Int /\ drift \in Int /\ cachedBars \in Int
  BY <1>3 DEF Reading, PagesAreSound
<1>5. cachedBars' = cachedBars /\ reads' = reads
  BY DEF Move
<1>6. CASE Holds(key)
  <2>1. PICK r2 : r2 = [r EXCEPT !.pc = "count"]
    OBVIOUS
  <2>2. /\ read' = [read EXCEPT ![t] = r2] /\ drift' = drift
        /\ pages' = Append(Others(key), pages[PlaceOf(key)])
    BY <1>1, <1>6, <2>1 DEF Move
  <2>3. ReadIsSound(r2) /\ r2.pc = "count" /\ r2.due = r.due
    <3>1. r2 = [r EXCEPT !.pc = "count", !.due = r.due, !.old = r.old]
      BY <1>3, <2>1 DEF Reading
    <3>2. GoesTo(r, r2, "count", r.due, r.old)
      BY <1>4, <3>1 DEF GoesTo, InHand, Counting
    <3> QED BY <1>2, <1>3, <3>2, GoesToSound
  <2>4. /\ pages' \in Seq(Loadable) /\ OneEach(pages') /\ BarsOf(pages') = BarsOf(pages)
    BY <1>3, <1>6, <2>2, MovedToEnd
  <2>5. PagesAreSound'
    BY <1>3, <1>5, <2>2, <2>4 DEF PagesAreSound
  <2>6. Balances(BarsOf(pages), cachedBars, drift, r.due,
                 BarsOf(pages'), cachedBars', drift', r2.due)
    BY <1>5, <2>2, <2>3, <2>4 DEF Balances
  <2>7. KeepsWatch(r, pages, cachedBars, r2, pages', cachedBars')
    BY <2>3 DEF KeepsWatch, Watches
  <2> QED BY <1>1, <2>2, <2>3, <2>5, <2>6, <2>7, StepKeeps
<1>7. CASE ~Holds(key)
  <2>1. PICK r2 : r2 = [r EXCEPT !.pc = "failed", !.due = 0]
    OBVIOUS
  <2>2. read' = [read EXCEPT ![t] = r2] /\ drift' = drift + r.due /\ pages' = pages
    <3>1. /\ read' = [read EXCEPT ![t].pc = "failed", ![t].due = 0]
          /\ drift' = drift + r.due /\ pages' = pages
      BY <1>1, <1>7 DEF Move
    <3> QED BY <1>1, <2>1, <3>1
  <2>3. ReadIsSound(r2) /\ r2.due = 0
    <3>1. r2 = [r EXCEPT !.pc = "failed", !.due = 0, !.old = r.old]
      BY <1>3, <2>1 DEF Reading
    <3>2. GoesTo(r, r2, "failed", 0, r.old)
      BY <1>4, <3>1 DEF GoesTo
    <3> QED BY <1>2, <1>3, <3>2, GoesToSound
  <2>4. PagesAreSound'
    <3>1. drift' \in Int
      BY ONLY <1>4, <2>2
    <3> QED BY <1>3, <1>5, <2>2, <3>1 DEF PagesAreSound
  <2>5. Balances(BarsOf(pages), cachedBars, drift, r.due,
                 BarsOf(pages'), cachedBars', drift', r2.due)
    <3>1. BarsOf(pages') = BarsOf(pages)
      BY <2>2
    <3>2. BarsOf(pages') - cachedBars' - drift' - r2.due = BarsOf(pages) - cachedBars - drift - r.due
      BY ONLY <1>3, <1>4, <1>5, <2>2, <2>3, <3>1
    <3> QED BY <3>2 DEF Balances
  <2>6. KeepsWatch(r, pages, cachedBars, r2, pages', cachedBars')
    <3>1. ~Watches(r, pages)
      BY <1>2, <1>3, <1>7 DEF Watches, Holds, HoldsIn
    <3> QED BY <1>5, <2>2, <3>1 DEF KeepsWatch
  <2> QED BY <1>1, <2>2, <2>3, <2>4, <2>5, <2>6, StepKeeps
<1> QED BY <1>6, <1>7

\* No pages, no bars.
LEMMA NoBars == BarsOf(<<>>) = 0
<1>1. PICK c : c = <<>>
  OBVIOUS
<1>2. c \in Seq(Loadable) /\ Len(c) = 0
  BY <1>1
<1>3. PICK v \in Seq(Int) : BarsOf(c) = SumOf(v) /\ Len(v) = Len(c)
  BY <1>2, LengthsAre
<1> QED BY <1>1, <1>2, <1>3, SumNothing

\* Nothing of the range lies between a place and itself.
LEMMA NothingRead ==
    ASSUME NEW a \in Nat
    PROVE  SubSeq(InRange, a + 1, a) = <<>>
BY DEF SubSeq

\* The first half of a change of the count remembers the count.
LEMMA ReadCountKeeps ==
    ASSUME RangeInv, NEW t \in Threads, ReadCount(t)
    PROVE  RangeInv'
<1>1. PICK r : r = read[t]
  OBVIOUS
<1>2. r.pc = "count" /\ r.pc \notin Ended /\ r.pc \in InHand
  BY <1>1 DEF ReadCount, Ended, InHand
<1>3. r \in Reading /\ ReadIsSound(r) /\ PagesAreSound
  BY <1>1, <1>2, ReaderFacts
<1>4. PICK n : n = cachedBars
  OBVIOUS
<1>5. n \in Int /\ r.due \in Int
  BY <1>3, <1>4 DEF PagesAreSound, Reading
<1>6. PICK r2 : r2 = [r EXCEPT !.pc = "write", !.old = n]
  OBVIOUS
<1>7. read' = [read EXCEPT ![t] = r2]
  BY <1>1, <1>4, <1>6 DEF ReadCount
<1>8. ReadIsSound(r2) /\ r2.pc = "write" /\ r2.due = r.due
  <2>1. r2 = [r EXCEPT !.pc = "write", !.due = r.due, !.old = n]
    BY <1>3, <1>6 DEF Reading
  <2>2. GoesTo(r, r2, "write", r.due, n)
    BY <1>5, <2>1 DEF GoesTo, InHand, Counting
  <2> QED BY <1>2, <1>3, <2>2, GoesToSound
<1>9. UNCHANGED <<pages, cachedBars, drift>> /\ reads' \in 0 .. MaxReads
  BY <1>3 DEF ReadCount, PagesAreSound
<1>10. Watches(r2, pages)
  BY <1>8 DEF Watches
<1> QED BY <1>1, <1>7, <1>8, <1>9, <1>10, LookKeeps

\* The second half writes the count it remembers, changed; what the count has
\* become meanwhile is lost.
LEMMA WriteCountKeeps ==
    ASSUME RangeInv, NEW t \in Threads, WriteCount(t)
    PROVE  RangeInv'
<1>1. PICK r : r = read[t]
  OBVIOUS
<1>2. r.pc = "write" /\ r.pc \notin Ended /\ r.pc \in InHand
  BY <1>1 DEF WriteCount, Ended, InHand
<1>3. r \in Reading /\ ReadIsSound(r) /\ PagesAreSound /\ BarsOf(pages) \in Int
  BY <1>1, <1>2, ReaderFacts
<1>4. cachedBars \in Int /\ drift \in Int /\ r.old \in Int /\ r.due \in Int
  BY <1>3 DEF PagesAreSound, Reading
<1>5. PICK r2 : r2 = [r EXCEPT !.pc = "evict", !.due = 0, !.old = 0]
  OBVIOUS
<1>6. /\ read' = [read EXCEPT ![t] = r2]
      /\ pages' = pages /\ reads' = reads
      /\ cachedBars' = r.old + r.due /\ drift' = drift + (cachedBars - r.old)
  <2>1. /\ read' = [read EXCEPT ![t].pc = "evict", ![t].due = 0, ![t].old = 0]
        /\ pages' = pages /\ reads' = reads
        /\ cachedBars' = r.old + r.due /\ drift' = drift + (cachedBars - r.old)
    BY <1>1 DEF WriteCount
  <2> QED BY <1>1, <1>5, <2>1
<1>7. ReadIsSound(r2) /\ r2.pc = "evict" /\ r2.due = 0
  <2>1. GoesTo(r, r2, "evict", 0, 0)
    BY <1>5 DEF GoesTo, InHand
  <2> QED BY <1>2, <1>3, <2>1, GoesToSound
<1>8. PagesAreSound'
  <2>1. cachedBars' \in Int /\ drift' \in Int
    BY ONLY <1>4, <1>6
  <2> QED BY <1>3, <1>6, <2>1 DEF PagesAreSound
<1>9. Balances(BarsOf(pages), cachedBars, drift, r.due,
               BarsOf(pages'), cachedBars', drift', r2.due)
  <2>1. BarsOf(pages') = BarsOf(pages)
    BY <1>6
  <2>2. BarsOf(pages') - cachedBars' - drift' - r2.due = BarsOf(pages) - cachedBars - drift - r.due
    BY ONLY <1>3, <1>4, <1>6, <1>7, <2>1
  <2> QED BY <2>2 DEF Balances
<1>10. KeepsWatch(r, pages, cachedBars, r2, pages', cachedBars')
  BY <1>7 DEF KeepsWatch, Watches
<1> QED BY <1>1, <1>6, <1>7, <1>8, <1>9, <1>10, StepKeeps

\* A thread that tests the count or the pages goes on to watch them.
LEMMA TestsKeep ==
    ASSUME RangeInv, NEW t \in Threads, TestCount(t) \/ TestPages(t)
    PROVE  RangeInv'
<1>1. PICK r : r = read[t]
  OBVIOUS
<1>2. PICK pc \in {"held", "pop"} :
          /\ r.pc \in {"evict", "held"} /\ read' = [read EXCEPT ![t].pc = pc]
          /\ UNCHANGED <<pages, cachedBars, reads, drift>>
  BY <1>1 DEF TestCount, TestPages
<1>3. r.pc \notin Ended /\ r.pc \in InHand /\ r.pc \notin Counting
  BY <1>2 DEF Ended, InHand, Counting
<1>4. r \in Reading /\ ReadIsSound(r) /\ PagesAreSound
  BY <1>1, <1>3, ReaderFacts
<1>5. r.due = 0 /\ r.old \in Int
  BY <1>3, <1>4 DEF ReadIsSound, Reading
<1>6. PICK r2 : r2 = [r EXCEPT !.pc = pc]
  OBVIOUS
<1>7. read' = [read EXCEPT ![t] = r2]
  BY <1>1, <1>2, <1>6
<1>8. ReadIsSound(r2) /\ r2.pc = pc /\ r2.due = r.due
  <2>1. r2 = [r EXCEPT !.pc = pc, !.due = r.due, !.old = r.old]
    BY <1>4, <1>6 DEF Reading
  <2>2. GoesTo(r, r2, pc, r.due, r.old)
    BY <1>2, <1>5, <2>1 DEF GoesTo, InHand
  <2> QED BY <1>3, <1>4, <2>2, GoesToSound
<1>9. UNCHANGED <<pages, cachedBars, drift>> /\ reads' \in 0 .. MaxReads
  BY <1>2, <1>4 DEF PagesAreSound
<1>10. Watches(r2, pages)
  BY <1>2, <1>8 DEF Watches
<1> QED BY <1>1, <1>7, <1>8, <1>9, <1>10, LookKeeps

\* The first page goes, and its bars are still to be taken from the count; or
\* the last page is gone already.
LEMMA EvictKeeps ==
    ASSUME RangeInv, NEW t \in Threads, Evict(t)
    PROVE  RangeInv'
<1>1. PICK r : r = read[t]
  OBVIOUS
<1>2. r.pc = "pop" /\ r.pc \notin Ended /\ r.pc \in InHand /\ r.pc \notin Counting
  BY <1>1 DEF Evict, Ended, InHand, Counting
<1>3. r \in Reading /\ ReadIsSound(r) /\ PagesAreSound /\ BarsOf(pages) \in Int
  BY <1>1, <1>2, ReaderFacts
<1>4. r.due = 0 /\ r.old \in Int
  BY <1>2, <1>3 DEF ReadIsSound, Reading
<1>5. cachedBars' = cachedBars /\ reads' = reads /\ drift' = drift
  BY DEF Evict
<1>6. pages \in Seq(Loadable) /\ OneEach(pages) /\ cachedBars \in Int /\ drift \in Int
  BY <1>3 DEF PagesAreSound
<1>7. CASE pages = <<>>
  <2>1. PICK r2 : r2 = [r EXCEPT !.pc = "failed"]
    OBVIOUS
  <2>2. read' = [read EXCEPT ![t] = r2] /\ pages' = pages
    BY <1>1, <1>7, <2>1 DEF Evict
  <2>3. ReadIsSound(r2) /\ r2.due = r.due
    <3>1. r2 = [r EXCEPT !.pc = "failed", !.due = r.due, !.old = r.old]
      BY <1>3, <2>1 DEF Reading
    <3>2. GoesTo(r, r2, "failed", r.due, r.old)
      BY <1>4, <3>1 DEF GoesTo
    <3> QED BY <1>2, <1>3, <3>2, GoesToSound
  <2>4. UNCHANGED <<pages, cachedBars, drift>> /\ reads' \in 0 .. MaxReads
    BY <1>3, <1>5, <2>2 DEF PagesAreSound
  <2>5. ~OverBound(pages, cachedBars)
    BY <1>7 DEF OverBound
  <2> QED BY <1>1, <2>2, <2>3, <2>4, <2>5, LookKeeps
<1>8. CASE pages # <<>>
  <2>1. PICK w, one : w = Tail(pages) /\ one = 1
    OBVIOUS
  <2>2. /\ w \in Seq(Loadable) /\ Dropped(pages, w, one) /\ one \in 1 .. Len(pages)
        /\ Head(pages) = pages[one] /\ pages[one] \in Loadable
    <3>1. Len(pages) \in Nat /\ Len(pages) > 0
      BY <1>6, <1>8
    <3>2. /\ w \in Seq(Loadable) /\ Len(w) = Len(pages) - 1
          /\ \A k \in 1 .. Len(w) : w[k] = pages[k + 1]
      BY <1>6, <1>8, <2>1, HeadTailProperties
    <3>3. one \in 1 .. Len(pages) /\ Head(pages) = pages[one] /\ pages[one] \in Loadable
      BY <1>6, <1>8, <2>1, <3>1
    <3>4. \A k \in 1 .. Len(w) : ~(k < one)
      BY <2>1
    <3> QED BY <3>2, <3>3, <3>4 DEF Dropped
  <2>3. PICK d : d = Head(pages).len
    OBVIOUS
  <2>4. d \in Int
    BY <2>2, <2>3 DEF Loadable, Page
  <2>5. PICK n : n = -d
    OBVIOUS
  <2>6. n \in Int /\ n = 0 - d
    BY <2>4, <2>5
  <2>7. PICK r2 : r2 = [r EXCEPT !.pc = "count", !.due = n]
    OBVIOUS
  <2>8. read' = [read EXCEPT ![t] = r2] /\ pages' = w
    <3>1. read' = [read EXCEPT ![t].pc = "count", ![t].due = n] /\ pages' = w
      BY <1>8, <2>1, <2>3, <2>5 DEF Evict
    <3> QED BY <1>1, <2>7, <3>1
  <2>9. ReadIsSound(r2) /\ r2.pc = "count" /\ r2.due = n
    <3>1. r2 = [r EXCEPT !.pc = "count", !.due = n, !.old = r.old]
      BY <1>3, <2>7 DEF Reading
    <3>2. GoesTo(r, r2, "count", n, r.old)
      BY <1>4, <2>6, <3>1 DEF GoesTo, InHand, Counting
    <3> QED BY <1>2, <1>3, <3>2, GoesToSound
  <2>10. PagesAreSound'
    <3>1. OneEach(w)
      BY <1>6, <2>2, RemovedOnce
    <3> QED BY <1>3, <1>5, <2>2, <2>8, <3>1 DEF PagesAreSound
  <2>11. Balances(BarsOf(pages), cachedBars, drift, r.due,
                  BarsOf(pages'), cachedBars', drift', r2.due)
    <3>1. BarsOf(w) = BarsOf(pages) - pages[one].len
      BY <1>6, <2>2, BarsRemoved
    <3>2. BarsOf(pages') = BarsOf(pages) - d
      BY <2>2, <2>3, <2>8, <3>1
    <3>3. BarsOf(pages') - cachedBars' - drift' - r2.due
             = BarsOf(pages) - cachedBars - drift - r.due
      BY ONLY <1>3, <1>4, <1>5, <1>6, <2>4, <2>6, <2>9, <3>2
    <3> QED BY <3>3 DEF Balances
  <2>12. KeepsWatch(r, pages, cachedBars, r2, pages', cachedBars')
    BY <2>9 DEF KeepsWatch, Watches
  <2> QED BY <1>1, <2>8, <2>9, <2>10, <2>11, <2>12, StepKeeps
<1> QED BY <1>7, <1>8

\* The candles of the page in hand are the next ones of the range.
LEMMA TakeKeeps ==
    ASSUME RangeInv, NEW t \in Threads, Take(t)
    PROVE  RangeInv'
<1>1. PICK r : r = read[t]
  OBVIOUS
<1>2. r.pc = "take" \/ (r.pc = "evict" /\ ~Overfull) \/ (r.pc = "held" /\ pages = <<>>)
  BY <1>1 DEF Take, LeavesLoop
<1>3. r.pc \notin Ended /\ r.pc \in InHand /\ r.pc \notin Counting
  BY <1>2 DEF Ended, InHand, Counting
<1>4. At(t) = Reached(r) /\ r \in Reading /\ ReadIsSound(r) /\ PagesAreSound
  BY <1>1, <1>3, ReaderFacts
<1>5. r.due = 0 /\ r.upto <= Total /\ (r.how = "iterate" => r.upto = Total)
  BY <1>3, <1>4 DEF ReadIsSound, Ended
<1>6. PICK c, i : i = Reached(r) /\ c = CandlesFrom(r.page, r, Reached(r))
  OBVIOUS
<1>7. /\ c \in Seq(Files \X Nat) /\ Len(c) > 0 /\ i + Len(c) <= r.upto
      /\ r.got \o c = SubSeq(InRange, r.from + 1, i + Len(c))
  BY <1>3, <1>4, <1>6, TakesNext
<1>8. PICK g, pc : /\ g = r.got \o c
                   /\ pc = IF c = <<>> \/ i + Len(c) >= r.upto THEN "done" ELSE "lookup"
  OBVIOUS
<1>9. /\ r.from \in Nat /\ r.upto \in Nat /\ r.got \in Seq(Files \X Nat)
      /\ r.how \in {"slice", "iterate"}
  BY <1>4 DEF Reading
<1>10. /\ g \in Seq(Files \X Nat) /\ Len(g) = Len(r.got) + Len(c)
       /\ Len(r.got) \in Nat /\ Len(c) \in Nat
  <2>1. PICK E, a : E = Files \X Nat /\ a = r.got
    OBVIOUS
  <2>2. a \in Seq(E) /\ c \in Seq(E)
    BY <1>7, <1>9, <2>1
  <2>3. a \o c \in Seq(E) /\ Len(a \o c) = Len(a) + Len(c) /\ Len(a) \in Nat /\ Len(c) \in Nat
    BY ONLY <2>2, ConcatProperties
  <2> QED BY <1>8, <2>1, <2>3
<1>11. PICK r2 : r2 = [r EXCEPT !.pc = pc, !.got = g, !.page = NoPage]
  OBVIOUS
<1>12. read' = [read EXCEPT ![t] = r2]
  BY <1>1, <1>4, <1>6, <1>8, <1>11 DEF Take
<1>13. UNCHANGED <<pages, cachedBars, drift>> /\ reads' \in 0 .. MaxReads
  BY <1>4 DEF Take, PagesAreSound
<1>14. /\ r2 \in Reading /\ r2.pc = pc /\ r2.how = r.how /\ r2.from = r.from
       /\ r2.upto = r.upto /\ r2.got = g /\ r2.due = 0
  BY <1>4, <1>5, <1>8, <1>10, <1>11 DEF Reading, Ended
<1>15. Reached(r2) = i + Len(c) /\ i + Len(c) \in Nat
  <2>1. Reached(r2) = r.from + Len(g) /\ i = r.from + Len(r.got)
    BY <1>6, <1>14 DEF Reached
  <2> QED BY ONLY <1>9, <1>10, <2>1
<1>16. c # <<>>
  BY <1>7
<1>17. \/ pc = "done" /\ i + Len(c) = r.upto
       \/ pc = "lookup" /\ i + Len(c) < r.upto
  BY <1>7, <1>8, <1>9, <1>15, <1>16
<1>18. ReadIsSound(r2)
  <2>1. r2.got = SubSeq(InRange, r2.from + 1, Reached(r2))
    BY <1>7, <1>8, <1>14, <1>15
  <2>2. r2.pc \notin InHand /\ (r2.pc \notin Ended => r2.pc = "lookup")
    BY <1>14, <1>17 DEF InHand, Ended
  <2> QED BY <1>5, <1>7, <1>14, <1>15, <1>17, <2>1, <2>2 DEF ReadIsSound
<1>19. ~Watches(r, pages) \/ ~OverBound(pages, cachedBars)
  <2>1. CASE r.pc = "take"
    BY <2>1 DEF Watches
  <2>2. CASE ~Overfull \/ pages = <<>>
    BY <2>2 DEF Overfull, OverBound
  <2> QED BY <1>2, <2>1, <2>2
<1> QED BY <1>1, <1>5, <1>12, <1>13, <1>14, <1>18, <1>19, LookKeeps

\* A read begins where nothing of it is read yet.
LEMMA StartKeeps ==
    ASSUME RangeInv, NEW t \in Threads, NEW q \in Requests, Start(t, q)
    PROVE  RangeInv'
<1>1. PICK r : r = read[t]
  OBVIOUS
<1>2. /\ r.pc \in Ended /\ reads < MaxReads /\ q.from < Shorter(q.upto, Total)
      /\ UNCHANGED <<pages, cachedBars, drift>> /\ reads' = reads + 1
  BY <1>1 DEF Start, Resting, Ended
<1>3. q.how \in {"slice", "iterate"} /\ q.from \in Nat /\ q.upto \in Nat /\ MaxReads \in Nat
  BY RangeAssumption
<1>4. Total \in Nat
  BY CumulativeIs
<1>5. PICK u : u = IF q.how = "slice" THEN Shorter(q.upto, Total) ELSE Total
  OBVIOUS
<1>6. /\ u \in Nat /\ u <= Total /\ q.from < u /\ (q.how = "iterate" => u = Total)
  BY <1>2, <1>3, <1>4, <1>5 DEF Shorter
<1>7. PICK r2 : r2 = [pc |-> "lookup", how |-> q.how, from |-> q.from, upto |-> u,
                      got |-> <<>>, page |-> NoPage, due |-> 0, old |-> 0]
  OBVIOUS
<1>8. read' = [read EXCEPT ![t] = r2]
  BY <1>5, <1>7 DEF Start
<1>9. r2 \in Reading
  <2>1. <<>> \in Seq(Files \X Nat)
    OBVIOUS
  <2> QED BY <1>3, <1>6, <1>7, <2>1 DEF Reading
<1>10. Reached(r2) = q.from
  BY <1>3, <1>7 DEF Reached
<1>11. ReadIsSound(r2) /\ r2.due = 0
  <2>1. SubSeq(InRange, q.from + 1, q.from) = <<>>
    BY <1>3, NothingRead
  <2>2. r2.got = SubSeq(InRange, r2.from + 1, Reached(r2))
    BY <1>7, <1>10, <2>1
  <2>3. r2.pc \notin Ended /\ r2.pc \notin InHand /\ r2.pc # "done" /\ r2.due = 0
    BY <1>7 DEF Ended, InHand
  <2> QED BY <1>3, <1>6, <1>7, <1>9, <1>10, <2>2, <2>3 DEF ReadIsSound
<1>12. r.due = 0 /\ ~Watches(r, pages)
  <2>1. ReadIsSound(r)
    BY <1>1 DEF RangeInv, ReadsAreSound
  <2> QED BY <1>2, <2>1 DEF ReadIsSound, Ended, Counting, Watches
<1>13. reads' \in 0 .. MaxReads
  BY <1>2, <1>3 DEF RangeInv, PagesAreSound
<1> QED BY <1>1, <1>2, <1>8, <1>11, <1>12, <1>13, LookKeeps

\* Nothing is read and nothing cached at first.
LEMMA RangeStarts ==
    ASSUME RangeInit
    PROVE  RangeInv
<1>1. PICK r : r = [pc |-> "idle", how |-> "slice", from |-> 0, upto |-> 0,
                    got |-> <<>>, page |-> NoPage, due |-> 0, old |-> 0]
  OBVIOUS
<1>2. /\ pages = <<>> /\ cachedBars = 0 /\ reads = 0 /\ drift = 0
      /\ read = [t \in Threads |-> r]
  BY <1>1 DEF RangeInit
<1>3. r \in Reading
  <2>1. <<>> \in Seq(Files \X Nat)
    OBVIOUS
  <2> QED BY <1>1, <2>1 DEF Reading, Ended
<1>4. ReadIsSound(r)
  <2>1. Reached(r) = 0
    BY <1>1 DEF Reached
  <2>2. SubSeq(InRange, 0 + 1, 0) = <<>>
    BY NothingRead
  <2>3. Total \in Nat
    BY CumulativeIs
  <2> QED BY <1>1, <1>3, <2>1, <2>2, <2>3 DEF ReadIsSound, Ended, InHand
<1>5. ReadsAreSound
  BY <1>2, <1>3, <1>4 DEF ReadsAreSound
<1>6. PagesAreSound
  <2>1. PICK c : c = <<>>
    OBVIOUS
  <2>2. c \in Seq(Loadable) /\ DOMAIN c = {}
    BY <2>1
  <2>3. OneEach(c)
    BY <2>2 DEF OneEach
  <2>4. MaxReads \in Nat
    BY RangeAssumption
  <2>5. pages \in Seq(Loadable) /\ OneEach(pages)
    BY <1>2, <2>1, <2>2, <2>3
  <2>6. cachedBars \in Int /\ reads \in 0 .. MaxReads /\ drift \in Int
    BY <1>2, <2>4
  <2> QED BY <2>5, <2>6 DEF PagesAreSound
<1>7. CountsAreSound
  <2>1. DueOf(read) = 0
    <3>1. read \in [Threads -> Reading] /\ \A u \in Threads : read[u].due = 0
      BY <1>1, <1>2, <1>3
    <3> QED BY <3>1, NothingDue
  <2>2. BarsOf(pages) = 0
    BY <1>2, NoBars
  <2>3. BarsOf(pages) = cachedBars + DueOf(read) + drift
    BY <1>2, <2>1, <2>2
  <2>4. ~OverBound(pages, cachedBars)
    BY <1>2 DEF OverBound
  <2> QED BY <2>3, <2>4 DEF CountsAreSound
<1> QED BY <1>5, <1>6, <1>7 DEF RangeInv

\* The invariant holds of every state of RangeBars.
LEMMA RangeStaysSound == RangeSpec => []RangeInv
<1>1. RangeInit => RangeInv
  BY RangeStarts
<1>2. RangeInv /\ [RangeNext]_rangeVars => RangeInv'
  <2> SUFFICES ASSUME RangeInv, [RangeNext]_rangeVars PROVE RangeInv'
    OBVIOUS
  <2>1. ASSUME NEW t \in Threads, NEW q \in Requests, Start(t, q) PROVE RangeInv'
    BY <2>1, StartKeeps
  <2>2. ASSUME NEW t \in Threads, Lookup(t) PROVE RangeInv'
    BY <2>2, LookupKeeps
  <2>3. ASSUME NEW t \in Threads, Touch(t) PROVE RangeInv'
    BY <2>3, TouchKeeps
  <2>4. ASSUME NEW t \in Threads, Load(t) PROVE RangeInv'
    BY <2>4, LoadKeeps
  <2>5. ASSUME NEW t \in Threads, Move(t) PROVE RangeInv'
    BY <2>5, MoveKeeps
  <2>6. ASSUME NEW t \in Threads, ReadCount(t) PROVE RangeInv'
    BY <2>6, ReadCountKeeps
  <2>7. ASSUME NEW t \in Threads, WriteCount(t) PROVE RangeInv'
    BY <2>7, WriteCountKeeps
  <2>8. ASSUME NEW t \in Threads, TestCount(t) \/ TestPages(t) PROVE RangeInv'
    BY <2>8, TestsKeep
  <2>9. ASSUME NEW t \in Threads, Evict(t) PROVE RangeInv'
    BY <2>9, EvictKeeps
  <2>10. ASSUME NEW t \in Threads, Take(t) PROVE RangeInv'
    BY <2>10, TakeKeeps
  <2>11. CASE UNCHANGED rangeVars
    BY <2>11 DEF rangeVars, RangeInv, ReadsAreSound, PagesAreSound, CountsAreSound
  <2> QED BY <2>1, <2>2, <2>3, <2>4, <2>5, <2>6, <2>7, <2>8, <2>9, <2>10, <2>11
          DEF RangeNext, Proceed
<1> QED BY <1>1, <1>2, PTL DEF RangeSpec

\* RangeBars.__getitem__ and __iter__: whichever pages the threads load, evict
\* and replace under each other, a read returns exactly the candles of the range
\* it asks for, in their order, or fails.
THEOREM ReadsStayExact == RangeSpec => []ReadsAreExact
<1>1. RangeInv => ReadsAreExact
  <2> SUFFICES ASSUME RangeInv, NEW t \in Threads
               PROVE  /\ read[t].got = SubSeq(InRange, read[t].from + 1, At(t))
                      /\ read[t].pc = "done" => At(t) = read[t].upto
    BY DEF ReadsAreExact
  <2>1. ReadIsSound(read[t])
    BY DEF RangeInv, ReadsAreSound
  <2> QED BY <2>1 DEF ReadIsSound, Reached, At
<1> QED BY <1>1, RangeStaysSound, PTL

\* RangeBars._page: whatever the threads do between each other's steps, one page
\* per place, none past the end of its file; the bars held are those counted and
\* those still due to the count, but for what three races make of it; and when
\* nothing is being read the count is within its bound or the cache is empty.
THEOREM CacheStaysBounded == RangeSpec => []CacheIsBounded
<1>1. RangeInv => CacheIsBounded
  <2> SUFFICES ASSUME RangeInv PROVE CacheIsBounded
    OBVIOUS
  <2>1. PagesAreSound
    BY DEF RangeInv
  <2>2. pages \in Seq(Page)
    <3>1. \A k \in 1 .. Len(pages) : pages[k] \in Page
      BY <2>1 DEF PagesAreSound, Loadable
    <3> QED BY <2>1, <3>1 DEF PagesAreSound
  <2>3. \A k \in DOMAIN pages : pages[k].offset + pages[k].len <= EndOf(pages[k].file)
    BY <2>1 DEF PagesAreSound, Loadable
  <2>4. \A t \in Threads : At(t) <= read[t].upto /\ read[t].upto <= Total
    <3> SUFFICES ASSUME NEW t \in Threads PROVE At(t) <= read[t].upto /\ read[t].upto <= Total
      OBVIOUS
    <3>1. ReadIsSound(read[t])
      BY DEF RangeInv, ReadsAreSound
    <3> QED BY <3>1 DEF ReadIsSound, Reached, At
  <2>5. PagesOK
    BY <2>1, <2>2, <2>3, <2>4 DEF PagesOK, PagesAreSound, OneEach
  <2>6. BarsOf(pages) = cachedBars + DueOf(read) + drift
    BY DEF RangeInv, CountsAreSound
  <2>7. (\A t \in Threads : Resting(t)) => cachedBars <= MaxCachedBars \/ pages = <<>>
    <3> SUFFICES ASSUME \A t \in Threads : Resting(t), ~(cachedBars <= MaxCachedBars),
                        pages # <<>>
                 PROVE  FALSE
      OBVIOUS
    <3>1. OverBound(pages, cachedBars)
      <4>1. cachedBars \in Int /\ MaxCachedBars \in Nat
        BY <2>1, RangeAssumption DEF PagesAreSound
      <4> QED BY <4>1 DEF OverBound
    <3>2. PICK t \in Threads : Watches(read[t], pages)
      BY <3>1 DEF RangeInv, CountsAreSound
    <3> QED BY <3>2 DEF Watches, Resting
  <2> QED BY <2>5, <2>6, <2>7 DEF CacheIsBounded
<1> QED BY <1>1, RangeStaysSound, PTL
=============================================================================
