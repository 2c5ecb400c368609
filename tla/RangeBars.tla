------------------------------ MODULE RangeBars ------------------------------
(***************************************************************************)
(* RangeBars (backend/app/market_data.py): the candles of a replay range,  *)
(* read page by page from yearly files through a bounded LRU of pages.     *)
(* One instance is cached per session (service.session_bars) and read by   *)
(* every request thread that works on the session, without a lock.         *)
(*                                                                         *)
(* A candle is its place: <<file, row>>.  The range leaves out rows at the *)
(* start of the first file and at the end of the last one.  A page is      *)
(* kept under its file and offset only; how long it is depends on the read *)
(* that loaded it.  A step of a read is what no other thread can get into: *)
(* one access to the LRU or to the bar count.  What it has just looked up, *)
(* stored, counted or tested may be gone or changed with the next step.    *)
(***************************************************************************)
EXTENDS Sums, SequencesExt

CONSTANTS
    Workers,        \* request threads
    Rows,           \* the rows of each file, in order of the years
    Before,         \* rows of the first file before the range
    After,          \* rows of the last file after the range
    PageSize,       \* _BARS_PAGE_SIZE
    MaxCachedBars,  \* _MAX_CACHED_BARS
    Requests,       \* the reads there may be: [how, from, upto]
    MaxReads        \* bound: reads

Threads == 1 .. Workers
Files == 1 .. Len(Rows)

ASSUME RangeAssumption ==
    /\ Rows \in Seq(Nat \ {0}) /\ Len(Rows) > 0
    /\ Before \in 0 .. Rows[1] /\ After \in 0 .. Rows[Len(Rows)]
    /\ Len(Rows) = 1 => Before + After <= Rows[1]
    /\ \A q \in Requests : q.how \in {"slice", "iterate"} /\ q.from \in Nat /\ q.upto \in Nat
    /\ PageSize \in Nat \ {0} /\ MaxCachedBars \in Nat /\ MaxReads \in Nat
    /\ Workers \in Nat

\* _rows_before, and where the range ends in a file.
RowsBefore(f) == IF f = 1 THEN Before ELSE 0
EndOf(f) == IF f = Len(Rows) THEN Rows[f] - After ELSE Rows[f]

\* _count: exact, without reading a candle.
Count(f) == EndOf(f) - RowsBefore(f)

\* Candles of the range in the files before each file, and in all of them.
Counts == [f \in Files |-> Count(f)]
cumulative == [f \in 1 .. Len(Rows) + 1 |-> RunningSums(Counts)[f - 1]]
Total == cumulative[Len(Rows) + 1]

\* _locate: the file of the candle with an index in the range.
locate ==
    [i \in 0 .. Total - 1 |-> CHOOSE f \in Files : cumulative[f] <= i /\ i < cumulative[f + 1]]

\* Where the candle is in its file.
Row(i) == i - cumulative[locate[i]] + RowsBefore(locate[i])

VARIABLES
    pages,       \* the LRU: pages [file, offset, len], least recently used first
    cachedBars,  \* _cached_bars, the bars the LRU is believed to hold
    read,        \* what each thread reads
    reads,
    drift        \* history: bars held that are in no count, less those counted
                 \* that are not held, from what interleaved reads do to the count

rangeVars == <<pages, cachedBars, read, reads, drift>>

Shorter(a, b) == IF a < b THEN a ELSE b
Longer(a, b) == IF a < b THEN b ELSE a

KeyWithoutFile(i) == [file |-> 1, offset |-> PageSize * (Row(i) \div PageSize)]

\* The page of a candle, as a key.
KeyOf(i) == [file |-> locate[i], offset |-> PageSize * (Row(i) \div PageSize)]

\* read_len of _read_range and of __iter__.
LengthFor(r, i) ==
    LET f == locate[i]
        available == EndOf(f) - KeyOf(i).offset
        take == Shorter(r.upto - i, cumulative[f + 1] - i)
    IN  Shorter(IF r.how = "slice" THEN Longer(take, PageSize) ELSE PageSize, available)

IsPage(p, key) == p.file = key.file /\ p.offset = key.offset
Holds(key) == \E k \in DOMAIN pages : IsPage(pages[k], key)
PlaceOf(key) == CHOOSE k \in DOMAIN pages : IsPage(pages[k], key)
Others(key) == IF Holds(key) THEN RemoveAt(pages, PlaceOf(key)) ELSE pages

\* The candles of a page from an index on, as far as the read goes.
CandlesFrom(page, r, i) ==
    LET skip == Row(i) - page.offset
        end == IF r.how = "slice" THEN Shorter(page.len, skip + r.upto - i) ELSE page.len
    IN  [k \in 1 .. Longer(end - skip, 0) |-> <<page.file, page.offset + skip + k - 1>>]

\* A page that is kept already keeps its place, as in a dictionary.
Stored(page) ==
    LET key == [file |-> page.file, offset |-> page.offset]
    IN  IF Holds(key) THEN [pages EXCEPT ![PlaceOf(key)] = page] ELSE Append(pages, page)

\* No page in hand.
NoPage == [file |-> 0, offset |-> 0, len |-> 0]

At(t) == read[t].from + Len(read[t].got)
Resting(t) == read[t].pc \in {"idle", "done", "failed"}

RangeInit ==
    /\ pages = <<>> /\ cachedBars = 0
    /\ read = [t \in Threads |-> [pc |-> "idle", how |-> "slice", from |-> 0, upto |-> 0,
                                  got |-> <<>>, page |-> NoPage, due |-> 0, old |-> 0]]
    /\ reads = 0 /\ drift = 0

\* A slice, an index or an iteration, cut to the range.
Start(t, q) ==
    /\ Resting(t) /\ reads < MaxReads
    /\ q.from < Shorter(q.upto, Total)
    /\ read' = [read EXCEPT ![t] = [pc |-> "lookup", how |-> q.how, from |-> q.from,
                                    upto |-> IF q.how = "slice" THEN Shorter(q.upto, Total) ELSE Total,
                                    got |-> <<>>, page |-> NoPage, due |-> 0, old |-> 0]]
    /\ reads' = reads + 1
    /\ UNCHANGED <<pages, cachedBars, drift>>

\* _page: the list found is kept in hand.
Lookup(t) ==
    LET key == KeyOf(At(t))
    IN  /\ read[t].pc = "lookup"
        /\ read' = IF Holds(key)
                   THEN [read EXCEPT ![t].pc = "touch", ![t].page = pages[PlaceOf(key)]]
                   ELSE [read EXCEPT ![t].pc = "load"]
        /\ UNCHANGED <<pages, cachedBars, reads, drift>>

\* move_to_end, which fails when the page was evicted since the lookup.
Touch(t) ==
    LET key == KeyOf(At(t))
    IN  /\ read[t].pc = "touch"
        /\ read' = [read EXCEPT ![t].pc = IF Holds(key) THEN "take" ELSE "failed"]
        /\ pages' = IF Holds(key) THEN Append(Others(key), pages[PlaceOf(key)]) ELSE pages
        /\ UNCHANGED <<cachedBars, reads, drift>>

\* The page is stored; where another thread has stored it meanwhile, it will
\* have been counted twice.
Load(t) ==
    LET key == KeyOf(At(t))
        page == [file |-> key.file, offset |-> key.offset, len |-> LengthFor(read[t], At(t))]
    IN  /\ read[t].pc = "load"
        /\ pages' = Stored(page)
        /\ drift' = IF Holds(key) THEN drift - pages[PlaceOf(key)].len ELSE drift
        /\ read' = [read EXCEPT ![t].pc = "move", ![t].page = page, ![t].due = page.len]
        /\ UNCHANGED <<cachedBars, reads>>

\* move_to_end of the stored page.  Whoever evicts it before takes its bars from
\* the count, and they are never added.
Move(t) ==
    LET key == KeyOf(At(t))
    IN  /\ read[t].pc = "move"
        /\ IF Holds(key)
           THEN /\ read' = [read EXCEPT ![t].pc = "count"]
                /\ pages' = Append(Others(key), pages[PlaceOf(key)])
                /\ UNCHANGED drift
           ELSE /\ read' = [read EXCEPT ![t].pc = "failed", ![t].due = 0]
                /\ drift' = drift + read[t].due
                /\ UNCHANGED pages
        /\ UNCHANGED <<cachedBars, reads>>

\* The two halves of += and -= of the bar count, of what is due to it.  Changes
\* made between them are lost.
ReadCount(t) ==
    /\ read[t].pc = "count"
    /\ read' = [read EXCEPT ![t].pc = "write", ![t].old = cachedBars]
    /\ UNCHANGED <<pages, cachedBars, reads, drift>>

WriteCount(t) ==
    /\ read[t].pc = "write"
    /\ cachedBars' = read[t].old + read[t].due
    /\ drift' = drift + (cachedBars - read[t].old)
    /\ read' = [read EXCEPT ![t].pc = "evict", ![t].due = 0, ![t].old = 0]
    /\ UNCHANGED <<pages, reads>>

OverfullOfPages == Len(pages) > MaxCachedBars
Overfull == cachedBars > MaxCachedBars

\* The loop that evicts looks at the count, then at the pages, then pops one.
TestCount(t) ==
    /\ read[t].pc = "evict" /\ Overfull
    /\ read' = [read EXCEPT ![t].pc = "held"]
    /\ UNCHANGED <<pages, cachedBars, reads, drift>>

TestPages(t) ==
    /\ read[t].pc = "held" /\ pages # <<>>
    /\ read' = [read EXCEPT ![t].pc = "pop"]
    /\ UNCHANGED <<pages, cachedBars, reads, drift>>

EvictOthers(t) ==
    /\ read[t].pc = "pop"
    /\ IF pages # <<>>
       THEN LET own == IsPage(Head(pages), read[t].page)
            IN  /\ pages' = IF own THEN Append(Tail(pages), Head(pages)) ELSE Tail(pages)
                /\ read' = [read EXCEPT ![t].pc = "count",
                                        ![t].due = IF own THEN 0 ELSE -Head(pages).len]
       ELSE /\ read' = [read EXCEPT ![t].pc = "failed"]
            /\ UNCHANGED pages
    /\ UNCHANGED <<cachedBars, reads, drift>>

\* popitem, which fails when the last page was evicted since the test.
Evict(t) ==
    /\ read[t].pc = "pop"
    /\ IF pages # <<>>
       THEN /\ pages' = Tail(pages)
            /\ read' = [read EXCEPT ![t].pc = "count", ![t].due = -Head(pages).len]
       ELSE /\ read' = [read EXCEPT ![t].pc = "failed"]
            /\ UNCHANGED pages
    /\ UNCHANGED <<cachedBars, reads, drift>>

LeavesLoop(t) == \/ read[t].pc = "evict" /\ ~Overfull
                 \/ read[t].pc = "held" /\ pages = <<>>

\* The candles of the page are appended; a page without any ends the read.
Take(t) ==
    LET r == read[t]
        candles == CandlesFrom(r.page, r, At(t))
        ends == candles = <<>> \/ At(t) + Len(candles) >= r.upto
    IN  /\ r.pc = "take" \/ LeavesLoop(t)
        /\ read' = [read EXCEPT ![t].pc = IF ends THEN "done" ELSE "lookup",
                                ![t].got = @ \o candles, ![t].page = NoPage]
        /\ UNCHANGED <<pages, cachedBars, reads, drift>>

Proceed(t) ==
    \/ Lookup(t) \/ Touch(t) \/ Load(t) \/ Move(t) \/ ReadCount(t) \/ WriteCount(t)
    \/ TestCount(t) \/ TestPages(t) \/ Evict(t) \/ Take(t)

RangeNext ==
    \E t \in Threads :
        \/ \E q \in Requests : Start(t, q)
        \/ Proceed(t)

\* A request that is being served goes on.
RangeSpec ==
    RangeInit /\ [][RangeNext]_rangeVars /\ \A t \in Threads : WF_rangeVars(Proceed(t))

-----------------------------------------------------------------------------
(* Properties *)

Page == [file : Files, offset : Nat, len : Nat \ {0}]

\* The types, one page per key, and no page longer than its file.
PagesOK ==
    /\ pages \in Seq(Page)
    /\ \A j, k \in DOMAIN pages : IsPage(pages[j], pages[k]) => j = k
    /\ \A k \in DOMAIN pages : pages[k].offset + pages[k].len <= EndOf(pages[k].file)
    /\ cachedBars \in Int
    /\ \A t \in Threads : At(t) <= read[t].upto /\ read[t].upto <= Total
    /\ reads \in 0 .. MaxReads /\ drift \in Int

\* The range as a sequence, the reference of what is read.
InRange ==
    LET upTo[f \in 0 .. Len(Rows)] ==
            IF f = 0 THEN <<>>
            ELSE upTo[f - 1] \o [k \in 1 .. Count(f) |-> <<f, RowsBefore(f) + k - 1>>]
    IN  upTo[Len(Rows)]

\* A read returns exactly the candles asked for, none missing, doubled or out
\* of the range, whichever pages, short or long, others loaded and evicted.
ReadsAreExact ==
    \A t \in Threads :
        /\ read[t].got = SubSeq(InRange, read[t].from + 1, At(t))
        /\ read[t].pc = "done" => At(t) = read[t].upto

BarsOf(c) == SumOf([k \in DOMAIN c |-> c[k].len])
DueOf(r) == SumOf([t \in Threads |-> r[t].due])

\* Whatever the threads do between each other's steps, the bars held are those
\* counted and those still due to the count, but for what three races make of
\* it: a page stored twice, one evicted before it was counted, and changes of
\* the count that are overwritten.  When nothing is being read the count is
\* within its bound or the cache is empty; one page per key, none longer than
\* its file, always.
CacheIsBounded ==
    /\ PagesOK
    /\ BarsOf(pages) = cachedBars + DueOf(read) + drift
    /\ (\A t \in Threads : Resting(t)) => cachedBars <= MaxCachedBars \/ pages = <<>>

\* Every read ends, even where overlapping reads have spoiled the bar count: the
\* loop that evicts ends with the last page, however wrong the count is.
ReadsEnd == \A t \in Threads : ~Resting(t) ~> Resting(t)
=============================================================================
