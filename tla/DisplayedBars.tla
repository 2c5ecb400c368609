--------------------------- MODULE DisplayedBars ---------------------------
(***************************************************************************)
(* What a chart is drawn from: candles of higher timeframes made of        *)
(* one-minute candles (backend/app/timeframes.py), their moving average    *)
(* (indicators.py), and the bounded tail of the candles revealed so far    *)
(* (service.py _tail, _rendered).  No state: the operators are checked     *)
(* where ChartFocus displays them.                                         *)
(*                                                                         *)
(* Times are minutes.  The profile "new_york_close" counts from an anchor  *)
(* on the local clock, which is put back once; a wall clock time that      *)
(* occurs twice means its first occurrence, as in datetime without fold.   *)
(***************************************************************************)
EXTENDS Integers, Sequences, FiniteSetsExt, SequencesExt

CONSTANTS
    Candles,        \* the dataset: candles [time, open, high, low, close], by time
    First,          \* the place of the first candle of the replay range
    Last1m,         \* and of the last
    Day, Anchor,    \* minutes of a day, and the session's start on the local clock
    PutBackAt,      \* when the clocks are put back
    PutBackBy,      \* and by how much
    Context,        \* chart_context_1m_bars
    Period,         \* of the moving average
    Warmup          \* _WARMUP_PERIODS

ASSUME DisplayAssumption ==
    /\ Candles \in Seq([time : Nat, open : Int, high : Int, low : Int, close : Int])
    /\ \A i, j \in DOMAIN Candles : i < j => Candles[i].time < Candles[j].time
    /\ First \in DOMAIN Candles /\ Last1m \in First .. Len(Candles)
    /\ Day \in Nat \ {0} /\ Anchor \in 0 .. Day - 1 /\ PutBackAt \in Nat /\ PutBackBy \in Nat
    /\ Context \in Nat \ {0} /\ Period \in Nat \ {0}

\* 36 periods before the chart, for an average over 35.
ASSUME WarmupAssumption == Warmup \in Nat /\ Period <= Warmup

Least(a, b) == IF a < b THEN a ELSE b
Greatest(a, b) == IF a < b THEN b ELSE a

Wall(t) == IF t < PutBackAt THEN t ELSE t - PutBackBy
Instant(w) == IF w < PutBackAt THEN w ELSE w + PutBackBy

\* The start of the session day and of the bucket, on the local clock.
SessionStart(w) == w - ((w - Anchor) % Day)
SinceAnchor(w, minutes) == SessionStart(w) + minutes * ((w - SessionStart(w)) \div minutes)

bucket_for(t, minutes, profile) ==
    IF profile = "utc_aligned" THEN t - (t % minutes)
    ELSE Instant(SinceAnchor(Wall(t), minutes))

NewBar(c, bucket) ==
    [time |-> bucket, open |-> c.open, high |-> c.high, low |-> c.low, close |-> c.close,
     from |-> c.time, upto |-> c.time]

Merged(b, c) ==
    [b EXCEPT !.high = Greatest(@, c.high), !.low = Least(@, c.low), !.close = c.close,
              !.upto = c.time]

\* A candle starts a bar, or is merged into the last one.
Join(result, c, bucket) ==
    IF result = <<>> \/ Last(result).time # bucket THEN Append(result, NewBar(c, bucket))
    ELSE [result EXCEPT ![Len(result)] = Merged(@, c)]

resample(bars, minutes, profile) ==
    LET joined[n \in 0 .. Len(bars)] ==
          IF n = 0 THEN <<>>
          ELSE Join(joined[n - 1], bars[n], bucket_for(bars[n].time, minutes, profile))
    IN  joined[Len(bars)]

\* The sum of the last closes of each bar that has enough of them.
sma(bars) ==
    [i \in 1 .. Greatest(0, Len(bars) - Period + 1) |->
        [time |-> bars[i + Period - 1].time,
         value |-> MapThenSumSet(LAMBDA k : bars[k].close, i .. i + Period - 1)]]

\* One-minute candles for the context and the warm-up of the average.
ContextWindow(minutes) == Context + Warmup * minutes

\* The candles before the range that a session holds, and those of the range.
before(minutes) == SubSeq(Candles, Greatest(1, First - ContextWindow(minutes)), First - 1)
replay == SubSeq(Candles, First, Last1m)

tail_one_too_many(current, minutes, window) ==
    LET b == before(minutes)
        start == Len(b) + current + 1 - window
    IN  IF current < 0 THEN SubSeq(b, Greatest(1, Len(b) - window + 1), Len(b))
        ELSE IF start <= 0 THEN b \o SubSeq(replay, 1, current + 1)
        ELSE IF start >= Len(b) THEN SubSeq(replay, start - Len(b) + 1, current + 1)
        ELSE SubSeq(b, start, Len(b)) \o SubSeq(replay, 1, current + 1)

\* _tail: the last window candles when the replay stands at index current.
tail(current, minutes, window) ==
    LET b == before(minutes)
        start == Len(b) + current + 1 - window
    IN  IF current < 0 THEN SubSeq(b, Greatest(1, Len(b) - window + 1), Len(b))
        ELSE IF start <= 0 THEN b \o SubSeq(replay, 1, current + 1)
        ELSE IF start >= Len(b) THEN SubSeq(replay, start - Len(b) + 1, current + 1)
        ELSE SubSeq(b, start + 1, Len(b)) \o SubSeq(replay, 1, current + 1)

\* displayed_bars and the indicator of _rendered.
Displayed(current, minutes, profile) ==
    resample(tail(current, minutes, Context), minutes, profile)
Indicator(current, minutes, profile) ==
    sma(resample(tail(current, minutes, ContextWindow(minutes)), minutes, profile))

-----------------------------------------------------------------------------
(* What they should be *)

\* Every bar stands for the candles from one time to another: all of them, each
\* in one bar, with the first open, the last close and the extremes between.
Faithful(bars, source) ==
    LET In(b) == {i \in DOMAIN source : b.from <= source[i].time /\ source[i].time <= b.upto}
    IN  /\ UNION {In(bars[k]) : k \in DOMAIN bars} = DOMAIN source
        /\ \A k \in 2 .. Len(bars) : bars[k - 1].upto < bars[k].from
        /\ \A k \in DOMAIN bars :
              LET own == In(bars[k])
              IN  /\ own # {}
                  /\ bars[k].open = source[Min(own)].open
                  /\ bars[k].close = source[Max(own)].close
                  /\ bars[k].high = Max({source[i].high : i \in own})
                  /\ bars[k].low = Min({source[i].low : i \in own})

InOrder(bars) == \A k \in 2 .. Len(bars) : bars[k - 1].time < bars[k].time

\* The local clock runs backwards between two of these candles.
PutBackWithin(source) ==
    \E i, j \in DOMAIN source : i < j /\ Wall(source[j].time) <= Wall(source[i].time)
=============================================================================
