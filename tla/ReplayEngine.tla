---------------------------- MODULE ReplayEngine ----------------------------
(***************************************************************************)
(* The replay engine: one session's working state and every operation that *)
(* changes it (backend/app/service.py, execution.py, stats.py, domain.py). *)
(*                                                                         *)
(* A session replays a pinned, immutable list of NBars one-minute candles. *)
(* The dataset is chosen lazily: the candle a step reveals is any member   *)
(* of Bars, and once revealed it never changes (a bar is revealed once).   *)
(* Prices, quantities and costs are integers; the three cost components of *)
(* a fill are linear in its quantity and are carried as one UnitCost, and  *)
(* P&L is measured at reference (mid) prices, as the code does.            *)
(*                                                                         *)
(* A step request runs advance_step_minutes iterations of one loop. Each   *)
(* iteration is the action RevealMinute; the variable loop says that the   *)
(* request is still running, and every other operation waits for it.       *)
(***************************************************************************)
EXTENDS ReplayStats, Listing

CONSTANTS
    Bars,            \* candles the dataset may hold: [open, high, low, close]
    Levels,          \* prices a user may ask for as a stop or a target
    Quantities,      \* order and close quantities
    Steps,           \* values of advance_step_minutes
    NBars,           \* length of the session's replay range
    MaxTrades,       \* bound: entries per session
    Scale,           \* contract_multiplier * conversion_rate
    UnitCost         \* commission + (spread / 2 + slippage) * Scale, per unit

\* Imports accept a candle only when low and high bound its open and close.
ASSUME BarsAssumption ==
    \A b \in Bars :
        /\ b \in [open : Int, high : Int, low : Int, close : Int]
        /\ b.low <= b.open /\ b.low <= b.close
        /\ b.open <= b.high /\ b.close <= b.high

ASSUME InputsAssumption ==
    /\ Levels \subseteq Int
    /\ Quantities \subseteq Nat \ {0}
    /\ Steps \subseteq Nat \ {0}
    /\ NBars \in Nat \ {0}
    /\ MaxTrades \in Nat

ASSUME CostsAssumption ==
    /\ Scale \in Nat \ {0}
    /\ UnitCost \in Nat
    /\ InitialBalance \in Nat \ {0}

\* The realized R of a trade is counted in parts that make every one exact.
ASSUME RAssumption ==
    /\ RUnit \in Nat \ {0}
    /\ \A b \in Bars, level \in Levels, q \in Quantities :
         LET risk == (IF b.close < level THEN level - b.close ELSE b.close - level) * q * Scale
         IN  risk = 0 \/ RUnit % risk = 0

\* How a trade has left the market: where, why, when and on which candle.
Exit ==
    [price : Int, reason : {"manual", "session_end", "stop", "target"},
     precision : {"exact", "bar_interval"}, time : Nat, source : Nat]

ASSUME NoneAssumption == None \notin Int /\ None \notin Exit

VARIABLES
    status,       \* "active" or "completed"
    step,         \* advance_step_minutes
    revealed,     \* replay[0 .. current_index]
    trades,       \* every trade of the session, in insertion (rowid) order
    fills,        \* the fill ledger, in insertion (rowid) order
    accumulator,  \* StatsAccumulator, with the two history totals
    loop          \* minutes the running step request has left; None: idle

vars == <<status, step, revealed, trades, fills, accumulator, loop>>

CurrentIndex == Len(revealed) - 1
CurrentBar == revealed[Len(revealed)]
Price == CurrentBar.close
Idle == loop = None

\* Times are counted in minutes: bar i opens at i and is revealed at i + 1.
RevealTime(i) == i + 1

OpenTrades == {i \in DOMAIN trades : trades[i].status = "open"}

-----------------------------------------------------------------------------
(* Execution *)

Lesser(a, b) == IF a < b THEN a ELSE b
Greater(a, b) == IF a < b THEN b ELSE a
Distance(a, b) == IF a < b THEN b - a ELSE a - b
IsLong(t) == t.direction = "long"

\* P&L of moving from entry to price, from the trade's perspective.
Delta(t, price) == IF IsLong(t) THEN price - t.entry ELSE t.entry - price

\* The sides on which a stop and a target may be placed around a price.
StopAllowed(direction, stop, price) ==
    stop # None => IF direction = "long" THEN stop < price ELSE price < stop
TargetAllowed(direction, target, price) ==
    target # None => IF direction = "long" THEN price < target ELSE target < price

StopTouchedStrictly(t, b) ==
    t.stop # None /\ IF IsLong(t) THEN b.low < t.stop ELSE t.stop < b.high
StopTouched(t, b) ==
    t.stop # None /\ IF IsLong(t) THEN b.low <= t.stop ELSE t.stop <= b.high
TargetTouched(t, b) ==
    t.target # None /\ IF IsLong(t) THEN t.target <= b.high ELSE b.low <= t.target
StopGapped(t, b) ==
    t.stop # None /\ IF IsLong(t) THEN b.open <= t.stop ELSE t.stop <= b.open
TargetGapped(t, b) ==
    t.target # None /\ IF IsLong(t) THEN t.target <= b.open ELSE b.open <= t.target

StopFillPriceUngapped(t, b) == t.stop
StopFillPrice(t, b) ==
    IF IsLong(t) THEN Lesser(t.stop, b.open) ELSE Greater(t.stop, b.open)
TargetFillPrice(t, b) ==
    IF IsLong(t) THEN Greater(t.target, b.open) ELSE Lesser(t.target, b.open)

ExitsOn(t, b) == StopTouched(t, b) \/ TargetTouched(t, b)

\* How an open trade leaves on bar b, whose index is at: a gap through the
\* target first, then a gap through the stop, then the stop, then the target.
ExitOn(t, b, at) ==
    LET exit(price, reason, precision) ==
            [price |-> price, reason |-> reason, precision |-> precision,
             time |-> at, source |-> at]
    IN  IF TargetTouched(t, b) /\ TargetGapped(t, b)
          THEN exit(TargetFillPrice(t, b), "target", "exact")
        ELSE IF StopTouched(t, b) /\ StopGapped(t, b)
          THEN exit(StopFillPrice(t, b), "stop", "exact")
        ELSE IF StopTouched(t, b)
          THEN exit(StopFillPrice(t, b), "stop", "bar_interval")
        ELSE exit(TargetFillPrice(t, b), "target", "bar_interval")

ExitAtOpenTime(reason) ==
    [price |-> Price, reason |-> reason, precision |-> "exact",
     time |-> CurrentIndex, source |-> CurrentIndex]

\* An exit at the latest revealed close, at its exact reveal time.
ExitNow(reason) ==
    [price |-> Price, reason |-> reason, precision |-> "exact",
     time |-> RevealTime(CurrentIndex), source |-> CurrentIndex]

AfterCloseFree(t, q, exit) ==
    [t EXCEPT !.remaining = @ - q,
              !.realized = @ + Delta(t, exit.price) * q * Scale,
              !.status = IF q = t.remaining THEN "closed" ELSE @,
              !.exit = IF q = t.remaining THEN exit ELSE @]

\* The trade after closing q units of it; the exit metadata is set only by the
\* close that leaves nothing (quantities are exact here, so only q = remaining).
AfterClose(t, q, exit) ==
    [t EXCEPT !.remaining = @ - q,
              !.realized = @ + Delta(t, exit.price) * q * Scale - UnitCost * q,
              !.status = IF q = t.remaining THEN "closed" ELSE @,
              !.exit = IF q = t.remaining THEN exit ELSE @]

\* One booking: a fill together with its trade as the fill left it.
CloseTrade(i, q, exit) ==
    LET t == trades[i]
        gross == Delta(t, exit.price) * q * Scale
    IN  [fill |-> [trade |-> i, quantity |-> q, price |-> exit.price,
                   gross |-> gross, net |-> gross - UnitCost * q,
                   reason |-> exit.reason, precision |-> exit.precision,
                   time |-> exit.time, source |-> exit.source],
         trade |-> AfterClose(t, q, exit)]

NewTrade(direction, q, stop, target) ==
    [direction |-> direction, initial |-> q, remaining |-> q, status |-> "open",
     entry |-> Price, entryTime |-> RevealTime(CurrentIndex),
     stop |-> stop, target |-> target,
     risk |-> IF stop = None THEN None ELSE Distance(Price, stop) * q * Scale,
     realized |-> -(UnitCost * q), exit |-> None, mfe |-> 0, mae |-> 0]

OpenTrade(t) ==
    [fill |-> [trade |-> Len(trades) + 1, quantity |-> t.initial, price |-> Price,
               gross |-> 0, net |-> t.realized, reason |-> "entry",
               precision |-> "exact", time |-> t.entryTime, source |-> CurrentIndex],
     trade |-> t]

ExcursedIntrabar(t, b) ==
    [t EXCEPT !.mfe = Greater(@, Delta(t, IF IsLong(t) THEN b.high ELSE b.low)),
              !.mae = Lesser(@, Delta(t, b.close))]

\* Close-based excursions, measured after the bar's exits.
Excursed(t, b) ==
    [t EXCEPT !.mfe = Greater(@, Delta(t, b.close)),
              !.mae = Lesser(@, Delta(t, b.close))]

-----------------------------------------------------------------------------
(* The operations *)

\* Appends the bookings to the ledger and books them, one after another.
Record(bookings) ==
    /\ fills' = fills \o [k \in DOMAIN bookings |-> bookings[k].fill]
    /\ accumulator' = BookAll(accumulator, bookings)

Init ==
    /\ status = "active"
    /\ step \in Steps
    /\ revealed = << >>
    /\ trades = << >>
    /\ fills = << >>
    /\ accumulator = EmptyAccumulator
    /\ loop = None

MarketOrder(direction, q, stop, target) ==
    /\ Idle /\ status = "active" /\ CurrentIndex >= 0
    /\ Len(trades) < MaxTrades
    /\ StopAllowed(direction, stop, Price)
    /\ TargetAllowed(direction, target, Price)
    /\ LET t == NewTrade(direction, q, stop, target)
       IN  /\ trades' = Append(trades, t)
           /\ Record(<<OpenTrade(t)>>)
    /\ UNCHANGED <<status, step, revealed, loop>>

\* Allowed on a completed session too; an oversized quantity is rejected.
ClosePosition(i, q) ==
    /\ Idle /\ i \in OpenTrades
    /\ q <= trades[i].remaining
    /\ LET booking == CloseTrade(i, q, ExitNow("manual"))
       IN  /\ trades' = [trades EXCEPT ![i] = booking.trade]
           /\ Record(<<booking>>)
    /\ UNCHANGED <<status, step, revealed, loop>>

\* Every open trade, in list order, which is rowid order. With none open only the revision moves.
CloseAllPositions ==
    /\ Idle /\ OpenTrades # {}
    /\ LET reason == IF status = "completed" THEN "session_end" ELSE "manual"
           booking == [i \in OpenTrades |->
                         CloseTrade(i, trades[i].remaining, ExitNow(reason))]
           order == Ascending(OpenTrades)
       IN  /\ trades' = [i \in DOMAIN trades |->
                          IF i \in OpenTrades THEN booking[i].trade ELSE trades[i]]
           /\ Record([k \in DOMAIN order |-> booking[order[k]]])
    /\ UNCHANGED <<status, step, revealed, loop>>

UpdateAnyTradeStop(i, price) ==
    /\ Idle
    /\ StopAllowed(trades[i].direction, price, Price)
    /\ trades' = [trades EXCEPT ![i].stop = price]
    /\ UNCHANGED <<status, step, revealed, fills, accumulator, loop>>

UpdateTradeStop(i, price) ==
    /\ Idle /\ i \in OpenTrades
    /\ StopAllowed(trades[i].direction, price, Price)
    /\ trades' = [trades EXCEPT ![i].stop = price]
    /\ UNCHANGED <<status, step, revealed, fills, accumulator, loop>>

UpdateTradeTarget(i, price) ==
    /\ Idle /\ i \in OpenTrades
    /\ TargetAllowed(trades[i].direction, price, Price)
    /\ trades' = [trades EXCEPT ![i].target = price]
    /\ UNCHANGED <<status, step, revealed, fills, accumulator, loop>>

UpdateSettings(n) ==
    /\ Idle
    /\ step' = n
    /\ UNCHANGED <<status, revealed, trades, fills, accumulator, loop>>

Step ==
    /\ Idle /\ status = "active"
    /\ loop' = step
    /\ UNCHANGED <<status, step, revealed, trades, fills, accumulator>>

HasNextBar == CurrentIndex + 1 < NBars
AtEndEarly == CurrentIndex >= NBars - 2
AtEnd == CurrentIndex >= NBars - 1

\* One iteration of the step loop: process_bar, then update_close_excursions.
RevealMinute(b) ==
    /\ ~Idle /\ loop > 0 /\ HasNextBar
    /\ LET at == CurrentIndex + 1
           closing == {i \in OpenTrades : ExitsOn(trades[i], b)}
           booking == [i \in closing |->
                         CloseTrade(i, trades[i].remaining, ExitOn(trades[i], b, at))]
           order == Ascending(closing)
       IN  /\ trades' = [i \in DOMAIN trades |->
                          IF i \in closing THEN booking[i].trade
                          ELSE IF i \in OpenTrades THEN Excursed(trades[i], b)
                          ELSE trades[i]]
           /\ Record([k \in DOMAIN order |-> booking[order[k]]])
    /\ revealed' = Append(revealed, b)
    /\ loop' = loop - 1
    /\ UNCHANGED <<status, step>>

\* An iteration that finds no candle left completes the session and breaks.
StepBreak ==
    /\ ~Idle /\ loop > 0 /\ ~HasNextBar
    /\ status' = "completed"
    /\ loop' = 0
    /\ UNCHANGED <<step, revealed, trades, fills, accumulator>>

\* After the loop, a session whose last candle is revealed is completed too.
StepEnd ==
    /\ loop = 0
    /\ status' = IF AtEnd THEN "completed" ELSE status
    /\ loop' = None
    /\ UNCHANGED <<step, revealed, trades, fills, accumulator>>

Next ==
    \/ \E direction \in {"long", "short"}, q \in Quantities,
          stop, target \in Levels \cup {None} : MarketOrder(direction, q, stop, target)
    \/ \E i \in DOMAIN trades, q \in Quantities : ClosePosition(i, q)
    \/ CloseAllPositions
    \/ \E i \in DOMAIN trades, price \in Levels \cup {None} :
          UpdateTradeStop(i, price) \/ UpdateTradeTarget(i, price)
    \/ \E n \in Steps : UpdateSettings(n)
    \/ Step
    \/ \E b \in Bars : RevealMinute(b)
    \/ StepBreak
    \/ StepEnd

Spec == Init /\ [][Next]_vars

\* The server finishes the loop of a request it has started, and a client in
\* playback keeps sending step requests until the session is completed.
FairSpec ==
    /\ Spec
    /\ WF_vars((\E b \in Bars : RevealMinute(b)) \/ StepBreak \/ StepEnd)
    /\ WF_vars(Step)

-----------------------------------------------------------------------------
(* Properties *)

Trade ==
    [direction : {"long", "short"}, initial : Nat \ {0}, remaining : Nat,
     status : {"open", "closed"}, entry : Int, entryTime : Nat,
     stop : Int \cup {None}, target : Int \cup {None}, risk : Nat \cup {None},
     realized : Int, exit : Exit \cup {None}, mfe : Int, mae : Int]

\* The types of the working state; the ledger and the accumulator are left to
\* the properties that relate them to the trades.
TypeOK ==
    /\ status \in {"active", "completed"}
    /\ step \in Nat \ {0}
    /\ revealed \in Seq(Bars) /\ Len(revealed) <= NBars
    /\ trades \in Seq(Trade)
    /\ loop \in Nat \cup {None}

\* No open trade ever outlives its own stop or target: at every revealed close
\* the stop still lies strictly on the losing side of the price and the target
\* on the winning side, whatever orders, moves and candles came before
\* (process_bar must have closed every trade whose level the candle reached).
LevelsNotCrossed ==
    \A i \in OpenTrades :
        /\ Len(revealed) > 0
        /\ StopAllowed(trades[i].direction, trades[i].stop, Price)
        /\ TargetAllowed(trades[i].direction, trades[i].target, Price)

\* An automatic exit happens at a price the candle traded, never better than
\* the stop and never worse than the target; an exact one is the candle's open;
\* and an intrabar target is granted only if the candle left the stop alone
\* (docs: a candle that touches both levels is settled at the stop).
ExitsAreHonest ==
    \A i \in DOMAIN trades :
        trades[i].exit # None /\ trades[i].exit.reason \in {"stop", "target"} =>
            LET t == trades[i]
                x == t.exit
                b == revealed[x.source + 1]
            IN  /\ b.low <= x.price /\ x.price <= b.high
                /\ x.reason = "stop" => Delta(t, x.price) <= Delta(t, t.stop)
                /\ x.reason = "target" => Delta(t, x.price) >= Delta(t, t.target)
                /\ x.precision = "exact" => x.price = b.open
                /\ x.reason = "target" /\ x.precision = "bar_interval" /\ t.stop # None
                    => IF IsLong(t) THEN t.stop < b.low ELSE b.high < t.stop

\* The ledger explains every trade: its first fill is its entry, its exits add
\* up to what is no longer held, its net P&L is the sum of its fills, and it is
\* closed exactly when nothing remains, by its last fill.
LedgerExplainsTrades ==
    \A i \in DOMAIN trades :
        LET t == trades[i]
            mine == {k \in DOMAIN fills : fills[k].trade = i}
            exits == {k \in mine : fills[k].reason # "entry"}
            last == fills[Max(mine)]
        IN  /\ mine \ exits = {Min(mine)}
            /\ fills[Min(mine)].quantity = t.initial
            /\ SumOver(exits, [k \in DOMAIN fills |-> fills[k].quantity]) = t.initial - t.remaining
            /\ SumOver(mine, [k \in DOMAIN fills |-> fills[k].net]) = t.realized
            /\ (t.status = "closed") = (t.remaining = 0)
            /\ IF t.status = "open" THEN t.exit = None
               ELSE t.exit = [price |-> last.price, reason |-> last.reason,
                              precision |-> last.precision, time |-> last.time,
                              source |-> last.source]

\* Effective execution times never run backwards along the ledger and never
\* pass the market clock, although a stop's fill is stamped with the open of a
\* candle and a manual one with the reveal time of the candle before it.
LedgerIsCausal ==
    /\ \A k \in DOMAIN fills :
         /\ fills[k].source <= CurrentIndex
         /\ fills[k].time <= RevealTime(CurrentIndex)
         /\ k > 1 => fills[k - 1].time <= fills[k].time
    /\ \A i \in DOMAIN trades :
         trades[i].exit # None => trades[i].entryTime <= trades[i].exit.time

\* What closing every open trade at the current price would realize.
Unrealized ==
    SumOver(OpenTrades,
            [i \in DOMAIN trades |-> Delta(trades[i], Price) * trades[i].remaining * Scale
                                     - UnitCost * trades[i].remaining])

\* The O(1) statistics equal the full-history reference at every moment:
\* partial closes, several exits on one candle and drawdowns included.
StatsMatchHistory ==
    Stats(accumulator, Unrealized) = StatsFromHistory(trades, fills, Unrealized)

\* The v6 backfill would rebuild exactly the accumulator the engine kept.
AccumulatorRebuilds == accumulator = AccumulatorFromHistory(trades, fills)

\* MFE and MAE are the best and worst revealed close while the trade was open:
\* the close of a candle that stopped the trade out never counts.
ExcursionsMatchCloses ==
    \A i \in DOMAIN trades :
        LET t == trades[i]
            last == IF t.exit = None THEN CurrentIndex
                    ELSE IF t.exit.reason \in {"stop", "target"} THEN t.exit.source - 1
                    ELSE t.exit.source
            seen == {Delta(t, revealed[j + 1].close) : j \in t.entryTime .. last}
        IN  t.mfe = Max({0} \cup seen) /\ t.mae = Min({0} \cup seen)

\* History is final: no operation rewrites a closed trade, a committed fill or
\* the terms on which a trade was entered, and a completed session reveals no
\* candle and opens no trade.
HistoryIsFinal ==
    [][/\ IsPrefix(fills, fills')
       /\ \A i \in DOMAIN trades :
            /\ trades[i].status = "closed" => trades'[i] = trades[i]
            /\ \A f \in {"direction", "initial", "entry", "entryTime", "risk"} :
                 trades'[i][f] = trades[i][f]
       /\ status = "completed" =>
            status' = status /\ revealed' = revealed /\ Len(trades') = Len(trades)]_vars

\* Playback reaches the end of the range whatever is traded between the steps.
PlaybackCompletes == <>(status = "completed" /\ Len(revealed) = NBars)
=============================================================================
