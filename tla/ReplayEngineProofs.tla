------------------------- MODULE ReplayEngineProofs -------------------------
(***************************************************************************)
(* Theorems about the replay engine, for every dataset, every set of       *)
(* levels and quantities and every number of trades.                       *)
(*                                                                         *)
(* Three invariants.  IInv says where a trade stands now: its type, and    *)
(* its levels on their sides of the price.  HistoryInv adds what has       *)
(* happened: to every trade, since it was entered, and to the ledger, fill *)
(* by fill.  Most of it is said of one trade and the revealed candles, so  *)
(* that a lemma about one trade serves every operation.  BooksInv adds how *)
(* the trades, the ledger and the accumulator account for each other.  It  *)
(* is a predicate Books of any such three values, so that a lemma about    *)
(* one booking serves an operation that makes many, one after another.     *)
(***************************************************************************)
EXTENDS ReplayEngine, ListingProofs, SequenceTheorems

-----------------------------------------------------------------------------
(* What the execution helpers return *)

\* The four fields a close changes may take any value of their type.
LEMMA TradeUpdateType ==
    ASSUME NEW t \in Trade, NEW n \in Nat, NEW pnl \in Int,
           NEW s \in {"open", "closed"}, NEW x \in Exit \cup {None}
    PROVE  [t EXCEPT !.remaining = n, !.realized = pnl, !.status = s, !.exit = x] \in Trade
BY DEF Trade

\* A close of at most the remainder leaves a well-formed trade.
LEMMA AfterCloseType ==
    ASSUME NEW t \in Trade, NEW q \in Nat, q <= t.remaining, NEW exit \in Exit
    PROVE  AfterClose(t, q, exit) \in Trade
<1> DEFINE gross == Delta(t, exit.price) * q * Scale
           pnl == t.realized + gross - UnitCost * q
           status2 == IF q = t.remaining THEN "closed" ELSE t.status
           exit2 == IF q = t.remaining THEN exit ELSE t.exit
<1>1. pnl \in Int
  <2>1. Delta(t, exit.price) \in Int
    BY DEF Delta, Trade, Exit
  <2>2. Delta(t, exit.price) * q \in Int
    BY <2>1
  <2>3. gross \in Int
    BY <2>2, CostsAssumption
  <2>4. UnitCost * q \in Int
    BY CostsAssumption
  <2>5. t.realized \in Int
    BY DEF Trade
  <2> HIDE DEF gross
  <2> QED BY <2>3, <2>4, <2>5
<1>2. t.remaining - q \in Nat
  BY DEF Trade
<1>3. status2 \in {"open", "closed"} /\ exit2 \in Exit \cup {None}
  BY DEF Trade
<1> HIDE DEF pnl, status2, exit2
<1>4. [t EXCEPT !.remaining = t.remaining - q, !.realized = pnl,
                !.status = status2, !.exit = exit2] \in Trade
  BY <1>1, <1>2, <1>3, TradeUpdateType
<1> QED
  BY <1>4 DEF AfterClose, pnl, status2, exit2

\* An automatic exit has the price of a level or of the candle.
LEMMA ExitOnType ==
    ASSUME NEW t \in Trade, NEW b \in Bars, NEW at \in Nat, ExitsOn(t, b)
    PROVE  ExitOn(t, b, at) \in Exit
<1>1. /\ b.open \in Int /\ b.low \in Int /\ b.high \in Int
      /\ t.stop # None => t.stop \in Int
      /\ t.target # None => t.target \in Int
  BY BarsAssumption DEF Trade
<1>2. StopTouched(t, b) => StopFillPrice(t, b) \in Int
  BY <1>1 DEF StopTouched, StopFillPrice, Lesser, Greater
<1>3. TargetTouched(t, b) => TargetFillPrice(t, b) \in Int
  BY <1>1 DEF TargetTouched, TargetFillPrice, Lesser, Greater
<1> QED BY <1>2, <1>3 DEF ExitsOn, ExitOn, Exit

\* Measuring excursions leaves a well-formed trade.
LEMMA ExcursedType ==
    ASSUME NEW t \in Trade, NEW b \in Bars
    PROVE  Excursed(t, b) \in Trade
<1>1. Delta(t, b.close) \in Int
  BY BarsAssumption DEF Delta, Trade
<1>2. Greater(t.mfe, Delta(t, b.close)) \in Int /\ Lesser(t.mae, Delta(t, b.close)) \in Int
  BY <1>1 DEF Greater, Lesser, Trade
<1> QED BY <1>2 DEF Excursed, Trade
\* A trade that a valid candle leaves open has both levels on their own side
\* of the candle's close: the heart of LevelsNotCrossed.
LEMMA SurvivorKeepsLevels ==
    ASSUME NEW t \in Trade, NEW b \in Bars, ~ExitsOn(t, b)
    PROVE  /\ StopAllowed(t.direction, t.stop, b.close)
           /\ TargetAllowed(t.direction, t.target, b.close)
<1>1. /\ b.low \in Int /\ b.high \in Int /\ b.close \in Int
      /\ b.low <= b.close /\ b.close <= b.high
      /\ t.stop # None => t.stop \in Int
      /\ t.target # None => t.target \in Int
  BY BarsAssumption DEF Trade
<1>2. StopAllowed(t.direction, t.stop, b.close)
  BY <1>1 DEF ExitsOn, StopTouched, StopAllowed, IsLong
<1>3. TargetAllowed(t.direction, t.target, b.close)
  BY <1>1 DEF ExitsOn, TargetTouched, TargetAllowed, IsLong
<1> QED BY <1>2, <1>3

\* The price is defined as soon as a candle has been revealed.
LEMMA PriceType ==
    ASSUME TypeOK, Len(revealed) > 0
    PROVE  /\ CurrentBar \in Bars
           /\ Price \in Int
           /\ CurrentIndex \in Nat /\ RevealTime(CurrentIndex) \in Nat
<1>1. CurrentBar \in Bars
  BY DEF TypeOK, CurrentBar
<1> QED BY <1>1, BarsAssumption DEF Price, CurrentIndex, RevealTime, TypeOK

\* A market order enters a well-formed trade.
LEMMA NewTradeType ==
    ASSUME TypeOK, Len(revealed) > 0, NEW direction \in {"long", "short"},
           NEW q \in Quantities, NEW stop \in Levels \cup {None},
           NEW target \in Levels \cup {None}
    PROVE  NewTrade(direction, q, stop, target) \in Trade
<1>1. q \in Nat \ {0} /\ stop \in Int \cup {None} /\ target \in Int \cup {None}
  BY InputsAssumption
<1>2. Price \in Int /\ RevealTime(CurrentIndex) \in Nat
  BY PriceType
<1>3. -(UnitCost * q) \in Int
  BY <1>1, CostsAssumption
<1>4. stop # None => Distance(Price, stop) * q * Scale \in Nat
  <2> SUFFICES ASSUME stop # None PROVE Distance(Price, stop) * q * Scale \in Nat
    OBVIOUS
  <2>1. Distance(Price, stop) \in Nat
    BY <1>1, <1>2 DEF Distance
  <2>2. Distance(Price, stop) * q \in Nat
    BY <1>1, <2>1
  <2> QED BY <2>2, CostsAssumption
<1> QED BY <1>1, <1>2, <1>3, <1>4 DEF NewTrade, Trade

\* A manual exit has the revealed close.
LEMMA ExitNowType ==
    ASSUME TypeOK, Len(revealed) > 0, NEW reason \in {"manual", "session_end"}
    PROVE  ExitNow(reason) \in Exit
BY PriceType DEF ExitNow, Exit

-----------------------------------------------------------------------------
(* The inductive invariant *)

IInv == TypeOK /\ LevelsNotCrossed

\* A new session has no trade to cross a level.
LEMMA InitIInv == Init => IInv
BY InputsAssumption DEF Init, IInv, TypeOK, LevelsNotCrossed, OpenTrades

\* Every open trade, before a step, with what the invariant says about it.
LEMMA OpenTradeFacts ==
    ASSUME IInv, NEW i \in OpenTrades
    PROVE  /\ i \in DOMAIN trades /\ trades[i] \in Trade
           /\ trades[i].status = "open" /\ Len(revealed) > 0
           /\ StopAllowed(trades[i].direction, trades[i].stop, Price)
           /\ TargetAllowed(trades[i].direction, trades[i].target, Price)
BY DEF IInv, TypeOK, LevelsNotCrossed, OpenTrades

\* An operation that keeps the revealed candles and rewrites the trades in
\* place preserves the invariant if it does so for every open trade it leaves.
LEMMA InPlaceUpdate ==
    ASSUME IInv, UNCHANGED revealed,
           status' \in {"active", "completed"}, step' \in Nat \ {0},
           loop' \in Nat \cup {None},
           trades' \in Seq(Trade),
           \A i \in DOMAIN trades' : trades'[i].status = "open" =>
               /\ Len(revealed) > 0
               /\ StopAllowed(trades'[i].direction, trades'[i].stop, Price)
               /\ TargetAllowed(trades'[i].direction, trades'[i].target, Price)
    PROVE  IInv'
<1>1. TypeOK'
  BY DEF IInv, TypeOK
<1>2. Price' = Price
  BY DEF Price, CurrentBar
<1>3. LevelsNotCrossed'
  BY <1>2 DEF LevelsNotCrossed, OpenTrades
<1> QED BY <1>1, <1>3 DEF IInv
-----------------------------------------------------------------------------
(* One lemma per operation *)

\* validate_market_order lets in only levels on their sides of the price.
LEMMA MarketOrderStep ==
    ASSUME IInv, NEW direction \in {"long", "short"}, NEW q \in Quantities,
           NEW stop \in Levels \cup {None}, NEW target \in Levels \cup {None},
           MarketOrder(direction, q, stop, target)
    PROVE  IInv'
<1> DEFINE t == NewTrade(direction, q, stop, target)
<1>1. Len(revealed) > 0
  BY DEF MarketOrder, CurrentIndex, IInv, TypeOK
<1>2. t \in Trade
  BY <1>1, NewTradeType DEF IInv
<1>3. /\ t.status = "open" /\ t.direction = direction
      /\ t.stop = stop /\ t.target = target
  BY DEF NewTrade
<1>4. trades' = Append(trades, t)
  BY DEF MarketOrder
<1> HIDE DEF t
<1>5. trades \in Seq(Trade) /\ trades' \in Seq(Trade)
  BY <1>2, <1>4 DEF IInv, TypeOK
<1>6. ASSUME NEW i \in DOMAIN trades', trades'[i].status = "open"
      PROVE  /\ StopAllowed(trades'[i].direction, trades'[i].stop, Price)
             /\ TargetAllowed(trades'[i].direction, trades'[i].target, Price)
  <2>1. CASE i = Len(trades) + 1
    <3>1. trades'[i] = t
      BY <1>4, <1>5, <2>1
    <3> QED BY <1>3, <3>1 DEF MarketOrder
  <2>2. CASE i # Len(trades) + 1
    <3>1. i \in DOMAIN trades /\ trades'[i] = trades[i]
      BY <1>4, <1>5, <2>2
    <3>2. i \in OpenTrades
      BY <1>6, <3>1 DEF OpenTrades
    <3> QED BY <3>1, <3>2, OpenTradeFacts
  <2> QED BY <2>1, <2>2
<1> QED
  BY <1>1, <1>5, <1>6, InPlaceUpdate DEF MarketOrder, IInv, TypeOK

\* A partial or full close leaves the levels of what remains alone.
LEMMA ClosePositionStep ==
    ASSUME IInv, NEW i \in DOMAIN trades, NEW q \in Quantities, ClosePosition(i, q)
    PROVE  IInv'
<1> DEFINE t == AfterClose(trades[i], q, ExitNow("manual"))
<1>1. i \in OpenTrades /\ q <= trades[i].remaining /\ q \in Nat
  BY InputsAssumption DEF ClosePosition
<1>2. t \in Trade
  BY <1>1, OpenTradeFacts, ExitNowType, AfterCloseType DEF IInv
<1>3. t.direction = trades[i].direction /\ t.stop = trades[i].stop /\ t.target = trades[i].target
  BY <1>1, OpenTradeFacts DEF AfterClose, Trade
<1>4. trades' = [trades EXCEPT ![i] = t]
  BY DEF ClosePosition, CloseTrade
<1> HIDE DEF t
<1>5. trades \in Seq(Trade) /\ trades' \in Seq(Trade)
  BY <1>2, <1>4 DEF IInv, TypeOK
<1>6. ASSUME NEW j \in DOMAIN trades', trades'[j].status = "open"
      PROVE  /\ Len(revealed) > 0
             /\ StopAllowed(trades'[j].direction, trades'[j].stop, Price)
             /\ TargetAllowed(trades'[j].direction, trades'[j].target, Price)
  <2>1. CASE j = i
    BY <1>1, <1>3, <1>4, <1>5, <2>1, OpenTradeFacts
  <2>2. CASE j # i
    <3>1. j \in OpenTrades /\ trades'[j] = trades[j]
      BY <1>4, <1>5, <1>6, <2>2 DEF OpenTrades
    <3> QED BY <3>1, OpenTradeFacts
  <2> QED BY <2>1, <2>2
<1> QED
  BY <1>5, <1>6, InPlaceUpdate DEF ClosePosition, IInv, TypeOK

\* Closing everything leaves no open trade at all.
LEMMA CloseAllStep ==
    ASSUME IInv, CloseAllPositions
    PROVE  IInv'
<1> DEFINE reason == IF status = "completed" THEN "session_end" ELSE "manual"
           closed(i) == AfterClose(trades[i], trades[i].remaining, ExitNow(reason))
<1>1. trades \in Seq(Trade)
  BY DEF IInv, TypeOK
<1>2. ASSUME NEW i \in OpenTrades
      PROVE  closed(i) \in Trade /\ closed(i).status = "closed"
  <2>1. /\ trades[i] \in Trade /\ ExitNow(reason) \in Exit
        /\ trades[i].remaining \in Nat /\ trades[i].remaining <= trades[i].remaining
    BY <1>2, OpenTradeFacts, ExitNowType DEF IInv, Trade
  <2>2. closed(i) \in Trade
    BY <2>1, AfterCloseType
  <2>3. closed(i).status = "closed"
    BY <2>1 DEF AfterClose, Trade
  <2> QED BY <2>2, <2>3
<1>3. trades' = [i \in DOMAIN trades |-> IF i \in OpenTrades THEN closed(i) ELSE trades[i]]
  BY DEF CloseAllPositions, CloseTrade
<1> HIDE DEF closed
<1>4. trades' \in Seq(Trade)
  BY <1>1, <1>2, <1>3
<1>5. \A i \in DOMAIN trades' : trades'[i].status # "open"
  BY <1>2, <1>3 DEF OpenTrades
<1> QED
  BY <1>4, <1>5, InPlaceUpdate DEF CloseAllPositions, IInv, TypeOK

\* Moving one level of one open trade to an allowed place.
LEMMA UpdateLevelStep ==
    ASSUME IInv, NEW i \in DOMAIN trades, NEW price \in Levels \cup {None},
           UpdateTradeStop(i, price) \/ UpdateTradeTarget(i, price)
    PROVE  IInv'
<1>1. i \in OpenTrades /\ price \in Int \cup {None}
  BY InputsAssumption DEF UpdateTradeStop, UpdateTradeTarget
<1>2. PICK t \in Trade :
        /\ trades' = [trades EXCEPT ![i] = t]
        /\ StopAllowed(t.direction, t.stop, Price)
        /\ TargetAllowed(t.direction, t.target, Price)
  <2>1. CASE UpdateTradeStop(i, price)
    <3>1. [trades[i] EXCEPT !.stop = price] \in Trade
      BY <1>1, OpenTradeFacts DEF Trade
    <3> QED
      BY <1>1, <2>1, <3>1, OpenTradeFacts DEF UpdateTradeStop, Trade
  <2>2. CASE UpdateTradeTarget(i, price)
    <3>1. [trades[i] EXCEPT !.target = price] \in Trade
      BY <1>1, OpenTradeFacts DEF Trade
    <3> QED
      BY <1>1, <2>2, <3>1, OpenTradeFacts DEF UpdateTradeTarget, Trade
  <2> QED BY <2>1, <2>2
<1>3. trades \in Seq(Trade) /\ trades' \in Seq(Trade)
  BY <1>2 DEF IInv, TypeOK
<1>4. ASSUME NEW j \in DOMAIN trades', trades'[j].status = "open"
      PROVE  /\ Len(revealed) > 0
             /\ StopAllowed(trades'[j].direction, trades'[j].stop, Price)
             /\ TargetAllowed(trades'[j].direction, trades'[j].target, Price)
  <2>1. CASE j = i
    BY <1>1, <1>2, <1>3, <2>1, OpenTradeFacts
  <2>2. CASE j # i
    <3>1. j \in OpenTrades /\ trades'[j] = trades[j]
      BY <1>2, <1>3, <1>4, <2>2 DEF OpenTrades
    <3> QED BY <3>1, OpenTradeFacts
  <2> QED BY <2>1, <2>2
<1> QED
  BY <1>3, <1>4, InPlaceUpdate DEF UpdateTradeStop, UpdateTradeTarget, IInv, TypeOK

\* The operations that leave the trades alone.
LEMMA ControlStep ==
    ASSUME IInv, (\E n \in Steps : UpdateSettings(n)) \/ Step \/ StepBreak \/ StepEnd
    PROVE  IInv'
<1>1. /\ UNCHANGED <<revealed, trades>>
      /\ status' \in {"active", "completed"} /\ step' \in Nat \ {0}
      /\ loop' \in Nat \cup {None}
  BY InputsAssumption DEF UpdateSettings, Step, StepBreak, StepEnd, HasNextBar, AtEnd, IInv, TypeOK
<1>2. \A i \in DOMAIN trades : trades[i].status = "open" =>
        /\ Len(revealed) > 0
        /\ StopAllowed(trades[i].direction, trades[i].stop, Price)
        /\ TargetAllowed(trades[i].direction, trades[i].target, Price)
  BY OpenTradeFacts DEF OpenTrades
<1> QED BY <1>1, <1>2, InPlaceUpdate DEF IInv, TypeOK

\* One minute of the replay: whoever is still open survived the candle.
LEMMA RevealMinuteStep ==
    ASSUME IInv, NEW b \in Bars, RevealMinute(b)
    PROVE  IInv'
<1> DEFINE at == CurrentIndex + 1
           closing == {i \in OpenTrades : ExitsOn(trades[i], b)}
           closed(i) == AfterClose(trades[i], trades[i].remaining, ExitOn(trades[i], b, at))
           next(i) == IF i \in closing THEN closed(i)
                      ELSE IF i \in OpenTrades THEN Excursed(trades[i], b)
                      ELSE trades[i]
<1>1. /\ trades \in Seq(Trade) /\ revealed \in Seq(Bars) /\ at \in Nat
      /\ loop \in Nat /\ loop > 0
  BY NoneAssumption DEF IInv, TypeOK, CurrentIndex, RevealMinute, HasNextBar, Idle
<1>2. trades' = [i \in DOMAIN trades |-> next(i)]
  BY DEF RevealMinute, CloseTrade
<1>3. ASSUME NEW i \in DOMAIN trades
      PROVE  /\ next(i) \in Trade
             /\ next(i).status = "open" =>
                  /\ StopAllowed(next(i).direction, next(i).stop, b.close)
                  /\ TargetAllowed(next(i).direction, next(i).target, b.close)
  <2>0. trades[i] \in Trade
    BY <1>1
  <2>1. CASE i \in closing
    <3>0. ExitsOn(trades[i], b)
      BY <2>1
    <3>1. /\ trades[i].remaining \in Nat /\ trades[i].remaining <= trades[i].remaining
          /\ ExitOn(trades[i], b, at) \in Exit
      <4>1. trades[i].remaining \in Nat
        BY <2>0 DEF Trade
      <4>2. ExitOn(trades[i], b, at) \in Exit
        BY <1>1, <2>0, <3>0, ExitOnType
      <4> QED BY <4>1, <4>2
    <3>2. closed(i) \in Trade
      BY <2>0, <3>1, AfterCloseType
    <3>3. closed(i).status = "closed"
      BY <2>0, <3>1 DEF AfterClose, Trade
    <3> QED BY <2>1, <3>2, <3>3
  <2>2. CASE i \in OpenTrades /\ i \notin closing
    <3>1. ~ExitsOn(trades[i], b)
      BY <2>2
    <3>2. /\ StopAllowed(trades[i].direction, trades[i].stop, b.close)
          /\ TargetAllowed(trades[i].direction, trades[i].target, b.close)
      BY <2>0, <3>1, SurvivorKeepsLevels
    <3>3. next(i) = Excursed(trades[i], b)
      BY <2>2
    <3>4. /\ Excursed(trades[i], b).direction = trades[i].direction
          /\ Excursed(trades[i], b).stop = trades[i].stop
          /\ Excursed(trades[i], b).target = trades[i].target
      BY <2>0 DEF Excursed, Trade
    <3> HIDE DEF next
    <3> QED BY <2>0, <3>2, <3>3, <3>4, ExcursedType
  <2>3. CASE i \notin OpenTrades
    BY <2>0, <2>3 DEF OpenTrades
  <2> QED BY <2>1, <2>2, <2>3
<1> HIDE DEF next
<1>4. revealed' = Append(revealed, b) /\ Len(revealed') = Len(revealed) + 1
  BY <1>1 DEF RevealMinute
<1>5. Price' = b.close
  BY <1>1, <1>4 DEF Price, CurrentBar
<1>6. TypeOK'
  <2>1. trades' \in Seq(Trade)
    BY <1>1, <1>2, <1>3
  <2>2. revealed' \in Seq(Bars) /\ Len(revealed') <= NBars
    BY <1>1, <1>4, InputsAssumption DEF RevealMinute, HasNextBar, CurrentIndex
  <2> QED
    BY <1>1, <2>1, <2>2 DEF RevealMinute, IInv, TypeOK
<1>7. LevelsNotCrossed'
  <2>1. ASSUME NEW i \in OpenTrades'
        PROVE  /\ StopAllowed(trades'[i].direction, trades'[i].stop, b.close)
               /\ TargetAllowed(trades'[i].direction, trades'[i].target, b.close)
    BY <1>2, <1>3, <2>1 DEF OpenTrades
  <2> QED BY <1>1, <1>4, <1>5, <2>1 DEF LevelsNotCrossed
<1> QED BY <1>6, <1>7 DEF IInv

-----------------------------------------------------------------------------
(* The theorems *)

\* Every operation keeps the invariant.
LEMMA NextIInv == IInv /\ [Next]_vars => IInv'
<1> SUFFICES ASSUME IInv, [Next]_vars PROVE IInv'
  OBVIOUS
<1>1. CASE UNCHANGED vars
  BY <1>1 DEF vars, IInv, TypeOK, LevelsNotCrossed, OpenTrades, Price, CurrentBar
<1>2. CASE Next
  <2>1. ASSUME NEW direction \in {"long", "short"}, NEW q \in Quantities,
               NEW stop \in Levels \cup {None}, NEW target \in Levels \cup {None},
               MarketOrder(direction, q, stop, target)
        PROVE  IInv'
    BY <2>1, MarketOrderStep
  <2>2. ASSUME NEW i \in DOMAIN trades, NEW q \in Quantities, ClosePosition(i, q)
        PROVE  IInv'
    BY <2>2, ClosePositionStep
  <2>3. CASE CloseAllPositions
    BY <2>3, CloseAllStep
  <2>4. ASSUME NEW i \in DOMAIN trades, NEW price \in Levels \cup {None},
               UpdateTradeStop(i, price) \/ UpdateTradeTarget(i, price)
        PROVE  IInv'
    BY <2>4, UpdateLevelStep
  <2>5. CASE (\E n \in Steps : UpdateSettings(n)) \/ Step \/ StepBreak \/ StepEnd
    BY <2>5, ControlStep
  <2>6. ASSUME NEW b \in Bars, RevealMinute(b)
        PROVE  IInv'
    BY <2>6, RevealMinuteStep
  <2> QED BY <1>2, <2>1, <2>2, <2>3, <2>4, <2>5, <2>6 DEF Next
<1> QED BY <1>1, <1>2

\* Every reachable state of the engine is well-formed: in particular no close
\* drives a remainder below zero and no fill price or P&L leaves the integers.
THEOREM EngineTypeCorrect == Spec => []TypeOK
<1>1. IInv => TypeOK
  BY DEF IInv
<1> QED BY <1>1, InitIInv, NextIInv, PTL DEF Spec

\* No open trade outlives its own stop or target, for every dataset of valid
\* candles and every interleaving of orders, level moves, closes and steps.
THEOREM LevelsNeverCrossed == Spec => []LevelsNotCrossed
<1>1. IInv => LevelsNotCrossed
  BY DEF IInv
<1> QED BY <1>1, InitIInv, NextIInv, PTL DEF Spec

-----------------------------------------------------------------------------
(* What has happened to one trade *)

\* When and where a trade was entered and left.
Placed(t, r) ==
    /\ t.entryTime \in 1 .. Len(r)
    /\ (t.status = "open") = (t.exit = None)
    /\ t.exit # None =>
         /\ t.exit.source \in 0 .. Len(r) - 1
         /\ t.exit.time \in t.entryTime .. Len(r)

\* What ExitsAreHonest says of one trade.
ExitIsHonest(t, r) ==
    t.exit # None /\ t.exit.reason \in {"stop", "target"} =>
        LET x == t.exit
            b == r[x.source + 1]
        IN  /\ b.low <= x.price /\ x.price <= b.high
            /\ x.reason = "stop" => Delta(t, x.price) <= Delta(t, t.stop)
            /\ x.reason = "target" => Delta(t, x.price) >= Delta(t, t.target)
            /\ x.precision = "exact" => x.price = b.open
            /\ x.reason = "target" /\ x.precision = "bar_interval" /\ t.stop # None
                => IF IsLong(t) THEN t.stop < b.low ELSE b.high < t.stop

\* The last candle whose close counts for a trade.
LastSeen(t, r) ==
    IF t.exit = None THEN Len(r) - 1
    ELSE IF t.exit.reason \in {"stop", "target"} THEN t.exit.source - 1
    ELSE t.exit.source

\* The results that its closes would have had, with the entry itself.
ClosesSeen(t, r) == {0} \cup {Delta(t, r[j + 1].close) : j \in t.entryTime .. LastSeen(t, r)}

\* Its excursions are the extremes of what it has seen.
Measured(t, r) ==
    /\ t.mfe \in ClosesSeen(t, r) /\ \A d \in ClosesSeen(t, r) : d <= t.mfe
    /\ t.mae \in ClosesSeen(t, r) /\ \A d \in ClosesSeen(t, r) : t.mae <= d

Sound(t, r) == Placed(t, r) /\ ExitIsHonest(t, r) /\ Measured(t, r)

\* An excursion depends on the terms of the trade and on the closes it has seen.
LEMMA MeasuredCarries ==
    ASSUME NEW t, NEW u, NEW r, NEW r2, Measured(t, r),
           u.direction = t.direction, u.entry = t.entry, u.entryTime = t.entryTime,
           u.mfe = t.mfe, u.mae = t.mae, LastSeen(u, r2) = LastSeen(t, r),
           \A j \in t.entryTime .. LastSeen(t, r) : r2[j + 1] = r[j + 1]
    PROVE  Measured(u, r2)
<1>1. \A price : Delta(u, price) = Delta(t, price)
  BY DEF Delta, IsLong
<1>2. {Delta(u, r2[j + 1].close) : j \in t.entryTime .. LastSeen(t, r)}
        = {Delta(t, r[j + 1].close) : j \in t.entryTime .. LastSeen(t, r)}
  BY <1>1
<1>3. ClosesSeen(u, r2) = ClosesSeen(t, r)
  BY <1>2 DEF ClosesSeen
<1> QED BY <1>3 DEF Measured

\* A trade that has just been entered has seen nothing.
LEMMA NewTradeSound ==
    ASSUME TypeOK, Len(revealed) > 0, NEW direction, NEW q, NEW stop, NEW target
    PROVE  Sound(NewTrade(direction, q, stop, target), revealed)
<1> DEFINE t == NewTrade(direction, q, stop, target)
<1>1. /\ t.entryTime = Len(revealed) /\ t.status = "open" /\ t.exit = None
      /\ t.mfe = 0 /\ t.mae = 0 /\ Len(revealed) \in Nat
  BY DEF NewTrade, RevealTime, CurrentIndex, TypeOK
<1> HIDE DEF t
<1>2. t.entryTime .. LastSeen(t, revealed) = {}
  BY <1>1 DEF LastSeen
<1>3. ClosesSeen(t, revealed) = {0}
  BY <1>2 DEF ClosesSeen
<1>4. Sound(t, revealed)
  BY <1>1, <1>3 DEF Sound, Placed, ExitIsHonest, Measured
<1> QED BY <1>4 DEF t

\* A close at the revealed close leaves a sound trade, partial or not.
LEMMA ClosedNowSound ==
    ASSUME TypeOK, NEW t \in Trade, t.status = "open", Sound(t, revealed),
           NEW q \in Nat, q <= t.remaining, NEW reason \in {"manual", "session_end"}
    PROVE  Sound(AfterClose(t, q, ExitNow(reason)), revealed)
<1> DEFINE x == ExitNow(reason)
           u == AfterClose(t, q, x)
<1>1. /\ Len(revealed) \in Nat /\ t.entryTime \in 1 .. Len(revealed) /\ t.exit = None
  BY DEF TypeOK, Sound, Placed
<1>2. /\ x.reason \notin {"stop", "target"} /\ x.source = Len(revealed) - 1
      /\ x.time = Len(revealed) /\ x # None
  <2>1. x \in Exit
    BY <1>1, ExitNowType
  <2> QED BY <1>1, <2>1, NoneAssumption DEF ExitNow, RevealTime, CurrentIndex
<1> HIDE DEF x
<1>3. /\ u.direction = t.direction /\ u.entry = t.entry /\ u.entryTime = t.entryTime
      /\ u.mfe = t.mfe /\ u.mae = t.mae
      /\ IF q = t.remaining THEN u.status = "closed" /\ u.exit = x
         ELSE u.status = "open" /\ u.exit = None
  BY <1>1 DEF AfterClose, Trade
<1> HIDE DEF u
<1>4. LastSeen(u, revealed) = LastSeen(t, revealed)
  BY <1>1, <1>2, <1>3 DEF LastSeen
<1>5. Measured(u, revealed)
  BY <1>3, <1>4, MeasuredCarries DEF Sound
<1>6. Placed(u, revealed)
  BY <1>1, <1>2, <1>3 DEF Placed
<1>7. ExitIsHonest(u, revealed)
  BY <1>2, <1>3 DEF ExitIsHonest
<1>8. Sound(u, revealed)
  BY <1>5, <1>6, <1>7 DEF Sound
<1> QED BY <1>8 DEF u, x

\* Moving a level of an open trade changes nothing that has happened.
LEMMA MovedLevelSound ==
    ASSUME NEW t \in Trade, t.status = "open", NEW r, Sound(t, r), NEW price
    PROVE  Sound([t EXCEPT !.stop = price], r) /\ Sound([t EXCEPT !.target = price], r)
<1>1. ASSUME NEW u,
             u.direction = t.direction, u.entry = t.entry, u.entryTime = t.entryTime,
             u.mfe = t.mfe, u.mae = t.mae, u.status = t.status, u.exit = t.exit
      PROVE  Sound(u, r)
  <2>1. LastSeen(u, r) = LastSeen(t, r)
    BY <1>1 DEF LastSeen
  <2>2. Measured(u, r)
    BY <1>1, <2>1, MeasuredCarries DEF Sound
  <2> QED BY <1>1, <2>2 DEF Sound, Placed, ExitIsHonest
<1> QED BY <1>1 DEF Trade

\* What has happened to a closed trade is not changed by another candle.
LEMMA ClosedStaysSound ==
    ASSUME NEW t \in Trade, t.status = "closed", NEW r \in Seq(Bars), Sound(t, r),
           NEW b \in Bars
    PROVE  Sound(t, Append(r, b))
<1> DEFINE r2 == Append(r, b)
<1>1. /\ t.exit # None /\ t.exit \in Exit /\ t.exit.source \in 0 .. Len(r) - 1
      /\ t.exit.time \in t.entryTime .. Len(r) /\ t.entryTime \in 1 .. Len(r)
  BY DEF Sound, Placed, Trade
<1>2. Len(r2) = Len(r) + 1 /\ \A j \in 0 .. Len(r) - 1 : r2[j + 1] = r[j + 1]
  OBVIOUS
<1> HIDE DEF r2
<1>3. LastSeen(t, r2) = LastSeen(t, r)
  BY <1>1 DEF LastSeen
<1>4. t.entryTime .. LastSeen(t, r) \subseteq 0 .. Len(r) - 1
  BY <1>1 DEF LastSeen
<1>5. Measured(t, r2)
  BY <1>2, <1>3, <1>4, MeasuredCarries DEF Sound
<1>6. Placed(t, r2)
  BY <1>1, <1>2 DEF Sound, Placed
<1>7. ExitIsHonest(t, r2)
  <2>1. r2[t.exit.source + 1] = r[t.exit.source + 1]
    BY <1>1, <1>2
  <2> QED BY <2>1 DEF ExitIsHonest, Sound
<1> QED BY <1>5, <1>6, <1>7 DEF Sound, r2
\* A trade that survives a candle has seen one close more.
LEMMA SurvivorSound ==
    ASSUME NEW t \in Trade, t.status = "open", NEW r \in Seq(Bars), Sound(t, r), NEW b \in Bars
    PROVE  Sound(Excursed(t, b), Append(r, b))
<1> DEFINE r2 == Append(r, b)
           u == Excursed(t, b)
           d == Delta(t, b.close)
<1>1. /\ t.exit = None /\ t.entryTime \in 1 .. Len(r) /\ Len(r) \in Nat
      /\ t.mfe \in Int /\ t.mae \in Int
  BY DEF Sound, Placed, Trade
<1>2. /\ Len(r2) = Len(r) + 1 /\ r2[Len(r) + 1] = b
      /\ \A j \in 0 .. Len(r) - 1 : r2[j + 1] = r[j + 1] /\ r[j + 1] \in Bars
  OBVIOUS
<1>3. ASSUME NEW c \in Bars PROVE Delta(t, c.close) \in Int
  <2>1. c.close \in Int /\ t.entry \in Int
    BY BarsAssumption DEF Trade
  <2> QED BY <2>1 DEF Delta
<1>4. /\ u.direction = t.direction /\ u.entry = t.entry /\ u.entryTime = t.entryTime
      /\ u.status = t.status /\ u.exit = None
      /\ u.mfe = Greater(t.mfe, d) /\ u.mae = Lesser(t.mae, d)
  BY <1>1 DEF Excursed, Trade
<1> HIDE DEF r2, u
<1>5. LastSeen(t, r) = Len(r) - 1 /\ LastSeen(u, r2) = Len(r)
  BY <1>1, <1>2, <1>4 DEF LastSeen
<1>6. \A price : Delta(u, price) = Delta(t, price)
  BY <1>4 DEF Delta, IsLong
<1>7. ClosesSeen(u, r2) = ClosesSeen(t, r) \cup {d}
  <2> DEFINE e == t.entryTime
             n == Len(r)
  <2>1. e .. n = (e .. n - 1) \cup {n}
    BY <1>1
  <2>2. \A j \in e .. n - 1 : r2[j + 1] = r[j + 1]
    BY <1>1, <1>2
  <2>3. ClosesSeen(u, r2) = {0} \cup {Delta(t, r2[j + 1].close) : j \in e .. n}
    BY <1>4, <1>5, <1>6 DEF ClosesSeen
  <2>4. {Delta(t, r2[j + 1].close) : j \in e .. n}
          = {Delta(t, r[j + 1].close) : j \in e .. n - 1} \cup {d}
    BY <1>2, <2>1, <2>2
  <2> QED BY <1>5, <2>3, <2>4 DEF ClosesSeen
<1>8. ClosesSeen(t, r) \subseteq Int
  BY <1>1, <1>2, <1>3, <1>5 DEF ClosesSeen
<1>9. Measured(u, r2)
  <2>1. d \in Int
    BY <1>3
  <2> HIDE DEF d
  <2> QED BY <1>1, <1>4, <1>7, <1>8, <2>1 DEF Measured, Sound, Greater, Lesser
<1>10. Placed(u, r2)
  BY <1>1, <1>2, <1>4 DEF Placed, Sound
<1>11. ExitIsHonest(u, r2)
  BY <1>4 DEF ExitIsHonest
<1>12. Sound(u, r2)
  BY <1>9, <1>10, <1>11 DEF Sound
<1> QED BY <1>12 DEF u, r2

\* The price and the reason of an automatic exit, on the candle it happens on.
LEMMA ExitOnHonest ==
    ASSUME NEW t \in Trade, NEW b \in Bars, ExitsOn(t, b), NEW at
    PROVE  LET x == ExitOn(t, b, at)
           IN  /\ x.reason \in {"stop", "target"} /\ x.time = at /\ x.source = at
               /\ b.low <= x.price /\ x.price <= b.high
               /\ x.reason = "stop" => Delta(t, x.price) <= Delta(t, t.stop)
               /\ x.reason = "target" => Delta(t, x.price) >= Delta(t, t.target)
               /\ x.precision = "exact" => x.price = b.open
               /\ x.reason = "target" /\ x.precision = "bar_interval" /\ t.stop # None
                   => IF IsLong(t) THEN t.stop < b.low ELSE b.high < t.stop
<1> DEFINE Fair(x) ==
               /\ x.reason \in {"stop", "target"} /\ x.time = at /\ x.source = at
               /\ b.low <= x.price /\ x.price <= b.high
               /\ x.reason = "stop" => Delta(t, x.price) <= Delta(t, t.stop)
               /\ x.reason = "target" => Delta(t, x.price) >= Delta(t, t.target)
               /\ x.precision = "exact" => x.price = b.open
               /\ x.reason = "target" /\ x.precision = "bar_interval" /\ t.stop # None
                   => IF IsLong(t) THEN t.stop < b.low ELSE b.high < t.stop
           exit(price, reason, precision) ==
               [price |-> price, reason |-> reason, precision |-> precision,
                time |-> at, source |-> at]
<1>1. /\ b.open \in Int /\ b.low \in Int /\ b.high \in Int /\ t.entry \in Int
      /\ b.low <= b.open /\ b.open <= b.high
      /\ t.stop # None => t.stop \in Int
      /\ t.target # None => t.target \in Int
  BY BarsAssumption DEF Trade
<1>2. CASE TargetTouched(t, b) /\ TargetGapped(t, b)
  <2>1. ExitOn(t, b, at) = exit(TargetFillPrice(t, b), "target", "exact")
    BY <1>2 DEF ExitOn
  <2>2. t.target \in Int /\ TargetFillPrice(t, b) = b.open
        /\ Delta(t, b.open) >= Delta(t, t.target)
    BY <1>1, <1>2 DEF TargetTouched, TargetGapped, TargetFillPrice, Lesser, Greater, Delta
  <2> QED BY <1>1, <2>1, <2>2
<1>3. CASE ~(TargetTouched(t, b) /\ TargetGapped(t, b)) /\ StopTouched(t, b)
  <2>1. \E precision \in {"exact", "bar_interval"} :
          /\ ExitOn(t, b, at) = exit(StopFillPrice(t, b), "stop", precision)
          /\ precision = "exact" => StopGapped(t, b)
    BY <1>3 DEF ExitOn
  <2>2. /\ b.low <= StopFillPrice(t, b) /\ StopFillPrice(t, b) <= b.high
        /\ StopFillPrice(t, b) \in Int /\ t.stop \in Int
        /\ Delta(t, StopFillPrice(t, b)) <= Delta(t, t.stop)
        /\ StopGapped(t, b) => StopFillPrice(t, b) = b.open
    BY <1>1, <1>3 DEF StopTouched, StopGapped, StopFillPrice, Lesser, Greater, Delta, IsLong
  <2> QED BY <1>1, <2>1, <2>2
<1>4. CASE ~StopTouched(t, b) /\ TargetTouched(t, b) /\ ~TargetGapped(t, b)
  <2>1. ExitOn(t, b, at) = exit(TargetFillPrice(t, b), "target", "bar_interval")
    BY <1>4 DEF ExitOn
  <2>2. /\ b.low <= TargetFillPrice(t, b) /\ TargetFillPrice(t, b) <= b.high
        /\ TargetFillPrice(t, b) \in Int /\ t.target \in Int
        /\ Delta(t, TargetFillPrice(t, b)) >= Delta(t, t.target)
    BY <1>1, <1>4 DEF TargetTouched, TargetGapped, TargetFillPrice, Lesser, Greater, Delta, IsLong
  <2>3. t.stop # None => IF IsLong(t) THEN t.stop < b.low ELSE b.high < t.stop
    BY <1>1, <1>4 DEF StopTouched
  <2> QED BY <1>1, <2>1, <2>2, <2>3
<1> QED BY <1>2, <1>3, <1>4 DEF ExitsOn

\* A trade that a candle closes has not seen the close of that candle.
LEMMA ExitSound ==
    ASSUME NEW t \in Trade, t.status = "open", NEW r \in Seq(Bars), Sound(t, r),
           NEW b \in Bars, ExitsOn(t, b)
    PROVE  Sound(AfterClose(t, t.remaining, ExitOn(t, b, Len(r))), Append(r, b))
<1> DEFINE r2 == Append(r, b)
           x == ExitOn(t, b, Len(r))
           u == AfterClose(t, t.remaining, x)
<1>1. /\ t.exit = None /\ t.entryTime \in 1 .. Len(r) /\ Len(r) \in Nat
  BY DEF Sound, Placed
<1>2. /\ Len(r2) = Len(r) + 1 /\ r2[Len(r) + 1] = b
      /\ \A j \in 0 .. Len(r) - 1 : r2[j + 1] = r[j + 1]
  OBVIOUS
<1>3. /\ x.reason \in {"stop", "target"} /\ x.time = Len(r) /\ x.source = Len(r)
      /\ b.low <= x.price /\ x.price <= b.high
      /\ x.reason = "stop" => Delta(t, x.price) <= Delta(t, t.stop)
      /\ x.reason = "target" => Delta(t, x.price) >= Delta(t, t.target)
      /\ x.precision = "exact" => x.price = b.open
      /\ x.reason = "target" /\ x.precision = "bar_interval" /\ t.stop # None
          => IF IsLong(t) THEN t.stop < b.low ELSE b.high < t.stop
  BY ExitOnHonest
<1>4. x # None
  <2>1. x \in Exit
    BY <1>1, ExitOnType
  <2> QED BY <2>1, NoneAssumption
<1> HIDE DEF x, r2
<1>5. /\ u.direction = t.direction /\ u.entry = t.entry /\ u.entryTime = t.entryTime
      /\ u.stop = t.stop /\ u.target = t.target
      /\ u.mfe = t.mfe /\ u.mae = t.mae /\ u.status = "closed" /\ u.exit = x
  BY DEF AfterClose, Trade
<1> HIDE DEF u
<1>6. LastSeen(t, r) = Len(r) - 1 /\ LastSeen(u, r2) = Len(r) - 1
  BY <1>1, <1>3, <1>4, <1>5 DEF LastSeen
<1>7. Measured(u, r2)
  <2>1. \A j \in t.entryTime .. LastSeen(t, r) : r2[j + 1] = r[j + 1]
    BY <1>1, <1>2, <1>6
  <2> QED BY <1>5, <1>6, <2>1, MeasuredCarries DEF Sound
<1>8. Placed(u, r2)
  BY <1>1, <1>2, <1>3, <1>4, <1>5 DEF Placed
<1>9. ExitIsHonest(u, r2)
  <2>1. r2[u.exit.source + 1] = b
    BY <1>2, <1>3, <1>5
  <2>2. /\ IsLong(u) = IsLong(t)
        /\ \A price : Delta(u, price) = Delta(t, price)
    BY <1>5 DEF Delta, IsLong
  <2> QED BY <1>3, <1>5, <2>1, <2>2 DEF ExitIsHonest
<1>10. Sound(u, r2)
  BY <1>7, <1>8, <1>9 DEF Sound
<1> QED BY <1>10 DEF u, x, r2

-----------------------------------------------------------------------------
(* The invariant of the history, and what a step may do to it *)

\* A fill of the ledger.
Fill ==
    [trade : Nat, quantity : Nat, price : Int, gross : Int, net : Int,
     reason : {"entry", "manual", "session_end", "stop", "target"},
     precision : {"exact", "bar_interval"}, time : Nat, source : Nat]

\* The history of every trade is as its exit and its excursions say.
TradesAreSound == \A i \in DOMAIN trades : Sound(trades[i], revealed)

\* No fill lies in the future, and none is earlier than the one before it.
LedgerIsOrdered ==
    /\ fills \in Seq(Fill)
    /\ \A k \in DOMAIN fills :
         /\ fills[k].source < Len(revealed) /\ fills[k].time <= Len(revealed)
         /\ k > 1 => fills[k - 1].time <= fills[k].time

\* While a step request has minutes left, the session is active.
StepsAreActive == ~Idle /\ loop > 0 => status = "active"

HistoryInv == IInv /\ TradesAreSound /\ LedgerIsOrdered /\ StepsAreActive

\* What any step may do to a trade, and to the ledger.
Follows(t, u) ==
    /\ t.status = "closed" => u = t
    /\ \A f \in {"direction", "initial", "entry", "entryTime", "risk"} : u[f] = t[f]

TradesFollow ==
    /\ \A i \in DOMAIN trades : i \in DOMAIN trades' /\ Follows(trades[i], trades'[i])
    /\ \A i \in DOMAIN trades' : Sound(trades'[i], revealed')

LedgerGrows ==
    \E new \in Seq(Fill) :
        /\ fills' = fills \o new
        /\ \A k \in DOMAIN new :
             new[k].time = Len(revealed) /\ new[k].source < Len(revealed')

\* No operation rewrites the terms of a trade.
LEMMA TermsAreKept ==
    ASSUME NEW t \in Trade, t.status = "open"
    PROVE  /\ Follows(t, t)
           /\ \A q, x : Follows(t, AfterClose(t, q, x))
           /\ \A price : Follows(t, [t EXCEPT !.stop = price])
           /\ \A price : Follows(t, [t EXCEPT !.target = price])
           /\ \A b : Follows(t, Excursed(t, b))
<1>1. ASSUME NEW u,
             u.direction = t.direction, u.initial = t.initial, u.entry = t.entry,
             u.entryTime = t.entryTime, u.risk = t.risk
      PROVE  Follows(t, u)
  BY <1>1 DEF Follows
<1>2. ASSUME NEW q, NEW x PROVE Follows(t, AfterClose(t, q, x))
  <2> DEFINE u == AfterClose(t, q, x)
  <2>1. /\ u.direction = t.direction /\ u.initial = t.initial /\ u.entry = t.entry
        /\ u.entryTime = t.entryTime /\ u.risk = t.risk
    BY DEF AfterClose, Trade
  <2> HIDE DEF u
  <2>2. Follows(t, u)
    BY <1>1, <2>1
  <2> QED BY <2>2 DEF u
<1>3. ASSUME NEW price PROVE Follows(t, [t EXCEPT !.stop = price])
  BY <1>1 DEF Trade
<1>4. ASSUME NEW price PROVE Follows(t, [t EXCEPT !.target = price])
  BY <1>1 DEF Trade
<1>5. ASSUME NEW b PROVE Follows(t, Excursed(t, b))
  <2> DEFINE u == Excursed(t, b)
  <2>1. /\ u.direction = t.direction /\ u.initial = t.initial /\ u.entry = t.entry
        /\ u.entryTime = t.entryTime /\ u.risk = t.risk
    BY DEF Excursed, Trade
  <2> HIDE DEF u
  <2>2. Follows(t, u)
    BY <1>1, <2>1
  <2> QED BY <2>2 DEF u
<1>6. Follows(t, t)
  BY <1>1
<1> QED BY <1>2, <1>3, <1>4, <1>5, <1>6

\* A trade that is left alone follows itself.
LEMMA UntouchedFollows == ASSUME NEW t PROVE Follows(t, t)
BY DEF Follows

\* The fill of a close, whatever it closes.
LEMMA CloseFillType ==
    ASSUME TypeOK, NEW i \in DOMAIN trades, NEW q \in Nat, NEW x \in Exit
    PROVE  LET fill == CloseTrade(i, q, x).fill
           IN  fill \in Fill /\ fill.time = x.time /\ fill.source = x.source
<1> DEFINE t == trades[i]
           gross == Delta(t, x.price) * q * Scale
           net == gross - UnitCost * q
<1>1. t \in Trade /\ i \in Nat
  BY DEF TypeOK
<1>2. Delta(t, x.price) \in Int
  BY <1>1 DEF Delta, Trade, Exit
<1>3. Delta(t, x.price) * q \in Int
  BY <1>2
<1>4. gross \in Int /\ UnitCost * q \in Int
  BY <1>3, CostsAssumption
<1>5. net \in Int
  <2> HIDE DEF gross
  <2> QED BY <1>4
<1>6. CloseTrade(i, q, x).fill =
        [trade |-> i, quantity |-> q, price |-> x.price, gross |-> gross, net |-> net,
         reason |-> x.reason, precision |-> x.precision, time |-> x.time, source |-> x.source]
  BY DEF CloseTrade
<1> HIDE DEF gross, net
<1> QED BY <1>1, <1>4, <1>5, <1>6 DEF Fill, Exit

\* Any set of trades can be listed.
LEMMA TradesListed ==
    ASSUME trades \in Seq(Trade), NEW S \in SUBSET DOMAIN trades
    PROVE  Ascending(S) \in Seq(S)
<1>1. DOMAIN trades = 1 .. Len(trades) /\ Len(trades) \in Nat
  OBVIOUS
<1>2. IsFiniteSet(1 .. Len(trades))
  BY <1>1, FS_Interval
<1>3. S \in SUBSET Nat /\ IsFiniteSet(S)
  BY <1>1, <1>2, FS_Subset
<1> QED BY <1>3, AscendingLists

\* The fills of a list of bookings are added to the ledger in their order.
LEMMA BookedInOrder ==
    ASSUME NEW S, NEW order \in Seq(S), NEW booking,
           \A i \in S : /\ booking[i].fill \in Fill
                        /\ booking[i].fill.time = Len(revealed)
                        /\ booking[i].fill.source < Len(revealed'),
           Record([k \in DOMAIN order |-> booking[order[k]]])
    PROVE  LedgerGrows
<1> DEFINE new == [k \in DOMAIN order |-> booking[order[k]].fill]
<1>1. fills' = fills \o new
  BY DEF Record
<1>2. \A k \in DOMAIN order : order[k] \in S
  OBVIOUS
<1>3. new \in Seq(Fill)
  BY <1>2
<1>4. \A k \in DOMAIN new : new[k].time = Len(revealed) /\ new[k].source < Len(revealed')
  BY <1>2
<1> HIDE DEF new
<1> QED BY <1>1, <1>3, <1>4 DEF LedgerGrows

\* The same for one booking.
LEMMA BookedAlone ==
    ASSUME NEW booking, booking.fill \in Fill, booking.fill.time = Len(revealed),
           booking.fill.source < Len(revealed'), Record(<<booking>>)
    PROVE  LedgerGrows
<1> DEFINE new == <<booking.fill>>
<1>1. fills' = fills \o new
  BY DEF Record
<1>2. new \in Seq(Fill) /\ \A k \in DOMAIN new : new[k] = booking.fill
  OBVIOUS
<1> HIDE DEF new
<1> QED BY <1>1, <1>2 DEF LedgerGrows

-----------------------------------------------------------------------------
(* One lemma per operation *)

\* What the invariant says of one trade, before a step.
LEMMA TradeFacts ==
    ASSUME HistoryInv, NEW i \in DOMAIN trades
    PROVE  /\ trades[i] \in Trade /\ Sound(trades[i], revealed)
           /\ i \in OpenTrades => trades[i].status = "open"
           /\ i \notin OpenTrades => trades[i].status = "closed"
           /\ revealed \in Seq(Bars) /\ Len(revealed) > 0
<1>1. trades[i] \in Trade /\ Sound(trades[i], revealed)
  BY DEF HistoryInv, IInv, TypeOK, TradesAreSound
<1>2. trades[i].status \in {"open", "closed"}
  BY <1>1 DEF Trade
<1>3. revealed \in Seq(Bars) /\ trades[i].entryTime \in 1 .. Len(revealed)
  BY <1>1 DEF HistoryInv, IInv, TypeOK, Sound, Placed
<1> QED BY <1>1, <1>2, <1>3 DEF OpenTrades

\* An operation that books nothing leaves the ledger alone.
LEMMA QuietLedger == UNCHANGED fills /\ fills \in Seq(Fill) => LedgerGrows
<1> SUFFICES ASSUME UNCHANGED fills, fills \in Seq(Fill) PROVE LedgerGrows
  OBVIOUS
<1> DEFINE new == << >>
<1>1. new \in Seq(Fill) /\ fills' = fills \o new /\ DOMAIN new = {}
  OBVIOUS
<1> HIDE DEF new
<1> QED BY <1>1 DEF LedgerGrows

\* A market order adds a sound trade and its entry fill.
LEMMA OrderFollows ==
    ASSUME HistoryInv, NEW direction \in {"long", "short"}, NEW q \in Quantities,
           NEW stop \in Levels \cup {None}, NEW target \in Levels \cup {None},
           MarketOrder(direction, q, stop, target)
    PROVE  TradesFollow /\ LedgerGrows
<1> DEFINE t == NewTrade(direction, q, stop, target)
<1>1. Len(revealed) > 0 /\ Len(revealed) \in Nat /\ TypeOK
  BY DEF MarketOrder, CurrentIndex, HistoryInv, IInv, TypeOK
<1>2. t \in Trade /\ Sound(t, revealed)
  BY <1>1, NewTradeType, NewTradeSound
<1>3. t.entryTime = Len(revealed)
  BY <1>1 DEF NewTrade, RevealTime, CurrentIndex
<1>4. trades' = Append(trades, t) /\ Record(<<OpenTrade(t)>>) /\ UNCHANGED revealed
  BY DEF MarketOrder
<1> HIDE DEF t
<1>5. trades \in Seq(Trade)
  BY <1>1 DEF TypeOK
<1>6. TradesFollow
  <2>1. ASSUME NEW i \in DOMAIN trades
        PROVE  i \in DOMAIN trades' /\ Follows(trades[i], trades'[i])
    BY <1>2, <1>4, <1>5, UntouchedFollows
  <2>2. ASSUME NEW i \in DOMAIN trades' PROVE Sound(trades'[i], revealed')
    <3>1. trades'[i] = IF i = Len(trades) + 1 THEN t ELSE trades[i]
      BY <1>2, <1>4, <1>5
    <3>2. i # Len(trades) + 1 => i \in DOMAIN trades
      BY <1>2, <1>4, <1>5
    <3> QED BY <1>2, <1>4, <3>1, <3>2 DEF HistoryInv, TradesAreSound
  <2> QED BY <2>1, <2>2 DEF TradesFollow
<1>7. LedgerGrows
  <2> DEFINE booking == OpenTrade(t)
  <2>1. booking.fill \in Fill
    <3>1. Price \in Int /\ CurrentIndex \in Nat /\ Len(trades) + 1 \in Nat
      BY <1>1, <1>5, PriceType
    <3> QED BY <1>2, <3>1 DEF OpenTrade, Fill, Trade
  <2>2. booking.fill.time = Len(revealed) /\ booking.fill.source < Len(revealed')
    BY <1>1, <1>3, <1>4 DEF OpenTrade, CurrentIndex
  <2>3. Record(<<booking>>)
    BY <1>4
  <2> HIDE DEF booking
  <2> QED BY <2>1, <2>2, <2>3, BookedAlone
<1> QED BY <1>6, <1>7

\* An operation that replaces one open trade by one that follows it.
LEMMA OneFollows ==
    ASSUME HistoryInv, NEW i \in OpenTrades, NEW u, Sound(u, revealed), Follows(trades[i], u),
           trades' = [trades EXCEPT ![i] = u], UNCHANGED revealed
    PROVE  TradesFollow
<1>1. trades \in Seq(Trade) /\ i \in DOMAIN trades
  BY DEF HistoryInv, IInv, TypeOK, OpenTrades
<1>2. DOMAIN trades' = DOMAIN trades
  BY <1>1
<1>3. \A j \in DOMAIN trades : trades'[j] = IF j = i THEN u ELSE trades[j]
  BY <1>1
<1> QED BY <1>2, <1>3, UntouchedFollows DEF TradesFollow, HistoryInv, TradesAreSound

\* A partial or full close of one trade, and its fill.
LEMMA CloseFollows ==
    ASSUME HistoryInv, NEW i \in DOMAIN trades, NEW q \in Quantities, ClosePosition(i, q)
    PROVE  TradesFollow /\ LedgerGrows
<1> DEFINE x == ExitNow("manual")
           booking == CloseTrade(i, q, x)
           u == AfterClose(trades[i], q, x)
<1>1. /\ i \in OpenTrades /\ q <= trades[i].remaining /\ q \in Nat /\ TypeOK
      /\ UNCHANGED revealed /\ Record(<<booking>>) /\ trades' = [trades EXCEPT ![i] = u]
  BY InputsAssumption DEF ClosePosition, CloseTrade, HistoryInv, IInv
<1>2. /\ trades[i] \in Trade /\ trades[i].status = "open" /\ Sound(trades[i], revealed)
      /\ Len(revealed) \in Nat /\ Len(revealed) > 0
  BY <1>1, TradeFacts
<1>3. Sound(u, revealed) /\ Follows(trades[i], u)
  BY <1>1, <1>2, ClosedNowSound, TermsAreKept
<1>4. TradesFollow
  <2> HIDE DEF u
  <2> QED BY <1>1, <1>3, OneFollows
<1>5. x \in Exit /\ x.time = Len(revealed) /\ x.source = Len(revealed) - 1
  BY <1>1, <1>2, ExitNowType DEF ExitNow, RevealTime, CurrentIndex
<1>6. LedgerGrows
  <2>1. /\ booking.fill \in Fill /\ booking.fill.time = x.time
        /\ booking.fill.source = x.source
    <3> HIDE DEF x
    <3> QED BY <1>1, <1>5, CloseFillType
  <2> HIDE DEF booking, x
  <2> QED BY <1>1, <1>2, <1>5, <2>1, BookedAlone
<1> QED BY <1>4, <1>6

\* Every open trade is closed at the revealed close.
LEMMA CloseAllFollows ==
    ASSUME HistoryInv, CloseAllPositions
    PROVE  TradesFollow /\ LedgerGrows
<1> DEFINE reason == IF status = "completed" THEN "session_end" ELSE "manual"
           x == ExitNow(reason)
           booking == [i \in OpenTrades |-> CloseTrade(i, trades[i].remaining, x)]
           order == Ascending(OpenTrades)
           u(i) == AfterClose(trades[i], trades[i].remaining, x)
<1>1. /\ UNCHANGED revealed /\ Record([k \in DOMAIN order |-> booking[order[k]]])
      /\ trades' = [i \in DOMAIN trades |-> IF i \in OpenTrades THEN u(i) ELSE trades[i]]
      /\ TypeOK /\ OpenTrades \subseteq DOMAIN trades /\ OpenTrades # {}
  BY DEF CloseAllPositions, CloseTrade, HistoryInv, IInv, OpenTrades
<1>2. reason \in {"manual", "session_end"} /\ Len(revealed) \in Nat /\ Len(revealed) > 0
  BY <1>1, TradeFacts
<1>3. x \in Exit /\ x.time = Len(revealed) /\ x.source = Len(revealed) - 1
  <2> HIDE DEF reason
  <2> QED BY <1>1, <1>2, ExitNowType DEF ExitNow, RevealTime, CurrentIndex
<1>4. ASSUME NEW i \in OpenTrades
      PROVE  /\ Sound(u(i), revealed) /\ Follows(trades[i], u(i))
             /\ booking[i].fill \in Fill
             /\ booking[i].fill.time = Len(revealed)
             /\ booking[i].fill.source < Len(revealed)
  <2>1. /\ trades[i] \in Trade /\ trades[i].status = "open" /\ Sound(trades[i], revealed)
        /\ i \in DOMAIN trades
    BY <1>1, TradeFacts
  <2>2. trades[i].remaining \in Nat /\ trades[i].remaining <= trades[i].remaining
    BY <2>1 DEF Trade
  <2>3. Sound(u(i), revealed)
    <3> HIDE DEF reason
    <3> QED BY <1>1, <1>2, <2>1, <2>2, ClosedNowSound
  <2>4. Follows(trades[i], u(i))
    BY <2>1, TermsAreKept
  <2>5. booking[i] = CloseTrade(i, trades[i].remaining, x)
    OBVIOUS
  <2>6. LET fill == CloseTrade(i, trades[i].remaining, x).fill
        IN  fill \in Fill /\ fill.time = x.time /\ fill.source = x.source
    <3> HIDE DEF x
    <3> QED BY <1>1, <1>3, <2>1, <2>2, CloseFillType
  <2> HIDE DEF booking, x, u
  <2> QED BY <1>2, <1>3, <2>3, <2>4, <2>5, <2>6
<1>5. TradesFollow
  <2> HIDE DEF u
  <2>1. \A i \in DOMAIN trades' : Sound(trades'[i], revealed')
    BY <1>1, <1>4 DEF HistoryInv, TradesAreSound
  <2>2. \A i \in DOMAIN trades : Follows(trades[i], trades'[i])
    BY <1>1, <1>4, UntouchedFollows
  <2> QED BY <1>1, <2>1, <2>2 DEF TradesFollow
<1>6. LedgerGrows
  <2>1. order \in Seq(OpenTrades)
    BY <1>1, TradesListed DEF TypeOK
  <2>2. \A i \in OpenTrades : /\ booking[i].fill \in Fill
                              /\ booking[i].fill.time = Len(revealed)
                              /\ booking[i].fill.source < Len(revealed')
    BY <1>1, <1>4
  <2> HIDE DEF booking, order
  <2> QED BY <1>1, <2>1, <2>2, BookedInOrder
<1> QED BY <1>5, <1>6

\* Moving a level touches one open trade and books nothing.
LEMMA LevelFollows ==
    ASSUME HistoryInv, NEW i \in DOMAIN trades, NEW price \in Levels \cup {None},
           UpdateTradeStop(i, price) \/ UpdateTradeTarget(i, price)
    PROVE  TradesFollow /\ LedgerGrows
<1>1. /\ i \in OpenTrades /\ UNCHANGED <<revealed, fills>>
      /\ \/ trades' = [trades EXCEPT ![i] = [trades[i] EXCEPT !.stop = price]]
         \/ trades' = [trades EXCEPT ![i] = [trades[i] EXCEPT !.target = price]]
  BY DEF UpdateTradeStop, UpdateTradeTarget
<1>2. trades[i] \in Trade /\ trades[i].status = "open" /\ Sound(trades[i], revealed)
  BY <1>1, TradeFacts
<1>3. PICK u : /\ Sound(u, revealed) /\ Follows(trades[i], u)
               /\ trades' = [trades EXCEPT ![i] = u]
  BY <1>1, <1>2, MovedLevelSound, TermsAreKept
<1>4. TradesFollow
  BY <1>1, <1>3, OneFollows
<1> QED BY <1>1, <1>4, QuietLedger DEF HistoryInv, LedgerIsOrdered

\* The operations that touch neither trades nor candles nor fills.
LEMMA ControlFollows ==
    ASSUME HistoryInv, UNCHANGED <<trades, revealed, fills>>
    PROVE  TradesFollow /\ LedgerGrows
<1>1. TradesFollow
  BY UntouchedFollows DEF TradesFollow, HistoryInv, TradesAreSound
<1> QED BY <1>1, QuietLedger DEF HistoryInv, LedgerIsOrdered

\* One minute: every trade is closed by the candle, measures its close, or was
\* closed before.
LEMMA RevealFollows ==
    ASSUME HistoryInv, NEW b \in Bars, RevealMinute(b)
    PROVE  TradesFollow /\ LedgerGrows
<1> DEFINE at == CurrentIndex + 1
           closing == {i \in OpenTrades : ExitsOn(trades[i], b)}
           x(i) == ExitOn(trades[i], b, at)
           booking == [i \in closing |-> CloseTrade(i, trades[i].remaining, x(i))]
           order == Ascending(closing)
           next(i) == IF i \in closing THEN AfterClose(trades[i], trades[i].remaining, x(i))
                      ELSE IF i \in OpenTrades THEN Excursed(trades[i], b)
                      ELSE trades[i]
<1>1. /\ revealed' = Append(revealed, b)
      /\ Record([k \in DOMAIN order |-> booking[order[k]]])
      /\ trades' = [i \in DOMAIN trades |-> next(i)]
      /\ TypeOK /\ closing \subseteq DOMAIN trades
  BY DEF RevealMinute, CloseTrade, HistoryInv, IInv, OpenTrades
<1>2. /\ revealed \in Seq(Bars) /\ Len(revealed) \in Nat /\ at = Len(revealed)
      /\ Len(revealed') = Len(revealed) + 1
  BY <1>1 DEF TypeOK, CurrentIndex
<1>3. ASSUME NEW i \in DOMAIN trades
      PROVE  /\ Sound(next(i), revealed') /\ Follows(trades[i], next(i))
             /\ i \in closing => /\ booking[i].fill \in Fill
                                 /\ booking[i].fill.time = Len(revealed)
                                 /\ booking[i].fill.source < Len(revealed')
  <2> DEFINE t == trades[i]
  <2>1. /\ t \in Trade /\ Sound(t, revealed)
        /\ i \in OpenTrades => t.status = "open"
        /\ i \notin OpenTrades => t.status = "closed"
    BY TradeFacts
  <2>2. CASE i \in closing
    <3>1. /\ t.status = "open" /\ ExitsOn(t, b) /\ t.remaining \in Nat
          /\ next(i) = AfterClose(t, t.remaining, ExitOn(t, b, Len(revealed)))
          /\ booking[i] = CloseTrade(i, t.remaining, ExitOn(t, b, Len(revealed)))
      BY <1>2, <2>1, <2>2 DEF Trade
    <3>2. Sound(next(i), revealed')
      BY <1>1, <1>2, <2>1, <3>1, ExitSound
    <3>3. Follows(t, next(i))
      BY <2>1, <3>1, TermsAreKept
    <3> DEFINE e == ExitOn(t, b, Len(revealed))
    <3>4. e \in Exit /\ e.time = Len(revealed) /\ e.source = Len(revealed)
      BY <1>2, <2>1, <3>1, ExitOnType, ExitOnHonest
    <3>5. LET fill == CloseTrade(i, t.remaining, e).fill
          IN  fill \in Fill /\ fill.time = e.time /\ fill.source = e.source
      <4> HIDE DEF e
      <4> QED BY <1>1, <3>1, <3>4, CloseFillType
    <3> HIDE DEF next, e, booking
    <3> QED BY <1>2, <3>1, <3>2, <3>3, <3>4, <3>5 DEF e
  <2>3. CASE i \notin closing /\ i \in OpenTrades
    <3>1. t.status = "open" /\ next(i) = Excursed(t, b)
      BY <2>1, <2>3
    <3> HIDE DEF next
    <3> QED BY <1>1, <1>2, <2>1, <2>3, <3>1, SurvivorSound, TermsAreKept
  <2>4. CASE i \notin OpenTrades
    <3>1. t.status = "closed" /\ next(i) = t
      BY <2>1, <2>4
    <3> HIDE DEF next
    <3> QED BY <1>1, <1>2, <2>1, <2>4, <3>1, ClosedStaysSound, UntouchedFollows
  <2> QED BY <2>2, <2>3, <2>4
<1>4. TradesFollow
  <2> HIDE DEF next
  <2> QED BY <1>1, <1>3 DEF TradesFollow
<1>5. LedgerGrows
  <2>1. order \in Seq(closing)
    BY <1>1, TradesListed DEF TypeOK
  <2> HIDE DEF booking, order, closing
  <2> QED BY <1>1, <1>3, <2>1, BookedInOrder
<1> QED BY <1>4, <1>5

-----------------------------------------------------------------------------
(* The theorems about the history *)

\* What every step does to the history.
LEMMA NextFollows == HistoryInv /\ [Next]_vars => TradesFollow /\ LedgerGrows
<1> SUFFICES ASSUME HistoryInv, [Next]_vars PROVE TradesFollow /\ LedgerGrows
  OBVIOUS
<1>1. ASSUME NEW direction \in {"long", "short"}, NEW q \in Quantities,
             NEW stop \in Levels \cup {None}, NEW target \in Levels \cup {None},
             MarketOrder(direction, q, stop, target)
      PROVE  TradesFollow /\ LedgerGrows
  BY <1>1, OrderFollows
<1>2. ASSUME NEW i \in DOMAIN trades, NEW q \in Quantities, ClosePosition(i, q)
      PROVE  TradesFollow /\ LedgerGrows
  BY <1>2, CloseFollows
<1>3. CASE CloseAllPositions
  BY <1>3, CloseAllFollows
<1>4. ASSUME NEW i \in DOMAIN trades, NEW price \in Levels \cup {None},
             UpdateTradeStop(i, price) \/ UpdateTradeTarget(i, price)
      PROVE  TradesFollow /\ LedgerGrows
  BY <1>4, LevelFollows
<1>5. CASE (\E n \in Steps : UpdateSettings(n)) \/ Step \/ StepBreak \/ StepEnd \/ UNCHANGED vars
  <2>1. UNCHANGED <<trades, revealed, fills>>
    BY <1>5 DEF UpdateSettings, Step, StepBreak, StepEnd, vars
  <2> QED BY <2>1, ControlFollows
<1>6. ASSUME NEW b \in Bars, RevealMinute(b)
      PROVE  TradesFollow /\ LedgerGrows
  BY <1>6, RevealFollows
<1> QED BY <1>1, <1>2, <1>3, <1>4, <1>5, <1>6 DEF Next

\* Candles are only added.
LEMMA NextReveals ==
    ASSUME TypeOK, [Next]_vars
    PROVE  Len(revealed) \in Nat /\ Len(revealed') \in Nat /\ Len(revealed) <= Len(revealed')
<1>1. revealed \in Seq(Bars)
  BY DEF TypeOK
<1>2. UNCHANGED revealed \/ \E b \in Bars : revealed' = Append(revealed, b)
  BY DEF Next, MarketOrder, ClosePosition, CloseAllPositions, UpdateTradeStop,
         UpdateTradeTarget, UpdateSettings, Step, RevealMinute, StepBreak, StepEnd, vars
<1> QED BY <1>1, <1>2

\* The loop of a step request goes on only while the session is active, and a
\* completed session stays completed, reveals nothing and opens no trade.
LEMMA NextStatus ==
    ASSUME TypeOK, StepsAreActive, [Next]_vars
    PROVE  /\ StepsAreActive'
           /\ status = "completed" =>
                status' = status /\ revealed' = revealed /\ Len(trades') = Len(trades)
<1>1. trades \in Seq(Trade)
  BY DEF TypeOK
<1> USE DEF StepsAreActive, Idle
<1>2. CASE \E direction \in {"long", "short"}, q \in Quantities,
              stop, target \in Levels \cup {None} : MarketOrder(direction, q, stop, target)
  BY <1>2 DEF MarketOrder
<1>3. CASE \E i \in DOMAIN trades, q \in Quantities : ClosePosition(i, q)
  BY <1>1, <1>3 DEF ClosePosition
<1>4. CASE CloseAllPositions
  <2>1. UNCHANGED <<status, revealed, loop>> /\ DOMAIN trades' = DOMAIN trades
        /\ \E u : trades' = [i \in DOMAIN trades |-> u[i]]
    BY <1>4 DEF CloseAllPositions
  <2>2. Len(trades') = Len(trades)
    BY <1>1, <2>1
  <2> QED BY <2>1, <2>2
<1>5. CASE \E i \in DOMAIN trades, price \in Levels \cup {None} :
              UpdateTradeStop(i, price) \/ UpdateTradeTarget(i, price)
  BY <1>1, <1>5 DEF UpdateTradeStop, UpdateTradeTarget
<1>6. CASE (\E n \in Steps : UpdateSettings(n)) \/ Step \/ StepBreak \/ StepEnd \/ UNCHANGED vars
  BY <1>6 DEF UpdateSettings, Step, StepBreak, StepEnd, vars
<1>7. CASE \E b \in Bars : RevealMinute(b)
  BY <1>7 DEF RevealMinute
<1> QED BY <1>2, <1>3, <1>4, <1>5, <1>6, <1>7 DEF Next

\* The fills of a step are stamped with the number of candles revealed before
\* it: no earlier fill has a later time.
LEMMA LedgerStep ==
    ASSUME LedgerIsOrdered, LedgerGrows, Len(revealed) \in Nat, Len(revealed') \in Nat,
           Len(revealed) <= Len(revealed')
    PROVE  LedgerIsOrdered' /\ IsPrefix(fills, fills')
<1>1. PICK new \in Seq(Fill) :
        /\ fills' = fills \o new
        /\ \A k \in DOMAIN new : new[k].time = Len(revealed) /\ new[k].source < Len(revealed')
  BY DEF LedgerGrows
<1>2. /\ fills \in Seq(Fill) /\ fills' \in Seq(Fill)
      /\ Len(fills') = Len(fills) + Len(new) /\ Len(fills) \in Nat /\ Len(new) \in Nat
  BY <1>1 DEF LedgerIsOrdered
<1>3. \A k \in 1 .. Len(fills) : k \in DOMAIN fills' /\ fills'[k] = fills[k]
  BY <1>1, <1>2
<1>4. ASSUME NEW k \in DOMAIN fills', k > Len(fills)
      PROVE  fills'[k].time = Len(revealed) /\ fills'[k].source < Len(revealed')
  <2>1. k - Len(fills) \in DOMAIN new /\ fills'[k] = new[k - Len(fills)]
    BY <1>1, <1>2, <1>4
  <2> QED BY <1>1, <2>1
<1>5. ASSUME NEW k \in DOMAIN fills'
      PROVE  /\ fills'[k].source < Len(revealed') /\ fills'[k].time <= Len(revealed')
             /\ k > 1 => fills'[k - 1].time <= fills'[k].time
  <2>1. k \in Nat /\ k >= 1 /\ fills'[k] \in Fill
    BY <1>2
  <2>2. fills'[k].time \in Nat /\ fills'[k].source \in Nat
    BY <2>1 DEF Fill
  <2>3. CASE k <= Len(fills)
    <3>1. /\ k \in DOMAIN fills /\ fills'[k] = fills[k]
          /\ k > 1 => k - 1 \in DOMAIN fills /\ fills'[k - 1] = fills[k - 1]
      BY <1>2, <1>3, <2>1, <2>3
    <3>2. /\ fills[k].source < Len(revealed) /\ fills[k].time <= Len(revealed)
          /\ k > 1 => fills[k - 1].time <= fills[k].time
      BY <3>1 DEF LedgerIsOrdered
    <3>3. /\ fills'[k].time = fills[k].time /\ fills'[k].source = fills[k].source
          /\ k > 1 => fills'[k - 1].time = fills[k - 1].time
      BY <3>1
    <3>4. fills[k].time \in Nat /\ fills[k].source \in Nat
      BY <2>2, <3>3
    <3>5. fills[k].source < Len(revealed') /\ fills[k].time <= Len(revealed')
      BY <3>2, <3>4
    <3> QED BY <3>2, <3>3, <3>5
  <2>4. CASE k > Len(fills)
    <3>1. fills'[k].time = Len(revealed) /\ fills'[k].source < Len(revealed')
      BY <1>4, <2>4
    <3>2. ASSUME k > 1 PROVE fills'[k - 1].time <= Len(revealed)
      <4>1. CASE k - 1 > Len(fills)
        <5>1. k - 1 \in DOMAIN fills'
          BY <1>2, <2>1, <3>2
        <5> QED BY <1>4, <4>1, <5>1
      <4>2. CASE k - 1 <= Len(fills)
        <5>1. k - 1 \in DOMAIN fills /\ fills'[k - 1] = fills[k - 1]
          BY <1>2, <1>3, <2>1, <3>2, <4>2
        <5> QED BY <5>1 DEF LedgerIsOrdered
      <4> QED BY <1>2, <2>1, <4>1, <4>2
    <3> QED BY <3>1, <3>2
  <2> QED BY <1>2, <2>1, <2>3, <2>4
<1>6. LedgerIsOrdered'
  BY <1>2, <1>5 DEF LedgerIsOrdered
<1>7. SubSeq(fills, 1, Len(fills)) = SubSeq(fills', 1, Len(fills))
  BY <1>2, <1>3
<1> QED BY <1>2, <1>6, <1>7 DEF IsPrefix

\* A new session has no history.
LEMMA InitHistoryInv == Init => HistoryInv
<1> SUFFICES ASSUME Init PROVE HistoryInv
  OBVIOUS
<1>1. trades = << >> /\ fills = << >> /\ loop = None
  BY DEF Init
<1> QED
  BY <1>1, InitIInv DEF HistoryInv, TradesAreSound, LedgerIsOrdered, StepsAreActive, Idle

\* Every operation keeps the invariant of the history.
LEMMA NextHistoryInv == HistoryInv /\ [Next]_vars => HistoryInv'
<1> SUFFICES ASSUME HistoryInv, [Next]_vars PROVE HistoryInv'
  OBVIOUS
<1>1. IInv' /\ TypeOK /\ StepsAreActive /\ LedgerIsOrdered
  BY NextIInv DEF HistoryInv, IInv
<1>2. TradesFollow /\ LedgerGrows
  BY NextFollows
<1>3. TradesAreSound'
  BY <1>2 DEF TradesFollow, TradesAreSound
<1>4. LedgerIsOrdered'
  BY <1>1, <1>2, NextReveals, LedgerStep
<1>5. StepsAreActive'
  BY <1>1, NextStatus
<1> QED BY <1>1, <1>3, <1>4, <1>5 DEF HistoryInv

\* A member of a set of integers that no member exceeds is its maximum.
LEMMA MaxIs ==
    ASSUME NEW S \in SUBSET Int, NEW m \in S, \A d \in S : d <= m
    PROVE  Max(S) = m
<1>1. Max(S) \in S /\ \A d \in S : Max(S) >= d
  BY DEF Max
<1>2. Max(S) \in Int /\ m \in Int
  BY <1>1
<1>3. Max(S) <= m /\ m <= Max(S)
  BY <1>1, <1>2
<1> QED BY <1>2, <1>3

\* A member of a set of integers that exceeds no member is its minimum.
LEMMA MinIs ==
    ASSUME NEW S \in SUBSET Int, NEW m \in S, \A d \in S : m <= d
    PROVE  Min(S) = m
<1>1. Min(S) \in S /\ \A d \in S : Min(S) <= d
  BY DEF Min
<1>2. Min(S) \in Int /\ m \in Int
  BY <1>1
<1>3. Min(S) <= m /\ m <= Min(S)
  BY <1>1, <1>2
<1> QED BY <1>2, <1>3

\* The prices an open trade has seen are integers.
LEMMA ClosesSeenType ==
    ASSUME NEW t \in Trade, NEW r \in Seq(Bars), Sound(t, r)
    PROVE  ClosesSeen(t, r) \subseteq Int
<1>1. t.entryTime \in 1 .. Len(r) /\ LastSeen(t, r) \in Int /\ LastSeen(t, r) <= Len(r) - 1
  BY DEF Sound, Placed, LastSeen, Trade, Exit
<1>2. ASSUME NEW j \in t.entryTime .. LastSeen(t, r) PROVE Delta(t, r[j + 1].close) \in Int
  <2>1. r[j + 1] \in Bars
    BY <1>1
  <2>2. r[j + 1].close \in Int /\ t.entry \in Int
    BY <2>1, BarsAssumption DEF Trade
  <2> QED BY <2>2 DEF Delta
<1> QED BY <1>2 DEF ClosesSeen

\* The invariant says what the properties say.
LEMMA HistoryInvImplies == HistoryInv => ExitsAreHonest /\ ExcursionsMatchCloses /\ LedgerIsCausal
<1> SUFFICES ASSUME HistoryInv PROVE ExitsAreHonest /\ ExcursionsMatchCloses /\ LedgerIsCausal
  OBVIOUS
<1>1. ExitsAreHonest
  BY DEF HistoryInv, TradesAreSound, Sound, ExitIsHonest, ExitsAreHonest
<1>2. ExcursionsMatchCloses
  <2> SUFFICES ASSUME NEW i \in DOMAIN trades
               PROVE  /\ trades[i].mfe = Max(ClosesSeen(trades[i], revealed))
                      /\ trades[i].mae = Min(ClosesSeen(trades[i], revealed))
    BY DEF ExcursionsMatchCloses, ClosesSeen, LastSeen, CurrentIndex
  <2>1. Sound(trades[i], revealed) /\ trades[i] \in Trade /\ revealed \in Seq(Bars)
    BY TradeFacts
  <2>2. ClosesSeen(trades[i], revealed) \subseteq Int
    BY <2>1, ClosesSeenType
  <2> QED BY <2>1, <2>2, MaxIs, MinIs DEF Sound, Measured
<1>3. LedgerIsCausal
  <2>1. Len(revealed) \in Nat /\ fills \in Seq(Fill)
    BY DEF HistoryInv, IInv, TypeOK, LedgerIsOrdered
  <2>2. ASSUME NEW k \in DOMAIN fills
        PROVE  /\ fills[k].source <= CurrentIndex
               /\ fills[k].time <= RevealTime(CurrentIndex)
               /\ k > 1 => fills[k - 1].time <= fills[k].time
    <3>1. /\ fills[k].source < Len(revealed) /\ fills[k].time <= Len(revealed)
          /\ k > 1 => fills[k - 1].time <= fills[k].time
      BY DEF HistoryInv, LedgerIsOrdered
    <3>2. fills[k].source \in Nat
      <4>1. fills[k] \in Fill
        BY <2>1
      <4> QED BY <4>1 DEF Fill
    <3> QED BY <2>1, <3>1, <3>2 DEF CurrentIndex, RevealTime
  <2>3. ASSUME NEW i \in DOMAIN trades, trades[i].exit # None
        PROVE  trades[i].entryTime <= trades[i].exit.time
    <3>1. trades[i].exit.time \in trades[i].entryTime .. Len(revealed)
      BY <2>3, TradeFacts DEF Sound, Placed
    <3> QED BY <3>1
  <2> QED BY <2>2, <2>3 DEF LedgerIsCausal
<1> QED BY <1>1, <1>2, <1>3

\* Automatic exits are honest, for every dataset of valid candles: at a price
\* the candle traded, never better than the stop nor worse than the target, an
\* exact one at the open, and at the target inside a candle only if the candle
\* left the stop alone.
THEOREM ExitsStayHonest == Spec => []ExitsAreHonest
<1> QED BY InitHistoryInv, NextHistoryInv, HistoryInvImplies, PTL DEF Spec

\* MFE and MAE are the best and the worst close revealed while the trade was
\* open, however many candles it has seen and whatever was closed of it.
THEOREM ExcursionsStayExact == Spec => []ExcursionsMatchCloses
<1> QED BY InitHistoryInv, NextHistoryInv, HistoryInvImplies, PTL DEF Spec

\* Execution times never run backwards along the ledger, and never pass the
\* market clock.
THEOREM LedgerStaysCausal == Spec => []LedgerIsCausal
<1> QED BY InitHistoryInv, NextHistoryInv, HistoryInvImplies, PTL DEF Spec

\* No step rewrites a committed fill, a closed trade or the terms of a trade,
\* and a completed session reveals no candle and opens no trade.
THEOREM HistoryStaysFinal == Spec => HistoryIsFinal
<1> DEFINE Final ==
        /\ IsPrefix(fills, fills')
        /\ \A i \in DOMAIN trades :
             /\ trades[i].status = "closed" => trades'[i] = trades[i]
             /\ \A f \in {"direction", "initial", "entry", "entryTime", "risk"} :
                  trades'[i][f] = trades[i][f]
        /\ status = "completed" =>
             status' = status /\ revealed' = revealed /\ Len(trades') = Len(trades)
<1>1. HistoryInv /\ [Next]_vars => Final
  <2> SUFFICES ASSUME HistoryInv, [Next]_vars PROVE Final
    OBVIOUS
  <2>1. TypeOK /\ StepsAreActive /\ LedgerIsOrdered
    BY DEF HistoryInv, IInv
  <2>2. TradesFollow /\ LedgerGrows
    BY NextFollows
  <2>3. IsPrefix(fills, fills')
    BY <2>1, <2>2, NextReveals, LedgerStep
  <2>4. status = "completed" =>
          status' = status /\ revealed' = revealed /\ Len(trades') = Len(trades)
    BY <2>1, NextStatus
  <2> QED BY <2>2, <2>3, <2>4 DEF TradesFollow, Follows
<1>2. HistoryInv /\ [Next]_vars => [Final]_vars
  BY <1>1
<1> QED BY <1>2, InitHistoryInv, NextHistoryInv, PTL DEF Spec, HistoryIsFinal

-----------------------------------------------------------------------------
(* The books: every trade, the ledger and the accumulator explain each other *)

Accumulator ==
    [opened : Int, completed : Int, wins : Int, losses : Int, winPnl : Int, lossPnl : Int,
     gross : Int, net : Int, costs : Int, longPnl : Int, shortPnl : Int,
     peak : Int \cup {None}, drawdown : Int, holding : Int,
     rCount : Int, rSum : Int, rWins : Int, rWinSum : Int, rLosses : Int, rLossSum : Int]

\* The highest balance so far, before any fill the initial one.
PeakOf(acc) == IF acc.peak = None THEN InitialBalance ELSE acc.peak

\* The figures that a fill leaves alone, and those that a close leaves alone.
OutcomesKept(a, b) ==
    \A f \in {"completed", "wins", "losses", "winPnl", "lossPnl", "holding",
              "rCount", "rSum", "rWins", "rWinSum", "rLosses", "rLossSum"} : b[f] = a[f]
MoneyKept(a, b) ==
    \A f \in {"gross", "net", "costs", "longPnl", "shortPnl", "peak", "drawdown"} : b[f] = a[f]

\* The greater of two numbers is their maximum.
LEMMA MaxOfTwo ==
    ASSUME NEW a \in Int, NEW b \in Int
    PROVE  Max({a, b}) = Greater(a, b)
<1>1. Greater(a, b) \in {a, b} /\ \A d \in {a, b} : d <= Greater(a, b)
  BY DEF Greater
<1>2. {a, b} \in SUBSET Int
  OBVIOUS
<1> QED BY <1>1, <1>2, MaxIs

WithMoney(acc, g, n, c, l, s, p, d) ==
    [acc EXCEPT !.gross = g, !.net = n, !.costs = c, !.longPnl = l,
                !.shortPnl = s, !.peak = p, !.drawdown = d]

\* The figures of the money may take any value.
LEMMA MoneyUpdated ==
    ASSUME NEW acc \in Accumulator, NEW g \in Int, NEW n \in Int, NEW c \in Int,
           NEW l \in Int, NEW s \in Int, NEW p \in Int, NEW d \in Int
    PROVE  LET b == WithMoney(acc, g, n, c, l, s, p, d)
           IN  /\ b \in Accumulator /\ b.opened = acc.opened /\ OutcomesKept(acc, b)
               /\ b.gross = g /\ b.net = n /\ b.costs = c /\ b.longPnl = l
               /\ b.shortPnl = s /\ b.peak = p /\ b.drawdown = d
<1>1. PICK b : b = WithMoney(acc, g, n, c, l, s, p, d)
  OBVIOUS
<1>2. b \in Accumulator
  BY <1>1 DEF Accumulator, WithMoney
<1>3. /\ b.gross = g /\ b.net = n /\ b.costs = c /\ b.longPnl = l
      /\ b.shortPnl = s /\ b.peak = p /\ b.drawdown = d
  BY <1>1 DEF Accumulator, WithMoney
<1>4. b.opened = acc.opened /\ OutcomesKept(acc, b)
  BY <1>1 DEF Accumulator, WithMoney, OutcomesKept
<1> QED BY <1>1, <1>2, <1>3, <1>4

\* What booking a fill does to every figure.
LEMMA BookFillIs ==
    ASSUME NEW acc \in Accumulator, NEW fill \in Fill, NEW direction
    PROVE  LET b == BookFill(acc, fill, direction)
               balance == InitialBalance + acc.net + fill.net
           IN  /\ b \in Accumulator /\ b.opened = acc.opened /\ OutcomesKept(acc, b)
               /\ b.gross = acc.gross + fill.gross /\ b.net = acc.net + fill.net
               /\ b.costs = acc.costs + (fill.gross - fill.net)
               /\ b.longPnl = acc.longPnl + IF direction = "long" THEN fill.net ELSE 0
               /\ b.shortPnl = acc.shortPnl + IF direction = "long" THEN 0 ELSE fill.net
               /\ b.peak = Greater(PeakOf(acc), balance)
               /\ b.drawdown = Greater(acc.drawdown, b.peak - balance)
<1> DEFINE balance == InitialBalance + (acc.net + fill.net)
           peak == Greater(PeakOf(acc), balance)
           drawdown == Greater(acc.drawdown, peak - balance)
           long == IF direction = "long" THEN acc.longPnl + fill.net ELSE acc.longPnl
           short == IF direction = "long" THEN acc.shortPnl ELSE acc.shortPnl + fill.net
<1>1. /\ acc.net \in Int /\ acc.gross \in Int /\ acc.costs \in Int
      /\ acc.longPnl \in Int /\ acc.shortPnl \in Int /\ acc.drawdown \in Int
      /\ fill.net \in Int /\ fill.gross \in Int
      /\ InitialBalance \in Int /\ PeakOf(acc) \in Int
  BY CostsAssumption DEF Accumulator, Fill, PeakOf
<1>2. balance \in Int /\ balance = InitialBalance + acc.net + fill.net
  BY <1>1
<1>3. peak \in Int /\ drawdown \in Int
  BY <1>1, <1>2 DEF Greater
<1>4. long \in Int /\ short \in Int
  BY <1>1
<1>5. /\ Max({PeakOf(acc), balance}) = peak
      /\ Max({acc.drawdown, peak - balance}) = drawdown
  <2>1. peak - balance \in Int
    BY <1>2, <1>3
  <2> HIDE DEF balance
  <2> QED BY <1>1, <1>2, <2>1, MaxOfTwo
<1>6. BookFill(acc, fill, direction) =
        [acc EXCEPT !.gross = acc.gross + fill.gross, !.net = acc.net + fill.net,
                    !.costs = acc.costs + (fill.gross - fill.net),
                    !.longPnl = long, !.shortPnl = short,
                    !.peak = peak, !.drawdown = drawdown]
  BY <1>5 DEF BookFill, PeakOf
<1>7. PICK g, n, c, l, s, p, d :
        /\ g = acc.gross + fill.gross /\ n = acc.net + fill.net
        /\ c = acc.costs + (fill.gross - fill.net)
        /\ l = long /\ s = short /\ p = peak /\ d = drawdown
  OBVIOUS
<1>8. PICK b : b = BookFill(acc, fill, direction)
  OBVIOUS
<1>9. b = WithMoney(acc, g, n, c, l, s, p, d)
  BY <1>6, <1>7, <1>8 DEF WithMoney
<1>10. g \in Int /\ n \in Int /\ c \in Int /\ l \in Int /\ s \in Int /\ p \in Int /\ d \in Int
  BY <1>1, <1>3, <1>4, <1>7
<1>11. /\ b \in Accumulator /\ b.opened = acc.opened /\ OutcomesKept(acc, b)
       /\ b.gross = g /\ b.net = n /\ b.costs = c /\ b.longPnl = l
       /\ b.shortPnl = s /\ b.peak = p /\ b.drawdown = d
  BY <1>9, <1>10, MoneyUpdated
<1>12. l = acc.longPnl + (IF direction = "long" THEN fill.net ELSE 0)
  BY <1>1, <1>7
<1>13. s = acc.shortPnl + (IF direction = "long" THEN 0 ELSE fill.net)
  BY <1>1, <1>7
<1> HIDE DEF long, short
<1>14. d = Greater(acc.drawdown, p - balance) /\ p = Greater(PeakOf(acc), balance)
  BY <1>7
<1> HIDE DEF balance, peak, drawdown
<1> QED BY <1>2, <1>7, <1>8, <1>11, <1>12, <1>13, <1>14

WithOutcome(acc, c, w, wp, l, lp, rc, rs, rw, rv, rl, rm, h) ==
    [acc EXCEPT !.completed = c, !.wins = w, !.winPnl = wp, !.losses = l, !.lossPnl = lp,
                !.rCount = rc, !.rSum = rs, !.rWins = rw, !.rWinSum = rv,
                !.rLosses = rl, !.rLossSum = rm, !.holding = h]

\* The figures of the outcomes may take any value.
LEMMA OutcomeUpdated ==
    ASSUME NEW acc \in Accumulator, NEW c \in Int, NEW w \in Int, NEW wp \in Int, NEW l \in Int,
           NEW lp \in Int, NEW rc \in Int, NEW rs \in Int, NEW rw \in Int, NEW rv \in Int,
           NEW rl \in Int, NEW rm \in Int, NEW h \in Int
    PROVE  LET b == WithOutcome(acc, c, w, wp, l, lp, rc, rs, rw, rv, rl, rm, h)
           IN  /\ b \in Accumulator /\ b.opened = acc.opened /\ MoneyKept(acc, b)
               /\ b.completed = c /\ b.wins = w /\ b.winPnl = wp /\ b.losses = l
               /\ b.lossPnl = lp /\ b.rCount = rc /\ b.rSum = rs /\ b.rWins = rw
               /\ b.rWinSum = rv /\ b.rLosses = rl /\ b.rLossSum = rm /\ b.holding = h
<1>1. PICK b : b = WithOutcome(acc, c, w, wp, l, lp, rc, rs, rw, rv, rl, rm, h)
  OBVIOUS
<1>2. b \in Accumulator
  BY <1>1 DEF Accumulator, WithOutcome
<1>3. /\ b.completed = c /\ b.wins = w /\ b.winPnl = wp /\ b.losses = l /\ b.lossPnl = lp
      /\ b.rCount = rc /\ b.rSum = rs /\ b.rWins = rw /\ b.rWinSum = rv
      /\ b.rLosses = rl /\ b.rLossSum = rm /\ b.holding = h
  BY <1>1 DEF Accumulator, WithOutcome
<1>4. b.opened = acc.opened /\ MoneyKept(acc, b)
  BY <1>1 DEF Accumulator, MoneyKept, WithOutcome
<1> QED BY <1>1, <1>2, <1>3, <1>4

\* The realized R of a trade is a number, none without a risk.
LEMMA RealizedRIs ==
    ASSUME NEW t \in Trade
    PROVE  RealizedR(t) \in Int /\ (~HasRisk(t) => RealizedR(t) = 0)
<1>1. PICK pnl, risk : pnl = t.realized /\ risk = t.risk
  OBVIOUS
<1>2. pnl \in Int /\ risk \in Nat \cup {None} /\ RUnit \in Int
  BY <1>1, RAssumption DEF Trade
<1>3. PICK n : n = pnl * RUnit
  OBVIOUS
<1>4. n \in Int
  BY <1>2, <1>3
<1>5. risk # None /\ risk # 0 => n \div risk \in Int
  BY <1>2, <1>4
<1> QED BY <1>1, <1>3, <1>5 DEF RealizedR, HasRisk

\* What booking a close does to every figure.
LEMMA BookTradeCloseIs ==
    ASSUME NEW acc \in Accumulator, NEW t \in Trade, NEW at \in Nat
    PROVE  LET b == BookTradeClose(acc, t, at)
           IN  /\ b \in Accumulator /\ b.opened = acc.opened /\ MoneyKept(acc, b)
               /\ b.completed = acc.completed + 1
               /\ b.wins = acc.wins + If(t.realized > 0)
               /\ b.losses = acc.losses + If(t.realized < 0)
               /\ b.winPnl = acc.winPnl + IF t.realized > 0 THEN t.realized ELSE 0
               /\ b.lossPnl = acc.lossPnl + IF t.realized < 0 THEN t.realized ELSE 0
               /\ b.rCount = acc.rCount + If(HasRisk(t))
               /\ b.rSum = acc.rSum + RealizedR(t)
               /\ b.rWins = acc.rWins + If(RealizedR(t) > 0)
               /\ b.rWinSum = acc.rWinSum + IF RealizedR(t) > 0 THEN RealizedR(t) ELSE 0
               /\ b.rLosses = acc.rLosses + If(RealizedR(t) < 0)
               /\ b.rLossSum = acc.rLossSum + IF RealizedR(t) < 0 THEN RealizedR(t) ELSE 0
               /\ b.holding = acc.holding + (at - t.entryTime)
<1>r. PICK r : r = RealizedR(t)
  OBVIOUS
<1>1. /\ acc.completed \in Int /\ acc.wins \in Int /\ acc.losses \in Int /\ acc.winPnl \in Int
      /\ acc.lossPnl \in Int /\ acc.rCount \in Int /\ acc.rWins \in Int /\ acc.rLosses \in Int
      /\ acc.rSum \in Int /\ acc.rWinSum \in Int /\ acc.rLossSum \in Int
      /\ acc.holding \in Int /\ t.realized \in Int /\ t.entryTime \in Nat /\ r \in Int
  BY <1>r, RealizedRIs DEF Accumulator, Trade
<1>2. \A condition : If(condition) \in {0, 1}
  BY DEF If
<1>3. /\ If(t.realized > 0) * t.realized = IF t.realized > 0 THEN t.realized ELSE 0
      /\ If(t.realized < 0) * t.realized = IF t.realized < 0 THEN t.realized ELSE 0
      /\ If(r > 0) * r = IF r > 0 THEN r ELSE 0
      /\ If(r < 0) * r = IF r < 0 THEN r ELSE 0
  BY <1>1 DEF If
<1>4. PICK c, w, wp, l, lp, rc, rs, rw, rv, rl, rm, h :
        /\ c = acc.completed + 1
        /\ w = acc.wins + If(t.realized > 0)
        /\ wp = acc.winPnl + If(t.realized > 0) * t.realized
        /\ l = acc.losses + If(t.realized < 0)
        /\ lp = acc.lossPnl + If(t.realized < 0) * t.realized
        /\ rc = acc.rCount + If(HasRisk(t))
        /\ rs = acc.rSum + r
        /\ rw = acc.rWins + If(r > 0)
        /\ rv = acc.rWinSum + If(r > 0) * r
        /\ rl = acc.rLosses + If(r < 0)
        /\ rm = acc.rLossSum + If(r < 0) * r
        /\ h = acc.holding + (at - t.entryTime)
  OBVIOUS
<1>5. PICK b : b = BookTradeClose(acc, t, at)
  OBVIOUS
<1>6. b = WithOutcome(acc, c, w, wp, l, lp, rc, rs, rw, rv, rl, rm, h)
  BY <1>r, <1>4, <1>5 DEF BookTradeClose, WithOutcome
<1>7. /\ c \in Int /\ w \in Int /\ l \in Int /\ rc \in Int /\ rs \in Int /\ rw \in Int
      /\ rl \in Int /\ h \in Int
  BY <1>1, <1>2, <1>4
<1>8. /\ wp = acc.winPnl + IF t.realized > 0 THEN t.realized ELSE 0
      /\ lp = acc.lossPnl + IF t.realized < 0 THEN t.realized ELSE 0
      /\ rv = acc.rWinSum + IF r > 0 THEN r ELSE 0
      /\ rm = acc.rLossSum + IF r < 0 THEN r ELSE 0
  BY <1>3, <1>4
<1>9. wp \in Int /\ lp \in Int /\ rv \in Int /\ rm \in Int
  BY <1>1, <1>8
<1>10. /\ b \in Accumulator /\ b.opened = acc.opened /\ MoneyKept(acc, b)
       /\ b.completed = c /\ b.wins = w /\ b.winPnl = wp /\ b.losses = l
       /\ b.lossPnl = lp /\ b.rCount = rc /\ b.rSum = rs /\ b.rWins = rw
       /\ b.rWinSum = rv /\ b.rLosses = rl /\ b.rLossSum = rm /\ b.holding = h
  BY <1>6, <1>7, <1>9, OutcomeUpdated
<1> QED BY <1>r, <1>4, <1>5, <1>8, <1>10

\* What a fill says of the exit of the trade it closes.
LeftBy(f) ==
    [price |-> f.price, reason |-> f.reason, precision |-> f.precision,
     time |-> f.time, source |-> f.source]

\* A trade t, with number i, becomes u by the fill f, which closes some of it.
Closes(i, t, u, f) ==
    /\ t \in Trade /\ u \in Trade /\ f \in Fill
    /\ t.status = "open" /\ f.trade = i /\ f.reason # "entry"
    /\ u.realized = t.realized + f.net /\ u.remaining = t.remaining - f.quantity
    /\ (u.status = "closed") = (u.remaining = 0)
    /\ u.exit = IF u.status = "closed" THEN LeftBy(f) ELSE t.exit
    /\ u.direction = t.direction /\ u.initial = t.initial
    /\ u.risk = t.risk /\ u.entryTime = t.entryTime

\* What CloseTrade makes of a trade and its fill.
ClosingFill(i, t, q, x) ==
    [trade |-> i, quantity |-> q, price |-> x.price,
     gross |-> Delta(t, x.price) * q * Scale,
     net |-> Delta(t, x.price) * q * Scale - UnitCost * q,
     reason |-> x.reason, precision |-> x.precision, time |-> x.time, source |-> x.source]

\* A close of some of an open trade is one in that sense.
LEMMA CloseCloses ==
    ASSUME NEW i \in Nat, NEW t \in Trade, t.status = "open", t.remaining # 0,
           NEW q \in Nat, q <= t.remaining, NEW x \in Exit
    PROVE  Closes(i, t, AfterClose(t, q, x), ClosingFill(i, t, q, x))
<1> DEFINE gross == Delta(t, x.price) * q * Scale
           cost == UnitCost * q
<1>1. PICK u, f : u = AfterClose(t, q, x) /\ f = ClosingFill(i, t, q, x)
  OBVIOUS
<1>2. gross \in Int /\ cost \in Int
  <2>1. Delta(t, x.price) \in Int
    BY DEF Delta, Trade, Exit
  <2>2. Delta(t, x.price) * q \in Int
    BY <2>1
  <2> QED BY <2>2, CostsAssumption
<1>3. /\ t.realized \in Int /\ t.remaining \in Nat /\ t.exit \in Exit \cup {None}
  BY DEF Trade
<1>4. u \in Trade
  BY <1>1, AfterCloseType
<1>5. f = [trade |-> i, quantity |-> q, price |-> x.price, gross |-> gross,
           net |-> gross - cost, reason |-> x.reason, precision |-> x.precision,
           time |-> x.time, source |-> x.source]
  BY <1>1 DEF ClosingFill
<1>6. u = [t EXCEPT !.remaining = t.remaining - q, !.realized = t.realized + gross - cost,
                    !.status = IF q = t.remaining THEN "closed" ELSE t.status,
                    !.exit = IF q = t.remaining THEN x ELSE t.exit]
  BY <1>1 DEF AfterClose
<1> HIDE DEF gross, cost
<1>7. f \in Fill /\ f.trade = i /\ f.quantity = q /\ f.net = gross - cost
  BY <1>2, <1>5 DEF Fill, Exit
<1>8. f.reason # "entry" /\ LeftBy(f) = x
  BY <1>5 DEF Exit, LeftBy
<1>9. /\ u.remaining = t.remaining - q /\ u.realized = t.realized + gross - cost
      /\ u.direction = t.direction /\ u.initial = t.initial
      /\ u.risk = t.risk /\ u.entryTime = t.entryTime
      /\ u.status = IF q = t.remaining THEN "closed" ELSE "open"
      /\ u.exit = IF q = t.remaining THEN x ELSE t.exit
  BY <1>6 DEF Trade
<1>10. u.realized = t.realized + f.net
  BY <1>2, <1>3, <1>7, <1>9
<1>11. (u.status = "closed") = (u.remaining = 0) /\ (u.status = "closed") = (q = t.remaining)
  BY <1>3, <1>9
<1> QED BY <1>1, <1>4, <1>7, <1>8, <1>9, <1>10, <1>11 DEF Closes

\* Book, for a fill that closes some of a trade.
LEMMA BookCloseIs ==
    ASSUME NEW acc \in Accumulator, NEW i, NEW t, NEW u, NEW f, Closes(i, t, u, f)
    PROVE  LET filled == BookFill(acc, f, u.direction)
           IN  Book(acc, [fill |-> f, trade |-> u]) =
                 IF u.status = "closed" THEN BookTradeClose(filled, u, f.time) ELSE filled
<1>1. f.reason # "entry"
  BY DEF Closes
<1>2. [acc EXCEPT !.opened = acc.opened + 0] = acc
  BY DEF Accumulator
<1> QED BY <1>1, <1>2 DEF Book, If

-----------------------------------------------------------------------------
(* The account of one trade in the ledger *)

Mine(fs, i) == {k \in DOMAIN fs : fs[k].trade = i}
Exits(fs, i) == {k \in Mine(fs, i) : fs[k].reason # "entry"}

QuantitiesOf(fs) == [k \in DOMAIN fs |-> fs[k].quantity]
NetsOf(fs) == [k \in DOMAIN fs |-> fs[k].net]
GrossesOf(fs) == [k \in DOMAIN fs |-> fs[k].gross]

\* What LedgerExplainsTrades says of one trade.
Account(t, i, fs) ==
    /\ \E k \in Mine(fs, i) : /\ Mine(fs, i) \ Exits(fs, i) = {k}
                              /\ \A l \in Mine(fs, i) : k <= l
                              /\ fs[k].quantity = t.initial
    /\ SumOver(Exits(fs, i), QuantitiesOf(fs)) = t.initial - t.remaining
    /\ SumOver(Mine(fs, i), NetsOf(fs)) = t.realized
    /\ (t.status = "closed") = (t.remaining = 0)
    /\ t.status = "open" => t.exit = None
    /\ t.status = "closed" =>
         \E k \in Mine(fs, i) : (\A l \in Mine(fs, i) : l <= k) /\ t.exit = LeftBy(fs[k])

\* The ledger gs is the ledger fs with one fill more.
Extended(fs, gs, f) ==
    /\ fs \in Seq(Fill) /\ gs \in Seq(Fill) /\ f \in Fill
    /\ Len(gs) = Len(fs) + 1 /\ gs[Len(gs)] = f
    /\ \A k \in 1 .. Len(fs) : gs[k] = fs[k]

\* The numbers of a fill.
LEMMA FillNumbers ==
    ASSUME NEW f \in Fill
    PROVE  f.quantity \in Nat /\ f.quantity \in Int /\ f.net \in Int /\ f.gross \in Int
BY DEF Fill

\* The columns of a ledger are lists of integers.
LEMMA ColumnsType ==
    ASSUME NEW fs \in Seq(Fill)
    PROVE  /\ QuantitiesOf(fs) \in Seq(Int) /\ NetsOf(fs) \in Seq(Int) /\ GrossesOf(fs) \in Seq(Int)
           /\ Len(QuantitiesOf(fs)) = Len(fs) /\ Len(NetsOf(fs)) = Len(fs)
           /\ Len(GrossesOf(fs)) = Len(fs)
           /\ \A k \in 1 .. Len(fs) :
                /\ QuantitiesOf(fs)[k] = fs[k].quantity
                /\ NetsOf(fs)[k] = fs[k].net /\ GrossesOf(fs)[k] = fs[k].gross
<1>2. ASSUME NEW k \in 1 .. Len(fs)
      PROVE  fs[k].quantity \in Int /\ fs[k].net \in Int /\ fs[k].gross \in Int
  <2>1. PICK f : f = fs[k]
    OBVIOUS
  <2>2. f \in Fill
    BY <2>1
  <2> QED BY <2>1, <2>2, FillNumbers
<1>3. DOMAIN fs = 1 .. Len(fs) /\ Len(fs) \in Nat
  OBVIOUS
<1>4. QuantitiesOf(fs) \in Seq(Int) /\ Len(QuantitiesOf(fs)) = Len(fs)
  BY <1>2, <1>3 DEF QuantitiesOf
<1>5. NetsOf(fs) \in Seq(Int) /\ Len(NetsOf(fs)) = Len(fs)
  BY <1>2, <1>3 DEF NetsOf
<1>6. GrossesOf(fs) \in Seq(Int) /\ Len(GrossesOf(fs)) = Len(fs)
  BY <1>2, <1>3 DEF GrossesOf
<1> QED BY <1>3, <1>4, <1>5, <1>6 DEF QuantitiesOf, NetsOf, GrossesOf

\* Whose the fills of the longer ledger are.
LEMMA MineExtended ==
    ASSUME NEW fs, NEW gs, NEW f, Extended(fs, gs, f), NEW i
    PROVE  /\ f.trade # i => Mine(gs, i) = Mine(fs, i) /\ Exits(gs, i) = Exits(fs, i)
           /\ f.trade = i => Mine(gs, i) = Mine(fs, i) \cup {Len(gs)}
           /\ f.trade = i /\ f.reason = "entry" => Exits(gs, i) = Exits(fs, i)
           /\ f.trade = i /\ f.reason # "entry" => Exits(gs, i) = Exits(fs, i) \cup {Len(gs)}
           /\ Mine(fs, i) \subseteq 1 .. Len(fs) /\ Exits(fs, i) \subseteq Mine(fs, i)
           /\ \A k \in 1 .. Len(fs) : gs[k] = fs[k] /\ k < Len(gs)
           /\ Len(gs) \in Nat /\ Len(fs) \in Nat
<1>1. /\ DOMAIN fs = 1 .. Len(fs) /\ DOMAIN gs = 1 .. Len(gs)
      /\ Len(fs) \in Nat /\ Len(gs) = Len(fs) + 1 /\ gs[Len(gs)] = f
      /\ \A k \in 1 .. Len(fs) : gs[k] = fs[k]
  BY DEF Extended
<1>2. \A k : k \in DOMAIN gs <=> (k \in DOMAIN fs \/ k = Len(gs))
  BY <1>1
<1>3. \A k : k \in Mine(gs, i) <=> (k \in Mine(fs, i) \/ (k = Len(gs) /\ f.trade = i))
  BY <1>1, <1>2 DEF Mine
<1>4. \A k : k \in Exits(gs, i) <=>
               (k \in Exits(fs, i) \/ (k = Len(gs) /\ f.trade = i /\ f.reason # "entry"))
  <2>1. \A k \in Mine(fs, i) : gs[k] = fs[k]
    BY <1>1 DEF Mine
  <2> QED BY <1>1, <1>3, <2>1 DEF Exits
<1>5. Mine(fs, i) \subseteq 1 .. Len(fs) /\ Exits(fs, i) \subseteq Mine(fs, i)
  BY <1>1 DEF Mine, Exits
<1>6. \A k \in 1 .. Len(fs) : gs[k] = fs[k] /\ k < Len(gs)
  BY <1>1
<1>7. f.trade # i => Mine(gs, i) = Mine(fs, i) /\ Exits(gs, i) = Exits(fs, i)
  BY <1>3, <1>4, Zenon
<1>8. /\ f.trade = i => Mine(gs, i) = Mine(fs, i) \cup {Len(gs)}
      /\ f.trade = i /\ f.reason # "entry" => Exits(gs, i) = Exits(fs, i) \cup {Len(gs)}
  BY <1>3, <1>4
<1>9. f.trade = i /\ f.reason = "entry" => Exits(gs, i) = Exits(fs, i)
  BY <1>4, Zenon
<1> QED BY <1>1, <1>5, <1>6, <1>7, <1>8, <1>9

\* The sums over the places of one trade.
LEMMA SumsExtended ==
    ASSUME NEW fs, NEW gs, NEW f, Extended(fs, gs, f), NEW i
    PROVE  /\ SumOver(Mine(gs, i), NetsOf(gs)) =
                SumOver(Mine(fs, i), NetsOf(fs)) + IF f.trade = i THEN f.net ELSE 0
           /\ f.trade = i /\ f.reason # "entry" =>
                SumOver(Exits(gs, i), QuantitiesOf(gs)) =
                  SumOver(Exits(fs, i), QuantitiesOf(fs)) + f.quantity
           /\ f.trade # i \/ f.reason = "entry" =>
                SumOver(Exits(gs, i), QuantitiesOf(gs)) = SumOver(Exits(fs, i), QuantitiesOf(fs))
<1>1. /\ fs \in Seq(Fill) /\ gs \in Seq(Fill) /\ Len(gs) = Len(fs) + 1 /\ gs[Len(gs)] = f
  BY DEF Extended
<1>2. PICK v, w : v = NetsOf(fs) /\ w = NetsOf(gs)
  OBVIOUS
<1>3. PICK K, L : K = Mine(fs, i) /\ L = Mine(gs, i)
  OBVIOUS
<1>4. PICK x, y : x = QuantitiesOf(fs) /\ y = QuantitiesOf(gs)
  OBVIOUS
<1>5. PICK M, N : M = Exits(fs, i) /\ N = Exits(gs, i)
  OBVIOUS
<1>6. /\ v \in Seq(Int) /\ w \in Seq(Int) /\ x \in Seq(Int) /\ y \in Seq(Int)
      /\ Len(v) = Len(fs) /\ Len(w) = Len(gs) /\ Len(x) = Len(fs) /\ Len(y) = Len(gs)
      /\ \A k \in 1 .. Len(fs) : v[k] = fs[k].net /\ x[k] = fs[k].quantity
      /\ \A k \in 1 .. Len(gs) : w[k] = gs[k].net /\ y[k] = gs[k].quantity
  BY <1>1, <1>2, <1>4, ColumnsType
<1>7. /\ \A k \in 1 .. Len(fs) : gs[k] = fs[k] /\ k < Len(gs) /\ k \in 1 .. Len(gs)
      /\ Len(gs) \in Nat /\ Len(fs) \in Nat /\ Len(gs) \in 1 .. Len(gs)
      /\ ~(Len(gs) \in 1 .. Len(fs))
  BY <1>1, MineExtended
<1>a. /\ K \subseteq 1 .. Len(fs) /\ M \subseteq 1 .. Len(fs)
      /\ L = K \cup IF f.trade = i THEN {Len(gs)} ELSE {}
      /\ N = M \cup IF f.trade = i /\ f.reason # "entry" THEN {Len(gs)} ELSE {}
  <2>1. /\ f.trade # i => L = K /\ N = M
        /\ f.trade = i => L = K \cup {Len(gs)}
        /\ f.trade = i /\ f.reason = "entry" => N = M
        /\ f.trade = i /\ f.reason # "entry" => N = M \cup {Len(gs)}
        /\ K \subseteq 1 .. Len(fs) /\ M \subseteq K
    BY <1>3, <1>5, MineExtended
  <2> QED BY <2>1
<1>b. Len(w) = Len(v) + 1 /\ Len(y) = Len(x) + 1 /\ Len(v) = Len(fs) /\ Len(x) = Len(fs)
  BY <1>1, <1>6
<1>8. /\ Alike(v, K, w, L, 1 .. Len(v))
      /\ (Len(w) \in L) = (f.trade = i)
  <2>1. \A k \in 1 .. Len(fs) : k # Len(gs) /\ w[k] = v[k]
    BY <1>6, <1>7
  <2> QED BY <1>6, <1>7, <1>a, <1>b, <2>1 DEF Alike
<1>9. /\ Alike(x, M, y, N, 1 .. Len(x))
      /\ (Len(y) \in N) = (f.trade = i /\ f.reason # "entry")
  <2>1. \A k \in 1 .. Len(fs) : k # Len(gs) /\ y[k] = x[k]
    BY <1>6, <1>7
  <2> QED BY <1>6, <1>7, <1>a, <1>b, <2>1 DEF Alike
<1>10. SumOver(L, w) = SumOver(K, v) + IF Len(w) \in L THEN w[Len(w)] ELSE 0
  BY <1>6, <1>8, <1>b, SumOverAppended
<1>11. SumOver(N, y) = SumOver(M, x) + IF Len(y) \in N THEN y[Len(y)] ELSE 0
  BY <1>6, <1>9, <1>b, SumOverAppended
<1>12. w[Len(w)] = f.net /\ y[Len(y)] = f.quantity
  BY <1>1, <1>6, <1>7
<1>13. SumOver(M, x) \in Int
  BY <1>6, SumType
<1> QED BY <1>13, <1>2, <1>3, <1>4, <1>5, <1>8, <1>9, <1>10, <1>11, <1>12

\* A fill of another trade leaves the account of a trade alone.
LEMMA AccountKept ==
    ASSUME NEW fs, NEW gs, NEW f, Extended(fs, gs, f), NEW t, NEW i, f.trade # i,
           Account(t, i, fs), t.initial \in Int, t.remaining \in Int, t.realized \in Int
    PROVE  Account(t, i, gs)
<1>1. Mine(gs, i) = Mine(fs, i) /\ Exits(gs, i) = Exits(fs, i)
  BY MineExtended
<1>2. \A k \in Mine(fs, i) : gs[k] = fs[k]
  BY MineExtended
<1>3. /\ SumOver(Mine(gs, i), NetsOf(gs)) = t.realized
      /\ SumOver(Exits(gs, i), QuantitiesOf(gs)) = t.initial - t.remaining
  <2>1. /\ SumOver(Mine(fs, i), NetsOf(fs)) = t.realized
        /\ SumOver(Exits(fs, i), QuantitiesOf(fs)) = t.initial - t.remaining
    BY DEF Account
  <2>2. /\ SumOver(Mine(gs, i), NetsOf(gs)) = SumOver(Mine(fs, i), NetsOf(fs)) + 0
        /\ SumOver(Exits(gs, i), QuantitiesOf(gs)) = SumOver(Exits(fs, i), QuantitiesOf(fs))
    BY SumsExtended
  <2> QED BY <2>1, <2>2
<1>4. \E k \in Mine(gs, i) : /\ Mine(gs, i) \ Exits(gs, i) = {k}
                             /\ \A l \in Mine(gs, i) : k <= l
                             /\ gs[k].quantity = t.initial
  BY <1>1, <1>2 DEF Account
<1>5. t.status = "closed" =>
        \E k \in Mine(gs, i) : (\A l \in Mine(gs, i) : l <= k) /\ t.exit = LeftBy(gs[k])
  BY <1>1, <1>2 DEF Account
<1> QED BY <1>3, <1>4, <1>5 DEF Account

\* A close is accounted for by its fill.
LEMMA AccountClosed ==
    ASSUME NEW fs, NEW gs, NEW f, Extended(fs, gs, f), NEW i, NEW t, NEW u,
           Closes(i, t, u, f), Account(t, i, fs)
    PROVE  Account(u, i, gs)
<1> DEFINE n == Len(gs)
<1>1. f.trade = i /\ f.reason # "entry" /\ gs[n] = f /\ n \in Nat
  BY MineExtended DEF Closes, Extended
<1>2. /\ Mine(gs, i) = Mine(fs, i) \cup {n} /\ Exits(gs, i) = Exits(fs, i) \cup {n}
      /\ Mine(fs, i) \subseteq 1 .. Len(fs) /\ Exits(fs, i) \subseteq Mine(fs, i)
      /\ \A k \in 1 .. Len(fs) : gs[k] = fs[k] /\ k < n
  BY <1>1, MineExtended
<1>3. /\ t.initial \in Int /\ t.remaining \in Int /\ t.realized \in Int /\ f.net \in Int
      /\ f.quantity \in Int /\ u.initial = t.initial /\ u.realized = t.realized + f.net
      /\ u.remaining = t.remaining - f.quantity /\ t.status = "open"
      /\ (u.status = "closed") = (u.remaining = 0) /\ u.status \in {"open", "closed"}
      /\ u.exit = IF u.status = "closed" THEN LeftBy(f) ELSE t.exit
  BY DEF Closes, Trade, Fill
<1>4. PICK k \in Mine(fs, i) : /\ Mine(fs, i) \ Exits(fs, i) = {k}
                               /\ \A l \in Mine(fs, i) : k <= l
                               /\ fs[k].quantity = t.initial
  BY DEF Account
<1>5. /\ k \in Mine(gs, i) /\ Mine(gs, i) \ Exits(gs, i) = {k}
      /\ \A l \in Mine(gs, i) : k <= l
      /\ gs[k].quantity = u.initial
  <2>1. k \in 1 .. Len(fs) /\ k # n /\ k <= n /\ gs[k] = fs[k]
    BY <1>1, <1>2, <1>4
  <2>2. Mine(gs, i) \ Exits(gs, i) = {k}
    BY <1>2, <1>4, <2>1
  <2> QED BY <1>2, <1>3, <1>4, <2>1, <2>2
<1>6. /\ SumOver(Mine(gs, i), NetsOf(gs)) = u.realized
      /\ SumOver(Exits(gs, i), QuantitiesOf(gs)) = u.initial - u.remaining
  <2>1. /\ SumOver(Mine(fs, i), NetsOf(fs)) = t.realized
        /\ SumOver(Exits(fs, i), QuantitiesOf(fs)) = t.initial - t.remaining
    BY DEF Account
  <2>2. /\ SumOver(Mine(gs, i), NetsOf(gs)) = SumOver(Mine(fs, i), NetsOf(fs)) + f.net
        /\ SumOver(Exits(gs, i), QuantitiesOf(gs)) =
             SumOver(Exits(fs, i), QuantitiesOf(fs)) + f.quantity
    BY <1>1, SumsExtended
  <2> QED BY <1>3, <2>1, <2>2
<1>7. u.status = "open" => u.exit = None
  BY <1>3 DEF Account
<1>8. u.status = "closed" =>
        \E l \in Mine(gs, i) : (\A m \in Mine(gs, i) : m <= l) /\ u.exit = LeftBy(gs[l])
  <2>1. n \in Mine(gs, i) /\ \A m \in Mine(gs, i) : m <= n
    BY <1>1, <1>2
  <2> QED BY <1>1, <1>3, <2>1
<1>9. \E l \in Mine(gs, i) : /\ Mine(gs, i) \ Exits(gs, i) = {l}
                             /\ \A m \in Mine(gs, i) : l <= m
                             /\ gs[l].quantity = u.initial
  BY <1>5
<1> QED BY <1>3, <1>6, <1>7, <1>8, <1>9 DEF Account

\* A trade u, with number i, is opened by the fill f.
Opens(i, u, f) ==
    /\ u \in Trade /\ f \in Fill /\ f.trade = i /\ f.reason = "entry"
    /\ f.quantity = u.initial /\ u.remaining = u.initial /\ u.realized = f.net
    /\ u.status = "open" /\ u.exit = None

\* An entry is the first fill of its trade.
LEMMA AccountOpened ==
    ASSUME NEW fs, NEW gs, NEW f, Extended(fs, gs, f), NEW i, NEW u, Opens(i, u, f),
           Mine(fs, i) = {}
    PROVE  Account(u, i, gs)
<1> DEFINE n == Len(gs)
<1>1. f.trade = i /\ f.reason = "entry" /\ gs[n] = f /\ n \in Nat /\ f.quantity = u.initial
  BY MineExtended DEF Opens, Extended
<1>2. Mine(gs, i) = {n} /\ Exits(gs, i) = {} /\ Exits(fs, i) = {}
  <2>1. Mine(gs, i) = Mine(fs, i) \cup {n} /\ Exits(gs, i) = Exits(fs, i)
    BY <1>1, MineExtended
  <2>2. Exits(fs, i) = {}
    BY DEF Exits
  <2> QED BY <2>1, <2>2
<1>3. /\ u.initial \in Int /\ u.initial # 0 /\ u.remaining = u.initial /\ u.realized = f.net
      /\ f.net \in Int /\ u.status = "open" /\ u.exit = None
  BY DEF Opens, Trade, Fill
<1>4. \E k \in Mine(gs, i) : /\ Mine(gs, i) \ Exits(gs, i) = {k}
                             /\ \A l \in Mine(gs, i) : k <= l
                             /\ gs[k].quantity = u.initial
  BY <1>1, <1>2
<1>5. /\ SumOver(Mine(gs, i), NetsOf(gs)) = u.realized
      /\ SumOver(Exits(gs, i), QuantitiesOf(gs)) = u.initial - u.remaining
  <2>1. SumOver(Mine(fs, i), NetsOf(fs)) = 0 /\ SumOver(Exits(fs, i), QuantitiesOf(fs)) = 0
    <3>1. NetsOf(fs) \in Seq(Int) /\ QuantitiesOf(fs) \in Seq(Int)
      BY ColumnsType DEF Extended
    <3>2. \A v \in Seq(Int) : SumOver({}, v) = 0
      BY SumOverNowhere
    <3> QED BY <1>2, <3>1, <3>2
  <2>2. /\ SumOver(Mine(gs, i), NetsOf(gs)) = SumOver(Mine(fs, i), NetsOf(fs)) + f.net
        /\ SumOver(Exits(gs, i), QuantitiesOf(gs)) = SumOver(Exits(fs, i), QuantitiesOf(fs))
    BY <1>1, SumsExtended
  <2> QED BY <1>3, <2>1, <2>2
<1> QED BY <1>3, <1>4, <1>5 DEF Account

-----------------------------------------------------------------------------
(* The figures that come from the trades *)

PnlsOf(ts) == [i \in DOMAIN ts |-> ts[i].realized]
HeldOf(ts) == [i \in DOMAIN ts |-> Held(ts[i])]

ClosedOf(ts) == {i \in DOMAIN ts : ts[i].status = "closed"}
WinsOf(ts) == {i \in ClosedOf(ts) : ts[i].realized > 0}
LossesOf(ts) == {i \in ClosedOf(ts) : ts[i].realized < 0}
RiskyOf(ts) == {i \in ClosedOf(ts) : HasRisk(ts[i])}
RsOf(ts) == [i \in DOMAIN ts |-> RealizedR(ts[i])]
RWinsOf(ts) == {i \in RiskyOf(ts) : RealizedR(ts[i]) > 0}
RLossesOf(ts) == {i \in RiskyOf(ts) : RealizedR(ts[i]) < 0}
LongOf(ts) == {i \in DOMAIN ts : ts[i].direction = "long"}

CountsMatch(ts, acc) ==
    /\ acc.opened = Len(ts) /\ acc.completed = Cardinality(ClosedOf(ts))
    /\ acc.wins = Cardinality(WinsOf(ts)) /\ acc.losses = Cardinality(LossesOf(ts))
    /\ acc.rCount = Cardinality(RiskyOf(ts))
    /\ acc.rWins = Cardinality(RWinsOf(ts))
    /\ acc.rLosses = Cardinality(RLossesOf(ts))

PnlsMatch(ts, acc) ==
    /\ acc.winPnl = SumOver(WinsOf(ts), PnlsOf(ts))
    /\ acc.lossPnl = SumOver(LossesOf(ts), PnlsOf(ts))
    /\ acc.longPnl = SumOver(LongOf(ts), PnlsOf(ts))
    /\ acc.shortPnl = SumOver(DOMAIN ts \ LongOf(ts), PnlsOf(ts))
    /\ acc.holding = SumOver(ClosedOf(ts), HeldOf(ts))
    /\ acc.rSum = SumOver(RiskyOf(ts), RsOf(ts))
    /\ acc.rWinSum = SumOver(RWinsOf(ts), RsOf(ts))
    /\ acc.rLossSum = SumOver(RLossesOf(ts), RsOf(ts))

\* What a fill books, and what the outcome of a trade books.
MoneyBooked(a, b, f, direction) ==
    /\ b.gross = a.gross + f.gross /\ b.net = a.net + f.net
    /\ b.costs = a.costs + (f.gross - f.net)
    /\ b.longPnl = a.longPnl + IF direction = "long" THEN f.net ELSE 0
    /\ b.shortPnl = a.shortPnl + IF direction = "long" THEN 0 ELSE f.net
    /\ b.peak = Greater(PeakOf(a), InitialBalance + a.net + f.net)
    /\ b.drawdown = Greater(a.drawdown, b.peak - (InitialBalance + a.net + f.net))
OutcomeBooked(a, b, u, at) ==
    /\ b.completed = a.completed + If(u.status = "closed")
    /\ b.wins = a.wins + If(u.status = "closed" /\ u.realized > 0)
    /\ b.losses = a.losses + If(u.status = "closed" /\ u.realized < 0)
    /\ b.winPnl = a.winPnl + IF u.status = "closed" /\ u.realized > 0 THEN u.realized ELSE 0
    /\ b.lossPnl = a.lossPnl + IF u.status = "closed" /\ u.realized < 0 THEN u.realized ELSE 0
    /\ b.rCount = a.rCount + If(u.status = "closed" /\ HasRisk(u))
    /\ b.rSum = a.rSum + IF u.status = "closed" THEN RealizedR(u) ELSE 0
    /\ b.rWins = a.rWins + If(u.status = "closed" /\ RealizedR(u) > 0)
    /\ b.rWinSum = a.rWinSum
                     + IF u.status = "closed" /\ RealizedR(u) > 0 THEN RealizedR(u) ELSE 0
    /\ b.rLosses = a.rLosses + If(u.status = "closed" /\ RealizedR(u) < 0)
    /\ b.rLossSum = a.rLossSum
                      + IF u.status = "closed" /\ RealizedR(u) < 0 THEN RealizedR(u) ELSE 0
    /\ b.holding = a.holding + IF u.status = "closed" THEN at - u.entryTime ELSE 0

\* A close books its money and, with the last of the trade, the outcome.
LEMMA ClosedIsBooked ==
    ASSUME NEW acc \in Accumulator, NEW i, NEW t, NEW u, NEW f, Closes(i, t, u, f)
    PROVE  LET b == Book(acc, [fill |-> f, trade |-> u])
           IN  /\ b \in Accumulator /\ b.opened = acc.opened
               /\ MoneyBooked(acc, b, f, u.direction) /\ OutcomeBooked(acc, b, u, f.time)
<1>1. u \in Trade /\ f \in Fill /\ f.time \in Nat
  BY DEF Closes, Fill
<1>2. PICK a : a = BookFill(acc, f, u.direction)
  OBVIOUS
<1>3. /\ a \in Accumulator /\ a.opened = acc.opened /\ OutcomesKept(acc, a)
      /\ MoneyBooked(acc, a, f, u.direction)
  BY <1>1, <1>2, BookFillIs DEF MoneyBooked
<1>4. PICK b : b = Book(acc, [fill |-> f, trade |-> u])
  OBVIOUS
<1>5. b = IF u.status = "closed" THEN BookTradeClose(a, u, f.time) ELSE a
  BY <1>2, <1>4, BookCloseIs
<1>6. CASE u.status = "closed"
  <2>1. PICK c : c = BookTradeClose(a, u, f.time)
    OBVIOUS
  <2>2. /\ c \in Accumulator /\ c.opened = a.opened /\ MoneyKept(a, c)
        /\ OutcomeBooked(a, c, u, f.time)
    <3>1. /\ c \in Accumulator /\ c.opened = a.opened /\ MoneyKept(a, c)
          /\ c.completed = a.completed + 1
          /\ c.wins = a.wins + If(u.realized > 0) /\ c.losses = a.losses + If(u.realized < 0)
          /\ c.winPnl = a.winPnl + IF u.realized > 0 THEN u.realized ELSE 0
          /\ c.lossPnl = a.lossPnl + IF u.realized < 0 THEN u.realized ELSE 0
          /\ c.rCount = a.rCount + If(HasRisk(u))
          /\ c.rSum = a.rSum + RealizedR(u)
          /\ c.rWins = a.rWins + If(RealizedR(u) > 0)
          /\ c.rWinSum = a.rWinSum + IF RealizedR(u) > 0 THEN RealizedR(u) ELSE 0
          /\ c.rLosses = a.rLosses + If(RealizedR(u) < 0)
          /\ c.rLossSum = a.rLossSum + IF RealizedR(u) < 0 THEN RealizedR(u) ELSE 0
          /\ c.holding = a.holding + (f.time - u.entryTime)
      BY <1>1, <1>3, <2>1, BookTradeCloseIs
    <3> QED BY <1>6, <3>1 DEF OutcomeBooked, If
  <2>3. b = c
    BY <1>5, <1>6, <2>1
  <2>4. MoneyBooked(acc, b, f, u.direction)
    BY <1>3, <2>2, <2>3 DEF MoneyBooked, MoneyKept
  <2>5. OutcomeBooked(acc, b, u, f.time)
    BY <1>3, <2>2, <2>3 DEF OutcomeBooked, OutcomesKept
  <2> QED BY <1>3, <1>4, <2>2, <2>3, <2>4, <2>5
<1>7. CASE u.status # "closed"
  <2>1. b = a
    BY <1>5, <1>7
  <2>2. OutcomeBooked(acc, b, u, f.time)
    <3>1. /\ acc.completed \in Int /\ acc.wins \in Int /\ acc.losses \in Int /\ acc.winPnl \in Int
          /\ acc.lossPnl \in Int /\ acc.rCount \in Int /\ acc.rWins \in Int
          /\ acc.rLosses \in Int /\ acc.holding \in Int
          /\ acc.rSum \in Int /\ acc.rWinSum \in Int /\ acc.rLossSum \in Int
      BY DEF Accumulator
    <3> QED BY <1>3, <1>7, <2>1, <3>1 DEF OutcomeBooked, OutcomesKept, If
  <2> QED BY <1>3, <1>4, <2>1, <2>2
<1> QED BY <1>6, <1>7

\* One more, or not, in a set of places.
LEMMA OneCounted ==
    ASSUME NEW n \in Nat, NEW S \in SUBSET (1 .. n), NEW T, NEW i, i \notin S,
           \A j : j # i => (j \in T <=> j \in S)
    PROVE  /\ Cardinality(S) \in Nat
           /\ i \in T => Cardinality(T) = Cardinality(S) + 1
           /\ i \notin T => Cardinality(T) = Cardinality(S)
<1>1. IsFiniteSet(S)
  <2>1. PICK one : one = 1
    OBVIOUS
  <2>2. one \in Int /\ n \in Int /\ S \in SUBSET (one .. n)
    BY <2>1
  <2>3. IsFiniteSet(one .. n)
    BY <2>2, FS_Interval
  <2> QED BY <2>2, <2>3, FS_Subset
<1>2. Cardinality(S) \in Nat
  BY <1>1, FS_CardinalityType
<1>3. ASSUME i \in T PROVE Cardinality(T) = Cardinality(S) + 1
  <2>1. T = S \cup {i}
    BY <1>3
  <2> QED BY <1>1, <2>1, FS_AddElement
<1>4. ASSUME i \notin T PROVE T = S
  <2>1. \A j : j \in T <=> j \in S
    BY <1>4
  <2> QED BY <2>1, Zenon
<1> QED BY <1>2, <1>3, <1>4

\* The trades us are the trades ts but for one, the i-th.
Replaced(ts, us, i) ==
    /\ ts \in Seq(Trade) /\ us \in Seq(Trade) /\ Len(us) = Len(ts) /\ i \in 1 .. Len(ts)
    /\ \A j \in 1 .. Len(ts) : j # i => us[j] = ts[j]

\* The set T is the set S of places, which lacks i, perhaps with i.
MayGain(n, S, T, i) ==
    S \in SUBSET (1 .. n) /\ i \notin S /\ \A j : j # i => (j \in T <=> j \in S)

\* The sets of trades that are counted, when one more trade u is closed.
SetsGain(ts, us, i, n) ==
    /\ MayGain(n, ClosedOf(ts), ClosedOf(us), i) /\ MayGain(n, WinsOf(ts), WinsOf(us), i)
    /\ MayGain(n, LossesOf(ts), LossesOf(us), i) /\ MayGain(n, RiskyOf(ts), RiskyOf(us), i)
    /\ MayGain(n, RWinsOf(ts), RWinsOf(us), i)
    /\ MayGain(n, RLossesOf(ts), RLossesOf(us), i)
    /\ \A j : j \in LongOf(us) <=> j \in LongOf(ts)
    /\ DOMAIN us = 1 .. n /\ DOMAIN ts = 1 .. n /\ n \in Nat /\ i \in 1 .. n

\* Where the trade itself is.
Sorted(us, i, u) ==
    /\ i \in ClosedOf(us) <=> u.status = "closed"
    /\ i \in WinsOf(us) <=> (u.status = "closed" /\ u.realized > 0)
    /\ i \in LossesOf(us) <=> (u.status = "closed" /\ u.realized < 0)
    /\ i \in RiskyOf(us) <=> (u.status = "closed" /\ HasRisk(u))
    /\ i \in RWinsOf(us) <=> (u.status = "closed" /\ HasRisk(u) /\ RealizedR(u) > 0)
    /\ i \in RLossesOf(us) <=> (u.status = "closed" /\ HasRisk(u) /\ RealizedR(u) < 0)
    /\ i \in LongOf(us) <=> u.direction = "long"

\* What a close does to the sets of trades that are counted.
LEMMA SetsReplaced ==
    ASSUME NEW ts, NEW us, NEW i, Replaced(ts, us, i), NEW t, NEW u, t = ts[i], u = us[i],
           t.status = "open", u.direction = t.direction, NEW n, n = Len(ts)
    PROVE  SetsGain(ts, us, i, n) /\ Sorted(us, i, u)
<1>1. /\ DOMAIN us = 1 .. n /\ DOMAIN ts = 1 .. n /\ n \in Nat
      /\ i \in 1 .. n /\ \A j \in 1 .. n : j # i => us[j] = ts[j]
  BY DEF Replaced
<1>2. MayGain(n, ClosedOf(ts), ClosedOf(us), i)
  BY <1>1 DEF MayGain, ClosedOf
<1>3. MayGain(n, WinsOf(ts), WinsOf(us), i)
  BY <1>1, <1>2 DEF MayGain, WinsOf, ClosedOf
<1>4. MayGain(n, LossesOf(ts), LossesOf(us), i)
  BY <1>1, <1>2 DEF MayGain, LossesOf, ClosedOf
<1>5. MayGain(n, RiskyOf(ts), RiskyOf(us), i)
  BY <1>1, <1>2 DEF MayGain, RiskyOf, ClosedOf
<1>6. /\ MayGain(n, RWinsOf(ts), RWinsOf(us), i)
      /\ MayGain(n, RLossesOf(ts), RLossesOf(us), i)
  BY <1>1, <1>5 DEF MayGain, RWinsOf, RLossesOf
<1>7. \A j : j \in LongOf(us) <=> j \in LongOf(ts)
  BY <1>1 DEF LongOf
<1>8. Sorted(us, i, u)
  BY <1>1 DEF Sorted, ClosedOf, WinsOf, LossesOf, RiskyOf, RWinsOf, RLossesOf, LongOf
<1> QED BY <1>1, <1>2, <1>3, <1>4, <1>5, <1>6, <1>7, <1>8 DEF SetsGain

\* Its cardinality.
LEMMA GainCounted ==
    ASSUME NEW n \in Nat, NEW S, NEW T, NEW i, MayGain(n, S, T, i),
           NEW a, NEW b, a = Cardinality(S), i \in T => b = a + 1, i \notin T => b = a
    PROVE  b = Cardinality(T)
<1>1. /\ S \in SUBSET (1 .. n) /\ i \notin S /\ \A j : j # i => (j \in T <=> j \in S)
  BY DEF MayGain
<1>2. /\ Cardinality(S) \in Nat
      /\ i \in T => Cardinality(T) = Cardinality(S) + 1
      /\ i \notin T => Cardinality(T) = Cardinality(S)
  BY <1>1, OneCounted
<1> QED BY <1>1, <1>2

\* The list w is the list v but for its i-th number.
Changed(v, w, i) ==
    /\ v \in Seq(Int) /\ w \in Seq(Int) /\ Len(w) = Len(v) /\ i \in 1 .. Len(v)
    /\ \A j \in 1 .. Len(v) : j # i => w[j] = v[j]

\* The sum over it.
LEMMA GainSummed ==
    ASSUME NEW v, NEW w, NEW i, Changed(v, w, i), NEW n, NEW S, NEW T, MayGain(n, S, T, i),
           NEW a, NEW b, a = SumOver(S, v), i \in T => b = a + w[i], i \notin T => b = a
    PROVE  b = SumOver(T, w)
<1>1. i \notin S /\ \A j : j # i => (j \in T <=> j \in S)
  BY DEF MayGain
<1>2. /\ v \in Seq(Int) /\ w \in Seq(Int) /\ Len(w) = Len(v) /\ i \in 1 .. Len(v)
      /\ \A j \in 1 .. Len(v) : j # i => w[j] = v[j]
  BY DEF Changed
<1>3. Alike(v, S, w, T, (1 .. Len(v)) \ {i})
  BY <1>1, <1>2 DEF Alike
<1>4. SumOver(T, w) =
        SumOver(S, v) - (IF i \in S THEN v[i] ELSE 0) + (IF i \in T THEN w[i] ELSE 0)
  BY <1>2, <1>3, SumOverChanged
<1>5. SumOver(S, v) \in Int
  BY <1>2, SumType
<1>6. w[i] \in Int
  BY <1>2
<1> QED BY <1>1, <1>4, <1>5, <1>6

\* The sum over the same places.
LEMMA PlacesSummed ==
    ASSUME NEW v, NEW w, NEW i, Changed(v, w, i), NEW S, NEW T, \A j : j \in T <=> j \in S
    PROVE  /\ SumOver(S, v) \in Int /\ v[i] \in Int /\ w[i] \in Int
           /\ i \in S => SumOver(T, w) = SumOver(S, v) - v[i] + w[i]
           /\ i \notin S => SumOver(T, w) = SumOver(S, v)
<1>1. /\ v \in Seq(Int) /\ w \in Seq(Int) /\ Len(w) = Len(v) /\ i \in 1 .. Len(v)
      /\ \A j \in 1 .. Len(v) : j # i => w[j] = v[j]
  BY DEF Changed
<1>2. Alike(v, S, w, T, (1 .. Len(v)) \ {i})
  BY <1>1 DEF Alike
<1>3. SumOver(T, w) =
        SumOver(S, v) - (IF i \in S THEN v[i] ELSE 0) + (IF i \in T THEN w[i] ELSE 0)
  BY <1>1, <1>2, SumOverChanged
<1>4. SumOver(S, v) \in Int
  BY <1>1, SumType
<1>5. v[i] \in Int /\ w[i] \in Int
  BY <1>1
<1> QED BY <1>3, <1>4, <1>5

\* The columns of the trades.
LEMMA TradeColumns ==
    ASSUME NEW ts \in Seq(Trade)
    PROVE  /\ PnlsOf(ts) \in Seq(Int) /\ HeldOf(ts) \in Seq(Int)
           /\ Len(PnlsOf(ts)) = Len(ts) /\ Len(HeldOf(ts)) = Len(ts)
           /\ RsOf(ts) \in Seq(Int) /\ Len(RsOf(ts)) = Len(ts)
           /\ \A i \in 1 .. Len(ts) : /\ PnlsOf(ts)[i] = ts[i].realized
                                      /\ HeldOf(ts)[i] = Held(ts[i])
                                      /\ RsOf(ts)[i] = RealizedR(ts[i])
<1>1. DOMAIN ts = 1 .. Len(ts) /\ Len(ts) \in Nat
  OBVIOUS
<1>2. ASSUME NEW i \in 1 .. Len(ts) PROVE ts[i].realized \in Int /\ Held(ts[i]) \in Int
  <2>1. PICK t : t = ts[i]
    OBVIOUS
  <2>2. t \in Trade
    BY <2>1
  <2>3. t.realized \in Int /\ t.entryTime \in Nat
    BY <2>2 DEF Trade
  <2>4. t.exit # None => t.exit.time \in Nat
    BY <2>2 DEF Trade, Exit
  <2> QED BY <2>1, <2>3, <2>4 DEF Held
<1>3. PnlsOf(ts) \in Seq(Int) /\ Len(PnlsOf(ts)) = Len(ts)
  BY <1>1, <1>2 DEF PnlsOf
<1>4. HeldOf(ts) \in Seq(Int) /\ Len(HeldOf(ts)) = Len(ts)
  BY <1>1, <1>2 DEF HeldOf
<1>5. \A i \in 1 .. Len(ts) : RealizedR(ts[i]) \in Int
  BY RealizedRIs
<1>6. RsOf(ts) \in Seq(Int) /\ Len(RsOf(ts)) = Len(ts)
  BY <1>1, <1>5 DEF RsOf
<1> QED BY <1>1, <1>3, <1>4, <1>6 DEF PnlsOf, HeldOf, RsOf

\* A close keeps the counts.
LEMMA CountsClosed ==
    ASSUME NEW ts, NEW us, NEW i, Replaced(ts, us, i), NEW f, Closes(i, ts[i], us[i], f),
           NEW a, NEW b, b.opened = a.opened, OutcomeBooked(a, b, us[i], f.time),
           CountsMatch(ts, a)
    PROVE  CountsMatch(us, b)
<1>1. PICK t, u, n : t = ts[i] /\ u = us[i] /\ n = Len(ts)
  OBVIOUS
<1>2. t.status = "open" /\ u.direction = t.direction /\ Len(us) = n
  BY <1>1 DEF Closes, Replaced
<1>3. SetsGain(ts, us, i, n) /\ Sorted(us, i, u)
  BY <1>1, <1>2, SetsReplaced
<1>4. n \in Nat
  BY <1>3 DEF SetsGain
<1>5. /\ a.completed = Cardinality(ClosedOf(ts)) /\ a.wins = Cardinality(WinsOf(ts))
      /\ a.losses = Cardinality(LossesOf(ts)) /\ a.rCount = Cardinality(RiskyOf(ts))
      /\ a.rWins = Cardinality(RWinsOf(ts))
      /\ a.rLosses = Cardinality(RLossesOf(ts))
  BY DEF CountsMatch
<1>6. /\ a.completed \in Nat /\ a.wins \in Nat /\ a.losses \in Nat /\ a.rCount \in Nat
      /\ a.rWins \in Nat /\ a.rLosses \in Nat
  <2>1. \A S \in SUBSET (1 .. n) : Cardinality(S) \in Nat
    <3>1. PICK j : j \notin 1 .. n
      <4>1. n + 1 \notin 1 .. n
        BY <1>4
      <4> QED BY <4>1
    <3>2. \A S \in SUBSET (1 .. n) : j \notin S /\ \A k : k # j => (k \in S <=> k \in S)
      BY <3>1
    <3> QED BY <1>4, <3>2, OneCounted
  <2> QED BY <1>3, <1>5, <2>1 DEF SetsGain, MayGain
<1>7. /\ i \in ClosedOf(us) => b.completed = a.completed + 1
      /\ i \notin ClosedOf(us) => b.completed = a.completed
      /\ i \in WinsOf(us) => b.wins = a.wins + 1
      /\ i \notin WinsOf(us) => b.wins = a.wins
      /\ i \in LossesOf(us) => b.losses = a.losses + 1
      /\ i \notin LossesOf(us) => b.losses = a.losses
  BY <1>1, <1>3, <1>6 DEF OutcomeBooked, If, Sorted
<1>8. /\ i \in RiskyOf(us) => b.rCount = a.rCount + 1
      /\ i \notin RiskyOf(us) => b.rCount = a.rCount
      /\ i \in RWinsOf(us) => b.rWins = a.rWins + 1
      /\ i \notin RWinsOf(us) => b.rWins = a.rWins
      /\ i \in RLossesOf(us) => b.rLosses = a.rLosses + 1
      /\ i \notin RLossesOf(us) => b.rLosses = a.rLosses
  <2>1. RealizedR(u) \in Int /\ (~HasRisk(u) => RealizedR(u) = 0)
    BY <1>1, RealizedRIs DEF Closes
  <2>2. /\ b.rCount = a.rCount + If(u.status = "closed" /\ HasRisk(u))
        /\ b.rWins = a.rWins + If(u.status = "closed" /\ RealizedR(u) > 0)
        /\ b.rLosses = a.rLosses + If(u.status = "closed" /\ RealizedR(u) < 0)
    BY <1>1 DEF OutcomeBooked
  <2>3. /\ i \in RiskyOf(us) <=> (u.status = "closed" /\ HasRisk(u))
        /\ i \in RWinsOf(us) <=> (u.status = "closed" /\ HasRisk(u) /\ RealizedR(u) > 0)
        /\ i \in RLossesOf(us) <=> (u.status = "closed" /\ HasRisk(u) /\ RealizedR(u) < 0)
    BY <1>3 DEF Sorted
  <2>4. RealizedR(u) > 0 \/ RealizedR(u) < 0 => HasRisk(u)
    BY <2>1
  <2>5. a.rCount \in Nat /\ a.rWins \in Nat /\ a.rLosses \in Nat
    BY <1>6
  <2> QED BY <2>2, <2>3, <2>4, <2>5 DEF If
<1>9. b.completed = Cardinality(ClosedOf(us))
  <2>1. MayGain(n, ClosedOf(ts), ClosedOf(us), i)
    BY <1>3 DEF SetsGain
  <2>2. /\ a.completed = Cardinality(ClosedOf(ts))
        /\ i \in ClosedOf(us) => b.completed = a.completed + 1
        /\ i \notin ClosedOf(us) => b.completed = a.completed
    BY <1>5, <1>7
  <2> QED BY ONLY <1>4, <2>1, <2>2, GainCounted
<1>10. b.wins = Cardinality(WinsOf(us))
  <2>1. MayGain(n, WinsOf(ts), WinsOf(us), i)
    BY <1>3 DEF SetsGain
  <2>2. /\ a.wins = Cardinality(WinsOf(ts))
        /\ i \in WinsOf(us) => b.wins = a.wins + 1
        /\ i \notin WinsOf(us) => b.wins = a.wins
    BY <1>5, <1>7
  <2> QED BY ONLY <1>4, <2>1, <2>2, GainCounted
<1>11. b.losses = Cardinality(LossesOf(us))
  <2>1. MayGain(n, LossesOf(ts), LossesOf(us), i)
    BY <1>3 DEF SetsGain
  <2>2. /\ a.losses = Cardinality(LossesOf(ts))
        /\ i \in LossesOf(us) => b.losses = a.losses + 1
        /\ i \notin LossesOf(us) => b.losses = a.losses
    BY <1>5, <1>7
  <2> QED BY ONLY <1>4, <2>1, <2>2, GainCounted
<1>12. b.rCount = Cardinality(RiskyOf(us))
  <2>1. MayGain(n, RiskyOf(ts), RiskyOf(us), i)
    BY <1>3 DEF SetsGain
  <2>2. /\ a.rCount = Cardinality(RiskyOf(ts))
        /\ i \in RiskyOf(us) => b.rCount = a.rCount + 1
        /\ i \notin RiskyOf(us) => b.rCount = a.rCount
    BY <1>5, <1>8
  <2> QED BY ONLY <1>4, <2>1, <2>2, GainCounted
<1>13. b.rWins = Cardinality(RWinsOf(us))
  <2>1. MayGain(n, RWinsOf(ts), RWinsOf(us), i)
    BY <1>3 DEF SetsGain
  <2>2. /\ a.rWins = Cardinality(RWinsOf(ts))
        /\ i \in RWinsOf(us) => b.rWins = a.rWins + 1
        /\ i \notin RWinsOf(us) => b.rWins = a.rWins
    BY <1>5, <1>8
  <2> QED BY ONLY <1>4, <2>1, <2>2, GainCounted
<1>14. b.rLosses = Cardinality(RLossesOf(us))
  <2>1. MayGain(n, RLossesOf(ts), RLossesOf(us), i)
    BY <1>3 DEF SetsGain
  <2>2. /\ a.rLosses = Cardinality(RLossesOf(ts))
        /\ i \in RLossesOf(us) => b.rLosses = a.rLosses + 1
        /\ i \notin RLossesOf(us) => b.rLosses = a.rLosses
    BY <1>5, <1>8
  <2> QED BY ONLY <1>4, <2>1, <2>2, GainCounted
<1>15. b.opened = Len(us)
  BY <1>1, <1>2 DEF CountsMatch
<1> QED BY <1>9, <1>10, <1>11, <1>12, <1>13, <1>14, <1>15 DEF CountsMatch

\* What a closing fill says of the exit is an exit.
LEMMA LeftByIsExit ==
    ASSUME NEW f \in Fill, f.reason # "entry"
    PROVE  LeftBy(f) \in Exit /\ LeftBy(f) # None /\ LeftBy(f).time = f.time
<1>1. LeftBy(f) \in Exit
  BY DEF LeftBy, Fill, Exit
<1> QED BY <1>1, NoneAssumption DEF LeftBy

\* A close keeps the sums.
LEMMA PnlsClosed ==
    ASSUME NEW ts, NEW us, NEW i, Replaced(ts, us, i), NEW f, Closes(i, ts[i], us[i], f),
           NEW a, NEW b, MoneyBooked(a, b, f, us[i].direction),
           OutcomeBooked(a, b, us[i], f.time), PnlsMatch(ts, a)
    PROVE  PnlsMatch(us, b)
<1>1. PICK t, u, n, v, w, x, y, p, q :
        /\ t = ts[i] /\ u = us[i] /\ n = Len(ts)
        /\ v = PnlsOf(ts) /\ w = PnlsOf(us) /\ x = HeldOf(ts) /\ y = HeldOf(us)
        /\ p = RsOf(ts) /\ q = RsOf(us)
  OBVIOUS
<1>2. /\ t.status = "open" /\ u.direction = t.direction /\ t \in Trade /\ u \in Trade
      /\ f \in Fill /\ f.reason # "entry" /\ u.realized = t.realized + f.net
      /\ u.exit = IF u.status = "closed" THEN LeftBy(f) ELSE t.exit
  BY <1>1 DEF Closes
<1>3. SetsGain(ts, us, i, n) /\ Sorted(us, i, u)
  BY <1>1, <1>2, SetsReplaced
<1>4. /\ ts \in Seq(Trade) /\ us \in Seq(Trade) /\ Len(us) = n /\ i \in 1 .. n
      /\ \A j \in 1 .. n : j # i => us[j] = ts[j]
  BY <1>1 DEF Replaced
<1>5. /\ v \in Seq(Int) /\ w \in Seq(Int) /\ x \in Seq(Int) /\ y \in Seq(Int)
      /\ Len(v) = n /\ Len(w) = n /\ Len(x) = n /\ Len(y) = n
      /\ p \in Seq(Int) /\ q \in Seq(Int) /\ Len(p) = n /\ Len(q) = n
      /\ \A j \in 1 .. n : /\ v[j] = ts[j].realized /\ w[j] = us[j].realized
                           /\ x[j] = Held(ts[j]) /\ y[j] = Held(us[j])
                           /\ p[j] = RealizedR(ts[j]) /\ q[j] = RealizedR(us[j])
  BY <1>1, <1>4, TradeColumns
<1>6. Changed(v, w, i) /\ Changed(x, y, i) /\ Changed(p, q, i)
  BY <1>4, <1>5 DEF Changed
<1>7. v[i] = t.realized /\ w[i] = u.realized /\ y[i] = Held(u) /\ q[i] = RealizedR(u)
  BY <1>1, <1>4, <1>5
<1>8. u.status = "closed" => y[i] = f.time - u.entryTime
  BY <1>2, <1>7, LeftByIsExit DEF Held
<1>9. /\ a.winPnl = SumOver(WinsOf(ts), v) /\ a.lossPnl = SumOver(LossesOf(ts), v)
      /\ a.longPnl = SumOver(LongOf(ts), v) /\ a.shortPnl = SumOver(DOMAIN ts \ LongOf(ts), v)
      /\ a.holding = SumOver(ClosedOf(ts), x)
      /\ a.rSum = SumOver(RiskyOf(ts), p) /\ a.rWinSum = SumOver(RWinsOf(ts), p)
      /\ a.rLossSum = SumOver(RLossesOf(ts), p)
  BY <1>1 DEF PnlsMatch
<1>10. /\ a.winPnl \in Int /\ a.lossPnl \in Int /\ a.holding \in Int
       /\ a.rSum \in Int /\ a.rWinSum \in Int /\ a.rLossSum \in Int
  BY <1>5, <1>9, SumType
<1>11. /\ i \in WinsOf(us) => b.winPnl = a.winPnl + w[i]
       /\ i \notin WinsOf(us) => b.winPnl = a.winPnl
       /\ i \in LossesOf(us) => b.lossPnl = a.lossPnl + w[i]
       /\ i \notin LossesOf(us) => b.lossPnl = a.lossPnl
       /\ i \in ClosedOf(us) => b.holding = a.holding + y[i]
       /\ i \notin ClosedOf(us) => b.holding = a.holding
  BY <1>1, <1>3, <1>7, <1>8, <1>10 DEF OutcomeBooked, Sorted
<1>12. b.winPnl = SumOver(WinsOf(us), w)
  BY <1>3, <1>6, <1>9, <1>11, GainSummed DEF SetsGain
<1>13. b.lossPnl = SumOver(LossesOf(us), w)
  BY <1>3, <1>6, <1>9, <1>11, GainSummed DEF SetsGain
<1>14. b.holding = SumOver(ClosedOf(us), y)
  BY <1>3, <1>6, <1>9, <1>11, GainSummed DEF SetsGain
<1>r. /\ i \in RiskyOf(us) => b.rSum = a.rSum + q[i]
      /\ i \notin RiskyOf(us) => b.rSum = a.rSum
      /\ i \in RWinsOf(us) => b.rWinSum = a.rWinSum + q[i]
      /\ i \notin RWinsOf(us) => b.rWinSum = a.rWinSum
      /\ i \in RLossesOf(us) => b.rLossSum = a.rLossSum + q[i]
      /\ i \notin RLossesOf(us) => b.rLossSum = a.rLossSum
  <2>1. RealizedR(u) \in Int /\ (~HasRisk(u) => RealizedR(u) = 0)
    BY <1>2, RealizedRIs
  <2>2. /\ b.rSum = a.rSum + IF u.status = "closed" THEN RealizedR(u) ELSE 0
        /\ b.rWinSum = a.rWinSum
                         + IF u.status = "closed" /\ RealizedR(u) > 0 THEN RealizedR(u) ELSE 0
        /\ b.rLossSum = a.rLossSum
                          + IF u.status = "closed" /\ RealizedR(u) < 0 THEN RealizedR(u) ELSE 0
    BY <1>1 DEF OutcomeBooked
  <2>3. /\ i \in RiskyOf(us) <=> (u.status = "closed" /\ HasRisk(u))
        /\ i \in RWinsOf(us) <=> (u.status = "closed" /\ HasRisk(u) /\ RealizedR(u) > 0)
        /\ i \in RLossesOf(us) <=> (u.status = "closed" /\ HasRisk(u) /\ RealizedR(u) < 0)
    BY <1>3 DEF Sorted
  <2>4. PICK r, risk, closed : r = RealizedR(u) /\ risk = HasRisk(u) /\ closed = (u.status = "closed")
    OBVIOUS
  <2> QED BY <1>7, <1>10, <2>1, <2>2, <2>3, <2>4
<1>g. /\ MayGain(n, RiskyOf(ts), RiskyOf(us), i) /\ MayGain(n, RWinsOf(ts), RWinsOf(us), i)
      /\ MayGain(n, RLossesOf(ts), RLossesOf(us), i)
  BY <1>3 DEF SetsGain
<1>s. b.rSum = SumOver(RiskyOf(us), q)
  BY ONLY <1>6, <1>9, <1>g, <1>r, GainSummed
<1>t. b.rWinSum = SumOver(RWinsOf(us), q)
  BY ONLY <1>6, <1>9, <1>g, <1>r, GainSummed
<1>u. b.rLossSum = SumOver(RLossesOf(us), q)
  BY ONLY <1>6, <1>9, <1>g, <1>r, GainSummed
<1>15. /\ b.longPnl = a.longPnl + IF t.direction = "long" THEN f.net ELSE 0
       /\ b.shortPnl = a.shortPnl + IF t.direction = "long" THEN 0 ELSE f.net
  BY <1>1, <1>2 DEF MoneyBooked
<1>16. PICK K, L, M, N : /\ K = LongOf(ts) /\ L = LongOf(us)
                         /\ M = DOMAIN ts \ LongOf(ts) /\ N = DOMAIN us \ LongOf(us)
  OBVIOUS
<1>17. /\ \A j : j \in L <=> j \in K
       /\ \A j : j \in N <=> j \in M
       /\ i \in K <=> t.direction = "long"
       /\ i \in M <=> t.direction # "long"
  BY <1>2, <1>3, <1>16 DEF SetsGain, Sorted
<1>18. b.longPnl = SumOver(L, w)
  <2>1. /\ SumOver(K, v) \in Int /\ v[i] \in Int /\ w[i] \in Int
        /\ i \in K => SumOver(L, w) = SumOver(K, v) - v[i] + w[i]
        /\ i \notin K => SumOver(L, w) = SumOver(K, v)
    BY <1>6, <1>17, PlacesSummed
  <2> QED BY <1>2, <1>7, <1>9, <1>15, <1>16, <1>17, <2>1, FillNumbers
<1>19. b.shortPnl = SumOver(N, w)
  <2>1. /\ SumOver(M, v) \in Int /\ v[i] \in Int /\ w[i] \in Int
        /\ i \in M => SumOver(N, w) = SumOver(M, v) - v[i] + w[i]
        /\ i \notin M => SumOver(N, w) = SumOver(M, v)
    BY <1>6, <1>17, PlacesSummed
  <2> QED BY <1>2, <1>7, <1>9, <1>15, <1>16, <1>17, <2>1, FillNumbers
<1> QED BY <1>1, <1>12, <1>13, <1>14, <1>16, <1>18, <1>19, <1>s, <1>t, <1>u DEF PnlsMatch

\* An entry books its money and one more trade.
LEMMA OpenIsBooked ==
    ASSUME NEW acc \in Accumulator, NEW i, NEW u, NEW f, Opens(i, u, f)
    PROVE  LET b == Book(acc, [fill |-> f, trade |-> u])
               opened == [acc EXCEPT !.opened = @ + 1]
           IN  /\ b = BookFill(opened, f, u.direction) /\ opened \in Accumulator
               /\ b \in Accumulator /\ b.opened = acc.opened + 1
               /\ MoneyBooked(acc, b, f, u.direction) /\ OutcomesKept(acc, b)
<1>1. PICK o : o = [acc EXCEPT !.opened = @ + 1]
  OBVIOUS
<1>2. o \in Accumulator /\ o.opened = acc.opened + 1
  BY <1>1 DEF Accumulator
<1>3. OutcomesKept(acc, o) /\ MoneyKept(acc, o)
  BY <1>1 DEF Accumulator, OutcomesKept, MoneyKept
<1>4. f \in Fill /\ f.reason = "entry" /\ u.status # "closed"
  BY DEF Opens
<1>5. PICK b : b = Book(acc, [fill |-> f, trade |-> u])
  OBVIOUS
<1>6. b = BookFill(o, f, u.direction)
  BY <1>1, <1>4, <1>5 DEF Book, If
<1>7. /\ b \in Accumulator /\ b.opened = o.opened /\ OutcomesKept(o, b)
      /\ MoneyBooked(o, b, f, u.direction)
  BY <1>2, <1>4, <1>6, BookFillIs DEF MoneyBooked
<1>8. PeakOf(o) = PeakOf(acc)
  BY <1>3 DEF PeakOf, MoneyKept
<1>9. MoneyBooked(acc, b, f, u.direction)
  BY <1>3, <1>7, <1>8 DEF MoneyBooked, MoneyKept
<1>10. OutcomesKept(acc, b)
  BY <1>3, <1>7 DEF OutcomesKept
<1> QED BY <1>1, <1>2, <1>5, <1>6, <1>7, <1>9, <1>10

\* The trades us are the trades ts with an open one more.
Enlarged(ts, us, u) ==
    /\ ts \in Seq(Trade) /\ us \in Seq(Trade) /\ Len(us) = Len(ts) + 1
    /\ us[Len(us)] = u /\ u.status = "open"
    /\ \A j \in 1 .. Len(ts) : us[j] = ts[j]

\* Two trades that the books do not tell apart.
SameTerms(t, u) ==
    \A f \in {"direction", "initial", "remaining", "status", "entryTime", "risk",
              "realized", "exit"} : u[f] = t[f]

\* The trades us are the trades ts, but for their levels and excursions.
Retermed(ts, us) ==
    /\ ts \in Seq(Trade) /\ us \in Seq(Trade) /\ Len(us) = Len(ts)
    /\ \A j \in 1 .. Len(ts) : SameTerms(ts[j], us[j])

\* The same trades are closed, won, lost, risked and long.
SetsSame(ts, us, n) ==
    /\ ClosedOf(us) = ClosedOf(ts) /\ WinsOf(us) = WinsOf(ts) /\ LossesOf(us) = LossesOf(ts)
    /\ RiskyOf(us) = RiskyOf(ts) /\ ClosedOf(ts) \subseteq 1 .. n
    /\ RWinsOf(us) = RWinsOf(ts) /\ RLossesOf(us) = RLossesOf(ts)
    /\ \A j \in 1 .. n : j \in LongOf(us) <=> j \in LongOf(ts)

\* Moving a level, or measuring a candle, changes none of these sets; nor does
\* an entry, but for the long trades.
LEMMA SetsKept ==
    ASSUME NEW ts, NEW us,
           (\E u : Enlarged(ts, us, u)) \/ Retermed(ts, us)
    PROVE  SetsSame(ts, us, Len(ts))
<1>1. /\ DOMAIN ts = 1 .. Len(ts) /\ DOMAIN us = 1 .. Len(us) /\ Len(ts) \in Nat
      /\ Len(us) = Len(ts) \/ (Len(us) = Len(ts) + 1 /\ us[Len(us)].status = "open")
      /\ \A j \in 1 .. Len(ts) : SameTerms(ts[j], us[j])
  BY DEF Enlarged, Retermed, SameTerms
<1>2. \A j \in 1 .. Len(ts) :
        /\ us[j].status = ts[j].status /\ us[j].realized = ts[j].realized
        /\ us[j].risk = ts[j].risk /\ us[j].direction = ts[j].direction
  BY <1>1 DEF SameTerms
<1>a. /\ \A j \in 1 .. Len(ts) : j \in DOMAIN us
      /\ \A j \in DOMAIN us : j \in 1 .. Len(ts) \/ us[j].status = "open"
  <2>1. CASE Len(us) = Len(ts)
    BY <1>1, <2>1
  <2>2. CASE Len(us) = Len(ts) + 1 /\ us[Len(us)].status = "open"
    <3>1. \A j \in DOMAIN us : j \in 1 .. Len(ts) \/ j = Len(us)
      BY <1>1, <2>2
    <3> QED BY <1>1, <2>2, <3>1
  <2> QED BY <1>1, <2>1, <2>2
<1>3. \A j : j \in ClosedOf(us) <=> j \in ClosedOf(ts)
  BY <1>1, <1>2, <1>a DEF ClosedOf
<1>4. ClosedOf(ts) \subseteq 1 .. Len(ts)
  BY <1>1 DEF ClosedOf
<1>5. \A j : j \in WinsOf(us) <=> j \in WinsOf(ts)
  BY <1>2, <1>3, <1>4 DEF WinsOf
<1>6. \A j : j \in LossesOf(us) <=> j \in LossesOf(ts)
  BY <1>2, <1>3, <1>4 DEF LossesOf
<1>7. \A j : j \in RiskyOf(us) <=> j \in RiskyOf(ts)
  BY <1>2, <1>3, <1>4 DEF RiskyOf, HasRisk
<1>8. \A j \in 1 .. Len(ts) : j \in LongOf(us) <=> j \in LongOf(ts)
  BY <1>1, <1>2, <1>a DEF LongOf
<1>9. ClosedOf(us) = ClosedOf(ts)
  BY <1>3, Zenon
<1>10. WinsOf(us) = WinsOf(ts)
  BY <1>5, Zenon
<1>11. LossesOf(us) = LossesOf(ts)
  BY <1>6, Zenon
<1>12. RiskyOf(us) = RiskyOf(ts)
  BY <1>7, Zenon
<1>13. \A j \in 1 .. Len(ts) : RealizedR(us[j]) = RealizedR(ts[j])
  BY <1>2 DEF RealizedR, HasRisk
<1>14. \A j : /\ j \in RWinsOf(us) <=> j \in RWinsOf(ts)
              /\ j \in RLossesOf(us) <=> j \in RLossesOf(ts)
  <2>1. RiskyOf(ts) \subseteq 1 .. Len(ts)
    BY <1>4 DEF RiskyOf
  <2> QED BY <1>7, <1>13, <2>1 DEF RWinsOf, RLossesOf
<1>15. RWinsOf(us) = RWinsOf(ts)
  BY <1>14, Zenon
<1>16. RLossesOf(us) = RLossesOf(ts)
  BY <1>14, Zenon
<1> QED BY <1>4, <1>8, <1>9, <1>10, <1>11, <1>12, <1>15, <1>16 DEF SetsSame

\* So the counts stay, but for that of the entries.
LEMMA CountsKept ==
    ASSUME NEW ts, NEW us, SetsSame(ts, us, Len(ts)), NEW a, NEW b, CountsMatch(ts, a),
           OutcomesKept(a, b), b.opened = Len(us)
    PROVE  CountsMatch(us, b)
BY DEF SetsSame, CountsMatch, OutcomesKept

\* An entry keeps the sums.
LEMMA PnlsOpened ==
    ASSUME NEW ts, NEW us, NEW i, NEW u, Enlarged(ts, us, u), i = Len(us),
           NEW f, Opens(i, u, f), NEW a, NEW b, MoneyBooked(a, b, f, u.direction),
           OutcomesKept(a, b), PnlsMatch(ts, a)
    PROVE  PnlsMatch(us, b)
<1>1. PICK n, v, w, x, y, p, q :
        /\ n = Len(ts)
        /\ v = PnlsOf(ts) /\ w = PnlsOf(us) /\ x = HeldOf(ts) /\ y = HeldOf(us)
        /\ p = RsOf(ts) /\ q = RsOf(us)
  OBVIOUS
<1>2. f \in Fill /\ u.realized = f.net /\ u.status = "open"
  BY DEF Opens
<1>3. /\ ts \in Seq(Trade) /\ us \in Seq(Trade) /\ Len(us) = n + 1 /\ n \in Nat /\ i = n + 1
      /\ us[i] = u /\ \A j \in 1 .. n : us[j] = ts[j]
      /\ DOMAIN ts = 1 .. n /\ DOMAIN us = 1 .. i
  BY <1>1 DEF Enlarged
<1>4. SetsSame(ts, us, n)
  BY <1>1, SetsKept
<1>5. /\ v \in Seq(Int) /\ w \in Seq(Int) /\ x \in Seq(Int) /\ y \in Seq(Int)
      /\ Len(v) = n /\ Len(w) = n + 1 /\ Len(x) = n /\ Len(y) = n + 1
      /\ p \in Seq(Int) /\ q \in Seq(Int) /\ Len(p) = n /\ Len(q) = n + 1
      /\ \A j \in 1 .. n : v[j] = ts[j].realized /\ x[j] = Held(ts[j]) /\ p[j] = RealizedR(ts[j])
      /\ \A j \in 1 .. n + 1 :
           w[j] = us[j].realized /\ y[j] = Held(us[j]) /\ q[j] = RealizedR(us[j])
  BY <1>1, <1>3, TradeColumns
<1>6. /\ \A j \in 1 .. n : w[j] = v[j] /\ y[j] = x[j] /\ q[j] = p[j]
      /\ w[i] = f.net
  <2>1. i \in 1 .. n + 1 /\ \A j \in 1 .. n : j \in 1 .. n + 1
    BY <1>3
  <2>2. ASSUME NEW j \in 1 .. n PROVE w[j] = v[j] /\ y[j] = x[j] /\ q[j] = p[j]
    <3>1. us[j] = ts[j]
      BY <1>3
    <3> QED BY <1>5, <2>1, <3>1
  <2>3. w[i] = us[i].realized
    BY <1>5, <2>1
  <2> QED BY <1>2, <1>3, <2>2, <2>3
<1>7. ASSUME NEW K, K \subseteq 1 .. n
      PROVE  /\ SumOver(K, w) = SumOver(K, v) /\ SumOver(K, y) = SumOver(K, x)
             /\ SumOver(K, q) = SumOver(K, p)
  <2>1. ASSUME NEW c \in Seq(Int), NEW d \in Seq(Int), Len(c) = n, Len(d) = n + 1,
               \A j \in 1 .. n : d[j] = c[j]
        PROVE  SumOver(K, d) = SumOver(K, c)
    <3>1. Alike(c, K, d, K, 1 .. Len(c))
      BY <2>1 DEF Alike
    <3>2. Len(d) \notin K /\ Len(d) = Len(c) + 1
      BY <1>3, <1>7, <2>1
    <3>3. SumOver(K, d) = SumOver(K, c) + (IF Len(d) \in K THEN d[Len(d)] ELSE 0)
      BY <2>1, <3>1, <3>2, SumOverAppended
    <3>4. SumOver(K, c) \in Int
      BY <2>1, SumType
    <3> QED BY <3>2, <3>3, <3>4
  <2> QED BY <1>5, <1>6, <2>1
<1>8. /\ b.winPnl = SumOver(WinsOf(us), w) /\ b.lossPnl = SumOver(LossesOf(us), w)
      /\ b.holding = SumOver(ClosedOf(us), y) /\ b.rSum = SumOver(RiskyOf(us), q)
      /\ b.rWinSum = SumOver(RWinsOf(us), q) /\ b.rLossSum = SumOver(RLossesOf(us), q)
  <2>1. /\ WinsOf(ts) \subseteq 1 .. n /\ LossesOf(ts) \subseteq 1 .. n /\ ClosedOf(ts) \subseteq 1 .. n
        /\ RiskyOf(ts) \subseteq 1 .. n /\ RWinsOf(ts) \subseteq 1 .. n /\ RLossesOf(ts) \subseteq 1 .. n
    BY <1>4 DEF SetsSame, WinsOf, LossesOf, RiskyOf, RWinsOf, RLossesOf
  <2>2. /\ SumOver(WinsOf(ts), w) = SumOver(WinsOf(ts), v)
        /\ SumOver(LossesOf(ts), w) = SumOver(LossesOf(ts), v)
        /\ SumOver(ClosedOf(ts), y) = SumOver(ClosedOf(ts), x)
        /\ SumOver(RiskyOf(ts), q) = SumOver(RiskyOf(ts), p)
        /\ SumOver(RWinsOf(ts), q) = SumOver(RWinsOf(ts), p)
        /\ SumOver(RLossesOf(ts), q) = SumOver(RLossesOf(ts), p)
    BY <1>7, <2>1
  <2>3. /\ b.winPnl = SumOver(WinsOf(ts), v) /\ b.lossPnl = SumOver(LossesOf(ts), v)
        /\ b.holding = SumOver(ClosedOf(ts), x) /\ b.rSum = SumOver(RiskyOf(ts), p)
        /\ b.rWinSum = SumOver(RWinsOf(ts), p) /\ b.rLossSum = SumOver(RLossesOf(ts), p)
    BY <1>1 DEF PnlsMatch, OutcomesKept
  <2> QED BY <1>4, <2>2, <2>3 DEF SetsSame
<1>9. PICK K, L, M, N : /\ K = LongOf(ts) /\ L = LongOf(us)
                        /\ M = DOMAIN ts \ LongOf(ts) /\ N = DOMAIN us \ LongOf(us)
  OBVIOUS
<1>10. /\ Alike(v, K, w, L, 1 .. Len(v)) /\ Alike(v, M, w, N, 1 .. Len(v))
       /\ Len(w) = Len(v) + 1
       /\ Len(w) \in L <=> u.direction = "long"
       /\ Len(w) \in N <=> u.direction # "long"
  <2>1. \A j \in 1 .. n : j \in L <=> j \in K
    BY <1>4, <1>9 DEF SetsSame
  <2>2. \A j \in 1 .. n : (j \in N <=> j \in M) /\ w[j] = v[j]
    BY <1>3, <1>6, <1>9, <2>1
  <2>3. i \in L <=> u.direction = "long"
    BY <1>3, <1>9 DEF LongOf
  <2>4. i \in N <=> u.direction # "long"
    BY <1>3, <1>9, <2>3
  <2> QED BY <1>3, <1>5, <2>1, <2>2, <2>3, <2>4 DEF Alike
<1>11. /\ SumOver(L, w) = SumOver(K, v) + IF Len(w) \in L THEN w[Len(w)] ELSE 0
       /\ SumOver(N, w) = SumOver(M, v) + IF Len(w) \in N THEN w[Len(w)] ELSE 0
  BY <1>5, <1>10, SumOverAppended
<1>12. /\ b.longPnl = a.longPnl + (IF u.direction = "long" THEN f.net ELSE 0)
       /\ b.shortPnl = a.shortPnl + (IF u.direction = "long" THEN 0 ELSE f.net)
       /\ a.longPnl = SumOver(K, v) /\ a.shortPnl = SumOver(M, v)
  BY <1>1, <1>9 DEF MoneyBooked, PnlsMatch
<1>13. w[Len(w)] = f.net
  BY <1>3, <1>5, <1>6
<1>14. b.longPnl = SumOver(L, w) /\ b.shortPnl = SumOver(N, w)
  BY <1>10, <1>11, <1>12, <1>13
<1> QED BY <1>1, <1>8, <1>9, <1>14 DEF PnlsMatch

\* Moved levels and excursions keep the sums.
LEMMA PnlsKept ==
    ASSUME NEW ts, NEW us, Retermed(ts, us), NEW a, PnlsMatch(ts, a)
    PROVE  PnlsMatch(us, a)
<1>1. PICK n, v, w, x, y, p, q :
        /\ n = Len(ts)
        /\ v = PnlsOf(ts) /\ w = PnlsOf(us) /\ x = HeldOf(ts) /\ y = HeldOf(us)
        /\ p = RsOf(ts) /\ q = RsOf(us)
  OBVIOUS
<1>2. /\ ts \in Seq(Trade) /\ us \in Seq(Trade) /\ Len(us) = n
      /\ \A j \in 1 .. n : SameTerms(ts[j], us[j])
      /\ DOMAIN ts = 1 .. n /\ DOMAIN us = 1 .. n
  BY <1>1 DEF Retermed
<1>3. SetsSame(ts, us, n)
  BY <1>1, SetsKept
<1>4. /\ v \in Seq(Int) /\ w \in Seq(Int) /\ x \in Seq(Int) /\ y \in Seq(Int)
      /\ Len(v) = n /\ Len(w) = n /\ Len(x) = n /\ Len(y) = n
      /\ p \in Seq(Int) /\ q \in Seq(Int) /\ Len(p) = n /\ Len(q) = n
      /\ \A j \in 1 .. n : v[j] = ts[j].realized /\ x[j] = Held(ts[j]) /\ p[j] = RealizedR(ts[j])
      /\ \A j \in 1 .. n : w[j] = us[j].realized /\ y[j] = Held(us[j]) /\ q[j] = RealizedR(us[j])
  BY <1>1, <1>2, TradeColumns
<1>5. \A j \in 1 .. n : w[j] = v[j] /\ y[j] = x[j] /\ q[j] = p[j]
  <2>1. ASSUME NEW t, NEW u, SameTerms(t, u)
        PROVE  u.realized = t.realized /\ Held(u) = Held(t) /\ RealizedR(u) = RealizedR(t)
    BY <2>1 DEF SameTerms, Held, RealizedR, HasRisk
  <2>2. ASSUME NEW j \in 1 .. n PROVE w[j] = v[j] /\ y[j] = x[j] /\ q[j] = p[j]
    <3>1. /\ us[j].realized = ts[j].realized /\ Held(us[j]) = Held(ts[j])
          /\ RealizedR(us[j]) = RealizedR(ts[j])
      BY <1>2, <2>1
    <3> QED BY <1>4, <3>1
  <2> QED BY <2>2
<1>6. ASSUME NEW K
      PROVE  /\ SumOver(K, w) = SumOver(K, v) /\ SumOver(K, y) = SumOver(K, x)
             /\ SumOver(K, q) = SumOver(K, p)
  <2>1. /\ Alike(v, K, w, K, 1 .. Len(v)) /\ Alike(x, K, y, K, 1 .. Len(x))
        /\ Alike(p, K, q, K, 1 .. Len(p))
    BY <1>4, <1>5 DEF Alike
  <2>2. Len(w) = Len(v) /\ Len(y) = Len(x) /\ Len(q) = Len(p)
    BY <1>4
  <2> QED BY <1>4, <2>1, <2>2, SumOverSame
<1>7. LongOf(us) = LongOf(ts) /\ DOMAIN us \ LongOf(us) = DOMAIN ts \ LongOf(ts)
  <2>1. \A j : j \in LongOf(us) <=> j \in LongOf(ts)
    BY <1>2, <1>3 DEF SetsSame, LongOf
  <2>2. LongOf(us) = LongOf(ts)
    BY <2>1, Zenon
  <2> QED BY <1>2, <2>2
<1>8. /\ WinsOf(us) = WinsOf(ts) /\ LossesOf(us) = LossesOf(ts) /\ ClosedOf(us) = ClosedOf(ts)
      /\ RiskyOf(us) = RiskyOf(ts) /\ RWinsOf(us) = RWinsOf(ts) /\ RLossesOf(us) = RLossesOf(ts)
  BY <1>3 DEF SetsSame
<1>9. /\ a.winPnl = SumOver(WinsOf(us), w) /\ a.lossPnl = SumOver(LossesOf(us), w)
      /\ a.longPnl = SumOver(LongOf(us), w) /\ a.shortPnl = SumOver(DOMAIN us \ LongOf(us), w)
  BY <1>1, <1>6, <1>7, <1>8 DEF PnlsMatch
<1>10. a.holding = SumOver(ClosedOf(us), y)
  BY <1>1, <1>6, <1>8 DEF PnlsMatch
<1>11. /\ a.rSum = SumOver(RiskyOf(us), q) /\ a.rWinSum = SumOver(RWinsOf(us), q)
       /\ a.rLossSum = SumOver(RLossesOf(us), q)
  BY <1>1, <1>6, <1>8 DEF PnlsMatch
<1> QED BY <1>1, <1>9, <1>10, <1>11 DEF PnlsMatch

-----------------------------------------------------------------------------
(* The figures that come from the ledger *)

\* The balances b, m of them after the first, have the peak p and the greatest
\* drawdown d.
PathIs(b, m, p, d) ==
    /\ p \in Int /\ d \in Int
    /\ \A k \in 0 .. m : b[k] \in Int /\ b[k] <= p
    /\ \E k \in 0 .. m : b[k] = p
    /\ \A j, k \in 0 .. m : j <= k => b[j] - b[k] <= d
    /\ \E j, k \in 0 .. m : j <= k /\ b[j] - b[k] = d

\* One balance more.
LEMMA PathGrows ==
    ASSUME NEW m \in Nat, NEW b, NEW c, NEW p, NEW d, PathIs(b, m, p, d),
           NEW e \in Int, c[m + 1] = e, \A k \in 0 .. m : c[k] = b[k]
    PROVE  PathIs(c, m + 1, Greater(p, e), Greater(d, Greater(p, e) - e))
<1>1. /\ p \in Int /\ d \in Int
      /\ \A k \in 0 .. m : b[k] \in Int /\ b[k] <= p
      /\ \A j, k \in 0 .. m : j <= k => b[j] - b[k] <= d
  BY DEF PathIs
<1>2. PICK i \in 0 .. m : b[i] = p
  BY DEF PathIs
<1>3. PICK l \in 0 .. m, n \in 0 .. m : l <= n /\ b[l] - b[n] = d
  BY DEF PathIs
<1>4. PICK q : q = Greater(p, e)
  OBVIOUS
<1>5. PICK g : g = Greater(d, q - e)
  OBVIOUS
<1>6. /\ q \in Int /\ g \in Int /\ p <= q /\ e <= q /\ (q = p \/ q = e)
      /\ d <= g /\ q - e <= g /\ (g = d \/ g = q - e)
  BY <1>1, <1>4, <1>5 DEF Greater
<1>7. PICK z : z = m + 1
  OBVIOUS
<1>8. /\ \A k \in 0 .. m : k \in 0 .. z /\ c[k] = b[k] /\ k < z
      /\ \A k \in 0 .. z : k \in 0 .. m \/ k = z
      /\ z \in 0 .. z /\ c[z] = e
  BY <1>7
<1>9. \A k \in 0 .. z : c[k] \in Int /\ c[k] <= q
  BY <1>1, <1>6, <1>8
<1>10. \E k \in 0 .. z : c[k] = q
  BY <1>2, <1>6, <1>8
<1>11. ASSUME NEW j \in 0 .. z, NEW k \in 0 .. z, j <= k PROVE c[j] - c[k] <= g
  <2>1. CASE k = z
    <3>1. c[j] \in Int /\ c[j] <= q
      BY <1>9
    <3> QED BY <1>6, <1>8, <2>1, <3>1
  <2>2. CASE k # z
    <3>1. k \in 0 .. m /\ j \in 0 .. m
      BY <1>7, <1>8, <1>11, <2>2
    <3>2. /\ c[j] = b[j] /\ c[k] = b[k] /\ b[j] \in Int /\ b[k] \in Int /\ b[j] - b[k] <= d
      BY <1>1, <1>8, <1>11, <3>1
    <3> QED BY <1>1, <1>6, <3>2
  <2> QED BY <2>1, <2>2
<1>12. \E j, k \in 0 .. z : j <= k /\ c[j] - c[k] = g
  <2>1. CASE g = d
    <3>1. l \in 0 .. z /\ n \in 0 .. z /\ c[l] - c[n] = g
      BY <1>3, <1>8, <2>1
    <3> QED BY <1>3, <3>1
  <2>2. CASE g = q - e
    <3>1. PICK k \in 0 .. z : c[k] = q
      BY <1>10
    <3>2. k <= z
      BY <1>7
    <3> QED BY <1>8, <2>2, <3>1, <3>2
  <2> QED BY <1>6, <2>1, <2>2
<1>13. PathIs(c, z, q, g)
  BY <1>6, <1>9, <1>10, <1>11, <1>12 DEF PathIs
<1> QED BY <1>4, <1>5, <1>7, <1>13

\* The balance after every fill.
BalanceAfter(fs, k) == InitialBalance + RunningSums(NetsOf(fs))[k]
BalancesOf(fs) == [k \in 0 .. Len(fs) |-> BalanceAfter(fs, k)]

\* What the books say of the ledger.
FillsMatch(fs, acc) ==
    /\ acc.gross = SumOf(GrossesOf(fs)) /\ acc.net = SumOf(NetsOf(fs))
    /\ acc.costs = acc.gross - acc.net
    /\ PathIs(BalancesOf(fs), Len(fs), PeakOf(acc), acc.drawdown)

\* A fill keeps it so.
LEMMA FillsBooked ==
    ASSUME NEW fs, NEW gs, NEW f, Extended(fs, gs, f), NEW a \in Accumulator,
           NEW b \in Accumulator, NEW direction, MoneyBooked(a, b, f, direction), FillsMatch(fs, a)
    PROVE  FillsMatch(gs, b)
<1>1. PICK n, v, w, x, y :
        /\ n = Len(fs) /\ v = NetsOf(fs) /\ w = NetsOf(gs)
        /\ x = GrossesOf(fs) /\ y = GrossesOf(gs)
  OBVIOUS
<1>2. /\ fs \in Seq(Fill) /\ gs \in Seq(Fill) /\ f \in Fill /\ n \in Nat
      /\ Len(gs) = n + 1 /\ gs[n + 1] = f /\ \A k \in 1 .. n : gs[k] = fs[k]
  BY <1>1 DEF Extended
<1>3. /\ v \in Seq(Int) /\ w \in Seq(Int) /\ x \in Seq(Int) /\ y \in Seq(Int)
      /\ Len(v) = n /\ Len(w) = n + 1 /\ Len(x) = n /\ Len(y) = n + 1
      /\ \A k \in 1 .. n : v[k] = fs[k].net /\ x[k] = fs[k].gross
      /\ \A k \in 1 .. n + 1 : w[k] = gs[k].net /\ y[k] = gs[k].gross
  BY <1>1, <1>2, ColumnsType
<1>4. /\ \A k \in 1 .. n : w[k] = v[k]
      /\ \A k \in 1 .. n : y[k] = x[k]
      /\ w[n + 1] = f.net /\ y[n + 1] = f.gross
  <2>1. n + 1 \in 1 .. n + 1 /\ \A k \in 1 .. n : k \in 1 .. n + 1
    BY <1>2
  <2>2. ASSUME NEW k \in 1 .. n PROVE w[k] = v[k] /\ y[k] = x[k]
    <3>1. gs[k] = fs[k]
      BY <1>2
    <3> QED BY <1>3, <2>1, <3>1
  <2>3. w[n + 1] = gs[n + 1].net /\ y[n + 1] = gs[n + 1].gross
    BY <1>3, <2>1
  <2> QED BY <1>2, <2>2, <2>3
<1>5. SumOf(w) = SumOf(v) + f.net /\ \A k \in 0 .. n : RunningSums(w)[k] = RunningSums(v)[k]
  <2>1. Len(w) = Len(v) + 1 /\ \A k \in 1 .. Len(v) : w[k] = v[k]
    BY <1>3, <1>4
  <2>2. /\ SumOf(w) = SumOf(v) + w[Len(w)]
        /\ \A k \in 0 .. Len(v) : RunningSums(w)[k] = RunningSums(v)[k]
    BY <1>3, <2>1, SumAppended
  <2> QED BY <1>3, <1>4, <2>2
<1>6. SumOf(y) = SumOf(x) + f.gross
  <2>1. Len(y) = Len(x) + 1 /\ \A k \in 1 .. Len(x) : y[k] = x[k]
    BY <1>3, <1>4
  <2>2. SumOf(y) = SumOf(x) + y[Len(y)]
    BY <1>3, <2>1, SumAppended
  <2> QED BY <1>3, <1>4, <2>2
<1>7. /\ a.gross = SumOf(x) /\ a.net = SumOf(v) /\ a.costs = a.gross - a.net
      /\ PathIs(BalancesOf(fs), n, PeakOf(a), a.drawdown)
  BY <1>1 DEF FillsMatch
<1>8. /\ a.gross \in Int /\ a.net \in Int /\ f.net \in Int /\ f.gross \in Int
      /\ InitialBalance \in Int /\ b.peak \in Int \cup {None}
  BY <1>2, FillNumbers, CostsAssumption DEF Accumulator
<1>9. /\ b.gross = a.gross + f.gross /\ b.net = a.net + f.net
      /\ b.costs = a.costs + (f.gross - f.net)
      /\ b.peak = Greater(PeakOf(a), InitialBalance + a.net + f.net)
      /\ b.drawdown = Greater(a.drawdown, b.peak - (InitialBalance + a.net + f.net))
  BY DEF MoneyBooked
<1>10. b.gross = SumOf(y) /\ b.net = SumOf(w) /\ b.costs = b.gross - b.net
  BY <1>5, <1>6, <1>7, <1>8, <1>9
<1>11. PICK B, C, e : B = BalancesOf(fs) /\ C = BalancesOf(gs) /\ e = InitialBalance + a.net + f.net
  OBVIOUS
<1>12. e \in Int
  BY <1>8, <1>11
<1>13. /\ \A k \in 0 .. n : B[k] = InitialBalance + RunningSums(v)[k]
       /\ \A k \in 0 .. n + 1 : C[k] = InitialBalance + RunningSums(w)[k]
  BY <1>1, <1>2, <1>11 DEF BalancesOf, BalanceAfter
<1>14. \A k \in 0 .. n : C[k] = B[k]
  <2>1. \A k \in 0 .. n : k \in 0 .. n + 1
    BY <1>2
  <2> QED BY <1>5, <1>13, <2>1
<1>15. C[n + 1] = e
  <2>1. n + 1 \in 0 .. n + 1
    BY <1>2
  <2>2. C[n + 1] = InitialBalance + SumOf(w)
    BY <1>3, <1>13, <2>1 DEF SumOf
  <2> QED BY <1>8, <1>9, <1>10, <1>11, <2>2
<1>16. PICK p, d : p = PeakOf(a) /\ d = a.drawdown
  OBVIOUS
<1>17. PathIs(B, n, p, d)
  BY <1>7, <1>11, <1>16
<1>18. PathIs(C, n + 1, Greater(p, e), Greater(d, Greater(p, e) - e))
  BY <1>2, <1>12, <1>14, <1>15, <1>17, PathGrows
<1>19. PeakOf(b) = Greater(p, e) /\ b.drawdown = Greater(d, Greater(p, e) - e)
  <2>1. b.peak = Greater(p, e)
    BY <1>9, <1>11, <1>16
  <2>2. b.peak # None
    <3>1. b.peak \in Int
      BY <1>12, <1>17, <2>1 DEF Greater, PathIs
    <3> QED BY <3>1, NoneAssumption
  <2> QED BY <1>9, <1>11, <1>16, <2>1, <2>2 DEF PeakOf
<1>20. PathIs(C, n + 1, PeakOf(b), b.drawdown)
  BY <1>18, <1>19
<1> QED BY <1>1, <1>2, <1>10, <1>11, <1>20 DEF FillsMatch

-----------------------------------------------------------------------------
(* The accumulator rebuilt from the ledger *)

\* The accumulators that the rebuild passes through.
Rebuilding(ts, fs, r) ==
    /\ r \in [0 .. Len(fs) -> Accumulator]
    /\ r[0] = [EmptyAccumulator EXCEPT !.opened = Len(ts)]
    /\ \A k \in 1 .. Len(fs) : r[k] = Rebook(r[k - 1], ts, fs, k)

Rebuilds(ts, fs, acc) == \E r : Rebuilding(ts, fs, r) /\ r[Len(fs)] = acc

\* The rebuild ends with the last of them.
LEMMA RebuiltIs ==
    ASSUME NEW ts, NEW fs \in Seq(Fill), NEW acc, Rebuilds(ts, fs, acc)
    PROVE  AccumulatorFromHistory(ts, fs) = acc
<1> DEFINE Start == [EmptyAccumulator EXCEPT !.opened = Len(ts)]
           Run(g) == g = [k \in 0 .. Len(fs) |->
                            IF k = 0 THEN Start ELSE Rebook(g[k - 1], ts, fs, k)]
<1>1. PICK r : Rebuilding(ts, fs, r) /\ r[Len(fs)] = acc
  BY DEF Rebuilds
<1>2. Len(fs) \in Nat
  OBVIOUS
<1>3. Run(r)
  <2>1. \A k \in 0 .. Len(fs) : r[k] = IF k = 0 THEN Start ELSE Rebook(r[k - 1], ts, fs, k)
    BY <1>1, <1>2 DEF Rebuilding
  <2>2. r \in [0 .. Len(fs) -> Accumulator]
    BY <1>1 DEF Rebuilding
  <2> HIDE DEF Start
  <2> QED BY <2>1, <2>2
<1>4. AccumulatorFromHistory(ts, fs) = (CHOOSE g : Run(g))[Len(fs)]
  BY DEF AccumulatorFromHistory
<1>5. PICK s : s = CHOOSE g : Run(g)
  OBVIOUS
<1>6. Run(s)
  <2> HIDE DEF Run
  <2> QED BY <1>3, <1>5
<1> HIDE DEF Start
<1>7. /\ \A k \in 0 .. Len(fs) : s[k] = IF k = 0 THEN Start ELSE Rebook(s[k - 1], ts, fs, k)
      /\ \A k \in 0 .. Len(fs) : r[k] = IF k = 0 THEN Start ELSE Rebook(r[k - 1], ts, fs, k)
  BY <1>3, <1>6
<1>8. PICK n : n = Len(fs)
  OBVIOUS
<1>9. n \in Nat /\ StepsAlike(s, r, n)
  BY <1>2, <1>7, <1>8 DEF StepsAlike
<1>10. \A k \in 0 .. n : s[k] = r[k]
  BY <1>9, StepwiseSame
<1> QED BY <1>1, <1>4, <1>5, <1>8, <1>9, <1>10

\* An operation books its fills one after another.
LEMMA BookAllIs ==
    ASSUME NEW acc, NEW bookings, Len(bookings) \in Nat, NEW r,
           r \in [0 .. Len(bookings) -> Accumulator], r[0] = acc,
           \A k \in 1 .. Len(bookings) : r[k] = Book(r[k - 1], bookings[k])
    PROVE  BookAll(acc, bookings) = r[Len(bookings)]
<1> DEFINE Run(g) == g = [k \in 0 .. Len(bookings) |->
                            IF k = 0 THEN acc ELSE Book(g[k - 1], bookings[k])]
<1>1. Run(r)
  <2>1. \A k \in 0 .. Len(bookings) : r[k] = IF k = 0 THEN acc ELSE Book(r[k - 1], bookings[k])
    OBVIOUS
  <2> QED BY <2>1
<1>2. BookAll(acc, bookings) = (CHOOSE g : Run(g))[Len(bookings)]
  BY DEF BookAll
<1>3. PICK s : s = CHOOSE g : Run(g)
  OBVIOUS
<1>4. Run(s)
  <2> HIDE DEF Run
  <2> QED BY <1>1, <1>3
<1>5. /\ \A k \in 0 .. Len(bookings) : s[k] = IF k = 0 THEN acc ELSE Book(s[k - 1], bookings[k])
      /\ \A k \in 0 .. Len(bookings) : r[k] = IF k = 0 THEN acc ELSE Book(r[k - 1], bookings[k])
  BY <1>1, <1>4
<1>6. PICK n : n = Len(bookings)
  OBVIOUS
<1>7. n \in Nat /\ StepsAlike(s, r, n)
  BY <1>5, <1>6 DEF StepsAlike
<1>8. \A k \in 0 .. n : s[k] = r[k]
  BY <1>7, StepwiseSame
<1> QED BY <1>2, <1>3, <1>6, <1>7, <1>8

\* Booking a fill again comes to the same when what the booking reads does.
LEMMA RebookAgrees ==
    ASSUME NEW a, NEW ts, NEW us, NEW fs, NEW gs, NEW k, gs[k] = fs[k],
           NEW i, i = fs[k].trade, NEW t, t = ts[i], NEW u, u = us[i],
           u.direction = t.direction,
           (u.status = "closed" /\ k = LastFill(gs, i)) <=>
             (t.status = "closed" /\ k = LastFill(fs, i)),
           t.status = "closed" =>
             u.realized = t.realized /\ u.risk = t.risk /\ u.entryTime = t.entryTime
    PROVE  Rebook(a, us, gs, k) = Rebook(a, ts, fs, k)
<1>1. PICK f, x : f = fs[k] /\ x = BookFill(a, f, t.direction)
  OBVIOUS
<1>2. CASE t.status = "closed" /\ k = LastFill(fs, i)
  <2>1. BookTradeClose(x, u, f.time) = BookTradeClose(x, t, f.time)
    <3>1. u.realized = t.realized /\ u.risk = t.risk /\ u.entryTime = t.entryTime
      BY <1>2
    <3>2. PICK pnl, hasRisk, r, entered :
            /\ pnl = t.realized /\ hasRisk = HasRisk(t) /\ r = RealizedR(t)
            /\ entered = t.entryTime
      OBVIOUS
    <3>4. HasRisk(u) = hasRisk /\ RealizedR(u) = r
      BY <3>1, <3>2 DEF RealizedR, HasRisk
    <3>3. \A v : /\ v.realized = pnl /\ HasRisk(v) = hasRisk /\ RealizedR(v) = r
                /\ v.entryTime = entered =>
            BookTradeClose(x, v, f.time) =
              [x EXCEPT !.completed = @ + 1,
                        !.wins = @ + If(pnl > 0), !.winPnl = @ + If(pnl > 0) * pnl,
                        !.losses = @ + If(pnl < 0), !.lossPnl = @ + If(pnl < 0) * pnl,
                        !.rCount = @ + If(hasRisk), !.rSum = @ + r,
                        !.rWins = @ + If(r > 0), !.rWinSum = @ + If(r > 0) * r,
                        !.rLosses = @ + If(r < 0), !.rLossSum = @ + If(r < 0) * r,
                        !.holding = @ + (f.time - entered)]
      BY DEF BookTradeClose
    <3> QED BY <3>1, <3>2, <3>3, <3>4
  <2> QED BY <1>1, <1>2, <2>1 DEF Rebook
<1>3. CASE ~(t.status = "closed" /\ k = LastFill(fs, i))
  BY <1>1, <1>3 DEF Rebook
<1> QED BY <1>2, <1>3

\* The last fill of every trade, in the longer ledger.
LEMMA LastFillIs ==
    ASSUME NEW fs, NEW gs, NEW f, Extended(fs, gs, f)
    PROVE  /\ \A i : f.trade # i => LastFill(gs, i) = LastFill(fs, i)
           /\ LastFill(gs, f.trade) = Len(gs)
<1>1. ASSUME NEW i, f.trade # i PROVE LastFill(gs, i) = LastFill(fs, i)
  <2>1. Mine(gs, i) = Mine(fs, i)
    BY <1>1, MineExtended
  <2> QED BY <2>1 DEF LastFill, Mine
<1>2. LastFill(gs, f.trade) = Len(gs)
  <2>1. PICK i : i = f.trade
    OBVIOUS
  <2>2. PICK M, n : M = Mine(gs, i) /\ n = Len(gs)
    OBVIOUS
  <2>3. /\ M = Mine(fs, i) \cup {n} /\ Mine(fs, i) \subseteq 1 .. Len(fs) /\ n \in Nat
        /\ \A k \in 1 .. Len(fs) : k < n
    BY <2>1, <2>2, MineExtended
  <2>4. M \in SUBSET Int /\ n \in M /\ \A k \in M : k <= n
    BY <2>3
  <2>5. Max(M) = n
    BY <2>4, MaxIs
  <2> QED BY <2>1, <2>2, <2>5 DEF LastFill, Mine
<1> QED BY <1>1, <1>2

\* Two accumulators with the same figures are the same.
LEMMA SameFigures ==
    ASSUME NEW a \in Accumulator, NEW b \in Accumulator, b.opened = a.opened,
           MoneyKept(a, b), OutcomesKept(a, b)
    PROVE  b = a
BY DEF Accumulator, MoneyKept, OutcomesKept

\* One trade more has been opened.
Opened(a) == [a EXCEPT !.opened = @ + 1]

\* Nothing but that number changes.
LEMMA OpenedIs ==
    ASSUME NEW a \in Accumulator
    PROVE  /\ Opened(a) \in Accumulator /\ Opened(a).opened = a.opened + 1
           /\ MoneyKept(a, Opened(a)) /\ OutcomesKept(a, Opened(a))
           /\ PeakOf(Opened(a)) = PeakOf(a)
<1>1. PICK o : o = Opened(a)
  OBVIOUS
<1>2. o \in Accumulator /\ o.opened = a.opened + 1
  BY <1>1 DEF Accumulator, Opened
<1>3. MoneyKept(a, o)
  BY <1>1 DEF Accumulator, Opened, MoneyKept
<1>4. OutcomesKept(a, o)
  BY <1>1 DEF Accumulator, Opened, OutcomesKept
<1> QED BY <1>1, <1>2, <1>3, <1>4 DEF PeakOf, MoneyKept

\* Counting a trade before or after a fill is booked comes to the same;
LEMMA FillCommutes ==
    ASSUME NEW a \in Accumulator, NEW f \in Fill, NEW direction
    PROVE  BookFill(Opened(a), f, direction) = Opened(BookFill(a, f, direction))
<1>1. PICK o, x, y, z : /\ o = Opened(a) /\ x = BookFill(o, f, direction)
                        /\ y = BookFill(a, f, direction) /\ z = Opened(y)
  OBVIOUS
<1>2. /\ o \in Accumulator /\ o.opened = a.opened + 1 /\ MoneyKept(a, o) /\ OutcomesKept(a, o)
      /\ PeakOf(o) = PeakOf(a)
  BY <1>1, OpenedIs
<1>3. /\ x \in Accumulator /\ x.opened = o.opened /\ OutcomesKept(o, x)
      /\ MoneyBooked(o, x, f, direction)
  BY <1>1, <1>2, BookFillIs DEF MoneyBooked
<1>4. /\ y \in Accumulator /\ y.opened = a.opened /\ OutcomesKept(a, y)
      /\ MoneyBooked(a, y, f, direction)
  BY <1>1, BookFillIs DEF MoneyBooked
<1>5. /\ z \in Accumulator /\ z.opened = y.opened + 1 /\ MoneyKept(y, z) /\ OutcomesKept(y, z)
  BY <1>1, <1>4, OpenedIs
<1>6. MoneyKept(z, x)
  <2>1. /\ x.gross = y.gross /\ x.net = y.net /\ x.costs = y.costs
        /\ x.longPnl = y.longPnl /\ x.shortPnl = y.shortPnl
        /\ x.peak = y.peak
    BY <1>2, <1>3, <1>4 DEF MoneyBooked, MoneyKept
  <2>2. x.drawdown = y.drawdown
    BY <1>2, <1>3, <1>4, <2>1 DEF MoneyBooked, MoneyKept
  <2> QED BY <1>5, <2>1, <2>2 DEF MoneyKept
<1>7. OutcomesKept(z, x)
  BY <1>2, <1>3, <1>4, <1>5 DEF OutcomesKept
<1>8. x = z
  BY <1>2, <1>3, <1>4, <1>5, <1>6, <1>7, SameFigures
<1> QED BY <1>1, <1>8

\* so it does before or after the outcome of a trade is booked,
LEMMA CloseCommutes ==
    ASSUME NEW a \in Accumulator, NEW t \in Trade, NEW at \in Nat
    PROVE  BookTradeClose(Opened(a), t, at) = Opened(BookTradeClose(a, t, at))
<1> DEFINE Booked(b, c) ==
             /\ c.completed = b.completed + 1
             /\ c.wins = b.wins + If(t.realized > 0) /\ c.losses = b.losses + If(t.realized < 0)
             /\ c.winPnl = b.winPnl + IF t.realized > 0 THEN t.realized ELSE 0
             /\ c.lossPnl = b.lossPnl + IF t.realized < 0 THEN t.realized ELSE 0
             /\ c.rCount = b.rCount + If(HasRisk(t))
             /\ c.rSum = b.rSum + RealizedR(t)
             /\ c.rWins = b.rWins + If(RealizedR(t) > 0)
             /\ c.rWinSum = b.rWinSum + IF RealizedR(t) > 0 THEN RealizedR(t) ELSE 0
             /\ c.rLosses = b.rLosses + If(RealizedR(t) < 0)
             /\ c.rLossSum = b.rLossSum + IF RealizedR(t) < 0 THEN RealizedR(t) ELSE 0
             /\ c.holding = b.holding + (at - t.entryTime)
<1>1. PICK o, x, y, z : /\ o = Opened(a) /\ x = BookTradeClose(o, t, at)
                        /\ y = BookTradeClose(a, t, at) /\ z = Opened(y)
  OBVIOUS
<1>2. o \in Accumulator /\ o.opened = a.opened + 1 /\ MoneyKept(a, o) /\ OutcomesKept(a, o)
  BY <1>1, OpenedIs
<1>3. x \in Accumulator /\ x.opened = o.opened /\ MoneyKept(o, x) /\ Booked(o, x)
  BY <1>1, <1>2, BookTradeCloseIs
<1>4. y \in Accumulator /\ y.opened = a.opened /\ MoneyKept(a, y) /\ Booked(a, y)
  BY <1>1, BookTradeCloseIs
<1>5. z \in Accumulator /\ z.opened = y.opened + 1 /\ MoneyKept(y, z) /\ OutcomesKept(y, z)
  BY <1>1, <1>4, OpenedIs
<1>6. OutcomesKept(z, x)
  <2>1. /\ x.completed = y.completed /\ x.wins = y.wins /\ x.losses = y.losses
        /\ x.winPnl = y.winPnl /\ x.lossPnl = y.lossPnl
    BY <1>2, <1>3, <1>4 DEF OutcomesKept
  <2>2. /\ x.rCount = y.rCount /\ x.rWins = y.rWins /\ x.rLosses = y.rLosses
        /\ x.rSum = y.rSum /\ x.rWinSum = y.rWinSum /\ x.rLossSum = y.rLossSum
        /\ x.holding = y.holding
    BY <1>2, <1>3, <1>4 DEF OutcomesKept
  <2> QED BY <1>5, <2>1, <2>2 DEF OutcomesKept
<1>7. MoneyKept(z, x)
  BY <1>2, <1>3, <1>4, <1>5 DEF MoneyKept
<1>8. x = z
  BY <1>2, <1>3, <1>4, <1>5, <1>6, <1>7, SameFigures
<1> QED BY <1>1, <1>8

\* and before or after the rebuild has booked a fill.
LEMMA RebookCommutes ==
    ASSUME NEW a \in Accumulator, NEW ts \in Seq(Trade), NEW fs \in Seq(Fill),
           NEW k \in 1 .. Len(fs), fs[k].trade \in DOMAIN ts
    PROVE  Rebook(Opened(a), ts, fs, k) = Opened(Rebook(a, ts, fs, k))
<1>1. PICK f, t : f = fs[k] /\ t = ts[f.trade]
  OBVIOUS
<1>2. f \in Fill /\ t \in Trade
  BY <1>1
<1>3. f.time \in Nat
  BY <1>2 DEF Fill
<1>4. PICK x : x = BookFill(a, f, t.direction)
  OBVIOUS
<1>5. x \in Accumulator /\ BookFill(Opened(a), f, t.direction) = Opened(x)
  BY <1>2, <1>4, BookFillIs, FillCommutes
<1>6. BookTradeClose(Opened(x), t, f.time) = Opened(BookTradeClose(x, t, f.time))
  BY <1>2, <1>3, <1>5, CloseCommutes
<1> QED BY <1>1, <1>4, <1>5, <1>6 DEF Rebook

\* Every fill is a fill of some trade.
FillsOwned(ts, fs) == \A k \in 1 .. Len(fs) : fs[k].trade \in 1 .. Len(ts)

\* A close is rebuilt as it was booked.
LEMMA RebuildsClosed ==
    ASSUME NEW ts, NEW us, NEW i, Replaced(ts, us, i), NEW fs, NEW gs, NEW f,
           Extended(fs, gs, f), NEW u, u = us[i], Closes(i, ts[i], u, f), FillsOwned(ts, fs),
           NEW a \in Accumulator, Rebuilds(ts, fs, a)
    PROVE  Rebuilds(us, gs, Book(a, [fill |-> f, trade |-> u]))
<1>1. PICK n, b : n = Len(fs) /\ b = Book(a, [fill |-> f, trade |-> u])
  OBVIOUS
<1>2. PICK r : Rebuilding(ts, fs, r) /\ r[n] = a
  BY <1>1 DEF Rebuilds
<1>3. /\ n \in Nat /\ Len(gs) = n + 1 /\ gs[n + 1] = f /\ \A k \in 1 .. n : gs[k] = fs[k]
  BY <1>1 DEF Extended
<1>4. /\ Len(us) = Len(ts) /\ \A j \in 1 .. Len(ts) : j # i => us[j] = ts[j]
  BY DEF Replaced
<1>5. /\ f.trade = i /\ ts[i].status = "open" /\ u.direction = ts[i].direction
      /\ u \in Trade /\ f \in Fill
  BY DEF Closes
<1>6. ASSUME NEW k \in 1 .. n, NEW c PROVE Rebook(c, us, gs, k) = Rebook(c, ts, fs, k)
  <2>1. PICK j : j = fs[k].trade
    OBVIOUS
  <2>2. gs[k] = fs[k] /\ j \in 1 .. Len(ts)
    BY <1>1, <1>3, <2>1 DEF FillsOwned
  <2>3. PICK t, w : t = ts[j] /\ w = us[j]
    OBVIOUS
  <2>4. CASE j = i
    <3>1. k # LastFill(gs, j) /\ t.status # "closed" /\ w.direction = t.direction
      <4>1. LastFill(gs, f.trade) = n + 1
        BY <1>3, LastFillIs
      <4> QED BY <1>3, <1>5, <2>3, <2>4, <4>1
    <3> QED BY <2>1, <2>2, <2>3, <3>1, RebookAgrees
  <2>5. CASE j # i
    <3>1. w = t /\ LastFill(gs, j) = LastFill(fs, j)
      BY <1>4, <1>5, <2>2, <2>3, <2>5, LastFillIs
    <3>2. /\ w.direction = t.direction
          /\ (w.status = "closed" /\ k = LastFill(gs, j)) <=>
               (t.status = "closed" /\ k = LastFill(fs, j))
          /\ w.realized = t.realized /\ w.risk = t.risk /\ w.entryTime = t.entryTime
      BY <3>1
    <3> QED BY <2>1, <2>2, <2>3, <3>2, RebookAgrees
  <2> QED BY <2>4, <2>5
<1>7. b \in Accumulator
  BY <1>1, ClosedIsBooked
<1>8. Rebook(a, us, gs, n + 1) = b
  <2>1. b = IF u.status = "closed" THEN BookTradeClose(BookFill(a, f, u.direction), u, f.time)
            ELSE BookFill(a, f, u.direction)
    BY <1>1, BookCloseIs
  <2>2. LastFill(gs, f.trade) = n + 1
    BY <1>3, LastFillIs
  <2> QED BY <1>3, <1>5, <2>1, <2>2 DEF Rebook
<1>9. PICK s : s = [k \in 0 .. n + 1 |-> IF k = n + 1 THEN b ELSE r[k]]
  OBVIOUS
<1>10. /\ s \in [0 .. n + 1 -> Accumulator] /\ s[n + 1] = b
       /\ \A k \in 0 .. n : s[k] = r[k]
  <2>1. \A k \in 0 .. n + 1 : k = n + 1 \/ k \in 0 .. n
    BY <1>3
  <2>2. \A k \in 0 .. n : k \in 0 .. n + 1 /\ k # n + 1
    BY <1>3
  <2>3. n + 1 \in 0 .. n + 1
    BY <1>3
  <2>4. r \in [0 .. n -> Accumulator]
    BY <1>1, <1>2 DEF Rebuilding
  <2> QED BY <1>7, <1>9, <2>1, <2>2, <2>3, <2>4
<1>11. s[0] = [EmptyAccumulator EXCEPT !.opened = Len(us)]
  <2>1. r[0] = [EmptyAccumulator EXCEPT !.opened = Len(ts)]
    BY <1>2 DEF Rebuilding
  <2>2. 0 \in 0 .. n
    BY <1>3
  <2>3. s[0] = r[0]
    BY <1>10, <2>2
  <2>4. Len(us) = Len(ts)
    BY <1>4
  <2> QED BY <2>1, <2>3, <2>4
<1>12. ASSUME NEW k \in 1 .. n + 1 PROVE s[k] = Rebook(s[k - 1], us, gs, k)
  <2>1. k - 1 \in 0 .. n /\ s[k - 1] = r[k - 1]
    BY <1>3, <1>10
  <2>2. CASE k = n + 1
    <3>1. k - 1 = n
      BY <1>3, <2>2
    <3> QED BY <1>2, <1>8, <1>10, <2>1, <2>2, <3>1
  <2>3. CASE k # n + 1
    <3>1. k \in 1 .. n /\ k \in 0 .. n
      BY <1>3, <2>3
    <3>2. r[k] = Rebook(r[k - 1], ts, fs, k)
      BY <1>1, <1>2, <3>1 DEF Rebuilding
    <3> QED BY <1>6, <1>10, <2>1, <3>1, <3>2
  <2> QED BY <2>2, <2>3
<1>13. Rebuilding(us, gs, s) /\ s[Len(gs)] = b
  BY <1>3, <1>10, <1>11, <1>12 DEF Rebuilding
<1> QED BY <1>1, <1>13 DEF Rebuilds

\* An entry is rebuilt, though its trade is counted before every fill.
LEMMA RebuildsOpened ==
    ASSUME NEW ts, NEW us, NEW u, Enlarged(ts, us, u), NEW fs, NEW gs, NEW f,
           Extended(fs, gs, f), NEW i, i = Len(us), Opens(i, u, f), FillsOwned(ts, fs),
           NEW a \in Accumulator, Rebuilds(ts, fs, a)
    PROVE  Rebuilds(us, gs, Book(a, [fill |-> f, trade |-> u]))
<1>1. PICK n, b : n = Len(fs) /\ b = Book(a, [fill |-> f, trade |-> u])
  OBVIOUS
<1>2. PICK r : Rebuilding(ts, fs, r) /\ r[n] = a
  BY <1>1 DEF Rebuilds
<1>3. /\ n \in Nat /\ Len(gs) = n + 1 /\ gs[n + 1] = f /\ \A k \in 1 .. n : gs[k] = fs[k]
      /\ fs \in Seq(Fill)
  BY <1>1 DEF Extended
<1>4. /\ ts \in Seq(Trade) /\ Len(us) = Len(ts) + 1 /\ Len(ts) \in Nat /\ i = Len(ts) + 1
      /\ us[i] = u /\ u.status = "open" /\ \A j \in 1 .. Len(ts) : us[j] = ts[j]
  BY DEF Enlarged
<1>5. f.trade = i /\ u \in Trade /\ f \in Fill
  BY DEF Opens
<1>6. ASSUME NEW k \in 1 .. n, NEW c \in Accumulator
      PROVE  Rebook(Opened(c), us, gs, k) = Opened(Rebook(c, ts, fs, k))
  <2>1. PICK j : j = fs[k].trade
    OBVIOUS
  <2>2. gs[k] = fs[k] /\ j \in 1 .. Len(ts)
    BY <1>1, <1>3, <2>1 DEF FillsOwned
  <2>3. PICK t, w, o : t = ts[j] /\ w = us[j] /\ o = Opened(c)
    OBVIOUS
  <2>4. j # f.trade
    BY <1>4, <1>5, <2>2
  <2>5. w = t /\ LastFill(gs, j) = LastFill(fs, j)
    BY <1>4, <2>2, <2>3, <2>4, LastFillIs
  <2>6. Rebook(o, us, gs, k) = Rebook(o, ts, fs, k)
    <3>1. /\ w.direction = t.direction
          /\ (w.status = "closed" /\ k = LastFill(gs, j)) <=>
               (t.status = "closed" /\ k = LastFill(fs, j))
          /\ w.realized = t.realized /\ w.risk = t.risk /\ w.entryTime = t.entryTime
      BY <2>5
    <3> QED BY <2>1, <2>2, <2>3, <3>1, RebookAgrees
  <2>7. Rebook(Opened(c), ts, fs, k) = Opened(Rebook(c, ts, fs, k))
    BY <1>1, <1>3, <1>4, <2>1, <2>2, RebookCommutes
  <2> QED BY <2>3, <2>6, <2>7
<1>7. /\ b = BookFill(Opened(a), f, u.direction) /\ b \in Accumulator
  BY <1>1, OpenIsBooked DEF Opened
<1>8. Rebook(Opened(a), us, gs, n + 1) = b
  BY <1>3, <1>4, <1>5, <1>7 DEF Rebook
<1>9. PICK s : s = [k \in 0 .. n + 1 |-> IF k = n + 1 THEN b ELSE Opened(r[k])]
  OBVIOUS
<1>10. r \in [0 .. n -> Accumulator]
  BY <1>1, <1>2 DEF Rebuilding
<1>11. /\ s \in [0 .. n + 1 -> Accumulator] /\ s[n + 1] = b
       /\ \A k \in 0 .. n : s[k] = Opened(r[k])
  <2>1. \A k \in 0 .. n + 1 : k = n + 1 \/ k \in 0 .. n
    BY <1>3
  <2>2. \A k \in 0 .. n : k \in 0 .. n + 1 /\ k # n + 1
    BY <1>3
  <2>3. n + 1 \in 0 .. n + 1
    BY <1>3
  <2>4. \A k \in 0 .. n : Opened(r[k]) \in Accumulator
    BY <1>10, OpenedIs
  <2> QED BY <1>7, <1>9, <2>1, <2>2, <2>3, <2>4
<1>12. s[0] = [EmptyAccumulator EXCEPT !.opened = Len(us)]
  <2>1. r[0] = [EmptyAccumulator EXCEPT !.opened = Len(ts)] /\ s[0] = Opened(r[0])
    BY <1>2, <1>3, <1>11 DEF Rebuilding
  <2> QED BY <1>4, <2>1 DEF Opened, EmptyAccumulator
<1>13. ASSUME NEW k \in 1 .. n + 1 PROVE s[k] = Rebook(s[k - 1], us, gs, k)
  <2>1. k - 1 \in 0 .. n /\ s[k - 1] = Opened(r[k - 1]) /\ r[k - 1] \in Accumulator
    BY <1>3, <1>10, <1>11
  <2>2. CASE k = n + 1
    <3>1. k - 1 = n
      BY <1>3, <2>2
    <3> QED BY <1>2, <1>8, <1>11, <2>1, <2>2, <3>1
  <2>3. CASE k # n + 1
    <3>1. k \in 1 .. n /\ k \in 0 .. n
      BY <1>3, <2>3
    <3>2. r[k] = Rebook(r[k - 1], ts, fs, k)
      BY <1>1, <1>2, <3>1 DEF Rebuilding
    <3>3. PICK c : c = r[k - 1]
      OBVIOUS
    <3>4. Rebook(Opened(c), us, gs, k) = Opened(Rebook(c, ts, fs, k))
      BY <1>6, <2>1, <3>1, <3>3
    <3> QED BY <1>11, <2>1, <3>1, <3>2, <3>3, <3>4
  <2> QED BY <2>2, <2>3
<1>14. Rebuilding(us, gs, s) /\ s[Len(gs)] = b
  BY <1>3, <1>11, <1>12, <1>13 DEF Rebuilding
<1> QED BY <1>1, <1>14 DEF Rebuilds

\* Levels and excursions play no part in it.
LEMMA RebuildsKept ==
    ASSUME NEW ts, NEW us, Retermed(ts, us), NEW fs \in Seq(Fill), FillsOwned(ts, fs),
           NEW a, Rebuilds(ts, fs, a)
    PROVE  Rebuilds(us, fs, a)
<1>1. PICK r : Rebuilding(ts, fs, r) /\ r[Len(fs)] = a
  BY DEF Rebuilds
<1>2. Len(us) = Len(ts) /\ \A j \in 1 .. Len(ts) : SameTerms(ts[j], us[j])
  BY DEF Retermed
<1>3. ASSUME NEW k \in 1 .. Len(fs), NEW c PROVE Rebook(c, us, fs, k) = Rebook(c, ts, fs, k)
  <2>1. PICK j : j = fs[k].trade
    OBVIOUS
  <2>2. PICK t, w : t = ts[j] /\ w = us[j]
    OBVIOUS
  <2>3. SameTerms(t, w)
    BY <1>2, <2>1, <2>2 DEF FillsOwned
  <2>4. /\ w.direction = t.direction /\ w.status = t.status /\ w.realized = t.realized
        /\ w.risk = t.risk /\ w.entryTime = t.entryTime
    BY <2>3 DEF SameTerms
  <2> QED BY <2>1, <2>2, <2>4, RebookAgrees
<1>4. Rebuilding(us, fs, r)
  BY <1>1, <1>2, <1>3 DEF Rebuilding
<1> QED BY <1>1, <1>4 DEF Rebuilds

-----------------------------------------------------------------------------
(* What one booking does to the books *)

\* The trades, the ledger and the accumulator account for each other.
Books(ts, fs, a) ==
    /\ ts \in Seq(Trade) /\ fs \in Seq(Fill) /\ a \in Accumulator
    /\ FillsOwned(ts, fs)
    /\ \A i \in 1 .. Len(ts) : Account(ts[i], i, fs)
    /\ CountsMatch(ts, a) /\ PnlsMatch(ts, a) /\ FillsMatch(fs, a) /\ Rebuilds(ts, fs, a)

\* The amounts of a trade.
LEMMA TradeNumbers ==
    ASSUME NEW t \in Trade
    PROVE  t.initial \in Int /\ t.remaining \in Int /\ t.realized \in Int
BY DEF Trade

\* A close, booked, keeps the books.
LEMMA BooksClosed ==
    ASSUME NEW ts, NEW us, NEW i, Replaced(ts, us, i), NEW fs, NEW gs, NEW f,
           Extended(fs, gs, f), NEW t, t = ts[i], NEW u, u = us[i], Closes(i, t, u, f),
           NEW a, Books(ts, fs, a)
    PROVE  Books(us, gs, Book(a, [fill |-> f, trade |-> u]))
<1>1. PICK b : b = Book(a, [fill |-> f, trade |-> u])
  OBVIOUS
<1>2. /\ a \in Accumulator /\ FillsOwned(ts, fs) /\ CountsMatch(ts, a) /\ PnlsMatch(ts, a)
      /\ FillsMatch(fs, a) /\ Rebuilds(ts, fs, a)
      /\ \A j \in 1 .. Len(ts) : Account(ts[j], j, fs)
  BY DEF Books
<1>3. /\ ts \in Seq(Trade) /\ us \in Seq(Trade) /\ Len(us) = Len(ts) /\ i \in 1 .. Len(ts)
      /\ \A j \in 1 .. Len(ts) : j # i => us[j] = ts[j]
  BY DEF Replaced
<1>4. /\ fs \in Seq(Fill) /\ gs \in Seq(Fill) /\ Len(fs) \in Nat /\ Len(gs) = Len(fs) + 1
      /\ gs[Len(gs)] = f /\ \A k \in 1 .. Len(fs) : gs[k] = fs[k]
  BY DEF Extended
<1>5. f.trade = i
  BY DEF Closes
<1>6. /\ b \in Accumulator /\ b.opened = a.opened
      /\ MoneyBooked(a, b, f, u.direction) /\ OutcomeBooked(a, b, u, f.time)
  BY <1>1, <1>2, ClosedIsBooked
<1>7. FillsOwned(us, gs)
  <2>1. \A k \in 1 .. Len(gs) : k \in 1 .. Len(fs) \/ k = Len(gs)
    BY <1>4
  <2> QED BY <1>2, <1>3, <1>4, <1>5, <2>1 DEF FillsOwned
<1>8. ASSUME NEW j \in 1 .. Len(us) PROVE Account(us[j], j, gs)
  <2>1. CASE j = i
    <3>1. Account(u, i, gs)
      BY <1>2, <1>3, AccountClosed
    <3> QED BY <2>1, <3>1
  <2>2. CASE j # i
    <3>1. PICK w : w = ts[j]
      OBVIOUS
    <3>2. w \in Trade /\ Account(w, j, fs) /\ us[j] = w
      BY <1>2, <1>3, <2>2, <3>1
    <3>3. w.initial \in Int /\ w.remaining \in Int /\ w.realized \in Int
      BY <3>2, TradeNumbers
    <3>4. f.trade # j
      BY <1>5, <2>2
    <3>5. Account(w, j, gs)
      BY <3>2, <3>3, <3>4, AccountKept
    <3> QED BY <3>2, <3>5
  <2> QED BY <2>1, <2>2
<1>9. CountsMatch(us, b)
  BY <1>2, <1>6, CountsClosed
<1>10. PnlsMatch(us, b)
  BY <1>2, <1>6, PnlsClosed
<1>11. FillsMatch(gs, b)
  BY <1>2, <1>6, FillsBooked
<1>12. Rebuilds(us, gs, b)
  BY <1>1, <1>2, RebuildsClosed
<1> QED BY <1>1, <1>3, <1>4, <1>6, <1>7, <1>8, <1>9, <1>10, <1>11, <1>12 DEF Books

\* An entry, booked, keeps the books.
LEMMA BooksOpened ==
    ASSUME NEW ts, NEW us, NEW u, Enlarged(ts, us, u), NEW fs, NEW gs, NEW f,
           Extended(fs, gs, f), NEW i, i = Len(us), Opens(i, u, f), NEW a, Books(ts, fs, a)
    PROVE  Books(us, gs, Book(a, [fill |-> f, trade |-> u]))
<1>1. PICK b : b = Book(a, [fill |-> f, trade |-> u])
  OBVIOUS
<1>2. /\ a \in Accumulator /\ FillsOwned(ts, fs) /\ CountsMatch(ts, a) /\ PnlsMatch(ts, a)
      /\ FillsMatch(fs, a) /\ Rebuilds(ts, fs, a)
      /\ \A j \in 1 .. Len(ts) : Account(ts[j], j, fs)
  BY DEF Books
<1>3. /\ ts \in Seq(Trade) /\ us \in Seq(Trade) /\ Len(us) = Len(ts) + 1 /\ Len(ts) \in Nat
      /\ us[i] = u /\ i = Len(ts) + 1 /\ \A j \in 1 .. Len(ts) : us[j] = ts[j]
  BY DEF Enlarged
<1>4. /\ fs \in Seq(Fill) /\ gs \in Seq(Fill) /\ Len(fs) \in Nat /\ Len(gs) = Len(fs) + 1
      /\ gs[Len(gs)] = f /\ \A k \in 1 .. Len(fs) : gs[k] = fs[k]
  BY DEF Extended
<1>5. f.trade = i
  BY DEF Opens
<1>6. /\ b \in Accumulator /\ b.opened = a.opened + 1
      /\ MoneyBooked(a, b, f, u.direction) /\ OutcomesKept(a, b)
  <2>1. /\ b = BookFill(Opened(a), f, u.direction) /\ b \in Accumulator
        /\ b.opened = a.opened + 1
    BY <1>1, <1>2, OpenIsBooked DEF Opened
  <2>2. MoneyBooked(a, b, f, u.direction)
    BY <1>1, <1>2, OpenIsBooked
  <2>3. OutcomesKept(a, b)
    BY <1>1, <1>2, OpenIsBooked
  <2> QED BY <2>1, <2>2, <2>3
<1>7. FillsOwned(us, gs)
  <2>1. \A k \in 1 .. Len(gs) : k \in 1 .. Len(fs) \/ k = Len(gs)
    BY <1>4
  <2>2. i \in 1 .. Len(us) /\ \A j \in 1 .. Len(ts) : j \in 1 .. Len(us)
    BY <1>3
  <2> QED BY <1>2, <1>4, <1>5, <2>1, <2>2 DEF FillsOwned
<1>8. Mine(fs, i) = {}
  <2>1. i \notin 1 .. Len(ts) /\ DOMAIN fs = 1 .. Len(fs)
    BY <1>3, <1>4
  <2> QED BY <1>2, <2>1 DEF FillsOwned, Mine
<1>9. ASSUME NEW j \in 1 .. Len(us) PROVE Account(us[j], j, gs)
  <2>1. CASE j = i
    <3>1. Account(u, i, gs)
      BY <1>8, AccountOpened
    <3> QED BY <1>3, <2>1, <3>1
  <2>2. CASE j # i
    <3>1. PICK w : w = ts[j]
      OBVIOUS
    <3>2. j \in 1 .. Len(ts)
      BY <1>3, <2>2
    <3>3. w \in Trade /\ Account(w, j, fs) /\ us[j] = w
      BY <1>2, <1>3, <3>1, <3>2
    <3>4. w.initial \in Int /\ w.remaining \in Int /\ w.realized \in Int
      BY <3>3, TradeNumbers
    <3>5. f.trade # j
      BY <1>5, <2>2
    <3>6. Account(w, j, gs)
      BY <3>3, <3>4, <3>5, AccountKept
    <3> QED BY <3>3, <3>6
  <2> QED BY <2>1, <2>2
<1>10. CountsMatch(us, b)
  <2>1. b.opened = Len(us)
    BY <1>2, <1>3, <1>6 DEF CountsMatch
  <2>2. SetsSame(ts, us, Len(ts))
    BY SetsKept
  <2> QED BY <1>2, <1>6, <2>1, <2>2, CountsKept
<1>11. PnlsMatch(us, b)
  BY <1>2, <1>6, PnlsOpened
<1>12. FillsMatch(gs, b)
  BY <1>2, <1>6, FillsBooked
<1>13. Rebuilds(us, gs, b)
  BY <1>1, <1>2, RebuildsOpened
<1> QED BY <1>1, <1>3, <1>4, <1>6, <1>7, <1>9, <1>10, <1>11, <1>12, <1>13 DEF Books

\* Moved levels and excursions keep the books.
LEMMA BooksKept ==
    ASSUME NEW ts, NEW us, Retermed(ts, us), NEW fs, NEW a, Books(ts, fs, a)
    PROVE  Books(us, fs, a)
<1>1. /\ a \in Accumulator /\ FillsOwned(ts, fs) /\ CountsMatch(ts, a) /\ PnlsMatch(ts, a)
      /\ FillsMatch(fs, a) /\ Rebuilds(ts, fs, a) /\ fs \in Seq(Fill)
      /\ \A j \in 1 .. Len(ts) : Account(ts[j], j, fs)
  BY DEF Books
<1>2. /\ us \in Seq(Trade) /\ Len(us) = Len(ts)
      /\ \A j \in 1 .. Len(ts) : SameTerms(ts[j], us[j])
  BY DEF Retermed
<1>3. ASSUME NEW j \in 1 .. Len(us) PROVE Account(us[j], j, fs)
  <2>1. PICK t, u : t = ts[j] /\ u = us[j]
    OBVIOUS
  <2>2. Account(t, j, fs) /\ SameTerms(t, u)
    BY <1>1, <1>2, <2>1
  <2>3. /\ u.initial = t.initial /\ u.remaining = t.remaining /\ u.realized = t.realized
        /\ u.status = t.status /\ u.exit = t.exit
    BY <2>2 DEF SameTerms
  <2>4. Account(u, j, fs)
    BY <2>2, <2>3 DEF Account
  <2> QED BY <2>1, <2>4
<1>4. CountsMatch(us, a)
  <2>1. a.opened = Len(us)
    BY <1>1, <1>2 DEF CountsMatch
  <2>2. SetsSame(ts, us, Len(ts)) /\ OutcomesKept(a, a)
    BY SetsKept DEF OutcomesKept
  <2> QED BY <1>1, <2>1, <2>2, CountsKept
<1>5. PnlsMatch(us, a)
  BY <1>1, PnlsKept
<1>6. Rebuilds(us, fs, a)
  BY <1>1, RebuildsKept
<1>7. FillsOwned(us, fs)
  BY <1>1, <1>2 DEF FillsOwned
<1> QED BY <1>1, <1>2, <1>3, <1>4, <1>5, <1>6, <1>7 DEF Books

-----------------------------------------------------------------------------
(* What an operation that closes several trades does to the books *)

\* The trades and the ledger after the first m closes of a list.
Reached(m, ts, vs, fs, hs, order, U, F) ==
    /\ vs \in Seq(Trade) /\ Len(vs) = Len(ts) /\ hs \in Seq(Fill) /\ Len(hs) = Len(fs) + m
    /\ \A k \in 1 .. m : vs[order[k]] = U[k] /\ hs[Len(fs) + k] = F[k]
    /\ \A j \in 1 .. Len(ts) : (\A k \in 1 .. m : order[k] # j) => vs[j] = ts[j]
    /\ \A k \in 1 .. Len(fs) : hs[k] = fs[k]

\* The closes of an operation: trade after trade, each as it was before it.
Closing(ts, order, U, F, bookings) ==
    /\ order \in Seq(1 .. Len(ts)) /\ Increasing(order) /\ Len(bookings) = Len(order)
    /\ \A k \in 1 .. Len(order) : /\ Closes(order[k], ts[order[k]], U[k], F[k])
                                  /\ bookings[k] = [fill |-> F[k], trade |-> U[k]]

\* Every one of them is booked.
LEMMA BookingsRun ==
    ASSUME NEW ts, NEW order, NEW U, NEW F, NEW bookings,
           Closing(ts, order, U, F, bookings), NEW a \in Accumulator
    PROVE  \E r \in [0 .. Len(order) -> Accumulator] :
             /\ r[0] = a /\ BookAll(a, bookings) = r[Len(order)]
             /\ \A k \in 1 .. Len(order) : r[k] = Book(r[k - 1], [fill |-> F[k], trade |-> U[k]])
<1>1. PICK n : n = Len(order)
  OBVIOUS
<1>2. /\ n \in Nat /\ Len(bookings) = n
      /\ \A k \in 1 .. n : /\ Closes(order[k], ts[order[k]], U[k], F[k])
                           /\ bookings[k] = [fill |-> F[k], trade |-> U[k]]
  BY <1>1 DEF Closing
<1>3. PICK move : move = [k \in 1 .. n |-> [c \in Accumulator |-> Book(c, bookings[k])]]
  OBVIOUS
<1>4. ASSUME NEW k \in 1 .. n, NEW c \in Accumulator PROVE Book(c, bookings[k]) \in Accumulator
  <2>1. PICK i, t, u, f : i = order[k] /\ t = ts[i] /\ u = U[k] /\ f = F[k]
    OBVIOUS
  <2>2. Closes(i, t, u, f) /\ bookings[k] = [fill |-> f, trade |-> u]
    BY <1>2, <2>1
  <2> QED BY <2>2, ClosedIsBooked
<1>5. move \in [1 .. n -> [Accumulator -> Accumulator]]
  BY <1>3, <1>4
<1>6. PICK r \in [0 .. n -> Accumulator] : r[0] = a /\ \A k \in 1 .. n : r[k] = move[k][r[k - 1]]
  <2>1. MovesOn(move, n, Accumulator)
    BY <1>5 DEF MovesOn
  <2>2. \E r \in [0 .. n -> Accumulator] : PassesThrough(r, a, n, move)
    BY <1>2, <2>1, IteratesOver
  <2> QED BY <2>2 DEF PassesThrough
<1>7. ASSUME NEW k \in 1 .. n PROVE r[k] = Book(r[k - 1], bookings[k])
  <2>1. k - 1 \in 0 .. n
    BY <1>2
  <2>2. r[k - 1] \in Accumulator
    BY <2>1
  <2> QED BY <1>3, <1>6, <2>2
<1>8. BookAll(a, bookings) = r[n]
  <2>1. Len(bookings) \in Nat /\ r \in [0 .. Len(bookings) -> Accumulator]
    BY <1>2
  <2>2. \A k \in 1 .. Len(bookings) : r[k] = Book(r[k - 1], bookings[k])
    BY <1>2, <1>7
  <2>3. BookAll(a, bookings) = r[Len(bookings)]
    BY <1>6, <2>1, <2>2, BookAllIs
  <2> QED BY <1>2, <2>3
<1> QED BY <1>1, <1>2, <1>6, <1>7, <1>8

\* One more of them, booked, keeps the books.
LEMMA BooksAdvance ==
    ASSUME NEW ts, NEW fs \in Seq(Fill), NEW order, NEW U, NEW F, NEW bookings,
           Closing(ts, order, U, F, bookings), NEW l \in Nat, NEW m, m = l + 1,
           m <= Len(order), NEW vs, NEW hs, NEW a,
           Reached(l, ts, vs, fs, hs, order, U, F), Books(vs, hs, a)
    PROVE  \E ws, gs : /\ Reached(m, ts, ws, fs, gs, order, U, F)
                       /\ Books(ws, gs, Book(a, [fill |-> F[m], trade |-> U[m]]))
<1>1. PICK i, t, u, f : i = order[m] /\ t = vs[i] /\ u = U[m] /\ f = F[m]
  OBVIOUS
<1>2. /\ order \in Seq(1 .. Len(ts)) /\ Increasing(order) /\ m \in 1 .. Len(order)
      /\ Len(order) \in Nat /\ DOMAIN order = 1 .. Len(order)
  BY DEF Closing
<1>3. i \in 1 .. Len(ts) /\ Closes(i, ts[i], u, f) /\ u \in Trade /\ f \in Fill
  <2>1. Closes(order[m], ts[order[m]], U[m], F[m])
    BY <1>2 DEF Closing
  <2>2. Closes(i, ts[i], u, f)
    BY <1>1, <2>1
  <2>3. u \in Trade /\ f \in Fill
    BY <2>2 DEF Closes
  <2> QED BY <1>1, <1>2, <2>2, <2>3
<1>4. /\ vs \in Seq(Trade) /\ Len(vs) = Len(ts) /\ hs \in Seq(Fill) /\ Len(hs) = Len(fs) + l
      /\ \A k \in 1 .. l : vs[order[k]] = U[k] /\ hs[Len(fs) + k] = F[k]
      /\ \A j \in 1 .. Len(ts) : (\A k \in 1 .. l : order[k] # j) => vs[j] = ts[j]
      /\ \A k \in 1 .. Len(fs) : hs[k] = fs[k]
  BY DEF Reached
<1>5. \A k \in 1 .. l : order[k] # i /\ order[k] \in 1 .. Len(ts) /\ k \in 1 .. Len(order)
  <2>1. ASSUME NEW k \in 1 .. l
        PROVE  order[k] # i /\ order[k] \in 1 .. Len(ts) /\ k \in 1 .. Len(order)
    <3>1. k \in 1 .. Len(order) /\ k < m
      BY <1>2
    <3>2. order[k] < order[m]
      BY <1>2, <3>1 DEF Increasing
    <3>3. order[k] \in 1 .. Len(ts) /\ order[m] \in 1 .. Len(ts)
      BY <1>2, <3>1
    <3> QED BY <1>1, <3>1, <3>2, <3>3
  <2> QED BY <2>1
<1>6. t = ts[i]
  BY <1>1, <1>3, <1>4, <1>5
<1>7. PICK ws : ws = [vs EXCEPT ![i] = u]
  OBVIOUS
<1>8. /\ ws \in Seq(Trade) /\ Len(ws) = Len(ts) /\ ws[i] = u
      /\ \A j \in 1 .. Len(ts) : j # i => ws[j] = vs[j]
  BY <1>3, <1>4, <1>7, ExceptSeq
<1>9. PICK gs : gs = Append(hs, f)
  OBVIOUS
<1>10. Len(fs) \in Nat /\ Len(hs) \in Nat
  BY <1>4
<1>11. /\ gs \in Seq(Fill) /\ Len(gs) = Len(hs) + 1 /\ gs[Len(gs)] = f
       /\ \A k \in 1 .. Len(hs) : gs[k] = hs[k]
  <2>1. gs \in Seq(Fill) /\ Len(gs) = Len(hs) + 1
    BY <1>3, <1>4, <1>9, AppendProperties
  <2>2. gs[Len(hs) + 1] = f
    BY <1>3, <1>4, <1>9, AppendProperties
  <2>3. \A k \in 1 .. Len(hs) : gs[k] = hs[k]
    BY <1>3, <1>4, <1>9, AppendProperties
  <2> QED BY <2>1, <2>2, <2>3
<1>12. Replaced(vs, ws, i)
  BY <1>3, <1>4, <1>8 DEF Replaced
<1>13. Extended(hs, gs, f)
  BY <1>3, <1>4, <1>11 DEF Extended
<1>14. Books(ws, gs, Book(a, [fill |-> f, trade |-> u]))
  BY <1>1, <1>3, <1>6, <1>8, <1>12, <1>13, BooksClosed
<1>15. Reached(m, ts, ws, fs, gs, order, U, F)
  <2>1. Len(gs) = Len(fs) + m
    BY <1>4, <1>10, <1>11
  <2>2. ASSUME NEW k \in 1 .. m PROVE ws[order[k]] = U[k] /\ gs[Len(fs) + k] = F[k]
    <3>1. CASE k = m
      <4>1. Len(fs) + k = Len(gs)
        BY <2>1, <3>1
      <4> QED BY <1>1, <1>8, <1>11, <3>1, <4>1
    <3>2. CASE k # m
      <4>1. k \in 1 .. l
        BY <1>2, <3>2
      <4>2. Len(fs) + k \in 1 .. Len(hs)
        BY <1>4, <1>10, <4>1
      <4> QED BY <1>4, <1>5, <1>8, <1>11, <4>1, <4>2
    <3> QED BY <3>1, <3>2
  <2>3. ASSUME NEW j \in 1 .. Len(ts), \A k \in 1 .. m : order[k] # j PROVE ws[j] = ts[j]
    <3>1. m \in 1 .. m /\ \A k \in 1 .. l : k \in 1 .. m
      BY <1>2
    <3> QED BY <1>1, <1>4, <1>8, <2>3, <3>1
  <2>4. \A k \in 1 .. Len(fs) : gs[k] = fs[k]
    <3>1. \A k \in 1 .. Len(fs) : k \in 1 .. Len(hs)
      BY <1>4, <1>10
    <3> QED BY <1>4, <1>11, <3>1
  <2> QED BY <1>8, <1>11, <2>1, <2>2, <2>3, <2>4 DEF Reached
<1> QED BY <1>1, <1>14, <1>15

\* All of them keep the books.
LEMMA BooksAfterCloses ==
    ASSUME NEW ts, NEW fs, NEW order, NEW U, NEW F, NEW bookings,
           Closing(ts, order, U, F, bookings), NEW a, Books(ts, fs, a),
           NEW us, NEW gs, NEW n, n = Len(order), Reached(n, ts, us, fs, gs, order, U, F)
    PROVE  Books(us, gs, BookAll(a, bookings))
<1>1. ts \in Seq(Trade) /\ fs \in Seq(Fill) /\ a \in Accumulator
  BY DEF Books
<1>2. n \in Nat /\ order \in Seq(1 .. Len(ts)) /\ Len(ts) \in Nat /\ Len(fs) \in Nat
  BY <1>1 DEF Closing
<1>3. PICK r \in [0 .. n -> Accumulator] :
        /\ r[0] = a /\ BookAll(a, bookings) = r[n]
        /\ \A k \in 1 .. n : r[k] = Book(r[k - 1], [fill |-> F[k], trade |-> U[k]])
  BY <1>1, BookingsRun
<1> DEFINE Kept(m) == \E vs, hs : Reached(m, ts, vs, fs, hs, order, U, F) /\ Books(vs, hs, r[m])
           Bad == {m \in Nat : m <= n /\ ~Kept(m)}
<1>4. Kept(0)
  <2>1. PICK zero : zero = 0
    OBVIOUS
  <2>2. 1 .. zero = {}
    BY <2>1
  <2>3. Len(fs) + zero = Len(fs)
    BY <1>2, <2>1
  <2>4. Reached(zero, ts, ts, fs, fs, order, U, F)
    BY <1>1, <2>2, <2>3 DEF Reached
  <2>5. Books(ts, fs, r[zero])
    BY <1>3, <2>1
  <2> QED BY <2>1, <2>4, <2>5
<1>5. ASSUME Bad # {} PROVE FALSE
  <2>1. PICK m \in Bad : \A k \in Bad : m <= k
    BY <1>5, LeastNat
  <2>2. m \in Nat /\ m <= n /\ ~Kept(m)
    BY <2>1
  <2>3. m # 0
    <3> HIDE DEF Kept
    <3> QED BY <1>4, <2>2
  <2>4. PICK l : l = m - 1
    OBVIOUS
  <2>5. l \in Nat /\ l <= n /\ m = l + 1 /\ ~(m <= l) /\ m \in 1 .. n
    BY <1>2, <2>2, <2>3, <2>4
  <2>6. Kept(l)
    <3>1. l \notin Bad
      <4> HIDE DEF Bad
      <4> QED BY <2>1, <2>5
    <3> HIDE DEF Kept
    <3> QED BY <2>5, <3>1
  <2>7. PICK vs, hs : Reached(l, ts, vs, fs, hs, order, U, F) /\ Books(vs, hs, r[l])
    BY <2>6
  <2>8. PICK b : b = r[l]
    OBVIOUS
  <2>9. r[m] = Book(b, [fill |-> F[m], trade |-> U[m]])
    BY <1>3, <2>4, <2>5, <2>8
  <2>10. \E ws, ks : /\ Reached(m, ts, ws, fs, ks, order, U, F)
                     /\ Books(ws, ks, Book(b, [fill |-> F[m], trade |-> U[m]]))
    BY <1>1, <2>5, <2>7, <2>8, BooksAdvance
  <2>11. Kept(m)
    BY <2>9, <2>10
  <2> QED BY <2>2, <2>11
<1>6. Kept(n)
  <2>1. n \notin Bad
    BY <1>5
  <2> HIDE DEF Kept
  <2> QED BY <1>2, <2>1
<1>7. PICK vs, hs : Reached(n, ts, vs, fs, hs, order, U, F) /\ Books(vs, hs, r[n])
  BY <1>6
<1>8. vs = us
  <2>1. /\ vs \in Seq(Trade) /\ us \in Seq(Trade) /\ Len(vs) = Len(us) /\ Len(us) = Len(ts)
        /\ \A k \in 1 .. n : vs[order[k]] = us[order[k]]
        /\ \A j \in 1 .. Len(ts) : (\A k \in 1 .. n : order[k] # j) => vs[j] = us[j]
    BY <1>7 DEF Reached
  <2>2. \A j \in 1 .. Len(vs) : vs[j] = us[j]
    BY <2>1
  <2> QED BY <2>1, <2>2, SeqEqual
<1>9. hs = gs
  <2>1. /\ hs \in Seq(Fill) /\ gs \in Seq(Fill) /\ Len(hs) = Len(fs) + n
        /\ Len(gs) = Len(fs) + n
        /\ \A k \in 1 .. n : hs[Len(fs) + k] = gs[Len(fs) + k]
        /\ \A k \in 1 .. Len(fs) : hs[k] = gs[k]
    BY <1>7 DEF Reached
  <2>2. ASSUME NEW k \in 1 .. Len(hs) PROVE hs[k] = gs[k]
    <3>1. CASE k <= Len(fs)
      BY <2>1, <3>1
    <3>2. CASE ~(k <= Len(fs))
      <4>1. PICK j : j = k - Len(fs)
        OBVIOUS
      <4>2. j \in 1 .. n /\ Len(fs) + j = k
        BY <1>2, <2>1, <3>2, <4>1
      <4> QED BY <2>1, <4>2
    <3> QED BY <3>1, <3>2
  <2> QED BY <2>1, <2>2, SeqEqual
<1> QED BY <1>3, <1>7, <1>8, <1>9

-----------------------------------------------------------------------------
(* The invariant of the books, one lemma per operation *)

BooksInv == HistoryInv /\ Books(trades, fills, accumulator)

\* A booking that closes some of a trade t, whose number is i.
Booked(i, t, k) ==
    Closes(i, t, k.trade, k.fill) /\ k = [fill |-> k.fill, trade |-> k.trade]

\* One booking is booked as it is.
LEMMA BookOne ==
    ASSUME NEW a \in Accumulator, NEW k, Book(a, k) \in Accumulator
    PROVE  BookAll(a, <<k>>) = Book(a, k)
<1>1. PICK b, c : b = <<k>> /\ c = Book(a, k)
  OBVIOUS
<1>2. PICK r : r = [n \in 0 .. 1 |-> IF n = 0 THEN a ELSE c]
  OBVIOUS
<1>3. Len(b) = 1 /\ b[1] = k
  BY <1>1
<1>4. Len(b) \in Nat /\ r \in [0 .. Len(b) -> Accumulator] /\ r[0] = a /\ r[1] = c
  BY <1>1, <1>2, <1>3
<1>5. \A n \in 1 .. Len(b) : r[n] = Book(r[n - 1], b[n])
  BY <1>1, <1>3, <1>4
<1>6. BookAll(a, b) = r[Len(b)]
  BY <1>4, <1>5, BookAllIs
<1> QED BY <1>1, <1>3, <1>4, <1>6

\* CloseTrade books a close.
LEMMA CloseTradeBooks ==
    ASSUME BooksInv, NEW i \in OpenTrades, NEW q \in Nat, q <= trades[i].remaining,
           NEW x \in Exit
    PROVE  /\ Booked(i, trades[i], CloseTrade(i, q, x))
           /\ CloseTrade(i, q, x).trade = AfterClose(trades[i], q, x)
<1>1. PICK t, u, f, k : /\ t = trades[i] /\ u = AfterClose(t, q, x)
                        /\ f = ClosingFill(i, t, q, x) /\ k = CloseTrade(i, q, x)
  OBVIOUS
<1>2. trades \in Seq(Trade) /\ i \in DOMAIN trades /\ t.status = "open"
  BY <1>1 DEF BooksInv, Books, OpenTrades
<1>3. t \in Trade /\ i \in Nat /\ i \in 1 .. Len(trades)
  BY <1>1, <1>2
<1>4. t.remaining # 0
  <2>1. Account(t, i, fills)
    BY <1>1, <1>3 DEF BooksInv, Books
  <2> QED BY <1>2, <2>1 DEF Account
<1>5. Closes(i, t, u, f)
  BY <1>1, <1>2, <1>3, <1>4, CloseCloses
<1>6. k = [fill |-> f, trade |-> u]
  BY <1>1 DEF CloseTrade, ClosingFill
<1>7. Booked(i, t, k)
  BY <1>5, <1>6 DEF Booked
<1> QED BY <1>1, <1>6, <1>7

\* The trades after the closes of a set of them.
ClosedIn(S, booking, ts, us) ==
    /\ us \in Seq(Trade) /\ Len(us) = Len(ts)
    /\ \A i \in 1 .. Len(ts) : us[i] = IF i \in S THEN booking[i].trade ELSE ts[i]

\* The closes of a set of trades, in their order, keep the books.
LEMMA SetClosed ==
    ASSUME Books(trades, fills, accumulator), NEW S \in SUBSET DOMAIN trades, NEW booking,
           \A i \in S : Booked(i, trades[i], booking[i]),
           Record([k \in DOMAIN Ascending(S) |-> booking[Ascending(S)[k]]]),
           NEW us, ClosedIn(S, booking, trades, us)
    PROVE  Books(us, fills', accumulator')
<1>1. PICK order : order = Ascending(S)
  OBVIOUS
<1>2. PICK ts, fs, a, n : ts = trades /\ fs = fills /\ a = accumulator /\ n = Len(order)
  OBVIOUS
<1>3. ts \in Seq(Trade) /\ fs \in Seq(Fill) /\ a \in Accumulator /\ Books(ts, fs, a)
  BY <1>2 DEF Books
<1>4. /\ order \in Seq(S) /\ Increasing(order)
      /\ \A i \in S : \E k \in DOMAIN order : order[k] = i
  <2>1. DOMAIN ts = 1 .. Len(ts) /\ Len(ts) \in Nat
    BY <1>3
  <2>2. PICK one, m : one = 1 /\ m = Len(ts)
    OBVIOUS
  <2>3. IsFiniteSet(one .. m)
    BY <2>1, <2>2, FS_Interval
  <2>4. S \in SUBSET (one .. m)
    BY <1>2, <2>1, <2>2
  <2>5. IsFiniteSet(S)
    BY <2>3, <2>4, FS_Subset
  <2>6. S \in SUBSET Nat
    BY <2>1, <2>2, <2>4
  <2> QED BY <1>1, <2>5, <2>6, AscendingLists
<1>5. n \in Nat /\ DOMAIN order = 1 .. n /\ \A k \in 1 .. n : order[k] \in S
  BY <1>2, <1>4
<1>6. PICK bookings : bookings = [k \in DOMAIN order |-> booking[order[k]]]
  OBVIOUS
<1>7. PICK U : U = [k \in 1 .. n |-> booking[order[k]].trade]
  OBVIOUS
<1>8. PICK F : F = [k \in 1 .. n |-> booking[order[k]].fill]
  OBVIOUS
<1>9. ASSUME NEW k \in 1 .. n
      PROVE  /\ Closes(order[k], ts[order[k]], U[k], F[k]) /\ U[k] \in Trade /\ F[k] \in Fill
             /\ bookings[k] = [fill |-> F[k], trade |-> U[k]]
  <2>1. PICK i, b : i = order[k] /\ b = booking[i]
    OBVIOUS
  <2>2. Booked(i, ts[i], b)
    BY <1>2, <1>5, <2>1
  <2>3. U[k] = b.trade /\ F[k] = b.fill /\ bookings[k] = b
    BY <1>5, <1>6, <1>7, <1>8, <2>1
  <2>4. Closes(i, ts[i], b.trade, b.fill) /\ b = [fill |-> b.fill, trade |-> b.trade]
    BY <2>2 DEF Booked
  <2>5. b.trade \in Trade /\ b.fill \in Fill
    BY <2>4 DEF Closes
  <2> QED BY <2>1, <2>3, <2>4, <2>5
<1>10. Closing(ts, order, U, F, bookings)
  <2>1. order \in Seq(1 .. Len(ts))
    <3>1. \A k \in 1 .. n : order[k] \in 1 .. Len(ts)
      BY <1>2, <1>3, <1>5
    <3> QED BY <1>4, <1>5, <3>1
  <2>2. Len(bookings) = n
    BY <1>5, <1>6
  <2> QED BY <1>2, <1>4, <1>9, <2>1, <2>2 DEF Closing
<1>11. PICK G : G = [k \in DOMAIN bookings |-> bookings[k].fill]
  OBVIOUS
<1>12. G \in Seq(Fill) /\ Len(G) = n /\ \A k \in 1 .. n : G[k] = F[k]
  <2>1. DOMAIN bookings = 1 .. n
    BY <1>5, <1>6
  <2>2. \A k \in 1 .. n : G[k] = F[k] /\ F[k] \in Fill
    BY <1>9, <1>11, <2>1
  <2>3. G = [k \in 1 .. n |-> G[k]]
    BY <1>11, <2>1
  <2> QED BY <1>5, <2>2, <2>3
<1>13. PICK gs : gs = fs \o G
  OBVIOUS
<1>14. fills' = gs /\ accumulator' = BookAll(a, bookings)
  BY <1>1, <1>2, <1>6, <1>11, <1>13 DEF Record
<1>15. /\ gs \in Seq(Fill) /\ Len(gs) = Len(fs) + n /\ Len(fs) \in Nat
       /\ \A k \in 1 .. Len(fs) : gs[k] = fs[k]
       /\ \A k \in 1 .. n : gs[Len(fs) + k] = F[k]
  <2>1. gs \in Seq(Fill) /\ Len(gs) = Len(fs) + Len(G)
    BY <1>3, <1>12, <1>13, ConcatProperties
  <2>2. \A k \in 1 .. Len(fs) + Len(G) : gs[k] = IF k <= Len(fs) THEN fs[k] ELSE G[k - Len(fs)]
    BY <1>3, <1>12, <1>13, ConcatProperties
  <2>3. Len(fs) \in Nat
    BY <1>3
  <2>4. ASSUME NEW k \in 1 .. n PROVE gs[Len(fs) + k] = F[k]
    <3>1. PICK l, m : m = Len(fs) /\ l = m + k
      OBVIOUS
    <3>2. l \in 1 .. m + Len(G) /\ ~(l <= m) /\ l - m = k
      BY <1>5, <1>12, <2>3, <3>1
    <3> QED BY <1>12, <2>2, <3>1, <3>2
  <2>5. \A k \in 1 .. Len(fs) : gs[k] = fs[k]
    BY <1>5, <1>12, <2>2, <2>3
  <2> QED BY <1>12, <2>1, <2>3, <2>4, <2>5
<1>16. Reached(n, ts, us, fs, gs, order, U, F)
  <2>1. /\ us \in Seq(Trade) /\ Len(us) = Len(ts)
        /\ \A i \in 1 .. Len(ts) : us[i] = IF i \in S THEN booking[i].trade ELSE ts[i]
    BY <1>2 DEF ClosedIn
  <2>2. ASSUME NEW k \in 1 .. n PROVE us[order[k]] = U[k]
    <3>1. order[k] \in S /\ order[k] \in 1 .. Len(ts)
      BY <1>2, <1>3, <1>5
    <3> QED BY <1>7, <2>1, <3>1
  <2>3. ASSUME NEW j \in 1 .. Len(ts), \A k \in 1 .. n : order[k] # j PROVE us[j] = ts[j]
    <3>1. j \notin S
      BY <1>4, <1>5, <2>3
    <3> QED BY <2>1, <3>1
  <2> QED BY <1>15, <2>1, <2>2, <2>3 DEF Reached
<1>17. Books(us, gs, BookAll(a, bookings))
  BY <1>2, <1>3, <1>10, <1>16, BooksAfterCloses
<1> QED BY <1>14, <1>17

\* A new session has no books.
LEMMA InitBooksInv == Init => BooksInv
<1> SUFFICES ASSUME Init PROVE BooksInv
  OBVIOUS
<1>1. PICK ts, fs, a : ts = trades /\ fs = fills /\ a = accumulator
  OBVIOUS
<1>2. ts = << >> /\ fs = << >> /\ a = EmptyAccumulator
  BY <1>1 DEF Init
<1>3. /\ ts \in Seq(Trade) /\ fs \in Seq(Fill) /\ Len(ts) = 0 /\ Len(fs) = 0
      /\ DOMAIN ts = {} /\ DOMAIN fs = {}
  BY <1>2
<1>4. a \in Accumulator /\ a.peak = None /\ a = [EmptyAccumulator EXCEPT !.opened = 0]
  BY <1>2 DEF EmptyAccumulator, Accumulator
<1>5. FillsOwned(ts, fs) /\ \A i \in 1 .. Len(ts) : Account(ts[i], i, fs)
  BY <1>3 DEF FillsOwned
<1>6. /\ ClosedOf(ts) = {} /\ WinsOf(ts) = {} /\ LossesOf(ts) = {} /\ RiskyOf(ts) = {}
      /\ LongOf(ts) = {} /\ DOMAIN ts \ LongOf(ts) = {}
  BY <1>3 DEF ClosedOf, WinsOf, LossesOf, RiskyOf, LongOf
<1>w. RWinsOf(ts) = {} /\ RLossesOf(ts) = {}
  BY <1>6 DEF RWinsOf, RLossesOf
<1>7. CountsMatch(ts, a)
  <2>1. Cardinality({}) = 0
    BY FS_EmptySet
  <2> QED BY <1>2, <1>3, <1>6, <1>w, <2>1 DEF CountsMatch, EmptyAccumulator
<1>8. PnlsMatch(ts, a)
  <2>1. PnlsOf(ts) \in Seq(Int) /\ HeldOf(ts) \in Seq(Int) /\ RsOf(ts) \in Seq(Int)
    BY <1>3, TradeColumns
  <2>2. SumOver({}, PnlsOf(ts)) = 0 /\ SumOver({}, HeldOf(ts)) = 0 /\ SumOver({}, RsOf(ts)) = 0
    BY <2>1, SumOverNowhere
  <2> QED BY <1>2, <1>6, <1>w, <2>2 DEF PnlsMatch, EmptyAccumulator
<1>9. FillsMatch(fs, a)
  <2>1. PICK g, n : g = GrossesOf(fs) /\ n = NetsOf(fs)
    OBVIOUS
  <2>2. g \in Seq(Int) /\ n \in Seq(Int) /\ Len(g) = 0 /\ Len(n) = 0
    BY <1>3, <2>1, ColumnsType
  <2>3. SumOf(g) = 0 /\ SumOf(n) = 0
    BY <2>2, SumNothing
  <2>4. PICK B : B = BalancesOf(fs)
    OBVIOUS
  <2>5. InitialBalance \in Int /\ PeakOf(a) = InitialBalance /\ a.drawdown = 0
    BY <1>2, <1>4, CostsAssumption DEF PeakOf, EmptyAccumulator
  <2>6. B[0] = InitialBalance
    <3>1. RunningSums(n)[0] = 0
      BY <2>2, RunningSumsAre
    <3>2. 0 \in 0 .. Len(fs)
      BY <1>3
    <3> QED BY <2>1, <2>4, <2>5, <3>1, <3>2 DEF BalancesOf, BalanceAfter
  <2>7. PathIs(B, 0, InitialBalance, 0)
    <3>1. \A k : k \in 0 .. 0 <=> k = 0
      OBVIOUS
    <3> QED BY <2>5, <2>6, <3>1 DEF PathIs
  <2>8. PathIs(BalancesOf(fs), Len(fs), PeakOf(a), a.drawdown)
    BY <1>3, <2>4, <2>5, <2>7
  <2>9. a.gross = 0 /\ a.net = 0 /\ a.costs = 0
    BY <1>2 DEF EmptyAccumulator
  <2> QED BY <2>1, <2>3, <2>8, <2>9 DEF FillsMatch
<1>10. Rebuilds(ts, fs, a)
  <2>1. PICK r : r = [k \in 0 .. 0 |-> a]
    OBVIOUS
  <2>2. r \in [0 .. Len(fs) -> Accumulator] /\ r[0] = a /\ 1 .. Len(fs) = {}
    BY <1>3, <1>4, <2>1
  <2>3. Rebuilding(ts, fs, r)
    BY <1>3, <1>4, <2>2 DEF Rebuilding
  <2>4. r[Len(fs)] = a
    BY <1>3, <2>2
  <2> QED BY <2>3, <2>4 DEF Rebuilds
<1>11. Books(ts, fs, a)
  BY <1>3, <1>4, <1>5, <1>7, <1>8, <1>9, <1>10 DEF Books
<1> QED BY <1>1, <1>11, InitHistoryInv DEF BooksInv

\* An operation that makes one booking adds its fill to the ledger.
LEMMA RecordOne ==
    ASSUME fills \in Seq(Fill), accumulator \in Accumulator, NEW k, k.fill \in Fill,
           Book(accumulator, k) \in Accumulator, Record(<<k>>)
    PROVE  Extended(fills, fills', k.fill) /\ accumulator' = Book(accumulator, k)
<1>1. PICK b, G, gs : /\ b = <<k>> /\ G = [n \in DOMAIN b |-> b[n].fill]
                      /\ gs = fills \o G
  OBVIOUS
<1>2. fills' = gs /\ accumulator' = BookAll(accumulator, <<k>>)
  BY <1>1 DEF Record
<1>3. DOMAIN b = 1 .. 1 /\ b[1] = k
  BY <1>1
<1>4. G \in Seq(Fill) /\ Len(G) = 1 /\ G[1] = k.fill
  BY <1>1, <1>3
<1>5. Len(fills) \in Nat
  OBVIOUS
<1>6. gs \in Seq(Fill) /\ Len(gs) = Len(fills) + 1
  BY <1>1, <1>4, ConcatProperties
<1>7. \A n \in 1 .. Len(fills) + Len(G) :
        gs[n] = IF n <= Len(fills) THEN fills[n] ELSE G[n - Len(fills)]
  BY <1>1, <1>4, ConcatProperties
<1>8. gs[Len(gs)] = k.fill
  <2>1. PICK l : l = Len(fills) + 1
    OBVIOUS
  <2>2. l \in 1 .. Len(fills) + Len(G) /\ ~(l <= Len(fills)) /\ l - Len(fills) = 1
    BY <1>4, <1>5, <2>1
  <2> QED BY <1>4, <1>6, <1>7, <2>1, <2>2
<1>9. \A n \in 1 .. Len(fills) : gs[n] = fills[n]
  BY <1>4, <1>5, <1>7
<1> QED BY <1>2, <1>6, <1>8, <1>9, BookOne DEF Extended

\* A market order keeps the books.
LEMMA OrderBooks ==
    ASSUME BooksInv, NEW direction \in {"long", "short"}, NEW q \in Quantities,
           NEW stop \in Levels \cup {None}, NEW target \in Levels \cup {None},
           MarketOrder(direction, q, stop, target)
    PROVE  Books(trades', fills', accumulator')
<1>1. PICK t, k, f : /\ t = NewTrade(direction, q, stop, target)
                     /\ k = OpenTrade(t) /\ f = k.fill
  OBVIOUS
<1>2. TypeOK /\ Len(revealed) > 0
  BY DEF MarketOrder, CurrentIndex, BooksInv, HistoryInv, IInv, TypeOK
<1>3. /\ trades \in Seq(Trade) /\ fills \in Seq(Fill) /\ accumulator \in Accumulator
      /\ Books(trades, fills, accumulator)
  BY DEF BooksInv, Books
<1>4. t \in Trade
  BY <1>1, <1>2, NewTradeType
<1>5. /\ t.status = "open" /\ t.exit = None /\ t.initial = q /\ t.remaining = q
  BY <1>1 DEF NewTrade
<1>6. trades' = Append(trades, t) /\ Record(<<k>>)
  BY <1>1 DEF MarketOrder
<1>7. PICK us, i : us = Append(trades, t) /\ i = Len(us)
  OBVIOUS
<1>8. /\ us \in Seq(Trade) /\ Len(us) = Len(trades) + 1 /\ us[i] = t /\ i \in Nat
      /\ \A j \in 1 .. Len(trades) : us[j] = trades[j]
  BY <1>3, <1>4, <1>7
<1>9. Enlarged(trades, us, t)
  BY <1>3, <1>5, <1>7, <1>8 DEF Enlarged
<1>10. /\ f = [trade |-> i, quantity |-> t.initial, price |-> Price, gross |-> 0,
               net |-> t.realized, reason |-> "entry", precision |-> "exact",
               time |-> t.entryTime, source |-> CurrentIndex]
       /\ k = [fill |-> f, trade |-> t]
  BY <1>1, <1>7, <1>8 DEF OpenTrade
<1>11. f \in Fill
  <2>1. Price \in Int /\ CurrentIndex \in Nat
    BY <1>2, PriceType
  <2> QED BY <1>4, <1>8, <1>10, <2>1 DEF Fill, Trade
<1>12. Opens(i, t, f)
  BY <1>4, <1>5, <1>10, <1>11 DEF Opens
<1>13. Book(accumulator, k) \in Accumulator
  BY <1>3, <1>10, <1>12, OpenIsBooked
<1>14. Extended(fills, fills', f) /\ accumulator' = Book(accumulator, k)
  BY <1>1, <1>3, <1>6, <1>11, <1>13, RecordOne
<1>15. PICK gs : gs = fills'
  OBVIOUS
<1>16. Books(us, gs, Book(accumulator, [fill |-> f, trade |-> t]))
  BY <1>3, <1>7, <1>9, <1>12, <1>14, <1>15, BooksOpened
<1> QED BY <1>6, <1>7, <1>10, <1>14, <1>15, <1>16

\* A close of some of one trade keeps the books.
LEMMA CloseBooks ==
    ASSUME BooksInv, NEW i \in DOMAIN trades, NEW q \in Quantities, ClosePosition(i, q)
    PROVE  Books(trades', fills', accumulator')
<1>1. PICK x, k : x = ExitNow("manual") /\ k = CloseTrade(i, q, x)
  OBVIOUS
<1>2. PICK t, u, f : t = trades[i] /\ u = k.trade /\ f = k.fill
  OBVIOUS
<1>3. /\ i \in OpenTrades /\ q \in Nat /\ q <= trades[i].remaining
      /\ Record(<<k>>) /\ trades' = [trades EXCEPT ![i] = u]
  BY <1>1, <1>2, InputsAssumption DEF ClosePosition
<1>4. TypeOK /\ Len(revealed) > 0 /\ Books(trades, fills, accumulator)
  BY TradeFacts DEF BooksInv, HistoryInv, IInv
<1>5. trades \in Seq(Trade) /\ fills \in Seq(Fill) /\ accumulator \in Accumulator
  BY <1>4 DEF Books
<1>6. x \in Exit
  BY <1>1, <1>4, ExitNowType
<1>7. Closes(i, t, u, f) /\ k = [fill |-> f, trade |-> u]
  BY <1>1, <1>2, <1>3, <1>6, CloseTradeBooks DEF Booked
<1>8. u \in Trade /\ f \in Fill
  BY <1>7 DEF Closes
<1>9. PICK us : us = [trades EXCEPT ![i] = u]
  OBVIOUS
<1>10. /\ us \in Seq(Trade) /\ Len(us) = Len(trades) /\ us[i] = u /\ i \in 1 .. Len(trades)
       /\ \A j \in 1 .. Len(trades) : j # i => us[j] = trades[j]
  BY <1>5, <1>8, <1>9, ExceptSeq
<1>11. Replaced(trades, us, i)
  BY <1>5, <1>10 DEF Replaced
<1>12. Book(accumulator, k) \in Accumulator
  BY <1>5, <1>7, ClosedIsBooked
<1>13. Extended(fills, fills', f) /\ accumulator' = Book(accumulator, k)
  BY <1>2, <1>3, <1>5, <1>8, <1>12, RecordOne
<1>14. PICK gs : gs = fills'
  OBVIOUS
<1>15. Books(us, gs, Book(accumulator, [fill |-> f, trade |-> u]))
  BY <1>2, <1>4, <1>7, <1>10, <1>11, <1>13, <1>14, BooksClosed
<1> QED BY <1>3, <1>7, <1>9, <1>13, <1>14, <1>15

\* Closing every open trade keeps the books.
LEMMA CloseAllBooks ==
    ASSUME BooksInv, CloseAllPositions
    PROVE  Books(trades', fills', accumulator')
<1>1. PICK x : x = ExitNow(IF status = "completed" THEN "session_end" ELSE "manual")
  OBVIOUS
<1>2. PICK booking : booking = [i \in OpenTrades |-> CloseTrade(i, trades[i].remaining, x)]
  OBVIOUS
<1>3. PICK us : us = [i \in DOMAIN trades |->
                        IF i \in OpenTrades THEN booking[i].trade ELSE trades[i]]
  OBVIOUS
<1>4. trades' = us /\ Record([k \in DOMAIN Ascending(OpenTrades) |-> booking[Ascending(OpenTrades)[k]]])
  BY <1>1, <1>2, <1>3 DEF CloseAllPositions
<1>5. /\ OpenTrades \in SUBSET DOMAIN trades /\ OpenTrades # {}
      /\ TypeOK /\ Books(trades, fills, accumulator) /\ HistoryInv
  BY DEF CloseAllPositions, OpenTrades, BooksInv, HistoryInv, IInv
<1>6. Len(revealed) > 0 /\ trades \in Seq(Trade)
  BY <1>5, TradeFacts DEF Books
<1>7. x \in Exit
  <2>1. PICK reason : reason = IF status = "completed" THEN "session_end" ELSE "manual"
    OBVIOUS
  <2>2. reason \in {"manual", "session_end"} /\ x = ExitNow(reason)
    BY <1>1, <2>1
  <2> QED BY <1>5, <1>6, <2>2, ExitNowType
<1>8. ASSUME NEW i \in OpenTrades
      PROVE  Booked(i, trades[i], booking[i]) /\ booking[i].trade \in Trade
  <2>1. PICK q : q = trades[i].remaining
    OBVIOUS
  <2>2. q \in Nat /\ q <= trades[i].remaining
    <3>1. trades[i] \in Trade
      BY <1>5, <1>6
    <3> QED BY <2>1, <3>1 DEF Trade
  <2>3. Booked(i, trades[i], CloseTrade(i, q, x))
    BY <1>7, <2>2, CloseTradeBooks
  <2>4. Booked(i, trades[i], booking[i])
    BY <1>2, <2>1, <2>3
  <2> QED BY <2>4 DEF Booked, Closes
<1>9. ClosedIn(OpenTrades, booking, trades, us)
  <2>1. \A i \in 1 .. Len(trades) : us[i] = IF i \in OpenTrades THEN booking[i].trade ELSE trades[i]
    BY <1>3, <1>6
  <2>2. \A i \in 1 .. Len(trades) : us[i] \in Trade
    BY <1>6, <1>8, <2>1
  <2>3. us \in Seq(Trade) /\ Len(us) = Len(trades)
    <3>1. DOMAIN trades = 1 .. Len(trades) /\ Len(trades) \in Nat
      BY <1>6
    <3>2. us = [i \in 1 .. Len(trades) |-> us[i]]
      BY <1>3, <3>1
    <3> QED BY <2>2, <3>1, <3>2
  <2> QED BY <2>1, <2>3 DEF ClosedIn
<1>10. Books(us, fills', accumulator')
  BY <1>4, <1>5, <1>8, <1>9, SetClosed
<1> QED BY <1>4, <1>10

\* Moving a level and measuring an excursion keep what the books read of a trade.
LEMMA TermsStay ==
    ASSUME NEW t \in Trade
    PROVE  /\ SameTerms(t, t)
           /\ \A price : SameTerms(t, [t EXCEPT !.stop = price])
           /\ \A price : SameTerms(t, [t EXCEPT !.target = price])
           /\ \A b : SameTerms(t, Excursed(t, b))
<1>1. ASSUME NEW u, u.direction = t.direction, u.initial = t.initial,
             u.remaining = t.remaining, u.status = t.status, u.entryTime = t.entryTime,
             u.risk = t.risk, u.realized = t.realized, u.exit = t.exit
      PROVE  SameTerms(t, u)
  BY <1>1 DEF SameTerms
<1>2. SameTerms(t, t)
  BY <1>1
<1>3. ASSUME NEW price PROVE SameTerms(t, [t EXCEPT !.stop = price])
  BY <1>1 DEF Trade
<1>4. ASSUME NEW price PROVE SameTerms(t, [t EXCEPT !.target = price])
  BY <1>1 DEF Trade
<1>5. ASSUME NEW b PROVE SameTerms(t, Excursed(t, b))
  <2>1. PICK u : u = Excursed(t, b)
    OBVIOUS
  <2>2. /\ u.direction = t.direction /\ u.initial = t.initial /\ u.remaining = t.remaining
        /\ u.status = t.status /\ u.entryTime = t.entryTime /\ u.risk = t.risk
        /\ u.realized = t.realized /\ u.exit = t.exit
    BY <2>1 DEF Excursed, Trade
  <2> QED BY <1>1, <2>1, <2>2
<1> QED BY <1>2, <1>3, <1>4, <1>5

\* Moving a level keeps the books.
LEMMA LevelBooks ==
    ASSUME BooksInv, NEW i \in DOMAIN trades, NEW price \in Levels \cup {None},
           UpdateTradeStop(i, price) \/ UpdateTradeTarget(i, price)
    PROVE  Books(trades', fills', accumulator')
<1>1. PICK u : /\ trades' = [trades EXCEPT ![i] = u]
               /\ u = [trades[i] EXCEPT !.stop = price] \/ u = [trades[i] EXCEPT !.target = price]
  BY DEF UpdateTradeStop, UpdateTradeTarget
<1>2. UNCHANGED <<fills, accumulator>>
  BY DEF UpdateTradeStop, UpdateTradeTarget
<1>3. Books(trades, fills, accumulator) /\ trades \in Seq(Trade)
  BY DEF BooksInv, Books
<1>4. trades' \in Seq(Trade)
  <2>1. IInv'
    BY UpdateLevelStep DEF BooksInv, HistoryInv
  <2> QED BY <2>1 DEF IInv, TypeOK
<1>5. PICK us : us = trades'
  OBVIOUS
<1>6. trades[i] \in Trade /\ SameTerms(trades[i], u)
  <2>1. PICK t : t = trades[i]
    OBVIOUS
  <2>2. t \in Trade
    BY <1>3, <2>1
  <2>3. SameTerms(t, [t EXCEPT !.stop = price]) /\ SameTerms(t, [t EXCEPT !.target = price])
    BY <2>2, TermsStay
  <2>4. u = [t EXCEPT !.stop = price] \/ u = [t EXCEPT !.target = price]
    BY <1>1, <2>1
  <2> QED BY <2>1, <2>2, <2>3, <2>4
<1>7. Retermed(trades, us)
  <2>1. us \in Seq(Trade) /\ Len(us) = Len(trades) /\ us = [trades EXCEPT ![i] = u]
    BY <1>1, <1>3, <1>4, <1>5
  <2>2. ASSUME NEW j \in 1 .. Len(trades) PROVE SameTerms(trades[j], us[j])
    <3>1. trades[j] \in Trade /\ us[j] = IF j = i THEN u ELSE trades[j]
      BY <1>3, <2>1
    <3> QED BY <1>6, <3>1, TermsStay
  <2> QED BY <1>3, <2>1, <2>2 DEF Retermed
<1>8. Books(us, fills, accumulator)
  BY <1>3, <1>7, BooksKept
<1> QED BY <1>2, <1>5, <1>8

\* One minute of the replay keeps the books: what the candle closes is booked,
\* and the survivors only measure it.
LEMMA RevealBooks ==
    ASSUME BooksInv, NEW b \in Bars, RevealMinute(b)
    PROVE  Books(trades', fills', accumulator')
<1>1. PICK S, at : S = {i \in OpenTrades : ExitsOn(trades[i], b)} /\ at = CurrentIndex + 1
  OBVIOUS
<1>2. PICK booking : booking = [i \in S |-> CloseTrade(i, trades[i].remaining,
                                                        ExitOn(trades[i], b, at))]
  OBVIOUS
<1>3. PICK vs : vs = [i \in DOMAIN trades |-> IF i \in S THEN booking[i].trade ELSE trades[i]]
  OBVIOUS
<1>4. PICK us : us = [i \in DOMAIN trades |-> IF i \in S THEN booking[i].trade
                                              ELSE IF i \in OpenTrades THEN Excursed(trades[i], b)
                                              ELSE trades[i]]
  OBVIOUS
<1>5. trades' = us /\ Record([k \in DOMAIN Ascending(S) |-> booking[Ascending(S)[k]]])
  BY <1>1, <1>2, <1>4 DEF RevealMinute
<1>6. /\ S \in SUBSET OpenTrades /\ S \in SUBSET DOMAIN trades
      /\ TypeOK /\ Books(trades, fills, accumulator) /\ trades \in Seq(Trade)
  BY <1>1 DEF OpenTrades, BooksInv, HistoryInv, IInv, Books
<1>7. at \in Nat /\ at = Len(revealed)
  BY <1>1, <1>6 DEF CurrentIndex, TypeOK
<1>8. ASSUME NEW i \in S
      PROVE  Booked(i, trades[i], booking[i]) /\ booking[i].trade \in Trade
  <2>1. PICK q, x : q = trades[i].remaining /\ x = ExitOn(trades[i], b, at)
    OBVIOUS
  <2>2. trades[i] \in Trade /\ i \in OpenTrades /\ ExitsOn(trades[i], b)
    BY <1>1, <1>6
  <2>3. q \in Nat /\ q <= trades[i].remaining
    BY <2>1, <2>2 DEF Trade
  <2>4. x \in Exit
    BY <1>7, <2>1, <2>2, ExitOnType
  <2>5. Booked(i, trades[i], CloseTrade(i, q, x))
    BY <2>2, <2>3, <2>4, CloseTradeBooks
  <2>6. Booked(i, trades[i], booking[i])
    BY <1>2, <2>1, <2>5
  <2> QED BY <2>6 DEF Booked, Closes
<1>9. ClosedIn(S, booking, trades, vs)
  <2>1. \A i \in 1 .. Len(trades) : vs[i] = IF i \in S THEN booking[i].trade ELSE trades[i]
    BY <1>3, <1>6
  <2>2. \A i \in 1 .. Len(trades) : vs[i] \in Trade
    BY <1>6, <1>8, <2>1
  <2>3. vs \in Seq(Trade) /\ Len(vs) = Len(trades)
    <3>1. DOMAIN trades = 1 .. Len(trades) /\ Len(trades) \in Nat
      BY <1>6
    <3>2. vs = [i \in 1 .. Len(trades) |-> vs[i]]
      BY <1>3, <3>1
    <3> QED BY <2>2, <3>1, <3>2
  <2> QED BY <2>1, <2>3 DEF ClosedIn
<1>10. Books(vs, fills', accumulator')
  BY <1>5, <1>6, <1>8, <1>9, SetClosed
<1>11. Retermed(vs, us)
  <2>1. vs \in Seq(Trade) /\ Len(vs) = Len(trades)
    BY <1>9 DEF ClosedIn
  <2>2. us \in Seq(Trade) /\ Len(us) = Len(trades)
    <3>1. IInv'
      BY RevealMinuteStep DEF BooksInv, HistoryInv
    <3>2. us \in Seq(Trade)
      BY <1>5, <3>1 DEF IInv, TypeOK
    <3> QED BY <1>4, <1>6, <3>2
  <2>3. ASSUME NEW j \in 1 .. Len(vs) PROVE SameTerms(vs[j], us[j])
    <3>1. /\ j \in DOMAIN trades /\ trades[j] \in Trade /\ vs[j] \in Trade
      BY <1>6, <2>1
    <3>2. CASE j \in S
      <4>1. us[j] = vs[j]
        BY <1>3, <1>4, <3>1, <3>2
      <4> QED BY <3>1, <4>1, TermsStay
    <3>3. CASE j \notin S
      <4>1. vs[j] = trades[j] /\ (us[j] = trades[j] \/ us[j] = Excursed(trades[j], b))
        BY <1>3, <1>4, <3>1, <3>3
      <4> QED BY <3>1, <4>1, TermsStay
    <3> QED BY <3>2, <3>3
  <2> QED BY <2>1, <2>2, <2>3 DEF Retermed
<1>12. PICK gs, c : gs = fills' /\ c = accumulator'
  OBVIOUS
<1>13. Books(us, gs, c)
  BY <1>10, <1>11, <1>12, BooksKept
<1> QED BY <1>5, <1>12, <1>13

\* Every operation keeps the books.
LEMMA NextBooksInv == BooksInv /\ [Next]_vars => BooksInv'
<1> SUFFICES ASSUME BooksInv, [Next]_vars PROVE BooksInv'
  OBVIOUS
<1>1. HistoryInv'
  BY NextHistoryInv DEF BooksInv
<1>2. Books(trades', fills', accumulator')
  <2>1. ASSUME NEW direction \in {"long", "short"}, NEW q \in Quantities,
               NEW stop \in Levels \cup {None}, NEW target \in Levels \cup {None},
               MarketOrder(direction, q, stop, target)
        PROVE  Books(trades', fills', accumulator')
    BY <2>1, OrderBooks
  <2>2. ASSUME NEW i \in DOMAIN trades, NEW q \in Quantities, ClosePosition(i, q)
        PROVE  Books(trades', fills', accumulator')
    BY <2>2, CloseBooks
  <2>3. CASE CloseAllPositions
    BY <2>3, CloseAllBooks
  <2>4. ASSUME NEW i \in DOMAIN trades, NEW price \in Levels \cup {None},
               UpdateTradeStop(i, price) \/ UpdateTradeTarget(i, price)
        PROVE  Books(trades', fills', accumulator')
    BY <2>4, LevelBooks
  <2>5. CASE (\E n \in Steps : UpdateSettings(n)) \/ Step \/ StepBreak \/ StepEnd \/ UNCHANGED vars
    <3>1. UNCHANGED <<trades, fills, accumulator>>
      BY <2>5 DEF UpdateSettings, Step, StepBreak, StepEnd, vars
    <3> QED BY <3>1 DEF BooksInv
  <2>6. ASSUME NEW b \in Bars, RevealMinute(b)
        PROVE  Books(trades', fills', accumulator')
    BY <2>6, RevealBooks
  <2> QED BY <2>1, <2>2, <2>3, <2>4, <2>5, <2>6 DEF Next
<1> QED BY <1>1, <1>2 DEF BooksInv

-----------------------------------------------------------------------------
(* What the books explain *)

\* Every trade is explained by the fills that are its own.
LEMMA BooksExplain == BooksInv => LedgerExplainsTrades
<1> SUFFICES ASSUME BooksInv, NEW i \in DOMAIN trades
             PROVE  LET t == trades[i]
                        mine == {k \in DOMAIN fills : fills[k].trade = i}
                        exits == {k \in mine : fills[k].reason # "entry"}
                        last == fills[Max(mine)]
                    IN  /\ mine \ exits = {Min(mine)}
                        /\ fills[Min(mine)].quantity = t.initial
                        /\ SumOver(exits, [k \in DOMAIN fills |-> fills[k].quantity])
                             = t.initial - t.remaining
                        /\ SumOver(mine, [k \in DOMAIN fills |-> fills[k].net]) = t.realized
                        /\ (t.status = "closed") = (t.remaining = 0)
                        /\ IF t.status = "open" THEN t.exit = None
                           ELSE t.exit = [price |-> last.price, reason |-> last.reason,
                                          precision |-> last.precision, time |-> last.time,
                                          source |-> last.source]
  BY DEF LedgerExplainsTrades
<1>1. PICK t, mine, exits : t = trades[i] /\ mine = Mine(fills, i) /\ exits = Exits(fills, i)
  OBVIOUS
<1>2. trades \in Seq(Trade) /\ fills \in Seq(Fill) /\ i \in 1 .. Len(trades)
  BY DEF BooksInv, Books
<1>3. Account(t, i, fills)
  BY <1>1, <1>2 DEF BooksInv, Books
<1>4. t \in Trade /\ t.status \in {"open", "closed"}
  <2>1. t \in Trade
    BY <1>1, <1>2
  <2> QED BY <2>1 DEF Trade
<1>5. mine \in SUBSET Int
  BY <1>1, <1>2 DEF Mine
<1>6. /\ SumOver(exits, QuantitiesOf(fills)) = t.initial - t.remaining
      /\ SumOver(mine, NetsOf(fills)) = t.realized
      /\ (t.status = "closed") = (t.remaining = 0)
      /\ t.status = "open" => t.exit = None
  BY <1>1, <1>3 DEF Account
<1>7. mine \ exits = {Min(mine)} /\ fills[Min(mine)].quantity = t.initial
  <2>1. PICK k \in mine : /\ mine \ exits = {k} /\ \A l \in mine : k <= l
                          /\ fills[k].quantity = t.initial
    BY <1>1, <1>3 DEF Account
  <2>2. Min(mine) = k
    BY <1>5, <2>1, MinIs
  <2> QED BY <2>1, <2>2
<1>8. t.status = "closed" => t.exit = LeftBy(fills[Max(mine)])
  <2> SUFFICES ASSUME t.status = "closed" PROVE t.exit = LeftBy(fills[Max(mine)])
    OBVIOUS
  <2>1. PICK k \in mine : (\A l \in mine : l <= k) /\ t.exit = LeftBy(fills[k])
    BY <1>1, <1>3 DEF Account
  <2>2. Max(mine) = k
    BY <1>5, <2>1, MaxIs
  <2> QED BY <2>1, <2>2
<1> QED BY <1>1, <1>4, <1>6, <1>7, <1>8 DEF Mine, Exits, QuantitiesOf, NetsOf, LeftBy

\* The highest balance up to one of them.
LEMMA HighestSoFar ==
    ASSUME NEW m \in Nat, NEW C, \A k \in 0 .. m : C[k] \in Int
    PROVE  \A k \in 0 .. m : \E h \in 0 .. k : \A j \in 0 .. k : C[j] <= C[h]
<1> DEFINE Topped(k) == \E h \in 0 .. k : \A j \in 0 .. k : C[j] <= C[h]
           Bad == {k \in Nat : k <= m /\ ~Topped(k)}
<1>1. ASSUME Bad # {} PROVE FALSE
  <2>1. PICK k \in Bad : \A l \in Bad : k <= l
    BY <1>1, LeastNat
  <2>2. k \in Nat /\ k <= m /\ ~Topped(k)
    BY <2>1
  <2>3. CASE k = 0
    <3>1. \A j : j \in 0 .. k <=> j = k
      BY <2>3
    <3>2. C[k] \in Int
      BY <2>2
    <3> QED BY <2>2, <3>1, <3>2
  <2>4. CASE k # 0
    <3>1. PICK l : l = k - 1
      OBVIOUS
    <3>2. l \in Nat /\ l <= m /\ ~(k <= l) /\ k \in 0 .. k
      BY <2>2, <2>4, <3>1
    <3>3. Topped(l)
      <4>1. l \notin Bad
        <5> HIDE DEF Bad
        <5> QED BY <2>1, <3>2
      <4> HIDE DEF Topped
      <4> QED BY <3>2, <4>1
    <3>4. PICK h \in 0 .. l : \A j \in 0 .. l : C[j] <= C[h]
      BY <3>3
    <3>5. \A j \in 0 .. k : j \in 0 .. l \/ j = k
      BY <2>2, <3>1
    <3>6. h \in 0 .. k /\ C[h] \in Int /\ C[k] \in Int /\ \A j \in 0 .. l : C[j] \in Int
      BY <2>2, <3>1, <3>2
    <3>7. CASE C[k] <= C[h]
      BY <2>2, <3>4, <3>5, <3>6, <3>7
    <3>8. CASE C[h] <= C[k]
      <4>1. \A j \in 0 .. k : C[j] <= C[k]
        BY <3>4, <3>5, <3>6, <3>8
      <4> QED BY <2>2, <3>2, <4>1
    <3> QED BY <3>6, <3>7, <3>8
  <2> QED BY <2>3, <2>4
<1>2. ASSUME NEW k \in 0 .. m PROVE Topped(k)
  <2>1. k \notin Bad /\ k \in Nat /\ k <= m
    BY <1>1
  <2> HIDE DEF Topped
  <2> QED BY <2>1
<1> QED BY <1>2

\* The drawdown of a path as the reference computes it, balance after balance.
HighestTo(C, k) == Max({0} \cup {C[j] : j \in 0 .. k})
DeepestOf(C, K) == Max({0} \cup {HighestTo(C, k) - C[k] : k \in K})

\* It is the greatest drawdown of the path, when the path begins above zero.
LEMMA DeepestIs ==
    ASSUME NEW m \in Nat, NEW C, NEW p, NEW d, PathIs(C, m, p, d), C[0] >= 0,
           NEW K, K = 0 .. m
    PROVE  DeepestOf(C, K) = d
<1>1. /\ d \in Int /\ \A k \in 0 .. m : C[k] \in Int
      /\ \A j, k \in 0 .. m : j <= k => C[j] - C[k] <= d
  BY DEF PathIs
<1>2. PICK i \in 0 .. m, l \in 0 .. m : i <= l /\ C[i] - C[l] = d
  BY DEF PathIs
<1>3. ASSUME NEW k \in 0 .. m
      PROVE  \E h \in 0 .. k : HighestTo(C, k) = C[h] /\ \A j \in 0 .. k : C[j] <= C[h]
  <2>1. PICK h \in 0 .. k : \A j \in 0 .. k : C[j] <= C[h]
    BY <1>1, HighestSoFar
  <2>2. 0 \in 0 .. k /\ h \in 0 .. m /\ \A j \in 0 .. k : j \in 0 .. m
    OBVIOUS
  <2>3. PICK S : S = {0} \cup {C[j] : j \in 0 .. k}
    OBVIOUS
  <2>4. PICK c : c = C[h]
    OBVIOUS
  <2>5. c \in Int /\ c >= 0
    BY <1>1, <2>1, <2>2, <2>4
  <2>6. S \in SUBSET Int
    BY <1>1, <2>2, <2>3
  <2>7. c \in S
    BY <2>3, <2>4
  <2>8. \A e \in S : e <= c
    BY <2>1, <2>3, <2>4, <2>5
  <2>9. Max(S) = c
    BY <2>6, <2>7, <2>8, MaxIs
  <2> QED BY <2>1, <2>3, <2>4, <2>9 DEF HighestTo
<1>4. \A k \in 0 .. m : HighestTo(C, k) \in Int /\ HighestTo(C, k) - C[k] <= d
  <2>1. ASSUME NEW k \in 0 .. m
        PROVE  HighestTo(C, k) \in Int /\ HighestTo(C, k) - C[k] <= d
    <3>1. PICK h \in 0 .. k : HighestTo(C, k) = C[h]
      BY <1>3
    <3>2. h \in 0 .. m /\ h <= k
      OBVIOUS
    <3> QED BY <1>1, <3>1, <3>2
  <2> QED BY <2>1
<1>5. HighestTo(C, l) - C[l] = d
  <2>1. PICK h \in 0 .. l : HighestTo(C, l) = C[h] /\ \A j \in 0 .. l : C[j] <= C[h]
    BY <1>3
  <2>2. i \in 0 .. l /\ h \in 0 .. m /\ h <= l
    BY <1>2
  <2>3. C[i] <= C[h] /\ C[h] - C[l] <= d /\ C[i] \in Int /\ C[h] \in Int /\ C[l] \in Int
    BY <1>1, <2>1, <2>2
  <2> QED BY <1>1, <1>2, <2>1, <2>3
<1>6. d >= 0
  <2>1. 0 \in 0 .. m
    OBVIOUS
  <2>2. C[0] \in Int /\ C[0] - C[0] <= d
    BY <1>1, <2>1
  <2> QED BY <1>1, <2>2
<1>7. PICK S : S = {0} \cup {HighestTo(C, k) - C[k] : k \in K}
  OBVIOUS
<1>8. S \in SUBSET Int
  BY <1>1, <1>4, <1>7
<1>9. d \in S
  BY <1>5, <1>7
<1>10. \A e \in S : e <= d
  BY <1>4, <1>6, <1>7
<1>11. Max(S) = d
  BY <1>8, <1>9, <1>10, MaxIs
<1> QED BY <1>7, <1>11 DEF DeepestOf

\* The liquidation value of the open trades is a number.
LEMMA UnrealizedType == HistoryInv => Unrealized \in Int
<1> SUFFICES ASSUME HistoryInv PROVE Unrealized \in Int
  OBVIOUS
<1>1. PICK v : v = [i \in DOMAIN trades |-> Delta(trades[i], Price) * trades[i].remaining * Scale
                                            - UnitCost * trades[i].remaining]
  OBVIOUS
<1>2. trades \in Seq(Trade) /\ TypeOK
  BY DEF HistoryInv, IInv, TypeOK
<1>3. ASSUME NEW i \in DOMAIN trades PROVE v[i] \in Int
  <2>1. trades[i] \in Trade /\ Price \in Int
    BY <1>2, TradeFacts, PriceType
  <2>2. PICK d, r : d = Delta(trades[i], Price) /\ r = trades[i].remaining
    OBVIOUS
  <2>3. d \in Int /\ r \in Int
    BY <2>1, <2>2 DEF Delta, Trade
  <2>4. d * r \in Int
    BY <2>3
  <2>5. d * r * Scale \in Int /\ UnitCost * r \in Int
    BY <2>3, <2>4, CostsAssumption
  <2>6. d * r * Scale - UnitCost * r \in Int
    BY <2>5
  <2> QED BY <1>1, <2>2, <2>6
<1>4. v \in Seq(Int)
  <2>1. DOMAIN trades = 1 .. Len(trades) /\ Len(trades) \in Nat
    BY <1>2
  <2>2. v = [i \in 1 .. Len(trades) |-> v[i]]
    BY <1>1, <2>1
  <2> QED BY <1>3, <2>1, <2>2
<1>5. SumOver(OpenTrades, v) \in Int
  BY <1>4, SumType
<1> QED BY <1>1, <1>5 DEF Unrealized

\* The statistics, figure by figure.
FiguresAre(o, c, w, l, wp, lp, g, n, cs, lg, sh, e, dd, rc, rs, rw, rv, rl, rm, h) ==
    [opened |-> o, completed |-> c, wins |-> w, losses |-> l, winPnl |-> wp, lossPnl |-> lp,
     gross |-> g, net |-> n, costs |-> cs, longPnl |-> lg, shortPnl |-> sh, equity |-> e,
     drawdown |-> dd, rCount |-> rc, rSum |-> rs, rWins |-> rw, rWinSum |-> rv,
     rLosses |-> rl, rLossSum |-> rm, holding |-> h]

\* The balances of a ledger, and the equity after them.
CurveOf(fs, e) ==
    [k \in 0 .. Len(fs) + 1 |->
       IF k > Len(fs) THEN e ELSE InitialBalance + RunningSums(NetsOf(fs))[k]]

EquityOf(fs, un) == InitialBalance + RunningSums(NetsOf(fs))[Len(fs)] + un

\* What the reference computes, in the terms of the books.
LEMMA StatsFromHistoryAre ==
    ASSUME NEW ts, NEW fs, NEW un
    PROVE  StatsFromHistory(ts, fs, un) =
             FiguresAre(Len(ts), Cardinality(ClosedOf(ts)), Cardinality(WinsOf(ts)),
                        Cardinality(LossesOf(ts)), SumOver(WinsOf(ts), PnlsOf(ts)),
                        SumOver(LossesOf(ts), PnlsOf(ts)), SumOf(GrossesOf(fs)),
                        RunningSums(NetsOf(fs))[Len(fs)],
                        SumOf(GrossesOf(fs)) - RunningSums(NetsOf(fs))[Len(fs)],
                        SumOver(LongOf(ts), PnlsOf(ts)),
                        SumOver(DOMAIN ts \ LongOf(ts), PnlsOf(ts)), EquityOf(fs, un),
                        DeepestOf(CurveOf(fs, EquityOf(fs, un)),
                                  DOMAIN CurveOf(fs, EquityOf(fs, un))),
                        Cardinality(RiskyOf(ts)), SumOver(RiskyOf(ts), RsOf(ts)),
                        Cardinality(RWinsOf(ts)), SumOver(RWinsOf(ts), RsOf(ts)),
                        Cardinality(RLossesOf(ts)), SumOver(RLossesOf(ts), RsOf(ts)),
                        SumOver(ClosedOf(ts), HeldOf(ts)))
<1>1. PICK R : R = RsOf(ts)
  OBVIOUS
<1>2. /\ {i \in RiskyOf(ts) : R[i] > 0} = RWinsOf(ts)
      /\ {i \in RiskyOf(ts) : R[i] < 0} = RLossesOf(ts)
  BY <1>1 DEF RWinsOf, RLossesOf, RiskyOf, ClosedOf, RsOf
<1> QED
  BY <1>1, <1>2 DEF StatsFromHistory, FiguresAre, ClosedOf, WinsOf, LossesOf, PnlsOf, GrossesOf,
              NetsOf, LongOf, HeldOf, EquityOf, CurveOf, DeepestOf, HighestTo, RiskyOf, RsOf

\* The drawdown that calculate_stats reports is that of the path and the equity.
LEMMA DrawdownIs ==
    ASSUME NEW fs \in Seq(Fill), NEW a \in Accumulator, FillsMatch(fs, a), NEW e \in Int,
           NEW C, C = CurveOf(fs, e)
    PROVE  Max({a.drawdown, (IF a.peak = None THEN InitialBalance
                             ELSE Max({InitialBalance, a.peak})) - e})
             = DeepestOf(C, DOMAIN C)
<1>1. PICK m, p, d, B : m = Len(fs) /\ p = PeakOf(a) /\ d = a.drawdown /\ B = BalancesOf(fs)
  OBVIOUS
<1>2. m \in Nat /\ InitialBalance \in Int /\ InitialBalance > 0
  BY <1>1, CostsAssumption
<1>3. PathIs(B, m, p, d)
  BY <1>1 DEF FillsMatch
<1>4. B[0] = InitialBalance
  <2>1. NetsOf(fs) \in Seq(Int)
    BY ColumnsType
  <2>2. RunningSums(NetsOf(fs))[0] = 0
    BY <2>1, RunningSumsAre
  <2>3. 0 \in 0 .. Len(fs)
    BY <1>1, <1>2
  <2> QED BY <1>1, <1>2, <2>2, <2>3 DEF BalancesOf, BalanceAfter
<1>5. p \in Int /\ d \in Int /\ InitialBalance <= p /\ d >= 0
  <2>1. 0 \in 0 .. m
    BY <1>2
  <2>2. B[0] \in Int /\ B[0] <= p /\ B[0] - B[0] <= d /\ p \in Int /\ d \in Int
    BY <1>3, <2>1 DEF PathIs
  <2> QED BY <1>4, <2>2
<1>6. (IF a.peak = None THEN InitialBalance ELSE Max({InitialBalance, a.peak})) = p
  <2>1. CASE a.peak = None
    BY <1>1, <2>1 DEF PeakOf
  <2>2. CASE a.peak # None
    <3>1. a.peak = p
      BY <1>1, <2>2 DEF PeakOf
    <3>2. Max({InitialBalance, p}) = Greater(InitialBalance, p)
      BY <1>2, <1>5, MaxOfTwo
    <3>3. Greater(InitialBalance, p) = p
      BY <1>2, <1>5 DEF Greater
    <3> QED BY <2>2, <3>1, <3>2, <3>3
  <2> QED BY <2>1, <2>2
<1>7. PICK z : z = m + 1
  OBVIOUS
<1>8. C[z] = e /\ DOMAIN C = 0 .. z /\ \A k \in 0 .. m : C[k] = B[k]
  <2>1. z \in 0 .. Len(fs) + 1 /\ z > Len(fs)
    BY <1>1, <1>2, <1>7
  <2>2. \A k \in 0 .. m : k \in 0 .. Len(fs) + 1 /\ ~(k > Len(fs)) /\ k \in 0 .. Len(fs)
    BY <1>1, <1>2
  <2>3. C[z] = e /\ DOMAIN C = 0 .. z
    BY <1>1, <1>7, <2>1 DEF CurveOf
  <2>4. \A k \in 0 .. m : C[k] = InitialBalance + RunningSums(NetsOf(fs))[k]
    BY <2>2 DEF CurveOf
  <2>5. \A k \in 0 .. m : B[k] = InitialBalance + RunningSums(NetsOf(fs))[k]
    BY <1>1, <2>2 DEF BalancesOf, BalanceAfter
  <2> QED BY <2>3, <2>4, <2>5
<1>9. PICK g : g = Greater(d, Greater(p, e) - e)
  OBVIOUS
<1>10. PathIs(C, z, Greater(p, e), g)
  BY <1>2, <1>3, <1>7, <1>8, <1>9, PathGrows
<1>11. C[0] >= 0 /\ z \in Nat
  <2>1. 0 \in 0 .. m
    BY <1>2
  <2> QED BY <1>2, <1>4, <1>7, <1>8, <2>1
<1>12. DeepestOf(C, DOMAIN C) = g
  BY <1>8, <1>10, <1>11, DeepestIs
<1>13. Max({d, p - e}) = g
  <2>1. p - e \in Int
    BY <1>5
  <2>2. PICK c : c = p - e
    OBVIOUS
  <2>3. Max({d, c}) = Greater(d, c)
    BY <1>5, <2>1, <2>2, MaxOfTwo
  <2>4. Greater(d, c) = g
    BY <1>5, <1>9, <2>2 DEF Greater
  <2> QED BY <2>2, <2>3, <2>4
<1> QED BY <1>1, <1>6, <1>12, <1>13

\* The O(1) statistics are those of the reference.
LEMMA BooksTellStats == BooksInv => StatsMatchHistory
<1> SUFFICES ASSUME BooksInv PROVE StatsMatchHistory
  OBVIOUS
<1>1. PICK ts, fs, a, un : ts = trades /\ fs = fills /\ a = accumulator /\ un = Unrealized
  OBVIOUS
<1>2. /\ ts \in Seq(Trade) /\ fs \in Seq(Fill) /\ a \in Accumulator
      /\ CountsMatch(ts, a) /\ PnlsMatch(ts, a) /\ FillsMatch(fs, a)
  BY <1>1 DEF BooksInv, Books
<1>3. un \in Int
  BY <1>1, UnrealizedType DEF BooksInv
<1>4. a.net = RunningSums(NetsOf(fs))[Len(fs)] /\ a.net \in Int
  <2>1. Len(NetsOf(fs)) = Len(fs)
    BY <1>2, ColumnsType
  <2> QED BY <1>2, <2>1 DEF FillsMatch, SumOf, Accumulator
<1>5. PICK e : e = InitialBalance + a.net + un
  OBVIOUS
<1>6. e = EquityOf(fs, un) /\ e \in Int
  BY <1>3, <1>4, <1>5, CostsAssumption DEF EquityOf
<1>7. PICK C : C = CurveOf(fs, e)
  OBVIOUS
<1>8. PICK D : D = Max({a.drawdown, (IF a.peak = None THEN InitialBalance
                                     ELSE Max({InitialBalance, a.peak})) - e})
  OBVIOUS
<1>9. D = DeepestOf(C, DOMAIN C)
  BY <1>2, <1>6, <1>7, <1>8, DrawdownIs
<1>10. Stats(a, un) =
         FiguresAre(a.opened, a.completed, a.wins, a.losses, a.winPnl, a.lossPnl, a.gross,
                    a.net, a.costs, a.longPnl, a.shortPnl, e, D, a.rCount, a.rSum,
                    a.rWins, a.rWinSum, a.rLosses, a.rLossSum, a.holding)
  BY <1>5, <1>8 DEF Stats, FiguresAre
<1>11. StatsFromHistory(ts, fs, un) =
         FiguresAre(a.opened, a.completed, a.wins, a.losses, a.winPnl, a.lossPnl, a.gross,
                    a.net, a.costs, a.longPnl, a.shortPnl, e, D, a.rCount, a.rSum,
                    a.rWins, a.rWinSum, a.rLosses, a.rLossSum, a.holding)
  BY <1>2, <1>4, <1>6, <1>7, <1>9, StatsFromHistoryAre
     DEF CountsMatch, PnlsMatch, FillsMatch
<1> QED BY <1>1, <1>10, <1>11 DEF StatsMatchHistory

\* The ledger accounts for every trade: its entry, its exits, its P&L and the
\* way it left.
THEOREM LedgerStaysExplained == Spec => []LedgerExplainsTrades
BY InitBooksInv, NextBooksInv, BooksExplain, PTL DEF Spec

\* The incremental statistics are those that the whole history gives, after
\* every operation.
THEOREM StatsStayExact == Spec => []StatsMatchHistory
BY InitBooksInv, NextBooksInv, BooksTellStats, PTL DEF Spec

\* Rebuilding the accumulator from the ledger gives the one that was kept.
THEOREM RebuildStaysExact == Spec => []AccumulatorRebuilds
<1>1. BooksInv => AccumulatorRebuilds
  BY RebuiltIs DEF BooksInv, Books, AccumulatorRebuilds
<1> QED BY <1>1, InitBooksInv, NextBooksInv, PTL DEF Spec
=============================================================================
