----------------------------- MODULE ReplayStats -----------------------------
(***************************************************************************)
(* Session statistics (backend/app/stats.py): the incremental accumulator, *)
(* booked with every fill, and the two full-history computations the code  *)
(* keeps beside it: the reference statistics and the rebuild of the        *)
(* accumulator that the schema migration v6 uses.                          *)
(*                                                                         *)
(* A booking is a record [fill, trade]: a new fill and its trade as the    *)
(* fill left it.  Ratios are kept as their numerators and denominators;    *)
(* the realized R of a trade, which the code adds up, is counted in units  *)
(* of 1 / RUnit, fine enough for every risk of the instance to divide it.  *)
(***************************************************************************)
EXTENDS Integers, Sequences, FiniteSets, FiniteSetsExt, SequencesExt, Sums

CONSTANTS
    InitialBalance,  \* initial_balance of the session
    RUnit,           \* the parts that one R is counted in
    None             \* Python's None

EmptyAccumulator ==
    [opened |-> 0, completed |-> 0, wins |-> 0, losses |-> 0,
     winPnl |-> 0, lossPnl |-> 0, gross |-> 0, net |-> 0, costs |-> 0,
     longPnl |-> 0, shortPnl |-> 0, peak |-> None, drawdown |-> 0,
     holding |-> 0, rCount |-> 0, rSum |-> 0, rWins |-> 0, rWinSum |-> 0,
     rLosses |-> 0, rLossSum |-> 0]

If(condition) == IF condition THEN 1 ELSE 0

HasRisk(trade) == trade.risk # None /\ trade.risk # 0

\* The P&L of a closed trade per unit of its initial risk; without one, nothing.
RealizedR(trade) ==
    IF HasRisk(trade) THEN (trade.realized * RUnit) \div trade.risk ELSE 0

\* book_fill: sums, then the realized-balance peak and drawdown along the path.
BookFill(acc, fill, direction) ==
    LET net == acc.net + fill.net
        balance == InitialBalance + net
        peak == Max({IF acc.peak = None THEN InitialBalance ELSE acc.peak, balance})
    IN  [acc EXCEPT !.gross = @ + fill.gross,
                    !.net = net,
                    !.costs = @ + (fill.gross - fill.net),
                    !.longPnl = IF direction = "long" THEN @ + fill.net ELSE @,
                    !.shortPnl = IF direction = "long" THEN @ ELSE @ + fill.net,
                    !.peak = peak,
                    !.drawdown = Max({@, peak - balance})]

\* book_trade_close: outcome, realized R and holding time.
BookTradeClose(acc, trade, exitTime) ==
    LET pnl == trade.realized
        r == RealizedR(trade)
    IN  [acc EXCEPT !.completed = @ + 1,
                    !.wins = @ + If(pnl > 0),
                    !.winPnl = @ + If(pnl > 0) * pnl,
                    !.losses = @ + If(pnl < 0),
                    !.lossPnl = @ + If(pnl < 0) * pnl,
                    !.rCount = @ + If(HasRisk(trade)),
                    !.rSum = @ + r,
                    !.rWins = @ + If(r > 0),
                    !.rWinSum = @ + If(r > 0) * r,
                    !.rLosses = @ + If(r < 0),
                    !.rLossSum = @ + If(r < 0) * r,
                    !.holding = @ + (exitTime - trade.entryTime)]

BookEveryExit(acc, booking) ==
    LET opened == [acc EXCEPT !.opened = @ + If(booking.fill.reason = "entry")]
        filled == BookFill(opened, booking.fill, booking.trade.direction)
    IN  IF booking.fill.reason # "entry"
          THEN BookTradeClose(filled, booking.trade, booking.fill.time)
          ELSE filled

\* What open_trade and close_trade book for one fill.
Book(acc, booking) ==
    LET opened == [acc EXCEPT !.opened = @ + If(booking.fill.reason = "entry")]
        filled == BookFill(opened, booking.fill, booking.trade.direction)
    IN  IF booking.trade.status = "closed"
          THEN BookTradeClose(filled, booking.trade, booking.fill.time)
          ELSE filled

\* The bookings of one operation, one after another.
BookAll(acc, bookings) ==
    LET booked[n \in 0 .. Len(bookings)] ==
          IF n = 0 THEN acc ELSE Book(booked[n - 1], bookings[n])
    IN  booked[Len(bookings)]

AccumulatorFromFills(trades, fills) ==
    LET replay(acc, k) == Book(acc, [fill |-> fills[k], trade |-> trades[fills[k].trade]])
    IN  FoldLeftDomain(replay, EmptyAccumulator, fills)

LastFill(fills, i) == Max({k \in DOMAIN fills : fills[k].trade = i})

\* One fill of the ledger booked again, with the close if it is its trade's last.
Rebook(acc, trades, fills, k) ==
    LET i == fills[k].trade
        filled == BookFill(acc, fills[k], trades[i].direction)
    IN  IF trades[i].status = "closed" /\ k = LastFill(fills, i)
          THEN BookTradeClose(filled, trades[i], fills[k].time)
          ELSE filled

\* build_accumulator_from_history: every trade is counted first, then the
\* ledger is booked in order.
AccumulatorFromHistory(trades, fills) ==
    LET rebuilt[k \in 0 .. Len(fills)] ==
          IF k = 0 THEN [EmptyAccumulator EXCEPT !.opened = Len(trades)]
          ELSE Rebook(rebuilt[k - 1], trades, fills, k)
    IN  rebuilt[Len(fills)]

\* calculate_stats: the accumulator plus the open trades' liquidation value.
Stats(acc, unrealized) ==
    LET equity == InitialBalance + acc.net + unrealized
        peak == IF acc.peak = None THEN InitialBalance ELSE Max({InitialBalance, acc.peak})
    IN  [opened |-> acc.opened, completed |-> acc.completed,
         wins |-> acc.wins, losses |-> acc.losses,
         winPnl |-> acc.winPnl, lossPnl |-> acc.lossPnl,
         gross |-> acc.gross, net |-> acc.net, costs |-> acc.costs,
         longPnl |-> acc.longPnl, shortPnl |-> acc.shortPnl,
         equity |-> equity, drawdown |-> Max({acc.drawdown, peak - equity}),
         rCount |-> acc.rCount, rSum |-> acc.rSum,
         rWins |-> acc.rWins, rWinSum |-> acc.rWinSum,
         rLosses |-> acc.rLosses, rLossSum |-> acc.rLossSum,
         holding |-> acc.holding]

\* The minutes a trade was held; none while it is.
Held(t) == IF t.exit = None THEN 0 ELSE t.exit.time - t.entryTime

\* calculate_stats_from_history: the same figures from every trade and fill.
StatsFromHistory(trades, fills, unrealized) ==
    LET closed == {i \in DOMAIN trades : trades[i].status = "closed"}
        wins == {i \in closed : trades[i].realized > 0}
        losses == {i \in closed : trades[i].realized < 0}
        risky == {i \in closed : HasRisk(trades[i])}
        r == [i \in DOMAIN trades |-> RealizedR(trades[i])]
        rWins == {i \in risky : r[i] > 0}
        rLosses == {i \in risky : r[i] < 0}
        long == {i \in DOMAIN trades : trades[i].direction = "long"}
        pnl == [i \in DOMAIN trades |-> trades[i].realized]
        gross == SumOf([k \in DOMAIN fills |-> fills[k].gross])
        nets == RunningSums([k \in DOMAIN fills |-> fills[k].net])
        n == Len(fills)
        equity == InitialBalance + nets[n] + unrealized
        curve == [k \in 0 .. n + 1 |-> IF k > n THEN equity ELSE InitialBalance + nets[k]]
        peak(k) == Max({0} \cup {curve[j] : j \in 0 .. k})
    IN  [opened |-> Len(trades), completed |-> Cardinality(closed),
         wins |-> Cardinality(wins), losses |-> Cardinality(losses),
         winPnl |-> SumOver(wins, pnl), lossPnl |-> SumOver(losses, pnl),
         gross |-> gross, net |-> nets[n], costs |-> gross - nets[n],
         longPnl |-> SumOver(long, pnl), shortPnl |-> SumOver(DOMAIN trades \ long, pnl),
         equity |-> equity,
         drawdown |-> Max({0} \cup {peak(k) - curve[k] : k \in DOMAIN curve}),
         rCount |-> Cardinality(risky), rSum |-> SumOver(risky, r),
         rWins |-> Cardinality(rWins), rWinSum |-> SumOver(rWins, r),
         rLosses |-> Cardinality(rLosses), rLossSum |-> SumOver(rLosses, r),
         holding |-> SumOver(closed, [i \in DOMAIN trades |-> Held(trades[i])])]
=============================================================================
