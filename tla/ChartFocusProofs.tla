-------------------------- MODULE ChartFocusProofs --------------------------
(***************************************************************************)
(* Proofs about ChartFocus.  A request asks for a trade that has closed,   *)
(* and of a closed trade nothing changes any more, whatever the session    *)
(* does: a window cut at any moment stays right, if it was right when it   *)
(* was cut.  Every change of the timeframe that this tab shows makes the   *)
(* requests under way old, so the one that is current was sent with the    *)
(* timeframe shown; only what the server shows may have gone on by the     *)
(* change whose answer is still under way.                                 *)
(*                                                                         *)
(* What a chart draws.  Bars stand for the candles that have been joined   *)
(* so far, and one candle more starts a bar or is merged into the last     *)
(* one.  The tail of the replay is a stretch of the candles wherever its   *)
(* two parts meet, so a chart stands for the last of them.  The average    *)
(* is warm since the bars before a candle hold no more candles than        *)
(* minutes.  A trade in focus without a window is within the live chart,   *)
(* as decided when the snapshot was rendered, hence among its candles or   *)
(* in the bar of the first.                                                *)
(***************************************************************************)
EXTENDS ChartFocus, ListingProofs, SequenceTheorems

\* The trade has closed and stays as it is.
Final(trade, s) == trade \in TradeRecords /\ trade.exit # None /\ s.trades[trade.id] = trade

\* Session n comes of s by requests.
Follows(s, n) ==
    /\ s.current <= n.current /\ Len(s.fills) <= Len(n.fills)
    /\ \A t \in Trades : s.trades[t] # None /\ s.trades[t].exit # None =>
          n.trades[t] = s.trades[t] /\ FillsOf(n, t) = FillsOf(s, t)

\* A window that is right as long as session s goes on.
WindowOK(w, s) ==
    /\ w \in WindowRecords /\ Final(w.trade, s)
    /\ s.current >= 0 /\ w.upto <= TimeOf(s)
    /\ \E i \in DOMAIN Candles : Candles[i].time = w.trade.entry
    /\ w.from <= w.trade.entry /\ w.trade.entry <= w.upto /\ w.upto - w.from < MaxBars
    /\ w.truncated \/ w.fills = FillsOf(s, w.trade.id)

SessionsOK ==
    /\ Orderly(session) /\ Orderly(shown) /\ Follows(shown, session)
    /\ answer # None => Orderly(answer) /\ Follows(shown, answer) /\ Follows(answer, session)
    /\ unseen \in BOOLEAN
    /\ unseen \/ session.minutes = IF answer = None THEN shown.minutes ELSE answer.minutes

\* The timeframe a window may have been drawn in, for the one shown.
Timely(w) == unseen \/ w.minutes \in {shown.minutes, session.minutes}

RequestOK(q) ==
    /\ q \in [generation : 1 .. generation, settings : Timeframes, trade : TradeRecords,
              reply : WindowRecords \cup {None}]
    /\ Final(q.trade, session)
    /\ q.reply # None => WindowOK(q.reply, session) /\ q.reply.trade = q.trade
    /\ q.generation = generation =>
          /\ focus # None /\ focus.trade = q.trade /\ q.settings = shown.minutes
          /\ q.reply # None => Timely(q.reply)

RequestsOK ==
    /\ generation \in Nat
    /\ \A q \in requests : RequestOK(q)
    /\ \A q, r \in requests : q.generation = r.generation => q = r

FocusOK ==
    focus # None =>
       /\ focus \in FocusRecords /\ Final(focus.trade, session)
       /\ focus.window # None <=> focus.status = "ready"
       /\ focus.window # None =>
             WindowOK(focus.window, session) /\ focus.window.trade = focus.trade /\ Timely(focus.window)
       /\ focus.status = "loading" => \E q \in requests : q.generation = generation

FocusInv == SessionsOK /\ RequestsOK /\ FocusOK
-----------------------------------------------------------------------------
(* Least and greatest numbers *)

\* Max and Min of a finite set of naturals that has an element.
LEMMA MaxIsGreatest ==
    ASSUME NEW S \in SUBSET Nat, IsFiniteSet(S), S # {}
    PROVE  Max(S) \in S /\ \A m \in S : m <= Max(S)
<1>1. \E n \in S : \A m \in S : n >= m
  <2>1. PICK n \in S : \A m \in S : m <= n
    BY GreatestNat
  <2> QED BY <2>1
<1>2. Max(S) \in S /\ \A m \in S : Max(S) >= m
  BY <1>1 DEF Max
<1> QED BY <1>2

\* The same of the least one.
LEMMA MinIsLeast ==
    ASSUME NEW S \in SUBSET Nat, S # {}
    PROVE  Min(S) \in S /\ \A m \in S : Min(S) <= m
<1>1. \E n \in S : \A m \in S : n <= m
  BY LeastNat
<1> QED BY <1>1 DEF Min

-----------------------------------------------------------------------------
(* Candles and the replay *)

\* The candles have natural times that ascend, and the replay is a part of them.
LEMMA CandlesAre ==
    /\ Candles \in Seq([time : Nat, open : Int, high : Int, low : Int, close : Int])
    /\ Len(Candles) \in Nat /\ DOMAIN Candles = 1 .. Len(Candles)
    /\ \A i \in DOMAIN Candles : Candles[i].time \in Nat
    /\ \A i, j \in DOMAIN Candles : i < j => Candles[i].time < Candles[j].time
    /\ \A i, j \in DOMAIN Candles : i <= j => Candles[i].time <= Candles[j].time
<1>1. /\ Candles \in Seq([time : Nat, open : Int, high : Int, low : Int, close : Int])
      /\ \A i, j \in DOMAIN Candles : i < j => Candles[i].time < Candles[j].time
  BY DisplayAssumption
<1>2. Len(Candles) \in Nat /\ DOMAIN Candles = 1 .. Len(Candles)
  BY <1>1, LenProperties
<1>3. ASSUME NEW i \in DOMAIN Candles PROVE Candles[i].time \in Nat
  <2>1. Candles[i] \in [time : Nat, open : Int, high : Int, low : Int, close : Int]
    BY <1>1, <1>2, ElementOfSeq
  <2> QED BY <2>1
<1>4. ASSUME NEW i \in DOMAIN Candles, NEW j \in DOMAIN Candles, i <= j
      PROVE  Candles[i].time <= Candles[j].time
  <2>1. Candles[i].time \in Nat /\ Candles[j].time \in Nat /\ i \in Int /\ j \in Int
    BY <1>2, <1>3
  <2>2. CASE i = j
    BY <2>1, <2>2
  <2>3. CASE i < j
    <3>1. Candles[i].time < Candles[j].time
      BY <1>1, <2>3
    <3> QED BY <2>1, <3>1
  <2> QED BY <1>4, <2>1, <2>2, <2>3
<1> QED BY <1>1, <1>2, <1>3, <1>4

\* The replay is a stretch of the candles, so its times ascend too.
LEMMA ReplayIs ==
    /\ Len(replay) \in Nat /\ DOMAIN replay = 1 .. Len(replay)
    /\ \A i \in DOMAIN replay : \E j \in DOMAIN Candles : replay[i] = Candles[j]
    /\ \A i \in DOMAIN replay : replay[i].time \in Nat
    /\ \A i, j \in DOMAIN replay : i <= j => replay[i].time <= replay[j].time
<1>1. /\ First \in 1 .. Len(Candles) /\ Last1m \in First .. Len(Candles) /\ Len(Candles) \in Nat
  BY DisplayAssumption, CandlesAre
<1>2. /\ Len(replay) = Last1m - First + 1
      /\ \A i \in 1 .. Last1m - First + 1 : replay[i] = Candles[First + i - 1]
  BY <1>1, CandlesAre, SubSeqProperties DEF replay
<1>3. DOMAIN replay = 1 .. Len(replay) /\ Len(replay) \in Nat
  BY <1>1, CandlesAre, SubSeqProperties, LenProperties DEF replay
<1>4. ASSUME NEW i \in DOMAIN replay
      PROVE  First + i - 1 \in DOMAIN Candles /\ replay[i] = Candles[First + i - 1]
  <2>1. i \in 1 .. Last1m - First + 1
    BY <1>2, <1>3
  <2>2. First + i - 1 \in 1 .. Len(Candles)
    BY <1>1, <2>1
  <2> QED BY <1>2, <2>1, <2>2, CandlesAre
<1>5. \A i, j \in DOMAIN replay : i <= j => First + i - 1 <= First + j - 1
  BY <1>1, <1>3
<1> QED BY <1>3, <1>4, <1>5, CandlesAre

\* The time of a session whose replay has begun is that of a candle.
LEMMA TimeIs ==
    ASSUME NEW s \in Snapshots, s.current >= 0
    PROVE  /\ TimeOf(s) \in Nat /\ s.current \in Nat
           /\ \E i \in DOMAIN replay : TimeOf(s) = replay[i].time
           /\ \E i \in DOMAIN Candles : TimeOf(s) = Candles[i].time
<1>1. s.current \in Nat /\ s.current + 1 \in DOMAIN replay
  BY ReplayIs DEF Snapshots
<1> QED BY <1>1, ReplayIs DEF TimeOf

\* Time does not run backwards.
LEMMA TimeGoesOn ==
    ASSUME NEW s \in Snapshots, NEW n \in Snapshots, s.current >= 0, s.current <= n.current
    PROVE  n.current >= 0 /\ TimeOf(s) <= TimeOf(n)
<1>1. s.current + 1 \in DOMAIN replay /\ n.current + 1 \in DOMAIN replay /\ s.current + 1 <= n.current + 1
  BY ReplayIs DEF Snapshots
<1>2. n.current >= 0
  BY DEF Snapshots
<1> QED BY <1>1, <1>2, ReplayIs DEF TimeOf

-----------------------------------------------------------------------------
(* What requests do to a session *)

\* A session goes on in order when fills of the present are added to its ledger,
\* to trades that have not closed.
LEMMA Grows ==
    ASSUME NEW s, NEW n \in Snapshots, NEW more \in Seq(FillRecords), Orderly(s),
           s.current <= n.current, n.fills = s.fills \o more,
           \A t \in Trades : s.trades[t] # None =>
              /\ n.trades[t] # None /\ n.trades[t].id = t /\ n.trades[t].entry = s.trades[t].entry
              /\ s.trades[t].exit # None =>
                    n.trades[t] = s.trades[t] /\ \A k \in DOMAIN more : more[k].trade # t,
           \A t \in Trades : s.trades[t] = None /\ n.trades[t] # None =>
              /\ n.trades[t].id = t /\ n.trades[t].entry = TimeOf(n)
              /\ \E k \in DOMAIN more : more[k].trade = t,
           \A k \in DOMAIN more : /\ n.current >= 0 /\ n.trades[more[k].trade] # None
                                  /\ more[k].anchor = TimeOf(n)
    PROVE  Orderly(n) /\ Follows(s, n)
<1>1. s \in Snapshots /\ s.fills \in Seq(FillRecords)
  BY DEF Orderly, Snapshots
<1>2. /\ Len(s.fills) \in Nat /\ Len(more) \in Nat /\ Len(n.fills) = Len(s.fills) + Len(more)
      /\ DOMAIN s.fills = 1 .. Len(s.fills) /\ DOMAIN more = 1 .. Len(more)
      /\ DOMAIN n.fills = 1 .. Len(s.fills) + Len(more)
      /\ \A k \in DOMAIN s.fills : n.fills[k] = s.fills[k]
      /\ \A k \in DOMAIN more : n.fills[Len(s.fills) + k] = more[k]
  BY <1>1, ConcatProperties, LenProperties
<1>3. \A k \in DOMAIN n.fills :
         \/ k \in DOMAIN s.fills
         \/ \E j \in DOMAIN more : k = Len(s.fills) + j
  <2> SUFFICES ASSUME NEW k \in DOMAIN n.fills, k \notin DOMAIN s.fills
               PROVE  k - Len(s.fills) \in DOMAIN more /\ k = Len(s.fills) + (k - Len(s.fills))
    OBVIOUS
  <2> QED BY <1>2
<1>4. ASSUME NEW k \in DOMAIN s.fills
      PROVE  s.fills[k].trade \in Trades /\ s.fills[k].anchor \in Nat
  <2>1. s.fills[k] \in FillRecords
    BY <1>1, <1>2, ElementOfSeq
  <2> QED BY <2>1 DEF FillRecords
<1>5. ASSUME NEW k \in DOMAIN more PROVE more[k].trade \in Trades
  <2>1. more[k] \in FillRecords
    BY <1>2, ElementOfSeq
  <2> QED BY <2>1 DEF FillRecords
<1>6. ASSUME NEW t \in Trades, n.trades[t] # None
      PROVE  /\ n.current >= 0 /\ n.trades[t].id = t
             /\ \E i \in DOMAIN replay : replay[i].time = n.trades[t].entry
             /\ \E k \in DOMAIN n.fills : n.fills[k].trade = t
  <2>1. CASE s.trades[t] # None
    <3>1. /\ s.current >= 0 /\ \E i \in DOMAIN replay : replay[i].time = s.trades[t].entry
          /\ \E k \in DOMAIN s.fills : s.fills[k].trade = t
      BY <2>1 DEF Orderly
    <3>2. DOMAIN s.fills \subseteq DOMAIN n.fills
      BY <1>2
    <3> QED BY <1>1, <1>2, <2>1, <3>1, <3>2, TimeGoesOn
  <2>2. CASE s.trades[t] = None
    <3>1. PICK k \in DOMAIN more : more[k].trade = t
      BY <1>6, <2>2
    <3>2. Len(s.fills) + k \in DOMAIN n.fills
      BY <1>2
    <3>3. n.current >= 0 /\ n.trades[t].id = t /\ n.trades[t].entry = TimeOf(n)
      BY <1>6, <2>2, <3>1
    <3>4. \E i \in DOMAIN replay : TimeOf(n) = replay[i].time
      BY <3>3, TimeIs
    <3> QED BY <1>2, <3>1, <3>2, <3>3, <3>4
  <2> QED BY <2>1, <2>2
<1>7. ASSUME NEW k \in DOMAIN n.fills
      PROVE  /\ n.trades[n.fills[k].trade] # None
             /\ n.trades[n.fills[k].trade].entry <= n.fills[k].anchor /\ n.fills[k].anchor <= TimeOf(n)
  <2>1. CASE k \in DOMAIN s.fills
    <3> DEFINE t == s.fills[k].trade
    <3>1. /\ t \in Trades /\ s.trades[t] # None
          /\ s.trades[t].entry <= s.fills[k].anchor /\ s.fills[k].anchor <= TimeOf(s)
      BY <1>4, <2>1 DEF Orderly
    <3>2. s.current >= 0
      BY <3>1 DEF Orderly
    <3>3. TimeOf(s) <= TimeOf(n) /\ TimeOf(s) \in Nat /\ TimeOf(n) \in Nat
      BY <1>1, <3>2, TimeGoesOn, TimeIs
    <3>4. s.fills[k].anchor \in Nat /\ n.fills[k] = s.fills[k]
      BY <1>2, <1>4, <2>1
    <3>5. n.trades[t] # None /\ n.trades[t].entry = s.trades[t].entry
      BY <3>1
    <3> HIDE DEF t
    <3>6. n.fills[k].trade = t
      BY <3>4 DEF t
    <3> QED BY <3>1, <3>3, <3>4, <3>5, <3>6
  <2>2. CASE k \notin DOMAIN s.fills
    <3>1. PICK j \in DOMAIN more : k = Len(s.fills) + j
      BY <1>3, <2>2
    <3> DEFINE t == more[j].trade
    <3>2. n.fills[k] = more[j] /\ t \in Trades /\ n.current >= 0 /\ n.trades[t] # None /\ more[j].anchor = TimeOf(n)
      BY <1>2, <1>5, <3>1
    <3>3. TimeOf(n) \in Nat
      BY <3>2, TimeIs
    <3>4. n.trades[t].entry <= TimeOf(n)
      <4>1. CASE s.trades[t] = None
        <5>1. n.trades[t].entry = TimeOf(n)
          BY <3>2, <4>1
        <5> QED BY <3>3, <5>1
      <4>2. CASE s.trades[t] # None
        <5>1. PICK i \in DOMAIN s.fills : s.fills[i].trade = t
          BY <3>2, <4>2 DEF Orderly
        <5>2. s.trades[t].entry <= s.fills[i].anchor /\ s.fills[i].anchor <= TimeOf(s) /\ s.current >= 0
          BY <3>2, <4>2, <5>1 DEF Orderly
        <5>3. TimeOf(s) <= TimeOf(n) /\ TimeOf(s) \in Nat /\ s.fills[i].anchor \in Nat
          BY <1>1, <1>4, <5>2, TimeGoesOn, TimeIs
        <5>4. n.trades[t].entry = s.trades[t].entry /\ s.trades[t].entry \in Nat
          BY <1>1, <3>2, <4>2 DEF Snapshots, TradeRecords
        <5> QED BY <3>3, <5>2, <5>3, <5>4
      <4> QED BY <4>1, <4>2
    <3> QED BY <3>2, <3>3, <3>4
  <2> QED BY <2>1, <2>2
<1>8. Orderly(n)
  BY <1>6, <1>7 DEF Orderly
<1>9. ASSUME NEW t \in Trades, s.trades[t] # None, s.trades[t].exit # None
      PROVE  n.trades[t] = s.trades[t] /\ FillsOf(n, t) = FillsOf(s, t)
  <2>1. n.trades[t] = s.trades[t] /\ \A k \in DOMAIN more : more[k].trade # t
    BY <1>9
  <2>2. DOMAIN s.fills \subseteq DOMAIN n.fills
    BY <1>2
  <2> QED BY <1>2, <1>3, <2>1, <2>2 DEF FillsOf
<1>10. Len(s.fills) <= Len(n.fills)
  BY <1>2
<1> QED BY <1>8, <1>9, <1>10 DEF Follows

\* A fill is added.
LEMMA FilledIs ==
    ASSUME NEW s \in Snapshots, s.current >= 0, NEW t \in Trades, NEW reason \in {"entry", "manual", "stop"}
    PROVE  /\ Filled(s, t, reason) \in Snapshots
           /\ Filled(s, t, reason).current = s.current /\ Filled(s, t, reason).trades = s.trades
           /\ <<[trade |-> t, anchor |-> TimeOf(s), reason |-> reason]>> \in Seq(FillRecords)
           /\ Filled(s, t, reason).fills
                = s.fills \o <<[trade |-> t, anchor |-> TimeOf(s), reason |-> reason]>>
<1> DEFINE f == [trade |-> t, anchor |-> TimeOf(s), reason |-> reason]
<1>1. f \in FillRecords
  BY TimeIs DEF FillRecords
<1>2. s.fills \in Seq(FillRecords)
  BY DEF Snapshots
<1>3. <<f>> \in Seq(FillRecords)
  BY <1>1
<1>4. Append(s.fills, f) \in Seq(FillRecords) /\ Append(s.fills, f) = s.fills \o <<f>>
  BY <1>1, <1>2, AppendProperties, AppendIsConcat
<1>5. Filled(s, t, reason) = [s EXCEPT !.fills = Append(s.fills, f)]
  BY DEF Filled
<1> HIDE DEF f
<1>6. Filled(s, t, reason) \in Snapshots
  BY <1>4, <1>5 DEF Snapshots
<1>7. /\ Filled(s, t, reason).current = s.current /\ Filled(s, t, reason).trades = s.trades
      /\ Filled(s, t, reason).fills = Append(s.fills, f)
  BY <1>5 DEF Snapshots
<1> QED BY <1>3, <1>4, <1>6, <1>7 DEF f

\* The record of a trade changes.
LEMMA TradeSet ==
    ASSUME NEW s \in Snapshots, NEW t \in Trades, NEW r \in TradeRecords
    PROVE  /\ [s EXCEPT !.trades[t] = r] \in Snapshots
           /\ [s EXCEPT !.trades[t] = r].current = s.current
           /\ [s EXCEPT !.trades[t] = r].fills = s.fills
           /\ [s EXCEPT !.trades[t] = r].trades = [s.trades EXCEPT ![t] = r]
BY DEF Snapshots

\* A trade is opened, closed partly, or closed.
LEMMA EnteredIs ==
    ASSUME NEW s, Orderly(s), s.current >= 0, NEW t \in Trades, s.trades[t] = None
    PROVE  Orderly(Entered(s, t)) /\ Follows(s, Entered(s, t))
<1> DEFINE r == [id |-> t, entry |-> TimeOf(s), exit |-> None]
           m == Filled(s, t, "entry")
           n == Entered(s, t)
           more == <<[trade |-> t, anchor |-> TimeOf(s), reason |-> "entry"]>>
<1>1. s \in Snapshots
  BY DEF Orderly
<1>2. r \in TradeRecords /\ r # None
  BY <1>1, TimeIs, FocusAssumption DEF TradeRecords
<1>3. /\ m \in Snapshots /\ m.current = s.current /\ m.trades = s.trades
      /\ more \in Seq(FillRecords) /\ m.fills = s.fills \o more
  BY <1>1, FilledIs
<1>4. n = [m EXCEPT !.trades[t] = r]
  BY DEF Entered
<1>5. DOMAIN more = {1} /\ more[1].trade = t /\ more[1].anchor = TimeOf(s)
  OBVIOUS
<1>6. r.id = t /\ r.entry = TimeOf(s)
  OBVIOUS
<1> HIDE DEF r, m, more, n
<1>7. /\ n \in Snapshots /\ n.current = s.current /\ n.fills = s.fills \o more
      /\ n.trades = [s.trades EXCEPT ![t] = r]
  BY <1>2, <1>3, <1>4, TradeSet
<1>8. TimeOf(n) = TimeOf(s) /\ s.current <= n.current
  BY <1>1, <1>7 DEF TimeOf, Snapshots
<1>9. s.trades \in [Trades -> TradeRecords \cup {None}]
  BY <1>1 DEF Snapshots
<1>10. /\ n.trades[t] = r /\ \A u \in Trades : u # t => n.trades[u] = s.trades[u]
       /\ \A u \in Trades : s.trades[u] # None => u # t /\ s.trades[u].id = u
  BY <1>7, <1>9 DEF Orderly
<1>11. \A u \in Trades : s.trades[u] # None =>
          /\ n.trades[u] # None /\ n.trades[u].id = u /\ n.trades[u].entry = s.trades[u].entry
          /\ s.trades[u].exit # None =>
                n.trades[u] = s.trades[u] /\ \A k \in DOMAIN more : more[k].trade # u
  BY <1>5, <1>10
<1>12. \A u \in Trades : s.trades[u] = None /\ n.trades[u] # None =>
          /\ n.trades[u].id = u /\ n.trades[u].entry = TimeOf(n)
          /\ \E k \in DOMAIN more : more[k].trade = u
  BY <1>5, <1>6, <1>8, <1>10
<1>13. \A k \in DOMAIN more : /\ n.current >= 0 /\ n.trades[more[k].trade] # None
                              /\ more[k].anchor = TimeOf(n)
  BY <1>2, <1>5, <1>7, <1>8, <1>10
<1>14. Orderly(n) /\ Follows(s, n)
  BY <1>3, <1>7, <1>8, <1>11, <1>12, <1>13, Grows
<1> QED BY <1>14 DEF n

\* A fill on an open trade, which stays open.
LEMMA FilledOnIs ==
    ASSUME NEW s, Orderly(s), NEW t \in Trades, IsOpen(s, t)
    PROVE  Orderly(Filled(s, t, "manual")) /\ Follows(s, Filled(s, t, "manual"))
<1> DEFINE n == Filled(s, t, "manual")
           more == <<[trade |-> t, anchor |-> TimeOf(s), reason |-> "manual"]>>
<1>1. s \in Snapshots /\ s.current >= 0 /\ s.trades[t] # None /\ s.trades[t].exit = None
  BY DEF Orderly, IsOpen
<1>2. /\ n \in Snapshots /\ n.current = s.current /\ n.trades = s.trades
      /\ more \in Seq(FillRecords) /\ n.fills = s.fills \o more
  BY <1>1, FilledIs
<1>3. DOMAIN more = {1} /\ more[1].trade = t /\ more[1].anchor = TimeOf(s)
  OBVIOUS
<1> HIDE DEF more, n
<1>4. TimeOf(n) = TimeOf(s) /\ s.current <= n.current
  BY <1>1, <1>2 DEF TimeOf, Snapshots
<1>5. \A u \in Trades : s.trades[u] # None => s.trades[u].id = u
  BY DEF Orderly
<1>6. Orderly(n) /\ Follows(s, n)
  BY <1>1, <1>2, <1>3, <1>4, <1>5, Grows
<1> QED BY <1>6 DEF n

\* A trade closes.
LEMMA ExitedIs ==
    ASSUME NEW s, Orderly(s), NEW t \in Trades, IsOpen(s, t)
    PROVE  Orderly(Exited(s, t)) /\ Follows(s, Exited(s, t))
<1> DEFINE r == [s.trades[t] EXCEPT !.exit = TimeOf(s) + 1]
           m == Filled(s, t, "manual")
           n == Exited(s, t)
           more == <<[trade |-> t, anchor |-> TimeOf(s), reason |-> "manual"]>>
<1>1. s \in Snapshots /\ s.current >= 0 /\ s.trades[t] # None /\ s.trades[t].exit = None
  BY DEF Orderly, IsOpen
<1>2. s.trades \in [Trades -> TradeRecords \cup {None}] /\ s.trades[t] \in TradeRecords
  BY <1>1 DEF Snapshots
<1>3. r \in TradeRecords /\ r.id = s.trades[t].id /\ r.entry = s.trades[t].entry
  BY <1>1, <1>2, TimeIs DEF TradeRecords
<1>4. r # None
  BY <1>3, FocusAssumption
<1>5. /\ m \in Snapshots /\ m.current = s.current /\ m.trades = s.trades
      /\ more \in Seq(FillRecords) /\ m.fills = s.fills \o more
  BY <1>1, FilledIs
<1>6. n = [m EXCEPT !.trades[t] = r]
  <2>1. n = [m EXCEPT !.trades[t].exit = TimeOf(s) + 1]
    BY DEF Exited
  <2>2. n = [m EXCEPT !.trades[t] = [m.trades[t] EXCEPT !.exit = TimeOf(s) + 1]]
    BY <1>5, <2>1 DEF Snapshots
  <2> QED BY <1>5, <2>2
<1>7. DOMAIN more = {1} /\ more[1].trade = t /\ more[1].anchor = TimeOf(s)
  OBVIOUS
<1> HIDE DEF r, m, more, n
<1>8. /\ n \in Snapshots /\ n.current = s.current /\ n.fills = s.fills \o more
      /\ n.trades = [s.trades EXCEPT ![t] = r]
  BY <1>3, <1>5, <1>6, TradeSet
<1>9. TimeOf(n) = TimeOf(s) /\ s.current <= n.current
  BY <1>1, <1>8 DEF TimeOf, Snapshots
<1>10. /\ n.trades[t] = r /\ \A u \in Trades : u # t => n.trades[u] = s.trades[u]
       /\ \A u \in Trades : s.trades[u] # None => s.trades[u].id = u
  BY <1>2, <1>8 DEF Orderly
<1>11. \A u \in Trades : s.trades[u] # None =>
          /\ n.trades[u] # None /\ n.trades[u].id = u /\ n.trades[u].entry = s.trades[u].entry
          /\ s.trades[u].exit # None =>
                n.trades[u] = s.trades[u] /\ \A k \in DOMAIN more : more[k].trade # u
  BY <1>1, <1>3, <1>4, <1>7, <1>10
<1>12. \A k \in DOMAIN more : /\ n.current >= 0 /\ n.trades[more[k].trade] # None
                              /\ more[k].anchor = TimeOf(n)
  BY <1>1, <1>4, <1>7, <1>8, <1>9, <1>10
<1>13. \A u \in Trades : s.trades[u] = None => n.trades[u] = None
  BY <1>1, <1>10
<1>14. Orderly(n) /\ Follows(s, n)
  BY <1>5, <1>8, <1>9, <1>11, <1>12, <1>13, Grows
<1> QED BY <1>14 DEF n

\* The next candle hits the exits of some trades.
LEMMA HitIs ==
    ASSUME NEW s, Orderly(s), s.current + 1 < Len(replay),
           NEW T \in SUBSET {t \in Trades : IsOpen(s, t)}
    PROVE  LET n == Hit([s EXCEPT !.current = @ + 1], T)
           IN  Orderly(n) /\ Follows(s, n)
<1> DEFINE m == [s EXCEPT !.current = @ + 1]
           n == Hit(m, T)
           more == [k \in 1 .. Cardinality(T) |->
                      [trade |-> Ascending(T)[k], anchor |-> TimeOf(m), reason |-> "stop"]]
           marked == [t \in Trades |-> IF t \in T THEN [m.trades[t] EXCEPT !.exit = TimeOf(m)]
                                       ELSE m.trades[t]]
<1>1. s \in Snapshots
  BY DEF Orderly
<1>2. /\ m \in Snapshots /\ m.current = s.current + 1 /\ m.current >= 0
      /\ m.trades = s.trades /\ m.fills = s.fills
  BY <1>1, ReplayIs DEF Snapshots
<1>3. T \in SUBSET Trades /\ T \in SUBSET Nat /\ IsFiniteSet(T)
  BY FocusAssumption, FS_Subset
<1>4. /\ Cardinality(T) \in Nat
      /\ \A k \in 1 .. Cardinality(T) : Ascending(T)[k] \in T
  <2>1. Ascending(T) \in Seq(T) /\ Len(Ascending(T)) = Cardinality(T)
    BY <1>3, AscendingLists
  <2> QED BY <1>3, <2>1, ElementOfSeq, FS_CardinalityType
<1>5. TimeOf(m) \in Nat
  BY <1>2, TimeIs
<1>6. more \in Seq(FillRecords)
  <2>1. ASSUME NEW k \in 1 .. Cardinality(T)
        PROVE  [trade |-> Ascending(T)[k], anchor |-> TimeOf(m), reason |-> "stop"] \in FillRecords
    BY <1>3, <1>4, <1>5 DEF FillRecords
  <2>2. more \in [1 .. Cardinality(T) -> FillRecords]
    BY <2>1
  <2> HIDE DEF more
  <2> QED BY <1>4, <2>2, SeqDef
<1>7. DOMAIN more = 1 .. Cardinality(T) /\ \A k \in DOMAIN more : more[k].trade \in T /\ more[k].anchor = TimeOf(m)
  BY <1>4
<1>8. s.trades \in [Trades -> TradeRecords \cup {None}]
  BY <1>1 DEF Snapshots
<1>9. ASSUME NEW t \in T
      PROVE  /\ s.trades[t] \in TradeRecords /\ s.trades[t] # None /\ s.trades[t].exit = None
             /\ marked[t] \in TradeRecords /\ marked[t].id = s.trades[t].id
             /\ marked[t].entry = s.trades[t].entry
  <2>1. t \in Trades /\ s.trades[t] # None /\ s.trades[t].exit = None
    BY DEF IsOpen
  <2>2. s.trades[t] \in TradeRecords
    BY <1>8, <2>1
  <2>3. marked[t] = [s.trades[t] EXCEPT !.exit = TimeOf(m)]
    BY <1>2, <2>1
  <2> HIDE DEF marked, m
  <2> QED BY <1>5, <2>1, <2>2, <2>3 DEF TradeRecords
<1>10. \A t \in Trades : t \notin T => marked[t] = s.trades[t]
  BY <1>2
<1>11. marked \in [Trades -> TradeRecords \cup {None}]
  <2>1. \A t \in Trades : marked[t] \in TradeRecords \cup {None}
    BY <1>8, <1>9, <1>10
  <2> QED BY <2>1
<1>12. n = [m EXCEPT !.fills = m.fills \o more, !.trades = marked]
  BY DEF Hit
<1> HIDE DEF n, m, more, marked
<1>13. s.fills \o more \in Seq(FillRecords)
  BY <1>1, <1>6, ConcatProperties DEF Snapshots
<1>14. /\ n \in Snapshots /\ n.current = m.current /\ n.fills = s.fills \o more /\ n.trades = marked
  BY <1>2, <1>11, <1>12, <1>13 DEF Snapshots
<1>15. TimeOf(n) = TimeOf(m) /\ s.current <= n.current /\ n.current >= 0
  BY <1>1, <1>2, <1>14 DEF TimeOf, Snapshots
<1>16. \A t \in T : marked[t] # None
  BY <1>9, FocusAssumption
<1>17. \A t \in Trades : s.trades[t] # None =>
          /\ n.trades[t] # None /\ n.trades[t].id = t /\ n.trades[t].entry = s.trades[t].entry
          /\ s.trades[t].exit # None =>
                n.trades[t] = s.trades[t] /\ \A k \in DOMAIN more : more[k].trade # t
  <2>1. \A t \in Trades : s.trades[t] # None => s.trades[t].id = t
    BY DEF Orderly
  <2> QED BY <1>7, <1>9, <1>10, <1>14, <1>16, <2>1
<1>18. \A t \in Trades : s.trades[t] = None => n.trades[t] = None
  BY <1>9, <1>10, <1>14
<1>19. \A k \in DOMAIN more : /\ n.current >= 0 /\ n.trades[more[k].trade] # None
                              /\ more[k].anchor = TimeOf(n)
  BY <1>7, <1>14, <1>15, <1>16
<1>20. Orderly(n) /\ Follows(s, n)
  BY <1>6, <1>14, <1>15, <1>17, <1>18, <1>19, Grows
<1> QED BY <1>20 DEF n, m

\* The timeframe changes.
LEMMA ChangedIs ==
    ASSUME NEW s, Orderly(s), NEW x \in Timeframes
    PROVE  LET n == [s EXCEPT !.minutes = x, !.changes = @ + 1]
           IN  Orderly(n) /\ Follows(s, n)
<1> DEFINE n == [s EXCEPT !.minutes = x, !.changes = @ + 1]
<1>1. s \in Snapshots
  BY DEF Orderly
<1>2. n \in Snapshots /\ n.current = s.current /\ n.trades = s.trades /\ n.fills = s.fills
  <2>1. s.changes + 1 \in Nat
    BY <1>1 DEF Snapshots
  <2>2. [s EXCEPT !.minutes = x, !.changes = s.changes + 1] \in Snapshots
    BY <1>1, <2>1 DEF Snapshots
  <2> QED BY <1>1, <2>2 DEF Snapshots
<1> HIDE DEF n
<1>3. <<>> \in Seq(FillRecords) /\ n.fills = s.fills \o <<>> /\ DOMAIN <<>> = {}
  BY <1>1, <1>2, EmptySeq, ConcatEmptySeq DEF Snapshots
<1>4. s.current <= n.current
  BY <1>1, <1>2 DEF Snapshots
<1>5. \A t \in Trades : s.trades[t] # None => s.trades[t].id = t
  BY DEF Orderly
<1>6. Orderly(n) /\ Follows(s, n)
  BY <1>2, <1>3, <1>4, <1>5, Grows
<1> QED BY <1>6 DEF n

\* Whatever a request does to a session, the session stays in order.
LEMMA OutcomeIs ==
    ASSUME NEW s, Orderly(s), NEW n \in Outcomes(s)
    PROVE  Orderly(n) /\ Follows(s, n)
<1>1. CASE n \in Revealed(s)
  <2>1. s.current + 1 < Len(replay)
    BY <1>1, ReplayIs DEF Revealed, Orderly, Snapshots
  <2>2. PICK T \in SUBSET {t \in Trades : IsOpen(s, t)} : n = Hit([s EXCEPT !.current = @ + 1], T)
    BY <1>1, <2>1 DEF Revealed
  <2> QED BY <2>1, <2>2, HitIs
<1>2. CASE n \in Ordered(s)
  <2>1. s.current >= 0
    BY <1>2 DEF Ordered, Orderly, Snapshots
  <2>2. PICK t \in Trades : (\A v \in Trades : s.trades[v] = None <=> v >= t) /\ n = Entered(s, t)
    BY <1>2 DEF Ordered
  <2>3. s.trades[t] = None
    BY <2>2, FocusAssumption
  <2> QED BY <2>1, <2>2, <2>3, EnteredIs
<1>3. CASE n \in Closed(s)
  BY <1>3, FilledOnIs, ExitedIs DEF Closed
<1>4. CASE n \in Changed(s)
  BY <1>4, ChangedIs DEF Changed
<1> QED BY <1>1, <1>2, <1>3, <1>4 DEF Outcomes

\* A session comes of itself.
LEMMA FollowsItself ==
    ASSUME NEW s \in Snapshots
    PROVE  Follows(s, s)
<1>1. s.current \in Int /\ Len(s.fills) \in Nat
  BY LenProperties DEF Snapshots
<1> QED BY <1>1 DEF Follows

\* A session that comes of one that comes of the first comes of the first.
LEMMA FollowsFurther ==
    ASSUME NEW a \in Snapshots, NEW b \in Snapshots, NEW c \in Snapshots, Follows(a, b), Follows(b, c)
    PROVE  Follows(a, c)
<1>1. /\ a.current \in Int /\ b.current \in Int /\ c.current \in Int
      /\ Len(a.fills) \in Nat /\ Len(b.fills) \in Nat /\ Len(c.fills) \in Nat
  BY LenProperties DEF Snapshots
<1> QED BY <1>1 DEF Follows

\* What is final stays so.
LEMMA FinalStays ==
    ASSUME NEW s \in Snapshots, NEW n \in Snapshots, Follows(s, n), NEW trade, Final(trade, s)
    PROVE  Final(trade, n) /\ FillsOf(n, trade.id) = FillsOf(s, trade.id)
<1>1. trade.id \in Trades /\ trade # None
  BY FocusAssumption DEF Final, TradeRecords
<1> QED BY <1>1 DEF Final, Follows

\* A window that is right stays right while the session goes on.
LEMMA WindowStays ==
    ASSUME NEW s \in Snapshots, NEW n \in Snapshots, Follows(s, n), NEW w, WindowOK(w, s)
    PROVE  WindowOK(w, n)
<1>1. s.current >= 0 /\ s.current <= n.current /\ w.upto \in Int /\ w.upto <= TimeOf(s)
  BY DEF WindowOK, WindowRecords, Follows
<1>2. n.current >= 0 /\ TimeOf(s) <= TimeOf(n) /\ TimeOf(s) \in Nat /\ TimeOf(n) \in Nat
  BY <1>1, TimeGoesOn, TimeIs
<1>3. w.upto <= TimeOf(n)
  BY <1>1, <1>2
<1>4. Final(w.trade, n) /\ FillsOf(n, w.trade.id) = FillsOf(s, w.trade.id)
  BY FinalStays DEF WindowOK
<1> QED BY <1>2, <1>3, <1>4 DEF WindowOK

-----------------------------------------------------------------------------
(* The window of a trade *)

\* The fills of a trade that has been entered lie between its entry and AnchorEnd.
LEMMA AnchorIs ==
    ASSUME NEW s, Orderly(s), NEW t \in Trades, s.trades[t] # None
    PROVE  /\ AnchorEnd(s, s.trades[t]) \in Nat /\ s.trades[t].entry \in Nat
           /\ s.trades[t].entry <= AnchorEnd(s, s.trades[t])
           /\ s.current >= 0 /\ AnchorEnd(s, s.trades[t]) <= TimeOf(s)
           /\ \A k \in FillsOf(s, t) : /\ s.fills[k].anchor \in Nat
                                       /\ s.trades[t].entry <= s.fills[k].anchor
                                       /\ s.fills[k].anchor <= AnchorEnd(s, s.trades[t])
<1> DEFINE tr == s.trades[t]
           anchors == {s.fills[k].anchor : k \in FillsOf(s, t)}
<1>1. s \in Snapshots /\ s.current >= 0 /\ tr.id = t /\ \E k \in DOMAIN s.fills : s.fills[k].trade = t
  BY DEF Orderly
<1>2. tr \in TradeRecords /\ tr.entry \in Nat
  BY <1>1 DEF Snapshots, TradeRecords
<1>3. TimeOf(s) \in Nat
  BY <1>1, TimeIs
<1>4. s.fills \in Seq(FillRecords) /\ Len(s.fills) \in Nat /\ DOMAIN s.fills = 1 .. Len(s.fills)
  BY <1>1, LenProperties DEF Snapshots
<1>5. ASSUME NEW k \in FillsOf(s, t)
      PROVE  /\ s.fills[k].anchor \in Nat /\ tr.entry <= s.fills[k].anchor
             /\ s.fills[k].anchor <= TimeOf(s)
  <2>1. k \in DOMAIN s.fills /\ s.fills[k].trade = t
    BY DEF FillsOf
  <2>2. s.fills[k] \in FillRecords
    BY <1>4, <2>1, ElementOfSeq
  <2> QED BY <2>1, <2>2 DEF FillRecords, Orderly
<1>6. IsFiniteSet(FillsOf(s, t)) /\ FillsOf(s, t) # {}
  <2>1. FillsOf(s, t) \subseteq 1 .. Len(s.fills)
    BY <1>4 DEF FillsOf
  <2>2. IsFiniteSet(1 .. Len(s.fills))
    BY <1>4, FS_Interval
  <2> QED BY <1>1, <2>1, <2>2, FS_Subset DEF FillsOf
<1>7. IsFiniteSet(anchors) /\ anchors # {} /\ anchors \in SUBSET Nat
  <2>1. anchors \subseteq 0 .. TimeOf(s)
    BY <1>3, <1>5
  <2>2. IsFiniteSet(0 .. TimeOf(s))
    BY <1>3, FS_Interval
  <2>3. IsFiniteSet(anchors)
    BY <2>1, <2>2, FS_Subset
  <2>4. anchors # {}
    BY <1>6
  <2>5. anchors \in SUBSET Nat
    BY <1>5
  <2> QED BY <2>3, <2>4, <2>5
<1>8. Max(anchors) \in anchors /\ \A m \in anchors : m <= Max(anchors)
  BY <1>7, MaxIsGreatest
<1> DEFINE latest == Max(anchors)
<1>9. latest \in Nat /\ tr.entry <= latest /\ \A k \in FillsOf(s, t) : s.fills[k].anchor <= latest
  BY <1>5, <1>8
<1> HIDE DEF latest
<1>10. AnchorEnd(s, tr) = IF tr.exit = None THEN TimeOf(s) ELSE Least(latest, TimeOf(s))
  BY <1>1 DEF AnchorEnd, latest
<1>11. tr.entry <= TimeOf(s)
  <2>1. PICK k \in FillsOf(s, t) : TRUE
    BY <1>6
  <2> QED BY <1>2, <1>3, <1>5
<1>12. AnchorEnd(s, tr) \in Nat /\ tr.entry <= AnchorEnd(s, tr) /\ AnchorEnd(s, tr) <= TimeOf(s)
  <2> HIDE DEF tr
  <2> QED BY <1>2, <1>3, <1>9, <1>10, <1>11 DEF Least
<1>13. ASSUME NEW k \in FillsOf(s, t) PROVE s.fills[k].anchor <= AnchorEnd(s, tr)
  <2>1. s.fills[k].anchor \in Nat /\ s.fills[k].anchor <= latest /\ s.fills[k].anchor <= TimeOf(s)
    BY <1>5, <1>9
  <2> HIDE DEF tr
  <2> QED BY <1>3, <1>9, <1>10, <2>1 DEF Least
<1> QED BY <1>1, <1>2, <1>5, <1>12, <1>13

\* The bounds of a window hold its trade and no more than MaxBars minutes.
LEMMA BoundsAre ==
    ASSUME NEW s, Orderly(s), NEW t \in Trades, s.trades[t] # None
    PROVE  LET b == Clamped(s, Bounds(s, s.trades[t]))
               e == s.trades[t].entry
           IN  /\ b = [from |-> b.from, upto |-> b.upto]
               /\ b.from \in Int /\ b.upto \in Int /\ b.from <= e /\ e <= b.upto
               /\ b.upto - b.from < MaxBars /\ b.upto <= TimeOf(s)
               /\ ~(Span(s, s.trades[t]) >= MaxBars) => AnchorEnd(s, s.trades[t]) <= b.upto
<1> DEFINE tr == s.trades[t]
           e == tr.entry
           a == AnchorEnd(s, tr)
           now == TimeOf(s)
<1>1. a \in Nat /\ e \in Nat /\ e <= a /\ a <= now /\ s.current >= 0
  BY AnchorIs
<1>2. now \in Nat
  BY <1>1, TimeIs DEF Orderly
<1>3. MaxBars \in Nat /\ MaxBars > 0 /\ ContextBars \in Nat
  BY FocusAssumption
<1>4. Span(s, tr) = a - e /\ Span(s, tr) \in Nat
  BY <1>1 DEF Span, Greatest
<1> DEFINE span == Span(s, tr)
           budget == Budget(span)
           front == Least(ContextBars, budget \div 2)
           back == Least(ContextBars, budget - front)
           b == Clamped(s, Bounds(s, tr))
<1>5. Bounds(s, tr) = IF span >= MaxBars THEN [from |-> e, upto |-> e + MaxBars - 1]
                      ELSE [from |-> e - front, upto |-> a + back]
  BY DEF Bounds
<1>6. Clamped(s, Bounds(s, tr)) = [Bounds(s, tr) EXCEPT !.upto = Least(Bounds(s, tr).upto, now)]
  BY DEF Clamped
<1>7. span \in Nat /\ span = a - e
  BY <1>4
<1> HIDE DEF span
<1>8. CASE span >= MaxBars
  <2>1. b = [from |-> e, upto |-> Least(e + MaxBars - 1, now)]
    BY <1>5, <1>6, <1>8
  <2> DEFINE u == Least(e + MaxBars - 1, now)
  <2>2. b.from = e /\ b.upto = u
    BY <2>1
  <2> HIDE DEF e, now, a, b
  <2>3. u \in Int /\ e <= u /\ u - e < MaxBars /\ u <= now
    BY <1>1, <1>2, <1>3 DEF Least
  <2> HIDE DEF u
  <2>4. b = [from |-> b.from, upto |-> b.upto]
    BY <2>1, <2>2 DEF u
  <2> QED BY <1>1, <1>8, <2>2, <2>3, <2>4 DEF b, e, now, a, span
<1>9. CASE ~(span >= MaxBars)
  <2>1. budget \in Nat /\ budget = MaxBars - span - 1
    BY <1>3, <1>7, <1>9 DEF Budget
  <2>2. budget \div 2 \in Nat /\ budget \div 2 <= budget
    <3> HIDE DEF budget
    <3> QED BY <2>1
  <2> HIDE DEF budget
  <2>3. front \in Nat /\ front <= budget
    BY <1>3, <2>1, <2>2 DEF Least
  <2> HIDE DEF front
  <2>4. back \in Nat /\ back <= budget - front
    BY <1>3, <2>1, <2>3 DEF Least
  <2> HIDE DEF back
  <2>5. b = [from |-> e - front, upto |-> Least(a + back, now)]
    BY <1>5, <1>6, <1>9 DEF front, back, budget
  <2> DEFINE u == Least(a + back, now)
  <2>6. b.from = e - front /\ b.upto = u
    BY <2>5
  <2> HIDE DEF e, now, a, b
  <2>7. u \in Int /\ e <= u /\ u - (e - front) < MaxBars /\ u <= now /\ a <= u /\ e - front <= e /\ e - front \in Int
    BY <1>1, <1>2, <1>3, <1>7, <2>1, <2>3, <2>4 DEF Least
  <2> HIDE DEF u
  <2>8. b = [from |-> b.from, upto |-> b.upto]
    BY <2>5, <2>6 DEF u
  <2> QED BY <2>6, <2>7, <2>8 DEF b, e, now, a
<1> QED BY <1>8, <1>9

\* The window of a closed trade is right when it is cut.
LEMMA HistoryIs ==
    ASSUME NEW s, Orderly(s), NEW t \in Trades, s.trades[t] # None, s.trades[t].exit # None
    PROVE  /\ WindowOK(chart_history(s, t), s)
           /\ chart_history(s, t).trade = s.trades[t] /\ chart_history(s, t).minutes = s.minutes
<1> DEFINE tr == s.trades[t]
           b == Clamped(s, Bounds(s, tr))
           inside == {k \in FillsOf(s, t) : b.from <= s.fills[k].anchor /\ s.fills[k].anchor <= b.upto}
           cut == Span(s, tr) >= MaxBars
           w == chart_history(s, t)
<1>1. w = [trade |-> tr, from |-> b.from, upto |-> b.upto, minutes |-> s.minutes,
           fills |-> inside, truncated |-> cut]
  BY DEF chart_history
<1>2. /\ b.from \in Int /\ b.upto \in Int /\ b.from <= tr.entry /\ tr.entry <= b.upto
      /\ b.upto - b.from < MaxBars /\ b.upto <= TimeOf(s)
      /\ ~cut => AnchorEnd(s, tr) <= b.upto
  BY BoundsAre
<1>3. /\ s \in Snapshots /\ s.current >= 0 /\ tr.id = t
      /\ \E i \in DOMAIN replay : replay[i].time = tr.entry
  BY DEF Orderly
<1>4. tr \in TradeRecords /\ s.minutes \in Timeframes /\ tr.entry \in Nat
  BY <1>3 DEF Snapshots, TradeRecords
<1>5. \E i \in DOMAIN Candles : Candles[i].time = tr.entry
  BY <1>3, ReplayIs
<1>6. inside \in SUBSET Nat
  <2>1. DOMAIN s.fills \subseteq Nat
    BY <1>3, LenProperties DEF Snapshots
  <2> QED BY <2>1 DEF FillsOf
<1>7. ~cut => inside = FillsOf(s, t)
  <2> SUFFICES ASSUME ~cut, NEW k \in FillsOf(s, t)
               PROVE  b.from <= s.fills[k].anchor /\ s.fills[k].anchor <= b.upto
    OBVIOUS
  <2>1. /\ s.fills[k].anchor \in Nat /\ tr.entry <= s.fills[k].anchor
        /\ s.fills[k].anchor <= AnchorEnd(s, tr) /\ AnchorEnd(s, tr) \in Nat
    BY AnchorIs
  <2> HIDE DEF b, tr
  <2> QED BY <1>2, <1>4, <2>1
<1>8. cut \in BOOLEAN
  OBVIOUS
<1> HIDE DEF b, cut, inside, w
<1>9. w \in WindowRecords
  BY <1>1, <1>2, <1>4, <1>6, <1>8 DEF WindowRecords
<1>10. /\ w.trade = tr /\ w.from = b.from /\ w.upto = b.upto /\ w.minutes = s.minutes
       /\ w.fills = inside /\ w.truncated = cut
  BY <1>1
<1>11. Final(tr, s)
  BY <1>3, <1>4 DEF Final
<1>12. WindowOK(w, s)
  BY <1>2, <1>3, <1>5, <1>7, <1>9, <1>10, <1>11 DEF WindowOK
<1> QED BY <1>10, <1>12 DEF w

-----------------------------------------------------------------------------
(* Steps *)

\* What the invariant says of the session.
LEMMA SessionFacts ==
    ASSUME SessionsOK
    PROVE  /\ session \in Snapshots /\ shown \in Snapshots /\ session.minutes \in Timeframes
           /\ shown.minutes \in Timeframes /\ (answer # None => answer \in Snapshots)
BY DEF SessionsOK, Orderly, Snapshots

\* The session goes on; what this tab shows and asks for does not change.
LEMMA SessionGoesOn ==
    ASSUME FocusInv, Orderly(session'), Follows(session, session'), UNCHANGED <<shown, focusing>>,
           unseen => unseen',
           unseen' \/ session.minutes \in {shown.minutes, session'.minutes}
    PROVE  RequestsOK' /\ FocusOK'
<1>1. /\ session \in Snapshots /\ session' \in Snapshots
      /\ shown' = shown /\ focus' = focus /\ generation' = generation /\ requests' = requests
  BY SessionFacts DEF FocusInv, Orderly, focusing
<1>2. ASSUME NEW w, Timely(w) PROVE Timely(w)'
  BY <1>1, <1>2 DEF Timely
<1>3. ASSUME NEW q \in requests PROVE RequestOK(q)'
  <2>1. RequestOK(q)
    BY DEF FocusInv, RequestsOK
  <2>2. Final(q.trade, session')
    BY <1>1, <2>1, FinalStays DEF RequestOK
  <2>3. q.reply # None => WindowOK(q.reply, session') /\ q.reply.trade = q.trade
    BY <1>1, <2>1, WindowStays DEF RequestOK
  <2>4. q.generation = generation /\ q.reply # None => Timely(q.reply)'
    BY <1>2, <2>1 DEF RequestOK
  <2> QED BY <1>1, <2>1, <2>2, <2>3, <2>4 DEF RequestOK
<1>4. RequestsOK'
  BY <1>1, <1>3 DEF FocusInv, RequestsOK
<1>5. ASSUME focus # None
      PROVE  /\ Final(focus.trade, session')
             /\ focus.window # None => WindowOK(focus.window, session') /\ Timely(focus.window)'
  BY <1>1, <1>2, <1>5, FinalStays, WindowStays DEF FocusInv, FocusOK
<1>6. FocusOK'
  BY <1>1, <1>5 DEF FocusInv, FocusOK
<1> QED BY <1>4, <1>6

\* handleFocus makes what was asked for before old.
LEMMA HandleKeeps ==
    ASSUME FocusInv, NEW trade, Final(trade, session), session' = session, shown'.minutes \in Timeframes,
           HandleFocus(trade, shown')
    PROVE  RequestsOK' /\ FocusOK'
<1> DEFINE Live == FocusWithinLiveBounds(trade, shown')
<1>1. PICK live, q0, f0 :
         /\ live = Live
         /\ q0 = [generation |-> generation + 1, settings |-> shown'.minutes, trade |-> trade,
                  reply |-> None]
         /\ f0 = [trade |-> trade, window |-> None, status |-> IF live THEN "live" ELSE "loading"]
  OBVIOUS
<1>2. /\ generation' = generation + 1 /\ generation \in Nat /\ focus' = f0
      /\ requests' = IF live THEN requests ELSE requests \cup {q0}
  BY <1>1 DEF HandleFocus, FocusInv, RequestsOK
<1> HIDE DEF Live
<1>3. /\ trade \in TradeRecords /\ f0 \in FocusRecords /\ f0 # None /\ f0.trade = trade
      /\ f0.window = None
  BY <1>1, FocusAssumption DEF Final, FocusRecords
<1>4. f0.status = IF live THEN "live" ELSE "loading"
  BY <1>1
<1>5. /\ q0 \in [generation : 1 .. generation + 1, settings : Timeframes, trade : TradeRecords,
                 reply : WindowRecords \cup {None}]
      /\ q0.generation = generation + 1 /\ q0.settings = shown'.minutes /\ q0.trade = trade /\ q0.reply = None
  BY <1>1, <1>2, <1>3
<1>6. RequestOK(q0)'
  BY <1>2, <1>3, <1>5 DEF RequestOK
<1>7. ASSUME NEW q \in requests
      PROVE  RequestOK(q)' /\ q.generation # generation + 1
  <2>1. RequestOK(q)
    BY DEF FocusInv, RequestsOK
  <2>2. /\ q \in [generation : 1 .. generation + 1, settings : Timeframes, trade : TradeRecords,
                  reply : WindowRecords \cup {None}]
        /\ q.generation # generation + 1
    BY <1>2, <2>1 DEF RequestOK
  <2> QED BY <1>2, <2>1, <2>2 DEF RequestOK
<1>8. RequestsOK'
  <2>1. \A q \in requests' : q \in requests \/ q = q0
    BY <1>2
  <2>2. \A q \in requests' : RequestOK(q)'
    BY <1>6, <1>7, <2>1
  <2>3. \A q, r \in requests' : q.generation = r.generation => q = r
    BY <1>5, <1>7, <2>1 DEF FocusInv, RequestsOK
  <2>4. generation' \in Nat
    BY <1>2
  <2> QED BY <2>2, <2>3, <2>4 DEF RequestsOK
<1>9. f0.status = "loading" => \E q \in requests' : q.generation = generation'
  BY <1>2, <1>4, <1>5
<1>10. f0.status # "ready"
  BY <1>4
<1>11. FocusOK'
  BY <1>2, <1>3, <1>9, <1>10 DEF FocusOK
<1> QED BY <1>8, <1>11

\* A request of this tab, or one it is not told of.
LEMMA MutateKeeps ==
    ASSUME FocusInv, Mutate
    PROVE  FocusInv'
<1>1. /\ answer = None /\ session' \in Outcomes(session) /\ answer' = session'
      /\ unseen' = unseen /\ UNCHANGED <<shown, focusing>>
  BY DEF Mutate
<1>2. /\ Orderly(session) /\ Orderly(shown) /\ Follows(shown, session) /\ unseen \in BOOLEAN
      /\ unseen \/ session.minutes = shown.minutes
  BY <1>1 DEF FocusInv, SessionsOK
<1>3. Orderly(session') /\ Follows(session, session')
  BY <1>1, <1>2, OutcomeIs
<1>4. session \in Snapshots /\ session' \in Snapshots /\ shown \in Snapshots
  BY <1>2, <1>3 DEF Orderly
<1>5. Follows(shown, session') /\ Follows(session', session')
  BY <1>2, <1>3, <1>4, FollowsFurther, FollowsItself
<1>6. answer' # None
  BY <1>1, <1>4, FocusAssumption
<1>7. SessionsOK'
  BY <1>1, <1>2, <1>3, <1>5, <1>6 DEF SessionsOK
<1>8. RequestsOK' /\ FocusOK'
  BY <1>1, <1>2, <1>3, SessionGoesOn
<1> QED BY <1>7, <1>8 DEF FocusInv

\* A request that this tab is not told of keeps the invariant.
LEMMA MutateUnseenKeeps ==
    ASSUME FocusInv, MutateUnseen
    PROVE  FocusInv'
<1>1. /\ session' \in Outcomes(session) /\ answer' = answer /\ UNCHANGED <<shown, focusing>>
      /\ unseen' = (unseen \/ session'.minutes # session.minutes)
  BY DEF MutateUnseen
<1>2. SessionsOK
  BY DEF FocusInv
<1>3. Orderly(session') /\ Follows(session, session')
  BY <1>1, <1>2, OutcomeIs DEF SessionsOK
<1>4. /\ session \in Snapshots /\ session' \in Snapshots /\ shown \in Snapshots
      /\ answer # None => answer \in Snapshots
  BY <1>2, <1>3, SessionFacts DEF Orderly
<1>5. Follows(shown, session') /\ (answer # None => Follows(answer, session'))
  BY <1>2, <1>3, <1>4, FollowsFurther DEF SessionsOK
<1>6. SessionsOK'
  BY <1>1, <1>2, <1>3, <1>5 DEF SessionsOK
<1>7. RequestsOK' /\ FocusOK'
  BY <1>1, <1>3, SessionGoesOn
<1> QED BY <1>6, <1>7 DEF FocusInv

\* An answer arrives and is shown.
LEMMA AnswerKeeps ==
    ASSUME FocusInv, AnswerArrives
    PROVE  FocusInv'
<1>1. /\ answer # None /\ shown' = answer /\ answer' = None /\ Reclassify(answer)
      /\ session' = session /\ unseen' = unseen
  BY DEF AnswerArrives
<1>2. SessionsOK /\ RequestsOK /\ FocusOK
  BY DEF FocusInv
<1>3. SessionsOK'
  BY <1>1, <1>2 DEF SessionsOK
<1>4. shown'.minutes \in Timeframes
  BY <1>1, <1>2 DEF SessionsOK, Orderly, Snapshots
<1>5. CASE focus # None /\ HandleFocus(focus.trade, answer)
  <2>1. Final(focus.trade, session)
    BY <1>2, <1>5 DEF FocusOK
  <2> QED BY <1>1, <1>3, <1>4, <1>5, <2>1, HandleKeeps DEF FocusInv
<1>6. CASE UNCHANGED focusing /\ (focus = None \/ shown'.minutes = shown.minutes)
  <2>1. focus' = focus /\ generation' = generation /\ requests' = requests
    BY <1>6 DEF focusing
  <2>2. focus # None => \A w : Timely(w) => Timely(w)'
    BY <1>1, <1>6 DEF Timely
  <2>3. ASSUME NEW q \in requests PROVE RequestOK(q)'
    <3>1. RequestOK(q)
      BY <1>2 DEF RequestsOK
    <3>2. CASE q.generation # generation
      BY <1>1, <2>1, <3>1, <3>2 DEF RequestOK
    <3>3. CASE q.generation = generation
      <4>1. focus # None /\ shown'.minutes = shown.minutes
        BY <1>6, <3>1, <3>3 DEF RequestOK
      <4>2. q.reply # None => Timely(q.reply)'
        BY <2>2, <3>1, <3>3, <4>1 DEF RequestOK
      <4> QED BY <1>1, <2>1, <3>1, <3>3, <4>1, <4>2 DEF RequestOK
    <3> QED BY <3>2, <3>3
  <2>4. RequestsOK'
    BY <1>2, <2>1, <2>3 DEF RequestsOK
  <2>5. FocusOK'
    BY <1>1, <1>2, <2>1, <2>2 DEF FocusOK
  <2> QED BY <1>3, <2>4, <2>5 DEF FocusInv
<1> QED BY <1>1, <1>5, <1>6 DEF Reclassify, Unfocused

\* The user looks at a trade.
LEMMA FocusKeeps ==
    ASSUME FocusInv, NEW t \in Trades, FocusTrade(t)
    PROVE  FocusInv'
<1>1. /\ shown.trades[t] # None /\ ~IsOpen(shown, t) /\ HandleFocus(shown.trades[t], shown)
      /\ session' = session /\ answer' = answer /\ unseen' = unseen /\ shown' = shown
  BY DEF FocusTrade, server
<1>2. SessionsOK
  BY DEF FocusInv
<1>3. SessionsOK'
  BY <1>1, <1>2 DEF SessionsOK
<1>4. shown \in Snapshots /\ session \in Snapshots /\ shown'.minutes \in Timeframes
  BY <1>1, <1>2, SessionFacts
<1>5. Final(shown.trades[t], shown)
  <2>1. shown.trades[t] \in TradeRecords /\ shown.trades[t].exit # None
    BY <1>1, <1>4 DEF IsOpen, Snapshots
  <2>2. shown.trades[t].id = t
    BY <1>1, <1>2 DEF SessionsOK, Orderly
  <2> QED BY <2>1, <2>2 DEF Final
<1>6. Final(shown.trades[t], session)
  BY <1>2, <1>4, <1>5, FinalStays DEF SessionsOK
<1>7. RequestsOK' /\ FocusOK'
  BY <1>1, <1>4, <1>6, HandleKeeps
<1> QED BY <1>3, <1>7 DEF FocusInv

\* The user looks away.
LEMMA ClearKeeps ==
    ASSUME FocusInv, ClearFocus
    PROVE  FocusInv'
<1>1. /\ focus' = None /\ generation' = generation + 1 /\ requests' = requests
      /\ session' = session /\ answer' = answer /\ unseen' = unseen /\ shown' = shown
  BY DEF ClearFocus, server
<1>2. SessionsOK /\ RequestsOK
  BY DEF FocusInv
<1>3. SessionsOK' /\ FocusOK' /\ generation \in Nat
  BY <1>1, <1>2 DEF SessionsOK, FocusOK, RequestsOK
<1>4. ASSUME NEW q \in requests PROVE RequestOK(q)'
  <2>1. RequestOK(q)
    BY <1>2 DEF RequestsOK
  <2>2. /\ q \in [generation : 1 .. generation + 1, settings : Timeframes, trade : TradeRecords,
                  reply : WindowRecords \cup {None}]
        /\ q.generation # generation + 1
    BY <1>3, <2>1 DEF RequestOK
  <2> QED BY <1>1, <2>1, <2>2 DEF RequestOK
<1>5. RequestsOK'
  BY <1>1, <1>2, <1>3, <1>4 DEF RequestsOK
<1> QED BY <1>3, <1>5 DEF FocusInv

\* The server cuts a window.
LEMMA ServeKeeps ==
    ASSUME FocusInv, NEW q \in requests, ServeHistory(q)
    PROVE  FocusInv'
<1>0. PICK w, served : w = chart_history(session, q.trade.id) /\ served = [q EXCEPT !.reply = w]
  OBVIOUS
<1>1. /\ requests' = (requests \ {q}) \cup {served} /\ focus' = focus /\ generation' = generation
      /\ session' = session /\ answer' = answer /\ unseen' = unseen /\ shown' = shown
  BY <1>0 DEF ServeHistory, server
<1>2. SessionsOK /\ RequestsOK /\ FocusOK /\ RequestOK(q)
  BY DEF FocusInv, RequestsOK
<1>3. q.trade.id \in Trades /\ session.trades[q.trade.id] = q.trade /\ q.trade # None /\ q.trade.exit # None
  BY <1>2, FocusAssumption DEF RequestOK, Final, TradeRecords
<1>4. WindowOK(w, session) /\ w.trade = q.trade /\ w.minutes = session.minutes
  BY <1>0, <1>2, <1>3, HistoryIs DEF SessionsOK
<1>5. w \in WindowRecords /\ w # None
  BY <1>4, FocusAssumption DEF WindowOK
<1>6. q \in [generation : 1 .. generation, settings : Timeframes, trade : TradeRecords,
             reply : WindowRecords \cup {None}]
  BY <1>2 DEF RequestOK
<1>7. /\ served \in [generation : 1 .. generation, settings : Timeframes, trade : TradeRecords,
                     reply : WindowRecords \cup {None}]
      /\ served.generation = q.generation /\ served.settings = q.settings /\ served.trade = q.trade
      /\ served.reply = w
  BY <1>0, <1>5, <1>6
<1>8. Timely(w)'
  BY <1>1, <1>4 DEF Timely
<1>9. RequestOK(served)'
  BY <1>1, <1>2, <1>4, <1>7, <1>8 DEF RequestOK
<1>10. ASSUME NEW r \in requests PROVE RequestOK(r)'
  <2>1. RequestOK(r)
    BY <1>2 DEF RequestsOK
  <2> QED BY <1>1, <2>1 DEF RequestOK, Timely
<1>11. RequestsOK'
  <2>1. \A r \in requests' : RequestOK(r)'
    BY <1>1, <1>9, <1>10
  <2>2. \A r, s \in requests' : r.generation = s.generation => r = s
    BY <1>1, <1>2, <1>7 DEF RequestsOK
  <2> QED BY <1>1, <1>2, <2>1, <2>2 DEF RequestsOK
<1>12. SessionsOK'
  BY <1>1, <1>2 DEF SessionsOK
<1>13. FocusOK'
  <2>1. (\E r \in requests : r.generation = generation) => \E r \in requests' : r.generation = generation
    BY <1>1, <1>7
  <2> QED BY <1>1, <1>2, <2>1 DEF FocusOK, Timely
<1> QED BY <1>11, <1>12, <1>13 DEF FocusInv

\* A request ends: with its window, or with an error.
LEMMA SettleKeeps ==
    ASSUME FocusInv, NEW q \in requests, ReplyArrives(q) \/ RequestFails(q)
    PROVE  FocusInv'
<1>1. PICK window, status :
         /\ Settle(q, window, status)
         /\ \/ q.reply # None /\ window = q.reply /\ status = "ready"
            \/ window = None /\ status = "error"
  BY DEF ReplyArrives, RequestFails
<1>2. /\ requests' = requests \ {q} /\ generation' = generation
      /\ session' = session /\ answer' = answer /\ unseen' = unseen /\ shown' = shown
      /\ focus' = IF FocusRequestIsCurrent(q) /\ focus # None /\ focus.trade.id = q.trade.id
                  THEN [trade |-> q.trade, window |-> window, status |-> status] ELSE focus
  BY <1>1 DEF Settle, server
<1>3. SessionsOK /\ RequestsOK /\ FocusOK /\ RequestOK(q)
  BY DEF FocusInv, RequestsOK
<1>4. SessionsOK'
  BY <1>2, <1>3 DEF SessionsOK
<1>5. focus # None => focus' # None /\ focus'.trade = focus.trade
  <2>1. CASE q.generation = generation
    <3>1. focus.trade = q.trade /\ q.trade \in TradeRecords
      BY <1>3, <2>1 DEF RequestOK, Final
    <3> DEFINE f == [trade |-> q.trade, window |-> window, status |-> status]
    <3>2. f \in FocusRecords
      BY <1>1, <1>3, <3>1 DEF FocusRecords, RequestOK, WindowOK
    <3>3. f # None
      BY <3>2, FocusAssumption
    <3> QED BY <1>2, <3>1, <3>3
  <2>2. CASE q.generation # generation
    BY <1>2, <2>2 DEF FocusRequestIsCurrent
  <2> QED BY <2>1, <2>2
<1>6. ASSUME NEW r \in requests' PROVE RequestOK(r)'
  <2>1. RequestOK(r)
    BY <1>2, <1>3 DEF RequestsOK
  <2> QED BY <1>2, <1>5, <2>1 DEF RequestOK, Timely
<1>7. RequestsOK'
  BY <1>2, <1>3, <1>6 DEF RequestsOK
<1>8. FocusOK'
  <2>1. CASE focus' = focus
    <3>1. q.generation # generation \/ focus = None \/ focus.status # "loading"
      <4> SUFFICES ASSUME q.generation = generation, focus # None, focus.status = "loading" PROVE FALSE
        OBVIOUS
      <4>1. FocusRequestIsCurrent(q) /\ focus.trade = q.trade
        BY <1>3 DEF RequestOK, FocusRequestIsCurrent
      <4>2. focus' = [trade |-> q.trade, window |-> window, status |-> status]
        BY <1>2, <4>1
      <4>3. focus'.status = status /\ status # "loading"
        BY <1>1, <4>2
      <4> QED BY <2>1, <4>3
    <3>2. focus # None /\ focus.status = "loading" => \E r \in requests' : r.generation = generation
      BY <1>2, <1>3, <3>1 DEF FocusOK
    <3> QED BY <1>2, <1>3, <2>1, <3>2 DEF FocusOK, Timely
  <2>2. CASE q.generation = generation /\ focus' = [trade |-> q.trade, window |-> window, status |-> status]
    <3> DEFINE f == [trade |-> q.trade, window |-> window, status |-> status]
    <3>1. /\ q.trade \in TradeRecords /\ Final(q.trade, session) /\ window \in WindowRecords \cup {None}
          /\ window # None => /\ WindowOK(window, session) /\ window.trade = q.trade
                              /\ Timely(window) /\ status = "ready"
          /\ window = None => status = "error"
      BY <1>1, <1>3, <2>2 DEF RequestOK, Final, WindowOK
    <3>2. f \in FocusRecords /\ f.trade = q.trade /\ f.window = window /\ f.status = status
      BY <1>1, <3>1 DEF FocusRecords
    <3> HIDE DEF f
    <3>3. focus' = f
      BY <2>2 DEF f
    <3>4. Final(focus'.trade, session') /\ focus' \in FocusRecords
      BY <1>2, <3>1, <3>2, <3>3
    <3>5. (focus'.window # None <=> focus'.status = "ready") /\ focus'.status # "loading"
      BY <1>1, <3>1, <3>2, <3>3
    <3>6. focus'.window # None =>
             /\ WindowOK(focus'.window, session') /\ focus'.window.trade = focus'.trade
             /\ unseen' \/ focus'.window.minutes \in {shown'.minutes, session'.minutes}
      BY <1>2, <3>1, <3>2, <3>3 DEF Timely
    <3> QED BY <3>4, <3>5, <3>6 DEF FocusOK, Timely
  <2> QED BY <1>2, <2>1, <2>2 DEF FocusRequestIsCurrent
<1> QED BY <1>4, <1>7, <1>8 DEF FocusInv

\* The invariant holds in the beginning.
LEMMA FocusInitial ==
    ASSUME Init
    PROVE  FocusInv
<1>1. Orderly(session) /\ shown = session /\ session \in Snapshots
  BY StartsAssumption DEF Init, Orderly
<1>2. SessionsOK
  BY <1>1, FollowsItself DEF Init, SessionsOK
<1> QED BY <1>2 DEF Init, FocusInv, RequestsOK, FocusOK

\* Every step keeps the invariant, whichever handler it is.
LEMMA FocusStep ==
    ASSUME FocusInv, [Next]_vars
    PROVE  FocusInv'
<1>1. CASE Mutate
  BY <1>1, MutateKeeps
<1>2. CASE MutateUnseen
  BY <1>2, MutateUnseenKeeps
<1>3. CASE AnswerArrives
  BY <1>3, AnswerKeeps
<1>4. ASSUME NEW t \in Trades, FocusTrade(t) PROVE FocusInv'
  BY <1>4, FocusKeeps
<1>5. CASE ClearFocus
  BY <1>5, ClearKeeps
<1>6. ASSUME NEW q \in requests, ServeHistory(q) \/ ReplyArrives(q) \/ RequestFails(q) PROVE FocusInv'
  BY <1>6, ServeKeeps, SettleKeeps
<1>7. CASE UNCHANGED vars
  BY <1>7 DEF vars, server, focusing, FocusInv, SessionsOK, RequestsOK, RequestOK, FocusOK, Timely
<1> QED BY <1>1, <1>2, <1>3, <1>4, <1>5, <1>6, <1>7 DEF Next

\* The invariant holds in every state.
LEMMA FocusInvariant == Spec => []FocusInv
BY FocusInitial, FocusStep, PTL DEF Spec
-----------------------------------------------------------------------------
(* What the invariant says *)

\* A window that is right is read from the candles between its bounds: at most
\* MaxBars, that of the entry among them.
LEMMA SourceIs ==
    ASSUME NEW s, NEW w, WindowOK(w, s)
    PROVE  /\ Len(SourceOf(w)) <= MaxBars
           /\ \A i \in DOMAIN SourceOf(w) : SourceOf(w)[i].time \in Nat /\ SourceOf(w)[i].time <= w.upto
           /\ \E i \in DOMAIN SourceOf(w) : SourceOf(w)[i].time = w.trade.entry
           /\ \E x, y \in DOMAIN Candles : x <= y /\ SourceOf(w) = SubSeq(Candles, x, y)
<1>1. PICK from, upto, entry : from = w.from /\ upto = w.upto /\ entry = w.trade.entry
  OBVIOUS
<1>2. /\ from \in Int /\ upto \in Int /\ entry \in Nat /\ MaxBars \in Nat
      /\ from <= entry /\ entry <= upto /\ upto - from < MaxBars
      /\ \E i \in DOMAIN Candles : Candles[i].time = entry
  BY <1>1, FocusAssumption DEF WindowOK, WindowRecords, TradeRecords
<1>3. PICK e \in DOMAIN Candles : Candles[e].time = entry
  BY <1>2
<1>4. PICK first, last : first = Candles[1].time /\ last = Candles[Len(Candles)].time
  OBVIOUS
<1>5. first \in Nat /\ last \in Nat /\ first <= entry /\ entry <= last
  <2>1. 1 \in DOMAIN Candles /\ Len(Candles) \in DOMAIN Candles /\ 1 <= e /\ e <= Len(Candles)
    BY <1>3, CandlesAre
  <2> QED BY <1>3, <1>4, <2>1, CandlesAre
<1>6. from \in first - MaxBars .. last + MaxBars /\ upto \in first - MaxBars .. last + MaxBars
  BY <1>2, <1>5
<1> DEFINE here == {i \in DOMAIN Candles : from <= Candles[i].time /\ Candles[i].time <= upto}
<1>7. here # {} /\ here \in SUBSET Nat /\ IsFiniteSet(here)
  <2>1. here \subseteq 1 .. Len(Candles) /\ IsFiniteSet(1 .. Len(Candles))
    BY CandlesAre, FS_Interval
  <2>2. IsFiniteSet(here)
    BY <2>1, FS_Subset
  <2>3. e \in here
    BY <1>2, <1>3
  <2> QED BY <2>1, <2>2, <2>3
<1>8. SourceOf(w) = SubSeq(Candles, Min(here), Max(here))
  <2> DEFINE Times == (Candles[1].time - MaxBars) .. (Candles[Len(Candles)].time + MaxBars)
             Read(x, y) ==
                LET inside == {i \in DOMAIN Candles : x <= Candles[i].time /\ Candles[i].time <= y}
                IN  IF inside = {} THEN <<>> ELSE SubSeq(Candles, Min(inside), Max(inside))
  <2>1. Reading = [x \in Times |-> [y \in Times |-> Read(x, y)]]
    BY DEF Reading
  <2>2. from \in Times /\ upto \in Times
    BY <1>4, <1>6
  <2>3. Read(from, upto) = SubSeq(Candles, Min(here), Max(here))
    BY <1>7
  <2> HIDE DEF Times, Read
  <2>4. Reading[from][upto] = Read(from, upto)
    BY <2>1, <2>2
  <2> QED BY <1>1, <2>3, <2>4 DEF SourceOf
<1>9. PICK a, b : a = Min(here) /\ b = Max(here)
  OBVIOUS
<1>10. /\ a \in here /\ b \in here /\ (\A i \in here : a <= i /\ i <= b)
  BY <1>7, <1>9, MinIsLeast, MaxIsGreatest
<1>11. /\ a \in Nat /\ b \in Nat /\ 1 <= a /\ a <= e /\ e <= b /\ b <= Len(Candles) /\ e \in Nat
       /\ from <= Candles[a].time /\ Candles[b].time <= upto
       /\ \A i \in a .. b : i \in DOMAIN Candles
  <2>1. e \in here
    BY <1>2, <1>3
  <2>2. a <= e /\ e <= b
    BY <1>10, <2>1
  <2>3. a \in DOMAIN Candles /\ b \in DOMAIN Candles /\ from <= Candles[a].time /\ Candles[b].time <= upto
    BY <1>10
  <2>4. Len(Candles) \in Nat /\ DOMAIN Candles = 1 .. Len(Candles)
    BY CandlesAre
  <2> HIDE DEF here
  <2>5. \A i \in a .. b : i \in 1 .. Len(Candles)
    BY <2>3, <2>4
  <2> QED BY <1>3, <2>2, <2>3, <2>4, <2>5
<1>12. /\ Len(SourceOf(w)) = b - a + 1 /\ DOMAIN SourceOf(w) = 1 .. b - a + 1
       /\ \A i \in 1 .. b - a + 1 : SourceOf(w)[i] = Candles[a + i - 1]
  <2> DEFINE CandleRecords == [time : Nat, open : Int, high : Int, low : Int, close : Int]
  <2> HIDE DEF here
  <2>1. Candles \in Seq(CandleRecords) /\ DOMAIN Candles = 1 .. Len(Candles)
    BY CandlesAre
  <2> HIDE DEF CandleRecords
  <2>2. \A i \in a .. b : Candles[i] \in CandleRecords
    BY <1>11, <2>1, ElementOfSeq
  <2>3. a \in Int /\ b \in Int /\ a <= b
    BY <1>11
  <2>4. /\ SubSeq(Candles, a, b) \in Seq(CandleRecords)
        /\ Len(SubSeq(Candles, a, b)) = IF a <= b THEN b - a + 1 ELSE 0
        /\ \A i \in 1 .. b - a + 1 : SubSeq(Candles, a, b)[i] = Candles[a + i - 1]
    BY <2>2, <2>3, SubSeqProperties
  <2> QED BY <1>8, <1>9, <2>3, <2>4, LenProperties
<1> HIDE DEF here
<1>13. \A i \in a .. b : /\ Candles[i].time \in Nat /\ from <= Candles[i].time
                         /\ Candles[i].time <= upto
  <2> SUFFICES ASSUME NEW i \in a .. b
               PROVE  Candles[i].time \in Nat /\ from <= Candles[i].time /\ Candles[i].time <= upto
    OBVIOUS
  <2>1. /\ i \in DOMAIN Candles /\ a \in DOMAIN Candles /\ b \in DOMAIN Candles /\ a <= i /\ i <= b
    <3>1. a \in a .. b /\ b \in a .. b /\ a <= i /\ i <= b
      BY <1>11
    <3> QED BY <1>11, <3>1
  <2>2. /\ Candles[a].time <= Candles[i].time /\ Candles[i].time <= Candles[b].time
        /\ Candles[a].time \in Nat /\ Candles[i].time \in Nat /\ Candles[b].time \in Nat
    BY <2>1, CandlesAre
  <2>3. from <= Candles[a].time /\ Candles[b].time <= upto /\ from \in Int /\ upto \in Int
    BY <1>2, <1>11
  <2> QED BY <2>2, <2>3
<1>14. b - a + 1 <= MaxBars
  <2> DEFINE f == [i \in a .. b |-> Candles[i].time]
  <2>1. f \in [a .. b -> from .. upto]
    BY <1>2, <1>13
  <2>2. ASSUME NEW i \in a .. b, NEW j \in a .. b, i # j PROVE f[i] # f[j]
    <3>1. i \in DOMAIN Candles /\ j \in DOMAIN Candles /\ (i < j \/ j < i)
      BY <1>11, <2>2
    <3>2. /\ i < j => Candles[i].time < Candles[j].time
          /\ j < i => Candles[j].time < Candles[i].time
      BY <3>1, CandlesAre
    <3> QED BY <1>13, <3>1, <3>2
  <2> HIDE DEF f
  <2>3. f \in Injection(a .. b, from .. upto)
    BY <2>1, <2>2 DEF Injection, IsInjective
  <2>4. IsFiniteSet(from .. upto) /\ Cardinality(from .. upto) = upto - from + 1
    BY <1>2, FS_Interval
  <2>5. Cardinality(a .. b) <= Cardinality(from .. upto)
    BY <2>3, <2>4, FS_Injection
  <2>6. Cardinality(a .. b) = b - a + 1
    BY <1>11, FS_Interval
  <2> QED BY <1>2, <1>11, <2>4, <2>5, <2>6
<1>15. \A i \in DOMAIN SourceOf(w) : SourceOf(w)[i].time \in Nat /\ SourceOf(w)[i].time <= upto
  <2> SUFFICES ASSUME NEW i \in 1 .. b - a + 1
               PROVE  SourceOf(w)[i].time \in Nat /\ SourceOf(w)[i].time <= upto
    BY <1>12
  <2>1. a + i - 1 \in a .. b
    BY <1>11
  <2> QED BY <1>12, <1>13, <2>1
<1>16. e - a + 1 \in DOMAIN SourceOf(w) /\ SourceOf(w)[e - a + 1].time = entry
  <2>1. e - a + 1 \in 1 .. b - a + 1 /\ a + (e - a + 1) - 1 = e
    BY <1>11
  <2> QED BY <1>3, <1>12, <2>1
<1>17. a \in DOMAIN Candles /\ b \in DOMAIN Candles /\ a <= b /\ SourceOf(w) = SubSeq(Candles, a, b)
  <2>1. a \in a .. b /\ b \in a .. b /\ a <= b
    BY <1>11
  <2> QED BY <1>8, <1>9, <1>11, <2>1 DEF here
<1> QED BY <1>1, <1>12, <1>14, <1>15, <1>16, <1>17

\* Every window there is, is right.
LEMMA WindowsAreRight ==
    ASSUME FocusInv, NEW w \in Windows
    PROVE  WindowOK(w, session) /\ session \in Snapshots
<1>1. CASE \E q \in requests : q.reply # None /\ w = q.reply
  BY <1>1 DEF FocusInv, RequestsOK, RequestOK, SessionsOK, Orderly
<1>2. CASE focus # None /\ focus.window # None /\ w = focus.window
  BY <1>2 DEF FocusInv, FocusOK, SessionsOK, Orderly
<1> QED BY <1>1, <1>2 DEF Windows

\* The types hold.
LEMMA TypesHold ==
    ASSUME FocusInv
    PROVE  TypeOK
<1>1. /\ session.current \in -1 .. Len(replay) - 1 /\ session.minutes \in Timeframes
      /\ shown.current <= session.current /\ Len(shown.fills) <= Len(session.fills)
  BY DEF FocusInv, SessionsOK, Orderly, Snapshots, Follows
<1>2. \A q \in requests : q.generation \in 1 .. generation /\ q.settings \in Timeframes
  BY DEF FocusInv, RequestsOK, RequestOK
<1>3. \A q, r \in requests : q.generation = r.generation => q = r
  BY DEF FocusInv, RequestsOK
<1>4. focus # None =>
         /\ focus.status \in {"live", "loading", "ready", "error"}
         /\ (focus.window # None) <=> (focus.status = "ready")
  BY DEF FocusInv, FocusOK, FocusRecords
<1> QED BY <1>1, <1>2, <1>3, <1>4 DEF TypeOK

\* No window shows a candle that the replay has not reached, in whatever order
\* requests are served and answered while the session goes on (service.py
\* chart_history, the clamp of the trailing context).
THEOREM WindowsStayCausal == Spec => []WindowsAreCausal
<1>1. FocusInv => WindowsAreCausal
  <2> SUFFICES ASSUME FocusInv, NEW w \in Windows, NEW i \in DOMAIN SourceOf(w)
               PROVE  session.current >= 0 /\ SourceOf(w)[i].time <= TimeOf(session)
    BY DEF WindowsAreCausal
  <2>1. WindowOK(w, session) /\ session \in Snapshots
    BY WindowsAreRight
  <2>2. session.current >= 0 /\ w.upto <= TimeOf(session) /\ w.upto \in Int
    BY <2>1 DEF WindowOK, WindowRecords
  <2>3. SourceOf(w)[i].time \in Nat /\ SourceOf(w)[i].time <= w.upto
    BY <2>1, SourceIs
  <2>4. TimeOf(session) \in Nat
    BY <2>1, <2>2, TimeIs
  <2> QED BY <2>2, <2>3, <2>4
<1> QED BY <1>1, FocusInvariant, PTL

\* A window holds at most MaxBars candles with the one of the entry among them, and
\* every fill of its trade unless it is flagged truncated, then and ever after
\* (service.py chart_history, its budget and its fills).
THEOREM WindowsStayBounded == Spec => []WindowsAreBounded
<1>1. FocusInv => WindowsAreBounded
  <2> SUFFICES ASSUME FocusInv, NEW w \in Windows
               PROVE  /\ Len(SourceOf(w)) <= MaxBars
                      /\ \E i \in DOMAIN SourceOf(w) : SourceOf(w)[i].time = w.trade.entry
                      /\ w.truncated \/ w.fills = FillsOf(session, w.trade.id)
    BY DEF WindowsAreBounded
  <2>1. WindowOK(w, session)
    BY WindowsAreRight
  <2>2. w.truncated \/ w.fills = FillsOf(session, w.trade.id)
    BY <2>1 DEF WindowOK
  <2> QED BY <2>1, <2>2, SourceIs
<1> QED BY <1>1, FocusInvariant, PTL

\* The window on the chart is the one of the trade in focus, in the timeframe that
\* the controls show, whichever answers come late, out of order or not at all
\* (ReplayWorkspace.tsx focusRequestIsCurrent and its layout effect).
THEOREM FocusStaysCurrent == Spec => []FocusIsCurrent
<1>1. FocusInv => FocusIsCurrent
  <2> SUFFICES ASSUME FocusInv, focus # None, focus.status = "ready"
               PROVE  /\ focus.window.trade.id = focus.trade.id
                      /\ (answer = None /\ ~unseen) => focus.window.minutes = shown.minutes
    BY DEF FocusIsCurrent
  <2>1. focus.window.trade = focus.trade /\ Timely(focus.window)
    BY DEF FocusInv, FocusOK
  <2>2. answer = None /\ ~unseen => session.minutes = shown.minutes
    BY DEF FocusInv, SessionsOK
  <2> QED BY <2>1, <2>2 DEF Timely
<1> QED BY <1>1, FocusInvariant, PTL

\* A focus that loads is waited for: a request for its trade is under way whose
\* outcome will be taken (ReplayWorkspace.tsx handleFocus), whatever changed since.
THEOREM LoadingStaysServed == Spec => []LoadingIsServed
<1>1. FocusInv => LoadingIsServed
  <2> SUFFICES ASSUME FocusInv, focus # None, focus.status = "loading"
               PROVE  \E q \in requests : FocusRequestIsCurrent(q) /\ q.trade.id = focus.trade.id
    BY TypesHold DEF LoadingIsServed
  <2>1. PICK q \in requests : q.generation = generation
    BY DEF FocusInv, FocusOK
  <2>2. focus.trade = q.trade /\ q.settings = shown.minutes
    BY <2>1 DEF FocusInv, RequestsOK, RequestOK
  <2> QED BY <2>1, <2>2 DEF FocusRequestIsCurrent
<1> QED BY <1>1, FocusInvariant, PTL

-----------------------------------------------------------------------------
(* Buckets of a local clock *)

\* What the clock of a profile shows, and the start of the bucket on it.
Clock(t, p) == IF p = "utc_aligned" THEN t ELSE Wall(t)
LocalBucket(t, m, p) == IF p = "utc_aligned" THEN t - (t % m) ELSE SinceAnchor(Wall(t), m)

\* A session day holds every time from its start, and no other start.
LEMMA SessionStartIs ==
    ASSUME NEW w \in Int
    PROVE  SessionStart(w) \in Int /\ SessionStart(w) <= w /\ w < SessionStart(w) + Day
<1>1. Day \in Nat \ {0} /\ Anchor \in Int
  BY DisplayAssumption
<1>2. (w - Anchor) % Day \in 0 .. Day - 1
  BY <1>1
<1> QED BY <1>1, <1>2 DEF SessionStart

\* Days do not overlap: a day that starts earlier has ended before.
LEMMA SessionDays ==
    ASSUME NEW v \in Int, NEW w \in Int
    PROVE  /\ SessionStart(v) < SessionStart(w) => SessionStart(v) + Day <= SessionStart(w)
           /\ v <= w => SessionStart(v) <= SessionStart(w)
           /\ SessionStart(w) <= v /\ v <= w => SessionStart(v) = SessionStart(w)
<1>1. Day \in Nat \ {0} /\ Anchor \in Int
  BY DisplayAssumption
<1>2. PICK a, b : a = (v - Anchor) \div Day /\ b = (w - Anchor) \div Day
  OBVIOUS
<1>3. /\ a \in Int /\ v - Anchor = (Day * a) + ((v - Anchor) % Day)
      /\ b \in Int /\ w - Anchor = (Day * b) + ((w - Anchor) % Day)
  BY <1>1, <1>2
<1>4. PICK x, y : x = SessionStart(v) /\ y = SessionStart(w)
  OBVIOUS
<1>5. x = Anchor + Day * a /\ y = Anchor + Day * b
  <2>1. PICK r, q, c, d : /\ r = (v - Anchor) % Day /\ q = (w - Anchor) % Day
                          /\ c = Day * a /\ d = Day * b
    OBVIOUS
  <2>2. r \in Int /\ q \in Int /\ c \in Int /\ d \in Int
    BY <1>1, <1>3, <2>1
  <2>3. v - Anchor = c + r /\ w - Anchor = d + q
    BY <1>3, <2>1
  <2>4. x = v - r /\ y = w - q
    BY <1>4, <2>1 DEF SessionStart
  <2>5. x = Anchor + c /\ y = Anchor + d
    BY <1>1, <2>2, <2>3, <2>4
  <2> QED BY <2>1, <2>5
<1>6. /\ x \in Int /\ x <= v /\ v < x + Day
      /\ y \in Int /\ y <= w /\ w < y + Day
  BY <1>4, SessionStartIs
<1>7. a < b => x + Day <= y
  BY <1>1, <1>3, <1>5
<1>8. b < a => y + Day <= x
  BY <1>1, <1>3, <1>5
<1>9. a = b => x = y
  BY <1>5
<1>10. a < b \/ b < a \/ a = b
  BY <1>3
<1> QED BY <1>1, <1>4, <1>6, <1>7, <1>8, <1>9, <1>10

\* A bucket holds every time from its start for its minutes.
LEMMA SinceAnchorIs ==
    ASSUME NEW w \in Int, NEW m \in Nat \ {0}
    PROVE  /\ SinceAnchor(w, m) \in Int
           /\ SessionStart(w) <= SinceAnchor(w, m) /\ SinceAnchor(w, m) <= w
           /\ w < SinceAnchor(w, m) + m
<1>1. PICK s : s = SessionStart(w)
  OBVIOUS
<1>2. s \in Int /\ s <= w
  BY <1>1, SessionStartIs
<1>3. PICK q, r : q = (w - s) \div m /\ r = (w - s) % m
  OBVIOUS
<1>4. /\ q \in Int /\ r \in 0 .. m - 1 /\ w - s = (m * q) + r
  BY <1>2, <1>3
<1>5. SinceAnchor(w, m) = s + m * q
  BY <1>1, <1>3 DEF SinceAnchor
<1>6. 0 <= q
  BY <1>2, <1>4
<1>7. PICK x : x = m * q
  OBVIOUS
<1>8. x \in Int /\ 0 <= x
  BY <1>4, <1>6, <1>7
<1> QED BY <1>1, <1>2, <1>4, <1>5, <1>7, <1>8

\* The starts of buckets ascend with time, and a time between the start of a
\* bucket and a time of the bucket is in it.
LEMMA SinceAnchorAscends ==
    ASSUME NEW v \in Int, NEW w \in Int, NEW m \in Nat \ {0}, v <= w
    PROVE  /\ SinceAnchor(v, m) <= SinceAnchor(w, m)
           /\ SinceAnchor(w, m) <= v => SinceAnchor(v, m) = SinceAnchor(w, m)
<1>1. PICK s, t, x, y : /\ s = SessionStart(v) /\ t = SessionStart(w)
                        /\ x = SinceAnchor(v, m) /\ y = SinceAnchor(w, m)
  OBVIOUS
<1>2. /\ s \in Int /\ t \in Int /\ x \in Int /\ y \in Int /\ Day \in Int
      /\ s <= x /\ x <= v /\ v < x + m /\ t <= y /\ y <= w /\ w < y + m
      /\ v < s + Day /\ w < t + Day
  BY <1>1, SinceAnchorIs, SessionStartIs, DisplayAssumption
<1>3. s <= t /\ (s < t => s + Day <= t) /\ (t <= v => s = t)
  BY <1>1, SessionDays
<1>4. CASE s = t
  <2>1. PICK q, r : q = (v - s) \div m /\ r = (w - s) \div m
    OBVIOUS
  <2>2. q \in Int /\ r \in Int /\ q <= r
    <3>1. v - s \in Int /\ w - s \in Int /\ v - s <= w - s
      BY <1>2
    <3> QED BY <2>1, <3>1
  <2>3. x = s + m * q /\ y = s + m * r
    BY <1>1, <1>4, <2>1 DEF SinceAnchor
  <2>4. q < r => m * q + m <= m * r
    BY <2>2
  <2>5. m * q \in Int /\ m * r \in Int
    BY <2>2
  <2>6. CASE q = r
    BY <2>3, <2>6, <1>1, <1>2
  <2>7. CASE q < r
    BY <1>1, <1>2, <2>3, <2>4, <2>5, <2>7
  <2> QED BY <2>2, <2>6, <2>7
<1>5. CASE s < t
  BY <1>1, <1>2, <1>3, <1>5
<1> QED BY <1>2, <1>3, <1>4, <1>5

\* The local clock shows a number of minutes.
LEMMA WallIs ==
    ASSUME NEW t \in Nat
    PROVE  Wall(t) \in Int
<1>1. PutBackAt \in Nat /\ PutBackBy \in Nat
  BY DisplayAssumption
<1> QED BY <1>1 DEF Wall

\* So they do on the clock of a profile.
LEMMA LocalBucketIs ==
    ASSUME NEW t \in Nat, NEW m \in Nat \ {0}, NEW p \in Profiles
    PROVE  /\ Clock(t, p) \in Int /\ LocalBucket(t, m, p) \in Int
           /\ LocalBucket(t, m, p) <= Clock(t, p) /\ Clock(t, p) < LocalBucket(t, m, p) + m
<1>1. Wall(t) \in Int
  BY WallIs
<1>2. t % m \in 0 .. m - 1
  OBVIOUS
<1>3. CASE p = "utc_aligned"
  BY <1>2, <1>3 DEF Clock, LocalBucket
<1>4. CASE p = "new_york_close"
  BY <1>1, <1>4, SinceAnchorIs DEF Clock, LocalBucket
<1> QED BY <1>3, <1>4 DEF Profiles

\* The starts of buckets ascend with the clock, and a time past the start of a bucket
\* that is to come is in that bucket.
LEMMA LocalBucketAscends ==
    ASSUME NEW t \in Nat, NEW u \in Nat, NEW m \in Nat \ {0}, NEW p \in Profiles,
           Clock(t, p) <= Clock(u, p)
    PROVE  /\ LocalBucket(t, m, p) <= LocalBucket(u, m, p)
           /\ LocalBucket(u, m, p) <= Clock(t, p) => LocalBucket(t, m, p) = LocalBucket(u, m, p)
<1>1. CASE p = "new_york_close"
  <2>1. Wall(t) \in Int /\ Wall(u) \in Int
    BY WallIs
  <2>2. Wall(t) <= Wall(u)
    BY <1>1 DEF Clock
  <2>3. /\ SinceAnchor(Wall(t), m) <= SinceAnchor(Wall(u), m)
        /\ SinceAnchor(Wall(u), m) <= Wall(t) => SinceAnchor(Wall(t), m) = SinceAnchor(Wall(u), m)
    BY <2>1, <2>2, SinceAnchorAscends
  <2> QED BY <1>1, <2>3 DEF Clock, LocalBucket
<1>2. CASE p = "utc_aligned"
  <2>1. PICK q, r, x, y : /\ q = t \div m /\ r = u \div m
                          /\ x = LocalBucket(t, m, p) /\ y = LocalBucket(u, m, p)
    OBVIOUS
  <2>2. t <= u /\ q \in Int /\ r \in Int /\ q <= r
    BY <1>2, <2>1 DEF Clock
  <2>3. x = m * q /\ y = m * r
    <3>1. t = (m * q) + (t % m) /\ u = (m * r) + (u % m)
      BY <2>1
    <3>2. t % m \in Int /\ u % m \in Int /\ m * q \in Int /\ m * r \in Int
      BY <2>2
    <3> QED BY <1>2, <2>1, <3>1, <3>2 DEF LocalBucket
  <2>4. x \in Int /\ y \in Int /\ x <= t /\ t < x + m
    BY <1>2, <2>1, LocalBucketIs DEF Clock
  <2>5. CASE q = r
    BY <2>1, <2>3, <2>4, <2>5
  <2>6. CASE q < r
    <3>1. x + m <= y
      BY <2>2, <2>3, <2>6
    <3> QED BY <1>2, <2>1, <2>4, <3>1 DEF Clock
  <2> QED BY <2>2, <2>5, <2>6
<1> QED BY <1>1, <1>2 DEF Profiles

\* Different local times are different instants, in the same order.
LEMMA InstantAscends ==
    ASSUME NEW v \in Int, NEW w \in Int
    PROVE  Instant(v) \in Int /\ (v < w <=> Instant(v) < Instant(w))
<1>1. PutBackAt \in Nat /\ PutBackBy \in Nat
  BY DisplayAssumption
<1> QED BY <1>1 DEF Instant

\* A bar's time tells its bucket, and bars ascend with their buckets.
LEMMA BucketIs ==
    ASSUME NEW t \in Nat, NEW u \in Nat, NEW m \in Nat \ {0}, NEW p \in Profiles
    PROVE  /\ bucket_for(t, m, p) \in Int
           /\ (bucket_for(t, m, p) = bucket_for(u, m, p)) <=> (LocalBucket(t, m, p) = LocalBucket(u, m, p))
           /\ LocalBucket(t, m, p) <= LocalBucket(u, m, p) => bucket_for(t, m, p) <= bucket_for(u, m, p)
<1>1. PICK x, y : x = LocalBucket(t, m, p) /\ y = LocalBucket(u, m, p)
  OBVIOUS
<1>2. x \in Int /\ y \in Int
  BY <1>1, LocalBucketIs
<1>3. CASE p = "utc_aligned"
  BY <1>1, <1>2, <1>3 DEF bucket_for, LocalBucket
<1>4. CASE p = "new_york_close"
  <2>1. bucket_for(t, m, p) = Instant(x) /\ bucket_for(u, m, p) = Instant(y)
    BY <1>1, <1>4 DEF bucket_for, LocalBucket
  <2>2. /\ Instant(x) \in Int /\ Instant(y) \in Int
        /\ (x < y <=> Instant(x) < Instant(y))
        /\ (y < x <=> Instant(y) < Instant(x))
    BY <1>2, InstantAscends
  <2> QED BY <1>1, <1>2, <2>1, <2>2
<1> QED BY <1>3, <1>4 DEF Profiles

-----------------------------------------------------------------------------
(* What bars stand for *)

CandleRecords == [time : Nat, open : Int, high : Int, low : Int, close : Int]
BarRecords ==
    [time : Int, open : Int, high : Int, low : Int, close : Int, from : Nat, upto : Nat]

\* Candles in the order of time.
Series(c) ==
    c \in Seq(CandleRecords) /\ \A i, j \in 1 .. Len(c) : i < j => c[i].time < c[j].time

\* The bar b is drawn from the candles with the numbers a to z.
DrawnFrom(b, c, a, z, m, p) ==
    /\ \A i \in a .. z : /\ bucket_for(c[i].time, m, p) = b.time
                         /\ c[i].high <= b.high /\ b.low <= c[i].low
    /\ b.from = c[a].time /\ b.upto = c[z].time /\ b.open = c[a].open /\ b.close = c[z].close
    /\ \E i \in a .. z : c[i].high = b.high
    /\ \E i \in a .. z : c[i].low = b.low

\* The bars stand for the first k candles: each is drawn from some of them, one after
\* the other, and none is left out.
Stands(bars, c, k, m, p) ==
    /\ bars \in Seq(BarRecords)
    /\ \A j \in 1 .. Len(bars) :
          \E a, z \in 1 .. k : a <= z /\ DrawnFrom(bars[j], c, a, z, m, p)
    /\ \A j, l \in 1 .. Len(bars) : j < l => bars[j].upto < bars[l].from
    /\ \A j \in 1 .. Len(bars) : j > 1 => bars[j - 1].time # bars[j].time
    /\ \A i \in 1 .. k : \E j \in 1 .. Len(bars) : bars[j].from <= c[i].time /\ c[i].time <= bars[j].upto
    /\ (Len(bars) = 0) <=> (k = 0)
    /\ k > 0 => bars[Len(bars)].upto = c[k].time

\* The candles of a series and their order.
LEMMA SeriesIs ==
    ASSUME NEW c, Series(c)
    PROVE  /\ Len(c) \in Nat /\ DOMAIN c = 1 .. Len(c)
           /\ \A i \in 1 .. Len(c) : c[i] \in CandleRecords /\ c[i].time \in Nat
           /\ \A i, j \in 1 .. Len(c) : (i < j) <=> (c[i].time < c[j].time)
           /\ \A i, j \in 1 .. Len(c) : (i <= j) <=> (c[i].time <= c[j].time)
           /\ \A i, j \in 1 .. Len(c) : c[i].time = c[j].time => i = j
<1>1. Len(c) \in Nat /\ DOMAIN c = 1 .. Len(c)
  BY LenProperties DEF Series
<1>2. \A i \in 1 .. Len(c) : c[i] \in CandleRecords
  BY <1>1, ElementOfSeq DEF Series
<1>3. \A i \in 1 .. Len(c) : c[i].time \in Nat
  BY <1>2 DEF CandleRecords
<1>4. \A i, j \in 1 .. Len(c) : i < j => c[i].time < c[j].time
  BY DEF Series
<1>5. ASSUME NEW i \in 1 .. Len(c), NEW j \in 1 .. Len(c)
      PROVE  /\ (i < j) <=> (c[i].time < c[j].time)
             /\ (i <= j) <=> (c[i].time <= c[j].time)
             /\ c[i].time = c[j].time => i = j
  <2>1. i < j => c[i].time < c[j].time
    BY <1>4
  <2>2. j < i => c[j].time < c[i].time
    BY <1>4
  <2>3. c[i].time \in Nat /\ c[j].time \in Nat /\ i \in Int /\ j \in Int
    BY <1>3
  <2>4. i < j \/ j < i \/ i = j
    BY <2>3
  <2>5. CASE i < j
    BY <2>1, <2>3, <2>5
  <2>6. CASE j < i
    BY <2>2, <2>3, <2>6
  <2>7. CASE i = j
    BY <2>3, <2>7
  <2> QED BY <2>4, <2>5, <2>6, <2>7
<1> QED BY <1>1, <1>2, <1>3, <1>5

\* A candle alone makes a bar,
LEMMA NewBarIs ==
    ASSUME NEW c, NEW k \in Int, c[k] \in CandleRecords, NEW m, NEW p,
           NEW bucket \in Int, bucket = bucket_for(c[k].time, m, p),
           NEW b, b = NewBar(c[k], bucket)
    PROVE  /\ b \in BarRecords /\ DrawnFrom(b, c, k, k, m, p)
           /\ b.time = bucket /\ b.from = c[k].time /\ b.upto = c[k].time
<1>1. b \in BarRecords
  BY DEF NewBar, BarRecords, CandleRecords
<1>2. /\ b.time = bucket /\ b.from = c[k].time /\ b.upto = c[k].time
      /\ b.open = c[k].open /\ b.close = c[k].close /\ b.high = c[k].high /\ b.low = c[k].low
  BY DEF NewBar
<1>3. \A i \in k .. k : i = k
  OBVIOUS
<1>4. k \in k .. k
  OBVIOUS
<1>5. c[k].high \in Int /\ c[k].low \in Int
  BY DEF CandleRecords
<1> QED BY <1>1, <1>2, <1>3, <1>4, <1>5 DEF DrawnFrom

\* and merged into a bar it is one of its candles.
LEMMA MergedIs ==
    ASSUME NEW c, NEW a \in Int, NEW n \in Int, a <= n, NEW k, k = n + 1, c[k] \in CandleRecords,
           \A i \in a .. n : c[i] \in CandleRecords,
           NEW m, NEW p, NEW d \in BarRecords, DrawnFrom(d, c, a, n, m, p),
           bucket_for(c[k].time, m, p) = d.time, NEW b, b = Merged(d, c[k])
    PROVE  /\ b \in BarRecords /\ DrawnFrom(b, c, a, k, m, p)
           /\ b.time = d.time /\ b.from = d.from /\ b.upto = c[k].time
<1>1. /\ c[k].high \in Int /\ c[k].low \in Int /\ c[k].close \in Int /\ c[k].time \in Nat
      /\ d.high \in Int /\ d.low \in Int
  BY DEF CandleRecords, BarRecords
<1>2. PICK h, l : h = Greatest(d.high, c[k].high) /\ l = Least(d.low, c[k].low)
  OBVIOUS
<1>3. /\ h \in Int /\ d.high <= h /\ c[k].high <= h /\ (h = d.high \/ h = c[k].high)
      /\ l \in Int /\ l <= d.low /\ l <= c[k].low /\ (l = d.low \/ l = c[k].low)
  BY <1>1, <1>2 DEF Greatest, Least
<1>4. b = [d EXCEPT !.high = h, !.low = l, !.close = c[k].close, !.upto = c[k].time]
  BY <1>2 DEF Merged
<1>5. b \in BarRecords
  BY <1>1, <1>3, <1>4 DEF BarRecords
<1>6. /\ b.time = d.time /\ b.from = d.from /\ b.upto = c[k].time
      /\ b.open = d.open /\ b.close = c[k].close /\ b.high = h /\ b.low = l
  BY <1>4 DEF BarRecords
<1>7. \A i \in a .. k : i \in a .. n \/ i = k
  OBVIOUS
<1>8. \A i \in a .. n : i \in a .. k /\ c[i].high \in Int /\ c[i].low \in Int
  BY DEF CandleRecords
<1>9. k \in a .. k
  OBVIOUS
<1>10. \A i \in a .. n : /\ bucket_for(c[i].time, m, p) = d.time
                         /\ c[i].high <= d.high /\ d.low <= c[i].low
  BY DEF DrawnFrom
<1>11. ASSUME NEW i \in a .. k
       PROVE  /\ bucket_for(c[i].time, m, p) = b.time
              /\ c[i].high <= b.high /\ b.low <= c[i].low
  <2>1. CASE i = k
    BY <1>3, <1>6, <2>1
  <2>2. CASE i \in a .. n
    BY <1>1, <1>3, <1>6, <1>8, <1>10, <2>2
  <2> QED BY <1>7, <2>1, <2>2
<1>12. \E i \in a .. k : c[i].high = b.high
  <2>1. \E i \in a .. n : c[i].high = d.high
    BY DEF DrawnFrom
  <2> QED BY <1>3, <1>6, <1>8, <1>9, <2>1
<1>13. \E i \in a .. k : c[i].low = b.low
  <2>1. \E i \in a .. n : c[i].low = d.low
    BY DEF DrawnFrom
  <2> QED BY <1>3, <1>6, <1>8, <1>9, <2>1
<1>14. b.from = c[a].time /\ b.open = c[a].open
  BY <1>6 DEF DrawnFrom
<1> QED BY <1>5, <1>6, <1>11, <1>12, <1>13, <1>14 DEF DrawnFrom

\* One candle more starts a bar, behind the others,
LEMMA StartsBar ==
    ASSUME NEW c, Series(c), NEW n \in Nat, NEW k, k = n + 1, k \in 1 .. Len(c),
           NEW m \in Nat \ {0}, NEW p \in Profiles, NEW bars, Stands(bars, c, n, m, p),
           NEW bucket, bucket = bucket_for(c[k].time, m, p), NEW b, b = NewBar(c[k], bucket),
           n > 0 => bars[Len(bars)].time # b.time
    PROVE  Stands(Append(bars, b), c, k, m, p)
<1>1. PICK new, L : new = Append(bars, b) /\ L = Len(bars)
  OBVIOUS
<1>2. /\ \A i \in 1 .. Len(c) : c[i] \in CandleRecords /\ c[i].time \in Nat
      /\ \A i, j \in 1 .. Len(c) : (i < j) <=> (c[i].time < c[j].time)
      /\ Len(c) \in Nat
  BY SeriesIs
<1>3. /\ b \in BarRecords /\ DrawnFrom(b, c, k, k, m, p)
      /\ b.from = c[k].time /\ b.upto = c[k].time
  <2>1. bucket \in Int
    BY <1>2, BucketIs
  <2>2. k \in Int /\ c[k] \in CandleRecords
    BY <1>2
  <2>3. bucket = bucket_for(c[k].time, m, p) /\ b = NewBar(c[k], bucket)
    OBVIOUS
  <2> QED BY ONLY <2>1, <2>2, <2>3, NewBarIs
<1>4. bars \in Seq(BarRecords) /\ L \in Nat
  BY <1>1, LenProperties DEF Stands
<1>5. /\ new \in Seq(BarRecords) /\ Len(new) = L + 1 /\ new[L + 1] = b
      /\ \A j \in 1 .. L : new[j] = bars[j]
  BY <1>1, <1>3, <1>4, AppendProperties
<1>6. \A j \in 1 .. L + 1 : j \in 1 .. L \/ j = L + 1
  BY <1>4
<1>7. \A i \in 1 .. k : i \in 1 .. n \/ i = k
  OBVIOUS
<1>8. \A i \in 1 .. n : i \in 1 .. k /\ i < k /\ i \in 1 .. Len(c)
  BY <1>2
<1>9. ASSUME NEW j \in 1 .. L
      PROVE  /\ \E a, z \in 1 .. n : a <= z /\ DrawnFrom(new[j], c, a, z, m, p)
             /\ bars[j].upto < c[k].time
  <2>1. PICK a \in 1 .. n, z \in 1 .. n : a <= z /\ DrawnFrom(bars[j], c, a, z, m, p)
    BY <1>1 DEF Stands
  <2>2. bars[j].upto = c[z].time
    BY <2>1 DEF DrawnFrom
  <2>3. c[z].time < c[k].time
    BY <1>2, <1>8
  <2> QED BY <1>5, <2>1, <2>2, <2>3
<1>10. \A j \in 1 .. Len(new) : \E a, z \in 1 .. k : a <= z /\ DrawnFrom(new[j], c, a, z, m, p)
  <2> SUFFICES ASSUME NEW j \in 1 .. L + 1
               PROVE  \E a, z \in 1 .. k : a <= z /\ DrawnFrom(new[j], c, a, z, m, p)
    BY <1>5
  <2>1. CASE j \in 1 .. L
    BY <1>8, <1>9, <2>1
  <2>2. CASE j = L + 1
    <3>1. k \in 1 .. k /\ k <= k
      OBVIOUS
    <3> QED BY <1>3, <1>5, <2>2, <3>1
  <2> QED BY <1>6, <2>1, <2>2
<1>11. \A j, l \in 1 .. Len(new) : j < l => new[j].upto < new[l].from
  <2> SUFFICES ASSUME NEW j \in 1 .. L + 1, NEW l \in 1 .. L + 1, j < l
               PROVE  new[j].upto < new[l].from
    BY <1>5
  <2>1. j \in 1 .. L
    BY <1>4
  <2>2. CASE l \in 1 .. L
    <3>1. bars[j].upto < bars[l].from
      BY <1>1, <2>1, <2>2 DEF Stands
    <3> QED BY <1>5, <2>1, <2>2, <3>1
  <2>3. CASE l = L + 1
    BY <1>3, <1>5, <1>9, <2>1, <2>3
  <2> QED BY <1>6, <2>2, <2>3
<1>12. \A j \in 1 .. Len(new) : j > 1 => new[j - 1].time # new[j].time
  <2> SUFFICES ASSUME NEW j \in 1 .. L + 1, j > 1
               PROVE  new[j - 1].time # new[j].time
    BY <1>5
  <2>1. j - 1 \in 1 .. L
    BY <1>4
  <2>2. CASE j \in 1 .. L
    <3>1. bars[j - 1].time # bars[j].time
      BY <1>1, <2>2 DEF Stands
    <3> QED BY <1>5, <2>1, <2>2, <3>1
  <2>3. CASE j = L + 1
    <3>1. L > 0 /\ j - 1 = L
      BY <1>4, <2>1, <2>3
    <3>2. n > 0
      BY <1>1, <3>1 DEF Stands
    <3> QED BY <1>1, <1>5, <2>1, <2>3, <3>1, <3>2
  <2> QED BY <1>6, <2>2, <2>3
<1>13. ASSUME NEW i \in 1 .. k
       PROVE  \E j \in 1 .. Len(new) : new[j].from <= c[i].time /\ c[i].time <= new[j].upto
  <2>1. CASE i \in 1 .. n
    <3>1. PICK j \in 1 .. L : bars[j].from <= c[i].time /\ c[i].time <= bars[j].upto
      BY <1>1, <2>1 DEF Stands
    <3>2. j \in 1 .. L + 1
      BY <1>4
    <3> QED BY <1>5, <3>1, <3>2
  <2>2. CASE i = k
    <3>1. L + 1 \in 1 .. L + 1 /\ c[k].time \in Nat
      BY <1>2, <1>4
    <3> QED BY <1>3, <1>5, <2>2, <3>1
  <2> QED BY <1>7, <2>1, <2>2
<1>14. k > 0 /\ (Len(new) # 0) /\ new[Len(new)].upto = c[k].time
  BY <1>3, <1>4, <1>5
<1>15. Stands(new, c, k, m, p)
  BY <1>5, <1>10, <1>11, <1>12, <1>13, <1>14 DEF Stands
<1> QED BY <1>1, <1>15

\* or is merged into the last one.
LEMMA MergesIntoBar ==
    ASSUME NEW c, Series(c), NEW n \in Nat, n > 0, NEW k, k = n + 1, k \in 1 .. Len(c),
           NEW m \in Nat \ {0}, NEW p \in Profiles, NEW bars, Stands(bars, c, n, m, p),
           NEW L, L = Len(bars), bars[L].time = bucket_for(c[k].time, m, p),
           NEW b, b = Merged(bars[L], c[k])
    PROVE  Stands([bars EXCEPT ![L] = b], c, k, m, p)
<1>1. PICK new : new = [bars EXCEPT ![L] = b]
  OBVIOUS
<1>2. /\ \A i \in 1 .. Len(c) : c[i] \in CandleRecords /\ c[i].time \in Nat
      /\ \A i, j \in 1 .. Len(c) : c[i].time = c[j].time => i = j
      /\ \A i, j \in 1 .. Len(c) : (i < j) <=> (c[i].time < c[j].time)
      /\ \A i, j \in 1 .. Len(c) : (i <= j) <=> (c[i].time <= c[j].time)
      /\ Len(c) \in Nat
  BY SeriesIs
<1>3. /\ bars \in Seq(BarRecords) /\ L \in Nat \ {0} /\ L \in 1 .. L /\ bars[L].upto = c[n].time
      /\ DOMAIN bars = 1 .. L
  BY LenProperties DEF Stands
<1>4. \A i \in 1 .. n : i \in 1 .. k /\ i \in 1 .. Len(c)
  BY <1>2
<1>5. n \in 1 .. n /\ k \in 1 .. k
  OBVIOUS
<1>6. PICK a \in 1 .. n : a <= n /\ DrawnFrom(bars[L], c, a, n, m, p)
  <2>1. PICK a \in 1 .. n, z \in 1 .. n : a <= z /\ DrawnFrom(bars[L], c, a, z, m, p)
    BY <1>3 DEF Stands
  <2>2. bars[L].upto = c[z].time
    BY <2>1 DEF DrawnFrom
  <2>3. z = n
    BY <1>2, <1>3, <1>4, <1>5, <2>2
  <2> QED BY <2>1, <2>3
<1>7. /\ b \in BarRecords /\ DrawnFrom(b, c, a, k, m, p)
      /\ b.time = bars[L].time /\ b.from = bars[L].from /\ b.upto = c[k].time
  <2>1. \A i \in a .. n : c[i] \in CandleRecords
    BY <1>2, <1>4
  <2>2. bars[L] \in BarRecords /\ c[k] \in CandleRecords /\ a \in Int /\ n \in Int
    BY <1>2, <1>3, ElementOfSeq
  <2> QED BY <1>6, <2>1, <2>2, MergedIs
<1>8. /\ new \in Seq(BarRecords) /\ Len(new) = L /\ new[L] = b
      /\ \A j \in 1 .. L : j # L => new[j] = bars[j]
  BY <1>1, <1>3, <1>7, ExceptSeq
<1>9. \A j \in 1 .. L : new[j].from = bars[j].from /\ new[j].time = bars[j].time
  BY <1>7, <1>8
<1>10. \A j \in 1 .. Len(new) : \E x, z \in 1 .. k : x <= z /\ DrawnFrom(new[j], c, x, z, m, p)
  <2> SUFFICES ASSUME NEW j \in 1 .. L
               PROVE  \E x, z \in 1 .. k : x <= z /\ DrawnFrom(new[j], c, x, z, m, p)
    BY <1>8
  <2>1. CASE j # L
    <3>1. \E x, z \in 1 .. n : x <= z /\ DrawnFrom(bars[j], c, x, z, m, p)
      BY DEF Stands
    <3> QED BY <1>4, <1>8, <2>1, <3>1
  <2>2. CASE j = L
    <3>1. a \in 1 .. k /\ a <= k
      BY <1>6
    <3> QED BY <1>5, <1>7, <1>8, <2>2, <3>1
  <2> QED BY <2>1, <2>2
<1>11. \A j, l \in 1 .. Len(new) : j < l => new[j].upto < new[l].from
  <2> SUFFICES ASSUME NEW j \in 1 .. L, NEW l \in 1 .. L, j < l
               PROVE  new[j].upto < new[l].from
    BY <1>8
  <2>1. j # L
    BY <1>3
  <2>2. bars[j].upto < bars[l].from
    BY DEF Stands
  <2> QED BY <1>8, <1>9, <2>1, <2>2
<1>12. \A j \in 1 .. Len(new) : j > 1 => new[j - 1].time # new[j].time
  <2> SUFFICES ASSUME NEW j \in 1 .. L, j > 1
               PROVE  new[j - 1].time # new[j].time
    BY <1>8
  <2>1. j - 1 \in 1 .. L
    BY <1>3
  <2>2. bars[j - 1].time # bars[j].time
    BY DEF Stands
  <2> QED BY <1>9, <2>1, <2>2
<1>13. ASSUME NEW i \in 1 .. k
       PROVE  \E j \in 1 .. Len(new) : new[j].from <= c[i].time /\ c[i].time <= new[j].upto
  <2>1. i \in 1 .. Len(c) /\ c[i].time <= c[k].time
    BY <1>2
  <2>2. c[k].time \in Nat /\ c[i].time \in Nat /\ c[n].time \in Nat /\ c[n].time <= c[k].time
    BY <1>2, <1>4, <1>5, <2>1
  <2>3. CASE i \in 1 .. n
    <3>1. PICK j \in 1 .. L : bars[j].from <= c[i].time /\ c[i].time <= bars[j].upto
      BY <2>3 DEF Stands
    <3>2. CASE j = L
      BY <1>7, <1>8, <2>1, <3>1, <3>2
    <3>3. CASE j # L
      BY <1>8, <3>1, <3>3
    <3> QED BY <3>2, <3>3
  <2>4. CASE i = k
    <3>1. bars[L].from = c[a].time /\ c[a].time <= c[k].time
      <4>1. a \in 1 .. Len(c) /\ a <= k
        BY <1>4, <1>6
      <4> QED BY <1>2, <1>6, <4>1 DEF DrawnFrom
    <3> QED BY <1>3, <1>7, <1>8, <2>2, <2>4, <3>1
  <2> QED BY <2>3, <2>4
<1>14. ((Len(new) = 0) <=> (k = 0)) /\ new[Len(new)].upto = c[k].time
  BY <1>3, <1>7, <1>8
<1>15. Stands(new, c, k, m, p)
  BY <1>8, <1>10, <1>11, <1>12, <1>13, <1>14 DEF Stands
<1> QED BY <1>1, <1>15

\* Either way the bars stand for one candle more.
LEMMA JoinStands ==
    ASSUME NEW c, Series(c), NEW n \in Nat, NEW k, k = n + 1, k \in 1 .. Len(c),
           NEW m \in Nat \ {0}, NEW p \in Profiles, NEW bars, Stands(bars, c, n, m, p)
    PROVE  Stands(Join(bars, c[k], bucket_for(c[k].time, m, p)), c, k, m, p)
<1>1. PICK bucket, L, new : /\ bucket = bucket_for(c[k].time, m, p) /\ L = Len(bars)
                            /\ new = Join(bars, c[k], bucket)
  OBVIOUS
<1>2. bars \in Seq(BarRecords) /\ L \in Nat /\ DOMAIN bars = 1 .. L /\ ((L = 0) <=> (n = 0))
      /\ ((bars = <<>>) <=> (L = 0))
  BY <1>1, LenProperties, EmptySeq DEF Stands
<1>3. Last(bars) = bars[L]
  BY <1>1 DEF Last
<1>4. CASE bars = <<>> \/ bars[L].time # bucket
  <2>1. PICK b : b = NewBar(c[k], bucket)
    OBVIOUS
  <2>2. b.time = bucket
    BY <2>1 DEF NewBar
  <2>3. n > 0 => bars[Len(bars)].time # b.time
    BY <1>1, <1>2, <1>4, <2>2
  <2>4. Stands(Append(bars, b), c, k, m, p)
    BY <1>1, <2>1, <2>3, StartsBar
  <2>5. new = Append(bars, b)
    BY <1>1, <1>3, <1>4, <2>1 DEF Join
  <2> QED BY <1>1, <2>4, <2>5
<1>5. CASE bars # <<>> /\ bars[L].time = bucket
  <2>1. PICK b : b = Merged(bars[L], c[k])
    OBVIOUS
  <2>2. n > 0
    BY <1>2, <1>5
  <2>3. Stands([bars EXCEPT ![L] = b], c, k, m, p)
    BY <1>1, <1>5, <2>1, <2>2, MergesIntoBar
  <2>4. new = [bars EXCEPT ![L] = b]
    BY <1>1, <1>2, <1>3, <1>5, <2>1 DEF Join
  <2> QED BY <1>1, <2>3, <2>4
<1> QED BY <1>4, <1>5

\* Joined bars are bars.
LEMMA JoinType ==
    ASSUME NEW bars \in Seq(BarRecords), NEW d \in CandleRecords, NEW bucket \in Int
    PROVE  Join(bars, d, bucket) \in Seq(BarRecords)
<1>1. PICK L, b, e : L = Len(bars) /\ b = NewBar(d, bucket) /\ e = Merged(bars[L], d)
  OBVIOUS
<1>2. L \in Nat /\ ((bars = <<>>) <=> (L = 0))
  BY <1>1, LenProperties, EmptySeq
<1>3. b \in BarRecords
  BY <1>1 DEF NewBar, BarRecords, CandleRecords
<1>4. Append(bars, b) \in Seq(BarRecords)
  BY <1>3, AppendProperties
<1>5. ASSUME bars # <<>> PROVE [bars EXCEPT ![L] = e] \in Seq(BarRecords)
  <2>1. L \in 1 .. Len(bars)
    BY <1>1, <1>2, <1>5
  <2>2. bars[L] \in BarRecords
    BY <2>1, ElementOfSeq
  <2>3. e \in BarRecords
    BY <1>1, <2>2 DEF Merged, Greatest, Least, BarRecords, CandleRecords
  <2> QED BY <2>1, <2>3, ExceptSeq
<1>6. Join(bars, d, bucket) = IF bars = <<>> \/ bars[L].time # bucket THEN Append(bars, b)
                              ELSE [bars EXCEPT ![L] = e]
  BY <1>1 DEF Join, Last
<1> QED BY <1>4, <1>5, <1>6

\* What resample joins, candle after candle, is its result.
LEMMA ResampleIs ==
    ASSUME NEW c, Series(c), NEW m \in Nat \ {0}, NEW p \in Profiles
    PROVE  \E g \in [0 .. Len(c) -> Seq(BarRecords)] :
             /\ g[0] = <<>> /\ resample(c, m, p) = g[Len(c)]
             /\ \A k \in 1 .. Len(c) : g[k] = Join(g[k - 1], c[k], bucket_for(c[k].time, m, p))
<1>1. PICK n, A, e : n = Len(c) /\ A = Seq(BarRecords) /\ e = <<>>
  OBVIOUS
<1>2. n \in Nat /\ \A k \in 1 .. n : c[k] \in CandleRecords /\ c[k].time \in Nat
  BY <1>1, SeriesIs
<1>3. e \in A
  BY <1>1
<1>4. PICK move : move = [k \in 1 .. n |-> [bars \in A |-> Join(bars, c[k], bucket_for(c[k].time, m, p))]]
  OBVIOUS
<1>5. ASSUME NEW k \in 1 .. n, NEW bars \in A
      PROVE  /\ Join(bars, c[k], bucket_for(c[k].time, m, p)) \in A
             /\ move[k][bars] = Join(bars, c[k], bucket_for(c[k].time, m, p))
  <2>1. bucket_for(c[k].time, m, p) \in Int
    BY <1>2, BucketIs
  <2> QED BY <1>1, <1>2, <1>4, <2>1, JoinType
<1>6. MovesOn(move, n, A)
  BY <1>4, <1>5 DEF MovesOn
<1>7. PICK g \in [0 .. n -> A] : PassesThrough(g, e, n, move)
  BY <1>2, <1>3, <1>6, IteratesOver
<1>8. /\ g[0] = e
      /\ \A k \in 1 .. n : g[k] = Join(g[k - 1], c[k], bucket_for(c[k].time, m, p))
  <2>1. g[0] = e /\ \A k \in 1 .. n : g[k] = move[k][g[k - 1]]
    BY <1>7 DEF PassesThrough
  <2>2. \A k \in 1 .. n : g[k - 1] \in A
    BY <1>2, <1>7
  <2> QED BY <1>5, <2>1, <2>2
<1> DEFINE Run(f) == f = [k \in 0 .. n |-> IF k = 0 THEN <<>>
                                           ELSE Join(f[k - 1], c[k], bucket_for(c[k].time, m, p))]
<1>9. Run(g)
  <2>1. \A k \in 0 .. n : g[k] = IF k = 0 THEN <<>>
                                 ELSE Join(g[k - 1], c[k], bucket_for(c[k].time, m, p))
    BY <1>1, <1>2, <1>8
  <2> QED BY <1>7, <2>1
<1>10. resample(c, m, p) = (CHOOSE f : Run(f))[n]
  BY <1>1 DEF resample
<1>11. PICK f : f = CHOOSE h : Run(h)
  OBVIOUS
<1>12. Run(f)
  <2> HIDE DEF Run
  <2> QED BY <1>9, <1>11
<1>13. StepsAlike(f, g, n)
  BY <1>2, <1>9, <1>12 DEF StepsAlike
<1>14. f[n] = g[n]
  <2>1. \A k \in 0 .. n : f[k] = g[k]
    BY <1>2, <1>13, StepwiseSame
  <2> QED BY <1>2, <2>1
<1>15. resample(c, m, p) = g[n]
  <2> HIDE DEF Run
  <2> QED BY <1>10, <1>11, <1>14
<1> QED BY <1>1, <1>7, <1>8, <1>15

\* So its bars stand for all of the candles.
LEMMA ResampleStands ==
    ASSUME NEW c, Series(c), NEW m \in Nat \ {0}, NEW p \in Profiles
    PROVE  Stands(resample(c, m, p), c, Len(c), m, p)
<1>1. PICK N : N = Len(c)
  OBVIOUS
<1>2. N \in Nat
  BY <1>1, SeriesIs
<1>3. PICK g \in [0 .. N -> Seq(BarRecords)] :
        /\ g[0] = <<>> /\ resample(c, m, p) = g[N]
        /\ \A k \in 1 .. N : g[k] = Join(g[k - 1], c[k], bucket_for(c[k].time, m, p))
  BY <1>1, ResampleIs
<1> DEFINE Bad == {n \in 0 .. N : ~Stands(g[n], c, n, m, p)}
<1>4. Bad = {}
  <2> SUFFICES ASSUME Bad # {} PROVE FALSE
    OBVIOUS
  <2>1. Bad \in SUBSET Nat
    BY <1>2
  <2>2. PICK k \in Bad : \A j \in Bad : k <= j
    <3> HIDE DEF Bad
    <3> QED BY <2>1, LeastNat
  <2>3. k \in 0 .. N /\ ~Stands(g[k], c, k, m, p)
    OBVIOUS
  <2>4. Stands(<<>>, c, 0, m, p)
    <3>1. <<>> \in Seq(BarRecords) /\ Len(<<>>) = 0
      BY EmptySeq
    <3> QED BY <3>1 DEF Stands
  <2>5. k # 0
    BY <1>3, <2>3, <2>4
  <2>6. PICK n : n = k - 1
    OBVIOUS
  <2>7. n \in Nat /\ k = n + 1 /\ k \in 1 .. Len(c) /\ n \in 0 .. N /\ ~(k <= n) /\ k \in 1 .. N
    BY <1>1, <1>2, <2>3, <2>5, <2>6
  <2>8. Stands(g[n], c, n, m, p)
    BY <2>2, <2>7
  <2>9. PICK bars : bars = g[n]
    OBVIOUS
  <2>10. Stands(Join(bars, c[k], bucket_for(c[k].time, m, p)), c, k, m, p)
    BY <2>7, <2>8, <2>9, JoinStands
  <2>11. g[k] = Join(bars, c[k], bucket_for(c[k].time, m, p))
    BY <1>3, <2>6, <2>7, <2>9
  <2> QED BY <2>3, <2>10, <2>11
<1>5. Stands(g[N], c, N, m, p)
  BY <1>2, <1>4
<1> QED BY <1>1, <1>3, <1>5

-----------------------------------------------------------------------------
(* What follows for a chart *)

\* The candles a bar is drawn from are those within its bounds.
LEMMA WithinBar ==
    ASSUME NEW c, Series(c), NEW a \in 1 .. Len(c), NEW z \in 1 .. Len(c), a <= z,
           NEW m, NEW p, NEW b, DrawnFrom(b, c, a, z, m, p), NEW i \in 1 .. Len(c)
    PROVE  (b.from <= c[i].time /\ c[i].time <= b.upto) <=> i \in a .. z
<1>1. b.from = c[a].time /\ b.upto = c[z].time
  BY DEF DrawnFrom
<1>2. /\ (a <= i) <=> (c[a].time <= c[i].time)
      /\ (i <= z) <=> (c[i].time <= c[z].time)
      /\ Len(c) \in Nat
  BY SeriesIs
<1> QED BY <1>1, <1>2

\* An element that no other exceeds is the greatest.
LEMMA MaxKnown ==
    ASSUME NEW S \in SUBSET Int, NEW x \in S, \A y \in S : y <= x
    PROVE  Max(S) = x
<1>1. \E y \in S : \A z \in S : y >= z
  BY DEF Max
<1>2. PICK g : g = Max(S)
  OBVIOUS
<1>3. g \in S /\ \A z \in S : g >= z
  BY <1>1, <1>2 DEF Max
<1>4. g \in Int /\ x \in Int /\ g >= x /\ g <= x
  BY <1>3
<1> QED BY <1>2, <1>4

\* The same of the least one.
LEMMA MinKnown ==
    ASSUME NEW S \in SUBSET Int, NEW x \in S, \A y \in S : x <= y
    PROVE  Min(S) = x
<1>1. PICK g : g = Min(S)
  OBVIOUS
<1>2. g \in S /\ \A z \in S : g <= z
  BY <1>1 DEF Min
<1>3. g \in Int /\ x \in Int /\ g <= x /\ x <= g
  BY <1>2
<1> QED BY <1>1, <1>3

\* Bars that stand for candles are faithful to them,
LEMMA StandsIsFaithful ==
    ASSUME NEW c, Series(c), NEW m, NEW p, NEW bars, Stands(bars, c, Len(c), m, p)
    PROVE  Faithful(bars, c)
<1>1. PICK n, L : n = Len(c) /\ L = Len(bars)
  OBVIOUS
<1>2. /\ n \in Nat /\ DOMAIN c = 1 .. n
      /\ \A i \in 1 .. n : c[i] \in CandleRecords
  BY <1>1, SeriesIs
<1>3. L \in Nat /\ DOMAIN bars = 1 .. L /\ bars \in Seq(BarRecords)
  BY <1>1, LenProperties DEF Stands
<1> DEFINE In(b) == {i \in DOMAIN c : b.from <= c[i].time /\ c[i].time <= b.upto}
<1>4. ASSUME NEW k \in 1 .. L
      PROVE  /\ In(bars[k]) # {}
             /\ bars[k].open = c[Min(In(bars[k]))].open
             /\ bars[k].close = c[Max(In(bars[k]))].close
             /\ bars[k].high = Max({c[i].high : i \in In(bars[k])})
             /\ bars[k].low = Min({c[i].low : i \in In(bars[k])})
  <2>1. PICK b : b = bars[k]
    OBVIOUS
  <2>2. PICK a \in 1 .. n, z \in 1 .. n : a <= z /\ DrawnFrom(b, c, a, z, m, p)
    BY <1>1, <2>1 DEF Stands
  <2>3. PICK own : own = In(b)
    OBVIOUS
  <2>4. own = a .. z
    <3>1. \A i \in 1 .. n : i \in own <=> i \in a .. z
      BY <1>1, <1>2, <2>2, <2>3, WithinBar
    <3>2. own \subseteq 1 .. n /\ a .. z \subseteq 1 .. n
      BY <1>2, <2>3
    <3> QED BY <3>1, <3>2
  <2>5. /\ a \in own /\ z \in own /\ own \in SUBSET Int
        /\ \A i \in own : a <= i /\ i <= z /\ i \in 1 .. n
    BY <1>2, <2>2, <2>4
  <2>6. Min(own) = a /\ Max(own) = z
    BY <2>5, MaxKnown, MinKnown
  <2>7. PICK highs, lows : highs = {c[i].high : i \in own} /\ lows = {c[i].low : i \in own}
    OBVIOUS
  <2>8. highs \in SUBSET Int /\ lows \in SUBSET Int
    <3>1. \A i \in own : c[i].high \in Int /\ c[i].low \in Int
      BY <1>2, <2>5 DEF CandleRecords
    <3> QED BY <2>7, <3>1
  <2>9. b.high \in highs /\ (\A y \in highs : y <= b.high)
    BY <2>2, <2>4, <2>7 DEF DrawnFrom
  <2>10. b.low \in lows /\ (\A y \in lows : b.low <= y)
    BY <2>2, <2>4, <2>7 DEF DrawnFrom
  <2>11. PICK h, l : h = b.high /\ l = b.low
    OBVIOUS
  <2>12. Max(highs) = h /\ Min(lows) = l
    BY <2>8, <2>9, <2>10, <2>11, MaxKnown, MinKnown
  <2>13. b.open = c[a].open /\ b.close = c[z].close
    BY <2>2 DEF DrawnFrom
  <2> HIDE DEF In
  <2> QED BY <2>1, <2>3, <2>5, <2>6, <2>7, <2>11, <2>12, <2>13
<1>5. UNION {In(bars[k]) : k \in 1 .. L} = DOMAIN c
  <2>1. \A i \in 1 .. n : \E k \in 1 .. L : bars[k].from <= c[i].time /\ c[i].time <= bars[k].upto
    BY <1>1 DEF Stands
  <2> QED BY <1>2, <2>1
<1>6. \A k \in 2 .. L : bars[k - 1].upto < bars[k].from
  <2> SUFFICES ASSUME NEW k \in 2 .. L
               PROVE  bars[k - 1].upto < bars[k].from
    OBVIOUS
  <2>1. PICK j : j = k - 1
    OBVIOUS
  <2>2. j \in 1 .. L /\ k \in 1 .. L /\ j < k
    BY <1>3, <2>1
  <2> QED BY <1>1, <2>1, <2>2 DEF Stands
<1> QED BY <1>1, <1>3, <1>4, <1>5, <1>6 DEF Faithful

\* and in the order of time, unless the local clock ran backwards;
LEMMA StandsInOrder ==
    ASSUME NEW c, Series(c), NEW m \in Nat \ {0}, NEW p \in Profiles,
           NEW bars, Stands(bars, c, Len(c), m, p), p = "utc_aligned" \/ ~PutBackWithin(c)
    PROVE  InOrder(bars)
<1>1. /\ Len(c) \in Nat /\ DOMAIN c = 1 .. Len(c)
      /\ \A i \in 1 .. Len(c) : c[i].time \in Nat
      /\ \A i, j \in 1 .. Len(c) : (i < j) <=> (c[i].time < c[j].time)
  BY SeriesIs
<1>2. ASSUME NEW i \in 1 .. Len(c), NEW j \in 1 .. Len(c), i < j
      PROVE  Clock(c[i].time, p) <= Clock(c[j].time, p)
  <2>1. c[i].time < c[j].time /\ c[i].time \in Nat /\ c[j].time \in Nat
    BY <1>1, <1>2
  <2>2. CASE p = "utc_aligned"
    BY <2>1, <2>2 DEF Clock
  <2>3. CASE p # "utc_aligned"
    <3>1. ~(Wall(c[j].time) <= Wall(c[i].time))
      BY <1>1, <1>2, <2>3 DEF PutBackWithin
    <3>2. Wall(c[i].time) \in Int /\ Wall(c[j].time) \in Int
      BY <2>1, WallIs
    <3> QED BY <2>3, <3>1, <3>2 DEF Clock
  <2> QED BY <2>2, <2>3
<1>3. Len(bars) \in Nat
  BY LenProperties DEF Stands
<1> SUFFICES ASSUME NEW k \in 2 .. Len(bars)
             PROVE  bars[k - 1].time < bars[k].time
  BY DEF InOrder
<1>4. PICK j : j = k - 1
  OBVIOUS
<1>5. j \in 1 .. Len(bars) /\ k \in 1 .. Len(bars) /\ j < k /\ k > 1
  BY <1>3, <1>4
<1>6. bars[j].upto < bars[k].from /\ bars[j].time # bars[k].time
  BY <1>4, <1>5 DEF Stands
<1>7. PICK a \in 1 .. Len(c), z \in 1 .. Len(c) : a <= z /\ DrawnFrom(bars[j], c, a, z, m, p)
  BY <1>5 DEF Stands
<1>8. PICK d \in 1 .. Len(c), e \in 1 .. Len(c) : d <= e /\ DrawnFrom(bars[k], c, d, e, m, p)
  BY <1>5 DEF Stands
<1>9. PICK t, u : t = c[z].time /\ u = c[d].time
  OBVIOUS
<1>10. t \in Nat /\ u \in Nat /\ t < u /\ z < d
  BY <1>1, <1>6, <1>7, <1>8, <1>9 DEF DrawnFrom
<1>11. bars[j].time = bucket_for(t, m, p) /\ bars[k].time = bucket_for(u, m, p)
  <2>1. z \in a .. z /\ d \in d .. e
    BY <1>1, <1>7, <1>8
  <2> QED BY <1>7, <1>8, <1>9, <2>1 DEF DrawnFrom
<1>12. Clock(t, p) <= Clock(u, p)
  BY <1>2, <1>9, <1>10
<1>13. LocalBucket(t, m, p) <= LocalBucket(u, m, p)
  BY <1>10, <1>12, LocalBucketAscends
<1>14. PICK x, y : x = bucket_for(t, m, p) /\ y = bucket_for(u, m, p)
  OBVIOUS
<1>15. x \in Int /\ y \in Int /\ x <= y
  BY <1>10, <1>13, <1>14, BucketIs
<1> QED BY <1>4, <1>6, <1>11, <1>14, <1>15

\* the bars that resample draws are both.
LEMMA ResampleIsDrawn ==
    ASSUME NEW c, Series(c), NEW m \in Nat \ {0}, NEW p \in Profiles
    PROVE  /\ Faithful(resample(c, m, p), c)
           /\ p = "utc_aligned" \/ ~PutBackWithin(c) => InOrder(resample(c, m, p))
<1>1. PICK bars : bars = resample(c, m, p)
  OBVIOUS
<1>2. Stands(bars, c, Len(c), m, p)
  BY <1>1, ResampleStands
<1> QED BY <1>1, <1>2, StandsIsFaithful, StandsInOrder

\* The bar of each candle has the time of its bucket.
LEMMA CandleIsDrawn ==
    ASSUME NEW c, Series(c), NEW m, NEW p, NEW bars, Stands(bars, c, Len(c), m, p),
           NEW i \in 1 .. Len(c), NEW j \in 1 .. Len(bars),
           bars[j].from <= c[i].time, c[i].time <= bars[j].upto
    PROVE  bars[j].time = bucket_for(c[i].time, m, p)
<1>1. PICK a \in 1 .. Len(c), z \in 1 .. Len(c) : a <= z /\ DrawnFrom(bars[j], c, a, z, m, p)
  BY DEF Stands
<1>2. PICK b : b = bars[j]
  OBVIOUS
<1>3. i \in a .. z
  BY <1>1, <1>2, WithinBar
<1> QED BY <1>1, <1>3 DEF DrawnFrom

\* Bars ascend with their candles.
LEMMA BarsAscend ==
    ASSUME NEW c, Series(c), NEW m, NEW p, NEW bars, Stands(bars, c, Len(c), m, p),
           NEW i \in 1 .. Len(c), NEW l \in 1 .. Len(c), l <= i,
           NEW j \in 1 .. Len(bars), NEW h \in 1 .. Len(bars),
           c[i].time <= bars[j].upto, bars[h].from <= c[l].time
    PROVE  h <= j
<1>1. SUFFICES ASSUME j < h PROVE FALSE
  BY LenProperties DEF Stands
<1>2. bars[j].upto < bars[h].from
  BY <1>1 DEF Stands
<1>3. c[l].time <= c[i].time /\ c[l].time \in Nat /\ c[i].time \in Nat
  BY SeriesIs
<1>4. bars[j].upto \in Nat /\ bars[h].from \in Nat
  <2>1. bars[j] \in BarRecords /\ bars[h] \in BarRecords
    BY ElementOfSeq DEF Stands
  <2> QED BY <2>1 DEF BarRecords
<1> QED BY <1>2, <1>3, <1>4

\* The first bar is that of the first candle.
LEMMA FirstBarIs ==
    ASSUME NEW c, Series(c), NEW m, NEW p, NEW bars, Stands(bars, c, Len(c), m, p), Len(c) > 0
    PROVE  Len(bars) > 0 /\ bars[1].time = bucket_for(c[1].time, m, p)
<1>1. 1 \in 1 .. Len(c) /\ Len(c) \in Nat
  BY SeriesIs
<1>2. PICK j \in 1 .. Len(bars) : bars[j].from <= c[1].time /\ c[1].time <= bars[j].upto
  BY <1>1 DEF Stands
<1>3. Len(bars) \in Nat /\ 1 \in 1 .. Len(bars)
  BY <1>2, LenProperties DEF Stands
<1>4. PICK a \in 1 .. Len(c), z \in 1 .. Len(c) : a <= z /\ DrawnFrom(bars[1], c, a, z, m, p)
  BY <1>3 DEF Stands
<1>5. bars[1].upto = c[z].time
  BY <1>4 DEF DrawnFrom
<1>6. c[z].time <= bars[1].upto /\ 1 <= z
  BY <1>1, <1>5, SeriesIs
<1>7. PICK one : one = 1
  OBVIOUS
<1>8. j <= one
  BY <1>1, <1>2, <1>3, <1>6, <1>7, BarsAscend
<1>9. j = 1
  BY <1>2, <1>3, <1>7, <1>8
<1> QED BY <1>1, <1>2, <1>3, <1>7, <1>9, CandleIsDrawn

\* A multiple more.
LEMMA OneMultipleMore ==
    ASSUME NEW m \in Nat, NEW x \in Int, NEW y \in Int, y < x
    PROVE  m * y + m <= m * x
OBVIOUS

\* How often the local clock has passed over a time that it shows twice.
Passes(t) == IF t < PutBackAt THEN 0 ELSE 1

\* Bars that precede a candle hold at most their minutes, and once more where the
\* clock was put back: the bar of a candle is not far behind it.
LEMMA CandlePlace ==
    ASSUME NEW c, Series(c), NEW m \in Nat \ {0}, NEW p \in Profiles,
           NEW bars, Stands(bars, c, Len(c), m, p)
    PROVE  \A i \in 1 .. Len(c) : \A j \in 1 .. Len(bars) :
              bars[j].from <= c[i].time /\ c[i].time <= bars[j].upto =>
                i <= m * (j - 1 + Passes(c[i].time))
                       + (Clock(c[i].time, p) - LocalBucket(c[i].time, m, p)) + 1
<1> DEFINE Near(i, j) == i <= m * (j - 1 + Passes(c[i].time))
                               + (Clock(c[i].time, p) - LocalBucket(c[i].time, m, p)) + 1
           Bad == {i \in 1 .. Len(c) : \E j \in 1 .. Len(bars) :
                     /\ bars[j].from <= c[i].time /\ c[i].time <= bars[j].upto
                     /\ ~Near(i, j)}
<1> HIDE DEF Near, Bad
<1>1. /\ Len(c) \in Nat /\ Len(bars) \in Nat
      /\ \A i \in 1 .. Len(c) : c[i].time \in Nat
      /\ \A i, j \in 1 .. Len(c) : (i < j) <=> (c[i].time < c[j].time)
  BY SeriesIs, LenProperties DEF Stands
<1>2. ASSUME Bad # {} PROVE FALSE
  <2>1. Bad \in SUBSET Nat
    BY <1>1 DEF Bad
  <2>2. PICK i \in Bad : \A l \in Bad : i <= l
    BY <1>2, <2>1, LeastNat
  <2>3. /\ i \in 1 .. Len(c)
        /\ \E j \in 1 .. Len(bars) : /\ bars[j].from <= c[i].time /\ c[i].time <= bars[j].upto
                                     /\ ~Near(i, j)
    BY <2>2 DEF Bad
  <2>4. PICK j \in 1 .. Len(bars) : /\ bars[j].from <= c[i].time /\ c[i].time <= bars[j].upto
                                    /\ ~Near(i, j) /\ i \in Nat /\ j \in Nat \ {0}
    BY <1>1, <2>3
  <2>5. PICK t, o, r : /\ t = c[i].time /\ o = Clock(t, p) - LocalBucket(t, m, p) /\ r = Passes(t)
    OBVIOUS
  <2>6. t \in Nat /\ o \in Int /\ 0 <= o /\ r \in {0, 1}
    <3>1. t \in Nat
      BY <1>1, <2>3, <2>5
    <3>2. Clock(t, p) \in Int /\ LocalBucket(t, m, p) \in Int /\ LocalBucket(t, m, p) <= Clock(t, p)
      BY <3>1, LocalBucketIs
    <3> QED BY <2>5, <3>1, <3>2 DEF Passes
  <2>7. PICK x : x = j - 1 + r
    OBVIOUS
  <2>8. x \in Nat
    BY <2>4, <2>6, <2>7
  <2>9. PICK mx : mx = m * x /\ mx \in Nat
    BY <2>8
  <2>10. ~(i <= mx + o + 1)
    BY <2>4, <2>5, <2>7, <2>9 DEF Near
  <2>11. PICK l : l = i - 1
    OBVIOUS
  <2>12. l \in 1 .. Len(c) /\ l < i /\ l <= i /\ l \in Nat /\ i = l + 1
    BY <1>1, <2>3, <2>4, <2>6, <2>9, <2>11, <2>10
  <2>13. PICK h \in 1 .. Len(bars) : bars[h].from <= c[l].time /\ c[l].time <= bars[h].upto
    BY <2>12 DEF Stands
  <2>14. Near(l, h)
    <3>1. l \notin Bad
      BY <2>2, <2>12
    <3> QED BY <2>12, <2>13, <3>1 DEF Bad
  <2>15. PICK u, q, s : /\ u = c[l].time /\ q = Clock(u, p) - LocalBucket(u, m, p) /\ s = Passes(u)
    OBVIOUS
  <2>16. u \in Nat /\ q \in Int /\ 0 <= q /\ q < m /\ s \in {0, 1} /\ h \in Nat \ {0} /\ u < t
    <3>1. u \in Nat /\ u < t
      BY <1>1, <2>3, <2>5, <2>12, <2>15
    <3>2. Clock(u, p) \in Int /\ LocalBucket(u, m, p) \in Int
          /\ LocalBucket(u, m, p) <= Clock(u, p) /\ Clock(u, p) < LocalBucket(u, m, p) + m
      BY <3>1, LocalBucketIs
    <3>3. s \in {0, 1}
      BY <2>15 DEF Passes
    <3> QED BY <1>1, <2>13, <2>15, <3>1, <3>2, <3>3
  <2>17. PICK y : y = h - 1 + s
    OBVIOUS
  <2>18. y \in Nat
    BY <2>16, <2>17
  <2>19. PICK my : my = m * y /\ my \in Nat
    BY <2>18
  <2>20. l <= my + q + 1
    BY <2>14, <2>15, <2>17, <2>19 DEF Near
  <2>21. s <= r
    <3>1. PutBackAt \in Nat
      BY DisplayAssumption
    <3>2. s = (IF u < PutBackAt THEN 0 ELSE 1) /\ r = (IF t < PutBackAt THEN 0 ELSE 1)
      BY <2>5, <2>15 DEF Passes
    <3>3. u \in Nat /\ t \in Nat /\ u < t
      BY <2>6, <2>16
    <3> QED BY ONLY <3>1, <3>2, <3>3
  <2>22. h <= j
    BY <2>3, <2>4, <2>12, <2>13, BarsAscend
  <2>23. CASE y < x
    <3>1. my + m <= mx
      BY <2>8, <2>9, <2>18, <2>19, <2>23, OneMultipleMore
    <3>2. mx \in Int /\ my \in Int /\ m \in Int
      BY <2>9, <2>19
    <3> QED BY <2>6, <2>12, <2>16, <2>10, <2>20, <3>1, <3>2
  <2>24. CASE ~(y < x)
    <3>1. h = j /\ s = r /\ x = y
      BY <2>4, <2>6, <2>7, <2>16, <2>17, <2>21, <2>22, <2>24
    <3>2. bucket_for(t, m, p) = bucket_for(u, m, p)
      <4>1. bars[j].time = bucket_for(c[i].time, m, p)
        BY <2>3, <2>4, CandleIsDrawn
      <4>2. bars[h].time = bucket_for(c[l].time, m, p)
        BY <2>12, <2>13, CandleIsDrawn
      <4> QED BY <2>5, <2>15, <3>1, <4>1, <4>2
    <3>3. LocalBucket(t, m, p) = LocalBucket(u, m, p)
      BY <2>6, <2>16, <3>2, BucketIs
    <3>4. Clock(u, p) < Clock(t, p)
      <4>1. PutBackAt \in Nat /\ PutBackBy \in Nat
        BY DisplayAssumption
      <4>2. (u < PutBackAt) <=> (t < PutBackAt)
        BY <2>5, <2>15, <3>1 DEF Passes
      <4> QED BY <2>6, <2>16, <4>1, <4>2 DEF Clock, Wall
    <3>5. q < o
      <4>1. Clock(u, p) \in Int /\ LocalBucket(u, m, p) \in Int /\ Clock(t, p) \in Int
        BY <2>6, <2>16, LocalBucketIs
      <4> QED BY <2>5, <2>15, <3>3, <3>4, <4>1
    <3>6. mx = my /\ mx \in Int
      BY <2>9, <2>19, <3>1
    <3> QED BY <2>6, <2>12, <2>16, <2>10, <2>20, <3>5, <3>6
  <2> QED BY <2>23, <2>24
<1> QED BY <1>2 DEF Bad, Near

\* A candle behind the warm-up is in a bar that has an average.
LEMMA BarIsWarm ==
    ASSUME NEW c, Series(c), NEW m \in Nat \ {0}, NEW p \in Profiles,
           NEW bars, Stands(bars, c, Len(c), m, p),
           NEW i \in 1 .. Len(c), i > Warmup * m, NEW j \in 1 .. Len(bars),
           bars[j].from <= c[i].time, c[i].time <= bars[j].upto
    PROVE  Period <= j
<1>1. PICK t, o, r : /\ t = c[i].time /\ o = Clock(t, p) - LocalBucket(t, m, p) /\ r = Passes(t)
  OBVIOUS
<1>2. t \in Nat /\ i \in Nat /\ j \in Nat
  <2>1. Len(c) \in Nat /\ c[i].time \in Nat
    BY SeriesIs
  <2>2. Len(bars) \in Nat
    BY LenProperties DEF Stands
  <2> QED BY <1>1, <2>1, <2>2
<1>3. o \in Int /\ o < m /\ r \in {0, 1}
  <2>1. /\ Clock(t, p) \in Int /\ LocalBucket(t, m, p) \in Int
        /\ Clock(t, p) < LocalBucket(t, m, p) + m
    BY <1>2, LocalBucketIs
  <2> QED BY <1>1, <2>1 DEF Passes
<1>4. PICK x : x = j - 1 + r
  OBVIOUS
<1>5. i <= m * x + o + 1
  BY <1>1, <1>4, CandlePlace
<1>6. x \in Int /\ x <= j
  BY <1>2, <1>3, <1>4
<1>7. Warmup \in Nat /\ Period \in Nat /\ Period <= Warmup
  BY WarmupAssumption, DisplayAssumption
<1>8. PICK mx, mw : mx = m * x /\ mw = m * Warmup /\ mx \in Int /\ mw \in Int /\ Warmup * m = mw
  BY <1>6, <1>7
<1>9. x < Warmup => mx + m <= mw
  BY <1>6, <1>7, <1>8, OneMultipleMore
<1>10. ~(x < Warmup)
  BY <1>2, <1>3, <1>5, <1>8, <1>9
<1> QED BY <1>2, <1>6, <1>7, <1>10

-----------------------------------------------------------------------------
(* The live chart *)

\* Consecutive candles.
Stretch(x, y) == SubSeq(Candles, x, y)

\* They are a series, as many as from the first to the last.
LEMMA StretchIs ==
    ASSUME NEW x \in Nat \ {0}, NEW y \in Int, x <= y + 1, y <= Len(Candles)
    PROVE  /\ Series(Stretch(x, y)) /\ Stretch(x, y) \in Seq(CandleRecords)
           /\ Len(Stretch(x, y)) = y - x + 1
           /\ \A i \in 1 .. y - x + 1 : Stretch(x, y)[i] = Candles[x + i - 1]
<1>1. /\ Candles \in Seq(CandleRecords) /\ DOMAIN Candles = 1 .. Len(Candles) /\ Len(Candles) \in Nat
      /\ \A i, j \in 1 .. Len(Candles) : i < j => Candles[i].time < Candles[j].time
  BY CandlesAre DEF CandleRecords
<1>2. \A i \in x .. y : i \in 1 .. Len(Candles) /\ Candles[i] \in CandleRecords
  <2>1. \A i \in x .. y : i \in 1 .. Len(Candles)
    BY <1>1
  <2> QED BY <1>1, <2>1, ElementOfSeq
<1>3. PICK s : s = Stretch(x, y)
  OBVIOUS
<1>4. /\ s \in Seq(CandleRecords) /\ Len(s) = IF x <= y THEN y - x + 1 ELSE 0
      /\ \A i \in 1 .. y - x + 1 : s[i] = Candles[x + i - 1]
  <2>1. x \in Int
    OBVIOUS
  <2> QED BY <1>2, <1>3, <2>1, SubSeqProperties DEF Stretch
<1>5. Len(s) = y - x + 1
  BY <1>4
<1>6. ASSUME NEW i \in 1 .. Len(s), NEW j \in 1 .. Len(s), i < j
      PROVE  s[i].time < s[j].time
  <2>1. PICK k, l : k = x + i - 1 /\ l = x + j - 1
    OBVIOUS
  <2>2. k \in 1 .. Len(Candles) /\ l \in 1 .. Len(Candles) /\ k < l
    BY <1>1, <1>5, <1>6, <2>1
  <2> QED BY <1>1, <1>4, <1>5, <2>1, <2>2
<1> QED BY <1>3, <1>4, <1>5, <1>6 DEF Series

\* Consecutive ones of these are consecutive candles,
LEMMA StretchOfStretch ==
    ASSUME NEW x \in Nat \ {0}, NEW y \in Int, x <= y + 1, y <= Len(Candles),
           NEW a \in Nat \ {0}, NEW b \in Int, a <= b + 1, b <= y - x + 1
    PROVE  SubSeq(Stretch(x, y), a, b) = Stretch(x + a - 1, x + b - 1)
<1>1. PICK s, u, v : s = Stretch(x, y) /\ u = x + a - 1 /\ v = x + b - 1
  OBVIOUS
<1>2. u \in Nat \ {0} /\ v \in Int /\ u <= v + 1 /\ v <= Len(Candles) /\ v - u + 1 = b - a + 1
  <2>1. PICK C : C = Len(Candles)
    OBVIOUS
  <2>2. C \in Nat /\ y <= C
    BY <2>1, CandlesAre
  <2>3. v <= y /\ v \in Int
    BY <1>1
  <2> QED BY <1>1, <2>1, <2>2, <2>3
<1>3. /\ s \in Seq(CandleRecords) /\ Len(s) = y - x + 1
      /\ \A i \in 1 .. y - x + 1 : s[i] = Candles[x + i - 1]
  BY <1>1, StretchIs
<1>4. PICK t : t = SubSeq(s, a, b)
  OBVIOUS
<1>5. /\ t \in Seq(CandleRecords) /\ Len(t) = b - a + 1
      /\ \A i \in 1 .. b - a + 1 : t[i] = s[a + i - 1]
  <2>1. \A i \in a .. b : i \in 1 .. Len(s)
    BY <1>3
  <2>2. \A i \in a .. b : s[i] \in CandleRecords
    BY <1>3, <2>1, ElementOfSeq
  <2>3. /\ t \in Seq(CandleRecords) /\ Len(t) = IF a <= b THEN b - a + 1 ELSE 0
        /\ \A i \in 1 .. b - a + 1 : t[i] = s[a + i - 1]
    <3>1. a \in Int
      OBVIOUS
    <3> QED BY <1>4, <2>2, <3>1, SubSeqProperties
  <2> QED BY <2>3
<1>6. PICK r : r = Stretch(u, v)
  OBVIOUS
<1>7. /\ r \in Seq(CandleRecords) /\ Len(r) = b - a + 1
      /\ \A i \in 1 .. b - a + 1 : r[i] = Candles[u + i - 1]
  BY <1>2, <1>6, StretchIs
<1>8. ASSUME NEW i \in 1 .. Len(t) PROVE t[i] = r[i]
  <2>1. PICK k : k = a + i - 1
    OBVIOUS
  <2>2. i \in 1 .. b - a + 1
    BY <1>5
  <2>3. k \in 1 .. y - x + 1 /\ x + k - 1 = u + i - 1
    BY <1>1, <2>1, <2>2
  <2> QED BY <1>3, <1>5, <1>7, <2>1, <2>2, <2>3
<1>9. t = r
  BY <1>5, <1>7, <1>8, SeqEqual
<1> QED BY <1>1, <1>4, <1>6, <1>9

\* and so are these with those that follow.
LEMMA StretchJoined ==
    ASSUME NEW x \in Nat \ {0}, NEW y \in Int, x <= y + 1, NEW z \in Int, y <= z, z <= Len(Candles),
           NEW u, u = y + 1
    PROVE  Stretch(x, y) \o Stretch(u, z) = Stretch(x, z)
<1>1. PICK s, t, r, n, l : /\ s = Stretch(x, y) /\ t = Stretch(u, z) /\ r = Stretch(x, z)
                           /\ n = y - x + 1 /\ l = z - y
  OBVIOUS
<1>2. u \in Nat \ {0} /\ u <= z + 1 /\ x <= z + 1 /\ y <= Len(Candles) /\ n \in Nat /\ l \in Nat
      /\ z - u + 1 = l /\ z - x + 1 = n + l
  BY <1>1, CandlesAre
<1>3. /\ s \in Seq(CandleRecords) /\ Len(s) = n /\ \A i \in 1 .. n : s[i] = Candles[x + i - 1]
  BY <1>1, <1>2, StretchIs
<1>4. /\ t \in Seq(CandleRecords) /\ Len(t) = l /\ \A i \in 1 .. l : t[i] = Candles[u + i - 1]
  BY <1>1, <1>2, StretchIs
<1>5. /\ r \in Seq(CandleRecords) /\ Len(r) = n + l /\ \A i \in 1 .. n + l : r[i] = Candles[x + i - 1]
  BY <1>1, <1>2, StretchIs
<1>6. PICK q : q = s \o t
  OBVIOUS
<1>7. /\ q \in Seq(CandleRecords) /\ Len(q) = n + l
      /\ \A i \in 1 .. n + l : q[i] = IF i <= n THEN s[i] ELSE t[i - n]
  <2>1. q \in Seq(CandleRecords)
    BY <1>3, <1>4, <1>6, ConcatProperties
  <2>2. Len(q) = n + l
    BY <1>3, <1>4, <1>6, ConcatProperties
  <2>3. \A i \in 1 .. n + l : q[i] = IF i <= n THEN s[i] ELSE t[i - n]
    <3>1. Len(s) = n /\ Len(t) = l /\ s \in Seq(CandleRecords) /\ t \in Seq(CandleRecords)
      BY <1>3, <1>4
    <3>2. \A i \in 1 .. Len(s) + Len(t) : (s \o t)[i] = IF i <= Len(s) THEN s[i] ELSE t[i - Len(s)]
      BY ONLY <3>1, ConcatProperties
    <3> QED BY ONLY <1>6, <3>1, <3>2
  <2> QED BY <2>1, <2>2, <2>3
<1>8. ASSUME NEW i \in 1 .. Len(q) PROVE q[i] = r[i]
  <2>1. i \in 1 .. n + l /\ i \in Int
    BY <1>7
  <2>2. CASE i <= n
    <3>1. i \in 1 .. n
      BY <1>2, <2>1, <2>2
    <3> QED BY <1>3, <1>5, <1>7, <2>1, <2>2, <3>1
  <2>3. CASE ~(i <= n)
    <3>1. PICK k : k = i - n
      OBVIOUS
    <3>2. k \in 1 .. l /\ u + k - 1 = x + i - 1
      BY <1>1, <1>2, <2>1, <2>3, <3>1
    <3> QED BY <1>4, <1>5, <1>7, <2>1, <2>3, <3>1, <3>2
  <2> QED BY <2>2, <2>3
<1>9. q = r
  BY <1>5, <1>7, <1>8, SeqEqual
<1> QED BY <1>1, <1>6, <1>9

\* Where the last w candles begin when the replay stands at index i.
LiveStart(i, w) == Greatest(1, First + i - w + 1)

\* What the replay and the history before it are stretches of, in numbers.
LEMMA RangeIs ==
    /\ First \in Nat \ {0} /\ Last1m \in Nat /\ First <= Last1m /\ Last1m <= Len(Candles)
    /\ Len(Candles) \in Nat /\ replay = Stretch(First, Last1m) /\ Len(replay) = Last1m - First + 1
    /\ \A i \in -1 .. Len(replay) - 1 : i \in Int /\ -1 <= i /\ First + i <= Last1m
<1>1. /\ First \in Nat \ {0} /\ Last1m \in Nat /\ First <= Last1m /\ Last1m <= Len(Candles)
      /\ Len(Candles) \in Nat
  <2>1. First \in 1 .. Len(Candles) /\ Last1m \in First .. Len(Candles) /\ Len(Candles) \in Nat
    BY DisplayAssumption, CandlesAre
  <2> QED BY <2>1
<1>2. replay = Stretch(First, Last1m)
  BY DEF replay, Stretch
<1>3. Len(replay) = Last1m - First + 1
  <2>1. First <= Last1m + 1 /\ Last1m \in Int
    BY <1>1
  <2> QED BY <1>1, <1>2, <2>1, StretchIs
<1> QED BY <1>1, <1>2, <1>3

\* _tail: the last window candles, wherever they come from.
LEMMA TailIs ==
    ASSUME NEW i \in -1 .. Len(replay) - 1, NEW m, NEW CW \in Nat, CW = ContextWindow(m),
           NEW w \in Nat \ {0}, w <= CW
    PROVE  /\ tail(i, m, w) = Stretch(LiveStart(i, w), First + i)
           /\ LiveStart(i, w) \in Nat \ {0} /\ LiveStart(i, w) <= First + i + 1
           /\ First + i <= Len(Candles)
<1>1. PICK F, x, f, N, b, B, g, e, L : /\ F = First /\ x = Greatest(1, F - CW) /\ f = F - 1
                                       /\ N = Last1m /\ b = before(m) /\ B = Len(b)
                                       /\ g = LiveStart(i, w) /\ e = F + i /\ L = Len(Candles)
  OBVIOUS
<1>2. /\ F \in Nat \ {0} /\ N \in Nat /\ F <= N /\ N <= L /\ L \in Nat
      /\ i \in Int /\ -1 <= i /\ e <= N /\ e \in Int /\ f \in Nat /\ f \in Int
  BY <1>1, RangeIs
<1>w. w \in Int /\ 1 <= w /\ CW \in Int /\ w <= CW
  OBVIOUS
<1>f. f = F - 1 /\ e = F + i
  BY <1>1
<1>3. /\ x \in Nat \ {0} /\ x <= F /\ x <= f + 1 /\ f <= L /\ (x = 1 \/ x = F - CW) /\ F - CW <= x
      /\ f <= Len(Candles) /\ e <= Len(Candles) /\ N <= Len(Candles)
  BY <1>1, <1>2 DEF Greatest
<1>4. b = Stretch(x, f)
  BY <1>1 DEF before, Stretch
<1>5. B = F - x
  <2>1. Len(b) = f - x + 1
    BY <1>2, <1>3, <1>4, StretchIs
  <2> QED BY <1>1, <1>2, <1>3, <2>1
<1>6. g \in Nat \ {0} /\ g <= e + 1 /\ (g = 1 \/ g = e - w + 1) /\ e - w + 1 <= g
  <2>1. g = Greatest(1, e - w + 1)
    BY <1>1, <1>2 DEF LiveStart
  <2> QED BY <1>1, <1>2, <2>1 DEF Greatest
<1>7. PICK start : start = B + i + 1 - w
  OBVIOUS
<1>8. start = e - x + 1 - w /\ start \in Int /\ B \in Nat
  <2> QED BY ONLY <1>2, <1>3, <1>w, <1>5, <1>7, <1>f
<1>d. B <= f - x + 1 /\ B \in Int
  BY ONLY <1>2, <1>3, <1>5, <1>8, <1>f
<1>g. /\ g \in Nat \ {0} /\ g <= e + 1 /\ g = IF 1 < e - w + 1 THEN e - w + 1 ELSE 1
      /\ LiveStart(i, w) = g /\ First + i = e
  BY <1>1, <1>2, <1>6 DEF LiveStart, Greatest
<1>9. CASE i < 0
  <2>1. PICK a : a = Greatest(1, B - w + 1)
    OBVIOUS
  <2>2. i = -1 /\ e = f
    BY <1>1, <1>2, <1>9
  <2>3. a \in Nat \ {0} /\ a <= B + 1 /\ x + a - 1 = g /\ x + B - 1 = e
    <3>1. a = IF 1 < B - w + 1 THEN B - w + 1 ELSE 1
      BY <2>1 DEF Greatest
    <3>2. x = IF 1 < F - CW THEN F - CW ELSE 1
      BY <1>1 DEF Greatest
    <3> QED BY ONLY <1>2, <1>3, <1>w, <1>f, <1>g, <1>5, <1>8, <2>2, <3>1, <3>2
  <2>4. SubSeq(b, a, B) = Stretch(x + a - 1, x + B - 1)
    <3>1. /\ x \in Nat \ {0} /\ f \in Int /\ x <= f + 1 /\ f <= Len(Candles)
          /\ a \in Nat \ {0} /\ B \in Int /\ a <= B + 1 /\ B <= f - x + 1
      BY ONLY <1>2, <1>3, <1>d, <2>3
    <3>2. SubSeq(Stretch(x, f), a, B) = Stretch(x + a - 1, x + B - 1)
      BY ONLY <3>1, StretchOfStretch, Zenon
    <3> QED BY ONLY <1>4, <3>2
  <2>5. tail(i, m, w) = SubSeq(b, a, B)
    BY <1>1, <1>9, <2>1 DEF tail
  <2> QED BY ONLY <1>3, <1>g, <2>3, <2>4, <2>5
<1>10. CASE ~(i < 0)
  <2>1. PICK k : k = i + 1
    OBVIOUS
  <2>2. k \in Nat \ {0} /\ k <= N - F + 1 /\ F + k - 1 = e /\ i \in Nat
    BY <1>1, <1>2, <1>10, <2>1
  <2>3. \A c \in Nat \ {0} : c <= k + 1 => SubSeq(replay, c, k) = Stretch(F + c - 1, e)
    <3>1. replay = Stretch(F, N)
      BY <1>1, RangeIs
    <3>2. F <= N + 1 /\ k \in Int
      BY <1>2, <2>2
    <3> SUFFICES ASSUME NEW c \in Nat \ {0}, c <= k + 1
                 PROVE  SubSeq(replay, c, k) = Stretch(F + c - 1, F + k - 1)
      BY <2>2
    <3>3. /\ F \in Nat \ {0} /\ N \in Int /\ F <= N + 1 /\ N <= Len(Candles)
          /\ c \in Nat \ {0} /\ k \in Int /\ c <= k + 1 /\ k <= N - F + 1
      BY ONLY <1>2, <1>3, <2>2, <3>2, c \in Nat \ {0}, c <= k + 1
    <3>4. SubSeq(Stretch(F, N), c, k) = Stretch(F + c - 1, F + k - 1)
      BY ONLY <3>3, StretchOfStretch, Zenon
    <3> QED BY ONLY <3>1, <3>4
  <2>4. SubSeq(replay, 1, k) = Stretch(F, e)
    <3>1. PICK one : one = 1
      OBVIOUS
    <3>2. one \in Nat \ {0} /\ one <= k + 1 /\ F + one - 1 = F
      BY <1>2, <2>2, <3>1
    <3> QED BY <2>3, <3>1, <3>2
  <2>5. \A c \in Nat \ {0} : c <= F => Stretch(c, f) \o Stretch(F, e) = Stretch(c, e)
    <3> SUFFICES ASSUME NEW c \in Nat \ {0}, c <= F
                 PROVE  Stretch(c, f) \o Stretch(F, e) = Stretch(c, e)
      OBVIOUS
    <3>1. c <= f + 1
      BY ONLY <1>2, <1>f, c \in Nat \ {0}, c <= F
    <3>2. f <= e /\ F = f + 1
      BY ONLY <1>2, <1>f, <2>2
    <3>3. /\ c \in Nat \ {0} /\ f \in Int /\ c <= f + 1 /\ e \in Int /\ f <= e /\ e <= Len(Candles)
          /\ F = f + 1
      BY ONLY <1>2, <1>3, <3>1, <3>2, c \in Nat \ {0}
    <3> QED BY ONLY <3>3, StretchJoined, Zenon
  <2>6. CASE start <= 0
    <3>1. tail(i, m, w) = b \o SubSeq(replay, 1, k)
      BY <1>1, <1>7, <1>10, <2>1, <2>6 DEF tail
    <3>2. g = x
      BY ONLY <1>2, <1>3, <1>w, <1>f, <1>g, <1>8, <2>2, <2>6
    <3> QED BY ONLY <1>3, <1>4, <1>g, <2>4, <2>5, <3>1, <3>2
  <2>7. CASE ~(start <= 0) /\ start >= B
    <3>1. PICK c : c = start - B + 1
      OBVIOUS
    <3>2. tail(i, m, w) = SubSeq(replay, c, k)
      BY <1>1, <1>7, <1>10, <2>1, <2>7, <3>1 DEF tail
    <3>3. c \in Nat \ {0} /\ c <= k + 1 /\ F + c - 1 = g
      BY ONLY <1>2, <1>3, <1>w, <1>f, <1>g, <1>5, <1>8, <2>1, <2>2, <2>7, <3>1
    <3> QED BY ONLY <1>3, <1>g, <2>3, <3>2, <3>3
  <2>8. CASE ~(start <= 0) /\ ~(start >= B)
    <3>1. PICK c : c = start + 1
      OBVIOUS
    <3>2. tail(i, m, w) = SubSeq(b, c, B) \o SubSeq(replay, 1, k)
      BY <1>1, <1>7, <1>10, <2>1, <2>8, <3>1 DEF tail
    <3>3. c \in Nat \ {0} /\ c <= B + 1 /\ x + c - 1 = g /\ x + B - 1 = f /\ g <= F
      BY ONLY <1>2, <1>3, <1>w, <1>f, <1>g, <1>5, <1>8, <2>1, <2>2, <2>8, <3>1
    <3>4. SubSeq(b, c, B) = Stretch(x + c - 1, x + B - 1)
      <4>1. /\ x \in Nat \ {0} /\ f \in Int /\ x <= f + 1 /\ f <= Len(Candles)
            /\ c \in Nat \ {0} /\ B \in Int /\ c <= B + 1 /\ B <= f - x + 1
        BY ONLY <1>2, <1>3, <1>d, <3>3
      <4>2. SubSeq(Stretch(x, f), c, B) = Stretch(x + c - 1, x + B - 1)
        BY ONLY <4>1, StretchOfStretch, Zenon
      <4> QED BY ONLY <1>4, <4>2
    <3> QED BY ONLY <1>3, <1>g, <2>4, <2>5, <3>2, <3>3, <3>4
  <2> QED BY <2>6, <2>7, <2>8
<1> QED BY <1>9, <1>10

\* The last w candles revealed are the same.
LEMMA RevealedIs ==
    ASSUME NEW i \in -1 .. Len(replay) - 1, NEW w \in Nat \ {0}
    PROVE  LastOf(w, RevealedAt(i)) = Stretch(LiveStart(i, w), First + i)
<1>1. PICK one, e, g, s : one = 1 /\ e = First + i /\ g = LiveStart(i, w) /\ s = Stretch(one, e)
  OBVIOUS
<1>2. one \in Nat \ {0} /\ e \in Nat /\ one <= e + 1 /\ e <= Len(Candles) /\ e - one + 1 = e
  BY <1>1, RangeIs
<1>3. Len(s) = e
  BY <1>1, <1>2, StretchIs
<1>4. g = Greatest(1, e - w + 1)
  <2>1. i \in Int /\ First \in Int /\ w \in Int
    BY RangeIs
  <2>2. g = Greatest(1, First + i - w + 1) /\ e = First + i
    BY <1>1 DEF LiveStart
  <2> QED BY ONLY <2>1, <2>2
<1>5. g \in Nat \ {0} /\ g <= e + 1 /\ e <= e - one + 1 /\ one + g - 1 = g /\ one + e - 1 = e
  <2>1. one = 1 /\ w \in Nat \ {0} /\ e \in Nat
    BY <1>1, <1>2
  <2>2. g = IF 1 < e - w + 1 THEN e - w + 1 ELSE 1
    BY <1>4 DEF Greatest
  <2> QED BY ONLY <2>1, <2>2
<1>6. SubSeq(s, g, e) = Stretch(one + g - 1, one + e - 1)
  <2>1. /\ one \in Nat \ {0} /\ e \in Int /\ one <= e + 1 /\ e <= Len(Candles)
        /\ g \in Nat \ {0} /\ g <= e + 1 /\ e <= e - one + 1
    BY ONLY <1>2, <1>5
  <2>2. SubSeq(Stretch(one, e), g, e) = Stretch(one + g - 1, one + e - 1)
    BY ONLY <2>1, StretchOfStretch, Zenon
  <2> QED BY <1>1, <2>2
<1>7. RevealedAt(i) = s
  BY <1>1 DEF RevealedAt, Stretch
<1> QED BY <1>1, <1>3, <1>4, <1>5, <1>6, <1>7 DEF LastOf

\* The context is a part of the longer stretch the averages are made of, Warmup
\* periods in.
LEMMA ContextIs ==
    ASSUME NEW m \in Nat \ {0}
    PROVE  /\ Context \in Nat \ {0} /\ ContextWindow(m) \in Nat \ {0} /\ Warmup * m \in Nat
           /\ ContextWindow(m) = Context + Warmup * m /\ Context <= ContextWindow(m)
<1>1. Context \in Nat \ {0} /\ Warmup \in Nat
  BY DisplayAssumption, WarmupAssumption
<1>2. PICK v : v = Warmup * m
  OBVIOUS
<1>3. v \in Nat
  BY <1>1, <1>2
<1>4. ContextWindow(m) = Context + v
  BY <1>2 DEF ContextWindow
<1> QED BY ONLY <1>1, <1>2, <1>3, <1>4

\* The candles of a list are those from place g on.
FromOn(t, g, e) == \A k \in 1 .. e - g + 1 : t[k] = Candles[g + k - 1]

\* The last candles of either number are a series.
LEMMA TailSeries ==
    ASSUME NEW i \in -1 .. Len(replay) - 1, NEW m \in Nat \ {0},
           NEW w \in Nat \ {0}, w <= ContextWindow(m),
           NEW g, g = LiveStart(i, w), NEW e, e = First + i, NEW t, t = tail(i, m, w)
    PROVE  /\ t = Stretch(g, e) /\ Series(t) /\ Len(t) = e - g + 1
           /\ FromOn(t, g, e)
           /\ g \in Nat \ {0} /\ g <= e + 1 /\ e \in Int /\ e <= Len(Candles)
<1>1. PICK CW : CW = ContextWindow(m)
  OBVIOUS
<1>2. CW \in Nat /\ w <= CW
  BY <1>1, ContextIs
<1>3. t = Stretch(g, e) /\ g \in Nat \ {0} /\ g <= e + 1 /\ e <= Len(Candles)
  BY <1>1, <1>2, TailIs
<1>4. e \in Int
  BY RangeIs
<1>5. Series(t) /\ Len(t) = e - g + 1 /\ \A k \in 1 .. e - g + 1 : t[k] = Candles[g + k - 1]
  BY ONLY <1>3, <1>4, StretchIs
<1> QED BY <1>3, <1>4, <1>5 DEF FromOn

\* The live chart stands for the last candles revealed, wherever the replay is.
LEMMA LiveStaysDrawn == LiveDrawn
<1> SUFFICES ASSUME NEW p \in Profiles, NEW m \in Timeframes, NEW i \in -1 .. Len(replay) - 1
             PROVE  Drawn(Displayed(i, m, p), LastOf(Context, RevealedAt(i)), p)
  BY DEF LiveDrawn
<1>1. m \in Nat \ {0}
  BY FocusAssumption
<1>2. Context \in Nat \ {0} /\ Context <= ContextWindow(m)
  BY <1>1, ContextIs
<1>3. PICK c, g, e : c = tail(i, m, Context) /\ g = LiveStart(i, Context) /\ e = First + i
  OBVIOUS
<1>4. Series(c) /\ c = LastOf(Context, RevealedAt(i))
  <2>1. Series(c) /\ c = Stretch(g, e)
    BY <1>1, <1>2, <1>3, TailSeries
  <2> QED BY <1>2, <1>3, <2>1, RevealedIs
<1>5. Displayed(i, m, p) = resample(c, m, p)
  BY <1>3 DEF Displayed
<1>6. /\ Faithful(resample(c, m, p), c)
      /\ p = "utc_aligned" \/ ~PutBackWithin(c) => InOrder(resample(c, m, p))
  BY <1>1, <1>4, ResampleIsDrawn
<1> QED BY <1>4, <1>5, <1>6 DEF Drawn

\* The average of a bar has its time.
LEMMA AverageTimes ==
    ASSUME NEW bars, NEW n, n = Greatest(0, Len(bars) - Period + 1)
    PROVE  /\ DOMAIN sma(bars) = 1 .. n
           /\ \A q \in 1 .. n : sma(bars)[q].time = bars[q + Period - 1].time
<1> DEFINE Sum(q) == MapThenSumSet(LAMBDA k : bars[k].close, q .. q + Period - 1)
<1>1. sma(bars) = [q \in 1 .. n |-> [time |-> bars[q + Period - 1].time, value |-> Sum(q)]]
  BY DEF sma
<1> HIDE DEF Sum
<1> QED BY <1>1

\* Every bar of the live chart has an average, when the history is long enough.
LEMMA LiveIsWarm ==
    ASSUME NEW p \in Profiles, NEW m \in Nat \ {0}, NEW i \in -1 .. Len(replay) - 1,
           Len(before(m)) = ContextWindow(m)
    PROVE  \A b \in ToSet(Displayed(i, m, p)) : \E v \in ToSet(Indicator(i, m, p)) : v.time = b.time
<1>1. PICK CW, d, F, e, g, G, c, s :
         /\ CW = ContextWindow(m) /\ d = Warmup * m /\ F = First /\ e = F + i
         /\ g = LiveStart(i, Context) /\ G = LiveStart(i, CW)
         /\ c = tail(i, m, Context) /\ s = tail(i, m, CW)
  OBVIOUS
<1>2. /\ Context \in Nat \ {0} /\ CW \in Nat \ {0} /\ d \in Nat /\ CW = Context + d /\ Context <= CW
  BY <1>1, ContextIs
<1>3. F \in Nat \ {0} /\ i \in Int /\ -1 <= i /\ e = F + i /\ F - 1 <= Len(Candles)
  BY <1>1, RangeIs
<1>4. CW < F
  <2>1. PICK x, f : x = Greatest(1, F - CW) /\ f = F - 1
    OBVIOUS
  <2>2. x = IF 1 < F - CW THEN F - CW ELSE 1
    BY <2>1 DEF Greatest
  <2>3. x \in Nat \ {0} /\ f \in Int /\ x <= f + 1 /\ f <= Len(Candles)
    BY ONLY <1>2, <1>3, <2>1, <2>2
  <2>4. Len(Stretch(x, f)) = f - x + 1
    BY ONLY <2>3, StretchIs
  <2>5. CW = Len(Stretch(x, f))
    BY <1>1, <2>1 DEF before, Stretch
  <2> QED BY ONLY <1>2, <1>3, <2>1, <2>2, <2>4, <2>5
<1>5. g = e - Context + 1 /\ G = e - CW + 1 /\ g \in Nat \ {0} /\ G \in Nat \ {0} /\ e \in Nat
  <2>1. /\ g = IF 1 < F + i - Context + 1 THEN F + i - Context + 1 ELSE 1
        /\ G = IF 1 < F + i - CW + 1 THEN F + i - CW + 1 ELSE 1
    BY <1>1 DEF LiveStart, Greatest
  <2> QED BY ONLY <1>2, <1>3, <1>4, <2>1
<1>6. /\ Series(c) /\ Len(c) = Context /\ \A k \in 1 .. Context : c[k] = Candles[g + k - 1]
  <2>1. /\ Series(c) /\ Len(c) = e - g + 1 /\ \A k \in 1 .. e - g + 1 : c[k] = Candles[g + k - 1]
    <3>1. /\ e = First + i /\ c = tail(i, m, Context) /\ g = LiveStart(i, Context)
          /\ Context \in Nat \ {0} /\ Context <= ContextWindow(m)
      BY <1>1, <1>2
    <3>2. i \in -1 .. Len(replay) - 1 /\ m \in Nat \ {0}
      OBVIOUS
    <3>3. Series(c) /\ Len(c) = e - g + 1
      BY ONLY <3>1, <3>2, TailSeries
    <3>4. FromOn(c, g, e)
      BY ONLY <3>1, <3>2, TailSeries
    <3> QED BY <3>3, <3>4 DEF FromOn
  <2>2. e - g + 1 = Context
    BY ONLY <1>2, <1>5
  <2> QED BY ONLY <2>1, <2>2
<1>7. /\ Series(s) /\ Len(s) = CW /\ \A k \in 1 .. CW : s[k] = Candles[G + k - 1]
  <2>1. CW <= CW
    BY ONLY <1>2
  <2>2. /\ Series(s) /\ Len(s) = e - G + 1 /\ \A k \in 1 .. e - G + 1 : s[k] = Candles[G + k - 1]
    <3>1. /\ e = First + i /\ s = tail(i, m, CW) /\ G = LiveStart(i, CW) /\ CW \in Nat \ {0} /\ CW <= ContextWindow(m)
      BY <1>1, <1>2, <2>1
    <3>2. i \in -1 .. Len(replay) - 1 /\ m \in Nat \ {0}
      OBVIOUS
    <3>3. Series(s) /\ Len(s) = e - G + 1
      BY ONLY <3>1, <3>2, TailSeries
    <3>4. FromOn(s, G, e)
      BY ONLY <3>1, <3>2, TailSeries
    <3> QED BY <3>3, <3>4 DEF FromOn
  <2>3. e - G + 1 = CW
    BY ONLY <1>2, <1>5
  <2> QED BY ONLY <2>2, <2>3
<1>8. PICK D, W : D = resample(c, m, p) /\ W = resample(s, m, p)
  OBVIOUS
<1>9. Displayed(i, m, p) = D /\ Indicator(i, m, p) = sma(W)
  BY <1>1, <1>8 DEF Displayed, Indicator
<1>10. Stands(D, c, Len(c), m, p) /\ Stands(W, s, Len(s), m, p)
  BY <1>6, <1>7, <1>8, ResampleStands
<1> SUFFICES ASSUME NEW b \in ToSet(D)
             PROVE  \E v \in ToSet(sma(W)) : v.time = b.time
  BY <1>9
<1>11. PICK j \in 1 .. Len(D) : b = D[j]
  <2>1. D \in Seq(BarRecords)
    BY <1>10 DEF Stands
  <2>2. DOMAIN D = 1 .. Len(D)
    BY <2>1, LenProperties
  <2> QED BY <2>2 DEF ToSet
<1>12. PICK a, z \in 1 .. Len(c) : a <= z /\ DrawnFrom(b, c, a, z, m, p)
  BY <1>10, <1>11 DEF Stands
<1>13. a \in Int /\ a \in a .. z
  BY <1>12
<1>14. b.time = bucket_for(c[a].time, m, p)
  BY <1>12, <1>13 DEF DrawnFrom
<1>15. PICK k : k = d + a
  OBVIOUS
<1>16. a \in 1 .. Context /\ k \in 1 .. CW /\ k > d /\ G + k - 1 = g + a - 1
  <2>1. a \in 1 .. Context
    BY <1>6, <1>12
  <2> QED BY ONLY <1>2, <1>5, <1>15, <2>1
<1>17. s[k] = c[a]
  BY <1>6, <1>7, <1>16
<1>18. k \in 1 .. Len(s) /\ k > Warmup * m
  BY <1>1, <1>7, <1>16
<1>19. PICK h \in 1 .. Len(W) : W[h].from <= s[k].time /\ s[k].time <= W[h].upto
  BY <1>10, <1>18 DEF Stands
<1>20. W[h].time = b.time
  <2>1. W[h].time = bucket_for(s[k].time, m, p)
    <3>1. Series(s) /\ Stands(W, s, Len(s), m, p) /\ k \in 1 .. Len(s)
      BY <1>7, <1>10, <1>18
    <3> QED BY ONLY <1>19, <3>1, CandleIsDrawn
  <2> QED BY <1>14, <1>17, <2>1
<1>21. Period <= h
  BY <1>7, <1>10, <1>18, <1>19, BarIsWarm
<1>22. PICK q, n, l : q = h - Period + 1 /\ l = Len(W) /\ n = Greatest(0, l - Period + 1)
  OBVIOUS
<1>23. q \in 1 .. n /\ q + Period - 1 = h
  <2>1. Period \in Nat \ {0}
    BY DisplayAssumption
  <2>2. l \in Nat
    <3>1. W \in Seq(BarRecords)
      BY <1>10 DEF Stands
    <3> QED BY <1>22, <3>1, LenProperties
  <2>3. n = IF 0 < l - Period + 1 THEN l - Period + 1 ELSE 0
    BY <1>22 DEF Greatest
  <2>4. h \in 1 .. l
    BY <1>22
  <2> QED BY ONLY <1>21, <1>22, <2>1, <2>2, <2>3, <2>4
<1>24. DOMAIN sma(W) = 1 .. n /\ sma(W)[q].time = W[h].time
  <2>1. n = Greatest(0, Len(W) - Period + 1)
    BY <1>22
  <2>2. DOMAIN sma(W) = 1 .. n /\ \A x \in 1 .. n : sma(W)[x].time = W[x + Period - 1].time
    BY <2>1, AverageTimes
  <2> QED BY <1>23, <2>2
<1>25. sma(W)[q] \in ToSet(sma(W))
  BY <1>23, <1>24 DEF ToSet
<1> QED BY <1>20, <1>24, <1>25

\* A window is drawn from consecutive candles.
LEMMA WindowIsDrawn ==
    ASSUME NEW s, NEW w, WindowOK(w, s)
    PROVE  Drawn(BarsOf(w), SourceOf(w), profile)
<1>1. PICK x, y \in DOMAIN Candles : x <= y /\ SourceOf(w) = SubSeq(Candles, x, y)
  BY SourceIs
<1>2. x \in Nat \ {0} /\ y \in Int /\ x <= y + 1 /\ y <= Len(Candles)
  <2>1. x \in 1 .. Len(Candles) /\ y \in 1 .. Len(Candles) /\ x <= y /\ Len(Candles) \in Nat
    BY <1>1, CandlesAre
  <2> QED BY ONLY <2>1
<1>3. PICK c, m : c = SourceOf(w) /\ m = w.minutes
  OBVIOUS
<1>4. Series(c)
  <2>1. Series(Stretch(x, y))
    BY ONLY <1>2, StretchIs
  <2> QED BY <1>1, <1>3, <2>1 DEF Stretch
<1>5. m \in Nat \ {0} /\ profile \in Profiles
  <2>1. m \in Timeframes
    BY <1>3 DEF WindowOK, WindowRecords
  <2> QED BY <2>1, FocusAssumption
<1>6. /\ Faithful(resample(c, m, profile), c)
      /\ profile = "utc_aligned" \/ ~PutBackWithin(c) => InOrder(resample(c, m, profile))
  BY <1>4, <1>5, ResampleIsDrawn
<1>7. BarsOf(w) = resample(c, m, profile)
  BY <1>3 DEF BarsOf
<1> QED BY <1>3, <1>6, <1>7 DEF Drawn

\* The moving average of what is shown covers the live chart.
LEMMA ShownIsWarm ==
    ASSUME shown \in Snapshots
    PROVE  AveragesAreWarm
<1>1. PICK m, i : m = shown.minutes /\ i = shown.current
  OBVIOUS
<1>2. m \in Timeframes /\ i \in -1 .. Len(replay) - 1 /\ profile \in Profiles /\ m \in Nat \ {0}
  <2>1. m \in Timeframes /\ i \in -1 .. Len(replay) - 1
    BY <1>1 DEF Snapshots
  <2> QED BY <2>1, FocusAssumption
<1>3. LiveBars(shown) = Displayed(i, m, profile)
  BY <1>1, <1>2 DEF LiveBars, Rendering
<1>4. Averages[profile][m][i] = Indicator(i, m, profile)
  BY <1>2 DEF Averages
<1> SUFFICES ASSUME Len(before(m)) = ContextWindow(m)
             PROVE  {b.time : b \in ToSet(LiveBars(shown))}
                      \subseteq {v.time : v \in ToSet(Averages[profile][m][i])}
  BY <1>1 DEF AveragesAreWarm
<1>5. \A b \in ToSet(Displayed(i, m, profile)) :
         \E v \in ToSet(Indicator(i, m, profile)) : v.time = b.time
  BY <1>2, LiveIsWarm
<1> QED BY <1>3, <1>4, <1>5

\* What is drawn stands for the candles it was made of, the live chart at every place
\* of the replay, its average at every bar, and each window, in every state (service.py
\* _rendered, timeframes.py resample, indicators.py sma).
THEOREM DisplayStaysFaithful == Spec => []DisplayIsFaithful
<1>1. FocusInv => DisplayIsFaithful
  <2> SUFFICES ASSUME FocusInv
               PROVE  DisplayIsFaithful
    OBVIOUS
  <2>1. shown \in Snapshots
    BY DEF FocusInv, SessionsOK, Orderly
  <2>2. AveragesAreWarm
    BY <2>1, ShownIsWarm
  <2>3. ASSUME focus # None, focus.window # None
        PROVE  Drawn(BarsOf(focus.window), SourceOf(focus.window), profile)
    <3>1. WindowOK(focus.window, session)
      BY <2>3 DEF FocusInv, FocusOK
    <3> QED BY <3>1, WindowIsDrawn
  <2> QED BY <2>2, <2>3, LiveStaysDrawn DEF DisplayIsFaithful
<1> QED BY <1>1, FocusInvariant, PTL

-----------------------------------------------------------------------------
(* A trade in focus on the live chart *)

\* The trade in focus has closed, in what this tab shows too, and is within the live
\* chart when no window is asked for.
FocusShown ==
    focus # None =>
       /\ Final(focus.trade, shown)
       /\ focus.status = "live" => FocusWithinLiveBounds(focus.trade, shown)

\* handleFocus decides by the snapshot that is shown then.
LEMMA HandleShows ==
    ASSUME NEW trade, NEW s, s = shown', Final(trade, s), HandleFocus(trade, s)
    PROVE  FocusShown'
<1> DEFINE Live == FocusWithinLiveBounds(trade, s)
<1>1. PICK live : live = Live
  OBVIOUS
<1>2. focus' = [trade |-> trade, window |-> None, status |-> IF live THEN "live" ELSE "loading"]
  BY <1>1 DEF HandleFocus
<1> HIDE DEF Live
<1>3. focus'.trade = trade /\ (focus'.status = "live" => live)
  BY <1>2
<1>4. live => FocusWithinLiveBounds(trade, shown')
  BY <1>1 DEF Live
<1> QED BY <1>3, <1>4 DEF FocusShown

\* Every step keeps it: the layout effect decides anew when the timeframe changed or
\* the trade has left the live chart.
LEMMA ShownStep ==
    ASSUME FocusInv, FocusShown, [Next]_vars
    PROVE  FocusShown'
<1>1. CASE Mutate \/ MutateUnseen
  BY <1>1 DEF Mutate, MutateUnseen, focusing, FocusShown
<1>2. CASE AnswerArrives
  <2>1. answer # None /\ shown' = answer /\ Reclassify(answer)
    BY <1>2 DEF AnswerArrives
  <2>2. /\ Follows(shown, answer) /\ shown \in Snapshots /\ answer \in Snapshots
    BY <2>1, SessionFacts DEF FocusInv, SessionsOK
  <2>3. focus # None => Final(focus.trade, answer)
    BY <2>2, FinalStays DEF FocusShown
  <2>4. CASE focus # None /\ HandleFocus(focus.trade, answer)
    BY <2>1, <2>3, <2>4, HandleShows
  <2>5. CASE /\ focus' = focus
             /\ focus # None /\ focus.status = "live" => FocusWithinLiveBounds(focus.trade, answer)
    BY <2>1, <2>3, <2>5 DEF FocusShown
  <2> QED BY <2>1, <2>4, <2>5 DEF Reclassify, Unfocused, focusing
<1>3. ASSUME NEW t \in Trades, FocusTrade(t) PROVE FocusShown'
  <2>1. /\ shown.trades[t] # None /\ ~IsOpen(shown, t) /\ HandleFocus(shown.trades[t], shown)
        /\ shown' = shown
    BY <1>3 DEF FocusTrade
  <2>2. Final(shown.trades[t], shown)
    <3>1. SessionsOK /\ shown \in Snapshots
      BY SessionFacts DEF FocusInv
    <3>2. shown.trades[t] \in TradeRecords /\ shown.trades[t].exit # None
      BY <2>1, <3>1 DEF IsOpen, Snapshots
    <3>3. shown.trades[t].id = t
      BY <2>1, <3>1 DEF SessionsOK, Orderly
    <3> QED BY <3>2, <3>3 DEF Final
  <2> QED BY <2>1, <2>2, HandleShows
<1>4. CASE ClearFocus
  BY <1>4 DEF ClearFocus, FocusShown
<1>5. ASSUME NEW q \in requests, ServeHistory(q) PROVE FocusShown'
  BY <1>5 DEF ServeHistory, FocusShown
<1>6. ASSUME NEW q \in requests, NEW window, NEW status \in {"ready", "error"}, Settle(q, window, status)
      PROVE  FocusShown'
  <2>1. shown' = shown
    BY <1>6 DEF Settle
  <2>2. CASE focus' = focus
    BY <2>1, <2>2 DEF FocusShown
  <2>3. CASE focus' # focus
    <3>1. FocusRequestIsCurrent(q) /\ focus # None
          /\ focus' = [trade |-> q.trade, window |-> window, status |-> status]
      BY <1>6, <2>3 DEF Settle
    <3>2. focus.trade = q.trade
      BY <3>1 DEF FocusInv, RequestsOK, RequestOK, FocusRequestIsCurrent
    <3>3. focus'.trade = focus.trade /\ focus'.status # "live"
      BY <3>1, <3>2
    <3> QED BY <2>1, <3>1, <3>3 DEF FocusShown
  <2> QED BY <2>2, <2>3
<1>7. ASSUME NEW q \in requests, ReplyArrives(q) \/ RequestFails(q) PROVE FocusShown'
  BY <1>6, <1>7 DEF ReplyArrives, RequestFails
<1>8. CASE UNCHANGED vars
  BY <1>8 DEF vars, focusing, FocusShown
<1> QED BY <1>1, <1>2, <1>3, <1>4, <1>5, <1>7, <1>8 DEF Next

\* It holds in every state.
LEMMA ShownInvariant == Spec => []FocusShown
<1>1. Init => FocusShown
  BY DEF Init, FocusShown
<1> QED BY <1>1, FocusInvariant, ShownStep, PTL DEF Spec

\* A time that has passed on the local clock and lies in the bar the chart begins with
\* has its bucket, unless the clock showed that time twice.
LEMMA SameBucket ==
    ASSUME NEW t \in Nat, NEW u \in Nat, NEW m \in Nat \ {0}, NEW p \in Profiles,
           Clock(t, p) <= Clock(u, p), bucket_for(u, m, p) <= t,
           p = "utc_aligned" \/ Instant(Wall(t)) = t
    PROVE  bucket_for(t, m, p) = bucket_for(u, m, p)
<1>1. PICK w, l : w = Clock(t, p) /\ l = LocalBucket(u, m, p)
  OBVIOUS
<1>2. w \in Int /\ l \in Int
  BY <1>1, LocalBucketIs
<1>3. l <= w
  <2>1. CASE p = "utc_aligned"
    BY <1>1, <2>1 DEF Clock, LocalBucket, bucket_for
  <2>2. CASE p # "utc_aligned"
    <3>1. Instant(l) <= t /\ w = Wall(t) /\ Instant(w) = t
      BY <1>1, <2>2 DEF Clock, LocalBucket, bucket_for
    <3>2. Instant(w) \in Int /\ Instant(l) \in Int /\ (w < l <=> Instant(w) < Instant(l))
      BY <1>2, InstantAscends
    <3> QED BY ONLY <1>2, <3>1, <3>2
  <2> QED BY <2>1, <2>2
<1>4. LocalBucket(t, m, p) = l
  BY <1>1, <1>3, LocalBucketAscends
<1> QED BY <1>1, <1>4, BucketIs

\* The entry of a closed trade is the opening of a candle that has been revealed.
LEMMA EntryIs ==
    ASSUME NEW s, Orderly(s), NEW trade, Final(trade, s)
    PROVE  /\ s.current >= 0 /\ s.current \in -1 .. Len(replay) - 1
           /\ TimeOf(s) = Candles[First + s.current].time
           /\ \E x \in 1 .. First + s.current : Candles[x].time = trade.entry
<1>1. PICK t, i, e : t = trade.id /\ i = s.current /\ e = First + i
  OBVIOUS
<1>2. s \in Snapshots /\ t \in Trades /\ s.trades[t] = trade /\ trade # None /\ trade.entry \in Nat
  BY <1>1, FocusAssumption DEF Orderly, Final, TradeRecords
<1>3. i >= 0 /\ i \in -1 .. Len(replay) - 1
  BY <1>1, <1>2 DEF Orderly, Snapshots
<1>4. PICK k \in DOMAIN s.fills : s.fills[k].trade = t
  BY <1>2 DEF Orderly
<1>5. trade.entry <= s.fills[k].anchor /\ s.fills[k].anchor <= TimeOf(s) /\ s.fills[k].anchor \in Nat
  <2>1. s.fills[k] \in FillRecords
    BY <1>2, <1>4, ElementOfSeq DEF Snapshots
  <2> QED BY <1>2, <1>4, <2>1 DEF Orderly, FillRecords
<1>6. TimeOf(s) \in Nat /\ TimeOf(s) = Candles[e].time
  <2>1. PICK k2 : k2 = i + 1
    OBVIOUS
  <2>2. /\ First \in Nat \ {0} /\ First <= Last1m /\ Last1m \in Nat /\ Last1m <= Len(Candles)
        /\ First + i <= Last1m /\ i \in Int /\ replay = Stretch(First, Last1m) /\ e = First + i
    BY <1>1, <1>3, RangeIs
  <2>3. k2 \in 1 .. Last1m - First + 1 /\ First + k2 - 1 = e
    BY ONLY <1>3, <2>1, <2>2
  <2>4. replay[k2] = Candles[First + k2 - 1]
    <3>1. First <= Last1m + 1 /\ Last1m \in Int
      BY <2>2
    <3> QED BY ONLY <2>2, <2>3, <3>1, StretchIs
  <2>5. TimeOf(s) = replay[k2].time
    BY <1>1, <2>1 DEF TimeOf
  <2> QED BY <1>1, <1>2, <1>3, <2>3, <2>4, <2>5, TimeIs
<1>7. \E x \in DOMAIN Candles : Candles[x].time = trade.entry
  <2>1. PICK j \in DOMAIN replay : replay[j].time = trade.entry
    BY <1>2 DEF Orderly
  <2> QED BY <2>1, ReplayIs
<1>8. PICK x \in DOMAIN Candles : Candles[x].time = trade.entry
  BY <1>7
<1>9. x \in 1 .. e
  <2>1. /\ e \in DOMAIN Candles /\ e \in Int /\ x \in Int /\ 1 <= x
    <3>1. DOMAIN Candles = 1 .. Len(Candles) /\ Len(Candles) \in Nat
      BY CandlesAre
    <3>2. First \in Nat \ {0} /\ i \in Int /\ First + i <= Last1m /\ Last1m <= Len(Candles) /\ Last1m \in Nat
      BY <1>3, RangeIs
    <3> QED BY ONLY <1>1, <1>3, <1>8, <3>1, <3>2, x \in DOMAIN Candles
  <2>2. e < x => Candles[e].time < Candles[x].time
    BY <2>1, CandlesAre
  <2>3. Candles[x].time <= Candles[e].time /\ Candles[x].time \in Nat /\ Candles[e].time \in Nat
    BY <1>2, <1>5, <1>6, <1>8
  <2> QED BY ONLY <2>1, <2>2, <2>3
<1> QED BY <1>1, <1>3, <1>6, <1>8, <1>9

\* Among bars of the live chart that begin no later than a candle is that of the candle.
LEMMA EntryIsDrawn ==
    ASSUME NEW p \in Profiles, NEW m \in Nat \ {0}, NEW i \in -1 .. Len(replay) - 1,
           NEW e, e = First + i, NEW x \in 1 .. e, NEW D, D = Displayed(i, m, p),
           D # <<>>, Head(D).time <= Candles[x].time,
           \/ p = "utc_aligned"
           \/ /\ Instant(Wall(Candles[x].time)) = Candles[x].time
              /\ \A y \in 1 .. e : x < y => Wall(Candles[x].time) <= Wall(Candles[y].time)
    PROVE  \E j \in 1 .. Len(D) : D[j].time = bucket_for(Candles[x].time, m, p)
<1>1. PICK g, c, w : g = LiveStart(i, Context) /\ c = tail(i, m, Context) /\ w = Context
  OBVIOUS
<1>2. /\ Series(c) /\ Len(c) = e - g + 1 /\ (\A k \in 1 .. e - g + 1 : c[k] = Candles[g + k - 1])
      /\ g \in Nat \ {0} /\ g <= e + 1 /\ e \in Int /\ e <= Len(Candles)
  <2>1. w \in Nat \ {0} /\ w <= ContextWindow(m) /\ c = tail(i, m, w) /\ g = LiveStart(i, w)
    BY <1>1, ContextIs
  <2>2. i \in -1 .. Len(replay) - 1 /\ m \in Nat \ {0} /\ e = First + i
    OBVIOUS
  <2>3. Series(c) /\ Len(c) = e - g + 1 /\ FromOn(c, g, e)
    BY ONLY <2>1, <2>2, TailSeries
  <2>4. g \in Nat \ {0} /\ g <= e + 1 /\ e \in Int /\ e <= Len(Candles)
    BY ONLY <2>1, <2>2, TailSeries
  <2> QED BY <2>3, <2>4 DEF FromOn
<1>3. D = resample(c, m, p)
  BY <1>1 DEF Displayed
<1>4. Stands(D, c, Len(c), m, p)
  BY <1>2, <1>3, ResampleStands
<1>5. D \in Seq(BarRecords) /\ Len(D) \in Nat /\ Len(D) > 0 /\ Head(D) = D[1] /\ Len(c) > 0 /\ g <= e
  <2>1. D \in Seq(BarRecords)
    BY <1>4 DEF Stands
  <2>2. Len(D) \in Nat /\ Len(D) > 0 /\ Head(D) = D[1]
    BY <2>1, EmptySeq, HeadTailProperties
  <2>3. Len(c) # 0 /\ Len(c) \in Nat
    BY <1>2, <1>4, <2>2, SeriesIs DEF Stands
  <2>4. e - g + 1 > 0
    BY <1>2, <2>3
  <2>5. g <= e
    BY ONLY <1>2, <2>4
  <2> QED BY <2>1, <2>2, <2>3, <2>5
<1>6. x \in Int /\ 1 <= x /\ x <= e
  BY <1>2
<1>7. CASE g <= x
  <2>1. PICK k : k = x - g + 1
    OBVIOUS
  <2>2. k \in 1 .. e - g + 1 /\ g + k - 1 = x
    BY ONLY <1>2, <1>6, <1>7, <2>1
  <2>3. k \in 1 .. Len(c) /\ c[k] = Candles[x]
    BY <1>2, <2>2
  <2>4. PICK j \in 1 .. Len(D) : D[j].from <= c[k].time /\ c[k].time <= D[j].upto
    BY <1>4, <2>3 DEF Stands
  <2>5. D[j].time = bucket_for(c[k].time, m, p)
    <3>1. Series(c) /\ Stands(D, c, Len(c), m, p) /\ k \in 1 .. Len(c)
      BY <1>2, <1>4, <2>3
    <3> QED BY ONLY <2>4, <3>1, CandleIsDrawn
  <2> QED BY <2>3, <2>5
<1>8. CASE ~(g <= x)
  <2>1. PICK t, u : t = Candles[x].time /\ u = Candles[g].time
    OBVIOUS
  <2>2. /\ x < g /\ g \in 1 .. e /\ g \in Int
        /\ x \in DOMAIN Candles /\ g \in DOMAIN Candles
    <3>1. DOMAIN Candles = 1 .. Len(Candles) /\ Len(Candles) \in Nat
      BY CandlesAre
    <3> QED BY ONLY <1>2, <1>5, <1>6, <1>8, <3>1
  <2>3. t \in Nat /\ u \in Nat /\ t < u
    BY <2>1, <2>2, CandlesAre
  <2>4. 1 \in 1 .. Len(D)
    BY <1>5
  <2>5. D[1].time = bucket_for(u, m, p)
    <3>1. PICK one : one = 1
      OBVIOUS
    <3>2. one \in 1 .. e - g + 1 /\ g + one - 1 = g
      BY ONLY <1>2, <1>5, <3>1
    <3>3. c[1] = Candles[g]
      BY <1>2, <3>1, <3>2
    <3>4. Series(c) /\ Stands(D, c, Len(c), m, p) /\ Len(c) > 0
      BY <1>2, <1>4, <1>5
    <3>5. D[1].time = bucket_for(c[1].time, m, p)
      BY ONLY <3>4, FirstBarIs
    <3> QED BY <2>1, <3>3, <3>5
  <2>6. bucket_for(u, m, p) <= t
    BY <1>5, <2>1, <2>5
  <2>7. Clock(t, p) <= Clock(u, p) /\ (p = "utc_aligned" \/ Instant(Wall(t)) = t)
    <3>1. CASE p = "utc_aligned"
      BY <2>3, <3>1 DEF Clock
    <3>2. CASE p # "utc_aligned"
      BY <2>1, <2>2, <3>2 DEF Clock
    <3> QED BY <3>1, <3>2
  <2>8. bucket_for(t, m, p) = bucket_for(u, m, p)
    BY <2>3, <2>6, <2>7, SameBucket
  <2> QED BY <2>1, <2>4, <2>5, <2>8
<1> QED BY <1>7, <1>8

\* A focus without a window has its trade on the live chart: the bar of its entry is
\* drawn and its exits lie within (ReplayWorkspace.tsx, the layout effect after every
\* render; helpers.ts isFocusWithinLiveBounds), unless the local clock was put back.
THEOREM LiveFocusStaysShown == Spec => []LiveFocusIsShown
<1>1. FocusInv /\ FocusShown => LiveFocusIsShown
  <2> SUFFICES ASSUME FocusInv, FocusShown, focus # None, focus.status = "live",
                      ~ClockRanBack(focus.trade.entry)
               PROVE  /\ \E j \in DOMAIN LiveBars(shown) :
                           LiveBars(shown)[j].time = bucket_for(focus.trade.entry, shown.minutes, profile)
                      /\ TradeFocusEnd(focus.trade, shown) <= Last(LiveBars(shown)).time
    BY DEF LiveFocusIsShown
  <2>1. PICK trade, m, i, e, D : /\ trade = focus.trade /\ m = shown.minutes /\ i = shown.current
                                 /\ e = First + i /\ D = LiveBars(shown)
    OBVIOUS
  <2>2. Final(trade, shown) /\ FocusWithinLiveBounds(trade, shown)
    BY <2>1 DEF FocusShown
  <2>3. Orderly(shown) /\ shown \in Snapshots
    BY SessionFacts DEF FocusInv, SessionsOK
  <2>4. i \in -1 .. Len(replay) - 1 /\ m \in Timeframes /\ m \in Nat \ {0} /\ profile \in Profiles
    <3>1. i \in -1 .. Len(replay) - 1 /\ m \in Timeframes
      BY <2>1, <2>3 DEF Snapshots
    <3> QED BY <3>1, FocusAssumption
  <2>5. D = Displayed(i, m, profile)
    BY <2>1, <2>4 DEF LiveBars, Rendering
  <2>6. D # <<>> /\ trade.entry >= Head(D).time /\ TradeFocusEnd(trade, shown) <= Last(D).time
    BY <2>1, <2>2 DEF FocusWithinLiveBounds
  <2>7. PICK x \in 1 .. e : Candles[x].time = trade.entry
    BY <2>1, <2>2, <2>3, EntryIs
  <2>8. TimeOf(shown) = Candles[e].time
    BY <2>1, <2>2, <2>3, EntryIs
  <2>9. \/ profile = "utc_aligned"
        \/ /\ Instant(Wall(Candles[x].time)) = Candles[x].time
           /\ \A y \in 1 .. e : x < y => Wall(Candles[x].time) <= Wall(Candles[y].time)
    <3> SUFFICES ASSUME profile # "utc_aligned"
                 PROVE  /\ Instant(Wall(Candles[x].time)) = Candles[x].time
                        /\ \A y \in 1 .. e : x < y => Wall(Candles[x].time) <= Wall(Candles[y].time)
      OBVIOUS
    <3>1. profile = "new_york_close"
      BY <2>4 DEF Profiles
    <3>2. Instant(Wall(Candles[x].time)) = Candles[x].time
      BY <2>1, <2>7, <3>1 DEF ClockRanBack
    <3>3. ASSUME NEW y \in 1 .. e, x < y
          PROVE  Wall(Candles[x].time) <= Wall(Candles[y].time)
      <4>1. x \in DOMAIN Candles /\ y \in DOMAIN Candles /\ e \in DOMAIN Candles /\ y <= e /\ e \in Int
        <5>1. DOMAIN Candles = 1 .. Len(Candles) /\ Len(Candles) \in Nat
          BY CandlesAre
        <5>2. First \in Nat \ {0} /\ Last1m \in Nat /\ Last1m <= Len(Candles) /\ i \in Int /\ First + i <= Last1m
          BY <2>4, RangeIs
        <5>3. e \in Int /\ e <= Len(Candles) /\ x \in 1 .. e /\ y \in 1 .. e
          BY <2>1, <5>1, <5>2
        <5> QED BY ONLY <5>1, <5>3
      <4>2. /\ Candles[y].time <= TimeOf(shown) /\ trade.entry <= Candles[x].time
            /\ Candles[x].time \in Nat /\ Candles[y].time \in Nat
        <5>1. Candles[y].time <= Candles[e].time /\ Candles[x].time \in Nat /\ Candles[y].time \in Nat
          BY <4>1, CandlesAre
        <5>2. trade.entry = Candles[x].time
          BY <2>7
        <5> QED BY ONLY <2>8, <5>1, <5>2
      <4>3. ~(Wall(Candles[y].time) <= Wall(Candles[x].time))
        BY <2>1, <3>1, <3>3, <4>1, <4>2 DEF ClockRanBack
      <4>4. Wall(Candles[y].time) \in Int /\ Wall(Candles[x].time) \in Int
        BY <4>2, WallIs
      <4> QED BY ONLY <4>3, <4>4
    <3> QED BY <3>2, <3>3
  <2>10. Head(D).time <= Candles[x].time
    BY <2>6, <2>7
  <2>11. \E j \in 1 .. Len(D) : D[j].time = bucket_for(Candles[x].time, m, profile)
    <3>1. e = First + i /\ D # <<>>
      BY <2>1, <2>6
    <3> QED BY ONLY <2>4, <2>5, <2>9, <2>10, <3>1, x \in 1 .. e, EntryIsDrawn
  <2>12. DOMAIN D = 1 .. Len(D)
    OBVIOUS
  <2> QED BY <2>1, <2>6, <2>7, <2>11, <2>12
<1> QED BY <1>1, FocusInvariant, ShownInvariant, PTL
=============================================================================
