---------------------------- MODULE ChartFocus ----------------------------
(***************************************************************************)
(* Looking at one trade on the chart: the bounded window the server cuts   *)
(* out of the history (backend/app/service.py chart_history), and the      *)
(* client that decides between the live chart and such a window            *)
(* (frontend/src/ReplayWorkspace.tsx handleFocus and its layout effect,    *)
(* helpers.ts).  Meanwhile the replay advances, trades are opened and      *)
(* closed and the timeframe changes, in this tab and in others, and        *)
(* answers are late, out of order or lost.                                 *)
(*                                                                         *)
(* A trade's place on the chart is the opening time of a candle.  An       *)
(* action of the client is an event handler with the render and the        *)
(* layout effect that follow it.                                           *)
(***************************************************************************)
EXTENDS Listing, DisplayedBars

CONSTANTS
    Trades,           \* 1, 2, ... in the order they are opened
    Timeframes,       \* minutes of the visible timeframes
    profile,          \* of the session, fixed when it was created
    ContextBars,      \* context_bars of the request, within its limits
    MaxBars,          \* CHART_FOCUS_MAX_BARS
    RecentFills,      \* MAX_RESPONSE_FILLS
    Starts,           \* the sessions this tab may have just installed
    MaxFills,         \* bound: fills of a session
    MaxSettings,      \* bound: changes of the timeframe
    MaxUnseen,        \* bound: requests whose outcome this tab is not told
    MaxFocus,         \* bound: times the user looks at a trade
    None

Profiles == {"utc_aligned", "new_york_close"}

TradeRecords == [id : Trades, entry : Nat, exit : Nat \cup {None}]
FillRecords == [trade : Trades, anchor : Nat, reason : {"entry", "manual", "stop"}]
Snapshots ==
    [current : -1 .. Len(replay) - 1, minutes : Timeframes, changes : Nat,
     trades : [Trades -> TradeRecords \cup {None}], fills : Seq(FillRecords)]
WindowRecords ==
    [trade : TradeRecords, from : Int, upto : Int, minutes : Timeframes, fills : SUBSET Nat,
     truncated : BOOLEAN]
FocusRecords ==
    [trade : TradeRecords, window : WindowRecords \cup {None},
     status : {"live", "loading", "ready", "error"}]

ASSUME FocusAssumption ==
    /\ Trades \subseteq Nat \ {0} /\ IsFiniteSet(Trades) /\ \A t \in Trades : 1 .. t \subseteq Trades
    /\ 1 \in Timeframes /\ Timeframes \subseteq Nat \ {0} /\ profile \in Profiles
    /\ ContextBars \in Nat \ {0} /\ MaxBars \in Nat \ {0} /\ RecentFills \in Nat \ {0}
    /\ {MaxFills, MaxSettings, MaxUnseen, MaxFocus} \subseteq Nat
    /\ None \notin Nat \cup TradeRecords \cup Snapshots \cup WindowRecords \cup FocusRecords

VARIABLES
    session,     \* the session on the server
    untold,      \* requests so far whose outcome this tab is not told
    answer,      \* the snapshot on its way to this tab
    unseen,      \* (for properties) the timeframe changed and this tab was not told
    shown,       \* the snapshot this tab shows
    focus,       \* chartFocus: [trade, window, status]
    generation,  \* focusGeneration
    asked,       \* how often the user has looked at a trade
    requests     \* chart-history requests: [generation, settings, trade, reply]

server == <<session, untold, answer, unseen>>
focusing == <<focus, generation, requests>>
vars == <<server, shown, asked, focusing>>

(***************************************************************************)
(* The session.  The minutes of the timeframe stand for the settings       *)
(* signature; changes counts how often they changed, for the bound.        *)
(***************************************************************************)
\* SessionPanel asks for one-minute bars; Starts come of it by requests.
NewSession ==
    [current |-> -1, minutes |-> 1, changes |-> 0,
     trades |-> [t \in Trades |-> None], fills |-> <<>>]

TimeOf(s) == replay[s.current + 1].time

\* A session that requests lead to: a trade is entered at a candle that has been
\* revealed, with a fill, and all of its fills lie between that candle and the last.
Orderly(s) ==
    /\ s \in Snapshots
    /\ \A t \in Trades : s.trades[t] # None =>
          /\ s.current >= 0 /\ s.trades[t].id = t
          /\ \E i \in DOMAIN replay : replay[i].time = s.trades[t].entry
          /\ \E k \in DOMAIN s.fills : s.fills[k].trade = t
    /\ \A k \in DOMAIN s.fills :
          /\ s.trades[s.fills[k].trade] # None
          /\ s.trades[s.fills[k].trade].entry <= s.fills[k].anchor /\ s.fills[k].anchor <= TimeOf(s)

ASSUME StartsAssumption == \A s \in Starts : Orderly(s)

Completed(s) == s.current >= Len(replay) - 1
IsOpen(s, t) == s.trades[t] # None /\ s.trades[t].exit = None

Filled(s, t, reason) ==
    [s EXCEPT !.fills = Append(@, [trade |-> t, anchor |-> TimeOf(s), reason |-> reason])]

Entered(s, t) ==
    [Filled(s, t, "entry") EXCEPT !.trades[t] = [id |-> t, entry |-> TimeOf(s), exit |-> None]]

\* An exit by the user is stamped with the reveal of the candle, a minute past its
\* opening; one at a stop or target with the opening.
Exited(s, t) == [Filled(s, t, "manual") EXCEPT !.trades[t].exit = TimeOf(s) + 1]

\* The candle hits the exits of the trades T, one after the other.
Hit(s, T) ==
    [s EXCEPT !.fills = @ \o [k \in 1 .. Cardinality(T) |->
                                 [trade |-> Ascending(T)[k], anchor |-> TimeOf(s), reason |-> "stop"]],
              !.trades = [t \in Trades |-> IF t \in T THEN [s.trades[t] EXCEPT !.exit = TimeOf(s)]
                                            ELSE s.trades[t]]]

\* What one request may do: reveal a candle, which may hit the exits of some trades,
\* open a trade, close one partly or wholly, or change the timeframe.
Revealed(s) ==
    IF s.current + 1 >= Len(replay) THEN {}
    ELSE LET next == [s EXCEPT !.current = @ + 1]
         IN  {Hit(next, T) : T \in SUBSET {t \in Trades : IsOpen(s, t)}}

Ordered(s) ==
    IF Completed(s) \/ s.current < 0 THEN {}
    ELSE {Entered(s, t) : t \in {u \in Trades : \A v \in Trades : s.trades[v] = None <=> v >= u}}

Closed(s) ==
    UNION {{Filled(s, t, "manual"), Exited(s, t)} : t \in {u \in Trades : IsOpen(s, u)}}

Changed(s) ==
    IF s.changes >= MaxSettings THEN {}
    ELSE {[s EXCEPT !.minutes = m, !.changes = @ + 1] : m \in Timeframes \ {s.minutes}}

Outcomes(s) ==
    {n \in Revealed(s) \cup Ordered(s) \cup Closed(s) \cup Changed(s) : Len(n.fills) <= MaxFills}

(***************************************************************************)
(* chart_history                                                           *)
(***************************************************************************)
\* A fill is named by its place in the ledger.
FillsOf(s, t) == {k \in DOMAIN s.fills : s.fills[k].trade = t}

\* get_last_fill_anchor of a closed trade, the present for an open one; never
\* past the candle revealed last.
AnchorEnd(s, trade) ==
    IF trade.exit = None THEN TimeOf(s)
    ELSE Least(Max({s.fills[k].anchor : k \in FillsOf(s, trade.id)}), TimeOf(s))

Span(s, trade) == Greatest(AnchorEnd(s, trade) - trade.entry, 0)
BudgetOneMore(span) == MaxBars - span

Budget(span) == MaxBars - span - 1

\* The first and the last minute of the window, before the causal clamp.
Bounds(s, trade) ==
    LET front == Least(ContextBars, Budget(Span(s, trade)) \div 2)
        back == Least(ContextBars, Budget(Span(s, trade)) - front)
    IN  IF Span(s, trade) >= MaxBars THEN [from |-> trade.entry, upto |-> trade.entry + MaxBars - 1]
        ELSE [from |-> trade.entry - front, upto |-> AnchorEnd(s, trade) + back]

UnclampedContext(s, bounds) == bounds

\* The trailing context reveals nothing the replay has not reached.
Clamped(s, bounds) == [bounds EXCEPT !.upto = Least(@, TimeOf(s))]

chart_history(s, t) ==
    LET bounds == Clamped(s, Bounds(s, s.trades[t]))
    IN  [trade |-> s.trades[t], from |-> bounds.from, upto |-> bounds.upto, minutes |-> s.minutes,
         fills |-> {k \in FillsOf(s, t) : bounds.from <= s.fills[k].anchor /\ s.fills[k].anchor <= bounds.upto},
         truncated |-> Span(s, s.trades[t]) >= MaxBars]

\* What RangeBars reads for a window, and the bars it is drawn with.
Reading ==
    LET Times == (Candles[1].time - MaxBars) .. (Candles[Len(Candles)].time + MaxBars)
    IN  [from \in Times |-> [upto \in Times |->
            LET here == {i \in DOMAIN Candles : from <= Candles[i].time /\ Candles[i].time <= upto}
            IN  IF here = {} THEN <<>> ELSE SubSeq(Candles, Min(here), Max(here))]]
SourceOf(w) == Reading[w.from][w.upto]
BarsOf(w) == resample(SourceOf(w), w.minutes, profile)

(***************************************************************************)
(* The client.                                                             *)
(***************************************************************************)
Rendering ==
    [p \in Profiles |-> [m \in Timeframes |-> [i \in -1 .. Len(replay) - 1 |-> Displayed(i, m, p)]]]
Averages ==
    [p \in Profiles |-> [m \in Timeframes |-> [i \in -1 .. Len(replay) - 1 |-> Indicator(i, m, p)]]]
LiveBars(s) == Rendering[profile][s.minutes][s.current]

\* The exit nearest the end of the fills the snapshot holds, or else what the
\* trade itself says.
TradeFocusEnd(trade, s) ==
    LET exits == {k \in FillsOf(s, trade.id) : Len(s.fills) - k < RecentFills /\ s.fills[k].reason # "entry"}
    IN  IF exits # {} THEN s.fills[Max(exits)].anchor
        ELSE IF trade.exit # None THEN trade.exit
        ELSE trade.entry

FocusWithinLiveBounds(trade, s) ==
    /\ LiveBars(s) # <<>>
    /\ trade.entry >= Head(LiveBars(s)).time
    /\ TradeFocusEnd(trade, s) <= Last(LiveBars(s)).time

\* handleFocus, with the snapshot and the settings that are current.
HandleFocus(trade, s) ==
    LET live == FocusWithinLiveBounds(trade, s)
    IN  /\ generation' = generation + 1
        /\ focus' = [trade |-> trade, window |-> None, status |-> IF live THEN "live" ELSE "loading"]
        /\ requests' = IF live THEN requests
                       ELSE requests \cup {[generation |-> generation + 1, settings |-> s.minutes,
                                            trade |-> trade, reply |-> None]}

Unfocused == UNCHANGED focusing

ReclassifyOnSettingsOnly(s) ==
    IF focus # None /\ s.minutes # shown.minutes THEN HandleFocus(focus.trade, s) ELSE Unfocused

ReclassifyOnBoundsOnly(s) ==
    IF focus # None /\ focus.status = "live" /\ ~FocusWithinLiveBounds(focus.trade, s)
    THEN HandleFocus(focus.trade, s) ELSE Unfocused

\* The layout effect after a render that shows snapshot s.
Reclassify(s) ==
    LET changed == s.minutes # shown.minutes
        left == focus.status = "live" /\ ~FocusWithinLiveBounds(focus.trade, s)
    IN  IF focus # None /\ (changed \/ left) THEN HandleFocus(focus.trade, s) ELSE Unfocused

\* A request of this tab, which waits for the answer of the last one.
Mutate ==
    /\ answer = None
    /\ session' \in Outcomes(session)
    /\ answer' = session'
    /\ UNCHANGED <<untold, unseen, shown, asked, focusing>>

\* A request of another tab, or one of this tab whose answer is lost.
MutateUnseen ==
    /\ untold < MaxUnseen
    /\ session' \in Outcomes(session)
    /\ untold' = untold + 1
    /\ unseen' = (unseen \/ session'.minutes # session.minutes)
    /\ UNCHANGED <<answer, shown, asked, focusing>>

AnswerArrives ==
    /\ answer # None
    /\ shown' = answer
    /\ answer' = None
    /\ Reclassify(answer)
    /\ UNCHANGED <<session, untold, unseen, asked>>

\* "Focus on chart" in the review of a closed trade, disabled while busy.
FocusTrade(t) ==
    /\ asked < MaxFocus
    /\ answer = None
    /\ shown.trades[t] # None /\ ~IsOpen(shown, t)
    /\ asked' = asked + 1
    /\ HandleFocus(shown.trades[t], shown)
    /\ UNCHANGED <<server, shown>>

ClearFocus ==
    /\ focus # None
    /\ focus' = None
    /\ generation' = generation + 1
    /\ UNCHANGED <<server, shown, asked, requests>>

ServeHistory(q) ==
    /\ q.reply = None
    /\ requests' = (requests \ {q}) \cup {[q EXCEPT !.reply = chart_history(session, q.trade.id)]}
    /\ UNCHANGED <<server, shown, asked, focus, generation>>

AnyFocusRequest(q) == TRUE

FocusRequestIsCurrent(q) == q.generation = generation /\ q.settings = shown.minutes

\* What comes of a request, if it is still current.
Settle(q, window, status) ==
    /\ requests' = requests \ {q}
    /\ focus' = IF FocusRequestIsCurrent(q) /\ focus # None /\ focus.trade.id = q.trade.id
                THEN [trade |-> q.trade, window |-> window, status |-> status] ELSE focus
    /\ UNCHANGED <<server, shown, asked, generation>>

ReplyArrives(q) == q.reply # None /\ Settle(q, q.reply, "ready")

\* The server fails or is not reached, or its answer is lost.
RequestFails(q) == q.reply = None /\ Settle(q, None, "error")

Init ==
    /\ session \in Starts
    /\ shown = session
    /\ answer = None /\ focus = None
    /\ untold = 0 /\ generation = 0 /\ asked = 0
    /\ unseen = FALSE /\ requests = {}

Next ==
    \/ Mutate \/ MutateUnseen
    \/ AnswerArrives
    \/ \E t \in Trades : FocusTrade(t)
    \/ ClearFocus
    \/ \E q \in requests : ServeHistory(q) \/ ReplyArrives(q) \/ RequestFails(q)

Spec == Init /\ [][Next]_vars

(***************************************************************************)
(* Properties                                                              *)
(***************************************************************************)
Windows ==
    {q.reply : q \in {r \in requests : r.reply # None}}
      \cup IF focus = None THEN {} ELSE {focus.window} \ {None}

\* Every variable has its type; no two requests share a generation, the newest
\* is never ahead of focusGeneration, and a window is there exactly when ready.
TypeOK ==
    /\ session.current \in -1 .. Len(replay) - 1 /\ session.minutes \in Timeframes
    /\ shown.current <= session.current /\ Len(shown.fills) <= Len(session.fills)
    /\ \A q \in requests : q.generation \in 1 .. generation /\ q.settings \in Timeframes
    /\ \A q, r \in requests : q.generation = r.generation => q = r
    /\ focus # None =>
          /\ focus.status \in {"live", "loading", "ready", "error"}
          /\ (focus.window # None) <=> (focus.status = "ready")

\* chart_history never reveals a candle that the replay has not reached, in
\* whatever order answers are served, whatever the trade's span and context.
WindowsAreCausal ==
    \A w \in Windows : \A i \in DOMAIN SourceOf(w) :
        session.current >= 0 /\ SourceOf(w)[i].time <= TimeOf(session)

\* A window holds at most MaxBars candles, among them the one of the entry, and
\* unless it is flagged truncated every fill of its trade so far has a place in it.
WindowsAreBounded ==
    \A w \in Windows :
        /\ Len(SourceOf(w)) <= MaxBars
        /\ \E i \in DOMAIN SourceOf(w) : SourceOf(w)[i].time = w.trade.entry
        /\ w.truncated \/ w.fills = FillsOf(session, w.trade.id)

\* The window on the chart belongs to the trade in focus, and to the timeframe
\* that the controls show once no answer is on its way - unless the timeframe
\* was changed behind this tab's back.
FocusIsCurrent ==
    (focus # None /\ focus.status = "ready") =>
        /\ focus.window.trade.id = focus.trade.id
        /\ (answer = None /\ ~unseen) => focus.window.minutes = shown.minutes

\* The profile's clock showed this time before, or ran backwards after it, before
\* the candle shown last.
ClockRanBack(time) ==
    /\ profile = "new_york_close"
    /\ \/ Instant(Wall(time)) # time
       \/ \E i, j \in DOMAIN Candles :
             /\ i < j /\ Wall(Candles[j].time) <= Wall(Candles[i].time)
             /\ time <= Candles[i].time /\ Candles[j].time <= TimeOf(shown)

\* Whatever has been revealed since, a focus without a window has its trade on
\* the live chart: the entry's bar is drawn, and none of its exits lies beyond
\* (unless the profile's clock ran backwards since).
LiveFocusIsShown ==
    (focus # None /\ focus.status = "live" /\ ~ClockRanBack(focus.trade.entry)) =>
        /\ \E i \in DOMAIN LiveBars(shown) :
              LiveBars(shown)[i].time = bucket_for(focus.trade.entry, shown.minutes, profile)
        /\ TradeFocusEnd(focus.trade, shown) <= Last(LiveBars(shown)).time

\* The notice that a window is loading goes away: a focus that loads has a request
\* under way whose outcome is still current, whatever was changed meanwhile (and the
\* types).
LoadingIsServed ==
    /\ TypeOK
    /\ (focus # None /\ focus.status = "loading") =>
         \E q \in requests : FocusRequestIsCurrent(q) /\ q.trade.id = focus.trade.id

\* Bars p draws from these candles stand for them, each once, in the order of
\* time except where the local clock ran backwards.
Drawn(bars, source, p) ==
    /\ Faithful(bars, source)
    /\ p = "utc_aligned" \/ ~PutBackWithin(source) => InOrder(bars)

\* The candles revealed when the replay stands at index i, and the last n of some.
RevealedAt(i) == SubSeq(Candles, 1, First + i)
LastOf(n, s) == SubSeq(s, Greatest(1, Len(s) - n + 1), Len(s))

LiveDrawn ==
    \A p \in Profiles, m \in Timeframes, i \in -1 .. Len(replay) - 1 :
        Drawn(Displayed(i, m, p), LastOf(Context, RevealedAt(i)), p)

\* Where the history before the range is long enough, the moving average has a
\* value at every bar of the live chart, whatever the timeframe.
AveragesAreWarm ==
    LET m == shown.minutes
    IN  Len(before(m)) = ContextWindow(m) =>
          {b.time : b \in ToSet(LiveBars(shown))}
            \subseteq {v.time : v \in ToSet(Averages[profile][m][shown.current])}

\* What is drawn stands for the candles it was made of: the live chart, at every
\* place of the replay, for the last Context candles revealed, with a warm moving
\* average; a window for what was read for it.
DisplayIsFaithful ==
    /\ LiveDrawn /\ AveragesAreWarm
    /\ focus # None /\ focus.window # None =>
          Drawn(BarsOf(focus.window), SourceOf(focus.window), profile)
=============================================================================
