---------------------------- MODULE MCChartFocus ----------------------------
(* Candles with a gap in the replay range and the clocks put back where it begins. *)
EXTENDS ChartFocus

Candle(t, o, h, l, c) == [time |-> t, open |-> o, high |-> h, low |-> l, close |-> c]

\* Eight candles of history, five of the replay, one after its end.
CandleData ==
    << Candle(0, 5, 6, 4, 5), Candle(1, 5, 7, 5, 6), Candle(2, 6, 6, 2, 3),
       Candle(3, 3, 4, 3, 4), Candle(4, 4, 9, 4, 8), Candle(5, 8, 8, 7, 7),
       Candle(6, 7, 8, 1, 2), Candle(7, 2, 3, 2, 3), Candle(8, 3, 5, 3, 5),
       Candle(9, 6, 6, 6, 6), Candle(10, 6, 7, 3, 4), Candle(11, 4, 8, 4, 6),
       Candle(14, 6, 8, 5, 7), Candle(15, 7, 7, 0, 4) >>

\* Two trades opened on the first candle, where one was closed again; one trade that
\* was closed partly on the third candle, where it was opened, and hit its stop on
\* the fourth.
RevealedNext(s) == [s EXCEPT !.current = @ + 1]
OnFirst == RevealedNext(NewSession)
OnThird == RevealedNext(RevealedNext(OnFirst))
ResumedSessions ==
    {Exited(Entered(Entered(OnFirst, 1), 2), 1),
     Hit(RevealedNext(Filled(Entered(OnThird, 1), 1, "manual")), {1})}
=============================================================================
