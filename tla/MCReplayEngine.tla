--------------------------- MODULE MCReplayEngine ---------------------------
(***************************************************************************)
(* Small instances of the replay engine: five candles that a three-bar     *)
(* session may meet in any order.                                          *)
(***************************************************************************)
EXTENDS ReplayEngine

Candle(o, h, l, c) == [open |-> o, high |-> h, low |-> l, close |-> c]

Flat == Candle(3, 3, 3, 3)
WideDown == Candle(3, 4, 2, 2)   \* touches stop and target, closes on its low
WideUp == Candle(3, 4, 2, 4)     \* the mirror image
GapDown == Candle(1, 3, 1, 3)    \* opens through a long stop, then recovers
GapUp == Candle(5, 5, 3, 3)      \* opens through a long target

AllCandles == {Flat, WideDown, WideUp, GapDown, GapUp}
TwoCandles == {WideDown, WideUp}
=============================================================================
