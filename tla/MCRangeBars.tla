----------------------------- MODULE MCRangeBars -----------------------------
(***************************************************************************)
(* Small instance: two files, the range starting and ending inside them,   *)
(* pages of two rows, and two request threads.                             *)
(***************************************************************************)
EXTENDS RangeBars

TwoYears == <<4, 2>>

Slice(from, upto) == [how |-> "slice", from |-> from, upto |-> upto]

\* An index, a read longer than a page, across the files and past the end, and all.
Reads ==
    {Slice(0, 1), Slice(1, 9), [how |-> "iterate", from |-> 0, upto |-> 4]}
=============================================================================
