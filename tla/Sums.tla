--------------------------------- MODULE Sums ---------------------------------
(***************************************************************************)
(* Sums of lists of integers, and of the part of a list at some places.    *)
(***************************************************************************)
EXTENDS Integers, Sequences

\* The running totals of a list, from the empty one on.
RunningSums(v) ==
    LET sum[n \in 0 .. Len(v)] == IF n = 0 THEN 0 ELSE sum[n - 1] + v[n]
    IN  sum

SumOf(v) == RunningSums(v)[Len(v)]

\* The sum of the numbers of a list at the places in K.
SumOver(K, v) == SumOf([k \in DOMAIN v |-> IF k \in K THEN v[k] ELSE 0])
=============================================================================
