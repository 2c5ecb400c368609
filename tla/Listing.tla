------------------------------- MODULE Listing -------------------------------
(***************************************************************************)
(* Sets of numbers as lists: rows by rowid, years by name; and the members *)
(* of a list that some set holds, as a query returns them.                 *)
(***************************************************************************)
EXTENDS Integers, FiniteSets

Increasing(order) == \A j, k \in DOMAIN order : j < k => order[j] < order[k]

\* The members of a finite set of integers, the least first.
Ascending(S) == CHOOSE order \in [1 .. Cardinality(S) -> S] : Increasing(order)

\* The k-th least member of S.
NthLeast(S, k) == CHOOSE i \in S : Cardinality({j \in S : j < i}) = k - 1

\* The elements of a sequence that are in S, in their order.
Chosen(seq, S) ==
    LET places == {i \in DOMAIN seq : seq[i] \in S}
    IN  [k \in 1 .. Cardinality(places) |-> seq[NthLeast(places, k)]]
=============================================================================
