------------------------- MODULE SessionStoreProofs -------------------------
(***************************************************************************)
(* Proofs about SessionStore.  Whatever claims the stored revision, be it  *)
(* in a cache, in a request that loads or in one that saves, is right      *)
(* about what is stored: a commit makes every other copy out of date, and  *)
(* until there is one nothing stored changes.  So the invariant speaks of  *)
(* current copies only, and says of each stage of a request what its copy  *)
(* holds then.  A copy that is being saved reflects a change of the        *)
(* complete session, and the rows it writes are what differs.              *)
(***************************************************************************)
EXTENDS SessionStore, ListingProofs

Smaller(a, b) == IF a < b THEN a ELSE b

\* The ids of the trades with a status.
StatusIds(trades, status) == {t.id : t \in {x \in Range(trades) : x.status = status}}

Distinct(trades) == \A j, k \in DOMAIN trades : trades[j].id = trades[k].id => j = k
OpenInOrder(trades) ==
    \A j, k \in DOMAIN trades :
        j < k /\ trades[j].status = "open" /\ trades[k].status = "open"
            => trades[j].id < trades[k].id

\* The fills from number a to number n, and where the last w of n fills begin.
Run(a, n) == [k \in 1 .. n - a + 1 |-> a + k - 1]
Low(n, w) == IF n > w THEN n - w + 1 ELSE 1

\* A session with its complete history, as the tables hold it.
Complete(d) ==
    /\ d \in SessionValue /\ d.opened <= MaxTrades
    /\ Len(d.trades) = d.opened /\ \A k \in 1 .. d.opened : d.trades[k].id = k
    /\ d.fills = Run(1, d.fillsTotal)
    /\ d.closedTotal = Cardinality(StatusIds(d.trades, "closed"))

\* A working set of the trades: genuine ones, and all that are open.
Part(u, trades) ==
    /\ u \in Seq(Trade) /\ Distinct(u) /\ OpenInOrder(u)
    /\ Range(u) \subseteq Range(trades)
    /\ \A t \in Range(trades) : t.status = "open" => t \in Range(u)

ClosedOf(trades) == Cardinality(StatusIds(trades, "closed"))

\* A working set as it is loaded, and as it is before it is pruned again.
Exact(s, d) ==
    /\ Scalars(s) = Scalars(d) /\ Part(s.trades, d.trades)
    /\ ClosedOf(s.trades) = Smaller(Window, ClosedOf(d.trades))
    /\ s.fills = Run(Low(d.fillsTotal, FillWindow), d.fillsTotal)

Wide(s, d) ==
    /\ Scalars(s) = Scalars(d) /\ Part(s.trades, d.trades)
    /\ Smaller(Window, ClosedOf(d.trades)) <= ClosedOf(s.trades)
    /\ \E a \in Nat \ {0} : a <= Low(d.fillsTotal, FillWindow) /\ s.fills = Run(a, d.fillsTotal)

\* What a mutation may do to a session, and what its working set has of it.
Grown(full, d) ==
    /\ full.revision = d.revision
    /\ full.opened \in {d.opened, d.opened + 1} /\ d.fillsTotal <= full.fillsTotal

Reflects(s, full, d) ==
    /\ Wide(s, full)
    /\ \A t \in Range(full.trades) : t \in Range(d.trades) \/ t \in Range(s.trades)
    /\ \E a \in Nat \ {0} : a <= d.fillsTotal + 1 /\ s.fills = Run(a, full.fillsTotal)

Honest(record, d) ==
    record.trades \subseteq Range(d.trades) /\ record.fills \subseteq Range(d.fills)

Ready(s, record, d) ==
    /\ \E full \in Mutations(d) : Complete(full) /\ Grown(full, d) /\ Reflects(s, full, d)
    /\ record # None => Honest(record, d)

-----------------------------------------------------------------------------
(* Lists of trades *)

\* As many ids as places.
LEMMA DistinctLength ==
    ASSUME NEW w \in Seq(Trade), Distinct(w)
    PROVE  IsFiniteSet(IdsOf(w)) /\ Cardinality(IdsOf(w)) = Len(w) /\ Len(w) \in Nat
<1>1. PICK n, ids, f : n = Len(w) /\ ids = IdsOf(w) /\ f = [k \in 1 .. n |-> w[k].id]
  OBVIOUS
<1>2. n \in Nat /\ DOMAIN w = 1 .. n
  BY <1>1
<1>3. ids = {w[k].id : k \in 1 .. n}
  BY ONLY <1>1, <1>2 DEF IdsOf
<1>4. f \in Bijection(1 .. n, ids)
  <2>1. f \in [1 .. n -> ids]
    BY ONLY <1>1, <1>3
  <2>2. \A j, k \in 1 .. n : f[j] = f[k] => j = k
    BY ONLY <1>1, <1>2, Distinct(w) DEF Distinct
  <2>3. \A x \in ids : \E k \in 1 .. n : f[k] = x
    BY ONLY <1>1, <1>3
  <2> QED BY ONLY <2>1, <2>2, <2>3 DEF Bijection, Injection, Surjection, IsInjective
<1>5. IsFiniteSet(1 .. n) /\ Cardinality(1 .. n) = n
  BY ONLY <1>2, FS_Interval
<1>6. ExistsBijection(1 .. n, ids)
  BY ONLY <1>4 DEF ExistsBijection
<1>7. IsFiniteSet(ids) /\ Cardinality(ids) = n
  BY ONLY <1>5, <1>6, FS_Bijection
<1> QED BY <1>1, <1>2, <1>7

\* What a query keeps of a list of trades.
LEMMA ChosenTrades ==
    ASSUME NEW u \in Seq(Trade), Distinct(u), NEW S
    PROVE  LET w == Chosen(u, S)
           IN  /\ w \in Seq(Trade) /\ Distinct(w) /\ Range(w) = Range(u) \cap S
               /\ OpenInOrder(u) => OpenInOrder(w)
<1>1. PICK w : w = Chosen(u, S)
  OBVIOUS
<1>2. PICK at \in Seq(Nat) :
        /\ Increasing(at) /\ w \in Seq(Trade) /\ Len(w) = Len(at)
        /\ \A k \in 1 .. Len(at) : at[k] \in 1 .. Len(u) /\ w[k] = u[at[k]] /\ u[at[k]] \in S
        /\ \A i \in 1 .. Len(u) : u[i] \in S => \E k \in 1 .. Len(at) : at[k] = i
  <2>1. w \in Seq(Trade) /\ \E at : PlacesOf(w, u, S, at)
    BY ONLY <1>1, u \in Seq(Trade), ChosenIs
  <2> QED BY ONLY <2>1 DEF PlacesOf
<1>3. PICK n : n = Len(w) /\ n = Len(at) /\ n \in Nat
  BY <1>2
<1>4. /\ DOMAIN w = 1 .. n /\ DOMAIN at = 1 .. n /\ DOMAIN u = 1 .. Len(u)
      /\ \A j, k \in 1 .. n : j < k => at[j] < at[k]
  <2>1. DOMAIN w = 1 .. n /\ DOMAIN at = 1 .. n /\ DOMAIN u = 1 .. Len(u)
    BY <1>2, <1>3
  <2> QED BY ONLY <1>2, <2>1 DEF Increasing
<1>5. \A k \in 1 .. n : at[k] \in DOMAIN u /\ w[k] = u[at[k]] /\ u[at[k]] \in S /\ at[k] \in Nat
  BY ONLY <1>2, <1>3, <1>4
<1>6. Distinct(w)
  <2>1. ASSUME NEW j \in 1 .. n, NEW k \in 1 .. n, w[j].id = w[k].id PROVE j = k
    <3>1. at[j] = at[k]
      BY ONLY <1>5, <2>1, Distinct(u) DEF Distinct
    <3>2. ~(j < k) /\ ~(k < j)
      BY ONLY <1>4, <1>5, <3>1
    <3> QED BY ONLY <1>3, <3>2
  <2> QED BY ONLY <1>4, <2>1 DEF Distinct
<1>7. Range(w) = Range(u) \cap S
  <2>1. \A x \in Range(w) : x \in Range(u) \cap S
    BY ONLY <1>4, <1>5 DEF Range
  <2>2. ASSUME NEW x \in Range(u) \cap S PROVE x \in Range(w)
    <3>1. PICK i \in 1 .. Len(u) : u[i] = x
      BY <1>4 DEF Range
    <3>2. PICK k \in 1 .. n : at[k] = i
      BY <1>2, <1>3, <3>1
    <3> QED BY <1>4, <1>5, <3>1, <3>2 DEF Range
  <2> QED BY <2>1, <2>2
<1>8. OpenInOrder(u) => OpenInOrder(w)
  BY ONLY <1>4, <1>5 DEF OpenInOrder
<1> QED BY <1>1, <1>2, <1>6, <1>7, <1>8

\* The trades with a status.
LEMMA StatusTrades ==
    ASSUME NEW u \in Seq(Trade), Distinct(u), NEW status
    PROVE  LET w == WithStatus(u, status)
           IN  /\ w \in Seq(Trade) /\ Distinct(w) /\ (OpenInOrder(u) => OpenInOrder(w))
               /\ Range(w) = {t \in Range(u) : t.status = status}
               /\ IdsOf(w) = StatusIds(u, status)
               /\ IsFiniteSet(StatusIds(u, status)) /\ Len(w) = Cardinality(StatusIds(u, status))
               /\ Len(w) \in Nat
<1>1. PICK S : S = {t \in Range(u) : t.status = status}
  OBVIOUS
<1>2. PICK w : w = Chosen(u, S)
  OBVIOUS
<1>3. w = WithStatus(u, status)
  BY ONLY <1>1, <1>2 DEF WithStatus
<1>4. w \in Seq(Trade) /\ Distinct(w) /\ (OpenInOrder(u) => OpenInOrder(w)) /\ Range(w) = Range(u) \cap S
  BY <1>2, ChosenTrades
<1>5. Range(w) = S
  BY ONLY <1>1, <1>4
<1>6. IdsOf(w) = StatusIds(u, status)
  <2>1. IdsOf(w) = {t.id : t \in Range(w)}
    BY DEF IdsOf, Range
  <2> QED BY ONLY <1>1, <1>5, <2>1 DEF StatusIds
<1>7. IsFiniteSet(IdsOf(w)) /\ Cardinality(IdsOf(w)) = Len(w) /\ Len(w) \in Nat
  BY ONLY <1>4, DistinctLength
<1> QED BY ONLY <1>1, <1>3, <1>4, <1>5, <1>6, <1>7
-----------------------------------------------------------------------------
(* What mutations do to a working set and to the complete history alike *)

\* A working set and the list it is part of.
LEMMA PartIs ==
    ASSUME NEW T \in Seq(Trade), Distinct(T), NEW u, Part(u, T)
    PROVE  /\ IsFiniteSet(StatusIds(u, "closed")) /\ IsFiniteSet(StatusIds(T, "closed"))
           /\ IsFiniteSet(StatusIds(T, "open"))
           /\ ClosedOf(u) \in Nat /\ ClosedOf(T) \in Nat /\ ClosedOf(u) <= ClosedOf(T)
           /\ StatusIds(u, "closed") \subseteq StatusIds(T, "closed")
           /\ StatusIds(u, "open") = StatusIds(T, "open")
           /\ \A x, y \in Range(T) : x.id = y.id => x = y
<1>1. u \in Seq(Trade) /\ Distinct(u) /\ Range(u) \subseteq Range(T)
      /\ \A t \in Range(T) : t.status = "open" => t \in Range(u)
  BY ONLY Part(u, T) DEF Part
<1>2. IsFiniteSet(StatusIds(u, "closed")) /\ ClosedOf(u) \in Nat
  BY ONLY <1>1, StatusTrades DEF ClosedOf
<1>3. /\ IsFiniteSet(StatusIds(T, "closed")) /\ ClosedOf(T) \in Nat
      /\ IsFiniteSet(StatusIds(T, "open"))
  BY ONLY T \in Seq(Trade), Distinct(T), StatusTrades DEF ClosedOf
<1>4. StatusIds(u, "closed") \subseteq StatusIds(T, "closed")
  BY ONLY <1>1 DEF StatusIds
<1>5. StatusIds(u, "open") = StatusIds(T, "open")
  BY ONLY <1>1 DEF StatusIds
<1>6. ClosedOf(u) <= ClosedOf(T)
  BY ONLY <1>3, <1>4, FS_Subset DEF ClosedOf
<1>7. \A x, y \in Range(T) : x.id = y.id => x = y
  BY ONLY Distinct(T) DEF Distinct, Range
<1> QED BY <1>2, <1>3, <1>4, <1>5, <1>6, <1>7

\* As many closed trades more as there are ids, none of them closed before.
LEMMA ClosedMore ==
    ASSUME NEW S, NEW ids, IsFiniteSet(S), IsFiniteSet(ids), S \cap ids = {}
    PROVE  /\ Cardinality(S \cup ids) = Cardinality(S) + Cardinality(ids)
           /\ Cardinality(S) \in Nat /\ Cardinality(ids) \in Nat
<1>1. Cardinality(S \cap ids) = 0
  BY FS_EmptySet
<1>2. Cardinality(S) \in Nat /\ Cardinality(ids) \in Nat
  BY FS_CardinalityType
<1>3. Cardinality(S \cup ids) = Cardinality(S) + Cardinality(ids) - Cardinality(S \cap ids)
  BY FS_Union
<1> QED BY <1>1, <1>2, <1>3

\* g changes open trades and no others; the list it makes, and what it closes.
Changes(g, T) ==
    \A t \in Range(T) : g[t] \in Trade /\ g[t].id = t.id /\ (t.status = "closed" => g[t] = t)
Changed(list, g) == [k \in DOMAIN list |-> g[list[k]]]
Closing(T, g) == {t.id : t \in {x \in Range(T) : x.status = "open" /\ g[x].status = "closed"}}

\* Open trades change, some of them close, and no trade that had closed does.
LEMMA MappedTrades ==
    ASSUME NEW T \in Seq(Trade), Distinct(T), NEW u, Part(u, T), NEW g, Changes(g, T),
           NEW T2, T2 = Changed(T, g), NEW u2, u2 = Changed(u, g), NEW ids, ids = Closing(T, g)
    PROVE  /\ Part(u2, T2) /\ T2 \in Seq(Trade) /\ Len(T2) = Len(T)
           /\ \A k \in 1 .. Len(T) : T2[k].id = T[k].id
           /\ \A t \in Range(T2) : t \in Range(T) \/ t \in Range(u2)
           /\ ClosedOf(T2) = ClosedOf(T) + Cardinality(ids)
           /\ ClosedOf(u2) = ClosedOf(u) + Cardinality(ids)
           /\ Cardinality(ids) \in Nat
<1>1. /\ u \in Seq(Trade) /\ Distinct(u) /\ OpenInOrder(u) /\ Range(u) \subseteq Range(T)
      /\ \A t \in Range(T) : t.status = "open" => t \in Range(u)
  BY ONLY Part(u, T) DEF Part
<1>2. PICK n, m : n = Len(T) /\ m = Len(u) /\ n \in Nat /\ m \in Nat /\ DOMAIN T = 1 .. n /\ DOMAIN u = 1 .. m
  <2>1. Len(T) \in Nat /\ DOMAIN T = 1 .. Len(T)
    BY ONLY T \in Seq(Trade)
  <2>2. u \in Seq(Trade)
    BY ONLY <1>1
  <2>3. Len(u) \in Nat /\ DOMAIN u = 1 .. Len(u)
    BY ONLY <2>2
  <2> QED BY ONLY <2>1, <2>3
<1>3. \A t \in Range(T) : /\ t \in Trade /\ g[t] \in Trade /\ g[t].id = t.id
                          /\ t.status = "closed" => g[t] = t
                          /\ t.status \in {"open", "closed"} /\ g[t].status \in {"open", "closed"}
  <2>1. \A t \in Range(T) : t \in Trade
    BY ONLY T \in Seq(Trade), <1>2 DEF Range
  <2> QED BY ONLY <2>1, Changes(g, T) DEF Trade, Changes
<1>4. \A k \in 1 .. m : u[k] \in Range(T)
  BY ONLY <1>1, <1>2 DEF Range
<1>5. \A k \in 1 .. n : T[k] \in Range(T)
  BY ONLY <1>2 DEF Range
<1>6. /\ T2 = [k \in 1 .. n |-> g[T[k]]] /\ u2 = [k \in 1 .. m |-> g[u[k]]]
  BY ONLY <1>2, T2 = Changed(T, g), u2 = Changed(u, g) DEF Changed
<1>7. /\ T2 \in Seq(Trade) /\ Len(T2) = n /\ DOMAIN T2 = 1 .. n
      /\ u2 \in Seq(Trade) /\ Len(u2) = m /\ DOMAIN u2 = 1 .. m
  <2>1. \A k \in 1 .. n : g[T[k]] \in Trade
    BY ONLY <1>3, <1>5
  <2>2. \A k \in 1 .. m : g[u[k]] \in Trade
    BY ONLY <1>3, <1>4
  <2> QED BY ONLY <1>2, <1>6, <2>1, <2>2
<1>8. Range(T2) = {g[t] : t \in Range(T)} /\ Range(u2) = {g[t] : t \in Range(u)}
  BY ONLY <1>2, <1>6, <1>7 DEF Range
<1>9. \A k \in 1 .. n : T2[k].id = T[k].id
  BY ONLY <1>3, <1>5, <1>6
<1>10. \A x, y \in Range(T) : x.id = y.id => x = y
  BY ONLY T \in Seq(Trade), Distinct(T), Part(u, T), PartIs
<1>11. Part(u2, T2)
  <2>1. \A k \in 1 .. m : u2[k].id = u[k].id /\ (u2[k].status = "open" => u[k].status = "open")
    <3> SUFFICES ASSUME NEW k \in 1 .. m
                 PROVE  u2[k].id = u[k].id /\ (u2[k].status = "open" => u[k].status = "open")
      OBVIOUS
    <3>1. u2[k] = g[u[k]] /\ u[k] \in Range(T)
      BY ONLY <1>4, <1>6, k \in 1 .. m
    <3> QED BY ONLY <1>3, <3>1
  <2>2. Distinct(u2) /\ OpenInOrder(u2)
    <3>1. Distinct(u2)
      BY ONLY <1>1, <1>2, <1>7, <2>1 DEF Distinct
    <3>2. OpenInOrder(u2)
      BY ONLY <1>1, <1>2, <1>7, <2>1 DEF OpenInOrder
    <3> QED BY <3>1, <3>2
  <2>3. Range(u2) \subseteq Range(T2)
    BY ONLY <1>1, <1>8
  <2>4. ASSUME NEW t \in Range(T2), t.status = "open" PROVE t \in Range(u2)
    <3>1. PICK x \in Range(T) : t = g[x]
      BY ONLY <1>8, t \in Range(T2)
    <3>2. x.status = "open"
      BY ONLY <1>3, <2>4, <3>1
    <3> QED BY ONLY <1>1, <1>8, <3>1, <3>2
  <2> QED BY ONLY <1>7, <2>2, <2>3, <2>4 DEF Part
<1>12. ASSUME NEW t \in Range(T2) PROVE t \in Range(T) \/ t \in Range(u2)
  <2>1. PICK x \in Range(T) : t = g[x]
    BY ONLY <1>8, t \in Range(T2)
  <2>2. CASE x.status = "closed"
    BY ONLY <1>3, <2>1, <2>2
  <2>3. CASE x.status = "open"
    BY ONLY <1>1, <1>8, <2>1, <2>3
  <2> QED BY ONLY <1>3, <2>1, <2>2, <2>3
<1>13. ids \subseteq StatusIds(T, "open") /\ ids \cap StatusIds(T, "closed") = {}
  <2>1. ids \subseteq StatusIds(T, "open")
    BY ONLY ids = Closing(T, g) DEF StatusIds, Closing
  <2>2. StatusIds(T, "open") \cap StatusIds(T, "closed") = {}
    BY ONLY <1>10 DEF StatusIds
  <2> QED BY ONLY <2>1, <2>2
<1>14. /\ IsFiniteSet(ids) /\ IsFiniteSet(StatusIds(T, "closed")) /\ IsFiniteSet(StatusIds(u, "closed"))
       /\ StatusIds(u, "closed") \subseteq StatusIds(T, "closed")
  <2>1. /\ IsFiniteSet(StatusIds(T, "open")) /\ IsFiniteSet(StatusIds(T, "closed"))
        /\ IsFiniteSet(StatusIds(u, "closed"))
        /\ StatusIds(u, "closed") \subseteq StatusIds(T, "closed")
    BY ONLY T \in Seq(Trade), Distinct(T), Part(u, T), PartIs
  <2>2. ids \in SUBSET StatusIds(T, "open")
    BY ONLY <1>13
  <2> QED BY ONLY <2>1, <2>2, FS_Subset
<1>15. ASSUME NEW list, NEW list2, Range(list) \subseteq Range(T), Range(list2) = {g[t] : t \in Range(list)},
              \A t \in Range(T) : t.status = "open" => t \in Range(list)
       PROVE  StatusIds(list2, "closed") = StatusIds(list, "closed") \cup ids
  <2>1. ASSUME NEW t \in Range(list2), t.status = "closed" PROVE t.id \in StatusIds(list, "closed") \cup ids
    <3>1. PICK x \in Range(list) : t = g[x] /\ x \in Range(T)
      BY ONLY <1>15, t \in Range(list2)
    <3>2. CASE x.status = "closed"
      BY ONLY <1>3, <3>1, <3>2 DEF StatusIds
    <3>3. CASE x.status = "open"
      <4>1. x.id \in ids /\ t.id = x.id
        BY ONLY <1>3, <2>1, <3>1, <3>3, ids = Closing(T, g) DEF Closing
      <4> QED BY ONLY <4>1
    <3> QED BY ONLY <1>3, <3>1, <3>2, <3>3
  <2>2. ASSUME NEW x \in Range(list), x.status = "closed" PROVE x.id \in StatusIds(list2, "closed")
    <3>1. g[x] = x /\ x \in Range(list2)
      BY ONLY <1>3, <1>15, <2>2, x \in Range(list)
    <3> QED BY ONLY <2>2, <3>1 DEF StatusIds
  <2>3. ASSUME NEW i \in ids PROVE i \in StatusIds(list2, "closed")
    <3>1. PICK x \in Range(T) : x.id = i /\ x.status = "open" /\ g[x].status = "closed"
      BY ONLY i \in ids, ids = Closing(T, g) DEF Closing
    <3>2. g[x] \in Range(list2) /\ g[x].id = i
      BY ONLY <1>3, <1>15, <3>1
    <3> QED BY ONLY <3>1, <3>2 DEF StatusIds
  <2>4. \A i \in StatusIds(list2, "closed") : i \in StatusIds(list, "closed") \cup ids
    BY ONLY <2>1 DEF StatusIds
  <2>5. \A i \in StatusIds(list, "closed") : i \in StatusIds(list2, "closed")
    BY ONLY <2>2 DEF StatusIds
  <2> QED BY ONLY <2>3, <2>4, <2>5
<1>16. StatusIds(T2, "closed") = StatusIds(T, "closed") \cup ids
  BY ONLY <1>1, <1>8, <1>15
<1>17. StatusIds(u2, "closed") = StatusIds(u, "closed") \cup ids
  BY ONLY <1>1, <1>8, <1>15
<1>18. ClosedOf(T2) = ClosedOf(T) + Cardinality(ids) /\ Cardinality(ids) \in Nat
  BY ONLY <1>13, <1>14, <1>16, ClosedMore DEF ClosedOf
<1>19. ClosedOf(u2) = ClosedOf(u) + Cardinality(ids)
  <2>1. StatusIds(u, "closed") \cap ids = {}
    BY ONLY <1>13, <1>14
  <2> QED BY ONLY <1>14, <1>17, <2>1, ClosedMore DEF ClosedOf
<1> QED BY <1>2, <1>7, <1>9, <1>11, <1>12, <1>18, <1>19

\* A trade is entered, in a list and in a part of it.
Entered(T2, u2, T, u, x) == T2 = Append(T, x) /\ u2 = Append(u, x)

\* The part is still one.
LEMMA AppendedTrade ==
    ASSUME NEW T \in Seq(Trade), \A k \in 1 .. Len(T) : T[k].id = k, NEW u, Part(u, T),
           NEW x \in Trade, x.id = Len(T) + 1, x.status = "open",
           NEW T2, NEW u2, Entered(T2, u2, T, u, x)
    PROVE  /\ Part(u2, T2) /\ T2 \in Seq(Trade) /\ Len(T2) = Len(T) + 1
           /\ \A k \in 1 .. Len(T2) : T2[k].id = k
           /\ \A t \in Range(T2) : t \in Range(T) \/ t \in Range(u2)
           /\ ClosedOf(T2) = ClosedOf(T) /\ ClosedOf(u2) = ClosedOf(u)
<1>1. /\ u \in Seq(Trade) /\ Distinct(u) /\ OpenInOrder(u) /\ Range(u) \subseteq Range(T)
      /\ \A t \in Range(T) : t.status = "open" => t \in Range(u)
  BY ONLY Part(u, T) DEF Part
<1>2. PICK n, m : n = Len(T) /\ m = Len(u) /\ n \in Nat /\ m \in Nat /\ DOMAIN T = 1 .. n /\ DOMAIN u = 1 .. m
  <2>1. Len(T) \in Nat /\ DOMAIN T = 1 .. Len(T)
    BY ONLY T \in Seq(Trade)
  <2>2. u \in Seq(Trade)
    BY ONLY <1>1
  <2>3. Len(u) \in Nat /\ DOMAIN u = 1 .. Len(u)
    BY ONLY <2>2
  <2> QED BY ONLY <2>1, <2>3
<1>3. /\ T2 \in Seq(Trade) /\ Len(T2) = n + 1 /\ DOMAIN T2 = 1 .. n + 1
      /\ \A k \in 1 .. n : T2[k] = T[k]
      /\ T2[n + 1] = x
  BY ONLY T \in Seq(Trade), x \in Trade, Entered(T2, u2, T, u, x), <1>2 DEF Entered
<1>4. /\ u2 \in Seq(Trade) /\ Len(u2) = m + 1 /\ DOMAIN u2 = 1 .. m + 1
      /\ \A k \in 1 .. m : u2[k] = u[k]
      /\ u2[m + 1] = x
  BY ONLY <1>1, x \in Trade, Entered(T2, u2, T, u, x), <1>2 DEF Entered
<1>5. Range(T2) = Range(T) \cup {x} /\ Range(u2) = Range(u) \cup {x}
  <2>1. Range(T2) = Range(T) \cup {x}
    BY ONLY <1>2, <1>3 DEF Range
  <2>2. Range(u2) = Range(u) \cup {x}
    BY ONLY <1>2, <1>4 DEF Range
  <2> QED BY <2>1, <2>2
<1>6. \A k \in 1 .. m : u[k].id \in Nat /\ u[k].id < x.id
  <2> SUFFICES ASSUME NEW k \in 1 .. m PROVE u[k].id \in Nat /\ u[k].id < x.id
    OBVIOUS
  <2>1. u[k] \in Range(T)
    BY ONLY <1>1, <1>2, k \in 1 .. m DEF Range
  <2>2. PICK i \in 1 .. n : T[i] = u[k]
    BY ONLY <1>2, <2>1 DEF Range
  <2>3. u[k].id = i
    BY <1>2, <2>2
  <2> QED BY <1>2, <2>3
<1>7. Part(u2, T2)
  <2>1. Distinct(u2)
    <3>1. ASSUME NEW j \in 1 .. m + 1, NEW k \in 1 .. m + 1, u2[j].id = u2[k].id PROVE j = k
      <4>1. CASE j \in 1 .. m /\ k \in 1 .. m
        BY ONLY <1>1, <1>2, <1>4, <3>1, <4>1 DEF Distinct
      <4>2. CASE j = m + 1 /\ k # m + 1
        <5>1. k \in 1 .. m
          BY ONLY <1>2, <4>2, k \in 1 .. m + 1
        <5> QED BY ONLY <1>4, <1>6, <3>1, <4>2, <5>1
      <4>3. CASE j # m + 1 /\ k = m + 1
        <5>1. j \in 1 .. m
          BY ONLY <1>2, <4>3, j \in 1 .. m + 1
        <5> QED BY ONLY <1>4, <1>6, <3>1, <4>3, <5>1
      <4> QED BY ONLY <1>2, <4>1, <4>2, <4>3, j \in 1 .. m + 1, k \in 1 .. m + 1
    <3> QED BY ONLY <1>4, <3>1 DEF Distinct
  <2>2. OpenInOrder(u2)
    <3>1. ASSUME NEW j \in 1 .. m + 1, NEW k \in 1 .. m + 1, j < k,
                 u2[j].status = "open", u2[k].status = "open"
          PROVE  u2[j].id < u2[k].id
      <4>1. j \in 1 .. m
        BY ONLY <1>2, <3>1
      <4>2. CASE k \in 1 .. m
        BY ONLY <1>1, <1>2, <1>4, <3>1, <4>1, <4>2 DEF OpenInOrder
      <4>3. CASE k = m + 1
        BY ONLY <1>4, <1>6, <4>1, <4>3
      <4> QED BY ONLY <1>2, <4>2, <4>3, k \in 1 .. m + 1
    <3> QED BY ONLY <1>4, <3>1 DEF OpenInOrder
  <2> QED BY ONLY <1>1, <1>4, <1>5, <2>1, <2>2 DEF Part
<1>8. \A k \in 1 .. n + 1 : T2[k].id = k
  BY ONLY <1>2, <1>3, x.id = Len(T) + 1, \A k \in 1 .. Len(T) : T[k].id = k
<1>9. /\ StatusIds(T2, "closed") = StatusIds(T, "closed")
      /\ StatusIds(u2, "closed") = StatusIds(u, "closed")
  BY ONLY <1>5, x.status = "open" DEF StatusIds
<1> QED BY <1>2, <1>3, <1>5, <1>7, <1>8, <1>9 DEF ClosedOf
-----------------------------------------------------------------------------
(* Windows, and what is written back *)

\* The last w elements of a sequence, or all of them.
LEMMA RecentIs ==
    ASSUME NEW E, NEW seq \in Seq(E), NEW w \in Nat \ {0}
    PROVE  /\ Recent(seq, w) \in Seq(E) /\ Len(Recent(seq, w)) = Smaller(w, Len(seq))
           /\ \A k \in 1 .. Len(Recent(seq, w)) :
                /\ Low(Len(seq), w) + k - 1 \in 1 .. Len(seq)
                /\ Recent(seq, w)[k] = seq[Low(Len(seq), w) + k - 1]
<1>1. PICK n, low : n = Len(seq) /\ low = Low(n, w)
  OBVIOUS
<1>2. n \in Nat /\ low \in Nat \ {0} /\ n - low + 1 = Smaller(w, n) /\ Smaller(w, n) \in Nat
  BY <1>1 DEF Low, Smaller
<1>3. Recent(seq, w) = SubSeq(seq, low, n)
  BY <1>1 DEF Recent, Low
<1>4. PICK m : m = Smaller(w, n)
  OBVIOUS
<1>5. m \in Nat /\ n = low + m - 1
  BY ONLY <1>2, <1>4
<1>6. \A k \in 1 .. m : low + k - 1 \in 1 .. n
  BY ONLY <1>2, <1>5
<1>7. PICK r : r = [k \in 1 .. m |-> seq[low + k - 1]]
  OBVIOUS
<1>8. SubSeq(seq, low, n) = r
  BY ONLY <1>2, <1>4, <1>7
<1>9. r \in Seq(E) /\ Len(r) = m
  <2>1. \A k \in 1 .. m : seq[low + k - 1] \in E
    BY ONLY <1>1, <1>6, seq \in Seq(E)
  <2> QED BY ONLY <1>5, <1>7, <2>1
<1>10. \A k \in 1 .. m : r[k] = seq[low + k - 1]
  BY ONLY <1>7
<1> QED BY ONLY <1>1, <1>3, <1>4, <1>6, <1>8, <1>9, <1>10

\* The last closed trades.
LEMMA RecentTrades ==
    ASSUME NEW c \in Seq(Trade), Distinct(c), NEW r, r = Recent(c, Window)
    PROVE  /\ r \in Seq(Trade) /\ Distinct(r) /\ Range(r) \subseteq Range(c)
           /\ Len(r) = Smaller(Window, Len(c)) /\ Cardinality(IdsOf(r)) = Len(r)
           /\ IsFiniteSet(IdsOf(r))
<1>1. Window \in Nat \ {0}
  BY StoreAssumption
<1>2. PICK low : low = Low(Len(c), Window)
  OBVIOUS
<1>3. /\ r \in Seq(Trade) /\ Len(r) = Smaller(Window, Len(c))
      /\ \A k \in 1 .. Len(r) : low + k - 1 \in 1 .. Len(c) /\ r[k] = c[low + k - 1]
  BY ONLY <1>1, <1>2, c \in Seq(Trade), r = Recent(c, Window), RecentIs
<1>4. /\ DOMAIN r = 1 .. Len(r) /\ DOMAIN c = 1 .. Len(c) /\ low \in Nat
  <2>1. DOMAIN r = 1 .. Len(r)
    BY ONLY <1>3
  <2>2. DOMAIN c = 1 .. Len(c) /\ Len(c) \in Nat
    BY ONLY c \in Seq(Trade)
  <2> QED BY ONLY <1>1, <1>2, <2>1, <2>2 DEF Low
<1>5. Distinct(r)
  <2>1. ASSUME NEW j \in 1 .. Len(r), NEW k \in 1 .. Len(r), r[j].id = r[k].id PROVE j = k
    <3>1. PICK x, y : x = low + j - 1 /\ y = low + k - 1
      OBVIOUS
    <3>2. x \in DOMAIN c /\ y \in DOMAIN c /\ c[x].id = c[y].id
      BY ONLY <1>3, <1>4, <2>1, <3>1
    <3>3. x = y
      BY ONLY <3>2, Distinct(c) DEF Distinct
    <3> QED BY ONLY <1>4, <3>1, <3>3, j \in 1 .. Len(r), k \in 1 .. Len(r)
  <2> QED BY ONLY <1>4, <2>1 DEF Distinct
<1>6. Range(r) \subseteq Range(c)
  BY ONLY <1>3, <1>4 DEF Range
<1> QED BY ONLY <1>3, <1>5, <1>6, DistinctLength

\* The trades of a list with these ids.
WithIds(u, ids) == {t \in Range(u) : t.id \in ids}

\* _prune_working_set keeps what is open and the last closed trades.
LEMMA PrunedTrades ==
    ASSUME NEW T \in Seq(Trade), Distinct(T), NEW u, Part(u, T),
           Smaller(Window, ClosedOf(T)) <= ClosedOf(u),
           NEW closed, closed = Recent(WithStatus(u, "closed"), Window),
           NEW keep, keep = IdsOf(WithStatus(u, "open")) \cup IdsOf(closed),
           NEW v, v = Chosen(u, WithIds(u, keep))
    PROVE  Part(v, T) /\ ClosedOf(v) = Smaller(Window, ClosedOf(T))
<1>1. /\ u \in Seq(Trade) /\ Distinct(u) /\ OpenInOrder(u) /\ Range(u) \subseteq Range(T)
      /\ \A t \in Range(T) : t.status = "open" => t \in Range(u)
  BY ONLY Part(u, T) DEF Part
<1>2. PICK c : c = WithStatus(u, "closed")
  OBVIOUS
<1>3. /\ c \in Seq(Trade) /\ Distinct(c) /\ Range(c) = {t \in Range(u) : t.status = "closed"}
      /\ Len(c) = ClosedOf(u) /\ IdsOf(WithStatus(u, "open")) = StatusIds(u, "open")
  BY ONLY <1>1, <1>2, StatusTrades DEF ClosedOf
<1>4. /\ closed \in Seq(Trade) /\ Range(closed) \subseteq Range(c)
      /\ Cardinality(IdsOf(closed)) = Smaller(Window, Len(c))
  BY ONLY <1>2, <1>3, closed = Recent(WithStatus(u, "closed"), Window), RecentTrades
<1>5. PICK S : S = {t \in Range(u) : t.id \in keep}
  OBVIOUS
<1>6. v \in Seq(Trade) /\ Distinct(v) /\ OpenInOrder(v) /\ Range(v) = S
  <2>1. v = Chosen(u, S)
    BY ONLY <1>5, v = Chosen(u, WithIds(u, keep)) DEF WithIds
  <2>2. v \in Seq(Trade) /\ Distinct(v) /\ OpenInOrder(v) /\ Range(v) = Range(u) \cap S
    BY ONLY <1>1, <2>1, ChosenTrades
  <2> QED BY ONLY <1>5, <2>2
<1>7. keep = StatusIds(u, "open") \cup IdsOf(closed)
  BY ONLY <1>3, keep = IdsOf(WithStatus(u, "open")) \cup IdsOf(closed)
<1>8. Part(v, T)
  <2>1. Range(v) \subseteq Range(T)
    BY ONLY <1>1, <1>5, <1>6
  <2>2. ASSUME NEW t \in Range(T), t.status = "open" PROVE t \in Range(v)
    <3>1. t \in Range(u) /\ t.id \in StatusIds(u, "open")
      BY ONLY <1>1, <2>2 DEF StatusIds
    <3> QED BY ONLY <1>5, <1>6, <1>7, <3>1
  <2> QED BY ONLY <1>6, <2>1, <2>2 DEF Part
<1>9. \A x, y \in Range(T) : x.id = y.id => x = y
  BY ONLY T \in Seq(Trade), Distinct(T), Part(u, T), PartIs
<1>10. IdsOf(closed) = {t.id : t \in Range(closed)}
  BY DEF IdsOf, Range
<1>11. StatusIds(v, "closed") = IdsOf(closed)
  <2>1. ASSUME NEW t \in Range(v), t.status = "closed" PROVE t.id \in IdsOf(closed)
    <3>1. t \in Range(u) /\ t \in Range(T) /\ t.id \in keep
      BY ONLY <1>1, <1>5, <1>6, t \in Range(v)
    <3>2. t.id \notin StatusIds(u, "open")
      BY ONLY <1>1, <1>9, <2>1, <3>1 DEF StatusIds
    <3> QED BY ONLY <1>7, <3>1, <3>2
  <2>2. ASSUME NEW t \in Range(closed) PROVE t.id \in StatusIds(v, "closed")
    <3>1. t \in Range(u) /\ t.status = "closed" /\ t.id \in keep
      BY ONLY <1>3, <1>4, <1>7, <1>10, t \in Range(closed)
    <3> QED BY ONLY <1>5, <1>6, <3>1 DEF StatusIds
  <2>3. \A i \in StatusIds(v, "closed") : i \in IdsOf(closed)
    BY ONLY <2>1 DEF StatusIds
  <2>4. \A i \in IdsOf(closed) : i \in StatusIds(v, "closed")
    BY ONLY <1>10, <2>2
  <2> QED BY ONLY <2>3, <2>4
<1>12. ClosedOf(v) = Smaller(Window, ClosedOf(u))
  BY ONLY <1>3, <1>4, <1>11 DEF ClosedOf
<1>13. ClosedOf(u) \in Nat /\ ClosedOf(T) \in Nat /\ ClosedOf(u) <= ClosedOf(T) /\ Window \in Nat
  BY ONLY T \in Seq(Trade), Distinct(T), Part(u, T), PartIs, StoreAssumption
<1>14. Smaller(Window, ClosedOf(u)) = Smaller(Window, ClosedOf(T))
  BY ONLY <1>13, Smaller(Window, ClosedOf(T)) <= ClosedOf(u) DEF Smaller
<1> QED BY <1>8, <1>12, <1>14

\* load_session reads the open trades and then the last closed ones.
LEMMA LoadedTrades ==
    ASSUME NEW T \in Seq(Trade), \A k \in 1 .. Len(T) : T[k].id = k,
           NEW v, v = WithStatus(T, "open") \o Recent(WithStatus(T, "closed"), Window)
    PROVE  Part(v, T) /\ ClosedOf(v) = Smaller(Window, ClosedOf(T))
<1>1. Distinct(T) /\ OpenInOrder(T)
  <2>1. DOMAIN T = 1 .. Len(T)
    BY ONLY T \in Seq(Trade)
  <2> QED BY ONLY <2>1, \A k \in 1 .. Len(T) : T[k].id = k DEF Distinct, OpenInOrder
<1>2. PICK o, c, r : o = WithStatus(T, "open") /\ c = WithStatus(T, "closed") /\ r = Recent(c, Window)
  OBVIOUS
<1>3. /\ o \in Seq(Trade) /\ Distinct(o) /\ OpenInOrder(o)
      /\ Range(o) = {t \in Range(T) : t.status = "open"}
  BY ONLY <1>1, <1>2, T \in Seq(Trade), StatusTrades
<1>4. /\ c \in Seq(Trade) /\ Distinct(c) /\ Range(c) = {t \in Range(T) : t.status = "closed"}
      /\ Len(c) = ClosedOf(T)
  BY ONLY <1>1, <1>2, T \in Seq(Trade), StatusTrades DEF ClosedOf
<1>5. /\ r \in Seq(Trade) /\ Distinct(r) /\ Range(r) \subseteq Range(c)
      /\ Cardinality(IdsOf(r)) = Smaller(Window, ClosedOf(T))
  <2>1. /\ r \in Seq(Trade) /\ Distinct(r) /\ Range(r) \subseteq Range(c)
        /\ Cardinality(IdsOf(r)) = Smaller(Window, Len(c))
    BY ONLY <1>2, <1>4, RecentTrades
  <2> QED BY ONLY <1>4, <2>1
<1>6. PICK n, m : n = Len(o) /\ m = Len(r) /\ n \in Nat /\ m \in Nat /\ DOMAIN o = 1 .. n /\ DOMAIN r = 1 .. m
  <2>1. Len(o) \in Nat /\ DOMAIN o = 1 .. Len(o)
    BY ONLY <1>3
  <2>2. Len(r) \in Nat /\ DOMAIN r = 1 .. Len(r)
    BY ONLY <1>5
  <2> QED BY ONLY <2>1, <2>2
<1>7. /\ v \in Seq(Trade) /\ DOMAIN v = 1 .. n + m
      /\ \A k \in 1 .. n : v[k] = o[k] /\ v[k] \in Range(o)
      /\ \A k \in n + 1 .. n + m : v[k] = r[k - n] /\ k - n \in 1 .. m /\ v[k] \in Range(r)
  <2>1. v = o \o r
    BY <1>2
  <2>2. v \in Seq(Trade) /\ Len(v) = n + m
    BY ONLY <1>3, <1>5, <1>6, <2>1
  <2>3. DOMAIN v = 1 .. n + m /\ \A k \in 1 .. n : v[k] = o[k]
    BY ONLY <1>3, <1>5, <1>6, <2>1, <2>2
  <2>4. \A k \in n + 1 .. n + m : v[k] = r[k - n] /\ k - n \in 1 .. m
    BY ONLY <1>3, <1>5, <1>6, <2>1, <2>2
  <2>5. (\A k \in 1 .. n : o[k] \in Range(o)) /\ \A k \in 1 .. m : r[k] \in Range(r)
    BY ONLY <1>6 DEF Range
  <2> QED BY ONLY <2>2, <2>3, <2>4, <2>5
<1>8. \A t \in Range(o) : t \in Range(T) /\ t.status = "open"
  BY ONLY <1>3
<1>9. \A t \in Range(r) : t \in Range(T) /\ t.status = "closed"
  BY ONLY <1>4, <1>5
<1>10. \A x, y \in Range(T) : x.id = y.id => x = y
  BY ONLY <1>1 DEF Distinct, Range
<1>11. Range(v) = Range(o) \cup Range(r)
  <2>1. \A t \in Range(v) : t \in Range(o) \cup Range(r)
    <3>1. \A k \in 1 .. n + m : k \in 1 .. n \/ k \in n + 1 .. n + m
      BY ONLY <1>6
    <3> QED BY ONLY <1>7, <3>1 DEF Range
  <2>2. \A t \in Range(o) : t \in Range(v)
    <3>1. \A k \in 1 .. n : k \in 1 .. n + m
      BY ONLY <1>6
    <3> QED BY ONLY <1>6, <1>7, <3>1 DEF Range
  <2>3. \A t \in Range(r) : t \in Range(v)
    <3> SUFFICES ASSUME NEW t \in Range(r) PROVE t \in Range(v)
      OBVIOUS
    <3>1. PICK k \in 1 .. m : r[k] = t
      BY ONLY <1>6, t \in Range(r) DEF Range
    <3>2. PICK i : i = n + k
      OBVIOUS
    <3>3. i \in n + 1 .. n + m /\ i \in 1 .. n + m /\ i - n = k
      BY ONLY <1>6, <3>1, <3>2
    <3>4. v[i] = t /\ i \in DOMAIN v
      BY ONLY <1>7, <3>1, <3>3
    <3> QED BY ONLY <3>4 DEF Range
  <2> QED BY ONLY <2>1, <2>2, <2>3
<1>12. Distinct(v)
  <2>1. ASSUME NEW j \in 1 .. n + m, NEW k \in 1 .. n + m, v[j].id = v[k].id PROVE j = k
    <3>1. CASE j \in 1 .. n /\ k \in 1 .. n
      BY ONLY <1>3, <1>6, <1>7, <2>1, <3>1 DEF Distinct
    <3>2. CASE j \in n + 1 .. n + m /\ k \in n + 1 .. n + m
      <4>1. PICK x, y : x = j - n /\ y = k - n
        OBVIOUS
      <4>2. x \in DOMAIN r /\ y \in DOMAIN r /\ r[x].id = r[y].id
        BY ONLY <1>6, <1>7, <2>1, <3>2, <4>1
      <4>3. x = y
        BY ONLY <1>5, <4>2 DEF Distinct
      <4> QED BY ONLY <1>6, <4>1, <4>3, j \in 1 .. n + m, k \in 1 .. n + m
    <3>3. CASE j \in 1 .. n /\ k \in n + 1 .. n + m
      <4>1. v[j] \in Range(o) /\ v[k] \in Range(r)
        BY ONLY <1>7, <3>3
      <4> QED BY ONLY <1>8, <1>9, <1>10, <2>1, <4>1
    <3>4. CASE k \in 1 .. n /\ j \in n + 1 .. n + m
      <4>1. v[k] \in Range(o) /\ v[j] \in Range(r)
        BY ONLY <1>7, <3>4
      <4> QED BY ONLY <1>8, <1>9, <1>10, <2>1, <4>1
    <3>5. (j \in 1 .. n \/ j \in n + 1 .. n + m) /\ (k \in 1 .. n \/ k \in n + 1 .. n + m)
      BY ONLY <1>6, j \in 1 .. n + m, k \in 1 .. n + m
    <3> QED BY ONLY <3>1, <3>2, <3>3, <3>4, <3>5
  <2> QED BY ONLY <1>7, <2>1 DEF Distinct
<1>13. OpenInOrder(v)
  <2>1. \A k \in 1 .. n + m : v[k].status = "open" => k \in 1 .. n /\ v[k] = o[k]
    <3>1. \A k \in 1 .. n + m : k \in 1 .. n \/ k \in n + 1 .. n + m
      BY ONLY <1>6
    <3> QED BY ONLY <1>7, <1>9, <3>1
  <2> QED BY ONLY <1>3, <1>6, <1>7, <2>1 DEF OpenInOrder
<1>14. Part(v, T)
  BY ONLY <1>3, <1>7, <1>8, <1>9, <1>11, <1>12, <1>13 DEF Part
<1>15. StatusIds(v, "closed") = IdsOf(r)
  <2>1. IdsOf(r) = {t.id : t \in Range(r)}
    BY DEF IdsOf, Range
  <2>2. {t \in Range(v) : t.status = "closed"} = Range(r)
    BY ONLY <1>8, <1>9, <1>11
  <2> QED BY ONLY <2>1, <2>2 DEF StatusIds
<1> QED BY <1>5, <1>14, <1>15 DEF ClosedOf

\* The rows that changed are replaced where they are, and a new one is added.
LEMMA UpsertIs ==
    ASSUME NEW T \in Seq(Trade), \A k \in 1 .. Len(T) : T[k].id = k,
           NEW full \in Seq(Trade), \A k \in 1 .. Len(full) : full[k].id = k,
           Len(full) \in {Len(T), Len(T) + 1},
           NEW u \in Seq(Trade), Distinct(u), Range(u) \subseteq Range(full),
           \A t \in Range(full) : t \in Range(T) \/ t \in Range(u)
    PROVE  Upsert(T, u) = full
<1>1. PICK n, m : n = Len(T) /\ m = Len(full) /\ n \in Nat /\ m \in {n, n + 1} /\ m \in Nat
                  /\ DOMAIN T = 1 .. n /\ DOMAIN full = 1 .. m
  <2>1. Len(T) \in Nat /\ DOMAIN T = 1 .. Len(T)
    BY ONLY T \in Seq(Trade)
  <2>2. Len(full) \in Nat /\ DOMAIN full = 1 .. Len(full)
    BY ONLY full \in Seq(Trade)
  <2> QED BY ONLY <2>1, <2>2, Len(full) \in {Len(T), Len(T) + 1}
<1>2. \A k \in 1 .. n : T[k].id = k /\ T[k] \in Range(T) /\ k \in 1 .. m
  BY ONLY <1>1, \A k \in 1 .. Len(T) : T[k].id = k DEF Range
<1>3. /\ \A k \in 1 .. m : full[k].id = k /\ full[k] \in Range(full)
      /\ \A t \in Range(full) : t.id \in 1 .. m /\ full[t.id] = t
  BY ONLY <1>1, \A k \in 1 .. Len(full) : full[k].id = k DEF Range
<1>4. \A t \in Range(T) : t.id \in 1 .. n /\ T[t.id] = t
  BY ONLY <1>1, <1>2 DEF Range
<1>5. \A x : Known(u, x) <=> \E t \in Range(u) : t.id = x.id
  BY DEF Known, IdsOf, Range
<1>6. PICK a : a = [k \in 1 .. n |-> IF Known(u, T[k]) THEN CHOOSE t \in Range(u) : t.id = T[k].id
                                      ELSE T[k]]
  OBVIOUS
<1>7. \A k \in 1 .. n : a[k] = full[k]
  <2> SUFFICES ASSUME NEW k \in 1 .. n PROVE a[k] = full[k]
    OBVIOUS
  <2>1. CASE Known(u, T[k])
    <3>1. a[k] \in Range(u) /\ a[k].id = k
      BY ONLY <1>2, <1>5, <1>6, <2>1, k \in 1 .. n
    <3>2. a[k] \in Range(full)
      BY ONLY <3>1, Range(u) \subseteq Range(full)
    <3> QED BY ONLY <1>3, <3>1, <3>2
  <2>2. CASE ~Known(u, T[k])
    <3>1. a[k] = T[k] /\ full[k] \in Range(full) /\ full[k].id = k /\ T[k].id = k
      BY ONLY <1>2, <1>3, <1>6, <2>2, k \in 1 .. n
    <3>2. full[k] \notin Range(u)
      BY ONLY <1>5, <2>2, <3>1
    <3>3. full[k] \in Range(T)
      BY ONLY <3>1, <3>2, \A t \in Range(full) : t \in Range(T) \/ t \in Range(u)
    <3> QED BY ONLY <1>4, <3>1, <3>3
  <2> QED BY <2>1, <2>2
<1>8. PICK S, b : S = {t \in Range(u) : ~Known(T, t)} /\ b = Chosen(u, S)
  OBVIOUS
<1>9. b \in Seq(Trade) /\ Distinct(b) /\ Range(b) = S
  <2>1. b \in Seq(Trade) /\ Distinct(b) /\ Range(b) = Range(u) \cap S
    BY ONLY <1>8, u \in Seq(Trade), Distinct(u), ChosenTrades
  <2> QED BY ONLY <1>8, <2>1
<1>10. Upsert(T, u) = a \o b
  BY ONLY <1>1, <1>6, <1>8 DEF Upsert
<1>11. \A t : Known(T, t) <=> t.id \in 1 .. n
  <2>1. \A t : Known(T, t) <=> \E k \in 1 .. n : T[k].id = t.id
    BY ONLY <1>1 DEF Known, IdsOf
  <2> QED BY ONLY <1>2, <2>1
<1>12. S = {full[k] : k \in n + 1 .. m}
  <2>1. ASSUME NEW t \in S PROVE t \in {full[k] : k \in n + 1 .. m}
    <3>1. t.id \in 1 .. m /\ full[t.id] = t /\ t.id \notin 1 .. n
      BY ONLY <1>3, <1>8, <1>11, t \in S, Range(u) \subseteq Range(full)
    <3>2. t.id \in n + 1 .. m
      BY ONLY <1>1, <3>1
    <3> QED BY ONLY <3>1, <3>2
  <2>2. ASSUME NEW k \in n + 1 .. m PROVE full[k] \in S
    <3>1. k \in 1 .. m /\ k \notin 1 .. n
      BY ONLY <1>1, k \in n + 1 .. m
    <3>2. full[k].id = k /\ full[k] \in Range(full)
      BY ONLY <1>3, <3>1
    <3>3. full[k] \notin Range(T)
      BY ONLY <1>4, <3>1, <3>2
    <3>4. full[k] \in Range(u)
      BY ONLY <3>2, <3>3, \A t \in Range(full) : t \in Range(T) \/ t \in Range(u)
    <3> QED BY ONLY <1>8, <1>11, <3>1, <3>2, <3>4
  <2> QED BY ONLY <2>1, <2>2
<1>13. Len(b) = Cardinality(IdsOf(b)) /\ Len(b) \in Nat /\ DOMAIN b = 1 .. Len(b)
  <2>1. Len(b) = Cardinality(IdsOf(b)) /\ Len(b) \in Nat
    BY ONLY <1>9, DistinctLength
  <2>2. DOMAIN b = 1 .. Len(b)
    BY ONLY <1>9
  <2> QED BY <2>1, <2>2
<1>14. a \in Seq(Trade) /\ Len(a) = n
  <2>1. \A k \in 1 .. n : a[k] \in Trade
    BY ONLY <1>1, <1>2, <1>7, full \in Seq(Trade)
  <2>2. a = [k \in 1 .. n |-> a[k]]
    BY ONLY <1>6
  <2> QED BY ONLY <1>1, <2>1, <2>2
<1>15. CASE m = n
  <2>1. S = {}
    BY ONLY <1>1, <1>12, <1>15
  <2>2. Len(b) = 0
    <3>1. \A k \in 1 .. Len(b) : b[k] \in Range(b)
      BY ONLY <1>13 DEF Range
    <3> QED BY ONLY <1>9, <1>13, <2>1, <3>1
  <2>3. a \o b = a
    BY ONLY <1>9, <1>14, <2>2
  <2>4. a = full
    BY ONLY <1>1, <1>7, <1>14, <1>15, full \in Seq(Trade)
  <2> QED BY ONLY <1>10, <2>3, <2>4
<1>16. CASE m = n + 1
  <2>1. S = {full[m]}
    BY ONLY <1>1, <1>12, <1>16
  <2>2. IdsOf(b) = {full[m].id}
    <3>1. IdsOf(b) = {t.id : t \in Range(b)}
      BY DEF IdsOf, Range
    <3> QED BY ONLY <1>9, <2>1, <3>1
  <2>3. Len(b) = 1
    BY ONLY <1>13, <2>2, FS_Singleton
  <2>4. b[1] = full[m]
    <3>1. b[1] \in Range(b)
      BY ONLY <1>13, <2>3 DEF Range
    <3> QED BY ONLY <1>9, <2>1, <3>1
  <2>5. PICK w : w = a \o b
    OBVIOUS
  <2>6. w = Append(a, full[m]) /\ full[m] \in Trade
    <3>1. full[m] \in Trade
      BY ONLY <1>1, <1>16, full \in Seq(Trade)
    <3>2. b = <<full[m]>>
      BY ONLY <1>9, <2>3, <2>4
    <3> QED BY ONLY <1>14, <2>5, <3>1, <3>2
  <2>7. w \in Seq(Trade) /\ Len(w) = n + 1 /\ \A k \in 1 .. n : w[k] = a[k]
    BY ONLY <1>1, <1>14, <2>6
  <2>8. w[n + 1] = full[m]
    BY ONLY <1>1, <1>14, <2>6
  <2>9. \A k \in 1 .. m : w[k] = full[k]
    <3>1. \A k \in 1 .. m : k \in 1 .. n \/ k = n + 1
      BY ONLY <1>1, <1>16
    <3> QED BY ONLY <1>7, <1>16, <2>7, <2>8, <3>1
  <2>10. w = full
    BY ONLY <1>1, <1>16, <2>7, <2>9, full \in Seq(Trade)
  <2> QED BY ONLY <1>10, <2>5, <2>10
<1> QED BY ONLY <1>1, <1>15, <1>16
-----------------------------------------------------------------------------
(* Fills *)

\* Consecutive fills.
LEMMA RunIs ==
    ASSUME NEW a \in Nat \ {0}, NEW n \in Nat, a <= n + 1
    PROVE  /\ Run(a, n) \in Seq(Nat) /\ Len(Run(a, n)) = n - a + 1 /\ n - a + 1 \in Nat
           /\ DOMAIN Run(a, n) = 1 .. n - a + 1
           /\ \A k \in 1 .. n - a + 1 : Run(a, n)[k] = a + k - 1
           /\ Increasing(Run(a, n)) /\ Range(Run(a, n)) = a .. n
<1>1. PICK m, r : m = n - a + 1 /\ r = [k \in 1 .. m |-> a + k - 1]
  OBVIOUS
<1>2. r = Run(a, n) /\ m \in Nat
  BY ONLY <1>1, a \in Nat \ {0}, n \in Nat, a <= n + 1 DEF Run
<1>3. r \in Seq(Nat) /\ Len(r) = m /\ DOMAIN r = 1 .. m
  <2>1. \A k \in 1 .. m : a + k - 1 \in Nat
    BY ONLY <1>2, a \in Nat \ {0}
  <2> QED BY ONLY <1>1, <1>2, <2>1
<1>4. \A k \in 1 .. m : r[k] = a + k - 1
  BY ONLY <1>1
<1>5. Increasing(r)
  BY ONLY <1>2, <1>3, <1>4, a \in Nat \ {0} DEF Increasing
<1>6. Range(r) = a .. n
  <2>1. \A x \in Range(r) : x \in a .. n
    BY ONLY <1>1, <1>2, <1>3, <1>4, a \in Nat \ {0}, n \in Nat DEF Range
  <2>2. ASSUME NEW x \in a .. n PROVE x \in Range(r)
    <3>1. PICK k : k = x - a + 1
      OBVIOUS
    <3>2. k \in 1 .. m /\ a + k - 1 = x
      BY ONLY <1>1, <3>1, a \in Nat \ {0}, n \in Nat, x \in a .. n
    <3>3. r[k] = x
      BY ONLY <1>4, <3>2
    <3> QED BY ONLY <1>3, <3>2, <3>3 DEF Range
  <2> QED BY ONLY <2>1, <2>2
<1> QED BY ONLY <1>1, <1>2, <1>3, <1>4, <1>5, <1>6

\* A mutation numbers its fills on from the last one.
LEMMA RunMore ==
    ASSUME NEW a \in Nat \ {0}, NEW n \in Nat, a <= n + 1, NEW N \in Nat, n <= N
    PROVE  Run(a, n) \o Run(n + 1, N) = Run(a, N)
<1>1. PICK r, l : r = Run(a, n) /\ l = n - a + 1
  OBVIOUS
<1>2. r \in Seq(Nat) /\ Len(r) = l /\ l \in Nat /\ \A k \in 1 .. l : r[k] = a + k - 1
  BY ONLY <1>1, a \in Nat \ {0}, n \in Nat, a <= n + 1, RunIs
<1>3. PICK q, L : q = Run(a, N) /\ L = N - a + 1
  OBVIOUS
<1>4. q \in Seq(Nat) /\ Len(q) = L /\ L \in Nat /\ \A k \in 1 .. L : q[k] = a + k - 1
  <2>1. a <= N + 1
    BY ONLY a \in Nat \ {0}, n \in Nat, N \in Nat, n <= N, a <= n + 1
  <2> QED BY ONLY <1>3, <2>1, a \in Nat \ {0}, N \in Nat, RunIs
<1>5. PICK m, more, b : m = N - n /\ b = n + 1 /\ more = Run(b, N)
  OBVIOUS
<1>6. more \in Seq(Nat) /\ Len(more) = m /\ m \in Nat /\ \A k \in 1 .. m : more[k] = n + k
  <2>1. b \in Nat \ {0} /\ b <= N + 1 /\ N - b + 1 = m
    BY ONLY <1>5, n \in Nat, N \in Nat, n <= N
  <2>2. more \in Seq(Nat) /\ Len(more) = m /\ m \in Nat /\ \A k \in 1 .. m : more[k] = b + k - 1
    <3>1. /\ Run(b, N) \in Seq(Nat) /\ Len(Run(b, N)) = N - b + 1 /\ N - b + 1 \in Nat
          /\ \A k \in 1 .. N - b + 1 : Run(b, N)[k] = b + k - 1
      BY ONLY <2>1, N \in Nat, RunIs
    <3> QED BY ONLY <1>5, <2>1, <3>1
  <2>3. \A k \in 1 .. m : b + k - 1 = n + k
    BY ONLY <1>5, n \in Nat
  <2> QED BY ONLY <2>2, <2>3
<1>7. L = l + m
  BY ONLY <1>1, <1>3, <1>5, a \in Nat \ {0}, n \in Nat, N \in Nat
<1>8. PICK w : w = r \o more
  OBVIOUS
<1>9. r \in Seq(Nat) /\ more \in Seq(Nat)
  BY ONLY <1>2, <1>6
<1>10. w \in Seq(Nat) /\ Len(w) = L
  <2>1. w \in Seq(Nat)
    BY ONLY <1>8, <1>9
  <2>2. Len(w) = Len(r) + Len(more)
    BY ONLY <1>8, <1>9
  <2> QED BY ONLY <1>2, <1>6, <1>7, <2>1, <2>2
<1>11. \A k \in 1 .. L : w[k] = q[k]
  <2> SUFFICES ASSUME NEW k \in 1 .. L PROVE w[k] = q[k]
    OBVIOUS
  <2>1. CASE k <= l
    <3>1. k \in 1 .. l
      BY ONLY <1>2, <1>4, <2>1, k \in 1 .. L
    <3>2. k \in 1 .. Len(r)
      BY ONLY <1>2, <3>1
    <3>3. w[k] = r[k]
      BY ONLY <1>8, <1>9, <3>2
    <3> QED BY ONLY <1>2, <1>4, <3>1, <3>3, k \in 1 .. L
  <2>2. CASE k > l
    <3>1. PICK j : j = k - l
      OBVIOUS
    <3>2. j \in 1 .. m /\ k = l + j
      BY ONLY <1>2, <1>4, <1>6, <1>7, <2>2, <3>1, k \in 1 .. L
    <3>3. k = Len(r) + j /\ j \in 1 .. Len(more)
      BY ONLY <1>2, <1>6, <3>2
    <3>4. w[k] = more[j]
      BY ONLY <1>8, <1>9, <3>3
    <3>5. n + j = a + k - 1
      BY ONLY <1>1, <3>2, a \in Nat \ {0}, n \in Nat
    <3> QED BY ONLY <1>4, <1>6, <3>2, <3>4, <3>5, k \in 1 .. L
  <2> QED BY ONLY <1>2, <1>4, <2>1, <2>2, k \in 1 .. L
<1>12. w = q
  BY ONLY <1>4, <1>10, <1>11
<1> QED BY ONLY <1>1, <1>3, <1>5, <1>8, <1>12

\* The last fills of a list that ends with them.
LEMMA RecentRun ==
    ASSUME NEW a \in Nat \ {0}, NEW n \in Nat, NEW w \in Nat \ {0}, a <= Low(n, w)
    PROVE  Recent(Run(a, n), w) = Run(Low(n, w), n) /\ Low(n, w) \in Nat \ {0} /\ Low(n, w) <= n + 1
<1>1. PICK b : b = Low(n, w)
  OBVIOUS
<1>2. b \in Nat \ {0} /\ b <= n + 1 /\ a <= b /\ (n > w => b = n - w + 1) /\ (n <= w => b = 1)
  BY ONLY <1>1, n \in Nat, w \in Nat \ {0}, a <= Low(n, w) DEF Low
<1>3. PICK r, l : r = Run(a, n) /\ l = n - a + 1
  OBVIOUS
<1>4. r \in Seq(Nat) /\ Len(r) = l /\ l \in Nat /\ \A k \in 1 .. l : r[k] = a + k - 1
  <2>1. a <= n + 1
    BY ONLY <1>2, a \in Nat \ {0}, n \in Nat
  <2> QED BY ONLY <1>3, <2>1, a \in Nat \ {0}, n \in Nat, RunIs
<1>5. PICK q, m : q = Run(b, n) /\ m = n - b + 1
  OBVIOUS
<1>6. q \in Seq(Nat) /\ Len(q) = m /\ m \in Nat /\ \A k \in 1 .. m : q[k] = b + k - 1
  BY ONLY <1>2, <1>5, n \in Nat, RunIs
<1>7. PICK z, low : z = Recent(r, w) /\ low = Low(l, w)
  OBVIOUS
<1>8. /\ z \in Seq(Nat) /\ Len(z) = Smaller(w, l)
      /\ \A k \in 1 .. Len(z) : low + k - 1 \in 1 .. l /\ z[k] = r[low + k - 1]
  BY ONLY <1>4, <1>7, w \in Nat \ {0}, RecentIs
<1>9. Smaller(w, l) = m /\ low = b - a + 1
  BY ONLY <1>2, <1>3, <1>4, <1>5, <1>7, a \in Nat \ {0}, n \in Nat, w \in Nat \ {0} DEF Smaller, Low
<1>10. \A k \in 1 .. m : z[k] = q[k]
  <2> SUFFICES ASSUME NEW k \in 1 .. m PROVE z[k] = q[k]
    OBVIOUS
  <2>1. PICK i : i = low + k - 1
    OBVIOUS
  <2>2. i \in 1 .. l /\ z[k] = r[i]
    BY ONLY <1>8, <1>9, <2>1, k \in 1 .. m
  <2>3. r[i] = a + i - 1
    BY ONLY <1>4, <2>2
  <2>4. a + i - 1 = b + k - 1
    BY ONLY <1>2, <1>6, <1>9, <2>1, a \in Nat \ {0}, k \in 1 .. m
  <2> QED BY ONLY <1>6, <2>2, <2>3, <2>4, k \in 1 .. m
<1>11. z = q
  BY ONLY <1>6, <1>8, <1>9, <1>10
<1> QED BY ONLY <1>1, <1>2, <1>3, <1>5, <1>7, <1>11

\* The fills held that are neither stored nor recorded as stored.
Unseen(held, old, X) == Chosen(held, Range(held) \ (Range(old) \cup X))

\* They complete the table.
LEMMA SavedFills ==
    ASSUME NEW n \in Nat, NEW N \in Nat, n <= N, NEW a \in Nat \ {0}, a <= n + 1,
           NEW X, X \subseteq 1 .. n
    PROVE  Run(1, n) \o Unseen(Run(a, N), Run(1, n), X) = Run(1, N)
<1> SUFFICES ASSUME NEW old, old = Run(1, n), NEW held, held = Run(a, N)
             PROVE  old \o Unseen(held, old, X) = Run(1, N)
  OBVIOUS
<1>1. PICK l : l = N - a + 1
  OBVIOUS
<1>2. /\ held \in Seq(Nat) /\ Len(held) = l /\ l \in Nat /\ Increasing(held) /\ Range(held) = a .. N
      /\ DOMAIN held = 1 .. l
  <2>1. a <= N + 1
    BY ONLY n \in Nat, N \in Nat, n <= N, a \in Nat \ {0}, a <= n + 1
  <2> QED BY ONLY <1>1, <2>1, a \in Nat \ {0}, N \in Nat, held = Run(a, N), RunIs
<1>3. Range(old) = 1 .. n
  <2>1. 1 \in Nat \ {0} /\ 1 <= n + 1
    BY ONLY n \in Nat
  <2> QED BY ONLY <2>1, n \in Nat, old = Run(1, n), RunIs
<1>4. PICK S, kept : S = Range(held) \ (Range(old) \cup X) /\ kept = Chosen(held, S)
  OBVIOUS
<1>5. S = n + 1 .. N /\ S \subseteq Range(held)
  BY ONLY <1>2, <1>3, <1>4, X \subseteq 1 .. n, n \in Nat, N \in Nat, n <= N, a \in Nat \ {0}, a <= n + 1
<1>6. PICK at \in Seq(Nat) :
        /\ Increasing(at) /\ kept \in Seq(Nat) /\ Len(kept) = Len(at)
        /\ \A k \in 1 .. Len(at) : at[k] \in 1 .. Len(held) /\ kept[k] = held[at[k]] /\ held[at[k]] \in S
        /\ \A i \in 1 .. Len(held) : held[i] \in S => \E k \in 1 .. Len(at) : at[k] = i
  <2>1. kept \in Seq(Nat) /\ \E at : PlacesOf(kept, held, S, at)
    BY ONLY <1>2, <1>4, ChosenIs
  <2> QED BY ONLY <2>1 DEF PlacesOf
<1>7. PICK m : m = Len(kept) /\ m = Len(at) /\ m \in Nat
  BY ONLY <1>6
<1>8. DOMAIN kept = 1 .. m /\ DOMAIN at = 1 .. m
  BY ONLY <1>6, <1>7
<1>9. Increasing(kept)
  <2>1. \A j, k \in 1 .. m : j < k => at[j] < at[k]
    BY ONLY <1>6, <1>8 DEF Increasing
  <2>2. \A j, k \in 1 .. l : j < k => held[j] < held[k]
    BY ONLY <1>2 DEF Increasing
  <2>3. \A k \in 1 .. m : at[k] \in 1 .. l /\ kept[k] = held[at[k]]
    BY ONLY <1>2, <1>6, <1>7
  <2>4. \A j, k \in 1 .. m : j < k => kept[j] < kept[k]
    BY ONLY <2>1, <2>2, <2>3
  <2> QED BY ONLY <1>8, <2>4 DEF Increasing
<1>10. {kept[k] : k \in 1 .. m} = n + 1 .. N
  <2>1. \A k \in 1 .. m : kept[k] \in S
    BY ONLY <1>6, <1>7
  <2>2. ASSUME NEW x \in S PROVE \E k \in 1 .. m : kept[k] = x
    <3>1. PICK i \in 1 .. l : held[i] = x
      BY ONLY <1>2, <1>5, x \in S DEF Range
    <3>2. PICK k \in 1 .. m : at[k] = i
      BY ONLY <1>2, <1>6, <1>7, <3>1, x \in S
    <3> QED BY ONLY <1>6, <1>7, <3>1, <3>2
  <2> QED BY ONLY <1>5, <2>1, <2>2
<1>11. PICK more, b : b = n + 1 /\ more = Run(b, N)
  OBVIOUS
<1>12. more \in Seq(Nat) /\ Increasing(more) /\ Range(more) = n + 1 .. N
  <2>1. b \in Nat \ {0} /\ b <= N + 1
    BY ONLY <1>11, n \in Nat, N \in Nat, n <= N
  <2> QED BY ONLY <1>11, <2>1, N \in Nat, RunIs
<1>13. {more[k] : k \in 1 .. Len(more)} = n + 1 .. N
  <2>1. DOMAIN more = 1 .. Len(more)
    BY ONLY <1>12
  <2> QED BY ONLY <1>12, <2>1 DEF Range
<1>14. kept = more
  <2>1. {kept[k] : k \in 1 .. Len(kept)} = n + 1 .. N /\ kept \in Seq(Nat)
    BY ONLY <1>6, <1>7, <1>10
  <2> QED BY ONLY <1>9, <1>12, <1>13, <2>1, SameList
<1>15. PICK one : one = 1
  OBVIOUS
<1>16. Run(one, n) \o Run(n + 1, N) = Run(one, N)
  <2>1. one \in Nat \ {0} /\ one <= n + 1
    BY ONLY <1>15, n \in Nat
  <2> QED BY ONLY <2>1, n \in Nat, N \in Nat, n <= N, RunMore
<1>17. Unseen(held, old, X) = kept
  BY ONLY <1>4 DEF Unseen
<1>18. more = Run(n + 1, N)
  BY ONLY <1>11
<1>19. Run(1, n) \o more = Run(1, N)
  BY ONLY <1>15, <1>16, <1>18
<1> QED BY ONLY <1>14, <1>17, <1>19, old = Run(1, n)

-----------------------------------------------------------------------------
(* Mutations *)

\* The fields of a session value.
LEMMA ValueFields ==
    ASSUME NEW x \in SessionValue
    PROVE  /\ x.revision \in Nat /\ x.opened \in Nat /\ x.closedTotal \in Nat /\ x.fillsTotal \in Nat
           /\ x.trades \in Seq(Trade) /\ x.fills \in Seq(Nat)
BY DEF SessionValue

\* Fills are appended and counted, and nothing else changes.
LEMMA Filling ==
    ASSUME NEW x \in SessionValue, NEW n \in Nat, NEW a \in Nat \ {0}, a <= x.fillsTotal + 1,
           x.fills = Run(a, x.fillsTotal), NEW y, y = Filled(x, n)
    PROVE  /\ y \in SessionValue /\ y.revision = x.revision /\ y.opened = x.opened
           /\ y.closedTotal = x.closedTotal /\ y.trades = x.trades
           /\ y.fillsTotal = x.fillsTotal + n /\ y.fills = Run(a, y.fillsTotal)
<1>1. PICK F, N : F = x.fillsTotal /\ N = F + n
  OBVIOUS
<1>2. F \in Nat /\ N \in Nat /\ F <= N
  BY ONLY <1>1, x \in SessionValue, n \in Nat, ValueFields
<1>3. PICK more : more = [k \in 1 .. n |-> F + k]
  OBVIOUS
<1>4. more = Run(F + 1, N)
  <2>1. N - (F + 1) + 1 = n /\ \A k \in 1 .. n : F + 1 + k - 1 = F + k
    BY ONLY <1>1, <1>2, n \in Nat
  <2> QED BY ONLY <1>3, <2>1 DEF Run
<1>5. Run(a, F) \o more = Run(a, N)
  BY ONLY <1>1, <1>2, <1>4, a \in Nat \ {0}, a <= x.fillsTotal + 1, RunMore
<1>6. y = [x EXCEPT !.fillsTotal = N, !.fills = Run(a, N)]
  BY ONLY <1>1, <1>3, <1>5, y = Filled(x, n), x.fills = Run(a, x.fillsTotal), x \in SessionValue
     DEF Filled, SessionValue
<1>7. Run(a, N) \in Seq(Nat)
  <2>1. a <= N + 1
    BY ONLY <1>1, <1>2, a \in Nat \ {0}, a <= x.fillsTotal + 1
  <2> QED BY ONLY <1>2, <2>1, a \in Nat \ {0}, RunIs
<1>8. /\ y \in SessionValue /\ y.revision = x.revision /\ y.opened = x.opened
      /\ y.closedTotal = x.closedTotal /\ y.trades = x.trades
      /\ y.fillsTotal = N /\ y.fills = Run(a, N)
  BY ONLY <1>2, <1>6, <1>7, x \in SessionValue DEF SessionValue
<1> QED BY ONLY <1>1, <1>8

\* The scalars of two values agree one by one.
LEMMA SameScalars ==
    ASSUME NEW x, NEW y
    PROVE  Scalars(x) = Scalars(y) <=>
             /\ x.revision = y.revision /\ x.opened = y.opened
             /\ x.closedTotal = y.closedTotal /\ x.fillsTotal = y.fillsTotal
BY DEF Scalars

\* The windows only ever move on, and they move no faster than what they show.
LEMMA WindowsMove ==
    ASSUME NEW w \in Nat \ {0}, NEW n \in Nat, NEW m \in Nat
    PROVE  /\ Smaller(w, n + m) <= Smaller(w, n) + m
           /\ Low(n, w) \in Nat \ {0} /\ Low(n, w) <= n + 1 /\ Low(n, w) <= Low(n + m, w)
           /\ 1 <= Low(n, w)
BY DEF Smaller, Low

\* A change made alike to the complete history d and to its working set s, and
\* the fills it leaves.
LEMMA Reflecting ==
    ASSUME NEW d, Complete(d), NEW s \in SessionValue, Exact(s, d),
           NEW d1 \in SessionValue, NEW s1 \in SessionValue, NEW n \in Nat, NEW c \in Nat,
           Scalars(s1) = Scalars(d1), d1.revision = d.revision,
           d1.opened \in {d.opened, d.opened + 1}, d1.opened <= MaxTrades,
           d1.fillsTotal = d.fillsTotal, d1.fills = d.fills, s1.fills = s.fills,
           Part(s1.trades, d1.trades), Len(d1.trades) = d1.opened,
           \A k \in 1 .. d1.opened : d1.trades[k].id = k,
           d1.closedTotal = ClosedOf(d1.trades),
           ClosedOf(d1.trades) = ClosedOf(d.trades) + c,
           ClosedOf(s1.trades) = ClosedOf(s.trades) + c,
           \A t \in Range(d1.trades) : t \in Range(d.trades) \/ t \in Range(s1.trades),
           NEW full, full = Filled(d1, n), NEW s2, s2 = Filled(s1, n)
    PROVE  Complete(full) /\ Grown(full, d) /\ Reflects(s2, full, d) /\ s2 \in SessionValue
<1>1. PICK F, N, a : F = d.fillsTotal /\ N = F + n /\ a = Low(F, FillWindow)
  OBVIOUS
<1>2. d \in SessionValue /\ F \in Nat /\ d.opened \in Nat /\ d.fills = Run(1, F)
      /\ d.closedTotal = ClosedOf(d.trades) /\ ClosedOf(d.trades) \in Nat
  <2>1. d \in SessionValue /\ d.fills = Run(1, F) /\ d.closedTotal = ClosedOf(d.trades)
    BY ONLY <1>1, Complete(d) DEF Complete, ClosedOf
  <2> QED BY ONLY <1>1, <2>1, ValueFields
<1>3. /\ Window \in Nat \ {0} /\ a \in Nat \ {0} /\ a <= F + 1 /\ a <= Low(N, FillWindow)
      /\ Smaller(Window, ClosedOf(d.trades) + c) <= Smaller(Window, ClosedOf(d.trades)) + c
      /\ N \in Nat /\ F <= N
  <2>1. Window \in Nat \ {0} /\ FillWindow \in Nat \ {0}
    BY StoreAssumption
  <2>2. a \in Nat \ {0} /\ a <= F + 1 /\ a <= Low(N, FillWindow)
    BY ONLY <1>1, <1>2, <2>1, n \in Nat, WindowsMove
  <2>3. Smaller(Window, ClosedOf(d.trades) + c) <= Smaller(Window, ClosedOf(d.trades)) + c
    BY ONLY <1>2, <2>1, c \in Nat, WindowsMove
  <2> QED BY ONLY <1>1, <1>2, <2>1, <2>2, <2>3, n \in Nat
<1>4. /\ s1.fills = Run(a, F) /\ ClosedOf(s.trades) = Smaller(Window, ClosedOf(d.trades))
      /\ s1.fillsTotal = F
  BY ONLY <1>1, Exact(s, d), s1.fills = s.fills, Scalars(s1) = Scalars(d1), SameScalars,
          d1.fillsTotal = d.fillsTotal DEF Exact
<1>5. /\ s2 \in SessionValue /\ s2.revision = s1.revision /\ s2.opened = s1.opened
      /\ s2.closedTotal = s1.closedTotal /\ s2.trades = s1.trades
      /\ s2.fillsTotal = N /\ s2.fills = Run(a, N)
  <2>1. a <= s1.fillsTotal + 1 /\ s1.fills = Run(a, s1.fillsTotal)
    BY ONLY <1>3, <1>4
  <2>2. /\ s2 \in SessionValue /\ s2.revision = s1.revision /\ s2.opened = s1.opened
        /\ s2.closedTotal = s1.closedTotal /\ s2.trades = s1.trades
        /\ s2.fillsTotal = s1.fillsTotal + n /\ s2.fills = Run(a, s2.fillsTotal)
    BY ONLY <1>3, <2>1, s1 \in SessionValue, n \in Nat, s2 = Filled(s1, n), Filling
  <2> QED BY ONLY <1>1, <1>4, <2>2
<1>6. /\ full \in SessionValue /\ full.revision = d1.revision /\ full.opened = d1.opened
      /\ full.closedTotal = d1.closedTotal /\ full.trades = d1.trades
      /\ full.fillsTotal = N /\ full.fills = Run(1, N)
  <2>1. PICK one : one = 1
    OBVIOUS
  <2>2. one \in Nat \ {0} /\ one <= d1.fillsTotal + 1 /\ d1.fills = Run(one, d1.fillsTotal)
    BY ONLY <1>1, <1>2, <2>1, d1.fillsTotal = d.fillsTotal, d1.fills = d.fills
  <2>3. /\ full \in SessionValue /\ full.revision = d1.revision /\ full.opened = d1.opened
        /\ full.closedTotal = d1.closedTotal /\ full.trades = d1.trades
        /\ full.fillsTotal = d1.fillsTotal + n /\ full.fills = Run(one, full.fillsTotal)
    BY ONLY <2>2, d1 \in SessionValue, n \in Nat, full = Filled(d1, n), Filling
  <2> QED BY ONLY <1>1, <2>1, <2>3, d1.fillsTotal = d.fillsTotal
<1>7. Complete(full)
  BY ONLY <1>6, d1.opened <= MaxTrades, Len(d1.trades) = d1.opened,
          \A k \in 1 .. d1.opened : d1.trades[k].id = k, d1.closedTotal = ClosedOf(d1.trades)
     DEF Complete, ClosedOf
<1>8. Grown(full, d)
  BY ONLY <1>1, <1>3, <1>6, d1.revision = d.revision, d1.opened \in {d.opened, d.opened + 1} DEF Grown
<1>9. Wide(s2, full)
  <2>1. Scalars(s2) = Scalars(full)
    BY ONLY <1>5, <1>6, Scalars(s1) = Scalars(d1), SameScalars
  <2>2. Part(s2.trades, full.trades)
    BY ONLY <1>5, <1>6, Part(s1.trades, d1.trades)
  <2>3. Smaller(Window, ClosedOf(full.trades)) <= ClosedOf(s2.trades)
    BY ONLY <1>3, <1>4, <1>5, <1>6, ClosedOf(d1.trades) = ClosedOf(d.trades) + c,
            ClosedOf(s1.trades) = ClosedOf(s.trades) + c
  <2>4. a \in Nat \ {0} /\ a <= Low(full.fillsTotal, FillWindow) /\ s2.fills = Run(a, full.fillsTotal)
    BY ONLY <1>3, <1>5, <1>6
  <2> QED BY ONLY <2>1, <2>2, <2>3, <2>4 DEF Wide
<1>10. Reflects(s2, full, d)
  <2>1. \A t \in Range(full.trades) : t \in Range(d.trades) \/ t \in Range(s2.trades)
    BY ONLY <1>5, <1>6, \A t \in Range(d1.trades) : t \in Range(d.trades) \/ t \in Range(s1.trades)
  <2>2. a \in Nat \ {0} /\ a <= d.fillsTotal + 1 /\ s2.fills = Run(a, full.fillsTotal)
    BY ONLY <1>1, <1>3, <1>5, <1>6
  <2> QED BY ONLY <1>9, <2>1, <2>2 DEF Reflects
<1> QED BY ONLY <1>5, <1>7, <1>8, <1>10
\* A mutation of the working set is that mutation of the complete history.
Mirrored(s2, d) ==
    /\ s2 \in SessionValue
    /\ \E full \in Mutations(d) : Complete(full) /\ Grown(full, d) /\ Reflects(s2, full, d)

\* What the working set and the complete history have in common.
LEMMA ExactIs ==
    ASSUME NEW d, Complete(d), NEW s \in SessionValue, Exact(s, d)
    PROVE  /\ d \in SessionValue /\ s.revision = d.revision /\ s.opened = d.opened
           /\ s.closedTotal = d.closedTotal /\ s.fillsTotal = d.fillsTotal
           /\ d.trades \in Seq(Trade) /\ Len(d.trades) = d.opened /\ Distinct(d.trades)
           /\ \A k \in 1 .. Len(d.trades) : d.trades[k].id = k
           /\ d.closedTotal = ClosedOf(d.trades) /\ Part(s.trades, d.trades)
           /\ OpenIds(s) = StatusIds(d.trades, "open") /\ OpenIds(d) = OpenIds(s)
           /\ d.revision \in Nat /\ d.opened \in Nat /\ d.opened <= MaxTrades
           /\ s.trades \in Seq(Trade) /\ Range(s.trades) \subseteq Range(d.trades)
<1>1. /\ d \in SessionValue /\ Len(d.trades) = d.opened /\ \A k \in 1 .. d.opened : d.trades[k].id = k
      /\ d.closedTotal = ClosedOf(d.trades) /\ d.opened <= MaxTrades
  BY ONLY Complete(d) DEF Complete, ClosedOf
<1>2. d.trades \in Seq(Trade) /\ d.revision \in Nat /\ d.opened \in Nat
  BY ONLY <1>1, ValueFields
<1>3. Distinct(d.trades)
  <2>1. DOMAIN d.trades = 1 .. Len(d.trades)
    BY ONLY <1>2
  <2> QED BY ONLY <1>1, <2>1 DEF Distinct
<1>4. Scalars(s) = Scalars(d) /\ Part(s.trades, d.trades)
  BY ONLY Exact(s, d) DEF Exact
<1>5. /\ s.revision = d.revision /\ s.opened = d.opened
      /\ s.closedTotal = d.closedTotal /\ s.fillsTotal = d.fillsTotal
  BY ONLY <1>4, SameScalars
<1>6. s.trades \in Seq(Trade) /\ Distinct(s.trades) /\ Range(s.trades) \subseteq Range(d.trades)
  BY ONLY <1>4 DEF Part
<1>7. OpenIds(s) = StatusIds(s.trades, "open") /\ OpenIds(d) = StatusIds(d.trades, "open")
  <2>1. IdsOf(WithStatus(s.trades, "open")) = StatusIds(s.trades, "open")
    BY ONLY <1>6, StatusTrades
  <2>2. IdsOf(WithStatus(d.trades, "open")) = StatusIds(d.trades, "open")
    BY ONLY <1>2, <1>3, StatusTrades
  <2> QED BY ONLY <2>1, <2>2 DEF OpenIds
<1>8. StatusIds(s.trades, "open") = StatusIds(d.trades, "open")
  BY ONLY <1>2, <1>3, <1>4, PartIs
<1> QED BY ONLY <1>1, <1>2, <1>3, <1>4, <1>5, <1>6, <1>7, <1>8

\* An order is entered.
LEMMA OrderKeeps ==
    ASSUME NEW d, Complete(d), NEW s \in SessionValue, Exact(s, d), s.opened < MaxTrades
    PROVE  Mirrored(Opened(s), d)
<1>1. PICK n, rev, x : n = d.opened /\ rev = d.revision
                       /\ x = [id |-> n + 1, status |-> "open", stamp |-> rev + 1]
  OBVIOUS
<1>2. /\ d \in SessionValue /\ s.revision = rev /\ s.opened = n
      /\ s.closedTotal = d.closedTotal /\ s.fillsTotal = d.fillsTotal
      /\ d.trades \in Seq(Trade) /\ Len(d.trades) = n
      /\ \A k \in 1 .. Len(d.trades) : d.trades[k].id = k
      /\ d.closedTotal = ClosedOf(d.trades) /\ Part(s.trades, d.trades)
      /\ rev \in Nat /\ n \in Nat /\ s.trades \in Seq(Trade)
  BY ONLY <1>1, Complete(d), s \in SessionValue, Exact(s, d), ExactIs
<1>3. x \in Trade /\ x.id = Len(d.trades) + 1 /\ x.status = "open"
  BY ONLY <1>1, <1>2 DEF Trade
<1>4. PICK T2, u2 : T2 = Append(d.trades, x) /\ u2 = Append(s.trades, x)
  OBVIOUS
<1>5. /\ Part(u2, T2) /\ T2 \in Seq(Trade) /\ Len(T2) = n + 1
      /\ \A k \in 1 .. n + 1 : T2[k].id = k
      /\ \A t \in Range(T2) : t \in Range(d.trades) \/ t \in Range(u2)
      /\ ClosedOf(T2) = ClosedOf(d.trades) /\ ClosedOf(u2) = ClosedOf(s.trades)
  <2>1. /\ Part(u2, T2) /\ T2 \in Seq(Trade) /\ Len(T2) = Len(d.trades) + 1
        /\ \A k \in 1 .. Len(T2) : T2[k].id = k
        /\ \A t \in Range(T2) : t \in Range(d.trades) \/ t \in Range(u2)
        /\ ClosedOf(T2) = ClosedOf(d.trades) /\ ClosedOf(u2) = ClosedOf(s.trades)
    <3>1. PICK T, u : T = d.trades /\ u = s.trades
      OBVIOUS
    <3>2. T \in Seq(Trade) /\ (\A k \in 1 .. Len(T) : T[k].id = k) /\ Part(u, T)
      BY ONLY <1>2, <3>1
    <3>3. x \in Trade /\ x.id = Len(T) + 1 /\ x.status = "open" /\ Entered(T2, u2, T, u, x)
      BY ONLY <1>3, <1>4, <3>1 DEF Entered
    <3>4. /\ Part(u2, T2) /\ T2 \in Seq(Trade) /\ Len(T2) = Len(T) + 1
          /\ \A k \in 1 .. Len(T2) : T2[k].id = k
          /\ \A t \in Range(T2) : t \in Range(T) \/ t \in Range(u2)
          /\ ClosedOf(T2) = ClosedOf(T) /\ ClosedOf(u2) = ClosedOf(u)
      BY ONLY <3>2, <3>3, AppendedTrade
    <3> QED BY ONLY <3>1, <3>4
  <2> QED BY ONLY <1>2, <2>1
<1>6. u2 \in Seq(Trade)
  BY ONLY <1>5 DEF Part
<1>7. PICK d1, s1 : /\ d1 = [d EXCEPT !.opened = n + 1, !.trades = T2]
                    /\ s1 = [s EXCEPT !.opened = n + 1, !.trades = u2]
  OBVIOUS
<1>8. /\ d1 \in SessionValue /\ d1.revision = rev /\ d1.opened = n + 1 /\ d1.trades = T2
      /\ d1.closedTotal = d.closedTotal /\ d1.fillsTotal = d.fillsTotal /\ d1.fills = d.fills
  <2>1. d \in SessionValue /\ n + 1 \in Nat /\ T2 \in Seq(Trade) /\ d1 = [d EXCEPT !.opened = n + 1, !.trades = T2]
    BY ONLY <1>2, <1>5, <1>7
  <2>2. /\ d1 \in SessionValue /\ d1.revision = d.revision /\ d1.opened = n + 1 /\ d1.trades = T2
        /\ d1.closedTotal = d.closedTotal /\ d1.fillsTotal = d.fillsTotal /\ d1.fills = d.fills
    BY ONLY <2>1 DEF SessionValue
  <2> QED BY ONLY <1>1, <2>2
<1>9. /\ s1 \in SessionValue /\ s1.revision = rev /\ s1.opened = n + 1 /\ s1.trades = u2
      /\ s1.closedTotal = d.closedTotal /\ s1.fillsTotal = d.fillsTotal /\ s1.fills = s.fills
  <2>1. s \in SessionValue /\ n + 1 \in Nat /\ u2 \in Seq(Trade) /\ s1 = [s EXCEPT !.opened = n + 1, !.trades = u2]
    BY ONLY <1>2, <1>6, <1>7, s \in SessionValue
  <2>2. /\ s1 \in SessionValue /\ s1.revision = s.revision /\ s1.opened = n + 1 /\ s1.trades = u2
        /\ s1.closedTotal = s.closedTotal /\ s1.fillsTotal = s.fillsTotal /\ s1.fills = s.fills
    BY ONLY <2>1 DEF SessionValue
  <2> QED BY ONLY <1>2, <2>2
<1>10. PICK full, s2 : full = Filled(d1, 1) /\ s2 = Filled(s1, 1)
  OBVIOUS
<1>11. full = Opened(d) /\ s2 = Opened(s)
  BY ONLY <1>1, <1>2, <1>4, <1>7, <1>10 DEF Opened
<1>12. Complete(full) /\ Grown(full, d) /\ Reflects(s2, full, d) /\ s2 \in SessionValue
  <2>1. d1.opened <= MaxTrades /\ d1.opened \in {d.opened, d.opened + 1}
    BY ONLY <1>1, <1>2, <1>8, s.opened < MaxTrades, StoreAssumption
  <2>2. Scalars(s1) = Scalars(d1) /\ d1.revision = d.revision
    BY ONLY <1>1, <1>8, <1>9, SameScalars
  <2>3. PICK c : c = 0
    OBVIOUS
  <2>4. /\ c \in Nat /\ ClosedOf(d1.trades) = ClosedOf(d.trades) + c
        /\ ClosedOf(s1.trades) = ClosedOf(s.trades) + c
    <3>1. ClosedOf(d.trades) \in Nat /\ ClosedOf(s.trades) \in Nat
      BY ONLY Complete(d), s \in SessionValue, Exact(s, d), ExactIs, PartIs
    <3> QED BY ONLY <1>5, <1>8, <1>9, <2>3, <3>1
  <2>5. /\ Part(s1.trades, d1.trades) /\ Len(d1.trades) = d1.opened
        /\ \A k \in 1 .. d1.opened : d1.trades[k].id = k
        /\ d1.closedTotal = ClosedOf(d1.trades)
        /\ \A t \in Range(d1.trades) : t \in Range(d.trades) \/ t \in Range(s1.trades)
    BY ONLY <1>2, <1>5, <1>8, <1>9
  <2>6. PICK one \in Nat : one = 1
    OBVIOUS
  <2>7. d1.fillsTotal = d.fillsTotal /\ d1.fills = d.fills /\ s1.fills = s.fills
    BY ONLY <1>8, <1>9
  <2>8. d1 \in SessionValue /\ s1 \in SessionValue /\ full = Filled(d1, one) /\ s2 = Filled(s1, one)
    BY ONLY <1>8, <1>9, <1>10, <2>6
  <2> QED BY ONLY <2>1, <2>2, <2>4, <2>5, <2>6, <2>7, <2>8, Complete(d), s \in SessionValue,
                  Exact(s, d), Reflecting
<1>13. full \in Mutations(d)
  <2>1. d.opened < MaxTrades
    BY ONLY <1>1, <1>2, s.opened < MaxTrades
  <2> QED BY ONLY <1>11, <2>1 DEF Mutations
<1> QED BY ONLY <1>11, <1>12, <1>13 DEF Mirrored
\* What changes open trades of the complete history and, alike, of its working set.
LEMMA ChangeKeeps ==
    ASSUME NEW d, Complete(d), NEW s \in SessionValue, Exact(s, d),
           NEW g, Changes(g, d.trades), NEW c, c = Cardinality(Closing(d.trades, g)), NEW n \in Nat,
           NEW d1, d1 = [d EXCEPT !.closedTotal = d.closedTotal + c, !.trades = Changed(d.trades, g)],
           NEW s1, s1 = [s EXCEPT !.closedTotal = s.closedTotal + c, !.trades = Changed(s.trades, g)],
           NEW full, full = Filled(d1, n), NEW s2, s2 = Filled(s1, n)
    PROVE  Complete(full) /\ Grown(full, d) /\ Reflects(s2, full, d) /\ s2 \in SessionValue
<1>1. PICK T, u : T = d.trades /\ u = s.trades
  OBVIOUS
<1>2. /\ d \in SessionValue /\ s.revision = d.revision /\ s.opened = d.opened
      /\ s.closedTotal = d.closedTotal /\ s.fillsTotal = d.fillsTotal
      /\ T \in Seq(Trade) /\ Len(T) = d.opened /\ Distinct(T)
      /\ \A k \in 1 .. Len(T) : T[k].id = k
      /\ d.closedTotal = ClosedOf(T) /\ Part(u, T) /\ d.opened <= MaxTrades
  BY ONLY <1>1, Complete(d), s \in SessionValue, Exact(s, d), ExactIs
<1>3. PICK T2, u2 : T2 = Changed(T, g) /\ u2 = Changed(u, g)
  OBVIOUS
<1>4. /\ Part(u2, T2) /\ T2 \in Seq(Trade) /\ Len(T2) = Len(T)
      /\ \A k \in 1 .. Len(T) : T2[k].id = T[k].id
      /\ \A t \in Range(T2) : t \in Range(T) \/ t \in Range(u2)
      /\ ClosedOf(T2) = ClosedOf(T) + c /\ ClosedOf(u2) = ClosedOf(u) + c /\ c \in Nat
  <2>1. Changes(g, T) /\ c = Cardinality(Closing(T, g))
    BY ONLY <1>1, Changes(g, d.trades), c = Cardinality(Closing(d.trades, g))
  <2> QED BY ONLY <1>2, <1>3, <2>1, MappedTrades
<1>5. u2 \in Seq(Trade)
  BY ONLY <1>4 DEF Part
<1>6. d.closedTotal \in Nat
  BY ONLY <1>2, ValueFields
<1>7. /\ d1 \in SessionValue /\ d1.revision = d.revision /\ d1.opened = d.opened /\ d1.trades = T2
      /\ d1.closedTotal = d.closedTotal + c /\ d1.fillsTotal = d.fillsTotal /\ d1.fills = d.fills
  <2>1. d.closedTotal + c \in Nat /\ d1 = [d EXCEPT !.closedTotal = d.closedTotal + c, !.trades = T2]
    BY ONLY <1>1, <1>3, <1>4, <1>6,
            d1 = [d EXCEPT !.closedTotal = d.closedTotal + c, !.trades = Changed(d.trades, g)]
  <2>2. d \in SessionValue /\ T2 \in Seq(Trade)
    BY ONLY <1>2, <1>4
  <2> QED BY ONLY <2>1, <2>2 DEF SessionValue
<1>8. /\ s1 \in SessionValue /\ s1.revision = s.revision /\ s1.opened = s.opened /\ s1.trades = u2
      /\ s1.closedTotal = s.closedTotal + c /\ s1.fillsTotal = s.fillsTotal /\ s1.fills = s.fills
  <2>1. s.closedTotal + c \in Nat
    <3>1. s.closedTotal = d.closedTotal /\ c \in Nat
      BY ONLY <1>2, <1>4
    <3> QED BY ONLY <1>6, <3>1
  <2>2. s1 = [s EXCEPT !.closedTotal = s.closedTotal + c, !.trades = u2]
    BY ONLY <1>1, <1>3, s1 = [s EXCEPT !.closedTotal = s.closedTotal + c, !.trades = Changed(s.trades, g)]
  <2> QED BY ONLY <1>5, <2>1, <2>2, s \in SessionValue DEF SessionValue
<1>9. Scalars(s1) = Scalars(d1)
  BY ONLY <1>2, <1>7, <1>8, SameScalars
<1>10. /\ Part(s1.trades, d1.trades) /\ Len(d1.trades) = d1.opened
       /\ \A t \in Range(d1.trades) : t \in Range(d.trades) \/ t \in Range(s1.trades)
       /\ d1.closedTotal = ClosedOf(d1.trades) /\ d1.opened <= MaxTrades
       /\ ClosedOf(d1.trades) = ClosedOf(d.trades) + c
       /\ ClosedOf(s1.trades) = ClosedOf(s.trades) + c
  BY ONLY <1>1, <1>2, <1>4, <1>7, <1>8
<1>11. \A k \in 1 .. d1.opened : d1.trades[k].id = k
  BY ONLY <1>2, <1>4, <1>7
<1>12. d1.opened \in {d.opened, d.opened + 1} /\ d1.revision = d.revision /\ d1.fillsTotal = d.fillsTotal
       /\ d1.fills = d.fills /\ s1.fills = s.fills /\ d1 \in SessionValue /\ s1 \in SessionValue /\ c \in Nat
  BY ONLY <1>4, <1>7, <1>8
<1> QED BY ONLY <1>9, <1>10, <1>11, <1>12, Complete(d), s \in SessionValue, Exact(s, d), n \in Nat,
                full = Filled(d1, n), s2 = Filled(s1, n), Reflecting

\* Open trades close, and others move, in one request.
LEMMA AffectingKeeps ==
    ASSUME NEW d, Complete(d), NEW s \in SessionValue, Exact(s, d),
           NEW closes \in SUBSET OpenIds(s), NEW changes \in SUBSET OpenIds(s), NEW n \in {0, 1},
           NEW full, full = Affected(d, closes, changes, n), full \in Mutations(d)
    PROVE  Mirrored(Affected(s, closes, changes, n), d)
<1>1. PICK rev, T, u : rev = d.revision /\ T = d.trades /\ u = s.trades
  OBVIOUS
<1>2. /\ d \in SessionValue /\ s.revision = rev /\ rev \in Nat
      /\ s.closedTotal = d.closedTotal /\ T \in Seq(Trade) /\ Distinct(T) /\ Part(u, T)
      /\ OpenIds(s) = StatusIds(T, "open") /\ OpenIds(d) = OpenIds(s)
      /\ u \in Seq(Trade) /\ Range(u) \subseteq Range(T)
  BY ONLY <1>1, Complete(d), s \in SessionValue, Exact(s, d), ExactIs
<1>3. closes \subseteq StatusIds(T, "open") /\ changes \subseteq StatusIds(T, "open")
  BY ONLY <1>2, closes \in SUBSET OpenIds(s), changes \in SUBSET OpenIds(s)
<1>4. PICK g : g = [t \in Range(T) |->
                      IF t.id \in closes THEN [t EXCEPT !.status = "closed", !.stamp = rev + 1]
                      ELSE IF t.id \in changes THEN [t EXCEPT !.stamp = rev + 1] ELSE t]
  OBVIOUS
<1>5. \A x, y \in Range(T) : x.id = y.id => x = y
  BY ONLY <1>2, PartIs
<1>6. \A t \in Range(T) : t \in Trade
  <2>1. DOMAIN T = 1 .. Len(T)
    BY ONLY <1>2
  <2> QED BY ONLY <1>2, <2>1 DEF Range
<1>7. ASSUME NEW t \in Range(T), t.id \in closes \cup changes PROVE t.status = "open"
  <2>1. PICK x \in Range(T) : x.status = "open" /\ x.id = t.id
    BY ONLY <1>3, <1>7 DEF StatusIds
  <2> QED BY ONLY <1>5, <2>1, t \in Range(T)
<1>8. ASSUME NEW t \in Range(T)
      PROVE  /\ g[t] \in Trade /\ g[t].id = t.id /\ (t.status = "closed" => g[t] = t)
             /\ t.id \in closes => g[t].status = "closed"
             /\ t.id \notin closes => g[t].status = t.status
  <2>1. t \in Trade /\ rev + 1 \in Nat
    BY ONLY <1>2, <1>6, t \in Range(T)
  <2>2. CASE t.id \in closes
    <3>1. g[t] = [t EXCEPT !.status = "closed", !.stamp = rev + 1] /\ t.status = "open"
      BY ONLY <1>4, <1>7, <2>2, t \in Range(T)
    <3> QED BY ONLY <2>1, <2>2, <3>1 DEF Trade
  <2>3. CASE t.id \notin closes /\ t.id \in changes
    <3>1. g[t] = [t EXCEPT !.stamp = rev + 1] /\ t.status = "open"
      BY ONLY <1>4, <1>7, <2>3, t \in Range(T)
    <3> QED BY ONLY <2>1, <2>3, <3>1 DEF Trade
  <2>4. CASE t.id \notin closes /\ t.id \notin changes
    <3>1. g[t] = t
      BY ONLY <1>4, <2>4, t \in Range(T)
    <3> QED BY ONLY <2>1, <2>4, <3>1
  <2> QED BY ONLY <2>2, <2>3, <2>4
<1>9. Changes(g, T)
  BY ONLY <1>8 DEF Changes
<1>10. Closing(T, g) = closes
  <2>1. \A t \in Range(T) : t.status = "open" /\ g[t].status = "closed" => t.id \in closes
    BY ONLY <1>8
  <2>2. ASSUME NEW i \in closes PROVE i \in Closing(T, g)
    <3>1. PICK t \in Range(T) : t.status = "open" /\ t.id = i
      BY ONLY <1>3, i \in closes DEF StatusIds
    <3> QED BY ONLY <1>8, <3>1, i \in closes DEF Closing
  <2>3. \A i \in Closing(T, g) : i \in closes
    BY ONLY <2>1 DEF Closing
  <2> QED BY ONLY <2>2, <2>3
<1>11. PICK c, d1, s1 : /\ c = Cardinality(closes)
                        /\ d1 = [d EXCEPT !.closedTotal = d.closedTotal + c, !.trades = Changed(T, g)]
                        /\ s1 = [s EXCEPT !.closedTotal = s.closedTotal + c, !.trades = Changed(u, g)]
  OBVIOUS
<1>12. c \in Nat
  BY ONLY <1>2, <1>9, <1>10, <1>11, MappedTrades
<1>13. PICK m, s2 : m = c + n /\ s2 = Filled(s1, m)
  OBVIOUS
<1>14. m \in Nat
  BY ONLY <1>12, <1>13, n \in {0, 1}
<1>15. \A list, k : Range(list) \subseteq Range(T) /\ k \in DOMAIN list =>
         g[list[k]] = IF list[k].id \in closes
                        THEN [list[k] EXCEPT !.status = "closed", !.stamp = rev + 1]
                      ELSE IF list[k].id \in changes THEN [list[k] EXCEPT !.stamp = rev + 1]
                      ELSE list[k]
  BY ONLY <1>4 DEF Range
<1>16. full = Filled(d1, m)
  <2>1. Changed(T, g) = [k \in DOMAIN T |->
                           IF T[k].id \in closes THEN [T[k] EXCEPT !.status = "closed", !.stamp = rev + 1]
                           ELSE IF T[k].id \in changes THEN [T[k] EXCEPT !.stamp = rev + 1] ELSE T[k]]
    BY ONLY <1>15 DEF Changed
  <2> QED BY ONLY <1>1, <1>11, <1>13, <2>1, full = Affected(d, closes, changes, n) DEF Affected
<1>17. s2 = Affected(s, closes, changes, n)
  <2>1. Changed(u, g) = [k \in DOMAIN u |->
                           IF u[k].id \in closes THEN [u[k] EXCEPT !.status = "closed", !.stamp = rev + 1]
                           ELSE IF u[k].id \in changes THEN [u[k] EXCEPT !.stamp = rev + 1] ELSE u[k]]
    BY ONLY <1>2, <1>15 DEF Changed
  <2> QED BY ONLY <1>1, <1>2, <1>11, <1>13, <2>1 DEF Affected
<1>18. Complete(full) /\ Grown(full, d) /\ Reflects(s2, full, d) /\ s2 \in SessionValue
  <2>1. /\ d1 = [d EXCEPT !.closedTotal = d.closedTotal + c, !.trades = Changed(d.trades, g)]
        /\ s1 = [s EXCEPT !.closedTotal = s.closedTotal + c, !.trades = Changed(s.trades, g)]
        /\ c = Cardinality(Closing(d.trades, g)) /\ Changes(g, d.trades)
    BY ONLY <1>1, <1>9, <1>10, <1>11
  <2> QED BY ONLY <1>13, <1>14, <1>16, <2>1, Complete(d), s \in SessionValue, Exact(s, d), ChangeKeeps
<1> QED BY ONLY <1>17, <1>18, full \in Mutations(d) DEF Mirrored

\* Whatever a mutation does to the working set it does to the complete history.
LEMMA MutationKeeps ==
    ASSUME NEW d, Complete(d), NEW s \in SessionValue, Exact(s, d), NEW s2 \in Mutations(s)
    PROVE  Mirrored(s2, d)
<1>1. OpenIds(d) = OpenIds(s)
  BY ExactIs
<1>2. CASE s.opened < MaxTrades /\ s2 = Opened(s)
  BY <1>2, OrderKeeps
<1>3. CASE \E closes \in SUBSET OpenIds(s), changes \in SUBSET OpenIds(s) :
              s2 = Affected(s, closes, changes, 0)
  <2>1. PICK closes \in SUBSET OpenIds(s), changes \in SUBSET OpenIds(s) :
          s2 = Affected(s, closes, changes, 0)
    BY ONLY <1>3
  <2>2. PICK full, n : full = Affected(d, closes, changes, n) /\ n = 0
    OBVIOUS
  <2>3. full \in Mutations(d)
    BY ONLY <1>1, <2>2, closes \in SUBSET OpenIds(s), changes \in SUBSET OpenIds(s) DEF Mutations
  <2>4. s2 = Affected(s, closes, changes, n) /\ n \in {0, 1}
    BY ONLY <2>1, <2>2
  <2>5. Mirrored(Affected(s, closes, changes, n), d)
    BY ONLY Complete(d), s \in SessionValue, Exact(s, d), <2>2, <2>3, <2>4,
            closes \in SUBSET OpenIds(s), changes \in SUBSET OpenIds(s), AffectingKeeps
  <2> QED BY ONLY <2>4, <2>5
<1>4. CASE \E id \in OpenIds(s) : s2 = Affected(s, {}, {id}, 1)
  <2>1. PICK id \in OpenIds(s) : s2 = Affected(s, {}, {id}, 1)
    BY ONLY <1>4
  <2>2. PICK full, closes, changes, n :
          /\ full = Affected(d, closes, changes, n) /\ closes = {} /\ changes = {id} /\ n = 1
    OBVIOUS
  <2>3. full \in Mutations(d)
    BY ONLY <1>1, <2>2, id \in OpenIds(s) DEF Mutations
  <2>4. s2 = Affected(s, closes, changes, n) /\ n \in {0, 1}
    BY ONLY <2>1, <2>2
  <2>5. closes \in SUBSET OpenIds(s) /\ changes \in SUBSET OpenIds(s)
    BY ONLY <2>2, id \in OpenIds(s)
  <2>6. Mirrored(Affected(s, closes, changes, n), d)
    BY ONLY Complete(d), s \in SessionValue, Exact(s, d), <2>2, <2>3, <2>4, <2>5, AffectingKeeps
  <2> QED BY ONLY <2>4, <2>6
<1> QED BY ONLY s2 \in Mutations(s), <1>2, <1>3, <1>4 DEF Mutations
-----------------------------------------------------------------------------
(* The invariant *)

\* Requests that hold no copy, and requests that no process serves.
Bare == {"idle", "failed", "lookup", "row", "deleted"}
Resting == {"idle", "failed"}

\* What a copy at the stored revision holds after each step of its request.
AtStep(step, s, record, d) ==
    /\ step = "open" => Scalars(s) = Scalars(d) /\ s.trades = << >>
    /\ step = "closed" => Scalars(s) = Scalars(d) /\ s.trades = WithStatus(d.trades, "open")
    /\ step = "fills" =>
         /\ Scalars(s) = Scalars(d)
         /\ s.trades = WithStatus(d.trades, "open") \o Recent(WithStatus(d.trades, "closed"), Window)
    /\ step \in {"touch", "put", "loaded", "tracked"} => Exact(s, d)
    /\ step = "saving" => Ready(s, record, d)
    /\ step = "saved" => Wide(s, d)

\* A copy never runs ahead of the stored session, and is right about its own revision.
CopyIs(step, s, record, d) ==
    /\ s \in SessionValue
    /\ step = "saving" => s.revision < MaxRevision
    /\ d # None =>
         /\ s.revision <= d.revision
         /\ s.revision = d.revision => AtStep(step, s, record, d)

RequestIs(step, place, s, record, d) ==
    /\ (s = None) = (step \in Bare)
    /\ s # None => CopyIs(step, s, record, d)
    /\ step \notin Resting => place \in Processes

CacheIs(s, d) ==
    s # None =>
      /\ s \in SessionValue
      /\ d # None => s.revision <= d.revision /\ (s.revision = d.revision => Exact(s, d))

RecordIs(record, d) ==
    record # None =>
      /\ record \in Records
      /\ d # None => record.revision <= d.revision /\ (record.revision = d.revision => Honest(record, d))

Maps(f, S) == f = [x \in S |-> f[x]]

MemoryShape == Maps(cache, Processes) /\ Maps(tracker, Processes)
LocalShape ==
    /\ Maps(pc, Requests) /\ Maps(home, Requests) /\ Maps(copy, Requests)
    /\ Maps(tracked, Requests)

\* The tables hold the complete history under the row, and nothing without it.
TablesAreComplete ==
    /\ row = None => table = << >> /\ ledger = << >>
    /\ row # None => row \in Rows /\ row.revision \in 1 .. MaxRevision /\ Complete(Stored)

Inv ==
    /\ MemoryShape /\ LocalShape /\ TablesAreComplete
    /\ \A p \in Processes : CacheIs(cache[p], Stored) /\ RecordIs(tracker[p], Stored)
    /\ \A r \in Requests : RequestIs(pc[r], home[r], copy[r], tracked[r], Stored)
-----------------------------------------------------------------------------
(* What the steps of a request do to its copy *)

\* A mutation leaves a session value, at the same revision.
LEMMA MutationsTyped ==
    ASSUME NEW x \in SessionValue, NEW y \in Mutations(x)
    PROVE  y \in SessionValue /\ y.revision = x.revision
<1>1. /\ x.revision \in Nat /\ x.opened \in Nat /\ x.closedTotal \in Nat /\ x.fillsTotal \in Nat
      /\ x.trades \in Seq(Trade) /\ x.fills \in Seq(Nat)
  BY ONLY x \in SessionValue, ValueFields
<1>2. ASSUME NEW z \in SessionValue, z.revision = x.revision, NEW n \in Nat
      PROVE  Filled(z, n) \in SessionValue /\ Filled(z, n).revision = x.revision
  <2>1. PICK F, fills, more : F = z.fillsTotal /\ more = [k \in 1 .. n |-> F + k] /\ fills = z.fills \o more
    OBVIOUS
  <2>2. F \in Nat /\ z.fills \in Seq(Nat)
    BY ONLY <2>1, z \in SessionValue, ValueFields
  <2>3. more \in Seq(Nat)
    <3>1. \A k \in 1 .. n : F + k \in Nat
      BY ONLY <2>2
    <3> QED BY ONLY <2>1, <3>1, n \in Nat
  <2>4. fills \in Seq(Nat) /\ F + n \in Nat
    BY ONLY <2>1, <2>2, <2>3, n \in Nat
  <2>5. Filled(z, n) = [z EXCEPT !.fillsTotal = F + n, !.fills = fills]
    BY ONLY <2>1, z \in SessionValue DEF Filled, SessionValue
  <2> QED BY ONLY <1>2, <2>4, <2>5 DEF SessionValue
<1>3. PICK m : m = Len(x.trades) /\ m \in Nat /\ DOMAIN x.trades = 1 .. m
  <2>1. Len(x.trades) \in Nat /\ DOMAIN x.trades = 1 .. Len(x.trades)
    BY ONLY <1>1
  <2> QED BY ONLY <2>1
<1>4. \A k \in 1 .. m : x.trades[k] \in Trade
  BY ONLY <1>1, <1>3
<1>5. x.revision + 1 \in Nat /\ x.closedTotal \in Nat
  <2>1. x.revision \in Nat /\ x.closedTotal \in Nat
    BY ONLY <1>1
  <2> QED BY ONLY <2>1
<1>7. CASE y = Opened(x)
  <2>1. PICK t, l : t = [id |-> x.opened + 1, status |-> "open", stamp |-> x.revision + 1]
                    /\ l = Append(x.trades, t)
    OBVIOUS
  <2>2. t \in Trade
    BY ONLY <1>1, <2>1 DEF Trade
  <2>3. l \in Seq(Trade) /\ x.opened + 1 \in Nat
    BY ONLY <1>1, <2>1, <2>2
  <2>4. PICK z : z = [x EXCEPT !.opened = x.opened + 1, !.trades = l]
    OBVIOUS
  <2>5. z \in SessionValue /\ z.revision = x.revision
    BY ONLY <2>3, <2>4, x \in SessionValue DEF SessionValue
  <2>6. y = Filled(z, 1)
    BY ONLY <1>7, <2>1, <2>4 DEF Opened
  <2>7. 1 \in Nat
    OBVIOUS
  <2> QED BY ONLY <1>2, <2>5, <2>6, <2>7
<1>8. ASSUME NEW closes \in SUBSET OpenIds(x), NEW changes, NEW n \in {0, 1},
             y = Affected(x, closes, changes, n)
      PROVE  y \in SessionValue /\ y.revision = x.revision
  <2>1. Cardinality(closes) \in Nat
    <3>1. PICK w : w = WithStatus(x.trades, "open")
      OBVIOUS
    <3>2. w \in Seq(Trade)
      BY ONLY <1>1, <3>1, ChosenIs DEF WithStatus
    <3>3. PICK k : k = Len(w) /\ k \in Nat /\ DOMAIN w = 1 .. k
      <4>1. Len(w) \in Nat /\ DOMAIN w = 1 .. Len(w)
        BY ONLY <3>2
      <4> QED BY ONLY <4>1
    <3>4. PICK f, S : f = [i \in 1 .. k |-> w[i].id] /\ S = IdsOf(w)
      OBVIOUS
    <3>5. f \in Surjection(1 .. k, S)
      BY ONLY <3>3, <3>4 DEF IdsOf, Surjection
    <3>6. IsFiniteSet(1 .. k)
      BY ONLY <3>3, FS_Interval
    <3>7. IsFiniteSet(S)
      BY ONLY <3>5, <3>6, FS_Surjection
    <3>8. closes \in SUBSET S
      BY ONLY <3>1, <3>4, closes \in SUBSET OpenIds(x) DEF OpenIds
    <3> QED BY ONLY <3>7, <3>8, FS_Subset, FS_CardinalityType
  <2>2. PICK c, l : /\ c = Cardinality(closes)
                    /\ l = [k \in DOMAIN x.trades |->
                              IF x.trades[k].id \in closes
                                THEN [x.trades[k] EXCEPT !.status = "closed", !.stamp = x.revision + 1]
                              ELSE IF x.trades[k].id \in changes
                                THEN [x.trades[k] EXCEPT !.stamp = x.revision + 1]
                              ELSE x.trades[k]]
    OBVIOUS
  <2>3. c \in Nat /\ c + n \in Nat
    <3>1. c \in Nat
      BY ONLY <2>1, <2>2
    <3> QED BY ONLY <3>1, n \in {0, 1}
  <2>4. l \in Seq(Trade)
    <3>1. \A t \in Trade : /\ [t EXCEPT !.status = "closed", !.stamp = x.revision + 1] \in Trade
                           /\ [t EXCEPT !.stamp = x.revision + 1] \in Trade
      <4>1. PICK rev \in Nat : rev = x.revision + 1
        BY ONLY <1>5
      <4> QED BY ONLY <4>1 DEF Trade
    <3>2. \A k \in 1 .. m : l[k] \in Trade
      BY ONLY <1>3, <1>4, <2>2, <3>1
    <3>3. l = [k \in 1 .. m |-> l[k]]
      BY ONLY <1>3, <2>2
    <3> QED BY ONLY <1>3, <3>2, <3>3
  <2>5. PICK z : z = [x EXCEPT !.closedTotal = x.closedTotal + c, !.trades = l]
    OBVIOUS
  <2>6. z \in SessionValue /\ z.revision = x.revision
    <3>1. x.closedTotal + c \in Nat
      BY ONLY <1>5, <2>3
    <3> QED BY ONLY <2>4, <2>5, <3>1, x \in SessionValue DEF SessionValue
  <2>7. y = Filled(z, c + n)
    BY ONLY <1>8, <2>2, <2>5 DEF Affected
  <2> QED BY ONLY <1>2, <2>3, <2>6, <2>7
<1>9. CASE \E closes \in SUBSET OpenIds(x), changes \in SUBSET OpenIds(x) :
              y = Affected(x, closes, changes, 0)
  <2>1. 0 \in {0, 1}
    OBVIOUS
  <2> QED BY ONLY <1>8, <1>9, <2>1
<1>10. CASE \E id \in OpenIds(x) : y = Affected(x, {}, {id}, 1)
  <2>1. 1 \in {0, 1} /\ {} \in SUBSET OpenIds(x)
    OBVIOUS
  <2> QED BY ONLY <1>8, <1>10, <2>1
<1> QED BY ONLY y \in Mutations(x), <1>7, <1>9, <1>10 DEF Mutations

\* _prune_working_set leaves a session value, at the same revision.
LEMMA PrunedTyped ==
    ASSUME NEW s \in SessionValue
    PROVE  /\ Pruned(s) \in SessionValue /\ Scalars(Pruned(s)) = Scalars(s)
           /\ Pruned(s).revision = s.revision
<1>1. PICK keep, v, w : /\ keep = IdsOf(WithStatus(s.trades, "open"))
                                   \cup IdsOf(Recent(WithStatus(s.trades, "closed"), Window))
                        /\ v = Chosen(s.trades, {t \in Range(s.trades) : t.id \in keep})
                        /\ w = Recent(s.fills, FillWindow)
  OBVIOUS
<1>2. s.trades \in Seq(Trade) /\ s.fills \in Seq(Nat)
  BY ONLY s \in SessionValue, ValueFields
<1>3. v \in Seq(Trade)
  BY ONLY <1>1, <1>2, ChosenIs
<1>4. w \in Seq(Nat)
  <2>1. FillWindow \in Nat \ {0}
    BY StoreAssumption
  <2> QED BY ONLY <1>1, <1>2, <2>1, RecentIs
<1>5. Pruned(s) = [s EXCEPT !.trades = v, !.fills = w]
  BY ONLY <1>1, s \in SessionValue DEF Pruned, SessionValue
<1>6. /\ Pruned(s) \in SessionValue /\ Pruned(s).revision = s.revision /\ Pruned(s).opened = s.opened
      /\ Pruned(s).closedTotal = s.closedTotal /\ Pruned(s).fillsTotal = s.fillsTotal
  BY ONLY <1>3, <1>4, <1>5, s \in SessionValue DEF SessionValue
<1> QED BY ONLY <1>6, SameScalars

\* What was saved is, once pruned, what would be loaded.
LEMMA PrunedIsExact ==
    ASSUME NEW d, Complete(d), NEW s \in SessionValue, Wide(s, d)
    PROVE  Exact(Pruned(s), d)
<1>1. /\ Scalars(s) = Scalars(d) /\ Part(s.trades, d.trades)
      /\ Smaller(Window, ClosedOf(d.trades)) <= ClosedOf(s.trades)
      /\ \E a \in Nat \ {0} : a <= Low(d.fillsTotal, FillWindow) /\ s.fills = Run(a, d.fillsTotal)
  BY ONLY Wide(s, d) DEF Wide
<1>2. PICK T, u, F : T = d.trades /\ u = s.trades /\ F = d.fillsTotal
  OBVIOUS
<1>3. T \in Seq(Trade) /\ Distinct(T) /\ F \in Nat
  <2>1. /\ d \in SessionValue /\ Len(T) = d.opened /\ \A k \in 1 .. d.opened : T[k].id = k
    BY ONLY <1>2, Complete(d) DEF Complete
  <2>2. T \in Seq(Trade) /\ F \in Nat
    BY ONLY <1>2, <2>1, ValueFields
  <2>3. DOMAIN T = 1 .. Len(T)
    BY ONLY <2>2
  <2> QED BY ONLY <2>1, <2>2, <2>3 DEF Distinct
<1>4. PICK closed, keep, v :
         /\ closed = Recent(WithStatus(u, "closed"), Window)
         /\ keep = IdsOf(WithStatus(u, "open")) \cup IdsOf(closed)
         /\ v = Chosen(u, WithIds(u, keep))
  OBVIOUS
<1>5. Part(v, T) /\ ClosedOf(v) = Smaller(Window, ClosedOf(T))
  <2>1. Part(u, T) /\ Smaller(Window, ClosedOf(T)) <= ClosedOf(u)
    BY ONLY <1>1, <1>2
  <2> QED BY ONLY <1>3, <1>4, <2>1, PrunedTrades
<1>6. Recent(s.fills, FillWindow) = Run(Low(F, FillWindow), F)
  <2>1. PICK a \in Nat \ {0} : a <= Low(F, FillWindow) /\ s.fills = Run(a, F)
    BY ONLY <1>1, <1>2
  <2>2. FillWindow \in Nat \ {0}
    BY StoreAssumption
  <2> QED BY ONLY <1>3, <2>1, <2>2, RecentRun
<1>7. Pruned(s).trades = v /\ Pruned(s).fills = Recent(s.fills, FillWindow)
  BY ONLY <1>2, <1>4, s \in SessionValue DEF Pruned, SessionValue, WithIds
<1>8. Scalars(Pruned(s)) = Scalars(d)
  BY ONLY <1>1, s \in SessionValue, PrunedTyped
<1> QED BY ONLY <1>2, <1>5, <1>6, <1>7, <1>8 DEF Exact

\* The four reads of a load, if nothing is committed meanwhile, give the session:
\* the totals of the row stand, or are counted anew to what they were.
LEMMA LoadedIsExact ==
    ASSUME NEW d, Complete(d), NEW s \in SessionValue, Scalars(s) = Scalars(d),
           s.trades = WithStatus(d.trades, "open") \o Recent(WithStatus(d.trades, "closed"), Window),
           NEW fills, fills = Recent(d.fills, FillWindow),
           NEW z \in SessionValue, z.revision = s.revision, z.opened = s.opened,
           z.trades = s.trades, z.fills = fills,
           NEW nothing, nothing = (s.trades = << >> /\ fills = << >>),
           \/ z.closedTotal = s.closedTotal /\ z.fillsTotal = s.fillsTotal /\ ~nothing
           \/ nothing /\ z.closedTotal = 0 /\ z.fillsTotal = 0
           \/ ~nothing /\ z.closedTotal = Len(WithStatus(d.trades, "closed"))
              /\ z.fillsTotal = Len(d.fills)
    PROVE  Exact(z, d)
<1>1. PICK T, F, v : T = d.trades /\ F = d.fillsTotal /\ v = s.trades
  OBVIOUS
<1>2. /\ d \in SessionValue /\ Len(T) = d.opened /\ \A k \in 1 .. d.opened : T[k].id = k
      /\ d.fills = Run(1, F) /\ d.closedTotal = ClosedOf(T)
  BY ONLY <1>1, Complete(d) DEF Complete, ClosedOf
<1>3. T \in Seq(Trade) /\ F \in Nat /\ Distinct(T)
  <2>1. T \in Seq(Trade) /\ F \in Nat
    BY ONLY <1>1, <1>2, ValueFields
  <2>2. DOMAIN T = 1 .. Len(T)
    BY ONLY <2>1
  <2> QED BY ONLY <1>2, <2>1, <2>2 DEF Distinct
<1>4. Part(v, T) /\ ClosedOf(v) = Smaller(Window, ClosedOf(T)) /\ ClosedOf(T) \in Nat
  <2>1. v = WithStatus(T, "open") \o Recent(WithStatus(T, "closed"), Window)
    BY ONLY <1>1, s.trades = WithStatus(d.trades, "open") \o Recent(WithStatus(d.trades, "closed"), Window)
  <2>2. Part(v, T) /\ ClosedOf(v) = Smaller(Window, ClosedOf(T))
    BY ONLY <1>2, <1>3, <2>1, LoadedTrades
  <2> QED BY ONLY <1>3, <2>2, PartIs
<1>5. Len(WithStatus(T, "closed")) = ClosedOf(T)
  BY ONLY <1>3, StatusTrades DEF ClosedOf
<1>6. PICK one, low : one = 1 /\ low = Low(F, FillWindow)
  OBVIOUS
<1>7. FillWindow \in Nat \ {0} /\ Window \in Nat \ {0}
  BY StoreAssumption
<1>8. /\ fills = Run(low, F) /\ low \in Nat \ {0} /\ low <= F + 1
      /\ Len(d.fills) = F
  <2>1. one \in Nat \ {0} /\ one <= low /\ one <= F + 1 /\ d.fills = Run(one, F)
    BY ONLY <1>2, <1>3, <1>6, <1>7, WindowsMove
  <2>2. Recent(Run(one, F), FillWindow) = Run(low, F) /\ low \in Nat \ {0} /\ low <= F + 1
    BY ONLY <1>3, <1>6, <1>7, <2>1, RecentRun
  <2>3. Len(Run(one, F)) = F - one + 1
    BY ONLY <1>3, <2>1, RunIs
  <2>4. F - one + 1 = F
    BY ONLY <1>3, <1>6
  <2> QED BY ONLY <2>1, <2>2, <2>3, <2>4, fills = Recent(d.fills, FillWindow)
<1>9. nothing => ClosedOf(T) = 0 /\ F = 0
  <2> SUFFICES ASSUME nothing PROVE ClosedOf(T) = 0 /\ F = 0
    OBVIOUS
  <2>1. v = << >> /\ fills = << >>
    BY ONLY <1>1, nothing, nothing = (s.trades = << >> /\ fills = << >>)
  <2>2. ClosedOf(v) = 0
    <3>1. StatusIds(v, "closed") = {}
      BY ONLY <2>1 DEF StatusIds, Range
    <3> QED BY ONLY <3>1, FS_EmptySet DEF ClosedOf
  <2>3. ClosedOf(T) = 0
    BY ONLY <1>4, <1>7, <2>2 DEF Smaller
  <2>4. F - low + 1 = 0
    <3>1. Len(Run(low, F)) = F - low + 1
      BY ONLY <1>3, <1>8, RunIs
    <3> QED BY ONLY <1>8, <2>1, <3>1
  <2>5. F = 0
    BY ONLY <1>3, <1>6, <1>7, <1>8, <2>4 DEF Low
  <2> QED BY ONLY <2>3, <2>5
<1>10. z.closedTotal = d.closedTotal /\ z.fillsTotal = d.fillsTotal
  <2>1. s.closedTotal = d.closedTotal /\ s.fillsTotal = d.fillsTotal
    BY ONLY Scalars(s) = Scalars(d), SameScalars
  <2>2. CASE z.closedTotal = s.closedTotal /\ z.fillsTotal = s.fillsTotal
    BY ONLY <2>1, <2>2
  <2>3. CASE nothing /\ z.closedTotal = 0 /\ z.fillsTotal = 0
    BY ONLY <1>1, <1>2, <1>9, <2>3
  <2>4. CASE z.closedTotal = Len(WithStatus(d.trades, "closed")) /\ z.fillsTotal = Len(d.fills)
    BY ONLY <1>1, <1>2, <1>5, <1>8, <2>4
  <2> QED BY <2>2, <2>3, <2>4
<1>11. Scalars(z) = Scalars(d)
  <2>1. z.revision = d.revision /\ z.opened = d.opened
    BY ONLY Scalars(s) = Scalars(d), z.revision = s.revision, z.opened = s.opened, SameScalars
  <2> QED BY ONLY <1>10, <2>1, SameScalars
<1>12. Part(z.trades, d.trades) /\ ClosedOf(z.trades) = Smaller(Window, ClosedOf(d.trades))
  BY ONLY <1>1, <1>4, z.trades = s.trades
<1>13. z.fills = Run(Low(d.fillsTotal, FillWindow), d.fillsTotal)
  BY ONLY <1>1, <1>6, <1>8, z.fills = fills
<1> QED BY ONLY <1>11, <1>12, <1>13 DEF Exact

\* The record of a working set names stored rows only.
LEMMA ExactIsHonest ==
    ASSUME NEW d, Complete(d), NEW s \in SessionValue, Exact(s, d),
           NEW record, record.trades = Range(s.trades), record.fills = Range(s.fills)
    PROVE  Honest(record, d)
<1>1. PICK F, low, one : F = d.fillsTotal /\ low = Low(F, FillWindow) /\ one = 1
  OBVIOUS
<1>2. F \in Nat /\ FillWindow \in Nat \ {0}
  <2>1. d \in SessionValue
    BY ONLY Complete(d) DEF Complete
  <2> QED BY <1>1, <2>1, ValueFields, StoreAssumption
<1>3. low \in Nat \ {0} /\ low <= F + 1 /\ one \in Nat \ {0} /\ one <= F + 1 /\ one <= low
  <2>1. low \in Nat \ {0} /\ low <= F + 1 /\ 1 <= low
    BY ONLY <1>1, <1>2, WindowsMove
  <2> QED BY ONLY <1>1, <1>2, <2>1
<1>4. d.fills = Run(one, F) /\ s.fills = Run(low, F)
  BY ONLY <1>1, Complete(d), Exact(s, d) DEF Complete, Exact
<1>5. Range(d.fills) = one .. F /\ Range(s.fills) = low .. F
  BY ONLY <1>2, <1>3, <1>4, RunIs
<1>6. Range(s.trades) \subseteq Range(d.trades)
  BY ONLY Exact(s, d) DEF Exact, Part
<1>7. low .. F \subseteq one .. F
  BY ONLY <1>1, <1>2, <1>3
<1> QED BY ONLY <1>5, <1>6, <1>7, record.trades = Range(s.trades), record.fills = Range(s.fills) DEF Honest

\* What a save writes turns the complete history into the changed one.
LEMMA SavedIs ==
    ASSUME NEW d, Complete(d), d.fills = ledger, NEW s \in SessionValue, NEW record,
           record # None => Honest(record, d),
           NEW full, Complete(full), Grown(full, d), Reflects(s, full, d)
    PROVE  /\ Upsert(d.trades, UnsavedTrades(s, record)) = full.trades
           /\ ledger \o UnsavedFills(s, record) = full.fills
<1>1. PICK T, T2, F, N : T = d.trades /\ T2 = full.trades /\ F = d.fillsTotal /\ N = full.fillsTotal
  OBVIOUS
<1>2. /\ d \in SessionValue /\ Len(T) = d.opened /\ \A k \in 1 .. Len(T) : T[k].id = k
      /\ d.fills = Run(1, F)
  BY ONLY <1>1, Complete(d) DEF Complete
<1>3. /\ full \in SessionValue /\ Len(T2) = full.opened /\ \A k \in 1 .. Len(T2) : T2[k].id = k
      /\ full.fills = Run(1, N)
  BY ONLY <1>1, Complete(full) DEF Complete
<1>4. T \in Seq(Trade) /\ T2 \in Seq(Trade) /\ F \in Nat /\ N \in Nat
  BY ONLY <1>1, <1>2, <1>3, ValueFields
<1>5. full.opened \in {d.opened, d.opened + 1} /\ F <= N
  BY ONLY <1>1, Grown(full, d) DEF Grown
<1>6. /\ Part(s.trades, T2)
      /\ \A t \in Range(T2) : t \in Range(T) \/ t \in Range(s.trades)
      /\ \E a \in Nat \ {0} : a <= F + 1 /\ s.fills = Run(a, N)
  BY ONLY <1>1, Reflects(s, full, d) DEF Reflects, Wide
<1>7. Upsert(T, UnsavedTrades(s, record)) = T2
  <2>1. PICK u, R : u = s.trades /\ R = IF record = None THEN {} ELSE record.trades
    OBVIOUS
  <2>2. R \subseteq Range(T)
    BY ONLY <1>1, <2>1, record # None => Honest(record, d) DEF Honest
  <2>3. u \in Seq(Trade) /\ Distinct(u) /\ Range(u) \subseteq Range(T2)
    BY ONLY <1>6, <2>1 DEF Part
  <2>4. PICK w, S : S = Range(u) \ R /\ w = Chosen(u, S)
    OBVIOUS
  <2>5. w = UnsavedTrades(s, record)
    BY ONLY <2>1, <2>4 DEF UnsavedTrades
  <2>6. w \in Seq(Trade) /\ Distinct(w) /\ Range(w) = Range(u) \cap S
    BY ONLY <2>3, <2>4, ChosenTrades
  <2>7. Range(w) \subseteq Range(T2)
    BY ONLY <2>3, <2>6
  <2>8. \A t \in Range(T2) : t \in Range(T) \/ t \in Range(w)
    BY ONLY <1>6, <2>1, <2>2, <2>4, <2>6
  <2>9. Len(T2) \in {Len(T), Len(T) + 1}
    BY ONLY <1>2, <1>3, <1>5
  <2> QED BY ONLY <1>2, <1>3, <1>4, <2>5, <2>6, <2>7, <2>8, <2>9, UpsertIs
<1>8. ledger \o UnsavedFills(s, record) = full.fills
  <2>1. PICK old, held, X : /\ old = ledger /\ held = s.fills
                            /\ X = IF record = None THEN {} ELSE record.fills
    OBVIOUS
  <2>2. PICK a \in Nat \ {0} : a <= F + 1 /\ held = Run(a, N)
    BY ONLY <1>6, <2>1
  <2>3. PICK one : one = 1
    OBVIOUS
  <2>4. old = Run(1, F)
    BY ONLY <1>2, <2>1, d.fills = ledger
  <2>5. X \subseteq 1 .. F
    <3>1. one \in Nat \ {0} /\ one <= F + 1
      BY ONLY <1>4, <2>3
    <3>2. Range(Run(one, F)) = one .. F
      BY ONLY <1>4, <3>1, RunIs
    <3> QED BY ONLY <1>2, <2>1, <2>3, <3>2, record # None => Honest(record, d) DEF Honest
  <2>6. old \o Unseen(held, old, X) = Run(1, N)
    <3>1. Run(1, F) \o Unseen(Run(a, N), Run(1, F), X) = Run(1, N)
      BY ONLY <1>4, <1>5, <2>2, <2>5, SavedFills
    <3> QED BY ONLY <2>2, <2>4, <3>1
  <2>7. UnsavedFills(s, record) = Unseen(held, old, X)
    BY ONLY <2>1 DEF UnsavedFills, Unseen
  <2> QED BY ONLY <1>3, <2>1, <2>6, <2>7
<1> QED BY ONLY <1>1, <1>7, <1>8
-----------------------------------------------------------------------------
(* Steps that store nothing *)

\* None is no value of the store: a missing row, cache entry or record is told apart.
LEMMA NoneIsApart ==
    None \notin SessionValue /\ None \notin Rows /\ None \notin Records
BY StoreAssumption

\* The stored session, as the row and the tables hold it.
LEMMA StoredIs ==
    ASSUME TablesAreComplete, NEW d, d = Stored
    PROVE  /\ row = None <=> d = None
           /\ row # None => /\ d.revision = row.revision /\ d.trades = table /\ d.fills = ledger
                            /\ Scalars(d) = row /\ Complete(d) /\ d.revision \in 1 .. MaxRevision
<1>1. CASE row = None
  BY ONLY <1>1, d = Stored DEF Stored
<1>2. CASE row # None
  <2>1. row \in Rows /\ row.revision \in 1 .. MaxRevision /\ Complete(d)
    BY ONLY <1>2, TablesAreComplete, d = Stored DEF TablesAreComplete
  <2>2. d = [revision |-> row.revision, opened |-> row.opened, closedTotal |-> row.closedTotal,
             fillsTotal |-> row.fillsTotal, trades |-> table, fills |-> ledger]
    BY ONLY <1>2, d = Stored DEF Stored
  <2>3. /\ d.revision = row.revision /\ d.trades = table /\ d.fills = ledger
        /\ d.opened = row.opened /\ d.closedTotal = row.closedTotal /\ d.fillsTotal = row.fillsTotal
    BY ONLY <2>2
  <2>4. Scalars(d) = row
    BY ONLY <2>1, <2>3 DEF Scalars, Rows
  <2>5. d # None
    BY ONLY <2>1, NoneIsApart DEF Complete
  <2> QED BY ONLY <1>2, <2>1, <2>3, <2>4, <2>5
<1> QED BY ONLY <1>1, <1>2

\* The other requests stand still.
Others(r) ==
    \A q \in Requests \ {r} :
        /\ pc'[q] = pc[q] /\ home'[q] = home[q] /\ copy'[q] = copy[q]
        /\ tracked'[q] = tracked[q]

\* While the stored session is the same, what was said of it still holds.
LEMMA SameStored ==
    ASSUME Inv, UNCHANGED <<row, table, ledger>>,
           MemoryShape', LocalShape', NEW d, d = Stored,
           \A p \in Processes : CacheIs(cache'[p], d) /\ RecordIs(tracker'[p], d),
           \A q \in Requests : RequestIs(pc'[q], home'[q], copy'[q], tracked'[q], d)
    PROVE  Inv'
<1>1. d = Stored'
  BY ONLY d = Stored, UNCHANGED <<row, table, ledger>> DEF Stored
<1>2. TablesAreComplete'
  <2>1. /\ row' = None => table' = << >> /\ ledger' = << >>
        /\ row' # None => row' \in Rows /\ row'.revision \in 1 .. MaxRevision
    BY ONLY Inv, UNCHANGED <<row, table, ledger>> DEF Inv, TablesAreComplete
  <2>2. row # None => Complete(d)
    BY ONLY Inv, d = Stored DEF Inv, TablesAreComplete
  <2>3. row' # None => Complete(Stored')
    BY ONLY <1>1, <2>2, UNCHANGED <<row, table, ledger>>
  <2> QED BY ONLY <2>1, <2>3 DEF TablesAreComplete
<1>3. \A p \in Processes : CacheIs(cache'[p], Stored') /\ RecordIs(tracker'[p], Stored')
  BY ONLY <1>1, \A p \in Processes : CacheIs(cache'[p], d) /\ RecordIs(tracker'[p], d)
<1>4. \A q \in Requests : RequestIs(pc'[q], home'[q], copy'[q], tracked'[q], Stored')
  BY ONLY <1>1, \A q \in Requests : RequestIs(pc'[q], home'[q], copy'[q], tracked'[q], d)
<1> QED BY ONLY <1>2, <1>3, <1>4, MemoryShape', LocalShape' DEF Inv

\* A step of one request that leaves memory and storage alone.
LEMMA LocalStep ==
    ASSUME Inv, NEW r \in Requests, UNCHANGED <<durable, memory>>, LocalShape', Others(r),
           NEW d, d = Stored, RequestIs(pc'[r], home'[r], copy'[r], tracked'[r], d)
    PROVE  Inv'
<1>1. \A p \in Processes : CacheIs(cache'[p], d) /\ RecordIs(tracker'[p], d)
  BY ONLY Inv, d = Stored, UNCHANGED <<durable, memory>> DEF Inv, memory
<1>2. \A q \in Requests : RequestIs(pc'[q], home'[q], copy'[q], tracked'[q], d)
  <2>1. \A q \in Requests : RequestIs(pc[q], home[q], copy[q], tracked[q], d)
    BY ONLY Inv, d = Stored DEF Inv
  <2>2. \A q \in Requests \ {r} : RequestIs(pc'[q], home'[q], copy'[q], tracked'[q], d)
    BY ONLY <2>1, Others(r) DEF Others
  <2> QED BY ONLY <2>2, RequestIs(pc'[r], home'[r], copy'[r], tracked'[r], d)
<1>3. UNCHANGED <<row, table, ledger>> /\ MemoryShape'
  BY ONLY Inv, UNCHANGED <<durable, memory>> DEF Inv, TablesAreComplete, durable, memory, MemoryShape, Maps
<1> QED BY ONLY Inv, <1>1, <1>2, <1>3, LocalShape', d = Stored, SameStored

\* Requests that end hold nothing, and the others stand still.
LEMMA Ended ==
    ASSUME Inv, NEW rs \in SUBSET Requests, NEW label \in Resting, End(rs, label), NEW d
    PROVE  /\ LocalShape'
           /\ \A q \in rs : RequestIs(pc'[q], home'[q], copy'[q], tracked'[q], d)
           /\ \A q \in Requests \ rs :
                /\ pc'[q] = pc[q] /\ home'[q] = home[q] /\ copy'[q] = copy[q]
                /\ tracked'[q] = tracked[q]
<1>1. /\ pc' = [r \in Requests |-> IF r \in rs THEN label ELSE pc[r]]
      /\ home' = [r \in Requests |-> IF r \in rs THEN None ELSE home[r]]
      /\ copy' = [r \in Requests |-> IF r \in rs THEN None ELSE copy[r]]
      /\ tracked' = [r \in Requests |-> IF r \in rs THEN None ELSE tracked[r]]
  BY ONLY End(rs, label) DEF End
<1>2. LocalShape'
  BY ONLY <1>1 DEF LocalShape, Maps
<1>3. \A q \in rs : pc'[q] = label /\ copy'[q] = None
  BY ONLY <1>1, rs \in SUBSET Requests
<1>4. label \in Bare /\ label \in Resting
  BY ONLY label \in Resting DEF Bare, Resting
<1>5. \A q \in rs : RequestIs(pc'[q], home'[q], copy'[q], tracked'[q], d)
  BY ONLY <1>3, <1>4 DEF RequestIs
<1>6. \A q \in Requests \ rs :
         /\ pc'[q] = pc[q] /\ home'[q] = home[q] /\ copy'[q] = copy[q]
         /\ tracked'[q] = tracked[q]
  BY ONLY <1>1
<1> QED BY ONLY <1>2, <1>5, <1>6

\* A request ends, and so does nothing else.
LEMMA EndStep ==
    ASSUME Inv, NEW r \in Requests, NEW label \in Resting, End({r}, label), UNCHANGED <<durable, memory>>
    PROVE  Inv'
<1>1. PICK d : d = Stored
  OBVIOUS
<1>2. {r} \in SUBSET Requests
  OBVIOUS
<1>3. /\ LocalShape'
      /\ \A q \in {r} : RequestIs(pc'[q], home'[q], copy'[q], tracked'[q], d)
      /\ Others(r)
  BY ONLY Inv, <1>2, label \in Resting, End({r}, label), Ended DEF Others
<1> QED BY ONLY Inv, <1>1, <1>3, r \in Requests, UNCHANGED <<durable, memory>>, LocalStep
-----------------------------------------------------------------------------
(* Loading *)

\* What is known of one request.
LEMMA OneRequest ==
    ASSUME Inv, NEW r \in Requests, NEW d, d = Stored
    PROVE  /\ LocalShape /\ TablesAreComplete
           /\ RequestIs(pc[r], home[r], copy[r], tracked[r], d)
           /\ \A p \in Processes : CacheIs(cache[p], d) /\ RecordIs(tracker[p], d)
BY DEF Inv

\* A copy that is not being saved may stand at any step its content suits.
LEMMA CopyMoves ==
    ASSUME NEW s \in SessionValue, NEW record, NEW d, NEW step, step # "saving",
           d # None => /\ s.revision <= d.revision
                       /\ s.revision = d.revision => AtStep(step, s, record, d)
    PROVE  CopyIs(step, s, record, d)
BY DEF CopyIs

\* A request that begins holds no copy yet (load_state_cached).
LEMMA BeginKeeps ==
    ASSUME Inv, NEW r \in Requests, NEW p \in Processes, Begin(r, p)
    PROVE  Inv'
<1>1. PICK d : d = Stored
  OBVIOUS
<1>2. LocalShape /\ RequestIs(pc[r], home[r], copy[r], tracked[r], d)
  BY ONLY Inv, r \in Requests, <1>1, OneRequest
<1>3. pc[r] \in {"idle", "failed"} /\ pc' = [pc EXCEPT ![r] = "lookup"]
      /\ home' = [home EXCEPT ![r] = p] /\ seen' = [seen EXCEPT ![r] = row.revision]
      /\ UNCHANGED <<durable, memory, copy, tracked>>
  BY ONLY Begin(r, p) DEF Begin, Goto
<1>4. LocalShape' /\ Others(r) /\ pc'[r] = "lookup" /\ home'[r] = p /\ copy'[r] = copy[r]
  BY ONLY <1>2, <1>3, r \in Requests DEF LocalShape, Maps, Others
<1>5. copy[r] = None
  BY ONLY <1>2, <1>3 DEF RequestIs, Bare
<1>6. RequestIs(pc'[r], home'[r], copy'[r], tracked'[r], d)
  BY ONLY <1>4, <1>5, p \in Processes DEF RequestIs, Bare, Resting
<1> QED BY ONLY Inv, r \in Requests, <1>1, <1>3, <1>4, <1>6, LocalStep

\* A cache entry at the revision the request looked for becomes its copy.
LEMMA CacheHitKeeps ==
    ASSUME Inv, NEW r \in Requests, CacheHit(r)
    PROVE  Inv'
<1>1. PICK d : d = Stored
  OBVIOUS
<1>2. /\ LocalShape /\ RequestIs(pc[r], home[r], copy[r], tracked[r], d)
      /\ \A p \in Processes : CacheIs(cache[p], d)
  BY ONLY Inv, r \in Requests, <1>1, OneRequest
<1>3. /\ pc[r] = "lookup" /\ cache[home[r]] # None /\ pc' = [pc EXCEPT ![r] = "touch"]
      /\ copy' = [copy EXCEPT ![r] = cache[home[r]]]
      /\ UNCHANGED <<durable, memory, home, tracked>>
  BY ONLY CacheHit(r) DEF CacheHit, CacheServes, Goto
<1>4. PICK s : s = cache[home[r]]
  OBVIOUS
<1>5. LocalShape' /\ Others(r) /\ pc'[r] = "touch" /\ home'[r] = home[r] /\ copy'[r] = s
  BY ONLY <1>2, <1>3, <1>4, r \in Requests DEF LocalShape, Maps, Others
<1>6. home[r] \in Processes
  BY ONLY <1>2, <1>3 DEF RequestIs, Resting
<1>7. /\ s \in SessionValue /\ s # None
      /\ d # None => s.revision <= d.revision /\ (s.revision = d.revision => Exact(s, d))
  BY ONLY <1>2, <1>3, <1>4, <1>6 DEF CacheIs
<1>8. CopyIs("touch", s, tracked'[r], d)
  <2>1. Exact(s, d) => AtStep("touch", s, tracked'[r], d)
    BY DEF AtStep
  <2> QED BY ONLY <1>7, <2>1, CopyMoves
<1>9. RequestIs(pc'[r], home'[r], copy'[r], tracked'[r], d)
  BY ONLY <1>5, <1>6, <1>7, <1>8 DEF RequestIs, Bare, Resting
<1> QED BY ONLY Inv, r \in Requests, <1>1, <1>3, <1>5, <1>9, LocalStep

\* Without such an entry the request reads the tables and still holds no copy.
LEMMA CacheMissKeeps ==
    ASSUME Inv, NEW r \in Requests, CacheMiss(r)
    PROVE  Inv'
<1>1. PICK d : d = Stored
  OBVIOUS
<1>2. LocalShape /\ RequestIs(pc[r], home[r], copy[r], tracked[r], d)
  BY ONLY Inv, r \in Requests, <1>1, OneRequest
<1>3. /\ pc[r] = "lookup" /\ pc' = [pc EXCEPT ![r] = "row"]
      /\ UNCHANGED <<durable, memory, home, copy, tracked>>
  BY ONLY CacheMiss(r) DEF CacheMiss, Goto
<1>4. LocalShape' /\ Others(r) /\ pc'[r] = "row" /\ home'[r] = home[r] /\ copy'[r] = copy[r]
  BY ONLY <1>2, <1>3, r \in Requests DEF LocalShape, Maps, Others
<1>5. home[r] \in Processes /\ copy[r] = None
  BY ONLY <1>2, <1>3 DEF RequestIs, Bare, Resting
<1>6. RequestIs(pc'[r], home'[r], copy'[r], tracked'[r], d)
  BY ONLY <1>4, <1>5 DEF RequestIs, Bare, Resting
<1> QED BY ONLY Inv, r \in Requests, <1>1, <1>3, <1>4, <1>6, LocalStep

\* The entry that was found may be gone by now.
LEMMA TouchKeeps ==
    ASSUME Inv, NEW r \in Requests, Touch(r)
    PROVE  Inv'
<1>1. PICK d : d = Stored
  OBVIOUS
<1>2. LocalShape /\ RequestIs(pc[r], home[r], copy[r], tracked[r], d)
  BY ONLY Inv, r \in Requests, <1>1, OneRequest
<1>3. CASE cache[home[r]] # None
  <2>1. /\ pc[r] = "touch" /\ pc' = [pc EXCEPT ![r] = "loaded"]
        /\ UNCHANGED <<durable, memory, home, copy, tracked>>
    BY ONLY Touch(r), <1>3 DEF Touch, Goto
  <2>2. LocalShape' /\ Others(r) /\ pc'[r] = "loaded" /\ home'[r] = home[r] /\ copy'[r] = copy[r]
    BY ONLY <1>2, <2>1, r \in Requests DEF LocalShape, Maps, Others
  <2>3. home[r] \in Processes /\ copy[r] # None /\ CopyIs("touch", copy[r], tracked[r], d)
    BY ONLY <1>2, <2>1 DEF RequestIs, Bare, Resting
  <2>4. CopyIs("loaded", copy[r], tracked'[r], d)
    BY ONLY <2>3 DEF CopyIs, AtStep
  <2>5. RequestIs(pc'[r], home'[r], copy'[r], tracked'[r], d)
    BY ONLY <2>2, <2>3, <2>4 DEF RequestIs, Bare, Resting
  <2> QED BY ONLY Inv, r \in Requests, <1>1, <2>1, <2>2, <2>5, LocalStep
<1>4. CASE cache[home[r]] = None
  <2>1. End({r}, "failed") /\ UNCHANGED <<durable, memory>>
    BY ONLY Touch(r), <1>4 DEF Touch
  <2>2. "failed" \in Resting
    BY DEF Resting
  <2> QED BY ONLY Inv, r \in Requests, <2>1, <2>2, EndStep
<1> QED BY <1>3, <1>4

\* The scalars of the row, and no trade yet.
LEMMA ReadRowKeeps ==
    ASSUME Inv, NEW r \in Requests, ReadRow(r)
    PROVE  Inv'
<1>1. PICK d : d = Stored
  OBVIOUS
<1>2. LocalShape /\ TablesAreComplete /\ RequestIs(pc[r], home[r], copy[r], tracked[r], d)
  BY ONLY Inv, r \in Requests, <1>1, OneRequest
<1>3. CASE row = None
  <2>1. End({r}, "idle") /\ UNCHANGED <<durable, memory>>
    BY ONLY ReadRow(r), <1>3 DEF ReadRow
  <2>2. "idle" \in Resting
    BY DEF Resting
  <2> QED BY ONLY Inv, r \in Requests, <2>1, <2>2, EndStep
<1>4. CASE row # None
  <2>1. PICK s : s = [NewSession EXCEPT !.revision = row.revision, !.opened = row.opened,
                                         !.closedTotal = row.closedTotal, !.fillsTotal = row.fillsTotal]
    OBVIOUS
  <2>2. /\ pc[r] = "row" /\ pc' = [pc EXCEPT ![r] = "open"] /\ copy' = [copy EXCEPT ![r] = s]
        /\ UNCHANGED <<durable, memory, home, tracked>>
    BY ONLY ReadRow(r), <1>4, <2>1 DEF ReadRow, Goto
  <2>3. LocalShape' /\ Others(r) /\ pc'[r] = "open" /\ home'[r] = home[r] /\ copy'[r] = s
    BY ONLY <1>2, <2>2, r \in Requests DEF LocalShape, Maps, Others
  <2>4. row \in Rows
    BY ONLY <1>2, <1>4 DEF TablesAreComplete
  <2>5. s = [revision |-> row.revision, opened |-> row.opened, closedTotal |-> row.closedTotal,
             fillsTotal |-> row.fillsTotal, trades |-> << >>, fills |-> << >>]
    BY ONLY <2>1 DEF NewSession
  <2>6. s \in SessionValue /\ s.trades = << >> /\ s # None
    <3>1. << >> \in Seq(Trade) /\ << >> \in Seq(Nat)
      OBVIOUS
    <3>2. /\ row.revision \in Nat /\ row.opened \in Nat /\ row.closedTotal \in Nat
          /\ row.fillsTotal \in Nat
      BY ONLY <2>4 DEF Rows
    <3>3. s \in SessionValue /\ s.trades = << >>
      BY ONLY <2>5, <3>1, <3>2 DEF SessionValue
    <3> QED BY ONLY <3>3, NoneIsApart
  <2>7. Scalars(s) = row /\ s.revision = row.revision
    BY ONLY <2>4, <2>5 DEF Scalars, Rows
  <2>8. d.revision = row.revision /\ Scalars(d) = row /\ d.revision \in 1 .. MaxRevision
    BY ONLY <1>1, <1>2, <1>4, StoredIs
  <2>9. MaxRevision \in Nat
    BY StoreAssumption
  <2>10. CopyIs("open", s, tracked'[r], d)
    <3>1. AtStep("open", s, tracked'[r], d)
      BY ONLY <2>6, <2>7, <2>8 DEF AtStep
    <3>2. s.revision <= d.revision
      BY ONLY <2>7, <2>8, <2>9
    <3> QED BY ONLY <2>6, <3>1, <3>2, CopyMoves
  <2>11. home[r] \in Processes
    BY ONLY <1>2, <2>2 DEF RequestIs, Resting
  <2>12. RequestIs(pc'[r], home'[r], copy'[r], tracked'[r], d)
    BY ONLY <2>3, <2>6, <2>10, <2>11 DEF RequestIs, Bare, Resting
  <2> QED BY ONLY Inv, r \in Requests, <1>1, <2>2, <2>3, <2>12, LocalStep
<1> QED BY <1>3, <1>4

\* The rows of the tables.
LEMMA TableRows ==
    ASSUME Inv
    PROVE  table \in Seq(Trade) /\ ledger \in Seq(Nat)
<1>1. TablesAreComplete
  BY DEF Inv
<1>2. CASE row = None
  <2>1. table = << >> /\ ledger = << >>
    BY ONLY <1>1, <1>2 DEF TablesAreComplete
  <2>2. << >> \in Seq(Trade) /\ << >> \in Seq(Nat)
    OBVIOUS
  <2> QED BY ONLY <2>1, <2>2
<1>3. CASE row # None
  <2>1. PICK d : d = Stored
    OBVIOUS
  <2>2. d.trades = table /\ d.fills = ledger /\ Complete(d)
    BY ONLY <1>1, <1>3, <2>1, StoredIs
  <2>3. d \in SessionValue
    BY ONLY <2>2 DEF Complete
  <2>4. d.trades \in Seq(Trade) /\ d.fills \in Seq(Nat)
    BY ONLY <2>3, ValueFields
  <2> QED BY ONLY <2>2, <2>4
<1> QED BY <1>2, <1>3

\* The open trades as the table has them when they are read.
LEMMA ReadOpenTradesKeeps ==
    ASSUME Inv, NEW r \in Requests, ReadOpenTrades(r)
    PROVE  Inv'
<1>1. PICK d, s, rows, z : /\ d = Stored /\ s = copy[r] /\ rows = WithStatus(table, "open")
                           /\ z = [s EXCEPT !.trades = @ \o rows]
  OBVIOUS
<1>2. LocalShape /\ TablesAreComplete /\ RequestIs(pc[r], home[r], s, tracked[r], d)
  BY ONLY Inv, r \in Requests, <1>1, OneRequest
<1>3. /\ pc[r] = "open" /\ pc' = [pc EXCEPT ![r] = "closed"]
      /\ copy' = [copy EXCEPT ![r].trades = @ \o rows]
      /\ UNCHANGED <<durable, memory, home, tracked>>
  BY ONLY ReadOpenTrades(r), <1>1 DEF ReadOpenTrades, ReadTrades, Goto
<1>4. LocalShape' /\ Others(r) /\ pc'[r] = "closed" /\ home'[r] = home[r] /\ copy'[r] = z
  BY ONLY <1>1, <1>2, <1>3, r \in Requests DEF LocalShape, Maps, Others
<1>5. home[r] \in Processes /\ s # None /\ CopyIs("open", s, tracked[r], d)
  BY ONLY <1>2, <1>3 DEF RequestIs, Bare, Resting
<1>6. s \in SessionValue /\ s.trades \in Seq(Trade)
  BY ONLY <1>5, ValueFields DEF CopyIs
<1>7. rows \in Seq(Trade)
  BY ONLY Inv, <1>1, TableRows, ChosenIs DEF WithStatus
<1>8. z \in SessionValue /\ z.revision = s.revision /\ Scalars(z) = Scalars(s) /\ z.trades = s.trades \o rows
  <2>1. s.trades \o rows \in Seq(Trade)
    BY ONLY <1>6, <1>7
  <2>2. z = [s EXCEPT !.trades = s.trades \o rows]
    BY ONLY <1>1
  <2>3. /\ z \in SessionValue /\ z.revision = s.revision /\ z.opened = s.opened
        /\ z.closedTotal = s.closedTotal /\ z.fillsTotal = s.fillsTotal /\ z.trades = s.trades \o rows
    BY ONLY <1>6, <2>1, <2>2 DEF SessionValue
  <2> QED BY ONLY <2>3, SameScalars
<1>9. CopyIs("closed", z, tracked'[r], d)
  <2>1. ASSUME d # None, s.revision = d.revision PROVE AtStep("closed", z, tracked'[r], d)
    <3>1. Scalars(s) = Scalars(d) /\ s.trades = << >>
      BY ONLY <1>5, <2>1 DEF CopyIs, AtStep
    <3>2. z.trades = rows
      BY ONLY <1>7, <1>8, <3>1
    <3>3. d.trades = table
      BY ONLY <1>1, <1>2, <2>1, StoredIs
    <3> QED BY ONLY <1>1, <1>8, <3>1, <3>2, <3>3 DEF AtStep
  <2>2. d # None => s.revision <= d.revision
    BY ONLY <1>5 DEF CopyIs
  <2> QED BY ONLY <1>8, <2>1, <2>2, CopyMoves
<1>10. RequestIs(pc'[r], home'[r], copy'[r], tracked'[r], d)
  BY ONLY <1>4, <1>5, <1>8, <1>9, NoneIsApart DEF RequestIs, Bare, Resting
<1> QED BY ONLY Inv, r \in Requests, <1>1, <1>3, <1>4, <1>10, LocalStep

\* The last closed trades as the table has them when they are read.
LEMMA ReadClosedTradesKeeps ==
    ASSUME Inv, NEW r \in Requests, ReadClosedTrades(r)
    PROVE  Inv'
<1>1. PICK d, s, rows, z : /\ d = Stored /\ s = copy[r]
                           /\ rows = Recent(WithStatus(table, "closed"), Window)
                           /\ z = [s EXCEPT !.trades = @ \o rows]
  OBVIOUS
<1>2. LocalShape /\ TablesAreComplete /\ RequestIs(pc[r], home[r], s, tracked[r], d)
  BY ONLY Inv, r \in Requests, <1>1, OneRequest
<1>3. /\ pc[r] = "closed" /\ pc' = [pc EXCEPT ![r] = "fills"]
      /\ copy' = [copy EXCEPT ![r].trades = @ \o rows]
      /\ UNCHANGED <<durable, memory, home, tracked>>
  BY ONLY ReadClosedTrades(r), <1>1 DEF ReadClosedTrades, ReadTrades, Goto
<1>4. LocalShape' /\ Others(r) /\ pc'[r] = "fills" /\ home'[r] = home[r] /\ copy'[r] = z
  BY ONLY <1>1, <1>2, <1>3, r \in Requests DEF LocalShape, Maps, Others
<1>5. home[r] \in Processes /\ s # None /\ CopyIs("closed", s, tracked[r], d)
  BY ONLY <1>2, <1>3 DEF RequestIs, Bare, Resting
<1>6. s \in SessionValue /\ s.trades \in Seq(Trade)
  BY ONLY <1>5, ValueFields DEF CopyIs
<1>7. rows \in Seq(Trade)
  <2>1. PICK c : c = WithStatus(table, "closed")
    OBVIOUS
  <2>2. c \in Seq(Trade)
    BY ONLY Inv, <2>1, TableRows, ChosenIs DEF WithStatus
  <2>3. Window \in Nat \ {0}
    BY StoreAssumption
  <2> QED BY ONLY <1>1, <2>1, <2>2, <2>3, RecentIs
<1>8. z \in SessionValue /\ z.revision = s.revision /\ Scalars(z) = Scalars(s) /\ z.trades = s.trades \o rows
  <2>1. s.trades \o rows \in Seq(Trade)
    BY ONLY <1>6, <1>7
  <2>2. z = [s EXCEPT !.trades = s.trades \o rows]
    BY ONLY <1>1
  <2>3. /\ z \in SessionValue /\ z.revision = s.revision /\ z.opened = s.opened
        /\ z.closedTotal = s.closedTotal /\ z.fillsTotal = s.fillsTotal /\ z.trades = s.trades \o rows
    BY ONLY <1>6, <2>1, <2>2 DEF SessionValue
  <2> QED BY ONLY <2>3, SameScalars
<1>9. CopyIs("fills", z, tracked'[r], d)
  <2>1. ASSUME d # None, s.revision = d.revision PROVE AtStep("fills", z, tracked'[r], d)
    <3>1. Scalars(s) = Scalars(d) /\ s.trades = WithStatus(d.trades, "open")
      BY ONLY <1>5, <2>1 DEF CopyIs, AtStep
    <3>2. d.trades = table
      BY ONLY <1>1, <1>2, <2>1, StoredIs
    <3> QED BY ONLY <1>1, <1>8, <3>1, <3>2 DEF AtStep
  <2>2. d # None => s.revision <= d.revision
    BY ONLY <1>5 DEF CopyIs
  <2> QED BY ONLY <1>8, <2>1, <2>2, CopyMoves
<1>10. RequestIs(pc'[r], home'[r], copy'[r], tracked'[r], d)
  BY ONLY <1>4, <1>5, <1>8, <1>9, NoneIsApart DEF RequestIs, Bare, Resting
<1> QED BY ONLY Inv, r \in Requests, <1>1, <1>3, <1>4, <1>10, LocalStep

\* The last fills, and the totals.
LEMMA ReadFillsKeeps ==
    ASSUME Inv, NEW r \in Requests, ReadFills(r)
    PROVE  Inv'
<1>1. PICK d, s, fills, t, nothing, closed, all, z :
         /\ d = Stored /\ s = copy[r] /\ fills = Recent(ledger, FillWindow)
         /\ t = [s EXCEPT !.fills = fills]
         /\ nothing = (t.trades = << >> /\ fills = << >>)
         /\ closed = (IF nothing THEN 0 ELSE Len(WithStatus(table, "closed")))
         /\ all = (IF nothing THEN 0 ELSE Len(ledger))
         /\ z = IF nothing \/ (t.closedTotal = 0 /\ t.fillsTotal = 0)
                  THEN [t EXCEPT !.closedTotal = closed, !.fillsTotal = all] ELSE t
  OBVIOUS
<1>2. LocalShape /\ TablesAreComplete /\ RequestIs(pc[r], home[r], s, tracked[r], d)
  BY ONLY Inv, r \in Requests, <1>1, OneRequest
<1>3. /\ pc[r] = "fills" /\ pc' = [pc EXCEPT ![r] = "put"] /\ copy' = [copy EXCEPT ![r] = z]
      /\ UNCHANGED <<durable, memory, home, tracked>>
  BY ONLY ReadFills(r), <1>1 DEF ReadFills, Goto
<1>4. LocalShape' /\ Others(r) /\ pc'[r] = "put" /\ home'[r] = home[r] /\ copy'[r] = z
  BY ONLY <1>2, <1>3, r \in Requests DEF LocalShape, Maps, Others
<1>5. home[r] \in Processes /\ s # None /\ CopyIs("fills", s, tracked[r], d)
  BY ONLY <1>2, <1>3 DEF RequestIs, Bare, Resting
<1>6. s \in SessionValue
  BY ONLY <1>5 DEF CopyIs
<1>7. table \in Seq(Trade) /\ ledger \in Seq(Nat)
  BY ONLY Inv, TableRows
<1>8. fills \in Seq(Nat) /\ closed \in Nat /\ all \in Nat
  <2>1. FillWindow \in Nat \ {0}
    BY StoreAssumption
  <2>2. fills \in Seq(Nat)
    BY ONLY <1>1, <1>7, <2>1, RecentIs
  <2>3. WithStatus(table, "closed") \in Seq(Trade)
    BY ONLY <1>7, ChosenIs DEF WithStatus
  <2>4. Len(WithStatus(table, "closed")) \in Nat /\ Len(ledger) \in Nat
    BY ONLY <1>7, <2>3
  <2> QED BY ONLY <1>1, <2>2, <2>4
<1>9. /\ t \in SessionValue /\ t.revision = s.revision /\ t.opened = s.opened
      /\ t.closedTotal = s.closedTotal /\ t.fillsTotal = s.fillsTotal
      /\ t.trades = s.trades /\ t.fills = fills
  <2>1. t = [s EXCEPT !.fills = fills]
    BY ONLY <1>1
  <2> QED BY ONLY <1>6, <1>8, <2>1 DEF SessionValue
<1>10. PICK y : y = [t EXCEPT !.closedTotal = closed, !.fillsTotal = all]
  OBVIOUS
<1>11. /\ y \in SessionValue /\ y.revision = s.revision /\ y.opened = s.opened
       /\ y.closedTotal = closed /\ y.fillsTotal = all /\ y.trades = s.trades /\ y.fills = fills
  <2>1. /\ y \in SessionValue /\ y.revision = t.revision /\ y.opened = t.opened
        /\ y.closedTotal = closed /\ y.fillsTotal = all /\ y.trades = t.trades /\ y.fills = t.fills
    BY ONLY <1>8, <1>9, <1>10 DEF SessionValue
  <2> QED BY ONLY <1>9, <2>1
<1>12. /\ nothing = (s.trades = << >> /\ fills = << >>)
       /\ z = IF nothing \/ (s.closedTotal = 0 /\ s.fillsTotal = 0) THEN y ELSE t
  BY ONLY <1>1, <1>9, <1>10
<1>13. /\ z \in SessionValue /\ z.revision = s.revision /\ z.opened = s.opened
       /\ z.trades = s.trades /\ z.fills = fills
  BY ONLY <1>9, <1>11, <1>12
<1>14. CopyIs("put", z, tracked'[r], d)
  <2>1. ASSUME d # None, s.revision = d.revision PROVE Exact(z, d)
    <3>1. /\ Scalars(s) = Scalars(d)
          /\ s.trades = WithStatus(d.trades, "open") \o Recent(WithStatus(d.trades, "closed"), Window)
      BY ONLY <1>5, <2>1 DEF CopyIs, AtStep
    <3>2. d.trades = table /\ d.fills = ledger /\ Complete(d)
      BY ONLY <1>1, <1>2, <2>1, StoredIs
    <3>3. \/ z.closedTotal = s.closedTotal /\ z.fillsTotal = s.fillsTotal /\ ~nothing
          \/ nothing /\ z.closedTotal = 0 /\ z.fillsTotal = 0
          \/ ~nothing /\ z.closedTotal = Len(WithStatus(d.trades, "closed")) /\ z.fillsTotal = Len(d.fills)
      <4>1. nothing => z.closedTotal = 0 /\ z.fillsTotal = 0
        BY ONLY <1>1, <1>11, <1>12
      <4>2. ~nothing => closed = Len(WithStatus(d.trades, "closed")) /\ all = Len(d.fills)
        BY ONLY <1>1, <3>2
      <4> QED BY ONLY <1>9, <1>11, <1>12, <4>1, <4>2
    <3>4. fills = Recent(d.fills, FillWindow)
      BY ONLY <1>1, <3>2
    <3> QED BY ONLY <1>6, <1>12, <1>13, <3>1, <3>2, <3>3, <3>4, LoadedIsExact
  <2>2. Exact(z, d) => AtStep("put", z, tracked'[r], d)
    BY DEF AtStep
  <2>3. d # None => s.revision <= d.revision
    BY ONLY <1>5 DEF CopyIs
  <2> QED BY ONLY <1>13, <2>1, <2>2, <2>3, CopyMoves
<1>15. RequestIs(pc'[r], home'[r], copy'[r], tracked'[r], d)
  BY ONLY <1>4, <1>5, <1>13, <1>14, NoneIsApart DEF RequestIs, Bare, Resting
<1> QED BY ONLY Inv, r \in Requests, <1>1, <1>3, <1>4, <1>15, LocalStep
-----------------------------------------------------------------------------
(* The memory of a process *)

\* A step of one request that changes what its process remembers.
LEMMA MemoryStep ==
    ASSUME Inv, NEW r \in Requests, UNCHANGED durable, MemoryShape', LocalShape', Others(r),
           NEW d, d = Stored, RequestIs(pc'[r], home'[r], copy'[r], tracked'[r], d),
           \A p \in Processes : CacheIs(cache'[p], d) /\ RecordIs(tracker'[p], d)
    PROVE  Inv'
<1>1. \A q \in Requests : RequestIs(pc'[q], home'[q], copy'[q], tracked'[q], d)
  <2>1. \A q \in Requests : RequestIs(pc[q], home[q], copy[q], tracked[q], d)
    BY ONLY Inv, d = Stored DEF Inv
  <2>2. \A q \in Requests \ {r} : RequestIs(pc'[q], home'[q], copy'[q], tracked'[q], d)
    BY ONLY <2>1, Others(r) DEF Others
  <2> QED BY ONLY <2>2, RequestIs(pc'[r], home'[r], copy'[r], tracked'[r], d)
<1>2. UNCHANGED <<row, table, ledger>>
  BY ONLY Inv, UNCHANGED durable DEF Inv, TablesAreComplete, durable
<1> QED BY ONLY Inv, <1>1, <1>2, MemoryShape', LocalShape', d = Stored,
                \A p \in Processes : CacheIs(cache'[p], d) /\ RecordIs(tracker'[p], d), SameStored

\* A cache entry is set or dropped.
LEMMA CacheSet ==
    ASSUME Inv, NEW p \in Processes, NEW entry, cache' = [cache EXCEPT ![p] = entry], tracker' = tracker,
           NEW d, d = Stored, CacheIs(entry, d)
    PROVE  MemoryShape' /\ \A q \in Processes : CacheIs(cache'[q], d) /\ RecordIs(tracker'[q], d)
<1>1. MemoryShape /\ \A q \in Processes : CacheIs(cache[q], d) /\ RecordIs(tracker[q], d)
  BY ONLY Inv, d = Stored DEF Inv
<1>2. /\ MemoryShape' /\ cache'[p] = entry
      /\ \A q \in Processes \ {p} : cache'[q] = cache[q]
  BY ONLY <1>1, p \in Processes, cache' = [cache EXCEPT ![p] = entry], tracker' = tracker DEF MemoryShape, Maps
<1>3. \A q \in Processes : CacheIs(cache'[q], d)
  BY ONLY <1>1, <1>2, CacheIs(entry, d)
<1> QED BY ONLY <1>1, <1>2, <1>3, tracker' = tracker

\* A tracking record is set or dropped.
LEMMA RecordSet ==
    ASSUME Inv, NEW p \in Processes, NEW entry, tracker' = [tracker EXCEPT ![p] = entry], cache' = cache,
           NEW d, d = Stored, RecordIs(entry, d)
    PROVE  MemoryShape' /\ \A q \in Processes : CacheIs(cache'[q], d) /\ RecordIs(tracker'[q], d)
<1>1. MemoryShape /\ \A q \in Processes : CacheIs(cache[q], d) /\ RecordIs(tracker[q], d)
  BY ONLY Inv, d = Stored DEF Inv
<1>2. /\ MemoryShape' /\ tracker'[p] = entry
      /\ \A q \in Processes \ {p} : tracker'[q] = tracker[q]
  BY ONLY <1>1, p \in Processes, tracker' = [tracker EXCEPT ![p] = entry], cache' = cache DEF MemoryShape, Maps
<1>3. \A q \in Processes : RecordIs(tracker'[q], d)
  BY ONLY <1>1, <1>2, RecordIs(entry, d)
<1> QED BY ONLY <1>1, <1>2, <1>3, cache' = cache

\* Nothing remembered is always true.
LEMMA NothingIs ==
    ASSUME NEW d
    PROVE  CacheIs(None, d) /\ RecordIs(None, d)
BY DEF CacheIs, RecordIs

\* A loaded copy is cached.
LEMMA PutLoadedKeeps ==
    ASSUME Inv, NEW r \in Requests, PutLoaded(r)
    PROVE  Inv'
<1>1. PICK d, s, p : d = Stored /\ s = copy[r] /\ p = home[r]
  OBVIOUS
<1>2. LocalShape /\ RequestIs(pc[r], p, s, tracked[r], d)
  BY ONLY Inv, r \in Requests, <1>1, OneRequest
<1>3. /\ pc[r] = "put" /\ pc' = [pc EXCEPT ![r] = "loaded"] /\ cache' = [cache EXCEPT ![p] = s]
      /\ UNCHANGED <<durable, tracker, home, copy, tracked>>
  BY ONLY PutLoaded(r), <1>1 DEF PutLoaded, CachePut, Goto
<1>4. LocalShape' /\ Others(r) /\ pc'[r] = "loaded" /\ home'[r] = p /\ copy'[r] = s
  BY ONLY <1>1, <1>2, <1>3, r \in Requests DEF LocalShape, Maps, Others
<1>5. p \in Processes /\ s # None /\ CopyIs("put", s, tracked[r], d)
  BY ONLY <1>2, <1>3 DEF RequestIs, Bare, Resting
<1>6. CopyIs("loaded", s, tracked'[r], d)
  BY ONLY <1>5 DEF CopyIs, AtStep
<1>7. RequestIs(pc'[r], home'[r], copy'[r], tracked'[r], d)
  BY ONLY <1>4, <1>5, <1>6 DEF RequestIs, Bare, Resting
<1>8. CacheIs(s, d)
  BY ONLY <1>5 DEF CacheIs, CopyIs, AtStep
<1>9. MemoryShape' /\ \A q \in Processes : CacheIs(cache'[q], d) /\ RecordIs(tracker'[q], d)
  BY ONLY Inv, <1>1, <1>3, <1>5, <1>8, CacheSet
<1> QED BY ONLY Inv, r \in Requests, <1>1, <1>3, <1>4, <1>7, <1>9, MemoryStep

\* The entry of a process is dropped and a request of it ends.
LEMMA DropStep ==
    ASSUME Inv, NEW r \in Requests, pc[r] \notin Resting, CachePop(r), End({r}, "idle"),
           UNCHANGED <<durable, tracker>>
    PROVE  Inv'
<1>1. PICK d, p : d = Stored /\ p = home[r]
  OBVIOUS
<1>2. LocalShape /\ RequestIs(pc[r], p, copy[r], tracked[r], d)
  BY ONLY Inv, r \in Requests, <1>1, OneRequest
<1>3. p \in Processes
  BY ONLY <1>2, pc[r] \notin Resting DEF RequestIs
<1>4. MemoryShape' /\ \A q \in Processes : CacheIs(cache'[q], d) /\ RecordIs(tracker'[q], d)
  <2>1. cache' = [cache EXCEPT ![p] = None] /\ tracker' = tracker
    BY ONLY <1>1, CachePop(r), UNCHANGED <<durable, tracker>> DEF CachePop
  <2> QED BY ONLY Inv, <1>1, <1>3, <2>1, NothingIs, CacheSet
<1>5. /\ LocalShape' /\ Others(r)
      /\ RequestIs(pc'[r], home'[r], copy'[r], tracked'[r], d)
  <2>1. "idle" \in Resting /\ {r} \in SUBSET Requests
    BY DEF Resting
  <2>2. /\ LocalShape'
        /\ \A q \in {r} : RequestIs(pc'[q], home'[q], copy'[q], tracked'[q], d)
        /\ Others(r)
    BY ONLY Inv, End({r}, "idle"), <2>1, Ended DEF Others
  <2> QED BY ONLY <2>2
<1> QED BY ONLY Inv, r \in Requests, <1>1, <1>4, <1>5, UNCHANGED <<durable, tracker>>, MemoryStep

\* A save that is rolled back stores nothing and drops the cache entry.
LEMMA RollBackKeeps ==
    ASSUME Inv, NEW r \in Requests, RollBack(r)
    PROVE  Inv'
<1>1. /\ pc[r] = "saving" /\ CachePop(r) /\ End({r}, "idle") /\ UNCHANGED <<durable, tracker>>
  BY ONLY RollBack(r) DEF RollBack
<1>2. pc[r] \notin Resting
  BY ONLY <1>1 DEF Resting
<1> QED BY ONLY Inv, r \in Requests, <1>1, <1>2, DropStep

\* The deletion's own process forgets the session it deleted.
LEMMA PopDeletedKeeps ==
    ASSUME Inv, NEW r \in Requests, PopDeleted(r)
    PROVE  Inv'
<1>1. /\ pc[r] = "deleted" /\ CachePop(r) /\ End({r}, "idle") /\ UNCHANGED <<durable, tracker>>
  BY ONLY PopDeleted(r) DEF PopDeleted
<1>2. pc[r] \notin Resting
  BY ONLY <1>1 DEF Resting
<1> QED BY ONLY Inv, r \in Requests, <1>1, <1>2, DropStep

\* What was saved is pruned and recorded.
LEMMA TrackKeeps ==
    ASSUME Inv, NEW r \in Requests, Track(r)
    PROVE  Inv'
<1>1. PICK d, s, p, z, record :
         /\ d = Stored /\ s = copy[r] /\ p = home[r] /\ z = Pruned(s)
         /\ record = [revision |-> z.revision, fills |-> Range(z.fills), trades |-> Range(z.trades)]
  OBVIOUS
<1>2. LocalShape /\ TablesAreComplete /\ RequestIs(pc[r], p, s, tracked[r], d)
  BY ONLY Inv, r \in Requests, <1>1, OneRequest
<1>3. /\ pc[r] = "saved" /\ pc' = [pc EXCEPT ![r] = "tracked"] /\ copy' = [copy EXCEPT ![r] = z]
      /\ tracker' = [tracker EXCEPT ![p] = record] /\ cache' = cache
      /\ UNCHANGED <<durable, home, tracked>>
  BY ONLY Track(r), <1>1 DEF Track, Goto
<1>4. LocalShape' /\ Others(r) /\ pc'[r] = "tracked" /\ home'[r] = p /\ copy'[r] = z
  BY ONLY <1>1, <1>2, <1>3, r \in Requests DEF LocalShape, Maps, Others
<1>5. p \in Processes /\ s # None /\ CopyIs("saved", s, tracked[r], d)
  BY ONLY <1>2, <1>3 DEF RequestIs, Bare, Resting
<1>6. z \in SessionValue /\ z.revision = s.revision /\ s \in SessionValue
  <2>1. s \in SessionValue
    BY ONLY <1>5 DEF CopyIs
  <2> QED BY ONLY <1>1, <2>1, PrunedTyped
<1>7. ASSUME d # None, z.revision = d.revision PROVE Exact(z, d) /\ Honest(record, d)
  <2>1. Complete(d) /\ Wide(s, d)
    <3>1. Complete(d)
      BY ONLY <1>1, <1>2, <1>7, StoredIs
    <3>2. Wide(s, d)
      BY ONLY <1>5, <1>6, <1>7 DEF CopyIs, AtStep
    <3> QED BY ONLY <3>1, <3>2
  <2>2. Exact(z, d)
    BY ONLY <1>1, <1>6, <2>1, PrunedIsExact
  <2>3. record.trades = Range(z.trades) /\ record.fills = Range(z.fills)
    BY ONLY <1>1
  <2> QED BY ONLY <1>6, <2>1, <2>2, <2>3, ExactIsHonest
<1>8. d # None => z.revision <= d.revision
  BY ONLY <1>5, <1>6 DEF CopyIs
<1>9. CopyIs("tracked", z, tracked'[r], d)
  <2>1. Exact(z, d) => AtStep("tracked", z, tracked'[r], d)
    BY DEF AtStep
  <2> QED BY ONLY <1>6, <1>7, <1>8, <2>1, CopyMoves
<1>10. RequestIs(pc'[r], home'[r], copy'[r], tracked'[r], d)
  BY ONLY <1>4, <1>5, <1>6, <1>9, NoneIsApart DEF RequestIs, Bare, Resting
<1>11. RecordIs(record, d)
  <2>1. record.revision = z.revision
    BY ONLY <1>1
  <2>2. record \in Records
    <3>1. z.trades \in Seq(Trade) /\ z.fills \in Seq(Nat) /\ z.revision \in Nat
      BY ONLY <1>6, ValueFields
    <3>2. DOMAIN z.trades = 1 .. Len(z.trades) /\ DOMAIN z.fills = 1 .. Len(z.fills)
      BY ONLY <3>1
    <3>3. Range(z.trades) \subseteq Trade /\ Range(z.fills) \subseteq Nat
      BY ONLY <3>1, <3>2 DEF Range
    <3> QED BY ONLY <1>1, <3>1, <3>3 DEF Records
  <2> QED BY ONLY <1>7, <1>8, <2>1, <2>2 DEF RecordIs
<1>12. MemoryShape' /\ \A q \in Processes : CacheIs(cache'[q], d) /\ RecordIs(tracker'[q], d)
  BY ONLY Inv, <1>1, <1>3, <1>5, <1>11, RecordSet
<1> QED BY ONLY Inv, r \in Requests, <1>1, <1>3, <1>4, <1>10, <1>12, MemoryStep

\* What was saved is cached.
LEMMA PutSavedKeeps ==
    ASSUME Inv, NEW r \in Requests, PutSaved(r)
    PROVE  Inv'
<1>1. PICK d, s, p : d = Stored /\ s = copy[r] /\ p = home[r]
  OBVIOUS
<1>2. LocalShape /\ RequestIs(pc[r], p, s, tracked[r], d)
  BY ONLY Inv, r \in Requests, <1>1, OneRequest
<1>3. /\ pc[r] = "tracked" /\ cache' = [cache EXCEPT ![p] = s] /\ End({r}, "idle")
      /\ UNCHANGED <<durable, tracker>>
  BY ONLY PutSaved(r), <1>1 DEF PutSaved, CachePut
<1>4. p \in Processes /\ s # None /\ CopyIs("tracked", s, tracked[r], d)
  BY ONLY <1>2, <1>3 DEF RequestIs, Bare, Resting
<1>5. CacheIs(s, d)
  BY ONLY <1>4 DEF CacheIs, CopyIs, AtStep
<1>6. MemoryShape' /\ \A q \in Processes : CacheIs(cache'[q], d) /\ RecordIs(tracker'[q], d)
  BY ONLY Inv, <1>1, <1>3, <1>4, <1>5, CacheSet
<1>7. /\ LocalShape' /\ Others(r)
      /\ RequestIs(pc'[r], home'[r], copy'[r], tracked'[r], d)
  <2>1. "idle" \in Resting /\ {r} \in SUBSET Requests
    BY DEF Resting
  <2>2. /\ LocalShape'
        /\ \A q \in {r} : RequestIs(pc'[q], home'[q], copy'[q], tracked'[q], d)
        /\ Others(r)
    BY ONLY Inv, <1>3, <2>1, Ended DEF Others
  <2> QED BY ONLY <2>2
<1> QED BY ONLY Inv, r \in Requests, <1>1, <1>3, <1>6, <1>7, MemoryStep

\* The two dictionaries lose an entry to another session.
LEMMA EvictKeeps ==
    ASSUME Inv, NEW p \in Processes, Evict(p)
    PROVE  Inv'
<1>1. PICK d : d = Stored
  OBVIOUS
<1>2. UNCHANGED <<durable, local>>
  BY ONLY Evict(p) DEF Evict
<1>3. MemoryShape' /\ \A q \in Processes : CacheIs(cache'[q], d) /\ RecordIs(tracker'[q], d)
  <2>1. CASE cache' = [cache EXCEPT ![p] = None] /\ tracker' = tracker
    BY ONLY Inv, p \in Processes, <1>1, <2>1, NothingIs, CacheSet
  <2>2. CASE tracker' = [tracker EXCEPT ![p] = None] /\ cache' = cache
    BY ONLY Inv, p \in Processes, <1>1, <2>2, NothingIs, RecordSet
  <2> QED BY ONLY Evict(p), <2>1, <2>2 DEF Evict
<1>4. /\ LocalShape' /\ UNCHANGED <<row, table, ledger>>
      /\ \A q \in Requests : RequestIs(pc'[q], home'[q], copy'[q], tracked'[q], d)
  BY ONLY Inv, <1>1, <1>2 DEF Inv, TablesAreComplete, LocalShape, Maps, durable, local
<1> QED BY ONLY Inv, <1>1, <1>3, <1>4, SameStored

\* A process forgets everything and its requests are gone.
LEMMA RestartKeeps ==
    ASSUME Inv, NEW p \in Processes, Restart(p)
    PROVE  Inv'
<1>1. PICK d, rs : d = Stored /\ rs = {r \in Requests : home[r] = p}
  OBVIOUS
<1>2. /\ cache' = [cache EXCEPT ![p] = None] /\ tracker' = [tracker EXCEPT ![p] = None]
      /\ End(rs, "idle") /\ UNCHANGED durable
  BY ONLY Restart(p), <1>1 DEF Restart
<1>3. /\ MemoryShape /\ \A q \in Processes : CacheIs(cache[q], d) /\ RecordIs(tracker[q], d)
      /\ \A q \in Requests : RequestIs(pc[q], home[q], copy[q], tracked[q], d)
  BY ONLY Inv, <1>1 DEF Inv
<1>4. /\ MemoryShape' /\ cache'[p] = None /\ tracker'[p] = None
      /\ \A q \in Processes \ {p} : cache'[q] = cache[q] /\ tracker'[q] = tracker[q]
  BY ONLY <1>2, <1>3, p \in Processes DEF MemoryShape, Maps
<1>5. \A q \in Processes : CacheIs(cache'[q], d) /\ RecordIs(tracker'[q], d)
  BY ONLY <1>3, <1>4, NothingIs
<1>6. rs \in SUBSET Requests /\ "idle" \in Resting
  BY ONLY <1>1 DEF Resting
<1>7. /\ LocalShape'
      /\ \A q \in rs : RequestIs(pc'[q], home'[q], copy'[q], tracked'[q], d)
      /\ \A q \in Requests \ rs :
           /\ pc'[q] = pc[q] /\ home'[q] = home[q] /\ copy'[q] = copy[q]
           /\ tracked'[q] = tracked[q]
  BY ONLY Inv, <1>2, <1>6, Ended
<1>8. \A q \in Requests : RequestIs(pc'[q], home'[q], copy'[q], tracked'[q], d)
  BY ONLY <1>3, <1>7
<1>9. UNCHANGED <<row, table, ledger>>
  BY ONLY Inv, <1>2 DEF Inv, TablesAreComplete, durable
<1> QED BY ONLY Inv, <1>1, <1>4, <1>5, <1>7, <1>8, <1>9, SameStored
-----------------------------------------------------------------------------
(* Answers and changes *)

\* The ids in the trades table.
LEMMA TableIds ==
    ASSUME Inv
    PROVE  /\ IdsOf(table) \subseteq 1 .. MaxTrades
           /\ \A k \in DOMAIN table : table[k] \in [id : 1 .. MaxTrades, status : {"open", "closed"}, stamp : Nat]
<1>1. TablesAreComplete /\ table \in Seq(Trade)
  BY ONLY Inv, TableRows DEF Inv
<1>2. DOMAIN table = 1 .. Len(table) /\ Len(table) \in Nat
  BY ONLY <1>1
<1>3. CASE row = None
  <2>1. DOMAIN table = {}
    BY ONLY <1>1, <1>3 DEF TablesAreComplete
  <2> QED BY ONLY <2>1 DEF IdsOf
<1>4. CASE row # None
  <2>1. PICK d : d = Stored
    OBVIOUS
  <2>2. d.trades = table /\ Complete(d)
    BY ONLY <1>1, <1>4, <2>1, StoredIs
  <2>3. d.opened <= MaxTrades /\ Len(table) = d.opened /\ \A k \in 1 .. d.opened : table[k].id = k
    BY ONLY <2>2 DEF Complete
  <2>4. MaxTrades \in Nat
    BY StoreAssumption
  <2>5. \A k \in DOMAIN table : table[k].id \in 1 .. MaxTrades
    BY ONLY <1>2, <2>3, <2>4
  <2>6. \A k \in DOMAIN table : table[k] \in Trade
    BY ONLY <1>1
  <2> QED BY ONLY <2>5, <2>6 DEF IdsOf, Trade
<1> QED BY <1>3, <1>4

\* An answer ends its request.
LEMMA RespondKeeps ==
    ASSUME Inv, NEW r \in Requests, Respond(r)
    PROVE  Inv'
<1>1. End({r}, "idle") /\ UNCHANGED <<durable, memory>>
  BY ONLY Respond(r) DEF Respond
<1>2. "idle" \in Resting
  BY DEF Resting
<1> QED BY ONLY Inv, r \in Requests, <1>1, <1>2, EndStep

\* The copy changes as the complete session would, if it is still current.
LEMMA ChangeRequestKeeps ==
    ASSUME Inv, NEW r \in Requests, Change(r)
    PROVE  Inv'
<1>1. PICK d, s, p, record : d = Stored /\ s = copy[r] /\ p = home[r] /\ record = tracker[p]
  OBVIOUS
<1>2. /\ LocalShape /\ TablesAreComplete /\ RequestIs(pc[r], p, s, tracked[r], d)
      /\ \A q \in Processes : RecordIs(tracker[q], d)
  BY ONLY Inv, r \in Requests, <1>1, OneRequest
<1>3. PICK z \in Mutations(s) : copy' = [copy EXCEPT ![r] = z]
  BY ONLY Change(r), <1>1 DEF Change
<1>4. PICK kept : kept = IF (IF record = None THEN FALSE ELSE record.revision = s.revision)
                           THEN record ELSE None
  OBVIOUS
<1>5. /\ pc[r] = "loaded" /\ s.revision < MaxRevision /\ pc' = [pc EXCEPT ![r] = "saving"]
      /\ tracked' = [tracked EXCEPT ![r] = kept] /\ UNCHANGED <<durable, memory, home>>
  BY ONLY Change(r), <1>1, <1>4 DEF Change, Goto
<1>6. LocalShape' /\ Others(r) /\ pc'[r] = "saving" /\ home'[r] = p /\ copy'[r] = z /\ tracked'[r] = kept
  BY ONLY <1>1, <1>2, <1>3, <1>5, r \in Requests DEF LocalShape, Maps, Others
<1>7. p \in Processes /\ s # None /\ CopyIs("loaded", s, tracked[r], d)
  BY ONLY <1>2, <1>5 DEF RequestIs, Bare, Resting
<1>8. s \in SessionValue /\ z \in SessionValue /\ z.revision = s.revision
  <2>1. s \in SessionValue
    BY ONLY <1>7 DEF CopyIs
  <2> QED BY ONLY <1>3, <2>1, MutationsTyped
<1>9. ASSUME d # None, z.revision = d.revision PROVE Ready(z, kept, d)
  <2>1. Complete(d) /\ Exact(s, d)
    <3>1. Complete(d)
      BY ONLY <1>1, <1>2, <1>9, StoredIs
    <3>2. Exact(s, d)
      BY ONLY <1>7, <1>8, <1>9 DEF CopyIs, AtStep
    <3> QED BY ONLY <3>1, <3>2
  <2>2. Mirrored(z, d)
    BY ONLY <1>3, <1>8, <2>1, MutationKeeps
  <2>3. kept # None => Honest(kept, d)
    <3>1. RecordIs(record, d)
      BY ONLY <1>1, <1>2, <1>7
    <3>2. kept # None => kept = record /\ record.revision = d.revision
      BY ONLY <1>4, <1>8, <1>9
    <3> QED BY ONLY <1>9, <3>1, <3>2 DEF RecordIs
  <2> QED BY ONLY <2>2, <2>3 DEF Mirrored, Ready
<1>10. CopyIs("saving", z, kept, d)
  <2>1. d # None => z.revision <= d.revision
    BY ONLY <1>7, <1>8 DEF CopyIs
  <2>2. Ready(z, kept, d) => AtStep("saving", z, kept, d)
    BY DEF AtStep
  <2> QED BY ONLY <1>5, <1>8, <1>9, <2>1, <2>2 DEF CopyIs
<1>11. RequestIs(pc'[r], home'[r], copy'[r], tracked'[r], d)
  BY ONLY <1>6, <1>7, <1>8, <1>10, NoneIsApart DEF RequestIs, Bare, Resting
<1> QED BY ONLY Inv, r \in Requests, <1>1, <1>5, <1>6, <1>11, LocalStep

-----------------------------------------------------------------------------
(* Steps that store something *)

\* What is right about a session is right, and out of date, once it has changed.
LEMMA Outdated ==
    ASSUME NEW d, NEW d2,
           d2 # None => d # None /\ d.revision \in Nat /\ d2.revision \in Nat /\ d.revision < d2.revision
    PROVE  /\ \A s : CacheIs(s, d) => CacheIs(s, d2)
           /\ \A record : RecordIs(record, d) => RecordIs(record, d2)
           /\ \A step, place, s, record, id :
                RequestIs(step, place, s, record, d) => RequestIs(step, place, s, record, d2)
<1>1. \A s \in SessionValue : s.revision \in Nat
  BY ValueFields
<1>2. ASSUME NEW s, CacheIs(s, d) PROVE CacheIs(s, d2)
  BY ONLY <1>1, <1>2,
          d2 # None => d # None /\ d.revision \in Nat /\ d2.revision \in Nat /\ d.revision < d2.revision
     DEF CacheIs
<1>3. ASSUME NEW record, RecordIs(record, d) PROVE RecordIs(record, d2)
  <2>1. record # None => record.revision \in Nat
    BY ONLY <1>3 DEF RecordIs, Records
  <2> QED
    BY ONLY <1>3, <2>1,
            d2 # None => d # None /\ d.revision \in Nat /\ d2.revision \in Nat /\ d.revision < d2.revision
       DEF RecordIs
<1>4. ASSUME NEW step, NEW s, NEW record, CopyIs(step, s, record, d) PROVE CopyIs(step, s, record, d2)
  BY ONLY <1>1, <1>4,
          d2 # None => d # None /\ d.revision \in Nat /\ d2.revision \in Nat /\ d.revision < d2.revision
     DEF CopyIs
<1>5. ASSUME NEW step, NEW place, NEW s, NEW record, RequestIs(step, place, s, record, d)
      PROVE  RequestIs(step, place, s, record, d2)
  BY ONLY <1>4, <1>5 DEF RequestIs
<1> QED BY <1>2, <1>3, <1>5

\* A deletion leaves nothing, for good, that a copy could be compared with.
LEMMA DeleteKeeps ==
    ASSUME Inv, NEW r \in Requests, NEW p \in Processes, Delete(r, p)
    PROVE  Inv'
<1>1. PICK d : d = Stored
  OBVIOUS
<1>2. LocalShape /\ RequestIs(pc[r], home[r], copy[r], tracked[r], d)
  BY ONLY Inv, r \in Requests, <1>1, OneRequest
<1>3. /\ pc[r] \in {"idle", "failed"} /\ row' = None /\ table' = << >> /\ ledger' = << >>
      /\ pc' = [pc EXCEPT ![r] = "deleted"] /\ home' = [home EXCEPT ![r] = p]
      /\ UNCHANGED <<memory, copy, tracked>>
  BY ONLY Delete(r, p) DEF Delete, Goto
<1>4. LocalShape' /\ Others(r) /\ pc'[r] = "deleted" /\ home'[r] = p /\ copy'[r] = copy[r]
  BY ONLY <1>2, <1>3, r \in Requests DEF LocalShape, Maps, Others
<1>5. copy[r] = None
  BY ONLY <1>2, <1>3 DEF RequestIs, Bare
<1>6. Stored' = None
  BY ONLY <1>3 DEF Stored
<1>7. TablesAreComplete'
  BY ONLY <1>3 DEF TablesAreComplete
<1>8. /\ \A s : CacheIs(s, d) => CacheIs(s, None)
      /\ \A record : RecordIs(record, d) => RecordIs(record, None)
      /\ \A step, place, s, record, id :
           RequestIs(step, place, s, record, d) => RequestIs(step, place, s, record, None)
  BY ONLY Outdated
<1>9. MemoryShape' /\ \A q \in Processes : CacheIs(cache'[q], None) /\ RecordIs(tracker'[q], None)
  <2>1. MemoryShape /\ \A q \in Processes : CacheIs(cache[q], d) /\ RecordIs(tracker[q], d)
    BY ONLY Inv, <1>1 DEF Inv
  <2> QED BY ONLY <1>3, <1>8, <2>1 DEF MemoryShape, Maps, memory
<1>10. \A q \in Requests : RequestIs(pc'[q], home'[q], copy'[q], tracked'[q], None)
  <2>1. \A q \in Requests : RequestIs(pc[q], home[q], copy[q], tracked[q], d)
    BY ONLY Inv, <1>1 DEF Inv
  <2>2. \A q \in Requests \ {r} : RequestIs(pc'[q], home'[q], copy'[q], tracked'[q], None)
    BY ONLY <1>4, <1>8, <2>1 DEF Others
  <2>3. RequestIs(pc'[r], home'[r], copy'[r], tracked'[r], None)
    BY ONLY <1>4, <1>5, p \in Processes DEF RequestIs, Bare, Resting
  <2> QED BY ONLY <2>2, <2>3
<1>11. /\ \A q \in Processes : CacheIs(cache'[q], Stored') /\ RecordIs(tracker'[q], Stored')
       /\ \A q \in Requests : RequestIs(pc'[q], home'[q], copy'[q], tracked'[q], Stored')
  BY ONLY <1>6, <1>9, <1>10
<1> QED BY ONLY <1>4, <1>7, <1>9, <1>11 DEF Inv

\* A commit stores what a mutation of the complete and latest history makes of it.
LEMMA CommitIs ==
    ASSUME Inv, NEW r \in Requests, Commit(r), NEW d, d = Stored
    PROVE  /\ d # None
           /\ \E full \in Mutations(d) :
                LET d2 == [full EXCEPT !.revision = @ + 1]
                IN  /\ Stored' = d2 /\ TablesAreComplete' /\ row' # None
                    /\ d.revision \in Nat /\ d2.revision = d.revision + 1
                    /\ Complete(d2) /\ d2.opened \in {d.opened, d.opened + 1}
                    /\ RequestIs(pc'[r], home'[r], copy'[r], tracked'[r], d2)
           /\ LocalShape' /\ Others(r)
<1>1. PICK s, record, z : s = copy[r] /\ record = tracked[r] /\ z = [s EXCEPT !.revision = @ + 1]
  OBVIOUS
<1>2. LocalShape /\ TablesAreComplete /\ RequestIs(pc[r], home[r], s, record, d)
  BY ONLY Inv, r \in Requests, <1>1, d = Stored, OneRequest
<1>3. /\ pc[r] = "saving" /\ row # None /\ row.revision = s.revision /\ row' = Scalars(z)
      /\ table' = Upsert(table, UnsavedTrades(z, record)) /\ ledger' = ledger \o UnsavedFills(z, record)
      /\ copy' = [copy EXCEPT ![r] = z] /\ tracked' = [tracked EXCEPT ![r] = None]
      /\ pc' = [pc EXCEPT ![r] = "saved"] /\ UNCHANGED <<memory, home>>
  BY ONLY Commit(r), <1>1 DEF Commit, NotModified, Goto
<1>4. LocalShape' /\ Others(r) /\ pc'[r] = "saved" /\ home'[r] = home[r] /\ copy'[r] = z
  BY ONLY <1>2, <1>3, r \in Requests DEF LocalShape, Maps, Others
<1>5. home[r] \in Processes /\ CopyIs("saving", s, record, d)
  BY ONLY <1>2, <1>3 DEF RequestIs, Bare, Resting
<1>6. /\ d # None /\ d.revision = row.revision /\ d.trades = table /\ d.fills = ledger /\ Complete(d)
      /\ d.revision \in 1 .. MaxRevision
  BY ONLY <1>2, <1>3, d = Stored, StoredIs
<1>7. s \in SessionValue /\ s.revision < MaxRevision /\ Ready(s, record, d)
  BY ONLY <1>3, <1>5, <1>6 DEF CopyIs, AtStep
<1>8. PICK full \in Mutations(d) : Complete(full) /\ Grown(full, d) /\ Reflects(s, full, d)
  BY ONLY <1>7 DEF Ready
<1>9. PICK d2 : d2 = [full EXCEPT !.revision = @ + 1]
  OBVIOUS
<1>10. full \in SessionValue /\ full.revision = d.revision /\ Wide(s, full)
  BY ONLY <1>8 DEF Complete, Grown, Reflects
<1>11. d.revision \in Nat /\ full.revision + 1 \in Nat /\ d.revision + 1 \in 1 .. MaxRevision
  <2>1. MaxRevision \in Nat
    BY StoreAssumption
  <2> QED BY ONLY <1>3, <1>6, <1>7, <1>10, <2>1
<1>12. /\ d2 \in SessionValue /\ d2.revision = d.revision + 1 /\ d2.opened = full.opened
       /\ d2.closedTotal = full.closedTotal /\ d2.fillsTotal = full.fillsTotal
       /\ d2.trades = full.trades /\ d2.fills = full.fills
  <2>1. d2 = [full EXCEPT !.revision = d.revision + 1] /\ d.revision + 1 \in Nat /\ full \in SessionValue
    BY ONLY <1>9, <1>10, <1>11
  <2> QED BY ONLY <2>1 DEF SessionValue
<1>13. /\ z \in SessionValue /\ z.revision = d.revision + 1 /\ z.opened = s.opened
       /\ z.closedTotal = s.closedTotal /\ z.fillsTotal = s.fillsTotal
       /\ z.trades = s.trades /\ z.fills = s.fills
  <2>1. z = [s EXCEPT !.revision = d.revision + 1] /\ d.revision + 1 \in Nat /\ s \in SessionValue
    BY ONLY <1>1, <1>3, <1>6, <1>7, <1>11
  <2> QED BY ONLY <2>1 DEF SessionValue
<1>14. Scalars(z) = Scalars(d2)
  <2>1. Scalars(s) = Scalars(full)
    BY ONLY <1>10 DEF Wide
  <2> QED BY ONLY <1>12, <1>13, <2>1, SameScalars
<1>15. table' = full.trades /\ ledger' = full.fills
  <2>1. Upsert(d.trades, UnsavedTrades(s, record)) = full.trades /\ ledger \o UnsavedFills(s, record) = full.fills
    <3>1. record # None => Honest(record, d)
      BY ONLY <1>7 DEF Ready
    <3> QED BY ONLY <1>6, <1>7, <1>8, <3>1, SavedIs
  <2>2. UnsavedTrades(z, record) = UnsavedTrades(s, record) /\ UnsavedFills(z, record) = UnsavedFills(s, record)
    BY ONLY <1>13 DEF UnsavedTrades, UnsavedFills
  <2> QED BY ONLY <1>3, <1>6, <2>1, <2>2
<1>16. row' \in Rows /\ row' # None /\ row'.revision \in 1 .. MaxRevision
  <2>1. row' \in Rows /\ row'.revision = z.revision
    <3>1. /\ z.revision \in Nat /\ z.opened \in Nat /\ z.closedTotal \in Nat /\ z.fillsTotal \in Nat
      BY ONLY <1>13, ValueFields
    <3> QED BY ONLY <1>3, <3>1 DEF Scalars, Rows
  <2> QED BY ONLY <1>11, <1>13, <2>1, NoneIsApart
<1>17. Stored' = d2
  <2>1. Stored' = [revision |-> row'.revision, opened |-> row'.opened, closedTotal |-> row'.closedTotal,
                   fillsTotal |-> row'.fillsTotal, trades |-> table', fills |-> ledger']
    BY ONLY <1>16 DEF Stored
  <2>2. /\ row'.revision = d2.revision /\ row'.opened = d2.opened
        /\ row'.closedTotal = d2.closedTotal /\ row'.fillsTotal = d2.fillsTotal
    BY ONLY <1>3, <1>14 DEF Scalars
  <2>3. d2 = [revision |-> d2.revision, opened |-> d2.opened, closedTotal |-> d2.closedTotal,
              fillsTotal |-> d2.fillsTotal, trades |-> d2.trades, fills |-> d2.fills]
    BY ONLY <1>12 DEF SessionValue
  <2>4. table' = d2.trades /\ ledger' = d2.fills
    BY ONLY <1>12, <1>15
  <2> QED BY ONLY <2>1, <2>2, <2>3, <2>4
<1>18. Complete(d2)
  BY ONLY <1>8, <1>12 DEF Complete
<1>19. TablesAreComplete'
  <2>1. Complete(Stored')
    BY ONLY <1>17, <1>18
  <2> QED BY ONLY <1>16, <2>1 DEF TablesAreComplete
<1>20. RequestIs(pc'[r], home'[r], copy'[r], tracked'[r], d2)
  <2>1. Wide(z, d2)
    BY ONLY <1>10, <1>12, <1>13, <1>14 DEF Wide
  <2>2. CopyIs("saved", z, tracked'[r], d2)
    <3>1. AtStep("saved", z, tracked'[r], d2)
      BY ONLY <2>1 DEF AtStep
    <3>2. z.revision <= d2.revision
      BY ONLY <1>11, <1>12, <1>13
    <3> QED BY ONLY <1>13, <3>1, <3>2, CopyMoves
  <2> QED BY ONLY <1>4, <1>5, <1>13, <2>2, NoneIsApart DEF RequestIs, Bare, Resting
<1>21. d2.opened \in {d.opened, d.opened + 1}
  BY ONLY <1>8, <1>12 DEF Grown
<1> QED BY ONLY <1>4, <1>6, <1>8, <1>9, <1>11, <1>12, <1>16, <1>17, <1>18, <1>19, <1>20, <1>21

\* A commit makes every other copy out of date.
LEMMA CommitKeeps ==
    ASSUME Inv, NEW r \in Requests, Commit(r)
    PROVE  Inv'
<1>1. PICK d : d = Stored
  OBVIOUS
<1>2. PICK d2 :
        /\ Stored' = d2 /\ TablesAreComplete' /\ row' # None
        /\ d # None /\ d.revision \in Nat /\ d2.revision = d.revision + 1
        /\ RequestIs(pc'[r], home'[r], copy'[r], tracked'[r], d2)
        /\ LocalShape' /\ Others(r)
  BY ONLY Inv, r \in Requests, Commit(r), <1>1, CommitIs
<1>3. UNCHANGED memory
  BY ONLY Commit(r) DEF Commit
<1>4. d.revision < d2.revision /\ d2.revision \in Nat
  BY ONLY <1>2
<1>5. /\ \A s : CacheIs(s, d) => CacheIs(s, d2)
      /\ \A record : RecordIs(record, d) => RecordIs(record, d2)
      /\ \A step, place, s, record, id :
           RequestIs(step, place, s, record, d) => RequestIs(step, place, s, record, d2)
  BY ONLY <1>2, <1>4, Outdated
<1>6. MemoryShape' /\ \A q \in Processes : CacheIs(cache'[q], d2) /\ RecordIs(tracker'[q], d2)
  <2>1. MemoryShape /\ \A q \in Processes : CacheIs(cache[q], d) /\ RecordIs(tracker[q], d)
    BY ONLY Inv, <1>1 DEF Inv
  <2> QED BY ONLY <1>3, <1>5, <2>1 DEF MemoryShape, Maps, memory
<1>7. \A q \in Requests : RequestIs(pc'[q], home'[q], copy'[q], tracked'[q], d2)
  <2>1. \A q \in Requests : RequestIs(pc[q], home[q], copy[q], tracked[q], d)
    BY ONLY Inv, <1>1 DEF Inv
  <2>2. \A q \in Requests \ {r} : RequestIs(pc'[q], home'[q], copy'[q], tracked'[q], d2)
    BY ONLY <1>2, <1>5, <2>1 DEF Others
  <2> QED BY ONLY <1>2, <2>2
<1>8. /\ \A q \in Processes : CacheIs(cache'[q], Stored') /\ RecordIs(tracker'[q], Stored')
      /\ \A q \in Requests : RequestIs(pc'[q], home'[q], copy'[q], tracked'[q], Stored')
  BY ONLY <1>2, <1>6, <1>7
<1> QED BY ONLY <1>2, <1>6, <1>8 DEF Inv
-----------------------------------------------------------------------------
(* The invariant holds *)

\* The session that is found stored is stored whole.
LEMMA InitHolds == Init => Inv
<1> SUFFICES ASSUME Init PROVE Inv
  OBVIOUS
<1>1. PICK d \in Beginnings : row = Scalars(d) /\ table = d.trades /\ ledger = d.fills
  BY DEF Init
<1>2. Complete(d)
  <2>1. Whole(d)
    BY BeginningsAssumption
  <2>2. /\ d \in SessionValue /\ d.opened <= MaxTrades
        /\ Len(d.trades) = d.opened /\ \A k \in 1 .. d.opened : d.trades[k].id = k
        /\ d.fills = [k \in 1 .. d.fillsTotal |-> k]
        /\ d.closedTotal = Cardinality(IdsOf(WithStatus(d.trades, "closed")))
    BY ONLY <2>1 DEF Whole
  <2>3. d.trades \in Seq(Trade) /\ d.opened \in Nat /\ d.fillsTotal \in Nat
    BY ONLY <2>2, ValueFields
  <2>4. Distinct(d.trades)
    <3>1. DOMAIN d.trades = 1 .. d.opened
      BY ONLY <2>2, <2>3
    <3> QED BY ONLY <2>2, <3>1 DEF Distinct
  <2>5. IdsOf(WithStatus(d.trades, "closed")) = StatusIds(d.trades, "closed")
    BY ONLY <2>3, <2>4, StatusTrades
  <2>6. d.fills = Run(1, d.fillsTotal)
    <3>1. d.fillsTotal - 1 + 1 = d.fillsTotal /\ \A k \in 1 .. d.fillsTotal : 1 + k - 1 = k
      BY ONLY <2>3
    <3> QED BY ONLY <2>2, <3>1 DEF Run
  <2> QED BY ONLY <2>2, <2>5, <2>6 DEF Complete
<1>3. /\ d \in SessionValue /\ row.revision = d.revision /\ row.opened = d.opened
      /\ row.closedTotal = d.closedTotal /\ row.fillsTotal = d.fillsTotal /\ row \in Rows
  <2>1. d \in SessionValue
    BY ONLY <1>2 DEF Complete
  <2> QED BY ONLY <1>1, <2>1, ValueFields DEF Scalars, Rows
<1>4. row # None
  BY ONLY <1>3, NoneIsApart
<1>5. Stored = d
  <2>1. Stored = [revision |-> d.revision, opened |-> d.opened, closedTotal |-> d.closedTotal,
                  fillsTotal |-> d.fillsTotal, trades |-> d.trades, fills |-> d.fills]
    BY ONLY <1>1, <1>3, <1>4 DEF Stored
  <2> QED BY ONLY <1>3, <2>1 DEF SessionValue
<1>6. TablesAreComplete
  <2>1. row.revision \in 1 .. MaxRevision
    BY ONLY <1>3, StoreAssumption, d \in Beginnings
  <2>2. Complete(Stored)
    BY ONLY <1>2, <1>5
  <2> QED BY ONLY <1>3, <1>4, <2>1, <2>2 DEF TablesAreComplete
<1>7. MemoryShape /\ LocalShape
  BY DEF Init, MemoryShape, LocalShape, Maps
<1>8. \A p \in Processes : CacheIs(cache[p], Stored) /\ RecordIs(tracker[p], Stored)
  <2>1. \A p \in Processes : cache[p] = None /\ tracker[p] = None
    BY DEF Init
  <2> QED BY ONLY <2>1, NothingIs
<1>9. \A r \in Requests : RequestIs(pc[r], home[r], copy[r], tracked[r], Stored)
  <2>1. \A r \in Requests : pc[r] = "idle" /\ copy[r] = None
    BY DEF Init
  <2> QED BY ONLY <2>1 DEF RequestIs, Bare, Resting
<1> QED BY ONLY <1>6, <1>7, <1>8, <1>9 DEF Inv

\* A stuttering step keeps the invariant.
LEMMA StutterKeeps ==
    ASSUME Inv, UNCHANGED vars
    PROVE  Inv'
<1>1. PICK d : d = Stored
  OBVIOUS
<1>2. UNCHANGED <<row, table, ledger, cache, tracker, pc, home, copy, tracked>>
  BY ONLY UNCHANGED vars DEF vars, durable, memory, local
<1>3. /\ MemoryShape' /\ LocalShape'
      /\ \A p \in Processes : CacheIs(cache'[p], d) /\ RecordIs(tracker'[p], d)
      /\ \A q \in Requests : RequestIs(pc'[q], home'[q], copy'[q], tracked'[q], d)
  BY ONLY Inv, <1>1, <1>2 DEF Inv, TablesAreComplete, MemoryShape, LocalShape, Maps
<1> QED BY ONLY Inv, <1>1, <1>2, <1>3, SameStored

\* No step breaks the invariant.
LEMMA StepKeeps == Inv /\ [Next]_vars => Inv'
<1> SUFFICES ASSUME Inv, [Next]_vars PROVE Inv'
  OBVIOUS
<1>1. ASSUME NEW r \in Requests, Load(r) PROVE Inv'
  <2>1. ASSUME NEW p \in Processes, Begin(r, p) PROVE Inv'
    BY ONLY Inv, r \in Requests, p \in Processes, Begin(r, p), BeginKeeps
  <2>2. CASE CacheHit(r)
    BY ONLY Inv, r \in Requests, <2>2, CacheHitKeeps
  <2>3. CASE CacheMiss(r)
    BY ONLY Inv, r \in Requests, <2>3, CacheMissKeeps
  <2>4. CASE Touch(r)
    BY ONLY Inv, r \in Requests, <2>4, TouchKeeps
  <2>5. CASE ReadRow(r)
    BY ONLY Inv, r \in Requests, <2>5, ReadRowKeeps
  <2>6. CASE ReadOpenTrades(r)
    BY ONLY Inv, r \in Requests, <2>6, ReadOpenTradesKeeps
  <2>7. CASE ReadClosedTrades(r)
    BY ONLY Inv, r \in Requests, <2>7, ReadClosedTradesKeeps
  <2>8. CASE ReadFills(r)
    BY ONLY Inv, r \in Requests, <2>8, ReadFillsKeeps
  <2>9. CASE PutLoaded(r)
    BY ONLY Inv, r \in Requests, <2>9, PutLoadedKeeps
  <2> QED BY ONLY Load(r), <2>1, <2>2, <2>3, <2>4, <2>5, <2>6, <2>7, <2>8, <2>9 DEF Load
<1>2. ASSUME NEW r \in Requests, Finish(r) PROVE Inv'
  <2>1. CASE Respond(r)
    BY ONLY Inv, r \in Requests, <2>1, RespondKeeps
  <2>2. CASE Change(r)
    BY ONLY Inv, r \in Requests, <2>2, ChangeRequestKeeps
  <2>3. CASE Commit(r)
    BY ONLY Inv, r \in Requests, <2>3, CommitKeeps
  <2>4. CASE RollBack(r)
    BY ONLY Inv, r \in Requests, <2>4, RollBackKeeps
  <2>5. CASE Track(r)
    BY ONLY Inv, r \in Requests, <2>5, TrackKeeps
  <2>6. CASE PutSaved(r)
    BY ONLY Inv, r \in Requests, <2>6, PutSavedKeeps
  <2>7. CASE PopDeleted(r)
    BY ONLY Inv, r \in Requests, <2>7, PopDeletedKeeps
  <2>8. ASSUME NEW p \in Processes, Delete(r, p) PROVE Inv'
    BY ONLY Inv, r \in Requests, p \in Processes, Delete(r, p), DeleteKeeps
  <2> QED BY ONLY Finish(r), <2>1, <2>2, <2>3, <2>4, <2>5, <2>6, <2>7, <2>8 DEF Finish
<1>3. ASSUME NEW p \in Processes, Evict(p) PROVE Inv'
  BY ONLY Inv, p \in Processes, Evict(p), EvictKeeps
<1>4. ASSUME NEW p \in Processes, Restart(p) PROVE Inv'
  BY ONLY Inv, p \in Processes, Restart(p), RestartKeeps
<1>5. CASE UNCHANGED vars
  BY ONLY Inv, <1>5, StutterKeeps
<1> QED BY ONLY [Next]_vars, <1>1, <1>2, <1>3, <1>4, <1>5 DEF Next

\* The invariant holds in every reachable state.
LEMMA InvAlways == Spec => []Inv
BY InitHolds, StepKeeps, PTL DEF Spec
-----------------------------------------------------------------------------
(* What follows from it *)

\* The same open trades, both in the order of their ids, are the same list.
LEMMA SameOpen ==
    ASSUME NEW v \in Seq(Trade), NEW w \in Seq(Trade), Distinct(v), Distinct(w),
           OpenInOrder(v), OpenInOrder(w), Range(v) = Range(w),
           \A t \in Range(v) : t.status = "open",
           \A x, y \in Range(v) : x.id = y.id => x = y
    PROVE  v = w
<1>1. PICK n, m : n = Len(v) /\ m = Len(w) /\ n \in Nat /\ m \in Nat /\ DOMAIN v = 1 .. n /\ DOMAIN w = 1 .. m
  <2>1. Len(v) \in Nat /\ DOMAIN v = 1 .. Len(v)
    BY ONLY v \in Seq(Trade)
  <2>2. Len(w) \in Nat /\ DOMAIN w = 1 .. Len(w)
    BY ONLY w \in Seq(Trade)
  <2> QED BY ONLY <2>1, <2>2
<1>2. PICK a, b : a = [k \in 1 .. n |-> v[k].id] /\ b = [k \in 1 .. m |-> w[k].id]
  OBVIOUS
<1>3. /\ \A k \in 1 .. n : v[k] \in Range(v) /\ v[k] \in Trade
      /\ \A k \in 1 .. m : w[k] \in Range(v) /\ w[k] \in Trade
  <2>1. \A k \in 1 .. n : v[k] \in Range(v)
    BY ONLY <1>1 DEF Range
  <2>2. \A k \in 1 .. m : w[k] \in Range(w)
    BY ONLY <1>1 DEF Range
  <2>3. (\A k \in 1 .. n : v[k] \in Trade) /\ \A k \in 1 .. m : w[k] \in Trade
    BY ONLY <1>1, v \in Seq(Trade), w \in Seq(Trade)
  <2> QED BY ONLY <2>1, <2>2, <2>3, Range(v) = Range(w)
<1>4. /\ a \in Seq(Nat) /\ Len(a) = n /\ DOMAIN a = 1 .. n /\ (\A k \in 1 .. n : a[k] = v[k].id)
      /\ b \in Seq(Nat) /\ Len(b) = m /\ DOMAIN b = 1 .. m /\ (\A k \in 1 .. m : b[k] = w[k].id)
  <2>1. (\A k \in 1 .. n : v[k].id \in Nat) /\ \A k \in 1 .. m : w[k].id \in Nat
    BY ONLY <1>3 DEF Trade
  <2>2. a \in Seq(Nat) /\ Len(a) = n /\ DOMAIN a = 1 .. n /\ \A k \in 1 .. n : a[k] = v[k].id
    BY ONLY <1>1, <1>2, <2>1
  <2>3. b \in Seq(Nat) /\ Len(b) = m /\ DOMAIN b = 1 .. m /\ \A k \in 1 .. m : b[k] = w[k].id
    BY ONLY <1>1, <1>2, <2>1
  <2> QED BY ONLY <2>2, <2>3
<1>5. Increasing(a) /\ Increasing(b)
  <2>1. (\A k \in 1 .. n : v[k].status = "open") /\ \A k \in 1 .. m : w[k].status = "open"
    BY ONLY <1>3, \A t \in Range(v) : t.status = "open"
  <2>2. Increasing(a)
    BY ONLY <1>1, <1>4, <2>1, OpenInOrder(v) DEF OpenInOrder, Increasing
  <2>3. Increasing(b)
    BY ONLY <1>1, <1>4, <2>1, OpenInOrder(w) DEF OpenInOrder, Increasing
  <2> QED BY ONLY <2>2, <2>3
<1>6. PICK A, B : A = {a[k] : k \in 1 .. n} /\ B = {b[k] : k \in 1 .. m}
  OBVIOUS
<1>61. A = B
  <2>1. ASSUME NEW k \in 1 .. n PROVE a[k] \in B
    <3>1. PICK j \in 1 .. m : w[j] = v[k]
      <4>1. v[k] \in Range(w)
        BY ONLY <1>3, k \in 1 .. n, Range(v) = Range(w)
      <4> QED BY ONLY <1>1, <4>1 DEF Range
    <3>2. b[j] = a[k]
      BY ONLY <1>4, <3>1, k \in 1 .. n
    <3> QED BY ONLY <1>6, <3>1, <3>2
  <2>2. ASSUME NEW k \in 1 .. m PROVE b[k] \in A
    <3>1. PICK j \in 1 .. n : v[j] = w[k]
      <4>1. w[k] \in Range(v)
        BY ONLY <1>3, k \in 1 .. m
      <4> QED BY ONLY <1>1, <4>1 DEF Range
    <3>2. a[j] = b[k]
      BY ONLY <1>4, <3>1, k \in 1 .. m
    <3> QED BY ONLY <1>6, <3>1, <3>2
  <2>3. (\A x \in A : \E k \in 1 .. n : x = a[k]) /\ \A x \in B : \E k \in 1 .. m : x = b[k]
    BY ONLY <1>6
  <2>4. A \subseteq B /\ B \subseteq A
    BY ONLY <2>1, <2>2, <2>3
  <2>5. A \in SUBSET B /\ B \in SUBSET A
    BY ONLY <2>4
  <2> QED BY ONLY <2>4, <2>5, Zenon
<1>7. a = b /\ n = m
  <2>1. {a[k] : k \in 1 .. Len(a)} = {b[k] : k \in 1 .. Len(b)}
    BY ONLY <1>4, <1>6, <1>61
  <2>2. a = b
    BY ONLY <1>4, <1>5, <2>1, SameList
  <2> QED BY ONLY <1>4, <2>2
<1>8. \A k \in 1 .. n : v[k] = w[k]
  BY ONLY <1>3, <1>4, <1>7, \A x, y \in Range(v) : x.id = y.id => x = y
<1> QED BY ONLY <1>1, <1>7, <1>8, v \in Seq(Trade), w \in Seq(Trade)

\* An exact working set stands for the stored session.
LEMMA ExactStands ==
    ASSUME TablesAreComplete, row # None, NEW d, d = Stored, NEW s \in SessionValue, Exact(s, d)
    PROVE  StandsForStored(s)
<1>1. d.trades = table /\ d.fills = ledger /\ Scalars(d) = row /\ Complete(d)
  BY ONLY TablesAreComplete, row # None, d = Stored, StoredIs
<1>2. PICK T, u : T = d.trades /\ u = s.trades
  OBVIOUS
<1>3. /\ s.closedTotal = d.closedTotal /\ T \in Seq(Trade) /\ Distinct(T)
      /\ \A k \in 1 .. Len(T) : T[k].id = k
      /\ d.closedTotal = ClosedOf(T) /\ Part(u, T) /\ d \in SessionValue
  BY ONLY <1>1, <1>2, s \in SessionValue, Exact(s, d), ExactIs
<1>4. Scalars(s) = row /\ ClosedOf(u) = Smaller(Window, ClosedOf(T))
      /\ s.fills = Run(Low(d.fillsTotal, FillWindow), d.fillsTotal)
  BY ONLY <1>1, <1>2, Exact(s, d) DEF Exact
<1>5. /\ u \in Seq(Trade) /\ Distinct(u) /\ OpenInOrder(u) /\ Range(u) \subseteq Range(T)
      /\ \A t \in Range(T) : t.status = "open" => t \in Range(u)
  BY ONLY <1>3 DEF Part
<1>6. OpenInOrder(T)
  <2>1. DOMAIN T = 1 .. Len(T)
    BY ONLY <1>3
  <2> QED BY ONLY <1>3, <2>1 DEF OpenInOrder
<1>7. PICK open, held, stored, closed :
        /\ held = WithStatus(u, "open") /\ open = WithStatus(T, "open")
        /\ closed = WithStatus(u, "closed") /\ stored = WithStatus(T, "closed")
  OBVIOUS
<1>8. /\ held \in Seq(Trade) /\ Distinct(held) /\ OpenInOrder(held)
      /\ Range(held) = {t \in Range(u) : t.status = "open"}
  BY ONLY <1>5, <1>7, StatusTrades
<1>9. /\ open \in Seq(Trade) /\ Distinct(open) /\ OpenInOrder(open)
      /\ Range(open) = {t \in Range(T) : t.status = "open"}
  BY ONLY <1>3, <1>6, <1>7, StatusTrades
<1>10. Range(closed) = {t \in Range(u) : t.status = "closed"} /\ Len(closed) = ClosedOf(u)
  BY ONLY <1>5, <1>7, StatusTrades DEF ClosedOf
<1>11. /\ Range(stored) = {t \in Range(T) : t.status = "closed"} /\ Len(stored) = ClosedOf(T)
       /\ stored \in Seq(Trade)
  BY ONLY <1>3, <1>7, StatusTrades DEF ClosedOf
<1>12. held = open
  <2>1. Range(held) = Range(open)
    BY ONLY <1>5, <1>8, <1>9
  <2>2. \A t \in Range(held) : t.status = "open"
    BY ONLY <1>8
  <2>3. \A x, y \in Range(held) : x.id = y.id => x = y
    <3>1. \A x, y \in Range(T) : x.id = y.id => x = y
      BY ONLY <1>3, PartIs
    <3> QED BY ONLY <1>5, <1>8, <3>1
  <2> QED BY ONLY <1>8, <1>9, <2>1, <2>2, <2>3, SameOpen
<1>13. Len(closed) = Len(Recent(stored, Window))
  <2>1. Window \in Nat \ {0}
    BY StoreAssumption
  <2>2. Len(Recent(stored, Window)) = Smaller(Window, Len(stored))
    BY ONLY <1>11, <2>1, RecentIs
  <2> QED BY ONLY <1>4, <1>10, <1>11, <2>2
<1>14. Range(closed) \subseteq Range(stored)
  BY ONLY <1>5, <1>10, <1>11
<1>15. s.fills = Recent(ledger, FillWindow)
  <2>1. PICK F, one : F = d.fillsTotal /\ one = 1
    OBVIOUS
  <2>2. F \in Nat /\ FillWindow \in Nat \ {0}
    BY <1>3, <2>1, ValueFields, StoreAssumption
  <2>3. one \in Nat \ {0} /\ one <= Low(F, FillWindow)
    <3>1. 1 <= Low(F, FillWindow)
      BY ONLY <2>2 DEF Low, Smaller
    <3> QED BY ONLY <2>1, <3>1
  <2>4. Recent(Run(one, F), FillWindow) = Run(Low(F, FillWindow), F)
    BY ONLY <2>2, <2>3, RecentRun
  <2>5. ledger = Run(one, F)
    BY ONLY <1>1, <2>1 DEF Complete
  <2> QED BY ONLY <1>4, <2>1, <2>4, <2>5
<1>16. /\ WithStatus(s.trades, "open") = WithStatus(table, "open")
       /\ Range(WithStatus(s.trades, "closed")) \subseteq Range(WithStatus(table, "closed"))
       /\ Len(WithStatus(s.trades, "closed")) = Len(Recent(WithStatus(table, "closed"), Window))
       /\ s.closedTotal = Len(WithStatus(table, "closed"))
  BY ONLY <1>1, <1>2, <1>3, <1>7, <1>11, <1>12, <1>13, <1>14
<1> QED BY ONLY <1>4, <1>15, <1>16 DEF StandsForStored

\* A copy that mixes several commits is always out of date: whatever claims the
\* stored revision, in a cache or in a request that is about to answer, to change
\* it or to cache it, is the stored session (load_session, load_state_cached,
\* _prune_working_set and save_session).
THEOREM CurrentCopiesStayExact == Spec => []CurrentCopiesAreExact
<1>1. Inv => CurrentCopiesAreExact
  <2> SUFFICES ASSUME Inv, row # None PROVE CurrentCopiesAreExact
    BY DEF CurrentCopiesAreExact
  <2>1. PICK d : d = Stored
    OBVIOUS
  <2>2. TablesAreComplete
    BY DEF Inv
  <2>3. d # None /\ d.revision = row.revision
    BY ONLY <2>1, <2>2, row # None, StoredIs
  <2>4. ASSUME NEW s \in SessionValue, Exact(s, d) PROVE StandsForStored(s)
    BY ONLY <2>1, <2>2, <2>4, row # None, ExactStands
  <2>5. ASSUME NEW p \in Processes, cache[p] # None, cache[p].revision = row.revision
        PROVE  StandsForStored(cache[p])
    <3>1. CacheIs(cache[p], d)
      BY ONLY Inv, p \in Processes, <2>1 DEF Inv
    <3>2. cache[p] \in SessionValue /\ Exact(cache[p], d)
      BY ONLY <2>3, <2>5, <3>1 DEF CacheIs
    <3> QED BY ONLY <2>4, <3>2
  <2>6. ASSUME NEW r \in Requests, pc[r] \in {"put", "loaded", "tracked"}, copy[r] # None,
               copy[r].revision = row.revision
        PROVE  StandsForStored(copy[r])
    <3>1. RequestIs(pc[r], home[r], copy[r], tracked[r], d)
      BY ONLY Inv, r \in Requests, <2>1 DEF Inv
    <3>2. copy[r] \in SessionValue /\ Exact(copy[r], d)
      BY ONLY <2>3, <2>6, <3>1 DEF RequestIs, CopyIs, AtStep
    <3> QED BY ONLY <2>4, <3>2
  <2> QED BY ONLY <2>5, <2>6 DEF CurrentCopiesAreExact
<1> QED BY <1>1, InvAlways, PTL

\* What is stored is of its types, the record of the rows a process has saved
\* names at the stored revision only rows that are there (save_session), and a
\* request holds a copy exactly while it works on one.
THEOREM TrackerStaysHonest == Spec => []TrackerIsHonest
<1>1. Inv => TrackerIsHonest
  <2> SUFFICES ASSUME Inv PROVE TrackerIsHonest
    OBVIOUS
  <2>1. PICK d : d = Stored
    OBVIOUS
  <2>2. TablesAreComplete
    BY DEF Inv
  <2>3. /\ row = None => table = << >> /\ ledger = << >>
        /\ row # None => row.revision \in 1 .. MaxRevision
        BY ONLY <2>2 DEF TablesAreComplete
  <2>4. \A k \in DOMAIN table : table[k] \in [id : 1 .. MaxTrades, status : {"open", "closed"}, stamp : Nat]
    BY ONLY Inv, TableIds
  <2>5. ASSUME NEW r \in Requests PROVE (copy[r] = None) = (pc[r] \in Bare)
    <3>1. RequestIs(pc[r], home[r], copy[r], tracked[r], d)
      BY ONLY Inv, r \in Requests, <2>1 DEF Inv
    <3> QED BY ONLY <3>1 DEF RequestIs
  <2>6. TypeOK
    BY ONLY <2>3, <2>4, <2>5 DEF TypeOK, Bare
  <2>7. ASSUME NEW p \in Processes, tracker[p] # None, row # None, tracker[p].revision = row.revision
        PROVE  tracker[p].trades \subseteq Range(table) /\ tracker[p].fills \subseteq Range(ledger)
    <3>1. RecordIs(tracker[p], d)
      BY ONLY Inv, p \in Processes, <2>1 DEF Inv
    <3>2. d # None /\ d.revision = row.revision /\ d.trades = table /\ d.fills = ledger
      BY ONLY <2>1, <2>2, <2>7, StoredIs
    <3> QED BY ONLY <2>7, <3>1, <3>2 DEF RecordIs, Honest
  <2> QED BY ONLY <2>6, <2>7 DEF TrackerIsHonest
<1> QED BY <1>1, InvAlways, PTL
-----------------------------------------------------------------------------
(* The atomic session *)

\* The instance counts as the store's own operators do.
LEMMA SameCount ==
    ASSUME NEW S
    PROVE  Atomic!Cardinality(S) = Cardinality(S)
BY DEF Atomic!Cardinality, Cardinality

\* It picks the trades of a status as the store does.
LEMMA SameWithStatus ==
    ASSUME NEW trades, NEW status
    PROVE  Atomic!WithStatus(trades, status) = WithStatus(trades, status)
<1>1. ASSUME NEW S, NEW k PROVE Atomic!NthLeast(S, k) = NthLeast(S, k)
  BY ONLY SameCount DEF Atomic!NthLeast, NthLeast
<1>2. ASSUME NEW seq, NEW S PROVE Atomic!Chosen(seq, S) = Chosen(seq, S)
  BY ONLY <1>1, SameCount DEF Atomic!Chosen, Chosen
<1> QED BY ONLY <1>2 DEF Atomic!WithStatus, WithStatus, Atomic!Range, Range

\* What a step or a change of settings may make of s.
Steps(s) ==
    {Affected(s, closes, changes, 0) : closes \in SUBSET OpenIds(s), changes \in SUBSET OpenIds(s)}

\* The atomic session's mutations are those of the store.
LEMMA SameMutations ==
    ASSUME NEW s
    PROVE  Atomic!Mutations(s) = Mutations(s)
<1>1. ASSUME NEW z, NEW n PROVE Atomic!Filled(z, n) = Filled(z, n)
  BY ONLY DEF Atomic!Filled, Filled
<1>2. Atomic!OpenIds(s) = OpenIds(s)
  BY ONLY SameWithStatus DEF Atomic!OpenIds, OpenIds, Atomic!IdsOf, IdsOf
<1>3. Atomic!Opened(s) = Opened(s)
  BY ONLY <1>1 DEF Atomic!Opened, Opened
<1>4. ASSUME NEW closes, NEW changes, NEW n
      PROVE  Atomic!Affected(s, closes, changes, n) = Affected(s, closes, changes, n)
  BY ONLY <1>1, SameCount DEF Atomic!Affected, Affected
<1>5. {Atomic!Affected(s, closes, changes, 0) :
         closes \in SUBSET Atomic!OpenIds(s), changes \in SUBSET Atomic!OpenIds(s)}
        = {Affected(s, closes, changes, 0) :
             closes \in SUBSET OpenIds(s), changes \in SUBSET OpenIds(s)}
  BY ONLY <1>2, <1>4
<1>6. {Atomic!Affected(s, {}, {id}, 1) : id \in Atomic!OpenIds(s)}
        = {Affected(s, {}, {id}, 1) : id \in OpenIds(s)}
  BY ONLY <1>2, <1>4
<1>7. PICK a : a = IF s.opened < MaxTrades THEN {Opened(s)} ELSE {}
  OBVIOUS
<1>8. PICK b : b = Steps(s)
  OBVIOUS
<1>9. PICK c : c = {Affected(s, {}, {id}, 1) : id \in OpenIds(s)}
  OBVIOUS
<1>10. Mutations(s) = a \cup b \cup c
  BY ONLY <1>7, <1>8, <1>9 DEF Mutations, Steps
<1>11. a = IF s.opened < MaxTrades THEN {Atomic!Opened(s)} ELSE {}
  BY ONLY <1>3, <1>7
<1>12. b = {Atomic!Affected(s, closes, changes, 0) :
              closes \in SUBSET Atomic!OpenIds(s), changes \in SUBSET Atomic!OpenIds(s)}
  BY ONLY <1>5, <1>8 DEF Steps
<1>13. c = {Atomic!Affected(s, {}, {id}, 1) : id \in Atomic!OpenIds(s)}
  BY ONLY <1>6, <1>9
<1>14. Atomic!Mutations(s) = a \cup b \cup c
  BY ONLY <1>11, <1>12, <1>13 DEF Atomic!Mutations
<1> QED BY ONLY <1>10, <1>14

\* A commit is one mutation of the stored session.
LEMMA CommitMutates ==
    ASSUME Inv, NEW r \in Requests, Commit(r)
    PROVE  Atomic!Mutate
<1>1. PICK d : d = Stored
  OBVIOUS
<1>2. d # None /\ \E full \in Mutations(d) : Stored' = [full EXCEPT !.revision = @ + 1]
  BY ONLY Inv, r \in Requests, Commit(r), <1>1, CommitIs
<1>3. \E full \in Atomic!Mutations(Stored) : Stored' = [full EXCEPT !.revision = @ + 1]
  BY ONLY <1>1, <1>2, SameMutations
<1> QED BY ONLY <1>1, <1>2, <1>3 DEF Atomic!Mutate

\* A deletion deletes the stored session.
LEMMA DeleteDeletes ==
    ASSUME NEW r \in Requests, NEW p \in Processes, Delete(r, p), Inv
    PROVE  Atomic!Delete
<1>1. row # None /\ row' = None
  BY ONLY Delete(r, p) DEF Delete
<1>2. Stored # None
  <2>1. TablesAreComplete
    BY ONLY Inv DEF Inv
  <2>2. PICK d : d = Stored
    OBVIOUS
  <2> QED BY ONLY <1>1, <2>1, <2>2, StoredIs
<1>3. Stored' = None
  BY ONLY <1>1 DEF Stored
<1> QED BY ONLY <1>2, <1>3 DEF Atomic!Delete

\* Every other step of a request, of an eviction or of a restart is a stutter.
LEMMA StepIsAtomic == Inv /\ [Next]_vars => [Atomic!Mutate \/ Atomic!Delete]_Stored
<1> SUFFICES ASSUME Inv, [Next]_vars PROVE [Atomic!Mutate \/ Atomic!Delete]_Stored
  OBVIOUS
<1>1. ASSUME UNCHANGED <<row, table, ledger>> PROVE UNCHANGED Stored
  BY ONLY <1>1 DEF Stored
<1>2. ASSUME NEW r \in Requests, Load(r) PROVE UNCHANGED <<row, table, ledger>>
  BY ONLY Load(r) DEF Load, Begin, CacheHit, CacheMiss, Touch, ReadRow, ReadTrades,
          ReadOpenTrades, ReadClosedTrades, ReadFills, PutLoaded, durable
<1>3. ASSUME NEW r \in Requests, Finish(r) PROVE [Atomic!Mutate \/ Atomic!Delete]_Stored
  <2>1. CASE Respond(r) \/ Change(r) \/ RollBack(r) \/ Track(r) \/ PutSaved(r)
             \/ PopDeleted(r)
    <3>1. UNCHANGED <<row, table, ledger>>
      BY ONLY <2>1 DEF Respond, Change, RollBack, Track, PutSaved, PopDeleted, durable
    <3> QED BY ONLY <1>1, <3>1
  <2>2. CASE Commit(r)
    BY ONLY Inv, r \in Requests, <2>2, CommitMutates
  <2>3. ASSUME NEW p \in Processes, Delete(r, p) PROVE Atomic!Delete
    BY ONLY Inv, r \in Requests, p \in Processes, Delete(r, p), DeleteDeletes
  <2> QED BY ONLY Finish(r), <2>1, <2>2, <2>3 DEF Finish
<1>4. ASSUME NEW p \in Processes, Evict(p) \/ Restart(p) PROVE UNCHANGED <<row, table, ledger>>
  BY ONLY Evict(p) \/ Restart(p) DEF Evict, Restart, durable
<1>5. CASE UNCHANGED vars
  <2>1. UNCHANGED <<row, table, ledger>>
    BY ONLY <1>5 DEF vars, durable
  <2> QED BY ONLY <1>1, <2>1
<1> QED BY ONLY [Next]_vars, <1>1, <1>2, <1>3, <1>4, <1>5 DEF Next

\* Requests of several threads and processes that work on bounded windows, read
\* them from several commits or from a cache, skip the rows they take for saved,
\* and are rolled back, evicted or killed at any step, change the stored session
\* one operation at a time, each applied to the complete and latest history.
THEOREM StoreImplementsAtomicSession == Spec => ImplementsAtomicSession
<1>1. Init => Atomic!AtomicInit
  <2> SUFFICES ASSUME Init PROVE Stored \in Beginnings
    BY DEF Atomic!AtomicInit
  <2>1. PICK d \in Beginnings : row = Scalars(d) /\ table = d.trades /\ ledger = d.fills
    BY DEF Init
  <2>2. d \in SessionValue
    BY BeginningsAssumption DEF Whole
  <2>3. /\ row.revision = d.revision /\ row.opened = d.opened /\ row \in Rows
        /\ row.closedTotal = d.closedTotal /\ row.fillsTotal = d.fillsTotal
    BY ONLY <2>1, <2>2, ValueFields DEF Scalars, Rows
  <2>4. row # None
    BY ONLY <2>3, NoneIsApart
  <2>5. Stored = [revision |-> d.revision, opened |-> d.opened, closedTotal |-> d.closedTotal,
                  fillsTotal |-> d.fillsTotal, trades |-> d.trades, fills |-> d.fills]
    BY ONLY <2>1, <2>3, <2>4 DEF Stored
  <2>6. Stored = d
    BY ONLY <2>2, <2>5 DEF SessionValue
  <2> QED BY ONLY <2>6, d \in Beginnings
<1> QED BY <1>1, InvAlways, StepIsAtomic, PTL DEF Spec, ImplementsAtomicSession, Atomic!AtomicSpec
=============================================================================
