------------------------ MODULE DatasetImportProofs ------------------------
(***************************************************************************)
(* Proofs about DatasetImport.  What is staged or cleaned up is a version  *)
(* that is not recorded, so what is served never changes, except for the   *)
(* legacy dataset, whose files only grow newer.  Everything a request has  *)
(* read, and everything a cache keeps of it, therefore lies between the    *)
(* files as they were at some earlier moment and the files as they are     *)
(* now; for a version the two are the same.  A cache exceeds its capacity  *)
(* by no more than the keys that are being inserted.                       *)
(***************************************************************************)
EXTENDS DatasetImport, ListingProofs, SequenceTheorems

\* The stamps that the files of a dataset may have had since they were low.
Between(F, d, low) == {f \in Stamped : \A y \in Years : low[y] <= f[y] /\ f[y] <= F[d][y]}

\* What the context and the candles of a session may be, read since then.
Contexts(F, d, g) == {{<<y, f[y]>> : y \in Newest(g)} : f \in Between(F, d, g)}
Answers(F, d, low) == {CandlesOf(f) : f \in Between(F, d, low)}

-----------------------------------------------------------------------------
(* Stamps *)

\* A stamp of the files is a function to numbers within the bounds.
LEMMA StampedType ==
    ASSUME NEW f \in Stamped
    PROVE  /\ f \in [Years -> Nat] /\ \A y \in Years : f[y] \in Nat /\ f[y] <= MaxStamp[y]
           /\ f # None
<1>1. f \in [Years -> UNION {0 .. MaxStamp[y] : y \in Years}] /\ \A y \in Years : f[y] <= MaxStamp[y]
  BY DEF Stamped
<1>2. UNION {0 .. MaxStamp[y] : y \in Years} \subseteq Nat
  BY DataAssumption
<1>3. f \in [Years -> Nat]
  BY <1>1, <1>2
<1> QED BY <1>1, <1>3, DataAssumption

\* Conversely, numbers within the bounds make a stamp.
LEMMA StampedIs ==
    ASSUME NEW f \in [Years -> Nat], \A y \in Years : f[y] <= MaxStamp[y]
    PROVE  f \in Stamped
<1>1. \A y \in Years : f[y] \in 0 .. MaxStamp[y]
  BY DataAssumption
<1> QED BY <1>1 DEF Stamped

\* No files at all, and those of a complete version, are stamps.
LEMMA WholeIsStamped ==
    /\ Missing \in Stamped
    /\ \A v \in Versions : Whole(v) \in Stamped
<1>1. \A y \in Years : MaxStamp[y] \in Nat /\ 1 <= MaxStamp[y]
  BY DataAssumption
<1> QED BY <1>1, StampedIs DEF Missing, Whole

\* More may have been read of a dataset whose files have been replaced since.
LEMMA BetweenGrows ==
    ASSUME NEW F, NEW G, NEW d, NEW low, F[d] \in Stamped, G[d] \in Stamped,
           \A y \in Years : F[d][y] <= G[d][y]
    PROVE  Between(F, d, low) \subseteq Between(G, d, low)
<1> SUFFICES ASSUME NEW f \in Between(F, d, low) PROVE f \in Between(G, d, low)
  OBVIOUS
<1>1. f \in Stamped /\ \A y \in Years : low[y] <= f[y] /\ f[y] <= F[d][y]
  BY DEF Between
<1>2. \A y \in Years : f[y] \in Nat /\ F[d][y] \in Nat /\ G[d][y] \in Nat
  BY <1>1, StampedType
<1>3. \A y \in Years : f[y] <= G[d][y]
  BY <1>1, <1>2
<1> QED BY <1>1, <1>3 DEF Between

\* What has changed since a later moment has changed since an earlier one.
LEMMA BetweenNests ==
    ASSUME NEW F, NEW d, NEW low \in Stamped, NEW g \in Between(F, d, low)
    PROVE  Between(F, d, g) \subseteq Between(F, d, low)
<1> SUFFICES ASSUME NEW f \in Between(F, d, g) PROVE f \in Between(F, d, low)
  OBVIOUS
<1>1. /\ f \in Stamped /\ g \in Stamped
      /\ \A y \in Years : low[y] <= g[y] /\ g[y] <= f[y] /\ f[y] <= F[d][y]
  BY DEF Between
<1>2. \A y \in Years : f[y] \in Nat /\ g[y] \in Nat /\ low[y] \in Nat
  BY <1>1, StampedType
<1>3. \A y \in Years : low[y] <= f[y]
  BY <1>1, <1>2
<1> QED BY <1>1, <1>3 DEF Between

\* Of files that have not changed there is one thing to read.
LEMMA BetweenFixed ==
    ASSUME NEW F, NEW d, F[d] \in Stamped
    PROVE  /\ F[d] \in Between(F, d, F[d])
           /\ \A f \in Between(F, d, F[d]) : f = F[d]
<1>1. \A y \in Years : F[d][y] \in Nat
  BY StampedType
<1>2. F[d] \in Between(F, d, F[d])
  BY <1>1 DEF Between
<1>3. ASSUME NEW f \in Between(F, d, F[d]) PROVE f = F[d]
  <2>1. f \in Stamped /\ \A y \in Years : F[d][y] <= f[y] /\ f[y] <= F[d][y]
    BY <1>3 DEF Between
  <2>2. f \in [Years -> Nat] /\ F[d] \in [Years -> Nat]
    BY <2>1, StampedType
  <2>3. \A y \in Years : f[y] = F[d][y]
    BY <1>1, <2>1, <2>2
  <2> QED BY <2>2, <2>3
<1> QED BY <1>2, <1>3

\* A context is a set of candles.
LEMMA ContextsType ==
    ASSUME NEW F, NEW d, NEW g
    PROVE  Contexts(F, d, g) \subseteq SUBSET (Years \X Nat)
<1>1. Newest(g) \subseteq Years
  BY DEF Newest, Present
<1>2. \A f \in Between(F, d, g) : \A y \in Years : f[y] \in Nat
  BY StampedType DEF Between
<1> QED BY <1>1, <1>2 DEF Contexts

\* The candles of any files are an answer.
LEMMA CandlesType ==
    ASSUME NEW f \in Stamped
    PROVE  CandlesOf(f) \in Answer
<1>1. Newest(f) \subseteq Years /\ InRange(f) \subseteq Years
  BY DEF Newest, Present, InRange
<1>2. \A y \in Years : f[y] \in Nat
  BY StampedType
<1>3. {<<y, f[y]>> : y \in Newest(f)} \in SUBSET (Years \X Nat)
  BY <1>1, <1>2
<1> QED BY <1>1, <1>3 DEF CandlesOf, Answer

\* The context and the range of a session, although read one after the other
\* from files that other tools replace meanwhile, are candles that the dataset
\* may have held.
LEMMA PartsFit ==
    ASSUME NEW F, NEW d, NEW low \in Stamped, NEW g \in Between(F, d, low),
           NEW bars \in Contexts(F, d, g), NEW found \in Between(F, d, low)
    PROVE  [before |-> bars, replay |-> InRange(found)] \in Answers(F, d, low)
<1>1. PICK h \in Between(F, d, g) : bars = {<<y, h[y]>> : y \in Newest(g)}
  BY DEF Contexts
<1> DEFINE f == [y \in Years |-> IF y = Start THEN found[y]
                                 ELSE IF y \in Newest(g) THEN h[y] ELSE g[y]]
<1>2. /\ g \in Stamped /\ h \in Stamped /\ found \in Stamped
      /\ \A y \in Years : /\ low[y] <= g[y] /\ g[y] <= F[d][y]
                          /\ g[y] <= h[y] /\ h[y] <= F[d][y]
                          /\ low[y] <= found[y] /\ found[y] <= F[d][y]
  BY <1>1 DEF Between
<1>3. \A y \in Years : /\ g[y] \in Nat /\ h[y] \in Nat /\ found[y] \in Nat /\ low[y] \in Nat
                       /\ g[y] <= MaxStamp[y] /\ h[y] <= MaxStamp[y] /\ found[y] <= MaxStamp[y]
  BY <1>2, StampedType
<1>4. \A y \in Years : low[y] <= h[y]
  BY <1>2, <1>3
<1>5. f \in [Years -> Nat]
  BY <1>3
<1>6. \A y \in Years : f[y] <= MaxStamp[y] /\ low[y] <= f[y] /\ f[y] <= F[d][y]
  BY <1>2, <1>3, <1>4
<1>7. f \in Between(F, d, low)
  <2> HIDE DEF f
  <2> QED BY <1>5, <1>6, StampedIs DEF Between
<1>8. Start \in Years /\ Start \in Nat /\ Years \subseteq Nat
  BY DataAssumption
<1>9. \A y \in Years : y # Start => (y \in Present(f) <=> y \in Present(g))
  <2> SUFFICES ASSUME NEW y \in Years, y # Start PROVE f[y] > 0 <=> g[y] > 0
    BY DEF Present
  <2>1. CASE y \in Newest(g)
    <3>1. g[y] > 0 /\ f[y] = h[y]
      BY <2>1 DEF Newest, Present
    <3> QED BY <1>2, <1>3, <3>1
  <2>2. CASE y \notin Newest(g)
    BY <2>2
  <2> QED BY <2>1, <2>2
<1>10. Start \in Present(f) <=> Start \in Present(found)
  BY <1>8 DEF Present
<1>11. \A y \in Newest(g) : y # Start /\ f[y] = h[y]
  BY <1>8 DEF Newest, Present
<1> HIDE DEF f
<1>12. InRange(f) = InRange(found)
  BY <1>8, <1>10 DEF InRange
<1>13. Present(f) \subseteq Years /\ Present(g) \subseteq Years
  BY DEF Present
<1>14. \A y \in Years :
         {z \in Present(f) : y < z /\ z < Start} = {z \in Present(g) : y < z /\ z < Start}
  <2> SUFFICES ASSUME NEW y \in Years, NEW z \in Years, y < z /\ z < Start
               PROVE  z \in Present(f) <=> z \in Present(g)
    BY <1>13
  <2>1. z # Start
    BY <1>8
  <2> QED BY <1>9, <2>1
<1>15. Newest(f) = Newest(g)
  BY <1>8, <1>9, <1>13, <1>14 DEF Newest
<1>16. {<<y, f[y]>> : y \in Newest(f)} = bars
  BY <1>1, <1>11, <1>15
<1>17. CandlesOf(f) = [before |-> bars, replay |-> InRange(found)]
  BY <1>12, <1>16 DEF CandlesOf
<1> QED BY <1>7, <1>17 DEF Answers

-----------------------------------------------------------------------------
(* The caches *)

Distinct(c) == \A m, n \in DOMAIN c : c[m].key = c[n].key => m = n

\* Deleting a key leaves the others (del, pop).
LEMMA WithoutIs ==
    ASSUME NEW E, NEW c \in Seq(E), NEW k, Has(c, k), Distinct(c)
    PROVE  /\ Without(c, k) \in Seq(E) /\ Len(Without(c, k)) = Len(c) - 1
           /\ Distinct(Without(c, k)) /\ ~Has(Without(c, k), k)
           /\ \A j : j # k /\ Has(c, j) => Has(Without(c, k), j)
<1> DEFINE i == CHOOSE n \in DOMAIN c : c[n].key = k
           w == Without(c, k)
<1>1. DOMAIN c = 1 .. Len(c) /\ Len(c) \in Nat /\ \A n \in 1 .. Len(c) : c[n] \in E
  BY LenProperties
<1>2. i \in 1 .. Len(c) /\ c[i].key = k
  BY <1>1 DEF Has
<1> HIDE DEF i
<1> DEFINE front == SubSeq(c, 1, i - 1)
           back == SubSeq(c, i + 1, Len(c))
<1>3. w = front \o back
  BY DEF Without, RemoveAt, i
<1>4. front \in Seq(E) /\ Len(front) = i - 1 /\ \A n \in 1 .. i - 1 : front[n] = c[n]
  BY <1>1, <1>2, SubSeqProperties
<1>5. back \in Seq(E) /\ Len(back) = Len(c) - i /\ \A n \in 1 .. Len(c) - i : back[n] = c[i + n]
  <2>1. \A n \in i + 1 .. Len(c) : c[n] \in E
    BY <1>1, <1>2
  <2>2. i + 1 \in Int /\ Len(c) \in Int
    BY <1>1, <1>2
  <2>3. /\ back \in Seq(E)
        /\ Len(back) = IF i + 1 <= Len(c) THEN Len(c) - (i + 1) + 1 ELSE 0
        /\ \A n \in 1 .. Len(c) - (i + 1) + 1 : back[n] = c[(i + 1) + n - 1]
    BY <2>1, <2>2, SubSeqProperties
  <2> HIDE DEF back
  <2>4. Len(back) = Len(c) - i
    <3>1. CASE i + 1 <= Len(c)
      BY <1>1, <1>2, <2>3, <3>1
    <3>2. CASE ~(i + 1 <= Len(c))
      <4> DEFINE len == Len(c)
      <4>1. i \in 1 .. len /\ len \in Nat /\ ~(i + 1 <= len)
        BY <1>1, <1>2, <3>2
      <4> HIDE DEF len
      <4>2. i = len
        BY <4>1
      <4>3. Len(back) = 0
        BY <2>3, <3>2
      <4> QED BY <4>1, <4>2, <4>3 DEF len
    <3> QED BY <3>1, <3>2
  <2>5. ASSUME NEW n \in 1 .. Len(c) - i PROVE back[n] = c[i + n]
    <3>1. n \in 1 .. Len(c) - (i + 1) + 1 /\ (i + 1) + n - 1 = i + n
      BY <1>1, <1>2
    <3>2. back[n] = c[(i + 1) + n - 1]
      BY <2>3, <3>1
    <3> QED BY <3>1, <3>2
  <2> QED BY <2>3, <2>4, <2>5
<1> HIDE DEF w, front, back
<1>6. /\ w \in Seq(E) /\ Len(w) = Len(c) - 1
      /\ \A n \in 1 .. Len(c) - 1 : w[n] = IF n <= i - 1 THEN front[n] ELSE back[n - (i - 1)]
  <2>1. /\ front \o back \in Seq(E) /\ Len(front \o back) = Len(front) + Len(back)
        /\ \A n \in 1 .. Len(front) + Len(back) :
              (front \o back)[n] = IF n <= Len(front) THEN front[n] ELSE back[n - Len(front)]
    BY <1>4, <1>5, ConcatProperties
  <2>2. Len(front) + Len(back) = Len(c) - 1
    BY <1>1, <1>2, <1>4, <1>5
  <2> QED BY <1>3, <1>4, <2>1, <2>2
<1>7. \A n \in 1 .. Len(c) - 1 : w[n] = IF n < i THEN c[n] ELSE c[n + 1]
  <2> SUFFICES ASSUME NEW n \in 1 .. Len(c) - 1
               PROVE  w[n] = IF n < i THEN c[n] ELSE c[n + 1]
    OBVIOUS
  <2>1. w[n] = IF n <= i - 1 THEN front[n] ELSE back[n - (i - 1)]
    BY <1>6
  <2>2. CASE n < i
    BY <1>1, <1>2, <1>4, <2>1, <2>2
  <2>3. CASE ~(n < i)
    <3>1. n - (i - 1) \in 1 .. Len(c) - i /\ i + (n - (i - 1)) = n + 1 /\ ~(n <= i - 1)
      BY <1>1, <1>2, <2>3
    <3>2. w[n] = back[n - (i - 1)]
      BY <2>1, <3>1
    <3> QED BY <1>5, <2>3, <3>1, <3>2
  <2> QED BY <2>2, <2>3
<1>8. DOMAIN w = 1 .. Len(c) - 1
  BY <1>6
<1>9. Distinct(w)
  <2> SUFFICES ASSUME NEW m \in 1 .. Len(c) - 1, NEW n \in 1 .. Len(c) - 1, w[m].key = w[n].key
               PROVE  m = n
    BY <1>8 DEF Distinct
  <2> DEFINE p == IF m < i THEN m ELSE m + 1
             q == IF n < i THEN n ELSE n + 1
  <2>1. p \in DOMAIN c /\ q \in DOMAIN c /\ w[m] = c[p] /\ w[n] = c[q]
    BY <1>1, <1>2, <1>7
  <2>2. p = q
    BY <2>1 DEF Distinct
  <2> QED BY <1>1, <1>2, <2>2
<1>10. ~Has(w, k)
  <2> SUFFICES ASSUME NEW n \in 1 .. Len(c) - 1, w[n].key = k PROVE FALSE
    BY <1>8 DEF Has
  <2> DEFINE q == IF n < i THEN n ELSE n + 1
  <2>1. q \in DOMAIN c /\ w[n] = c[q] /\ q # i
    BY <1>1, <1>2, <1>7
  <2> QED BY <1>1, <1>2, <2>1 DEF Distinct
<1>11. ASSUME NEW j, j # k, Has(c, j) PROVE Has(w, j)
  <2>1. PICK n \in 1 .. Len(c) : c[n].key = j
    BY <1>1, <1>11 DEF Has
  <2>2. n # i
    BY <1>2, <1>11, <2>1
  <2> DEFINE q == IF n < i THEN n ELSE n - 1
  <2>3. q \in 1 .. Len(c) - 1 /\ w[q] = c[n]
    BY <1>1, <1>2, <1>7, <2>2
  <2> QED BY <1>8, <2>1, <2>3 DEF Has
<1> QED BY <1>6, <1>9, <1>10, <1>11 DEF w

\* The entry of a key is an entry of the cache and has that key.
LEMMA EntryIs ==
    ASSUME NEW E, NEW c \in Seq(E), NEW k, Has(c, k)
    PROVE  Entry(c, k) \in E /\ Entry(c, k).key = k
BY DEF Has, Entry

\* A new key may be appended without any key occurring twice.
LEMMA AppendedIs ==
    ASSUME NEW E, NEW c \in Seq(E), NEW e \in E, ~Has(c, e.key), Distinct(c)
    PROVE  /\ Append(c, e) \in Seq(E) /\ Len(Append(c, e)) = Len(c) + 1
           /\ Distinct(Append(c, e)) /\ Has(Append(c, e), e.key)
           /\ \A j : Has(c, j) => Has(Append(c, e), j)
<1> DEFINE a == Append(c, e)
<1>1. /\ a \in Seq(E) /\ Len(a) = Len(c) + 1 /\ Len(c) \in Nat
      /\ \A n \in 1 .. Len(c) : a[n] = c[n]
      /\ a[Len(c) + 1] = e
  BY AppendProperties
<1>2. DOMAIN a = 1 .. Len(c) + 1 /\ DOMAIN c = 1 .. Len(c)
  BY <1>1
<1> HIDE DEF a
<1>3. \A n \in 1 .. Len(c) : c[n].key # e.key
  BY <1>2 DEF Has
<1>4. Distinct(a)
  <2> SUFFICES ASSUME NEW m \in 1 .. Len(c) + 1, NEW n \in 1 .. Len(c) + 1, a[m].key = a[n].key
               PROVE  m = n
    BY <1>2 DEF Distinct
  <2>1. CASE m \in 1 .. Len(c) /\ n \in 1 .. Len(c)
    BY <1>1, <1>2, <2>1 DEF Distinct
  <2>2. CASE m = Len(c) + 1 /\ n \in 1 .. Len(c)
    BY <1>1, <1>3, <2>2
  <2>3. CASE n = Len(c) + 1 /\ m \in 1 .. Len(c)
    BY <1>1, <1>3, <2>3
  <2> QED BY <1>1, <2>1, <2>2, <2>3
<1>5. Has(a, e.key)
  <2>1. Len(c) + 1 \in DOMAIN a
    BY <1>1, <1>2
  <2> QED BY <1>1, <2>1 DEF Has
<1>6. \A j : Has(c, j) => Has(a, j)
  BY <1>1, <1>2 DEF Has
<1> QED BY <1>1, <1>4, <1>5, <1>6 DEF a

\* move_to_end keeps the keys and the length.
LEMMA MovedIs ==
    ASSUME NEW E, NEW c \in Seq(E), NEW k, Has(c, k), Distinct(c)
    PROVE  /\ MovedToEnd(c, k) \in Seq(E) /\ Len(MovedToEnd(c, k)) = Len(c)
           /\ Distinct(MovedToEnd(c, k))
           /\ \A j : Has(c, j) => Has(MovedToEnd(c, k), j)
<1>1. /\ Without(c, k) \in Seq(E) /\ Len(Without(c, k)) = Len(c) - 1
      /\ Distinct(Without(c, k)) /\ ~Has(Without(c, k), k)
      /\ \A j : j # k /\ Has(c, j) => Has(Without(c, k), j)
  BY WithoutIs
<1>2. Entry(c, k) \in E /\ Entry(c, k).key = k
  BY EntryIs
<1>3. MovedToEnd(c, k) = Append(Without(c, k), Entry(c, k))
  BY DEF MovedToEnd
<1> DEFINE w == Without(c, k)
           e == Entry(c, k)
<1>4. /\ w \in Seq(E) /\ e \in E /\ ~Has(w, e.key) /\ Distinct(w) /\ e.key = k
      /\ Len(w) = Len(c) - 1 /\ MovedToEnd(c, k) = Append(w, e)
      /\ \A j : j # k /\ Has(c, j) => Has(w, j)
  BY <1>1, <1>2, <1>3
<1> HIDE DEF w, e
<1>5. /\ Append(w, e) \in Seq(E) /\ Len(Append(w, e)) = Len(w) + 1
      /\ Distinct(Append(w, e)) /\ Has(Append(w, e), e.key)
      /\ \A j : Has(w, j) => Has(Append(w, e), j)
  BY <1>4, AppendedIs
<1>6. Len(c) \in Nat
  OBVIOUS
<1>7. \A j : Has(c, j) => Has(MovedToEnd(c, k), j)
  BY <1>4, <1>5
<1> QED BY <1>4, <1>5, <1>6, <1>7

\* An assignment adds the key, or replaces its value in place.
LEMMA AssignedIs ==
    ASSUME NEW K, NEW V, NEW E \in SUBSET [key : K, value : V],
           NEW c \in Seq(E), NEW k, NEW v, [key |-> k, value |-> v] \in E, Distinct(c)
    PROVE  /\ Assigned(c, k, v) \in Seq(E)
           /\ Len(Assigned(c, k, v)) = IF Has(c, k) THEN Len(c) ELSE Len(c) + 1
           /\ Distinct(Assigned(c, k, v)) /\ Has(Assigned(c, k, v), k)
           /\ \A j : Has(c, j) => Has(Assigned(c, k, v), j)
<1>1. CASE ~Has(c, k)
  <2> DEFINE e == [key |-> k, value |-> v]
  <2>1. e.key = k /\ e \in E
    OBVIOUS
  <2>2. Assigned(c, k, v) = Append(c, e)
    BY <1>1 DEF Assigned
  <2> HIDE DEF e
  <2>3. ~Has(c, e.key)
    BY <1>1, <2>1
  <2> QED BY <1>1, <2>1, <2>2, <2>3, AppendedIs
<1>2. CASE Has(c, k)
  <2> DEFINE a == [i \in DOMAIN c |-> IF c[i].key = k THEN [c[i] EXCEPT !.value = v] ELSE c[i]]
  <2>1. Assigned(c, k, v) = a
    BY <1>2 DEF Assigned
  <2>2. DOMAIN c = 1 .. Len(c) /\ Len(c) \in Nat
    OBVIOUS
  <2>3. \A i \in DOMAIN c : a[i] \in E /\ a[i].key = c[i].key
    <3> SUFFICES ASSUME NEW i \in DOMAIN c PROVE a[i] \in E /\ a[i].key = c[i].key
      OBVIOUS
    <3>1. c[i] \in E /\ c[i] = [key |-> c[i].key, value |-> c[i].value]
      BY <2>2
    <3>2. CASE c[i].key = k
      <4>1. [c[i] EXCEPT !.value = v] = [key |-> k, value |-> v]
        BY <3>1, <3>2
      <4> QED BY <3>2, <4>1
    <3> QED BY <3>1, <3>2
  <2>4. DOMAIN a = 1 .. Len(c)
    BY <2>2
  <2>5. a \in [1 .. Len(c) -> E]
    BY <2>2, <2>3
  <2> HIDE DEF a
  <2>6. a \in Seq(E) /\ Len(a) = Len(c)
    BY <2>2, <2>5
  <2>7. Distinct(a) /\ \A j : Has(c, j) => Has(a, j)
    BY <2>2, <2>3, <2>4 DEF Distinct, Has
  <2> QED BY <1>2, <2>1, <2>6, <2>7
<1> QED BY <1>1, <1>2

\* The eviction loop leaves at most the capacity, and no key twice.
LEMMA EvictedIs ==
    ASSUME NEW E, NEW c \in Seq(E), NEW cap \in Nat, Distinct(c)
    PROVE  /\ Evicted(c, cap) \in Seq(E) /\ Len(Evicted(c, cap)) <= cap
           /\ Distinct(Evicted(c, cap))
<1>1. DOMAIN c = 1 .. Len(c) /\ Len(c) \in Nat
  OBVIOUS
<1>2. CASE Len(c) <= cap
  <2>1. Evicted(c, cap) = c
    BY <1>1, <1>2 DEF Evicted
  <2> QED BY <1>2, <2>1
<1>3. CASE ~(Len(c) <= cap)
  <2> DEFINE m == Len(c) - cap + 1
             s == SubSeq(c, m, Len(c))
  <2>1. m \in Nat /\ m >= 2 /\ m <= Len(c) + 1
    BY <1>1, <1>3
  <2>2. Evicted(c, cap) = s
    BY <1>1, <1>3 DEF Evicted
  <2>3. \A n \in m .. Len(c) : c[n] \in E
    BY <1>1, <2>1
  <2>4. /\ s \in Seq(E) /\ Len(s) = IF m <= Len(c) THEN Len(c) - m + 1 ELSE 0
        /\ \A n \in 1 .. Len(c) - m + 1 : s[n] = c[m + n - 1]
    <3> HIDE DEF m
    <3> QED BY <1>1, <2>1, <2>3, SubSeqProperties
  <2>5. Len(s) = cap /\ \A n \in 1 .. cap : s[n] = c[m + n - 1]
    <3>1. Len(c) - m + 1 = cap
      BY <1>1
    <3> HIDE DEF m, s
    <3> QED BY <1>1, <2>1, <2>4, <3>1
  <2>6. DOMAIN s = 1 .. cap /\ \A n \in 1 .. cap : m + n - 1 \in DOMAIN c
    <3>1. \A n \in 1 .. cap : m + n - 1 \in DOMAIN c
      BY <1>1, <1>3
    <3> HIDE DEF m, s
    <3> QED BY <2>4, <2>5, <3>1
  <2> HIDE DEF s
  <2>7. Distinct(s)
    <3> SUFFICES ASSUME NEW j \in 1 .. cap, NEW n \in 1 .. cap, s[j].key = s[n].key PROVE j = n
      BY <2>6 DEF Distinct
    <3>1. m + j - 1 \in DOMAIN c /\ m + n - 1 \in DOMAIN c
      BY <2>6
    <3>2. c[m + j - 1].key = c[m + n - 1].key
      BY <2>5
    <3>3. m + j - 1 = m + n - 1
      <4> HIDE DEF m
      <4> QED BY <3>1, <3>2 DEF Distinct
    <3> QED BY <2>1, <3>3
  <2> QED BY <2>2, <2>4, <2>5, <2>7
<1> QED BY <1>2, <1>3

-----------------------------------------------------------------------------
(* The invariant *)

ScanDoing == {"size", "signature", "scan", "range"}
Signed == {"entry", "scan", "bars", "range", "keep"}

\* The steps of each thing a request does.
StepsOf(doing) ==
    CASE doing = "nothing" -> {"idle"}
      [] doing = "count" -> {"count"}
      [] doing \in ScanDoing -> {"get", "touch", "scan", "insert", "settle"}
      [] doing = "bars" -> {"get", "touch", "read", "insert", "settle"}
      [] doing = "entry" -> {"get", "touch"}
      [] doing = "keep" -> {"insert", "settle"}

Requests ==
    [step : {"idle", "count", "get", "touch", "scan", "read", "insert", "settle"},
     doing : {"nothing", "count"} \cup ScanDoing \cup Signed,
     session : Sessions \cup {None}, set : Datasets \cup {None},
     found : Stamped, signature : Stamped, since : Stamped,
     bars : SUBSET (Years \X Nat), todo : SUBSET Years, candles : Answer \cup {None}]

\* The datasets that sessions may read: what is staged is not among them.
Served(B) == B \cup {Legacy}

\* What a request may read is no older than the files were when it began, and,
\* once it has a signature, no older than that.
Low(q, F) == IF q.set = Legacy THEN q.since ELSE F[q.set]
Base(q, F) == IF q.doing \in Signed THEN q.signature ELSE Low(q, F)

\* The context being read: the newest candles first, each as its file holds it.
ReadingOK(q, F) ==
    LET before == {y \in Present(q.found) : y < Start}
        seen == before \ q.todo
    IN  /\ q.todo \subseteq before
        /\ \A y \in seen, z \in q.todo : z < y
        /\ seen \subseteq Newest(q.found)
        /\ \E f \in Between(F, q.set, q.found) : q.bars = {<<y, f[y]>> : y \in seen}
        /\ Cardinality(seen) < Limit

RequestOK(q, F) ==
    /\ q.step \in StepsOf(q.doing)
    /\ q.doing # "nothing" =>
         /\ q.set \in Datasets /\ q.session \in Sessions
         /\ F[q.set] \in Stamped
         /\ \A y \in Years : Low(q, F)[y] <= F[q.set][y]
    /\ q.doing \in Signed => q.signature \in Between(F, q.set, Low(q, F))
    /\ q.doing \in ScanDoing /\ q.step \in {"touch", "insert", "settle"} =>
         q.found \in Between(F, q.set, Base(q, F))
    /\ q.doing \in ScanDoing /\ q.step = "insert" => q.set # Legacy
    /\ q.doing \in {"bars", "keep"} => q.found \in Between(F, q.set, q.signature)
    /\ q.doing \notin {"bars", "range", "keep"} \/ (q.doing = "bars" /\ q.step = "get") => q.bars = {}
    /\ q.step = "read" => ReadingOK(q, F)
    /\ q.doing = "bars" /\ q.step \in {"touch", "insert", "settle"} =>
         q.bars \in Contexts(F, q.set, q.found)
    /\ q.doing \in {"range", "keep"} =>
         \E g \in Between(F, q.set, q.signature) : q.bars \in Contexts(F, q.set, g)
    /\ q.candles # None => q.doing # "nothing" /\ q.candles \in Answers(F, q.set, Low(q, F))
    /\ q.doing = "keep" /\ q.step = "settle" => q.candles # None

\* Nobody else serves a session that is being created, and it is not saved yet.
CreatedAlone(R, P) ==
    \A r \in Readers : R[r].doing \in {"size", "count"} =>
        /\ P[R[r].session] = None
        /\ \A q \in Readers : q # r /\ R[q].doing # "nothing" => R[q].session # R[r].session

RequestsOK ==
    /\ read \in [Readers -> Requests]
    /\ \A r \in Readers : RequestOK(read[r], files) /\ read[r].set \in Served(batches) \cup {None}
    /\ CreatedAlone(read, pinned)

StoreOK ==
    /\ files \in [Datasets -> Stamped]
    /\ raw \subseteq Versions /\ batches \subseteq begun /\ begun \subseteq Versions
    /\ current \in Served(batches) \cup {None}
    /\ pinned \in [Sessions -> Served(batches) \cup {None}]
    /\ \A v \in batches : files[v] = Whole(v) /\ v \in raw
    /\ \A v \in Versions \ begun : files[v] = Missing

Staging == {"years", "raw", "publish", "drop files", "drop raw"}
Stages == Staging \cup {"idle", "list bars", "drop bars", "list scans", "drop scans"}

\* A year is written or waits to be; what was recorded is staged no more.
ImportOK(m, F, R, B) ==
    /\ m \in [stage : Stages, version : {m.version}, keys : {m.keys}] /\ (m.stage = "idle" <=> m.version = None)
    /\ m.stage = "years" =>
         /\ m.keys \in Seq(Source[m.version]) /\ m.keys # <<>>
         /\ \A y \in Years : \/ F[m.version][y] = Whole(m.version)[y]
                             \/ F[m.version][y] = 0 /\ \E k \in DOMAIN m.keys : m.keys[k] = y
    /\ m.stage \in {"raw", "publish"} => F[m.version] = Whole(m.version)
    /\ m.stage = "publish" => m.version \in R
    /\ m.stage \in Staging => m.version \notin B

ImportsOK ==
    /\ import = [i \in Importers |-> import[i]]
    /\ \A i \in Importers :
          import[i].version \in begun \cup {None} /\ ImportOK(import[i], files, raw, batches)
    /\ \A i, j \in Importers : import[i].version = import[j].version => i = j \/ import[i].version = None

\* What each cache may hold: whole versions, contexts, answers.
Entries(c, F, B) ==
    CASE c = "scans" -> {[key |-> v, value |-> Whole(v)] : v \in B}
      [] c = "bars" -> {e \in [key : Served(B) \X Stamped, value : SUBSET (Years \X Nat)] :
                          e.value \in Contexts(F, e.key[1], e.key[2])}
      [] c = "sessions" ->
           {e \in [key : Sessions, value : [set : Served(B), signature : Stamped, candles : Answer]] :
              e.value.candles \in Answers(F, e.value.set, e.value.signature)}

CachesOK ==
    /\ cache = [c \in Caches |-> cache[c]]
    /\ \A c \in Caches : cache[c] \in Seq(Entries(c, files, batches)) /\ Distinct(cache[c])

\* The keys that are in a cache and whose insertion is not over.
CacheIn(q) ==
    CASE q.doing \in ScanDoing -> "scans"
      [] q.doing = "bars" -> "bars"
      [] q.doing \in {"entry", "keep"} -> "sessions"
KeyIn(q) ==
    CASE CacheIn(q) = "scans" -> q.set
      [] CacheIn(q) = "bars" -> <<q.set, q.found>>
      [] CacheIn(q) = "sessions" -> q.session
Inserting(R, c) == {r \in Readers : R[r].step = "settle" /\ CacheIn(R[r]) = c}
Settling(C, R, c) == {k \in {KeyIn(R[r]) : r \in Inserting(R, c)} : Has(C[c], k)}

SizesOK ==
    \A c \in Caches : Len(cache[c]) <= Capacity[c] + Cardinality(Settling(cache, read, c))

ImportInv == StoreOK /\ ImportsOK /\ RequestsOK /\ CachesOK /\ SizesOK

-----------------------------------------------------------------------------
(* The store changes under a request *)

\* As files are replaced, what may have been read of them only grows.
LEMMA ContextsGrow ==
    ASSUME NEW F, NEW G, NEW d, F[d] \in Stamped, G[d] \in Stamped,
           \A y \in Years : F[d][y] <= G[d][y]
    PROVE  /\ \A low : Between(F, d, low) \subseteq Between(G, d, low)
           /\ \A g : Contexts(F, d, g) \subseteq Contexts(G, d, g)
           /\ \A low : Answers(F, d, low) \subseteq Answers(G, d, low)
<1>1. \A low : Between(F, d, low) \subseteq Between(G, d, low)
  BY BetweenGrows
<1>2. \A g : Contexts(F, d, g) \subseteq Contexts(G, d, g)
  BY <1>1 DEF Contexts
<1>3. \A low : Answers(F, d, low) \subseteq Answers(G, d, low)
  BY <1>1 DEF Answers
<1> QED BY <1>1, <1>2, <1>3

\* A request stays in order while the files of its dataset grow newer and those of a
\* version stay.
LEMMA RequestLives ==
    ASSUME NEW F, NEW G, NEW q \in Requests, RequestOK(q, F),
           q.set \in Datasets =>
              /\ F[q.set] \in Stamped /\ G[q.set] \in Stamped
              /\ \A y \in Years : F[q.set][y] <= G[q.set][y]
              /\ q.set # Legacy => G[q.set] = F[q.set]
    PROVE  RequestOK(q, G)
<1>1. CASE q.doing = "nothing"
  BY <1>1 DEF RequestOK, StepsOf, ScanDoing, Signed
<1>2. CASE q.doing # "nothing"
  <2>1. /\ F[q.set] \in Stamped /\ G[q.set] \in Stamped
        /\ \A y \in Years : F[q.set][y] <= G[q.set][y]
        /\ Low(q, G) = Low(q, F) /\ Base(q, G) = Base(q, F)
    BY <1>2 DEF RequestOK, Low, Base
  <2>2. /\ \A low : Between(F, q.set, low) \subseteq Between(G, q.set, low)
        /\ \A g : Contexts(F, q.set, g) \subseteq Contexts(G, q.set, g)
        /\ \A low : Answers(F, q.set, low) \subseteq Answers(G, q.set, low)
    BY <2>1, ContextsGrow
  <2>3. \A y \in Years : Low(q, F)[y] <= F[q.set][y]
    BY <1>2 DEF RequestOK
  <2>4. Low(q, F) \in Stamped
    BY <2>1 DEF Low, Requests
  <2>5. \A y \in Years : Low(q, F)[y] <= G[q.set][y]
    <3>1. \A y \in Years : Low(q, F)[y] \in Nat /\ F[q.set][y] \in Nat /\ G[q.set][y] \in Nat
      BY <2>1, <2>4, StampedType
    <3> QED BY <2>1, <2>3, <3>1
  <2>6. ASSUME ReadingOK(q, F) PROVE ReadingOK(q, G)
    BY <2>2, <2>6 DEF ReadingOK
  <2>7. /\ q.step \in StepsOf(q.doing)
        /\ q.set \in Datasets /\ q.session \in Sessions
        /\ q.doing \in ScanDoing /\ q.step = "insert" => q.set # Legacy
        /\ q.doing \notin {"bars", "range", "keep"} \/ (q.doing = "bars" /\ q.step = "get") => q.bars = {}
        /\ q.doing = "keep" /\ q.step = "settle" => q.candles # None
    BY <1>2 DEF RequestOK
  <2>8. /\ q.doing \in Signed => q.signature \in Between(G, q.set, Low(q, G))
        /\ q.doing \in ScanDoing /\ q.step \in {"touch", "insert", "settle"} =>
              q.found \in Between(G, q.set, Base(q, G))
        /\ q.doing \in {"bars", "keep"} => q.found \in Between(G, q.set, q.signature)
    BY <2>1, <2>2 DEF RequestOK
  <2>9. /\ q.doing = "bars" /\ q.step \in {"touch", "insert", "settle"} =>
             q.bars \in Contexts(G, q.set, q.found)
        /\ q.doing \in {"range", "keep"} =>
             \E g \in Between(G, q.set, q.signature) : q.bars \in Contexts(G, q.set, g)
        /\ q.candles # None => q.doing # "nothing" /\ q.candles \in Answers(G, q.set, Low(q, G))
    BY <2>1, <2>2 DEF RequestOK
  <2>10. q.step = "read" => ReadingOK(q, G)
    BY <2>6 DEF RequestOK
  <2> QED BY <2>1, <2>5, <2>7, <2>8, <2>9, <2>10 DEF RequestOK
<1> QED BY <1>1, <1>2

\* What is kept in a cache stays in order as versions appear and files grow newer.
LEMMA EntriesGrow ==
    ASSUME NEW F, NEW G, NEW A, NEW B, A \subseteq B, NEW c \in Caches,
           \A d \in Served(A) : /\ F[d] \in Stamped /\ G[d] \in Stamped
                                /\ \A y \in Years : F[d][y] <= G[d][y]
    PROVE  Entries(c, F, A) \subseteq Entries(c, G, B)
<1>1. \A d \in Served(A) :
         /\ \A g : Contexts(F, d, g) \subseteq Contexts(G, d, g)
         /\ \A low : Answers(F, d, low) \subseteq Answers(G, d, low)
  BY ContextsGrow
<1>2. Served(A) \subseteq Served(B)
  BY DEF Served
<1>3. CASE c = "scans"
  BY <1>3 DEF Entries
<1>4. CASE c = "bars"
  <2>1. /\ Entries(c, F, A) = {e \in [key : Served(A) \X Stamped, value : SUBSET (Years \X Nat)] :
                                  e.value \in Contexts(F, e.key[1], e.key[2])}
        /\ Entries(c, G, B) = {e \in [key : Served(B) \X Stamped, value : SUBSET (Years \X Nat)] :
                                  e.value \in Contexts(G, e.key[1], e.key[2])}
    BY <1>4 DEF Entries
  <2> SUFFICES ASSUME NEW e \in [key : Served(A) \X Stamped, value : SUBSET (Years \X Nat)],
                      e.value \in Contexts(F, e.key[1], e.key[2])
               PROVE  /\ e \in [key : Served(B) \X Stamped, value : SUBSET (Years \X Nat)]
                      /\ e.value \in Contexts(G, e.key[1], e.key[2])
    BY <2>1
  <2>2. e.key[1] \in Served(A) /\ e.key \in Served(B) \X Stamped
    BY <1>2
  <2> QED BY <1>1, <2>2
<1>5. CASE c = "sessions"
  <2>1. \A X, S : Entries(c, X, S) =
           {e \in [key : Sessions, value : [set : Served(S), signature : Stamped, candles : Answer]] :
              e.value.candles \in Answers(X, e.value.set, e.value.signature)}
    BY <1>5 DEF Entries
  <2> SUFFICES ASSUME NEW e \in [key : Sessions, value : [set : Served(A), signature : Stamped, candles : Answer]],
                      e.value.candles \in Answers(F, e.value.set, e.value.signature)
               PROVE  /\ e \in [key : Sessions, value : [set : Served(B), signature : Stamped, candles : Answer]]
                      /\ e.value.candles \in Answers(G, e.value.set, e.value.signature)
    BY <2>1
  <2> QED BY <1>1, <1>2
<1> QED BY <1>3, <1>4, <1>5 DEF Caches

-----------------------------------------------------------------------------
(* The steps of a request *)

\* A reader with nothing to do is in order.
LEMMA NoReadOK ==
    /\ NoRead \in Requests /\ NoRead.set = None /\ NoRead.doing = "nothing" /\ NoRead.step = "idle"
    /\ \A F : RequestOK(NoRead, F)
<1>1. NoRead \in Requests
  BY WholeIsStamped DEF NoRead, Requests
<1>2. \A F : RequestOK(NoRead, F)
  BY DEF NoRead, RequestOK, StepsOf, ScanDoing, Signed
<1> QED BY <1>1, <1>2 DEF NoRead

\* A request that is done with a lookup is in order at the next, and keeps its session
\* and its dataset.
LEMMA OnwardsOK ==
    ASSUME NEW F, NEW q \in Requests, RequestOK(q, F), q.doing # "nothing",
           \/ q.step \in {"count", "touch", "settle"}
           \/ q.step = "get" /\ q.doing = "entry"
           \/ q.step = "scan" /\ q.found \in Between(F, q.set, Base(q, F))
    PROVE  /\ Onwards(q) \in Requests /\ RequestOK(Onwards(q), F)
           /\ \/ Onwards(q) = NoRead
              \/ /\ Onwards(q).session = q.session /\ Onwards(q).set = q.set
                 /\ Onwards(q).doing \in {"size", "count"} => q.doing \in {"size", "count"}
                 /\ Onwards(q).doing = "count" \/ q.doing # "size"
                 /\ q.doing = "count" => Onwards(q).doing = "signature"
<1> DEFINE p == Onwards(q)
<1>1. CASE q.candles # None
  BY <1>1, NoReadOK DEF Onwards
<1>2. CASE q.candles = None
  <2>1. p = [q EXCEPT !.doing = Following[q.doing],
                      !.step = CASE q.doing = "size" -> "count"
                                 [] q.doing = "range" -> "insert"
                                 [] OTHER -> "get",
                      !.found = IF q.doing \in {"size", "scan", "range"} THEN @ ELSE Missing,
                      !.signature = IF q.doing = "signature" THEN q.found ELSE @]
    BY <1>2 DEF Onwards
  <2>2. Missing \in Stamped
    BY WholeIsStamped
  <2>3. q.doing \in {"size", "count", "signature", "entry", "scan", "bars", "range"}
    BY <1>2 DEF RequestOK, Requests, ScanDoing, Signed, StepsOf
  <2>4. CASE q.doing = "size"
    <3>1. p = [q EXCEPT !.doing = "count", !.step = "count", !.found = q.found, !.signature = q.signature]
      BY <2>1, <2>4 DEF Following, Requests
    <3>2. p \in Requests
      BY <3>1 DEF Requests
    <3>3. RequestOK(p, F)
      BY <1>2, <2>4, <3>1 DEF RequestOK, StepsOf, ScanDoing, Signed, Low, Base, Requests
    <3> QED BY <2>4, <3>1, <3>2, <3>3 DEF Requests
  <2>5. CASE q.doing = "count"
    <3>1. p = [q EXCEPT !.doing = "signature", !.step = "get", !.found = Missing, !.signature = q.signature]
      BY <2>1, <2>5 DEF Following, Requests
    <3>2. p \in Requests
      BY <2>2, <3>1 DEF Requests, ScanDoing, Signed
    <3>3. RequestOK(p, F)
      BY <1>2, <2>5, <3>1 DEF RequestOK, StepsOf, ScanDoing, Signed, Low, Base, Requests
    <3> QED BY <2>5, <3>1, <3>2, <3>3 DEF Requests
  <2>6. CASE q.doing = "signature"
    <3>1. p = [q EXCEPT !.doing = "entry", !.step = "get", !.found = Missing, !.signature = q.found]
      BY <2>1, <2>6 DEF Following, Requests
    <3>2. p \in Requests
      BY <2>2, <3>1 DEF Requests, ScanDoing, Signed
    <3>3. q.found \in Between(F, q.set, Low(q, F))
      BY <2>6 DEF RequestOK, StepsOf, ScanDoing, Signed, Base
    <3>4. RequestOK(p, F)
      BY <1>2, <2>6, <3>1, <3>3 DEF RequestOK, StepsOf, ScanDoing, Signed, Low, Base, Requests
    <3> QED BY <2>6, <3>1, <3>2, <3>4 DEF Requests
  <2>7. CASE q.doing = "entry"
    <3>1. p = [q EXCEPT !.doing = "scan", !.step = "get", !.found = Missing, !.signature = q.signature]
      BY <2>1, <2>7 DEF Following, Requests
    <3>2. p \in Requests
      BY <2>2, <3>1 DEF Requests, ScanDoing, Signed
    <3>3. RequestOK(p, F)
      BY <1>2, <2>7, <3>1 DEF RequestOK, StepsOf, ScanDoing, Signed, Low, Base, Requests
    <3> QED BY <2>7, <3>1, <3>2, <3>3 DEF Requests
  <2>8. CASE q.doing = "scan"
    <3>1. p = [q EXCEPT !.doing = "bars", !.step = "get", !.found = q.found, !.signature = q.signature]
      BY <2>1, <2>8 DEF Following, Requests
    <3>2. p \in Requests
      BY <3>1 DEF Requests, ScanDoing, Signed
    <3>3. q.found \in Between(F, q.set, q.signature)
      BY <2>8 DEF RequestOK, StepsOf, ScanDoing, Signed, Base
    <3>4. RequestOK(p, F)
      BY <1>2, <2>8, <3>1, <3>3 DEF RequestOK, StepsOf, ScanDoing, Signed, Low, Base, Requests
    <3> QED BY <2>8, <3>1, <3>2, <3>4 DEF Requests
  <2>9. CASE q.doing = "bars"
    <3>1. p = [q EXCEPT !.doing = "range", !.step = "get", !.found = Missing, !.signature = q.signature]
      BY <2>1, <2>9 DEF Following, Requests
    <3>2. p \in Requests
      BY <2>2, <3>1 DEF Requests, ScanDoing, Signed
    <3>3. q.found \in Between(F, q.set, q.signature) /\ q.bars \in Contexts(F, q.set, q.found)
      BY <2>9 DEF RequestOK, StepsOf, ScanDoing
    <3>4. RequestOK(p, F)
      BY <1>2, <2>9, <3>1, <3>3 DEF RequestOK, StepsOf, ScanDoing, Signed, Low, Base, Requests
    <3> QED BY <2>9, <3>1, <3>2, <3>4 DEF Requests
  <2>10. CASE q.doing = "range"
    <3>1. p = [q EXCEPT !.doing = "keep", !.step = "insert", !.found = q.found, !.signature = q.signature]
      BY <2>1, <2>10 DEF Following, Requests
    <3>2. p \in Requests
      BY <3>1 DEF Requests, ScanDoing, Signed
    <3>3. q.found \in Between(F, q.set, q.signature)
      BY <2>10 DEF RequestOK, StepsOf, ScanDoing, Signed, Base
    <3>4. RequestOK(p, F)
      BY <1>2, <2>10, <3>1, <3>3 DEF RequestOK, StepsOf, ScanDoing, Signed, Low, Base, Requests
    <3> QED BY <2>10, <3>1, <3>2, <3>4 DEF Requests
  <2> QED BY <2>3, <2>4, <2>5, <2>6, <2>7, <2>8, <2>9, <2>10
<1> QED BY <1>1, <1>2

\* Each year has one candle, so that candles are counted by their years.
LEMMA PairsCount ==
    ASSUME NEW S, IsFiniteSet(S), NEW f
    PROVE  Cardinality({<<y, f[y]>> : y \in S}) = Cardinality(S)
<1> DEFINE T == {<<y, f[y]>> : y \in S}
           pair == [y \in S |-> <<y, f[y]>>]
<1>1. pair \in [S -> T] /\ \A y \in S : pair[y] = <<y, f[y]>>
  OBVIOUS
<1>2. \A t \in T : \E y \in S : pair[y] = t
  BY <1>1
<1> HIDE DEF pair
<1>3. \A y, z \in S : pair[y] = pair[z] => y = z
  BY <1>1
<1> HIDE DEF T
<1>4. pair \in Bijection(S, T)
  BY <1>1, <1>2, <1>3 DEF Bijection, Injection, Surjection, IsInjective
<1>5. ExistsBijection(S, T)
  BY <1>4 DEF ExistsBijection
<1>6. Cardinality(T) = Cardinality(S)
  BY <1>5, FS_Bijection
<1> QED BY <1>6 DEF T

\* One more file of the context: the newest that is left.
NewestLeft(q) == {y \in q.todo : \A z \in q.todo : z <= y}
BarsAfter(q, F) == q.bars \cup {<<y, F[q.set][y]>> : y \in NewestLeft(q)}
LeftAfter(q, F) == IF Cardinality(BarsAfter(q, F)) >= Limit THEN {} ELSE q.todo \ NewestLeft(q)

\* One more file read: either the context is complete or reading is still in order.
LEMMA ReadingGoesOn ==
    ASSUME NEW F, NEW q \in Requests, F[q.set] \in Stamped, ReadingOK(q, F),
           \A y \in Years : q.found[y] <= F[q.set][y]
    PROVE  /\ BarsAfter(q, F) \in SUBSET (Years \X Nat) /\ LeftAfter(q, F) \in SUBSET Years
           /\ LeftAfter(q, F) = {} => BarsAfter(q, F) \in Contexts(F, q.set, q.found)
           /\ LeftAfter(q, F) # {} =>
                ReadingOK([q EXCEPT !.bars = BarsAfter(q, F), !.todo = LeftAfter(q, F), !.step = "read"], F)
<1> DEFINE newest == NewestLeft(q)
           bars == BarsAfter(q, F)
           left == LeftAfter(q, F)
<1>0. /\ newest = {y \in q.todo : \A z \in q.todo : z <= y}
      /\ bars = q.bars \cup {<<y, F[q.set][y]>> : y \in newest}
      /\ left = IF Cardinality(bars) >= Limit THEN {} ELSE q.todo \ newest
  BY DEF NewestLeft, BarsAfter, LeftAfter
<1> HIDE DEF newest, bars, left
<1> DEFINE before == {y \in Present(q.found) : y < Start}
           seen == before \ q.todo
           now == seen \cup newest
<1>1. /\ q.todo \subseteq before /\ \A y \in seen, z \in q.todo : z < y
      /\ seen \subseteq Newest(q.found) /\ Cardinality(seen) < Limit
  BY DEF ReadingOK
<1>2. PICK f \in Between(F, q.set, q.found) : q.bars = {<<y, f[y]>> : y \in seen}
  BY DEF ReadingOK
<1>3. /\ before \subseteq Years /\ Years \subseteq Nat /\ IsFiniteSet(Years) /\ Start \in Nat
      /\ Limit \in Nat /\ Start \in Years
  BY DataAssumption DEF Present
<1>4. IsFiniteSet(q.todo) /\ q.todo \in SUBSET Nat /\ IsFiniteSet(before) /\ before \in SUBSET Nat
  BY <1>1, <1>3, FS_Subset
<1>5. newest \subseteq q.todo /\ \A y, z \in newest : y = z
  BY <1>0, <1>4
<1>7. now = before \ (q.todo \ newest)
  BY <1>1, <1>5
<1>8. f \in Stamped /\ \A y \in Years : q.found[y] <= f[y] /\ f[y] <= F[q.set][y]
  BY <1>2 DEF Between
<1> DEFINE g == [y \in Years |-> IF y \in newest THEN F[q.set][y] ELSE f[y]]
<1>9. g \in Between(F, q.set, q.found)
  <2>1. \A y \in Years : /\ f[y] \in Nat /\ F[q.set][y] \in Nat
                         /\ f[y] <= MaxStamp[y] /\ F[q.set][y] <= MaxStamp[y]
    BY <1>8, StampedType
  <2>2. g \in [Years -> Nat]
    BY <2>1
  <2>3. \A y \in Years : g[y] <= MaxStamp[y] /\ q.found[y] <= g[y] /\ g[y] <= F[q.set][y]
    BY <1>8, <2>1
  <2> HIDE DEF g
  <2> QED BY <2>2, <2>3, StampedIs DEF Between
<1>10. bars = {<<y, g[y]>> : y \in now}
  <2>1. \A y \in seen : y \notin newest /\ y \in Years /\ g[y] = f[y]
    BY <1>3, <1>5
  <2>2. \A y \in newest : y \in Years /\ g[y] = F[q.set][y]
    BY <1>1, <1>3, <1>5
  <2> HIDE DEF g, seen
  <2> QED BY <1>0, <1>2, <2>1, <2>2
<1>11. IsFiniteSet(now) /\ now \subseteq before
  BY <1>1, <1>4, <1>5, FS_Subset
<1>12. Cardinality(bars) = Cardinality(now)
  <2> HIDE DEF g, now
  <2> QED BY <1>10, <1>11, PairsCount
<1>13. bars \in SUBSET (Years \X Nat)
  <2>1. \A y \in now : y \in Years /\ g[y] \in Nat
    BY <1>3, <1>9, <1>11, StampedType DEF Between
  <2> HIDE DEF g, now
  <2> QED BY <1>10, <2>1
<1>14. now \subseteq Newest(q.found)
  <2> SUFFICES ASSUME NEW m \in newest PROVE m \in Newest(q.found)
    BY <1>1
  <2> DEFINE above == {z \in Present(q.found) : m < z /\ z < Start}
  <2>1. m \in before /\ m \in q.todo
    BY <1>1, <1>5
  <2>2. above \subseteq seen
    <3> SUFFICES ASSUME NEW z \in above, z \in q.todo PROVE FALSE
      OBVIOUS
    <3>1. z <= m /\ m < z /\ z \in Nat /\ m \in Nat
      BY <1>0, <1>4, <2>1
    <3> QED BY <3>1
  <2>3. IsFiniteSet(seen)
    BY <1>4, FS_Subset
  <2>4. Cardinality(above) <= Cardinality(seen)
    BY <2>2, <2>3, FS_Subset
  <2>5. Cardinality(above) \in Nat /\ Cardinality(seen) \in Nat
    BY <2>2, <2>3, FS_Subset, FS_CardinalityType
  <2>6. Cardinality(above) < Limit
    <3> HIDE DEF above, seen
    <3> QED BY <1>1, <1>3, <2>4, <2>5
  <2> QED BY <2>1, <2>6 DEF Newest
<1>15. \A y \in now, z \in q.todo \ newest : z < y
  <2> SUFFICES ASSUME NEW y \in newest, NEW z \in q.todo \ newest PROVE z < y
    BY <1>1
  <2>1. z <= y /\ z # y /\ z \in Nat /\ y \in Nat
    BY <1>0, <1>4, <1>5
  <2> QED BY <2>1
<1>16. ASSUME left = {} PROVE now = Newest(q.found)
  <2>1. CASE q.todo \ newest = {}
    BY <1>7, <1>14, <2>1 DEF Newest
  <2>2. CASE Cardinality(bars) >= Limit
    <3> SUFFICES ASSUME NEW y \in Newest(q.found), y \notin now PROVE FALSE
      BY <1>14
    <3> DEFINE above == {z \in Present(q.found) : y < z /\ z < Start}
    <3>1. y \in before /\ y \in q.todo \ newest /\ Cardinality(above) < Limit
      BY <1>7 DEF Newest
    <3>2. now \subseteq above
      BY <1>11, <1>15, <3>1
    <3>3. above \subseteq before
      OBVIOUS
    <3>4. IsFiniteSet(above) /\ Cardinality(above) \in Nat
      BY <1>4, <3>3, FS_Subset, FS_CardinalityType
    <3>5. Cardinality(now) <= Cardinality(above) /\ Cardinality(now) \in Nat
      BY <1>11, <3>2, <3>4, FS_Subset, FS_CardinalityType
    <3> HIDE DEF above, now
    <3> QED BY <1>3, <1>12, <2>2, <3>1, <3>4, <3>5
  <2> QED BY <1>0, <1>16, <2>1, <2>2
<1>17. ASSUME left = {} PROVE bars \in Contexts(F, q.set, q.found)
  <2> HIDE DEF g, now
  <2> QED BY <1>9, <1>10, <1>16, <1>17 DEF Contexts
<1>18. ASSUME left # {} PROVE ReadingOK([q EXCEPT !.bars = bars, !.todo = left, !.step = "read"], F)
  <2> DEFINE p == [q EXCEPT !.bars = bars, !.todo = left, !.step = "read"]
  <2>1. left = q.todo \ newest /\ ~(Cardinality(bars) >= Limit)
    BY <1>0, <1>18
  <2>2. Cardinality(now) < Limit
    <3>1. Cardinality(now) \in Nat
      BY <1>11, FS_CardinalityType
    <3> HIDE DEF now
    <3> QED BY <1>3, <1>12, <2>1, <3>1
  <2>3. p.found = q.found /\ p.set = q.set /\ p.bars = bars /\ p.todo = left
    BY DEF Requests
  <2>4. before \ left = now /\ left \subseteq before
    BY <1>1, <1>7, <2>1
  <2> HIDE DEF p, g, now, seen
  <2> QED BY <1>9, <1>10, <1>14, <1>15, <2>1, <2>2, <2>3, <2>4 DEF ReadingOK, p
<1>19. left \in SUBSET Years
  BY <1>0, <1>1, <1>3
<1> QED BY <1>13, <1>17, <1>18, <1>19 DEF bars, left

-----------------------------------------------------------------------------
(* What a step of a request leaves alone *)

\* The keys being inserted are no more than the requests inserting them.
LEMMA SettlingFinite ==
    \A C, R, c : /\ IsFiniteSet(Settling(C, R, c)) /\ Cardinality(Settling(C, R, c)) \in Nat
                 /\ IsFiniteSet(Inserting(R, c)) /\ Cardinality(Inserting(R, c)) \in Nat
                 /\ Cardinality(Settling(C, R, c)) <= Cardinality(Inserting(R, c))
<1> SUFFICES ASSUME NEW C, NEW R, NEW c
             PROVE  /\ IsFiniteSet(Settling(C, R, c)) /\ Cardinality(Settling(C, R, c)) \in Nat
                    /\ IsFiniteSet(Inserting(R, c)) /\ Cardinality(Inserting(R, c)) \in Nat
                    /\ Cardinality(Settling(C, R, c)) <= Cardinality(Inserting(R, c))
  OBVIOUS
<1> DEFINE I == Inserting(R, c)
           keys == {KeyIn(R[r]) : r \in I}
           key == [r \in I |-> KeyIn(R[r])]
<1>1. IsFiniteSet(Readers)
  BY DataAssumption
<1>2. I \subseteq Readers
  BY DEF Inserting
<1>3. IsFiniteSet(I) /\ Cardinality(I) \in Nat
  BY <1>1, <1>2, FS_Subset, FS_CardinalityType
<1>4. key \in Surjection(I, keys)
  <2>1. key \in [I -> keys] /\ \A k \in keys : \E r \in I : key[r] = k
    OBVIOUS
  <2> HIDE DEF key, keys, I
  <2> QED BY <2>1 DEF Surjection
<1>5. IsFiniteSet(keys) /\ Cardinality(keys) \in Nat /\ Cardinality(keys) <= Cardinality(I)
  <2> HIDE DEF key, keys, I
  <2> QED BY <1>3, <1>4, FS_Surjection, FS_CardinalityType
<1>6. Settling(C, R, c) \subseteq keys
  BY DEF Settling
<1> HIDE DEF keys
<1>7. /\ IsFiniteSet(Settling(C, R, c)) /\ Cardinality(Settling(C, R, c)) \in Nat
      /\ Cardinality(Settling(C, R, c)) <= Cardinality(keys)
  BY <1>5, <1>6, FS_Subset, FS_CardinalityType
<1>8. Cardinality(Settling(C, R, c)) <= Cardinality(I)
  <2> HIDE DEF I
  <2> QED BY <1>3, <1>5, <1>7
<1> QED BY <1>3, <1>7, <1>8

\* The excess of a cache is bounded while the keys being inserted stay in it.
LEMMA SizeKeeps ==
    ASSUME NEW C, NEW R, NEW D, NEW S, NEW c \in Caches,
           Settling(C, R, c) \subseteq Settling(D, S, c),
           Len(D[c]) \in Nat, Len(C[c]) \in Nat, Len(D[c]) <= Len(C[c]),
           Len(C[c]) <= Capacity[c] + Cardinality(Settling(C, R, c))
    PROVE  Len(D[c]) <= Capacity[c] + Cardinality(Settling(D, S, c))
<1> DEFINE before == Cardinality(Settling(C, R, c))
           after == Cardinality(Settling(D, S, c))
<1>1. before \in Nat /\ after \in Nat /\ IsFiniteSet(Settling(D, S, c))
  BY SettlingFinite
<1>2. before <= after
  BY <1>1, FS_Subset
<1>3. Capacity[c] \in Nat
  BY DataAssumption
<1> HIDE DEF before, after
<1>4. Len(D[c]) <= Capacity[c] + after
  <2>1. Len(C[c]) <= Capacity[c] + before
    BY DEF before
  <2> QED BY <1>1, <1>2, <1>3, <2>1
<1> QED BY <1>4 DEF after

\* Requests that write nothing leave the store and the imports in order.
LEMMA StoreLeft ==
    ASSUME StoreOK, ImportsOK, UNCHANGED <<store, importing>>
    PROVE  StoreOK' /\ ImportsOK'
<1>1. /\ files' = files /\ raw' = raw /\ batches' = batches /\ current' = current
      /\ pinned' = pinned /\ import' = import /\ begun' = begun
  BY DEF store, importing
<1>2. StoreOK'
  BY <1>1 DEF StoreOK
<1>3. ImportsOK'
  BY <1>1 DEF ImportsOK
<1> QED BY <1>2, <1>3

\* So are the caches while nothing they depend on changes.
LEMMA CachesLeft ==
    ASSUME CachesOK, UNCHANGED <<files, batches, cache>>
    PROVE  CachesOK'
BY DEF CachesOK

\* Caches have lengths.
LEMMA CacheLengths ==
    ASSUME CachesOK
    PROVE  \A c \in Caches : Len(cache[c]) \in Nat
<1> SUFFICES ASSUME NEW c \in Caches PROVE Len(cache[c]) \in Nat
  OBVIOUS
<1>1. cache[c] \in Seq(Entries(c, files, batches))
  BY DEF CachesOK
<1> QED BY <1>1, LenProperties

\* A request that is not inserting a key may go anywhere without a cache growing.
LEMMA SizesLeft ==
    ASSUME CachesOK, RequestsOK, SizesOK, NEW r \in Readers, NEW q,
           read' = [read EXCEPT ![r] = q], cache' = cache,
           read[r].step # "settle" \/ ~Has(cache[CacheIn(read[r])], KeyIn(read[r]))
    PROVE  SizesOK'
<1> SUFFICES ASSUME NEW c \in Caches
             PROVE  Len(cache[c]) <= Capacity[c] + Cardinality(Settling(cache, read', c))
  BY DEF SizesOK
<1>1. \A p \in Readers : p # r => read'[p] = read[p]
  BY DEF RequestsOK
<1>2. Settling(cache, read, c) \subseteq Settling(cache, read', c)
  <2> SUFFICES ASSUME NEW p \in Readers, read[p].step = "settle", CacheIn(read[p]) = c,
                      Has(cache[c], KeyIn(read[p]))
               PROVE  KeyIn(read[p]) \in Settling(cache, read', c)
    BY DEF Settling, Inserting
  <2>1. p # r
    OBVIOUS
  <2> QED BY <1>1, <2>1 DEF Settling, Inserting
<1>3. Len(cache[c]) \in Nat
  BY CacheLengths
<1>4. Len(cache[c]) <= Len(cache[c])
  BY <1>3
<1>5. Len(cache[c]) <= Capacity[c] + Cardinality(Settling(cache, read, c))
  BY DEF SizesOK
<1> QED BY <1>2, <1>3, <1>4, <1>5, SizeKeeps

\* One request changes: it suffices that it is in order and no other has its session.
LEMMA OneRequest ==
    ASSUME RequestsOK, NEW r \in Readers, NEW q \in Requests, RequestOK(q, files),
           q.set \in Served(batches) \cup {None},
           read' = [read EXCEPT ![r] = q], UNCHANGED <<files, batches, pinned>>,
           \/ q.doing = "nothing"
           \/ /\ read[r].doing # "nothing" /\ q.session = read[r].session
              /\ q.doing \in {"size", "count"} => read[r].doing \in {"size", "count"}
    PROVE  RequestsOK'
<1>1. read' \in [Readers -> Requests]
  BY DEF RequestsOK
<1>2. read'[r] = q /\ \A p \in Readers : p # r => read'[p] = read[p]
  BY DEF RequestsOK
<1>3. \A p \in Readers : RequestOK(read'[p], files') /\ read'[p].set \in Served(batches') \cup {None}
  BY <1>2 DEF RequestsOK
<1>4. CreatedAlone(read', pinned')
  <2> SUFFICES ASSUME NEW p \in Readers, read'[p].doing \in {"size", "count"}
               PROVE  /\ pinned[read'[p].session] = None
                      /\ \A o \in Readers : o # p /\ read'[o].doing # "nothing" =>
                                              read'[o].session # read'[p].session
    BY DEF CreatedAlone
  <2>1. read[p].doing \in {"size", "count"} /\ read[p].session = read'[p].session
    BY <1>2
  <2>2. /\ pinned[read[p].session] = None
        /\ \A o \in Readers : o # p /\ read[o].doing # "nothing" => read[o].session # read[p].session
    BY <2>1 DEF RequestsOK, CreatedAlone
  <2>3. \A o \in Readers : read'[o].doing # "nothing" =>
                             read[o].doing # "nothing" /\ read'[o].session = read[o].session
    BY <1>2
  <2> QED BY <2>1, <2>2, <2>3
<1> QED BY <1>1, <1>3, <1>4 DEF RequestsOK

\* A request that touches neither the store nor the caches.
LEMMA RequestKeeps ==
    ASSUME ImportInv, NEW r \in Readers, NEW q \in Requests, RequestOK(q, files),
           q.set \in {read[r].set, None},
           read' = [read EXCEPT ![r] = q], UNCHANGED <<store, importing, cache>>,
           read[r].step # "settle" \/ ~Has(cache[CacheIn(read[r])], KeyIn(read[r])),
           \/ q.doing = "nothing"
           \/ /\ read[r].doing # "nothing" /\ q.session = read[r].session
              /\ q.doing \in {"size", "count"} => read[r].doing \in {"size", "count"}
    PROVE  ImportInv'
<1>1. StoreOK /\ ImportsOK /\ RequestsOK /\ CachesOK /\ SizesOK
  BY DEF ImportInv
<1>2. UNCHANGED <<files, batches, pinned>> /\ cache' = cache /\ UNCHANGED <<store, importing>>
  BY DEF store
<1>3. StoreOK' /\ ImportsOK'
  BY <1>1, <1>2, StoreLeft
<1>4. CachesOK'
  BY <1>1, <1>2, CachesLeft
<1>5. SizesOK'
  BY <1>1, <1>2, SizesLeft
<1>6. q.set \in Served(batches) \cup {None}
  BY <1>1 DEF RequestsOK
<1>7. RequestsOK'
  BY <1>1, <1>2, <1>6, OneRequest
<1> QED BY <1>3, <1>4, <1>5, <1>7 DEF ImportInv

\* The cache and the key of a request, as the invariant and as the model call them.
LEMMA NamesAgree ==
    ASSUME NEW r \in Readers, read[r].doing \in ScanDoing \cup {"bars", "entry", "keep"}
    PROVE  /\ CacheOf(r) = CacheIn(read[r]) /\ KeyOf(r) = KeyIn(read[r]) /\ CacheOf(r) \in Caches
           /\ CacheOf(r) = "scans" <=> read[r].doing \in ScanDoing
           /\ CacheOf(r) = "bars" <=> read[r].doing = "bars"
           /\ CacheOf(r) = "sessions" <=> read[r].doing \in {"entry", "keep"}
<1>1. /\ CacheOf(r) = CacheIn(read[r]) /\ CacheOf(r) \in Caches
      /\ CacheOf(r) = "scans" <=> read[r].doing \in ScanDoing
      /\ CacheOf(r) = "bars" <=> read[r].doing = "bars"
      /\ CacheOf(r) = "sessions" <=> read[r].doing \in {"entry", "keep"}
  BY DEF CacheOf, CacheIn, Doing, ScanDoing, Caches
<1>2. KeyOf(r) = KeyIn(read[r])
  BY <1>1 DEF KeyOf, KeyIn, Caches
<1> QED BY <1>1, <1>2

-----------------------------------------------------------------------------
(* The steps of a request keep the invariant *)

\* What the invariant says of one request.
LEMMA RequestFacts ==
    ASSUME ImportInv, NEW r \in Readers
    PROVE  /\ read[r] \in Requests /\ RequestOK(read[r], files)
           /\ read[r].doing = "nothing" \/ (read[r].set \in Served(batches) /\ read[r].session \in Sessions)
           /\ \A d \in Served(batches) : d \in Datasets /\ files[d] \in Stamped
           /\ None \notin Served(batches)
<1>1. /\ read[r] \in Requests /\ RequestOK(read[r], files)
      /\ read[r].set \in Served(batches) \cup {None}
  BY DEF ImportInv, RequestsOK
<1>2. /\ files \in [Datasets -> Stamped] /\ batches \subseteq Versions
  BY DEF ImportInv, StoreOK
<1>3. None \notin Datasets
  BY DataAssumption
<1>4. \A d \in Served(batches) : d \in Datasets /\ files[d] \in Stamped
  BY <1>2 DEF Served, Datasets
<1>5. read[r].doing # "nothing" => read[r].set \in Datasets /\ read[r].session \in Sessions
  BY <1>1 DEF RequestOK
<1> QED BY <1>1, <1>3, <1>4, <1>5

\* A request that ends with an error keeps the invariant.
LEMMA RefuseKeeps ==
    ASSUME ImportInv, NEW r \in Readers, Refuse(r), UNCHANGED <<store, importing, cache>>,
           read[r].step # "settle" \/ ~Has(cache[CacheIn(read[r])], KeyIn(read[r]))
    PROVE  ImportInv'
<1>1. read' = [read EXCEPT ![r] = NoRead]
  BY DEF Refuse
<1> QED BY <1>1, NoReadOK, RequestKeeps

\* So does one that begins, with a dataset that is served.
LEMMA BeginKeeps ==
    ASSUME ImportInv, NEW r \in Readers, NEW s \in Sessions, NEW d \in Served(batches),
           NEW first \in {"size", "signature"}, At(r, "idle"), Begin(r, s, d, first),
           UNCHANGED <<store, importing, cache>>,
           IF first = "size" THEN pinned[s] = None /\ \A q \in Readers : read[q].session # s
           ELSE pinned[s] # None
    PROVE  ImportInv'
<1>1. StoreOK /\ ImportsOK /\ RequestsOK /\ CachesOK /\ SizesOK
  BY DEF ImportInv
<1>2. UNCHANGED <<files, batches, pinned>> /\ cache' = cache /\ UNCHANGED <<store, importing>>
  BY DEF store
<1>3. StoreOK' /\ ImportsOK' /\ CachesOK'
  BY <1>1, <1>2, StoreLeft, CachesLeft
<1> DEFINE q == [NoRead EXCEPT !.step = "get", !.doing = first, !.session = s, !.set = d,
                               !.since = IF d = Legacy THEN files[d] ELSE Missing]
<1>4. read' = [read EXCEPT ![r] = q]
  BY DEF Begin
<1>5. SizesOK'
  <2>1. read[r].step # "settle"
    BY DEF At
  <2> HIDE DEF q
  <2> QED BY <1>1, <1>2, <1>4, <2>1, SizesLeft
<1>6. d \in Datasets /\ files[d] \in Stamped /\ Missing \in Stamped /\ NoRead \in Requests
  BY RequestFacts, WholeIsStamped, NoReadOK
<1>7. q \in Requests /\ q.step = "get" /\ q.doing = first /\ q.session = s /\ q.set = d
  BY <1>6 DEF Requests, ScanDoing
<1>8. RequestOK(q, files)
  <2>1. Low(q, files) = files[d]
    BY <1>6, <1>7 DEF Low, NoRead
  <2>2. q.bars = {} /\ q.candles = None
    BY DEF NoRead
  <2>3. \A y \in Years : Low(q, files)[y] <= files[d][y]
    BY <1>6, <2>1, BetweenFixed DEF Between
  <2> HIDE DEF q
  <2> QED BY <1>6, <1>7, <2>2, <2>3 DEF RequestOK, StepsOf, ScanDoing, Signed
<1> HIDE DEF q
<1>9. read' \in [Readers -> Requests]
  BY <1>1, <1>4, <1>7 DEF RequestsOK
<1>10. read'[r] = q /\ \A p \in Readers : p # r => read'[p] = read[p]
  BY <1>1, <1>4 DEF RequestsOK
<1>11. \A p \in Readers : RequestOK(read'[p], files') /\ read'[p].set \in Served(batches') \cup {None}
  BY <1>1, <1>2, <1>7, <1>8, <1>10 DEF RequestsOK
<1>12. CreatedAlone(read', pinned')
  <2> SUFFICES ASSUME NEW p \in Readers, read'[p].doing \in {"size", "count"}
               PROVE  /\ pinned[read'[p].session] = None
                      /\ \A o \in Readers : o # p /\ read'[o].doing # "nothing" =>
                                              read'[o].session # read'[p].session
    BY <1>2 DEF CreatedAlone
  <2>1. CASE p = r
    BY <1>7, <1>10, <2>1
  <2>2. CASE p # r
    <3>1. /\ pinned[read[p].session] = None /\ read'[p] = read[p]
          /\ \A o \in Readers : o # p /\ read[o].doing # "nothing" => read[o].session # read[p].session
      BY <1>1, <1>10, <2>2 DEF RequestsOK, CreatedAlone
    <3>2. read[p].session # s
      BY <3>1
    <3> QED BY <1>7, <1>10, <3>1, <3>2
  <2> QED BY <2>1, <2>2
<1>13. RequestsOK'
  BY <1>9, <1>11, <1>12 DEF RequestsOK
<1> QED BY <1>3, <1>5, <1>13 DEF ImportInv

\* create_session keeps the invariant: its dataset is the current one.
LEMMA CreateKeeps ==
    ASSUME ImportInv, NEW r \in Readers, NEW s \in Sessions, CreateSession(r, s)
    PROVE  ImportInv'
<1>1. current \in Served(batches)
  BY DEF ImportInv, StoreOK, CreateSession
<1>2. /\ At(r, "idle") /\ Begin(r, s, current, "size") /\ UNCHANGED <<store, importing, cache>>
      /\ pinned[s] = None /\ \A q \in Readers : read[q].session # s
  BY DEF CreateSession
<1> QED BY <1>1, <1>2, BeginKeeps

\* Loading a session keeps the invariant: its dataset is the pinned one.
LEMMA LoadKeeps ==
    ASSUME ImportInv, NEW r \in Readers, NEW s \in Sessions, LoadSession(r, s)
    PROVE  ImportInv'
<1>1. pinned[s] \in Served(batches)
  BY DEF ImportInv, StoreOK, LoadSession
<1>2. /\ At(r, "idle") /\ Begin(r, s, pinned[s], "signature") /\ UNCHANGED <<store, importing, cache>>
      /\ pinned[s] # None
  BY DEF LoadSession
<1> QED BY <1>1, <1>2, BeginKeeps

\* Saving a new session, or refusing it, keeps the invariant.
LEMMA CountKeeps ==
    ASSUME ImportInv, NEW r \in Readers, CountRange(r)
    PROVE  ImportInv'
<1>1. StoreOK /\ ImportsOK /\ RequestsOK /\ CachesOK /\ SizesOK
  BY DEF ImportInv
<1>2. /\ read[r] \in Requests /\ RequestOK(read[r], files) /\ read[r].step = "count"
  BY RequestFacts DEF CountRange, At
<1>3. read[r].doing = "count"
  BY <1>2 DEF RequestOK, StepsOf, Requests, ScanDoing, Signed
<1>4. /\ read[r].set \in Served(batches) /\ read[r].session \in Sessions
  BY <1>3, RequestFacts
<1>5. CASE InRange(read[r].found) = {}
  <2>1. Refuse(r) /\ UNCHANGED <<store, importing, cache>>
    BY <1>5 DEF CountRange, store
  <2> QED BY <1>2, <2>1, RefuseKeeps
<1>6. CASE InRange(read[r].found) # {}
  <2> DEFINE q == Onwards(read[r])
  <2>1. /\ pinned' = [pinned EXCEPT ![read[r].session] = read[r].set]
        /\ read' = [read EXCEPT ![r] = q]
        /\ files' = files /\ raw' = raw /\ batches' = batches /\ current' = current
        /\ import' = import /\ begun' = begun /\ cache' = cache
    BY <1>6 DEF CountRange, Proceed, importing
  <2>2. /\ q \in Requests /\ RequestOK(q, files)
        /\ q.doing \in {"nothing", "signature"}
        /\ \/ q = NoRead
           \/ q.session = read[r].session /\ q.set = read[r].set
    BY <1>2, <1>3, OnwardsOK, NoReadOK
  <2> HIDE DEF q
  <2>3. StoreOK'
    BY <1>1, <1>4, <2>1 DEF StoreOK
  <2>4. ImportsOK'
    BY <1>1, <2>1 DEF ImportsOK
  <2>5. CachesOK'
    BY <1>1, <2>1, CachesLeft
  <2>6. SizesOK'
    BY <1>1, <1>2, <2>1, SizesLeft
  <2>7. read' \in [Readers -> Requests]
    BY <1>1, <2>1, <2>2 DEF RequestsOK
  <2>8. read'[r] = q /\ \A p \in Readers : p # r => read'[p] = read[p]
    BY <1>1, <2>1 DEF RequestsOK
  <2>9. q.set \in Served(batches) \cup {None}
    BY <1>4, <2>2, NoReadOK
  <2>10. \A p \in Readers : RequestOK(read'[p], files') /\ read'[p].set \in Served(batches') \cup {None}
    BY <1>1, <2>1, <2>2, <2>8, <2>9 DEF RequestsOK
  <2>11. CreatedAlone(read', pinned')
    <3> SUFFICES ASSUME NEW p \in Readers, read'[p].doing \in {"size", "count"}
                 PROVE  /\ pinned'[read'[p].session] = None
                        /\ \A o \in Readers : o # p /\ read'[o].doing # "nothing" =>
                                                read'[o].session # read'[p].session
      BY DEF CreatedAlone
    <3>1. p # r /\ read'[p] = read[p]
      BY <2>2, <2>8
    <3>2. /\ pinned[read[p].session] = None
          /\ \A o \in Readers : o # p /\ read[o].doing # "nothing" => read[o].session # read[p].session
      BY <1>1, <3>1 DEF RequestsOK, CreatedAlone
    <3>3. read[r].session # read[p].session
      BY <1>3, <3>1, <3>2
    <3>4. pinned'[read[p].session] = None
      BY <1>1, <2>1, <3>2, <3>3 DEF StoreOK
    <3>5. \A o \in Readers : o # p /\ read'[o].doing # "nothing" => read'[o].session # read[p].session
      BY <2>2, <2>8, <3>2, <3>3, NoReadOK
    <3> QED BY <3>1, <3>4, <3>5
  <2>12. RequestsOK'
    BY <2>7, <2>10, <2>11 DEF RequestsOK
  <2> QED BY <2>3, <2>4, <2>5, <2>6, <2>12 DEF ImportInv
<1> QED BY <1>5, <1>6

\* A lookup that finds nothing keeps the invariant.
LEMMA NotFoundKeeps ==
    ASSUME ImportInv, NEW r \in Readers, NotFound(r)
    PROVE  ImportInv'
<1>1. /\ read[r] \in Requests /\ RequestOK(read[r], files) /\ read[r].step = "get"
      /\ UNCHANGED <<store, importing, cache>>
  BY RequestFacts DEF NotFound, At
<1>2. read[r].doing \in ScanDoing \cup {"bars", "entry"}
  BY <1>1 DEF RequestOK, StepsOf, Requests, ScanDoing, Signed
<1>3. CASE read[r].doing \in ScanDoing
  <2> DEFINE q == [read[r] EXCEPT !.step = "scan"]
  <2>1. read' = [read EXCEPT ![r] = q]
    BY <1>2, <1>3, NamesAgree DEF NotFound
  <2>2. q \in Requests
    BY <1>1 DEF Requests
  <2>3. RequestOK(q, files)
    BY <1>1, <1>3 DEF RequestOK, StepsOf, ScanDoing, Signed, Low, Base, Requests
  <2>4. q.set = read[r].set /\ q.session = read[r].session /\ q.doing = read[r].doing
    BY <1>1 DEF Requests
  <2> HIDE DEF q
  <2> QED BY <1>1, <1>3, <2>1, <2>2, <2>3, <2>4, RequestKeeps DEF ScanDoing
<1>4. CASE read[r].doing = "bars"
  <2> DEFINE todo == {y \in Present(read[r].found) : y < Start}
             q == [read[r] EXCEPT !.step = "read", !.todo = todo]
  <2>1. read' = [read EXCEPT ![r] = q]
    <3>1. CacheOf(r) = "bars"
      BY <1>2, <1>4, NamesAgree
    <3>2. read' = [read EXCEPT ![r].step = "read", ![r].todo = todo]
      BY <3>1 DEF NotFound
    <3> QED BY <1>1, <3>2 DEF Requests
  <2>2. todo \in SUBSET Years
    BY DEF Present
  <2>3. q \in Requests /\ q.todo = todo
    BY <1>1, <2>2 DEF Requests
  <2>4. q.found = read[r].found /\ q.set = read[r].set /\ q.bars = read[r].bars
    BY <1>1 DEF Requests
  <2>5. ReadingOK(q, files)
    <3>1. read[r].bars = {} /\ read[r].found \in Between(files, read[r].set, read[r].signature)
      BY <1>1, <1>4 DEF RequestOK
    <3>2. files[read[r].set] \in Stamped
      BY <1>1, <1>4 DEF RequestOK
    <3>3. files[read[r].set] \in Between(files, read[r].set, read[r].found)
      <4>1. \A y \in Years : files[read[r].set][y] \in Nat
        BY <3>2, StampedType
      <4> QED BY <3>1, <3>2, <4>1 DEF Between
    <3>4. \E f \in Between(files, q.set, q.found) : q.bars = {<<y, f[y]>> : y \in {}}
      <4>1. q.bars = {<<y, files[read[r].set][y]>> : y \in {}}
        BY <2>4, <3>1
      <4> HIDE DEF q
      <4> QED BY <2>4, <3>3, <4>1
    <3>5. Cardinality({}) < Limit
      BY FS_EmptySet, DataAssumption
    <3>6. {y \in Present(q.found) : y < Start} = todo
      BY <2>4
    <3> HIDE DEF q, todo
    <3>7. todo \ todo = {}
      OBVIOUS
    <3> QED BY <2>3, <3>4, <3>5, <3>6, <3>7 DEF ReadingOK
  <2>6. RequestOK(q, files)
    <3> HIDE DEF todo
    <3> QED BY <1>1, <1>4, <2>5 DEF RequestOK, StepsOf, ScanDoing, Signed, Low, Base, Requests
  <2>7. q.session = read[r].session /\ q.doing = read[r].doing
    BY <1>1 DEF Requests
  <2> HIDE DEF q
  <2> QED BY <1>1, <1>4, <2>1, <2>3, <2>4, <2>6, <2>7, RequestKeeps
<1>5. CASE read[r].doing = "entry"
  <2> DEFINE q == Onwards(read[r])
  <2>1. read' = [read EXCEPT ![r] = q]
    <3>1. CacheOf(r) = "sessions"
      BY <1>2, <1>5, NamesAgree
    <3> QED BY <3>1 DEF NotFound, Proceed
  <2>2. /\ q \in Requests /\ RequestOK(q, files)
        /\ \/ q = NoRead
           \/ /\ q.session = read[r].session /\ q.set = read[r].set
              /\ q.doing \in {"size", "count"} => read[r].doing \in {"size", "count"}
    BY <1>1, <1>5, OnwardsOK
  <2> HIDE DEF q
  <2> QED BY <1>1, <1>5, <2>1, <2>2, NoReadOK, RequestKeeps
<1> QED BY <1>2, <1>3, <1>4, <1>5

\* What the files hold now may always be found.
LEMMA FilesFit ==
    ASSUME NEW F, NEW q \in Requests, RequestOK(q, F), q.doing # "nothing"
    PROVE  /\ F[q.set] \in Stamped /\ Low(q, F) \in Stamped /\ Base(q, F) \in Stamped
           /\ F[q.set] \in Between(F, q.set, Base(q, F))
<1>1. F[q.set] \in Stamped /\ \A y \in Years : Low(q, F)[y] <= F[q.set][y]
  BY DEF RequestOK
<1>2. Low(q, F) \in Stamped
  BY <1>1 DEF Low, Requests
<1>3. F[q.set] \in Between(F, q.set, F[q.set])
  BY <1>1, BetweenFixed
<1>4. CASE q.doing \in Signed
  <2>1. q.signature \in Between(F, q.set, Low(q, F)) /\ Base(q, F) = q.signature
    BY <1>4 DEF RequestOK, Base
  <2>2. q.signature \in Stamped /\ \A y \in Years : q.signature[y] <= F[q.set][y]
    BY <2>1 DEF Between
  <2> QED BY <1>1, <1>2, <1>3, <2>1, <2>2 DEF Between
<1>5. CASE q.doing \notin Signed
  BY <1>1, <1>2, <1>3, <1>5 DEF Base, Between
<1> QED BY <1>4, <1>5

\* What is found in a cache is what the cache may hold.
LEMMA EntryFacts ==
    ASSUME ImportInv, NEW c \in Caches, NEW k, Has(cache[c], k)
    PROVE  Entry(cache[c], k) \in Entries(c, files, batches) /\ Entry(cache[c], k).key = k
<1>1. cache[c] \in Seq(Entries(c, files, batches))
  BY DEF ImportInv, CachesOK
<1> QED BY <1>1, EntryIs

\* A lookup that finds an entry keeps the invariant: what was kept is still exact.
LEMMA FoundKeeps ==
    ASSUME ImportInv, NEW r \in Readers, Found(r)
    PROVE  ImportInv'
<1> DEFINE v == Entry(cache[CacheOf(r)], KeyOf(r)).value
<1>1. /\ read[r] \in Requests /\ RequestOK(read[r], files) /\ read[r].step = "get"
      /\ Hit(r) /\ UNCHANGED <<store, importing, cache>>
      /\ read' = [read EXCEPT ![r] = CASE CacheOf(r) = "scans" -> [@ EXCEPT !.step = "touch", !.found = v]
                                       [] CacheOf(r) = "bars" -> [@ EXCEPT !.step = "touch", !.bars = v]
                                       [] OTHER -> [@ EXCEPT !.step = "touch", !.candles = v.candles]]
  BY RequestFacts DEF Found, At
<1>2. read[r].doing \in ScanDoing \cup {"bars", "entry"}
  BY <1>1 DEF RequestOK, StepsOf, Requests, ScanDoing, Signed
<1>3. read[r].doing # "nothing" /\ read[r].set \in Served(batches) /\ read[r].set # None
  BY <1>2, RequestFacts DEF ScanDoing
<1>4. /\ files[read[r].set] \in Stamped /\ Low(read[r], files) \in Stamped
      /\ Base(read[r], files) \in Stamped
      /\ files[read[r].set] \in Between(files, read[r].set, Base(read[r], files))
  BY <1>1, <1>3, FilesFit
<1>5. /\ Entry(cache[CacheOf(r)], KeyOf(r)) \in Entries(CacheOf(r), files, batches)
      /\ Entry(cache[CacheOf(r)], KeyOf(r)).key = KeyOf(r)
  <2>1. Has(cache[CacheOf(r)], KeyOf(r))
    BY <1>1 DEF Hit
  <2> QED BY <1>2, <2>1, EntryFacts, NamesAgree
<1>6. CASE read[r].doing \in ScanDoing
  <2>1. CacheOf(r) = "scans" /\ KeyOf(r) = read[r].set
    BY <1>2, <1>6, NamesAgree DEF KeyOf
  <2>2. v = files[read[r].set]
    <3>1. PICK b \in batches : Entry(cache[CacheOf(r)], KeyOf(r)) = [key |-> b, value |-> Whole(b)]
      BY <1>5, <2>1 DEF Entries
    <3>2. b = read[r].set
      BY <1>5, <2>1, <3>1
    <3>3. files[b] = Whole(b)
      BY DEF ImportInv, StoreOK
    <3> QED BY <3>1, <3>2, <3>3
  <2> DEFINE q == [read[r] EXCEPT !.step = "touch", !.found = files[read[r].set]]
  <2>3. read' = [read EXCEPT ![r] = q]
    <3> HIDE DEF v
    <3> QED BY <1>1, <2>1, <2>2
  <2>4. /\ q \in Requests /\ q.set = read[r].set /\ q.session = read[r].session
        /\ q.doing = read[r].doing
    BY <1>1, <1>4 DEF Requests
  <2>5. RequestOK(q, files)
    BY <1>1, <1>4, <1>6 DEF RequestOK, StepsOf, ScanDoing, Signed, Low, Base, Requests
  <2> HIDE DEF q
  <2> QED BY <1>1, <1>3, <2>3, <2>4, <2>5, RequestKeeps
<1>7. CASE read[r].doing = "bars"
  <2>1. CacheOf(r) = "bars" /\ KeyOf(r) = <<read[r].set, read[r].found>>
    <3>1. CacheOf(r) = "bars"
      BY <1>2, <1>7, NamesAgree
    <3> QED BY <3>1 DEF KeyOf
  <2>2. v \in Contexts(files, read[r].set, read[r].found) /\ v \in SUBSET (Years \X Nat)
    <3>1. /\ Entry(cache[CacheOf(r)], KeyOf(r)) \in
               {e \in [key : Served(batches) \X Stamped, value : SUBSET (Years \X Nat)] :
                  e.value \in Contexts(files, e.key[1], e.key[2])}
          /\ Entry(cache[CacheOf(r)], KeyOf(r)).key = <<read[r].set, read[r].found>>
      BY <1>5, <2>1 DEF Entries
    <3> QED BY <3>1
  <2> DEFINE q == [read[r] EXCEPT !.step = "touch", !.bars = v]
  <2>3. read' = [read EXCEPT ![r] = q]
    <3> HIDE DEF v
    <3> QED BY <1>1, <2>1
  <2> HIDE DEF v
  <2>4. /\ q \in Requests /\ q.set = read[r].set /\ q.session = read[r].session
        /\ q.doing = read[r].doing
    BY <1>1, <2>2 DEF Requests
  <2>5. RequestOK(q, files)
    BY <1>1, <1>7, <2>2 DEF RequestOK, StepsOf, ScanDoing, Signed, Low, Base, Requests
  <2> HIDE DEF q
  <2> QED BY <1>1, <1>3, <2>3, <2>4, <2>5, RequestKeeps
<1>8. CASE read[r].doing = "entry"
  <2>1. CacheOf(r) = "sessions"
    BY <1>2, <1>8, NamesAgree
  <2>2. v.set = read[r].set /\ v.signature = read[r].signature
    BY <1>1, <1>8, <2>1 DEF Hit, Doing
  <2>3. v.candles \in Answer /\ v.candles \in Answers(files, v.set, v.signature)
    <3>1. Entry(cache[CacheOf(r)], KeyOf(r)) \in
            {e \in [key : Sessions, value : [set : Served(batches), signature : Stamped, candles : Answer]] :
               e.value.candles \in Answers(files, e.value.set, e.value.signature)}
      BY <1>5, <2>1 DEF Entries
    <3> QED BY <3>1
  <2>4. v.candles \in Answers(files, read[r].set, Low(read[r], files))
    <3>1. read[r].signature \in Between(files, read[r].set, Low(read[r], files))
      BY <1>1, <1>8 DEF RequestOK, Signed
    <3>2. Between(files, read[r].set, read[r].signature)
            \subseteq Between(files, read[r].set, Low(read[r], files))
      BY <1>4, <3>1, BetweenNests
    <3> HIDE DEF v
    <3> QED BY <2>2, <2>3, <3>2 DEF Answers
  <2> DEFINE q == [read[r] EXCEPT !.step = "touch", !.candles = v.candles]
  <2>5. read' = [read EXCEPT ![r] = q]
    <3> HIDE DEF v
    <3> QED BY <1>1, <2>1
  <2> HIDE DEF v
  <2>6. /\ q \in Requests /\ q.set = read[r].set /\ q.session = read[r].session
        /\ q.doing = read[r].doing
    BY <1>1, <2>3 DEF Requests
  <2>7. RequestOK(q, files)
    BY <1>1, <1>8, <2>4 DEF RequestOK, StepsOf, ScanDoing, Signed, Low, Base, Requests
  <2> HIDE DEF q
  <2> QED BY <1>1, <1>3, <2>5, <2>6, <2>7, RequestKeeps
<1> QED BY <1>2, <1>6, <1>7, <1>8

\* Scanning the directory keeps the invariant.
LEMMA ScanKeeps ==
    ASSUME ImportInv, NEW r \in Readers, ScanPartitions(r)
    PROVE  ImportInv'
<1> DEFINE after == [read[r] EXCEPT !.found = files[read[r].set]]
<1>1. /\ read[r] \in Requests /\ RequestOK(read[r], files) /\ read[r].step = "scan"
      /\ UNCHANGED <<store, importing, cache>>
      /\ read' = [read EXCEPT ![r] = IF Kept(after.set, after.found)
                                     THEN [after EXCEPT !.step = "insert"]
                                     ELSE Onwards(after)]
  BY RequestFacts DEF ScanPartitions, At
<1>2. read[r].doing \in ScanDoing /\ read[r].doing # "nothing"
  BY <1>1 DEF RequestOK, StepsOf, Requests, ScanDoing, Signed
<1>3. /\ files[read[r].set] \in Stamped
      /\ files[read[r].set] \in Between(files, read[r].set, Base(read[r], files))
  BY <1>1, <1>2, FilesFit
<1>4. /\ after \in Requests /\ after.set = read[r].set /\ after.session = read[r].session
      /\ after.doing = read[r].doing /\ after.found = files[read[r].set] /\ after.step = "scan"
  BY <1>1, <1>3 DEF Requests
<1>5. RequestOK(after, files)
  BY <1>1, <1>2, <1>3 DEF RequestOK, StepsOf, ScanDoing, Signed, Low, Base, Requests
<1>6. Base(after, files) = Base(read[r], files)
  BY <1>1, <1>4 DEF Base, Low, Requests
<1> HIDE DEF after
<1>7. CASE Kept(after.set, after.found)
  <2> DEFINE q == [after EXCEPT !.step = "insert"]
  <2>1. read' = [read EXCEPT ![r] = q]
    BY <1>1, <1>7
  <2>2. q \in Requests /\ q.set = read[r].set /\ q.session = read[r].session /\ q.doing = read[r].doing
    BY <1>4 DEF Requests
  <2>3. after.set # Legacy /\ after.found \in Between(files, after.set, Base(after, files))
    BY <1>3, <1>4, <1>6, <1>7 DEF Kept
  <2>4. RequestOK(q, files)
    BY <1>2, <1>4, <1>5, <2>3 DEF RequestOK, StepsOf, ScanDoing, Signed, Low, Base, Requests
  <2> HIDE DEF q
  <2> QED BY <1>1, <1>2, <2>1, <2>2, <2>4, RequestKeeps
<1>8. CASE ~Kept(after.set, after.found)
  <2> DEFINE q == Onwards(after)
  <2>1. read' = [read EXCEPT ![r] = q]
    BY <1>1, <1>8
  <2>2. /\ q \in Requests /\ RequestOK(q, files)
        /\ \/ q = NoRead
           \/ /\ q.session = after.session /\ q.set = after.set
              /\ q.doing \in {"size", "count"} => after.doing \in {"size", "count"}
    BY <1>2, <1>3, <1>4, <1>5, <1>6, OnwardsOK
  <2> HIDE DEF q
  <2> QED BY <1>1, <1>2, <1>4, <2>1, <2>2, NoReadOK, RequestKeeps
<1> QED BY <1>7, <1>8

\* Reading one file of the context keeps the invariant.
LEMMA ReadKeeps ==
    ASSUME ImportInv, NEW r \in Readers, ReadFile(r)
    PROVE  ImportInv'
<1> DEFINE bars == BarsAfter(read[r], files)
           left == LeftAfter(read[r], files)
           step == IF left = {} THEN "insert" ELSE "read"
<1>1. /\ read[r] \in Requests /\ RequestOK(read[r], files) /\ read[r].step = "read"
      /\ UNCHANGED <<store, importing, cache>>
      /\ read' = [read EXCEPT ![r].bars = bars, ![r].todo = left, ![r].step = step]
  BY RequestFacts DEF ReadFile, At, BarsAfter, LeftAfter, NewestLeft
<1>2. read[r].doing = "bars"
  BY <1>1 DEF RequestOK, StepsOf, Requests, ScanDoing, Signed
<1>3. /\ ReadingOK(read[r], files) /\ files[read[r].set] \in Stamped
      /\ \A y \in Years : read[r].found[y] <= files[read[r].set][y]
  <2>1. read[r].found \in Between(files, read[r].set, read[r].signature)
    BY <1>1, <1>2 DEF RequestOK
  <2>2. files[read[r].set] \in Stamped /\ ReadingOK(read[r], files)
    BY <1>1, <1>2 DEF RequestOK
  <2> QED BY <2>1, <2>2 DEF Between
<1>4. /\ bars \in SUBSET (Years \X Nat) /\ left \in SUBSET Years
      /\ left = {} => bars \in Contexts(files, read[r].set, read[r].found)
      /\ left # {} => ReadingOK([read[r] EXCEPT !.bars = bars, !.todo = left, !.step = "read"], files)
  BY <1>1, <1>3, ReadingGoesOn
<1> DEFINE q == [read[r] EXCEPT !.bars = bars, !.todo = left, !.step = step]
<1> HIDE DEF bars, left
<1>5. read' = [read EXCEPT ![r] = q]
  BY <1>1 DEF Requests
<1>6. /\ q \in Requests /\ q.set = read[r].set /\ q.session = read[r].session
      /\ q.doing = read[r].doing
  BY <1>1, <1>4 DEF Requests
<1>7. RequestOK(q, files)
  <2>1. CASE left = {}
    <3>1. q = [read[r] EXCEPT !.bars = bars, !.todo = left, !.step = "insert"]
      BY <2>1
    <3> QED BY <1>1, <1>2, <1>4, <2>1, <3>1 DEF RequestOK, StepsOf, ScanDoing, Signed, Low, Base, Requests
  <2>2. CASE left # {}
    <3>1. q = [read[r] EXCEPT !.bars = bars, !.todo = left, !.step = "read"]
      BY <2>2
    <3>2. ReadingOK(q, files)
      BY <1>4, <2>2, <3>1
    <3>3. q.step = "read" /\ q.doing = "bars"
      BY <1>1, <1>2, <3>1 DEF Requests
    <3> QED BY <1>1, <1>2, <3>1, <3>2, <3>3 DEF RequestOK, StepsOf, ScanDoing, Signed, Low, Base, Requests
  <2> QED BY <2>1, <2>2
<1> HIDE DEF q
<1> QED BY <1>1, <1>2, <1>5, <1>6, <1>7, RequestKeeps

\* What a request is about to keep is what the cache may hold.
LEMMA InsertedIsAnEntry ==
    ASSUME ImportInv, NEW r \in Readers, At(r, "insert")
    PROVE  /\ [key |-> KeyOf(r), value |-> ValueOf(r)] \in Entries(CacheOf(r), files, batches)
           /\ read[r].doing = "keep" =>
                /\ ValueOf(r).candles \in Answer
                /\ ValueOf(r).candles \in Answers(files, read[r].set, Low(read[r], files))
<1>1. /\ read[r] \in Requests /\ RequestOK(read[r], files) /\ read[r].step = "insert"
  BY RequestFacts DEF At
<1>2. read[r].doing \in ScanDoing \cup {"bars", "keep"}
  BY <1>1 DEF RequestOK, StepsOf, Requests, ScanDoing, Signed
<1>3. /\ read[r].set \in Served(batches) /\ read[r].session \in Sessions /\ read[r].doing # "nothing"
  BY <1>2, RequestFacts DEF ScanDoing
<1>4. /\ files[read[r].set] \in Stamped /\ Low(read[r], files) \in Stamped
  BY <1>1, <1>3, FilesFit
<1>5. CASE read[r].doing \in ScanDoing
  <2>1. CacheOf(r) = "scans" /\ KeyOf(r) = read[r].set /\ ValueOf(r) = read[r].found
    BY <1>2, <1>5, NamesAgree DEF KeyOf, ValueOf
  <2>2. read[r].set # Legacy /\ read[r].found \in Between(files, read[r].set, Base(read[r], files))
    BY <1>1, <1>5 DEF RequestOK
  <2>3. Low(read[r], files) = files[read[r].set]
    BY <2>2 DEF Low
  <2>4. Base(read[r], files) = files[read[r].set]
    <3>1. CASE read[r].doing \in Signed
      <4>1. read[r].signature \in Between(files, read[r].set, files[read[r].set])
        BY <1>1, <2>3, <3>1 DEF RequestOK
      <4> QED BY <1>4, <3>1, <4>1, BetweenFixed DEF Base
    <3>2. CASE read[r].doing \notin Signed
      BY <2>3, <3>2 DEF Base
    <3> QED BY <3>1, <3>2
  <2>5. read[r].found = files[read[r].set]
    BY <1>4, <2>2, <2>4, BetweenFixed
  <2>6. read[r].set \in batches
    BY <1>3, <2>2 DEF Served
  <2>7. read[r].found = Whole(read[r].set)
    BY <2>5, <2>6 DEF ImportInv, StoreOK
  <2> QED BY <1>5, <2>1, <2>6, <2>7 DEF Entries, ScanDoing
<1>6. CASE read[r].doing = "bars"
  <2>1. CacheOf(r) = "bars"
    BY <1>2, <1>6, NamesAgree
  <2>2. KeyOf(r) = <<read[r].set, read[r].found>> /\ ValueOf(r) = read[r].bars
    BY <2>1 DEF KeyOf, ValueOf
  <2>3. /\ read[r].bars \in Contexts(files, read[r].set, read[r].found)
        /\ read[r].found \in Stamped /\ read[r].bars \in SUBSET (Years \X Nat)
    BY <1>1, <1>6 DEF RequestOK, Requests
  <2> DEFINE e == [key |-> KeyOf(r), value |-> ValueOf(r)]
  <2>4. /\ e \in [key : Served(batches) \X Stamped, value : SUBSET (Years \X Nat)]
        /\ e.value \in Contexts(files, e.key[1], e.key[2])
    BY <1>3, <2>2, <2>3
  <2> HIDE DEF e
  <2>5. e \in Entries("bars", files, batches)
    BY <2>4 DEF Entries
  <2> QED BY <1>6, <2>1, <2>5 DEF e
<1>7. CASE read[r].doing = "keep"
  <2> DEFINE candles == [before |-> read[r].bars, replay |-> InRange(read[r].found)]
  <2>1. CacheOf(r) = "sessions"
    BY <1>2, <1>7, NamesAgree
  <2>2. /\ KeyOf(r) = read[r].session
        /\ ValueOf(r) = [set |-> read[r].set, signature |-> read[r].signature, candles |-> candles]
    BY <2>1 DEF KeyOf, ValueOf
  <2>3. /\ read[r].signature \in Between(files, read[r].set, Low(read[r], files))
        /\ read[r].found \in Between(files, read[r].set, read[r].signature)
        /\ read[r].signature \in Stamped
    BY <1>1, <1>7 DEF RequestOK, Requests, Signed
  <2>4. PICK g \in Between(files, read[r].set, read[r].signature) :
             read[r].bars \in Contexts(files, read[r].set, g)
    BY <1>1, <1>7 DEF RequestOK
  <2>5. candles \in Answers(files, read[r].set, read[r].signature)
    BY <2>3, <2>4, PartsFit
  <2>6. Between(files, read[r].set, read[r].signature)
          \subseteq Between(files, read[r].set, Low(read[r], files))
    BY <1>4, <2>3, BetweenNests
  <2> HIDE DEF candles
  <2>7. candles \in Answer
    BY <2>5, CandlesType DEF Answers, Between
  <2>8. candles \in Answers(files, read[r].set, Low(read[r], files))
    BY <2>5, <2>6 DEF Answers
  <2> DEFINE e == [key |-> KeyOf(r), value |-> ValueOf(r)]
  <2>9. /\ e \in [key : Sessions, value : [set : Served(batches), signature : Stamped, candles : Answer]]
        /\ e.value.candles \in Answers(files, e.value.set, e.value.signature)
    BY <1>3, <2>2, <2>3, <2>5, <2>7
  <2> HIDE DEF e
  <2>10. e \in Entries("sessions", files, batches)
    BY <2>9 DEF Entries
  <2>11. ValueOf(r).candles = candles
    BY <2>2
  <2> QED BY <2>1, <2>7, <2>8, <2>10, <2>11 DEF e
<1> QED BY <1>2, <1>5, <1>6, <1>7 DEF ScanDoing

\* The entries of a cache have keys and values.
LEMMA EntriesAreRecords ==
    ASSUME NEW c \in Caches, NEW F, NEW B
    PROVE  \E K, V : Entries(c, F, B) \in SUBSET [key : K, value : V]
<1>1. CASE c = "scans"
  <2>1. Entries(c, F, B) \in SUBSET [key : B, value : {Whole(v) : v \in B}]
    BY <1>1 DEF Entries
  <2> QED BY <2>1
<1>2. CASE c = "bars"
  <2>1. Entries(c, F, B) \in SUBSET [key : Served(B) \X Stamped, value : SUBSET (Years \X Nat)]
    BY <1>2 DEF Entries
  <2> QED BY <2>1
<1>3. CASE c = "sessions"
  <2>1. Entries(c, F, B)
          \in SUBSET [key : Sessions, value : [set : Served(B), signature : Stamped, candles : Answer]]
    BY <1>3 DEF Entries
  <2> QED BY <2>1
<1> QED BY <1>1, <1>2, <1>3 DEF Caches

\* Keeping an entry keeps the invariant; the excess is the key it has yet to settle.
LEMMA InsertKeeps ==
    ASSUME ImportInv, NEW r \in Readers, Insert(r)
    PROVE  ImportInv'
<1> DEFINE c == CacheOf(r)
           k == KeyOf(r)
           v == ValueOf(r)
           q == [read[r] EXCEPT !.step = "settle",
                                !.candles = IF Doing(r) = "keep" THEN v.candles ELSE None]
<1>1. StoreOK /\ ImportsOK /\ RequestsOK /\ CachesOK /\ SizesOK
  BY DEF ImportInv
<1>2. /\ read[r] \in Requests /\ RequestOK(read[r], files) /\ read[r].step = "insert"
      /\ cache' = [cache EXCEPT ![c] = Assigned(cache[c], k, v)]
      /\ read' = [read EXCEPT ![r].step = "settle",
                              ![r].candles = IF Doing(r) = "keep" THEN v.candles ELSE None]
      /\ UNCHANGED <<store, importing>> /\ UNCHANGED <<files, batches, pinned>> /\ At(r, "insert")
  BY RequestFacts DEF Insert, At, store
<1>3. read[r].doing \in ScanDoing \cup {"bars", "keep"}
  BY <1>2 DEF RequestOK, StepsOf, Requests, ScanDoing, Signed
<1>4. /\ c \in Caches /\ c = CacheIn(read[r]) /\ k = KeyIn(read[r])
  BY <1>3, NamesAgree
<1>5. /\ [key |-> k, value |-> v] \in Entries(c, files, batches)
      /\ read[r].doing = "keep" =>
           v.candles \in Answer /\ v.candles \in Answers(files, read[r].set, Low(read[r], files))
  BY <1>2, InsertedIsAnEntry
<1>6. /\ read[r].doing # "nothing" /\ read[r].set \in Served(batches)
  BY <1>3, RequestFacts DEF ScanDoing
<1> HIDE DEF c, k, v
<1>7. StoreOK' /\ ImportsOK'
  BY <1>1, <1>2, StoreLeft
<1>8. /\ Assigned(cache[c], k, v) \in Seq(Entries(c, files, batches))
      /\ Len(Assigned(cache[c], k, v)) = IF Has(cache[c], k) THEN Len(cache[c]) ELSE Len(cache[c]) + 1
      /\ Distinct(Assigned(cache[c], k, v)) /\ Has(Assigned(cache[c], k, v), k)
      /\ \A j : Has(cache[c], j) => Has(Assigned(cache[c], k, v), j)
  <2>1. PICK K, V : Entries(c, files, batches) \in SUBSET [key : K, value : V]
    BY <1>4, EntriesAreRecords
  <2>2. cache[c] \in Seq(Entries(c, files, batches)) /\ Distinct(cache[c])
    BY <1>1, <1>4 DEF CachesOK
  <2> QED BY <1>5, <2>1, <2>2, AssignedIs
<1>9. cache'[c] = Assigned(cache[c], k, v) /\ \A d \in Caches : d # c => cache'[d] = cache[d]
  BY <1>1, <1>2, <1>4 DEF CachesOK
<1>10. CachesOK'
  <2>1. cache' = [d \in Caches |-> cache'[d]]
    BY <1>1, <1>2 DEF CachesOK
  <2>2. \A d \in Caches : cache'[d] \in Seq(Entries(d, files', batches')) /\ Distinct(cache'[d])
    BY <1>1, <1>2, <1>8, <1>9 DEF CachesOK
  <2> QED BY <2>1, <2>2 DEF CachesOK
<1>11. read' = [read EXCEPT ![r] = q]
  BY <1>1, <1>2 DEF RequestsOK, Requests
<1>12. /\ q \in Requests /\ q.set = read[r].set /\ q.session = read[r].session
       /\ q.doing = read[r].doing /\ q.step = "settle" /\ q.found = read[r].found
  BY <1>2, <1>5 DEF Requests, Doing
<1>13. RequestOK(q, files)
  <2>1. CASE read[r].doing = "keep"
    <3>1. q = [read[r] EXCEPT !.step = "settle", !.candles = v.candles] /\ v.candles # None
      BY <1>5, <2>1, DataAssumption DEF Doing
    <3> QED BY <1>2, <1>5, <2>1, <3>1 DEF RequestOK, StepsOf, ScanDoing, Signed, Low, Base, Requests
  <2>2. CASE read[r].doing # "keep"
    <3>1. q = [read[r] EXCEPT !.step = "settle", !.candles = None]
      BY <2>2 DEF Doing
    <3> QED BY <1>2, <1>3, <2>2, <3>1 DEF RequestOK, StepsOf, ScanDoing, Signed, Low, Base, Requests
  <2> QED BY <2>1, <2>2
<1>14. CacheIn(q) = c /\ KeyIn(q) = k
  BY <1>4, <1>12 DEF CacheIn, KeyIn
<1> HIDE DEF q
<1>15. RequestsOK'
  BY <1>1, <1>2, <1>6, <1>11, <1>12, <1>13, OneRequest
<1>16. read'[r] = q /\ \A p \in Readers : p # r => read'[p] = read[p]
  BY <1>1, <1>11 DEF RequestsOK
<1>17. \A d \in Caches : Settling(cache, read, d) \subseteq Settling(cache', read', d)
  <2> SUFFICES ASSUME NEW d \in Caches, NEW p \in Readers, read[p].step = "settle", CacheIn(read[p]) = d,
                      Has(cache[d], KeyIn(read[p]))
               PROVE  KeyIn(read[p]) \in Settling(cache', read', d)
    BY DEF Settling, Inserting
  <2>1. p # r /\ read'[p] = read[p]
    BY <1>2, <1>16
  <2>2. Has(cache'[d], KeyIn(read[p]))
    BY <1>8, <1>9
  <2> QED BY <2>1, <2>2 DEF Settling, Inserting
<1>18. k \in Settling(cache', read', c)
  BY <1>8, <1>9, <1>12, <1>14, <1>16 DEF Settling, Inserting
<1>19. SizesOK'
  <2> SUFFICES ASSUME NEW d \in Caches
               PROVE  Len(cache'[d]) <= Capacity[d] + Cardinality(Settling(cache', read', d))
    BY DEF SizesOK
  <2>1. Len(cache[d]) \in Nat /\ Len(cache'[d]) \in Nat
    BY <1>1, <1>10, CacheLengths, LenProperties DEF CachesOK
  <2>2. Len(cache[d]) <= Capacity[d] + Cardinality(Settling(cache, read, d))
    BY <1>1 DEF SizesOK
  <2>3. CASE d # c \/ Has(cache[c], k)
    <3>1. Len(cache'[d]) <= Len(cache[d])
      BY <1>8, <1>9, <2>1, <2>3
    <3> QED BY <1>17, <2>1, <2>2, <3>1, SizeKeeps
  <2>4. CASE d = c /\ ~Has(cache[c], k)
    <3> DEFINE old == Settling(cache, read, c)
               new == Settling(cache', read', c)
    <3>1. k \notin old
      BY <2>4 DEF Settling
    <3>2. old \cup {k} \subseteq new /\ IsFiniteSet(new) /\ Cardinality(new) \in Nat
          /\ IsFiniteSet(old) /\ Cardinality(old) \in Nat
      BY <1>4, <1>17, <1>18, SettlingFinite
    <3> HIDE DEF old, new
    <3>3. Cardinality(old \cup {k}) = Cardinality(old) + 1
      BY <3>1, <3>2, FS_AddElement
    <3>4. Cardinality(old) + 1 <= Cardinality(new)
      BY <3>2, <3>3, FS_Subset
    <3>5. Len(cache'[d]) = Len(cache[d]) + 1
      BY <1>8, <1>9, <2>4
    <3>6. Len(cache[d]) <= Capacity[d] + Cardinality(old)
      BY <2>2, <2>4 DEF old
    <3>7. Capacity[d] \in Nat
      BY DataAssumption
    <3>8. Len(cache'[d]) <= Capacity[d] + Cardinality(new)
      BY <2>1, <3>2, <3>4, <3>5, <3>6, <3>7
    <3> QED BY <2>4, <3>8 DEF new
  <2> QED BY <2>3, <2>4
<1> QED BY <1>7, <1>10, <1>15, <1>19 DEF ImportInv

\* move_to_end and the eviction keep the invariant.
LEMMA TouchKeeps ==
    ASSUME ImportInv, NEW r \in Readers, Touch(r)
    PROVE  ImportInv'
<1> DEFINE c == CacheOf(r)
           k == KeyOf(r)
           q == Onwards(read[r])
           moved == MovedToEnd(cache[c], k)
           kept == Settled(r, cache[c])
<1>1. StoreOK /\ ImportsOK /\ RequestsOK /\ CachesOK /\ SizesOK
  BY DEF ImportInv
<1>2. /\ read[r] \in Requests /\ RequestOK(read[r], files) /\ read[r].step \in {"touch", "settle"}
      /\ Has(cache[c], k)
      /\ cache' = [cache EXCEPT ![c] = kept]
      /\ read' = [read EXCEPT ![r] = q]
      /\ UNCHANGED <<store, importing>> /\ UNCHANGED <<files, batches, pinned>>
  BY RequestFacts DEF Touch, Proceed, store
<1>3. read[r].doing \in ScanDoing \cup {"bars", "entry", "keep"}
  BY <1>2 DEF RequestOK, StepsOf, Requests, ScanDoing, Signed
<1>4. /\ c \in Caches /\ c = CacheIn(read[r]) /\ k = KeyIn(read[r])
  BY <1>3, NamesAgree
<1>5. /\ read[r].doing # "nothing" /\ read[r].set \in Served(batches)
  BY <1>3, RequestFacts DEF ScanDoing
<1>6. /\ q \in Requests /\ RequestOK(q, files)
      /\ \/ q = NoRead
         \/ /\ q.session = read[r].session /\ q.set = read[r].set
            /\ q.doing \in {"size", "count"} => read[r].doing \in {"size", "count"}
  BY <1>2, <1>5, OnwardsOK
<1>7. /\ moved \in Seq(Entries(c, files, batches)) /\ Len(moved) = Len(cache[c]) /\ Distinct(moved)
      /\ \A j : Has(cache[c], j) => Has(moved, j)
  <2>1. cache[c] \in Seq(Entries(c, files, batches)) /\ Distinct(cache[c])
    BY <1>1, <1>4 DEF CachesOK
  <2> QED BY <1>2, <2>1, MovedIs
<1>8. Capacity[c] \in Nat
  BY <1>4, DataAssumption
<1>9. /\ kept \in Seq(Entries(c, files, batches)) /\ Distinct(kept)
      /\ read[r].step = "touch" => kept = moved
      /\ read[r].step # "touch" => Len(kept) <= Capacity[c]
  <2>1. read[r].step = "touch" => kept = moved
    BY DEF Settled, At
  <2>2. read[r].step # "touch" => kept = Evicted(moved, Capacity[c])
    BY DEF Settled, At
  <2> HIDE DEF moved, kept, c
  <2> QED BY <1>7, <1>8, <2>1, <2>2, EvictedIs
<1> HIDE DEF c, k, q, moved, kept
<1>10. StoreOK' /\ ImportsOK'
  BY <1>1, <1>2, StoreLeft
<1>11. cache'[c] = kept /\ \A d \in Caches : d # c => cache'[d] = cache[d]
  BY <1>1, <1>2, <1>4 DEF CachesOK
<1>12. CachesOK'
  <2>1. cache' = [d \in Caches |-> cache'[d]]
    BY <1>1, <1>2 DEF CachesOK
  <2>2. \A d \in Caches : cache'[d] \in Seq(Entries(d, files', batches')) /\ Distinct(cache'[d])
    BY <1>1, <1>2, <1>9, <1>11 DEF CachesOK
  <2> QED BY <2>1, <2>2 DEF CachesOK
<1>13. RequestsOK'
  BY <1>1, <1>2, <1>5, <1>6, NoReadOK, OneRequest
<1>14. read'[r] = q /\ \A p \in Readers : p # r => read'[p] = read[p]
  BY <1>1, <1>2 DEF RequestsOK
<1>15. SizesOK'
  <2> SUFFICES ASSUME NEW d \in Caches
               PROVE  Len(cache'[d]) <= Capacity[d] + Cardinality(Settling(cache', read', d))
    BY DEF SizesOK
  <2>1. Len(cache[d]) \in Nat /\ Len(cache'[d]) \in Nat
    BY <1>1, <1>12, CacheLengths, LenProperties DEF CachesOK
  <2>2. CASE d = c /\ read[r].step = "settle"
    <3>1. Len(cache'[d]) <= Capacity[d]
      BY <1>9, <1>11, <2>2
    <3>2. Cardinality(Settling(cache', read', d)) \in Nat
      BY SettlingFinite
    <3>3. Capacity[d] \in Nat
      BY DataAssumption
    <3> QED BY <2>1, <3>1, <3>2, <3>3
  <2>3. CASE d # c \/ read[r].step = "touch"
    <3>1. Len(cache'[d]) <= Len(cache[d])
      BY <1>7, <1>9, <1>11, <2>1, <2>3
    <3>2. Settling(cache, read, d) \subseteq Settling(cache', read', d)
      <4> SUFFICES ASSUME NEW p \in Readers, read[p].step = "settle", CacheIn(read[p]) = d,
                          Has(cache[d], KeyIn(read[p]))
                   PROVE  KeyIn(read[p]) \in Settling(cache', read', d)
        BY DEF Settling, Inserting
      <4>1. p # r
        BY <1>4, <2>3
      <4>2. read'[p] = read[p]
        BY <1>14, <4>1
      <4>3. Has(cache'[d], KeyIn(read[p]))
        <5>1. CASE d = c
          BY <1>7, <1>9, <1>11, <2>3, <5>1
        <5>2. CASE d # c
          BY <1>11, <5>2
        <5> QED BY <5>1, <5>2
      <4> QED BY <4>2, <4>3 DEF Settling, Inserting
    <3>3. Len(cache[d]) <= Capacity[d] + Cardinality(Settling(cache, read, d))
      BY <1>1 DEF SizesOK
    <3> QED BY <2>1, <3>1, <3>2, <3>3, SizeKeeps
  <2> QED BY <1>2, <2>2, <2>3
<1> QED BY <1>10, <1>12, <1>13, <1>15 DEF ImportInv

\* So does the KeyError of an entry that has gone meanwhile.
LEMMA TouchNothingKeeps ==
    ASSUME ImportInv, NEW r \in Readers, TouchNothing(r)
    PROVE  ImportInv'
<1>1. /\ read[r] \in Requests /\ RequestOK(read[r], files) /\ read[r].step \in {"touch", "settle"}
      /\ ~Has(cache[CacheOf(r)], KeyOf(r)) /\ Refuse(r) /\ UNCHANGED <<store, importing, cache>>
  BY RequestFacts DEF TouchNothing
<1>2. read[r].doing \in ScanDoing \cup {"bars", "entry", "keep"}
  BY <1>1 DEF RequestOK, StepsOf, Requests, ScanDoing, Signed
<1>3. CacheOf(r) = CacheIn(read[r]) /\ KeyOf(r) = KeyIn(read[r])
  BY <1>2, NamesAgree
<1> QED BY <1>1, <1>3, RefuseKeeps

-----------------------------------------------------------------------------
(* The steps of an import keep the invariant *)

\* What a session may read of a dataset that is not staged any more grows only.
ServedLasts(F, G, B) ==
    \A d \in Served(B) : /\ F[d] \in Stamped /\ G[d] \in Stamped
                         /\ \A y \in Years : F[d][y] <= G[d][y]
                         /\ d # Legacy => G[d] = F[d]

\* Where the files of what is served stay, all that was read of them lasts.
LEMMA ServedStays ==
    ASSUME StoreOK, NEW G, \A d \in Served(batches) : G[d] = files[d]
    PROVE  ServedLasts(files, G, batches)
<1> SUFFICES ASSUME NEW d \in Served(batches)
             PROVE  files[d] \in Stamped /\ \A y \in Years : files[d][y] <= files[d][y]
  BY DEF ServedLasts
<1>1. files[d] \in Stamped
  BY DEF StoreOK, Served, Datasets
<1>2. \A y \in Years : files[d][y] \in Nat
  BY <1>1, StampedType
<1> QED BY <1>1, <1>2

\* Then requests and caches stay in order as well.
LEMMA ReadersLive ==
    ASSUME RequestsOK, CachesOK, SizesOK, ServedLasts(files, files', batches), batches \subseteq batches',
           UNCHANGED <<pinned, cache, read>>
    PROVE  RequestsOK' /\ CachesOK' /\ SizesOK'
<1>1. RequestsOK'
  <2>1. ASSUME NEW r \in Readers
        PROVE  RequestOK(read[r], files') /\ read[r].set \in Served(batches') \cup {None}
    <3>1. /\ read[r] \in Requests /\ RequestOK(read[r], files)
          /\ read[r].set \in Served(batches) \cup {None}
      BY DEF RequestsOK
    <3>2. None \notin Datasets
      BY DataAssumption
    <3>3. RequestOK(read[r], files')
      BY <3>1, <3>2, RequestLives DEF ServedLasts
    <3> QED BY <3>1, <3>3 DEF Served
  <2> QED BY <2>1 DEF RequestsOK
<1>2. CachesOK'
  <2>1. ASSUME NEW c \in Caches PROVE cache[c] \in Seq(Entries(c, files', batches')) /\ Distinct(cache[c])
    <3>1. cache[c] \in Seq(Entries(c, files, batches)) /\ Distinct(cache[c])
      BY DEF CachesOK
    <3>2. Entries(c, files, batches) \subseteq Entries(c, files', batches')
      BY EntriesGrow DEF ServedLasts
    <3> QED BY <3>1, <3>2, SeqMonotonic
  <2> QED BY <2>1 DEF CachesOK
<1>3. SizesOK'
  BY DEF SizesOK
<1> QED BY <1>1, <1>2, <1>3

\* An import stays in order while its own version is left alone.
LEMMA ImportLives ==
    ASSUME NEW m, NEW F, NEW R, NEW B, NEW G, NEW S, NEW C, ImportOK(m, F, R, B),
           m.version # None => /\ G[m.version] = F[m.version]
                               /\ m.version \in R => m.version \in S
                               /\ m.version \in C => m.version \in B
    PROVE  ImportOK(m, G, S, C)
<1>1. CASE m.version = None
  <2>1. m.stage = "idle"
    BY <1>1 DEF ImportOK
  <2> QED BY <1>1, <2>1 DEF ImportOK, Staging
<1>2. CASE m.version # None
  BY <1>2 DEF ImportOK
<1> QED BY <1>1, <1>2

\* One import changes: it suffices that it is in order, with a version of its own.
LEMMA OneImport ==
    ASSUME ImportsOK, NEW i \in Importers, NEW m, import' = [import EXCEPT ![i] = m],
           ImportOK(m, files', raw', batches'), m.version \in begun' \cup {None}, begun \subseteq begun',
           m.version \in {import[i].version, None} \/ m.version \notin begun \cup {None},
           \A j \in Importers : j # i => ImportOK(import[j], files', raw', batches')
    PROVE  ImportsOK'
<1>1. import'[i] = m /\ \A j \in Importers : j # i => import'[j] = import[j]
  BY DEF ImportsOK
<1>2. import' = [j \in Importers |-> import'[j]]
  BY DEF ImportsOK
<1>3. \A j \in Importers :
         import'[j].version \in begun' \cup {None} /\ ImportOK(import'[j], files', raw', batches')
  BY <1>1 DEF ImportsOK
<1>4. \A j, k \in Importers : import'[j].version = import'[k].version => j = k \/ import'[j].version = None
  <2> SUFFICES ASSUME NEW j \in Importers, NEW k \in Importers, j # k,
                      import'[j].version = import'[k].version
               PROVE  import'[j].version = None
    OBVIOUS
  <2>1. \A a, b \in Importers : import[a].version = import[b].version => a = b \/ import[a].version = None
    BY DEF ImportsOK
  <2>2. \A a \in Importers : import[a].version \in begun \cup {None}
    BY DEF ImportsOK
  <2>3. CASE j # i /\ k # i
    BY <1>1, <2>1, <2>3
  <2>4. CASE j = i
    BY <1>1, <2>1, <2>2, <2>4
  <2>5. CASE k = i
    BY <1>1, <2>1, <2>2, <2>5
  <2> QED BY <2>3, <2>4, <2>5
<1> QED BY <1>2, <1>3, <1>4 DEF ImportsOK

\* What is known of an importing thread, and of the others beside it.
LEMMA ImportFacts ==
    ASSUME ImportInv, NEW i \in Importers
    PROVE  /\ import[i] \in [stage : Stages, version : {import[i].version}, keys : {import[i].keys}]
           /\ ImportOK(import[i], files, raw, batches)
           /\ import[i].stage # "idle" =>
                /\ import[i].version \in begun /\ import[i].version \in Versions
                /\ import[i].version # None /\ import[i].version # Legacy
                /\ Whole(import[i].version) \in Stamped
                /\ Source[import[i].version] \subseteq Years
                /\ \A j \in Importers : j # i => import[j].version # import[i].version
           /\ files \in [Datasets -> Stamped] /\ batches \subseteq Versions
<1>1. /\ ImportOK(import[i], files, raw, batches) /\ import[i].version \in begun \cup {None}
      /\ \A j \in Importers : import[i].version = import[j].version => i = j \/ import[i].version = None
  BY DEF ImportInv, ImportsOK
<1>2. files \in [Datasets -> Stamped] /\ batches \subseteq begun /\ begun \subseteq Versions
  BY DEF ImportInv, StoreOK
<1>3. Legacy \notin Versions /\ Source \in [Versions -> (SUBSET Years) \ {{}}]
  BY DataAssumption
<1>4. import[i].stage # "idle" => import[i].version # None
  BY <1>1 DEF ImportOK
<1> QED BY <1>1, <1>2, <1>3, <1>4, WholeIsStamped DEF ImportOK

\* An import that only goes on to another stage.
LEMMA StageKeeps ==
    ASSUME ImportInv, NEW i \in Importers, NEW m, import' = [import EXCEPT ![i] = m],
           UNCHANGED <<store, begun, cache, read>>, ImportOK(m, files, raw, batches),
           m.version \in {import[i].version, None}
    PROVE  ImportInv'
<1>1. StoreOK /\ ImportsOK /\ RequestsOK /\ CachesOK /\ SizesOK
  BY DEF ImportInv
<1>2. /\ files' = files /\ raw' = raw /\ batches' = batches /\ current' = current /\ pinned' = pinned
      /\ begun' = begun /\ cache' = cache /\ read' = read
  BY DEF store
<1>3. StoreOK'
  BY <1>1, <1>2 DEF StoreOK
<1>4. RequestsOK' /\ CachesOK' /\ SizesOK'
  <2>1. ServedLasts(files, files', batches)
    BY <1>1, <1>2, ServedStays
  <2> QED BY <1>1, <1>2, <2>1, ReadersLive
<1>5. ImportsOK'
  <2>1. \A j \in Importers : import[j].version \in begun \cup {None} /\ ImportOK(import[j], files, raw, batches)
    BY <1>1 DEF ImportsOK
  <2> QED BY <1>1, <1>2, <2>1, OneImport
<1> QED BY <1>3, <1>4, <1>5 DEF ImportInv

\* A step that stages, keeps or cleans up the version of an import: nobody is
\* served of it.
LEMMA StagingKeeps ==
    ASSUME ImportInv, NEW i \in Importers, import[i].stage \in Staging, NEW m,
           import' = [import EXCEPT ![i] = m], UNCHANGED <<batches, current, pinned, begun, cache, read>>,
           files' \in [Datasets -> Stamped], \A d \in Datasets : d # import[i].version => files'[d] = files[d],
           raw' \subseteq Versions, \A v \in Versions : v # import[i].version => (v \in raw' <=> v \in raw),
           ImportOK(m, files', raw', batches), m.version \in {import[i].version, None}
    PROVE  ImportInv'
<1>1. StoreOK /\ ImportsOK /\ RequestsOK /\ CachesOK /\ SizesOK
  BY DEF ImportInv
<1> DEFINE v == import[i].version
<1>2. /\ v \in begun /\ v \in Versions /\ v # None /\ v # Legacy
      /\ \A j \in Importers : j # i => import[j].version # v
  BY ImportFacts DEF Staging
<1>3. v \notin batches
  BY ImportFacts DEF ImportOK
<1>4. begun \subseteq Versions /\ batches \subseteq begun
  BY <1>1 DEF StoreOK
<1>5. \A d \in Served(batches) : d \in Datasets /\ d # v
  BY <1>2, <1>3, <1>4 DEF Served, Datasets
<1>6. StoreOK'
  <2>1. \A w \in batches : files'[w] = Whole(w) /\ w \in raw'
    BY <1>1, <1>3, <1>4 DEF StoreOK, Datasets
  <2>2. \A w \in Versions \ begun : files'[w] = Missing
    BY <1>1, <1>2 DEF StoreOK, Datasets
  <2> QED BY <1>1, <2>1, <2>2 DEF StoreOK
<1>7. RequestsOK' /\ CachesOK' /\ SizesOK'
  <2>1. ServedLasts(files, files', batches)
    BY <1>1, <1>5, ServedStays
  <2> QED BY <1>1, <2>1, ReadersLive
<1>8. ImportsOK'
  <2>1. ASSUME NEW j \in Importers, j # i PROVE ImportOK(import[j], files', raw', batches)
    <3>1. ImportOK(import[j], files, raw, batches) /\ import[j].version \in begun \cup {None}
      BY <1>1 DEF ImportsOK
    <3>2. import[j].version # None => /\ files'[import[j].version] = files[import[j].version]
                                      /\ import[j].version \in raw => import[j].version \in raw'
      BY <1>2, <1>4, <2>1, <3>1 DEF Datasets
    <3> QED BY <3>1, <3>2, ImportLives
  <2>2. m.version \in begun \cup {None}
    BY <1>2
  <2> QED BY <1>1, <2>1, <2>2, OneImport
<1> QED BY <1>6, <1>7, <1>8 DEF ImportInv

\* Beginning an import keeps the invariant: its version is fresh.
LEMMA BeginImportKeeps ==
    ASSUME ImportInv, NEW i \in Importers, NEW v \in Versions, BeginImport(i, v)
    PROVE  ImportInv'
<1>1. StoreOK /\ ImportsOK /\ RequestsOK /\ CachesOK /\ SizesOK
  BY DEF ImportInv
<1> DEFINE m == [stage |-> "years", version |-> v, keys |-> Ascending(Source[v])]
<1>2. /\ files' = files /\ raw' = raw /\ batches' = batches /\ current' = current /\ pinned' = pinned
      /\ begun' = begun \cup {v} /\ v \notin begun /\ cache' = cache /\ read' = read
      /\ import' = [import EXCEPT ![i] = m]
  BY DEF BeginImport, store
<1>3. StoreOK'
  BY <1>1, <1>2 DEF StoreOK
<1>4. RequestsOK' /\ CachesOK' /\ SizesOK'
  <2>1. ServedLasts(files, files', batches)
    BY <1>1, <1>2, ServedStays
  <2> QED BY <1>1, <1>2, <2>1, ReadersLive
<1>5. ImportOK(m, files, raw, batches)
  <2>1. /\ Source[v] \in SUBSET Nat /\ IsFiniteSet(Source[v]) /\ Source[v] # {} /\ v # None
        /\ Source[v] \subseteq Years
    BY DataAssumption, FS_Subset DEF Datasets
  <2> DEFINE list == Ascending(Source[v])
  <2>2. /\ list \in Seq(Source[v]) /\ \A x \in Source[v] : \E k \in DOMAIN list : list[k] = x
    BY <2>1, AscendingLists
  <2> HIDE DEF list
  <2>3. list # <<>>
    BY <2>1, <2>2
  <2>4. files[v] = Missing /\ v \notin batches
    BY <1>1, <1>2 DEF StoreOK
  <2>5. \A y \in Years : \/ files[v][y] = Whole(v)[y]
                         \/ files[v][y] = 0 /\ \E k \in DOMAIN list : list[k] = y
    BY <2>2, <2>4 DEF Missing, Whole
  <2>6. m.stage = "years" /\ m.version = v /\ m.keys = list
    BY DEF list
  <2> QED BY <2>1, <2>2, <2>3, <2>4, <2>5, <2>6 DEF ImportOK, Staging, Stages, list
<1>6. ImportsOK'
  <2>1. \A j \in Importers : import[j].version \in begun \cup {None} /\ ImportOK(import[j], files, raw, batches)
    BY <1>1 DEF ImportsOK
  <2>2. v # None /\ m.version = v
    BY DataAssumption DEF Datasets
  <2> HIDE DEF m
  <2> QED BY <1>1, <1>2, <1>5, <2>1, <2>2, OneImport
<1> QED BY <1>3, <1>4, <1>6 DEF ImportInv

\* Writing one year keeps the invariant.
LEMMA WriteKeeps ==
    ASSUME ImportInv, NEW i \in Importers, WriteYear(i)
    PROVE  ImportInv'
<1> DEFINE v == import[i].version
           keys == import[i].keys
           h == Head(keys)
           m == [import[i] EXCEPT !.keys = Tail(keys), !.stage = IF Len(keys) = 1 THEN "raw" ELSE "years"]
<1>1. /\ import[i].stage = "years" /\ files' = [files EXCEPT ![v][h] = 1]
      /\ import' = [import EXCEPT ![i].keys = Tail(@), ![i].stage = IF Len(keys) = 1 THEN "raw" ELSE "years"]
      /\ UNCHANGED <<raw, batches, current, pinned, begun, cache, read>>
  BY DEF WriteYear, ImportAt
<1>2. /\ v \in Versions /\ v # None /\ Whole(v) \in Stamped /\ Source[v] \subseteq Years
      /\ files \in [Datasets -> Stamped] /\ ImportOK(import[i], files, raw, batches)
      /\ import[i] \in [stage : Stages, version : {v}, keys : {keys}]
  BY <1>1, ImportFacts
<1>3. /\ keys \in Seq(Source[v]) /\ keys # <<>> /\ v \notin batches
      /\ \A y \in Years : \/ files[v][y] = Whole(v)[y]
                          \/ files[v][y] = 0 /\ \E k \in DOMAIN keys : keys[k] = y
  BY <1>1, <1>2 DEF ImportOK, Staging
<1>4. import' = [import EXCEPT ![i] = m]
  <2>1. import = [j \in Importers |-> import[j]]
    BY DEF ImportInv, ImportsOK
  <2> HIDE DEF v
  <2> QED BY <1>1, <1>2, <2>1
<1>5. m = [stage |-> IF Len(keys) = 1 THEN "raw" ELSE "years", version |-> v, keys |-> Tail(keys)]
  <2> DEFINE rec == import[i]
             stage == IF Len(keys) = 1 THEN "raw" ELSE "years"
             rest == Tail(keys)
  <2>1. rec \in [stage : Stages, version : {v}, keys : {keys}] /\ m = [rec EXCEPT !.keys = rest, !.stage = stage]
    BY <1>2
  <2> HIDE DEF rec, stage, rest, v, keys, m
  <2>2. m = [stage |-> stage, version |-> v, keys |-> rest]
    BY <2>1
  <2> QED BY <2>2 DEF stage, rest
<1> HIDE DEF v, keys, m
<1>6. /\ h \in Source[v] /\ h \in Years /\ Len(keys) \in Nat \ {0} /\ h = keys[1] /\ DOMAIN keys = 1 .. Len(keys)
      /\ Tail(keys) \in Seq(Source[v]) /\ Len(Tail(keys)) = Len(keys) - 1
      /\ \A n \in 1 .. Len(keys) - 1 : Tail(keys)[n] = keys[n + 1]
  <2>1. /\ Head(keys) \in Source[v] /\ Tail(keys) \in Seq(Source[v]) /\ Len(Tail(keys)) = Len(keys) - 1
        /\ \A n \in 1 .. Len(Tail(keys)) : Tail(keys)[n] = keys[n + 1]
    BY <1>3, HeadTailProperties
  <2>2. Len(keys) \in Nat \ {0} /\ DOMAIN keys = 1 .. Len(keys) /\ Head(keys) = keys[1]
    BY <1>3
  <2> QED BY <1>2, <2>1, <2>2
<1> HIDE DEF h
<1>7. files[v] \in Stamped /\ files[v] \in [Years -> Nat] /\ \A y \in Years : files[v][y] <= MaxStamp[y]
  BY <1>2, StampedType DEF Datasets
<1> DEFINE f == [files[v] EXCEPT ![h] = 1]
<1>8. f \in Stamped
  <2>1. MaxStamp[h] \in Nat /\ 1 <= MaxStamp[h]
    BY <1>6, DataAssumption
  <2>2. f \in [Years -> Nat] /\ \A y \in Years : f[y] <= MaxStamp[y]
    BY <1>6, <1>7, <2>1
  <2> HIDE DEF f
  <2> QED BY <2>2, StampedIs
<1>9. f[h] = 1 /\ \A y \in Years : y # h => f[y] = files[v][y]
  BY <1>6, <1>7
<1>10. files' = [files EXCEPT ![v] = f] /\ v \in Datasets
  BY <1>1, <1>2 DEF Datasets, v, keys, h
<1> HIDE DEF f
<1>11. files' \in [Datasets -> Stamped] /\ files'[v] = f /\ \A d \in Datasets : d # v => files'[d] = files[d]
  BY <1>2, <1>8, <1>10
<1>12. Whole(v)[h] = 1
  BY <1>6 DEF Whole
<1>13. \A y \in Years : \/ f[y] = Whole(v)[y]
                        \/ f[y] = 0 /\ \E k \in 1 .. Len(keys) - 1 : Tail(keys)[k] = y
  <2> SUFFICES ASSUME NEW y \in Years, f[y] # Whole(v)[y]
               PROVE  f[y] = 0 /\ \E k \in 1 .. Len(keys) - 1 : Tail(keys)[k] = y
    OBVIOUS
  <2>1. y # h /\ f[y] = files[v][y]
    BY <1>9, <1>12
  <2>2. files[v][y] = 0 /\ \E k \in DOMAIN keys : keys[k] = y
    BY <1>3, <2>1
  <2>3. PICK k \in 1 .. Len(keys) : keys[k] = y
    BY <1>6, <2>2
  <2>4. k # 1
    BY <1>6, <2>1, <2>3
  <2>5. k - 1 \in 1 .. Len(keys) - 1 /\ (k - 1) + 1 = k
    BY <1>6, <2>4
  <2>6. Tail(keys)[k - 1] = y
    BY <1>6, <2>3, <2>5
  <2> QED BY <2>1, <2>2, <2>5, <2>6
<1>14. ImportOK(m, files', raw', batches)
  <2>1. CASE Len(keys) = 1
    <3>1. m.stage = "raw" /\ m.version = v
      BY <1>5, <2>1
    <3>2. \A y \in Years : f[y] = Whole(v)[y]
      BY <1>13, <2>1
    <3>3. f = Whole(v)
      <4>1. f \in [Years -> Nat] /\ Whole(v) \in [Years -> Nat]
        BY <1>2, <1>8, StampedType
      <4> QED BY <3>2, <4>1
    <3> QED BY <1>2, <1>3, <1>5, <1>11, <3>1, <3>3 DEF ImportOK, Stages, Staging
  <2>2. CASE Len(keys) # 1
    <3>1. m.stage = "years" /\ m.version = v /\ m.keys = Tail(keys)
      BY <1>5, <2>2
    <3>2. Len(Tail(keys)) # 0 /\ DOMAIN Tail(keys) = 1 .. Len(keys) - 1
      BY <1>6, <2>2
    <3>3. Tail(keys) # <<>>
      <4> SUFFICES ASSUME Tail(keys) = <<>> PROVE FALSE
        OBVIOUS
      <4>1. Len(Tail(keys)) = 0
        BY EmptySeq
      <4> QED BY <3>2, <4>1
    <3>4. m \in [stage : Stages, version : {m.version}, keys : {m.keys}]
      BY <1>5, <2>2 DEF Stages, Staging
    <3>5. Tail(keys) \in Seq(Source[v])
      BY <1>6
    <3>6. \A y \in Years : \/ f[y] = Whole(v)[y]
                           \/ f[y] = 0 /\ \E k \in DOMAIN Tail(keys) : Tail(keys)[k] = y
      BY <1>13, <3>2
    <3>7. files'[m.version] = f /\ m.version \notin batches /\ m.version # None
      BY <1>2, <1>3, <1>11, <3>1
    <3>8. m.keys \in Seq(Source[m.version]) /\ m.keys # <<>>
      BY <3>1, <3>3, <3>5
    <3>9. \A y \in Years : \/ files'[m.version][y] = Whole(m.version)[y]
                           \/ files'[m.version][y] = 0 /\ \E k \in DOMAIN m.keys : m.keys[k] = y
      BY <3>1, <3>6, <3>7
    <3> QED BY <3>1, <3>4, <3>7, <3>8, <3>9 DEF ImportOK, Staging
  <2> QED BY <2>1, <2>2
<1>15. /\ import[i].stage \in Staging /\ import[i].version = v /\ m.version = v
       /\ raw' \subseteq Versions /\ raw' = raw
  BY <1>1, <1>5 DEF Staging, v, ImportInv, StoreOK
<1> QED BY <1>1, <1>4, <1>11, <1>14, <1>15, StagingKeeps

\* An import that goes to another stage keeps its version and its keys.
LEMMA StageChanges ==
    ASSUME ImportInv, NEW i \in Importers, NEW stage \in Stages
    PROVE  LET m == [import[i] EXCEPT !.stage = stage]
           IN  /\ m.stage = stage /\ m.version = import[i].version /\ m.keys = import[i].keys
               /\ m \in [stage : Stages, version : {m.version}, keys : {m.keys}]
<1> DEFINE rec == import[i]
           version == import[i].version
           keys == import[i].keys
           m == [rec EXCEPT !.stage = stage]
<1>1. rec \in [stage : Stages, version : {version}, keys : {keys}] /\ rec.version = version /\ rec.keys = keys
  BY ImportFacts
<1> HIDE DEF rec, version, keys
<1>2. /\ m.stage = stage /\ m.version = version /\ m.keys = keys
      /\ m \in [stage : Stages, version : {m.version}, keys : {m.keys}]
  BY <1>1
<1> QED BY <1>1, <1>2 DEF rec, version, keys

Changed(m, stage, keys) == [m EXCEPT !.stage = stage, !.keys = keys]

\* Changing stage and keys leaves the version.
LEMMA BothChange ==
    ASSUME ImportInv, NEW i \in Importers, NEW stage, NEW keys
    PROVE  Changed(import[i], stage, keys) = [stage |-> stage, version |-> import[i].version, keys |-> keys]
<1> DEFINE m == import[i]
           v == import[i].version
           w == Changed(m, stage, keys)
<1>1. m \in [stage : Stages, version : {v}, keys : {import[i].keys}]
  BY ImportFacts
<1> HIDE DEF m, v
<1>2. w \in [stage : {stage}, version : {v}, keys : {keys}]
  BY <1>1 DEF Changed
<1> HIDE DEF w
<1>3. w = [stage |-> stage, version |-> v, keys |-> keys]
  BY <1>2
<1> QED BY <1>3 DEF w, v, m

\* Copying the source keeps the invariant.
LEMMA CopyKeeps ==
    ASSUME ImportInv, NEW i \in Importers, CopyRaw(i)
    PROVE  ImportInv'
<1> DEFINE m == [import[i] EXCEPT !.stage = "publish"]
<1>1. /\ import[i].stage = "raw" /\ raw' = raw \cup {import[i].version}
      /\ import' = [import EXCEPT ![i].stage = "publish"]
      /\ UNCHANGED <<files, batches, current, pinned, begun, cache, read>> /\ files' = files
  BY DEF CopyRaw, ImportAt, ImportGoes
<1>2. import' = [import EXCEPT ![i] = m]
  BY <1>1
<1>3. /\ ImportOK(import[i], files, raw, batches) /\ import[i].version \in Versions
      /\ import[i].version # None /\ files \in [Datasets -> Stamped]
  BY <1>1, ImportFacts
<1>4. /\ m.stage = "publish" /\ m.version = import[i].version
      /\ m \in [stage : Stages, version : {m.version}, keys : {m.keys}]
  BY StageChanges DEF Stages, Staging
<1> HIDE DEF m
<1>5. ImportOK(m, files', raw', batches)
  BY <1>1, <1>3, <1>4 DEF ImportOK, Staging
<1>6. raw \subseteq Versions
  BY DEF ImportInv, StoreOK
<1>7. /\ raw' \subseteq Versions /\ import[i].stage \in Staging
      /\ \A v \in Versions : v # import[i].version => (v \in raw' <=> v \in raw)
  BY <1>1, <1>3, <1>6 DEF Staging
<1> QED BY <1>1, <1>2, <1>3, <1>4, <1>5, <1>7, StagingKeeps

\* Publishing keeps the invariant: the version is whole and its source is kept.
LEMMA PublishKeeps ==
    ASSUME ImportInv, NEW i \in Importers, Publish(i)
    PROVE  ImportInv'
<1> DEFINE m == [import[i] EXCEPT !.stage = "list bars"]
           v == import[i].version
<1>1. StoreOK /\ ImportsOK /\ RequestsOK /\ CachesOK /\ SizesOK
  BY DEF ImportInv
<1>2. /\ import[i].stage = "publish" /\ batches' = batches \cup {v} /\ current' = v
      /\ import' = [import EXCEPT ![i].stage = "list bars"]
      /\ files' = files /\ raw' = raw /\ pinned' = pinned /\ begun' = begun
      /\ UNCHANGED <<pinned, cache, read>>
  BY DEF Publish, ImportAt, ImportGoes
<1>3. import' = [import EXCEPT ![i] = m]
  BY <1>2
<1>4. /\ ImportOK(import[i], files, raw, batches) /\ v \in begun /\ v \in Versions /\ v # None
      /\ \A j \in Importers : j # i => import[j].version # v
  BY <1>2, ImportFacts
<1>5. files[v] = Whole(v) /\ v \in raw
  BY <1>2, <1>4 DEF ImportOK
<1>6. /\ m.stage = "list bars" /\ m.version = v
      /\ m \in [stage : Stages, version : {m.version}, keys : {m.keys}]
  BY StageChanges DEF Stages
<1> HIDE DEF m, v
<1>7. StoreOK'
  BY <1>1, <1>2, <1>4, <1>5 DEF StoreOK, Served
<1>8. RequestsOK' /\ CachesOK' /\ SizesOK'
  <2>1. ServedLasts(files, files', batches)
    BY <1>1, <1>2, ServedStays
  <2> QED BY <1>1, <1>2, <2>1, ReadersLive
<1>9. ImportsOK'
  <2>1. ImportOK(m, files', raw', batches')
    BY <1>4, <1>6 DEF ImportOK, Staging
  <2>2. ASSUME NEW j \in Importers, j # i PROVE ImportOK(import[j], files', raw', batches')
    <3>1. ImportOK(import[j], files, raw, batches)
      BY <1>1 DEF ImportsOK
    <3>2. import[j].version \in batches' => import[j].version \in batches
      BY <1>2, <1>4, <2>2
    <3>3. ImportOK(import[j], files, raw, batches')
      BY <3>1, <3>2, ImportLives
    <3> QED BY <1>2, <3>3
  <2>3. m.version \in begun' \cup {None} /\ m.version = import[i].version
    BY <1>2, <1>4, <1>6 DEF v
  <2> QED BY <1>1, <1>2, <1>3, <2>1, <2>2, <2>3, OneImport
<1> QED BY <1>7, <1>8, <1>9 DEF ImportInv

\* A failure before the commit keeps the invariant.
LEMMA FailKeeps ==
    ASSUME ImportInv, NEW i \in Importers, Fail(i)
    PROVE  ImportInv'
<1> DEFINE version == import[i].version
           m == [stage |-> "drop files", version |-> version, keys |-> <<>>]
<1>1. /\ import[i].stage \in {"years", "raw", "publish"}
      /\ import' = [import EXCEPT ![i].stage = "drop files", ![i].keys = <<>>]
      /\ UNCHANGED <<store, begun, cache, read>>
  BY DEF Fail
<1>2. /\ ImportOK(import[i], files, raw, batches) /\ version # None
      /\ import[i] \in [stage : Stages, version : {version}, keys : {import[i].keys}]
  BY <1>1, ImportFacts
<1>3. import' = [import EXCEPT ![i] = m]
  <2>1. [import[i] EXCEPT !.stage = "drop files", !.keys = <<>>] = m
    <3>1. Changed(import[i], "drop files", <<>>) = m
      BY BothChange
    <3> QED BY <3>1 DEF Changed
  <2>2. import' = [import EXCEPT ![i] = [import[i] EXCEPT !.stage = "drop files", !.keys = <<>>]]
    BY <1>1 DEF ImportInv, ImportsOK
  <2> QED BY <2>1, <2>2
<1>4. m.stage = "drop files" /\ m.version = version /\ version \notin batches
  BY <1>1, <1>2 DEF ImportOK, Staging
<1>5. m \in [stage : Stages, version : {m.version}, keys : {m.keys}]
  BY DEF Stages, Staging
<1> HIDE DEF m
<1>6. ImportOK(m, files, raw, batches)
  BY <1>2, <1>4, <1>5 DEF ImportOK
<1> QED BY <1>1, <1>3, <1>4, <1>6, StageKeeps

\* Removing the files of a failed import keeps the invariant: nobody is served them.
LEMMA DropFilesKeeps ==
    ASSUME ImportInv, NEW i \in Importers, DropFiles(i)
    PROVE  ImportInv'
<1> DEFINE m == [import[i] EXCEPT !.stage = "drop raw"]
<1>1. /\ import[i].stage = "drop files" /\ files' = [files EXCEPT ![import[i].version] = Missing]
      /\ import' = [import EXCEPT ![i].stage = "drop raw"]
      /\ UNCHANGED <<raw, batches, current, pinned, begun, cache, read>> /\ raw' = raw
  BY DEF DropFiles, ImportAt, ImportGoes
<1>2. import' = [import EXCEPT ![i] = m]
  BY <1>1
<1>3. /\ ImportOK(import[i], files, raw, batches) /\ import[i].version \in Versions
      /\ import[i].version # None /\ files \in [Datasets -> Stamped]
  BY <1>1, ImportFacts
<1>4. /\ m.stage = "drop raw" /\ m.version = import[i].version
      /\ m \in [stage : Stages, version : {m.version}, keys : {m.keys}]
  BY StageChanges DEF Stages, Staging
<1> HIDE DEF m
<1>5. ImportOK(m, files', raw', batches)
  BY <1>1, <1>3, <1>4 DEF ImportOK, Staging
<1>6. /\ files' \in [Datasets -> Stamped]
      /\ \A d \in Datasets : d # import[i].version => files'[d] = files[d]
  BY <1>1, <1>3, WholeIsStamped
<1>7. raw' \subseteq Versions /\ import[i].stage \in Staging
  BY <1>1 DEF ImportInv, StoreOK, Staging
<1> QED BY <1>1, <1>2, <1>4, <1>5, <1>6, <1>7, StagingKeeps

\* An importer with nothing to do is in order.
LEMMA NoImportOK ==
    NoImport.version = None /\ \A F, R, B : ImportOK(NoImport, F, R, B)
BY DEF NoImport, ImportOK, Stages, Staging

\* Removing the copy of its source keeps the invariant.
LEMMA DropRawKeeps ==
    ASSUME ImportInv, NEW i \in Importers, DropRaw(i)
    PROVE  ImportInv'
<1>1. /\ import[i].stage = "drop raw" /\ raw' = raw \ {import[i].version}
      /\ import' = [import EXCEPT ![i] = NoImport]
      /\ UNCHANGED <<files, batches, current, pinned, begun, cache, read>> /\ files' = files
  BY DEF DropRaw, ImportAt
<1>2. raw \subseteq Versions /\ files \in [Datasets -> Stamped]
  BY DEF ImportInv, StoreOK
<1>3. /\ raw' \subseteq Versions /\ import[i].stage \in Staging
      /\ \A v \in Versions : v # import[i].version => (v \in raw' <=> v \in raw)
  BY <1>1, <1>2 DEF Staging
<1> QED BY <1>1, <1>2, <1>3, NoImportOK, StagingKeeps

\* The stages of the invalidation, spelled out.
LEMMA InvalidatingIs ==
    /\ DOMAIN Invalidating = {"bars", "scans"}
    /\ Invalidating["bars"].list = "list bars" /\ Invalidating["bars"].drop = "drop bars"
    /\ Invalidating["scans"].list = "list scans" /\ Invalidating["scans"].drop = "drop scans"
BY DEF Invalidating

\* Where the listing or deleting of keys leads to.
LEMMA OnwardIs ==
    ASSUME ImportInv, NEW i \in Importers, NEW c \in DOMAIN Invalidating, NEW keys, Onward(i, c, keys),
           import[i].stage \in {"list bars", "drop bars", "list scans", "drop scans"}
    PROVE  \E m : /\ import' = [import EXCEPT ![i] = m] /\ m.version \in {import[i].version, None}
                  /\ \A F, R, B : ImportOK(m, F, R, B)
<1>1. c \in {"bars", "scans"}
  BY InvalidatingIs
<1>2. import[i].version # None
  BY ImportFacts
<1> DEFINE rec == import[i]
           version == import[i].version
<1>4. import' = [import EXCEPT ![i] =
                   IF keys # <<>> THEN [rec EXCEPT !.stage = Invalidating[c].drop, !.keys = keys]
                   ELSE IF c = "scans" THEN NoImport
                   ELSE [rec EXCEPT !.stage = Invalidating["scans"].list, !.keys = <<>>]]
  BY DEF Onward, ImportInv, ImportsOK
<1> HIDE DEF rec
<1>5. CASE keys # <<>>
  <2> DEFINE m == [stage |-> Invalidating[c].drop, version |-> version, keys |-> keys]
  <2>1. Invalidating[c].drop \in {"drop bars", "drop scans"}
    BY <1>1, InvalidatingIs
  <2>2. [rec EXCEPT !.stage = Invalidating[c].drop, !.keys = keys] = m
    <3>1. Changed(rec, Invalidating[c].drop, keys) = m
      BY BothChange DEF rec
    <3> QED BY <3>1 DEF Changed
  <2>3. import' = [import EXCEPT ![i] = m]
    BY <1>4, <1>5, <2>2
  <2>4. \A F, R, B : ImportOK(m, F, R, B)
    BY <1>2, <2>1 DEF ImportOK, Stages, Staging
  <2> QED BY <2>3, <2>4
<1>6. CASE keys = <<>> /\ c = "scans"
  BY <1>4, <1>6, NoImportOK
<1>7. CASE keys = <<>> /\ c = "bars"
  <2> DEFINE m == [stage |-> "list scans", version |-> version, keys |-> <<>>]
  <2>1. [rec EXCEPT !.stage = Invalidating["scans"].list, !.keys = <<>>] = m
    <3>1. Invalidating["scans"].list = "list scans"
      BY InvalidatingIs
    <3>2. Changed(rec, "list scans", <<>>) = m
      BY BothChange DEF rec
    <3> QED BY <3>1, <3>2 DEF Changed
  <2>2. import' = [import EXCEPT ![i] = m]
    BY <1>4, <1>7, <2>1
  <2>3. \A F, R, B : ImportOK(m, F, R, B)
    BY <1>2 DEF ImportOK, Stages, Staging
  <2> QED BY <2>2, <2>3
<1> QED BY <1>1, <1>5, <1>6, <1>7

\* Listing the keys of a cache keeps the invariant.
LEMMA ListKeeps ==
    ASSUME ImportInv, NEW i \in Importers, NEW c \in DOMAIN Invalidating, ListKeys(i, c)
    PROVE  ImportInv'
<1>1. /\ import[i].stage \in {"list bars", "drop bars", "list scans", "drop scans"}
      /\ Onward(i, c, [n \in DOMAIN cache[c] |-> cache[c][n].key])
      /\ UNCHANGED <<store, begun, cache, read>>
  BY InvalidatingIs DEF ListKeys, ImportAt
<1>2. PICK m : /\ import' = [import EXCEPT ![i] = m] /\ m.version \in {import[i].version, None}
               /\ \A F, R, B : ImportOK(m, F, R, B)
  BY <1>1, OnwardIs
<1> QED BY <1>1, <1>2, StageKeeps

\* Deleting a key, or finding it gone, keeps the invariant.
LEMMA DropKeyKeeps ==
    ASSUME ImportInv, NEW i \in Importers, NEW c \in DOMAIN Invalidating, DropKey(i, c)
    PROVE  ImportInv'
<1> DEFINE k == Head(import[i].keys)
<1>1. /\ import[i].stage \in {"list bars", "drop bars", "list scans", "drop scans"} /\ c \in Caches
      /\ UNCHANGED <<store, begun, read>>
  BY InvalidatingIs DEF DropKey, ImportAt, Caches
<1>2. CASE ~Has(cache[c], k)
  <2>1. import' = [import EXCEPT ![i] = NoImport] /\ UNCHANGED <<store, begun, cache, read>>
    BY <1>2 DEF DropKey
  <2> QED BY <2>1, NoImportOK, StageKeeps
<1>3. CASE Has(cache[c], k)
  <2>1. /\ cache' = [cache EXCEPT ![c] = Without(cache[c], k)] /\ Onward(i, c, Tail(import[i].keys))
    BY <1>3 DEF DropKey
  <2>2. PICK m : /\ import' = [import EXCEPT ![i] = m] /\ m.version \in {import[i].version, None}
                 /\ \A F, R, B : ImportOK(m, F, R, B)
    BY <1>1, <2>1, OnwardIs
  <2> HIDE DEF k
  <2>3. StoreOK /\ ImportsOK /\ RequestsOK /\ CachesOK /\ SizesOK
    BY DEF ImportInv
  <2>4. /\ files' = files /\ raw' = raw /\ batches' = batches /\ current' = current /\ pinned' = pinned
        /\ begun' = begun /\ read' = read
    BY <1>1 DEF store
  <2>5. StoreOK'
    BY <2>3, <2>4 DEF StoreOK
  <2>6. ImportsOK'
    <3>1. \A j \in Importers :
             import[j].version \in begun \cup {None} /\ ImportOK(import[j], files, raw, batches)
      BY <2>3 DEF ImportsOK
    <3> QED BY <2>2, <2>3, <2>4, <3>1, OneImport
  <2>7. RequestsOK'
    BY <2>3, <2>4 DEF RequestsOK
  <2>8. /\ Without(cache[c], k) \in Seq(Entries(c, files, batches))
        /\ Len(Without(cache[c], k)) = Len(cache[c]) - 1 /\ Distinct(Without(cache[c], k))
        /\ \A j : j # k /\ Has(cache[c], j) => Has(Without(cache[c], k), j)
    <3>1. cache[c] \in Seq(Entries(c, files, batches)) /\ Distinct(cache[c])
      BY <1>1, <2>3 DEF CachesOK
    <3> QED BY <1>3, <3>1, WithoutIs
  <2>9. cache'[c] = Without(cache[c], k) /\ \A d \in Caches : d # c => cache'[d] = cache[d]
    BY <1>1, <2>1, <2>3 DEF CachesOK
  <2>10. CachesOK'
    <3>1. cache' = [d \in Caches |-> cache'[d]]
      BY <2>1, <2>3 DEF CachesOK
    <3>2. \A d \in Caches : cache'[d] \in Seq(Entries(d, files', batches')) /\ Distinct(cache'[d])
      BY <2>3, <2>4, <2>8, <2>9 DEF CachesOK
    <3> QED BY <3>1, <3>2 DEF CachesOK
  <2>11. SizesOK'
    <3> SUFFICES ASSUME NEW d \in Caches
                 PROVE  Len(cache'[d]) <= Capacity[d] + Cardinality(Settling(cache', read, d))
      BY <2>4 DEF SizesOK
    <3>1. Len(cache[d]) \in Nat /\ Len(cache'[d]) \in Nat
      BY <2>3, <2>10, CacheLengths, LenProperties DEF CachesOK
    <3>2. Len(cache[d]) <= Capacity[d] + Cardinality(Settling(cache, read, d))
      BY <2>3 DEF SizesOK
    <3>3. CASE d # c
      <4>1. cache'[d] = cache[d]
        BY <2>9, <3>3
      <4>2. Settling(cache', read, d) = Settling(cache, read, d)
        BY <4>1 DEF Settling
      <4> QED BY <3>2, <4>1, <4>2
    <3>4. CASE d = c
      <4> DEFINE old == Settling(cache, read, c)
                 new == Settling(cache', read, c)
      <4>1. old \ {k} \subseteq new
        BY <2>8, <2>9 DEF Settling
      <4>2. /\ IsFiniteSet(new) /\ Cardinality(new) \in Nat /\ IsFiniteSet(old) /\ Cardinality(old) \in Nat
        BY SettlingFinite
      <4> HIDE DEF old, new
      <4>3. Cardinality(old \ {k}) >= Cardinality(old) - 1
        <5>1. Cardinality(old \ {k}) = IF k \in old THEN Cardinality(old) - 1 ELSE Cardinality(old)
          BY <4>2, FS_RemoveElement
        <5> QED BY <4>2, <5>1
      <4>4. IsFiniteSet(old \ {k}) /\ Cardinality(old \ {k}) <= Cardinality(new)
        BY <4>1, <4>2, FS_Subset
      <4>5. Cardinality(old \ {k}) \in Nat
        BY <4>4, FS_CardinalityType
      <4>6. Len(cache[c]) <= Capacity[c] + Cardinality(old) /\ Len(cache'[c]) = Len(cache[c]) - 1
        BY <2>8, <2>9, <3>2, <3>4 DEF old
      <4>7. Capacity[c] \in Nat
        BY <1>1, DataAssumption
      <4>8. Len(cache'[c]) <= Capacity[c] + Cardinality(new)
        BY <3>1, <3>4, <4>2, <4>3, <4>4, <4>5, <4>6, <4>7
      <4> QED BY <3>4, <4>8 DEF new
    <3> QED BY <3>3, <3>4
  <2> QED BY <2>5, <2>6, <2>7, <2>10, <2>11 DEF ImportInv
<1> QED BY <1>2, <1>3

\* A tool that replaces a file of the legacy dataset keeps the invariant.
LEMMA ReplaceKeeps ==
    ASSUME ImportInv, NEW y \in Years, ReplaceLegacyFile(y)
    PROVE  /\ ImportInv'
           /\ files'[Legacy] \in Stamped /\ \A d \in Datasets : d # Legacy => files'[d] = files[d]
<1>1. StoreOK /\ ImportsOK /\ RequestsOK /\ CachesOK /\ SizesOK
  BY DEF ImportInv
<1>2. /\ files[Legacy][y] < MaxStamp[y] /\ files' = [files EXCEPT ![Legacy][y] = @ + 1]
      /\ raw' = raw /\ batches' = batches /\ current' = current /\ pinned' = pinned
      /\ import' = import /\ begun' = begun /\ UNCHANGED <<pinned, cache, read>>
  BY DEF ReplaceLegacyFile, importing
<1>3. /\ files \in [Datasets -> Stamped] /\ Legacy \in Datasets /\ batches \subseteq Versions
      /\ begun \subseteq Versions /\ Legacy \notin Versions /\ None \notin Datasets
  BY <1>1, DataAssumption DEF StoreOK, Datasets
<1> DEFINE f == [files[Legacy] EXCEPT ![y] = files[Legacy][y] + 1]
<1>4. /\ files[Legacy] \in Stamped /\ files[Legacy] \in [Years -> Nat]
      /\ \A z \in Years : files[Legacy][z] \in Nat /\ files[Legacy][z] <= MaxStamp[z] /\ MaxStamp[z] \in Nat
  BY <1>3, StampedType, DataAssumption
<1>5. /\ f \in [Years -> Nat] /\ \A z \in Years : f[z] <= MaxStamp[z] /\ files[Legacy][z] <= f[z]
  BY <1>2, <1>4
<1>6. files' = [files EXCEPT ![Legacy] = f]
  BY <1>2, <1>3
<1> HIDE DEF f
<1>7. f \in Stamped
  BY <1>5, StampedIs
<1>8. /\ files' \in [Datasets -> Stamped] /\ files'[Legacy] = f
      /\ \A d \in Datasets : d # Legacy => files'[d] = files[d]
  BY <1>3, <1>6, <1>7
<1>9. ServedLasts(files, files', batches)
  <2> SUFFICES ASSUME NEW d \in Served(batches)
               PROVE  /\ files[d] \in Stamped /\ files'[d] \in Stamped
                      /\ \A z \in Years : files[d][z] <= files'[d][z]
                      /\ d # Legacy => files'[d] = files[d]
    BY DEF ServedLasts
  <2>1. d \in Datasets /\ files[d] \in Stamped
    BY <1>3 DEF Served, Datasets
  <2>2. \A z \in Years : files[d][z] \in Nat
    BY <2>1, StampedType
  <2> QED BY <1>5, <1>8, <2>1, <2>2
<1>10. StoreOK'
  <2>1. \A v \in Versions : v \in Datasets /\ v # Legacy
    BY <1>3 DEF Datasets
  <2> QED BY <1>1, <1>2, <1>3, <1>8, <2>1 DEF StoreOK
<1>11. ImportsOK'
  <2>1. ASSUME NEW j \in Importers PROVE ImportOK(import[j], files', raw', batches')
    <3>1. ImportOK(import[j], files, raw, batches) /\ import[j].version \in begun \cup {None}
      BY <1>1 DEF ImportsOK
    <3>2. import[j].version # None => files'[import[j].version] = files[import[j].version]
      BY <1>3, <1>8, <3>1 DEF Datasets
    <3>3. ImportOK(import[j], files', raw, batches)
      BY <3>1, <3>2, ImportLives
    <3> QED BY <1>2, <3>3
  <2> QED BY <1>1, <1>2, <2>1 DEF ImportsOK
<1>12. RequestsOK' /\ CachesOK' /\ SizesOK'
  BY <1>1, <1>2, <1>9, ReadersLive
<1> QED BY <1>7, <1>8, <1>10, <1>11, <1>12 DEF ImportInv

\* A store in order is in order when the process has just started.
LEMMA NobodyAtWork ==
    ASSUME StoreOK, import = [i \in Importers |-> NoImport], cache = [c \in Caches |-> <<>>],
           read = [r \in Readers |-> NoRead]
    PROVE  ImportInv
<1>1. ImportsOK
  BY NoImportOK DEF ImportsOK
<1>2. RequestsOK
  BY NoReadOK DEF RequestsOK, CreatedAlone
<1>3. CachesOK
  <2>1. \A c \in Caches : cache[c] = <<>>
    OBVIOUS
  <2>2. \A c \in Caches : cache[c] \in Seq(Entries(c, files, batches)) /\ Distinct(cache[c])
    BY <2>1, EmptySeq DEF Distinct
  <2> QED BY <2>2 DEF CachesOK
<1>4. SizesOK
  <2> SUFFICES ASSUME NEW c \in Caches
               PROVE  Len(cache[c]) <= Capacity[c] + Cardinality(Settling(cache, read, c))
    BY DEF SizesOK
  <2>1. Len(cache[c]) = 0
    BY EmptySeq
  <2>2. Capacity[c] \in Nat /\ Cardinality(Settling(cache, read, c)) \in Nat
    BY DataAssumption, SettlingFinite
  <2> QED BY <2>1, <2>2
<1> QED BY <1>1, <1>2, <1>3, <1>4 DEF ImportInv

-----------------------------------------------------------------------------
(* The theorems *)

\* The invariant holds of a new and of an old installation.
LEMMA ImportInitial ==
    ASSUME Init
    PROVE  ImportInv
<1>1. /\ Missing \in Stamped /\ None \notin Datasets /\ Legacy \notin Versions /\ Upgrades \subseteq Versions
  BY WholeIsStamped, DataAssumption
<1>2. files \in [Datasets -> Stamped]
  <2>1. CASE files = [d \in Datasets |-> Missing]
    BY <1>1, <2>1
  <2>2. CASE files = [d \in Datasets |-> [y \in Years |-> IF d = Legacy THEN 1 ELSE 0]]
    <3>1. \A y \in Years : MaxStamp[y] \in Nat /\ 1 <= MaxStamp[y]
      BY DataAssumption
    <3>2. ASSUME NEW d \in Datasets
          PROVE  [y \in Years |-> IF d = Legacy THEN 1 ELSE 0] \in Stamped
      BY <3>1, StampedIs
    <3> QED BY <2>2, <3>2
  <2> QED BY <2>1, <2>2 DEF Init
<1>3. \A v \in Versions : files[v] = Missing
  BY <1>1 DEF Init, Missing, Datasets
<1>4. StoreOK
  BY <1>1, <1>2, <1>3 DEF Init, StoreOK, Served
<1> QED BY <1>4, NobodyAtWork DEF Init

\* Every step keeps the invariant.
LEMMA ImportStep ==
    ASSUME ImportInv, [Next]_vars
    PROVE  ImportInv'
<1>1. CASE UNCHANGED vars
  BY <1>1 DEF vars, store, importing, ImportInv, StoreOK, ImportsOK, RequestsOK, CachesOK, SizesOK
<1>2. ASSUME NEW i \in Importers, Import(i) PROVE ImportInv'
  <2>1. CASE \E v \in Versions : BeginImport(i, v)
    BY <2>1, BeginImportKeeps
  <2>2. CASE WriteYear(i) \/ CopyRaw(i) \/ Publish(i)
    BY <2>2, WriteKeeps, CopyKeeps, PublishKeeps
  <2>3. CASE Fail(i) \/ DropFiles(i) \/ DropRaw(i)
    BY <2>3, FailKeeps, DropFilesKeeps, DropRawKeeps
  <2>4. CASE \E c \in DOMAIN Invalidating : ListKeys(i, c) \/ DropKey(i, c)
    BY <2>4, ListKeeps, DropKeyKeeps
  <2> QED BY <1>2, <2>1, <2>2, <2>3, <2>4 DEF Import
<1>3. ASSUME NEW r \in Readers, Request(r) PROVE ImportInv'
  <2>1. CASE \E s \in Sessions : CreateSession(r, s) \/ LoadSession(r, s)
    BY <2>1, CreateKeeps, LoadKeeps
  <2>2. CASE CountRange(r) \/ Found(r) \/ NotFound(r)
    BY <2>2, CountKeeps, FoundKeeps, NotFoundKeeps
  <2>3. CASE ScanPartitions(r) \/ ReadFile(r)
    BY <2>3, ScanKeeps, ReadKeeps
  <2>4. CASE Insert(r) \/ Touch(r) \/ TouchNothing(r)
    BY <2>4, InsertKeeps, TouchKeeps, TouchNothingKeeps
  <2> QED BY <1>3, <2>1, <2>2, <2>3, <2>4 DEF Request
<1>4. ASSUME NEW y \in Years, ReplaceLegacyFile(y) PROVE ImportInv'
  BY <1>4, ReplaceKeeps
<1>5. CASE Restart
  <2>1. /\ files' = files /\ raw' = raw /\ batches' = batches /\ current' = current
        /\ pinned' = pinned /\ begun' = begun
    BY <1>5 DEF Restart, store
  <2>2. StoreOK'
    BY <2>1 DEF ImportInv, StoreOK
  <2>3. import' = [i \in Importers |-> NoImport] /\ cache' = [c \in Caches |-> <<>>] /\ read' = [r \in Readers |-> NoRead]
    BY <1>5 DEF Restart
  <2>4. ImportsOK'
    BY <2>3, NoImportOK DEF ImportsOK
  <2>5. RequestsOK'
    BY <2>3, NoReadOK DEF RequestsOK, CreatedAlone
  <2>6. CachesOK'
    <3>1. ASSUME NEW c \in Caches
          PROVE  cache'[c] \in Seq(Entries(c, files', batches')) /\ Distinct(cache'[c])
      <4>1. cache'[c] = <<>>
        BY <2>3
      <4>2. <<>> \in Seq(Entries(c, files', batches'))
        BY EmptySeq
      <4>3. Distinct(<<>>)
        BY EmptySeq DEF Distinct
      <4> QED BY <4>1, <4>2, <4>3
    <3> QED BY <2>3, <3>1 DEF CachesOK
  <2>7. SizesOK'
    <3> SUFFICES ASSUME NEW c \in Caches
                 PROVE  Len(cache'[c]) <= Capacity[c] + Cardinality(Settling(cache', read', c))
      BY DEF SizesOK
    <3>1. Len(cache'[c]) = 0
      BY <2>3, EmptySeq
    <3>2. Capacity[c] \in Nat /\ Cardinality(Settling(cache', read', c)) \in Nat
      BY DataAssumption, SettlingFinite
    <3> QED BY <3>1, <3>2
  <2> QED BY <2>2, <2>4, <2>5, <2>6, <2>7 DEF ImportInv
<1> QED BY <1>1, <1>2, <1>3, <1>4, <1>5 DEF Next

\* The inductive invariant of imports and requests.
LEMMA ImportInvariant == Spec => []ImportInv
<1>1. Init => ImportInv
  BY ImportInitial
<1>2. ImportInv /\ [Next]_vars => ImportInv'
  BY ImportStep
<1> QED BY <1>1, <1>2, PTL DEF Spec

\* The invariant gives the types and the bounds of the caches.
LEMMA TypesHold ==
    ASSUME ImportInv
    PROVE  TypeOK
<1>1. StoreOK /\ ImportsOK /\ RequestsOK /\ CachesOK /\ SizesOK
  BY DEF ImportInv
<1>2. /\ files \in [Datasets -> Stamped]
      /\ raw \subseteq Versions /\ batches \subseteq begun /\ begun \subseteq Versions
      /\ current \in Datasets \cup {None} /\ pinned \in [Sessions -> Datasets \cup {None}]
  BY <1>1 DEF StoreOK, Served, Datasets
<1>3. \A i \in Importers : /\ import[i].version \in begun \cup {None}
                           /\ import[i].stage = "idle" <=> import[i].version = None
  BY <1>1 DEF ImportsOK, ImportOK
<1>4. ASSUME NEW r \in Readers
      PROVE  /\ read[r].set \in Datasets \cup {None} /\ read[r].session \in Sessions \cup {None}
             /\ {read[r].found, read[r].signature, read[r].since} \subseteq Stamped
             /\ At(r, "idle") <=> read[r].doing = "nothing"
  <2>1. read[r] \in Requests /\ RequestOK(read[r], files)
    BY <1>1 DEF RequestsOK
  <2>2. read[r].step = "idle" <=> read[r].doing = "nothing"
    BY <2>1 DEF RequestOK, StepsOf, Requests, ScanDoing, Signed
  <2> QED BY <2>1, <2>2 DEF Requests, At
<1>5. ASSUME NEW c \in Caches
      PROVE  Len(cache[c]) <= Capacity[c] + Cardinality({r \in Readers : At(r, "settle") /\ CacheOf(r) = c})
  <2>1. ASSUME NEW r \in Readers, read[r].step = "settle" PROVE CacheOf(r) = CacheIn(read[r])
    <3>1. read[r] \in Requests /\ RequestOK(read[r], files)
      BY <1>1 DEF RequestsOK
    <3>2. read[r].doing \in ScanDoing \cup {"bars", "entry", "keep"}
      BY <2>1, <3>1 DEF RequestOK, StepsOf, Requests, ScanDoing, Signed
    <3> QED BY <3>2, NamesAgree
  <2>2. {r \in Readers : At(r, "settle") /\ CacheOf(r) = c} = Inserting(read, c)
    BY <2>1 DEF Inserting, At
  <2>3. /\ Cardinality(Settling(cache, read, c)) \in Nat /\ Cardinality(Inserting(read, c)) \in Nat
        /\ Cardinality(Settling(cache, read, c)) <= Cardinality(Inserting(read, c))
    BY SettlingFinite
  <2>4. /\ Capacity[c] \in Nat /\ Len(cache[c]) \in Nat
        /\ Len(cache[c]) <= Capacity[c] + Cardinality(Settling(cache, read, c))
    BY <1>1, CacheLengths, DataAssumption DEF SizesOK
  <2>5. Len(cache[c]) <= Capacity[c] + Cardinality(Inserting(read, c))
    BY <2>3, <2>4
  <2> QED BY <2>2, <2>5
<1> QED BY <1>2, <1>3, <1>4, <1>5 DEF TypeOK

\* A version that is current, recorded or pinned has all of its files and the
\* copy of its source, and every scan that is kept of a version found all of it,
\* for any number of imports, requests, failures and restarts.
THEOREM VersionsAreWhole == Spec => []VersionsStayWhole
<1>1. ImportInv => VersionsStayWhole
  <2> SUFFICES ASSUME ImportInv PROVE VersionsStayWhole
    OBVIOUS
  <2>1. StoreOK /\ CachesOK
    BY DEF ImportInv
  <2>2. ASSUME NEW v \in Versions, InUse(v) PROVE files[v] = Whole(v) /\ v \in raw
    <3>1. v # Legacy /\ v # None
      BY DataAssumption DEF Datasets
    <3>2. v \in batches
      BY <2>1, <2>2, <3>1 DEF InUse, StoreOK, Served
    <3> QED BY <2>1, <3>2 DEF StoreOK
  <2>3. ASSUME NEW n \in DOMAIN cache["scans"]
        PROVE  cache["scans"][n].value = Whole(cache["scans"][n].key)
    <3>1. cache["scans"] \in Seq(Entries("scans", files, batches))
      BY <2>1 DEF CachesOK, Caches
    <3>2. cache["scans"][n] \in Entries("scans", files, batches)
      BY <2>3, <3>1
    <3> QED BY <3>2 DEF Entries
  <2> QED BY <2>2, <2>3, TypesHold DEF VersionsStayWhole
<1> QED BY <1>1, ImportInvariant, PTL

\* A session is given exactly what the import of its version published, through
\* all three caches; of the legacy dataset, candles that are no older, file by
\* file, than when the request began.
THEOREM AnswersStayExact == Spec => []AnswersAreExact
<1>1. ImportInv => AnswersAreExact
  <2> SUFFICES ASSUME ImportInv, NEW r \in Readers, read[r].candles # None
               PROVE  IF read[r].set \in Versions THEN read[r].candles = CandlesOf(Whole(read[r].set))
                      ELSE \E f \in Stamped :
                              /\ \A y \in Years : read[r].since[y] <= f[y] /\ f[y] <= files[Legacy][y]
                              /\ read[r].candles = CandlesOf(f)
    BY DEF AnswersAreExact
  <2> DEFINE q == read[r]
  <2>1. q \in Requests /\ RequestOK(q, files) /\ StoreOK
    BY RequestFacts DEF ImportInv
  <2>2. q.doing # "nothing" /\ q.candles \in Answers(files, q.set, Low(q, files))
    BY <2>1 DEF RequestOK
  <2>3. q.set \in Served(batches) /\ files[q.set] \in Stamped
    BY <2>1, <2>2, RequestFacts, FilesFit
  <2> HIDE DEF q
  <2>4. PICK f \in Between(files, q.set, Low(q, files)) : q.candles = CandlesOf(f)
    BY <2>2 DEF Answers
  <2>5. CASE q.set \in Versions
    <3>1. q.set # Legacy /\ q.set \in batches
      BY <2>3, <2>5, DataAssumption DEF Served
    <3>2. Low(q, files) = files[q.set] /\ files[q.set] = Whole(q.set)
      BY <2>1, <3>1 DEF Low, StoreOK
    <3>3. f = Whole(q.set)
      BY <2>3, <2>4, <3>2, BetweenFixed
    <3> QED BY <2>4, <2>5, <3>3 DEF q
  <2>6. CASE q.set \notin Versions
    <3>1. q.set = Legacy
      BY <2>1, <2>3, <2>6 DEF Served, StoreOK
    <3>2. Low(q, files) = q.since
      BY <3>1 DEF Low
    <3> QED BY <2>4, <2>6, <3>1, <3>2 DEF Between, q
  <2> QED BY <2>5, <2>6 DEF q
<1> QED BY <1>1, ImportInvariant, PTL

-----------------------------------------------------------------------------
(* The refinement *)

\* The files a dataset counts with once its batch is recorded.
Held(B, F) == [d \in Datasets |-> IF d = Legacy \/ d \in B THEN F[d] ELSE None]

\* While nothing is recorded and no served file changes, a step is a stutter.
LEMMA Stutters ==
    ASSUME UNCHANGED <<batches, current, pinned>>,
           \A d \in Served(batches) : files'[d] = files[d]
    PROVE  UNCHANGED Data!vars
<1>1. Held(batches', files') = Held(batches, files)
  BY DEF Held, Served
<1> QED BY <1>1 DEF Data!vars, Held

\* What is staged or cleaned up is served to nobody.
LEMMA StagedIsNotServed ==
    ASSUME ImportInv, NEW i \in Importers, import[i].stage \in Staging, NEW d \in Served(batches)
    PROVE  d # import[i].version /\ d \in Datasets
BY ImportFacts DEF ImportOK, Served, Datasets, Staging

\* Every step publishes a version, pins a session, replaces the legacy data, or does
\* nothing that the abstract store can tell.
LEMMA StepIsData ==
    ASSUME ImportInv, [Next]_vars
    PROVE  [Data!Next]_(Data!vars)
<1>1. CASE UNCHANGED <<batches, current, pinned, files>>
  BY <1>1, Stutters
<1>2. ASSUME NEW i \in Importers, Import(i) PROVE [Data!Next]_(Data!vars)
  <2>1. ASSUME NEW v \in Versions, BeginImport(i, v) PROVE [Data!Next]_(Data!vars)
    BY <1>1, <2>1 DEF BeginImport, store
  <2>2. CASE WriteYear(i)
    <3>1. /\ import[i].stage \in Staging /\ UNCHANGED <<batches, current, pinned>>
          /\ files' = [files EXCEPT ![import[i].version][Head(import[i].keys)] = 1]
      BY <2>2 DEF WriteYear, ImportAt, Staging
    <3>2. \A d \in Served(batches) : files'[d] = files[d]
      BY <3>1, StagedIsNotServed DEF ImportInv, StoreOK
    <3> QED BY <3>1, <3>2, Stutters
  <2>3. CASE CopyRaw(i)
    BY <1>1, <2>3 DEF CopyRaw
  <2>4. CASE Publish(i)
    <3>0. PICK v \in Versions : v = import[i].version
      BY <2>4, ImportFacts DEF Publish, ImportAt, ImportOK, Staging
    <3>1. /\ import[i].stage = "publish" /\ batches' = batches \cup {v} /\ current' = v
          /\ files' = files /\ pinned' = pinned
      BY <2>4, <3>0 DEF Publish, ImportAt
    <3>2. v \notin batches /\ files[v] = Whole(v) /\ v # Legacy /\ v \in Datasets
      BY <3>0, <3>1, ImportFacts DEF ImportOK, Staging, Datasets
    <3>3. Held(batches, files)[v] = None
      BY <3>2 DEF Held
    <3>4. Held(batches', files') = [Held(batches, files) EXCEPT ![v] = Contents[v]]
      BY <3>1, <3>2 DEF Held, Contents
    <3>5. Data!Publish(v)
      BY <3>1, <3>3, <3>4 DEF Data!Publish, Held
    <3> QED BY <3>5 DEF Data!Next
  <2>5. CASE Fail(i)
    BY <1>1, <2>5 DEF Fail, store
  <2>6. CASE DropFiles(i)
    <3>1. /\ import[i].stage \in Staging /\ UNCHANGED <<batches, current, pinned>>
          /\ files' = [files EXCEPT ![import[i].version] = Missing]
      BY <2>6 DEF DropFiles, ImportAt, Staging
    <3>2. \A d \in Served(batches) : files'[d] = files[d]
      BY <3>1, StagedIsNotServed DEF ImportInv, StoreOK
    <3> QED BY <3>1, <3>2, Stutters
  <2>7. CASE DropRaw(i)
    BY <1>1, <2>7 DEF DropRaw
  <2>8. ASSUME NEW c \in DOMAIN Invalidating, ListKeys(i, c) \/ DropKey(i, c)
        PROVE  [Data!Next]_(Data!vars)
    BY <1>1, <2>8 DEF ListKeys, DropKey, store
  <2> QED BY <1>2, <2>1, <2>2, <2>3, <2>4, <2>5, <2>6, <2>7, <2>8 DEF Import
<1>3. ASSUME NEW r \in Readers, Request(r) PROVE [Data!Next]_(Data!vars)
  <2>1. CASE CountRange(r)
    <3>1. UNCHANGED <<batches, current, files>> /\ read[r].step = "count"
      BY <2>1 DEF CountRange, At
    <3>2. CASE InRange(read[r].found) = {}
      BY <1>1, <2>1, <3>1, <3>2 DEF CountRange
    <3>3. CASE InRange(read[r].found) # {}
      <4> DEFINE s == read[r].session
                 d == read[r].set
      <4>1. pinned' = [pinned EXCEPT ![s] = d]
        BY <2>1, <3>3 DEF CountRange
      <4>2. read[r] \in Requests /\ RequestOK(read[r], files)
        BY RequestFacts
      <4>3. read[r].doing = "count"
        BY <3>1, <4>2 DEF RequestOK, StepsOf, Requests, ScanDoing, Signed
      <4>4. /\ d \in Served(batches) /\ s \in Sessions /\ d \in Datasets /\ files[d] \in Stamped
            /\ pinned[s] = None
        BY <4>3, RequestFacts DEF ImportInv, RequestsOK, CreatedAlone
      <4>5. files[d] # None
        BY <4>4, StampedType
      <4> HIDE DEF s, d
      <4>6. d \in DOMAIN Held(batches, files) /\ Held(batches, files)[d] # None
        BY <4>4, <4>5 DEF Held, Served
      <4>7. Held(batches', files') = Held(batches, files)
        BY <3>1 DEF Held
      <4>8. Data!Pin(s)
        BY <3>1, <4>1, <4>4, <4>6, <4>7 DEF Data!Pin, Held
      <4> QED BY <4>4, <4>8 DEF Data!Next
    <3> QED BY <3>2, <3>3
  <2>2. CASE Found(r) \/ NotFound(r) \/ ScanPartitions(r) \/ ReadFile(r)
    BY <1>1, <2>2 DEF Found, NotFound, ScanPartitions, ReadFile, store
  <2>3. CASE Insert(r) \/ Touch(r) \/ TouchNothing(r)
    BY <1>1, <2>3 DEF Insert, Touch, TouchNothing, store
  <2>4. ASSUME NEW s \in Sessions, CreateSession(r, s) \/ LoadSession(r, s)
        PROVE  [Data!Next]_(Data!vars)
    BY <1>1, <2>4 DEF CreateSession, LoadSession, store
  <2> QED BY <1>3, <2>1, <2>2, <2>3, <2>4 DEF Request
<1>4. ASSUME NEW y \in Years, ReplaceLegacyFile(y) PROVE [Data!Next]_(Data!vars)
  <2>1. /\ UNCHANGED <<batches, current, pinned>> /\ files'[Legacy] \in Stamped
        /\ \A d \in Datasets : d # Legacy => files'[d] = files[d]
    BY <1>4, ReplaceKeeps DEF ReplaceLegacyFile
  <2>2. Legacy \in Datasets /\ \A d \in Served(batches) : d \in Datasets
    BY RequestFacts DEF ImportInv, StoreOK, Served, Datasets
  <2>3. Held(batches', files') = [Held(batches, files) EXCEPT ![Legacy] = Held(batches', files')[Legacy]]
    BY <2>1, <2>2 DEF Held
  <2>4. Held(batches', files')[Legacy] \in Stamped
    BY <2>1, <2>2 DEF Held
  <2>5. Data!ReplaceLegacy
    BY <2>1, <2>3, <2>4 DEF Data!ReplaceLegacy, Held
  <2> QED BY <2>5 DEF Data!Next
<1>5. CASE Restart
  BY <1>1, <1>5 DEF Restart, store
<1>6. CASE UNCHANGED vars
  BY <1>1, <1>6 DEF vars, store
<1> QED BY <1>2, <1>3, <1>4, <1>5, <1>6 DEF Next

\* Imports that fail, are cleaned up, overlap or die at any step implement the
\* store in which a dataset appears whole and never changes, and in which a
\* session is pinned once and for all to a dataset that has appeared.
THEOREM ImportImplementsData == Spec => ImplementsVersionedData
<1>1. Init => Data!Init
  <2> SUFFICES ASSUME Init PROVE Data!Init
    OBVIOUS
  <2>1. files[Legacy] \in Stamped /\ batches = {}
    BY ImportInitial DEF ImportInv, StoreOK, Datasets, Init
  <2>2. Held(batches, files) = [d \in Versions \cup {Legacy} |-> IF d = Legacy THEN files[Legacy] ELSE None]
    BY <2>1 DEF Held, Datasets
  <2>3. current \in {None, Legacy} /\ pinned = [s \in Sessions |-> None]
    BY DEF Init
  <2> QED BY <2>1, <2>2, <2>3 DEF Data!Init, Held
<1>2. ImportInv /\ [Next]_vars => [Data!Next]_(Data!vars)
  BY StepIsData
<1> QED BY <1>1, <1>2, ImportInvariant, PTL DEF Spec, ImplementsVersionedData, Data!Spec
=============================================================================
