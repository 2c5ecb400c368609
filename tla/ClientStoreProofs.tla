-------------------------- MODULE ClientStoreProofs --------------------------
(***************************************************************************)
(* Proofs about ClientStore.  The revisions of a session are one history   *)
(* that only grows: every snapshot and update under way, and what is       *)
(* installed, tell of one revision of it, or, if commits ran into the load,*)
(* of one revision and the fills of a later one.  The records on screen    *)
(* are numbers that count down from the newest; a page that is current     *)
(* starts where the older ones end, whatever was evicted into them while   *)
(* it was on its way.                                                      *)
(***************************************************************************)
EXTENDS ClientStore, SequenceTheorems, FiniteSetTheorems, WellFoundedInduction, NaturalsInduction, TLAPS

\* n records from a up, and n records from the one below a down.
Up(a, n) == [i \in 1 .. n |-> a + i - 1]
Down(a, n) == [i \in 1 .. n |-> a - i]

\* The first record of a window that ends at record n.
Low(n) == IF n < Window THEN 1 ELSE n - Window + 1

\* The session had n records at revision v.
Held(h, s, v, n) == v \in DOMAIN h[s] /\ h[s][v] = n

\* The session was deleted.
Gone(h, s) == \E v \in DOMAIN h[s] : h[s][v] = None

\* The row of one revision with the fills of a later one.
MixOf(x, h) ==
    \E fills, count \in DOMAIN h[x.id] :
      /\ x.revision <= fills /\ fills <= count
      /\ x.window = Recent(Found(h[x.id][fills]), Window)
      /\ x.total \in Totals(h[x.id][x.revision], Len(x.window), Found(h[x.id][count]))

\* What a snapshot says, or what is installed.
StateOK(x, h) ==
    /\ x.revision \in DOMAIN h[x.id]
    /\ x.made = "whole" => Held(h, x.id, x.revision, x.total) /\ x.window = Recent(x.total, Window)
    /\ x.made = "mixed" => MixOf(x, h)
    /\ x.made = "merged" => Held(h, x.id, x.revision, x.total)

SnapshotOK(x, h) == x \in Snapshots /\ StateOK(x, h)

UpdateOK(x, h) ==
    /\ x \in Updates /\ Held(h, x.id, x.revision, x.total)
    /\ \E before \in Nat : /\ Held(h, x.id, x.revision - 1, before) /\ before <= x.total
                           /\ x.new = Up(before + 1, x.total - before)

PageOK(c, h) == c.reply = PageOf(c.at) \/ (c.reply = EmptyPage /\ Gone(h, c.session))

\* The answer of call c, if there is one, and the row that was read for it.
ReplyOK(c, h) ==
    \/ c.reply = None
    \/ c.reply \in [type : Failures]
    \/ c.kind \in {"open", "restore", "refresh"} /\ SnapshotOK(c.reply, h)
    \/ c.kind = "mutate" /\ UpdateOK(c.reply, h)
    \/ c.kind = "page" /\ PageOK(c, h)

RowOK(c, h) ==
    c.row # None => c.kind \in Reads /\ c.row \in DOMAIN h[c.session] /\ h[c.session][c.row] \in Nat

CallRecords ==
    [kind : {"open", "restore", "refresh", "mutate", "page"}, session : Sessions,
     generation : Nat \cup {None}, at : Nat \cup {None}, row : Nat \cup {None}, reply : Replies \cup {None}]

CallOK(c, h) ==
    /\ c \in CallRecords /\ ReplyOK(c, h) /\ RowOK(c, h)
    /\ c.kind = "page" =>
          /\ c.generation \in Nat /\ c.generation <= loads /\ c.at \in Nat \ {0}
          /\ c.generation = loads => replay # None /\ c.at = cursor /\ c.session = replay.id

CallsOK(h) ==
    /\ \A c \in calls : CallOK(c, h)
    /\ \A c, d \in calls : c.kind = "page" /\ d.kind = "page" /\ c.generation = d.generation => c = d

\* A session has revisions, and the last of them may be that it was deleted.
Histories == [Sessions -> Seq(Nat \cup {None})]
ServerOK(h) ==
    /\ server = h
    /\ \A s \in Sessions : /\ Len(h[s]) # 0 /\ h[s][1] # None
                           /\ \A v \in 1 .. Len(h[s]) - 1 : h[s][v] # None

\* The records on screen count from first to n.
ShowsFrom(n, first, h) ==
    /\ replay.window = Recent(n, Window) /\ older = Down(Low(n), Low(n) - first)
    /\ replay.made = "whole" => n = replay.total
    /\ \/ cursor = first
       \/ cursor = None /\ (first = 1 \/ replay.made = "mixed" \/ Gone(h, replay.id))

ViewOK(h) ==
    /\ saved \in Sessions \cup {None} /\ loads \in Nat
    /\ cursor \in (Nat \ {0}) \cup {None}
    /\ replay = None => older = << >> /\ cursor = None
    /\ replay # None =>
          /\ replay \in Installed /\ StateOK(replay, h) /\ Len(replay.window) <= Window
          /\ \/ replay.made = "merged"
             \/ \E n \in Nat : \E first \in 1 .. Low(n) : ShowsFrom(n, first, h)

SpinnersOK ==
    /\ {busy, restoring, loading} \subseteq BOOLEAN /\ actions \in Nat
    /\ busy => \E c \in calls :
         c.kind \in {"open", "mutate", "refresh"} /\ c.generation = actions
    /\ loading => \E c \in calls : c.kind = "page" /\ c.generation = loads
    /\ restoring => \E c \in calls : c.kind = "restore"
    /\ \A c \in calls : c.kind = "restore" => restoring /\ replay = None /\ calls = {c}

ClientInv == SpinnersOK /\ \E h \in Histories : ServerOK(h) /\ ViewOK(h) /\ CallsOK(h)
-----------------------------------------------------------------------------
(* Runs of records *)

\* They are sequences of their length.
LEMMA UpIs ==
    ASSUME NEW a \in Int, NEW n \in Nat
    PROVE  /\ Up(a, n) \in Seq(Int) /\ Len(Up(a, n)) = n /\ DOMAIN Up(a, n) = 1 .. n
           /\ \A i \in 1 .. n : Up(a, n)[i] = a + i - 1
BY DEF Up

\* The same of those that count down.
LEMMA DownIs ==
    ASSUME NEW a \in Int, NEW n \in Nat
    PROVE  /\ Down(a, n) \in Seq(Int) /\ Len(Down(a, n)) = n /\ DOMAIN Down(a, n) = 1 .. n
           /\ \A i \in 1 .. n : Down(a, n)[i] = a - i
BY DEF Down

\* Two sequences are equal when their elements are.
LEMMA SameElements ==
    ASSUME NEW S, NEW T, NEW s \in Seq(S), NEW t \in Seq(T), Len(s) = Len(t),
           \A i \in 1 .. Len(s) : s[i] = t[i]
    PROVE  s = t
<1>1. /\ s = [i \in 1 .. Len(s) |-> s[i]] /\ t = [i \in 1 .. Len(t) |-> t[i]]
  OBVIOUS
<1> QED BY <1>1

\* Runs that meet are one run.
LEMMA UpJoins ==
    ASSUME NEW a \in Int, NEW n \in Nat, NEW m \in Nat
    PROVE  Up(a, n) \o Up(a + n, m) = Up(a, n + m)
<1> DEFINE left == Up(a, n)
           right == Up(a + n, m)
           s == left \o right
<1>0. a + n \in Int
  OBVIOUS
<1>1. left \in Seq(Int) /\ right \in Seq(Int) /\ Len(left) = n /\ Len(right) = m
  BY <1>0, UpIs
<1> HIDE DEF left, right
<1>2. /\ s \in Seq(Int) /\ Len(s) = n + m
      /\ \A i \in 1 .. n + m : s[i] = IF i <= n THEN left[i] ELSE right[i - n]
  BY <1>1, ConcatProperties
<1> HIDE DEF s
<1>3. ASSUME NEW i \in 1 .. n + m PROVE s[i] = a + i - 1
  <2>1. CASE i <= n
    <3>1. i \in 1 .. n
      BY <2>1
    <3> QED BY <1>2, <2>1, <3>1, UpIs DEF left
  <2>2. CASE ~(i <= n)
    <3>1. i - n \in 1 .. m
      BY <2>2
    <3>2. right[i - n] = (a + n) + (i - n) - 1
      BY <1>0, <3>1, UpIs DEF right
    <3> QED BY <1>2, <2>2, <3>2
  <2> QED BY <2>1, <2>2
<1>4. Up(a, n + m) \in Seq(Int) /\ Len(Up(a, n + m)) = n + m /\ \A i \in 1 .. n + m : Up(a, n + m)[i] = a + i - 1
  BY UpIs
<1>5. s = Up(a, n + m)
  BY <1>2, <1>3, <1>4, SameElements
<1> QED BY <1>5 DEF s, left, right

\* The same of those that count down.
LEMMA DownJoins ==
    ASSUME NEW a \in Int, NEW n \in Nat, NEW m \in Nat
    PROVE  Down(a, n) \o Down(a - n, m) = Down(a, n + m)
<1> DEFINE left == Down(a, n)
           right == Down(a - n, m)
           s == left \o right
<1>0. a - n \in Int
  OBVIOUS
<1>1. left \in Seq(Int) /\ right \in Seq(Int) /\ Len(left) = n /\ Len(right) = m
  BY <1>0, DownIs
<1> HIDE DEF left, right
<1>2. /\ s \in Seq(Int) /\ Len(s) = n + m
      /\ \A i \in 1 .. n + m : s[i] = IF i <= n THEN left[i] ELSE right[i - n]
  BY <1>1, ConcatProperties
<1> HIDE DEF s
<1>3. ASSUME NEW i \in 1 .. n + m PROVE s[i] = a - i
  <2>1. CASE i <= n
    <3>1. i \in 1 .. n
      BY <2>1
    <3> QED BY <1>2, <2>1, <3>1, DownIs DEF left
  <2>2. CASE ~(i <= n)
    <3>1. i - n \in 1 .. m
      BY <2>2
    <3>2. right[i - n] = (a - n) - (i - n)
      BY <1>0, <3>1, DownIs DEF right
    <3> QED BY <1>2, <2>2, <3>2
  <2> QED BY <2>1, <2>2
<1>4. Down(a, n + m) \in Seq(Int) /\ Len(Down(a, n + m)) = n + m /\ \A i \in 1 .. n + m : Down(a, n + m)[i] = a - i
  BY DownIs
<1>5. s = Down(a, n + m)
  BY <1>2, <1>3, <1>4, SameElements
<1> QED BY <1>5 DEF s, left, right

\* A run read backwards counts down from where it ended.
LEMMA UpReversed ==
    ASSUME NEW a \in Int, NEW n \in Nat
    PROVE  Reverse(Up(a, n)) = Down(a + n, n)
<1>1. Len(Up(a, n)) = n /\ \A i \in 1 .. n : Up(a, n)[i] = a + i - 1
  BY UpIs
<1>2. Reverse(Up(a, n)) = [i \in 1 .. n |-> Up(a, n)[(n - i) + 1]]
  BY <1>1 DEF Reverse
<1>3. \A i \in 1 .. n : Up(a, n)[(n - i) + 1] = (a + n) - i
  <2> TAKE i \in 1 .. n
  <2>1. (n - i) + 1 \in 1 .. n
    OBVIOUS
  <2>2. Up(a, n)[(n - i) + 1] = a + ((n - i) + 1) - 1
    BY <1>1, <2>1
  <2> QED BY <2>2
<1> QED BY <1>2, <1>3 DEF Down

\* And the other way round.
LEMMA DownReversed ==
    ASSUME NEW a \in Int, NEW n \in Nat
    PROVE  Reverse(Down(a, n)) = Up(a - n, n)
<1>1. Len(Down(a, n)) = n /\ \A i \in 1 .. n : Down(a, n)[i] = a - i
  BY DownIs
<1>2. Reverse(Down(a, n)) = [i \in 1 .. n |-> Down(a, n)[(n - i) + 1]]
  BY <1>1 DEF Reverse
<1>3. \A i \in 1 .. n : Down(a, n)[(n - i) + 1] = (a - n) + i - 1
  <2> TAKE i \in 1 .. n
  <2>1. (n - i) + 1 \in 1 .. n
    OBVIOUS
  <2>2. Down(a, n)[(n - i) + 1] = a - ((n - i) + 1)
    BY <1>1, <2>1
  <2> QED BY <2>2
<1> QED BY <1>2, <1>3 DEF Up

\* A stretch of a run is a run.
LEMMA UpCut ==
    ASSUME NEW a \in Int, NEW n \in Nat, NEW p \in Int, NEW q \in Int, 1 <= p, p <= q + 1, q <= n
    PROVE  SubSeq(Up(a, n), p, q) = Up(a + p - 1, q - p + 1)
<1> DEFINE s == SubSeq(Up(a, n), p, q)
<1>1. ASSUME NEW i \in p .. q PROVE Up(a, n)[i] \in Int
  <2>1. i \in 1 .. n
    OBVIOUS
  <2>2. Up(a, n)[i] = a + i - 1
    BY <2>1, UpIs
  <2> QED BY <2>2
<1>2. /\ s \in Seq(Int) /\ Len(s) = IF p <= q THEN q - p + 1 ELSE 0
      /\ \A i \in 1 .. q - p + 1 : s[i] = Up(a, n)[p + i - 1]
  BY <1>1, SubSeqProperties
<1> HIDE DEF s
<1>3. Len(s) = q - p + 1 /\ q - p + 1 \in Nat
  BY <1>2
<1>4. \A i \in 1 .. q - p + 1 : s[i] = (a + p - 1) + i - 1
  <2> TAKE i \in 1 .. q - p + 1
  <2>1. p + i - 1 \in 1 .. n
    OBVIOUS
  <2>2. Up(a, n)[p + i - 1] = a + (p + i - 1) - 1
    BY <2>1, UpIs
  <2> QED BY <1>2, <2>2
<1>5. /\ Up(a + p - 1, q - p + 1) \in Seq(Int) /\ Len(Up(a + p - 1, q - p + 1)) = q - p + 1
      /\ \A i \in 1 .. q - p + 1 : Up(a + p - 1, q - p + 1)[i] = (a + p - 1) + i - 1
  <2>1. a + p - 1 \in Int
    OBVIOUS
  <2> QED BY <1>3, <2>1, UpIs
<1>6. s = Up(a + p - 1, q - p + 1)
  BY <1>2, <1>3, <1>4, <1>5, SameElements
<1> QED BY <1>6 DEF s

\* What is recent of n records.
LEMMA RecentIs ==
    ASSUME NEW n \in Nat, NEW k \in Nat
    PROVE  Recent(n, k) = IF n < k THEN Up(1, n) ELSE Up(n - k + 1, k)
<1>1. CASE n < k
  <2>1. Recent(n, k) = [i \in 1 .. n |-> i + 0]
    BY <1>1 DEF Recent
  <2>2. Up(1, n) = [i \in 1 .. n |-> 1 + i - 1]
    BY DEF Up
  <2> QED BY <1>1, <2>1, <2>2
<1>2. CASE ~(n < k)
  <2>1. Recent(n, k) = [i \in 1 .. k |-> i + (n - k)]
    BY <1>2 DEF Recent
  <2>2. Up(n - k + 1, k) = [i \in 1 .. k |-> (n - k + 1) + i - 1]
    BY DEF Up
  <2> QED BY <1>2, <2>1, <2>2
<1> QED BY <1>1, <1>2

\* The window of n records counts up from Low(n) to n.
LEMMA WindowIs ==
    ASSUME NEW n \in Nat
    PROVE  /\ Low(n) \in Nat \ {0} /\ Low(n) <= n + 1 /\ n + 1 - Low(n) <= Window
           /\ Recent(n, Window) = Up(Low(n), n + 1 - Low(n))
<1>1. Window \in Nat \ {0}
  BY ClientAssumption
<1>2. Recent(n, Window) = IF n < Window THEN Up(1, n) ELSE Up(n - Window + 1, Window)
  BY <1>1, RecentIs
<1>3. CASE n < Window
  BY <1>1, <1>2, <1>3 DEF Low
<1>4. CASE ~(n < Window)
  <2>1. Low(n) = n - Window + 1 /\ n + 1 - Low(n) = Window
    BY <1>1, <1>4 DEF Low
  <2> QED BY <1>1, <1>2, <1>4, <2>1
<1> QED BY <1>3, <1>4

\* Nothing is taken out of a sequence that has nothing of it.
LEMMA WithoutNothing ==
    ASSUME NEW T, NEW seq \in Seq(T), NEW S, \A i \in DOMAIN seq : seq[i] \notin S
    PROVE  Without(seq, S) = seq
<1> DEFINE n == Len(seq)
           kept == {i \in DOMAIN seq : seq[i] \notin S}
<1>1. n \in Nat /\ DOMAIN seq = 1 .. n /\ seq = [k \in 1 .. n |-> seq[k]]
  BY LenProperties
<1> HIDE DEF n
<1>2. kept = 1 .. n
  BY <1>1
<1>3. Cardinality(kept) = n
  <2>1. Cardinality(1 .. n) = IF 1 > n THEN 0 ELSE n - 1 + 1
    BY <1>1, FS_Interval
  <2>2. Cardinality(1 .. n) = n
    BY <1>1, <2>1
  <2> QED BY <1>2, <2>2
<1>4. ASSUME NEW i \in 1 .. n PROVE Cardinality({j \in kept : j < i}) = i - 1
  <2>1. {j \in kept : j < i} = 1 .. i - 1
    BY <1>1, <1>2
  <2>2. Cardinality(1 .. i - 1) = i - 1
    BY <1>1, FS_Interval
  <2> QED BY <2>1, <2>2
<1>5. ASSUME NEW k \in 1 .. n
      PROVE  (CHOOSE i \in kept : Cardinality({j \in kept : j < i}) = k - 1) = k
  <2>1. \A i \in kept : Cardinality({j \in kept : j < i}) = k - 1 <=> i = k
    BY <1>1, <1>2, <1>4
  <2> DEFINE Place(i) == Cardinality({j \in kept : j < i})
  <2> HIDE DEF kept
  <2>2. k \in kept
    BY <1>2
  <2> QED BY <2>1, <2>2
<1>6. Without(seq, S) = [k \in 1 .. n |-> seq[k]]
  <2> DEFINE Chosen(k) == CHOOSE i \in kept : Cardinality({j \in kept : j < i}) = k - 1
  <2>1. Without(seq, S) = [k \in 1 .. Cardinality(kept) |-> seq[Chosen(k)]]
    BY DEF Without
  <2>2. \A k \in 1 .. n : Chosen(k) = k
    BY <1>5
  <2> HIDE DEF Chosen, kept
  <2> QED BY <1>3, <2>1, <2>2
<1> QED BY <1>1, <1>6

\* A set of natural numbers that has an element has a least one.
LEMMA LeastNat ==
    ASSUME NEW T \in SUBSET Nat, T # {}
    PROVE  \E n \in T : \A m \in T : n <= m
<1> DEFINE R == OpToRel(<, Nat)
<1>1. R = {ss \in Nat \X Nat : ss[1] < ss[2]}
  BY DEF OpToRel
<1>2. IsWellFoundedOn(R, Nat)
  BY NatLessThanWellFounded
<1>3. \A a, b \in Nat : a < b => <<a, b>> \in R
  BY <1>1
<1> HIDE DEF R
<1>4. PICK n \in T : \A m \in T : ~(<<m, n>> \in R)
  BY <1>2, WFMin
<1>5. ASSUME NEW m \in T PROVE n <= m
  <2>1. ~(m < n)
    BY <1>3, <1>4
  <2> QED BY <2>1
<1> QED BY <1>5

\* Every rank in a finite set of numbers is that of one of them.
LEMMA RankIsTaken ==
    ASSUME NEW n \in Nat, NEW K \in SUBSET (1 .. n), NEW k \in 1 .. Cardinality(K)
    PROVE  \E i \in K : Cardinality({j \in K : j < i}) = k - 1
<1> DEFINE Below(i) == {j \in K : j < i}
           Bad == {m \in Nat : Cardinality(Below(m + 1)) >= k}
<1>1. \A j \in K : j \in Nat /\ j <= n
  OBVIOUS
<1>2. IsFiniteSet(K)
  <2>1. IsFiniteSet(1 .. n)
    BY FS_Interval
  <2>2. K \in SUBSET (1 .. n)
    OBVIOUS
  <2> QED BY ONLY <2>1, <2>2, FS_Subset
<1>3. Cardinality(K) \in Nat /\ k \in Nat /\ k >= 1 /\ k <= Cardinality(K)
  <2>1. Cardinality(K) \in Nat
    BY ONLY <1>2, FS_CardinalityType
  <2>2. k \in 1 .. Cardinality(K)
    OBVIOUS
  <2> QED BY ONLY <2>1, <2>2
<1>4. ASSUME NEW i \in Nat PROVE IsFiniteSet(Below(i)) /\ Cardinality(Below(i)) \in Nat
  <2>1. Below(i) \in SUBSET K
    OBVIOUS
  <2>2. IsFiniteSet(Below(i))
    <3> HIDE DEF Below
    <3> QED BY ONLY <1>2, <2>1, FS_Subset
  <2>3. Cardinality(Below(i)) \in Nat
    <3> HIDE DEF Below
    <3> QED BY ONLY <2>2, FS_CardinalityType
  <2> QED BY <2>2, <2>3
<1>5. \A i : \A j : j \in Below(i) <=> j \in K /\ j < i
  OBVIOUS
<1>6. \A m : m \in Bad <=> m \in Nat /\ Cardinality(Below(m + 1)) >= k
  OBVIOUS
<1> HIDE DEF Below, Bad
<1>7. n \in Bad
  <2>1. Below(n + 1) = K
    <3>1. \A j : j \in K => j < n + 1
      BY ONLY <1>1, n \in Nat
    <3> QED BY <1>5, <3>1
  <2> QED BY <1>3, <1>6, <2>1
<1>8. PICK m \in Bad : \A q \in Bad : m <= q
  <2>1. Bad \in SUBSET Nat
    BY <1>6
  <2> QED BY <1>7, <2>1, LeastNat
<1>9. m \in Nat /\ m + 1 \in Nat /\ Cardinality(Below(m + 1)) >= k
  BY <1>6
<1>10. Cardinality(Below(m)) \in Nat /\ Cardinality(Below(m)) < k
  <2>1. CASE m = 0
    <3>1. Below(m) = {}
      <4>1. \A j \in K : ~(j < 0)
        BY ONLY <1>1
      <4> QED BY <1>5, <2>1, <4>1
    <3>2. Cardinality(Below(m)) = 0
      BY <3>1, FS_EmptySet
    <3> QED BY ONLY <1>3, <3>2
  <2>2. CASE m # 0
    <3>1. m - 1 \in Nat /\ ~(m <= m - 1) /\ (m - 1) + 1 = m
      BY <1>9, <2>2
    <3>2. m - 1 \notin Bad
      BY <1>8, <3>1
    <3>3. ~(Cardinality(Below(m)) >= k)
      BY <1>6, <3>1, <3>2
    <3> QED BY <1>3, <1>4, <1>9, <3>3
  <2> QED BY <2>1, <2>2
<1>11. m \in K
  <2> SUFFICES ASSUME m \notin K PROVE FALSE
    OBVIOUS
  <2>1. Below(m + 1) = Below(m)
    <3>1. \A j \in K : (j < m + 1) <=> (j < m)
      BY ONLY <1>1, <1>9, m \notin K
    <3> QED BY <1>5, <3>1
  <2>2. Cardinality(Below(m)) >= k
    BY <1>9, <2>1
  <2> QED BY ONLY <1>3, <1>10, <2>2
<1>12. Below(m + 1) = Below(m) \cup {m} /\ m \notin Below(m)
  <2>1. ~(m < m) /\ m < m + 1
    BY ONLY <1>9
  <2>2. \A j \in K : (j < m + 1) <=> (j < m \/ j = m)
    BY ONLY <1>1, <1>9
  <2> QED BY <1>5, <1>11, <2>1, <2>2
<1>13. Cardinality(Below(m + 1)) = Cardinality(Below(m)) + 1
  <2>1. IsFiniteSet(Below(m))
    BY <1>4, <1>9
  <2> QED BY <1>12, <2>1, FS_AddElement
<1>14. Cardinality(Below(m)) = k - 1
  BY ONLY <1>3, <1>9, <1>10, <1>13
<1> QED BY <1>11, <1>14 DEF Below

\* What is left of a sequence is a sequence of the same things.
LEMMA WithoutIs ==
    ASSUME NEW T, NEW seq \in Seq(T), NEW S
    PROVE  Without(seq, S) \in Seq(T)
<1> DEFINE n == Len(seq)
           kept == {i \in DOMAIN seq : seq[i] \notin S}
           Chosen(k) == CHOOSE i \in kept : Cardinality({j \in kept : j < i}) = k - 1
<1>1. n \in Nat /\ DOMAIN seq = 1 .. n /\ \A i \in 1 .. n : seq[i] \in T
  BY LenProperties, ElementOfSeq
<1> HIDE DEF n
<1>2. kept \in SUBSET (1 .. n)
  BY <1>1
<1>3. Cardinality(kept) \in Nat
  <2>1. IsFiniteSet(1 .. n)
    BY <1>1, FS_Interval
  <2> QED BY <1>2, <2>1, FS_Subset, FS_CardinalityType
<1>4. ASSUME NEW k \in 1 .. Cardinality(kept) PROVE seq[Chosen(k)] \in T
  <2>1. \E i \in kept : Cardinality({j \in kept : j < i}) = k - 1
    <3> HIDE DEF kept
    <3> QED BY <1>1, <1>2, RankIsTaken
  <2>2. Chosen(k) \in kept
    <3> HIDE DEF kept
    <3> QED BY <2>1
  <2> QED BY <1>1, <1>2, <2>2
<1>5. Without(seq, S) = [k \in 1 .. Cardinality(kept) |-> seq[Chosen(k)]]
  BY DEF Without
<1> HIDE DEF Chosen, kept
<1> QED BY <1>3, <1>4, <1>5
-----------------------------------------------------------------------------
(* The history of the server *)

\* History h2 goes on where h ends.
Longer(h, h2) ==
    \A s \in Sessions : \A v \in DOMAIN h[s] : v \in DOMAIN h2[s] /\ h2[s][v] = h[s][v]

\* What was held stays held, and what is gone stays gone.
LEMMA StateStays ==
    ASSUME NEW h, NEW h2, Longer(h, h2), NEW x, x.id \in Sessions, StateOK(x, h)
    PROVE  StateOK(x, h2)
<1>1. \A v \in DOMAIN h[x.id] : v \in DOMAIN h2[x.id] /\ h2[x.id][v] = h[x.id][v]
  BY DEF Longer
<1>2. x.revision \in DOMAIN h2[x.id] /\ h2[x.id][x.revision] = h[x.id][x.revision]
  BY <1>1 DEF StateOK
<1>3. MixOf(x, h) => MixOf(x, h2)
  <2> HAVE MixOf(x, h)
  <2>1. PICK fills, count \in DOMAIN h[x.id] :
          /\ x.revision <= fills /\ fills <= count
          /\ x.window = Recent(Found(h[x.id][fills]), Window)
          /\ x.total \in Totals(h[x.id][x.revision], Len(x.window), Found(h[x.id][count]))
    BY DEF MixOf
  <2>2. /\ fills \in DOMAIN h2[x.id] /\ h2[x.id][fills] = h[x.id][fills]
        /\ count \in DOMAIN h2[x.id] /\ h2[x.id][count] = h[x.id][count]
    BY <1>1
  <2> QED BY <1>2, <2>1, <2>2 DEF MixOf
<1> QED BY <1>2, <1>3 DEF StateOK, Held

\* The same of a deleted session.
LEMMA GoneStays ==
    ASSUME NEW h, NEW h2, Longer(h, h2), NEW s \in Sessions, Gone(h, s)
    PROVE  Gone(h2, s)
BY DEF Gone, Longer

\* So an answer that is right stays right.
LEMMA ReplyStays ==
    ASSUME NEW h, NEW h2, Longer(h, h2), NEW c, c.session \in Sessions, ReplyOK(c, h)
    PROVE  ReplyOK(c, h2)
<1>1. CASE SnapshotOK(c.reply, h) /\ c.kind \in {"open", "restore", "refresh"}
  <2>1. c.reply \in Snapshots /\ c.reply.id \in Sessions
    BY <1>1 DEF SnapshotOK, Snapshots
  <2>2. SnapshotOK(c.reply, h2)
    BY <1>1, <2>1, StateStays DEF SnapshotOK
  <2> QED BY <1>1, <2>2 DEF ReplyOK
<1>2. CASE UpdateOK(c.reply, h) /\ c.kind = "mutate"
  <2>1. c.reply \in Updates /\ c.reply.id \in Sessions
    BY <1>2 DEF UpdateOK, Updates
  <2>2. UpdateOK(c.reply, h2)
    BY <1>2, <2>1 DEF UpdateOK, Held, Longer
  <2> QED BY <1>2, <2>2 DEF ReplyOK
<1>3. CASE c.kind = "page" /\ PageOK(c, h)
  <2>1. PageOK(c, h2)
    BY <1>3, GoneStays DEF PageOK
  <2> QED BY <1>3, <2>1 DEF ReplyOK
<1> QED BY <1>1, <1>2, <1>3 DEF ReplyOK

\* What is on screen stays right too.
LEMMA ViewStays ==
    ASSUME NEW h, NEW h2, Longer(h, h2), ViewOK(h)
    PROVE  ViewOK(h2)
<1>1. ASSUME replay # None
      PROVE  /\ StateOK(replay, h2)
             /\ \A n, first : ShowsFrom(n, first, h) => ShowsFrom(n, first, h2)
  <2>1. replay.id \in Sessions /\ StateOK(replay, h)
    BY <1>1 DEF ViewOK, Installed
  <2>2. StateOK(replay, h2)
    BY <2>1, StateStays
  <2>3. Gone(h, replay.id) => Gone(h2, replay.id)
    BY <2>1, GoneStays
  <2> QED BY <2>2, <2>3 DEF ShowsFrom
<1> QED BY <1>1 DEF ViewOK

\* A session that was not deleted has a number of records, at its last revision.
LEMMA AliveIs ==
    ASSUME NEW h \in Histories, ServerOK(h), NEW s \in Sessions
    PROVE  /\ server[s] = h[s] /\ h[s] \in Seq(Nat \cup {None}) /\ Len(h[s]) \in Nat \ {0}
           /\ DOMAIN h[s] = 1 .. Len(h[s])
           /\ Deleted(s) <=> h[s][Len(h[s])] = None
           /\ ~Deleted(s) => /\ RecordsOf(s) = h[s][Len(h[s])] /\ RecordsOf(s) \in Nat
                             /\ \A v \in DOMAIN h[s] : h[s][v] \in Nat
<1>1. /\ server[s] = h[s] /\ h[s] \in Seq(Nat \cup {None}) /\ Len(h[s]) \in Nat \ {0}
      /\ DOMAIN h[s] = 1 .. Len(h[s])
  BY LenProperties DEF ServerOK, Histories
<1>2. Last(server[s]) = h[s][Len(h[s])]
  BY <1>1 DEF Last
<1>3. \A v \in 1 .. Len(h[s]) : h[s][v] \in Nat \cup {None}
  BY <1>1, ElementOfSeq
<1>4. \A v \in 1 .. Len(h[s]) - 1 : h[s][v] # None
  BY DEF ServerOK
<1>5. ASSUME ~Deleted(s), NEW v \in 1 .. Len(h[s]) PROVE h[s][v] \in Nat
  <2>1. CASE v = Len(h[s])
    BY <1>2, <1>3, <1>5, <2>1 DEF Deleted
  <2>2. CASE v # Len(h[s])
    <3>1. v \in 1 .. Len(h[s]) - 1
      BY <1>1, <2>2
    <3> QED BY <1>3, <1>4, <3>1
  <2> QED BY <2>1, <2>2
<1>6. Len(h[s]) \in 1 .. Len(h[s])
  BY <1>1
<1> QED BY <1>1, <1>2, <1>5, <1>6 DEF Deleted, RecordsOf

\* A session is changed or deleted: its history grows by one revision.
LEMMA HistoryGrows ==
    ASSUME NEW h \in Histories, ServerOK(h), NEW s \in Sessions, ~Deleted(s),
           NEW m \in Nat \cup {None}, server' = [server EXCEPT ![s] = Append(@, m)]
    PROVE  \E h2 \in Histories :
              /\ Longer(h, h2) /\ ServerOK(h2)'
              /\ Len(server[s]) \in Nat \ {0} /\ RecordsOf(s) \in Nat
              /\ Held(h2, s, Len(server[s]), RecordsOf(s)) /\ Held(h2, s, Len(server[s]) + 1, m)
<1>1. /\ server[s] = h[s] /\ h[s] \in Seq(Nat \cup {None}) /\ Len(h[s]) \in Nat \ {0}
      /\ DOMAIN h[s] = 1 .. Len(h[s]) /\ RecordsOf(s) = h[s][Len(h[s])] /\ RecordsOf(s) \in Nat
      /\ \A v \in DOMAIN h[s] : h[s][v] \in Nat
  BY AliveIs
<1>2. PICK long : long = Append(h[s], m)
  OBVIOUS
<1>3. /\ long \in Seq(Nat \cup {None}) /\ Len(long) = Len(h[s]) + 1 /\ DOMAIN long = 1 .. Len(h[s]) + 1
      /\ \A v \in 1 .. Len(h[s]) : long[v] = h[s][v]
      /\ long[Len(h[s]) + 1] = m
  BY <1>1, <1>2, AppendProperties, LenProperties
<1>4. PICK h2 : h2 = [h EXCEPT ![s] = long]
  OBVIOUS
<1>5. h2 \in Histories /\ h2[s] = long /\ \A t \in Sessions \ {s} : h2[t] = h[t]
  BY <1>3, <1>4 DEF Histories
<1>6. Longer(h, h2)
  <2> SUFFICES ASSUME NEW t \in Sessions, NEW v \in DOMAIN h[t]
               PROVE  v \in DOMAIN h2[t] /\ h2[t][v] = h[t][v]
    BY DEF Longer
  <2>1. CASE t = s
    <3>1. v \in 1 .. Len(h[s])
      BY <1>1, <2>1
    <3> QED BY <1>1, <1>3, <1>5, <2>1, <3>1
  <2> QED BY <1>5, <2>1
<1>7. ServerOK(h2)'
  <2>1. server' = h2
    BY <1>1, <1>2, <1>4 DEF ServerOK
  <2>2. ASSUME NEW t \in Sessions
        PROVE  /\ Len(h2[t]) # 0 /\ h2[t][1] # None
               /\ \A v \in 1 .. Len(h2[t]) - 1 : h2[t][v] # None
    <3>1. CASE t = s
      <4>1. \A v \in 1 .. Len(h[s]) : long[v] \in Nat
        BY <1>1, <1>3
      <4>2. Len(long) # 0 /\ 1 \in 1 .. Len(h[s]) /\ Len(long) - 1 = Len(h[s])
        BY <1>1, <1>3
      <4> QED BY <1>5, <3>1, <4>1, <4>2, ClientAssumption
    <3>2. CASE t # s
      BY <1>5, <3>2 DEF ServerOK
    <3> QED BY <3>1, <3>2
  <2> QED BY <2>1, <2>2 DEF ServerOK
<1>8. Held(h2, s, Len(server[s]), RecordsOf(s)) /\ Held(h2, s, Len(server[s]) + 1, m)
  <2>1. Len(h[s]) \in 1 .. Len(h[s]) /\ Len(h[s]) \in 1 .. Len(h[s]) + 1 /\ Len(h[s]) + 1 \in 1 .. Len(h[s]) + 1
    BY <1>1
  <2> QED BY <1>1, <1>3, <1>5, <2>1 DEF Held
<1> QED BY <1>1, <1>5, <1>6, <1>7, <1>8

-----------------------------------------------------------------------------
(* What the server answers *)

\* The window of any number of records is a sequence of numbers, and not too long.
LEMMA WindowFits ==
    ASSUME NEW n \in Nat
    PROVE  /\ Recent(n, Window) \in Seq(Nat) /\ Len(Recent(n, Window)) = n + 1 - Low(n)
           /\ Len(Recent(n, Window)) <= Window
<1>1. PICK low, width, w : low = Low(n) /\ width = n + 1 - low /\ w = Recent(n, Window)
  OBVIOUS
<1>2. low \in Nat \ {0} /\ width \in Nat /\ width <= Window /\ w = Up(low, width)
  BY <1>1, WindowIs
<1>3. w \in Seq(Nat)
  <2>1. \A i \in 1 .. width : low + i - 1 \in Nat
    BY <1>2
  <2> QED BY <1>2, <2>1 DEF Up
<1>4. Len(w) = width
  BY <1>2, UpIs
<1> QED BY <1>1, <1>2, <1>3, <1>4

\* A load between two commits or across them answers with what it read.
LEMMA SnapshotIs ==
    ASSUME NEW h \in Histories, ServerOK(h), NEW s \in Sessions,
           NEW row \in DOMAIN h[s], h[s][row] \in Nat,
           NEW fills \in row .. Len(server[s]), NEW count \in fills .. Len(server[s]),
           NEW window, window = Recent(Found(server[s][fills]), Window),
           NEW total \in Totals(server[s][row], Len(window), Found(server[s][count]))
    PROVE  SnapshotOK(SnapshotOf(s, row, window, total), h)
<1>1. /\ server[s] = h[s] /\ h[s] \in Seq(Nat \cup {None}) /\ Len(h[s]) \in Nat \ {0}
      /\ DOMAIN h[s] = 1 .. Len(h[s])
  BY AliveIs
<1>2. row \in Nat \ {0} /\ fills \in DOMAIN h[s] /\ count \in DOMAIN h[s] /\ row <= fills /\ fills <= count
  BY <1>1
<1>3. Found(h[s][fills]) \in Nat /\ Found(h[s][count]) \in Nat
  <2>1. h[s][fills] \in Nat \cup {None} /\ h[s][count] \in Nat \cup {None}
    BY <1>1, <1>2, ElementOfSeq
  <2> QED BY <2>1 DEF Found
<1>4. window \in Seq(Nat) /\ Len(window) \in Nat
  <2>1. PICK n \in Nat : n = Found(h[s][fills])
    BY <1>3
  <2>2. window = Recent(n, Window)
    BY <1>1, <2>1
  <2> QED BY <2>2, WindowFits, LenProperties
<1>5. total \in Nat
  <2>1. PICK carried, found, counted \in Nat :
          carried = h[s][row] /\ found = Len(window) /\ counted = Found(h[s][count])
    BY <1>3, <1>4
  <2>2. total \in Totals(carried, found, counted)
    BY <1>1, <2>1
  <2>3. PICK n \in IF found = 0 THEN {0, carried} ELSE {IF carried = 0 THEN counted ELSE carried} :
          total = IF n < found THEN found ELSE n
    BY <2>2 DEF Totals
  <2>4. n \in Nat
    BY <2>3
  <2> QED BY <2>3, <2>4
<1>6. PICK x : x = SnapshotOf(s, row, window, total)
  OBVIOUS
<1>7. /\ x.id = s /\ x.revision = row /\ x.window = window /\ x.total = total /\ x.type = "snapshot"
      /\ x.made = IF total = server[s][row] /\ window = Recent(total, Window) THEN "whole" ELSE "mixed"
      /\ x \in Snapshots
  BY <1>2, <1>4, <1>5, <1>6 DEF SnapshotOf, Snapshots
<1>8. StateOK(x, h)
  <2>1. x.revision \in DOMAIN h[x.id]
    BY <1>7
  <2>2. x.made = "whole" => Held(h, x.id, x.revision, x.total) /\ x.window = Recent(x.total, Window)
    BY <1>1, <1>7 DEF Held
  <2>3. MixOf(x, h)
    <3>1. /\ x.revision <= fills /\ fills <= count
          /\ x.window = Recent(Found(h[x.id][fills]), Window)
          /\ x.total \in Totals(h[x.id][x.revision], Len(x.window), Found(h[x.id][count]))
      BY <1>1, <1>2, <1>7
    <3> QED BY <1>2, <1>7, <3>1 DEF MixOf
  <2>4. x.made # "merged"
    BY <1>7
  <2> QED BY <2>1, <2>2, <2>3, <2>4 DEF StateOK
<1> QED BY <1>6, <1>7, <1>8 DEF SnapshotOK

\* An update tells of one revision, and of the records between it and the last.
LEMMA UpdateIs ==
    ASSUME NEW h2, NEW s \in Sessions, NEW n \in Nat, RecordsOf(s) \in Nat, Len(server[s]) \in Nat \ {0},
           Held(h2, s, Len(server[s]), RecordsOf(s)), Held(h2, s, Len(server[s]) + 1, RecordsOf(s) + n)
    PROVE  UpdateOK(UpdateOf(s, n), h2)
<1>1. PICK r, v, x : r = RecordsOf(s) /\ v = Len(server[s]) /\ x = UpdateOf(s, n)
  OBVIOUS
<1>2. x = [type |-> "update", id |-> s, revision |-> v + 1, new |-> [i \in 1 .. n |-> r + i], total |-> r + n]
  BY <1>1 DEF UpdateOf
<1>3. r \in Nat /\ v \in Nat \ {0} /\ [i \in 1 .. n |-> r + i] \in Seq(Nat)
  BY <1>1
<1>4. [i \in 1 .. n |-> r + i] = Up(r + 1, n)
  <2>1. \A i \in 1 .. n : (r + 1) + i - 1 = r + i
    BY <1>3
  <2> QED BY <2>1 DEF Up
<1>5. /\ x \in Updates /\ x.id = s /\ x.revision = v + 1 /\ x.total = r + n /\ x.new = Up(r + 1, n)
  BY <1>2, <1>3, <1>4 DEF Updates
<1>6. x.revision - 1 = v /\ x.total - r = n /\ r <= x.total
  BY <1>3, <1>5
<1>7. Held(h2, x.id, x.revision, x.total) /\ Held(h2, x.id, x.revision - 1, r)
  BY <1>1, <1>5, <1>6
<1>8. UpdateOK(x, h2)
  BY <1>3, <1>5, <1>6, <1>7 DEF UpdateOK
<1> QED BY <1>1, <1>8

\* A page counts down from below where it starts, and tells where the next one does.
LEMMA PageIs ==
    ASSUME NEW at \in Nat \ {0}
    PROVE  /\ PageOf(at) \in Pages
           /\ \E k \in Nat : /\ k < at /\ PageOf(at).items = Down(at, k)
                             /\ \/ PageOf(at).next = None /\ k = at - 1
                                \/ PageOf(at).next = at - k /\ at - k \in Nat \ {0}
<1>1. Page \in Nat \ {0} /\ at - 1 \in Nat
  BY ClientAssumption
<1>2. Recent(at - 1, Page) = IF at - 1 < Page THEN Up(1, at - 1) ELSE Up(at - 1 - Page + 1, Page)
  BY <1>1, RecentIs
<1>3. PICK k : k = IF at - 1 < Page THEN at - 1 ELSE Page
  OBVIOUS
<1>4. k \in Nat /\ k < at /\ at - k \in Nat \ {0}
  BY <1>1, <1>3
<1>5. Recent(at - 1, Page) = Up(at - k, k)
  <2>1. CASE at - 1 < Page
    <3>1. k = at - 1 /\ at - k = 1
      BY <1>3, <2>1
    <3> QED BY <1>2, <2>1, <3>1
  <2>2. CASE ~(at - 1 < Page)
    <3>1. k = Page /\ at - k = at - 1 - Page + 1
      BY <1>1, <1>3, <2>2
    <3> QED BY <1>2, <2>2, <3>1
  <2> QED BY <2>1, <2>2
<1>6. PICK items : items = Down(at, k)
  OBVIOUS
<1>7. Reverse(Recent(at - 1, Page)) = items
  <2>1. Reverse(Up(at - k, k)) = Down((at - k) + k, k) /\ (at - k) + k = at
    BY <1>4, UpReversed
  <2> QED BY <1>5, <1>6, <2>1
<1>8. items \in Seq(Nat) /\ (k # 0 => Last(items) = at - k)
  <2>1. /\ Len(items) = k /\ items = [i \in 1 .. k |-> at - i] /\ \A i \in 1 .. k : at - i \in Nat
        /\ \A i \in 1 .. k : items[i] = at - i
    BY <1>4, <1>6, DownIs DEF Down
  <2> QED BY <1>4, <2>1 DEF Last
<1>9. PICK next : next = IF at - 1 > Page THEN Last(items) ELSE None
  OBVIOUS
<1>10. /\ next \in Nat \cup {None}
       /\ \/ next = None /\ k = at - 1
          \/ next = at - k
  <2>1. CASE at - 1 > Page
    BY <1>1, <1>3, <1>4, <1>8, <1>9, <2>1
  <2>2. CASE ~(at - 1 > Page)
    <3>1. k = at - 1
      BY <1>1, <1>3, <2>2
    <3> QED BY <1>9, <2>2, <3>1
  <2> QED BY <2>1, <2>2
<1>11. PageOf(at) = [type |-> "page", items |-> items, next |-> next]
  BY <1>7, <1>9 DEF PageOf
<1>12. PageOf(at) \in Pages /\ PageOf(at).items = items /\ PageOf(at).next = next
  BY <1>8, <1>10, <1>11 DEF Pages
<1> QED BY <1>4, <1>6, <1>10, <1>12

\* What a call may be answered with, by the type of the answer.
LEMMA AnswerIs ==
    ASSUME NEW h, NEW c, CallOK(c, h), NEW kinds, NEW types, Answers(c, kinds, types)
    PROVE  /\ c.kind \in kinds /\ c.reply.type \in types
           /\ c.reply.type = "snapshot" => SnapshotOK(c.reply, h)
           /\ c.reply.type = "update" => UpdateOK(c.reply, h)
           /\ c.reply.type = "page" => PageOK(c, h)
<1>1. c.reply # None /\ c.kind \in kinds /\ c.reply.type \in types
  BY DEF Answers
<1>2. CASE c.reply \in [type : Failures]
  BY <1>1, <1>2 DEF Failures
<1>3. CASE c.kind \in {"open", "restore", "refresh"} /\ SnapshotOK(c.reply, h)
  BY <1>1, <1>3 DEF SnapshotOK, Snapshots
<1>4. CASE c.kind = "mutate" /\ UpdateOK(c.reply, h)
  BY <1>1, <1>4 DEF UpdateOK, Updates
<1>5. CASE c.kind = "page" /\ PageOK(c, h)
  <2>1. c.reply.type = "page"
    BY <1>5 DEF PageOK, PageOf, EmptyPage
  <2> QED BY <1>1, <1>5, <2>1
<1> QED BY <1>1, <1>2, <1>3, <1>4, <1>5 DEF CallOK, ReplyOK
-----------------------------------------------------------------------------
(* What is on screen *)

\* A snapshot shows the window of some number of records.
LEMMA SnapshotShows ==
    ASSUME NEW h \in Histories, NEW x \in Snapshots \cup Installed, StateOK(x, h), x.made # "merged"
    PROVE  \E n \in Nat : /\ x.window = Recent(n, Window)
                          /\ x.made = "whole" => n = x.total
<1>1. x.made \in {"whole", "mixed"} /\ x.total \in Nat /\ x.id \in Sessions
  BY DEF Snapshots, Installed
<1>2. CASE x.made = "whole"
  BY <1>1, <1>2 DEF StateOK
<1>3. CASE x.made = "mixed"
  <2>1. PICK fills \in DOMAIN h[x.id] : x.window = Recent(Found(h[x.id][fills]), Window)
    BY <1>3 DEF StateOK, MixOf
  <2>2. h[x.id][fills] \in Nat \cup {None}
    <3>1. h[x.id] \in Seq(Nat \cup {None})
      BY <1>1 DEF Histories
    <3> QED BY <2>1, <3>1, LenProperties, ElementOfSeq
  <2>3. Found(h[x.id][fills]) \in Nat
    BY <2>2 DEF Found
  <2> QED BY <1>3, <2>1, <2>3
<1> QED BY <1>1, <1>2, <1>3

\* A snapshot is installed: nothing older is shown, and nothing loads.
LEMMA InstallKeeps ==
    ASSUME NEW h \in Histories, ViewOK(h), NEW x, SnapshotOK(x, h), InstallSnapshot(x)
    PROVE  ViewOK(h)' /\ loading' = FALSE /\ loads' = loads + 1 /\ loads \in Nat /\ replay' # None
<1>1. x \in Snapshots /\ StateOK(x, h)
  BY DEF SnapshotOK
<1>2. PICK id, v, w, t, made : id = x.id /\ v = x.revision /\ w = x.window /\ t = x.total /\ made = x.made
  OBVIOUS
<1>3. id \in Sessions /\ v \in Nat \ {0} /\ w \in Seq(Nat) /\ t \in Nat /\ made \in {"whole", "mixed"}
  BY <1>1, <1>2 DEF Snapshots
<1>4. /\ loads' = loads + 1 /\ saved' = id /\ older' = << >> /\ loading' = FALSE
      /\ replay' = [id |-> id, revision |-> v, window |-> w, total |-> t, made |-> made]
      /\ cursor' = IF t > Len(w) /\ w # << >> THEN w[1] ELSE None
  BY <1>2 DEF InstallSnapshot
<1>5. PICK y : y = replay'
  OBVIOUS
<1>6. y \in Installed /\ y.id = id /\ y.revision = v /\ y.window = w /\ y.total = t /\ y.made = made
  BY <1>3, <1>4, <1>5 DEF Installed
<1>7. y # None /\ None \notin Nat
  BY <1>6, ClientAssumption
<1>8. StateOK(y, h)
  <2>1. MixOf(x, h) => MixOf(y, h)
    BY <1>2, <1>6 DEF MixOf
  <2> QED BY <1>1, <1>2, <1>6, <2>1 DEF StateOK
<1>9. PICK n \in Nat : w = Recent(n, Window) /\ (made = "whole" => n = t)
  <2>1. made # "merged"
    BY <1>3
  <2> QED BY <1>1, <1>2, <2>1, SnapshotShows
<1>10. PICK low : low = Low(n)
  OBVIOUS
<1>11. /\ low \in Nat \ {0} /\ low <= n + 1 /\ n + 1 - low <= Window /\ Window \in Nat \ {0}
       /\ Len(w) = n + 1 - low /\ \A i \in 1 .. n + 1 - low : w[i] = low + i - 1
  <2>1. low \in Nat \ {0} /\ low <= n + 1 /\ n + 1 - low <= Window /\ w = Up(low, n + 1 - low)
    BY <1>9, <1>10, WindowIs
  <2>2. PICK width : width = n + 1 - low
    OBVIOUS
  <2>3. width \in Nat /\ w = Up(low, width) /\ low \in Int
    BY <2>1, <2>2
  <2>4. Len(w) = width /\ \A i \in 1 .. width : w[i] = low + i - 1
    BY <2>3, UpIs
  <2> QED BY <2>1, <2>2, <2>4, ClientAssumption
<1>12. \/ cursor' = low
       \/ cursor' = None /\ (low = 1 \/ made = "mixed")
  <2>1. CASE t > Len(w) /\ w # << >>
    <3>1. Len(w) # 0
      BY <1>3, <2>1, EmptySeq
    <3>2. 1 \in 1 .. n + 1 - low
      BY <1>11, <3>1
    <3>3. w[1] = low
      BY <1>11, <3>2
    <3> QED BY <1>4, <2>1, <3>3
  <2>2. CASE ~(t > Len(w) /\ w # << >>)
    <3>1. cursor' = None
      BY <1>4, <2>2
    <3>2. ASSUME made = "whole" PROVE low = 1
      <4>1. n = t
        BY <1>9, <3>2
      <4>2. Len(w) = 0 => n < Window
        BY <1>10, <1>11 DEF Low
      <4>3. w = << >> => Len(w) = 0
        BY EmptySeq
      <4> QED BY <1>3, <1>10, <1>11, <2>2, <4>1, <4>2, <4>3 DEF Low
    <3> QED BY <1>3, <3>1, <3>2
  <2> QED BY <2>1, <2>2
<1>13. ShowsFrom(n, low, h)'
  <2>1. Down(low, low - low) = << >>
    BY <1>11 DEF Down
  <2>2. older' = Down(Low(n), Low(n) - low)
    BY <1>4, <1>10, <2>1
  <2>3. replay'.window = Recent(n, Window) /\ (replay'.made = "whole" => n = replay'.total)
    BY <1>5, <1>6, <1>9
  <2>4. \/ cursor' = low
        \/ cursor' = None /\ (low = 1 \/ replay'.made = "mixed" \/ Gone(h, replay'.id))
    BY <1>5, <1>6, <1>12
  <2> QED BY <2>2, <2>3, <2>4 DEF ShowsFrom
<1>14. low \in 1 .. Low(n) /\ Len(w) <= Window
  BY <1>10, <1>11
<1>15. ViewOK(h)'
  <2>1. saved' \in Sessions \cup {None} /\ loads' \in Nat /\ cursor' \in (Nat \ {0}) \cup {None}
    BY <1>3, <1>4, <1>11, <1>12 DEF ViewOK
  <2>2. /\ replay' # None /\ replay' \in Installed /\ StateOK(replay', h) /\ Len(replay'.window) <= Window
    BY <1>5, <1>6, <1>7, <1>8, <1>14
  <2> QED BY <1>13, <1>14, <2>1, <2>2 DEF ViewOK
<1> QED BY <1>4, <1>5, <1>7, <1>15 DEF ViewOK

\* What the records on screen are.
LEMMA ShownIs ==
    ASSUME NEW h, NEW n \in Nat, NEW first \in 1 .. Low(n), ShowsFrom(n, first, h)
    PROVE  /\ Low(n) \in Nat \ {0} /\ Low(n) <= n + 1
           /\ replay.window = Up(Low(n), n + 1 - Low(n))
           /\ first \in Nat \ {0} /\ first <= Low(n) /\ older = Down(Low(n), Low(n) - first)
<1>1. Low(n) \in Nat \ {0} /\ Low(n) <= n + 1 /\ Recent(n, Window) = Up(Low(n), n + 1 - Low(n))
  BY WindowIs
<1>2. first \in Nat \ {0} /\ first <= Low(n)
  BY <1>1
<1> QED BY <1>1, <1>2 DEF ShowsFrom

\* An update is merged: the window is a sequence of numbers, and not too long.
LEMMA MergedIs ==
    ASSUME NEW h, ViewOK(h), replay # None, NEW x, UpdateOK(x, h), Follows(x), Merge(x)
    PROVE  /\ replay' # None /\ replay' \in Installed /\ UNCHANGED <<saved, cursor, loading, loads>>
           /\ replay'.id = replay.id /\ replay'.revision = replay.revision + 1
           /\ replay'.total = x.total /\ Held(h, replay'.id, replay'.revision, replay'.total)
           /\ replay'.made = (IF replay.made = "whole" THEN "whole" ELSE "merged")
           /\ Len(replay'.window) <= Window
<1>1. /\ x.id \in Sessions /\ x.revision \in Nat \ {0} /\ x.new \in Seq(Nat) /\ x.total \in Nat
      /\ x.id = replay.id /\ x.revision = replay.revision + 1 /\ Held(h, x.id, x.revision, x.total)
  BY DEF UpdateOK, Updates, Follows
<1>2. replay \in Installed /\ replay.window \in Seq(Nat)
  BY DEF ViewOK, Installed
<1>3. PICK fresh : fresh = Without(x.new, Range(replay.window))
  OBVIOUS
<1>4. fresh \in Seq(Nat)
  BY <1>1, <1>3, WithoutIs
<1>5. PICK all : all = replay.window \o fresh
  OBVIOUS
<1>6. all \in Seq(Nat) /\ Len(all) \in Nat /\ \A i \in 1 .. Len(all) : all[i] \in Nat
  <2>1. all \in Seq(Nat)
    BY <1>2, <1>4, <1>5, ConcatProperties
  <2> QED BY <2>1, LenProperties, ElementOfSeq
<1>7. PICK over : over = IF Len(all) > Window THEN Len(all) - Window ELSE 0
  OBVIOUS
<1>8. PICK w : w = SubSeq(all, over + 1, Len(all))
  OBVIOUS
<1>9. Window \in Nat \ {0} /\ over \in Nat /\ over <= Len(all) /\ Len(all) - over <= Window
  BY <1>6, <1>7, ClientAssumption
<1>10. w \in Seq(Nat) /\ Len(w) <= Window
  <2>1. PICK p, q : p = over + 1 /\ q = Len(all)
    OBVIOUS
  <2>2. p \in Int /\ q \in Int /\ \A i \in p .. q : all[i] \in Nat
    BY <1>6, <1>9, <2>1
  <2>3. SubSeq(all, p, q) \in Seq(Nat) /\ Len(SubSeq(all, p, q)) = IF p <= q THEN q - p + 1 ELSE 0
    BY <2>2, SubSeqProperties
  <2> QED BY <1>6, <1>8, <1>9, <2>1, <2>3
<1>11. /\ replay' = [replay EXCEPT !.revision = x.revision, !.total = x.total, !.window = w,
                                   !.made = IF @ = "whole" THEN @ ELSE "merged"]
       /\ UNCHANGED <<saved, cursor, loading, loads>>
  BY <1>3, <1>5, <1>7, <1>8 DEF Merge
<1>12. PICK y : y = replay'
  OBVIOUS
<1>13. PICK made : made = IF replay.made = "whole" THEN "whole" ELSE "merged"
  OBVIOUS
<1>14. /\ y.id = replay.id /\ y.revision = x.revision /\ y.total = x.total /\ y.window = w
       /\ y.made = made
  BY <1>2, <1>11, <1>12, <1>13 DEF Installed
<1>15. y \in Installed
  <2>1. y = [replay EXCEPT !.revision = x.revision, !.total = x.total, !.window = w, !.made = made]
    BY <1>2, <1>11, <1>12, <1>13 DEF Installed
  <2>2. made \in {"whole", "mixed", "merged"}
    BY <1>13
  <2> QED BY <1>1, <1>2, <1>10, <2>1, <2>2 DEF Installed
<1>16. y # None
  BY <1>15, ClientAssumption
<1> QED BY <1>1, <1>10, <1>11, <1>12, <1>13, <1>14, <1>15, <1>16

\* The next update is merged into a view that is whole: what leaves the window
\* becomes the newest of the older records.
LEMMA MergeShows ==
    ASSUME NEW h, ViewOK(h), replay # None, replay.made = "whole",
           NEW x, UpdateOK(x, h), Follows(x), Merge(x),
           NEW first \in 1 .. Low(replay.total), ShowsFrom(replay.total, first, h)
    PROVE  first \in 1 .. Low(x.total) /\ ShowsFrom(x.total, first, h)'
<1>1. PICK low, total, before : low = Low(replay.total) /\ total = replay.total /\ before = first
  OBVIOUS
<1>2. /\ replay \in Installed /\ total \in Nat /\ low \in Nat \ {0} /\ low <= total + 1
      /\ replay.window = Up(low, total + 1 - low) /\ replay.revision \in Nat \ {0}
      /\ before \in Nat \ {0} /\ before <= low /\ older = Down(low, low - before)
  <2>1. replay \in Installed /\ replay.total \in Nat /\ replay.revision \in Nat \ {0}
    BY DEF ViewOK, Installed
  <2> QED BY <1>1, <2>1, ShownIs
<1>3. PICK n : n = x.total
  OBVIOUS
<1>4. /\ n \in Nat /\ total <= n /\ x.new = Up(total + 1, n - total) /\ Held(h, x.id, x.revision, n)
  <2>1. PICK b \in Nat : /\ Held(h, x.id, x.revision - 1, b) /\ b <= x.total
                         /\ x.new = Up(b + 1, x.total - b)
    BY DEF UpdateOK
  <2>2. x.id = replay.id /\ x.revision - 1 = replay.revision
    BY <1>2 DEF Follows
  <2>3. b = total
    <3>1. Held(h, replay.id, replay.revision, replay.total)
      BY DEF ViewOK, StateOK
    <3> QED BY <1>1, <2>1, <2>2, <3>1 DEF Held
  <2>4. n \in Nat
    BY <1>3 DEF UpdateOK, Updates
  <2> QED BY <1>3, <2>1, <2>3, <2>4 DEF UpdateOK
<1>5. PICK fresh : fresh = Without(x.new, Range(replay.window))
  OBVIOUS
<1>6. fresh = Up(total + 1, n - total)
  <2>1. /\ x.new \in Seq(Int) /\ DOMAIN x.new = 1 .. n - total
        /\ \A i \in 1 .. n - total : x.new[i] = (total + 1) + i - 1
    <3>1. total + 1 \in Int /\ n - total \in Nat
      BY <1>2, <1>4
    <3> QED BY <1>4, <3>1, UpIs
  <2>2. ASSUME NEW r \in Range(replay.window) PROVE r <= total
    <3>1. PICK j \in DOMAIN replay.window : r = replay.window[j]
      BY DEF Range
    <3>2. PICK width : width = total + 1 - low
      OBVIOUS
    <3>3. low \in Int /\ width \in Nat /\ replay.window = Up(low, width)
      BY <1>2, <3>2
    <3>4. j \in 1 .. width /\ r = low + j - 1
      BY <3>1, <3>3, UpIs
    <3> QED BY <1>2, <3>2, <3>4
  <2>3. \A i \in DOMAIN x.new : x.new[i] \notin Range(replay.window)
    <3> SUFFICES ASSUME NEW i \in 1 .. n - total, x.new[i] \in Range(replay.window) PROVE FALSE
      BY <2>1
    <3>1. x.new[i] <= total /\ x.new[i] = (total + 1) + i - 1
      BY <2>1, <2>2
    <3> QED BY <1>2, <3>1
  <2> QED BY <1>4, <1>5, <2>1, <2>3, WithoutNothing
<1>7. PICK all : all = replay.window \o fresh
  OBVIOUS
<1>8. all = Up(low, n + 1 - low) /\ Len(all) = n + 1 - low
  <2>1. low \in Int /\ total + 1 - low \in Nat /\ n - total \in Nat /\ n + 1 - low \in Nat
    BY <1>2, <1>4
  <2>2. low + (total + 1 - low) = total + 1 /\ (total + 1 - low) + (n - total) = n + 1 - low
    BY <1>2, <1>4
  <2>3. Up(low, total + 1 - low) \o Up(low + (total + 1 - low), n - total)
          = Up(low, (total + 1 - low) + (n - total))
    BY <2>1, UpJoins
  <2>4. all = Up(low, n + 1 - low)
    BY <1>2, <1>6, <1>7, <2>2, <2>3
  <2> QED BY <2>1, <2>4, UpIs
<1>9. PICK over : over = IF Len(all) > Window THEN Len(all) - Window ELSE 0
  OBVIOUS
<1>10. PICK out : out = Reverse(SubSeq(all, 1, over))
  OBVIOUS
<1>11. /\ replay' = [replay EXCEPT !.revision = x.revision, !.total = n,
                                   !.window = SubSeq(all, over + 1, Len(all)),
                                   !.made = IF @ = "whole" THEN @ ELSE "merged"]
       /\ older' = out \o Without(older, Range(out)) /\ cursor' = cursor
  BY <1>3, <1>5, <1>7, <1>9, <1>10 DEF Merge
<1>12. /\ over \in Nat /\ over <= n + 1 - low /\ Window \in Nat \ {0}
       /\ Low(n) = low + over
  <2>1. Window \in Nat \ {0}
    BY ClientAssumption
  <2>2. low = IF total < Window THEN 1 ELSE total - Window + 1
    BY <1>1 DEF Low
  <2> QED BY <1>2, <1>4, <1>8, <1>9, <2>1, <2>2 DEF Low
<1>13. out = Down(low + over, over)
  <2>1. PICK size, begin : size = n + 1 - low /\ begin = 1
    OBVIOUS
  <2>2. /\ size \in Nat /\ all = Up(low, size) /\ over <= size /\ over \in Int /\ low \in Int
        /\ begin \in Int /\ 1 <= begin /\ begin <= over + 1
    BY <1>2, <1>4, <1>8, <1>12, <2>1
  <2>3. SubSeq(all, begin, over) = Up(low + begin - 1, over - begin + 1)
    BY <2>2, UpCut
  <2>4. low + begin - 1 = low /\ over - begin + 1 = over
    BY <1>2, <1>12, <2>1
  <2>5. SubSeq(all, 1, over) = Up(low, over)
    BY <2>1, <2>3, <2>4
  <2> QED BY <1>10, <1>12, <2>2, <2>5, UpReversed
<1>14. SubSeq(all, over + 1, Len(all)) = Up(low + over, n + 1 - (low + over))
  <2>1. PICK size, next : size = n + 1 - low /\ next = over + 1
    OBVIOUS
  <2>2. /\ size \in Nat /\ all = Up(low, size) /\ Len(all) = size /\ low \in Int
        /\ next \in Int /\ 1 <= next /\ next <= size + 1 /\ size \in Int /\ size <= size
    BY <1>2, <1>4, <1>8, <1>12, <2>1
  <2>3. SubSeq(all, next, size) = Up(low + next - 1, size - next + 1)
    BY <2>2, UpCut
  <2>4. low + next - 1 = low + over /\ size - next + 1 = n + 1 - (low + over)
    BY <1>2, <1>4, <1>12, <2>1
  <2> QED BY <2>1, <2>2, <2>3, <2>4
<1>15. older' = Down(low + over, (low + over) - before)
  <2>1. low + over \in Int /\ over \in Nat /\ low \in Int /\ low - before \in Nat
    BY <1>2, <1>12
  <2>2. /\ older \in Seq(Int) /\ DOMAIN older = 1 .. low - before
        /\ \A i \in 1 .. low - before : older[i] = low - i
    BY <1>2, <2>1, DownIs
  <2>3. ASSUME NEW r \in Range(out) PROVE r >= low
    <3>1. PICK j \in DOMAIN out : r = out[j]
      BY DEF Range
    <3>2. j \in 1 .. over /\ r = (low + over) - j
      BY <1>13, <2>1, <3>1, DownIs
    <3> QED BY <2>1, <3>2
  <2>4. \A i \in DOMAIN older : older[i] \notin Range(out)
    <3> SUFFICES ASSUME NEW i \in 1 .. low - before, older[i] \in Range(out) PROVE FALSE
      BY <2>2
    <3>1. older[i] >= low /\ older[i] = low - i
      BY <2>2, <2>3
    <3> QED BY <2>1, <3>1
  <2>5. Without(older, Range(out)) = older
    BY <2>2, <2>4, WithoutNothing
  <2>6. (low + over) - over = low /\ over + (low - before) = (low + over) - before
    BY <1>2, <1>12
  <2>7. Down(low + over, over) \o Down((low + over) - over, low - before) = Down(low + over, over + (low - before))
    BY <2>1, DownJoins
  <2> QED BY <1>2, <1>11, <1>13, <2>5, <2>6, <2>7
<1>16. PICK w : w = SubSeq(all, over + 1, Len(all))
  OBVIOUS
<1>17. w \in Seq(Nat) /\ w = Recent(n, Window)
  <2>1. n + 1 - (low + over) \in Nat /\ \A i \in 1 .. n + 1 - (low + over) : (low + over) + i - 1 \in Nat
    BY <1>2, <1>4, <1>12
  <2>2. w = [i \in 1 .. n + 1 - (low + over) |-> (low + over) + i - 1]
    BY <1>14, <1>16 DEF Up
  <2>3. w \in Seq(Nat)
    BY <2>1, <2>2
  <2>4. Recent(n, Window) = Up(Low(n), n + 1 - Low(n))
    BY <1>4, WindowIs
  <2> QED BY <1>12, <1>14, <1>16, <2>3, <2>4
<1>18. replay'.total = n /\ replay'.window = w /\ replay'.id = replay.id
  BY <1>2, <1>11, <1>16 DEF Installed
<1>19. before <= low + over
  BY <1>2, <1>12
<1>20. ShowsFrom(n, before, h)'
  <2>1. older' = Down(Low(n), Low(n) - before)
    BY <1>12, <1>15
  <2>2. \/ cursor' = before
        \/ cursor' = None /\ (before = 1 \/ replay'.made = "mixed" \/ Gone(h, replay'.id))
    BY <1>1, <1>11, <1>18 DEF ShowsFrom
  <2> QED BY <1>17, <1>18, <2>1, <2>2 DEF ShowsFrom
<1>21. before \in 1 .. Low(n)
  BY <1>2, <1>12, <1>19
<1> QED BY <1>1, <1>3, <1>20, <1>21

\* An update is merged: the view stays right.
LEMMA MergeKeeps ==
    ASSUME NEW h, ViewOK(h), replay # None, NEW x, UpdateOK(x, h), Follows(x), Merge(x)
    PROVE  /\ ViewOK(h)' /\ UNCHANGED <<cursor, loading, loads>> /\ replay' # None
           /\ replay'.id = replay.id /\ replay'.revision = replay.revision + 1
<1>1. /\ replay' # None /\ replay' \in Installed /\ UNCHANGED <<saved, cursor, loading, loads>>
      /\ replay'.id = replay.id /\ replay'.revision = replay.revision + 1
      /\ replay'.total = x.total /\ Held(h, replay'.id, replay'.revision, replay'.total)
      /\ replay'.made = (IF replay.made = "whole" THEN "whole" ELSE "merged")
      /\ Len(replay'.window) <= Window
  BY MergedIs
<1>2. x.total \in Nat /\ replay.total \in Nat
  BY DEF UpdateOK, Updates, ViewOK, Installed
<1>3. CASE replay.made = "whole"
  <2>1. PICK n \in Nat : \E first \in 1 .. Low(n) : ShowsFrom(n, first, h)
    BY <1>3 DEF ViewOK
  <2>2. PICK first \in 1 .. Low(n) : ShowsFrom(n, first, h)
    BY <2>1
  <2>3. n = replay.total
    BY <1>3, <2>2 DEF ShowsFrom
  <2>4. first \in 1 .. Low(x.total) /\ ShowsFrom(x.total, first, h)'
    BY <1>3, <2>2, <2>3, MergeShows
  <2>5. replay'.window = Recent(x.total, Window)
    BY <2>4 DEF ShowsFrom
  <2>6. StateOK(replay', h)
    BY <1>1, <1>3, <2>5 DEF StateOK, Held
  <2> QED BY <1>1, <1>2, <2>4, <2>6 DEF ViewOK
<1>4. CASE replay.made # "whole"
  <2>1. replay'.made = "merged"
    BY <1>1, <1>4
  <2>2. StateOK(replay', h)
    BY <1>1, <2>1 DEF StateOK, Held
  <2> QED BY <1>1, <2>1, <2>2 DEF ViewOK
<1> QED BY <1>1, <1>3, <1>4

\* A page that is current goes below the older records.
LEMMA PageShows ==
    ASSUME NEW h, replay # None, cursor \in Nat \ {0}, NEW x, x = PageOf(cursor), replay' = replay,
           NEW n \in Nat, NEW first \in 1 .. Low(n), ShowsFrom(n, first, h),
           older' = older \o Without(x.items, Range(replay.window) \cup Range(older)),
           cursor' = x.next
    PROVE  \E below \in 1 .. Low(n) : ShowsFrom(n, below, h)'
<1>1. PICK low, total, at : low = Low(n) /\ total = n /\ at = cursor
  OBVIOUS
<1>2. /\ total \in Nat /\ low \in Nat \ {0} /\ low <= total + 1
      /\ replay.window = Up(low, total + 1 - low)
      /\ at \in Nat \ {0} /\ at <= low /\ older = Down(low, low - at)
  <2>1. first = at
    BY <1>1, ClientAssumption DEF ShowsFrom
  <2> QED BY <1>1, <2>1, ShownIs
<1>3. PICK k \in Nat : /\ k < at /\ x.items = Down(at, k)
                       /\ \/ x.next = None /\ k = at - 1
                          \/ x.next = at - k /\ at - k \in Nat \ {0}
  BY <1>1, <1>2, PageIs
<1>4. /\ x.items \in Seq(Int) /\ DOMAIN x.items = 1 .. k /\ \A i \in 1 .. k : x.items[i] = at - i
  <2>1. at \in Int
    BY <1>2
  <2> QED BY <1>3, <2>1, DownIs
<1>5. ASSUME NEW r \in Range(replay.window) PROVE r >= at
  <2>1. PICK j \in DOMAIN replay.window : r = replay.window[j]
    BY DEF Range
  <2>2. PICK width : width = total + 1 - low
    OBVIOUS
  <2>3. low \in Int /\ width \in Nat /\ replay.window = Up(low, width)
    BY <1>2, <2>2
  <2>4. j \in 1 .. width /\ r = low + j - 1
    BY ONLY <2>1, <2>3, UpIs
  <2> QED BY <1>2, <2>2, <2>4
<1>6. ASSUME NEW r \in Range(older) PROVE r >= at
  <2>1. PICK j \in DOMAIN older : r = older[j]
    BY DEF Range
  <2>2. low \in Int /\ low - at \in Nat
    BY <1>2
  <2>3. j \in 1 .. low - at /\ r = low - j
    BY <1>2, <2>1, <2>2, DownIs
  <2> QED BY <1>2, <2>3
<1>7. Without(x.items, Range(replay.window) \cup Range(older)) = x.items
  <2>1. ASSUME NEW i \in DOMAIN x.items PROVE x.items[i] \notin Range(replay.window) \cup Range(older)
    <3>1. i \in 1 .. k /\ x.items[i] = at - i
      BY <1>4
    <3>2. ~(x.items[i] >= at)
      BY <1>2, <1>3, <3>1
    <3> QED BY <1>5, <1>6, <3>2
  <2> QED BY <1>4, <2>1, WithoutNothing
<1>8. older' = Down(low, low - (at - k))
  <2>1. low \in Int /\ low - at \in Nat /\ low - (low - at) = at /\ (low - at) + k = low - (at - k)
    BY <1>2, <1>3
  <2>2. Down(low, low - at) \o Down(low - (low - at), k) = Down(low, (low - at) + k)
    BY <2>1, DownJoins
  <2> QED BY <1>2, <1>3, <1>7, <2>1, <2>2
<1>9. at - k \in 1 .. low
  BY <1>2, <1>3
<1>10. ShowsFrom(n, at - k, h)'
  <2>1. older' = Down(Low(n), Low(n) - (at - k))
    BY <1>1, <1>8
  <2>2. cursor' = at - k \/ (cursor' = None /\ at - k = 1)
    BY <1>2, <1>3
  <2>3. replay.window = Recent(n, Window) /\ (replay.made = "whole" => n = replay.total)
    BY DEF ShowsFrom
  <2> QED BY <2>1, <2>2, <2>3 DEF ShowsFrom
<1> QED BY <1>1, <1>9, <1>10

\* Nothing is left of nothing.
LEMMA WithoutAny ==
    ASSUME NEW S
    PROVE  Without(<< >>, S) = << >>
<1>1. << >> \in Seq(Nat) /\ DOMAIN << >> = {}
  OBVIOUS
<1> QED BY <1>1, WithoutNothing

\* A page that is current keeps the view right; one that finds nothing, since the
\* session is gone, ends the history where it is.
LEMMA PageKeeps ==
    ASSUME NEW h, ViewOK(h), replay # None, cursor # None, NEW x,
           x = PageOf(cursor) \/ (x = EmptyPage /\ Gone(h, replay.id)),
           UNCHANGED <<saved, replay, loads>>,
           older' = older \o Without(x.items, Range(replay.window) \cup Range(older)),
           cursor' = x.next
    PROVE  ViewOK(h)'
<1>1. cursor \in Nat \ {0}
  BY DEF ViewOK
<1>2. cursor' \in (Nat \ {0}) \cup {None}
  <2>1. CASE x = PageOf(cursor)
    BY <1>1, <2>1, PageIs
  <2>2. CASE x = EmptyPage
    BY <2>2 DEF EmptyPage
  <2> QED BY <2>1, <2>2
<1>3. ASSUME replay.made # "merged"
      PROVE  \E n \in Nat : \E first \in 1 .. Low(n) : ShowsFrom(n, first, h)'
  <2>1. PICK n \in Nat : \E first \in 1 .. Low(n) : ShowsFrom(n, first, h)
    BY <1>3 DEF ViewOK
  <2>2. PICK first \in 1 .. Low(n) : ShowsFrom(n, first, h)
    BY <2>1
  <2>3. CASE x = PageOf(cursor)
    BY <1>1, <2>2, <2>3, PageShows
  <2>4. CASE x = EmptyPage /\ Gone(h, replay.id)
    <3>1. x.items = << >> /\ x.next = None
      BY <2>4 DEF EmptyPage
    <3>2. older \in Seq(Int)
      <4>1. PICK low, more : low = Low(n) /\ more = low - first
        OBVIOUS
      <4>2. low \in Int /\ more \in Nat
        <5>1. Low(n) \in Nat \ {0}
          BY WindowIs
        <5>2. first \in 1 .. low
          BY <4>1
        <5> QED BY ONLY <4>1, <5>1, <5>2
      <4>3. older = Down(low, more)
        BY <2>2, <4>1 DEF ShowsFrom
      <4> QED BY ONLY <4>2, <4>3, DownIs
    <3>3. older' = older
      <4>1. Without(x.items, Range(replay.window) \cup Range(older)) = << >>
        BY <3>1, WithoutAny
      <4> QED BY <3>2, <4>1, ConcatEmptySeq
    <3>4. ShowsFrom(n, first, h)'
      BY <2>2, <2>4, <3>1, <3>3 DEF ShowsFrom
    <3> QED BY <2>2, <3>4
  <2> QED BY <2>3, <2>4
<1> QED BY <1>2, <1>3 DEF ViewOK

\* Nothing is shown otherwise: the view stays right.
LEMMA ViewSame ==
    ASSUME NEW h, ViewOK(h), replay' = replay, older' = older, cursor' = cursor,
           loads' = loads \/ loads' \in Nat, saved' = saved \/ saved' \in Sessions \cup {None}
    PROVE  ViewOK(h)'
<1>1. \A n, first : ShowsFrom(n, first, h) => ShowsFrom(n, first, h)'
  BY DEF ShowsFrom
<1> QED BY <1>1 DEF ViewOK
-----------------------------------------------------------------------------
(* Calls under way *)

\* The row that was read stays read.
LEMMA RowStays ==
    ASSUME NEW h, NEW h2, Longer(h, h2), NEW c, c.session \in Sessions, RowOK(c, h)
    PROVE  RowOK(c, h2)
BY DEF RowOK, Longer

\* A page that is current is one of what is shown.
Followed(c) ==
    c.kind = "page" /\ c.generation = loads /\ loads' = loads
      => cursor' = cursor /\ replay' # None /\ replay'.id = replay.id

\* A call stays what it is while the store goes on, unless it is the page that is
\* current.
LEMMA CallStays ==
    ASSUME NEW h, NEW h2, Longer(h, h2), NEW c, CallOK(c, h), loads \in Nat, loads' \in Nat, loads <= loads',
           Followed(c)
    PROVE  CallOK(c, h2)'
<1>1. c \in CallRecords /\ ReplyOK(c, h2) /\ RowOK(c, h2)
  <2>1. c \in CallRecords /\ c.session \in Sessions /\ ReplyOK(c, h) /\ RowOK(c, h)
    BY DEF CallOK, CallRecords
  <2> QED BY <2>1, ReplyStays, RowStays
<1>2. ASSUME c.kind = "page"
      PROVE  /\ c.generation \in Nat /\ c.generation <= loads' /\ c.at \in Nat \ {0}
             /\ c.generation = loads' => replay' # None /\ c.at = cursor' /\ c.session = replay'.id
  <2>1. /\ c.generation \in Nat /\ c.generation <= loads /\ c.at \in Nat \ {0}
        /\ c.generation = loads => replay # None /\ c.at = cursor /\ c.session = replay.id
    BY <1>2 DEF CallOK
  <2>2. c.generation = loads' => c.generation = loads /\ loads' = loads
    BY <2>1
  <2> QED BY <1>2, <2>1, <2>2 DEF Followed
<1> QED BY <1>1, <1>2 DEF CallOK

\* Nothing is lost by looking at the same history.
LEMMA LongerItself ==
    ASSUME NEW h
    PROVE  Longer(h, h)
BY DEF Longer

\* Calls end, and calls that ask for no page begin.
LEMMA CallsGoOn ==
    ASSUME NEW h, CallsOK(h), \A e \in calls' : e \in calls \/ (e.kind # "page" /\ CallOK(e, h)'),
           loads \in Nat, loads' \in Nat, loads <= loads',
           \A c \in calls \cap calls' : Followed(c)
    PROVE  CallsOK(h)'
<1>1. ASSUME NEW c \in calls' PROVE CallOK(c, h)'
  <2>1. CASE c \in calls
    <3>1. CallOK(c, h) /\ Longer(h, h)
      BY <2>1, LongerItself DEF CallsOK
    <3>2. Followed(c)
      BY <1>1, <2>1
    <3> QED BY <3>1, <3>2, CallStays
  <2>2. CASE c \notin calls
    BY <2>2
  <2> QED BY <1>1, <2>1, <2>2
<1>2. ASSUME NEW c \in calls', NEW d \in calls', c.kind = "page", d.kind = "page", c.generation = d.generation
      PROVE  c = d
  BY <1>2 DEF CallsOK
<1> QED BY <1>1, <1>2 DEF CallsOK

\* A new call without an answer.
LEMMA CallIs ==
    ASSUME NEW kind \in {"open", "restore", "refresh", "mutate", "page"}, NEW s \in Sessions,
           NEW generation, generation \in Nat \/ generation = None, NEW at, at \in Nat \/ at = None
    PROVE  /\ Call(kind, s, generation, at) \in CallRecords
           /\ Call(kind, s, generation, at).kind = kind
           /\ Call(kind, s, generation, at).generation = generation
           /\ Call(kind, s, generation, at).at = at /\ Call(kind, s, generation, at).session = s
           /\ Call(kind, s, generation, at).row = None /\ Call(kind, s, generation, at).reply = None
BY DEF Call, CallRecords

\* It is sound whatever the server holds.
LEMMA NewCallIs ==
    ASSUME NEW kind \in {"open", "restore", "refresh", "mutate", "page"}, NEW s \in Sessions,
           NEW generation, generation \in Nat \/ generation = None, NEW at, at \in Nat \/ at = None,
           NEW e, e = Call(kind, s, generation, at), NEW h
    PROVE  /\ e \in CallRecords /\ ReplyOK(e, h) /\ RowOK(e, h)
           /\ e.kind = kind /\ e.generation = generation /\ e.at = at /\ e.session = s
<1>1. /\ e \in CallRecords /\ e.kind = kind /\ e.generation = generation /\ e.at = at
      /\ e.session = s /\ e.row = None /\ e.reply = None
  BY CallIs
<1> QED BY <1>1 DEF ReplyOK, RowOK

\* The server goes on with a call and nothing else happens in the browser.
LEMMA CallMoves ==
    ASSUME SpinnersOK, NEW h \in Histories, ViewOK(h), CallsOK(h),
           NEW h2 \in Histories, Longer(h, h2), ServerOK(h2)',
           NEW c \in calls, NEW e \in CallRecords, calls' = (calls \ {c}) \cup {e},
           e.kind = c.kind, e.generation = c.generation, e.at = c.at, e.session = c.session,
           ReplyOK(e, h2), RowOK(e, h2),
           UNCHANGED <<saved, view, busy, restoring, actions, loads>>
    PROVE  ClientInv'
<1>2. /\ saved' = saved /\ replay' = replay /\ older' = older /\ cursor' = cursor /\ loading' = loading
      /\ busy' = busy /\ restoring' = restoring /\ actions' = actions /\ loads' = loads
  BY DEF view
<1>3. loads \in Nat /\ saved \in Sessions \cup {None}
  BY DEF ViewOK
<1>4. CallOK(c, h)
  BY DEF CallsOK
<1>7. CallOK(e, h2)'
  BY <1>2, <1>4 DEF CallOK
<1>8. CallsOK(h2)'
  <2>1. ASSUME NEW d \in calls' PROVE CallOK(d, h2)'
    <3>1. CASE d \in calls
      <4>1. CallOK(d, h)
        BY <3>1 DEF CallsOK
      <4>2. Followed(d)
        BY <1>2, <4>1 DEF CallOK, Followed
      <4> QED BY <1>2, <1>3, <4>1, <4>2, CallStays
    <3> QED BY <1>7, <3>1
  <2>2. ASSUME NEW d \in calls', NEW f \in calls', d.kind = "page", f.kind = "page",
               d.generation = f.generation
        PROVE  d = f
    BY <2>2 DEF CallsOK
  <2> QED BY <2>1, <2>2 DEF CallsOK
<1>9. ViewOK(h2)'
  <2>1. ViewOK(h2)
    BY ViewStays
  <2> QED BY <1>2, <1>3, <2>1, ViewSame
<1>10. SpinnersOK'
  <2>1. \A d \in calls : \E f \in calls' : f.kind = d.kind /\ f.generation = d.generation
    OBVIOUS
  <2>2. ASSUME NEW d \in calls', d.kind = "restore" PROVE restoring' /\ replay' = None /\ calls' = {d}
    <3>1. PICK f \in calls : f.kind = "restore" /\ (d = f \/ (d = e /\ f = c))
      BY <2>2
    <3>2. restoring /\ replay = None /\ calls = {f}
      BY <3>1 DEF SpinnersOK
    <3> QED BY <1>2, <2>2, <3>1, <3>2
  <2> QED BY <1>2, <2>1, <2>2 DEF SpinnersOK
<1> QED BY <1>8, <1>9, <1>10 DEF ClientInv

\* A call is answered, by a server that may have changed with it.
LEMMA AnsweredKeeps ==
    ASSUME SpinnersOK, NEW h \in Histories, ViewOK(h), CallsOK(h),
           NEW h2 \in Histories, Longer(h, h2), ServerOK(h2)',
           NEW c \in calls, NEW reply \in Replies, Answered(c, reply),
           \/ reply \in [type : Failures]
           \/ c.kind \in {"open", "restore", "refresh"} /\ SnapshotOK(reply, h2)
           \/ c.kind = "mutate" /\ UpdateOK(reply, h2)
           \/ c.kind = "page" /\ (reply = PageOf(c.at) \/ (reply = EmptyPage /\ Gone(h2, c.session))),
           UNCHANGED <<saved, view, busy, restoring, actions, loads>>
    PROVE  ClientInv'
<1>1. PICK e : e = [c EXCEPT !.reply = reply]
  OBVIOUS
<1>2. calls' = (calls \ {c}) \cup {e}
  BY <1>1 DEF Answered
<1>3. c \in CallRecords /\ c.session \in Sessions /\ RowOK(c, h)
  BY DEF CallsOK, CallOK, CallRecords
<1>4. /\ e \in CallRecords /\ e.kind = c.kind /\ e.generation = c.generation /\ e.at = c.at
      /\ e.session = c.session /\ e.row = c.row /\ e.reply = reply
  BY <1>1, <1>3 DEF CallRecords
<1>5. ReplyOK(e, h2)
  BY <1>4 DEF ReplyOK, PageOK
<1>6. RowOK(e, h2)
  <2>1. RowOK(c, h2)
    BY <1>3, RowStays
  <2> QED BY <1>4, <2>1 DEF RowOK
<1> QED BY <1>2, <1>4, <1>5, <1>6, CallMoves

-----------------------------------------------------------------------------
(* Steps *)

\* The page is loaded, and the session that was left there is restored.
LEMMA RestoreKeeps ==
    ASSUME ClientInv, RestoreSavedSession
    PROVE  ClientInv'
<1>1. PICK h \in Histories : ServerOK(h) /\ ViewOK(h) /\ CallsOK(h)
  BY DEF ClientInv
<1>2. PICK e : e = Call("restore", saved, None, None)
  OBVIOUS
<1>3. /\ saved # None /\ replay = None /\ calls = {} /\ calls' = calls \cup {e} /\ restoring' = TRUE
      /\ server' = server /\ saved' = saved /\ replay' = replay /\ older' = older /\ cursor' = cursor
      /\ loading' = loading /\ busy' = busy /\ actions' = actions /\ loads' = loads
  BY <1>2 DEF RestoreSavedSession, Begin, view
<1>4. saved \in Sessions /\ loads \in Nat
  BY <1>1, <1>3 DEF ViewOK
<1>5. e \in CallRecords /\ ReplyOK(e, h) /\ RowOK(e, h) /\ e.kind = "restore"
  <2>1. PICK s \in Sessions : s = saved
    BY <1>4
  <2>2. e = Call("restore", s, None, None)
    BY <1>2, <2>1
  <2> QED BY ONLY <2>1, <2>2, NewCallIs
<1>6. CallOK(e, h)'
  BY <1>5 DEF CallOK
<1>7. CallsOK(h)'
  <2>1. \A c \in calls : c.kind = "page" /\ c.generation = loads => replay # None
    BY <1>1 DEF CallsOK, CallOK
  <2>2. \A d \in calls' : d \in calls \/ (d.kind # "page" /\ CallOK(d, h)')
    BY <1>3, <1>5, <1>6
  <2>3. \A c \in calls \cap calls' : Followed(c)
    BY <1>3, <2>1 DEF Followed
  <2>4. loads' \in Nat /\ loads <= loads'
    BY <1>3, <1>4
  <2> QED BY <1>1, <1>4, <2>2, <2>3, <2>4, CallsGoOn
<1>8. ServerOK(h)' /\ ViewOK(h)'
  BY <1>1, <1>3, ViewSame DEF ServerOK
<1>9. SpinnersOK'
  BY <1>3, <1>5 DEF ClientInv, SpinnersOK
<1> QED BY <1>7, <1>8, <1>9 DEF ClientInv

\* The user opens a session or changes the one shown.
LEMMA ActionKeeps ==
    ASSUME ClientInv, NEW kind \in {"open", "mutate"}, NEW s \in Sessions, Action(kind, s)
    PROVE  ClientInv'
<1>1. PICK h \in Histories : ServerOK(h) /\ ViewOK(h) /\ CallsOK(h)
  BY DEF ClientInv
<1>2. PICK e : e = Call(kind, s, actions + 1, None)
  OBVIOUS
<1>3. /\ ~restoring /\ calls' = calls \cup {e} /\ actions' = actions + 1 /\ busy' = TRUE
      /\ server' = server /\ saved' = saved /\ replay' = replay /\ older' = older /\ cursor' = cursor
      /\ loading' = loading /\ restoring' = restoring /\ loads' = loads
  BY <1>2 DEF Action, Begin, view
<1>4. actions \in Nat /\ actions + 1 \in Nat /\ loads \in Nat
  BY <1>1 DEF ViewOK, ClientInv, SpinnersOK
<1>5. e \in CallRecords /\ ReplyOK(e, h) /\ RowOK(e, h) /\ e.kind = kind /\ e.generation = actions + 1
  <2>1. PICK generation \in Nat : generation = actions + 1
    BY <1>4
  <2>2. e = Call(kind, s, generation, None)
    BY <1>2, <2>1
  <2>3. kind \in {"open", "restore", "refresh", "mutate", "page"}
    OBVIOUS
  <2>4. e \in CallRecords /\ ReplyOK(e, h) /\ RowOK(e, h) /\ e.kind = kind /\ e.generation = generation
    BY ONLY <2>1, <2>2, <2>3, s \in Sessions, NewCallIs
  <2> QED BY <2>1, <2>4
<1>6. CallOK(e, h)'
  BY <1>5 DEF CallOK
<1>7. CallsOK(h)'
  <2>1. \A c \in calls : c.kind = "page" /\ c.generation = loads => replay # None
    BY <1>1 DEF CallsOK, CallOK
  <2>2. \A d \in calls' : d \in calls \/ (d.kind # "page" /\ CallOK(d, h)')
    BY <1>3, <1>5, <1>6
  <2>3. \A c \in calls \cap calls' : Followed(c)
    BY <1>3, <2>1 DEF Followed
  <2>4. loads' \in Nat /\ loads <= loads'
    BY <1>3, <1>4
  <2> QED BY <1>1, <1>4, <2>2, <2>3, <2>4, CallsGoOn
<1>8. ServerOK(h)' /\ ViewOK(h)'
  BY <1>1, <1>3, ViewSame DEF ServerOK
<1>9. SpinnersOK'
  <2>1. \E c \in calls' : c.kind \in {"open", "mutate", "refresh"} /\ c.generation = actions'
    BY <1>3, <1>5
  <2>2. \A c \in calls' : c.kind # "restore"
    BY <1>3, <1>5 DEF ClientInv, SpinnersOK
  <2> QED BY <1>3, <1>4, <2>1, <2>2 DEF ClientInv, SpinnersOK
<1> QED BY <1>7, <1>8, <1>9 DEF ClientInv

\* A page of older records is asked for.
LEMMA LoadKeeps ==
    ASSUME ClientInv, LoadOlder
    PROVE  ClientInv'
<1>1. PICK h \in Histories : ServerOK(h) /\ ViewOK(h) /\ CallsOK(h)
  BY DEF ClientInv
<1>2. PICK e : e = Call("page", replay.id, loads + 1, cursor)
  OBVIOUS
<1>3. /\ ~restoring /\ replay # None /\ cursor # None /\ calls' = calls \cup {e} /\ loads' = loads + 1 /\ loading' = TRUE
      /\ server' = server /\ saved' = saved /\ replay' = replay /\ older' = older /\ cursor' = cursor
      /\ busy' = busy /\ actions' = actions /\ restoring' = restoring
  BY <1>2 DEF LoadOlder, Begin
<1>4. loads \in Nat /\ loads + 1 \in Nat /\ replay.id \in Sessions /\ cursor \in Nat \ {0}
  BY <1>1, <1>3 DEF ViewOK, Installed
<1>5. e \in CallRecords /\ ReplyOK(e, h) /\ RowOK(e, h) /\ e.kind = "page" /\ e.generation = loads + 1 /\ e.at = cursor /\ e.session = replay.id
  <2>1. PICK s \in Sessions, generation \in Nat, at \in Nat :
           s = replay.id /\ generation = loads + 1 /\ at = cursor
    BY <1>4
  <2>2. e = Call("page", s, generation, at)
    BY <1>2, <2>1
  <2>3. e \in CallRecords /\ ReplyOK(e, h) /\ RowOK(e, h) /\ e.kind = "page" /\ e.generation = generation /\ e.at = at /\ e.session = s
    BY ONLY <2>1, <2>2, NewCallIs
  <2> QED BY <2>1, <2>3
<1>6. CallOK(e, h)'
  BY <1>3, <1>4, <1>5 DEF CallOK
<1>7. CallsOK(h)'
  <2>1. ASSUME NEW c \in calls PROVE CallOK(c, h)' /\ (c.kind = "page" => c.generation # e.generation)
    <3>1. CallOK(c, h) /\ Longer(h, h)
      BY <1>1, LongerItself DEF CallsOK
    <3>2. c.kind = "page" => c.generation \in Nat /\ c.generation <= loads
      BY <3>1 DEF CallOK
    <3>3. loads <= loads' /\ loads' \in Nat /\ loads' # loads
      BY <1>3, <1>4
    <3>4. CallOK(c, h)'
      <4>1. Followed(c)
        BY <3>3 DEF Followed
      <4> QED BY <1>4, <3>1, <3>3, <4>1, CallStays
    <3> QED BY <1>4, <1>5, <3>2, <3>4
  <2>2. ASSUME NEW c \in calls' PROVE CallOK(c, h)'
    BY <1>3, <1>6, <2>1
  <2>3. ASSUME NEW c \in calls', NEW d \in calls', c.kind = "page", d.kind = "page",
               c.generation = d.generation
        PROVE  c = d
    BY <1>1, <1>3, <2>1, <2>3 DEF CallsOK
  <2> QED BY <2>2, <2>3 DEF CallsOK
<1>8. ServerOK(h)' /\ ViewOK(h)'
  BY <1>1, <1>3, <1>4, ViewSame DEF ServerOK
<1>9. SpinnersOK'
  <2>1. \E c \in calls' : c.kind = "page" /\ c.generation = loads'
    BY <1>3, <1>5
  <2>2. \A c \in calls' : c.kind # "restore"
    BY <1>3, <1>5 DEF ClientInv, SpinnersOK
  <2> QED BY <1>3, <2>1, <2>2 DEF ClientInv, SpinnersOK
<1> QED BY <1>7, <1>8, <1>9 DEF ClientInv

\* The session is left: what is under way for it becomes old.
LEMMA LeaveKeeps ==
    ASSUME ClientInv, Leave
    PROVE  ClientInv'
<1>1. PICK h \in Histories : ServerOK(h) /\ ViewOK(h) /\ CallsOK(h)
  BY DEF ClientInv
<1>2. /\ loads \in Nat /\ actions \in Nat
      /\ loads' = loads + 1 /\ actions' = actions + 1 /\ server' = server /\ calls' = calls
  BY <1>1 DEF ViewOK, ClientInv, SpinnersOK, Leave
<1>3. CallsOK(h)'
  <2>1. loads' \in Nat /\ loads <= loads' /\ loads' # loads
    BY <1>2
  <2>2. \A c \in calls' : c \in calls /\ Followed(c)
    BY <1>2, <2>1 DEF Followed
  <2> QED BY <1>1, <1>2, <2>1, <2>2, CallsGoOn
<1>4. ServerOK(h)'
  BY <1>1, <1>2 DEF ServerOK
<1>5. ViewOK(h)'
  BY <1>2 DEF Leave, ViewOK
<1>6. SpinnersOK'
  <2>1. busy' = FALSE /\ loading' = FALSE /\ restoring' = restoring /\ ~restoring
    BY DEF Leave
  <2>2. restoring \in BOOLEAN /\ actions' \in Nat
    BY <1>2 DEF ClientInv, SpinnersOK
  <2>3. \A c \in calls' : c.kind # "restore"
    BY <1>2, <2>1 DEF ClientInv, SpinnersOK
  <2> QED BY <2>1, <2>2, <2>3 DEF SpinnersOK
<1> QED BY <1>3, <1>4, <1>5, <1>6 DEF ClientInv

\* The server changes or loses a session behind this tab's back.
LEMMA ElsewhereKeeps ==
    ASSUME ClientInv, NEW s \in Sessions, MutateElsewhere(s) \/ DeleteElsewhere(s)
    PROVE  ClientInv'
<1>1. PICK h \in Histories : ServerOK(h) /\ ViewOK(h) /\ CallsOK(h)
  BY DEF ClientInv
<1>2. /\ saved' = saved /\ replay' = replay /\ older' = older /\ cursor' = cursor /\ loading' = loading
      /\ busy' = busy /\ restoring' = restoring /\ actions' = actions /\ loads' = loads /\ calls' = calls
  BY DEF MutateElsewhere, DeleteElsewhere, view
<1>3. loads \in Nat /\ saved \in Sessions \cup {None}
  BY <1>1 DEF ViewOK
<1>4. PICK h2 \in Histories : Longer(h, h2) /\ ServerOK(h2)'
  <2>1. CASE MutateElsewhere(s)
    <3>1. PICK n \in Batches : server' = Mutated(s, n)
      BY <2>1 DEF MutateElsewhere
    <3>2. n \in Nat /\ ~Deleted(s)
      BY <2>1, ClientAssumption DEF MutateElsewhere, CanMutate
    <3>3. RecordsOf(s) \in Nat
      BY <1>1, <3>2, AliveIs
    <3>4. PICK m \in Nat : m = RecordsOf(s) + n
      BY <3>2, <3>3
    <3>5. server' = [server EXCEPT ![s] = Append(@, m)]
      BY <3>1, <3>4 DEF Mutated
    <3> QED BY <1>1, <3>2, <3>4, <3>5, HistoryGrows
  <2>2. CASE DeleteElsewhere(s)
    BY <1>1, <2>2, HistoryGrows DEF DeleteElsewhere
  <2> QED BY <2>1, <2>2
<1>5. ViewOK(h2)'
  <2>1. ViewOK(h2)
    BY <1>1, <1>4, ViewStays
  <2> QED BY <1>2, <1>3, <2>1, ViewSame
<1>6. CallsOK(h2)'
  <2>1. ASSUME NEW c \in calls PROVE CallOK(c, h2)'
    <3>1. CallOK(c, h)
      BY <1>1 DEF CallsOK
    <3>2. Followed(c)
      BY <1>2, <3>1 DEF CallOK, Followed
    <3> QED BY <1>2, <1>3, <1>4, <3>1, <3>2, CallStays
  <2> QED BY <1>1, <1>2, <2>1 DEF CallsOK
<1>7. SpinnersOK'
  BY <1>2 DEF ClientInv, SpinnersOK
<1> QED BY <1>4, <1>5, <1>6, <1>7 DEF ClientInv

\* Another tab writes the saved id: nothing shown or under way depends on it.
LEMMA SaveKeeps ==
    ASSUME ClientInv, SaveElsewhere
    PROVE  ClientInv'
<1>1. PICK h \in Histories : ServerOK(h) /\ ViewOK(h) /\ CallsOK(h)
  BY DEF ClientInv
<1>2. /\ saved' \in Sessions \cup {None} /\ server' = server /\ replay' = replay /\ older' = older
      /\ cursor' = cursor /\ loading' = loading /\ busy' = busy /\ restoring' = restoring
      /\ actions' = actions /\ loads' = loads /\ calls' = calls
  BY DEF SaveElsewhere, view
<1>3. loads' \in Nat
  BY <1>1, <1>2 DEF ViewOK
<1>4. ViewOK(h)'
  BY <1>1, <1>2, <1>3, ViewSame
<1>5. ServerOK(h)' /\ CallsOK(h)'
  BY <1>1, <1>2 DEF ServerOK, CallsOK, CallOK
<1>6. SpinnersOK'
  BY <1>2 DEF ClientInv, SpinnersOK
<1> QED BY <1>4, <1>5, <1>6 DEF ClientInv

\* The server reads the row of the session a call asks for.
LEMMA ReadKeeps ==
    ASSUME ClientInv, NEW c \in calls, ReadRow(c)
    PROVE  ClientInv'
<1>1. PICK h \in Histories : ServerOK(h) /\ ViewOK(h) /\ CallsOK(h)
  BY DEF ClientInv
<1>2. PICK row : row = Len(server[c.session])
  OBVIOUS
<1>3. PICK e : e = [c EXCEPT !.row = row]
  OBVIOUS
<1>4. /\ c.reply = None /\ c.kind \in Reads /\ ~Deleted(c.session)
      /\ calls' = (calls \ {c}) \cup {e} /\ server' = server
      /\ UNCHANGED <<saved, view, busy, restoring, actions, loads>>
  BY <1>2, <1>3 DEF ReadRow
<1>5. c \in CallRecords /\ c.session \in Sessions
  BY <1>1 DEF CallsOK, CallOK, CallRecords
<1>6. row \in Nat /\ row \in DOMAIN h[c.session] /\ h[c.session][row] \in Nat
  BY <1>1, <1>2, <1>4, <1>5, AliveIs
<1>7. /\ e \in CallRecords /\ e.kind = c.kind /\ e.generation = c.generation /\ e.at = c.at
      /\ e.session = c.session /\ e.row = row /\ e.reply = c.reply
  BY <1>3, <1>5, <1>6 DEF CallRecords
<1>8. ReplyOK(e, h) /\ RowOK(e, h)
  BY <1>4, <1>6, <1>7 DEF ReplyOK, RowOK
<1>9. ServerOK(h)' /\ Longer(h, h) /\ SpinnersOK
  BY <1>1, <1>4, LongerItself DEF ServerOK, ClientInv
<1> QED BY <1>1, <1>4, <1>7, <1>8, <1>9, CallMoves

\* The server answers, or the answer is lost.
LEMMA ServeKeeps ==
    ASSUME ClientInv, NEW c \in calls, Serve(c) \/ ServeConflict(c) \/ Lose(c)
    PROVE  ClientInv'
<1>1. PICK h \in Histories : ServerOK(h) /\ ViewOK(h) /\ CallsOK(h)
  BY DEF ClientInv
<1>2. SpinnersOK /\ UNCHANGED <<saved, view, busy, restoring, actions, loads>>
  BY DEF ClientInv, Serve, ServeConflict, Lose
<1>3. /\ c \in CallRecords /\ c.session \in Sessions /\ (c.kind = "page" => c.at \in Nat \ {0})
      /\ RowOK(c, h)
  BY <1>1 DEF CallsOK, CallOK, CallRecords
<1>4. Longer(h, h) /\ (server' = server => ServerOK(h)')
  BY <1>1, LongerItself DEF ServerOK
<1>5. ASSUME NEW type \in Failures, Answered(c, Failure(type)), server' = server PROVE ClientInv'
  <2>1. Failure(type) \in [type : Failures] /\ Failure(type) \in Replies
    BY DEF Failure, Replies
  <2> QED BY <1>1, <1>2, <1>4, <1>5, <2>1, AnsweredKeeps
<1>6. CASE ServeConflict(c) \/ Lose(c)
  BY <1>5, <1>6 DEF ServeConflict, Lose, Failures
<1>7. CASE Serve(c)
  <2> DEFINE s == c.session
             held == server[s]
  <2>1. CASE Answered(c, Failure("gone")) /\ server' = server
    BY <1>5, <2>1 DEF Failures
  <2>2. ASSUME c.row # None, c.kind # "page", server' = server,
               NEW fills \in c.row .. Len(held), NEW count \in fills .. Len(held),
               NEW window, window = Recent(Found(held[fills]), Window),
               NEW total \in Totals(held[c.row], Len(window), Found(held[count])),
               Answered(c, SnapshotOf(s, c.row, window, total))
        PROVE  ClientInv'
    <3>1. c.kind \in {"open", "restore", "refresh"} /\ c.row \in DOMAIN h[s] /\ h[s][c.row] \in Nat
      BY <1>3, <2>2 DEF RowOK, Reads
    <3>2. PICK t, row, x : t = s /\ row = c.row /\ x = SnapshotOf(t, row, window, total)
      OBVIOUS
    <3>3. SnapshotOK(SnapshotOf(t, row, window, total), h)
      <4>1. /\ t \in Sessions /\ row \in DOMAIN h[t] /\ h[t][row] \in Nat
            /\ fills \in row .. Len(server[t]) /\ count \in fills .. Len(server[t])
            /\ window = Recent(Found(server[t][fills]), Window)
            /\ total \in Totals(server[t][row], Len(window), Found(server[t][count]))
        BY <1>3, <2>2, <3>1, <3>2
      <4>2. h \in Histories /\ ServerOK(h)
        BY <1>1
      <4> QED BY ONLY <4>1, <4>2, SnapshotIs
    <3>4. x \in Replies /\ SnapshotOK(x, h)
      BY <3>2, <3>3 DEF SnapshotOK, Replies
    <3>5. Answered(c, x)
      BY <2>2, <3>2
    <3> QED BY <1>1, <1>2, <1>4, <2>2, <3>1, <3>4, <3>5, AnsweredKeeps
  <2>3. CASE c.kind = "page" /\ Answered(c, PageOf(c.at)) /\ server' = server
    <3>1. PageOf(c.at) \in Replies
      BY <1>3, <2>3, PageIs DEF Replies
    <3> QED BY <1>1, <1>2, <1>4, <2>3, <3>1, AnsweredKeeps
  <2>4. CASE c.kind = "page" /\ Deleted(s) /\ Answered(c, EmptyPage) /\ server' = server
    <3>1. EmptyPage \in Replies
      BY DEF EmptyPage, Pages, Replies
    <3>2. Gone(h, s)
      <4>1. Len(h[s]) \in DOMAIN h[s] /\ h[s][Len(h[s])] = None
        BY <1>1, <1>3, <2>4, AliveIs
      <4> QED BY <4>1 DEF Gone
    <3> QED BY <1>1, <1>2, <1>4, <2>4, <3>1, <3>2, AnsweredKeeps
  <2>5. ASSUME NEW n \in Batches, c.kind = "mutate", CanMutate(s),
               Answered(c, UpdateOf(s, n)), server' = Mutated(s, n)
        PROVE  ClientInv'
    <3>1. n \in Nat /\ ~Deleted(s)
      BY <2>5, ClientAssumption DEF CanMutate
    <3>2. PICK t : t = s
      OBVIOUS
    <3>3. RecordsOf(t) \in Nat /\ t \in Sessions
      BY <1>1, <1>3, <3>1, <3>2, AliveIs
    <3>4. PICK m \in Nat : m = RecordsOf(t) + n
      BY <3>1, <3>3
    <3>5. server' = [server EXCEPT ![t] = Append(@, m)]
      BY <2>5, <3>2, <3>4 DEF Mutated
    <3>6. PICK h2 \in Histories :
             /\ Longer(h, h2) /\ ServerOK(h2)'
             /\ Len(server[t]) \in Nat \ {0} /\ RecordsOf(t) \in Nat
             /\ Held(h2, t, Len(server[t]), RecordsOf(t)) /\ Held(h2, t, Len(server[t]) + 1, m)
      BY <1>1, <3>1, <3>2, <3>3, <3>4, <3>5, HistoryGrows
    <3>7. UpdateOK(UpdateOf(t, n), h2)
      BY <3>1, <3>3, <3>4, <3>6, UpdateIs
    <3>8. UpdateOf(t, n) \in Replies
      BY <3>7 DEF UpdateOK, Replies
    <3> QED BY <1>1, <1>2, <2>5, <3>2, <3>6, <3>7, <3>8, AnsweredKeeps
  <2>6. \/ Answered(c, Failure("gone")) /\ server' = server
        \/ /\ c.row # None /\ c.kind # "page" /\ server' = server
           /\ \E fills \in c.row .. Len(held) : \E count \in fills .. Len(held) :
                LET window == Recent(Found(held[fills]), Window)
                IN  \E total \in Totals(held[c.row], Len(window), Found(held[count])) :
                      Answered(c, SnapshotOf(s, c.row, window, total))
        \/ c.kind = "page" /\ Answered(c, PageOf(c.at)) /\ server' = server
        \/ c.kind = "page" /\ Deleted(s) /\ Answered(c, EmptyPage) /\ server' = server
        \/ /\ c.kind = "mutate" /\ CanMutate(s)
           /\ \E n \in Batches : Answered(c, UpdateOf(s, n)) /\ server' = Mutated(s, n)
    BY <1>7 DEF Serve
  <2> QED BY <2>1, <2>2, <2>3, <2>4, <2>5, <2>6
<1> QED BY <1>6, <1>7
-----------------------------------------------------------------------------
(* What the store does with an answer *)

\* What every answer that arrives keeps: the server and the calls that stay.
LEMMA ReceivedKeeps ==
    ASSUME NEW h \in Histories, ServerOK(h), CallsOK(h), ViewOK(h), server' = server,
           NEW c \in calls, \A e \in calls' : e \in calls \ {c} \/ (e.kind # "page" /\ CallOK(e, h)'),
           loads \in Nat, loads' \in Nat, loads <= loads',
           \/ loads' # loads
           \/ replay' # None /\ replay'.id = replay.id /\ cursor' = cursor
           \/ replay' = replay /\ cursor' = cursor
           \/ c.kind = "page" /\ c.generation = loads /\ replay' = replay
    PROVE  CallsOK(h)' /\ ServerOK(h)'
<1>1. \A e \in calls' : e \in calls \/ (e.kind # "page" /\ CallOK(e, h)')
  OBVIOUS
<1>2. ASSUME NEW d \in calls \cap calls', d.kind = "page", d.generation = loads, loads' = loads
      PROVE  cursor' = cursor /\ replay' # None /\ replay'.id = replay.id
  <2>1. CallOK(d, h) /\ replay # None
    BY <1>2 DEF CallsOK, CallOK
  <2>2. d # c
    BY <1>2
  <2>3. ~(c.kind = "page" /\ c.generation = loads)
    BY <1>2, <2>2 DEF CallsOK
  <2> QED BY <1>2, <2>1, <2>3
<1>3. \A d \in calls \cap calls' : Followed(d)
  BY <1>2 DEF Followed
<1>4. CallsOK(h)'
  BY <1>1, <1>3, CallsGoOn
<1> QED BY <1>4 DEF ServerOK

\* The answer for the session that was left there.
LEMMA RestoredKeeps ==
    ASSUME ClientInv, NEW c \in calls, Restored(c)
    PROVE  ClientInv'
<1>1. PICK h \in Histories : ServerOK(h) /\ ViewOK(h) /\ CallsOK(h)
  BY DEF ClientInv
<1>2. /\ Answers(c, {"restore"}, {"snapshot", "gone", "error"})
      /\ restoring' = FALSE /\ calls' = calls \ {c}
      /\ server' = server /\ busy' = busy /\ actions' = actions
  BY DEF Restored
<1>3. c.kind = "restore" /\ (c.reply.type = "snapshot" => SnapshotOK(c.reply, h)) /\ CallOK(c, h)
  <2>1. CallOK(c, h)
    BY <1>1 DEF CallsOK
  <2> QED BY <1>2, <2>1, AnswerIs
<1>4. \A e \in calls' : e \in calls \ {c} \/ (e.kind # "page" /\ CallOK(e, h)')
  BY <1>2
<1>5. loads \in Nat
  BY <1>1 DEF ViewOK
<1>6. CASE c.reply.type = "snapshot"
  <2>1. ViewOK(h)' /\ loading' = FALSE /\ loads' = loads + 1
    BY <1>1, <1>3, <1>6, InstallKeeps DEF Restored
  <2>2. loads' \in Nat /\ loads <= loads' /\ loads' # loads
    BY <1>5, <2>1
  <2>3. CallsOK(h)' /\ ServerOK(h)'
    BY <1>1, <1>2, <1>4, <1>5, <2>2, ReceivedKeeps
  <2>4. SpinnersOK'
    BY <1>2, <1>3, <2>1 DEF ClientInv, SpinnersOK
  <2> QED BY <2>1, <2>3, <2>4 DEF ClientInv
<1>7. CASE c.reply.type # "snapshot"
  <2>1. /\ saved' = IF c.reply.type = "gone" THEN None ELSE saved
        /\ replay' = replay /\ older' = older /\ cursor' = cursor /\ loading' = loading /\ loads' = loads
    BY <1>7 DEF Restored, view
  <2>2. CallsOK(h)' /\ ServerOK(h)'
    BY <1>1, <1>2, <1>4, <1>5, <2>1, ReceivedKeeps
  <2>3. replay = None /\ calls = {c}
    BY <1>3 DEF ClientInv, SpinnersOK
  <2>4. ViewOK(h)'
    BY <1>1, <2>1, <2>3 DEF ViewOK
  <2>5. SpinnersOK'
    <3>1. ~loading /\ ~busy
      BY <1>3, <2>3 DEF ClientInv, SpinnersOK
    <3> QED BY <1>2, <2>1, <2>3, <3>1 DEF ClientInv, SpinnersOK
  <2> QED BY <2>2, <2>4, <2>5 DEF ClientInv
<1> QED BY <1>6, <1>7

\* The spinners when call c ends that is not the restore: one that it served stops,
\* and those that others serve go on.
LEMMA SpinnersGoOn ==
    ASSUME SpinnersOK, NEW c \in calls, c.kind # "restore", restoring' = restoring, actions' = actions,
           \A d \in calls \ {c} : d \in calls', \A d \in calls' : d.kind # "restore" \/ d \in calls,
           busy' = FALSE \/ (busy' = busy /\ (c.generation # actions \/ c.kind = "page")),
           \/ loading' = FALSE
           \/ loading' = loading /\ loads' = loads /\ (c.kind # "page" \/ c.generation # loads)
    PROVE  SpinnersOK'
<1>1. ASSUME NEW d \in calls PROVE d.kind # "restore"
  BY DEF SpinnersOK
<1>2. \A d \in calls' : d.kind # "restore"
  BY <1>1
<1>3. ~restoring
  BY <1>1 DEF SpinnersOK
<1>4. busy' => \E d \in calls' : d.kind \in {"open", "mutate", "refresh"} /\ d.generation = actions'
  BY DEF SpinnersOK
<1>5. loading' => \E d \in calls' : d.kind = "page" /\ d.generation = loads'
  BY DEF SpinnersOK
<1> QED BY <1>2, <1>3, <1>4, <1>5 DEF SpinnersOK

\* An answer that nobody waits for any more.
LEMMA DroppedKeeps ==
    ASSUME ClientInv, NEW c \in calls, Dropped(c)
    PROVE  ClientInv'
<1>1. PICK h \in Histories : ServerOK(h) /\ ViewOK(h) /\ CallsOK(h)
  BY DEF ClientInv
<1>2. /\ Answers(c, {"open", "mutate"}, {"snapshot", "update"} \cup Failures)
      /\ c.generation # actions /\ calls' = calls \ {c}
      /\ server' = server /\ saved' = saved /\ replay' = replay /\ older' = older /\ cursor' = cursor
      /\ loading' = loading /\ busy' = busy /\ restoring' = restoring /\ actions' = actions /\ loads' = loads
  BY DEF Dropped, view
<1>3. c.kind \in {"open", "mutate"}
  BY <1>2 DEF Answers
<1>4. loads \in Nat /\ loads <= loads
  BY <1>1 DEF ViewOK
<1>5. CallsOK(h)' /\ ServerOK(h)'
  <2>1. \A e \in calls' : e \in calls \ {c} \/ (e.kind # "page" /\ CallOK(e, h)')
    BY <1>2
  <2> QED BY <1>1, <1>2, <1>4, <2>1, ReceivedKeeps
<1>6. ViewOK(h)'
  BY <1>1, <1>2, ViewSame
<1>7. SpinnersOK'
  BY <1>2, <1>3, SpinnersGoOn DEF ClientInv
<1> QED BY <1>5, <1>6, <1>7 DEF ClientInv

\* A snapshot is installed: of the session that was opened, or of a refresh.
LEMMA InstalledKeeps ==
    ASSUME ClientInv, NEW c \in calls, c.kind \in {"open", "refresh"},
           Answers(c, {"open", "refresh"}, {"snapshot"}), InstallSnapshot(c.reply), EndAction(c.generation),
           calls' = calls \ {c}, UNCHANGED <<server, restoring, actions>>
    PROVE  ClientInv'
<1>1. PICK h \in Histories : ServerOK(h) /\ ViewOK(h) /\ CallsOK(h)
  BY DEF ClientInv
<1>2. SnapshotOK(c.reply, h)
  <2>1. CallOK(c, h) /\ c.reply.type = "snapshot"
    BY <1>1 DEF CallsOK, Answers
  <2> QED BY <2>1, AnswerIs
<1>3. ViewOK(h)' /\ loading' = FALSE /\ loads' = loads + 1 /\ loads \in Nat
  BY <1>1, <1>2, InstallKeeps
<1>4. loads' \in Nat /\ loads <= loads' /\ loads' # loads
  BY <1>3
<1>5. \A e \in calls' : e \in calls \ {c} \/ (e.kind # "page" /\ CallOK(e, h)')
  OBVIOUS
<1>6. CallsOK(h)' /\ ServerOK(h)'
  BY <1>1, <1>3, <1>4, <1>5, ReceivedKeeps
<1>7. SpinnersOK'
  BY <1>3, SpinnersGoOn DEF EndAction, ClientInv
<1> QED BY <1>3, <1>6, <1>7 DEF ClientInv

\* An update of the session shown: known already, or the next one.
LEMMA AppliedKeeps ==
    ASSUME ClientInv, NEW c \in calls, Applied(c)
    PROVE  ClientInv'
<1>1. PICK h \in Histories : ServerOK(h) /\ ViewOK(h) /\ CallsOK(h)
  BY DEF ClientInv
<1>2. /\ Answers(c, {"mutate"}, {"update"}) /\ c.generation = actions /\ replay # None
      /\ EndAction(c.generation) /\ calls' = calls \ {c}
      /\ server' = server /\ restoring' = restoring /\ actions' = actions
      /\ \/ UNCHANGED <<saved, view, loads>>
         \/ Follows(c.reply) /\ Merge(c.reply)
  BY DEF Applied, Current
<1>3. UpdateOK(c.reply, h) /\ c.kind = "mutate"
  <2>1. CallOK(c, h) /\ c.reply.type = "update" /\ c.kind = "mutate"
    BY <1>1, <1>2 DEF CallsOK, Answers
  <2> QED BY <1>2, <2>1, AnswerIs
<1>4. ViewOK(h)' /\ cursor' = cursor /\ loading' = loading /\ loads' = loads /\ replay' # None /\ replay'.id = replay.id
  <2>1. CASE UNCHANGED <<saved, view, loads>>
    BY <1>1, <1>2, <2>1, ViewSame DEF view
  <2>2. CASE Follows(c.reply) /\ Merge(c.reply)
    BY <1>1, <1>2, <1>3, <2>2, MergeKeeps
  <2> QED BY <1>2, <2>1, <2>2
<1>5. CallsOK(h)' /\ ServerOK(h)'
  <2>1. \A e \in calls' : e \in calls \ {c} \/ (e.kind # "page" /\ CallOK(e, h)')
    BY <1>2
  <2>2. loads \in Nat /\ loads' \in Nat /\ loads <= loads'
    BY <1>1, <1>4 DEF ViewOK
  <2> QED BY <1>1, <1>2, <1>4, <2>1, <2>2, ReceivedKeeps
<1>6. SpinnersOK'
  BY <1>2, <1>3, <1>4, SpinnersGoOn DEF EndAction, ClientInv
<1> QED BY <1>4, <1>5, <1>6 DEF ClientInv

\* A gap: the action goes on with a refresh.
LEMMA GapKeeps ==
    ASSUME ClientInv, NEW c \in calls, Gap(c)
    PROVE  ClientInv'
<1>1. PICK h \in Histories : ServerOK(h) /\ ViewOK(h) /\ CallsOK(h)
  BY DEF ClientInv
<1>2. PICK e : e = Call("refresh", replay.id, c.generation, None)
  OBVIOUS
<1>3. /\ Answers(c, {"mutate"}, {"update"}) /\ c.generation = actions /\ replay # None
      /\ calls' = (calls \ {c}) \cup {e}
      /\ server' = server /\ saved' = saved /\ replay' = replay /\ older' = older /\ cursor' = cursor
      /\ loading' = loading /\ busy' = busy /\ restoring' = restoring /\ actions' = actions /\ loads' = loads
  BY <1>2 DEF Gap, Current, view
<1>4. c.kind = "mutate" /\ c.generation \in Nat \cup {None} /\ replay.id \in Sessions /\ loads \in Nat
  BY <1>1, <1>3 DEF Answers, CallsOK, CallOK, CallRecords, ViewOK, Installed
<1>5. e \in CallRecords /\ ReplyOK(e, h) /\ RowOK(e, h) /\ e.kind = "refresh" /\ e.generation = actions
  <2>1. PICK s \in Sessions : s = replay.id
    BY <1>4
  <2>2. PICK generation : generation = c.generation /\ (generation \in Nat \/ generation = None)
    BY <1>4
  <2>3. e = Call("refresh", s, generation, None)
    BY <1>2, <2>1, <2>2
  <2>4. e \in CallRecords /\ ReplyOK(e, h) /\ RowOK(e, h) /\ e.kind = "refresh" /\ e.generation = generation
    BY ONLY <2>1, <2>2, <2>3, NewCallIs
  <2> QED BY <1>3, <2>2, <2>4
<1>6. CallsOK(h)' /\ ServerOK(h)'
  <2>1. CallOK(e, h)'
    BY <1>5 DEF CallOK
  <2>2. \A d \in calls' : d \in calls \ {c} \/ (d.kind # "page" /\ CallOK(d, h)')
    BY <1>3, <1>5, <2>1
  <2>3. loads' \in Nat /\ loads <= loads'
    BY <1>3, <1>4
  <2> QED BY <1>1, <1>3, <1>4, <2>2, <2>3, ReceivedKeeps
<1>7. ViewOK(h)'
  BY <1>1, <1>3, ViewSame
<1>8. SpinnersOK'
  <2>1. SpinnersOK /\ ~restoring /\ \A d \in calls : d.kind # "restore"
    BY <1>4 DEF ClientInv, SpinnersOK
  <2>2. busy' => \E d \in calls' : d.kind \in {"open", "mutate", "refresh"} /\ d.generation = actions'
    BY <1>3, <1>5
  <2>3. loading' => \E d \in calls' : d.kind = "page" /\ d.generation = loads'
    BY <1>3, <1>4, <2>1 DEF SpinnersOK
  <2>4. \A d \in calls' : d.kind # "restore"
    BY <1>3, <1>5, <2>1
  <2> QED BY <1>3, <2>1, <2>2, <2>3, <2>4 DEF SpinnersOK
<1> QED BY <1>6, <1>7, <1>8 DEF ClientInv

\* A conflict: the action is over, and what is shown is fetched again.
LEMMA ConflictedKeeps ==
    ASSUME ClientInv, NEW c \in calls, Conflicted(c)
    PROVE  ClientInv'
<1>1. PICK h \in Histories : ServerOK(h) /\ ViewOK(h) /\ CallsOK(h)
  BY DEF ClientInv
<1>2. PICK e : e = Call("refresh", replay.id, None, None)
  OBVIOUS
<1>3. /\ Answers(c, {"mutate"}, {"conflict"}) /\ busy' = FALSE
      /\ calls' = (calls \ {c}) \cup (IF replay = None THEN {} ELSE {e})
      /\ server' = server /\ saved' = saved /\ replay' = replay /\ older' = older /\ cursor' = cursor
      /\ loading' = loading /\ restoring' = restoring /\ actions' = actions /\ loads' = loads
  BY <1>2 DEF Conflicted, Current, view
<1>4. c.kind = "mutate" /\ loads \in Nat
  BY <1>1, <1>3 DEF Answers, ViewOK
<1>5. replay # None => e \in CallRecords /\ ReplyOK(e, h) /\ RowOK(e, h) /\ e.kind = "refresh"
  <2> HAVE replay # None
  <2>1. PICK s \in Sessions : s = replay.id
    BY <1>1 DEF ViewOK, Installed
  <2>2. e = Call("refresh", s, None, None)
    BY <1>2, <2>1
  <2> QED BY ONLY <2>1, <2>2, NewCallIs
<1>6. CallsOK(h)' /\ ServerOK(h)'
  <2>1. replay # None => CallOK(e, h)'
    BY <1>5 DEF CallOK
  <2>2. \A d \in calls' : d \in calls \ {c} \/ (d.kind # "page" /\ CallOK(d, h)')
    BY <1>3, <1>5, <2>1
  <2>3. loads' \in Nat /\ loads <= loads'
    BY <1>3, <1>4
  <2> QED BY <1>1, <1>3, <1>4, <2>2, <2>3, ReceivedKeeps
<1>7. ViewOK(h)'
  BY <1>1, <1>3, ViewSame
<1>8. SpinnersOK'
  <2>1. \A d \in calls' : d.kind # "restore" \/ d \in calls
    BY <1>3, <1>5
  <2>2. \A d \in calls \ {c} : d \in calls'
    BY <1>3
  <2> QED BY <1>3, <1>4, <2>1, <2>2, SpinnersGoOn DEF ClientInv
<1> QED BY <1>6, <1>7, <1>8 DEF ClientInv

\* A failure: the action is over, or the refresh it waited for.
LEMMA FailedKeeps ==
    ASSUME ClientInv, NEW c \in calls, c.kind # "restore", c.kind # "page",
           calls' = calls \ {c}, UNCHANGED <<server, saved, view, restoring, actions, loads>>,
           busy' = FALSE \/ (busy' = busy /\ c.generation # actions)
    PROVE  ClientInv'
<1>1. PICK h \in Histories : ServerOK(h) /\ ViewOK(h) /\ CallsOK(h)
  BY DEF ClientInv
<1>2. /\ server' = server /\ saved' = saved /\ replay' = replay /\ older' = older /\ cursor' = cursor
      /\ loading' = loading /\ restoring' = restoring /\ actions' = actions /\ loads' = loads
  BY DEF view
<1>3. loads \in Nat /\ loads <= loads
  BY <1>1 DEF ViewOK
<1>4. CallsOK(h)' /\ ServerOK(h)'
  <2>1. \A e \in calls' : e \in calls \ {c} \/ (e.kind # "page" /\ CallOK(e, h)')
    OBVIOUS
  <2> QED BY <1>1, <1>2, <1>3, <2>1, ReceivedKeeps
<1>5. ViewOK(h)'
  BY <1>1, <1>2, ViewSame
<1>6. SpinnersOK'
  BY <1>2, SpinnersGoOn DEF ClientInv
<1> QED BY <1>4, <1>5, <1>6 DEF ClientInv

\* A page of older records arrives, in time or late.
LEMMA PageLoadedKeeps ==
    ASSUME ClientInv, NEW c \in calls, PageLoaded(c)
    PROVE  ClientInv'
<1>1. PICK h \in Histories : ServerOK(h) /\ ViewOK(h) /\ CallsOK(h)
  BY DEF ClientInv
<1>2. /\ Answers(c, {"page"}, {"page", "gone", "error"}) /\ calls' = calls \ {c}
      /\ server' = server /\ saved' = saved /\ replay' = replay /\ busy' = busy
      /\ restoring' = restoring /\ actions' = actions /\ loads' = loads
  BY DEF PageLoaded
<1>3. CallOK(c, h) /\ loads \in Nat /\ loads <= loads
  BY <1>1 DEF CallsOK, ViewOK
<1>4. c.kind = "page" /\ (c.reply.type = "page" => PageOK(c, h))
  BY <1>2, <1>3, AnswerIs
<1>5. \A e \in calls' : e \in calls \ {c} \/ (e.kind # "page" /\ CallOK(e, h)')
  BY <1>2
<1>6. CASE c.generation = loads
  <2>1. replay # None /\ c.at = cursor /\ c.session = replay.id
    BY <1>3, <1>4, <1>6 DEF CallOK
  <2>2. /\ loading' = FALSE
        /\ IF c.reply.type # "page" THEN UNCHANGED <<older, cursor>>
           ELSE /\ older' = older \o Without(c.reply.items, Range(replay.window) \cup Range(older))
                /\ cursor' = c.reply.next
    BY <1>6 DEF PageLoaded, CurrentLoad
  <2>3. ViewOK(h)'
    <3>1. CASE c.reply.type # "page"
      BY <1>1, <1>2, <2>2, <3>1, ViewSame
    <3>2. CASE c.reply.type = "page"
      <4>1. cursor # None
        BY <1>3, <1>4, <2>1, ClientAssumption DEF CallOK
      <4>2. PICK x : x = c.reply
        OBVIOUS
      <4>3. /\ x = PageOf(cursor) \/ (x = EmptyPage /\ Gone(h, replay.id))
            /\ cursor' = x.next
            /\ older' = older \o Without(x.items, Range(replay.window) \cup Range(older))
        BY <1>4, <2>1, <2>2, <3>2, <4>2 DEF PageOK
      <4> QED BY <1>1, <1>2, <2>1, <4>1, <4>3, PageKeeps
    <3> QED BY <3>1, <3>2
  <2>4. CallsOK(h)' /\ ServerOK(h)'
    BY <1>1, <1>2, <1>3, <1>4, <1>5, <1>6, ReceivedKeeps
  <2>5. SpinnersOK'
    BY <1>2, <1>4, <2>2, SpinnersGoOn DEF ClientInv
  <2> QED BY <2>3, <2>4, <2>5 DEF ClientInv
<1>7. CASE c.generation # loads
  <2>1. older' = older /\ cursor' = cursor /\ loading' = loading
    BY <1>7 DEF PageLoaded, CurrentLoad
  <2>2. ViewOK(h)'
    BY <1>1, <1>2, <2>1, ViewSame
  <2>3. CallsOK(h)' /\ ServerOK(h)'
    BY <1>1, <1>2, <1>3, <1>5, <2>1, ReceivedKeeps
  <2>4. SpinnersOK'
    BY <1>2, <1>4, <1>7, <2>1, SpinnersGoOn DEF ClientInv
  <2> QED BY <2>2, <2>3, <2>4 DEF ClientInv
<1> QED BY <1>6, <1>7

\* Whatever is answered keeps the invariant.
LEMMA ReceiveKeeps ==
    ASSUME ClientInv, NEW c \in calls, Receive(c)
    PROVE  ClientInv'
<1>1. CASE Resumed(c)
  BY <1>1, InstalledKeeps DEF Resumed, Current, Answers
<1>2. CASE Refreshed(c)
  <2>1. /\ c.kind = "refresh" /\ Answers(c, {"refresh"}, {"snapshot", "gone", "error"})
        /\ EndAction(c.generation) /\ calls' = calls \ {c} /\ UNCHANGED <<server, restoring, actions>>
    BY <1>2 DEF Refreshed, Answers
  <2>2. CASE c.reply.type = "snapshot"
    <3>1. InstallSnapshot(c.reply) /\ Answers(c, {"open", "refresh"}, {"snapshot"})
      BY <1>2, <2>1, <2>2 DEF Refreshed, Answers
    <3> QED BY <2>1, <3>1, InstalledKeeps
  <2>3. CASE c.reply.type # "snapshot"
    BY <1>2, <2>1, <2>3, FailedKeeps DEF Refreshed, EndAction
  <2> QED BY <2>2, <2>3
<1>3. CASE Failed(c)
  BY <1>3, FailedKeeps DEF Failed, Current, Answers
<1> QED BY <1>1, <1>2, <1>3, RestoredKeeps, DroppedKeeps, AppliedKeeps, GapKeeps, ConflictedKeeps,
           PageLoadedKeeps DEF Receive

-----------------------------------------------------------------------------
(* The invariant, and what follows *)

\* The invariant holds in the beginning.
LEMMA ClientInitial ==
    ASSUME Init
    PROVE  ClientInv
<1>1. PICK h : h = [s \in Sessions |-> <<0>>]
  OBVIOUS
<1>2. h \in Histories /\ server = h /\ \A s \in Sessions : h[s] = <<0>> /\ Len(h[s]) = 1
  <2>1. <<0>> \in Seq(Nat \cup {None}) /\ Len(<<0>>) = 1
    OBVIOUS
  <2> QED BY <1>1, <2>1 DEF Init, Histories
<1>3. ServerOK(h)
  <2> SUFFICES ASSUME NEW s \in Sessions
               PROVE  /\ Len(h[s]) # 0 /\ h[s][1] # None
                      /\ \A v \in 1 .. Len(h[s]) - 1 : h[s][v] # None
    BY <1>2 DEF ServerOK
  <2>1. Len(h[s]) = 1 /\ h[s][1] = 0
    BY <1>2
  <2>2. 0 # None
    BY ClientAssumption
  <2> QED BY <2>1, <2>2
<1>4. ViewOK(h) /\ CallsOK(h)
  BY DEF Init, ViewOK, CallsOK
<1> QED BY <1>2, <1>3, <1>4 DEF Init, ClientInv, SpinnersOK

\* Every step keeps the invariant.
LEMMA ClientStep ==
    ASSUME ClientInv, [Next]_vars
    PROVE  ClientInv'
<1>1. CASE UNCHANGED vars
  <2>1. /\ server' = server /\ saved' = saved /\ replay' = replay /\ older' = older /\ cursor' = cursor
        /\ loading' = loading /\ busy' = busy /\ restoring' = restoring /\ actions' = actions
        /\ loads' = loads /\ calls' = calls
    BY <1>1 DEF vars, view
  <2>2. PICK h \in Histories : ServerOK(h) /\ ViewOK(h) /\ CallsOK(h)
    BY DEF ClientInv
  <2>3. ServerOK(h)' /\ ViewOK(h)'
    BY <2>1, <2>2, ViewSame DEF ServerOK
  <2>4. CallsOK(h)'
    BY <2>1, <2>2 DEF CallsOK, CallOK
  <2> QED BY <2>1, <2>3, <2>4 DEF ClientInv, SpinnersOK
<1>2. CASE RestoreSavedSession
  BY <1>2, RestoreKeeps
<1>3. ASSUME NEW kind \in {"open", "mutate"}, NEW s \in Sessions, Action(kind, s) PROVE ClientInv'
  BY <1>3, ActionKeeps
<1>4. CASE LoadOlder
  BY <1>4, LoadKeeps
<1>5. CASE Leave
  BY <1>5, LeaveKeeps
<1>6. ASSUME NEW c \in calls, ReadRow(c) \/ Serve(c) \/ ServeConflict(c) \/ Lose(c) \/ Receive(c)
      PROVE  ClientInv'
  BY <1>6, ReadKeeps, ServeKeeps, ReceiveKeeps
<1>7. ASSUME NEW s \in Sessions, MutateElsewhere(s) \/ DeleteElsewhere(s) PROVE ClientInv'
  BY <1>7, ElsewhereKeeps
<1>8. CASE SaveElsewhere
  BY <1>8, SaveKeeps
<1> QED BY <1>1, <1>2, <1>3, <1>4, <1>5, <1>6, <1>7, <1>8 DEF Next

\* The invariant holds in every state.
LEMMA ClientInvariant == Spec => []ClientInv
BY ClientInitial, ClientStep, PTL DEF Spec

\* Only the last revision of a session can say that it was deleted.
LEMMA GoneIsDeleted ==
    ASSUME NEW h \in Histories, ServerOK(h), NEW s \in Sessions, Gone(h, s)
    PROVE  Deleted(s)
<1>1. /\ Len(h[s]) \in Nat \ {0} /\ DOMAIN h[s] = 1 .. Len(h[s])
      /\ Deleted(s) <=> h[s][Len(h[s])] = None
  BY AliveIs
<1>2. PICK v \in 1 .. Len(h[s]) : h[s][v] = None
  BY <1>1 DEF Gone
<1>3. v \notin 1 .. Len(h[s]) - 1
  BY <1>2 DEF ServerOK
<1>4. v = Len(h[s])
  BY <1>1, <1>2, <1>3
<1> QED BY <1>1, <1>2, <1>4

\* What is installed is what the server had at that revision, or what a load found
\* that commits ran into, whatever came late, twice or not at all (store.ts
\* applyUpdate, classifyUpdate, mergeUpdate; repository.py load_session).
THEOREM InstalledStaysTrue == Spec => []InstalledStateIsTrue
<1>1. ClientInv => InstalledStateIsTrue
  <2> SUFFICES ASSUME ClientInv, replay # None PROVE InstalledStateIsTrue
    BY DEF InstalledStateIsTrue
  <2>1. PICK h \in Histories : ServerOK(h) /\ ViewOK(h)
    BY DEF ClientInv
  <2>2. replay.id \in Sessions /\ StateOK(replay, h)
    BY <2>1 DEF ViewOK, Installed
  <2>3. server[replay.id] = h[replay.id]
    BY <2>1 DEF ServerOK
  <2>4. replay.revision \in DOMAIN server[replay.id]
    BY <2>2, <2>3 DEF StateOK
  <2>5. replay.made = "whole" =>
           /\ replay.total = server[replay.id][replay.revision]
           /\ replay.window = Recent(replay.total, Window)
    BY <2>2, <2>3 DEF StateOK, Held
  <2>6. replay.made = "merged" => replay.total = server[replay.id][replay.revision]
    BY <2>2, <2>3 DEF StateOK, Held
  <2>7. ASSUME replay.made = "mixed"
        PROVE  \E fills, count \in DOMAIN server[replay.id] :
                 /\ replay.revision <= fills /\ fills <= count
                 /\ replay.window = Recent(Found(server[replay.id][fills]), Window)
                 /\ replay.total \in Totals(server[replay.id][replay.revision], Len(replay.window),
                                            Found(server[replay.id][count]))
    BY <2>2, <2>3, <2>7 DEF StateOK, MixOf
  <2> QED BY <2>4, <2>5, <2>6, <2>7 DEF InstalledStateIsTrue
<1> QED BY <1>1, ClientInvariant, PTL

\* The last record on screen.
Newest == IF replay.window = << >> THEN 0 ELSE Last(replay.window)

\* What is shown down to some record, and older ones down to another, is one run.
LEMMA ShownIsRun ==
    ASSUME NEW n \in Nat, NEW first \in 1 .. Low(n),
           replay.window = Recent(n, Window), older = Down(Low(n), Low(n) - first)
    PROVE  /\ Newest = n /\ first \in 1 .. n + 1
           /\ Reverse(older) \o replay.window = [k \in 1 .. Newest - first + 1 |-> first + k - 1]
<1>1. PICK low, width, more : low = Low(n) /\ width = n + 1 - low /\ more = low - first
  OBVIOUS
<1>2. /\ low \in Nat \ {0} /\ low <= n + 1 /\ width \in Nat /\ more \in Nat /\ first \in Nat \ {0}
      /\ low - more = first /\ first + more = low /\ more + width = n - first + 1 /\ first \in 1 .. n + 1
      /\ (width = 0 => n = 0)
  <2>1. low \in Nat \ {0} /\ low <= n + 1 /\ (n + 1 - low = 0 => n = 0)
    BY <1>1, ClientAssumption DEF Low
  <2>2. first \in 1 .. low
    BY <1>1
  <2>3. width = n + 1 - low /\ more = low - first /\ n \in Nat
    BY <1>1
  <2>4. low \in Nat \ {0} /\ low <= n + 1 /\ first \in Nat \ {0} /\ first <= low
    BY ONLY <2>1, <2>2
  <2>5. width \in Nat /\ more \in Nat /\ low - more = first /\ first + more = low
    BY ONLY <2>3, <2>4
  <2>6. more + width = n - first + 1 /\ first \in 1 .. n + 1
    BY ONLY <2>3, <2>4
  <2>7. width = 0 => n = 0
    BY <2>1, <2>3
  <2> QED BY <2>4, <2>5, <2>6, <2>7
<1>3. replay.window = Up(low, width)
  BY <1>1, WindowIs
<1>4. Newest = n
  <2>1. CASE width = 0
    <3>1. Up(low, width) = << >>
      BY <2>1 DEF Up
    <3> QED BY <1>2, <1>3, <2>1, <3>1 DEF Newest
  <2>2. CASE width # 0
    <3>1. Len(Up(low, width)) = width /\ Up(low, width)[width] = n
      <4>1. low \in Int /\ width \in 1 .. width /\ low + width - 1 = n
        <5>1. low \in Nat \ {0} /\ width \in Nat /\ width # 0 /\ width = n + 1 - low
          BY <1>1, <1>2, <2>2
        <5> QED BY ONLY <5>1, n \in Nat
      <4> QED BY <1>2, <4>1, UpIs DEF Up
    <3>2. Up(low, width) # << >>
      BY <1>2, <2>2, <3>1
    <3> QED BY <1>3, <3>1, <3>2 DEF Newest, Last
  <2> QED BY <2>1, <2>2
<1>5. Reverse(older) = Up(first, more)
  <2>1. Reverse(Down(low, more)) = Up(low - more, more)
    BY <1>2, DownReversed
  <2> QED BY <1>1, <1>2, <2>1
<1>6. Up(first, more) \o Up(first + more, width) = Up(first, more + width)
  <2>1. first \in Int /\ more \in Nat /\ width \in Nat
    BY <1>2
  <2> QED BY ONLY <2>1, UpJoins
<1>7. Reverse(older) \o replay.window = Up(first, n - first + 1)
  BY <1>2, <1>3, <1>5, <1>6
<1> QED BY <1>2, <1>4, <1>7 DEF Up

\* The records on screen are one run, from the first or from where the next page
\* ends, up to the newest, although records are evicted from the window while a
\* page is on its way; only a load that commits ran into, or a session that is
\* gone, may leave the first ones out without a next page (store.ts
\* prependEvicted, loadOlderFills; service.py history cursors).
THEOREM HistoryStaysContiguous == Spec => []HistoryIsContiguous
<1>1. ClientInv => HistoryIsContiguous
  <2> SUFFICES ASSUME ClientInv, replay # None, replay.made # "merged" PROVE HistoryIsContiguous
    BY DEF HistoryIsContiguous
  <2> DEFINE shown == Reverse(older) \o replay.window
             newest == IF replay.window = << >> THEN 0 ELSE Last(replay.window)
             From(start) == shown = [k \in 1 .. newest - start + 1 |-> start + k - 1]
  <2>1. PICK h \in Histories : ServerOK(h) /\ ViewOK(h)
    BY DEF ClientInv
  <2>2. PICK n \in Nat : \E first \in 1 .. Low(n) : ShowsFrom(n, first, h)
    BY <2>1 DEF ViewOK
  <2>3. PICK first \in 1 .. Low(n) : ShowsFrom(n, first, h)
    BY <2>2
  <2>4. newest = n /\ first \in 1 .. n + 1 /\ From(first)
    <3>1. replay.window = Recent(n, Window) /\ older = Down(Low(n), Low(n) - first)
      BY <2>3 DEF ShowsFrom
    <3> QED BY <3>1, ShownIsRun DEF Newest
  <2>5. \/ cursor # None /\ cursor = first
        \/ cursor = None /\ first = 1
        \/ cursor = None /\ (replay.made = "mixed" \/ Deleted(replay.id))
    <3>1. replay.id \in Sessions
      BY <2>1 DEF ViewOK, Installed
    <3>2. Gone(h, replay.id) => Deleted(replay.id)
      BY <2>1, <3>1, GoneIsDeleted
    <3>3. first # None
      BY <2>4, ClientAssumption
    <3> QED BY <2>3, <3>2, <3>3 DEF ShowsFrom
  <2>6. CASE cursor # None /\ cursor = first
    BY <2>4, <2>6 DEF HistoryIsContiguous
  <2>7. CASE cursor = None /\ first = 1
    BY <2>4, <2>7 DEF HistoryIsContiguous
  <2>8. CASE cursor = None /\ (replay.made = "mixed" \/ Deleted(replay.id))
    <3>1. \E start \in 1 .. newest + 1 : From(start)
      BY <2>4
    <3> QED BY <2>8, <3>1 DEF HistoryIsContiguous
  <2> QED BY <2>5, <2>6, <2>7, <2>8
<1> QED BY <1>1, ClientInvariant, PTL

\* Whatever disables the workspace waits for a request whose answer will end it
\* (store.ts busy, historyLoading, restoring), and the types hold.
THEOREM SpinnersStayServed == Spec => []SpinnersEnd
<1>1. ClientInv => SpinnersEnd
  <2> SUFFICES ASSUME ClientInv PROVE SpinnersEnd
    OBVIOUS
  <2>1. PICK h \in Histories : ViewOK(h) /\ CallsOK(h)
    BY DEF ClientInv
  <2>2. ASSUME replay # None
        PROVE  replay.id \in Sessions /\ replay.revision \in Nat \ {0} /\ Len(replay.window) <= Window
    BY <2>1, <2>2 DEF ViewOK, Installed
  <2>3. \A c \in calls : c.row # None => c.kind \in Reads
    BY <2>1 DEF CallsOK, CallOK, RowOK
  <2>4. saved \in Sessions \cup {None} /\ (replay = None => older = << >> /\ cursor = None)
    BY <2>1 DEF ViewOK
  <2>5. TypeOK
    BY <2>2, <2>3, <2>4 DEF TypeOK, ClientInv, SpinnersOK
  <2> QED BY <2>5 DEF SpinnersEnd, ClientInv, SpinnersOK
<1> QED BY <1>1, ClientInvariant, PTL

\* While a session stays on screen its revision moves back only by a snapshot
\* (store.ts classifyUpdate).
THEOREM UpdatesOnlyAdvance == Spec => UpdatesNeverGoBack
<1> DEFINE Back == replay # None /\ replay' # None /\ replay'.id = replay.id
                     /\ replay'.revision < replay.revision
           BySnapshot == \E c \in calls \ calls' : c.reply.type = "snapshot"
<1>1. ASSUME ClientInv, [Next]_vars, Back PROVE BySnapshot
  <2>1. PICK h \in Histories : ViewOK(h) /\ CallsOK(h)
    BY <1>1 DEF ClientInv
  <2>2. replay.revision \in Nat \ {0}
    BY <1>1, <2>1 DEF ViewOK, Installed
  <2>3. replay' # replay
    BY <1>1, <2>2
  <2>4. PICK c \in calls : Receive(c)
    BY <1>1, <2>3 DEF Next, vars, view, RestoreSavedSession, Action, LoadOlder, Leave, ReadRow,
                      Serve, ServeConflict, Lose, MutateElsewhere, DeleteElsewhere, SaveElsewhere
  <2>5. CASE Applied(c)
    <3>1. Follows(c.reply) /\ Merge(c.reply) /\ Answers(c, {"mutate"}, {"update"})
      BY <2>3, <2>5 DEF Applied, Current, view
    <3>2. CallOK(c, h)
      BY <2>1 DEF CallsOK
    <3>3. UpdateOK(c.reply, h)
      BY <3>1, <3>2, AnswerIs DEF Answers
    <3>4. replay'.revision = replay.revision + 1
      BY <1>1, <2>1, <3>1, <3>3, MergeKeeps
    <3> QED BY <1>1, <2>2, <3>4
  <2>6. CASE Restored(c) \/ Resumed(c) \/ Refreshed(c)
    <3>1. c.reply.type = "snapshot" /\ calls' = calls \ {c}
      BY <2>3, <2>6 DEF Restored, Resumed, Refreshed, Current, Answers, view
    <3> QED BY <3>1
  <2> QED BY <2>3, <2>4, <2>5, <2>6 DEF Receive, Dropped, Gap, Conflicted, Failed, PageLoaded, view
<1>2. ASSUME ClientInv, [Next]_vars PROVE [Back => BySnapshot]_vars
  BY <1>1, <1>2
<1> QED BY <1>2, ClientInvariant, PTL DEF Spec, UpdatesNeverGoBack
=============================================================================
