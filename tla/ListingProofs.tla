---------------------------- MODULE ListingProofs ----------------------------
(***************************************************************************)
(* What the other proofs need about lists and numbers: that every set of   *)
(* naturals has a least element, that a finite one can be listed in order, *)
(* that a function given step by step exists, and what a sum is and how it *)
(* changes when its list does.                                             *)
(***************************************************************************)
EXTENDS Listing, Sums, FiniteSetTheorems, WellFoundedInduction, TLAPS

\* Every set of naturals that has an element has a least one: the form in which
\* the proofs below use induction.
LEMMA LeastNat ==
    ASSUME NEW T \in SUBSET Nat, T # {}
    PROVE  \E n \in T : \A m \in T : n <= m
<1> DEFINE R == OpToRel(<, Nat)
<1>1. R = {ss \in Nat \X Nat : ss[1] < ss[2]}
  BY DEF OpToRel
<1>2. IsWellFoundedOn(R, Nat)
  BY NatLessThanWellFounded
<1>3. \A a, b \in Nat : a < b => <<a, b>> \in R
  BY <1>1
<1> HIDE DEF R
<1>4. PICK n \in T : \A m \in T : ~(<<m, n>> \in R)
  BY <1>2, WFMin
<1>5. ASSUME NEW m \in T PROVE n <= m
  <2>1. ~(m < n)
    BY <1>3, <1>4
  <2> QED BY <2>1
<1> QED BY <1>5

\* A set of naturals with n elements can be listed in increasing order.  A set
\* that cannot, with the fewest elements, is not empty; without its least
\* element it can be listed, and so it can with it in front.
LEMMA OrderExists ==
    ASSUME NEW S \in SUBSET Nat, IsFiniteSet(S)
    PROVE  \E order \in [1 .. Cardinality(S) -> S] : Increasing(order)
<1> DEFINE Listed(U) == \E order \in [1 .. Cardinality(U) -> U] : Increasing(order)
           Bad == {n \in Nat : \E U \in SUBSET Nat :
                     IsFiniteSet(U) /\ Cardinality(U) = n /\ ~Listed(U)}
<1>1. ASSUME Bad # {} PROVE FALSE
  <2>1. PICK n \in Bad : \A m \in Bad : n <= m
    BY <1>1, LeastNat
  <2>2. PICK U \in SUBSET Nat : IsFiniteSet(U) /\ Cardinality(U) = n /\ ~Listed(U)
    BY <2>1
  <2>3. CASE U = {}
    <3>1. Cardinality(U) = 0
      BY <2>3, FS_EmptySet
    <3>2. << >> \in [1 .. 0 -> U] /\ Increasing(<< >>)
      BY DEF Increasing
    <3> QED BY <2>2, <3>1, <3>2
  <2>4. CASE U # {}
    <3>1. PICK least \in U : \A m \in U : least <= m
      BY <2>4, LeastNat
    <3> DEFINE V == U \ {least}
    <3>2. V \in SUBSET Nat /\ IsFiniteSet(V) /\ Cardinality(V) = n - 1 /\ n \in Nat
      BY <2>2, <3>1, FS_RemoveElement, FS_CardinalityType
    <3>3. n - 1 \in Nat
      BY <3>2, FS_CardinalityType
    <3>4. Listed(V)
      <4>1. n - 1 \notin Bad
        BY <2>1, <3>2
      <4> HIDE DEF V, Listed
      <4> QED BY <3>2, <3>3, <4>1
    <3>5. PICK rest \in [1 .. n - 1 -> V] : Increasing(rest)
      BY <3>2, <3>4
    <3> DEFINE order == [k \in 1 .. n |-> IF k = 1 THEN least ELSE rest[k - 1]]
    <3>6. \A k \in 1 .. n : k = 1 \/ (k - 1 \in 1 .. n - 1 /\ order[k] = rest[k - 1])
      BY <3>3
    <3>7. order \in [1 .. n -> U]
      BY <3>1, <3>5, <3>6
    <3>8. Increasing(order)
      <4> SUFFICES ASSUME NEW j \in 1 .. n, NEW k \in 1 .. n, j < k
                   PROVE  order[j] < order[k]
        BY DEF Increasing
      <4>1. k - 1 \in 1 .. n - 1 /\ order[k] = rest[k - 1] /\ order[k] \in V
        BY <3>5, <3>6
      <4>2. CASE j = 1
        <5>1. order[j] = least
          BY <4>2
        <5>2. order[k] \in Nat /\ least \in Nat /\ least <= order[k] /\ order[k] # least
          BY <3>1, <4>1
        <5> QED BY <5>1, <5>2
      <4>3. CASE j # 1
        <5>1. j - 1 \in 1 .. n - 1 /\ order[j] = rest[j - 1] /\ j - 1 < k - 1
          BY <3>6, <4>3
        <5>2. DOMAIN rest = 1 .. n - 1
          BY <3>5
        <5> HIDE DEF order
        <5> QED BY <3>5, <4>1, <5>1, <5>2 DEF Increasing
      <4> QED BY <4>2, <4>3
    <3> HIDE DEF order
    <3> QED BY <2>2, <3>7, <3>8
  <2> QED BY <2>3, <2>4
<1>2. Cardinality(S) \in Nat
  BY FS_CardinalityType
<1> QED BY <1>1, <1>2

\* Ascending lists the members of a finite set of naturals, and nothing else.
LEMMA AscendingLists ==
    ASSUME NEW S \in SUBSET Nat, IsFiniteSet(S)
    PROVE  /\ Ascending(S) \in Seq(S) /\ Increasing(Ascending(S))
           /\ Len(Ascending(S)) = Cardinality(S)
           /\ \A x \in S : \E k \in DOMAIN Ascending(S) : Ascending(S)[k] = x
<1> DEFINE n == Cardinality(S)
           order == Ascending(S)
           listed == {order[k] : k \in 1 .. n}
<1>1. n \in Nat
  BY FS_CardinalityType
<1>2. order \in [1 .. n -> S] /\ Increasing(order)
  BY OrderExists DEF Ascending
<1> HIDE DEF order
<1>3. order \in Seq(S) /\ Len(order) = n
  BY <1>1, <1>2
<1>4. \A j, k \in 1 .. n : order[j] = order[k] => j = k
  <2> SUFFICES ASSUME NEW j \in 1 .. n, NEW k \in 1 .. n, order[j] = order[k]
               PROVE  j = k
    OBVIOUS
  <2>1. order[j] \in Nat /\ order[k] \in Nat
    BY <1>2
  <2>2. ~(j < k) /\ ~(k < j)
    BY <1>2, <2>1 DEF Increasing
  <2> QED BY <1>1, <2>2
<1>5. order \in Bijection(1 .. n, listed)
  <2>1. order \in [1 .. n -> listed]
    BY <1>2
  <2>2. \A x \in listed : \E k \in 1 .. n : order[k] = x
    OBVIOUS
  <2> HIDE DEF listed
  <2> QED BY <1>4, <2>1, <2>2 DEF Bijection, Injection, Surjection, IsInjective
<1>6. IsFiniteSet(1 .. n) /\ Cardinality(1 .. n) = n
  BY <1>1, FS_Interval
<1>7. Cardinality(listed) = n
  <2>1. ExistsBijection(1 .. n, listed)
    BY <1>5 DEF ExistsBijection
  <2> QED BY <1>6, <2>1, FS_Bijection
<1>8. listed \subseteq S
  BY <1>2
<1>9. listed = S
  BY <1>7, <1>8, FS_Subset
<1>10. \A x \in S : \E k \in DOMAIN order : order[k] = x
  BY <1>2, <1>9
<1> QED BY <1>2, <1>3, <1>10 DEF order

\* A finite set of naturals that has an element has a greatest one: the last of
\* the list.
LEMMA GreatestNat ==
    ASSUME NEW S \in SUBSET Nat, IsFiniteSet(S), S # {}
    PROVE  \E n \in S : \A m \in S : m <= n
<1> DEFINE list == Ascending(S)
           last == Len(list)
<1>1. /\ list \in Seq(S) /\ Increasing(list) /\ last = Cardinality(S)
      /\ \A x \in S : \E k \in DOMAIN list : list[k] = x
  BY AscendingLists
<1>2. last \in Nat /\ last # 0
  BY <1>1, FS_CardinalityType, FS_EmptySet
<1> HIDE DEF list
<1>3. DOMAIN list = 1 .. last /\ \A k \in 1 .. last : list[k] \in S
  BY <1>1
<1> HIDE DEF last
<1>4. list[last] \in S
  BY <1>2, <1>3
<1>5. ASSUME NEW m \in S PROVE m <= list[last]
  <2>1. PICK k \in 1 .. last : list[k] = m
    BY <1>1, <1>3
  <2>2. CASE k = last
    <3>1. m = list[last] /\ m \in Nat
      BY <2>1, <2>2
    <3> QED BY <3>1
  <2>3. CASE k < last
    <3>1. list[k] < list[last]
      BY <1>1, <1>2, <1>3, <2>3 DEF Increasing
    <3>2. m \in Nat /\ list[last] \in Nat
      BY <1>4
    <3> QED BY <2>1, <3>1, <3>2
  <2> QED BY <1>2, <2>2, <2>3
<1> QED BY <1>4, <1>5
\* A list of naturals in increasing order holds each of them once.
LEMMA IncreasingOnce ==
    ASSUME NEW a \in Seq(Nat), Increasing(a)
    PROVE  /\ \A j, k \in 1 .. Len(a) : a[j] = a[k] => j = k
           /\ IsFiniteSet({a[k] : k \in 1 .. Len(a)})
           /\ Cardinality({a[k] : k \in 1 .. Len(a)}) = Len(a)
<1> DEFINE n == Len(a)
           listed == {a[k] : k \in 1 .. n}
<1>1. n \in Nat /\ DOMAIN a = 1 .. n /\ \A k \in 1 .. n : a[k] \in Nat
  OBVIOUS
<1>2. \A j, k \in 1 .. n : a[j] = a[k] => j = k
  <2> SUFFICES ASSUME NEW j \in 1 .. n, NEW k \in 1 .. n, a[j] = a[k]
               PROVE  j = k
    OBVIOUS
  <2>1. ~(j < k) /\ ~(k < j)
    BY <1>1 DEF Increasing
  <2> QED BY <1>1, <2>1
<1>3. a \in Bijection(1 .. n, listed)
  <2>1. a \in [1 .. n -> listed]
    BY <1>1
  <2>2. \A x \in listed : \E k \in 1 .. n : a[k] = x
    OBVIOUS
  <2> HIDE DEF listed
  <2> QED BY <1>2, <2>1, <2>2 DEF Bijection, Injection, Surjection, IsInjective
<1>4. IsFiniteSet(1 .. n) /\ Cardinality(1 .. n) = n
  BY <1>1, FS_Interval
<1>5. ExistsBijection(1 .. n, listed)
  BY <1>3 DEF ExistsBijection
<1> HIDE DEF listed
<1>6. IsFiniteSet(listed) /\ Cardinality(listed) = n
  BY <1>4, <1>5, FS_Bijection
<1> QED BY <1>2, <1>6 DEF listed

\* Two lists of the same naturals in increasing order are the same.
LEMMA SameList ==
    ASSUME NEW a \in Seq(Nat), NEW b \in Seq(Nat), Increasing(a), Increasing(b),
           {a[k] : k \in 1 .. Len(a)} = {b[k] : k \in 1 .. Len(b)}
    PROVE  a = b
<1>1. PICK n, m : n = Len(a) /\ m = Len(b)
  OBVIOUS
<1>2. m = n /\ n \in Nat
  <2>1. Cardinality({a[k] : k \in 1 .. Len(a)}) = Len(a)
    BY ONLY a \in Seq(Nat), Increasing(a), IncreasingOnce
  <2>2. Cardinality({b[k] : k \in 1 .. Len(b)}) = Len(b)
    BY ONLY b \in Seq(Nat), Increasing(b), IncreasingOnce
  <2>3. Len(a) \in Nat
    BY ONLY a \in Seq(Nat)
  <2> QED BY <1>1, <2>1, <2>2, <2>3
<1>3. /\ DOMAIN a = 1 .. n /\ DOMAIN b = 1 .. n
      /\ \A k \in 1 .. n : a[k] \in Nat /\ b[k] \in Nat
  <2>1. DOMAIN a = 1 .. Len(a) /\ \A k \in 1 .. Len(a) : a[k] \in Nat
    BY ONLY a \in Seq(Nat)
  <2>2. DOMAIN b = 1 .. Len(b) /\ \A k \in 1 .. Len(b) : b[k] \in Nat
    BY ONLY b \in Seq(Nat)
  <2> QED BY ONLY <1>1, <1>2, <2>1, <2>2
<1>4. /\ \A k \in 1 .. n : \E i \in 1 .. n : b[i] = a[k]
      /\ \A k \in 1 .. n : \E i \in 1 .. n : a[i] = b[k]
  <2>1. {a[k] : k \in 1 .. n} = {b[k] : k \in 1 .. n}
    BY <1>1, <1>2
  <2>2. \A k \in 1 .. n : a[k] \in {b[i] : i \in 1 .. n} /\ b[k] \in {a[i] : i \in 1 .. n}
    BY ONLY <2>1
  <2> QED BY ONLY <2>2
<1>5. PICK Differ : Differ = {k \in 1 .. n : a[k] # b[k]}
  OBVIOUS
<1>6. ASSUME Differ # {} PROVE FALSE
  <2>1. Differ \in SUBSET Nat
    BY ONLY <1>2, <1>5
  <2>2. PICK k \in Differ : \A i \in Differ : k <= i
    BY ONLY <1>6, <2>1, LeastNat
  <2>3. k \in 1 .. n /\ a[k] # b[k] /\ \A i \in 1 .. n : i < k => a[i] = b[i]
    BY ONLY <1>2, <1>5, <2>2
  <2>4. /\ \A i, j \in 1 .. n : i < j => a[i] < a[j] /\ b[i] < b[j]
        /\ a[k] < b[k] \/ b[k] < a[k]
    <3>1. a[k] \in Nat /\ b[k] \in Nat
      BY ONLY <1>3, <2>3
    <3>2. \A i, j \in 1 .. n : i < j => a[i] < a[j] /\ b[i] < b[j]
      BY ONLY <1>3, Increasing(a), Increasing(b) DEF Increasing
    <3> QED BY ONLY <2>3, <3>1, <3>2
  <2>5. CASE a[k] < b[k]
    <3>1. PICK i \in 1 .. n : b[i] = a[k]
      BY ONLY <1>4, <2>3
    <3>2. i < k
      BY ONLY <1>2, <1>3, <2>3, <2>4, <2>5, <3>1
    <3>3. a[i] = a[k] /\ a[i] < a[k] /\ a[i] \in Nat
      BY ONLY <1>3, <2>3, <2>4, <3>1, <3>2
    <3> QED BY ONLY <3>3
  <2>6. CASE b[k] < a[k]
    <3>1. PICK i \in 1 .. n : a[i] = b[k]
      BY ONLY <1>4, <2>3
    <3>2. i < k
      BY ONLY <1>2, <1>3, <2>3, <2>4, <2>6, <3>1
    <3>3. b[i] = b[k] /\ b[i] < b[k] /\ b[i] \in Nat
      BY ONLY <1>3, <2>3, <2>4, <3>1, <3>2
    <3> QED BY ONLY <3>3
  <2> QED BY <2>4, <2>5, <2>6
<1>7. \A k \in 1 .. n : a[k] = b[k]
  BY ONLY <1>5, <1>6
<1> QED BY ONLY a \in Seq(Nat), b \in Seq(Nat), <1>1, <1>2, <1>3, <1>7

\* The k-th place of an increasing list holds the k-th least member.
LEMMA LeastListed ==
    ASSUME NEW S \in SUBSET Nat, IsFiniteSet(S), NEW k \in 1 .. Cardinality(S)
    PROVE  NthLeast(S, k) = Ascending(S)[k]
<1>1. PICK at : at = Ascending(S)
  OBVIOUS
<1>2. PICK n : n = Cardinality(S)
  OBVIOUS
<1>3. /\ at \in Seq(S) /\ Increasing(at) /\ Len(at) = n /\ n \in Nat
      /\ \A x \in S : \E m \in 1 .. n : at[m] = x
  BY <1>1, <1>2, AscendingLists, FS_CardinalityType
<1>4. /\ DOMAIN at = 1 .. n /\ \A m \in 1 .. n : at[m] \in S /\ at[m] \in Nat
       /\ \A i, j \in 1 .. n : i < j => at[i] < at[j]
  <2>1. DOMAIN at = 1 .. n /\ \A m \in 1 .. n : at[m] \in S
    BY ONLY <1>3
  <2>2. \A i, j \in 1 .. n : i < j => at[i] < at[j]
    BY ONLY <1>3, <2>1 DEF Increasing
  <2> QED BY <2>1, <2>2
<1>5. ASSUME NEW m \in 1 .. n PROVE Cardinality({j \in S : j < at[m]}) = m - 1
  <2>1. PICK first : first = [j \in 1 .. m - 1 |-> at[j]]
    OBVIOUS
  <2>2. /\ first \in Seq(Nat) /\ Len(first) = m - 1 /\ DOMAIN first = 1 .. m - 1
        /\ \A j \in 1 .. m - 1 : first[j] = at[j] /\ j \in 1 .. n
    <3>1. m - 1 \in Nat /\ \A j \in 1 .. m - 1 : j \in 1 .. n
      BY ONLY <1>3, m \in 1 .. n
    <3>2. \A j \in 1 .. m - 1 : at[j] \in Nat
      BY ONLY <1>4, <3>1
    <3> QED BY ONLY <2>1, <3>1, <3>2
  <2>3. Increasing(first)
    BY ONLY <1>4, <2>2 DEF Increasing
  <2>4. Cardinality({first[j] : j \in 1 .. m - 1}) = m - 1
    BY ONLY <2>2, <2>3, IncreasingOnce
  <2>5. ASSUME NEW x PROVE x \in {first[j] : j \in 1 .. m - 1} <=> x \in {j \in S : j < at[m]}
    <3>1. ASSUME NEW j \in 1 .. m - 1 PROVE first[j] \in S /\ first[j] < at[m]
      <4>1. j \in 1 .. n /\ first[j] = at[j] /\ j < m
        BY ONLY <1>3, <2>2, m \in 1 .. n, j \in 1 .. m - 1
      <4> QED BY ONLY <1>4, <4>1, m \in 1 .. n
    <3>2. ASSUME x \in S, x < at[m] PROVE x \in {first[j] : j \in 1 .. m - 1}
      <4>1. PICK i \in 1 .. n : at[i] = x
        BY <1>3, <3>2
      <4>2. ~(m < i) /\ i # m
        <5>1. at[m] \in Nat /\ (m < i => at[m] < at[i])
          BY ONLY <1>4, <4>1, m \in 1 .. n
        <5>2. x \in Nat
          BY <1>4, <4>1
        <5> QED BY ONLY <3>2, <4>1, <5>1, <5>2
      <4>3. i \in 1 .. m - 1
        BY <1>3, <4>2
      <4> QED BY <2>2, <4>1, <4>3
    <3> QED BY <3>1, <3>2
  <2>6. {first[j] : j \in 1 .. m - 1} = {j \in S : j < at[m]}
    BY <2>5
  <2> QED BY <2>4, <2>6
<1>6. at[k] \in S /\ Cardinality({j \in S : j < at[k]}) = k - 1
  BY <1>2, <1>3, <1>5
<1>7. ASSUME NEW i \in S, Cardinality({j \in S : j < i}) = k - 1 PROVE i = at[k]
  <2>1. PICK m \in 1 .. n : at[m] = i
    BY <1>3
  <2>2. m - 1 = k - 1
    BY <1>5, <1>7, <2>1
  <2> QED BY <2>1, <2>2
<1> QED BY <1>1, <1>6, <1>7 DEF NthLeast

\* The places of seq that a list of it names: all that hold an element of S.
PlacesOf(list, seq, S, at) ==
    /\ at \in Seq(Nat) /\ Increasing(at) /\ Len(list) = Len(at)
    /\ \A k \in 1 .. Len(at) :
         at[k] \in 1 .. Len(seq) /\ list[k] = seq[at[k]] /\ seq[at[k]] \in S
    /\ \A i \in 1 .. Len(seq) : seq[i] \in S => \E k \in 1 .. Len(at) : at[k] = i

\* What is kept of a sequence: the elements of S, at increasing places of it.
LEMMA ChosenIs ==
    ASSUME NEW E, NEW seq \in Seq(E), NEW S
    PROVE  Chosen(seq, S) \in Seq(E) /\ \E at : PlacesOf(Chosen(seq, S), seq, S, at)
<1>1. PICK places : places = {i \in DOMAIN seq : seq[i] \in S}
  OBVIOUS
<1>2. PICK at, n : at = Ascending(places) /\ n = Cardinality(places)
  OBVIOUS
<1>3. places \in SUBSET Nat /\ IsFiniteSet(places) /\ places \subseteq 1 .. Len(seq)
  <2>1. PICK m : m = Len(seq) /\ m \in Nat
    OBVIOUS
  <2>2. places \in SUBSET (1 .. m)
    BY <1>1, <2>1
  <2>3. IsFiniteSet(1 .. m)
    BY ONLY <2>1, FS_Interval
  <2>4. IsFiniteSet(places)
    BY ONLY <2>2, <2>3, FS_Subset
  <2> QED BY ONLY <2>1, <2>2, <2>4
<1>4. /\ at \in Seq(places) /\ Increasing(at) /\ Len(at) = n /\ n \in Nat
      /\ \A x \in places : \E k \in 1 .. n : at[k] = x
  BY <1>2, <1>3, AscendingLists, FS_CardinalityType
<1>5. Chosen(seq, S) = [k \in 1 .. n |-> seq[at[k]]]
  <2>1. Chosen(seq, S) = [k \in 1 .. n |-> seq[NthLeast(places, k)]]
    BY <1>1, <1>2 DEF Chosen
  <2>2. \A k \in 1 .. n : NthLeast(places, k) = at[k]
    BY <1>2, <1>3, LeastListed
  <2> QED BY <2>1, <2>2
<1>6. at \in Seq(Nat) /\ \A k \in 1 .. n : at[k] \in places /\ at[k] \in 1 .. Len(seq)
  <2>1. DOMAIN at = 1 .. n /\ \A k \in 1 .. n : at[k] \in places
    BY ONLY <1>4
  <2>2. \A k \in 1 .. n : at[k] \in Nat /\ at[k] \in 1 .. Len(seq)
    BY ONLY <1>3, <2>1
  <2>3. at = [k \in 1 .. n |-> at[k]]
    BY ONLY <1>4, <2>1
  <2>4. at \in Seq(Nat)
    BY ONLY <1>4, <2>2, <2>3
  <2> QED BY <2>1, <2>2, <2>4
<1>7. Chosen(seq, S) \in Seq(E) /\ Len(Chosen(seq, S)) = n
  <2>1. \A k \in 1 .. n : seq[at[k]] \in E
    BY ONLY seq \in Seq(E), <1>6
  <2>2. PICK kept : kept = [k \in 1 .. n |-> seq[at[k]]]
    OBVIOUS
  <2>3. kept \in Seq(E) /\ Len(kept) = n
    BY ONLY <1>4, <2>1, <2>2
  <2> QED BY ONLY <1>5, <2>2, <2>3
<1>8. \A k \in 1 .. n : Chosen(seq, S)[k] = seq[at[k]] /\ seq[at[k]] \in S
  BY <1>1, <1>5, <1>6
<1>9. \A i \in 1 .. Len(seq) : seq[i] \in S => \E k \in 1 .. n : at[k] = i
  BY <1>1, <1>4
<1>10. Len(at) = n /\ Increasing(at)
  BY <1>4
<1>11. \A k \in 1 .. Len(at) : at[k] \in 1 .. Len(seq)
  BY ONLY <1>6, <1>10
<1>12. PlacesOf(Chosen(seq, S), seq, S, at)
  BY ONLY <1>6, <1>7, <1>8, <1>9, <1>10, <1>11 DEF PlacesOf
<1> QED BY <1>7, <1>12
-----------------------------------------------------------------------------
(* Recursion over a list *)

\* Whatever each step does to a value, there is a list of the values it passes
\* through: the form in which a recursive function of the model is shown to exist.
LEMMA Iterates ==
    ASSUME NEW A, NEW a \in A, NEW n \in Nat, NEW move \in [1 .. n -> [A -> A]]
    PROVE  \E g \in [0 .. n -> A] :
             g[0] = a /\ \A k \in 1 .. n : g[k] = move[k][g[k - 1]]
<1> DEFINE Runs(m, g) == g[0] = a /\ \A k \in 1 .. m : g[k] = move[k][g[k - 1]]
           Bad == {m \in Nat : m <= n /\ ~\E g \in [0 .. m -> A] : Runs(m, g)}
<1>1. ASSUME Bad # {} PROVE FALSE
  <2>1. PICK m \in Bad : \A l \in Bad : m <= l
    BY <1>1, LeastNat
  <2>2. m \in 0 .. n /\ ~\E g \in [0 .. m -> A] : Runs(m, g)
    BY <2>1
  <2>3. CASE m = 0
    <3>1. PICK g : g = [k \in 0 .. 0 |-> a]
      OBVIOUS
    <3>2. g \in [0 .. m -> A] /\ Runs(m, g)
      BY <2>3, <3>1
    <3> QED BY <2>2, <3>2
  <2>4. CASE m # 0
    <3>1. m - 1 \in 0 .. n /\ m \in 1 .. n
      BY <2>2, <2>4
    <3>2. PICK g \in [0 .. m - 1 -> A] : Runs(m - 1, g)
      <4>1. PICK l : l = m - 1
        OBVIOUS
      <4>2. l \in Nat /\ l <= n /\ ~(m <= l)
        BY <2>2, <3>1, <4>1
      <4>3. \E g \in [0 .. l -> A] : Runs(l, g)
        <5>1. l \notin Bad
          BY <2>1, <4>2
        <5> HIDE DEF Runs
        <5> QED BY <4>2, <5>1
      <4> HIDE DEF Runs
      <4> QED BY <4>1, <4>3
    <3>3. move[m][g[m - 1]] \in A
      <4>1. move[m] \in [A -> A]
        BY <3>1
      <4>2. g[m - 1] \in A
        BY <3>1
      <4> QED BY <4>1, <4>2
    <3>4. PICK h : h = [k \in 0 .. m |-> IF k = m THEN move[m][g[m - 1]] ELSE g[k]]
      OBVIOUS
    <3>5. h \in [0 .. m -> A]
      <4>1. \A k \in 0 .. m : k = m \/ k \in 0 .. m - 1
        BY <3>1
      <4> QED BY <3>3, <3>4, <4>1
    <3>6. h[0] = a /\ h[m] = move[m][g[m - 1]] /\ \A k \in 0 .. m - 1 : h[k] = g[k]
      BY <3>1, <3>2, <3>4
    <3>7. ASSUME NEW k \in 1 .. m PROVE h[k] = move[k][h[k - 1]]
      <4>1. CASE k = m
        BY <3>1, <3>6, <4>1
      <4>2. CASE k # m
        <5>1. k \in 1 .. m - 1 /\ k \in 0 .. m - 1 /\ k - 1 \in 0 .. m - 1
          BY <3>1, <4>2
        <5> QED BY <3>2, <3>6, <5>1
      <4> QED BY <4>1, <4>2
    <3> QED BY <2>2, <3>5, <3>6, <3>7
  <2> QED BY <2>3, <2>4
<1>2. n \notin Bad
  BY <1>1
<1>3. \E g \in [0 .. n -> A] : Runs(n, g)
  <2> HIDE DEF Runs
  <2> QED BY <1>2
<1> QED BY <1>3

\* The same, with its hypothesis and its conclusion named.
MovesOn(move, n, A) == move \in [1 .. n -> [A -> A]]
PassesThrough(g, a, n, move) == g[0] = a /\ \A k \in 1 .. n : g[k] = move[k][g[k - 1]]

\* A function given by its first value and by its steps exists.
LEMMA IteratesOver ==
    ASSUME NEW A, NEW a \in A, NEW n \in Nat, NEW move, MovesOn(move, n, A)
    PROVE  \E g \in [0 .. n -> A] : PassesThrough(g, a, n, move)
<1>1. move \in [1 .. n -> [A -> A]]
  BY DEF MovesOn
<1>2. \E g \in [0 .. n -> A] : g[0] = a /\ \A k \in 1 .. n : g[k] = move[k][g[k - 1]]
  BY <1>1, Iterates
<1> QED BY <1>2 DEF PassesThrough

\* Two functions start alike, and equal values of them lead to equal values.
StepsAlike(g, h, n) ==
    g[0] = h[0] /\ \A k \in 1 .. n : g[k - 1] = h[k - 1] => g[k] = h[k]

\* Two such functions are equal throughout.
LEMMA StepwiseSame ==
    ASSUME NEW n \in Nat, NEW g, NEW h, StepsAlike(g, h, n)
    PROVE  \A k \in 0 .. n : g[k] = h[k]
<1>0. g[0] = h[0] /\ \A k \in 1 .. n : g[k - 1] = h[k - 1] => g[k] = h[k]
  BY DEF StepsAlike
<1> DEFINE Bad == {k \in Nat : k <= n /\ g[k] # h[k]}
<1>1. ASSUME Bad # {} PROVE FALSE
  <2>1. PICK k \in Bad : \A l \in Bad : k <= l
    BY <1>1, LeastNat
  <2>2. k \in Nat /\ k <= n /\ g[k] # h[k]
    BY <2>1
  <2>3. k - 1 \in Nat /\ k - 1 <= n /\ ~(k <= k - 1) /\ k \in 1 .. n
    BY <1>0, <2>2
  <2>4. k - 1 \notin Bad
    <3> HIDE DEF Bad
    <3> QED BY <2>1, <2>3
  <2> QED BY <1>0, <2>2, <2>3, <2>4
<1> QED BY <1>1

\* The running totals of a list are what they are defined by.
LEMMA RunningSumsAre ==
    ASSUME NEW v \in Seq(Int)
    PROVE  /\ RunningSums(v) \in [0 .. Len(v) -> Int]
           /\ RunningSums(v)[0] = 0
           /\ \A k \in 1 .. Len(v) : RunningSums(v)[k] = RunningSums(v)[k - 1] + v[k]
<1> DEFINE step == [k \in 1 .. Len(v) |-> [x \in Int |-> x + v[k]]]
           Sum(g) == g = [n \in 0 .. Len(v) |-> IF n = 0 THEN 0 ELSE g[n - 1] + v[n]]
<1>1. Len(v) \in Nat /\ \A k \in 1 .. Len(v) : v[k] \in Int
  OBVIOUS
<1>2. step \in [1 .. Len(v) -> [Int -> Int]]
  BY <1>1
<1>3. \A k \in 1 .. Len(v), x \in Int : step[k][x] = x + v[k]
  OBVIOUS
<1> HIDE DEF step
<1>4. PICK g \in [0 .. Len(v) -> Int] :
        g[0] = 0 /\ \A k \in 1 .. Len(v) : g[k] = step[k][g[k - 1]]
  <2>1. PICK n, zero, A : n = Len(v) /\ zero = 0 /\ A = Int
    OBVIOUS
  <2>2. n \in Nat /\ step \in [1 .. n -> [A -> A]] /\ zero \in A
    BY <1>1, <1>2, <2>1
  <2>3. \E g \in [0 .. n -> A] : g[0] = zero /\ \A k \in 1 .. n : g[k] = step[k][g[k - 1]]
    BY <2>2, Iterates
  <2> QED BY <2>1, <2>3
<1>5. ASSUME NEW k \in 1 .. Len(v) PROVE g[k] = g[k - 1] + v[k]
  <2>1. k - 1 \in 0 .. Len(v)
    BY <1>1
  <2>2. g[k - 1] \in Int
    BY <2>1
  <2> QED BY <1>3, <1>4, <2>2
<1>6. Sum(g)
  <2>1. \A n \in 0 .. Len(v) : g[n] = IF n = 0 THEN 0 ELSE g[n - 1] + v[n]
    BY <1>1, <1>4, <1>5
  <2> QED BY <2>1
<1>7. RunningSums(v) = CHOOSE h : Sum(h)
  BY DEF RunningSums
<1>8. PICK s : s = RunningSums(v)
  OBVIOUS
<1>9. Sum(s)
  <2> HIDE DEF Sum
  <2> QED BY <1>6, <1>7, <1>8
<1>10. \A n \in 0 .. Len(v) : s[n] = IF n = 0 THEN 0 ELSE s[n - 1] + v[n]
  BY <1>9
<1>11. \A k \in 0 .. Len(v) : s[k] = g[k]
  <2> DEFINE Bad == {k \in Nat : k <= Len(v) /\ s[k] # g[k]}
  <2>1. ASSUME Bad # {} PROVE FALSE
    <3>1. PICK k \in Bad : \A l \in Bad : k <= l
      BY <1>1, <2>1, LeastNat
    <3>2. k \in 0 .. Len(v) /\ s[k] # g[k]
      BY <3>1
    <3>3. k # 0
      BY <1>1, <1>4, <1>10, <3>2
    <3>4. k - 1 \in 0 .. Len(v) /\ k - 1 \notin Bad /\ k \in 1 .. Len(v)
      BY <1>1, <3>1, <3>2, <3>3
    <3>5. s[k - 1] = g[k - 1]
      BY <3>4
    <3> QED BY <1>5, <1>10, <3>2, <3>3, <3>4, <3>5
  <2> QED BY <2>1
<1>12. DOMAIN s = 0 .. Len(v) /\ s = [n \in 0 .. Len(v) |-> s[n]]
  BY <1>9
<1>13. s \in [0 .. Len(v) -> Int]
  BY <1>11, <1>12
<1>14. s[0] = 0 /\ \A k \in 1 .. Len(v) : s[k] = s[k - 1] + v[k]
  <2>1. \A k \in 1 .. Len(v) : k - 1 \in 0 .. Len(v) /\ k \in 0 .. Len(v)
    BY <1>1
  <2>2. 0 \in 0 .. Len(v)
    BY <1>1
  <2> QED BY <1>4, <1>5, <1>11, <2>1, <2>2
<1> QED BY <1>8, <1>13, <1>14

\* Lists that agree up to a place have the same running totals up to it.
LEMMA SumsAgree ==
    ASSUME NEW v \in Seq(Int), NEW w \in Seq(Int), NEW n \in Nat,
           n <= Len(v), n <= Len(w), \A k \in 1 .. n : v[k] = w[k]
    PROVE  \A k \in 0 .. n : RunningSums(v)[k] = RunningSums(w)[k]
<1> DEFINE Bad == {k \in Nat : k <= n /\ RunningSums(v)[k] # RunningSums(w)[k]}
<1>1. ASSUME Bad # {} PROVE FALSE
  <2>1. PICK k \in Bad : \A l \in Bad : k <= l
    BY <1>1, LeastNat
  <2>2. k \in Nat /\ k <= n /\ RunningSums(v)[k] # RunningSums(w)[k]
    BY <2>1
  <2>3. k # 0
    BY <2>2, RunningSumsAre
  <2>4. k - 1 \in Nat /\ k - 1 <= n /\ ~(k <= k - 1) /\ k \in 1 .. n
    BY <2>2, <2>3
  <2>5. RunningSums(v)[k - 1] = RunningSums(w)[k - 1]
    <3>1. k - 1 \notin Bad
      <4> HIDE DEF Bad
      <4> QED BY <2>1, <2>4
    <3> QED BY <2>4, <3>1
  <2>6. k \in 1 .. Len(v) /\ k \in 1 .. Len(w)
    BY <2>4
  <2>7. /\ RunningSums(v)[k] = RunningSums(v)[k - 1] + v[k]
        /\ RunningSums(w)[k] = RunningSums(w)[k - 1] + w[k]
    BY <2>6, RunningSumsAre
  <2> QED BY <2>2, <2>4, <2>5, <2>7
<1> QED BY <1>1

\* Lists that differ in one place have running totals that differ from there on,
\* by as much.
LEMMA SumsDiffer ==
    ASSUME NEW v \in Seq(Int), NEW w \in Seq(Int), Len(v) = Len(w), NEW i \in 1 .. Len(v),
           \A k \in 1 .. Len(v) : k # i => v[k] = w[k]
    PROVE  SumOf(w) = SumOf(v) - v[i] + w[i]
<1> DEFINE S == RunningSums(v)
           T == RunningSums(w)
           n == Len(v)
           d == w[i] - v[i]
           Bad == {k \in Nat : k <= n /\ ~(T[k] = S[k] + IF i <= k THEN d ELSE 0)}
<1>1. /\ n \in Nat /\ i \in Nat /\ v[i] \in Int /\ w[i] \in Int
      /\ \A k \in 1 .. n : v[k] \in Int /\ w[k] \in Int
  OBVIOUS
<1>2. /\ \A k \in 0 .. n : S[k] \in Int /\ T[k] \in Int
      /\ S[0] = 0 /\ T[0] = 0
      /\ \A k \in 1 .. n : S[k] = S[k - 1] + v[k] /\ T[k] = T[k - 1] + w[k]
  BY RunningSumsAre
<1> HIDE DEF S, T
<1>3. ASSUME Bad # {} PROVE FALSE
  <2>1. PICK k \in Bad : \A l \in Bad : k <= l
    BY <1>3, LeastNat
  <2>2. k \in Nat /\ k <= n /\ ~(T[k] = S[k] + IF i <= k THEN d ELSE 0)
    BY <2>1
  <2>3. k # 0
    BY <1>1, <1>2, <2>2
  <2>4. k - 1 \in Nat /\ k - 1 <= n /\ ~(k <= k - 1) /\ k \in 1 .. n /\ k - 1 \in 0 .. n
    BY <1>1, <2>2, <2>3
  <2>5. T[k - 1] = S[k - 1] + IF i <= k - 1 THEN d ELSE 0
    <3>1. k - 1 \notin Bad
      <4> HIDE DEF Bad
      <4> QED BY <2>1, <2>4
    <3> QED BY <2>4, <3>1
  <2>6. /\ S[k] = S[k - 1] + v[k] /\ T[k] = T[k - 1] + w[k]
        /\ S[k - 1] \in Int /\ T[k - 1] \in Int /\ v[k] \in Int /\ w[k] \in Int
        /\ k # i => v[k] = w[k]
    BY <1>1, <1>2, <2>4
  <2>7. CASE k = i
    <3>1. T[k - 1] = S[k - 1]
      BY <2>2, <2>5, <2>6, <2>7
    <3>2. T[k] = S[k] - v[k] + w[k] /\ S[k] \in Int
      BY <1>1, <2>6, <2>7, <3>1
    <3> QED BY <1>1, <2>2, <2>7, <3>2
  <2>8. CASE k # i
    <3>1. (i <= k) = (i <= k - 1)
      BY <1>1, <2>2, <2>8
    <3>2. PICK e \in Int : e = IF i <= k THEN d ELSE 0
      BY <1>1
    <3>3. T[k - 1] = S[k - 1] + e /\ T[k] # S[k] + e
      BY <2>2, <2>5, <3>1, <3>2
    <3>4. v[k] = w[k]
      BY <2>6, <2>8
    <3> QED BY <2>6, <3>3, <3>4
  <2> QED BY <2>7, <2>8
<1>4. T[n] = S[n] + d
  <2>1. n \notin Bad
    BY <1>3
  <2> QED BY <1>1, <2>1
<1>5. S[n] \in Int
  BY <1>1, <1>2
<1> QED BY <1>1, <1>4, <1>5 DEF SumOf, S, T

\* The list m is the list v with nothing outside the places in K.
Masked(m, v, K) ==
    Len(m) = Len(v) /\ \A k \in 1 .. Len(v) : m[k] = IF k \in K THEN v[k] ELSE 0

\* The sum at some places of a list is the sum of a list with nothing elsewhere.
LEMMA SumOverIs ==
    ASSUME NEW v \in Seq(Int), NEW K
    PROVE  \E m \in Seq(Int) : Masked(m, v, K) /\ SumOver(K, v) = SumOf(m)
<1>1. PICK m : m = [k \in DOMAIN v |-> IF k \in K THEN v[k] ELSE 0]
  OBVIOUS
<1>2. DOMAIN v = 1 .. Len(v) /\ Len(v) \in Nat /\ \A k \in 1 .. Len(v) : v[k] \in Int
  OBVIOUS
<1>3. m \in Seq(Int) /\ Len(m) = Len(v)
  BY <1>1, <1>2
<1> QED BY <1>1, <1>2, <1>3 DEF SumOver, Masked

\* Sums of integers are integers.
LEMMA SumType ==
    ASSUME NEW v \in Seq(Int)
    PROVE  SumOf(v) \in Int /\ \A K : SumOver(K, v) \in Int
<1>1. ASSUME NEW m \in Seq(Int) PROVE SumOf(m) \in Int
  <2>1. RunningSums(m) \in [0 .. Len(m) -> Int] /\ Len(m) \in 0 .. Len(m)
    BY RunningSumsAre
  <2> QED BY <2>1 DEF SumOf
<1>2. ASSUME NEW K PROVE SumOver(K, v) \in Int
  <2>1. PICK m \in Seq(Int) : Masked(m, v, K) /\ SumOver(K, v) = SumOf(m)
    BY SumOverIs
  <2> QED BY <1>1, <2>1
<1> QED BY <1>1, <1>2

\* Nothing adds up to nothing.
LEMMA SumNothing ==
    ASSUME NEW v \in Seq(Int), Len(v) = 0
    PROVE  SumOf(v) = 0 /\ \A K : SumOver(K, v) = 0
<1>1. ASSUME NEW m \in Seq(Int), Len(m) = 0 PROVE SumOf(m) = 0
  BY <1>1, RunningSumsAre DEF SumOf
<1>2. ASSUME NEW K PROVE SumOver(K, v) = 0
  <2>1. PICK m \in Seq(Int) : Masked(m, v, K) /\ SumOver(K, v) = SumOf(m)
    BY SumOverIs
  <2> QED BY <1>1, <2>1 DEF Masked
<1> QED BY <1>1, <1>2

\* One number more.
LEMMA SumAppended ==
    ASSUME NEW v \in Seq(Int), NEW w \in Seq(Int), Len(w) = Len(v) + 1,
           \A k \in 1 .. Len(v) : w[k] = v[k]
    PROVE  /\ SumOf(w) = SumOf(v) + w[Len(w)]
           /\ \A k \in 0 .. Len(v) : RunningSums(w)[k] = RunningSums(v)[k]
<1> DEFINE n == Len(v)
<1>1. n \in Nat /\ n <= Len(w) /\ n + 1 \in 1 .. Len(w) /\ n + 1 - 1 = n
  OBVIOUS
<1>2. \A k \in 0 .. n : RunningSums(w)[k] = RunningSums(v)[k]
  BY <1>1, SumsAgree
<1>3. RunningSums(w)[n + 1] = RunningSums(w)[n + 1 - 1] + w[n + 1]
  BY <1>1, RunningSumsAre
<1> QED BY <1>1, <1>2, <1>3 DEF SumOf

\* The places K of the list v and the places L of the list w, and what is
\* there, are the same as far as S goes.
Alike(v, K, w, L, S) == \A k \in S : (k \in L <=> k \in K) /\ (k \in K => w[k] = v[k])

\* The sum at some places when the list grows by one.
LEMMA SumOverAppended ==
    ASSUME NEW v \in Seq(Int), NEW w \in Seq(Int), Len(w) = Len(v) + 1, NEW K, NEW L,
           Alike(v, K, w, L, 1 .. Len(v))
    PROVE  SumOver(L, w) = SumOver(K, v) + IF Len(w) \in L THEN w[Len(w)] ELSE 0
<1>1. PICK a \in Seq(Int) : Masked(a, v, K) /\ SumOver(K, v) = SumOf(a)
  BY SumOverIs
<1>2. PICK b \in Seq(Int) : Masked(b, w, L) /\ SumOver(L, w) = SumOf(b)
  BY SumOverIs
<1>3. Len(b) = Len(a) + 1 /\ Len(a) \in Nat /\ Len(w) \in 1 .. Len(w)
  BY <1>1, <1>2 DEF Masked
<1>4. \A k \in 1 .. Len(a) : k \in 1 .. Len(v) /\ k \in 1 .. Len(w)
  BY <1>1, <1>3 DEF Masked
<1>5. \A k \in 1 .. Len(a) : b[k] = a[k]
  BY <1>1, <1>2, <1>4 DEF Alike, Masked
<1>6. SumOf(b) = SumOf(a) + b[Len(b)]
  BY <1>3, <1>5, SumAppended
<1> QED BY <1>1, <1>2, <1>3, <1>6 DEF Masked

\* The sum at some places when the list, or the choice of places, changes in one.
LEMMA SumOverChanged ==
    ASSUME NEW v \in Seq(Int), NEW w \in Seq(Int), Len(w) = Len(v), NEW K, NEW L,
           NEW i \in 1 .. Len(v),
           Alike(v, K, w, L, (1 .. Len(v)) \ {i})
    PROVE  SumOver(L, w) =
             SumOver(K, v) - (IF i \in K THEN v[i] ELSE 0) + (IF i \in L THEN w[i] ELSE 0)
<1>1. PICK a \in Seq(Int) : Masked(a, v, K) /\ SumOver(K, v) = SumOf(a)
  BY SumOverIs
<1>2. PICK b \in Seq(Int) : Masked(b, w, L) /\ SumOver(L, w) = SumOf(b)
  BY SumOverIs
<1>3. Len(a) = Len(b) /\ i \in 1 .. Len(a)
  BY <1>1, <1>2 DEF Masked
<1>4. \A k \in 1 .. Len(a) : k # i => a[k] = b[k]
  BY <1>1, <1>2 DEF Alike, Masked
<1>5. SumOf(b) = SumOf(a) - a[i] + b[i]
  BY <1>3, <1>4, SumsDiffer
<1>6. a[i] = (IF i \in K THEN v[i] ELSE 0) /\ b[i] = (IF i \in L THEN w[i] ELSE 0)
  BY <1>1, <1>2 DEF Masked
<1> QED BY <1>1, <1>2, <1>5, <1>6

\* The sum at some places when nothing changes at them.
LEMMA SumOverSame ==
    ASSUME NEW v \in Seq(Int), NEW w \in Seq(Int), Len(w) = Len(v), NEW K, NEW L,
           Alike(v, K, w, L, 1 .. Len(v))
    PROVE  SumOver(L, w) = SumOver(K, v)
<1>1. PICK a \in Seq(Int) : Masked(a, v, K) /\ SumOver(K, v) = SumOf(a)
  BY SumOverIs
<1>2. PICK b \in Seq(Int) : Masked(b, w, L) /\ SumOver(L, w) = SumOf(b)
  BY SumOverIs
<1>3. Len(a) = Len(b) /\ \A k \in 1 .. Len(a) : a[k] = b[k]
  BY <1>1, <1>2 DEF Alike, Masked
<1>4. RunningSums(a)[Len(a)] = RunningSums(b)[Len(a)]
  <2>1. PICK n : n = Len(a)
    OBVIOUS
  <2>2. n \in Nat /\ n <= Len(a) /\ n <= Len(b) /\ \A k \in 1 .. n : a[k] = b[k]
    BY <1>3, <2>1
  <2>3. \A k \in 0 .. n : RunningSums(a)[k] = RunningSums(b)[k]
    BY <2>2, SumsAgree
  <2> QED BY <2>1, <2>2, <2>3
<1> QED BY <1>1, <1>2, <1>3, <1>4 DEF SumOf

\* The sum at no place of a list.
LEMMA SumOverNowhere ==
    ASSUME NEW v \in Seq(Int)
    PROVE  SumOver({}, v) = 0
<1>1. PICK K : K = {}
  OBVIOUS
<1>2. PICK m \in Seq(Int) : Masked(m, v, K) /\ SumOver(K, v) = SumOf(m)
  BY SumOverIs
<1>3. \A k \in 1 .. Len(m) : m[k] = 0
  BY <1>1, <1>2 DEF Masked
<1> DEFINE Bad == {k \in Nat : k <= Len(m) /\ RunningSums(m)[k] # 0}
<1>4. ASSUME Bad # {} PROVE FALSE
  <2>1. PICK k \in Bad : \A l \in Bad : k <= l
    BY <1>4, LeastNat
  <2>2. k \in Nat /\ k <= Len(m) /\ RunningSums(m)[k] # 0
    BY <2>1
  <2>3. k # 0
    BY <2>2, RunningSumsAre
  <2>4. k - 1 \in Nat /\ k - 1 <= Len(m) /\ ~(k <= k - 1) /\ k \in 1 .. Len(m)
    BY <2>2, <2>3
  <2>5. k - 1 \notin Bad
    <3> HIDE DEF Bad
    <3> QED BY <2>1, <2>4
  <2>6. RunningSums(m)[k - 1] = 0
    BY <2>4, <2>5
  <2>7. RunningSums(m)[k] = RunningSums(m)[k - 1] + m[k]
    BY <2>4, RunningSumsAre
  <2> QED BY <1>3, <2>2, <2>4, <2>6, <2>7
<1>5. Len(m) \in Nat /\ Len(m) \notin Bad
  BY <1>4
<1> QED BY <1>1, <1>2, <1>5 DEF SumOf

\* The list w is the list v without the number in place i.
Dropped(v, w, i) ==
    Len(w) = Len(v) - 1 /\ \A n \in 1 .. Len(w) : w[n] = IF n < i THEN v[n] ELSE v[n + 1]

\* One number less.
LEMMA SumDropped ==
    ASSUME NEW v \in Seq(Int), NEW w \in Seq(Int), NEW i \in 1 .. Len(v), Dropped(v, w, i)
    PROVE  SumOf(w) = SumOf(v) - v[i]
<1> DEFINE S == RunningSums(v)
           T == RunningSums(w)
           n == Len(v)
           Bad == {k \in Nat : k < n /\ ~(T[k] = IF k < i THEN S[k] ELSE S[k + 1] - v[i])}
<1>0. Len(w) = n - 1 /\ \A k \in 1 .. n - 1 : w[k] = IF k < i THEN v[k] ELSE v[k + 1]
  BY DEF Dropped
<1>1. n \in Nat /\ i \in 1 .. n /\ \A k \in 1 .. n : v[k] \in Int
  OBVIOUS
<1>2. /\ \A k \in 0 .. n : S[k] \in Int
      /\ S[0] = 0 /\ \A k \in 1 .. n : S[k] = S[k - 1] + v[k]
  BY RunningSumsAre
<1>3. T[0] = 0 /\ \A k \in 1 .. n - 1 : T[k] = T[k - 1] + w[k]
  BY <1>0, RunningSumsAre
<1> HIDE DEF S, T, n
<1>4. ASSUME Bad # {} PROVE FALSE
  <2>1. PICK k \in Bad : \A l \in Bad : k <= l
    BY <1>4, LeastNat
  <2>2. k \in Nat /\ k < n /\ ~(T[k] = IF k < i THEN S[k] ELSE S[k + 1] - v[i])
    BY <2>1
  <2>3. k # 0
    BY <1>1, <1>2, <1>3, <2>2
  <2>4. PICK l : l = k - 1
    OBVIOUS
  <2>5. l \in Nat /\ l < n /\ ~(k <= l) /\ k = l + 1 /\ k \in 1 .. n - 1
    BY <1>1, <2>2, <2>3, <2>4
  <2>6. T[l] = IF l < i THEN S[l] ELSE S[l + 1] - v[i]
    <3>1. l \notin Bad
      <4> HIDE DEF Bad
      <4> QED BY <2>1, <2>5
    <3> QED BY <2>5, <3>1
  <2>7. T[k] = T[l] + w[k] /\ w[k] = IF k < i THEN v[k] ELSE v[k + 1]
    BY <1>0, <1>3, <2>4, <2>5
  <2>8. S[k] = S[l] + v[k] /\ S[k + 1] = S[k] + v[k + 1]
    <3>1. k \in 1 .. n /\ k + 1 \in 1 .. n /\ (k + 1) - 1 = k
      BY ONLY <1>1, <2>5
    <3> QED BY ONLY <1>2, <2>4, <3>1
  <2>9. S[l] \in Int /\ S[k] \in Int /\ v[k] \in Int /\ v[k + 1] \in Int
    <3>1. l \in 0 .. n /\ k \in 0 .. n /\ k \in 1 .. n /\ k + 1 \in 1 .. n
      BY ONLY <1>1, <2>5
    <3> QED BY ONLY <1>1, <1>2, <3>1
  <2>10. CASE k < i
    BY ONLY <1>1, <2>2, <2>5, <2>6, <2>7, <2>8, <2>9, <2>10
  <2>11. CASE k = i
    BY ONLY <1>1, <2>2, <2>5, <2>6, <2>7, <2>8, <2>9, <2>11
  <2>12. CASE k > i
    <3>1. T[l] = S[k] - v[i] /\ w[k] = v[k + 1] /\ v[i] \in Int
      BY ONLY <1>1, <2>5, <2>6, <2>7, <2>12
    <3>2. T[k] = S[k + 1] - v[i]
      BY ONLY <2>7, <2>8, <2>9, <3>1
    <3> QED BY ONLY <1>1, <2>2, <2>5, <2>12, <3>2
  <2> QED BY ONLY <1>1, <2>2, <2>10, <2>11, <2>12
<1>5. PICK l : l = n - 1
  OBVIOUS
<1>6. l \in Nat /\ l < n /\ l + 1 = n
  BY <1>1, <1>5
<1>7. T[l] = S[n] - v[i]
  <2>1. l \notin Bad
    BY <1>4
  <2>2. T[l] = IF l < i THEN S[l] ELSE S[l + 1] - v[i]
    BY <1>6, <2>1
  <2>3. CASE l < i
    <3>1. i = n
      BY <1>1, <1>6, <2>3
    <3>2. S[n] = S[l] + v[n] /\ S[l] \in Int /\ v[n] \in Int
      <4>1. n \in 1 .. n /\ l \in 0 .. n
        BY <1>1, <1>6
      <4> QED BY <1>1, <1>2, <1>5, <4>1
    <3> QED BY <2>2, <2>3, <3>1, <3>2
  <2>4. CASE ~(l < i)
    BY <1>6, <2>2, <2>4
  <2> QED BY <2>3, <2>4
<1> QED BY <1>0, <1>5, <1>7 DEF SumOf, S, T, n
=============================================================================
