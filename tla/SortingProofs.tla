----------------------------- MODULE SortingProofs -----------------------------
(***************************************************************************)
(* A set of numbers, the list of them in their order, the search for the   *)
(* first in a list that reaches a height, and stretches of a list.         *)
(***************************************************************************)
EXTENDS Sorting, Integers, Functions, FiniteSetsExt, FiniteSetTheorems, SequenceTheorems, WellFoundedInduction,
        TLAPS

\* Among natural numbers one is the smallest.
LEMMA MinIsOne ==
    ASSUME NEW S, S \subseteq Nat, S # {}
    PROVE  Min(S) \in S /\ \A y \in S : Min(S) <= y
  <1>1. PICK R : IsWellFoundedOn(R, Nat) /\ \A a, b \in Nat : a < b => <<a, b>> \in R
    <2>1. \A a, b \in Nat : a < b => <<a, b>> \in OpToRel(<, Nat)
      BY Zenon DEF OpToRel
    <2> QED
      BY <2>1, NatLessThanWellFounded, Zenon
  <1>2. PICK x \in S : \A y \in S : <<y, x>> \notin R
    BY <1>1, WFMin, ZenonT(60)
  <1>3. ASSUME NEW y \in S PROVE x <= y
    <2>1. x \in Nat /\ y \in Nat /\ ~(y < x)
      BY <1>1, <1>2
    <2> QED
      BY <2>1
  <1> QED
    BY <1>3 DEF Min

\* The place of a number among the others of its set.
Smaller(S, t) == {u \in S : u < t}
Rank(S, t) == Cardinality(Smaller(S, t)) + 1

\* Larger numbers have larger places, none beyond the size of the set.
LEMMA RankIs ==
    ASSUME NEW S, S \subseteq Int, IsFiniteSet(S)
    PROVE  /\ \A t \in S : Rank(S, t) \in 1..Cardinality(S)
           /\ \A t, u \in S : t < u => Rank(S, t) < Rank(S, u)
  <1>1. Cardinality(S) \in Nat
    BY FS_CardinalityType
  <1>2. ASSUME NEW t \in Int PROVE IsFiniteSet(Smaller(S, t)) /\ Cardinality(Smaller(S, t)) \in Nat
    <2>1. Smaller(S, t) \in SUBSET S
      BY DEF Smaller
    <2>2. IsFiniteSet(Smaller(S, t))
      BY <2>1, FS_Subset
    <2> QED
      BY <2>2, FS_CardinalityType
  <1>3. ASSUME NEW t \in S, NEW T, IsFiniteSet(T), Smaller(S, t) \subseteq T, t \in T
        PROVE  Cardinality(Smaller(S, t)) < Cardinality(T)
    <2>1. Smaller(S, t) \in SUBSET T /\ Smaller(S, t) # T /\ t \in Int
      BY <1>3 DEF Smaller
    <2>2. Cardinality(Smaller(S, t)) <= Cardinality(T) /\ Cardinality(T) # Cardinality(Smaller(S, t))
      BY <1>3, <2>1, FS_Subset
    <2>3. Cardinality(Smaller(S, t)) \in Nat /\ Cardinality(T) \in Nat
      BY <1>2, <1>3, <2>1, FS_CardinalityType
    <2> QED
      BY <2>2, <2>3
  <1>4. ASSUME NEW t \in S PROVE Rank(S, t) \in 1..Cardinality(S)
    <2>1. Cardinality(Smaller(S, t)) < Cardinality(S) /\ Cardinality(Smaller(S, t)) \in Nat
      <3>1. Smaller(S, t) \subseteq S
        BY DEF Smaller
      <3> QED
        BY <1>2, <1>3, <3>1
    <2> QED
      BY <1>1, <2>1 DEF Rank
  <1>5. ASSUME NEW t \in S, NEW u \in S, t < u PROVE Rank(S, t) < Rank(S, u)
    <2>1. Smaller(S, t) \subseteq Smaller(S, u) /\ t \in Smaller(S, u)
      <3>1. t \in Int /\ u \in Int /\ \A v \in S : v \in Int
        OBVIOUS
      <3>2. \A v \in S : v < t => v < u
        BY <1>5, <3>1
      <3> QED
        BY <1>5, <3>2 DEF Smaller
    <2>2. Cardinality(Smaller(S, t)) < Cardinality(Smaller(S, u))
      BY <1>2, <1>3, <2>1
    <2>3. Cardinality(Smaller(S, t)) \in Nat /\ Cardinality(Smaller(S, u)) \in Nat
      BY <1>2
    <2> QED
      BY <2>2, <2>3 DEF Rank
  <1> QED
    BY <1>4, <1>5

\* The list has each number once, and they grow along it.
LEMMA SortedIs ==
    ASSUME NEW S, S \subseteq Int, IsFiniteSet(S)
    PROVE  /\ Cardinality(S) \in Nat
           /\ Sorted(S) \in [1..Cardinality(S) -> S]
           /\ \A t \in S : \E k \in 1..Cardinality(S) : Sorted(S)[k] = t
           /\ \A k, l \in 1..Cardinality(S) : k < l => Sorted(S)[k] < Sorted(S)[l]
  <1> DEFINE n == Cardinality(S)
             rank == [t \in S |-> Rank(S, t)]
  <1>1. n \in Nat
    BY FS_CardinalityType
  <1>2. /\ \A t \in S : Rank(S, t) \in 1..n
        /\ \A t, u \in S : t < u => Rank(S, t) < Rank(S, u)
    BY RankIs
  <1>3. \A t, u \in S : Rank(S, t) = Rank(S, u) => t = u
    <2>1. \A t, u \in S : t \in Int /\ u \in Int /\ Rank(S, t) \in Int /\ Rank(S, u) \in Int
      BY <1>2
    <2> QED
      BY <1>2, <2>1
  <1>4. rank \in Injection(S, 1..n)
    BY <1>2, <1>3 DEF Injection, IsInjective
  <1>5. IsFiniteSet(1..n) /\ Cardinality(1..n) = n
    BY <1>1, FS_Interval
  <1>6. rank \in Surjection(S, 1..n)
    BY <1>4, <1>5, FS_Injection
  <1>7. ASSUME NEW k \in 1..n PROVE \E t \in S : Rank(S, t) = k
    BY <1>6 DEF Surjection
  <1>8. ASSUME NEW k \in 1..n PROVE Sorted(S)[k] \in S /\ Rank(S, Sorted(S)[k]) = k
    <2>1. Sorted(S)[k] = CHOOSE t \in S : Cardinality(Smaller(S, t)) = k - 1
      BY DEF Sorted, Smaller
    <2>2. PICK t \in S : Rank(S, t) = k
      BY <1>7
    <2>3. \A u \in S : Cardinality(Smaller(S, u)) = k - 1 <=> Rank(S, u) = k
      <3> TAKE u \in S
      <3>1. IsFiniteSet(Smaller(S, u))
        <4>1. Smaller(S, u) \in SUBSET S
          BY DEF Smaller
        <4> QED
          BY <4>1, FS_Subset
      <3>2. Cardinality(Smaller(S, u)) \in Nat
        BY <3>1, FS_CardinalityType
      <3> QED
        BY <1>1, <3>2 DEF Rank
    <2> QED
      BY <2>1, <2>2, <2>3
  <1>9. Sorted(S) \in [1..n -> S]
    BY <1>8 DEF Sorted
  <1>10. ASSUME NEW t \in S PROVE \E k \in 1..n : Sorted(S)[k] = t
    <2>1. Rank(S, t) \in 1..n
      BY <1>2
    <2> QED
      BY <1>3, <1>8, <2>1
  <1>11. ASSUME NEW k \in 1..n, NEW l \in 1..n, k < l PROVE Sorted(S)[k] < Sorted(S)[l]
    <2> DEFINE t == Sorted(S)[k]
               u == Sorted(S)[l]
    <2>1. t \in S /\ u \in S /\ Rank(S, t) = k /\ Rank(S, u) = l
      BY <1>8
    <2> HIDE DEF t, u
    <2>2. t \in Int /\ u \in Int /\ ~(u < t) /\ t # u
      BY <1>2, <1>11, <2>1
    <2> QED
      BY <2>2 DEF t, u
  <1> QED
    BY <1>1, <1>9, <1>10, <1>11

-----------------------------------------------------------------------------
(* Binary search.                                                          *)

\* The binary search of findChunkPathForHeight, as an equation that the function of its ranges
\* satisfies.
IsSearch(f, chunks, h) ==
    f = [range \in (DOMAIN chunks) \X (DOMAIN chunks) |->
            LET lo == range[1]
                hi == range[2]
                mid == lo + (hi - lo) \div 2
            IN  IF lo >= hi THEN chunks[lo]
                ELSE IF chunks[mid] < h THEN f[<<mid + 1, hi>>] ELSE f[<<lo, mid>>]]

\* What it finds in a range: the first chunk that reaches the height, or else the last one.
Reaching(chunks, h, lo, hi) == {i \in lo..hi : i = hi \/ h <= chunks[i]}
Found(chunks, h, lo, hi) == IF lo >= hi THEN chunks[lo] ELSE chunks[Min(Reaching(chunks, h, lo, hi))]

Grows(chunks, n) == \A k, l \in 1..n : k < l => chunks[k] < chunks[l]

\* The middle of a range.
LEMMA Middle ==
    ASSUME NEW lo \in Nat, NEW hi \in Nat, lo < hi
    PROVE  /\ lo + (hi - lo) \div 2 \in lo..(hi - 1)
           /\ hi - (lo + (hi - lo) \div 2 + 1) < hi - lo /\ (lo + (hi - lo) \div 2) - lo < hi - lo
  <1>1. (hi - lo) \div 2 \in 0..(hi - lo - 1)
    OBVIOUS
  <1> QED
    BY <1>1

\* The first of a range that reaches a height.
LEMMA FirstReaching ==
    ASSUME NEW n \in Nat, NEW chunks \in [1..n -> Nat], NEW h \in Nat,
           NEW lo \in 1..n, NEW hi \in 1..n, lo <= hi,
           NEW k \in Reaching(chunks, h, lo, hi), \A i \in lo..hi : i < k => chunks[i] < h
    PROVE  Min(Reaching(chunks, h, lo, hi)) = k
  <1> DEFINE S == Reaching(chunks, h, lo, hi)
  <1>1. S \subseteq Nat /\ S # {} /\ k \in lo..hi
    <2>1. lo..hi \subseteq Nat /\ S \subseteq lo..hi
      BY DEF Reaching
    <2>2. k \in S
      OBVIOUS
    <2> HIDE DEF S
    <2> QED
      BY <2>1, <2>2
  <1> HIDE DEF S
  <1>2. Min(S) \in S /\ \A y \in S : Min(S) <= y
    BY <1>1, MinIsOne, ZenonT(60)
  <1> USE DEF S
  <1>3. \A i \in S : ~(i < k)
    <2> TAKE i \in S
    <2>1. i \in lo..hi /\ (i = hi \/ h <= chunks[i])
      BY DEF Reaching
    <2>2. i \in 1..n /\ chunks[i] \in Nat
      BY <2>1
    <2> QED
      BY <1>1, <2>1, <2>2
  <1> HIDE DEF S
  <1>4. Min(S) \in Nat /\ k \in Nat /\ k \in S
    BY <1>1, <1>2 DEF S
  <1>5. Min(S) <= k /\ ~(Min(S) < k)
    BY <1>2, <1>3, <1>4
  <1> QED
    BY <1>4, <1>5 DEF S

\* The search finds it: in a half that still has it, at every turn.
LEMMA HalvesFind ==
    ASSUME NEW n \in Nat, NEW chunks \in [1..n -> Nat], NEW h \in Nat,
           Grows(chunks, n),
           NEW lo \in 1..n, NEW hi \in 1..n, lo < hi,
           NEW mid, mid = lo + (hi - lo) \div 2
    PROVE  Found(chunks, h, lo, hi) =
              IF chunks[mid] < h THEN Found(chunks, h, mid + 1, hi) ELSE Found(chunks, h, lo, mid)
  <1>1. mid \in lo..(hi - 1) /\ mid \in 1..n /\ mid + 1 \in 1..n /\ chunks[mid] \in Nat
    BY Middle
  <1>2. CASE chunks[mid] < h
    <2>1. \A i \in lo..mid : chunks[i] < h
      <3> TAKE i \in lo..mid
      <3>1. i \in 1..n /\ (i = mid \/ i < mid)
        BY <1>1
      <3>2. chunks[i] <= chunks[mid] /\ chunks[i] \in Nat
        BY <1>1, <3>1 DEF Grows
      <3> QED
        BY <1>1, <1>2, <3>2
    <2> DEFINE S == Reaching(chunks, h, mid + 1, hi)
    <2>2. S \subseteq Nat /\ S # {}
      <3>1. S \subseteq Nat
        BY <1>1 DEF Reaching
      <3>2. mid + 1 <= hi /\ hi \in (mid + 1)..hi
        BY <1>1
      <3>3. hi \in S
        BY <3>2 DEF Reaching
      <3> QED
        BY <3>1, <3>3
    <2>3. PICK k \in S : \A y \in S : k <= y
      BY <2>2, MinIsOne
    <2>4. k \in (mid + 1)..hi /\ (k = hi \/ h <= chunks[k])
      BY <2>3 DEF Reaching
    <2>5. \A i \in (mid + 1)..hi : i < k => chunks[i] < h
      <3> SUFFICES ASSUME NEW i \in (mid + 1)..hi, i < k PROVE chunks[i] < h
        OBVIOUS
      <3>1. i \notin S
        BY <1>1, <2>3, <2>4
      <3>2. i \in 1..n /\ chunks[i] \in Nat
        BY <1>1
      <3> QED
        BY <3>1, <3>2 DEF Reaching
    <2>6. Min(S) = k
      <3>1. mid + 1 \in 1..n /\ mid + 1 <= hi /\ k \in Reaching(chunks, h, mid + 1, hi)
        BY <1>1, <2>3
      <3> HIDE DEF S
      <3>2. Min(Reaching(chunks, h, mid + 1, hi)) = k
        BY <2>5, <3>1, FirstReaching, SMTT(60)
      <3> QED
        BY <3>2 DEF S
    <2>7. Min(Reaching(chunks, h, lo, hi)) = k
      <3>1. k \in Reaching(chunks, h, lo, hi)
        BY <1>1, <2>4 DEF Reaching
      <3>2. \A i \in lo..hi : i < k => chunks[i] < h
        <4> TAKE i \in lo..hi
        <4>1. i \in lo..mid \/ i \in (mid + 1)..hi
          BY <1>1
        <4> QED
          BY <2>1, <2>5, <4>1
      <3> QED
        BY <3>1, <3>2, FirstReaching, SMTT(60)
    <2>8. Found(chunks, h, lo, hi) = chunks[k]
      BY <2>7 DEF Found
    <2>9. Found(chunks, h, mid + 1, hi) = chunks[k]
      <3>1. CASE mid + 1 >= hi
        <4>1. k = mid + 1
          BY <1>1, <2>4, <3>1
        <4> QED
          BY <3>1, <4>1 DEF Found
      <3>2. CASE ~(mid + 1 >= hi)
        BY <2>6, <3>2 DEF Found
      <3> QED
        BY <3>1, <3>2
    <2> QED
      BY <1>2, <2>8, <2>9
  <1>3. CASE ~(chunks[mid] < h)
    <2> DEFINE S == Reaching(chunks, h, lo, mid)
    <2>1. h <= chunks[mid]
      BY <1>1, <1>3
    <2>2. S \subseteq Nat /\ S # {}
      BY <1>1 DEF Reaching
    <2>3. PICK k \in S : \A y \in S : k <= y
      BY <2>2, MinIsOne
    <2>4. k \in lo..mid /\ h <= chunks[k]
      BY <2>1, <2>3 DEF Reaching
    <2>5. \A i \in lo..hi : i < k => chunks[i] < h
      <3> SUFFICES ASSUME NEW i \in lo..hi, i < k PROVE chunks[i] < h
        OBVIOUS
      <3>1. i \in lo..mid
        BY <1>1, <2>4
      <3>2. i \notin S
        BY <1>1, <2>3, <2>4
      <3>3. i \in 1..n /\ chunks[i] \in Nat
        BY <1>1
      <3> QED
        BY <3>1, <3>2, <3>3 DEF Reaching
    <2>6. Min(S) = k
      <3>1. \A i \in lo..mid : i < k => chunks[i] < h
        BY <1>1, <2>5
      <3> QED
        BY <1>1, <2>3, <3>1, FirstReaching, SMTT(60)
    <2>7. Min(Reaching(chunks, h, lo, hi)) = k
      <3>1. k \in Reaching(chunks, h, lo, hi)
        BY <1>1, <2>4 DEF Reaching
      <3> QED
        BY <2>5, <3>1, FirstReaching, SMTT(60)
    <2>8. Found(chunks, h, lo, hi) = chunks[k]
      BY <2>7 DEF Found
    <2>9. Found(chunks, h, lo, mid) = chunks[k]
      <3>1. CASE lo >= mid
        <4>1. k = lo
          BY <1>1, <2>4, <3>1
        <4> QED
          BY <3>1, <4>1 DEF Found
      <3>2. CASE ~(lo >= mid)
        BY <2>6, <3>2 DEF Found
      <3> QED
        BY <3>1, <3>2
    <2> QED
      BY <1>3, <2>8, <2>9
  <1> QED
    BY <1>2, <1>3

\* So there is such a function, and every one is this: a shortest range on which one is not would
\* have a half on which it is not.
LEMMA SearchIs ==
    ASSUME NEW n \in Nat, NEW chunks \in [1..n -> Nat], NEW h \in Nat, Grows(chunks, n)
    PROVE  /\ \E f : IsSearch(f, chunks, h)
           /\ \A f : IsSearch(f, chunks, h) =>
                 \A lo, hi \in 1..n : f[<<lo, hi>>] = Found(chunks, h, lo, hi)
  <1>1. DOMAIN chunks = 1..n
    OBVIOUS
  <1>2. ASSUME NEW lo \in 1..n, NEW hi \in 1..n, lo < hi
        PROVE  LET mid == lo + (hi - lo) \div 2
               IN  /\ mid \in 1..n /\ mid + 1 \in 1..n
                   /\ hi - (mid + 1) < hi - lo /\ mid - lo < hi - lo
                   /\ Found(chunks, h, lo, hi) =
                         IF chunks[mid] < h THEN Found(chunks, h, mid + 1, hi) ELSE Found(chunks, h, lo, mid)
    <2> DEFINE mid == lo + (hi - lo) \div 2
    <2>1. mid \in lo..(hi - 1) /\ hi - (mid + 1) < hi - lo /\ mid - lo < hi - lo
      BY <1>2, Middle
    <2>4. mid = lo + (hi - lo) \div 2
      OBVIOUS
    <2> HIDE DEF mid
    <2>2. Found(chunks, h, lo, hi) =
             IF chunks[mid] < h THEN Found(chunks, h, mid + 1, hi) ELSE Found(chunks, h, lo, mid)
      BY <1>2, <2>4, HalvesFind, SMTT(60)
    <2>3. mid \in 1..n /\ mid + 1 \in 1..n
      BY <2>1
    <2> QED
      BY <2>1, <2>2, <2>3 DEF mid
  <1>3. \E f : IsSearch(f, chunks, h)
    <2> DEFINE f == [range \in (1..n) \X (1..n) |-> Found(chunks, h, range[1], range[2])]
    <2>1. ASSUME NEW range \in (1..n) \X (1..n)
          PROVE  LET lo == range[1]
                     hi == range[2]
                     mid == lo + (hi - lo) \div 2
                 IN  f[range] = IF lo >= hi THEN chunks[lo]
                                ELSE IF chunks[mid] < h THEN f[<<mid + 1, hi>>] ELSE f[<<lo, mid>>]
      <3> DEFINE lo == range[1]
                 hi == range[2]
                 mid == lo + (hi - lo) \div 2
      <3>1. lo \in 1..n /\ hi \in 1..n /\ f[range] = Found(chunks, h, lo, hi)
        OBVIOUS
      <3> HIDE DEF lo, hi
      <3>2. CASE lo >= hi
        BY <3>1, <3>2 DEF Found, lo, hi
      <3>3. CASE ~(lo >= hi)
        <4>1. lo < hi
          BY <3>1, <3>3
        <4>2. /\ mid \in 1..n /\ mid + 1 \in 1..n
              /\ Found(chunks, h, lo, hi) =
                    IF chunks[mid] < h THEN Found(chunks, h, mid + 1, hi) ELSE Found(chunks, h, lo, mid)
          BY <1>2, <3>1, <4>1
        <4> HIDE DEF mid
        <4>3. f[<<mid + 1, hi>>] = Found(chunks, h, mid + 1, hi) /\ f[<<lo, mid>>] = Found(chunks, h, lo, mid)
          BY <3>1, <4>2
        <4> HIDE DEF f
        <4> QED
          BY <3>1, <3>3, <4>2, <4>3 DEF mid, lo, hi
      <3> QED
        BY <3>2, <3>3
    <2>2. f = [range \in (1..n) \X (1..n) |->
                  LET lo == range[1]
                      hi == range[2]
                      mid == lo + (hi - lo) \div 2
                  IN  IF lo >= hi THEN chunks[lo]
                      ELSE IF chunks[mid] < h THEN f[<<mid + 1, hi>>] ELSE f[<<lo, mid>>]]
      BY <2>1
    <2> HIDE DEF f
    <2> QED
      BY <1>1, <2>2 DEF IsSearch
  <1>4. ASSUME NEW f, IsSearch(f, chunks, h)
        PROVE  \A lo, hi \in 1..n : f[<<lo, hi>>] = Found(chunks, h, lo, hi)
    <2>1. ASSUME NEW lo \in 1..n, NEW hi \in 1..n
          PROVE  f[<<lo, hi>>] =
                    LET mid == lo + (hi - lo) \div 2
                    IN  IF lo >= hi THEN chunks[lo]
                        ELSE IF chunks[mid] < h THEN f[<<mid + 1, hi>>] ELSE f[<<lo, mid>>]
      BY <1>1, <1>4 DEF IsSearch
    <2> DEFINE Differs(lo, hi) == f[<<lo, hi>>] # Found(chunks, h, lo, hi)
               Wrong == {d \in Nat : \E lo, hi \in 1..n : lo < hi /\ d = hi - lo /\ Differs(lo, hi)}
    <2>2. ASSUME NEW lo \in 1..n, NEW hi \in 1..n, lo >= hi PROVE ~Differs(lo, hi)
      BY <2>1, <2>2 DEF Found
    <2>3. Wrong = {}
      <3> SUFFICES ASSUME Wrong # {} PROVE FALSE
        OBVIOUS
      <3>1. PICK d \in Wrong : \A e \in Wrong : d <= e
        <4>1. Wrong \subseteq Nat
          OBVIOUS
        <4> HIDE DEF Wrong
        <4> QED
          BY <4>1, MinIsOne
      <3>2. PICK lo \in 1..n, hi \in 1..n : lo < hi /\ d = hi - lo /\ Differs(lo, hi)
        BY <3>1
      <3> DEFINE mid == lo + (hi - lo) \div 2
      <3>3. /\ mid \in 1..n /\ mid + 1 \in 1..n
            /\ hi - (mid + 1) < hi - lo /\ mid - lo < hi - lo
            /\ Found(chunks, h, lo, hi) =
                  IF chunks[mid] < h THEN Found(chunks, h, mid + 1, hi) ELSE Found(chunks, h, lo, mid)
        BY <1>2, <3>2
      <3>4. f[<<lo, hi>>] = IF chunks[mid] < h THEN f[<<mid + 1, hi>>] ELSE f[<<lo, mid>>]
        BY <2>1, <3>2
      <3> HIDE DEF mid
      <3>5. ASSUME NEW a \in 1..n, NEW b \in 1..n, b - a < hi - lo PROVE ~Differs(a, b)
        <4>1. CASE a >= b
          BY <2>2, <4>1
        <4>2. CASE ~(a >= b)
          <5>1. b - a \in Nat /\ a < b
            BY <4>2
          <5>2. b - a \notin Wrong
            <6>1. hi - lo \in Nat /\ d = hi - lo
              BY <3>2
            <6> HIDE DEF Wrong
            <6> QED
              BY <3>1, <3>5, <5>1, <6>1
          <5> HIDE DEF Differs
          <5> QED
            BY <5>1, <5>2
        <4> QED
          BY <4>1, <4>2
      <3>6. ~Differs(mid + 1, hi) /\ ~Differs(lo, mid)
        BY <3>3, <3>5
      <3> QED
        BY <3>2, <3>3, <3>4, <3>6
    <2> QED
      <3> TAKE lo \in 1..n, hi \in 1..n
      <3>1. CASE lo >= hi
        BY <2>2, <3>1
      <3>2. CASE ~(lo >= hi)
        <4>1. hi - lo \in Nat /\ lo < hi
          BY <3>2
        <4>2. hi - lo \notin Wrong
          BY <2>3
        <4> HIDE DEF Differs
        <4>3. ~Differs(lo, hi)
          BY <4>1, <4>2
        <4> QED
          BY <4>3 DEF Differs
      <3> QED
        BY <3>1, <3>2
  <1> QED
    BY <1>3, <1>4

-----------------------------------------------------------------------------
(* Stretches of numbers in their order.                                    *)

\* Among whole numbers that are bounded from below one is the smallest.
LEMMA LeastIs ==
    ASSUME NEW S, S \subseteq Int, S # {}, NEW b \in Int, \A y \in S : b <= y
    PROVE  Min(S) \in S /\ \A y \in S : Min(S) <= y
  <1> DEFINE N == {y - b : y \in S}
  <1>1. N \subseteq Nat /\ N # {}
    <2>1. \A y \in S : y - b \in Nat
      OBVIOUS
    <2> QED
      BY <2>1
  <1>2. PICK m \in N : \A y \in N : m <= y
    <2> HIDE DEF N
    <2> QED
      BY <1>1, MinIsOne
  <1>3. PICK x \in S : m = x - b
    BY <1>2
  <1>4. ASSUME NEW y \in S PROVE x <= y
    <2>1. y - b \in N
      OBVIOUS
    <2>2. m <= y - b /\ x \in Int /\ y \in Int
      BY <1>2, <2>1
    <2> QED
      BY <1>3, <2>2
  <1> QED
    BY <1>4 DEF Min

\* Among those that are bounded from above one is the largest.
LEMMA GreatestIs ==
    ASSUME NEW S, S \subseteq Int, S # {}, NEW b \in Int, \A y \in S : y <= b
    PROVE  \E x \in S : \A y \in S : y <= x
  <1> DEFINE N == {b - y : y \in S}
  <1>1. N \subseteq Nat /\ N # {}
    OBVIOUS
  <1>2. PICK m \in N : \A y \in N : m <= y
    <2> HIDE DEF N
    <2> QED
      BY <1>1, MinIsOne
  <1>3. PICK x \in S : m = b - x
    BY <1>2
  <1>4. ASSUME NEW y \in S PROVE y <= x
    <2>1. b - y \in N
      OBVIOUS
    <2>2. m <= b - y /\ x \in Int /\ y \in Int
      BY <1>2, <2>1
    <2> QED
      BY <1>3, <2>2
  <1> QED
    BY <1>4

\* The places up to one of them are as many as they are.
LEMMA Prefix ==
    ASSUME NEW n \in Nat, NEW K, K \subseteq 1..n, \A k \in K, l \in 1..n : l < k => l \in K
    PROVE  Cardinality(K) \in 0..n /\ K = 1..Cardinality(K)
  <1>1. CASE K = {}
    <2>1. Cardinality(K) = 0
      BY <1>1, FS_EmptySet
    <2> QED
      BY <1>1, <2>1
  <1>2. CASE K # {}
    <2>1. PICK m \in K : \A k \in K : k <= m
      <3>1. K \subseteq Int /\ (\A k \in K : k <= n) /\ n \in Int
        OBVIOUS
      <3> QED
        BY <1>2, <3>1, GreatestIs
    <2>2. m \in 1..n /\ \A l \in 1..m : l \in 1..n /\ (l < m \/ l = m)
      BY <2>1
    <2>3. K = 1..m
      <3>1. \A l \in 1..m : l \in K
        BY <2>1, <2>2
      <3>2. \A k \in K : k \in 1..m
        BY <2>1, <2>2
      <3> QED
        BY <3>1, <3>2
    <2>4. Cardinality(1..m) = m
      BY <2>2, FS_Interval
    <2> QED
      BY <2>2, <2>3, <2>4
  <1> QED
    BY <1>1, <1>2

\* A list of the numbers of a set from its first to its last, in their order.
Stretch(t, S) ==
    /\ S \subseteq Int /\ t \in Seq(S) /\ Len(t) \in Nat \ {0}
    /\ \A k, l \in 1..Len(t) : k < l => t[k] < t[l]
    /\ \A s \in S : t[1] <= s /\ s <= t[Len(t)] => \E k \in 1..Len(t) : t[k] = s

\* A list is of numbers.
LEMMA StretchIs ==
    ASSUME NEW S, NEW t, Stretch(t, S)
    PROVE  /\ DOMAIN t = 1..Len(t) /\ Len(t) \in Nat \ {0}
           /\ \A s \in S : s \in Int
           /\ \A k \in 1..Len(t) : t[k] \in S /\ t[k] \in Int
           /\ \A k, l \in 1..Len(t) : /\ k < l <=> t[k] < t[l]
                                      /\ k <= l <=> t[k] <= t[l]
  <1>1. /\ DOMAIN t = 1..Len(t) /\ Len(t) \in Nat \ {0}
        /\ \A s \in S : s \in Int
        /\ \A k \in 1..Len(t) : t[k] \in S /\ t[k] \in Int
    <2>1. S \subseteq Int /\ t \in Seq(S) /\ Len(t) \in Nat \ {0}
      BY DEF Stretch
    <2>2. DOMAIN t = 1..Len(t) /\ \A k \in 1..Len(t) : t[k] \in S
      BY <2>1, LenProperties, ElementOfSeq
    <2> QED
      BY <2>1, <2>2
  <1>2. ASSUME NEW k \in 1..Len(t), NEW l \in 1..Len(t)
        PROVE  /\ k < l <=> t[k] < t[l]
               /\ k <= l <=> t[k] <= t[l]
    <2>1. t[k] \in Int /\ t[l] \in Int /\ (k < l => t[k] < t[l]) /\ (l < k => t[l] < t[k])
      BY <1>1 DEF Stretch
    <2>2. k = l => t[k] = t[l]
      OBVIOUS
    <2> QED
      BY <2>1, <2>2
  <1> QED
    BY <1>1, <1>2

\* A part of a list is one.
LEMMA Slice ==
    ASSUME NEW S, NEW t, Stretch(t, S),
           NEW a \in 1..Len(t), NEW b \in a..Len(t)
    PROVE  /\ Stretch(SubSeq(t, a, b), S) /\ Len(SubSeq(t, a, b)) = b - a + 1
           /\ \A k \in 1..(b - a + 1) : SubSeq(t, a, b)[k] = t[a + k - 1]
  <1>1. Len(t) \in Nat /\ (\A k \in a..b : t[k] \in S) /\ \A s \in S : s \in Int
    BY StretchIs
  <1> DEFINE u == SubSeq(t, a, b)
             m == b - a + 1
  <1>2. u \in Seq(S) /\ Len(u) = m /\ \A k \in 1..m : u[k] = t[a + k - 1]
    BY <1>1, SubSeqProperties
  <1>3. m \in Nat \ {0} /\ \A k \in 1..m : a + k - 1 \in 1..Len(t)
    BY <1>1
  <1> HIDE DEF u
  <1>4. \A k, l \in 1..m : k < l => u[k] < u[l]
    <2> TAKE k \in 1..m, l \in 1..m
    <2>1. u[k] = t[a + k - 1] /\ u[l] = t[a + l - 1]
      BY <1>2
    <2>2. k < l => a + k - 1 < a + l - 1
      OBVIOUS
    <2>3. a + k - 1 \in 1..Len(t) /\ a + l - 1 \in 1..Len(t)
      BY <1>3
    <2> QED
      BY <2>1, <2>2, <2>3 DEF Stretch
  <1>5. ASSUME NEW s \in S, u[1] <= s, s <= u[m] PROVE \E k \in 1..m : u[k] = s
    <2>1. u[1] = t[a] /\ u[m] = t[b] /\ s \in Int
      <3>1. 1 \in 1..m /\ m \in 1..m /\ a + 1 - 1 = a /\ a + m - 1 = b
        BY <1>3
      <3> QED
        BY <1>1, <1>2, <3>1
    <2>2. t[1] <= t[a] /\ t[b] <= t[Len(t)] /\ t[1] \in Int /\ t[Len(t)] \in Int /\ t[a] \in Int /\ t[b] \in Int
      <3>1. 1 \in 1..Len(t) /\ Len(t) \in 1..Len(t) /\ b \in 1..Len(t) /\ 1 <= a /\ b <= Len(t)
        BY <1>1
      <3> QED
        BY <3>1, StretchIs
    <2>3. t[1] <= s /\ s <= t[Len(t)]
      BY <1>5, <2>1, <2>2
    <2>4. PICK k \in 1..Len(t) : t[k] = s
      BY <2>3 DEF Stretch
    <2>5. a <= k /\ k <= b
      <3>1. b \in 1..Len(t)
        BY <1>1
      <3>2. t[a] <= t[k] /\ t[k] <= t[b]
        BY <1>5, <2>1, <2>4
      <3> QED
        BY <3>1, <3>2, StretchIs
    <2>6. k - a + 1 \in 1..m /\ a + (k - a + 1) - 1 = k
      BY <2>5
    <2>7. u[k - a + 1] = t[a + (k - a + 1) - 1]
      BY <1>2, <2>6
    <2> QED
      BY <2>4, <2>6, <2>7
  <1>6. Stretch(u, S)
    BY <1>2, <1>3, <1>4, <1>5 DEF Stretch
  <1> QED
    BY <1>2, <1>6 DEF u

\* In a list of numbers whose neighbours are not farther apart than M, none is farther away than that
\* from the first.
LEMMA Reaches ==
    ASSUME NEW S, NEW t, Stretch(t, S), NEW M \in Nat,
           \A s, e \in S : s < e => e <= s + M \/ \E between \in S : s < between /\ between < e
    PROVE  \A k \in 1..Len(t) : t[k] <= t[1] + (k - 1) * M
  <1> DEFINE n == Len(t)
             Far == {k \in 1..n : ~(t[k] <= t[1] + (k - 1) * M)}
  <1>1. n \in Nat \ {0} /\ (\A s \in S : s \in Int) /\ \A k \in 1..n : t[k] \in S /\ t[k] \in Int
    BY StretchIs
  <1>2. SUFFICES ASSUME Far # {} PROVE FALSE
    OBVIOUS
  <1>3. PICK k \in Far : \A l \in Far : k <= l
    <2>1. Far \subseteq Nat
      OBVIOUS
    <2> HIDE DEF Far
    <2> QED
      BY <1>2, <2>1, MinIsOne
  <1>4. k \in 1..n /\ ~(t[k] <= t[1] + (k - 1) * M)
    BY <1>3
  <1>5. k # 1
    <2>1. t[1] \in Int /\ (1 - 1) * M = 0
      BY <1>1
    <2> QED
      BY <1>4, <2>1
  <1>6. k - 1 \in 1..n /\ k - 1 \notin Far
    BY <1>3, <1>5
  <1>7. t[k - 1] <= t[1] + (k - 2) * M
    <2>1. k - 1 - 1 = k - 2
      BY <1>4
    <2> QED
      BY <1>6, <2>1
  <1>8. t[k - 1] < t[k]
    BY <1>4, <1>6, StretchIs, SMTT(60)
  <1>9. ~\E between \in S : t[k - 1] < between /\ between < t[k]
    <2> SUFFICES ASSUME NEW s \in S, t[k - 1] < s, s < t[k] PROVE FALSE
      OBVIOUS
    <2>1. t[1] <= t[k - 1] /\ t[k] <= t[n] /\ 1 \in 1..n /\ n \in 1..n
      BY <1>1, <1>4, <1>6, StretchIs, SMTT(60)
    <2>2. s \in Int /\ t[1] \in Int /\ t[n] \in Int /\ t[k] \in Int /\ t[k - 1] \in Int
      BY <1>1, <1>4, <1>6, <2>1
    <2>3. t[1] <= s /\ s <= t[n]
      BY <2>1, <2>2
    <2>4. PICK l \in 1..n : t[l] = s
      BY <2>3 DEF Stretch
    <2>5. k - 1 < l /\ l < k
      BY <1>4, <1>6, <2>4, StretchIs
    <2> QED
      BY <1>4, <2>5
  <1>10. t[k] <= t[k - 1] + M
    BY <1>1, <1>4, <1>6, <1>8, <1>9
  <1>11. (k - 2) * M + M = (k - 1) * M /\ (k - 2) * M \in Int
    BY <1>4
  <1>12. t[k] \in Int /\ t[k - 1] \in Int /\ t[1] \in Int
    BY <1>1, <1>4, <1>6
  <1> QED
    BY <1>4, <1>7, <1>10, <1>11, <1>12

\* The numbers at some places, and those of a set between two others, without the one or without
\* the other.
NumbersAt(t, c, d) == {t[k] : k \in c..d}
BeyondTo(S, s, x) == {u \in S : s < u /\ u <= x}
FromTo(S, x, s) == {u \in S : x <= u /\ u < s}

\* In a list they are as many as they are places apart.
LEMMA Apart ==
    ASSUME NEW S, NEW t, Stretch(t, S),
           NEW a \in 1..Len(t), NEW b \in a..Len(t)
    PROVE  /\ IsFiniteSet(BeyondTo(S, t[a], t[b])) /\ Cardinality(BeyondTo(S, t[a], t[b])) = b - a
           /\ IsFiniteSet(FromTo(S, t[a], t[b])) /\ Cardinality(FromTo(S, t[a], t[b])) = b - a
  <1>1. /\ Len(t) \in Nat \ {0} /\ b \in 1..Len(t) /\ a \in Nat /\ b \in Nat
        /\ \A s \in S : s \in Int
        /\ \A k \in 1..Len(t) : t[k] \in S /\ t[k] \in Int
        /\ \A k, l \in 1..Len(t) : (k < l <=> t[k] < t[l]) /\ (k <= l <=> t[k] <= t[l])
    BY StretchIs
  <1>2. ASSUME NEW s \in S, t[a] <= s, s <= t[b] PROVE \E k \in a..b : t[k] = s
    <2>1. t[1] <= t[a] /\ t[b] <= t[Len(t)]
      BY <1>1
    <2>2. t[1] <= s /\ s <= t[Len(t)]
      <3>1. s \in Int /\ t[1] \in Int /\ t[a] \in Int /\ t[b] \in Int /\ t[Len(t)] \in Int
        BY <1>1
      <3> QED
        BY <1>2, <2>1, <3>1
    <2>3. PICK k \in 1..Len(t) : t[k] = s
      BY <2>2 DEF Stretch
    <2> QED
      BY <1>1, <1>2, <2>3
  <1>3. ASSUME NEW c \in Int, NEW d \in Int, a <= c, d <= b, c = d + 1 \/ c <= d
        PROVE  /\ IsFiniteSet(NumbersAt(t, c, d))
               /\ Cardinality(NumbersAt(t, c, d)) = d - c + 1
    <2> DEFINE f == [k \in c..d |-> t[k]]
               T == NumbersAt(t, c, d)
    <2>1. \A k, l \in c..d : f[k] = f[l] => k = l
      <3> SUFFICES ASSUME NEW k \in c..d, NEW l \in c..d, t[k] = t[l] PROVE k = l
        OBVIOUS
      <3>1. k \in 1..Len(t) /\ l \in 1..Len(t)
        BY <1>1, <1>3
      <3>2. t[k] \in Int /\ ~(t[k] < t[l]) /\ ~(t[l] < t[k])
        BY <1>1, <3>1
      <3> QED
        BY <1>1, <3>1, <3>2
    <2>2. f \in [c..d -> T] /\ \A s \in T : \E k \in c..d : f[k] = s
      BY DEF NumbersAt
    <2> HIDE DEF f, T
    <2>3. f \in Bijection(c..d, T)
      BY <2>1, <2>2 DEF Bijection, Injection, Surjection, IsInjective
    <2>4. IsFiniteSet(c..d) /\ Cardinality(c..d) = d - c + 1
      BY <1>3, FS_Interval
    <2>5. ExistsBijection(c..d, T)
      BY <2>3 DEF ExistsBijection
    <2> QED
      BY <2>4, <2>5, FS_Bijection DEF T
  <1>4. BeyondTo(S, t[a], t[b]) = NumbersAt(t, a + 1, b)
    <2>1. ASSUME NEW s \in BeyondTo(S, t[a], t[b]) PROVE s \in NumbersAt(t, a + 1, b)
      <3>1. s \in S /\ t[a] < s /\ s <= t[b] /\ s \in Int /\ t[a] \in Int
        BY <1>1, <2>1 DEF BeyondTo
      <3>2. PICK k \in a..b : t[k] = s
        BY <1>2, <3>1
      <3>3. k # a
        BY <3>1, <3>2
      <3>4. k \in (a + 1)..b
        BY <1>1, <3>3
      <3> QED
        BY <3>2, <3>4 DEF NumbersAt
    <2>2. ASSUME NEW k \in (a + 1)..b PROVE t[k] \in BeyondTo(S, t[a], t[b])
      <3>1. k \in 1..Len(t) /\ a < k /\ k <= b
        BY <1>1
      <3> QED
        BY <1>1, <3>1 DEF BeyondTo
    <2> QED
      BY <2>1, <2>2 DEF NumbersAt
  <1>5. FromTo(S, t[a], t[b]) = NumbersAt(t, a, b - 1)
    <2>1. ASSUME NEW s \in FromTo(S, t[a], t[b]) PROVE s \in NumbersAt(t, a, b - 1)
      <3>1. s \in S /\ t[a] <= s /\ s < t[b] /\ s \in Int /\ t[b] \in Int
        BY <1>1, <2>1 DEF FromTo
      <3>2. PICK k \in a..b : t[k] = s
        BY <1>2, <3>1
      <3>3. k # b
        BY <3>1, <3>2
      <3>4. k \in a..(b - 1)
        BY <1>1, <3>3
      <3> QED
        BY <3>2, <3>4 DEF NumbersAt
    <2>2. ASSUME NEW k \in a..(b - 1) PROVE t[k] \in FromTo(S, t[a], t[b])
      <3>1. k \in 1..Len(t) /\ a <= k /\ k < b
        BY <1>1
      <3> QED
        BY <1>1, <3>1 DEF FromTo
    <2> QED
      BY <2>1, <2>2 DEF NumbersAt
  <1>6. /\ IsFiniteSet(NumbersAt(t, a + 1, b)) /\ Cardinality(NumbersAt(t, a + 1, b)) = b - a
        /\ IsFiniteSet(NumbersAt(t, a, b - 1)) /\ Cardinality(NumbersAt(t, a, b - 1)) = b - a
    <2>1. /\ a + 1 \in Int /\ b - 1 \in Int /\ a <= a + 1 /\ b - 1 <= b
          /\ (a + 1 = b + 1 \/ a + 1 <= b) /\ (a = (b - 1) + 1 \/ a <= b - 1)
      BY <1>1
    <2>2. b - (a + 1) + 1 = b - a /\ (b - 1) - a + 1 = b - a
      BY <1>1
    <2>3. IsFiniteSet(NumbersAt(t, a + 1, b)) /\ Cardinality(NumbersAt(t, a + 1, b)) = b - (a + 1) + 1
      BY <1>1, <2>1, <1>3
    <2>4. IsFiniteSet(NumbersAt(t, a, b - 1)) /\ Cardinality(NumbersAt(t, a, b - 1)) = (b - 1) - a + 1
      BY <1>1, <2>1, <1>3
    <2> QED
      BY <2>2, <2>3, <2>4
  <1> QED
    BY <1>1, <1>4, <1>5, <1>6

\* A set with more numbers is larger.
LEMMA MoreIsLarger ==
    ASSUME NEW A, NEW B, IsFiniteSet(B), A \subseteq B, NEW x \in B, x \notin A
    PROVE  Cardinality(A) # Cardinality(B)
  <1>1. A \in SUBSET B /\ A # B
    OBVIOUS
  <1> QED
    BY <1>1, FS_Subset

\* And so the number that is n places after the first of a list is the only one with n others to it.
LEMMA PlaceAfter ==
    ASSUME NEW S, NEW t, Stretch(t, S), NEW n \in Nat, n < Len(t)
    PROVE  (CHOOSE x \in S : Cardinality(BeyondTo(S, t[1], x)) = n /\ t[1] <= x) = t[1 + n]
  <1>1. /\ Len(t) \in Nat \ {0} /\ 1 + n \in 1..Len(t) /\ 1 \in 1..Len(t) /\ t[1] \in Int
        /\ \A s \in S : s \in Int
        /\ \A k \in 1..Len(t) : t[k] \in S /\ t[k] \in Int
    BY StretchIs
  <1>2. ASSUME NEW k \in 1..Len(t)
        PROVE  /\ IsFiniteSet(BeyondTo(S, t[1], t[k])) /\ Cardinality(BeyondTo(S, t[1], t[k])) = k - 1
               /\ t[1] <= t[k]
    <2>1. k \in 1..Len(t) /\ 1 <= k
      BY <1>1
    <2> QED
      BY <1>1, <2>1, Apart, StretchIs
  <1>3. ASSUME NEW x \in S, Cardinality(BeyondTo(S, t[1], x)) = n, t[1] <= x, x # t[1 + n] PROVE FALSE
    <2>1. x \in Int /\ t[1 + n] \in Int
      BY <1>1
    <2>2. CASE x < t[1 + n]
      <3>1. t[1 + n] <= t[Len(t)] /\ t[Len(t)] \in Int
        BY <1>1, StretchIs
      <3>2. PICK k \in 1..Len(t) : t[k] = x
        <4>1. x <= t[Len(t)]
          BY <2>1, <2>2, <3>1
        <4> QED
          BY <1>3, <4>1 DEF Stretch
      <3>3. k - 1 = n
        BY <1>2, <1>3, <3>2
      <3> QED
        BY <1>3, <3>2, <3>3
    <2>3. CASE t[1 + n] < x
      <3> DEFINE A == BeyondTo(S, t[1], t[1 + n])
                 B == BeyondTo(S, t[1], x)
      <3>1. A \subseteq B /\ x \in B /\ x \notin A
        <4>1. t[1] < x
          BY <1>1, <1>2, <2>1, <2>3
        <4>2. \A u \in S : u <= t[1 + n] => u <= x
          BY <1>1, <2>1, <2>3
        <4>3. ~(x <= t[1 + n])
          BY <2>1, <2>3
        <4>4. A \subseteq B
          BY <4>2 DEF BeyondTo
        <4>5. x \in B /\ x \notin A
          <5>1. x <= x
            BY <2>1
          <5> QED
            BY <4>1, <4>3, <5>1 DEF BeyondTo
        <4> QED
          BY <4>4, <4>5
      <3>2. IsFiniteSet(B)
        <4>1. IsFiniteSet(t[1]..x)
          BY <1>1, <2>1, FS_Interval
        <4>2. \A u \in B : u \in t[1]..x
          BY <1>1, <2>1 DEF BeyondTo
        <4> QED
          BY <4>1, <4>2, FS_Subset
      <3>3. Cardinality(A) = n /\ Cardinality(B) = n
        BY <1>1, <1>2, <1>3
      <3> HIDE DEF A, B
      <3> QED
        BY <3>1, <3>2, <3>3, MoreIsLarger
    <2> QED
      BY <1>3, <2>1, <2>2, <2>3
  <1>4. t[1 + n] \in S /\ Cardinality(BeyondTo(S, t[1], t[1 + n])) = n /\ t[1] <= t[1 + n]
    BY <1>1, <1>2
  <1> QED
    BY <1>3, <1>4

\* The same to the last of a list.
LEMMA PlaceBefore ==
    ASSUME NEW S, NEW t, Stretch(t, S), NEW n \in Nat, n < Len(t)
    PROVE  (CHOOSE x \in S : Cardinality(FromTo(S, x, t[Len(t)])) = n /\ x <= t[Len(t)]) = t[Len(t) - n]
  <1> DEFINE z == Len(t)
  <1>1. /\ z \in Nat \ {0} /\ z - n \in 1..z /\ z \in 1..z /\ 1 \in 1..z /\ t[z] \in Int
        /\ \A s \in S : s \in Int
        /\ \A k \in 1..z : t[k] \in S /\ t[k] \in Int
    BY StretchIs
  <1>2. ASSUME NEW k \in 1..z
        PROVE  /\ IsFiniteSet(FromTo(S, t[k], t[z])) /\ Cardinality(FromTo(S, t[k], t[z])) = z - k
               /\ t[k] <= t[z]
    <2>1. z \in k..z
      BY <1>1
    <2> QED
      BY <1>1, <2>1, Apart, StretchIs
  <1>3. ASSUME NEW x \in S, Cardinality(FromTo(S, x, t[z])) = n, x <= t[z], x # t[z - n] PROVE FALSE
    <2>1. x \in Int /\ t[z - n] \in Int
      BY <1>1
    <2>2. CASE t[z - n] < x
      <3>1. t[1] <= t[z - n] /\ t[1] \in Int
        BY <1>1, StretchIs
      <3>2. PICK k \in 1..z : t[k] = x
        <4>1. t[1] <= x
          BY <2>1, <2>2, <3>1
        <4> QED
          BY <1>3, <4>1 DEF Stretch
      <3>3. z - k = n
        BY <1>2, <1>3, <3>2
      <3>4. k = z - n
        BY <1>1, <3>3
      <3> QED
        BY <1>3, <3>2, <3>4
    <2>3. CASE x < t[z - n]
      <3> DEFINE A == FromTo(S, t[z - n], t[z])
                 B == FromTo(S, x, t[z])
      <3>1. A \subseteq B /\ x \in B /\ x \notin A
        <4>1. x < t[z]
          BY <1>1, <1>2, <2>1, <2>3, SMTT(60)
        <4>2. \A u \in S : t[z - n] <= u => x <= u
          BY <1>1, <2>1, <2>3
        <4>3. ~(t[z - n] <= x)
          BY <2>1, <2>3
        <4>4. A \subseteq B
          BY <4>2 DEF FromTo
        <4>5. x \in B /\ x \notin A
          <5>1. x <= x
            BY <2>1
          <5> QED
            BY <4>1, <4>3, <5>1 DEF FromTo
        <4> QED
          BY <4>4, <4>5
      <3>2. IsFiniteSet(B)
        <4>1. IsFiniteSet(x..t[z])
          BY <1>1, <2>1, FS_Interval
        <4>2. \A u \in B : u \in x..t[z]
          BY <1>1, <2>1 DEF FromTo
        <4> QED
          BY <4>1, <4>2, FS_Subset
      <3>3. Cardinality(A) = n /\ Cardinality(B) = n
        BY <1>1, <1>2, <1>3
      <3> HIDE DEF A, B
      <3> QED
        BY <3>1, <3>2, <3>3, MoreIsLarger
    <2> QED
      BY <1>3, <2>1, <2>2, <2>3
  <1>4. t[z - n] \in S /\ Cardinality(FromTo(S, t[z - n], t[z])) = n /\ t[z - n] <= t[z]
    BY <1>1, <1>2
  <1> QED
    BY <1>3, <1>4

=============================================================================
