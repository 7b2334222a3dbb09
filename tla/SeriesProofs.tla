------------------------------ MODULE SeriesProofs ------------------------------
(***************************************************************************)
(* The queries of history on any rows and any intervals: which rows a      *)
(* range takes in, what is known of a pool before a time, which intervals  *)
(* a range finds, and which buckets are made of them and are left.         *)
(***************************************************************************)
EXTENDS Series, SortingProofs, SequenceTheorems

-----------------------------------------------------------------------------
(* Whole periods.                                                          *)

\* Products keep the order.
LEMMA Times ==
    ASSUME NEW P \in Nat \ {0}, NEW a \in Int, NEW b \in Int
    PROVE  a * P \in Int /\ (a <= b => a * P <= b * P) /\ (a < b => a * P + P <= b * P)
  OBVIOUS

\* A time is in the period it is rounded down to.
LEMMA Floor ==
    ASSUME NEW P \in Nat \ {0}, NEW t \in Int
    PROVE  /\ t \div P \in Int /\ TimeBucketFloor(t, P) \in Int
           /\ TimeBucketFloor(t, P) <= t /\ t < TimeBucketFloor(t, P) + P
  <1>1. t \div P \in Int /\ t % P \in 0..(P - 1) /\ t = P * (t \div P) + (t % P)
    OBVIOUS
  <1> QED
    BY <1>1 DEF TimeBucketFloor

\* A time is before the beginning of a period if the period it is in is.
LEMMA BeforeAPeriod ==
    ASSUME NEW P \in Nat \ {0}, NEW t \in Int, NEW k \in Int
    PROVE  TimeBucketFloor(t, P) < k * P <=> t < k * P
  <1> DEFINE q == t \div P
  <1>1. q \in Int /\ q * P <= t /\ t < q * P + P
    BY Floor DEF TimeBucketFloor
  <1>2. q * P \in Int /\ k * P \in Int
    BY <1>1, Times
  <1>3. q * P < k * P => q * P + P <= k * P
    <2>1. CASE q < k
      BY <1>1, <2>1, Times
    <2>2. CASE ~(q < k)
      <3>1. k * P <= q * P
        BY <1>1, <2>2, Times
      <3> QED
        BY <1>2, <3>1
    <2> QED
      BY <2>1, <2>2
  <1> QED
    BY <1>1, <1>2, <1>3 DEF TimeBucketFloor

\* The same of the days that a range begins and ends in.
LEMMA BeforeADay ==
    ASSUME NEW t \in Int, NEW u \in Int
    PROVE  /\ TimeBucketFloor(t, DayPeriod) < TimeBucketFloor(u, DayPeriod)
                <=> t < TimeBucketFloor(u, DayPeriod)
           /\ TimeBucketCeil(u, DayPeriod) <= TimeBucketFloor(t, DayPeriod)
                <=> TimeBucketCeil(u, DayPeriod) <= t
           /\ TimeBucketFloor(u, DayPeriod) \in Int /\ TimeBucketFloor(u, DayPeriod) <= u
           /\ TimeBucketCeil(u, DayPeriod) \in Int /\ u <= TimeBucketCeil(u, DayPeriod)
           /\ TimeBucketFloor(t, DayPeriod) \in Int /\ TimeBucketFloor(t, DayPeriod) <= t
  <1>1. DayPeriod \in Nat \ {0}
    BY SeriesAssumption
  <1>2. u + DayPeriod - 1 \in Int
    BY <1>1
  <1>3. TimeBucketCeil(u, DayPeriod) = TimeBucketFloor(u + DayPeriod - 1, DayPeriod)
    BY DEF TimeBucketCeil
  <1>4. /\ TimeBucketFloor(u, DayPeriod) \in Int /\ TimeBucketFloor(u, DayPeriod) <= u
        /\ TimeBucketFloor(t, DayPeriod) \in Int /\ TimeBucketFloor(t, DayPeriod) <= t
    BY <1>1, Floor
  <1>5. TimeBucketCeil(u, DayPeriod) \in Int /\ u <= TimeBucketCeil(u, DayPeriod)
    <2>1. /\ TimeBucketFloor(u + DayPeriod - 1, DayPeriod) \in Int
          /\ u + DayPeriod - 1 < TimeBucketFloor(u + DayPeriod - 1, DayPeriod) + DayPeriod
      BY <1>1, <1>2, Floor
    <2> QED
      BY <1>1, <1>3, <2>1
  <1>6. TimeBucketFloor(t, DayPeriod) < TimeBucketFloor(u, DayPeriod) <=> t < TimeBucketFloor(u, DayPeriod)
    <2>1. u \div DayPeriod \in Int
      BY <1>1, Floor
    <2> QED
      BY <1>1, <2>1, BeforeAPeriod DEF TimeBucketFloor
  <1>7. TimeBucketFloor(t, DayPeriod) < TimeBucketCeil(u, DayPeriod) <=> t < TimeBucketCeil(u, DayPeriod)
    <2>1. (u + DayPeriod - 1) \div DayPeriod \in Int
      BY <1>1, <1>2, Floor
    <2>2. TimeBucketCeil(u, DayPeriod) = ((u + DayPeriod - 1) \div DayPeriod) * DayPeriod
      BY <1>3 DEF TimeBucketFloor
    <2>3. \A k \in Int : TimeBucketFloor(t, DayPeriod) < k * DayPeriod <=> t < k * DayPeriod
      BY <1>1, BeforeAPeriod
    <2> DEFINE k == (u + DayPeriod - 1) \div DayPeriod
    <2> HIDE DEF k
    <2>4. TimeBucketFloor(t, DayPeriod) < k * DayPeriod <=> t < k * DayPeriod
      BY <2>1, <2>3 DEF k
    <2> QED
      BY <2>2, <2>4 DEF k
  <1> QED
    BY <1>4, <1>5, <1>6, <1>7

-----------------------------------------------------------------------------
(* The parts of a union.                                                   *)

\* Lists of up to three.
LEMMA Concats ==
    ASSUME NEW x, NEW y, NEW z
    PROVE  /\ <<>> \o <<>> = <<>> /\ <<x>> \o <<>> = <<x>> /\ <<>> \o <<x>> = <<x>>
           /\ <<x>> \o <<y>> = <<x, y>> /\ <<x, y>> \o <<>> = <<x, y>>
           /\ <<x, y>> \o <<z>> = <<x, y, z>>
  <1> DEFINE S == {x, y, z}
  <1>1. <<>> \o <<>> = <<>> /\ <<x>> \o <<>> = <<x>> /\ <<>> \o <<x>> = <<x>>
    <2>1. <<>> \in Seq(S) /\ <<x>> \in Seq(S)
      OBVIOUS
    <2> QED
      BY <2>1, ConcatEmptySeq
  <1>2. <<x>> \o <<y>> = <<x, y>> /\ <<x, y>> \o <<>> = <<x, y>>
    <2>1. <<x, y>> \in Seq(S)
      OBVIOUS
    <2>2. <<x, y>> \o <<>> = <<x, y>>
      BY <2>1, ConcatEmptySeq
    <2>3. <<x>> \o <<y>> = <<x, y>>
      <3>1. <<x>> \in Seq(S) /\ <<y>> \in Seq(S) /\ Len(<<x>>) = 1 /\ Len(<<y>>) = 1
        OBVIOUS
      <3>2. <<x>> \o <<y>> \in Seq(S) /\ Len(<<x>> \o <<y>>) = 2
        BY <3>1, ConcatProperties
      <3>3. (<<x>> \o <<y>>)[1] = x /\ (<<x>> \o <<y>>)[2] = y
        BY <3>1, ConcatProperties
      <3>4. Len(<<x, y>>) = 2 /\ \A i \in 1..2 : (<<x>> \o <<y>>)[i] = <<x, y>>[i]
        BY <3>3
      <3> HIDE DEF S
      <3> QED
        BY <2>1, <3>2, <3>4, SeqEqual
    <2> QED
      BY <2>2, <2>3
  <1>3. <<x, y>> \o <<z>> = <<x, y, z>>
    <2>1. <<x, y>> \in Seq(S) /\ <<z>> \in Seq(S) /\ <<x, y, z>> \in Seq(S)
      OBVIOUS
    <2>2. Len(<<x, y>>) = 2 /\ Len(<<z>>) = 1 /\ Len(<<x, y, z>>) = 3
      OBVIOUS
    <2>3. <<x, y>> \o <<z>> \in Seq(S) /\ Len(<<x, y>> \o <<z>>) = 3
      BY <2>1, <2>2, ConcatProperties
    <2>4. /\ (<<x, y>> \o <<z>>)[1] = x /\ (<<x, y>> \o <<z>>)[2] = y
          /\ (<<x, y>> \o <<z>>)[3] = z
      BY <2>1, <2>2, ConcatProperties
    <2>5. \A i \in 1..3 : (<<x, y>> \o <<z>>)[i] = <<x, y, z>>[i]
      BY <2>4
    <2> HIDE DEF S
    <2> QED
      BY <2>1, <2>2, <2>3, <2>5, SeqEqual
  <1> QED
    BY <1>1, <1>2, <1>3

\* Lists of up to three, by their places.
LEMMA Places ==
    ASSUME NEW x, NEW y, NEW z
    PROVE  /\ DOMAIN <<>> = {} /\ DOMAIN <<x>> = {1} /\ DOMAIN <<x, y>> = {1, 2}
           /\ DOMAIN <<x, y, z>> = {1, 2, 3}
           /\ <<x>>[1] = x /\ <<x, y>>[1] = x /\ <<x, y>>[2] = y
           /\ <<x, y, z>>[1] = x /\ <<x, y, z>>[2] = y /\ <<x, y, z>>[3] = z
  <1>1. DOMAIN <<>> = {} /\ DOMAIN <<x>> = {1}
    OBVIOUS
  <1>2. DOMAIN <<x, y>> = {1, 2} /\ DOMAIN <<x, y, z>> = {1, 2, 3}
    OBVIOUS
  <1>3. <<x>>[1] = x /\ <<x, y>>[1] = x /\ <<x, y>>[2] = y
    OBVIOUS
  <1>4. <<x, y, z>>[1] = x /\ <<x, y, z>>[2] = y /\ <<x, y, z>>[3] = z
    OBVIOUS
  <1> QED
    BY <1>1, <1>2, <1>3, <1>4

\* A row is in the parts once, or in none.
InOnePart(parts, r) == \E k \in DOMAIN parts : \A l \in DOMAIN parts : r \in parts[l].rows <=> l = k
InNoPart(parts, r) == \A l \in DOMAIN parts : r \notin parts[l].rows
InTwoParts(parts, r) == \E k, l \in DOMAIN parts : k # l /\ r \in parts[k].rows /\ r \in parts[l].rows

\* A part without rows is left out, and so the parts of a union are up to three.
Part(at, part) == IF part = {} THEN <<>> ELSE <<Aggregate(at, part)>>

\* A row is in exactly one of three sets.
OneOf(r, A, B, C) ==
    \/ r \in A /\ r \notin B /\ r \notin C
    \/ r \notin A /\ r \in B /\ r \notin C
    \/ r \notin A /\ r \notin B /\ r \in C

\* Where a row is in a list of up to three, from where it is in their sets of rows.
LEMMA InLists ==
    ASSUME NEW x, NEW y, NEW z, NEW r
    PROVE  /\ InNoPart(<<>>, r)
           /\ r \notin x.rows => InNoPart(<<x>>, r)
           /\ r \notin x.rows /\ r \notin y.rows => InNoPart(<<x, y>>, r)
           /\ r \notin x.rows /\ r \notin y.rows /\ r \notin z.rows => InNoPart(<<x, y, z>>, r)
           /\ r \in x.rows => InOnePart(<<x>>, r)
           /\ (r \in x.rows /\ r \notin y.rows) \/ (r \notin x.rows /\ r \in y.rows) => InOnePart(<<x, y>>, r)
           /\ OneOf(r, x.rows, y.rows, z.rows) => InOnePart(<<x, y, z>>, r)
           /\ r \in x.rows /\ r \in y.rows => InTwoParts(<<x, y>>, r) /\ InTwoParts(<<x, y, z>>, r)
  <1>1. InNoPart(<<>>, r)
    BY Places DEF InNoPart
  <1>2. r \notin x.rows => InNoPart(<<x>>, r)
    BY Places DEF InNoPart
  <1>3. r \notin x.rows /\ r \notin y.rows => InNoPart(<<x, y>>, r)
    BY Places DEF InNoPart
  <1>4. r \notin x.rows /\ r \notin y.rows /\ r \notin z.rows => InNoPart(<<x, y, z>>, r)
    BY Places DEF InNoPart
  <1>5. r \in x.rows => InOnePart(<<x>>, r)
    BY Places DEF InOnePart
  <1>6. ASSUME (r \in x.rows /\ r \notin y.rows) \/ (r \notin x.rows /\ r \in y.rows)
        PROVE  InOnePart(<<x, y>>, r)
    BY <1>6, Places DEF InOnePart
  <1>7. ASSUME OneOf(r, x.rows, y.rows, z.rows) PROVE InOnePart(<<x, y, z>>, r)
    BY <1>7, Places DEF InOnePart, OneOf
  <1>8. ASSUME r \in x.rows, r \in y.rows PROVE InTwoParts(<<x, y>>, r) /\ InTwoParts(<<x, y, z>>, r)
    BY <1>8, Places DEF InTwoParts
  <1> QED
    BY <1>1, <1>2, <1>3, <1>4, <1>5, <1>6, <1>7, <1>8

\* The same of a list of one.
LEMMA InList ==
    ASSUME NEW x, NEW r
    PROVE  InNoPart(<<>>, r) /\ (r \notin x.rows => InNoPart(<<x>>, r)) /\ (r \in x.rows => InOnePart(<<x>>, r))
  BY InLists

\* The same of a list of two.
LEMMA InPair ==
    ASSUME NEW x, NEW y, NEW r
    PROVE  /\ r \notin x.rows /\ r \notin y.rows => InNoPart(<<x, y>>, r)
           /\ (r \in x.rows /\ r \notin y.rows) \/ (r \notin x.rows /\ r \in y.rows) => InOnePart(<<x, y>>, r)
           /\ r \in x.rows /\ r \in y.rows => InTwoParts(<<x, y>>, r)
  BY InLists

\* A row is in the parts as it is in the three sets.
LEMMA ThreeParts ==
    ASSUME NEW A, NEW B, NEW C, NEW a, NEW b, NEW c, NEW r,
           NEW parts, parts = Part(a, A) \o Part(b, B) \o Part(c, C)
    PROVE  /\ OneOf(r, A, B, C) => InOnePart(parts, r)
           /\ r \notin A /\ r \notin B /\ r \notin C => InNoPart(parts, r)
           /\ r \in A /\ r \in B => InTwoParts(parts, r)
  <1> DEFINE x == Aggregate(a, A)
             y == Aggregate(b, B)
             z == Aggregate(c, C)
  <1>1. x.rows = A /\ y.rows = B /\ z.rows = C
    BY DEF Aggregate
  <1>2. /\ Part(a, A) = IF A = {} THEN <<>> ELSE <<x>>
        /\ Part(b, B) = IF B = {} THEN <<>> ELSE <<y>>
        /\ Part(c, C) = IF C = {} THEN <<>> ELSE <<z>>
    BY DEF Part
  <1> HIDE DEF x, y, z
  <1>3. CASE A = {} /\ B = {} /\ C = {}
    <2>1. parts = <<>>
      BY <1>2, <1>3, Concats
    <2> QED
      BY <1>1, <1>3, <2>1, InList DEF OneOf
  <1>4. CASE A # {} /\ B = {} /\ C = {}
    <2>1. parts = <<x>>
      BY <1>2, <1>4, Concats
    <2> QED
      BY <1>1, <1>4, <2>1, InList DEF OneOf
  <1>5. CASE A = {} /\ B # {} /\ C = {}
    <2>1. parts = <<y>>
      BY <1>2, <1>5, Concats
    <2> QED
      BY <1>1, <1>5, <2>1, InList DEF OneOf
  <1>6. CASE A = {} /\ B = {} /\ C # {}
    <2>1. parts = <<z>>
      BY <1>2, <1>6, Concats
    <2> QED
      BY <1>1, <1>6, <2>1, InList DEF OneOf
  <1>7. CASE A # {} /\ B # {} /\ C = {}
    <2>1. parts = <<x, y>>
      BY <1>2, <1>7, Concats
    <2> QED
      BY <1>1, <1>7, <2>1, InPair DEF OneOf
  <1>8. CASE A # {} /\ B = {} /\ C # {}
    <2>1. parts = <<x, z>>
      BY <1>2, <1>8, Concats
    <2> QED
      BY <1>1, <1>8, <2>1, InPair DEF OneOf
  <1>9. CASE A = {} /\ B # {} /\ C # {}
    <2>1. parts = <<y, z>>
      BY <1>2, <1>9, Concats
    <2> QED
      BY <1>1, <1>9, <2>1, InPair DEF OneOf
  <1>10. CASE A # {} /\ B # {} /\ C # {}
    <2>1. parts = <<x, y, z>>
      BY <1>2, <1>10, Concats
    <2> QED
      BY <1>1, <1>10, <2>1, InLists DEF OneOf
  <1> QED
    BY <1>3, <1>4, <1>5, <1>6, <1>7, <1>8, <1>9, <1>10

-----------------------------------------------------------------------------
(* The theorems on ranges.                                                 *)

\* The three parts of a union: what each takes in, by the time of a row.
LEMMA UnionParts ==
    ASSUME NEW low \in Int, NEW high \in Int, NEW rows
    PROVE  \E a, b, c, A, B, C :
               /\ UnionQuery(low, high, rows) = Part(a, A) \o Part(b, B) \o Part(c, C)
               /\ A = {r \in rows : 0 < low /\ low <= r.time /\ r.time < TimeBucketCeil(low, DayPeriod)}
               /\ B = {r \in rows : TimeBucketFloor(high, DayPeriod) <= r.time /\ r.time < high}
               /\ C = WholeDays(low, high, rows)
  <1> DEFINE A == IF 0 < low THEN Between(low, TimeBucketCeil(low, DayPeriod), rows) ELSE {}
             B == Between(TimeBucketFloor(high, DayPeriod), high, rows)
             C == WholeDays(low, high, rows)
  <1>1. UnionQuery(low, high, rows) = Part(Min({r.time : r \in A}), A) \o Part(Min({r.time : r \in B}), B)
                                      \o Part(Min({TimeBucketFloor(r.time, DayPeriod) : r \in C}), C)
    BY DEF UnionQuery, Part
  <1>2. A = {r \in rows : 0 < low /\ low <= r.time /\ r.time < TimeBucketCeil(low, DayPeriod)}
    BY DEF Between
  <1>3. B = {r \in rows : TimeBucketFloor(high, DayPeriod) <= r.time /\ r.time < high}
    BY DEF Between
  <1> HIDE DEF A, B
  <1> QED
    BY <1>1, <1>2, <1>3

\* A range that does not end in the day it begins in, or one from the beginning, counts each of
\* its rows once and no others: what UnionQuery (aggregates.go) takes from the table at both
\* ends, and from the view of the days between, does not overlap and leaves nothing out.
THEOREM UnionCountsOnce ==
    ASSUME NEW low \in Int, NEW high \in Int, low <= high,
           NEW rows, \A r \in rows : r.time \in Int,
           0 < low => TimeBucketCeil(low, DayPeriod) <= TimeBucketFloor(high, DayPeriod)
    PROVE  \A r \in rows :
               IF (0 < low => low <= r.time) /\ r.time < high THEN InOnePart(UnionQuery(low, high, rows), r)
               ELSE InNoPart(UnionQuery(low, high, rows), r)
  <1>1. PICK a, b, c, A, B, C :
            /\ UnionQuery(low, high, rows) = Part(a, A) \o Part(b, B) \o Part(c, C)
            /\ A = {r \in rows : 0 < low /\ low <= r.time /\ r.time < TimeBucketCeil(low, DayPeriod)}
            /\ B = {r \in rows : TimeBucketFloor(high, DayPeriod) <= r.time /\ r.time < high}
            /\ C = WholeDays(low, high, rows)
    BY UnionParts
  <1>2. TAKE r \in rows
  <1>3. /\ TimeBucketFloor(high, DayPeriod) \in Int /\ TimeBucketFloor(high, DayPeriod) <= high
        /\ TimeBucketCeil(low, DayPeriod) \in Int /\ low <= TimeBucketCeil(low, DayPeriod)
    BY BeforeADay
  <1>4. r \in C <=> /\ r.time < TimeBucketFloor(high, DayPeriod)
                    /\ 0 < low => TimeBucketCeil(low, DayPeriod) <= r.time
    BY <1>1, BeforeADay DEF WholeDays
  <1>5. r \in A <=> 0 < low /\ low <= r.time /\ r.time < TimeBucketCeil(low, DayPeriod)
    BY <1>1
  <1>6. r \in B <=> TimeBucketFloor(high, DayPeriod) <= r.time /\ r.time < high
    BY <1>1
  <1>7. r.time \in Int
    OBVIOUS
  <1>8. CASE (0 < low => low <= r.time) /\ r.time < high
    <2>1. OneOf(r, A, B, C)
      BY <1>3, <1>4, <1>5, <1>6, <1>7, <1>8 DEF OneOf
    <2> DEFINE parts == UnionQuery(low, high, rows)
    <2> HIDE DEF parts
    <2>2. parts = Part(a, A) \o Part(b, B) \o Part(c, C)
      BY <1>1 DEF parts
    <2>3. InOnePart(parts, r)
      BY <2>1, <2>2, ThreeParts
    <2> QED
      BY <1>8, <2>3 DEF parts
  <1>9. CASE ~((0 < low => low <= r.time) /\ r.time < high)
    <2>1. r \notin A /\ r \notin B /\ r \notin C
      BY <1>3, <1>4, <1>5, <1>6, <1>7, <1>9
    <2> QED
      BY <1>1, <1>9, <2>1, ThreeParts
  <1> QED
    BY <1>8, <1>9

\* A range inside one day counts every row of it twice: both ends are taken from the table, and
\* UnionQuery does not ask whether they are of one day.  The exception that RowsAreCountedOnce
\* makes is needed.
THEOREM InsideADayCountsTwice ==
    ASSUME NEW low \in Int, NEW high \in Int, 0 < low,
           NEW rows, NEW r \in rows, r.time \in Int, low <= r.time, r.time < high,
           TimeBucketFloor(high, DayPeriod) <= low, high <= TimeBucketCeil(low, DayPeriod)
    PROVE  InTwoParts(UnionQuery(low, high, rows), r)
  <1>1. PICK a, b, c, A, B, C :
            /\ UnionQuery(low, high, rows) = Part(a, A) \o Part(b, B) \o Part(c, C)
            /\ A = {s \in rows : 0 < low /\ low <= s.time /\ s.time < TimeBucketCeil(low, DayPeriod)}
            /\ B = {s \in rows : TimeBucketFloor(high, DayPeriod) <= s.time /\ s.time < high}
            /\ C = WholeDays(low, high, rows)
    BY UnionParts
  <1>2. TimeBucketFloor(high, DayPeriod) \in Int /\ TimeBucketCeil(low, DayPeriod) \in Int
    BY BeforeADay
  <1>3. r \in A /\ r \in B
    BY <1>1, <1>2
  <1> DEFINE parts == UnionQuery(low, high, rows)
  <1> HIDE DEF parts
  <1>4. parts = Part(a, A) \o Part(b, B) \o Part(c, C)
    BY <1>1 DEF parts
  <1>5. InTwoParts(parts, r)
    BY <1>3, <1>4, ThreeParts
  <1> QED
    BY <1>5 DEF parts

-----------------------------------------------------------------------------
(* The theorem on intervals.                                               *)

\* A multiple of the shortest length is in each interval, and leads to its start.
LEMMA StartIsFound ==
    ASSUME NEW name \in DOMAIN intervals, NEW low \in Int, NEW high \in Int,
           NEW s \in intervals[name].starts,
           low <= s, s + intervals[name].minDuration <= high
    PROVE  s \in {Trunc(name, t) : t \in GapFill(intervals[name].minDuration, low, high)}
  <1> DEFINE P == intervals[name].minDuration
             starts == intervals[name].starts
  <1>1. /\ P \in Nat \ {0} /\ starts \subseteq Int /\ s \in Int
        /\ \A u, e \in starts : u < e => u + P <= e
    BY SeriesAssumption
  <1> HIDE DEF P
  <1> DEFINE t == TimeBucketFloor(s + P - 1, P)
  <1>2. s + P - 1 \in Int
    BY <1>1
  <1>3. t \in Int /\ s <= t /\ t < s + P
    <2>1. t \in Int /\ t <= s + P - 1 /\ s + P - 1 < t + P
      BY <1>1, <1>2, Floor
    <2> QED
      BY <1>1, <2>1
  <1>4. t % P = 0
    <2>1. (s + P - 1) \div P \in Int
      BY <1>1, <1>2, Floor
    <2>2. \A q \in Int : (q * P) % P = 0
      BY <1>1
    <2> QED
      BY <2>1, <2>2 DEF TimeBucketFloor
  <1> HIDE DEF t
  <1>5. t \in GapFill(P, low, high)
    <2>1. TimeBucketFloor(low, P) \in Int /\ TimeBucketFloor(low, P) <= low
      BY <1>1, Floor
    <2>2. t \in TimeBucketFloor(low, P)..(high - 1)
      BY <1>1, <1>3, <2>1 DEF P
    <2> QED
      BY <1>4, <2>2 DEF GapFill
  <1>6. Trunc(name, t) = s
    <2>1. s <= t /\ \A u \in starts : u <= t => u <= s
      BY <1>1, <1>3
    <2>2. \A v \in starts : v <= t /\ (\A u \in starts : u <= t => u <= v) => v = s
      BY <1>1, <1>3, <2>1
    <2> QED
      BY <2>1, <2>2 DEF Trunc
  <1> QED
    BY <1>5, <1>6 DEF P

\* An interval that has a time in the range is found with its start and its end: the range is
\* widened by enough (generateTimestamps in buckets.go: "to make sure we don't loose any at
\* edges"), and a step of the shortest length of the interval skips none.
THEOREM NoIntervalIsLost ==
    ASSUME NEW name \in DOMAIN intervals, NEW from \in Int, NEW until \in Int,
           NEW time \in Int, from <= time, time < until,
           NEW s \in intervals[name].starts, NEW e \in intervals[name].starts,
           s <= time, time < e, \A u \in intervals[name].starts : ~(s < u /\ u < e)
    PROVE  LET margin == Margin(intervals[name])
               times == GapFill(intervals[name].minDuration, from - margin, until + margin)
           IN  {s, e} \subseteq {Trunc(name, t) : t \in times}
  <1> DEFINE short == intervals[name].minDuration
             long == intervals[name].maxDuration
  <1>1. short \in Nat \ {0} /\ long \in Nat /\ s \in Int /\ e \in Int /\ Margin(intervals[name]) = long + short
    BY SeriesAssumption DEF Margin
  <1>2. s + short <= e /\ e <= s + long
    <2>1. s < e
      BY <1>1
    <2> QED
      BY <2>1, SeriesAssumption
  <1> DEFINE low == from - Margin(intervals[name])
             high == until + Margin(intervals[name])
  <1>3. low \in Int /\ high \in Int /\ low <= s /\ low <= e /\ s + short <= high /\ e + short <= high
    BY <1>1, <1>2
  <1>4. s \in {Trunc(name, t) : t \in GapFill(short, low, high)}
    BY <1>3, StartIsFound
  <1>5. e \in {Trunc(name, t) : t \in GapFill(short, low, high)}
    BY <1>3, StartIsFound
  <1> QED
    BY <1>4, <1>5

-----------------------------------------------------------------------------
(* The theorem on depths.                                                  *)

\* What is known of a pool before a time is its last row before it (DepthsBefore in
\* stat/depth.go): the union's rows are ordered by their aggregate_timestamp, the first of its
\* part for the day the time is in and the start of the day for the days before, and last() over
\* the parts still finds the row.
THEOREM DepthsBeforeAreTheLast ==
    ASSUME NEW rows, NEW pools, NEW p \in pools, NEW time \in Int, \A r \in rows : r.time \in Nat,
           NEW last \in rows, last.pool = p, last.time < time,
           \A r \in rows : r.pool = p /\ r.time < time /\ r # last => r.time < last.time
    PROVE  DepthsBefore(rows, pools, time)[p] = Depth(last)
  <1> DEFINE own == {r \in rows : r.pool = p}
             day == TimeBucketFloor(time, DayPeriod)
             B == {r \in own : day <= r.time /\ r.time < time}
             C == {r \in own : r.time < day}
             y == Aggregate(Min({r.time : r \in B}), B)
             z == Aggregate(Min({TimeBucketFloor(r.time, DayPeriod) : r \in C}), C)
             parts == UnionQuery(0, time, own)
             latest == CHOOSE k \in DOMAIN parts : \A l \in DOMAIN parts : parts[l].at <= parts[k].at
  <1>1. DayPeriod \in Nat \ {0} /\ time \in Int
    BY SeriesAssumption
  <1>2. day \in Int /\ day <= time
    BY <1>1, Floor
  <1>3. parts = Part(Min({r.time : r \in {}}), {}) \o Part(Min({r.time : r \in B}), B)
                \o Part(Min({TimeBucketFloor(r.time, DayPeriod) : r \in C}), C)
    <2>1. Between(day, time, own) = B
      BY DEF Between
    <2>2. WholeDays(0, time, own) = C
      <3>1. \A r \in own : r.time \in Int
        OBVIOUS
      <3>2. \A r \in own : TimeBucketFloor(r.time, DayPeriod) < day <=> r.time < day
        BY <1>1, <3>1, BeforeADay
      <3> QED
        BY <3>2 DEF WholeDays
    <2> DEFINE none == IF 0 < 0 THEN Between(0, TimeBucketCeil(0, DayPeriod), own) ELSE {}
               recent == Between(day, time, own)
               whole == WholeDays(0, time, own)
    <2>3. parts = Part(Min({r.time : r \in none}), none) \o Part(Min({r.time : r \in recent}), recent)
                  \o Part(Min({TimeBucketFloor(r.time, DayPeriod) : r \in whole}), whole)
      BY DEF UnionQuery, Part
    <2>4. none = {} /\ recent = B /\ whole = C
      BY <2>1, <2>2
    <2> HIDE DEF none, recent, whole, B, C, parts
    <2> QED
      BY <2>3, <2>4
  <1>4. parts = (IF B = {} THEN <<>> ELSE <<y>>) \o (IF C = {} THEN <<>> ELSE <<z>>)
    BY <1>3, Concats DEF Part
  <1>5. last \in own /\ last.time \in Nat /\ \A r \in own : r.time < time /\ r # last => r.time < last.time
    OBVIOUS
  <1>6. ASSUME NEW S, S \subseteq own, last \in S, \A r \in S : r.time < time PROVE Latest(S) = last
    <2>1. \A other \in S : other.time <= last.time
      BY <1>5, <1>6
    <2>2. \A r \in S : (\A other \in S : other.time <= r.time) => r = last
      BY <1>5, <1>6
    <2> QED
      BY <1>6, <2>1, <2>2 DEF Latest
  <1>7. y.rows = B /\ z.rows = C /\ y.at = Min({r.time : r \in B})
        /\ z.at = Min({TimeBucketFloor(r.time, DayPeriod) : r \in C})
    BY DEF Aggregate
  <1>8. DepthsBefore(rows, pools, time)[p] = IF parts = <<>> THEN NoDepths ELSE Depth(Latest(parts[latest].rows))
    BY DEF DepthsBefore
  <1>9. B # {} => y.at \in Nat /\ day <= y.at
    <2>1. ASSUME B # {} PROVE y.at \in {r.time : r \in B}
      <3>1. {r.time : r \in B} \subseteq Nat /\ {r.time : r \in B} # {}
        BY <2>1
      <3> QED
        BY <1>7, <3>1, MinIsOne
    <2> QED
      BY <2>1
  <1>10. C # {} => z.at \in Int /\ z.at < day
    <2>1. ASSUME NEW r \in C
          PROVE  TimeBucketFloor(r.time, DayPeriod) \in Nat /\ TimeBucketFloor(r.time, DayPeriod) < day
      <3>1. r.time \in Nat /\ r.time < day
        OBVIOUS
      <3>2. TimeBucketFloor(r.time, DayPeriod) \in Int /\ TimeBucketFloor(r.time, DayPeriod) <= r.time
        <4>1. \A t \in Int : TimeBucketFloor(t, DayPeriod) \in Int /\ TimeBucketFloor(t, DayPeriod) <= t
          BY <1>1, Floor
        <4>2. r.time \in Int
          BY <3>1
        <4> QED
          BY <4>1, <4>2
      <3>3. r.time \div DayPeriod \in Nat
        BY <1>1, <3>1
      <3>4. TimeBucketFloor(r.time, DayPeriod) \in Nat
        BY <1>1, <3>3 DEF TimeBucketFloor
      <3> QED
        BY <1>2, <3>1, <3>2, <3>4
    <2>2. ASSUME C # {} PROVE z.at \in {TimeBucketFloor(r.time, DayPeriod) : r \in C}
      <3>1. /\ {TimeBucketFloor(r.time, DayPeriod) : r \in C} \subseteq Nat
            /\ {TimeBucketFloor(r.time, DayPeriod) : r \in C} # {}
        BY <2>1, <2>2
      <3> QED
        BY <1>7, <3>1, MinIsOne
    <2> QED
      BY <2>1, <2>2
  <1>11. last \in B \/ (B = {} /\ last \in C)
    BY <1>2, <1>5
  <1> HIDE DEF y, z, parts
  <1>12. CASE B = {}
    <2>1. parts = <<z>> /\ last \in C
      BY <1>4, <1>11, <1>12, Concats
    <2>2. latest = 1
      BY <2>1, <1>10, Places
    <2>3. DOMAIN parts # {} /\ parts[1] = z
      BY <2>1, Places
    <2>4. parts[latest].rows = C
      BY <1>7, <2>2, <2>3
    <2>5. parts # <<>>
      BY <2>3, Places
    <2>6. Latest(C) = last
      BY <1>2, <1>6, <2>1
    <2> QED
      BY <1>8, <2>4, <2>5, <2>6
  <1>13. CASE B # {}
    <2>1. /\ parts = <<y>> \/ (parts = <<y, z>> /\ C # {})
          /\ last \in B
      BY <1>4, <1>11, <1>13, Concats
    <2>2. latest = 1
      BY <2>1, <1>2, <1>9, <1>10, <1>13, Places
    <2>3. DOMAIN parts # {} /\ parts[1] = y
      BY <2>1, Places
    <2>4. parts[latest].rows = B
      BY <1>7, <2>2, <2>3
    <2>5. parts # <<>>
      BY <2>3, Places
    <2>6. Latest(B) = last
      BY <1>6, <2>1
    <2> QED
      BY <1>8, <2>4, <2>5, <2>6
  <1> QED
    BY <1>12, <1>13

-----------------------------------------------------------------------------
(* The starts of an interval around a time.                                *)

Starts(i) == intervals[i].starts
Short(i) == intervals[i].minDuration
Long(i) == intervals[i].maxDuration

\* What is known of the starts of an interval.
LEMMA StartsAre ==
    ASSUME NEW i \in DOMAIN intervals
    PROVE  /\ Starts(i) \subseteq Int /\ (\A s \in Starts(i) : s \in Int)
           /\ Short(i) \in Nat \ {0} /\ Long(i) \in Nat \ {0} /\ Short(i) <= Long(i)
           /\ \A s, e \in Starts(i) : s < e =>
                 /\ s + Short(i) <= e
                 /\ e <= s + Long(i) \/ \E between \in Starts(i) : s < between /\ between < e
  <1>1. /\ Starts(i) \subseteq Int /\ Short(i) \in Nat \ {0} /\ Long(i) \in Nat /\ Short(i) <= Long(i)
        /\ \A s, e \in Starts(i) : s < e =>
                 /\ s + Short(i) <= e
                 /\ e <= s + Long(i) \/ \E between \in Starts(i) : s < between /\ between < e
    BY SeriesAssumption DEF Starts, Short, Long
  <1>2. Long(i) \in Nat \ {0} /\ \A s \in Starts(i) : s \in Int
    BY <1>1
  <1> QED
    BY <1>1, <1>2

\* The start of the interval a time is in is the last one up to it.
LEMMA TruncIs ==
    ASSUME NEW i \in DOMAIN intervals, NEW t \in Int, NEW s \in Starts(i), s <= t
    PROVE  /\ Trunc(i, t) \in Starts(i) /\ Trunc(i, t) \in Int /\ Trunc(i, t) <= t
           /\ \A u \in Starts(i) : u <= t => u <= Trunc(i, t)
  <1> DEFINE S == {u \in Starts(i) : u <= t}
  <1>1. S \subseteq Int /\ S # {} /\ \A u \in S : u <= t
    BY StartsAre
  <1>2. PICK x \in S : \A u \in S : u <= x
    <2> HIDE DEF S
    <2> QED
      BY <1>1, GreatestIs
  <1>3. x \in Starts(i) /\ x <= t /\ \A u \in Starts(i) : u <= t => u <= x
    BY <1>2
  <1>4. Trunc(i, t) = CHOOSE v \in Starts(i) : v <= t /\ \A u \in Starts(i) : u <= t => u <= v
    BY DEF Trunc, Starts
  <1>5. /\ Trunc(i, t) \in Starts(i) /\ Trunc(i, t) <= t
        /\ \A u \in Starts(i) : u <= t => u <= Trunc(i, t)
    BY <1>3, <1>4
  <1> QED
    BY <1>5, StartsAre

\* The first start from a time on.
LEMMA NextIs ==
    ASSUME NEW i \in DOMAIN intervals, NEW t \in Int, NEW e \in Starts(i), t <= e
    PROVE  /\ NextStart(i, t) \in Starts(i) /\ NextStart(i, t) \in Int /\ t <= NextStart(i, t)
           /\ \A u \in Starts(i) : t <= u => NextStart(i, t) <= u
  <1> DEFINE S == {u \in Starts(i) : t <= u}
  <1>1. S \subseteq Int /\ S # {} /\ \A u \in S : t <= u
    BY StartsAre
  <1>2. Min(S) \in S /\ \A u \in S : Min(S) <= u
    <2> HIDE DEF S
    <2> QED
      BY <1>1, LeastIs
  <1>3. NextStart(i, t) = Min(S)
    BY DEF NextStart, Starts
  <1> QED
    BY <1>2, <1>3, StartsAre

\* None of them is farther away than the longest interval.
LEMMA StartsAreNear ==
    ASSUME NEW i \in DOMAIN intervals, NEW t \in Int,
           NEW s \in Starts(i), NEW e \in Starts(i), s < t, t < e
    PROVE  t < Trunc(i, t) + Long(i) /\ NextStart(i, t) < t + Long(i)
  <1>1. /\ s \in Int /\ e \in Int /\ Long(i) \in Nat \ {0} /\ \A u \in Starts(i) : u \in Int
        /\ \A a, b \in Starts(i) : a < b =>
              b <= a + Long(i) \/ \E between \in Starts(i) : a < between /\ between < b
    BY StartsAre
  <1>2. t < Trunc(i, t) + Long(i)
    <2> DEFINE x == Trunc(i, t)
               y == NextStart(i, t + 1)
    <2>1. x \in Starts(i) /\ x \in Int /\ x <= t /\ \A u \in Starts(i) : u <= t => u <= x
      BY <1>1, TruncIs
    <2>2. y \in Starts(i) /\ y \in Int /\ t + 1 <= y /\ \A u \in Starts(i) : t + 1 <= u => y <= u
      <3>1. t + 1 \in Int /\ t + 1 <= e
        BY <1>1
      <3> QED
        BY <3>1, NextIs
    <2> HIDE DEF x, y
    <2>3. ~\E between \in Starts(i) : x < between /\ between < y
      <3> SUFFICES ASSUME NEW u \in Starts(i), x < u, u < y PROVE FALSE
        OBVIOUS
      <3>1. u \in Int /\ (u <= t \/ t + 1 <= u)
        BY <1>1
      <3> QED
        BY <2>1, <2>2, <3>1
    <2>4. y <= x + Long(i)
      BY <1>1, <2>1, <2>2, <2>3
    <2> QED
      BY <1>1, <2>1, <2>2, <2>4 DEF x
  <1>3. NextStart(i, t) < t + Long(i)
    <2> DEFINE x == Trunc(i, t - 1)
               y == NextStart(i, t)
    <2>1. x \in Starts(i) /\ x \in Int /\ x <= t - 1 /\ \A u \in Starts(i) : u <= t - 1 => u <= x
      <3>1. t - 1 \in Int /\ s <= t - 1
        BY <1>1
      <3> QED
        BY <3>1, TruncIs
    <2>2. y \in Starts(i) /\ y \in Int /\ t <= y /\ \A u \in Starts(i) : t <= u => y <= u
      BY <1>1, NextIs
    <2> HIDE DEF x, y
    <2>3. ~\E between \in Starts(i) : x < between /\ between < y
      <3> SUFFICES ASSUME NEW u \in Starts(i), x < u, u < y PROVE FALSE
        OBVIOUS
      <3>1. u \in Int /\ (u <= t - 1 \/ t <= u)
        BY <1>1
      <3> QED
        BY <2>1, <2>2, <3>1
    <2>4. y <= x + Long(i)
      BY <1>1, <2>1, <2>2, <2>3
    <2> QED
      BY <1>1, <2>1, <2>2, <2>4 DEF y
  <1> QED
    BY <1>2, <1>3

-----------------------------------------------------------------------------
(* The buckets that are generated.                                         *)

FoundStarts(i, low, high) == {Trunc(i, t) : t \in GapFill(Short(i), low, high)}

\* The starts found in a range are all there are from the first to the last of them.
LEMMA FoundIs ==
    ASSUME NEW i \in DOMAIN intervals, NEW low \in Int, NEW high \in Int,
           NEW before \in Starts(i), before + Short(i) <= low
    PROVE  /\ FoundStarts(i, low, high) \subseteq Starts(i) /\ FoundStarts(i, low, high) \subseteq Int
           /\ IsFiniteSet(FoundStarts(i, low, high))
           /\ \A s \in Starts(i), a, b \in FoundStarts(i, low, high) :
                 a <= s /\ s <= b => s \in FoundStarts(i, low, high)
  <1> DEFINE F == FoundStarts(i, low, high)
             P == Short(i)
             times == GapFill(P, low, high)
  <1>1. /\ P \in Nat \ {0} /\ before \in Int /\ (\A s \in Starts(i) : s \in Int)
        /\ \A s, e \in Starts(i) : s < e => s + P <= e
    BY StartsAre
  <1> HIDE DEF P
  <1>2. TimeBucketFloor(low, P) \in Int /\ TimeBucketFloor(low, P) <= low /\ before < TimeBucketFloor(low, P)
    <2>1. /\ TimeBucketFloor(low, P) \in Int /\ TimeBucketFloor(low, P) <= low
          /\ low < TimeBucketFloor(low, P) + P
      BY <1>1, Floor
    <2>2. before + P <= low
      BY DEF P
    <2> QED
      BY <1>1, <2>1, <2>2
  <1>3. \A t \in Int : t \in times <=> TimeBucketFloor(low, P) <= t /\ t <= high - 1 /\ t % P = 0
    BY <1>2 DEF GapFill
  <1>4. ASSUME NEW t \in times
        PROVE  /\ t \in Int /\ before < t /\ t < high
               /\ Trunc(i, t) \in Starts(i) /\ Trunc(i, t) \in Int /\ Trunc(i, t) <= t /\ before <= Trunc(i, t)
               /\ \A u \in Starts(i) : u <= t => u <= Trunc(i, t)
    <2>1. t \in Int
      BY <1>2 DEF GapFill
    <2>2. before < t /\ before <= t /\ t < high
      BY <1>1, <1>2, <1>3, <2>1
    <2>3. /\ Trunc(i, t) \in Starts(i) /\ Trunc(i, t) \in Int /\ Trunc(i, t) <= t
          /\ \A u \in Starts(i) : u <= t => u <= Trunc(i, t)
      BY <2>1, <2>2, TruncIs
    <2> QED
      BY <2>1, <2>2, <2>3
  <1>5. F = {Trunc(i, t) : t \in times}
    BY DEF FoundStarts, P
  <1> HIDE DEF F, times
  <1>6. F \subseteq Starts(i) /\ F \subseteq Int
    BY <1>4, <1>5
  <1>7. IsFiniteSet(F)
    <2>1. ASSUME NEW a \in F PROVE a \in before..high
      <3>1. PICK t \in times : a = Trunc(i, t)
        BY <1>5
      <3>2. /\ t \in Int /\ t < high /\ a \in Int /\ a <= t /\ before <= a
        BY <1>4, <3>1
      <3> QED
        BY <1>1, <3>2
    <2>2. IsFiniteSet(before..high)
      BY <1>1, FS_Interval
    <2>3. F \in SUBSET (before..high)
      BY <2>1
    <2> QED
      BY <2>2, <2>3, FS_Subset
  <1>8. ASSUME NEW s \in Starts(i), NEW a \in F, NEW b \in F, a <= s, s <= b PROVE s \in F
    <2>1. PICK t \in times : a = Trunc(i, t)
      BY <1>5
    <2>2. PICK v \in times : b = Trunc(i, v)
      BY <1>5
    <2>3. CASE s = a \/ s = b
      BY <2>3
    <2>4. CASE s # a /\ s # b
      <3>1. a \in Int /\ b \in Int /\ s \in Int /\ b \in Starts(i)
        BY <1>1, <1>6
      <3>2. s + P <= b
        BY <1>1, <1>8, <2>4, <3>1
      <3> DEFINE w == TimeBucketFloor(s + P - 1, P)
      <3>3. w \in Int /\ s <= w /\ w < s + P
        <4>1. s + P - 1 \in Int
          BY <1>1, <3>1
        <4>2. w \in Int /\ w <= s + P - 1 /\ s + P - 1 < w + P
          BY <1>1, <4>1, Floor
        <4> HIDE DEF w
        <4> QED
          BY <1>1, <3>1, <4>2
      <3>4. w % P = 0
        <4>1. s + P - 1 \in Int
          BY <1>1, <3>1
        <4>2. (s + P - 1) \div P \in Int
          BY <1>1, <4>1, Floor
        <4>3. \A q \in Int : (q * P) % P = 0
          BY <1>1
        <4> QED
          BY <4>2, <4>3 DEF TimeBucketFloor
      <3> HIDE DEF w
      <3>5. t < s
        <4>1. t \in Int /\ \A u \in Starts(i) : u <= t => u <= a
          BY <1>4, <2>1
        <4> QED
          BY <1>8, <2>4, <3>1, <4>1
      <3>6. v \in Int /\ b <= v /\ v < high
        BY <1>4, <2>2
      <3>7. t \in Int /\ TimeBucketFloor(low, P) <= t
        BY <1>3, <1>4
      <3>8. TimeBucketFloor(low, P) <= w /\ w <= high - 1
        BY <1>1, <1>2, <3>1, <3>2, <3>3, <3>5, <3>6, <3>7
      <3>9. w \in times
        BY <1>3, <3>3, <3>4, <3>8
      <3>10. Trunc(i, w) = s
        <4>1. /\ Trunc(i, w) \in Starts(i) /\ Trunc(i, w) \in Int /\ Trunc(i, w) <= w
              /\ \A u \in Starts(i) : u <= w => u <= Trunc(i, w)
          BY <1>4, <3>9
        <4>2. s <= Trunc(i, w)
          BY <3>3, <4>1
        <4>3. ~(s < Trunc(i, w))
          <5> SUFFICES ASSUME s < Trunc(i, w) PROVE FALSE
            OBVIOUS
          <5>1. s + P <= Trunc(i, w)
            BY <1>1, <4>1
          <5> QED
            BY <1>1, <3>1, <3>3, <4>1, <5>1
        <4> QED
          BY <3>1, <4>1, <4>2, <4>3
      <3> QED
        BY <1>5, <3>9, <3>10
    <2> QED
      BY <2>3, <2>4
  <1> QED
    BY <1>6, <1>7, <1>8 DEF F

\* How many of a list are before a time, and how many up to it.
CountBefore(t, x) == Cardinality({k \in DOMAIN t : t[k] < x})
CountTo(t, x) == Cardinality({k \in DOMAIN t : t[k] <= x})

\* They are the first ones.
LEMMA CountsAre ==
    ASSUME NEW S, NEW t, Stretch(t, S), NEW x \in Int
    PROVE  /\ CountBefore(t, x) \in 0..Len(t) /\ CountTo(t, x) \in 0..Len(t)
           /\ \A k \in 1..Len(t) : /\ k <= CountBefore(t, x) <=> t[k] < x
                                   /\ k <= CountTo(t, x) <=> t[k] <= x
  <1> DEFINE n == Len(t)
             A == {k \in DOMAIN t : t[k] < x}
             B == {k \in DOMAIN t : t[k] <= x}
  <1>1. /\ DOMAIN t = 1..n /\ n \in Nat \ {0} /\ \A k \in 1..n : t[k] \in Int
        /\ \A k, l \in 1..n : k < l <=> t[k] < t[l]
    BY StretchIs
  <1>2. ASSUME NEW k \in 1..n, NEW l \in 1..n, l < k PROVE (t[k] < x => t[l] < x) /\ (t[k] <= x => t[l] <= x)
    <2>1. t[k] \in Int /\ t[l] \in Int /\ t[l] < t[k]
      BY <1>1, <1>2
    <2> QED
      BY <2>1
  <1>3. A \subseteq 1..n /\ \A k \in A, l \in 1..n : l < k => l \in A
    BY <1>1, <1>2
  <1>4. B \subseteq 1..n /\ \A k \in B, l \in 1..n : l < k => l \in B
    BY <1>1, <1>2
  <1>5. \A k \in 1..n : (k \in A <=> t[k] < x) /\ (k \in B <=> t[k] <= x)
    BY <1>1
  <1> HIDE DEF A, B
  <1>6. Cardinality(A) \in 0..n /\ A = 1..Cardinality(A)
    BY <1>1, <1>3, Prefix
  <1>7. Cardinality(B) \in 0..n /\ B = 1..Cardinality(B)
    BY <1>1, <1>4, Prefix
  <1>8. CountBefore(t, x) = Cardinality(A) /\ CountTo(t, x) = Cardinality(B)
    BY DEF CountBefore, CountTo, A, B
  <1>9. \A k \in 1..n : (k \in A <=> k <= Cardinality(A)) /\ (k \in B <=> k <= Cardinality(B))
    <2> DEFINE a == Cardinality(A)
               b == Cardinality(B)
    <2>1. a \in 0..n /\ b \in 0..n /\ A = 1..a /\ B = 1..b
      BY <1>6, <1>7
    <2> HIDE DEF a, b
    <2>2. \A k \in 1..n : (k \in A <=> k <= a) /\ (k \in B <=> k <= b)
      BY <2>1
    <2> QED
      BY <2>2 DEF a, b
  <1> QED
    BY <1>5, <1>6, <1>7, <1>8, <1>9

\* A list in its order of a set of numbers that has all of S between any two of it.
LEMMA SortedStretch ==
    ASSUME NEW S, S \subseteq Int, NEW F, F \subseteq S, F \subseteq Int, IsFiniteSet(F), F # {},
           \A s \in S, a, b \in F : a <= s /\ s <= b => s \in F
    PROVE  Stretch(Sorted(F), S) /\ \A s \in F : \E k \in 1..Len(Sorted(F)) : Sorted(F)[k] = s
  <1> DEFINE n == Cardinality(F)
             t == Sorted(F)
  <1>1. /\ n \in Nat /\ t \in [1..n -> F] /\ (\A s \in F : \E k \in 1..n : t[k] = s)
        /\ \A k, l \in 1..n : k < l => t[k] < t[l]
    BY SortedIs
  <1>2. n # 0
    <2>1. PICK s \in F : \E k \in 1..n : t[k] = s
      BY <1>1
    <2>2. PICK k \in 1..n : t[k] = s
      BY <2>1
    <2> QED
      BY <1>1, <2>2
  <1> HIDE DEF n, t
  <1>3. t \in Seq(S) /\ Len(t) = n
    <2>1. t \in [1..n -> S]
      BY <1>1
    <2>2. t \in Seq(S)
      BY <1>1, <2>1, SeqDef
    <2>3. Len(t) \in Nat /\ 1..Len(t) = 1..n
      BY <2>1, <2>2, LenProperties
    <2>4. Len(t) = n
      <3>1. \A k, l \in Nat : 1..k = 1..l => k = l
        OBVIOUS
      <3> QED
        BY <1>1, <2>3, <3>1
    <2> QED
      BY <2>2, <2>4
  <1>4. ASSUME NEW s \in S, t[1] <= s, s <= t[n] PROVE \E k \in 1..n : t[k] = s
    <2>1. t[1] \in F /\ t[n] \in F
      BY <1>1, <1>2
    <2>2. s \in F
      BY <1>4, <2>1
    <2> QED
      BY <1>1, <2>2
  <1>5. Stretch(t, S)
    BY <1>1, <1>2, <1>3, <1>4 DEF Stretch
  <1> QED
    BY <1>1, <1>3, <1>5 DEF t

\* Whole intervals without a gap, from a first start to a last one.
Whole(t, i, first, last) ==
    Stretch(t, Starts(i)) /\ 2 <= Len(t) /\ t[1] = first /\ t[Len(t)] = last

\* Those that are generated for a range go from the interval it begins in to the one it ends in,
\* if it is not too long.
LEMMA GeneratedIs ==
    ASSUME NEW i \in DOMAIN intervals, NEW from \in Int, NEW until \in Int, from < until,
           NEW before \in Starts(i), before + 3 * Long(i) <= from,
           NEW after \in Starts(i), until < after
    PROVE  \/ generateTimestamps(i, from, until) = BadRequest
           \/ \E t : /\ generateTimestamps(i, from, until) = Buckets("ok", t, i)
                     /\ Whole(t, i, Trunc(i, from), NextStart(i, until))
  <1> DEFINE low == from - Margin(intervals[i])
             high == until + Margin(intervals[i])
             F == FoundStarts(i, low, high)
             t == Sorted(F)
             n == Len(t)
             first == Trunc(i, from)
             last == NextStart(i, until)
  <1>1. /\ Short(i) \in Nat \ {0} /\ Long(i) \in Nat \ {0} /\ Short(i) <= Long(i)
        /\ before \in Int /\ after \in Int /\ Margin(intervals[i]) = Long(i) + Short(i)
        /\ Starts(i) \subseteq Int
    BY StartsAre DEF Margin, Short, Long
  <1>2. low \in Int /\ high \in Int /\ before + Short(i) <= low /\ before < from /\ from < after
    BY <1>1
  <1>3. /\ first \in Starts(i) /\ first \in Int /\ first <= from /\ from < first + Long(i)
        /\ \A u \in Starts(i) : u <= from => u <= first
    BY <1>1, <1>2, TruncIs, StartsAreNear
  <1>4. /\ last \in Starts(i) /\ last \in Int /\ until <= last /\ last < until + Long(i)
        /\ \A u \in Starts(i) : until <= u => last <= u
    <2>1. before < until /\ until <= after
      BY <1>1, <1>2
    <2> QED
      BY <1>1, <2>1, NextIs, StartsAreNear
  <1>5. /\ F \subseteq Starts(i) /\ F \subseteq Int /\ IsFiniteSet(F)
        /\ \A s \in Starts(i), a, b \in F : a <= s /\ s <= b => s \in F
    BY <1>2, FoundIs
  <1>6. first \in F /\ last \in F
    <2>1. low <= first /\ first + Short(i) <= high /\ low <= last /\ last + Short(i) <= high
      BY <1>1, <1>3, <1>4
    <2> QED
      BY <1>2, <1>3, <1>4, <2>1, StartIsFound DEF FoundStarts, Starts, Short
  <1>7. F = {Trunc(i, v) : v \in GapFill(intervals[i].minDuration, low, high)}
    BY DEF FoundStarts, Short
  <1> HIDE DEF F, low, high, first, last
  <1>8. Stretch(t, Starts(i)) /\ \A s \in F : \E k \in 1..n : t[k] = s
    BY <1>1, <1>5, <1>6, SortedStretch
  <1> DEFINE c == CountBefore(t, until)
             d == CountTo(t, from)
  <1>9. /\ n \in Nat \ {0} /\ \A k, l \in 1..n : /\ k < l <=> t[k] < t[l]
                                                 /\ k <= l <=> t[k] <= t[l]
        /\ \A k \in 1..n : t[k] \in Starts(i) /\ t[k] \in Int
    BY <1>8, StretchIs
  <1>10. /\ c \in 0..n /\ d \in 0..n
         /\ \A k \in 1..n : (k <= c <=> t[k] < until) /\ (k <= d <=> t[k] <= from)
    BY <1>8, CountsAre
  <1> DEFINE lastIdx == AtMost(1 + c, n)
             firstIdx == AtLeast(d, 1)
  <1>11. generateTimestamps(i, from, until) =
            IF intervals[i].maxDuration * 2 * maxIntervalCount < until - from \/ t = <<>> THEN BadRequest
            ELSE IF firstIdx = n \/ lastIdx + 1 < firstIdx THEN IndexOutOfRange
            ELSE IF lastIdx <= firstIdx THEN BadRequest
            ELSE Buckets("ok", SubSeq(t, firstIdx, lastIdx), i)
    BY <1>7 DEF generateTimestamps, UpTo, CountBefore, CountTo, low, high
  <1> HIDE DEF t
  <1>12. PICK a \in 1..n : t[a] = first
    BY <1>6, <1>8
  <1>13. PICK b \in 1..n : t[b] = last
    BY <1>6, <1>8
  <1> HIDE DEF c, d
  <1>14. d = a
    <2>1. a <= d
      BY <1>3, <1>10, <1>12
    <2>2. d \in 1..n
      BY <1>10, <2>1
    <2>3. t[d] <= from /\ t[d] \in Starts(i)
      BY <1>9, <1>10, <2>2
    <2>4. t[d] <= t[a]
      BY <1>3, <1>12, <2>3
    <2>5. d <= a
      BY <1>9, <2>2, <2>4
    <2> QED
      BY <2>1, <2>2, <2>5
  <1>15. c + 1 = b
    <2>1. ~(b <= c)
      BY <1>4, <1>10, <1>13
    <2>2. c + 1 \in 1..n
      BY <1>10, <2>1
    <2>3. t[c + 1] \in Starts(i) /\ t[c + 1] \in Int /\ ~(t[c + 1] < until)
      <3>1. ~(c + 1 <= c)
        BY <1>10
      <3> QED
        BY <1>9, <1>10, <2>2, <3>1
    <2>4. t[b] <= t[c + 1]
      BY <1>4, <1>13, <2>3
    <2>5. b <= c + 1
      BY <1>9, <2>2, <2>4
    <2> QED
      BY <1>10, <2>1, <2>5
  <1>16. a < b
    <2>1. first < last
      BY <1>3, <1>4
    <2> QED
      BY <1>9, <1>12, <1>13, <2>1
  <1>17. lastIdx = b /\ firstIdx = a
    BY <1>10, <1>14, <1>15 DEF AtMost, AtLeast
  <1> HIDE DEF lastIdx, firstIdx
  <1>18. t # <<>>
    <2>1. Len(<<>>) = 0
      OBVIOUS
    <2> QED
      BY <1>9, <2>1
  <1>19. \/ generateTimestamps(i, from, until) = BadRequest
         \/ generateTimestamps(i, from, until) = Buckets("ok", SubSeq(t, a, b), i)
    <2>1. ~(a = n \/ b + 1 < a) /\ ~(b <= a)
      BY <1>16
    <2> QED
      BY <1>11, <1>17, <1>18, <2>1
  <1>20. Whole(SubSeq(t, a, b), i, first, last)
    <2> DEFINE u == SubSeq(t, a, b)
    <2>1. /\ Stretch(u, Starts(i)) /\ Len(u) = b - a + 1
          /\ \A k \in 1..(b - a + 1) : u[k] = t[a + k - 1]
      <3>1. b \in a..n
        BY <1>16
      <3> QED
        BY <1>8, <3>1, Slice
    <2> HIDE DEF u
    <2>2. 2 <= Len(u) /\ u[1] = t[a] /\ u[Len(u)] = t[b]
      <3>1. 1 \in 1..(b - a + 1) /\ b - a + 1 \in 1..(b - a + 1) /\ a + 1 - 1 = a /\ a + (b - a + 1) - 1 = b
        BY <1>16
      <3>2. u[1] = t[a] /\ u[b - a + 1] = t[b]
        BY <2>1, <3>1
      <3> QED
        BY <1>16, <2>1, <3>2
    <2> QED
      BY <1>12, <1>13, <2>1, <2>2 DEF Whole, u
  <1> QED
    BY <1>19, <1>20 DEF first, last

\* A part of them.
LEMMA PartIsWhole ==
    ASSUME NEW i \in DOMAIN intervals, NEW t, NEW first, NEW last, Whole(t, i, first, last),
           NEW a \in 1..Len(t), NEW b \in 1..Len(t), a < b
    PROVE  /\ Whole(SubSeq(t, a, b), i, t[a], t[b]) /\ Len(SubSeq(t, a, b)) = b - a + 1
           /\ \A k \in 1..(b - a + 1) : SubSeq(t, a, b)[k] = t[a + k - 1]
  <1> DEFINE u == SubSeq(t, a, b)
  <1>1. Stretch(t, Starts(i)) /\ b \in a..Len(t)
    BY DEF Whole
  <1>2. /\ Stretch(u, Starts(i)) /\ Len(u) = b - a + 1
        /\ \A k \in 1..(b - a + 1) : u[k] = t[a + k - 1]
    BY <1>1, Slice
  <1> HIDE DEF u
  <1>3. 2 <= Len(u) /\ u[1] = t[a] /\ u[Len(u)] = t[b]
    <2>1. 1 \in 1..(b - a + 1) /\ b - a + 1 \in 1..(b - a + 1) /\ a + 1 - 1 = a /\ a + (b - a + 1) - 1 = b
      OBVIOUS
    <2>2. u[1] = t[a] /\ u[b - a + 1] = t[b]
      BY <1>2, <2>1
    <2> QED
      BY <1>2, <2>2
  <1> QED
    BY <1>2, <1>3 DEF Whole, u

\* The buckets of other times.
LEMMA OtherTimes ==
    ASSUME NEW t, NEW u, NEW i
    PROVE  /\ [Buckets("ok", t, i) EXCEPT !.timestamps = u] = Buckets("ok", u, i)
           /\ Buckets("ok", t, i).timestamps = t /\ Buckets("ok", t, i).outcome = "ok"
           /\ Buckets("ok", t, i).interval = i
  BY DEF Buckets

\* A part of them is left that has all there are blocks of.
Restricts(t, i, first, last, from, now) ==
    \E a, b \in 1..Len(t) :
        /\ a < b /\ Restricted(from, now, Buckets("ok", t, i)) = Buckets("ok", SubSeq(t, a, b), i)
        /\ \A x \in Int : from <= x /\ x <= now /\ first <= x /\ x < last => t[a] <= x /\ x < t[b]

\* So it is with those from the first block to now (restrictBuckets).
LEMMA RestrictedIs ==
    ASSUME NEW i \in DOMAIN intervals, NEW t, NEW first, NEW last, Whole(t, i, first, last),
           NEW from \in Int, NEW now \in Int
    PROVE  Restricts(t, i, first, last, from, now)
  <1> DEFINE n == Len(t)
             c == CountTo(t, now)
             d == CountBefore(t, from)
             b == AtLeast(AtMost(1 + c, n), 2)
             a == AtMost(AtLeast(d, 1), b - 1)
  <1>1. Stretch(t, Starts(i)) /\ 2 <= n /\ t[1] = first /\ t[n] = last
    BY DEF Whole
  <1>2. /\ n \in Nat \ {0} /\ \A k \in 1..n : t[k] \in Int
        /\ \A k, l \in 1..n : /\ k < l <=> t[k] < t[l]
                            /\ k <= l <=> t[k] <= t[l]
    BY <1>1, StretchIs
  <1>3. /\ c \in 0..n /\ d \in 0..n
        /\ \A k \in 1..n : (k <= c <=> t[k] <= now) /\ (k <= d <=> t[k] < from)
    BY <1>1, CountsAre
  <1>4. Restricted(from, now, Buckets("ok", t, i)) = Buckets("ok", SubSeq(t, a, b), i)
    <2> DEFINE B == Buckets("ok", t, i)
               u == SubSeq(t, a, b)
    <2> HIDE DEF u
    <2>1. B.timestamps = t /\ B.outcome = "ok" /\ [B EXCEPT !.timestamps = u] = Buckets("ok", u, i)
      BY OtherTimes
    <2> HIDE DEF B
    <2>2. Restricted(from, now, B) = restrictBuckets(from, now, B)
      BY <2>1 DEF Restricted
    <2>3. restrictBuckets(from, now, B) = [B EXCEPT !.timestamps = u]
      BY <2>1 DEF restrictBuckets, UpTo, CountTo, CountBefore, u
    <2>4. Restricted(from, now, B) = Buckets("ok", u, i)
      BY <2>1, <2>2, <2>3
    <2> QED
      BY <2>4 DEF B, u
  <1> HIDE DEF n, c, d
  <1>5. /\ b \in 2..n /\ a \in 1..n /\ a < b
        /\ b = 1 + c \/ (c = 0 /\ b = 2) \/ (c = n /\ b = n)
        /\ a <= d \/ a = 1
    <2>1. b \in 2..n /\ (b = 1 + c \/ (c = 0 /\ b = 2) \/ (c = n /\ b = n))
      BY <1>1, <1>2, <1>3 DEF AtMost, AtLeast
    <2> HIDE DEF b
    <2>2. a \in 1..n /\ a < b /\ (a <= d \/ a = 1)
      BY <1>2, <1>3, <2>1 DEF AtMost, AtLeast
    <2> QED
      BY <2>1, <2>2
  <1> HIDE DEF a, b
  <1>6. ASSUME NEW x \in Int, from <= x, x <= now, first <= x, x < last PROVE t[a] <= x /\ x < t[b]
    <2>1. a \in 1..n /\ b \in 1..n /\ 1 \in 1..n /\ n \in 1..n /\ t[a] \in Int /\ t[b] \in Int
      BY <1>2, <1>5
    <2>2. t[a] <= x
      <3>1. CASE a = 1
        BY <1>1, <1>6, <3>1
      <3>2. CASE a <= d
        <4>1. t[a] < from
          BY <1>3, <2>1, <3>2
        <4> QED
          BY <1>6, <2>1, <4>1
      <3> QED
        BY <1>5, <3>1, <3>2
    <2>3. x < t[b]
      <3>1. CASE b = 1 + c
        <4>1. ~(t[b] <= now)
          BY <1>3, <2>1, <3>1
        <4> QED
          BY <1>6, <2>1, <4>1
      <3>2. CASE c = 0
        <4>1. ~(t[1] <= now) /\ t[1] \in Int
          BY <1>2, <1>3, <2>1, <3>2
        <4> QED
          BY <1>1, <1>6, <4>1
      <3>3. CASE b = n
        BY <1>1, <1>6, <3>3
      <3> QED
        BY <1>5, <3>1, <3>2, <3>3
    <2> QED
      BY <2>2, <2>3
  <1> QED
    BY <1>2, <1>4, <1>5, <1>6 DEF n, Restricts

\* A range is refused whatever is cut of it then.
LEMMA RefusedIs ==
    ASSUME NEW n, NEW from, NEW now
    PROVE  /\ BadRequest.outcome = "refused" /\ Restricted(from, now, BadRequest) = BadRequest
           /\ FirstBuckets(n, BadRequest).outcome = "refused"
           /\ Restricted(from, now, FirstBuckets(n, BadRequest)).outcome = "refused"
           /\ LastBuckets(n, BadRequest).outcome = "refused"
  <1>1. BadRequest.outcome = "refused" /\ Restricted(from, now, BadRequest) = BadRequest
    BY DEF BadRequest, Buckets, Restricted
  <1>2. FirstBuckets(n, BadRequest).outcome = "refused" /\ LastBuckets(n, BadRequest).outcome = "refused"
    BY DEF FirstBuckets, LastBuckets, BadRequest, Buckets
  <1>3. Restricted(from, now, FirstBuckets(n, BadRequest)).outcome = "refused"
    BY <1>2 DEF Restricted
  <1> QED
    BY <1>1, <1>2, <1>3

\* The first of buckets, and the last.
LEMMA SomeBuckets ==
    ASSUME NEW t, NEW i, NEW n
    PROVE  /\ FirstBuckets(n, Buckets("ok", t, i)) = Buckets("ok", SubSeq(t, 1, AtMost(n + 1, Len(t))), i)
           /\ LastBuckets(n, Buckets("ok", t, i)) = Buckets("ok", SubSeq(t, AtLeast(Len(t) - n, 1), Len(t)), i)
  <1> DEFINE B == Buckets("ok", t, i)
             u == SubSeq(t, 1, AtMost(n + 1, Len(t)))
             v == SubSeq(t, AtLeast(Len(t) - n, 1), Len(t))
  <1> HIDE DEF u, v
  <1>1. /\ B.timestamps = t /\ [B EXCEPT !.timestamps = u] = Buckets("ok", u, i)
        /\ [B EXCEPT !.timestamps = v] = Buckets("ok", v, i)
    BY OtherTimes
  <1> HIDE DEF B
  <1>2. FirstBuckets(n, B) = [B EXCEPT !.timestamps = u]
    BY <1>1 DEF FirstBuckets, u
  <1>3. LastBuckets(n, B) = [B EXCEPT !.timestamps = v]
    BY <1>1 DEF LastBuckets, v
  <1> QED
    BY <1>1, <1>2, <1>3 DEF B, u, v

\* A parameter that is given is a number.
LEMMA ParameterIs ==
    ASSUME NEW p, Parameter(p), NEW default \in Int
    PROVE  Given(p, default) \in Int /\ (p # <<>> => p[1] \in Int /\ Given(p, default) = p[1])
  <1>1. p \in Seq(Int) /\ Len(p) <= 1 /\ Len(p) \in Nat
    BY LenProperties DEF Parameter
  <1>2. ASSUME p # <<>> PROVE p[1] \in Int
    <2>1. Len(p) # 0
      BY <1>1, <1>2, EmptySeq
    <2>2. 1 \in 1..Len(p)
      BY <1>1, <2>1
    <2> QED
      BY <1>1, <2>2, ElementOfSeq
  <1> QED
    BY <1>2 DEF Given

\* Products of natural numbers.
LEMMA Products ==
    ASSUME NEW a \in Nat, NEW b \in Nat
    PROVE  a * b \in Nat /\ (a + 3) * b = a * b + 3 * b /\ 3 * b \in Nat
  OBVIOUS

\* Whole intervals are enough of them for a range as long as so many of the longest.
LEMMA LongEnough ==
    ASSUME NEW i \in DOMAIN intervals, NEW t, NEW first, NEW last, Whole(t, i, first, last),
           NEW n \in Nat, first + n * Long(i) <= last
    PROVE  n < Len(t)
  <1> DEFINE M == Long(i)
  <1>1. M \in Nat \ {0} /\ Starts(i) \subseteq Int
        /\ \A s, e \in Starts(i) : s < e => e <= s + M \/ \E between \in Starts(i) : s < between /\ between < e
    BY StartsAre
  <1>2. Stretch(t, Starts(i)) /\ t[1] = first /\ t[Len(t)] = last
    BY DEF Whole
  <1>3. Len(t) \in Nat \ {0} /\ first \in Int /\ last \in Int
    <2>1. Len(t) \in Nat \ {0} /\ \A k \in 1..Len(t) : t[k] \in Int
      BY <1>2, StretchIs
    <2>2. 1 \in 1..Len(t) /\ Len(t) \in 1..Len(t)
      BY <2>1
    <2> QED
      BY <1>2, <2>1, <2>2
  <1>4. last <= first + (Len(t) - 1) * M
    <2>1. \A k \in 1..Len(t) : t[k] <= t[1] + (k - 1) * M
      BY <1>1, <1>2, Reaches
    <2>2. Len(t) \in 1..Len(t)
      BY <1>3
    <2> QED
      BY <1>2, <2>1, <2>2
  <1>5. first + n * M <= last
    OBVIOUS
  <1> HIDE DEF M
  <1>6. ~(Len(t) - 1 < n)
    <2> SUFFICES ASSUME Len(t) - 1 < n PROVE FALSE
      OBVIOUS
    <2>1. Len(t) - 1 \in Int /\ n \in Int
      BY <1>3
    <2>2. (Len(t) - 1) * M \in Int /\ n * M \in Int /\ (Len(t) - 1) * M + M <= n * M
      BY <1>1, <2>1, Times
    <2> QED
      BY <1>1, <1>3, <1>4, <1>5, <2>2
  <1> QED
    BY <1>3, <1>6

\* The starts so many places after the first of them and before the last.
LEMMA PlacesAre ==
    ASSUME NEW i \in DOMAIN intervals, NEW t, NEW first, NEW last, Whole(t, i, first, last),
           NEW n \in Nat, n < Len(t)
    PROVE  After(n, i, first) = t[1 + n] /\ Before(n, i, last) = t[Len(t) - n]
  <1>1. Stretch(t, Starts(i)) /\ t[1] = first /\ t[Len(t)] = last
    BY DEF Whole
  <1>2. (CHOOSE x \in Starts(i) : Cardinality(BeyondTo(Starts(i), t[1], x)) = n /\ t[1] <= x) = t[1 + n]
    BY <1>1, PlaceAfter
  <1>3. (CHOOSE x \in Starts(i) : Cardinality(FromTo(Starts(i), x, t[Len(t)])) = n /\ x <= t[Len(t)])
           = t[Len(t) - n]
    BY <1>1, PlaceBefore
  <1>4. After(n, i, t[1]) = t[1 + n]
    BY <1>2 DEF After, BeyondTo, Starts
  <1>5. Before(n, i, t[Len(t)]) = t[Len(t) - n]
    BY <1>3 DEF Before, FromTo, Starts
  <1> QED
    BY <1>1, <1>4, <1>5

\* There is a start so many places after another.
LEMMA AfterIs ==
    ASSUME NEW i \in DOMAIN intervals, NEW n \in Nat,
           NEW low \in Starts(i), NEW e \in Starts(i), low + n * Long(i) <= e
    PROVE  After(n, i, low) \in Int
  <1> DEFINE F == {s \in Starts(i) : low <= s /\ s <= e}
             t == Sorted(F)
  <1>1. low \in Int /\ e \in Int /\ Long(i) \in Nat \ {0} /\ n * Long(i) \in Nat /\ low <= e
        /\ Starts(i) \subseteq Int /\ \A s \in Starts(i) : s \in Int
    <2>1. low \in Int /\ e \in Int /\ Long(i) \in Nat \ {0}
          /\ Starts(i) \subseteq Int /\ \A s \in Starts(i) : s \in Int
      BY StartsAre
    <2>2. n * Long(i) \in Nat
      BY <2>1
    <2> QED
      BY <2>1, <2>2
  <1>2. /\ F \subseteq Starts(i) /\ F \subseteq Int /\ low \in F /\ e \in F
        /\ \A s \in F : low <= s /\ s <= e
        /\ \A s \in Starts(i), a, b \in F : a <= s /\ s <= b => s \in F
    <2>1. F \subseteq Starts(i) /\ F \subseteq Int /\ low \in F /\ e \in F /\ \A s \in F : low <= s /\ s <= e
      BY <1>1
    <2>2. ASSUME NEW s \in Starts(i), NEW a \in F, NEW b \in F, a <= s, s <= b PROVE s \in F
      <3>1. a \in Int /\ b \in Int /\ s \in Int /\ low <= a /\ b <= e
        BY <1>1
      <3>2. low <= s /\ s <= e
        BY <1>1, <2>2, <3>1
      <3> QED
        BY <3>2
    <2> QED
      BY <2>1, <2>2
  <1>3. IsFiniteSet(F)
    <2>1. IsFiniteSet(low..e)
      BY <1>1, FS_Interval
    <2>2. \A s \in F : s \in low..e
      BY <1>1
    <2> QED
      BY <2>1, <2>2, FS_Subset
  <1> HIDE DEF F
  <1>4. Stretch(t, Starts(i)) /\ \A s \in F : \E k \in 1..Len(t) : t[k] = s
    BY <1>1, <1>2, <1>3, SortedStretch
  <1>5. t \in Seq(F) /\ \A k \in 1..Len(t) : t[k] \in F
    <2>1. Cardinality(F) \in Nat /\ t \in [1..Cardinality(F) -> F]
      BY <1>2, <1>3, SortedIs
    <2> HIDE DEF t
    <2>2. t \in Seq(F)
      BY <2>1, SeqDef
    <2> QED
      BY <2>2, ElementOfSeq
  <1> HIDE DEF t
  <1>6. /\ Len(t) \in Nat \ {0} /\ \A k \in 1..Len(t) : t[k] \in Int
        /\ \A k, l \in 1..Len(t) : k <= l <=> t[k] <= t[l]
    BY <1>4, StretchIs
  <1>7. t[1] = low
    <2>1. PICK k \in 1..Len(t) : t[k] = low
      BY <1>2, <1>4
    <2>2. 1 \in 1..Len(t) /\ 1 <= k
      BY <1>6
    <2>3. t[1] <= t[k] /\ low <= t[1] /\ t[1] \in Int
      BY <1>2, <1>5, <1>6, <2>2
    <2> QED
      BY <1>1, <2>1, <2>3
  <1>8. t[Len(t)] = e
    <2>1. PICK k \in 1..Len(t) : t[k] = e
      BY <1>2, <1>4
    <2>2. Len(t) \in 1..Len(t) /\ k <= Len(t)
      BY <1>6
    <2>3. t[k] <= t[Len(t)] /\ t[Len(t)] <= e /\ t[Len(t)] \in Int
      BY <1>2, <1>5, <1>6, <2>2
    <2> QED
      BY <1>1, <2>1, <2>3
  <1>9. CASE 2 <= Len(t)
    <2>1. Whole(t, i, low, e)
      BY <1>4, <1>7, <1>8, <1>9 DEF Whole
    <2>2. n < Len(t)
      BY <2>1, LongEnough
    <2>3. After(n, i, low) = t[1 + n] /\ 1 + n \in 1..Len(t)
      BY <1>6, <2>1, <2>2, PlacesAre
    <2> QED
      BY <1>6, <2>3
  <1>10. CASE ~(2 <= Len(t))
    <2>1. low = e
      BY <1>6, <1>7, <1>8, <1>10
    <2>2. n = 0
      <3>1. n * Long(i) = 0
        BY <1>1, <2>1
      <3> QED
        BY <1>1, <3>1
    <2>3. n < Len(t)
      BY <1>6, <2>2
    <2>4. (CHOOSE x \in Starts(i) : Cardinality(BeyondTo(Starts(i), t[1], x)) = n /\ t[1] <= x) = t[1 + n]
      BY <1>4, <2>3, PlaceAfter
    <2>5. After(n, i, t[1]) = t[1 + n]
      BY <2>4 DEF After, BeyondTo, Starts
    <2> QED
      BY <1>6, <1>7, <2>2, <2>5
  <1> QED
    BY <1>9, <1>10


-----------------------------------------------------------------------------
(* The rows in the buckets.                                                *)

\* A number is a multiple of a period and what is left.
LEMMA Divided ==
    ASSUME NEW P \in Nat \ {0}, NEW u \in Int
    PROVE  u \div P \in Int /\ u = P * (u \div P) + (u % P)
  OBVIOUS

\* No start is between a time and that of its row in a view, which is one itself if it is between
\* two that follow each other.
LEMMA ViewTimeIs ==
    ASSUME NEW i \in DOMAIN intervals, NEW row, row.time \in Int, NEW s \in Starts(i), s <= row.time
    PROVE  /\ ViewTime(i, row) \in Int
           /\ \A u \in Starts(i) : u <= row.time <=> u <= ViewTime(i, row)
           /\ \A a, b \in Starts(i) :
                 a <= ViewTime(i, row) /\ ViewTime(i, row) < b /\ ~(\E between \in Starts(i) : a < between /\ between < b)
                 => ViewTime(i, row) = a
  <1> DEFINE x == row.time
             P == Short(i)
             V == ViewTime(i, row)
  <1>1. /\ \A u \in Starts(i) : u \in Int
        /\ P \in Nat \ {0} /\ DayPeriod \in Nat \ {0} /\ x \in Int /\ s \in Int
    BY StartsAre, SeriesAssumption
  <1>2. ASSUME NEW Q \in Nat \ {0}, NEW u \in Int, u % Q = 0
        PROVE  u <= x <=> u <= TimeBucketFloor(x, Q)
    <2>1. u \div Q \in Int /\ u = (u \div Q) * Q
      <3>1. u \div Q \in Int /\ u = Q * (u \div Q) + (u % Q)
        OBVIOUS
      <3> QED
        BY <1>2, <3>1
    <2>2. TimeBucketFloor(x, Q) \in Int
      BY <1>1, Floor
    <2> DEFINE k == u \div Q
    <2> HIDE DEF k
    <2>3. k \in Int /\ u = k * Q
      BY <2>1 DEF k
    <2>4. TimeBucketFloor(x, Q) < k * Q <=> x < k * Q
      BY <1>1, <2>3, BeforeAPeriod
    <2> QED
      BY <1>1, <2>2, <2>3, <2>4
  <1>3. CASE intervals[i].exact
    <2>1. V = TimeBucketFloor(x, P)
      BY <1>3 DEF ViewTime, Short
    <2>2. Long(i) = P /\ \A u \in Starts(i) : u % P = 0
      BY <1>3, SeriesAssumption DEF Starts, Short, Long
    <2>3. V \in Int /\ \A u \in Starts(i) : u <= x <=> u <= V
      BY <1>1, <1>2, <2>1, <2>2, Floor
    <2>4. ASSUME NEW a \in Starts(i), NEW b \in Starts(i), a <= V, V < b,
                 ~(\E between \in Starts(i) : a < between /\ between < b)
          PROVE  V = a
      <3>1. a < b /\ a \in Int /\ b \in Int
        BY <1>1, <2>3, <2>4
      <3>2. b <= a + P
        BY <2>2, <2>4, <3>1, StartsAre
      <3>3. a = (a \div P) * P /\ a \div P \in Int
        <4>1. a \div P \in Int /\ a = P * (a \div P) + (a % P)
          BY <1>1, <3>1, Divided
        <4> QED
          BY <1>1, <2>2, <4>1
      <3>4. V = (x \div P) * P /\ x \div P \in Int
        BY <1>1, <2>1, Floor DEF TimeBucketFloor
      <3> DEFINE p == a \div P
                 q == x \div P
      <3> HIDE DEF p, q
      <3>5. p \in Int /\ q \in Int /\ a = p * P /\ V = q * P
        BY <3>3, <3>4 DEF p, q
      <3>6. (q < p => q * P + P <= p * P) /\ (p < q => p * P + P <= q * P)
        BY <1>1, <3>5, Times
      <3> HIDE DEF V, P
      <3>7. ~(q < p) /\ ~(p < q)
        BY <1>1, <2>3, <2>4, <3>1, <3>2, <3>5, <3>6
      <3>8. p = q
        BY <3>5, <3>7
      <3> QED
        BY <3>5, <3>8
    <2> QED
      BY <2>3, <2>4
  <1>4. CASE ~intervals[i].exact
    <2> DEFINE day == TimeBucketFloor(x, DayPeriod)
    <2>1. V = Trunc(i, day)
      BY <1>4 DEF ViewTime
    <2>2. \A u \in Starts(i) : u % DayPeriod = 0
      BY <1>4, SeriesAssumption DEF Starts
    <2>3. day \in Int /\ \A u \in Starts(i) : u <= x <=> u <= day
      BY <1>1, <1>2, <2>2, Floor
    <2> HIDE DEF day, V
    <2>4. s <= day
      BY <2>3
    <2>5. V \in Starts(i) /\ V \in Int /\ V <= day /\ \A u \in Starts(i) : u <= day => u <= V
      BY <2>1, <2>3, <2>4, TruncIs
    <2>6. \A u \in Starts(i) : u <= x <=> u <= V
      BY <1>1, <2>3, <2>5
    <2>7. \A a, b \in Starts(i) :
             a <= V /\ V < b /\ ~(\E between \in Starts(i) : a < between /\ between < b) => V = a
      BY <1>1, <2>5
    <2> QED
      BY <2>5, <2>6, <2>7 DEF V
  <1> QED
    BY <1>3, <1>4

\* A row is of the bucket its time is in, and of one if it is between the first and the last of them.
LEMMA BucketIs ==
    ASSUME NEW i \in DOMAIN intervals, NEW t, Stretch(t, Starts(i)),
           NEW row, row.time \in Int, NEW s \in Starts(i), s <= row.time
    PROVE  /\ ViewTime(i, row) \in Int
           /\ \A k \in 1..(Len(t) - 1) :
                 ViewTime(i, row) = t[k] <=> t[k] <= row.time /\ row.time < t[k + 1]
           /\ t[1] <= ViewTime(i, row) /\ ViewTime(i, row) < t[Len(t)] =>
                 \E k \in 1..(Len(t) - 1) : ViewTime(i, row) = t[k]
  <1> DEFINE x == row.time
             n == Len(t)
             V == ViewTime(i, row)
  <1>1. /\ V \in Int /\ x \in Int
        /\ \A u \in Starts(i) : u <= x <=> u <= V
        /\ \A a, b \in Starts(i) :
              a <= V /\ V < b /\ ~(\E between \in Starts(i) : a < between /\ between < b) => V = a
    BY ViewTimeIs
  <1>2. /\ n \in Nat \ {0} /\ \A k \in 1..n : t[k] \in Starts(i) /\ t[k] \in Int
        /\ \A k, l \in 1..n : (k < l <=> t[k] < t[l]) /\ (k <= l <=> t[k] <= t[l])
        /\ \A u \in Starts(i) : u \in Int
    BY StretchIs
  <1> HIDE DEF V, x
  <1>3. ASSUME NEW k \in 1..(n - 1)
        PROVE  /\ k \in 1..n /\ k + 1 \in 1..n /\ t[k] < t[k + 1]
               /\ ~\E between \in Starts(i) : t[k] < between /\ between < t[k + 1]
    <2>1. k \in 1..n /\ k + 1 \in 1..n /\ k < k + 1 /\ 1 \in 1..n /\ n \in 1..n /\ 1 <= k /\ k + 1 <= n
      BY <1>2
    <2>2. t[k] < t[k + 1] /\ t[1] <= t[k] /\ t[k + 1] <= t[n]
      BY <1>2, <2>1
    <2>3. ASSUME NEW u \in Starts(i), t[k] < u, u < t[k + 1] PROVE FALSE
      <3>1. u \in Int /\ t[1] \in Int /\ t[n] \in Int /\ t[k] \in Int /\ t[k + 1] \in Int
        BY <1>2, <2>1
      <3>2. t[1] <= u /\ u <= t[n]
        BY <2>2, <2>3, <3>1
      <3>3. PICK l \in 1..n : t[l] = u
        BY <3>2 DEF Stretch
      <3>4. k < l /\ l < k + 1
        BY <1>2, <2>1, <2>3, <3>3
      <3> QED
        BY <2>1, <3>4
    <2> QED
      BY <2>1, <2>2, <2>3
  <1>4. ASSUME NEW k \in 1..(n - 1), t[k] <= V, V < t[k + 1] PROVE V = t[k]
    BY <1>1, <1>2, <1>3, <1>4
  <1>5. ASSUME NEW k \in 1..(n - 1) PROVE V = t[k] <=> t[k] <= x /\ x < t[k + 1]
    <2>1. t[k] \in Starts(i) /\ t[k + 1] \in Starts(i) /\ t[k] \in Int /\ t[k + 1] \in Int /\ t[k] < t[k + 1]
      BY <1>2, <1>3
    <2>2. (t[k] <= x <=> t[k] <= V) /\ (t[k + 1] <= x <=> t[k + 1] <= V)
      BY <1>1, <2>1
    <2> QED
      BY <1>1, <1>4, <2>1, <2>2
  <1>6. ASSUME t[1] <= V, V < t[n] PROVE \E k \in 1..(n - 1) : V = t[k]
    <2> DEFINE c == CountTo(t, V)
    <2>1. c \in 0..n /\ \A k \in 1..n : k <= c <=> t[k] <= V
      BY <1>1, CountsAre
    <2> HIDE DEF c
    <2>2. 1 \in 1..n /\ n \in 1..n /\ t[n] \in Int
      BY <1>2
    <2>3. 1 <= c /\ ~(n <= c)
      BY <1>1, <1>6, <2>1, <2>2
    <2>4. c \in 1..(n - 1) /\ c \in 1..n /\ c + 1 \in 1..n /\ c <= c /\ ~(c + 1 <= c)
      BY <1>2, <2>1, <2>3
    <2>5. t[c] <= V /\ ~(t[c + 1] <= V) /\ t[c + 1] \in Int
      BY <1>2, <2>1, <2>4
    <2>6. V = t[c]
      BY <1>1, <1>4, <2>4, <2>5
    <2> QED
      BY <2>4, <2>6
  <1> QED
    BY <1>1, <1>5, <1>6 DEF V, x

-----------------------------------------------------------------------------
(* The merge into the buckets.                                             *)

\* Rows of a query in the order of the starts they are of.
InOrder(found, t, c) ==
    /\ Len(found) \in Nat /\ DOMAIN found = 1..Len(found)
    /\ \A j \in 1..Len(found) : \E k \in 1..c : found[j].at = t[k]
    /\ \A j, l \in 1..Len(found) : j < l => found[j].at <= found[l].at
Grow(t, c) == \A k, l \in 1..c : t[k] \in Int /\ (k < l => t[k] < t[l])

\* Where the rows behind bucket k begin.
PlaceBehind(found, t, k) ==
    Min({j \in 1..Len(found) : k = 0 \/ t[k] < found[j].at} \cup {Len(found) + 1})
OfStart(found, x) == {j \in 1..Len(found) : found[j].at = x}

\* The rows of a query are of times, and none is between two that follow each other.
LEMMA InOrderIs ==
    ASSUME NEW c \in Nat, NEW t, Grow(t, c), NEW found, InOrder(found, t, c)
    PROVE  /\ \A j \in 1..Len(found) : found[j].at \in Int
           /\ \A k \in 1..c : t[k] \in Int
           /\ \A j \in 1..Len(found), k \in 1..c : k = 1 \/ t[k - 1] < found[j].at <=> t[k] <= found[j].at
  <1>1. \A k, l \in 1..c : t[k] \in Int /\ (k < l => t[k] < t[l])
    BY DEF Grow
  <1>2. \A j \in 1..Len(found) : \E k \in 1..c : found[j].at = t[k]
    BY DEF InOrder
  <1>3. ASSUME NEW j \in 1..Len(found), NEW k \in 1..c
        PROVE  k = 1 \/ t[k - 1] < found[j].at <=> t[k] <= found[j].at
    <2>1. PICK l \in 1..c : found[j].at = t[l]
      BY <1>2
    <2>2. t[l] \in Int /\ t[k] \in Int /\ (l < k => t[l] < t[k]) /\ (k < l => t[k] < t[l])
      BY <1>1
    <2>3. l = k => t[l] = t[k]
      OBVIOUS
    <2>4. t[k] <= t[l] <=> k <= l
      BY <2>2, <2>3
    <2>5. CASE k = 1
      <3>1. k <= l
        BY <2>5
      <3> QED
        BY <2>1, <2>4, <2>5, <3>1
    <2>6. CASE k # 1
      <3>1. k - 1 \in 1..c
        BY <2>6
      <3>2. t[k - 1] \in Int /\ (l < k - 1 => t[l] < t[k - 1]) /\ (k - 1 < l => t[k - 1] < t[l])
        BY <1>1, <3>1
      <3>3. l = k - 1 => t[l] = t[k - 1]
        OBVIOUS
      <3>4. t[k - 1] < t[l] <=> k - 1 < l
        BY <2>2, <3>1, <3>2, <3>3
      <3> QED
        BY <2>1, <2>4, <2>6, <3>4
    <2> QED
      BY <2>5, <2>6
  <1> QED
    BY <1>1, <1>2, <1>3

\* The rows from that place on are those of later starts.
LEMMA PlaceBehindIs ==
    ASSUME NEW c \in Nat, NEW t, Grow(t, c), NEW found, InOrder(found, t, c), NEW k \in 0..c
    PROVE  /\ PlaceBehind(found, t, k) \in 1..(Len(found) + 1)
           /\ \A j \in 1..Len(found) : PlaceBehind(found, t, k) <= j <=> k = 0 \/ t[k] < found[j].at
  <1> DEFINE m == Len(found)
             S == {j \in 1..m : k = 0 \/ t[k] < found[j].at} \cup {m + 1}
             p == PlaceBehind(found, t, k)
  <1>1. m \in Nat /\ \A j, l \in 1..m : j < l => found[j].at <= found[l].at
    BY DEF InOrder
  <1>2. /\ \A j \in 1..m : found[j].at \in Int
        /\ k # 0 => t[k] \in Int
    BY InOrderIs
  <1>3. S \subseteq Nat /\ S # {} /\ \A j \in S : j \in 1..(m + 1)
    BY <1>1
  <1>4. p = Min(S)
    BY DEF PlaceBehind
  <1>5. \A j \in 1..m : j \in S <=> k = 0 \/ t[k] < found[j].at
    BY <1>1
  <1> HIDE DEF S
  <1>6. p \in S /\ \A j \in S : p <= j
    BY <1>3, <1>4, MinIsOne
  <1> HIDE DEF p
  <1>7. p \in 1..(m + 1)
    BY <1>3, <1>6
  <1>8. ASSUME NEW j \in 1..m PROVE p <= j <=> k = 0 \/ t[k] < found[j].at
    <2>1. CASE j \in S
      BY <1>5, <1>6, <2>1
    <2>2. CASE j \notin S
      <3>1. ~(k = 0 \/ t[k] < found[j].at)
        BY <1>5, <2>2
      <3>2. ASSUME p <= j PROVE FALSE
        <4>1. p \in 1..m
          BY <1>1, <1>7, <3>2
        <4>2. k = 0 \/ t[k] < found[p].at
          BY <1>5, <1>6, <4>1
        <4>3. p # j
          BY <1>6, <2>2
        <4>4. found[p].at <= found[j].at
          BY <1>1, <1>7, <3>2, <4>1, <4>3
        <4> QED
          BY <1>2, <3>1, <4>1, <4>2, <4>4
      <3> QED
        BY <3>1, <3>2
    <2> QED
      BY <2>1, <2>2
  <1> QED
    BY <1>7, <1>8 DEF p

\* From the rows behind a bucket the next one takes its own.
LEMMA NextBehind ==
    ASSUME NEW c \in Nat, NEW t, Grow(t, c), NEW found, InOrder(found, t, c), NEW k \in 1..c
    PROVE  /\ NextOther(found, PlaceBehind(found, t, k - 1), t[k]) = PlaceBehind(found, t, k)
           /\ PlaceBehind(found, t, k - 1)..(PlaceBehind(found, t, k) - 1) = OfStart(found, t[k])
  <1> DEFINE m == Len(found)
             p == PlaceBehind(found, t, k - 1)
             q == PlaceBehind(found, t, k)
             A == {j \in p..m : found[j].at # t[k]}
             B == {j \in 1..m : k = 0 \/ t[k] < found[j].at}
  <1>1. m \in Nat /\ k \in 0..c /\ k - 1 \in 0..c /\ k # 0
    BY DEF InOrder
  <1>2. t[k] \in Int /\ \A j \in 1..m : found[j].at \in Int
    BY InOrderIs
  <1>3. /\ p \in 1..(m + 1)
        /\ \A j \in 1..m : p <= j <=> k - 1 = 0 \/ t[k - 1] < found[j].at
    BY <1>1, PlaceBehindIs
  <1>4. q \in 1..(m + 1) /\ \A j \in 1..m : q <= j <=> t[k] < found[j].at
    BY <1>1, PlaceBehindIs
  <1>5. \A j \in 1..m : k = 1 \/ t[k - 1] < found[j].at <=> t[k] <= found[j].at
    BY InOrderIs
  <1> HIDE DEF p, q
  <1>6. \A j \in 1..m : p <= j <=> t[k] <= found[j].at
    <2>1. k - 1 = 0 <=> k = 1
      OBVIOUS
    <2> QED
      BY <1>3, <1>5, <2>1
  <1>7. A = B
    <2>1. ASSUME NEW j PROVE j \in A <=> j \in B
      <3>1. j \in A <=> j \in 1..m /\ p <= j /\ found[j].at # t[k]
        BY <1>1, <1>3
      <3>2. j \in B <=> j \in 1..m /\ t[k] < found[j].at
        BY <1>1
      <3>3. j \in 1..m => (p <= j /\ found[j].at # t[k] <=> t[k] < found[j].at)
        BY <1>2, <1>6
      <3> QED
        BY <3>1, <3>2, <3>3
    <2> HIDE DEF A, B
    <2> QED
      BY <2>1
  <1>8. NextOther(found, p, t[k]) = q
    BY <1>7 DEF NextOther, PlaceBehind, q
  <1>9. p..(q - 1) = OfStart(found, t[k])
    <2>1. ASSUME NEW j PROVE j \in p..(q - 1) <=> j \in OfStart(found, t[k])
      <3>1. j \in p..(q - 1) <=> j \in 1..m /\ p <= j /\ ~(q <= j)
        BY <1>1, <1>3, <1>4
      <3>2. j \in OfStart(found, t[k]) <=> j \in 1..m /\ found[j].at = t[k]
        BY DEF OfStart
      <3>3. j \in 1..m => (p <= j /\ ~(q <= j) <=> found[j].at = t[k])
        BY <1>2, <1>4, <1>6
      <3> QED
        BY <3>1, <3>2, <3>3
    <2> QED
      BY <2>1
  <1> QED
    BY <1>8, <1>9 DEF p, q

\* The places that the merge is at after each bucket.
IsMerge(f, found, t, c) ==
    f = [k \in 0..c |-> IF k = 0 THEN 1 ELSE NextOther(found, f[k - 1], t[k])]

\* They are there, and are those behind the buckets: the first that is not would follow one that is.
LEMMA MergePlaces ==
    ASSUME NEW c \in Nat, NEW t, Grow(t, c), NEW found, InOrder(found, t, c)
    PROVE  /\ \E f : IsMerge(f, found, t, c)
           /\ \A f : IsMerge(f, found, t, c) => \A k \in 0..c : f[k] = PlaceBehind(found, t, k)
  <1>1. PlaceBehind(found, t, 0) = 1
    <2> DEFINE m == Len(found)
               p == PlaceBehind(found, t, 0)
    <2>1. m \in Nat /\ 0 \in 0..c
      BY DEF InOrder
    <2>2. p \in 1..(m + 1) /\ \A j \in 1..m : p <= j
      BY <2>1, PlaceBehindIs
    <2> HIDE DEF p, m
    <2>3. m # 0 => 1 \in 1..m
      BY <2>1
    <2>4. p = 1
      BY <2>1, <2>2, <2>3
    <2> QED
      BY <2>4 DEF p
  <1>2. \A k \in 1..c : NextOther(found, PlaceBehind(found, t, k - 1), t[k]) = PlaceBehind(found, t, k)
    BY NextBehind
  <1>3. \A k \in 0..c : k # 0 => k \in 1..c /\ k - 1 \in 0..c
    OBVIOUS
  <1>4. \E f : IsMerge(f, found, t, c)
    <2> DEFINE f == [k \in 0..c |-> PlaceBehind(found, t, k)]
    <2>1. \A k \in 0..c : f[k] = IF k = 0 THEN 1 ELSE NextOther(found, f[k - 1], t[k])
      <3> TAKE k \in 0..c
      <3>1. CASE k = 0
        BY <1>1, <3>1
      <3>2. CASE k # 0
        <4>1. k \in 1..c /\ k - 1 \in 0..c
          BY <1>3, <3>2
        <4>2. f[k - 1] = PlaceBehind(found, t, k - 1) /\ f[k] = PlaceBehind(found, t, k)
          BY <4>1
        <4> HIDE DEF f
        <4> QED
          BY <1>2, <3>2, <4>1, <4>2
      <3> QED
        BY <3>1, <3>2
    <2>2. f = [k \in 0..c |-> f[k]]
      OBVIOUS
    <2> HIDE DEF f
    <2>3. f = [k \in 0..c |-> IF k = 0 THEN 1 ELSE NextOther(found, f[k - 1], t[k])]
      BY <2>1, <2>2, Zenon
    <2> QED
      BY <2>3 DEF IsMerge
  <1>5. ASSUME NEW f, IsMerge(f, found, t, c), NEW l \in 0..c, f[l] # PlaceBehind(found, t, l)
        PROVE  FALSE
    <2> DEFINE Wrong == {k \in 0..c : f[k] # PlaceBehind(found, t, k)}
    <2>1. \A k \in 0..c : f[k] = IF k = 0 THEN 1 ELSE NextOther(found, f[k - 1], t[k])
      <3> DEFINE e(k) == IF k = 0 THEN 1 ELSE NextOther(found, f[k - 1], t[k])
      <3>1. f = [k \in 0..c |-> e(k)]
        BY <1>5 DEF IsMerge
      <3> HIDE DEF e
      <3>2. \A k \in 0..c : f[k] = e(k)
        BY <3>1
      <3> QED
        BY <3>2 DEF e
    <2>2. PICK k \in Wrong : \A j \in Wrong : k <= j
      <3>1. Wrong \subseteq Nat /\ Wrong # {}
        BY <1>5
      <3> HIDE DEF Wrong
      <3> QED
        BY <3>1, MinIsOne
    <2>3. k \in 0..c /\ f[k] # PlaceBehind(found, t, k)
      BY <2>2
    <2>4. k # 0
      BY <1>1, <2>1, <2>3
    <2>5. k \in 1..c /\ k - 1 \in 0..c /\ ~(k <= k - 1)
      BY <2>3, <2>4
    <2>6. f[k - 1] = PlaceBehind(found, t, k - 1)
      BY <2>2, <2>5
    <2>7. f[k] = NextOther(found, f[k - 1], t[k])
      BY <2>1, <2>3, <2>4
    <2> QED
      BY <1>2, <2>3, <2>5, <2>6, <2>7
  <1> QED
    BY <1>4, <1>5

\* The merge gives each bucket the rows of its start (mergeSwapsGapfill in stat/swap.go).
LEMMA MergeIs ==
    ASSUME NEW b, Count(b) \in Nat, Grow(b.timestamps, Count(b)),
           NEW found, InOrder(found, b.timestamps, Count(b)), NEW k \in 1..Count(b)
    PROVE  mergeGapfill(b, found)[k] = [j \in OfStart(found, b.timestamps[k]) |-> found[j].rows]
  <1> DEFINE t == b.timestamps
             c == Count(b)
             idx == CHOOSE f : IsMerge(f, found, t, c)
  <1>1. mergeGapfill(b, found) = [l \in 1..c |-> [j \in idx[l - 1]..(idx[l] - 1) |-> found[j].rows]]
    BY DEF mergeGapfill, IsMerge
  <1> HIDE DEF t, c
  <1>2. c \in Nat /\ Grow(t, c) /\ InOrder(found, t, c) /\ k \in 1..c
    BY DEF t, c
  <1>3. IsMerge(idx, found, t, c)
    <2>1. \E f : IsMerge(f, found, t, c)
      BY <1>2, MergePlaces
    <2> QED
      BY <2>1
  <1> HIDE DEF idx
  <1>4. \A l \in 0..c : idx[l] = PlaceBehind(found, t, l)
    BY <1>2, <1>3, MergePlaces
  <1>5. k \in 0..c /\ k - 1 \in 0..c
    BY <1>2
  <1>6. idx[k - 1]..(idx[k] - 1) = OfStart(found, t[k])
    <2>1. idx[k - 1] = PlaceBehind(found, t, k - 1) /\ idx[k] = PlaceBehind(found, t, k)
      BY <1>4, <1>5
    <2>2. PlaceBehind(found, t, k - 1)..(PlaceBehind(found, t, k) - 1) = OfStart(found, t[k])
      BY <1>2, NextBehind
    <2> QED
      BY <2>1, <2>2
  <1>7. mergeGapfill(b, found)[k] = [j \in idx[k - 1]..(idx[k] - 1) |-> found[j].rows]
    BY <1>1, <1>2
  <1> QED
    BY <1>6, <1>7 DEF t

-----------------------------------------------------------------------------
(* The rows summed in a bucket.                                            *)

\* In one of the parts, or in none.
LEMMA TimesAre ==
    ASSUME NEW parts, NEW row
    PROVE  /\ (\E k \in DOMAIN parts : \A l \in DOMAIN parts : row \in parts[l] <=> l = k)
              => TimesCounted(parts, row) = 1
           /\ (\A l \in DOMAIN parts : row \notin parts[l]) => TimesCounted(parts, row) = 0
  <1> DEFINE K == {k \in DOMAIN parts : row \in parts[k]}
  <1>1. TimesCounted(parts, row) = Cardinality(K)
    BY DEF TimesCounted
  <1>2. ASSUME NEW k \in DOMAIN parts, \A l \in DOMAIN parts : row \in parts[l] <=> l = k
        PROVE  Cardinality(K) = 1
    <2>1. K = {k}
      BY <1>2
    <2> QED
      BY <2>1, FS_Singleton
  <1>3. ASSUME \A l \in DOMAIN parts : row \notin parts[l] PROVE Cardinality(K) = 0
    <2>1. K = {}
      BY <1>3
    <2> QED
      BY <2>1, FS_EmptySet
  <1> QED
    BY <1>1, <1>2, <1>3

\* Rows of times that the calendar has.
Dated(i, rows) == \A r \in rows : r.time \in Int /\ \E s \in Starts(i) : s <= r.time

\* What a query gets for whole intervals: one row for each interval with rows, in their order.
LEMMA SeriesRows ==
    ASSUME NEW i \in DOMAIN intervals, NEW b, b.interval = i, ~OneInterval(b),
           Stretch(b.timestamps, Starts(i)), 2 <= Len(b.timestamps), NEW rows, Dated(i, rows),
           NEW found, found = BucketedQuery(b, rows)
    PROVE  /\ InOrder(found, b.timestamps, Count(b))
           /\ \A k, l \in 1..Len(found) : found[k].at = found[l].at => k = l
           /\ \A k \in 1..Len(found) : found[k].rows = {r \in rows : ViewTime(i, r) = found[k].at}
           /\ \A r \in rows, k \in 1..Count(b) :
                 ViewTime(i, r) = b.timestamps[k] => \E j \in 1..Len(found) : found[j].at = b.timestamps[k]
  <1> DEFINE t == b.timestamps
             n == Len(t)
             V(r) == ViewTime(i, r)
             S == {a \in {V(r) : r \in rows} : t[1] <= a /\ a < t[n]}
             m == Cardinality(S)
             list == Sorted(S)
             RowsAt(a) == {r \in rows : V(r) = a}
  <1>1. /\ n \in Nat \ {0} /\ \A k \in 1..n : t[k] \in Int
        /\ \A k, l \in 1..n : (k < l <=> t[k] < t[l]) /\ (k <= l <=> t[k] <= t[l])
    BY StretchIs
  <1>2. ASSUME NEW r \in rows
        PROVE  V(r) \in Int /\ (t[1] <= V(r) /\ V(r) < t[n] => \E k \in 1..(n - 1) : V(r) = t[k])
    <2>1. PICK s \in Starts(i) : s <= r.time
      BY DEF Dated
    <2>2. r.time \in Int
      BY DEF Dated
    <2> QED
      BY <2>1, <2>2, BucketIs
  <1>3. found = [k \in 1..m |-> Aggregate(list[k], RowsAt(list[k]))]
    <2>1. Last(t) = t[n]
      BY DEF Last
    <2> QED
      BY <2>1 DEF BucketedQuery
  <1>4. S \subseteq Int /\ IsFiniteSet(S)
    <2>1. \A a \in S : a \in Int /\ t[1] <= a /\ a < t[n]
      BY <1>2
    <2>2. t[1] \in Int /\ t[n] \in Int
      BY <1>1
    <2> HIDE DEF S
    <2>3. S \subseteq t[1]..t[n]
      BY <2>1, <2>2
    <2>4. IsFiniteSet(t[1]..t[n])
      BY <2>2, FS_Interval
    <2> QED
      BY <2>1, <2>3, <2>4, FS_Subset
  <1>5. \A a \in S : \E k \in 1..(n - 1) : a = t[k]
    BY <1>2
  <1>6. \A r \in rows, k \in 1..(n - 1) : V(r) = t[k] => t[k] \in S
    <2> TAKE r \in rows, k \in 1..(n - 1)
    <2>1. k \in 1..n /\ 1 \in 1..n /\ n \in 1..n /\ 1 <= k /\ k < n
      BY <1>1
    <2>2. t[1] <= t[k] /\ t[k] < t[n]
      BY <1>1, <2>1
    <2> QED
      BY <2>2
  <1> HIDE DEF S
  <1>7. /\ m \in Nat /\ list \in [1..m -> S]
        /\ \A a \in S : \E k \in 1..m : list[k] = a
        /\ \A k, l \in 1..m : k < l => list[k] < list[l]
    BY <1>4, SortedIs
  <1> HIDE DEF m, list, RowsAt
  <1>8. /\ Len(found) = m /\ DOMAIN found = 1..m
        /\ \A k \in 1..m : found[k].at = list[k] /\ found[k].rows = RowsAt(list[k])
    <2>1. Len(found) = m
      BY <1>3, <1>7
    <2>2. DOMAIN found = 1..m /\ \A k \in 1..m : found[k] = Aggregate(list[k], RowsAt(list[k]))
      BY <1>3
    <2>3. \A at, part : Aggregate(at, part).at = at /\ Aggregate(at, part).rows = part
      BY DEF Aggregate
    <2> QED
      BY <2>1, <2>2, <2>3
  <1>9. Count(b) = n - 1
    BY DEF Count
  <1>10. \A k \in 1..m : list[k] \in S /\ list[k] \in Int
    BY <1>4, <1>7
  <1> HIDE DEF V
  <1>11. InOrder(found, t, Count(b))
    <2>1. \A j \in 1..m : \E k \in 1..(n - 1) : found[j].at = t[k]
      BY <1>5, <1>8, <1>10
    <2>2. \A j, l \in 1..m : j < l => found[j].at <= found[l].at
      BY <1>7, <1>8, <1>10
    <2> HIDE DEF t, n
    <2> QED
      BY <1>7, <1>8, <1>9, <2>1, <2>2 DEF InOrder
  <1>12. \A k, l \in 1..m : found[k].at = found[l].at => k = l
    <2> TAKE k \in 1..m, l \in 1..m
    <2>1. list[k] \in Int /\ list[l] \in Int /\ (k < l => list[k] < list[l]) /\ (l < k => list[l] < list[k])
      BY <1>7, <1>10
    <2>2. k \in Int /\ l \in Int
      OBVIOUS
    <2> QED
      BY <1>8, <2>1, <2>2
  <1>13. \A k \in 1..m : found[k].rows = {r \in rows : V(r) = found[k].at}
    BY <1>8 DEF RowsAt
  <1>14. \A r \in rows, k \in 1..(n - 1) : V(r) = t[k] => \E j \in 1..m : found[j].at = t[k]
    BY <1>6, <1>7, <1>8, SMTT(60)
  <1> QED
    BY <1>8, <1>9, <1>11, <1>12, <1>13, <1>14 DEF V

\* In a series of whole intervals without a gap every row is summed in the bucket its time is in,
\* once, and in no other (BucketedQuery in db/aggregates.go, mergeSwapsGapfill in stat/swap.go).
THEOREM SeriesCountsOnce ==
    ASSUME NEW i \in DOMAIN intervals, NEW b, b.interval = i, ~OneInterval(b),
           Stretch(b.timestamps, Starts(i)), 2 <= Len(b.timestamps), NEW rows, Dated(i, rows),
           NEW k \in 1..Count(b), NEW row \in rows
    PROVE  TimesCounted(SwapHistory(b, rows)[k], row) =
              IF b.timestamps[k] <= row.time /\ row.time < b.timestamps[k + 1] THEN 1 ELSE 0
  <1> DEFINE t == b.timestamps
             c == Count(b)
             found == BucketedQuery(b, rows)
             m == Len(found)
             parts == [j \in OfStart(found, t[k]) |-> found[j].rows]
  <1>1. /\ InOrder(found, t, c)
        /\ \A j, l \in 1..m : found[j].at = found[l].at => j = l
        /\ \A j \in 1..m : found[j].rows = {r \in rows : ViewTime(i, r) = found[j].at}
        /\ \A r \in rows, l \in 1..c : ViewTime(i, r) = t[l] => \E j \in 1..m : found[j].at = t[l]
    BY SeriesRows
  <1>2. c = Len(t) - 1 /\ c \in Nat /\ Grow(t, c)
    <2>1. c = Len(t) - 1
      BY DEF Count
    <2>2. /\ Len(t) \in Nat \ {0} /\ \A l \in 1..Len(t) : t[l] \in Int
          /\ \A j, l \in 1..Len(t) : j < l <=> t[j] < t[l]
      BY StretchIs
    <2> HIDE DEF t, c
    <2>3. c \in Nat /\ \A l \in 1..c : l \in 1..Len(t)
      BY <2>1, <2>2
    <2> QED
      BY <2>1, <2>2, <2>3 DEF Grow
  <1>3. SwapHistory(b, rows)[k] = parts
    BY <1>1, <1>2, MergeIs DEF SwapHistory
  <1>4. ViewTime(i, row) = t[k] <=> t[k] <= row.time /\ row.time < t[k + 1]
    <2>1. PICK s \in Starts(i) : s <= row.time
      BY DEF Dated
    <2>2. row.time \in Int /\ k \in 1..(Len(t) - 1)
      BY <1>2 DEF Dated
    <2> QED
      BY <2>1, <2>2, BucketIs
  <1> HIDE DEF found, t, c
  <1>5. /\ DOMAIN parts = {j \in 1..m : found[j].at = t[k]}
        /\ \A j \in DOMAIN parts : row \in parts[j] <=> ViewTime(i, row) = t[k]
    <2>1. DOMAIN parts = {j \in 1..m : found[j].at = t[k]}
      BY DEF OfStart
    <2>2. ASSUME NEW j \in DOMAIN parts PROVE row \in parts[j] <=> ViewTime(i, row) = t[k]
      <3>1. j \in 1..m /\ found[j].at = t[k] /\ parts[j] = found[j].rows
        BY <2>1, <2>2
      <3> QED
        BY <1>1, <3>1
    <2> QED
      BY <2>1, <2>2
  <1> HIDE DEF parts, m
  <1>6. CASE ViewTime(i, row) = t[k]
    <2>1. PICK j \in 1..m : found[j].at = t[k]
      BY <1>1, <1>6 DEF c
    <2>2. j \in DOMAIN parts /\ \A l \in DOMAIN parts : row \in parts[l] <=> l = j
      BY <1>1, <1>5, <1>6, <2>1
    <2>3. TimesCounted(parts, row) = 1
      BY <2>2, TimesAre
    <2> QED
      BY <1>3, <1>4, <1>6, <2>3 DEF t
  <1>7. CASE ViewTime(i, row) # t[k]
    <2>1. \A l \in DOMAIN parts : row \notin parts[l]
      BY <1>5, <1>7
    <2>2. TimesCounted(parts, row) = 0
      BY <2>1, TimesAre
    <2> QED
      BY <1>3, <1>4, <1>7, <2>2 DEF t
  <1> QED
    BY <1>6, <1>7

\* The parts of a union are a list.
LEMMA UnionIsList ==
    ASSUME NEW low \in Int, NEW high \in Int, NEW rows
    PROVE  /\ Len(UnionQuery(low, high, rows)) \in Nat
           /\ DOMAIN UnionQuery(low, high, rows) = 1..Len(UnionQuery(low, high, rows))
  <1>1. PICK a, b, c, A, B, C :
            /\ UnionQuery(low, high, rows) = Part(a, A) \o Part(b, B) \o Part(c, C)
            /\ A = {r \in rows : 0 < low /\ low <= r.time /\ r.time < TimeBucketCeil(low, DayPeriod)}
            /\ B = {r \in rows : TimeBucketFloor(high, DayPeriod) <= r.time /\ r.time < high}
            /\ C = WholeDays(low, high, rows)
    BY UnionParts
  <1> DEFINE E == {Aggregate(a, A), Aggregate(b, B), Aggregate(c, C)}
             u == Part(a, A)
             v == Part(b, B)
             w == Part(c, C)
  <1>2. u \in Seq(E) /\ v \in Seq(E) /\ w \in Seq(E)
    <2>1. \A e \in E : <<e>> \in Seq(E)
      OBVIOUS
    <2>2. <<>> \in Seq(E)
      OBVIOUS
    <2>3. Aggregate(a, A) \in E /\ Aggregate(b, B) \in E /\ Aggregate(c, C) \in E
      OBVIOUS
    <2> HIDE DEF E
    <2>4. u = <<>> \/ u = <<Aggregate(a, A)>>
      BY DEF Part
    <2>5. v = <<>> \/ v = <<Aggregate(b, B)>>
      BY DEF Part
    <2>6. w = <<>> \/ w = <<Aggregate(c, C)>>
      BY DEF Part
    <2> HIDE DEF u, v, w
    <2> QED
      BY <2>1, <2>2, <2>3, <2>4, <2>5, <2>6
  <1> HIDE DEF u, v, w, E
  <1>3. u \o v \in Seq(E)
    BY <1>2, ConcatProperties
  <1>4. (u \o v) \o w \in Seq(E)
    BY <1>2, <1>3, ConcatProperties
  <1>5. UnionQuery(low, high, rows) \in Seq(E)
    BY <1>1, <1>4 DEF u, v, w
  <1> QED
    BY <1>5, LenProperties

\* In a range that is not inside one day every row is summed once, if it is in the range, and in
\* no other case (UnionQuery in db/aggregates.go, whose parts are of the start of the range).
THEOREM RangeCountsOnce ==
    ASSUME NEW b, OneInterval(b), ~InsideADay(b), NEW low \in Int, NEW high \in Int, low < high,
           b.timestamps = <<low, high>>,
           NEW rows, \A r \in rows : r.time \in Nat, NEW row \in rows
    PROVE  /\ Count(b) = 1
           /\ TimesCounted(SwapHistory(b, rows)[1], row) = IF low <= row.time /\ row.time < high THEN 1 ELSE 0
  <1> DEFINE t == b.timestamps
             U == UnionQuery(low, high, rows)
             found == BucketedQuery(b, rows)
             n == Len(U)
             parts == [j \in OfStart(found, t[1]) |-> found[j].rows]
  <1>1. Len(t) = 2 /\ t[1] = low /\ t[2] = high /\ Last(t) = high /\ Count(b) = 1
    BY DEF Count, Last
  <1>2. TimeBucketCeil(low, DayPeriod) <= TimeBucketFloor(high, DayPeriod)
    <2>1. TimeBucketCeil(low, DayPeriod) \in Int /\ TimeBucketFloor(high, DayPeriod) \in Int
      BY BeforeADay
    <2>2. ~(TimeBucketFloor(high, DayPeriod) < TimeBucketCeil(low, DayPeriod))
      BY <1>1 DEF InsideADay
    <2> QED
      BY <2>1, <2>2
  <1>3. IF low <= row.time /\ row.time < high THEN InOnePart(U, row) ELSE InNoPart(U, row)
    <2>1. \A r \in rows : r.time \in Int
      OBVIOUS
    <2>2. IF (0 < low => low <= row.time) /\ row.time < high THEN InOnePart(U, row) ELSE InNoPart(U, row)
      BY <1>2, <2>1, UnionCountsOnce
    <2>3. row.time \in Nat
      OBVIOUS
    <2>4. (0 < low => low <= row.time) <=> low <= row.time
      BY <2>3
    <2> QED
      BY <2>2, <2>4
  <1>4. n \in Nat /\ DOMAIN U = 1..n
    BY UnionIsList
  <1>5. found = [k \in DOMAIN U |-> Aggregate(low, U[k].rows)]
    BY <1>1 DEF BucketedQuery
  <1> HIDE DEF U, n, t
  <1>6. /\ Len(found) = n /\ DOMAIN found = 1..n
        /\ \A k \in 1..n : found[k].at = low /\ found[k].rows = U[k].rows
    <2>1. found = [k \in 1..n |-> Aggregate(low, U[k].rows)]
      BY <1>4, <1>5
    <2> HIDE DEF found
    <2>2. Len(found) = n
      BY <1>4, <2>1
    <2>3. DOMAIN found = 1..n /\ \A k \in 1..n : found[k] = Aggregate(low, U[k].rows)
      BY <2>1
    <2>4. \A at, part : Aggregate(at, part).at = at /\ Aggregate(at, part).rows = part
      BY DEF Aggregate
    <2> QED
      BY <2>2, <2>3, <2>4
  <1> HIDE DEF found
  <1>7. InOrder(found, t, 1) /\ Grow(t, 1)
    BY <1>1, <1>4, <1>6 DEF InOrder, Grow
  <1>8. SwapHistory(b, rows)[1] = parts
    <2>1. Count(b) \in Nat /\ 1 \in 1..Count(b)
      BY <1>1
    <2>2. Grow(b.timestamps, Count(b)) /\ InOrder(found, b.timestamps, Count(b))
      BY <1>1, <1>7 DEF t
    <2>3. mergeGapfill(b, found)[1] = [j \in OfStart(found, b.timestamps[1]) |-> found[j].rows]
      BY <2>1, <2>2, MergeIs
    <2> QED
      BY <2>3 DEF SwapHistory, found, t
  <1>9. DOMAIN parts = DOMAIN U /\ \A j \in DOMAIN U : parts[j] = U[j].rows
    <2>1. OfStart(found, t[1]) = 1..n
      BY <1>1, <1>6 DEF OfStart
    <2>2. DOMAIN parts = 1..n /\ \A j \in 1..n : parts[j] = U[j].rows
      BY <1>6, <2>1
    <2> QED
      BY <1>4, <2>2, Zenon
  <1> HIDE DEF parts
  <1>10. CASE low <= row.time /\ row.time < high
    <2>1. InOnePart(U, row)
      BY <1>3, <1>10
    <2>2. PICK k \in DOMAIN U : \A l \in DOMAIN U : row \in U[l].rows <=> l = k
      BY <2>1 DEF InOnePart
    <2>3. k \in DOMAIN parts /\ \A l \in DOMAIN parts : row \in parts[l] <=> l = k
      BY <1>9, <2>2
    <2>4. TimesCounted(parts, row) = 1
      BY <2>3, TimesAre
    <2> QED
      BY <1>1, <1>8, <1>10, <2>4
  <1>11. CASE ~(low <= row.time /\ row.time < high)
    <2>1. \A l \in DOMAIN U : row \notin U[l].rows
      BY <1>3, <1>11 DEF InNoPart
    <2>2. \A l \in DOMAIN parts : row \notin parts[l]
      BY <1>9, <2>1
    <2>3. TimesCounted(parts, row) = 0
      BY <2>2, TimesAre
    <2> QED
      BY <1>1, <1>8, <1>11, <2>3
  <1> QED
    BY <1>10, <1>11

-----------------------------------------------------------------------------
(* The depths in the buckets.                                              *)

\* The latest of some rows.
LEMMA LatestIs ==
    ASSUME NEW rows, NEW last \in rows, \A r \in rows : r.time \in Int,
           \A r \in rows : r # last => r.time < last.time
    PROVE  Latest(rows) = last
  <1>1. \A other \in rows : other.time <= last.time
    OBVIOUS
  <1>2. \A r \in rows : (\A other \in rows : other.time <= r.time) => r = last
    OBVIOUS
  <1> QED
    BY <1>1, <1>2 DEF Latest

\* The greatest of the numbers up to another.
LEMMA GreatestOf ==
    ASSUME NEW n \in Int, NEW S, S \subseteq 1..n, S # {}
    PROVE  Max(S) \in S /\ \A y \in S : y <= Max(S)
  <1>1. S \subseteq Int /\ \A y \in S : y <= n
    OBVIOUS
  <1>2. PICK last \in S : \A y \in S : y <= last
    BY <1>1, GreatestIs
  <1>3. \E x \in S : \A y \in S : x >= y
    BY <1>1, <1>2
  <1>4. Max(S) = CHOOSE x \in S : \A y \in S : x >= y
    BY DEF Max
  <1>5. Max(S) \in S /\ \A y \in S : Max(S) >= y
    BY <1>3, <1>4
  <1> QED
    BY <1>1, <1>5

\* In a series each bucket has, of each pool, the last row before its end: from the bucket itself,
\* from one before it, or from before the first of them (queryBucketedGeneral in stat/depth.go).
THEOREM DepthsOfABucket ==
    ASSUME NEW i \in DOMAIN intervals, NEW b, b.interval = i, ~OneInterval(b),
           Stretch(b.timestamps, Starts(i)), 2 <= Len(b.timestamps),
           NEW rows, Dated(i, rows), \A r \in rows : r.time \in Nat,
           NEW pools, NEW p \in pools, NEW k \in 1..Count(b),
           NEW last \in rows, last.pool = p, last.time < b.timestamps[k + 1],
           \A r \in rows : r.pool = p /\ r.time < b.timestamps[k + 1] /\ r # last => r.time < last.time
    PROVE  getDepthsHistory(b, rows, pools)[k][p] = Depth(last)
  <1> DEFINE t == b.timestamps
             n == Len(t)
             In(l) == InBucket(b, rows, p, l)
             seen == {l \in 1..k : In(l) # {}}
             before == DepthsBefore(rows, pools, t[1])
  <1>1. /\ n \in Nat \ {0} /\ \A l \in 1..n : t[l] \in Int
        /\ \A l, m \in 1..n : (l < m <=> t[l] < t[m]) /\ (l <= m <=> t[l] <= t[m])
    BY StretchIs
  <1>2. Count(b) = n - 1 /\ k \in 1..(n - 1)
    BY DEF Count
  <1>3. getDepthsHistory(b, rows, pools)[k][p] = IF seen = {} THEN before[p] ELSE Depth(Latest(In(Max(seen))))
    BY DEF getDepthsHistory, queryBucketedGeneral
  <1>4. \A l \in 1..(n - 1) : In(l) = {r \in rows : r.pool = p /\ t[l] <= r.time /\ r.time < t[l + 1]}
    <2> TAKE l \in 1..(n - 1)
    <2>1. ASSUME NEW r \in rows PROVE ViewTime(i, r) = t[l] <=> t[l] <= r.time /\ r.time < t[l + 1]
      <3>1. PICK s \in Starts(i) : s <= r.time
        BY DEF Dated
      <3>2. r.time \in Int
        BY DEF Dated
      <3> QED
        BY <3>1, <3>2, BucketIs
    <2> QED
      BY <2>1 DEF InBucket
  <1>5. \A l \in 1..k : l \in 1..(n - 1) /\ l \in 1..n /\ l + 1 \in 1..n /\ k + 1 \in 1..n /\ l + 1 <= k + 1
    BY <1>1, <1>2
  <1>6. \A r \in rows : r.time \in Int
    OBVIOUS
  <1> HIDE DEF In, n, t
  <1>7. CASE seen = {}
    <2>1. ~(t[1] <= last.time)
      <3> SUFFICES ASSUME t[1] <= last.time PROVE FALSE
        OBVIOUS
      <3> DEFINE c == CountTo(t, last.time)
      <3>1. c \in 0..n /\ \A l \in 1..n : l <= c <=> t[l] <= last.time
        BY <1>6, CountsAre DEF n, t
      <3> HIDE DEF c
      <3>2. 1 \in 1..n /\ k + 1 \in 1..n /\ t[k + 1] \in Int /\ last.time \in Int
        BY <1>1, <1>2, <1>6
      <3>3. 1 <= c /\ ~(k + 1 <= c)
        <4>1. ~(t[k + 1] <= last.time)
          BY <3>2 DEF t
        <4> QED
          BY <3>1, <3>2, <4>1
      <3>4. c \in 1..k
        BY <1>2, <3>1, <3>3
      <3>5. c \in 1..n /\ c + 1 \in 1..n /\ c <= c /\ ~(c + 1 <= c)
        BY <1>5, <3>4
      <3>6. t[c] <= last.time /\ ~(t[c + 1] <= last.time)
        BY <3>1, <3>5
      <3>7. last.time < t[c + 1]
        BY <1>1, <1>6, <3>5, <3>6
      <3>8. last \in In(c)
        BY <1>4, <1>5, <3>4, <3>6, <3>7
      <3> QED
        BY <1>7, <3>4, <3>8
    <2>2. 1 \in 1..n /\ k + 1 \in 1..n /\ 1 <= k + 1
      BY <1>1, <1>2
    <2>3. t[1] \in Int /\ t[k + 1] \in Int /\ t[1] <= t[k + 1]
      BY <1>1, <2>2
    <2>4. last.time < t[1]
      BY <1>6, <2>1, <2>3
    <2>5. \A r \in rows : r.pool = p /\ r.time < t[1] /\ r # last => r.time < last.time
      BY <1>6, <2>3 DEF t
    <2>6. before[p] = Depth(last)
      <3>1. /\ \A r \in rows : r.time \in Nat
            /\ last \in rows /\ last.pool = p /\ p \in pools
        OBVIOUS
      <3> DEFINE time == t[1]
      <3>2. time \in Int /\ last.time < time
        BY <2>3, <2>4
      <3>3. \A r \in rows : r.pool = p /\ r.time < time /\ r # last => r.time < last.time
        BY <2>5
      <3> HIDE DEF time
      <3>4. DepthsBefore(rows, pools, time)[p] = Depth(last)
        BY ONLY <3>1, <3>2, <3>3, DepthsBeforeAreTheLast
      <3> QED
        BY <3>4 DEF time
    <2> QED
      BY <1>3, <1>7, <2>6
  <1>8. CASE seen # {}
    <2> DEFINE m == Max(seen)
    <2>1. m \in seen /\ \A l \in seen : l <= m
      <3>1. seen \subseteq 1..k /\ k \in Int
        BY <1>2
      <3> HIDE DEF seen
      <3> QED
        BY <1>8, <3>1, GreatestOf
    <2> HIDE DEF m
    <2>2. m \in 1..k /\ In(m) # {} /\ m \in 1..(n - 1)
      BY <1>5, <2>1
    <2>3. m \in 1..n /\ m + 1 \in 1..n /\ k + 1 \in 1..n /\ m + 1 <= k + 1
      BY <1>5, <2>2
    <2>4. t[m] \in Int /\ t[m + 1] \in Int /\ t[k + 1] \in Int /\ t[m + 1] <= t[k + 1]
      BY <1>1, <2>3
    <2>5. PICK r0 \in rows : r0.pool = p /\ t[m] <= r0.time /\ r0.time < t[m + 1]
      BY <1>4, <2>2
    <2>6. t[m] <= last.time
      <3>1. r0 = last \/ r0.time < last.time
        BY <1>6, <2>4, <2>5 DEF t
      <3> QED
        BY <1>6, <2>4, <2>5, <3>1
    <2>7. last.time < t[m + 1]
      <3> SUFFICES ASSUME ~(last.time < t[m + 1]) PROVE FALSE
        OBVIOUS
      <3> DEFINE c == CountTo(t, last.time)
      <3>1. c \in 0..n /\ \A l \in 1..n : l <= c <=> t[l] <= last.time
        BY <1>6, CountsAre DEF n, t
      <3> HIDE DEF c
      <3>2. t[m + 1] <= last.time /\ ~(t[k + 1] <= last.time)
        <4>1. last.time < t[k + 1]
          BY DEF t
        <4> QED
          BY <1>6, <2>4, <4>1
      <3>3. m + 1 <= c /\ ~(k + 1 <= c)
        BY <2>3, <3>1, <3>2
      <3>4. c \in 1..k /\ m < c
        BY <1>2, <2>2, <3>1, <3>3
      <3>5. c \in 1..n /\ c + 1 \in 1..n /\ c <= c /\ ~(c + 1 <= c)
        BY <1>5, <3>4
      <3>6. t[c] <= last.time /\ ~(t[c + 1] <= last.time)
        BY <3>1, <3>5
      <3>7. last.time < t[c + 1]
        BY <1>1, <1>6, <3>5, <3>6
      <3>8. last \in In(c)
        BY <1>4, <1>5, <3>4, <3>6, <3>7
      <3>9. c <= m
        BY <2>1, <3>4, <3>8
      <3> QED
        BY <2>2, <3>4, <3>9
    <2>8. last \in In(m) /\ In(m) \subseteq rows
      BY <1>4, <2>2, <2>6, <2>7
    <2>9. \A r \in In(m) : r # last => r.time < last.time
      <3> TAKE r \in In(m)
      <3>1. r \in rows /\ r.pool = p /\ r.time < t[m + 1]
        BY <1>4, <2>2
      <3>2. r.time < t[k + 1]
        BY <1>6, <2>4, <3>1
      <3> QED
        BY <3>1, <3>2 DEF t
    <2>10. Latest(In(m)) = last
      BY <1>6, <2>8, <2>9, LatestIs
    <2> QED
      BY <1>3, <1>8, <2>10 DEF m
  <1> QED
    BY <1>7, <1>8

\* In a range it has the last row before the end.
LEMMA DepthsOfARange ==
    ASSUME NEW b, OneInterval(b), NEW low, NEW high \in Int, b.timestamps = <<low, high>>,
           NEW rows, \A r \in rows : r.time \in Nat, NEW pools, NEW p \in pools, NEW k \in 1..Count(b),
           NEW last \in rows, last.pool = p, last.time < b.timestamps[k + 1],
           \A r \in rows : r.pool = p /\ r.time < b.timestamps[k + 1] /\ r # last => r.time < last.time
    PROVE  getDepthsHistory(b, rows, pools)[k][p] = Depth(last)
  <1>1. Count(b) = 1 /\ b.timestamps[2] = high
    BY DEF Count
  <1>2. k = 1 /\ b.timestamps[k + 1] = high
    BY <1>1
  <1>3. getDepthsHistory(b, rows, pools)[k][p] = DepthsBefore(rows, pools, high)[p]
    BY <1>1, <1>2 DEF getDepthsHistory
  <1> QED
    BY <1>2, <1>3, DepthsBeforeAreTheLast

-----------------------------------------------------------------------------
(* The answers there are.                                                  *)

\* What a query for a series gets: no answer, or whole intervals.
NoAnswer(b) == \E outcome, t, i : outcome # "ok" /\ b = Buckets(outcome, t, i)
RefusedOrWhole(b, i) == NoAnswer(b) \/ \E t, first, last : b = Buckets("ok", t, i) /\ Whole(t, i, first, last)

\* Whatever range they are generated for, also one that ends before it begins.
LEMMA GeneratedIsSeries ==
    ASSUME NEW i \in DOMAIN intervals, NEW from \in Int, NEW until \in Int,
           NEW before \in Starts(i), before + 3 * Long(i) <= from
    PROVE  RefusedOrWhole(generateTimestamps(i, from, until), i)
  <1> DEFINE low == from - Margin(intervals[i])
             high == until + Margin(intervals[i])
             F == FoundStarts(i, low, high)
             t == Sorted(F)
             n == Len(t)
             c == CountBefore(t, until)
             d == CountTo(t, from)
             lastIdx == AtMost(1 + c, n)
             firstIdx == AtLeast(d, 1)
  <1>1. /\ Short(i) \in Nat \ {0} /\ Long(i) \in Nat \ {0} /\ Short(i) <= Long(i)
        /\ before \in Int /\ Margin(intervals[i]) = Long(i) + Short(i)
        /\ Starts(i) \subseteq Int
    BY StartsAre DEF Margin, Short, Long
  <1>2. low \in Int /\ high \in Int /\ before + Short(i) <= low
    BY <1>1
  <1>3. /\ F \subseteq Starts(i) /\ F \subseteq Int /\ IsFiniteSet(F)
        /\ \A s \in Starts(i), a, b \in F : a <= s /\ s <= b => s \in F
    BY <1>2, FoundIs
  <1>4. F = {Trunc(i, v) : v \in GapFill(intervals[i].minDuration, low, high)}
    BY DEF FoundStarts, Short
  <1> HIDE DEF F, low, high
  <1>5. generateTimestamps(i, from, until) =
            IF intervals[i].maxDuration * 2 * maxIntervalCount < until - from \/ t = <<>> THEN BadRequest
            ELSE IF firstIdx = n \/ lastIdx + 1 < firstIdx THEN IndexOutOfRange
            ELSE IF lastIdx <= firstIdx THEN BadRequest
            ELSE Buckets("ok", SubSeq(t, firstIdx, lastIdx), i)
    BY <1>4 DEF generateTimestamps, UpTo, CountBefore, CountTo, low, high
  <1>6. NoAnswer(BadRequest) /\ NoAnswer(IndexOutOfRange)
    BY DEF NoAnswer, BadRequest, IndexOutOfRange
  <1>7. F = {} => t = <<>>
    <2>1. Cardinality({}) = 0 /\ 1..0 = {}
      BY FS_EmptySet
    <2> QED
      BY <2>1 DEF Sorted
  <1>8. CASE t = <<>> \/ lastIdx <= firstIdx
    BY <1>5, <1>6, <1>8 DEF RefusedOrWhole
  <1>9. CASE ~(t = <<>> \/ lastIdx <= firstIdx)
    <2>1. Stretch(t, Starts(i))
      BY <1>1, <1>3, <1>7, <1>9, SortedStretch
    <2>2. /\ n \in Nat \ {0} /\ c \in 0..n /\ d \in 0..n
      BY <2>1, StretchIs, CountsAre
    <2> HIDE DEF t, c, d
    <2>3. lastIdx \in 1..n /\ firstIdx \in 1..n /\ firstIdx < lastIdx
      <3>1. lastIdx \in 1..n /\ firstIdx \in 1..n
        BY <2>2 DEF AtMost, AtLeast
      <3> HIDE DEF lastIdx, firstIdx
      <3> QED
        BY <1>9, <3>1
    <2> HIDE DEF lastIdx, firstIdx
    <2>4. 2 <= n
      BY <2>2, <2>3
    <2>5. Whole(t, i, t[1], t[n])
      BY <2>1, <2>4 DEF Whole
    <2>6. Whole(SubSeq(t, firstIdx, lastIdx), i, t[firstIdx], t[lastIdx])
      BY <2>3, <2>5, PartIsWhole
    <2>7. \/ NoAnswer(generateTimestamps(i, from, until))
          \/ generateTimestamps(i, from, until) = Buckets("ok", SubSeq(t, firstIdx, lastIdx), i)
      BY <1>5, <1>6
    <2> QED
      BY <2>6, <2>7 DEF RefusedOrWhole
  <1> QED
    BY <1>8, <1>9

\* What is left of them.
LEMMA PartIsSeries ==
    ASSUME NEW i \in DOMAIN intervals, NEW b, RefusedOrWhole(b, i)
    PROVE  /\ \A first, now \in Int : RefusedOrWhole(Restricted(first, now, b), i)
           /\ \A n \in Nat \ {0} : RefusedOrWhole(FirstBuckets(n, b), i) /\ RefusedOrWhole(LastBuckets(n, b), i)
  <1>1. CASE NoAnswer(b)
    <2>1. PICK outcome, t, j : outcome # "ok" /\ b = Buckets(outcome, t, j)
      BY <1>1 DEF NoAnswer
    <2>2. \A first, now \in Int : Restricted(first, now, b) = b
      BY <2>1 DEF Restricted, Buckets
    <2>3. ASSUME NEW u PROVE NoAnswer([b EXCEPT !.timestamps = u])
      <3>1. [b EXCEPT !.timestamps = u] = Buckets(outcome, u, j)
        BY <2>1 DEF Buckets
      <3> QED
        BY <2>1, <3>1 DEF NoAnswer
    <2>4. \A n \in Nat \ {0} : NoAnswer(FirstBuckets(n, b)) /\ NoAnswer(LastBuckets(n, b))
      BY <2>3 DEF FirstBuckets, LastBuckets
    <2> QED
      BY <1>1, <2>2, <2>4 DEF RefusedOrWhole
  <1>2. CASE ~NoAnswer(b)
    <2>1. PICK t, start, end : b = Buckets("ok", t, i) /\ Whole(t, i, start, end)
      BY <1>2 DEF RefusedOrWhole
    <2>2. ASSUME NEW x \in 1..Len(t), NEW y \in 1..Len(t), x < y
          PROVE  RefusedOrWhole(Buckets("ok", SubSeq(t, x, y), i), i)
      <3>1. Whole(SubSeq(t, x, y), i, t[x], t[y])
        BY <2>1, <2>2, PartIsWhole
      <3> QED
        BY <3>1 DEF RefusedOrWhole
    <2>3. ASSUME NEW first \in Int, NEW now \in Int PROVE RefusedOrWhole(Restricted(first, now, b), i)
      <3>1. Restricts(t, i, start, end, first, now)
        BY <2>1, RestrictedIs
      <3>2. PICK x, y \in 1..Len(t) :
               x < y /\ Restricted(first, now, Buckets("ok", t, i)) = Buckets("ok", SubSeq(t, x, y), i)
        BY <3>1 DEF Restricts
      <3> QED
        BY <2>1, <2>2, <3>2
    <2>4. ASSUME NEW n \in Nat \ {0} PROVE RefusedOrWhole(FirstBuckets(n, b), i) /\ RefusedOrWhole(LastBuckets(n, b), i)
      <3>1. Len(t) \in Nat /\ 2 <= Len(t)
        BY <2>1, StretchIs DEF Whole
      <3> DEFINE y == AtMost(n + 1, Len(t))
                 x == AtLeast(Len(t) - n, 1)
      <3>2. /\ 1 \in 1..Len(t) /\ y \in 1..Len(t) /\ 1 < y
            /\ x \in 1..Len(t) /\ Len(t) \in 1..Len(t) /\ x < Len(t)
        BY <3>1 DEF AtMost, AtLeast
      <3>3. /\ FirstBuckets(n, b) = Buckets("ok", SubSeq(t, 1, y), i)
            /\ LastBuckets(n, b) = Buckets("ok", SubSeq(t, x, Len(t)), i)
        BY <2>1, SomeBuckets
      <3> HIDE DEF x, y
      <3> QED
        BY <2>2, <3>2, <3>3
    <2> QED
      BY <2>3, <2>4
  <1> QED
    BY <1>1, <1>2

\* A query that can be answered: its parameters are numbers, and the calendar reaches back as far
\* as it can ask.
Answerable(q, first, now) ==
    /\ first \in Int /\ now \in Int
    /\ Parameter(q.count) /\ Parameter(q.from) /\ Parameter(q.to)
    /\ q.interval \in DOMAIN intervals =>
          \E s \in Starts(q.interval) :
              \A time \in {first, Given(q.from, first), Given(q.to, now)} : s + Beyond(q.interval) <= time

\* A query for a range gets one bucket.
ForARange(q) == q.interval = ""

\* A query for an interval that is answered is answered in whole intervals (BucketsFromQuery).
LEMMA AnswerIsSeries ==
    ASSUME NEW q, NEW first, NEW now, Answerable(q, first, now), ~ForARange(q)
    PROVE  RefusedOrWhole(BucketsFromQuery(q, first, now), q.interval)
  <1> DEFINE i == q.interval
             b == BucketsFromQuery(q, first, now)
             from == Given(q.from, first)
             to == Given(q.to, now)
             L == Long(i)
             max == maxIntervalCount
  <1>1. NoAnswer(BadRequest)
    BY DEF NoAnswer, BadRequest
  <1>2. CASE i \notin DOMAIN intervals
    <2>1. b = BadRequest
      BY <1>2 DEF BucketsFromQuery, ForARange
    <2> QED
      BY <1>1, <2>1 DEF RefusedOrWhole
  <1>3. CASE i \in DOMAIN intervals
    <2>1. b = generateBucketsWithInterval(q, first, now)
      BY <1>3 DEF BucketsFromQuery, ForARange
    <2>2. from \in Int /\ to \in Int /\ first \in Int /\ now \in Int
      BY ParameterIs DEF Answerable
    <2>3. q.count # <<>> => q.count[1] \in Int
      <3>1. Parameter(q.count)
        BY DEF Answerable
      <3> QED
        BY <2>2, <3>1, ParameterIs
    <2>4. PICK before \in Starts(i) : before + Beyond(i) <= from /\ before + Beyond(i) <= to
      BY <1>3 DEF Answerable
    <2>5. L \in Nat \ {0} /\ before \in Int /\ max \in Nat \ {0}
      BY <1>3, StartsAre, SeriesAssumption
    <2>6. Beyond(i) = max * L + 3 * L /\ max * L \in Nat
      <3>1. Beyond(i) = (max + 3) * L
        BY DEF Beyond, Long
      <3> HIDE DEF L, max
      <3> QED
        BY <2>5, <3>1, Products
    <2> HIDE DEF b, from, to, L, max, i
    <2>7. before + 3 * L <= from
      <3> DEFINE B == Beyond(i)
                 x == max * L
      <3>1. from \in Int /\ before \in Int /\ L \in Nat /\ x \in Nat /\ B = x + 3 * L /\ before + B <= from
        BY <2>2, <2>4, <2>5, <2>6
      <3> HIDE DEF B, x
      <3> QED
        BY <3>1
    <2>8. \A until \in Int : RefusedOrWhole(generateTimestamps(i, from, until), i)
      BY <1>3, <2>2, <2>5, <2>7, GeneratedIsSeries DEF L
    <2>9. CASE OutOfRange(q)
      <3>1. b = BadRequest
        BY <2>1, <2>9 DEF generateBucketsWithInterval
      <3> QED
        BY <1>1, <3>1 DEF RefusedOrWhole, i, b
    <2>10. CASE ~OutOfRange(q) /\ q.count = <<>>
      <3>1. b = Restricted(first, now, FirstBuckets(max, generateTimestamps(i, from, to)))
        BY <2>1, <2>10 DEF generateBucketsWithInterval, from, to, max, i
      <3>2. RefusedOrWhole(generateTimestamps(i, from, to), i)
        BY <2>2, <2>8
      <3>3. RefusedOrWhole(FirstBuckets(max, generateTimestamps(i, from, to)), i)
        BY <1>3, <2>5, <3>2, PartIsSeries
      <3>4. RefusedOrWhole(b, i)
        BY <1>3, <2>2, <3>1, <3>3, PartIsSeries
      <3> QED
        BY <3>4 DEF i, b
    <2>11. CASE ~OutOfRange(q) /\ q.count # <<>>
      <3> DEFINE n == q.count[1]
                 y == n * L
      <3>1. n \in 1..max
        BY <2>11 DEF OutOfRange, max
      <3> HIDE DEF n
      <3>2. n \in Nat \ {0} /\ n \in Int /\ max \in Int /\ n <= max
        BY <2>5, <3>1
      <3>3. y \in Int /\ y <= max * L
        BY <2>5, <3>2, Times
      <3>4. y = q.count[1] * intervals[q.interval].maxDuration
        BY DEF L, Long, i, n
      <3> HIDE DEF y
      <3>5. CASE q.from = <<>>
        <4>1. b = LastBuckets(n, Restricted(first, now, generateTimestamps(i, to - y, to)))
          BY <2>1, <2>11, <3>4, <3>5 DEF generateBucketsWithInterval, to, n, i
        <4>2. before + 3 * L <= to - y /\ to - y \in Int
          <5> DEFINE B == Beyond(i)
                     x == max * L
          <5>1. /\ to \in Int /\ before \in Int /\ L \in Nat /\ x \in Nat /\ B = x + 3 * L
                /\ before + B <= to /\ y \in Int /\ y <= x
            BY <2>2, <2>4, <2>5, <2>6, <3>3
          <5> HIDE DEF B, x
          <5> QED
            BY <5>1
        <4>3. RefusedOrWhole(generateTimestamps(i, to - y, to), i)
          BY <1>3, <2>2, <2>5, <4>2, GeneratedIsSeries DEF L
        <4>4. RefusedOrWhole(Restricted(first, now, generateTimestamps(i, to - y, to)), i)
          BY <1>3, <2>2, <4>3, PartIsSeries
        <4>5. RefusedOrWhole(b, i)
          BY <1>3, <3>2, <4>1, <4>4, PartIsSeries
        <4> QED
          BY <4>5 DEF i, b
      <3>6. CASE q.from # <<>>
        <4>1. b = FirstBuckets(n, Restricted(first, now, generateTimestamps(i, from, from + y)))
          BY <2>1, <2>11, <3>4, <3>6 DEF generateBucketsWithInterval, from, n, i
        <4>2. RefusedOrWhole(generateTimestamps(i, from, from + y), i)
          <5>1. from + y \in Int
            BY <2>2, <3>3
          <5> QED
            BY <2>8, <5>1
        <4>3. RefusedOrWhole(Restricted(first, now, generateTimestamps(i, from, from + y)), i)
          BY <1>3, <2>2, <4>2, PartIsSeries
        <4>4. RefusedOrWhole(b, i)
          BY <1>3, <3>2, <4>1, <4>3, PartIsSeries
        <4> QED
          BY <4>4 DEF i, b
      <3> QED
        BY <3>5, <3>6
    <2> QED
      BY <2>9, <2>10, <2>11
  <1> QED
    BY <1>2, <1>3

\* Of a pool without rows before a time there are no depths.
LEMMA NothingBefore ==
    ASSUME NEW rows, NEW pools, NEW p \in pools, NEW time \in Int, \A r \in rows : r.time \in Nat,
           \A r \in rows : r.pool = p => time <= r.time
    PROVE  DepthsBefore(rows, pools, time)[p] = NoDepths
  <1> DEFINE own == {r \in rows : r.pool = p}
             parts == UnionQuery(0, time, own)
             day == TimeBucketFloor(time, DayPeriod)
  <1>1. \A r \in own : r.time \in Int /\ time <= r.time
    OBVIOUS
  <1>2. day \in Int /\ day <= time
    BY SeriesAssumption, Floor
  <1> HIDE DEF own
  <1>3. Between(day, time, own) = {}
    BY <1>1, <1>2 DEF Between
  <1>4. WholeDays(0, time, own) = {}
    <2>1. ASSUME NEW r \in own PROVE ~(TimeBucketFloor(r.time, DayPeriod) < day)
      <3>1. TimeBucketFloor(r.time, DayPeriod) < day <=> r.time < day
        BY <1>1, BeforeADay
      <3> QED
        BY <1>1, <1>2, <3>1
    <2> QED
      BY <2>1 DEF WholeDays
  <1>5. parts = <<>>
    <2> DEFINE none == IF 0 < 0 THEN Between(0, TimeBucketCeil(0, DayPeriod), own) ELSE {}
               recent == Between(day, time, own)
               whole == WholeDays(0, time, own)
    <2>1. parts = Part(Min({r.time : r \in none}), none) \o Part(Min({r.time : r \in recent}), recent)
                  \o Part(Min({TimeBucketFloor(r.time, DayPeriod) : r \in whole}), whole)
      BY DEF UnionQuery, Part
    <2>2. none = {} /\ recent = {} /\ whole = {}
      BY <1>3, <1>4
    <2> HIDE DEF none, recent, whole, parts
    <2> QED
      BY <2>1, <2>2, Concats DEF Part
  <1>6. DepthsBefore(rows, pools, time)[p] =
           IF parts = <<>> THEN NoDepths
           ELSE Depth(Latest(parts[CHOOSE k \in DOMAIN parts : \A l \in DOMAIN parts : parts[l].at <= parts[k].at].rows))
    BY DEF DepthsBefore, own
  <1> QED
    BY <1>5, <1>6

\* So it is in a bucket and in a range, if the first row is not before its end.
LEMMA NothingInABucket ==
    ASSUME NEW i \in DOMAIN intervals, NEW b, b.interval = i, ~OneInterval(b),
           Stretch(b.timestamps, Starts(i)), 2 <= Len(b.timestamps),
           NEW rows, Dated(i, rows), \A r \in rows : r.time \in Nat,
           NEW pools, NEW p \in pools, NEW k \in 1..Count(b),
           \A r \in rows : r.pool = p => b.timestamps[k + 1] <= r.time
    PROVE  getDepthsHistory(b, rows, pools)[k][p] = NoDepths
  <1> DEFINE t == b.timestamps
             n == Len(t)
             In(l) == InBucket(b, rows, p, l)
             seen == {l \in 1..k : In(l) # {}}
             before == DepthsBefore(rows, pools, t[1])
  <1>1. /\ n \in Nat \ {0} /\ \A l \in 1..n : t[l] \in Int
        /\ \A l, m \in 1..n : (l < m <=> t[l] < t[m]) /\ (l <= m <=> t[l] <= t[m])
    BY StretchIs
  <1>2. Count(b) = n - 1 /\ k \in 1..(n - 1)
    BY DEF Count
  <1>3. getDepthsHistory(b, rows, pools)[k][p] = IF seen = {} THEN before[p] ELSE Depth(Latest(In(Max(seen))))
    BY DEF getDepthsHistory, queryBucketedGeneral
  <1>4. \A l \in 1..k : l \in 1..(n - 1) /\ l \in 1..n /\ l + 1 \in 1..n /\ k + 1 \in 1..n /\ l + 1 <= k + 1
    BY <1>1, <1>2
  <1>5. \A r \in rows : r.time \in Int
    OBVIOUS
  <1>6. ASSUME NEW l \in 1..k, NEW r \in In(l) PROVE FALSE
    <2>1. r \in rows /\ r.pool = p /\ ViewTime(i, r) = t[l]
      BY <1>6 DEF InBucket
    <2>2. PICK s \in Starts(i) : s <= r.time
      BY <2>1 DEF Dated
    <2>3. r.time < t[l + 1]
      BY <1>4, <1>5, <2>1, <2>2, BucketIs
    <2>4. t[k + 1] <= r.time /\ t[l + 1] <= t[k + 1] /\ t[l + 1] \in Int /\ t[k + 1] \in Int /\ r.time \in Int
      BY <1>1, <1>4, <1>5, <2>1
    <2> QED
      BY <2>3, <2>4
  <1>7. seen = {}
    BY <1>6
  <1>8. before[p] = NoDepths
    <2> DEFINE time == t[1]
    <2>1. 1 \in 1..n /\ k + 1 \in 1..n /\ 1 <= k + 1
      BY <1>1, <1>2
    <2>2. time \in Int /\ t[k + 1] \in Int /\ time <= t[k + 1]
      BY <1>1, <2>1
    <2>3. \A r \in rows : r.pool = p => time <= r.time
      BY <1>5, <2>2
    <2>4. \A r \in rows : r.time \in Nat
      OBVIOUS
    <2> HIDE DEF time
    <2>5. DepthsBefore(rows, pools, time)[p] = NoDepths
      BY ONLY <2>2, <2>3, <2>4, p \in pools, NothingBefore
    <2> QED
      BY <2>5 DEF time
  <1> QED
    BY <1>3, <1>7, <1>8

LEMMA NothingInARange ==
    ASSUME NEW b, OneInterval(b), NEW low, NEW high \in Int, b.timestamps = <<low, high>>,
           NEW rows, \A r \in rows : r.time \in Nat, NEW pools, NEW p \in pools, NEW k \in 1..Count(b),
           \A r \in rows : r.pool = p => b.timestamps[k + 1] <= r.time
    PROVE  getDepthsHistory(b, rows, pools)[k][p] = NoDepths
  <1>1. Count(b) = 1 /\ b.timestamps[2] = high
    BY DEF Count
  <1>2. k = 1 /\ b.timestamps[k + 1] = high
    BY <1>1
  <1>3. getDepthsHistory(b, rows, pools)[k][p] = DepthsBefore(rows, pools, high)[p]
    BY <1>1, <1>2 DEF getDepthsHistory
  <1> QED
    BY <1>2, <1>3, NothingBefore

=============================================================================
