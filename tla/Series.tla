--------------------------------- MODULE Series ---------------------------------
(***************************************************************************)
(* History as the API serves it: the buckets a query is answered in        *)
(* (internal/db/buckets.go), the aggregate queries over them               *)
(* (internal/db/aggregates.go) and what is read into the buckets from the  *)
(* swaps and the depths (internal/timeseries/stat).                        *)
(*                                                                         *)
(* Pure operators over a set of rows, records with a time.  Seconds and    *)
(* nanoseconds are one unit.  A view holds what its query says of the rows *)
(* there are: TimescaleDB adds the rows it has not materialised yet.       *)
(***************************************************************************)
EXTENDS Sorting, Integers, SequencesExt

CONSTANTS
    intervals,          \* name -> exact, minDuration, maxDuration and the times it starts at
    maxIntervalCount,   \* 400 in the code
    DayPeriod           \* 24 hours

ASSUME SeriesAssumption ==
    /\ maxIntervalCount \in Nat \ {0} /\ DayPeriod \in Nat \ {0}
    /\ \A i \in DOMAIN intervals :
          /\ intervals[i].minDuration \in Nat \ {0}
          /\ intervals[i].minDuration <= intervals[i].maxDuration /\ intervals[i].maxDuration \in Nat
          /\ intervals[i].starts \subseteq Int
          /\ \A s, e \in intervals[i].starts : s < e =>
                /\ s + intervals[i].minDuration <= e
                /\ \/ e <= s + intervals[i].maxDuration
                   \/ \E between \in intervals[i].starts : s < between /\ between < e
          /\ intervals[i].exact =>
                /\ intervals[i].minDuration = intervals[i].maxDuration
                /\ \A s \in intervals[i].starts : s % intervals[i].minDuration = 0
          /\ ~intervals[i].exact => \A s \in intervals[i].starts : s % DayPeriod = 0

\* date_trunc and nano_trunc of PostgreSQL: the interval a time is in.
Trunc(interval, time) ==
    LET starts == intervals[interval].starts
    IN  CHOOSE s \in starts : s <= time /\ \A u \in starts : u <= time => u <= s

\* The first interval that starts at a time or later, and those so many after and before another.
NextStart(interval, time) == Min({s \in intervals[interval].starts : time <= s})
After(n, interval, s) ==
    CHOOSE t \in intervals[interval].starts :
        Cardinality({u \in intervals[interval].starts : s < u /\ u <= t}) = n /\ s <= t
Before(n, interval, s) ==
    CHOOSE t \in intervals[interval].starts :
        Cardinality({u \in intervals[interval].starts : t <= u /\ u < s}) = n /\ t <= s

TimeBucketFloor(time, period) == (time \div period) * period
TimeBucketCeil(time, period) == TimeBucketFloor(time + period - 1, period)

-----------------------------------------------------------------------------
(* The buckets of a query: the times they start at and the end of the last *)
(* one, and the interval, if there is one.                                 *)

Buckets(outcome, timestamps, interval) ==
    [outcome |-> outcome, timestamps |-> timestamps, interval |-> interval]
BadRequest == Buckets("refused", <<>>, "")
IndexOutOfRange == Buckets("panics", <<>>, "")

Count(b) == Len(b.timestamps) - 1
OneInterval(b) == b.interval = ""
BucketWindow(b, idx) == [from |-> b.timestamps[idx], until |-> b.timestamps[idx + 1]]

UpTo(s, P(_)) == Cardinality({k \in DOMAIN s : P(s[k])})
AtLeast(n, m) == IF n < m THEN m ELSE n
AtMost(n, m) == IF m < n THEN m ELSE n

\* time_bucket_gapfill: a time for each period from the one `from` is in.
GapFill(period, from, until) ==
    {t \in TimeBucketFloor(from, period)..(until - 1) : t % period = 0}

\* What a range is widened by on both sides, so that no interval at its edges is lost.
\* Wrong_Margin: it is not.
Wrong_Margin(i) == 0
Margin(i) == i.maxDuration + i.minDuration

\* One timestamp from `until` on is kept, and one up to `from`.
generateTimestamps(interval, from, until) ==
    LET i == intervals[interval]
        times == GapFill(i.minDuration, from - Margin(i), until + Margin(i))
        found == Sorted({Trunc(interval, t) : t \in times})
        lastIdx == AtMost(1 + UpTo(found, LAMBDA t : t < until), Len(found))
        firstIdx == AtLeast(UpTo(found, LAMBDA t : t <= from), 1)
    IN  IF i.maxDuration * 2 * maxIntervalCount < until - from \/ found = <<>> THEN BadRequest
        ELSE IF firstIdx = Len(found) \/ lastIdx + 1 < firstIdx THEN IndexOutOfRange
        ELSE IF lastIdx <= firstIdx THEN BadRequest
        ELSE Buckets("ok", SubSeq(found, firstIdx, lastIdx), interval)

\* All that is looked at around a time: as many intervals as may be asked for, and the margins.
Beyond(i) == (maxIntervalCount + 3) * intervals[i].maxDuration

\* At most one timestamp before the first block and one after now, if two are left.
restrictBuckets(first, now, b) ==
    LET t == b.timestamps
        lastOk == AtLeast(AtMost(1 + UpTo(t, LAMBDA s : s <= now), Len(t)), 2)
        firstOk == AtMost(AtLeast(UpTo(t, LAMBDA s : s < first), 1), lastOk - 1)
    IN  [b EXCEPT !.timestamps = SubSeq(t, firstOk, lastOk)]
Restricted(first, now, b) == IF b.outcome = "ok" THEN restrictBuckets(first, now, b) ELSE b

FirstBuckets(n, b) == [b EXCEPT !.timestamps = SubSeq(@, 1, AtMost(n + 1, Len(@)))]
LastBuckets(n, b) == [b EXCEPT !.timestamps = SubSeq(@, AtLeast(Len(@) - n, 1), Len(@))]

\* A query has an interval, a count, and times from and to; each may be missing.
Parameter(p) == p \in Seq(Int) /\ Len(p) <= 1
Given(parameter, default) == IF parameter = <<>> THEN default ELSE parameter[1]
OutOfRange(q) ==
    q.count # <<>> /\ (q.count[1] \notin 1..maxIntervalCount \/ (q.from # <<>> /\ q.to # <<>>))

generateBucketsWithInterval(q, first, now) ==
    LET from == Given(q.from, first)
        to == Given(q.to, now)
        length == q.count[1] * intervals[q.interval].maxDuration
    IN  IF OutOfRange(q) THEN BadRequest
        ELSE IF q.count = <<>>
        THEN Restricted(first, now, FirstBuckets(maxIntervalCount, generateTimestamps(q.interval, from, to)))
        ELSE IF q.from = <<>>
        THEN LastBuckets(q.count[1], Restricted(first, now, generateTimestamps(q.interval, to - length, to)))
        ELSE FirstBuckets(q.count[1], Restricted(first, now, generateTimestamps(q.interval, from, from + length)))

generateBucketsOnlyMeta(q, first, now) ==
    IF q.count # <<>> THEN BadRequest
    ELSE Buckets("ok", <<Given(q.from, first), Given(q.to, now)>>, "")

BucketsFromQuery(q, first, now) ==
    IF q.interval = "" THEN generateBucketsOnlyMeta(q, first, now)
    ELSE IF q.interval \in DOMAIN intervals THEN generateBucketsWithInterval(q, first, now)
    ELSE BadRequest

-----------------------------------------------------------------------------
(* The queries over an aggregate.                                          *)

\* The interval of a view that a row is in: the views of the inexact intervals are made of
\* the view of days.
ViewTime(interval, row) ==
    IF intervals[interval].exact
    THEN TimeBucketFloor(row.time, intervals[interval].minDuration)
    ELSE Trunc(interval, TimeBucketFloor(row.time, DayPeriod))

\* A row of a query: the rows it aggregates, and its aggregate_timestamp.
Aggregate(at, rows) == [at |-> at, rows |-> rows]
Between(low, high, rows) == {r \in rows : low <= r.time /\ r.time < high}

\* Wrong_WholeDays: the day the range ends in counts as a whole one.
Wrong_WholeDays(low, high, rows) ==
    {r \in rows : LET day == TimeBucketFloor(r.time, DayPeriod)
                  IN  day <= TimeBucketFloor(high, DayPeriod)
                      /\ (0 < low => TimeBucketCeil(low, DayPeriod) <= day)}
WholeDays(low, high, rows) ==
    {r \in rows : LET day == TimeBucketFloor(r.time, DayPeriod)
                  IN  day < TimeBucketFloor(high, DayPeriod)
                      /\ (0 < low => TimeBucketCeil(low, DayPeriod) <= day)}

\* The beginning and the end of the range from the table, where they are no whole days, and
\* the days between from their view.  A part without rows is no row.
UnionQuery(low, high, rows) ==
    LET atLow == IF 0 < low THEN Between(low, TimeBucketCeil(low, DayPeriod), rows) ELSE {}
        atHigh == Between(TimeBucketFloor(high, DayPeriod), high, rows)
        days == WholeDays(low, high, rows)
        Part(times, part) == IF part = {} THEN <<>> ELSE <<Aggregate(Min(times), part)>>
    IN  Part({r.time : r \in atLow}, atLow) \o Part({r.time : r \in atHigh}, atHigh)
        \o Part({TimeBucketFloor(r.time, DayPeriod) : r \in days}, days)

\* The aggregate rows a query over buckets gets, in their order: the parts of the union are
\* summed into one row of the start of the interval.
BucketedQuery(b, rows) ==
    LET start == b.timestamps[1]
        end == Last(b.timestamps)
        starts == {a \in {ViewTime(b.interval, r) : r \in rows} : start <= a /\ a < end}
        View(a) == Aggregate(a, {r \in rows : ViewTime(b.interval, r) = a})
    IN  IF OneInterval(b)
        THEN [k \in DOMAIN UnionQuery(start, end, rows) |->
                 Aggregate(start, UnionQuery(start, end, rows)[k].rows)]
        ELSE [k \in 1..Cardinality(starts) |-> View(Sorted(starts)[k])]

\* mergeSwapsGapfill: a bucket takes the next rows as long as they are of its start.  The
\* sets of rows that are summed in each bucket, by their places; the mark added behind the
\* last row is of no bucket.
NextOther(found, idx, start) ==
    Min({j \in idx..Len(found) : found[j].at # start} \cup {Len(found) + 1})
mergeGapfill(b, found) ==
    LET idx[k \in 0..Count(b)] ==
            IF k = 0 THEN 1 ELSE NextOther(found, idx[k - 1], b.timestamps[k])
    IN  [k \in 1..Count(b) |-> [j \in idx[k - 1]..(idx[k] - 1) |-> found[j].rows]]
SwapHistory(b, rows) == mergeGapfill(b, BucketedQuery(b, rows))

\* In how many of the sums of a bucket a row is.
TimesCounted(parts, row) == Cardinality({k \in DOMAIN parts : row \in parts[k]})

\* A range inside one day whose ends are both inside it: its two ends are cut at the wrong
\* sides of the day, and overlap.
InsideADay(b) ==
    /\ OneInterval(b)
    /\ TimeBucketFloor(b.timestamps[2], DayPeriod) < TimeBucketCeil(b.timestamps[1], DayPeriod)

-----------------------------------------------------------------------------
(* The history of depths.                                                  *)

\* last(): a row with the latest time.
Latest(rows) == CHOOSE r \in rows : \A other \in rows : other.time <= r.time
NoDepths == [asset |-> 0, rune |-> 0, synth |-> 0]
Depth(row) == [asset |-> row.asset, rune |-> row.rune, synth |-> row.synth]

\* The last depths of each pool before a time, from the last of the parts of the union.
DepthsBefore(rows, pools, time) ==
    [p \in pools |->
        LET parts == UnionQuery(0, time, {r \in rows : r.pool = p})
            latest == CHOOSE k \in DOMAIN parts : \A l \in DOMAIN parts : parts[l].at <= parts[k].at
        IN  IF parts = <<>> THEN NoDepths ELSE Depth(Latest(parts[latest].rows))]

\* The rows of a pool in a bucket, and the depths of the pool in bucket k: those of the last
\* row in it, or else those of the bucket before.
InBucket(b, rows, p, k) == {r \in rows : r.pool = p /\ ViewTime(b.interval, r) = b.timestamps[k]}
queryBucketedGeneral(b, before, rows, p, k) ==
    LET seen == {l \in 1..k : InBucket(b, rows, p, l) # {}}
    IN  IF seen = {} THEN before[p] ELSE Depth(Latest(InBucket(b, rows, p, Max(seen))))

\* Wrong_getDepthsHistory: nothing is known of the time before the first bucket.
Wrong_getDepthsHistory(b, rows, pools) ==
    LET before == [p \in pools |-> NoDepths]
    IN  IF OneInterval(b) THEN <<DepthsBefore(rows, pools, b.timestamps[2])>>
        ELSE [k \in 1..Count(b) |-> [p \in pools |-> queryBucketedGeneral(b, before, rows, p, k)]]
getDepthsHistory(b, rows, pools) ==
    LET before == DepthsBefore(rows, pools, b.timestamps[1])
    IN  IF OneInterval(b) THEN <<DepthsBefore(rows, pools, b.timestamps[2])>>
        ELSE [k \in 1..Count(b) |-> [p \in pools |-> queryBucketedGeneral(b, before, rows, p, k)]]

================================================================================
