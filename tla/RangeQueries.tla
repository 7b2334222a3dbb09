------------------------------ MODULE RangeQueries ------------------------------
(***************************************************************************)
(* What the API answers of history while blocks are stored: the buckets of *)
(* every query, and the rows of the blocks summed in them.                 *)
(***************************************************************************)
EXTENDS Aggregates, Series

CONSTANTS
    Asked       \* the queries and the time of each, now: interval, count, from and to, now

FirstSecond == BlockTime[1]

\* A parameter is missing or a number.  The calendar goes on beyond the times of a query and the
\* first block, by all that is looked at around them: as many intervals as may be asked for, and
\* the margins.
ASSUME RangeQueriesAssumption ==
    /\ \A q \in Asked :
          Parameter(q.count) /\ Parameter(q.from) /\ Parameter(q.to) /\ q.now \in Int
    /\ \A i \in DOMAIN intervals :
          LET starts == intervals[i].starts
              margin == Beyond(i)
          IN  \A q \in Asked : i = q.interval =>
                 \E s, e \in starts :
                     \A time \in {FirstSecond, Given(q.from, FirstSecond), Given(q.to, q.now)} :
                         s + margin <= time /\ time + margin <= e

Answer(q) == BucketsFromQuery(q, FirstSecond, q.now)
Answers == [q \in Asked |-> Answer(q)]
Upright(q) == Given(q.from, FirstSecond) < Given(q.to, q.now)

\* The range a query asks for, in whole intervals: those it gives, or as many as its count says
\* from or up to its time.
AskedRange(q) ==
    LET from == Given(q.from, FirstSecond)
        to == Given(q.to, q.now)
        low == Trunc(q.interval, from)
    IN  IF q.count = <<>>
        THEN <<low, AtMost(NextStart(q.interval, to), After(maxIntervalCount, q.interval, low))>>
        ELSE IF q.from = <<>>
        THEN <<Before(q.count[1], q.interval, NextStart(q.interval, to)), NextStart(q.interval, to)>>
        ELSE <<low, After(q.count[1], q.interval, low)>>

\* The blocks up to n in the range of a query are in the range of its answer.
Complete(q, n) ==
    LET b == Answers[q]
        t == b.timestamps
        asked == AskedRange(q)
    IN  b.outcome = "ok" =>
           /\ 1 <= Count(b) /\ Count(b) <= Given(q.count, maxIntervalCount)
           /\ {t[k] : k \in DOMAIN t} = {s \in intervals[q.interval].starts : t[1] <= s /\ s <= Last(t)}
           /\ \A h \in 1..n :
                 /\ asked[1] <= BlockTime[h] /\ BlockTime[h] < asked[2] /\ BlockTime[h] <= q.now
                 => t[1] <= BlockTime[h] /\ BlockTime[h] < Last(t)

\* The rows of the blocks up to n are summed in the bucket of their time once, in no other.
CountedOnce(b, n) ==
    LET rows == {[time |-> BlockTime[h]] : h \in 1..n}
        summed == SwapHistory(b, rows)
    IN  \A k \in 1..Count(b), row \in rows :
           LET w == BucketWindow(b, k)
           IN  TimesCounted(summed[k], row) = IF w.from <= row.time /\ row.time < w.until THEN 1 ELSE 0

\* Both for each number of blocks there may be.
AllComplete ==
    [n \in 0..MaxHeight |-> \A q \in Asked :
        q.interval # "" /\ Upright(q) => Answers[q].outcome # "panics" /\ Complete(q, n)]
AllCountedOnce ==
    LET served == {Answers[q] : q \in {r \in Asked : Upright(r) /\ Answers[r].outcome = "ok"}}
    IN  [n \in 0..MaxHeight |-> \A b \in served : InsideADay(b) \/ CountedOnce(b, n)]

-----------------------------------------------------------------------------
(* Properties.                                                             *)

\* The buckets of a series are whole intervals without a gap, not more than were asked for, and
\* no part of what was asked for is missing of the time there are blocks of (generateTimestamps
\* "make sure we don't loose any at edges", restrictBuckets, usage in buckets.go:219-238).
AnswersAreComplete == firstKnown => AllComplete[top]

\* Every row of a block in the range of an answer is summed in the bucket of its time once, and
\* no other is, whatever the ends of the range (UnionQuery, BucketedQuery, mergeSwapsGapfill).
RowsAreCountedOnce == firstKnown => AllCountedOnce[top]

=================================================================================
