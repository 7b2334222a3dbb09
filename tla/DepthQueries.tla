------------------------------ MODULE DepthQueries ------------------------------
(***************************************************************************)
(* What the API answers of the depths of pools, from the rows of history   *)
(* that the recorder left, through stops and lost batches.                 *)
(***************************************************************************)
EXTENDS Recorder, Series

CONSTANTS
    Asked,      \* the queries and the time of each, now: interval, count, from and to, now
    AskedPools, \* the pools of the queries
    FirstSecond \* the time of the first block of all chains

\* The time of the first block is read from block_log.  A query is of parameters that parse, and the
\* calendar reaches back behind the times it is about.
ASSUME DepthQueriesAssumption ==
    /\ FirstSecond \in Nat
    /\ \A i \in DOMAIN Chains : CorrectedTime(Chains[i], 1) = FirstSecond
    /\ \A q \in Asked :
          /\ Parameter(q.count) /\ Parameter(q.from) /\ Parameter(q.to) /\ q.now \in Int
          /\ q.interval \in DOMAIN intervals =>
                \E s \in intervals[q.interval].starts :
                    \A time \in {FirstSecond, Given(q.from, FirstSecond), Given(q.to, q.now)} :
                        s + Beyond(q.interval) <= time

\* The buckets the queries are answered in.
Answers == {b \in {BucketsFromQuery(q, FirstSecond, q.now) : q \in Asked} : b.outcome = "ok"}

\* The state of the last of the stored blocks before a time; the depths before the first block
\* are those of the genesis file, or none.
StatesBefore(time) ==
    LET before == {i \in DOMAIN blockLog : blockLog[i].time < time}
    IN  IF before = {} THEN <<>> ELSE blockLog[Max(before)].state

\* Each bucket of an answer has the depths that the recorder had after the last block before
\* its end, for every pool, also the ones that did not change in the bucket (depth.go:155 "Each
\* bucket contains the latest depths before the timestamp. Returns dense results").
DepthsAreServed ==
    pc = "running" => \A b \in Answers :
        \E served \in {getDepthsHistory(b, history, AskedPools)} :
            \A k \in 1..Count(b) :
                \A d \in {StatesBefore(b.timestamps[k + 1])} : d # NoState => \A p \in AskedPools :
                    served[k][p] = [asset |-> DepthIn(d[1].asset, p), rune |-> DepthIn(d[1].rune, p),
                                    synth |-> DepthIn(d[1].synth, p)]

=================================================================================
