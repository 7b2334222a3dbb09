------------------------------ MODULE Aggregates ------------------------------
(***************************************************************************)
(* The aggregates of internal/db/aggregates.go: tables derived from the    *)
(* rows of the blocks by SQL procedures.  Each procedure has a watermark   *)
(* in the database; a call takes in the rows between its watermark and the *)
(* end of the refresh and moves the watermark, in one transaction.  The    *)
(* job calls the procedures one after the other, on request of the block   *)
(* writer or every minute, and then sets LastAggregatedBlock, which the    *)
(* API answers balance queries by.                                         *)
(*                                                                         *)
(* The block writer is seen as the Ledger it implements: blocks become     *)
(* durable, then readers are told.  The rows of a block are represented by *)
(* its height and are all stamped with its time.                           *)
(***************************************************************************)
EXTENDS Integers, Sequences

CONSTANTS
    MaxHeight,      \* bound of the model: the height at which the chain stops growing
    BlockTime,      \* height -> block timestamp
    Second,         \* 10^9 nanoseconds in the code
    MaxStep,        \* aggregatesMaxStepNano
    Procedures,     \* the procedures in the order of their calls
    MaxFailures,    \* bound of the model: failing calls
    MaxStops,       \* bound of the model: stops of the process
    MaxTrims        \* bound of the model: uses of cmd/trimdb

Names == {Procedures[i] : i \in DOMAIN Procedures}

ASSUME AggregatesAssumption ==
    /\ MaxHeight \in Nat \ {0}
    /\ BlockTime \in [1..MaxHeight -> Nat \ {0}]
    /\ \A h, k \in 1..MaxHeight : h < k => BlockTime[h] < BlockTime[k]
    /\ Second \in Nat \ {0}
    /\ MaxStep \in Nat \ {0}
    /\ Procedures \in Seq(STRING)
    /\ "actions" \in Names
    \* refreshAggregates calls update_balances first (aggregates.go:592).
    /\ \E i \in DOMAIN Procedures :
          /\ Procedures[i] = "balances"
          /\ \A j \in DOMAIN Procedures : Procedures[j] = "actions" => i < j
    /\ MaxFailures \in Nat /\ MaxStops \in Nat /\ MaxTrims \in Nat

VARIABLES
    \* The database.
    top,            \* last durable block
    watermark,      \* table midgard_agg.watermarks
    counted,        \* how often the rows of each block are in each aggregate
    \* The memory of the process.
    alive,          \* the process runs
    visible,        \* db.LastCommittedBlock
    firstKnown,     \* db.FirstBlock is set
    lastAggregated, \* db.LastAggregatedBlock
    requests,       \* length of the channel refreshRequests
    pings,          \* length of the channel WebsocketNotify
    pc,             \* where the aggregates job is
    refresh,        \* what refreshAggregates computed for this round
    ctxDone,        \* the main context is cancelled
    failures,       \* failed calls, against MaxFailures
    stops,          \* stops of the process, against MaxStops
    trims           \* uses of trimdb, against MaxTrims

dbVars == <<top, watermark, counted>>
writerVars == <<alive, visible, firstKnown>>
jobVars == <<lastAggregated, pc, refresh>>
bounds == <<failures, stops, trims>>
vars == <<dbVars, writerVars, jobVars, requests, pings, ctxDone, bounds>>

Heights == 1..MaxHeight
TimeOf(h) == IF h = 0 THEN 0 ELSE BlockTime[h]
BlockIds == [height : 0..MaxHeight, timestamp : Nat]
NoBlock == [height |-> 0, timestamp |-> 0]
Refreshes == [bulk : BOOLEAN, caughtUp : BOOLEAN, end : Nat, target : BlockIds, next : Nat \ {0}]
NoRefresh == [bulk |-> FALSE, caughtUp |-> FALSE, end |-> 0, target |-> NoBlock, next |-> 1]

TypeOK ==
    /\ top \in 0..MaxHeight /\ visible \in 0..MaxHeight
    /\ watermark \in [Names -> Nat]
    /\ counted \in [Names -> [Heights -> Nat]]
    /\ alive \in BOOLEAN /\ firstKnown \in BOOLEAN /\ ctxDone \in BOOLEAN
    /\ lastAggregated \in BlockIds
    /\ requests \in 0..1 /\ pings \in 0..2
    /\ pc \in {"idle", "refresh", "calls"}
    /\ refresh \in Refreshes
    /\ failures \in 0..MaxFailures /\ stops \in 0..MaxStops /\ trims \in 0..MaxTrims

Init ==
    /\ top = 0
    /\ watermark = [p \in Names |-> 0]
    /\ counted = [p \in Names |-> [h \in Heights |-> 0]]
    /\ alive = FALSE /\ visible = 0 /\ firstKnown = FALSE
    /\ lastAggregated = NoBlock
    /\ requests = 0 /\ pings = 0
    /\ pc = "idle" /\ refresh = NoRefresh
    /\ ctxDone = FALSE /\ failures = 0 /\ stops = 0 /\ trims = 0

Stop == stops < MaxStops /\ stops' = stops + 1 /\ UNCHANGED <<failures, trims>>

-----------------------------------------------------------------------------
(* The process and its block writer.                                       *)

\* InitAggregatesRefresh resumes from the watermark of one procedure.
Start ==
    /\ ~alive
    /\ alive' = TRUE
    /\ visible' = top
    /\ firstKnown' \in IF top = 0 THEN BOOLEAN ELSE {TRUE}
    /\ lastAggregated' = [height |-> 0, timestamp |-> watermark["actions"]]
    /\ UNCHANGED <<dbVars, requests, pings, pc, refresh, ctxDone, bounds>>

\* A flush of the writer makes one or more blocks durable.
Store ==
    /\ alive
    /\ top' \in (top + 1)..MaxHeight
    /\ UNCHANGED <<watermark, counted, writerVars, jobVars, requests, pings, ctxDone, bounds>>

\* setLastBlock, and SetAndCheckFirstBlock.
Publish ==
    /\ alive
    /\ visible < top
    /\ visible' = top
    /\ firstKnown' = TRUE
    /\ UNCHANGED <<dbVars, alive, jobVars, requests, pings, ctxDone, bounds>>

\* RequestAggregatesRefresh after a block in sync; a request that waits is enough.
Request ==
    /\ alive
    /\ 0 < visible
    /\ requests = 0
    /\ requests' = 1
    /\ UNCHANGED <<dbVars, writerVars, jobVars, pings, ctxDone, bounds>>

\* The memory is gone.
Die ==
    /\ alive' = FALSE
    /\ visible' = 0 /\ firstKnown' = FALSE
    /\ lastAggregated' = NoBlock
    /\ requests' = 0 /\ pings' = 0
    /\ pc' = "idle" /\ refresh' = NoRefresh
    /\ ctxDone' = FALSE

\* The process is asked to stop, and stops once its jobs have or did not in time.
Cancel ==
    /\ alive /\ ~ctxDone
    /\ Stop
    /\ ctxDone' = TRUE
    /\ UNCHANGED <<dbVars, writerVars, jobVars, requests, pings>>
Exit ==
    /\ ctxDone
    /\ Die
    /\ UNCHANGED <<dbVars, bounds>>
Crash ==
    /\ alive
    /\ Stop
    /\ Die
    /\ UNCHANGED dbVars

-----------------------------------------------------------------------------
(* The aggregates job: refreshAggregates.                                  *)

\* The time the refresh continues from: never before the first block.
FirstTime == IF firstKnown THEN BlockTime[1] ELSE 0
From == IF lastAggregated.timestamp < FirstTime THEN FirstTime ELSE lastAggregated.timestamp

\* The published block is more than one step away.
Behind == From + MaxStep < TimeOf(visible) + 1

\* The end of the refresh, exclusive: everything published, in steps of MaxStep.
\* Wrong_RefreshEnd: a whole step, wherever the published block is.
Wrong_RefreshEnd == From + MaxStep
RefreshEnd == IF Behind THEN From + MaxStep ELSE TimeOf(visible) + 1

\* What LastAggregatedBlock will be: no block while catching up.
\* Wrong_Target: the published block, even in a step of a long catch-up.
Wrong_Target == [height |-> visible, timestamp |-> TimeOf(visible)]
\* Wrong_TargetStays: a step of a long catch-up does not move the timestamp.
Wrong_TargetStays ==
    IF Behind THEN [height |-> 0, timestamp |-> From]
    ELSE [height |-> visible, timestamp |-> TimeOf(visible)]
Target ==
    IF Behind THEN [height |-> 0, timestamp |-> From + MaxStep]
    ELSE [height |-> visible, timestamp |-> TimeOf(visible)]

BeginRefresh(bulk) ==
    /\ pc = "idle" /\ alive /\ ~ctxDone
    /\ lastAggregated' =
          IF lastAggregated.timestamp < FirstTime
          THEN [lastAggregated EXCEPT !.timestamp = FirstTime] ELSE lastAggregated
    /\ refresh' = [bulk |-> bulk, caughtUp |-> ~Behind, end |-> RefreshEnd, target |-> Target,
                   next |-> 1]
    /\ pc' = "refresh"

\* The job takes a request, or its minute is over.
TakeRequest ==
    /\ requests = 1
    /\ requests' = 0
    /\ BeginRefresh(FALSE)
    /\ UNCHANGED <<dbVars, writerVars, pings, ctxDone, bounds>>
Timer ==
    /\ BeginRefresh(TRUE)
    /\ UNCHANGED <<dbVars, writerVars, requests, pings, ctxDone, bounds>>

\* The continuous aggregates of TimescaleDB come first; the round is given up if the
\* process is stopping.
ContinuousAggregates ==
    /\ pc = "refresh"
    /\ IF ctxDone
       THEN pc' = "idle" /\ refresh' = NoRefresh
       ELSE pc' = "calls" /\ UNCHANGED refresh
    /\ UNCHANGED <<dbVars, writerVars, lastAggregated, requests, pings, ctxDone, bounds>>

Calling == pc = "calls" /\ refresh.next \in DOMAIN Procedures
Procedure == Procedures[refresh.next]

\* The rows of block h that a call takes in.
\* Wrong_TakesIn: the row at the end is taken in by this call and by the next.
Wrong_TakesIn(p, h) ==
    h <= top /\ watermark[p] <= BlockTime[h] /\ BlockTime[h] <= refresh.end
TakesIn(p, h) ==
    h <= top /\ watermark[p] <= BlockTime[h] /\ BlockTime[h] < refresh.end

\* Table balances has a key with the time of the block and refuses rows it has; table
\* rune_price replaces them.
Conflicts(p) == p = "balances" /\ \E h \in Heights : TakesIn(p, h) /\ 0 < counted[p][h]
CountAfter(p, h) ==
    IF TakesIn(p, h)
    THEN IF p = "rune_price" THEN 1 ELSE counted[p][h] + 1
    ELSE counted[p][h]

\* A call is one transaction; one that would go back only warns.
CallProcedure ==
    /\ Calling
    /\ ~ctxDone /\ ~Conflicts(Procedure)
    /\ IF watermark[Procedure] < refresh.end
       THEN /\ watermark' = [watermark EXCEPT ![Procedure] = refresh.end]
            /\ counted' = [counted EXCEPT ![Procedure] =
                              [h \in Heights |-> CountAfter(Procedure, h)]]
       ELSE UNCHANGED <<watermark, counted>>
    /\ refresh' = [refresh EXCEPT !.next = @ + 1]
    /\ UNCHANGED <<top, writerVars, lastAggregated, pc, requests, pings, ctxDone, bounds>>

\* A call fails: the error is logged and the next procedure is called.
CallFails ==
    /\ Calling
    /\ IF ctxDone \/ Conflicts(Procedure)
       THEN UNCHANGED failures
       ELSE failures < MaxFailures /\ failures' = failures + 1
    /\ refresh' = [refresh EXCEPT !.next = @ + 1]
    /\ UNCHANGED <<dbVars, writerVars, lastAggregated, pc, requests, pings, ctxDone, stops, trims>>

\* WebsocketsPing drops the ping if two are waiting.
WithPing(n) == IF n < 2 THEN n + 1 ELSE n

\* The websockets are told after a requested refresh that caught up.
\* Wrong_Announces: they are told after every requested refresh.
Wrong_Announces == ~refresh.bulk
Announces == ~refresh.bulk /\ refresh.caughtUp

EndRefresh ==
    /\ pc = "calls" /\ refresh.next \notin DOMAIN Procedures
    /\ lastAggregated' = refresh.target
    /\ pings' = IF Announces THEN WithPing(pings) ELSE pings
    /\ pc' = "idle" /\ refresh' = NoRefresh
    /\ UNCHANGED <<dbVars, writerVars, requests, ctxDone, bounds>>

\* The websockets job takes a ping.
TakePing ==
    /\ 0 < pings
    /\ pings' = pings - 1
    /\ UNCHANGED <<dbVars, writerVars, jobVars, requests, ctxDone, bounds>>

-----------------------------------------------------------------------------
(* The tool cmd/trimdb, run while Midgard is stopped.                      *)

\* Every watermark is set to the time of block h, the rows of the blocks from h on are
\* deleted, and of the aggregates those of actions and rune_price.
Trim ==
    /\ ~alive /\ trims < MaxTrims
    /\ trims' = trims + 1
    /\ \E h \in 1..top :
          /\ top' = h - 1
          /\ watermark' = [p \in Names |-> BlockTime[h]]
          /\ counted' = [p \in Names |-> [k \in Heights |->
                            IF p \in {"actions", "rune_price"} /\ h <= k THEN 0 ELSE counted[p][k]]]
    /\ UNCHANGED <<writerVars, jobVars, requests, pings, ctxDone, failures, stops>>

Job == TakeRequest \/ Timer \/ ContinuousAggregates \/ CallProcedure \/ CallFails \/ EndRefresh
Writer == Store \/ Publish

Next ==
    \/ Start \/ Writer \/ Request \/ Job \/ TakePing
    \/ Cancel \/ Exit \/ Crash

Spec == Init /\ [][Next]_vars

\* Midgard is started again, its jobs are scheduled, the chain is indexed (Ingest).
Fairness == WF_vars(Start) /\ WF_vars(Store) /\ WF_vars(Publish) /\ WF_vars(Job) /\ WF_vars(Exit)
FairSpec == Spec /\ Fairness

\* The same with the tool.
TrimSpec == Init /\ [][Next \/ Trim]_vars /\ Fairness

-----------------------------------------------------------------------------
(* Properties.                                                             *)

\* The rows of the blocks before the watermark of an aggregate are in it.
Aggregated(p, h) == BlockTime[h] < watermark[p]

\* Every aggregate holds the rows of the blocks before its watermark once, and no others:
\* neither a stop between two calls, nor a failing call, nor blocks that become durable
\* during a refresh make it lose or repeat a row (refreshAggregates, update_balances).
AggregatesAreExact ==
    \A p \in Names, h \in Heights :
        counted[p][h] = IF h <= top /\ Aggregated(p, h) THEN 1 ELSE 0

\* Why: nothing is taken in before it is published, and what is published is durable.
AggInv ==
    /\ TypeOK
    /\ AggregatesAreExact
    /\ visible <= top
    /\ \A p \in Names : watermark[p] <= TimeOf(top) + 1
    /\ pc # "idle" => refresh.end <= TimeOf(visible) + 1

\* As long as no call failed, stops or not, the balances up to LastAggregatedBlock are there: the API
\* answers for its height and for any below it (balance.go:22-52).
BalancesAreServed ==
    failures = 0 /\ ~ctxDone =>
        \A h \in Heights :
            h <= lastAggregated.height \/ (h <= top /\ BlockTime[h] < lastAggregated.timestamp)
                => Aggregated("balances", h)

\* As long as no call failed, a ping tells the websockets of a block that every aggregate
\* has (WebsocketsPing: "whenever we are fully caught up").
PingsAreFresh ==
    [][failures = 0 /\ ~ctxDone /\ pings < pings' =>
          /\ lastAggregated'.height \in Heights
          /\ \A p \in Names : Aggregated(p, lastAggregated'.height)]_vars

\* In the end every aggregate has every block: failing calls, stops and requests that are
\* dropped only delay it.
EverythingIsAggregated == <>(\A p \in Names : Aggregated(p, MaxHeight))

\* The block that a query for a second is answered with (blockIdFrom, findBlockId): the
\* last one in the database up to the end of that second.
LastBlockIn(second) ==
    CHOOSE h \in 0..top :
        /\ TimeOf(h) < (second + 1) * Second
        /\ \A k \in 0..top : TimeOf(k) < (second + 1) * Second => k <= h

\* "height of the block at which the returned balance snapshot was valid"
\* (openapi.yaml:4537): while the balances are there up to LastAggregatedBlock, those of
\* the block named in the answer are there too.
SnapshotsAreValid ==
    alive /\ firstKnown /\ 0 < top /\ lastAggregated.timestamp <= watermark["balances"] =>
        \A second \in (BlockTime[1] \div Second)..(lastAggregated.timestamp \div Second) :
            Aggregated("balances", LastBlockIn(second))

=============================================================================
