# A TLA+ development of Midgard

Midgard follows a Thorchain-like chain: it fetches blocks from a node, records their events in
TimescaleDB, derives aggregates from them and serves them over HTTP and websockets.  This directory
holds TLA+ models of Midgard from the start of its process to the answers of its API, the TLC
configurations that check them, and theorems about them that TLAPS checks.

Contents: [the system](#1-the-system) · [what can go wrong](#2-hard-behaviours) ·
[the modules](#3-the-modules) · [the runs](#4-the-runs) · [fairness](#5-fairness) ·
[the proofs](#6-the-proofs) · [findings](#7-disagreements-found) ·
[not modelled](#8-what-is-not-modelled) · [plan](#9-plan)

## 1. The system

One process.  `cmd/midgard/main.go` sets up the database, restores the state, loads the genesis file
and then starts jobs (goroutines, `internal/util/jobs`) that live until the main context is cancelled.

| component | state | operations | talks to | correct if |
|---|---|---|---|---|
| Block fetcher, `internal/fetch/sync` | next height, failed height, the iterator's source and batch, error counts | `KeepInSync`, `CatchUp`, `RefreshStatus`, `Iterator.Next`, `nextBatch` | node (RPC), block store, block writer (bounded channel) | blocks are sent in order, each once, none the node has not reported; late results do not stop it |
| Block writer, `cmd/midgard/blockwriter.go`, `internal/timeseries` | block being written, running totals (`record.Recorder`), `LastCommittedBlock`, `Latest` | `loop`, `Setup`, `ProcessBlock`, `waitAtForkAndExit` | fetcher, inserter, aggregates (request channel), readers | the database is a prefix of the chain with the exact totals; what is published is durable; nothing past a fork |
| Inserters, `internal/db/inserter.go` | rows of the uncommitted blocks; mark `inserter_fail` | `StartBlock`, `Insert`, `EndBlock`, `Flush` | PostgreSQL | a block is written as a whole or not at all |
| Genesis, `internal/fetch/record/genesis.go` | constant `genesis` | `LoadGenesis` | recorder, inserter | recorded once, with its rows and its totals |
| Recorder, `internal/fetch/record` | running totals of pools, pool statuses and mimirs | `ProcessBlock` of `mux.go`, one decoder and handler per event, corrections | inserter | totals and rows agree; both survive a restart |
| Depth history, `timeseries/depthrecorder.go` | last recorded depths | `update`, `isTORAnchor` | inserter | the history tells the depths after every block |
| Start-up, `internal/db/db.go`, `migrates.go`, `globalblocks.go`, `genesis.go` | schema, DDL hashes (database); `CurrentChain`, `RootChain`, `FirstBlock` | `UpdateDDLsIfNeeded`, `TrimDB`, `EnsureDBMatchesChain`, `PreventOverrunAfterFork` | node, PostgreSQL | the schema is the code's, the database is of this chain and not past its fork |
| Chain ancestry, `internal/db/chainancestry.go` | none | `CombinedForkInfoMap`, `EnrichAndGetRoot` | start-up | a consistent list gives each chain its start, end and root |
| Block store, `fetch/sync/blockstore` | chunk files, the unfinished file | `NewBlockStore`, `updateFromRemote`, `DumpBlock`, `finalizeChunk`, iterator | file system, repository, fetcher, `cmd/blockstore/dump` | every height it says it has is there |
| Aggregates job, `internal/db/aggregates.go` and `*.sql` | watermarks and derived tables (database); `LastAggregatedBlock`, request channel | `refreshAggregates`, `RequestAggregatesRefresh`, `update_*` | writer, websockets (ping channel), API | a derived table holds each row before its watermark once; `LastAggregatedBlock` is not ahead of them |
| Time buckets and queries, `internal/db/buckets.go`, `aggregates.go`, `timeseries/stat` | none | `BucketsFromQuery`, `UnionQuery`, `BucketedQuery`, swap and depth history | API | buckets are whole intervals without a gap, each row is in one |
| Websockets, `internal/websockets` | connections, the asset map, ping channel | `waitForBlock`, `write`, `subscribeToPools`, `clearConnEntirely` | aggregates job, clients | no lock is waited for by its holder; the job stops with its context |
| Actions, `internal/db/aggregates.sql`, `internal/timeseries/actions.go` | table `midgard_agg.actions` | `update_actions`, `GetActions` | aggregates job, API | the actions are what users did, wherever refreshes end; following the pages shows each once |
| API and caches, `internal/api` | cached responses | handlers, `cache.go` refresh | readers of the database | an answer is the last good one |
| Jobs and shutdown, `internal/util/jobs` | main context, signals, running jobs | `InitSignals`, `InitiateShutdown`, `ShutdownWait` | every job | every job ends, or the wait times out |
| Event ids, `internal/db/eventid.go` | none | `AsBigint`, `ParseEventId` | recorder, action pages | ids sort as the chain does |
| Tools, `cmd/trimdb`, `cmd/blockstore/dump` and others | none | run by hand while Midgard is stopped | PostgreSQL, files | Midgard can go on afterwards |

`PROJECT.json` lists every component with its status, and every hazard with its line.

## 2. Hard behaviours

* **Stops.** The process may die between any two steps: a signal, a crash, `FatalE` after a failing
  insert, the ten minutes at a fork.  Memory (uncommitted batches, totals, snapshots, channels) is lost.
* **Partial failure.** A flush fails, or commits and loses its answer; the next process must use the
  other inserter, from what is really there.  One of several aggregate procedures fails.  The statements
  of a schema or of a trim are not one transaction.  A row of an event is refused and each handler
  decides for itself what that means for the totals.
* **Commit on some blocks only.** In a sync, blocks are committed in batches and only some rows carry
  the state to resume from; near the tip every block commits.  Which case a block is depends on a
  height that another goroutine moves.
* **State in three forms.** Totals are stored with the block, statuses and mimirs are read back from
  the rows of their events, the history is a difference to a snapshot in memory.  After a restart the
  three must tell the same story.
* **A node whose status is ahead of its results.**  A retry must not make the batch longer each time.
* **Two sources of blocks**, with a switch in the middle of a `CatchUp`.
* **Many watermarks.** Each procedure commits on its own; the refresh starts from a single time.
* **Hard forks, and a genesis file**, which both change where a run of blocks starts and ends; and
  operators who learn of a fork in time, late, or only after the next one.
* **A read-write lock and two goroutines** in the websockets.
* **Actions in pieces.**  What a user did is told by rows many blocks apart: the action, its further
  parts, its payments and fees, what settles it.  Refreshes end anywhere between, and a call sees only
  the rows of its own refresh.
* **Boundaries**: ranges that end in the middle of a day, calendar intervals, ids in decimal digits.

## 3. The modules

```
 BlockFeed  <--- implements ---  Sync          fetcher, block store, node
     ^
     | EXTENDS (the channel)
   Ingest   --- implements --->  Ledger        writer, inserters, restarts
                                    ^
                                    | the writer is seen as a ledger
                                Aggregates  <-- EXTENDS -- RangeQueries <- Actions <- ActionPages
                                                                \
   Assets <- Events \                                          Series   buckets, unions, histories
                     Handlers <- Corrections <- Mux <- Recorder /
          EventIds  /                                     ^    /
                                                    DepthQueries
   ChainAncestry \
                  StartUp        schema, migrations, forks, the block store and its dump
   BlockStore    /
   Websockets                    the two goroutines and their lock
```

The decomposition is assume/guarantee by hand: `Ingest` is checked with `BlockFeed` at the other end
of its channel, and `Sync` is proved to implement `BlockFeed`; `Aggregates` has the two steps of
`Ledger` for a writer, and `Ingest` is proved to implement `Ledger` (with no genesis file).
`Recorder` and `StartUp` look into what `Ingest` takes for one step: the content of a block, and the
start of the process.

**`BlockFeed`** - what the fetcher promises: a bounded channel, the next block in order, never above
the height the node reported.

**`Ledger`** - what the writer promises: a growing prefix of the chain, the state to resume from,
a visible block that is durable.

**`Ingest`** - the block writer.

| in the model | in the code |
|---|---|
| `blockLog` : height -> `agg_state` | table `block_log`; rows of other tables travel in the same transaction |
| `genesisConstant`, `genesisRows`, `inserterFail` | rows `genesis`, `inserter_fail` of `constants`; the rows recorded from the file |
| `recorder`, `latest` : sequences of heights | the running totals, as the list of blocks that were added to them |
| `uncommitted` | `BatchInserter.batches`, or the transaction of `ImmediateInserter` |
| `current` | the block in `loop()` with `synced`, `commit` and the state that `ProcessBlock` computed |
| `pc` | where the main goroutine is: start-up, `select`, `ProcessBlock`, its parts, the fork waits |

The totals are the point of the abstraction: every number Midgard stores is a function of the list of
blocks whose events were added, so a block added twice, in another order or not at all is seen without
modelling one event.  `ProcessBlock` is cut where another job, a failure or a crash can come between:
recording, committing (`EndBlock`/`Flush`), marking a failed batch, publishing, the end of the
iteration.  `StartProcess` picks the inserter and restores the totals from the last row, `FlushFails`
may or may not have committed.

**`Sync`** - `KeepInSync` and `CatchUp` (`pc`, `failedHeight`, `finalHeight`, `errorCount`), the
iterator (`source`, `batchStart`, `batch`), the checked mode, and the node (`chainHeight`, `ready`).
The parallel sub-batches of `fetchBlocksParallel` are joined before anything looks at them, so a batch
is one step that succeeds or fails as a whole.

**`Aggregates`** - `watermark` and `counted` (how often the rows of each block are in each derived
table) in the database; `lastAggregated`, `pc`, `refresh` (what `refreshAggregates` computed), and the
two channels in memory.  Each procedure is an entry of `Procedures`; what tells them apart is how they
meet rows they have (`balances` fails on its key, `rune_price` replaces, the rest would count them
twice).  The actions named after the writer (`Store`, `Publish`) are those of `Ledger`.  `Trim` is
`cmd/trimdb`, only in `TrimSpec`.

**`Assets`, `Events`, `Handlers`, `Corrections`, `Mux`** - the content of a block, as pure operators.
`Events` has a decoder for each type of event (which attributes must parse, which may be missing,
what makes it give up); `Handlers` what each handler inserts and adds to the totals, and in which
order, since an insert that fails in the middle ends some handlers and not others; `Corrections` the
artificial events and the changed withdrawals of each network; `Mux` the order of a block (begin,
transactions with their messages, end, corrections) and the id each event gets from `EventIds`.
A recorder is a record: the depths per pool, the statuses, the mimirs, the rows of the block.  Texts
are members of small sets, columns that no property tells apart are left out of the rows, and a
table of corrections is represented by one entry, its heights by one height of the model.

**`Recorder`** - the life of that recorder: `LoadGenesis` with the whole file, `ProcessBlock` with
block_log, history and prices, batches and immediate inserts, a batch with a refused row, stops, and
`Setup`, which restores each part from where it is kept (the totals from `agg_state`, the statuses by
`last(status, event_id)`, the mimirs by `last(value, block_timestamp)`, the snapshot from nothing).
A block is one step here; what comes between its parts is the subject of `Ingest`.

**`Series`** - pure operators: the buckets of a query (`generateTimestamps` with its widened range and
its cuts, `restrictBuckets`, counts), `UnionQuery` and `BucketedQuery` over a set of rows, the merge
of the swaps into buckets, the history of depths with what was known before the first bucket.
**`RangeQueries`** puts it on the blocks `Aggregates` has stored, **`DepthQueries`** on the history
`Recorder` has written through its stops.

**`Actions`** - the table of the actions beside the steps of `Aggregates`.

| in the model | in the code (`aggregates.sql`) |
|---|---|
| `actions`, in the order of the ids | table `midgard_agg.actions` with the index `swap_idx` |
| `RowsOf` | the rows of the event tables, by block; `kind` is the table |
| `ActionOf`, `DoubleSwap`, `Single`, `ViewActions` | the views `*_actions` |
| `InsertAction` | `INSERT ... ON CONFLICT DO NOTHING` with the trigger `add_log_trigger` |
| `TrimPendingActions`, `ActionsAddOutbounds`, `ActionsAddDeposits`, `StreamingDetails`, `ActionsAddFees` | the procedures that `update_actions_interval` calls, in its order |
| `Picks` | which of several matching rows an `UPDATE ... FROM` takes: any |
| `UpdateActions`, `TrimActions` | `update_actions` on the rows of the refresh; `TrimDB` |

**`ActionPages`** - the parameters of a request and which of them exclude each other, the page with its
tokens and its count, the status of an action; a client that follows the tokens until a page is empty.
Of the filters, the types and the transaction stand for the rest.

**`ChainAncestry`, `BlockStore`, `StartUp`** - the process until its jobs run.

| in the model | in the code |
|---|---|
| `db.hash`, `db.aggHash`, `db.data`, `db.agg` | the constants `ddl_hash`, `aggregates_ddl_hash`; whose tables there really are |
| `db.blocks`, `db.states`, `db.rows` | `block_log` with its hashes, which rows carry `agg_state`, how often a block's events are there |
| `pc`, `todo`, `untrimmed` | where `main` is, the statements and tables still to do |
| `known` | `CurrentChain`, `RootChain` |
| `refusal` | the `log.Fatal` the last process ended with |
| `folder`, `temporary`, `leftover` | the finalized chunks, the file `tmp`, a chunk that was closed unfinished |
| `setups` | what an operator has configured, the binary and the node, now and later |

A block is its height and its kind, `real` or `bogus` (what the old chain went on with after a fork);
the hash tells both; a chunk has a block for each of its heights.  Every reason to die is a disjunct of its own, every statement of the DDL and
every table of a trim a step, and the operator may move on to the next setup, drop the hash
(`cmd/nukedb`) or fill the store (`cmd/blockstore/dump`) between two processes.

**`Websockets`** - `serve` (waiting, notifying, writing) and `read` (polling, subscribing,
unsubscribing, clearing), with `assetMutex` as what it is: many readers or one writer, and a writer that
waits keeps new readers out.  A section that only reads is one step; one that writes waits in
`pending` first.  Handlers look at the limit in one step and add their connection in another.

Operators named `Wrong_...` stand before the definition they would replace.  They are plausible
mistakes in the code, used to show that each property can fail; nothing else refers to them.

**`Sorting`** - numbers in their order, which the search of the block store and the buckets both need.

**`IngestProofs`**, **`SyncProofs`**, **`AggregatesProofs`**, **`HandlersProofs`**,
**`RecorderProofs`**, **`StartUpProofs`**, **`SeriesProofs`**, **`SortingProofs`** - theorems, section 6.
**`MCIngest`**, **`MCSync`**, **`MCAggregates`**, **`MCRecorder`**, **`MCStartUp`**, **`MCWebsockets`** - what TLC runs.

## 4. The runs

Passing runs:

| run | instance | shows |
|---|---|---|
| `ingest` (`MCIngest.cfg`) | 7 blocks, batches of 3, channel of 2, no genesis, no fork, 2 stops or failures | what is stored is an exact, contiguous prefix with a state to resume from; what is published is committed; rows are permanent; refreshes are requested only for published blocks; a batch is bounded; the writer implements `Ledger`; every block is stored in the end |
| `ingest_fork` (`MCIngestFork.cfg`) | 7 blocks, genesis at 2, fork at 5, 2 stops | the inductive invariant of the proofs; nothing past the fork; every block up to it is stored although the process is started again at the fork |
| `sync` (`MCSync.cfg`) | 6 blocks, batches of 2, block store up to 2, 3 errors, 1 late result, any start height, both modes | the fetcher implements `BlockFeed`; late results alone do not make it give up; every block is sent unless it is stopped or quits |
| `aggregates` (`MCAggregates.cfg`) | 4 blocks (two close to each other, the others further apart than one step), 3 procedures, 1 failing call, 2 stops; 1,960 queries | no row is lost or repeated; balances are there up to `LastAggregatedBlock` until a call fails; pings are for blocks every aggregate has; everything is aggregated in the end.  Answers are whole buckets without a gap that cover what was asked for (`AnswersAreComplete`), and every stored row is in one of them, once (`RowsAreCountedOnce`).  After every refresh the actions are what the rows so far say users did, and the pages of five queries have each of them (`ActionsAreServed`) |
| `recorder` (`MCRecorder.cfg`) | 260 chains of 3 blocks, 3 networks, with and without a genesis file, 2 stops | depths and chain info survive stops; the history has the depths of every state; the depths served of any bucket are those after the last block before its end; rows and depths agree; ids sort as the chain does; every block is recorded |
| `startup` (`MCStartUp.cfg`) | 11 scenarios of up to 3 setups on 6 databases, 3 stops, failing calls or dumps | a checked process has the tables of its code; events are there once; nothing of the parent chain stays past the fork unless the store has it; blocks are dropped only for a reason; the block store has what it says; Midgard runs in the end or dies of what only an operator can change |

Runs that must find a violation, each a disagreement of section 7: `ingest_genesis_state`,
`ingest_genesis_rows`, `aggregates_snapshot`, `aggregates_trim`, `startup_dump`, `websockets`.

**Why the bounds are enough.**  Seven blocks are two whole batches of three and a block more, so that the last block is only stored if being in sync commits, and a stop can fall before, in and
after a batch that follows a committed one, and the tip can be reached in the middle of a batch.  A channel of two is one more than
the least, so the channel holds blocks past the fork when the writer stops there.  Two stops make the
second restart find what the first one left (the mark `inserter_fail`, and its removal).  A fork at 5
is neither at the end of a batch nor at the end of the chain.  In `Sync` a batch of 2 makes the last
batch of a `CatchUp` short for odd lengths, the store ends inside a `CatchUp`, and 3 errors are more
than `MaxErrorCount` = 2, so that quitting is reached (20 in the code; only the comparison matters).
The times <<5, 11, 12, 17>> with seconds and steps of 4 make a catch-up of several steps, a refresh
that is caught up, and two blocks in a step.

The queries of `aggregates` are every interval (one, hour of 2, day of 4, weeks of 8 that do not start
at the epoch, months of 4 or 8), seven values of from and to or none, counts of 1, 2, more than the
limit or none, and two times of asking: ranges that begin or end inside a day, at its edge, before the first
block, after now, over a longer and a shorter month.  `maxIntervalCount` is 3, so it is met.  What a
query gets is a constant of the instance; the answers are tabulated per number of stored blocks.

The four blocks have the rows of a swap in three parts, one in a block; a double swap that pays its
affiliate before its user; a swap that is partly refunded; deposits that wait and are settled, taken
back, or begun again by the same provider; deposits into accounts, once by one and once by two owners; a
withdrawal paid twice, in two blocks; fees; two messages with one id; a swap whose halves no view
joins.  With steps of 4 and stops anywhere, refreshes end after each of the blocks and take in one or several at a
time, so that each of these comes in one refresh and in several.  The queries are pages of one to four,
by type, by transaction, from a height and from a time.

A chain of `recorder` has one event (of 85: every type, the ones that move balances in each of their
cases, ones that do not decode, an unknown one) at every place of a block: at the begin, without a mode,
in a failed, an observed, a contract's and an undecodable transaction, at the end, in the last block.
Each is taken on mainnet, on mainnet with a genesis file and its first row refused, and on a testnet whose
second block has the time of the first; those with several rows also on stagenet with their second row refused.  Three blocks are a
first, a batch of one or two, and a last one, which the heights of the corrections fall on; two stops
as above.  The digits of event ids are scaled down (10 and 100) so that the blocks come close to
spilling.

In `startup` mainnet's forks are at 2, 4 and 7, chunks and batches have 2 blocks, the migration trims from
5 on; the repository has a chunk that is listed and missing before one that is there.  Scenarios are the
forks learnt of at each possible time, dumps of whole chunks and of all blocks, pruned nodes, a genesis file at several heights and with a
wrong hash, two binaries and both prohibitions of updates, a chain nobody knows and one whose infos
contradict each other.  Databases: none, empty, two that a migration is known for, a current one and an
older one.

What the bounds leave open is closed by the theorems of section 6, for all values, for most of the
safety properties of `ingest`, `sync`, `aggregates` and `startup`, and for the history, the depths,
the ids, the chain info and the answers of `recorder`; section 6 lists what is not.  Liveness is only checked on these instances.

Deadlock is not checked (`CHECK_DEADLOCK FALSE`) where the models really stop: the chain ends at
`MaxHeight`, a fetcher may quit, a process may find the inserter mark and refuse to start, a Midgard
that has written all blocks waits, a cancelled job is done.  In `recorder` it is checked.

**Properties and the mistakes that break them.** Every property of a passing run has a mutant in
`PROJECT.json`: for example the state is stored by height only (`Wrong_StateToStore` breaks
`LastRowHasState`), the end block is published before the flush (`Wrong_AfterEndBlock` breaks
`PublishedIsCommitted`, `ImplementsLedger`), a refresh takes in the row at its end
(`Wrong_TakesIn` breaks `AggregatesAreExact`), the first block of the root chain is compared instead
of the current one (`Wrong_Overrun` breaks `NothingOfTheParentPastTheFork`), or the hash it is compared with is the root's
(`Wrong_OverrunHash` breaks `DroppedForAReason`), the range is not widened
(`Wrong_Margin` breaks `AnswersAreComplete`), what settles a deposit also removes a later one
(`Wrong_SettlesAction` breaks `ActionsAreServed`).

**What properties leave out, and why.**  A property that speaks of less than a reader may think
says so in its comment:

* `RowsOnce` without `cut`: a trim stopped after `block_log` is not taken up again, and the events come
  twice.  `SchemaIsTheCodes` without `halfway`: `midgard_agg` is dropped first and its hash stays.
* `NothingOfTheParentPastTheFork` with `StoreIsReal`: a dump of a chain that has ended fills the store past
  its end when the operator is not told of the fork, or is told and starts the dump again behind it (`Dump`;
  finding 5 in section 7).  The next chain's Midgard then takes these blocks from the store, and so it does
  once more after it has dropped them.  With `DownloadFullChunksOnly` a dump does not get past an announced fork.
  `DroppedForAReason` without `misread`: a pruned node on a chain whose info has no hash makes a good
  database look like an overrun.  Each is a weakness of the code, listed as a hazard; the ghost marks
  exactly the states it is reached in.
* `RowsAreCountedOnce` without `InsideADay`: `UnionQuery` on a range inside one day counts rows twice and
  takes in rows outside of it.
* `ActionsAreServed` is checked at the end of each call of the procedure, and leaves out, each an observation on the code:
  * `TwoDeposits`: if one transaction deposits to several accounts in one refresh, `UPDATE ... FROM`
    joins one of the deposits to its action and drops the others (`aggregates.sql:873,910`).
  * Payments of blocks *before* the action are joined if the same refresh took them in and not
    otherwise, so what the table holds depends on where refreshes ended; the refund of a
    partly done swap is such a case.  The property bounds them from both sides.
  * `SharesItsId`: pages are cut by ids, and actions may share one; a page that ends between them
    loses the rest (`actions.go:971`).
  * Swaps that no view lists are not expected: the halves of a double swap are joined only by way of
    `THOR.RUNE` (`aggregates.sql:337`), and a swap whose two amounts are equal takes itself for its
    other half (`aggregates.sql:396`).
  * A pending deposit of a provider without an address on the chain has no reference, so nothing removes it
    (the comment at `aggregates.sql:806` asks about it).
* `AnswersAreComplete` speaks of ranges that do not end before they begin; such a range indexes
  past a slice in `generateTimestamps` and is answered by the handler of panics.
* `DepthsFollowTheRows` speaks of handlers that give an event up with its first row; others change the
  totals although a row is refused.  `ChainInfoSurvivesRestarts` of mimirs that are not set twice at
  one time: the value read back is any of those with the last time.
* `EverythingIsRecorded` of mimirs that are numbers: a text as the last value keeps `Setup` from starting.
* `BalancesAreServed` until a call fails.

## 5. Fairness

Weak fairness only, and for groups of actions rather than for outcomes.

* `Ingest`: the start-up, the writer, the fetcher's channel, the aggregates job, `SignalWatch` and the
  exit are goroutines Go schedules.  Midgard is restarted by its supervisor (`StartUp`).  Failures are
  bounded by `MaxStops`: a database that fails for ever indexes nothing, and no property claims it
  would.
* `Sync`: `Fetcher \/ FetchFails` is one goroutine; it is fair to run, not fair to succeed.  The node
  is fair: results of a reported block become available, as the comment at `sync.go:183` expects, after
  at most `MaxLate` attempts.  The writer receives.
* `Aggregates`: restart, the two steps of the writer, the job and the exit.  The timer is part of the
  job: after a minute without a request it refreshes anyway, so requests are not assumed.
* `Recorder`: `main` starts, loads the genesis file, and the writer takes the next block, whether its
  batch fails or not; a stop is never assumed.
* `StartUp`: the process is started again when it ends and goes on with its checks; a dump that was
  begun closes.  No step of the operator is assumed, and no block.
* `Websockets`: each of the two goroutines runs when it can.  A goroutine that waits for a mutex cannot,
  which is what the run shows; the flush that fails is one case, and needs no fairness.

## 6. The proofs

All are checked by `tlapm`.  None depends on a particular value of a constant.

**What is assumed** stands in the modules as named assumptions, and TLC evaluates each on the instances:

* `IngestAssumption`, `BlockFeedAssumption`, `SyncAssumption`: natural numbers, positive sizes, the fork
  not before the genesis.
* `AggregatesAssumption`: later blocks have later times; there is a procedure for the balances and one
  for the actions, called in that order (`aggregates.go:592`).
* `RecorderAssumption`: the blocks of a chain are numbered by their heights, counted from the first, and
  their times, once corrected, grow.  `block_log` has both as keys (`ddl.sql:36`).  A genesis file is of the
  first block and not later than it.  `EventsAssumption`: what a block has of events, transactions and messages,
  and a genesis file of entries, are lists, and the amounts of an event are finitely many.
  `RoomAssumption`: what an event id has digits for (`eventid.go:28`) - a billion events at each end of a
  block, 800,000 transactions, 10,000 events in one, and a billion pools in a genesis file.  Nothing in the code looks
  after it.
* `StartUpAssumption`: the migration trims to a multiple of the batch size (the comment at
  `migrates.go` asks for it), a hash is not what stands for none.  `DatabasesAssumption`: an earlier
  Midgard has left blocks without a gap, each with its events once, and a hash with its tables.
  `ScenariosAssumption`: what is configured has its type, and `StoresAgree`: an operator whose store is
  for all blocks at one time does not fill the same folder with a genesis file at another.  That is
  needed: after a dump with a genesis file the folder has no chunk below it, and a setup without the file
  then takes the folder for a whole store as soon as the repository does not give the lower chunks.
* What the code cannot find out and takes from its operator (`StartUp`).  `InfosAssumption`: what is configured and
  what the node says of its first block is true - a chain does not begin after its end, the first hash is that
  of the chain when an info or an unpruned node tells it, and it is never one of a chain past its end.  An info
  may still be missing, or say nothing of a fork.  `OperatorsAssumption`: whoever is not told of a fork, and so
  follows a chain past its end, has not followed another one beyond that height before, nor dumped it
  (`NoReturn`), and one folder is used with the chains of one root (`StoreOfOneRoot`): nothing in a chunk tells of
  which chain it is.  `BlocksAssumption`: the blocks an earlier Midgard has left are of one root,
  and those past the end of a chain came one after the other.  Without `NoReturn` the property is false, as TLC finds
  on the scenario chain, successor, chain without the info, successor: the first block past the fork is the
  successor's and passes the only comparison there is (`globalblocks.go`, `PreventOverrunAfterFork`), and blocks
  of the parent stand behind it.
* `BlockStoreAssumption`: a chunk of the repository has the heights since the chunk before it.
  `RepositoryAssumption`: they are mainnet's blocks (their hashes are part of the binary).  What the operator's own dump puts into
  the folder is not assumed: it is whatever the node has.
* `SeriesAssumption`: an interval is as long as its shortest and longest length say, and weeks, months,
  quarters and years start at whole days (they are truncated in UTC); `EventIdsAssumption`: the scales of an
  id are multiples of each other.
* `RangeQueriesAssumption`: a parameter of a query is missing or a number, and the calendar goes on beyond
  the times of the queries and the first block by what is looked at around them.  PostgreSQL's calendar has no end; that of
  `MCAggregates` is the starts within `Horizon`.
* `DepthQueriesAssumption`: the same of the queries for depths, and `FirstSecond`, the first time an answer
  may begin at, is the corrected time of the first block of every chain.

**The writer.** `IngestProofs`: `InvHolds` - `Inv == TypeOK /\ TableInv /\ OrderInv /\ StateInv` is
inductive.  That `block_log` has no hole is not inductive alone: it needs that what the inserter holds
continues the table (`OrderInv`, first conjunct), that what the writer has in hand continues that, and
that the channel and the fetcher continue that, wherever `pc` is and after any restart.  That the last
row has a state needs `StateInv`: a commit is decided before the state is serialised, and the batch ends
with the block that was decided.  Corollaries: `TypeCorrect`, `NoHoles`, `CanResume`.
`BatchesAreBounded` adds that no block that fills a batch stays in the inserter longer than it takes to
flush it (`BatchInv`); `RefreshIsAskedInTime` that a block in sync is committed and published before its
iteration ends (`SyncedInv`).

In its second part, for a chain with no genesis file: `ExactInv` follows each copy of the totals
(recorder, uncommitted rows, current state, published state, table) and says which blocks it holds.
From it `StoredStatesAreExact`, `ReadersSeeCommitted`, `RowsStay` and the step simulation
`LedgerImplemented`.  With a genesis file the statement is false, see `ingest_genesis_state`.
`StopsAtTheFork` holds with one, from an invariant that counts the rows handed over against the fork
height; needed because the wait before the loop does not leave the loop.

**The fetcher.** `SyncProofs`: `SyncInvHolds` (the pending block is the next one, and heights are bounded
by what was reported), `FeedImplemented` (every step of the fetcher is a step of `BlockFeed` or none),
and `LateResultsForgiven` from `LateInv`: a failure that is no error of a call was a late result, and once
the results of the height that is tried are ready no other can be late before there is progress.

**The aggregates.** `AggregatesProofs`: `AggInvHolds` and `AggregatesExact`.  Exactness needs two facts
besides itself: no watermark is past the last durable block by more than one nanosecond, so a block that
becomes durable later is never behind a watermark; and a refresh in progress ends at the block that was
published when it began.  `BalancesServed` and `PingsFresh` need `FreshInv`, which follows the list of
the calls of a refresh: those before the place the job is at have their watermarks at its end, and the
balances are never behind the actions that the next process resumes from.

**The recorder.** `RecorderProofs`: `RecorderInvHolds`, `RecorderTypeCorrect` and `HistoryExact`, for any
chain, events and handlers - `RecordBlock` and `RecordGenesis` stay closed.  The history is exact
because at any time the rows made so far, durable or waiting, show the depths of the snapshot
(`HistoryInv`), because a stop takes the rows that wait together with the snapshot (an empty one is shown
by any history, and the first update writes all pools), and because rows are of their block's time,
later than all before (`BlocksInv`).  The same module has the arithmetic of event ids:
`IdsSortAsTheChain`, `IdsAreReadBack`, `ParsedIdsArePacked`, for ids whose parts fit their digits.

`DepthsSurvive` opens the handlers.  What is restored is not what was lost: after a start the recorder has
the depths of the last state, but other rows, statuses and mimirs (those come from the event tables).
So the proof needs that a block moves the depths by the depths and the inserter alone.
`HandlersProofs` shows it, for every decoder, handler and correction: two recorders that are `Alike` before
an event are alike after it, whatever event, and no handler forgets a pool (`OnSwapAlike` and its like,
`processEventAlike`, `AddMissingEventsAlike`, up to `RecordBlockAlike` and, for the genesis file,
`RecordGenesisAlike`).  The inserter matters because an insert that is refused ends some handlers and is
not noticed by the batch (`Accepts`).  Events, messages, transactions, amounts and blocks are gone
through by folds; each is unfolded to the list of its results (`Iterates`, `Traced`, one lemma
`...Steps` for each), and what holds at the start and is kept from one result to the next holds
at the end by a smallest counterexample (`Climb`).  Then `TotalsInv` is inductive beside `RecorderInv`: the depths in
memory, and those of every state stored, are those of `Replay`; the last row always has a state to go
on from; and until the totals of a genesis file are there no block was recorded, so that
`LoadGenesis` starts from an empty recorder with the batch inserter.

The second half of `HandlersProofs` is about the rows.  An event adds rows with its id and its time, in
each table at most one unless the table is one that has many for an event (`Adds`); rows of pools and mimirs come
from their two handlers alone, one each, and say what the recorder then knows (`Informs`).  `Written` is what there is
of a block so far: rows of its height and time in the order of their ids, with room for the id of the next event
(`Room`), and a map that can be told from them (`Tells`).  It is followed through the list of events with its two kinds of
numbers, the nested ones of transactions, which take the id of their first event along, the
messages of contracts, and the corrections, whose rows share the id behind the last event
(`RecordFinalizeWritten`, `processTxWritten`, `AddMissingEventsWritten`, up to `RecordBlockWritten`).  A
genesis file is another matter: its loans take ids of their own heights, so its rows are not in order
but for those of the pools, and its mimirs are told apart by their keys (`FromFile`, `RecordGenesisWritten`).

From that, `EventIdsFollow`: `IdsInv` says where each row comes from, and joins the rows in the inserter behind those
in the database and a block's behind both (`JoinBlocks`), because ids of a later height are greater whatever their lower
digits are (`HeightsSort`).  And `ChainInfoSurvives`: `InfoInv` says that the rows stored tell the chain info of the
blocks stored, and those that wait what the blocks that wait change of it.  A start reads it back with two queries
that are not that: the last status by id, and the last mimir by time.  The ids of a pool's rows
grow (`PoolIdsGrow`); the times of a mimir's rows do if none is set twice in a block, nor in the first block and a
genesis file of the same time (`MimirTimesGrow`); and the row with the greatest is the last one (`LatestTells`).

Both properties were put right by the attempt.  `EventIdsFollowTheChain` told the rows of a genesis file by a time of
0, which is that of the instance's file only; they are told by their place now.  And the premise of
`ChainInfoSurvivesRestarts` left out what no chain of the instance has: a mimir that is in the genesis file and in a
first block of the same time, one that is in the file twice, and two events whose keys become the
same when they are decoded.

The proofs about the totals found a flaw in `Replay`: it let a recorder that a refused row had poisoned stand
still under the batch inserter, which no Midgard does - the rows are lost with the flush and the block
is recorded again.  No state of the run told the two apart; the guard is gone.  Arms of `CASE` that overlapped
(`processMsg`, `processParentTx`, `AddMissingEvent`) are ordered now.

`DepthsServed` is what a reader of the depths sees: whatever interval, count and range are asked for, the
depths of each pool at the end of a bucket are those the recorder had behind the last block before that
end, and none if it did not have the pool.  It joins four facts.  An answered query is a stretch of the
calendar with at least two starts, also when its range ends before it begins (`AnswerIsSeries`).  What the
answer has at the end of a bucket is the last row before it (`DepthsOfABucket`, `DepthsOfARange`,
`NothingInABucket`, `NothingInARange`).  The rows of the history up to a block show its depths
(`LastRowIs`, from `HistoryInv`), and those are the depths of its state (`TotalsInv`).  And a pool
the state does not have has no row at all: this is `PoolsInv` (`PoolsInvHolds`), inductive beside the other
two - no handler forgets a pool, so that what has a row is in every later state, and so in what is restored.

**The start-up.** `StartUpProofs`, for every scenario and database - `EnrichAndGetRoot`, `Mismatch` and
`Overrun` stay closed, so that the order of refusals does not matter.  `SchemaFits` is not inductive
alone: which statements of the DDL are still to do says what there is of the tables (`CreateInv`), and
a hash of the aggregates that is not that of the tables can only be left where the next process makes
them anew (`SchemaInv`).  `RowsAreOnce` needs to know which half of a trim is done (`RowsInv`).
`StartUpTypeCorrect` has the bound on an unfinished chunk, from the heights in it being consecutive and
none of them a multiple of its size (`StoreInv`).  `StoreReadable` needs that every height up to the
last chunk is in the first chunk that reaches it (`Readable`), which a chunk fetched keeps because the
smallest missing name is fetched first, and a chunk dumped because it begins behind the last one
(`FolderInv`); and that the binary search over the names leads to that chunk.

`ForksAreDropped` says that one look at one block is enough, as long as the store has no block past an end
(`StoreIsReal`; that it has none is not assumed of the program, and `startup_dump` shows what follows if it does).  `ToldInv`: what a Midgard knows of its chain is
what the infos say.  `PastInv`: what is past the end of a chain came one block after the other from
the end on (`Unbroken`), so that if any of it is there, the block at the start of the next chain is one; and where a
setup that overruns is there or to come, nothing else is past that end, in the database and in the
chunks of its store.  A start that comes to `PreventOverrunAfterFork` with that block in the database refuses
it; the genesis file and the writer add only blocks of the current chain (`ForkInv`).
`DropsHaveReasons` is an action property: tables are made anew only for a hash that is not the code's, and the hash
is marked for that by `PreventOverrunAfterFork` alone.  `KindInv` says of which kind the blocks are: those of one root and
those past an end, so that the block at the start of the chain that does not have the right hash can only be one past an end - or
the right hash was the guess of a pruned node (`misread`).  What is of another root is refused by the comparison of the first block, which drops nothing.

**Sorting and searching.** `SortingProofs`: `SortedIs` (the numbers of a finite set in their order, each
once) and `SearchIs`: the search of `findChunkPathForHeight`, a recursive function over pairs of
indices, exists and equals the index of the first name that reaches the height.  Recursion is resolved
without an induction rule: the closed form satisfies the equation, and of two functions that do a
smallest difference is contradicted (`MinIsOne`).

**The answers.** `SeriesProofs`, on any rows and ranges: `UnionCountsOnce` (the parts of a union take in
every row of the range once and no other), `InsideADayCountsTwice` (the exception `RowsAreCountedOnce`
makes is real), `NoIntervalIsLost` (the widened search finds both ends of every interval with a time in
the range), `DepthsBeforeAreTheLast` (what is known before the first bucket is the last row before it) and
`DepthsOfABucket` (the depths given for a pool in a bucket are those of its last row before the bucket's end).
`AnswersComplete` (in `AggregatesProofs`, where there are blocks) is of every query together: the starts
that the widened search finds are a stretch of the calendar without a gap (`Stretch`, `FoundIs`); the two
indices that `generateTimestamps` counts cut it at the start at or below `from` and the first one from
`until` on (`GeneratedIs`); `restrictBuckets` keeps each time from the first block to now (`RestrictedIs`);
and a range of n longest intervals has at least n intervals, so that the n asked for are left
(`LongEnough`, `PlaceAfter`, `PlaceBefore`).

`RowsCounted` says that each row of the blocks is summed once, in the bucket of its time.  In a series
(`SeriesCountsOnce`) no start is between a row's time and the time of the view it is in (`ViewTimeIs`:
the exact intervals start at multiples of their length, the others at whole days), so that every row
the query gets is of the start of a bucket; a row that is not would stop the merge.  The merge is a recursive
function; it is at the first row behind the bucket after each of them (`MergePlaces`), so that a
bucket gets the rows of its start and no others (`MergeIs`).  In a range (`RangeCountsOnce`) all parts are
of one start, and `UnionCountsOnce` says how often a row is in them.

**Only model-checked:**

* liveness (`EverythingIsIndexed`, `EverythingIsFetched`, `EverythingIsAggregated`,
  `EverythingIsRecorded`, `StartUpEnds`), out of the prover's reach;
* what amounts the handlers write into the rows: `DepthsFollowTheRows` (a sum over rows against
  a sum over events).  It is within the provers' reach, and not done: the proof needs a type for every key of
  every event (the proofs above need none, two recorders being compared instead of added up) and a lemma for each handler;
* `ActionsAreServed`: the procedures of `Actions` update a table row by row with joins over sets that the
  same refresh fills, and the property has exceptions that depend on where a refresh ended (section 4).
  No inductive invariant short of the whole procedure was found.

## 7. Disagreements found

1. **`ingest_genesis_state`** - a process stopped after the genesis file is loaded and before its first
   block restarts without the genesis totals (`genesis.go:23-31` skips the file, `timeseries.go:53-79`
   restores from `block_log` alone).  Every later state lacks them.
2. **`ingest_genesis_rows`** - the constant `genesis` is written on its own connection before the rows
   are (`genesis.go:67-82`).  A stop in between loses the rows for good.
3. **`aggregates_snapshot`** - a balance query for a second may be answered with the height of a block after
   `LastAggregatedBlock`, whose balances are not there (`balance.go:31,35,61`).  It happens in a catch-up,
   when a step of 20 days ends in a second with a block after the end, and near the tip if two blocks
   share a second.
4. **`aggregates_trim`** - `trimdb` takes back every watermark but not the rows of `midgard_agg.balances`;
   `update_balances` then fails on its primary key in every refresh.
5. **`startup_dump`** - the dump ends at a fork only with the block that reaches it (`dump.go:110-118`), and looks at
   the fork before it begins only with `DownloadFullChunksOnly` (`dump.go:62-74`).  Started again on a store
   that ends with the fork, by an operator who has announced it, it goes on from the block after it and
   finalizes chunks of the old chain; the Midgard of the next chain reads them (`iterator.go:26-41`), drops
   them at its next start, and reads them again.
6. **`websockets`** - `write` takes `assetMutex` for writing while it holds it for reading
   (`websockets.go:217,247,253,326`); after one failed flush the job hangs, clients get no more prices, and
   cancelling the context does not end it.

Seen while modelling, part of the models as they are, and without a run of their own: the debug mode that compares the block store with the node stops at a block
that is equal and lets one that differs pass (`iterator.go:135`; `ComparisonFails`); the price
without an anchor compares `maxDepth > depth` from -1 (`depthrecorder.go:154-159`) and so is 0 instead
of the deepest pool's; the `CASE` that adds a deposit to an earlier one of the same asset never matches, because
it looks for an array in an object (`aggregates.sql:915`); `TrimDB` removes actions by their block and
leaves the payments joined to earlier ones, which the next refresh joins again (`migrates.go:79-83`); the usage text of the buckets says a count of 1..100 where the code allows 400
(`buckets.go:223,230` and 134); the weaknesses listed at the end of section 4.

## 8. What is not modelled

* **Data**: the text of events (which keys parse is modelled, not how), amounts beyond a few units,
  columns of rows that no property tells apart, the number of corrections in a table, the median of the prices.
* **SQL that only PostgreSQL evaluates**: what the views of members, borrowers and earnings compute
  from the rows, the USD prices, memos and addresses of actions and the filters by them; JSON; HTTP routing.  A model would restate the query.
* **TimescaleDB**: external.  Its views are taken to hold what their query says of the rows there are,
  also of rows not materialised yet; if an installation sets `materialized_only`, which is the default from version 2.13 on,
  the answers to ranges are later than `Series` says.
* **The caches** of the API (`cache.go`): each entry is one assignment of the last result, error or not.
* **Data races** of Go maps (`connections`, read without its lock in `write`): an access is one step.
  A race that ends the process is a crash.
* **The store under a genesis file**: a folder filled without one is not used with one, or the other way
  round; `StoreIsReadable` speaks of a store without a genesis file.
* **A genesis configured in part**: `GENESIS_INITIAL_BLOCK_HEIGHT` and its hash are compared also without a file
  (`globalblocks.go:207,255`); in `Setup` there are all three or none.  The time of the first block is not
  compared either (`globalblocks.go:227`).
* **A bond type of two to four bytes** ends the process (`event.go:377` slices five); `LoadBond` takes it for one that
  does not decode.  The chain writes one byte or a name, so a panic would be the first sign of another kind of chain.
* Live queries of the node (`notinchain`), the generated API code, configuration, logging, metrics, and
  tools that only read and compare (`statechecks`, `membercheck`, `loadtest`).
* Two processes on one database: the code does not support it.

## 9. Plan

Done: the modules and runs above, and the proofs of section 6.  Next, in this order:

1. `DepthsFollowTheRows`, with the rows of `HandlersProofs`.
2. `Websockets`: that the only wait for a lock by its holder is in `write`.
