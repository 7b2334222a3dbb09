-------------------------------- MODULE Ingest --------------------------------
(***************************************************************************)
(* The block writer of Midgard: cmd/midgard/blockwriter.go takes blocks    *)
(* off the fetcher's channel, timeseries.ProcessBlock records them, one of *)
(* the two row inserters of internal/db makes them durable, and on every   *)
(* start timeseries.Setup rebuilds the in-memory state from the database.  *)
(* The process may stop at any point: a signal, a crash, a failed flush or *)
(* the wait at a hard fork; only the database survives.                    *)
(*                                                                         *)
(* Data.  The recorder's running totals (pool depths) are represented by   *)
(* the sequence of blocks whose events they contain, in the order they     *)
(* were added.  Every value the code computes is a function of that        *)
(* sequence, so a block added twice, out of order or not at all shows.     *)
(* The rows of a block are its block_log row: the other tables' rows are   *)
(* written in the same transaction.                                        *)
(***************************************************************************)
EXTENDS BlockFeed, Integers

CONSTANTS
    GenesisHeight,    \* config Genesis.InitialBlockHeight, 0 without a genesis file
    CommitBatchSize,  \* config TimeScale.CommitBatchSize
    HardForkHeight,   \* HardForkHeight of the current chain, 0 if no fork is planned
    MaxStops          \* bound of the model: crashes, signals and failing DB calls

ASSUME IngestAssumption ==
    /\ GenesisHeight \in Nat
    /\ CommitBatchSize \in Nat \ {0}
    /\ HardForkHeight \in Nat
    /\ MaxStops \in Nat
    /\ HardForkHeight # 0 => GenesisHeight <= HardForkHeight

VARIABLES
    \* The database.
    blockLog,         \* table block_log: height -> agg_state
    genesisConstant,  \* row 'genesis' of table constants is there
    genesisRows,      \* the rows recorded from the genesis file are there
    inserterFail,     \* row inserter_fail of table constants is there
    \* The memory of the process.
    pc,               \* where the main goroutine, then the block writer, is
    inserter,         \* db.Inserter: "batch" or "immediate"
    uncommitted,      \* rows in BatchInserter.batches or in the open transaction
    recorder,         \* record.Recorder: the blocks its running totals contain
    current,          \* the block being written and what loop() computed for it
    lastCommitted,    \* db.LastCommittedBlock
    latest,           \* timeseries.Latest: the depths the API serves
    firstBlock,       \* db.FirstBlock
    refreshRequests,  \* length of the channel of RequestAggregatesRefresh
    signals,          \* a signal is waiting for SignalWatch
    ctxDone,          \* the main context is cancelled
    stops             \* counts the failures against MaxStops

dbVars == <<blockLog, genesisConstant, genesisRows, inserterFail>>
memVars == <<inserter, uncommitted, recorder, current, lastCommitted, latest,
             firstBlock, refreshRequests>>
stopVars == <<signals, ctxDone, stops>>
vars == <<dbVars, memVars, stopVars, pc, feedVars>>

-----------------------------------------------------------------------------
(* Heights, rows and states.                                               *)

HasGenesis == GenesisHeight # 0

\* Height of the first block in block_log.
FirstHeight == IF HasGenesis THEN GenesisHeight ELSE 1

\* The genesis file is recorded under the height before its first block.
BaseHeight == IF HasGenesis THEN GenesisHeight - 2 ELSE 0

\* The running totals after block h, each block's events added once and in order.
DepthsAt(h) == [i \in 1..(h - BaseHeight) |-> BaseHeight + i]

\* The agg_state column of a row that carries none.
NoState == <<>>

\* Height of the last row of a block_log, 0 if it is empty.
LastHeight(log) ==
    IF DOMAIN log = {} THEN 0
    ELSE CHOOSE h \in DOMAIN log : \A k \in DOMAIN log : k <= h
LastRow == LastHeight(blockLog)

\* The row of block h among the rows, and block_log after the rows are added to it.
RowOf(rows, h) == rows[CHOOSE i \in DOMAIN rows : rows[i].height = h]
WithRows(log, rows) ==
    [h \in DOMAIN log \cup {rows[i].height : i \in DOMAIN rows} |->
        IF h \in DOMAIN log THEN log[h] ELSE RowOf(rows, h).aggState]

\* The primary key of block_log accepts the rows.
KeysAreNew(log, rows) ==
    /\ \A i \in DOMAIN rows : rows[i].height \notin DOMAIN log
    /\ \A i, j \in DOMAIN rows : rows[i].height = rows[j].height => i = j

Rows == [height : Nat, aggState : Seq(Nat)]
InFlight == [height : Nat, synced : BOOLEAN, commit : BOOLEAN, aggState : Seq(Nat)]
NoBlock == [height |-> 0, synced |-> FALSE, commit |-> FALSE, aggState |-> NoState]

PcValues == {"down", "unstartable", "genesis", "flushGenesis", "jobs",
             "loop", "select", "process", "endBlock", "flush", "markFail",
             "publish", "written", "forkWait", "forkExit", "stopped"}

DbTypeOK ==
    /\ DOMAIN blockLog \subseteq Nat
    /\ blockLog \in [DOMAIN blockLog -> Seq(Nat)]
    /\ genesisConstant \in BOOLEAN
    /\ genesisRows \in BOOLEAN
    /\ inserterFail \in BOOLEAN

MemTypeOK ==
    /\ pc \in PcValues
    /\ inserter \in {"batch", "immediate"}
    /\ uncommitted \in Seq(Rows)
    /\ recorder \in Seq(Nat)
    /\ current \in InFlight
    /\ lastCommitted \in Nat
    /\ latest \in Seq(Nat)
    /\ firstBlock \in Nat
    /\ refreshRequests \in 0..1
    /\ signals \in BOOLEAN
    /\ ctxDone \in BOOLEAN

TypeOK == FeedTypeOK /\ DbTypeOK /\ MemTypeOK /\ stops \in 0..MaxStops

-----------------------------------------------------------------------------
(* Starting: main() up to the start of the jobs.                           *)

\* The memory of a process that does not run.
NoMemory ==
    /\ inserter' = "batch"
    /\ uncommitted' = <<>>
    /\ recorder' = <<>>
    /\ current' = NoBlock
    /\ lastCommitted' = 0
    /\ latest' = <<>>
    /\ firstBlock' = 0
    /\ refreshRequests' = 0
    /\ signals' = FALSE
    /\ ctxDone' = FALSE

\* The process is gone, whatever its jobs were doing.
Die ==
    /\ pc' = "down"
    /\ NoMemory
    /\ lastThorNode' = 0
    /\ nextFetch' = 1
    /\ blocks' = <<>>

Fail == stops < MaxStops /\ stops' = stops + 1

Init ==
    /\ blockLog = <<>>
    /\ genesisConstant = FALSE
    /\ genesisRows = FALSE
    /\ inserterFail = FALSE
    /\ pc = "down"
    /\ inserter = "batch"
    /\ uncommitted = <<>>
    /\ recorder = <<>>
    /\ current = NoBlock
    /\ lastCommitted = 0
    /\ latest = <<>>
    /\ firstBlock = 0
    /\ refreshRequests = 0
    /\ signals = FALSE
    /\ ctxDone = FALSE
    /\ stops = 0
    /\ lastThorNode = 0
    /\ nextFetch = 1
    /\ blocks = <<>>

\* What Setup gives the recorder: the state stored with the last row of block_log.
\* Wrong_RestoredState: the state is not restored.
Wrong_RestoredState == NoState
RestoredState == IF LastRow = 0 THEN NoState ELSE blockLog[LastRow]

\* setupDB picks the inserter and restores the totals from the last row of
\* block_log, which must carry a state; InitGlobalSync learns the node's height,
\* and the first block's if the node serves the root chain or there is a genesis
\* file; EnsureDBMatchesChain takes it from the first row otherwise.
StartProcess ==
    /\ pc = "down"
    /\ inserter' = IF inserterFail THEN "immediate" ELSE "batch"
    /\ recorder' = RestoredState
    /\ latest' = RestoredState
    /\ pc' = IF LastRow # 0 /\ blockLog[LastRow] = NoState THEN "unstartable" ELSE "genesis"
    /\ lastCommitted' = LastRow
    /\ lastThorNode' \in 1..MaxHeight
    /\ firstBlock' \in IF HasGenesis \/ LastRow # 0 THEN {FirstHeight} ELSE {0, FirstHeight}
    /\ UNCHANGED <<dbVars, uncommitted, current, refreshRequests, stopVars, nextFetch, blocks>>

\* LoadGenesis without a genesis file, or with one that was loaded before.
SkipGenesis ==
    /\ pc = "genesis"
    /\ ~HasGenesis \/ genesisConstant \/ GenesisHeight < lastCommitted
    /\ lastCommitted' =
          IF HasGenesis /\ genesisConstant /\ lastCommitted = 0
          THEN GenesisHeight - 1 ELSE lastCommitted
    /\ pc' = "jobs"
    /\ UNCHANGED <<dbVars, inserter, uncommitted, recorder, current, latest, firstBlock,
                   refreshRequests, stopVars, feedVars>>

\* LoadGenesis adds the file to the totals and hands its rows to the inserter;
\* setGenesisConstant writes the constant on a connection of its own, at once.
RecordGenesis ==
    /\ pc = "genesis"
    /\ HasGenesis /\ ~genesisConstant /\ lastCommitted <= GenesisHeight
    /\ recorder' = Append(recorder, GenesisHeight - 1)
    /\ genesisConstant' = TRUE
    /\ pc' = "flushGenesis"
    /\ UNCHANGED <<blockLog, genesisRows, inserterFail, inserter, uncommitted, current,
                   lastCommitted, latest, firstBlock, refreshRequests, stopVars, feedVars>>

\* LoadGenesis makes the genesis rows durable.
FlushGenesis ==
    /\ pc = "flushGenesis"
    /\ genesisRows' = TRUE
    /\ lastCommitted' = GenesisHeight - 1
    /\ pc' = "jobs"
    /\ UNCHANGED <<blockLog, genesisConstant, inserterFail, inserter, uncommitted, recorder,
                   current, latest, firstBlock, refreshRequests, stopVars, feedVars>>

\* FlushGenesis fails and midlog.FatalE ends the process.
FlushGenesisFails ==
    /\ pc = "flushGenesis"
    /\ Fail
    /\ Die
    /\ UNCHANGED dbVars

\* Block h is the last one before the fork, or is behind it.
ForkReached(h) == HardForkHeight # 0 /\ HardForkHeight <= h

\* The jobs start: KeepInSync fetches from the block after the last committed one,
\* and loop() waits first if the fork is already reached.
StartJobs ==
    /\ pc = "jobs"
    /\ nextFetch' = lastCommitted + 1
    /\ pc' = IF ForkReached(lastCommitted) THEN "forkWait" ELSE "loop"
    /\ UNCHANGED <<dbVars, memVars, stopVars, lastThorNode, blocks>>

-----------------------------------------------------------------------------
(* The block writer: blockWriter.loop and timeseries.ProcessBlock.         *)

writerUnchanged == <<inserter, lastCommitted, latest, firstBlock, refreshRequests>>

\* The context is checked before every block.
CheckContext ==
    /\ pc = "loop"
    /\ pc' = IF ctxDone THEN "stopped" ELSE "select"
    /\ UNCHANGED <<dbVars, memVars, stopVars, feedVars>>

\* The select takes the Done case.
SelectDone ==
    /\ pc = "select"
    /\ ctxDone
    /\ pc' = "stopped"
    /\ UNCHANGED <<dbVars, memVars, stopVars, feedVars>>

\* Block h belongs to the chain after the fork.
\* Wrong_BeyondFork: only the check at the end of the iteration keeps them out.
Wrong_BeyondFork(h) == FALSE
BeyondFork(h) == HardForkHeight # 0 /\ HardForkHeight < h

\* Whether loop() asks ProcessBlock to commit block h.
\* Wrong_CommitsNotInSync: being in sync does not commit.
Wrong_CommitsNotInSync(h, synced) ==
    inserter = "immediate" \/ h % CommitBatchSize = 0 \/ h = HardForkHeight
\* Wrong_CommitsNoBatch: a full batch does not commit.
Wrong_CommitsNoBatch(h, synced) == inserter = "immediate" \/ synced \/ h = HardForkHeight
\* Wrong_CommitsNotAtFork: the last block before the fork does not commit.
Wrong_CommitsNotAtFork(h, synced) ==
    inserter = "immediate" \/ synced \/ h % CommitBatchSize = 0
Commits(h, synced) ==
    \/ inserter = "immediate"
    \/ synced
    \/ h % CommitBatchSize = 0
    \/ h = HardForkHeight

\* A block arrives.  Above the hard fork the writer waits and exits; otherwise it
\* decides, from the node's height as known now, whether to commit with this block.
SelectBlock ==
    /\ pc = "select"
    /\ ReceiveBlock
    /\ LET h == Head(blocks)
           synced == lastThorNode <= h + 1
       IN  IF BeyondFork(h)
           THEN pc' = "forkExit" /\ UNCHANGED current
           ELSE /\ pc' = "process"
                /\ current' = [height |-> h, synced |-> synced, commit |-> Commits(h, synced),
                               aggState |-> NoState]
    /\ UNCHANGED <<dbVars, writerUnchanged, uncommitted, recorder, stopVars>>

\* Whether ProcessBlock flushes with this block and gives its row a state.
ThisIsTheFirstBlock(h) == firstBlock = 0 \/ h <= firstBlock
Persists(b) == b.commit \/ ThisIsTheFirstBlock(b.height) \/ (HasGenesis /\ b.height = GenesisHeight)

\* The agg_state column of the block's row.
\* Wrong_StateToStore: the first blocks and forced commits are forgotten.
Wrong_StateToStore(b, totals) == IF b.height % CommitBatchSize = 0 THEN totals ELSE NoState
StateToStore(b, totals) == IF Persists(b) THEN totals ELSE NoState

\* ProcessBlock up to its last Insert: the events are added to the totals, the
\* totals are copied, and the block's rows go to the inserter.
ProcessBlock ==
    /\ pc = "process"
    /\ recorder' = Append(recorder, current.height)
    /\ uncommitted' = Append(uncommitted, [height |-> current.height,
                                           aggState |-> StateToStore(current, recorder')])
    /\ current' = [current EXCEPT !.commit = Persists(current), !.aggState = recorder']
    /\ pc' = "endBlock"
    /\ UNCHANGED <<dbVars, writerUnchanged, stopVars, feedVars>>

\* Wrong_CommitRows: every batch of rows is made durable for itself, and not all are.
Wrong_CommitRows ==
    \E n \in 0..Len(uncommitted) :
        blockLog' = WithRows(blockLog, SubSeq(uncommitted, 1, n))
\* The transaction holding the uncommitted rows commits.
CommitRows ==
    /\ KeysAreNew(blockLog, uncommitted)
    /\ blockLog' = WithRows(blockLog, uncommitted)

\* The writer gives up: Do() logs the error and asks for a shutdown.
WriterError ==
    /\ pc' = "stopped"
    /\ signals' = TRUE

\* StartBlock, a block_log Insert or EndBlock of the ImmediateInserter fails; the
\* rows of the open transaction are lost, unless EndBlock committed them and only the
\* answer was lost.  (The BatchInserter's StartBlock, Insert and EndBlock cannot fail.)
ProcessBlockFails ==
    /\ pc \in {"process", "endBlock"}
    /\ inserter = "immediate"
    /\ Fail
    /\ WriterError
    /\ uncommitted' = <<>>
    /\ \/ UNCHANGED blockLog
       \/ pc = "endBlock" /\ CommitRows
    /\ UNCHANGED <<genesisConstant, genesisRows, inserterFail, writerUnchanged, recorder,
                   current, ctxDone, feedVars>>

\* What follows EndBlock.
\* Wrong_AfterEndBlock: the block is published whether it is flushed or not.
Wrong_AfterEndBlock == IF current.commit THEN "flush" ELSE "publish"
AfterEndBlock == IF current.commit THEN "flush" ELSE "written"

\* EndBlock: the ImmediateInserter commits, the BatchInserter only keeps the rows.
EndBlock ==
    /\ pc = "endBlock"
    /\ IF inserter = "immediate"
       THEN CommitRows /\ uncommitted' = <<>>
       ELSE UNCHANGED <<blockLog, uncommitted>>
    /\ pc' = AfterEndBlock
    /\ UNCHANGED <<genesisConstant, genesisRows, inserterFail, writerUnchanged, recorder,
                   current, stopVars, feedVars>>

\* Flush: one transaction for all batches (nothing is left for an ImmediateInserter).
Flush ==
    /\ pc = "flush"
    /\ CommitRows
    /\ uncommitted' = <<>>
    /\ pc' = "publish"
    /\ UNCHANGED <<genesisConstant, genesisRows, inserterFail, writerUnchanged, recorder,
                   current, stopVars, feedVars>>

\* Flush returns an error: the transaction was rolled back, or it was committed and
\* only the answer was lost.  The batches are dropped in both cases.
FlushFails ==
    /\ pc = "flush"
    /\ inserter = "batch"
    /\ Fail
    /\ CommitRows \/ UNCHANGED blockLog
    /\ uncommitted' = <<>>
    /\ pc' = "markFail"
    /\ UNCHANGED <<genesisConstant, genesisRows, inserterFail, writerUnchanged, recorder,
                   current, signals, ctxDone, feedVars>>

\* Wrong_MarkBatchInserterFail: the failure is marked, and the writer goes on.
Wrong_MarkBatchInserterFail ==
    /\ pc = "markFail"
    /\ inserterFail' = TRUE
    /\ pc' = "written"
    /\ UNCHANGED <<blockLog, genesisConstant, genesisRows, memVars, stopVars, feedVars>>
\* MarkBatchInserterFail, which may fail too, and log.Fatal.
MarkBatchInserterFail ==
    /\ pc = "markFail"
    /\ inserterFail' \in {TRUE, inserterFail}
    /\ Die
    /\ UNCHANGED <<blockLog, genesisConstant, genesisRows, stops>>

\* setLastBlock, and SetAndCheckFirstBlock for the first block.
SetLastBlock ==
    /\ pc = "publish"
    /\ lastCommitted' = current.height
    /\ latest' = current.aggState
    /\ firstBlock' = IF ThisIsTheFirstBlock(current.height) THEN current.height ELSE firstBlock
    /\ pc' = "written"
    /\ UNCHANGED <<dbVars, inserter, uncommitted, recorder, current, refreshRequests,
                   stopVars, feedVars>>

\* RequestAggregatesRefresh: the request is dropped if one is waiting.
\* Wrong_WithRequest: requests pile up.
Wrong_WithRequest(n) == n + 1
WithRequest(n) == 1

\* The end of an iteration: the aggregates are refreshed when in sync, and at the
\* hard fork the writer waits and exits.
EndIteration ==
    /\ pc = "written"
    /\ refreshRequests' = IF current.synced THEN WithRequest(refreshRequests) ELSE refreshRequests
    /\ pc' = IF ForkReached(current.height) THEN "forkExit" ELSE "loop"
    /\ UNCHANGED <<dbVars, inserter, uncommitted, recorder, current, lastCommitted, latest,
                   firstBlock, stopVars, feedVars>>

\* waitAtForkAndExit ends: the context is cancelled, or the ten minutes are over and
\* it asks for a shutdown.  The wait before the loop does not leave loop().
LeaveFork ==
    /\ pc \in {"forkWait", "forkExit"}
    /\ IF ctxDone THEN UNCHANGED signals ELSE signals' = TRUE
    /\ pc' = IF pc = "forkWait" THEN "loop" ELSE "stopped"
    /\ UNCHANGED <<dbVars, memVars, ctxDone, stops, feedVars>>

-----------------------------------------------------------------------------
(* The other jobs and the environment.                                     *)

Running == pc \notin {"down", "unstartable", "genesis", "flushGenesis", "jobs"}

\* The fetcher, until it sees the context cancelled.
FetcherSteps ==
    /\ Running
    /\ RefreshStatus \/ SendBlock
    /\ UNCHANGED <<dbVars, memVars, stopVars, pc>>

\* The aggregates job takes a request.
TakeRefreshRequest ==
    /\ Running
    /\ refreshRequests = 1
    /\ refreshRequests' = 0
    /\ UNCHANGED <<dbVars, inserter, uncommitted, recorder, current, lastCommitted, latest,
                   firstBlock, stopVars, pc, feedVars>>

\* The operator stops the process.
Signal ==
    /\ Running
    /\ ~signals
    /\ Fail
    /\ signals' = TRUE
    /\ UNCHANGED <<dbVars, memVars, ctxDone, pc, feedVars>>

\* SignalWatch takes the first signal and cancels the main context.
SignalWatch ==
    /\ Running
    /\ signals /\ ~ctxDone
    /\ ctxDone' = TRUE
    /\ UNCHANGED <<dbVars, memVars, signals, stops, pc, feedVars>>

\* ShutdownWait has seen every job finish.
Exit ==
    /\ pc = "stopped"
    /\ ctxDone
    /\ Die
    /\ UNCHANGED <<dbVars, stops>>

\* A crash, or ShutdownWait timing out, anywhere.
Crash ==
    /\ pc \notin {"down", "unstartable"}
    /\ Fail
    /\ Die
    /\ UNCHANGED dbVars

StartUp ==
    \/ StartProcess \/ SkipGenesis \/ RecordGenesis \/ FlushGenesis \/ StartJobs

Writer ==
    \/ CheckContext \/ SelectDone \/ SelectBlock \/ ProcessBlock \/ EndBlock \/ Flush
    \/ MarkBatchInserterFail \/ SetLastBlock \/ EndIteration \/ LeaveFork

Faults == FlushGenesisFails \/ ProcessBlockFails \/ FlushFails \/ Signal \/ Crash

Next == StartUp \/ Writer \/ FetcherSteps \/ TakeRefreshRequest \/ SignalWatch \/ Exit \/ Faults

Spec == Init /\ [][Next]_vars

-----------------------------------------------------------------------------
(* Why it works: what holds between any two steps of the writer.           *)

\* block_log is a run of rows from FirstHeight on, and the last one has a state.
TableInv ==
    /\ LastRow \in Nat
    /\ DOMAIN blockLog = FirstHeight..LastRow
    /\ LastRow # 0 => FirstHeight <= LastRow /\ blockLog[LastRow] # NoState

\* The block before the first one that block_log does not hold yet.
Top == IF LastRow = 0 THEN FirstHeight - 1 ELSE LastRow

\* The last block handed to the inserter.
Handed == Top + Len(uncommitted)

\* The writer is in its loop, or about to enter it.
InLoop == pc \in {"loop", "select", "process", "endBlock", "flush", "publish", "written", "forkWait"}

\* The block that follows those handed over, and the one being processed.
Expected == IF pc = "process" THEN Handed + 2 ELSE Handed + 1

\* From the database over the inserter and the channel to the fetcher, the blocks
\* follow each other without a gap.
OrderInv ==
    /\ \A i \in DOMAIN uncommitted : uncommitted[i].height = Top + i
    /\ pc \in {"down", "genesis", "flushGenesis", "jobs", "publish"} => uncommitted = <<>>
    /\ pc = "jobs" => lastCommitted = Top
    /\ pc = "genesis" => lastCommitted = LastRow
    /\ pc \in {"down", "genesis", "flushGenesis", "jobs"} => blocks = <<>>
    /\ pc = "process" => current.height = Handed + 1
    /\ pc \in {"endBlock", "flush", "publish", "written"} => current.height = Handed
    /\ InLoop => /\ nextFetch = Expected + Len(blocks)
                 /\ \A i \in DOMAIN blocks : blocks[i] = Expected + i - 1
    /\ HasGenesis /\ (LastRow # 0 \/ InLoop \/ pc \in {"flushGenesis", "jobs"}) => genesisConstant
    /\ HasGenesis /\ ~genesisConstant => LastRow = 0
    /\ pc = "flushGenesis" => LastRow = 0 /\ HasGenesis

\* A commit ends with a row that carries a state.
StateInv ==
    /\ pc \in {"endBlock", "flush"} /\ current.commit /\ uncommitted # <<>> =>
          uncommitted[Len(uncommitted)].aggState # NoState
    /\ pc = "flush" => current.commit
    /\ pc \in {"process", "endBlock"} /\ inserter = "immediate" => current.commit

\* The inductive invariant: what holds of the table follows from how it is filled.
Inv == TypeOK /\ TableInv /\ OrderInv /\ StateInv

\* With no genesis file, the totals are those of the blocks handed over, wherever a
\* copy of them is kept.
ExactInv ==
    /\ \A h \in DOMAIN blockLog : blockLog[h] \in {NoState, DepthsAt(h)}
    /\ \A i \in DOMAIN uncommitted : uncommitted[i].aggState \in {NoState, DepthsAt(Top + i)}
    /\ InLoop \/ pc \in {"genesis", "jobs"} => recorder = DepthsAt(Handed)
    /\ pc \in {"endBlock", "flush", "publish", "written"} => current.aggState = DepthsAt(Handed)
    /\ lastCommitted # 0 => lastCommitted \in DOMAIN blockLog /\ latest = DepthsAt(lastCommitted)

\* Every copy of the totals, and the rows handed over, end at the hard fork.
BeforeFork(totals) == \A i \in DOMAIN totals : totals[i] <= HardForkHeight
ForkInv ==
    HardForkHeight # 0 =>
        /\ Handed <= HardForkHeight
        /\ pc = "process" => Handed < HardForkHeight
        /\ BeforeFork(recorder)
        /\ \A h \in DOMAIN blockLog : BeforeFork(blockLog[h])
        /\ \A i \in DOMAIN uncommitted : BeforeFork(uncommitted[i].aggState)

-----------------------------------------------------------------------------
(* Properties.                                                             *)

\* The rows of block_log are those of consecutive blocks from the first one on: no
\* batch, crash, retry or change of inserter leaves a hole (ProcessBlock, Flush).
BlockLogIsContiguous == DOMAIN blockLog = FirstHeight..LastRow

\* "This way we can continue after being interrupted" (timeseries.go:149): wherever
\* the process is interrupted, the last row of block_log carries a state for Setup.
LastRowHasState == LastRow # 0 => blockLog[LastRow] # NoState

\* Every stored agg_state is the totals after exactly the blocks up to its row: across
\* restarts no block is counted twice or left out (Setup, ProcessBlock, KeepInSync).
StatesAreExact ==
    \A h \in DOMAIN blockLog : blockLog[h] # NoState => blockLog[h] = DepthsAt(h)

\* What readers are told is committed is in the database, and the depths the API
\* serves are those of that block (setLastBlock after Flush, Setup).
PublishedIsCommitted ==
    lastCommitted # 0 /\ ~(HasGenesis /\ lastCommitted = GenesisHeight - 1) =>
        /\ lastCommitted \in DOMAIN blockLog
        /\ latest = DepthsAt(lastCommitted)

\* "The Genesis is already written." (genesis.go:24): a process that finds the constant
\* goes on without the file, so the rows recorded from it must be there.
GenesisIsWritten ==
    genesisConstant /\ pc \notin {"down", "genesis", "flushGenesis"} => genesisRows

\* Nothing of a block above the announced hard fork reaches the totals, the inserter
\* or the database, although the writer goes on after the wait before its loop.
NothingPastTheFork ==
    HardForkHeight # 0 =>
        /\ \A i \in DOMAIN recorder : recorder[i] <= HardForkHeight
        /\ \A i \in DOMAIN uncommitted : uncommitted[i].height <= HardForkHeight
        /\ LastRow <= HardForkHeight

\* The inserter never holds more blocks than one batch, however far behind the node
\* the writer is: the memory of a long sync and the work lost by a crash are bounded.
BatchIsBounded == Len(uncommitted) <= CommitBatchSize

\* Rows are never deleted or rewritten, and a flush makes whole batches durable: when
\* the table grows, its new last row is a place to resume from.
RowsArePermanent ==
    [][/\ \A h \in DOMAIN blockLog : h \in DOMAIN blockLog' /\ blockLog'[h] = blockLog[h]
       /\ blockLog' # blockLog => blockLog'[LastRow'] # NoState]_vars

\* The aggregates are asked to catch up only with blocks that are committed and
\* published: the refresh reads LastCommittedBlock (RequestAggregatesRefresh).
RefreshSeesTheBlock ==
    [][refreshRequests < refreshRequests' => lastCommitted = current.height]_vars

\* Every block up to the hard fork, or to the end of the chain, is eventually durable,
\* although only some blocks commit and the node's height moves while they are read.
Target == IF HardForkHeight = 0 \/ MaxHeight < HardForkHeight THEN MaxHeight ELSE HardForkHeight
EverythingIsIndexed == <>(FirstHeight..Target \subseteq DOMAIN blockLog)

\* The writer implements the abstract ledger: with no genesis file, what it stores and
\* publishes is a prefix of the chain and the state after it, whatever stops it.
Promised == INSTANCE Ledger WITH
    StateAt <- DepthsAt, top <- LastRow, resume <- RestoredState,
    visible <- lastCommitted, alive <- pc \notin {"down", "unstartable"}
ImplementsLedger == Promised!Spec

\* The goroutines are scheduled, the process is restarted when it stops, the node keeps
\* answering, and a DB call that is tried often enough succeeds.
Fairness ==
    /\ WF_vars(StartUp)
    /\ WF_vars(Writer)
    /\ WF_vars(FetcherSteps)
    /\ WF_vars(TakeRefreshRequest)
    /\ WF_vars(SignalWatch)
    /\ WF_vars(Exit)

FairSpec == Spec /\ Fairness

=============================================================================
