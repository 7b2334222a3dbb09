--------------------------------- MODULE Sync ---------------------------------
(***************************************************************************)
(* The block fetcher in detail: KeepInSync and CatchUp of                  *)
(* internal/fetch/sync/sync.go, the iterator that reads the local block    *)
(* store and then the node (sync/iterator.go, sync/chain/chain.go), and    *)
(* the node itself, whose status runs ahead of its block results.          *)
(* It implements BlockFeed, which is all the block writer relies on.       *)
(***************************************************************************)
EXTENDS BlockFeed

CONSTANTS
    BatchSize,       \* config FetchBatchSize: blocks asked for at a time
    StoreHeight,     \* BlockStore.LastFetchedHeight
    Differ,          \* heights whose stored block is not the node's
    MaxErrorCount,   \* maxErrorCount of KeepInSync, 20
    MaxLate,         \* bound of the node: failing attempts before results are ready
    MaxErrors        \* bound of the model: failing calls

ASSUME SyncAssumption ==
    /\ BatchSize \in Nat \ {0}
    /\ StoreHeight \in Nat
    /\ Differ \subseteq 1..StoreHeight
    /\ MaxErrorCount \in Nat
    /\ MaxLate \in Nat
    /\ MaxErrors \in Nat

VARIABLES
    \* The fetcher.
    pc,              \* "loop" of KeepInSync, "next" and "send" of CatchUp, "after" it
    failedHeight,    \* failedThorNodeFetchHeight, 0 for its -1
    finalHeight,     \* finalBlockHeight of this CatchUp
    source,          \* the part of the iterator in use: "store" or "chain"
    batchStart,      \* nextBatchStart of the chain iterator
    batch,           \* blocks fetched from the node and not returned yet
    pending,         \* the block Next returned, 0 if there is none
    failed,          \* CatchUp returned an error
    previous,        \* previousHeight
    errorCount,      \* errorCountAtCurrentHeight
    ctxDone,         \* the main context is cancelled
    checked,         \* CheckBlockStoreBlocks, a debug mode set before the start
    \* The node.
    chainHeight,     \* LatestBlockHeight of its status
    ready,           \* highest block whose results it can deliver
    late,            \* attempts that came before the results of the latest block
    errors           \* failed calls, against MaxErrors

catchUpVars == <<failedHeight, finalHeight, source, batchStart, batch, pending, failed>>
loopVars == <<previous, errorCount, ctxDone, checked>>
nodeVars == <<chainHeight, ready, late, errors>>
vars == <<pc, catchUpVars, loopVars, nodeVars, feedVars>>

TypeOK ==
    /\ FeedTypeOK
    /\ pc \in {"loop", "next", "send", "after", "stopped", "quit"}
    /\ failedHeight \in 0..MaxHeight /\ finalHeight \in 0..MaxHeight
    /\ source \in {"store", "chain"}
    /\ batchStart \in Nat
    /\ batch \in Seq(Nat)
    /\ pending \in Nat /\ previous \in Nat /\ errorCount \in Nat
    /\ failed \in BOOLEAN /\ ctxDone \in BOOLEAN /\ checked \in BOOLEAN
    /\ chainHeight \in 1..MaxHeight /\ ready \in 0..MaxHeight
    /\ late \in 0..MaxLate /\ errors \in 0..MaxErrors

\* InitGlobalSync has asked for the status; KeepInSync starts after the last block in
\* the database, wherever that is.
Init ==
    /\ chainHeight \in 1..MaxHeight
    /\ \E h \in 1..(chainHeight + 1) : FeedInit(h)
    /\ lastThorNode = chainHeight
    /\ ready \in {chainHeight - 1, chainHeight}
    /\ late = 0 /\ errors = 0
    /\ pc = "loop"
    /\ failedHeight = 0 /\ finalHeight = 0
    /\ source = "chain" /\ batchStart = 0 /\ batch = <<>> /\ pending = 0
    /\ failed = FALSE
    /\ previous = 0 /\ errorCount = 0 /\ ctxDone = FALSE
    /\ checked \in BOOLEAN

Error == errors < MaxErrors /\ errors' = errors + 1 /\ UNCHANGED <<chainHeight, ready, late>>

-----------------------------------------------------------------------------
(* KeepInSync, and CatchUp up to its loop.                                 *)

\* NewIterator starts in the block store if that reaches the height.
NewIterator ==
    /\ source' = IF nextFetch <= StoreHeight THEN "store" ELSE "chain"
    /\ batchStart' = nextFetch
    /\ batch' = <<>>
    /\ pending' = 0
    /\ failed' = FALSE

\* The height a failed CatchUp left to be tried again, 0 if it is behind us.
\* Wrong_HeightToRetry: the height is forgotten, and the status asked for every time.
Wrong_HeightToRetry == 0
HeightToRetry == IF failedHeight < nextFetch THEN 0 ELSE failedHeight

\* After a failure CatchUp goes no further than the last time.
\* Wrong_RetryHeight: the height stays set, and the status is never asked for again.
Wrong_RetryHeight ==
    /\ pc = "loop" /\ ~ctxDone
    /\ 0 < failedHeight
    /\ finalHeight' = failedHeight
    /\ NewIterator
    /\ pc' = "next"
    /\ UNCHANGED <<failedHeight, loopVars, nodeVars, feedVars>>
RetryHeight ==
    /\ pc = "loop" /\ ~ctxDone
    /\ 0 < HeightToRetry
    /\ finalHeight' = failedHeight
    /\ failedHeight' = 0
    /\ NewIterator
    /\ pc' = "next"
    /\ UNCHANGED <<loopVars, nodeVars, feedVars>>

\* Otherwise it goes up to the height of a fresh status.
\* Wrong_FreshHeight: one block more than the node has reported.
Wrong_FreshHeight == IF chainHeight < MaxHeight THEN chainHeight + 1 ELSE chainHeight
FreshHeight == chainHeight
AskStatus ==
    /\ pc = "loop" /\ ~ctxDone
    /\ HeightToRetry = 0
    /\ failedHeight' = 0
    /\ finalHeight' = FreshHeight
    /\ lastThorNode' = chainHeight
    /\ NewIterator
    /\ pc' = "next"
    /\ UNCHANGED <<loopVars, nodeVars, nextFetch, blocks>>

\* RefreshStatus gives up after its retries.
StatusFails ==
    /\ pc = "loop" /\ ~ctxDone
    /\ HeightToRetry = 0
    /\ Error
    /\ failedHeight' = 0
    /\ failed' = TRUE
    /\ pc' = "after"
    /\ UNCHANGED <<finalHeight, source, batchStart, batch, pending, loopVars, feedVars>>

\* What KeepInSync does with the outcome: it counts the errors since the last progress,
\* gives up after too many, and otherwise sleeps and calls CatchUp again.
Errors == IF failed /\ nextFetch = previous THEN errorCount + 1 ELSE errorCount
AfterCatchUp ==
    /\ pc = "after"
    /\ IF MaxErrorCount < Errors
       THEN pc' = "quit" /\ errorCount' = Errors /\ UNCHANGED previous
       ELSE /\ pc' = "loop"
            /\ previous' = nextFetch
            /\ errorCount' = IF previous # nextFetch THEN 0 ELSE Errors
    /\ UNCHANGED <<catchUpVars, ctxDone, checked, nodeVars, feedVars>>

\* KeepInSync, CatchUp's loop and its select leave when the context is cancelled.
StopFetching ==
    /\ ctxDone
    /\ \/ pc = "loop" /\ pc' = "stopped" /\ UNCHANGED failed
       \/ pc \in {"next", "send"} /\ pc' = "after" /\ failed' = FALSE
    /\ UNCHANGED <<failedHeight, finalHeight, source, batchStart, batch, pending, loopVars,
                   nodeVars, feedVars>>

-----------------------------------------------------------------------------
(* The iterator.                                                           *)

AtNext == pc = "next" /\ ~ctxDone

\* Every block up to the final height was sent: CatchUp returns.
NothingLeft ==
    /\ AtNext
    /\ finalHeight < nextFetch
    /\ pc' = "after"
    /\ UNCHANGED <<catchUpVars, loopVars, nodeVars, feedVars>>

\* The block store has the block.
NextFromStore ==
    /\ AtNext /\ ~checked
    /\ nextFetch <= finalHeight
    /\ source = "store" /\ nextFetch <= StoreHeight
    /\ pending' = nextFetch
    /\ pc' = "send"
    /\ UNCHANGED <<failedHeight, finalHeight, source, batchStart, batch, failed, loopVars,
                   nodeVars, feedVars>>

\* The block store ends, or fails: the iterator goes on with the node from here.
SwitchToChain ==
    /\ AtNext /\ ~checked
    /\ nextFetch <= finalHeight
    /\ source = "store"
    /\ IF StoreHeight < nextFetch THEN UNCHANGED nodeVars ELSE Error
    /\ source' = "chain"
    /\ batchStart' = nextFetch
    /\ batch' = <<>>
    /\ UNCHANGED <<pc, failedHeight, finalHeight, pending, failed, loopVars, feedVars>>

\* The next batch: a full one, or what is left up to the final height.
BatchLength ==
    LET remaining == finalHeight - batchStart + 1
    IN  IF remaining < BatchSize THEN remaining ELSE BatchSize
NextBatch == batchStart..(batchStart + BatchLength - 1)

ReadsChain == AtNext /\ (source = "chain" \/ checked) /\ nextFetch <= finalHeight

\* nextBatch gets every block of the batch with its results.
FetchBatch ==
    /\ ReadsChain
    /\ batch = <<>> /\ batchStart <= finalHeight
    /\ \A h \in NextBatch : h <= ready
    /\ batch' = [i \in 1..BatchLength |-> batchStart + i - 1]
    /\ batchStart' = batchStart + BatchLength
    /\ UNCHANGED <<pc, failedHeight, finalHeight, source, pending, failed, loopVars, nodeVars,
                   feedVars>>

\* CatchUp returns an error, and remembers how far it wanted to go.
GiveUp ==
    /\ failedHeight' = finalHeight
    /\ failed' = TRUE
    /\ pc' = "after"
    /\ UNCHANGED <<finalHeight, source, batchStart, batch, pending, loopVars, feedVars>>

\* A call fails, or the results of a block are not ready: the whole batch is lost.
FetchFails ==
    /\ ReadsChain
    /\ batch = <<>> /\ batchStart <= finalHeight
    /\ \/ Error
       \/ /\ \E h \in NextBatch : ready < h
          /\ late < MaxLate
          /\ late' = late + 1
          /\ UNCHANGED <<chainHeight, ready, errors>>
    /\ GiveUp

\* In the checked mode an error of the block store is one of the iterator.
StoreFails ==
    /\ ReadsChain /\ checked
    /\ source = "store"
    /\ Error
    /\ GiveUp

\* The chain iterator returns the first block of its batch, at the height wanted.
NextFromChain ==
    /\ ReadsChain /\ ~checked
    /\ batch # <<>>
    /\ Head(batch) = nextFetch
    /\ pending' = Head(batch)
    /\ batch' = Tail(batch)
    /\ pc' = "send"
    /\ UNCHANGED <<failedHeight, finalHeight, source, batchStart, failed, loopVars, nodeVars,
                   feedVars>>

\* nextChecked compares the node's block with the stored one, while there is one.  (The comment on it
\* says it stops at a difference; the code stops where there is none.)
ComparisonFails == source = "store" /\ nextFetch <= StoreHeight /\ nextFetch \notin Differ
NextChecked ==
    /\ ReadsChain /\ checked
    /\ batch # <<>>
    /\ Head(batch) = nextFetch
    /\ IF ComparisonFails
       THEN UNCHANGED nodeVars /\ GiveUp
       ELSE /\ pending' = Head(batch)
            /\ batch' = Tail(batch)
            /\ source' = IF StoreHeight < nextFetch THEN "chain" ELSE source
            /\ pc' = "send"
            /\ UNCHANGED <<failedHeight, finalHeight, batchStart, failed, loopVars, nodeVars,
                           feedVars>>

\* CatchUp hands the block to the writer, if there is room in the channel.
Send ==
    /\ pc = "send"
    /\ Len(blocks) < ChannelSize
    /\ blocks' = Append(blocks, pending)
    /\ nextFetch' = pending + 1
    /\ pending' = 0
    /\ pc' = "next"
    /\ UNCHANGED <<failedHeight, finalHeight, source, batchStart, batch, failed, loopVars,
                   nodeVars, lastThorNode>>

-----------------------------------------------------------------------------
(* The node, the writer and the operator.                                  *)

\* The node reports a block more; the results of the one before are ready by then.
NodeAdvances ==
    /\ chainHeight < MaxHeight
    /\ chainHeight' = chainHeight + 1
    /\ ready' = chainHeight
    /\ late' = 0
    /\ UNCHANGED <<pc, catchUpVars, loopVars, errors, feedVars>>

\* The results of the latest block are ready too.
ResultsReady ==
    /\ ready < chainHeight
    /\ ready' = chainHeight
    /\ UNCHANGED <<pc, catchUpVars, loopVars, chainHeight, late, errors, feedVars>>

\* The block writer takes a block.
Receive == ReceiveBlock /\ UNCHANGED <<pc, catchUpVars, loopVars, nodeVars>>

\* The process is asked to stop.
Cancel ==
    /\ ~ctxDone
    /\ ctxDone' = TRUE
    /\ UNCHANGED <<pc, catchUpVars, previous, errorCount, checked, nodeVars, feedVars>>

Fetcher ==
    \/ RetryHeight \/ AskStatus \/ AfterCatchUp \/ StopFetching \/ NothingLeft
    \/ NextFromStore \/ SwitchToChain \/ FetchBatch \/ NextFromChain \/ NextChecked \/ Send

Node == NodeAdvances \/ ResultsReady

Next == Fetcher \/ StatusFails \/ FetchFails \/ StoreFails \/ Node \/ Receive \/ Cancel

Spec == Init /\ [][Next]_vars

\* The goroutines are scheduled, the node makes its results available, the writer reads.
Fairness == WF_vars(Fetcher \/ FetchFails) /\ WF_vars(Node) /\ WF_vars(Receive)
FairSpec == Spec /\ Fairness

-----------------------------------------------------------------------------
(* Properties.                                                             *)

\* Why it works: the block to send is the next one, and the node has reported it.
SyncInv ==
    /\ TypeOK
    /\ failedHeight <= lastThorNode /\ finalHeight <= lastThorNode /\ lastThorNode <= chainHeight
    /\ 1 <= lastThorNode
    /\ pc = "send" => pending = nextFetch /\ nextFetch <= finalHeight

\* The fetcher keeps the promise the writer relies on, through retries, late results and
\* the switch from the block store to the node (CatchUp, Iterator.Next).
ImplementsFeed == FeedSpec

\* Late results alone never make the fetcher give up: "it's important not to query
\* ThorNode status again and advance querying a bigger block" (sync.go:183), so a height
\* whose results come late is tried again before the batch is made longer.
LateResultsAreForgiven == ~checked => errorCount <= errors + MaxLate

\* Every block of the chain is eventually sent, unless the fetcher is stopped or quits.
EverythingIsFetched == <>(nextFetch = MaxHeight + 1 \/ ctxDone \/ pc = "quit")

=============================================================================
