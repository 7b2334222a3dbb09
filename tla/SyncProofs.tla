------------------------------ MODULE SyncProofs ------------------------------
(***************************************************************************)
(* The fetcher implements the feed the block writer is checked with, for   *)
(* chains, batches and channels of any size and any number of failures,    *)
(* and is never made to give up by results that are only late.             *)
(***************************************************************************)
EXTENDS Sync, TLAPS

\* What a new iterator starts with.
LEMMA Empty == <<>> \in Seq(Nat)
  OBVIOUS

LEMMA InitInv == ASSUME Init PROVE SyncInv
  <1>1. PICK h \in 1..(chainHeight + 1) : FeedInit(h)
    BY DEF Init
  <1>2. h \in Nat \ {0} /\ chainHeight \in 1..MaxHeight /\ lastThorNode = chainHeight
    BY BlockFeedAssumption DEF Init
  <1>3. FeedTypeOK
    BY <1>1, <1>2, BlockFeedAssumption DEF FeedInit, FeedTypeOK
  <1>4. TypeOK
    <2>1. failed \in BOOLEAN /\ ctxDone \in BOOLEAN /\ checked \in BOOLEAN
      BY DEF Init
    <2>2. late \in 0..MaxLate /\ errors \in 0..MaxErrors
      BY SyncAssumption DEF Init
    <2>3. ready \in 0..MaxHeight /\ failedHeight \in 0..MaxHeight /\ finalHeight \in 0..MaxHeight
      BY <1>2, BlockFeedAssumption DEF Init
    <2> QED
      BY <1>2, <1>3, <2>1, <2>2, <2>3, Empty DEF Init, TypeOK
  <1> QED
    BY <1>2, <1>4, BlockFeedAssumption DEF Init, SyncInv

\* What a step of the fetcher does, and what the writer sees of it.
LEMMA StepInv == ASSUME SyncInv, [Next]_vars PROVE SyncInv' /\ [FeedNext]_feedVars
  <1> USE BlockFeedAssumption, SyncAssumption DEF SyncInv, TypeOK, FeedTypeOK
  <1>1. CASE RetryHeight
    <2>1. pc' = "next" /\ failed' \in BOOLEAN /\ source' \in {"store", "chain"} /\ batch' \in Seq(Nat)
      BY <1>1, Empty DEF RetryHeight, NewIterator
    <2> QED
      BY <1>1, <2>1 DEF RetryHeight, HeightToRetry, NewIterator, loopVars, nodeVars, feedVars
  <1>2. CASE AskStatus
    <2>1. SyncInv'
      <3>1. pc' = "next" /\ failed' \in BOOLEAN /\ source' \in {"store", "chain"} /\ batch' \in Seq(Nat)
        BY <1>2, Empty DEF AskStatus, NewIterator
      <3> QED
        BY <1>2, <3>1 DEF AskStatus, FreshHeight, NewIterator, loopVars, nodeVars
    <2>2. lastThorNode' \in 1..MaxHeight /\ lastThorNode <= lastThorNode' /\ UNCHANGED <<nextFetch, blocks>>
      BY <1>2 DEF AskStatus
    <2>3. [FeedNext]_feedVars
      BY <2>2 DEF FeedNext, RefreshStatus, feedVars
    <2> QED
      BY <2>1, <2>3
  <1>3. CASE StatusFails
    BY <1>3 DEF StatusFails, Error, loopVars, feedVars
  <1>4. CASE AfterCatchUp
    BY <1>4 DEF AfterCatchUp, Errors, catchUpVars, nodeVars, feedVars
  <1>5. CASE StopFetching
    BY <1>5 DEF StopFetching, loopVars, nodeVars, feedVars
  <1>6. CASE NothingLeft
    BY <1>6 DEF NothingLeft, catchUpVars, loopVars, nodeVars, feedVars
  <1>7. CASE NextFromStore
    BY <1>7 DEF NextFromStore, loopVars, nodeVars, feedVars
  <1>8. CASE SwitchToChain
    BY <1>8 DEF SwitchToChain, AtNext, Error, loopVars, nodeVars, feedVars
  <1>9. CASE FetchBatch
    BY <1>9 DEF FetchBatch, ReadsChain, AtNext, BatchLength, loopVars, nodeVars, feedVars
  <1>10. CASE FetchFails
    BY <1>10, SMTT(60) DEF FetchFails, GiveUp, Error, loopVars, feedVars
  <1>11. CASE NextFromChain
    BY <1>11 DEF NextFromChain, ReadsChain, loopVars, nodeVars, feedVars
  <1>12. CASE NextChecked
    <2>1. CASE ComparisonFails
      BY <1>12, <2>1 DEF NextChecked, GiveUp, loopVars, nodeVars, feedVars
    <2>2. CASE ~ComparisonFails
      <3>1. source' \in {"store", "chain"} /\ pc' = "send" /\ pending' = nextFetch /\ nextFetch <= finalHeight
        BY <1>12, <2>2 DEF NextChecked, ReadsChain
      <3>2. batch' \in Seq(Nat)
        <4>1. batch # <<>> /\ batch' = Tail(batch)
          BY <1>12, <2>2 DEF NextChecked
        <4> QED
          BY <4>1
      <3>3. UNCHANGED <<failedHeight, finalHeight, batchStart, failed, loopVars, nodeVars, feedVars>>
        BY <1>12, <2>2 DEF NextChecked
      <3> QED
        BY <3>1, <3>2, <3>3 DEF loopVars, nodeVars, feedVars
    <2> QED
      BY <2>1, <2>2
  <1>13. CASE Send
    <2>1. pending = nextFetch /\ nextFetch \in Nat \ {0} /\ nextFetch <= lastThorNode
      BY <1>13 DEF Send
    <2>2. SendBlock
      BY <1>13, <2>1 DEF Send, SendBlock
    <2>3. FeedTypeOK'
      BY <2>1, <2>2 DEF SendBlock
    <2>4. pending' = 0 /\ pc' = "next"
      BY <1>13 DEF Send
    <2> QED
      BY <1>13, <2>2, <2>3, <2>4 DEF Send, FeedNext, SendBlock, loopVars, nodeVars
  <1>14. CASE Node
    <2>1. late' \in 0..MaxLate /\ chainHeight' \in 1..MaxHeight /\ ready' \in 0..MaxHeight
          /\ chainHeight <= chainHeight'
      BY <1>14 DEF Node, NodeAdvances, ResultsReady
    <2>2. UNCHANGED <<pc, catchUpVars, loopVars, errors, feedVars>>
      BY <1>14 DEF Node, NodeAdvances, ResultsReady
    <2> QED
      BY <2>1, <2>2 DEF catchUpVars, loopVars, feedVars
  <1>15. CASE Receive
    BY <1>15 DEF Receive, ReceiveBlock, FeedNext, catchUpVars, loopVars, nodeVars
  <1>16. CASE Cancel
    BY <1>16 DEF Cancel, catchUpVars, nodeVars, feedVars
  <1>17. CASE StoreFails
    BY <1>17 DEF StoreFails, ReadsChain, AtNext, GiveUp, Error, loopVars, feedVars
  <1>18. CASE UNCHANGED vars
    BY <1>18 DEF vars, catchUpVars, loopVars, nodeVars, feedVars
  <1> QED
    BY <1>1, <1>2, <1>3, <1>4, <1>5, <1>6, <1>7, <1>8, <1>9, <1>10, <1>11, <1>12, <1>13, <1>14,
       <1>15, <1>16, <1>17, <1>18 DEF Next, Fetcher

\* The block about to be sent is the next one, and the node has reported it (CatchUp,
\* Iterator.Next: sync.go:199-249, iterator.go:44-89).
THEOREM SyncInvHolds == Spec => []SyncInv
  BY InitInv, StepInv, PTL DEF Spec

\* What the writer sees of the fetcher is the feed (BlockFeed.tla): every block once, in
\* order, never beyond the node's height, on a bounded channel.
THEOREM FeedImplemented == Spec => ImplementsFeed
  <1>1. Init => \E h \in 1..(MaxHeight + 1) : FeedInit(h)
    BY BlockFeedAssumption DEF Init
  <1>2. SyncInv /\ [Next]_vars => [FeedNext]_feedVars
    BY StepInv
  <1> QED
    BY <1>1, <1>2, SyncInvHolds, PTL DEF Spec, ImplementsFeed, FeedSpec

-----------------------------------------------------------------------------
(* The errors KeepInSync counts.                                            *)

\* The errors KeepInSync has counted, or is about to count.
Counted == IF pc = "after" THEN Errors ELSE errorCount

\* The height this CatchUp goes to, or the next one will try again.
Goal == IF pc \in {"next", "send"} THEN finalHeight ELSE failedHeight

\* No failure will be added to those counted: there was progress since, or the end is near.
Settled == previous # nextFetch \/ ctxDone \/ pc \in {"stopped", "quit"}

\* A failure that is no error of a call was a late result; then the same height is tried
\* until it is reached, and once its results are ready no other one can be late.
LateInv ==
    /\ previous <= nextFetch
    /\ pc \in {"next", "send"} => ~failed
    /\ ~checked =>
          /\ Counted <= errors + MaxLate
          /\ Settled \/ Counted <= errors \/ nextFetch <= Goal
          /\ Settled \/ Counted <= errors + late \/ Goal <= ready

\* Each step keeps the count.
LEMMA LateStep ==
    ASSUME SyncInv, LateInv, [Next]_vars
    PROVE  LateInv'
  <1> USE SyncAssumption DEF SyncInv, TypeOK, FeedTypeOK, LateInv, Counted, Errors, Goal, Settled
  <1>1. CASE RetryHeight
    BY <1>1 DEF RetryHeight, HeightToRetry, NewIterator, loopVars, nodeVars, feedVars
  <1>2. CASE AskStatus
    BY <1>2 DEF AskStatus, HeightToRetry, NewIterator, loopVars, nodeVars
  <1>3. CASE StatusFails
    BY <1>3 DEF StatusFails, HeightToRetry, Error, loopVars, feedVars
  <1>4. CASE AfterCatchUp
    BY <1>4, SMTT(60) DEF AfterCatchUp, catchUpVars, nodeVars, feedVars
  <1>5. CASE StopFetching
    BY <1>5 DEF StopFetching, loopVars, nodeVars, feedVars
  <1>6. CASE NothingLeft
    BY <1>6 DEF NothingLeft, AtNext, catchUpVars, loopVars, nodeVars, feedVars
  <1>7. CASE NextFromStore
    BY <1>7 DEF NextFromStore, AtNext, loopVars, nodeVars, feedVars
  <1>8. CASE SwitchToChain
    BY <1>8 DEF SwitchToChain, AtNext, Error, loopVars, nodeVars, feedVars
  <1>9. CASE FetchBatch
    BY <1>9 DEF FetchBatch, ReadsChain, AtNext, loopVars, nodeVars, feedVars
  <1>10. CASE FetchFails
    <2>1. /\ pc = "next" /\ ~ctxDone /\ pc' = "after" /\ failed' /\ failedHeight' = finalHeight
          /\ nextFetch <= finalHeight
          /\ UNCHANGED <<previous, errorCount, ctxDone, checked, nextFetch, chainHeight, ready>>
      BY <1>10 DEF FetchFails, ReadsChain, AtNext, GiveUp, Error, loopVars, feedVars
    <2>2. CASE errors' = errors + 1 /\ late' = late
      BY <2>1, <2>2
    <2>3. CASE /\ \E h \in NextBatch : ready < h
               /\ late < MaxLate /\ late' = late + 1 /\ errors' = errors
      <3>1. ready < finalHeight
        <4>1. PICK h \in NextBatch : ready < h
          BY <2>3
        <4>2. h <= finalHeight
          BY <4>1 DEF NextBatch, BatchLength
        <4> QED
          BY <4>1, <4>2 DEF NextBatch, BatchLength
      <3>2. Counted' = IF nextFetch = previous THEN errorCount + 1 ELSE errorCount
        BY <2>1
      <3>3. ~checked => Counted' <= errors' + MaxLate
        BY <2>1, <2>3, <3>1, <3>2
      <3>4. ~checked => Settled' \/ Counted' <= errors' + late'
        BY <2>1, <2>3, <3>1, <3>2
      <3> QED
        BY <2>1, <3>3, <3>4
    <2> QED
      BY <1>10, <2>2, <2>3 DEF FetchFails, Error
  <1>11. CASE NextFromChain
    BY <1>11 DEF NextFromChain, ReadsChain, AtNext, loopVars, nodeVars, feedVars
  <1>12. CASE NextChecked \/ StoreFails
    BY <1>12 DEF NextChecked, StoreFails, ReadsChain, AtNext, GiveUp, loopVars, feedVars
  <1>13. CASE Send
    BY <1>13 DEF Send, loopVars, nodeVars
  <1>14. CASE Node
    BY <1>14, SMTT(60) DEF Node, NodeAdvances, ResultsReady, catchUpVars, loopVars, feedVars
  <1>15. CASE Receive
    BY <1>15 DEF Receive, ReceiveBlock, catchUpVars, loopVars, nodeVars
  <1>16. CASE Cancel
    BY <1>16 DEF Cancel, catchUpVars, nodeVars, feedVars
  <1>17. CASE UNCHANGED vars
    BY <1>17 DEF vars, catchUpVars, loopVars, nodeVars, feedVars
  <1> QED
    BY <1>1, <1>2, <1>3, <1>4, <1>5, <1>6, <1>7, <1>8, <1>9, <1>10, <1>11, <1>12, <1>13, <1>14,
       <1>15, <1>16, <1>17 DEF Next, Fetcher

\* Results that come late never make the fetcher give up by themselves: beyond the calls
\* that failed, only the late attempts of one height are counted (sync.go:172-249).
THEOREM LateResultsForgiven == Spec => []LateResultsAreForgiven
  <1>1. Init => LateInv
    <2> SUFFICES ASSUME Init PROVE LateInv
      OBVIOUS
    <2>1. PICK h \in 1..(chainHeight + 1) : FeedInit(h)
      BY DEF Init
    <2> QED
      BY <2>1, BlockFeedAssumption, SyncAssumption
         DEF Init, FeedInit, LateInv, Counted, Errors, Goal, Settled
  <1>2. SyncInv /\ LateInv => LateResultsAreForgiven
    BY SyncAssumption
       DEF LateInv, LateResultsAreForgiven, Counted, Errors, SyncInv, TypeOK
  <1> QED
    BY <1>1, <1>2, LateStep, SyncInvHolds, PTL DEF Spec

=============================================================================
