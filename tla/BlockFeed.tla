------------------------------ MODULE BlockFeed ------------------------------
(***************************************************************************)
(* What the block fetcher (internal/fetch/sync) promises the block writer  *)
(* (cmd/midgard/blockwriter.go): from the height it is started at, the     *)
(* blocks arrive on a bounded channel one after the other, none is skipped *)
(* or repeated, and none is above the last height the node reported.       *)
(*                                                                         *)
(* Module Sync is the fetcher in detail and implements this module;        *)
(* module Ingest is the writer at the other end of the channel.  A block   *)
(* is represented by its height.                                           *)
(***************************************************************************)
EXTENDS Naturals, Sequences

CONSTANTS
    MaxHeight,      \* bound of the model: the height at which the chain stops growing
    ChannelSize     \* capacity of the channel, Client.BatchSize() in the code

ASSUME BlockFeedAssumption ==
    /\ MaxHeight \in Nat \ {0}
    /\ ChannelSize \in Nat \ {0}

VARIABLES
    lastThorNode,   \* db.LastThorNodeBlock: highest block the node has reported
    nextFetch,      \* height of the next block to send, nextHeightToFetch
    blocks          \* the channel: heights sent and not received yet

feedVars == <<lastThorNode, nextFetch, blocks>>

FeedTypeOK ==
    /\ lastThorNode \in 0..MaxHeight
    /\ nextFetch \in Nat \ {0}
    /\ blocks \in Seq(Nat \ {0})

\* InitGlobalSync asks the node for its status before any job runs.
FeedInit(height) ==
    /\ lastThorNode \in 1..MaxHeight
    /\ nextFetch = height
    /\ blocks = <<>>

\* The node is asked again and reports a higher block.
RefreshStatus ==
    /\ \E h \in 1..MaxHeight :
          /\ lastThorNode < h
          /\ lastThorNode' = h
    /\ UNCHANGED <<nextFetch, blocks>>

\* The next block is fetched and there is room in the channel.
SendBlock ==
    /\ nextFetch <= lastThorNode
    /\ Len(blocks) < ChannelSize
    /\ blocks' = Append(blocks, nextFetch)
    /\ nextFetch' = nextFetch + 1
    /\ UNCHANGED lastThorNode

\* The writer takes a block off the channel.
ReceiveBlock ==
    /\ blocks # <<>>
    /\ blocks' = Tail(blocks)
    /\ UNCHANGED <<lastThorNode, nextFetch>>

FeedNext == RefreshStatus \/ SendBlock \/ ReceiveBlock

\* The promise itself, for a fetcher started at any height the writer is at.
FeedSpec == (\E h \in 1..(MaxHeight + 1) : FeedInit(h)) /\ [][FeedNext]_feedVars

=============================================================================
