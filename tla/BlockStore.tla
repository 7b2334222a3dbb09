-------------------------------- MODULE BlockStore --------------------------------
(***************************************************************************)
(* The block store (internal/fetch/sync/blockstore): a folder of chunks,   *)
(* each named by its last height, that Midgard reads blocks from and       *)
(* completes from a remote repository, and cmd/blockstore/dump fills.  A   *)
(* chunk becomes one by being renamed; what is not renamed yet is thrown   *)
(* away by the next process that opens the store.                          *)
(***************************************************************************)
EXTENDS Sorting, Sequences, FiniteSetsExt, SequencesExt, TLC

CONSTANTS
    BlocksPerChunk,     \* config BlocksPerChunk
    Remote              \* the repository: the chunks whose hashes are listed, name :> chunk, or
                        \* NotThere for a chunk that is listed and missing

\* A chunk has a block for each height in it.
NotThere == <<>>

\* A chunk is named by its last height, and begins where the listed one before it ends.
ASSUME BlockStoreAssumption ==
    /\ BlocksPerChunk \in Nat \ {0}
    /\ DOMAIN Remote \subseteq Nat \ {0}
    /\ \A name \in DOMAIN Remote : Remote[name] # NotThere =>
          \A h \in 1..name : (\A other \in DOMAIN Remote : other < name => other < h) => h \in DOMAIN Remote[name]
NoFile == <<>>

VARIABLES
    folder,         \* finalized chunks: name :> chunk
    temporary,      \* the chunk begun in the file "tmp", NoFile if there is none
    leftover,       \* a file with a name like 000000000123.tmp is there
    \* The memory of the process that has the store open.
    lastFetched,    \* BlockStore.lastFetchedHeight
    toFetch         \* listed chunks updateFromRemote has still to look at

storeVars == <<folder, temporary, leftover, lastFetched, toFetch>>

StoreInit ==
    /\ folder = <<>> /\ temporary = NoFile /\ leftover = FALSE
    /\ lastFetched = 0 /\ toFetch = {}

cleanUp == temporary' = NoFile /\ leftover' = FALSE

\* NewBlockStore begins: remains are removed and the hashes of the chain are read, if there are
\* any.  With a genesis file chunks that end before it are of no use.
OpenStore(isListed, genesisHeight) ==
    /\ cleanUp
    /\ toFetch' = {name \in DOMAIN Remote \ DOMAIN folder : isListed /\ name >= genesisHeight}
    /\ UNCHANGED <<folder, lastFetched>>

\* A chunk has got its name.
WithChunk(name, chunk) ==
    [k \in DOMAIN folder \cup {name} |-> IF k = name THEN chunk ELSE folder[k]]

\* updateFromRemote: the next chunk, in the order of their names.  A download is a temporary file
\* until its hash is right.
FetchChunk(name) ==
    /\ toFetch # {} /\ name = Min(toFetch)
    /\ Remote[name] # NotThere
    /\ folder' = WithChunk(name, Remote[name])
    /\ toFetch' = toFetch \ {name}
    /\ UNCHANGED <<temporary, leftover, lastFetched>>

\* A chunk that is not there, or does not have the hash, or a cancelled context ends the update.
\* Wrong_FetchFails: only that chunk is given up.
Wrong_FetchFails(name) ==
    /\ toFetch # {} /\ name = Min(toFetch)
    /\ toFetch' = toFetch \ {name}
    /\ temporary' = Remote[name]
    /\ UNCHANGED <<folder, leftover, lastFetched>>
FetchFails(name) ==
    /\ toFetch # {} /\ name = Min(toFetch)
    /\ toFetch' = {}
    /\ temporary' = Remote[name]
    /\ UNCHANGED <<folder, leftover, lastFetched>>

findLastFetchedHeight(genesisHeight) ==
    IF DOMAIN folder = {} THEN genesisHeight - (genesisHeight % BlocksPerChunk) ELSE Max(DOMAIN folder)

\* NewBlockStore ends.
StoreOpened(genesisHeight) ==
    /\ toFetch = {}
    /\ cleanUp
    /\ lastFetched' = findLastFetchedHeight(genesisHeight)
    /\ UNCHANGED <<folder, toFetch>>

HasHeight(h) == h <= lastFetched

\* The binary search over the names, and what the iterator finds there.
findChunkPathForHeight(h) ==
    LET chunks == Sorted(DOMAIN folder)
        Search[range \in (DOMAIN chunks) \X (DOMAIN chunks)] ==
            LET lo == range[1]
                hi == range[2]
                mid == lo + (hi - lo) \div 2
            IN  IF lo >= hi THEN chunks[lo]
                ELSE IF chunks[mid] < h THEN Search[<<mid + 1, hi>>] ELSE Search[<<lo, mid>>]
    IN  Search[<<1, Len(chunks)>>]
StoreHasBlock(h) ==
    DOMAIN folder # {} /\ h <= Max(DOMAIN folder) /\ h \in DOMAIN folder[findChunkPathForHeight(h)]
StoreBlock(h) == folder[findChunkPathForHeight(h)][h]

-----------------------------------------------------------------------------
(* Writing.                                                                *)

\* The height the dump is at: it goes on after the last chunk.  (DumpBlock moves the write cursor
\* only; what the store says it has is found out when it is opened.)
DumpHeight(genesisHeight) ==
    IF temporary = NoFile THEN findLastFetchedHeight(genesisHeight) + 1 ELSE Max(DOMAIN temporary) + 1

WithBlock(height, block) ==
    [h \in DOMAIN temporary \cup {height} |-> IF h = height THEN block ELSE temporary[h]]

\* DumpBlock: a chunk is finalized at each multiple of BlocksPerChunk and before a fork.
\* Wrong_DumpBlock: only before a fork.
Wrong_DumpBlock(height, block, forceFinalizeChunk) ==
    /\ IF forceFinalizeChunk
       THEN folder' = WithChunk(height, WithBlock(height, block)) /\ temporary' = NoFile
       ELSE temporary' = WithBlock(height, block) /\ UNCHANGED folder
    /\ UNCHANGED <<leftover, toFetch>>
DumpBlock(height, block, forceFinalizeChunk) ==
    /\ IF height % BlocksPerChunk = 0 \/ forceFinalizeChunk
       THEN folder' = WithChunk(height, WithBlock(height, block)) /\ temporary' = NoFile
       ELSE temporary' = WithBlock(height, block) /\ UNCHANGED folder
    /\ UNCHANGED <<leftover, toFetch>>

\* Close: what is begun is kept under a name of its own, for nobody.
CloseStore ==
    /\ leftover' = (leftover \/ temporary # NoFile)
    /\ temporary' = NoFile
    /\ lastFetched' = 0
    /\ UNCHANGED <<folder, toFetch>>

=============================================================================
