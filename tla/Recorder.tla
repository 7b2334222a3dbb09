-------------------------------- MODULE Recorder --------------------------------
(***************************************************************************)
(* The recorder over the life of a Midgard: record.LoadGenesis and         *)
(* timeseries.ProcessBlock feed it block after block, the rows become      *)
(* durable in batches or one by one, the depth recorder writes history     *)
(* from the differences to a snapshot it keeps in memory, and Setup        *)
(* rebuilds the memory from the database after a stop at any point.        *)
(*                                                                         *)
(* The writer around it (channels, signals, forks, answers of the          *)
(* database that are lost) is the subject of module Ingest; here a block   *)
(* is one step, and what counts is what is in it.                          *)
(***************************************************************************)
EXTENDS Mux, FiniteSets

CONSTANTS
    Chains,             \* the chains a Midgard may meet: id, genesis file, blocks with their events
    UsdPools,           \* config UsdPools, in their order
    MaxStops            \* bound of the model: stops of the process

\* The time of block h of a chain, once it is corrected.
CorrectedTime(c, h) == applyBlockCorrections(c.id, c.blocks[h]).time

\* The height and the time grow from block to block, as consensus has it and table block_log, which
\* has them as keys, needs it (ddl.sql:36); the first block follows the genesis file.
ASSUME RecorderAssumption ==
    /\ Len(Chains) > 0 /\ MaxStops \in Nat
    /\ \A i \in DOMAIN Chains :
          LET c == Chains[i]
          IN  /\ Len(c.blocks) \in Nat \ {0} /\ DOMAIN c.blocks = 1..Len(c.blocks)
              /\ \A h \in DOMAIN c.blocks : c.blocks[h].height = h /\ CorrectedTime(c, h) \in Int
              /\ \A h, k \in DOMAIN c.blocks : h < k => CorrectedTime(c, h) < CorrectedTime(c, k)
              /\ c.genesis # <<>> =>
                    /\ c.genesis[1].height = 1
                    /\ c.genesis[1].time \in Int /\ c.genesis[1].time <= CorrectedTime(c, 1)

\* Blocks and files are decoded from texts: what they have of events, transactions, messages and
\* entries are lists, and the amounts of an event are those among its attributes.
IsList(s) == Len(s) \in Nat /\ DOMAIN s = 1..Len(s)
IsEvent(e) ==
    /\ {"type", "attrs", "bad", "empty", "refused"} \subseteq DOMAIN e
    /\ e.type \in {"rewards", "slash"} =>
          "amounts" \in DOMAIN e.attrs \ e.empty /\ IsFiniteSet(DOMAIN e.attrs.amounts)
HasEvents(s) == IsList(s) /\ \A i \in DOMAIN s : IsEvent(s[i])
IsBlock(b) ==
    /\ {"height", "time", "finalize", "txs"} \subseteq DOMAIN b
    /\ HasEvents(b.finalize) /\ IsList(b.txs)
    /\ \A i \in DOMAIN b.txs : HasEvents(b.txs[i].events) /\ IsList(b.txs[i].msgs)
IsGenesis(g) ==
    /\ g.height \in Nat
    /\ IsList(g.pools) /\ IsList(g.supplies) /\ IsList(g.balances) /\ IsList(g.lps)
    /\ IsList(g.names) /\ IsList(g.nodes) /\ IsList(g.loans) /\ IsList(g.mimirs)
ASSUME EventsAssumption ==
    \A i \in DOMAIN Chains :
       /\ \A h \in DOMAIN Chains[i].blocks : IsBlock(Chains[i].blocks[h])
       /\ Chains[i].genesis # <<>> => IsGenesis(Chains[i].genesis[1])

\* What the digits of an event id have room for (eventid.go:28): a billion events before and after
\* the transactions, 800,000 transactions and 10,000 events in each.
ASSUME RoomAssumption ==
    \A i \in DOMAIN Chains :
       /\ \A h \in DOMAIN Chains[i].blocks :
             LET b == Chains[i].blocks[h]
             IN  /\ Len(b.finalize) + 1 < TypeDigit
                 /\ (Len(b.txs) + 1) * TxIndexScale <= 8 * TypeDigit
                 /\ \A k \in DOMAIN b.txs : Len(b.txs[k].events) < TxIndexScale
       /\ Chains[i].genesis # <<>> => Len(Chains[i].genesis[1].pools) + 1 < TypeDigit

VARIABLES
    chain,              \* the chain there is, one of Chains
    \* The database.
    blockLog,           \* block_log: height, time and agg_state of each block
    rows,               \* the rows of all event tables, in the order they were inserted
    history,            \* block_pool_depths
    prices,             \* rune_price
    genesisConstant,    \* row 'genesis' of table constants is there
    inserterFail,       \* row batch_inserter_failed of table constants is there
    \* The memory of the process.
    pc,
    recorder,           \* record.Recorder: running totals and chain info
    snapshot,           \* depthRecorder: the depths at its last update
    pending,            \* what the batch inserter holds
    next,               \* the height of the next block
    \* Ghosts.
    modes,              \* how each of the blocks recorded was inserted
    genesisKept,        \* no restart lost the totals of the genesis file
    stops

dbVars == <<blockLog, rows, history, prices, genesisConstant, inserterFail>>
memVars == <<recorder, snapshot, pending, next>>
Immediate == recorder.immediate
vars == <<chain, dbVars, pc, memVars, modes, genesisKept, stops>>

Blocks == chain.blocks
HasGenesis == chain.genesis # <<>>
Genesis == chain.genesis[1]

-----------------------------------------------------------------------------
(* The depth recorder (internal/timeseries/depthrecorder.go).              *)

NoSnapshot == [asset |-> <<>>, rune |-> <<>>, synth |-> <<>>]
Depths(r) == [asset |-> r.asset, rune |-> r.rune, synth |-> r.synth]

\* diffAtKey: the pool is new, gone, or has another depth.
Differs(old, new, pool) ==
    \/ pool \in DOMAIN new /\ (pool \notin DOMAIN old \/ old[pool] # new[pool])
    \/ pool \notin DOMAIN new /\ pool \in DOMAIN old

PoolNames(d) == DOMAIN d.asset \cup DOMAIN d.rune \cup DOMAIN d.synth

\* Wrong_HistoryRows: only the depths of the asset are compared.
Wrong_HistoryRows(old, r, time) ==
    LET new == Depths(r)
        changed == {p \in PoolNames(old) \cup PoolNames(new) : Differs(old.asset, new.asset, p)}
    IN  {[pool |-> p, time |-> time, asset |-> DepthIn(new.asset, p),
          rune |-> DepthIn(new.rune, p), synth |-> DepthIn(new.synth, p)] : p \in changed}
\* All three depths are written if one of them changed.
HistoryRows(old, r, time) ==
    LET new == Depths(r)
        changed == {p \in PoolNames(old) \cup PoolNames(new) :
                       \/ Differs(old.asset, new.asset, p)
                       \/ Differs(old.rune, new.rune, p)
                       \/ Differs(old.synth, new.synth, p)}
    IN  {[pool |-> p, time |-> time, asset |-> DepthIn(new.asset, p),
          rune |-> DepthIn(new.rune, p), synth |-> DepthIn(new.synth, p)] : p \in changed}

Mimir(r, kind, pool, what) == CurrentMimirStatus(r, <<kind, pool.chain, what>>)

isTORAnchor(r, id, pool, height) ==
    /\ pool.sep # "/"
    /\ ChainOf(pool) # "THOR"
    /\ IF height > HeightOf["torAnchors"] /\ id = ChainIDMainnet202104
       THEN Mimir(r, "TORANCHOR", pool, pool.symbol) = 1
       ELSE pool \in {UsdPools[i] : i \in DOMAIN UsdPools}
    /\ CurrentPoolStatus(r, pool) = "available"
    /\ Mimir(r, "HALT", pool, "CHAIN") # 1 /\ Mimir(r, "HALT", pool, "TRADING") # 1
    /\ Mimir(r, "10-", pool, "") # 1 /\ Mimir(r, "11-", pool, "") # 1

\* The pools the price is the median of.  Without an anchor it is meant to come from the deepest
\* pool, but the comparison starts at -1 and is the wrong way round: it is 0, or the ratio of a
\* pool whose depth fell below.
Anchors(r, id, height) ==
    {p \in DOMAIN r.asset \cup DOMAIN r.rune \cup DOMAIN r.synth : isTORAnchor(r, id, p, height)}
DeepestPool(r) ==
    FoldLeft(LAMBDA acc, p : IF acc.max > DepthIn(r.asset, p)
                             THEN [max |-> DepthIn(r.asset, p), pools |-> {p}] ELSE acc,
             [max |-> -1, pools |-> {}], UsdPools).pools
PriceRow(r, id, height, time) ==
    LET anchors == Anchors(r, id, height)
        priced == IF anchors # {} THEN anchors ELSE DeepestPool(r)
    IN  [time |-> time, ratios |-> {<<p, DepthIn(r.asset, p), DepthIn(r.rune, p)>> : p \in priced}]

-----------------------------------------------------------------------------
(* The genesis file (internal/fetch/record/genesisrecord.go).              *)

\* Each entry is recorded and moves the metadata on: s is [r, m].
Bump(s) == [s EXCEPT !.m.id.index = @ + 1]
Insert(s, table, data) == [s EXCEPT !.r = InsertWithMeta(@, table, s.m, data)]

GenPool(s, e) ==
    LET stored == Insert(Insert(s, "pool_balance_change_events", <<e.asset, e.rune, TRUE, e.amount, TRUE>>),
                         "pool_events", <<e.asset, e.status>>)
        r == SetPoolStatus(stored.r, e.asset, e.status)
    IN  Bump([stored EXCEPT !.r = AddPoolRuneE8Depth(AddPoolAssetE8Depth(r, e.asset, e.amount), e.asset, e.rune)])
recordGenPools(s0, pools) == FoldLeft(LAMBDA s, e : GenPool(s, e), s0, pools)
GenSupply(s, e) == [s EXCEPT !.r = AddPoolSynthE8Depth(@, ConvertSynthPoolToNative(e.asset), e.e8)]
recordGenSupplies(s0, supplies) == FoldLeft(LAMBDA s, e : GenSupply(s, e), s0, supplies)
GenTransfer(s) == Bump(Insert(s, "transfer_events", <<>>))
GenTransfers(s0, balances) == FoldLeft(LAMBDA s, e : GenTransfer(s), s0, balances)
recordGenTransfers(s0, balances) == IF OnTransferEnabled THEN GenTransfers(s0, balances) ELSE s0
GenLP(s, e) ==
    LET pended == IF e.pending THEN Insert(s, "pending_liquidity_events", <<>>) ELSE s
        inRune == AssetInRune(e.amount, DepthIn(s.r.asset, e.pool), DepthIn(s.r.rune, e.pool))
    IN  Bump(IF e.units > 0 THEN Insert(pended, "stake_events", <<e.pool, e.amount, e.rune, inRune>>) ELSE pended)
recordGenLPs(s0, lps) == FoldLeft(LAMBDA s, e : GenLP(s, e), s0, lps)
GenTHORName(s) == Bump(Insert(s, "thorname_change_events", <<>>))
recordGenTHORNames(s0, names) == FoldLeft(LAMBDA s, e : GenTHORName(s), s0, names)
GenNode(s) == Bump(Insert(Insert(s, "update_node_account_status_events", <<>>), "bond_events", <<>>))
recordGenNodes(s0, nodes) == FoldLeft(LAMBDA s, e : GenNode(s), s0, nodes)
\* The metadata is changed for good: the ids after a loan are those of the height it was opened at.
GenLoan(s, e) ==
    LET at == [s EXCEPT !.m.height = e.height, !.m.id = EventId(e.height, "BeginBlockEvents", 0, 0)]
        opened == Insert(at, "loan_open_events", <<>>)
    IN  Bump(IF e.repaid THEN Insert(opened, "loan_repayment_events", <<>>) ELSE opened)
recordGenLoans(s0, loans) == FoldLeft(LAMBDA s, e : GenLoan(s, e), s0, loans)
GenMimir(s, e) ==
    LET stored == Insert(s, "set_mimir_events", <<e.key, [isInt |-> TRUE, int |-> e.value]>>)
    IN  Bump([stored EXCEPT !.r = SetMimirStatus(@, e.key, e.value)])
recordGenMimirs(s0, mimirs) == FoldLeft(LAMBDA s, e : GenMimir(s, e), s0, mimirs)

\* LoadGenesis records the file at its own time, before the first block's.
RecordGenesis(r, genesis) ==
    LET h == genesis.height - 1
        begun == [r |-> r, m |-> Metadata(h, genesis.time, EventId(h, "BeginBlockEvents", 0, 1))]
        pools == recordGenSupplies(recordGenPools(begun, genesis.pools), genesis.supplies)
        members == recordGenLPs(recordGenTransfers(pools, genesis.balances), genesis.lps)
        nodes == recordGenNodes(recordGenTHORNames(members, genesis.names), genesis.nodes)
    IN  recordGenMimirs(recordGenLoans(nodes, genesis.loans), genesis.mimirs).r

-----------------------------------------------------------------------------
(* Starting and stopping.                                                  *)

NoPending == [rows |-> <<>>, blockLog |-> <<>>, history |-> {}, prices |-> <<>>]
NoState == <<>>

Down ==
    /\ pc' = "down"
    /\ recorder' = NewRecorder
    /\ snapshot' = NoSnapshot
    /\ pending' = NoPending
    /\ next' = 0

Init ==
    /\ \E i \in DOMAIN Chains : chain = Chains[i]
    /\ blockLog = <<>> /\ rows = <<>> /\ history = {} /\ prices = <<>>
    /\ genesisConstant = FALSE /\ inserterFail = FALSE
    /\ pc = "down"
    /\ recorder = NewRecorder /\ snapshot = NoSnapshot /\ pending = NoPending
    /\ next = 0
    /\ modes = <<>> /\ genesisKept = TRUE /\ stops = 0

LastRow == blockLog[Len(blockLog)]

\* The rows of a table, by their place.
TableRows(table) == {i \in DOMAIN rows : rows[i].table = table}

\* GetPoolsStatuses: last(status, event_id) of the rows up to a time, none if there is no block.
\* Wrong_StoredStatuses: the first status of a pool is the one that is read.
Wrong_StoredStatuses ==
    LET known == {i \in TableRows("pool_events") : blockLog # <<>> /\ rows[i].time <= LastRow.time}
        Of(p) == {i \in known : rows[i].data[1] = p}
        FirstOne(p) == CHOOSE i \in Of(p) : \A j \in Of(p) : rows[j].id >= rows[i].id
    IN  [p \in {rows[i].data[1] : i \in known} |-> rows[FirstOne(p)].data[2]]
StoredStatuses ==
    LET known == {i \in TableRows("pool_events") : blockLog # <<>> /\ rows[i].time <= LastRow.time}
        Of(p) == {i \in known : rows[i].data[1] = p}
        LastOne(p) == CHOOSE i \in Of(p) : \A j \in Of(p) : rows[j].id <= rows[i].id
    IN  [p \in {rows[i].data[1] : i \in known} |-> rows[LastOne(p)].data[2]]

\* GetAllLastConstantValue: LAST(value, block_timestamp), any of those that share the last time.
MimirKeys == {rows[i].data[1] : i \in TableRows("set_mimir_events")}
LastMimirs(key) ==
    LET own == {i \in TableRows("set_mimir_events") : rows[i].data[1] = key}
    IN  {i \in own : \A j \in own : rows[j].time <= rows[i].time}

\* What Setup gives the recorder, with the rows it took the mimirs from.
\* Wrong_Restored: the synths are forgotten.
Wrong_Restored(mimirRows) ==
    LET info == [NewRecorder EXCEPT !.status = StoredStatuses,
                                    !.mimir = [k \in MimirKeys |-> rows[mimirRows[k]].data[2].int]]
    IN  IF blockLog = <<>> THEN info
        ELSE [info EXCEPT !.asset = LastRow.state[1].asset, !.rune = LastRow.state[1].rune]
Restored(mimirRows) ==
    LET info == [NewRecorder EXCEPT !.status = StoredStatuses,
                                    !.mimir = [k \in MimirKeys |-> rows[mimirRows[k]].data[2].int]]
    IN  IF blockLog = <<>> THEN info
        ELSE [info EXCEPT !.asset = LastRow.state[1].asset, !.rune = LastRow.state[1].rune,
                          !.synth = LastRow.state[1].synth]

\* setupDB picks the inserter; Setup restores the recorder.  The snapshot of the depth recorder starts empty.
Setup ==
    /\ pc = "down"
    /\ \E mimirRows \in [MimirKeys -> UNION {LastMimirs(k) : k \in MimirKeys}] :
          /\ \A k \in MimirKeys : mimirRows[k] \in LastMimirs(k)
          /\ \A k \in MimirKeys : rows[mimirRows[k]].data[2].isInt
          /\ recorder' = [Restored(mimirRows) EXCEPT !.immediate = inserterFail]
    /\ pc' = "genesis"
    /\ next' = Len(blockLog) + 1
    /\ genesisKept' = (genesisKept /\ ~(genesisConstant /\ blockLog = <<>>))
    /\ UNCHANGED <<chain, dbVars, snapshot, pending, modes, stops>>

\* Setup refuses to start while the last value of a mimir is not a number, and main is fatal.
SetupRefuses ==
    /\ pc = "down"
    /\ \E k \in MimirKeys : \E i \in LastMimirs(k) : ~rows[i].data[2].isInt
    /\ UNCHANGED vars

\* LoadGenesis: the rows and the constant are there before it returns (a stop in between is
\* modelled in Ingest), the totals only in memory.
LoadGenesis ==
    /\ pc = "genesis"
    /\ pc' = "running"
    /\ IF HasGenesis /\ ~genesisConstant /\ Len(blockLog) <= Genesis.height
       THEN /\ genesisConstant' = TRUE
            /\ \E r \in {RecordGenesis(recorder, Genesis)} :
                  recorder' = [r EXCEPT !.rows = <<>>] /\ rows' = rows \o r.rows
       ELSE UNCHANGED <<recorder, rows, genesisConstant>>
    /\ UNCHANGED <<chain, blockLog, history, prices, inserterFail, snapshot, pending, next,
                   modes, genesisKept, stops>>

Crash ==
    /\ pc # "down"
    /\ stops < MaxStops
    /\ stops' = stops + 1
    /\ Down
    /\ modes' = SubSeq(modes, 1, Len(blockLog))
    /\ UNCHANGED <<chain, dbVars, genesisKept>>

-----------------------------------------------------------------------------
(* timeseries.ProcessBlock.                                                *)

\* Whether the block is flushed: the writer asks for it, always for the last block there is, or
\* it is the first one.
Commits(commit) == commit \/ Immediate \/ next = 1 \/ next = Len(Blocks)

\* What the database holds after a flush.
\* Wrong_Flushed: of the batch's blocks only the last one is in block_log.
Wrong_Flushed(p) ==
    /\ rows' = rows \o p.rows
    /\ blockLog' = Append(blockLog, p.blockLog[Len(p.blockLog)])
    /\ history' = history \cup p.history
    /\ prices' = prices \o p.prices
Flushed(p) ==
    /\ rows' = rows \o p.rows
    /\ blockLog' = blockLog \o p.blockLog
    /\ history' = history \cup p.history
    /\ prices' = prices \o p.prices

\* One block, through events, block_log, depths and price to the flush.
ProcessBlock(commit) ==
    /\ pc = "running"
    /\ next <= Len(Blocks)
    /\ Immediate => commit
    /\ \E r \in {RecordBlock(recorder, chain.id, Blocks[next])} :
          LET time == CorrectedTime(chain, next)
              state == IF Commits(commit) THEN <<Depths(r)>> ELSE NoState
              p == [rows |-> pending.rows \o r.rows,
                    blockLog |-> Append(pending.blockLog, [height |-> next, time |-> time, state |-> state]),
                    history |-> pending.history \cup HistoryRows(snapshot, r, time),
                    prices |-> Append(pending.prices, PriceRow(r, chain.id, next, time))]
          IN  /\ ~(Commits(commit) /\ r.poisoned /\ ~Immediate)
              /\ recorder' = [r EXCEPT !.rows = <<>>]
              /\ snapshot' = Depths(r)
              /\ next' = next + 1
              /\ modes' = Append(modes, Immediate)
              /\ IF Commits(commit) THEN Flushed(p) /\ pending' = NoPending
                 ELSE pending' = p /\ UNCHANGED <<rows, blockLog, history, prices>>
    /\ UNCHANGED <<chain, genesisConstant, inserterFail, pc, genesisKept, stops>>

\* A batch with a row the database refuses fails as a whole: that is marked and the process ends.
\* Wrong_FlushFails: nothing is marked.
Wrong_FlushFails(commit) ==
    /\ pc = "running"
    /\ next <= Len(Blocks)
    /\ ~Immediate /\ Commits(commit)
    /\ RecordBlock(recorder, chain.id, Blocks[next]).poisoned
    /\ Down
    /\ modes' = SubSeq(modes, 1, Len(blockLog))
    /\ UNCHANGED <<chain, dbVars, genesisKept, stops>>
FlushFails(commit) ==
    /\ pc = "running"
    /\ next <= Len(Blocks)
    /\ ~Immediate /\ Commits(commit)
    /\ RecordBlock(recorder, chain.id, Blocks[next]).poisoned
    /\ inserterFail' = TRUE
    /\ Down
    /\ modes' = SubSeq(modes, 1, Len(blockLog))
    /\ UNCHANGED <<chain, blockLog, rows, history, prices, genesisConstant, genesisKept, stops>>

\* All blocks the node has are recorded.
Idle == pc = "running" /\ next > Len(Blocks) /\ UNCHANGED vars

Record1 == \E commit \in BOOLEAN : ProcessBlock(commit) \/ FlushFails(commit)
Next == Setup \/ SetupRefuses \/ LoadGenesis \/ Record1 \/ Crash \/ Idle

Spec == Init /\ [][Next]_vars
\* main() starts everything it can; the writer takes every block.  The three steps are told by what
\* they change: Setup, LoadGenesis and Record1 are the only ones that change it so.
Fairness ==
    /\ WF_pc(/\ pc = "down" /\ pc' = "genesis"
             /\ \A k \in MimirKeys : \A i \in LastMimirs(k) : rows[i].data[2].isInt)
    /\ WF_pc(pc = "genesis" /\ pc' = "running")
    /\ WF_next(/\ pc = "running" /\ next <= Len(Blocks)
               /\ next' = next + 1 \/ (next' = 0 /\ stops' = stops))
FairSpec == Spec /\ Fairness

-----------------------------------------------------------------------------
(* Properties.                                                             *)

TypeOK ==
    /\ Len(Blocks) > 0
    /\ pc \in {"down", "genesis", "running"}
    /\ genesisConstant \in BOOLEAN /\ inserterFail \in BOOLEAN /\ genesisKept \in BOOLEAN
    /\ Len(blockLog) + Len(pending.blockLog) <= Len(Blocks)
    /\ next \in 0..(Len(Blocks) + 1)
    /\ Len(modes) = Len(blockLog) + Len(pending.blockLog)
    /\ stops \in 0..MaxStops

\* A Midgard that recorded the first n blocks in one go, each with the inserter that was used.
Again(acc, c, how, h) ==
    IF acc.immediate = how[h] THEN RecordBlock(acc, c.id, c.blocks[h])
    ELSE RecordBlock([acc EXCEPT !.immediate = how[h]], c.id, c.blocks[h])
Heights(n) == [h \in 1..n |-> h]
Recorded(base, c, how, n) == FoldLeft(LAMBDA acc, h : Again(acc, c, how, h), base, Heights(n))
FirstTotals == IF genesisConstant /\ genesisKept THEN RecordGenesis(NewRecorder, Genesis) ELSE NewRecorder
Replay(n) == Recorded(FirstTotals, chain, modes, n)

\* Whatever stopped the process and whatever was lost with it, the depths it goes on from are
\* those of the blocks before the next: nothing is counted twice and nothing is left out.
DepthsSurviveRestarts == pc = "running" => Depths(recorder) = Depths(Replay(next - 1))

\* The events of a block, list by list: those outside of transactions, and those of each of these.
EventLists(b) == [k \in 0..Len(b.txs) |-> IF k = 0 THEN b.finalize ELSE b.txs[k].events]

\* So is the chain info, which is restored from the events and not from the state: if no row of
\* it was refused and no mimir was set twice at one time, that of a block or of the genesis file,
\* which may be that of the first block.
MimirKey(e) == LoadSetMimir(Filtered(e)).key
ChainInfoIsStored ==
    /\ \A h \in DOMAIN Blocks :
          LET all == EventLists(Blocks[h])
              Info(s) == {i \in DOMAIN s : s[i].type \in {"pool", "set_mimir"}}
          IN  /\ \A k \in DOMAIN all : \A i \in Info(all[k]) : all[k][i].refused = {}
              /\ \A k, l \in DOMAIN all : \A i \in Info(all[k]) : \A j \in Info(all[l]) :
                    all[k][i].type = "set_mimir" /\ all[l][j].type = "set_mimir"
                       => <<k, i>> = <<l, j>> \/ MimirKey(all[k][i]) # MimirKey(all[l][j])
    /\ HasGenesis =>
          /\ \A i, j \in DOMAIN Genesis.mimirs : i = j \/ Genesis.mimirs[i].key # Genesis.mimirs[j].key
          /\ Genesis.time = CorrectedTime(chain, 1) =>
                LET all == EventLists(Blocks[1])
                IN  \A k \in DOMAIN all : \A i \in DOMAIN all[k] : \A j \in DOMAIN Genesis.mimirs :
                       all[k][i].type = "set_mimir" => MimirKey(all[k][i]) # Genesis.mimirs[j].key
    /\ genesisKept
ChainInfoSurvivesRestarts ==
    pc = "running" /\ ChainInfoIsStored
        => \E r \in {Replay(next - 1)} : recorder.status = r.status /\ recorder.mimir = r.mimir

\* The depths of a pool at a time, as every query of history reads them: the last row up to it.
HistoryAt(pool, time) ==
    LET known == {row \in history : row.pool = pool /\ row.time <= time}
    IN  {row \in known : \A other \in known : other.time <= row.time}
\* History has the depths of every block there is a state of, through restarts and lost batches.
HistoryIsExact ==
    \A i \in DOMAIN blockLog : blockLog[i].state # NoState =>
        LET d == blockLog[i].state[1]
        IN  \A p \in PoolNames(d) :
               {<<row.asset, row.rune, row.synth>> : row \in HistoryAt(p, blockLog[i].time)}
                   = {<<DepthIn(d.asset, p), DepthIn(d.rune, p), DepthIn(d.synth, p)>>}

\* Event ids sort the rows as the chain has their events, one id is one event, and it can be read
\* back from the id which block it belongs to.  Corrections share the id after the block's last.
LeftOver(h) == AsBigint(EventId(h, "EndBlockEvents", 0,
                   1 + Cardinality({i \in DOMAIN Blocks[h].finalize : Blocks[h].finalize[i].mode = "EndBlock"})))
SharedTables == {"rewards_event_entries", "slash_events", "send_messages", "failed_deposit_messages"}
\* The rows of the genesis file come first; its loans have ids of their own heights.
GenesisRows == IF genesisConstant THEN RecordGenesis(NewRecorder, Genesis).rows ELSE <<>>
EventIdsFollowTheChain ==
    \E first \in {Len(GenesisRows) + 1} : \A i \in first..Len(rows) :
        LET h == HeightFromEventId(rows[i].id)
        IN  /\ h \in DOMAIN blockLog /\ blockLog[h].time = rows[i].time
            /\ AsBigint(ParseEventId(rows[i].id)) = rows[i].id
            /\ \A j \in first..(i - 1) :
                  /\ rows[j].id <= rows[i].id
                  /\ \/ rows[j].id < rows[i].id
                     \/ rows[j].table # rows[i].table
                     \/ rows[i].table \in SharedTables
                     \/ rows[i].id = LeftOver(h)

\* What a row of a table says a pool gained, by the meaning of the table.
Gain(row, p) ==
    LET d == row.data
        Of(q, asset, rune) == IF q = p THEN [asset |-> asset, rune |-> rune] ELSE [asset |-> 0, rune |-> 0]
        AtEnd(sign) == IF ParseEventId(row.id).location = "EndBlockEvents"
                       THEN Of(GetNativeAsset(d[1]), sign * d[2], 0) ELSE Of(p, 0, 0)
    IN  CASE row.table \in {"add_events", "errata_events", "stake_events"} -> Of(d[1], d[2], d[3])
          [] row.table = "gas_events" -> Of(d[1], -d[2], d[3])
          [] row.table = "rewards_event_entries" -> Of(d[1], 0, d[2])
          [] row.table = "swap_events" ->
                 IF IsSwitch(d[2].asset) THEN Of(d[1], IF d[3].asset = d[1] THEN -d[3].e8 ELSE 0, d[2].e8)
                 ELSE Of(d[1], IF d[2].asset = d[1] THEN d[2].e8 ELSE 0, -d[3].e8)
          [] row.table = "fee_events" ->
                 IF IsSwitch(d[1].asset) THEN Of(p, 0, 0)
                 ELSE Of(GetNativeAsset(d[1].asset), IF d[1].asset.sep = "." THEN d[1].e8 ELSE 0, -d[2])
          [] row.table = "slash_events" ->
                 IF IsSwitch(d[2]) THEN Of(d[1], 0, d[3]) ELSE IF d[2].sep = "." THEN Of(d[1], d[3], 0) ELSE Of(p, 0, 0)
          [] row.table = "withdraw_events" -> Of(d[1], -d[3], d[6] - d[4])
          [] row.table = "pool_balance_change_events" -> Of(d[1], Signed(d[4], d[5]), Signed(d[2], d[3]))
          [] row.table \in {"trade_account_deposit_events", "secure_asset_deposit_events"} -> AtEnd(-1)
          [] row.table \in {"trade_account_withdraw_events", "secure_asset_withdraw_events"} -> AtEnd(1)
          [] OTHER -> Of(p, 0, 0)

Ledger(s, p) ==
    FoldLeft(LAMBDA acc, row :
                 IF row.table = "pool_events" /\ row.data = <<p, "suspended">> THEN [asset |-> 0, rune |-> 0]
                 ELSE [asset |-> acc.asset + Gain(row, p).asset, rune |-> acc.rune + Gain(row, p).rune],
             [asset |-> 0, rune |-> 0], s)

\* The handlers that give an event up together with its first row.
CarefulTypes == {"donate", "errata", "gas", "rewards", "add_liquidity", "swap"}
RowsSayItAll ==
    /\ \A h \in DOMAIN Blocks :
          LET all == EventLists(Blocks[h])
          IN  \A k \in DOMAIN all : \A i \in DOMAIN all[k] :
                 LET e == all[k][i]
                 IN  e.refused = {} \/ (e.type \in CarefulTypes /\ 1 \in e.refused)
    /\ \A i \in TableRows("withdraw_events") : rows[i].data[2].e8 = 0
    /\ genesisKept
\* The depths are what the rows add up to, also if the database refuses rows: an event is in both
\* or in neither.
DepthsFollowTheRows ==
    blockLog # <<>> /\ RowsSayItAll /\ LastRow.state # NoState =>
        LET d == LastRow.state[1]
        IN  \A p \in {q \in PoolNames(d) : q.sep = "." /\ q # ThorTCY} :
               Ledger(rows, p) = [asset |-> DepthIn(d.asset, p), rune |-> DepthIn(d.rune, p)]

\* A row the database refuses costs a restart and a slow sync, and no block.
MimirsAreNumbers ==
    \A h \in DOMAIN Blocks : \A i \in DOMAIN Blocks[h].finalize :
        Blocks[h].finalize[i].type = "set_mimir" => Blocks[h].finalize[i].attrs.value.isInt
EverythingIsRecorded == MimirsAreNumbers => <>(Len(blockLog) = Len(Blocks))

=============================================================================
