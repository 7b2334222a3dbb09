--------------------------------- MODULE StartUp ---------------------------------
(***************************************************************************)
(* Midgard from the start of its process until its jobs run (cmd/midgard/  *)
(* main.go): the schema of the database is brought to the code's           *)
(* (internal/db: db.go, migrates.go), the chain the node is on and its     *)
(* root are found out, the block store is opened, and the database is      *)
(* compared with the chain (globalblocks.go).  Whatever does not fit ends  *)
(* the process (log.Fatal), and it is started again.                       *)
(*                                                                         *)
(* An operator goes through a scenario of setups: what is configured, the  *)
(* binary, the node.  While Midgard runs it is only a writer of blocks     *)
(* here; module Ingest is about the writer.                                *)
(***************************************************************************)
EXTENDS ChainAncestry, BlockStore

CONSTANTS
    WellKnown,          \* wellKnownChainInfos
    World,              \* the chains there are: name :> [root, end], the real fork after it or 0
    Scenarios,          \* sequences of setups, each of them one operator's
    Databases,          \* databases a Midgard may be started on
    CodeHash,           \* md5 of CoreDDL
    Migrated,           \* hashes GetMigrateUpdates knows a way from
    TrimHeight,         \* 20996001 of the code: blocks from it on are indexed again
    CommitBatchSize,    \* config CommitBatchSize
    MaxStops            \* bound of the model: stops and failing calls

\* The setups there are.
Setups == UNION {{scenario[i] : i \in DOMAIN scenario} : scenario \in Scenarios}

\* "You should trim to blocks height % 100 == 0 for now": the last row left must carry a state.
\* A hash is not what stands for none.
ASSUME StartUpAssumption ==
    /\ CommitBatchSize \in Nat \ {0} /\ TrimHeight \in Nat \ {0, 1} /\ MaxStops \in Nat
    /\ (TrimHeight - 1) % CommitBatchSize = 0
    /\ CodeHash \notin Migrated \cup {"", "bad"} /\ "" \notin Migrated /\ "bad" \notin Migrated

\* A block store for all blocks.  With a genesis file a store has no chunks before it, and an
\* operator does not go on with such a store as if it had.
HasWholeStore(setup) == setup.store /\ (setup.genesis # <<>> => setup.genesis[1].height = 0)
StoresAgree(scenario) ==
    (\E i \in DOMAIN scenario : HasWholeStore(scenario[i])) =>
        \A i \in DOMAIN scenario : scenario[i].store => HasWholeStore(scenario[i])

\* An operator has a setup.  The DDL of the aggregates is another text than that of the tables.
ASSUME ScenariosAssumption ==
    /\ \A scenario \in Scenarios : scenario \in Seq(Setups) /\ Len(scenario) > 0
    /\ \A setup \in Setups :
          /\ setup.agg \notin Migrated \cup {"", "bad"}
          /\ setup.latest \in Nat
          /\ setup.genesis # <<>> => setup.genesis[1].height \in Nat
    /\ \A scenario \in Scenarios : StoresAgree(scenario)

\* An earlier Midgard has left the tables of the hash, which a migration keeps as they are, and
\* blocks without a gap, each with its events once.
ASSUME DatabasesAssumption ==
    \A d \in Databases :
        LET heights == DOMAIN d.blocks
        IN  /\ DOMAIN d = {"hash", "aggHash", "chainId", "genesis", "blocks", "states", "rows",
                           "data", "agg"}
            /\ d.hash \in Migrated \cup {CodeHash} => d.data = CodeHash
            /\ d.aggHash \in {"", d.agg} \ Migrated
            /\ heights # {} => /\ {Min(heights), Max(heights)} \subseteq Nat
                               /\ heights = Min(heights)..Max(heights)
            /\ d.rows = [h \in heights |-> 1]
            /\ d.states \subseteq heights

VARIABLES
    setups,             \* the scenario from here on; its head is the setup now
    db,                 \* the database
    pc,
    todo,               \* statements of the DDL still to do
    untrimmed,          \* tables TrimDB has still to trim
    known,              \* CurrentChain and RootChain of this process
    refusal,            \* what the last process died of, "" if it was stopped
    \* Ghosts.
    stops,
    cut,                \* a stop came after a trim of block_log and before that of the events
    misread,            \* the schema is marked for an overrun that was looked for at a wrong block
    halfway             \* midgard_agg is left by an update that did not get to the end, and
                        \* the next one may find nothing to do

dbVars == <<folder, temporary, leftover, db>>
ghosts == <<cut, misread, halfway>>
vars == <<setups, db, pc, todo, untrimmed, known, refusal, stops, ghosts, storeVars>>
fixed == <<setups, stops, ghosts>>

Setup == Head(setups)
Mainnet == "thorchain"

\* A block is its height and its kind; the block hash tells both.
Block(h, kind) == <<h, kind>>
Bogus(net) == <<"bogus", net>>
Real(net) == <<"real", World[net].root>>
BlockOf(net, h) ==
    LET end == World[net].end
    IN  Block(h, IF end # 0 /\ h > end THEN Bogus(net) ELSE Real(net))
NodeBlock(h) == BlockOf(Setup.net, h)

\* Tables just made, and no tables.
EmptyTables == [hash |-> "", aggHash |-> "", chainId |-> "", genesis |-> 0,
                blocks |-> <<>>, states |-> {}, rows |-> <<>>, data |-> CodeHash, agg |-> "absent"]
NoTables == [EmptyTables EXCEPT !.data = "absent"]

Heights == DOMAIN db.blocks
NoBlocks == Heights = {}
LastHeight == IF NoBlocks THEN 0 ELSE Max(Heights)
GenesisHeight == IF Setup.genesis = <<>> THEN 0 ELSE Setup.genesis[1].height

Init ==
    /\ setups \in Scenarios
    /\ db \in Databases
    /\ pc = "down" /\ todo = <<>> /\ untrimmed = {} /\ known = <<>> /\ refusal = ""
    /\ stops = 0 /\ cut = FALSE /\ misread = FALSE /\ halfway = FALSE
    /\ StoreInit

-----------------------------------------------------------------------------
(* Starting and stopping.                                                  *)

Start ==
    /\ pc = "down"
    /\ pc' = "data"
    /\ refusal' = ""
    /\ UNCHANGED <<fixed, db, todo, untrimmed, known, storeVars>>

Down == pc' = "down" /\ todo' = <<>> /\ untrimmed' = {} /\ known' = <<>> /\ toFetch' = {} /\ lastFetched' = 0

\* log.Fatal.
Refuse(reason) ==
    /\ refusal' = reason
    /\ Down
    /\ UNCHANGED <<fixed, dbVars>>

Crash ==
    /\ pc # "down" /\ stops < MaxStops
    /\ stops' = stops + 1
    /\ Down
    /\ refusal' = ""
    /\ cut' = (cut \/ (pc = "trim" /\ "events" \in untrimmed /\ "block_log" \notin untrimmed))
    /\ UNCHANGED <<setups, misread, halfway, dbVars>>

\* The node or the database does not answer, in a place where that is fatal.
CallFails ==
    /\ pc \in {"data", "create", "agg", "createAgg", "chain"} /\ stops < MaxStops
    /\ stops' = stops + 1
    /\ refusal' = "call"
    /\ Down
    /\ UNCHANGED <<setups, ghosts, dbVars>>

\* The operator moves on, or throws the database away (cmd/nukedb).
Move ==
    /\ pc = "down"
    /\ Len(setups) > 1
    /\ setups' = Tail(setups)
    /\ refusal' = ""
    /\ halfway' = (halfway \/ db.aggHash \notin {"", db.agg})
    /\ UNCHANGED <<stops, cut, misread, db, pc, todo, untrimmed, known, storeVars>>
Nuke ==
    /\ pc = "down" /\ refusal \notin {"", "call"} /\ db.data # "absent"
    /\ db.hash # ""
    /\ db' = [db EXCEPT !.hash = ""]
    /\ UNCHANGED <<fixed, pc, todo, untrimmed, known, refusal, storeVars>>

-----------------------------------------------------------------------------
(* The schema (UpdateDDLsIfNeeded).                                        *)

\* liveDDLHash: what has not the length of a hash counts as none.
liveDDLHash(value) == IF value = "bad" THEN "" ELSE value

\* What the ancestry code makes of a node's status, for each setup there is (@@: TLC tabulates it).
NodeChain(setup) == ChainId(setup.net, setup.earliest, BlockOf(setup.net, setup.earliest), 0)
Ancestry == [setup \in Setups |-> EnrichAndGetRoot(WellKnown \o setup.infos, NodeChain(setup))] @@ <<>>
Enriched == Ancestry[Setup]

\* The own info of the current chain has its hash.
HashIsConfigured(setup) ==
    LET own == SelectSeq(WellKnown \o setup.infos, LAMBDA fi : fi.id = setup.net)
    IN  own # <<>> /\ Last(own).hash # NoHash

\* The repository has what is on the chain.
ASSUME RepositoryAssumption ==
    \A name \in DOMAIN Remote : \A h \in DOMAIN Remote[name] : Remote[name][h] = Block(h, <<"real", Mainnet>>)

\* How far a Midgard of a setup gets, and whether that is past the end of its chain, for want of
\* an info that tells of the fork.
GetsAsFarAs(setup, h) ==
    LET fork == Ancestry[setup].current.fork
    IN  Ancestry[setup].ok /\ h <= setup.latest /\ (fork # 0 => h <= fork)
Overruns(setup) == World[setup.net].end # 0 /\ GetsAsFarAs(setup, World[setup.net].end + 1)

\* What is configured and what the node says of its first block are true: a chain does not begin
\* after its end, nor a genesis file before the root; the first block there has to be is known, and
\* is one of the chain; so is the first of the current chain, if an info or a node that has it tells
\* its hash, and it is never one of a chain past its end.
ASSUME InfosAssumption ==
    /\ \A net \in DOMAIN World : World[net].end \in Nat
    /\ \A setup \in Setups :
          LET current == Ancestry[setup].current
              root == Ancestry[setup].root
              first == IF setup.genesis # <<>> THEN setup.genesis[1].hash ELSE root.hash
          IN  /\ setup.net \in DOMAIN World /\ setup.earliest \in Nat
              /\ Ancestry[setup].ok =>
                    /\ {current.fork, current.start, root.start} \subseteq Nat
                    /\ World[setup.net].end # 0 => current.start <= World[setup.net].end
                    /\ setup.genesis # <<>> => setup.genesis[1].height \notin 1..(root.start - 1)
                    /\ first # NoHash /\ first[2] = Real(setup.net)
                    /\ root.name = Mainnet => World[setup.net].root = Mainnet
                    /\ setup.earliest <= current.start \/ HashIsConfigured(setup) =>
                          current.hash = Block(current.start, Real(setup.net))
                    /\ \A net \in DOMAIN World : current.hash # Block(current.start, Bogus(net))

\* An operator who is not told of a fork has not followed the chain after it before, nor dumped it,
\* and has a store with no more than the node has; a folder is used with the chains of one root.
Dumps(setup, h) ==
    setup.store /\ Ancestry[setup].ok /\ h <= setup.latest /\ BlockOf(setup.net, h) = Block(h, Real(setup.net))
NoReturn(scenario) ==
    \A i, j \in DOMAIN scenario : i < j /\ Overruns(scenario[j]) =>
        \/ scenario[i].net = scenario[j].net
        \/ LET past == World[scenario[j].net].end + 1
           IN  ~GetsAsFarAs(scenario[i], past) /\ ~Dumps(scenario[i], past)
StoreOfOneRoot(scenario) ==
    \A i, j \in DOMAIN scenario :
        scenario[i].store /\ scenario[j].store => World[scenario[i].net].root = World[scenario[j].net].root
ASSUME OperatorsAssumption ==
    /\ \A scenario \in Scenarios : NoReturn(scenario) /\ StoreOfOneRoot(scenario)
    /\ \A setup \in Setups : Overruns(setup) /\ setup.store =>
          \A name \in DOMAIN Remote : name <= World[setup.net].end

\* The blocks an earlier Midgard has left are of one root, and maybe of one past its end, where they
\* came one after the other; if the schema is marked for that, one is there.
OfRoot(blocks, root) ==
    \A h \in DOMAIN blocks : \/ blocks[h] = Block(h, <<"real", root>>)
                             \/ \E net \in DOMAIN World : blocks[h] = Block(h, Bogus(net))
OfOneRoot(blocks) == \E net \in DOMAIN World : OfRoot(blocks, World[net].root)
Unbroken(blocks, net) ==
    \A h \in DOMAIN blocks : blocks[h] = Block(h, Bogus(net)) =>
        /\ World[net].end # 0 /\ World[net].end < h
        /\ \A k \in DOMAIN blocks : World[net].end < k /\ k <= h => blocks[k] = Block(k, Bogus(net))
AllPast(blocks, net) ==
    \A h \in DOMAIN blocks : World[net].end < h => blocks[h] = Block(h, Bogus(net))
ASSUME BlocksAssumption ==
    \A d \in Databases :
        /\ OfOneRoot(d.blocks)
        /\ \A net \in DOMAIN World : Unbroken(d.blocks, net)
        /\ \A setup \in Setups : Overruns(setup) => AllPast(d.blocks, setup.net)
        /\ d.hash = "bad" => \E h \in DOMAIN d.blocks : d.blocks[h][2][1] = "bogus"

\* GetMigrateUpdates dies of a chain that is not known, and of mainnet without a block.
MigrationDies == ~Enriched.ok \/ (Enriched.root.name = Mainnet /\ NoBlocks)
Migrates(hash) == Enriched.ok /\ Enriched.root.name = Mainnet /\ ~NoBlocks /\ hash \in Migrated

\* The tables of block_log, and all the others.
Tables == {"block_log", "events"}

\* UpdateDDLIfNeeded, up to the first change.  `after` is where it goes on.
UpdateDDLIfNeeded(hash, code, noauto, parts, create, after) ==
    LET live == liveDDLHash(hash)
    IN  /\ UNCHANGED <<fixed, db, known, storeVars>>
        /\ \/ live = code /\ pc' = after /\ UNCHANGED <<todo, untrimmed, refusal>>
           \/ /\ live # code
              /\ live # "" => ~MigrationDies /\ ~Migrates(live)
              /\ ~(noauto /\ live # "")
              /\ pc' = create /\ todo' = parts /\ UNCHANGED <<untrimmed, refusal>>
           \/ /\ live # code /\ Migrates(live)
              /\ pc' = "trim"
              /\ untrimmed' = IF LastHeight >= TrimHeight THEN Tables ELSE {}
              /\ UNCHANGED <<todo, refusal>>

\* The same, where it is fatal.
UpdateDDLRefused(hash, code, noauto) ==
    LET live == liveDDLHash(hash)
    IN  /\ live \notin {code, ""}
        /\ \/ MigrationDies /\ Refuse(IF Enriched.ok THEN "no latest height" ELSE "chain")
           \/ ~MigrationDies /\ ~Migrates(live) /\ noauto /\ Refuse("update prohibited")

CoreDDL == <<"drop midgard_agg", "drop midgard", "ddl.sql", "hash">>
AggregatesDDL == <<"drop midgard_agg", "aggregates", "aggregates hash">>

UpdateData ==
    /\ pc = "data"
    /\ \/ UpdateDDLIfNeeded(db.hash, CodeHash, Setup.noauto \/ Setup.noautoAgg, CoreDDL, "create", "agg")
       \/ UpdateDDLRefused(db.hash, CodeHash, Setup.noauto \/ Setup.noautoAgg)
UpdateAggregates ==
    /\ pc = "agg"
    /\ \/ UpdateDDLIfNeeded(db.aggHash, Setup.agg, Setup.noautoAgg, AggregatesDDL, "createAgg", "chain")
       \/ UpdateDDLRefused(db.aggHash, Setup.agg, Setup.noautoAgg)

\* Each part is a statement of its own, and the hash is the last.
\* Wrong_Apply: the hash of the code is there with the tables.
Wrong_Apply(part) ==
    CASE part = "drop midgard_agg" -> [db EXCEPT !.agg = "absent"]
      [] part = "drop midgard"     -> [NoTables EXCEPT !.agg = db.agg]
      [] part = "ddl.sql"          -> [EmptyTables EXCEPT !.agg = db.agg, !.aggHash = Setup.agg]
      [] part = "hash"             -> [db EXCEPT !.hash = CodeHash]
      [] part = "aggregates"       -> [db EXCEPT !.agg = Setup.agg]
      [] part = "aggregates hash"  -> [db EXCEPT !.aggHash = Setup.agg]
Apply(part) ==
    CASE part = "drop midgard_agg" -> [db EXCEPT !.agg = "absent"]
      [] part = "drop midgard"     -> [NoTables EXCEPT !.agg = db.agg]
      [] part = "ddl.sql"          -> [EmptyTables EXCEPT !.agg = db.agg]
      [] part = "hash"             -> [db EXCEPT !.hash = CodeHash]
      [] part = "aggregates"       -> [db EXCEPT !.agg = Setup.agg]
      [] part = "aggregates hash"  -> [db EXCEPT !.aggHash = Setup.agg]

CreatePart ==
    /\ pc \in {"create", "createAgg"}
    /\ db' = Apply(Head(todo))
    /\ IF Len(todo) > 1 THEN todo' = Tail(todo) /\ UNCHANGED pc
       ELSE todo' = <<>> /\ pc' = IF pc = "create" THEN "agg" ELSE "chain"
    /\ LET remade == Head(todo) = "hash"
       IN  cut' = (cut /\ ~remade) /\ misread' = (misread /\ ~remade)
    /\ halfway' = (halfway /\ Head(todo) # "aggregates hash")
    /\ UNCHANGED <<setups, stops, untrimmed, known, refusal, storeVars>>

\* TrimDB: one statement per table, in no order.  (The aggregates come first; their trim is in
\* module Aggregates.)
Below(f, h) == [k \in {j \in DOMAIN f : j < h} |-> f[k]]
\* Wrong_TrimTable: events are trimmed above the height only.  Wrong_TrimTableAbove: block_log is.
Wrong_TrimTable(table) ==
    /\ pc = "trim" /\ table \in untrimmed
    /\ untrimmed' = untrimmed \ {table}
    /\ db' = IF table = "events" THEN [db EXCEPT !.rows = Below(@, TrimHeight + 1)]
             ELSE [db EXCEPT !.blocks = Below(@, TrimHeight), !.states = {h \in @ : h < TrimHeight}]
    /\ UNCHANGED <<fixed, pc, todo, known, refusal, storeVars>>
Wrong_TrimTableAbove(table) ==
    /\ pc = "trim" /\ table \in untrimmed
    /\ untrimmed' = untrimmed \ {table}
    /\ db' = IF table = "events" THEN [db EXCEPT !.rows = Below(@, TrimHeight)]
             ELSE [db EXCEPT !.blocks = Below(@, TrimHeight + 1), !.states = {h \in @ : h < TrimHeight + 1}]
    /\ UNCHANGED <<fixed, pc, todo, known, refusal, storeVars>>
TrimTable(table) ==
    /\ pc = "trim" /\ table \in untrimmed
    /\ untrimmed' = untrimmed \ {table}
    /\ db' = IF table = "events" THEN [db EXCEPT !.rows = Below(@, TrimHeight)]
             ELSE [db EXCEPT !.blocks = Below(@, TrimHeight), !.states = {h \in @ : h < TrimHeight}]
    /\ UNCHANGED <<fixed, pc, todo, known, refusal, storeVars>>

\* The migration itself only gives the tables the new hash.  If it fails they are made anew.
Migrate ==
    /\ pc = "trim" /\ untrimmed = {}
    /\ db' = [db EXCEPT !.hash = CodeHash]
    /\ pc' = "agg"
    /\ UNCHANGED <<fixed, todo, untrimmed, known, refusal, storeVars>>
MigrationFails ==
    /\ pc = "trim" /\ untrimmed = {} /\ stops < MaxStops
    /\ stops' = stops + 1
    /\ IF Setup.noauto \/ Setup.noautoAgg
       THEN refusal' = "update prohibited" /\ Down /\ UNCHANGED halfway
       ELSE /\ pc' = "create" /\ todo' = CoreDDL /\ halfway' = TRUE
            /\ UNCHANGED <<untrimmed, refusal, known, lastFetched, toFetch>>
    /\ UNCHANGED <<setups, cut, misread, dbVars>>

-----------------------------------------------------------------------------
(* The chain and the block store (timeseries.Setup, InitGlobalSync).       *)

\* InitializeChainVars.  The row to resume from must carry a state.
InitChain ==
    /\ pc = "chain"
    /\ NoBlocks \/ LastHeight \in db.states
    /\ Enriched.ok
    /\ known' = [current |-> Enriched.current, root |-> Enriched.root]
    /\ pc' = "open"
    /\ UNCHANGED <<fixed, db, todo, untrimmed, refusal, storeVars>>
InitChainRefused ==
    /\ pc = "chain"
    /\ \/ ~NoBlocks /\ LastHeight \notin db.states /\ Refuse("state")
       \/ (NoBlocks \/ LastHeight \in db.states) /\ ~Enriched.ok /\ Refuse("chain")

\* InitGenesis, and the beginning of NewBlockStore, which is not there if it is not configured.
InitGenesisRefused ==
    /\ pc = "open"
    /\ Setup.genesis # <<>>
    /\ GenesisHeight <= 0 \/ (db.genesis > 0 /\ db.genesis # GenesisHeight) \/ Setup.genesis[1].hash = NoHash
    /\ Refuse("genesis")
Open ==
    /\ pc = "open"
    /\ Setup.genesis # <<>> =>
          GenesisHeight > 0 /\ db.genesis \in {0, GenesisHeight} /\ Setup.genesis[1].hash # NoHash
    /\ pc' = "store"
    /\ IF Setup.store THEN OpenStore(known.root.name = Mainnet, GenesisHeight) ELSE UNCHANGED storeVars
    /\ UNCHANGED <<fixed, db, todo, untrimmed, known, refusal>>
Fetch ==
    /\ pc = "store"
    /\ \E name \in DOMAIN Remote : FetchChunk(name)
    /\ UNCHANGED <<fixed, db, pc, todo, untrimmed, known, refusal>>
FetchEnds ==
    /\ pc = "store"
    /\ \E name \in DOMAIN Remote :
          /\ FetchFails(name)
          /\ Remote[name] = NotThere \/ stops < MaxStops
          /\ stops' = IF Remote[name] = NotThere THEN stops ELSE stops + 1
    /\ UNCHANGED <<setups, ghosts, db, pc, todo, untrimmed, known, refusal>>
\* The dump opens the store in the same way, and knows no chain.
Opened ==
    /\ pc = "store"
    /\ IF Setup.store THEN StoreOpened(GenesisHeight) ELSE UNCHANGED storeVars
    /\ pc' = IF known = <<>> THEN "dump" ELSE "match"
    /\ UNCHANGED <<fixed, db, todo, untrimmed, known, refusal>>

\* The blocks there are to be had, from the store or from the node.
Stored(h) == Setup.store /\ HasHeight(h) /\ StoreHasBlock(h)
Served(h) == Setup.earliest <= h /\ h <= Setup.latest
Available(h) == Stored(h) \/ Served(h)
\* CheckGenesisStatus asks the store alone if it says it has the height.
GenesisIsFound == IF Setup.store /\ HasHeight(GenesisHeight) THEN StoreHasBlock(GenesisHeight)
                  ELSE Served(GenesisHeight)
TheBlock(h) == IF Stored(h) THEN StoreBlock(h) ELSE NodeBlock(h)

-----------------------------------------------------------------------------
(* The database and the chain (CheckGenesisStatus, EnsureDBMatchesChain).  *)

FirstInDB == Min(Heights)
FirstHash == IF Setup.genesis # <<>> THEN Setup.genesis[1].hash ELSE known.root.hash
StartHeight == IF GenesisHeight > 0 THEN GenesisHeight ELSE known.root.start

\* Why the process may not go on; "" if it may.  (The time of the first block, which is compared with
\* its hash, is left out, and so is a height or a hash of a genesis configured without its file.)
Mismatch ==
    CASE /\ Setup.genesis # <<>>
         /\ \/ ~NoBlocks /\ LastHeight < GenesisHeight
            \/ ~GenesisIsFound
            \/ TheBlock(GenesisHeight) # Setup.genesis[1].hash -> "genesis"
      [] ~NoBlocks /\ FirstHash # NoHash /\ FirstHash # db.blocks[FirstInDB] -> "first hash"
      [] ~NoBlocks /\ GenesisHeight > 0 /\ db.genesis # GenesisHeight -> "genesis"
      [] ~NoBlocks /\ StartHeight # FirstInDB -> "start height"
      [] OTHER -> ""

\* PreventOverrunAfterFork looks at one block: the first of the current chain.
\* Wrong_Overrun: ... of the root chain, which is always right.
Wrong_Overrun ==
    /\ known.current.start # known.root.start
    /\ known.root.start \in Heights
    /\ db.blocks[known.root.start] # known.root.hash
\* Wrong_OverrunHash: ... with the hash of the root chain.
Wrong_OverrunHash ==
    /\ known.current.start # known.root.start
    /\ known.current.start \in Heights
    /\ db.blocks[known.current.start] # known.root.hash
Overrun ==
    /\ known.current.start # known.root.start
    /\ known.current.start \in Heights
    /\ db.blocks[known.current.start] # known.current.hash

\* Another chain id in the database is only warned of.
EnsureDBMatchesChain ==
    /\ pc = "match"
    /\ Mismatch = "" /\ ~Overrun
    /\ db' = [db EXCEPT !.chainId = known.root.name]
    /\ pc' = "genesis"
    /\ UNCHANGED <<fixed, todo, untrimmed, known, refusal, storeVars>>
MatchRefused == pc = "match" /\ Mismatch # "" /\ Refuse(Mismatch)
\* The schema is marked as bad, and the next process makes the tables anew.
PreventOverrunAfterFork ==
    /\ pc = "match"
    /\ Mismatch = "" /\ Overrun
    /\ db' = [db EXCEPT !.hash = "bad"]
    /\ misread' = (Setup.earliest > known.current.start /\ ~HashIsConfigured(Setup))
    /\ refusal' = "overrun"
    /\ Down
    /\ UNCHANGED <<setups, stops, cut, halfway, folder, temporary, leftover>>

\* record.LoadGenesis as far as the start-up checks read it: the constant.
LoadGenesis ==
    /\ pc = "genesis"
    /\ pc' = "running"
    /\ db' = IF Setup.genesis # <<>> /\ db.genesis = 0 /\ GenesisHeight >= LastHeight
             THEN [db EXCEPT !.genesis = GenesisHeight] ELSE db
    /\ UNCHANGED <<fixed, todo, untrimmed, known, refusal, storeVars>>

-----------------------------------------------------------------------------
(* Running.                                                                *)

NextHeight == IF NoBlocks /\ GenesisHeight > 0 THEN GenesisHeight ELSE LastHeight + 1

\* The writer commits at multiples of the batch size, when it has caught up, at an announced
\* fork and after the first block.
CommitsAt(h) == \/ h % CommitBatchSize = 0
                \/ h + 1 >= Setup.latest
                \/ h = known.current.fork
                \/ NoBlocks /\ h = NextHeight
Write ==
    /\ pc = "running"
    /\ \E last \in NextHeight..Setup.latest :
          LET batch == NextHeight..last
          IN  /\ known.current.fork # 0 => last <= known.current.fork
              /\ \A h \in batch : Available(h)
              /\ CommitsAt(last) /\ \A h \in batch \ {last} : ~CommitsAt(h)
              /\ db' = [db EXCEPT
                            !.blocks = [h \in Heights \cup batch |-> IF h \in Heights THEN @[h] ELSE TheBlock(h)],
                            !.states = @ \cup {last},
                            !.rows = [h \in DOMAIN @ \cup batch |->
                                         (IF h \in DOMAIN @ THEN @[h] ELSE 0) + (IF h \in batch THEN 1 ELSE 0)]]
    /\ UNCHANGED <<fixed, pc, todo, untrimmed, known, refusal, storeVars>>

-----------------------------------------------------------------------------
(* cmd/blockstore/dump: "Stop midgard first."                              *)

StartDump ==
    /\ pc = "down"
    /\ Setup.store
    /\ Enriched.ok
    /\ stops < MaxStops /\ stops' = stops + 1
    /\ pc' = "store"
    /\ OpenStore(Enriched.root.name = Mainnet, GenesisHeight)
    /\ UNCHANGED <<setups, ghosts, db, todo, untrimmed, known, refusal>>

\* With DownloadFullChunksOnly the dump ends with the last block that completes a chunk.
DumpEnd ==
    LET fork == Enriched.current.fork
    IN  IF ~Setup.full THEN Setup.latest
        ELSE IF fork # 0 /\ fork <= Setup.latest THEN fork
        ELSE Setup.latest - (Setup.latest % BlocksPerChunk)

\* A fork ends the dump with the block that reaches it.  One that begins behind the fork goes on to
\* the last block of the node, which is one of the chain that ended.
Dump ==
    /\ pc = "dump"
    /\ Served(lastFetched + 1)
    /\ LET height == DumpHeight(GenesisHeight)
           AtFork == height = Enriched.current.fork
       IN  /\ height <= DumpEnd
           /\ DumpBlock(height, NodeBlock(height), AtFork)
           /\ IF AtFork THEN pc' = "down" /\ lastFetched' = 0 ELSE UNCHANGED <<pc, lastFetched>>
    /\ UNCHANGED <<fixed, db, todo, untrimmed, known, refusal>>
DumpCloses ==
    /\ pc = "dump"
    /\ CloseStore
    /\ pc' = "down"
    /\ UNCHANGED <<fixed, db, todo, untrimmed, known, refusal>>

-----------------------------------------------------------------------------
Checks ==
    \/ UpdateData \/ UpdateAggregates \/ CreatePart \/ Migrate
    \/ \E table \in Tables : TrimTable(table)
    \/ InitChain \/ InitChainRefused \/ InitGenesisRefused
    \/ Open \/ Fetch \/ FetchEnds \/ Opened
    \/ EnsureDBMatchesChain \/ MatchRefused \/ PreventOverrunAfterFork \/ LoadGenesis
Stops == Crash \/ CallFails \/ MigrationFails
Operator == Move \/ Nuke \/ StartDump \/ Dump \/ DumpCloses

Next == Start \/ Checks \/ Stops \/ Operator \/ Write

Spec == Init /\ [][Next]_vars

\* The process is started again whenever it ends, and goes on by itself.
Fairness == WF_vars(Start \/ Checks) /\ WF_vars(DumpCloses)
FairSpec == Spec /\ Fairness

-----------------------------------------------------------------------------
(* Properties.                                                             *)

Checked == pc \in {"chain", "open", "store", "match", "genesis", "running"} /\ ~(pc = "store" /\ known = <<>>)

TypeOK ==
    /\ pc \in {"down", "data", "trim", "create", "agg", "createAgg", "chain", "open", "store", "match",
               "genesis", "running", "dump"}
    /\ DOMAIN folder \subseteq Nat
    /\ pc = "dump" => Cardinality(DOMAIN temporary) <= BlocksPerChunk
    /\ lastFetched \in Nat /\ leftover \in BOOLEAN
    /\ known = <<>> \/ DOMAIN known = {"current", "root"}
    /\ db.states \subseteq Heights
    /\ stops \in 0..MaxStops
    /\ cut \in BOOLEAN /\ misread \in BOOLEAN /\ halfway \in BOOLEAN

\* Whatever the dump, an update from the remote repository or a stop did, every height up to the
\* one the store says it has is found, in the chunk the search leads to.
StoreIsReadable ==
    pc \in {"match", "dump", "genesis", "running"} /\ GenesisHeight = 0
        => \A h \in 1..lastFetched : StoreHasBlock(h)

\* A Midgard that gets to run has the tables of its code, those of the aggregates too, however
\* often it was stopped while it made them.  (An update drops midgard_agg first and sets the hash
\* last: if another binary goes on from there, or a migration that failed before, the hash of the
\* aggregates may be the code's and the tables are not there.)
SchemaIsTheCodes ==
    Checked /\ ~halfway
        => db.hash = CodeHash /\ db.data = CodeHash /\ db.aggHash = Setup.agg /\ db.agg = Setup.agg

\* Each block's events are there once, and none of a block that is not.  (TrimDB stopped between
\* block_log and the events is not taken up again, and the events come twice.)
RowsOnce == Checked /\ ~cut => db.rows = [h \in Heights |-> 1]

\* No block in the store is of a chain past its end.
StoreIsReal ==
    \A name \in DOMAIN folder : \A h \in DOMAIN folder[name] : \A net \in DOMAIN World :
        folder[name][h] # Block(h, Bogus(net))

\* Nothing the parent chain went on with after the fork stays in the database.  (Of a chain before
\* the parent it does: only the first block of the current chain is compared.  And so it does if the
\* store has it: a dump of a chain that ended, which began behind its end or was not told of it,
\* hands it to the Midgard of the next one.)
NothingOfTheParentPastTheFork ==
    pc \in {"genesis", "running"} /\ StoreIsReal =>
        \A h \in Heights : \A net \in DOMAIN World :
            db.blocks[h] = Block(h, Bogus(net)) => World[net].end + 1 # known.current.start

\* "When a fork is coming up" HardForkHeight is set "to prevent Midgard from writing out data from the
\* old chain beyond the fork height" (config.go): who is told of the fork of a chain writes nothing of
\* it past the fork.  (From the store Midgard does, and again after each time it was made to drop it.)
IsToldOfForkOf(net) ==
    LET infos == WellKnown \o Setup.infos
    IN  \E i \in DOMAIN infos : infos[i].id = net /\ infos[i].fork = World[net].end
OldChainEndsAtItsFork ==
    [][\A h \in DOMAIN db'.blocks \ Heights : \A net \in DOMAIN World :
          IsToldOfForkOf(net) => db'.blocks[h] # Block(h, Bogus(net))]_vars

\* Blocks are dropped by a migration from its height on, or with tables of another version, or
\* because a block is there that the chain does not have.  (A pruned node on a chain whose info has
\* no hash is misread: its first block is taken for the chain's.)
DroppedForAReason ==
    [][\A h \in Heights \ DOMAIN db'.blocks :
          \/ pc = "trim" /\ h >= TrimHeight
          \/ /\ pc = "create" /\ db.hash # CodeHash
             /\ db.hash = "bad" => misread \/ \E k \in Heights : db.blocks[k][2][1] = "bogus"]_vars

\* A Midgard that is started again and again runs in the end, or dies of what only an operator can
\* change: never over and over of an overrun it could drop, nor of a row it cannot resume from.
OperatorReasons == {"chain", "genesis", "first hash", "start height", "update prohibited", "no latest height"}
StartUpEnds == []<>(pc = "running") \/ []<>(refusal \in OperatorReasons)

=============================================================================
