------------------------------ MODULE StartUpProofs ------------------------------
(***************************************************************************)
(* A Midgard that gets past the first checks has the tables of its code    *)
(* and the events of its blocks once, and reads every block that its store *)
(* says it has, whatever the scenario of setups, the database it begins    *)
(* with, the chains, the repository and the number of stops; and the type  *)
(* invariant of the start-up and the block store.  For these, what the     *)
(* ancestry code makes of the infos (EnrichAndGetRoot) and what does not   *)
(* fit the chain (Mismatch, Overrun) may be anything.                      *)
(*                                                                         *)
(* If the infos are true (InfosAssumption) no blocks are dropped without a *)
(* reason, and nothing of the parent is left past the fork unless the      *)
(* store has such a block (StoreIsReal), as a dump of a chain that ended   *)
(* can leave it with (see MCStartUpDump).                                  *)
(***************************************************************************)
EXTENDS StartUp, SortingProofs

-----------------------------------------------------------------------------
(* The invariants.                                                         *)

Fields == {"hash", "aggHash", "chainId", "genesis", "blocks", "states", "rows", "data", "agg"}

\* A process learns its chain in InitializeChainVars, and the dump never does.
KnowsItsChain == {"open", "match", "genesis", "running"}
KnownInv ==
    /\ setups \in Seq(Setups) /\ Len(setups) > 0
    /\ pc \in KnowsItsChain => known # <<>>
    /\ pc \notin KnowsItsChain \cup {"store"} => known = <<>>

\* The next process that gets so far makes the tables anew.
CoreIsStale == liveDDLHash(db.hash) # CodeHash /\ ~Migrates(liveDDLHash(db.hash))

Parts == {"drop midgard_agg", "drop midgard", "ddl.sql", "hash", "aggregates", "aggregates hash"}

\* What is left of the DDLs after a statement.
CoreLeft3 == <<"drop midgard", "ddl.sql", "hash">>
CoreLeft2 == <<"ddl.sql", "hash">>
CoreLeft1 == <<"hash">>
AggregatesLeft2 == <<"aggregates", "aggregates hash">>
AggregatesLeft1 == <<"aggregates hash">>

\* The tables are dropped.
NothingInIt == db.hash = "" /\ db.aggHash = "" /\ db.blocks = <<>> /\ db.rows = <<>>

\* How far the tables and the aggregates are made.
CreateInv ==
    /\ pc = "create" =>
          /\ db.hash # CodeHash
          /\ \/ (todo = CoreDDL \/ todo = CoreLeft3) /\ (halfway \/ CoreIsStale)
             \/ todo = CoreLeft2 /\ NothingInIt
             \/ todo = CoreLeft1 /\ NothingInIt /\ db.data = CodeHash
    /\ pc = "createAgg" =>
          /\ db.aggHash # Setup.agg
          /\ \/ todo = AggregatesDDL \/ todo = AggregatesLeft2
             \/ todo = AggregatesLeft1 /\ db.agg = Setup.agg

\* A process that looks at the hash of the aggregates sees what there is.
AggregatesFit == halfway \/ db.aggHash \in {"", db.agg} \/ db.aggHash # Setup.agg

\* The hash of the code is there with its tables; that of the aggregates with theirs, or they
\* have to be made in any case.
SchemaInv ==
    /\ DOMAIN db = Fields
    /\ pc = "trim" => db.hash \in Migrated /\ AggregatesFit
    /\ pc \in {"agg", "createAgg"} \/ Checked => db.hash = CodeHash
    /\ Checked => db.aggHash = Setup.agg
    /\ db.hash \in Migrated \cup {CodeHash} => db.data = CodeHash
    /\ db.aggHash \notin Migrated
    /\ AggregatesFit \/ CoreIsStale

\* Blocks without a gap, each with its events once; if a trim of the events only was cut, another
\* trim comes before anything is written.
Once(heights) == [h \in heights |-> 1]
Kept == {h \in Heights : h < TrimHeight}
RowsInv ==
    /\ \E first, last \in Nat : Heights = first..last
    /\ db.states \subseteq Heights
    /\ pc = "trim" => untrimmed \subseteq Tables /\ ("block_log" \notin untrimmed => Heights = Kept)
    /\ ~cut =>
          IF pc = "trim" /\ "block_log" \notin untrimmed /\ "events" \in untrimmed
          THEN Below(db.rows, TrimHeight) = Once(Heights)
          ELSE \/ db.rows = Once(Heights) /\ ~(pc = "trim" /\ untrimmed = {"block_log"})
               \/ db.rows = Once(Kept) /\ db.hash # CodeHash

StartUpInv == KnownInv /\ CreateInv /\ SchemaInv /\ RowsInv

\* The dump has begun a chunk behind the last one, and none of its heights ends one; what is still to
\* be fetched is not there.
LastName == findLastFetchedHeight(GenesisHeight)
Begun(last) ==
    /\ last >= LastName
    /\ DOMAIN temporary = (LastName + 1)..last
    /\ temporary = NoFile <=> last = LastName
    /\ \A h \in DOMAIN temporary : h % BlocksPerChunk # 0
StoreInv ==
    /\ DOMAIN folder \subseteq Nat
    /\ DOMAIN folder # {} => \E top \in DOMAIN folder : \A name \in DOMAIN folder : name <= top
    /\ lastFetched \in Nat /\ leftover \in BOOLEAN
    /\ toFetch \subseteq DOMAIN Remote /\ toFetch \cap DOMAIN folder = {}
    /\ pc = "store" /\ known = <<>> => Setup.store
    /\ pc = "dump" =>
          /\ toFetch = {}
          /\ Cardinality(DOMAIN temporary) <= BlocksPerChunk
          /\ \E last \in Nat : Begun(last)

\* What the type invariant says of the process.
Pcs == {"down", "data", "trim", "create", "agg", "createAgg", "chain", "open", "store", "match",
        "genesis", "running", "dump"}
ProcessInv ==
    /\ pc \in Pcs
    /\ known = <<>> \/ DOMAIN known = {"current", "root"}
    /\ stops \in 0..MaxStops
    /\ cut \in BOOLEAN /\ misread \in BOOLEAN /\ halfway \in BOOLEAN

-----------------------------------------------------------------------------
(* Helpers.                                                                *)

\* The largest of the heights.
LEMMA MaxIs == ASSUME NEW a \in Int, NEW b \in Int, a <= b PROVE Max(a..b) = b
  <1>1. b \in a..b /\ \A y \in a..b : b >= y
    OBVIOUS
  <1>2. \A x \in a..b : (\A y \in a..b : x >= y) => x = b
    BY <1>1
  <1> QED
    BY <1>1, <1>2 DEF Max

\* No blocks, no rows.
LEMMA NoneIsOnce == Once({}) = <<>> /\ DOMAIN <<>> = {}
  BY DEF Once

\* Lists of up to four statements.
LEMMA Lists ==
    ASSUME NEW a, NEW b, NEW c, NEW d
    PROVE  /\ Head(<<a>>) = a /\ Head(<<a, b>>) = a /\ Head(<<a, b, c>>) = a /\ Head(<<a, b, c, d>>) = a
           /\ Len(<<a>>) = 1 /\ Len(<<a, b>>) = 2 /\ Len(<<a, b, c>>) = 3 /\ Len(<<a, b, c, d>>) = 4
           /\ Tail(<<a, b>>) = <<b>> /\ Tail(<<a, b, c>>) = <<b, c>> /\ Tail(<<a, b, c, d>>) = <<b, c, d>>
  <1>1. Head(<<a>>) = a /\ Head(<<a, b>>) = a /\ Head(<<a, b, c>>) = a /\ Head(<<a, b, c, d>>) = a
    OBVIOUS
  <1>2. Len(<<a>>) = 1 /\ Len(<<a, b>>) = 2 /\ Len(<<a, b, c>>) = 3 /\ Len(<<a, b, c, d>>) = 4
    OBVIOUS
  <1>3. Tail(<<a, b>>) = <<b>> /\ Tail(<<a, b, c>>) = <<b, c>> /\ Tail(<<a, b, c, d>>) = <<b, c, d>>
    OBVIOUS
  <1> QED
    BY <1>1, <1>2, <1>3

\* The DDLs: the next statement, and those after it.
LEMMA DdlHeads ==
    /\ Head(CoreDDL) = "drop midgard_agg"
    /\ Head(CoreLeft3) = "drop midgard"
    /\ Head(CoreLeft2) = "ddl.sql"
    /\ Head(CoreLeft1) = "hash"
    /\ Head(AggregatesDDL) = "drop midgard_agg"
    /\ Head(AggregatesLeft2) = "aggregates"
    /\ Head(AggregatesLeft1) = "aggregates hash"
  BY Lists DEF CoreDDL, CoreLeft3, CoreLeft2, CoreLeft1, AggregatesDDL,
                   AggregatesLeft2, AggregatesLeft1

\* Those after it.
LEMMA DdlTails ==
    /\ Tail(CoreDDL) = CoreLeft3
    /\ Tail(CoreLeft3) = CoreLeft2
    /\ Tail(CoreLeft2) = CoreLeft1
    /\ Tail(AggregatesDDL) = AggregatesLeft2
    /\ Tail(AggregatesLeft2) = AggregatesLeft1
  <1>1. Tail(CoreDDL) = CoreLeft3
    <2>1. ASSUME NEW a, NEW b, NEW c, NEW d PROVE Tail(<<a, b, c, d>>) = <<b, c, d>>
      OBVIOUS
    <2> QED
      BY <2>1 DEF CoreDDL, CoreLeft3
  <1>2. Tail(CoreLeft3) = CoreLeft2
    BY Lists DEF CoreLeft3, CoreLeft2
  <1>3. Tail(CoreLeft2) = CoreLeft1
    BY Lists DEF CoreLeft2, CoreLeft1
  <1>4. Tail(AggregatesDDL) = AggregatesLeft2
    <2>1. ASSUME NEW a, NEW b, NEW c PROVE Tail(<<a, b, c>>) = <<b, c>>
      OBVIOUS
    <2> QED
      BY <2>1 DEF AggregatesDDL, AggregatesLeft2
  <1>5. Tail(AggregatesLeft2) = AggregatesLeft1
    BY Lists DEF AggregatesLeft2, AggregatesLeft1
  <1> QED
    BY <1>1, <1>2, <1>3, <1>4, <1>5

\* How many they are.
LEMMA DdlLengths ==
    /\ Len(CoreDDL) > 1
    /\ Len(CoreLeft3) > 1
    /\ Len(CoreLeft2) > 1
    /\ ~(Len(CoreLeft1) > 1)
    /\ Len(AggregatesDDL) > 1
    /\ Len(AggregatesLeft2) > 1
    /\ ~(Len(AggregatesLeft1) > 1)
  <1>1. Len(CoreDDL) = 4
    BY Lists DEF CoreDDL
  <1>2. Len(CoreLeft3) = 3
    BY Lists DEF CoreLeft3
  <1>3. Len(CoreLeft2) = 2
    BY Lists DEF CoreLeft2
  <1>4. Len(CoreLeft1) = 1
    BY Lists DEF CoreLeft1
  <1>5. Len(AggregatesDDL) = 3
    BY Lists DEF AggregatesDDL
  <1>6. Len(AggregatesLeft2) = 2
    BY Lists DEF AggregatesLeft2
  <1>7. Len(AggregatesLeft1) = 1
    BY Lists DEF AggregatesLeft1
  <1> QED
    BY <1>1, <1>2, <1>3, <1>4, <1>5, <1>6, <1>7

\* One statement is done.
LEMMA PartDone ==
    ASSUME CreatePart, NEW ddl, todo = ddl
    PROVE  /\ db' = Apply(Head(ddl)) /\ UNCHANGED <<setups, known, untrimmed>>
           /\ Len(ddl) > 1 => todo' = Tail(ddl) /\ pc' = pc
           /\ ~(Len(ddl) > 1) => pc' = IF pc = "create" THEN "agg" ELSE "chain"
           /\ Head(ddl) # "hash" => (cut' <=> cut)
           /\ Head(ddl) # "aggregates hash" => (halfway' <=> halfway)
  <1>1. /\ pc \in {"create", "createAgg"} /\ db' = Apply(Head(todo))
        /\ UNCHANGED <<setups, known, untrimmed>>
        /\ Head(todo) # "hash" => (cut' <=> cut)
        /\ Head(todo) # "aggregates hash" => (halfway' <=> halfway)
    BY DEF CreatePart
  <1>2. IF Len(todo) > 1 THEN todo' = Tail(todo) /\ pc' = pc
        ELSE todo' = <<>> /\ pc' = IF pc = "create" THEN "agg" ELSE "chain"
    BY DEF CreatePart
  <1> QED
    BY <1>1, <1>2

\* What depends on the setup and the database alone.
LEMMA SameDatabase ==
    ASSUME UNCHANGED <<setups, db>>
    PROVE  /\ Setup' = Setup /\ Heights' = Heights /\ Kept' = Kept
           /\ CoreIsStale' = CoreIsStale
           /\ AggregatesFit /\ (halfway => halfway') => AggregatesFit'
  <1>1. Setup' = Setup /\ Heights' = Heights /\ Kept' = Kept
    BY DEF Setup, Heights, Kept
  <1>2. CoreIsStale' = CoreIsStale
    BY DEF Setup, Heights, CoreIsStale, liveDDLHash, Migrates, Enriched, NoBlocks
  <1>3. AggregatesFit /\ (halfway => halfway') => AggregatesFit'
    BY <1>1 DEF AggregatesFit
  <1> QED
    BY <1>1, <1>2, <1>3

-----------------------------------------------------------------------------
(* The invariant, one action at a time.                                    *)

\* Databases a Midgard may be started on.
LEMMA InitStartUp == ASSUME Init PROVE StartUpInv
  <1>1. db \in Databases /\ setups \in Scenarios /\ pc = "down" /\ known = <<>> /\ cut = FALSE
    BY DEF Init
  <1>2. KnownInv
    BY <1>1, ScenariosAssumption DEF KnownInv, KnowsItsChain
  <1>3. CreateInv
    BY <1>1 DEF CreateInv
  <1>4. SchemaInv
    BY <1>1, DatabasesAssumption DEF SchemaInv, Fields, Checked, AggregatesFit
  <1>5. RowsInv
    <2>1. \E first, last \in Nat : Heights = first..last
      <3>1. CASE Heights = {}
        <4>1. Heights = 1..0 /\ 1 \in Nat /\ 0 \in Nat
          BY <3>1
        <4> QED
          BY <4>1
      <3>2. CASE Heights # {}
        BY <1>1, <3>2, DatabasesAssumption, ZenonT(60) DEF Heights
      <3> QED
        BY <3>1, <3>2
    <2>2. db.states \subseteq Heights /\ db.rows = Once(Heights)
      BY <1>1, DatabasesAssumption DEF Heights, Once
    <2> QED
      BY <1>1, <2>1, <2>2 DEF RowsInv
  <1> QED
    BY <1>2, <1>3, <1>4, <1>5 DEF StartUpInv

\* A process ends, of whatever.
LEMMA EndsInv ==
    ASSUME StartUpInv, Down, UNCHANGED <<setups, db, halfway>>,
           cut => cut',
           pc = "trim" /\ "events" \in untrimmed /\ "block_log" \notin untrimmed => cut'
    PROVE  StartUpInv'
  <1>1. pc' = "down" /\ known' = <<>>
    BY DEF Down
  <1>2. KnownInv'
    BY <1>1 DEF StartUpInv, KnownInv, KnowsItsChain
  <1>3. CreateInv'
    BY <1>1 DEF CreateInv
  <1>4. SchemaInv'
    BY <1>1, SameDatabase DEF StartUpInv, SchemaInv, Checked
  <1>5. RowsInv'
    BY <1>1, SameDatabase DEF StartUpInv, RowsInv
  <1> QED
    BY <1>2, <1>3, <1>4, <1>5 DEF StartUpInv

\* A process goes on, and changes nothing in the database.
LEMMA GoesOnInv ==
    ASSUME StartUpInv, UNCHANGED <<setups, db, halfway, cut>>, pc # "trim",
           pc' \notin {"trim", "create", "createAgg"}, KnownInv',
           pc' = "agg" \/ Checked' => db.hash = CodeHash,
           Checked' => db.aggHash = Setup.agg
    PROVE  StartUpInv'
  <1>1. CreateInv'
    BY DEF CreateInv
  <1>2. SchemaInv'
    BY SameDatabase DEF StartUpInv, SchemaInv
  <1>3. RowsInv'
    BY SameDatabase DEF StartUpInv, RowsInv
  <1> QED
    BY <1>1, <1>2, <1>3 DEF StartUpInv

\* The setup now is one of those there are.
LEMMA SetupIs == ASSUME KnownInv PROVE Setup \in Setups
  BY DEF KnownInv, Setup

\* Why the tables are made anew, and where a trim begins.
Remade(hash, code) ==
    /\ liveDDLHash(hash) # code
    /\ liveDDLHash(hash) # "" => ~Migrates(liveDDLHash(hash))
TrimBegins == untrimmed' = IF LastHeight >= TrimHeight THEN Tables ELSE {}

\* The first change to the database is still to come.
LEMMA UpdateInv ==
    ASSUME StartUpInv, UpdateData \/ UpdateAggregates
    PROVE  StartUpInv'
  <1> USE DEF StartUpInv
  <1>1. CASE UpdateDDLRefused(db.hash, CodeHash, Setup.noauto \/ Setup.noautoAgg)
             \/ UpdateDDLRefused(db.aggHash, Setup.agg, Setup.noautoAgg)
    <2>1. Down /\ UNCHANGED <<setups, db, halfway, cut>>
      BY <1>1 DEF UpdateDDLRefused, Refuse, fixed, ghosts, dbVars
    <2>2. pc # "trim"
      BY DEF UpdateData, UpdateAggregates
    <2> QED
      BY <2>1, <2>2, EndsInv
  <1>2. ASSUME UpdateData \/ UpdateAggregates,
               ~UpdateDDLRefused(db.hash, CodeHash, Setup.noauto \/ Setup.noautoAgg),
               ~UpdateDDLRefused(db.aggHash, Setup.agg, Setup.noautoAgg)
        PROVE  /\ UNCHANGED <<setups, halfway, cut, db, known>>
               /\ \/ pc = "data" /\ pc' = "agg" /\ liveDDLHash(db.hash) = CodeHash
                  \/ pc = "agg" /\ pc' = "chain" /\ liveDDLHash(db.aggHash) = Setup.agg
                  \/ pc = "data" /\ pc' = "create" /\ todo' = CoreDDL /\ Remade(db.hash, CodeHash)
                  \/ pc = "agg" /\ pc' = "createAgg" /\ todo' = AggregatesDDL
                     /\ Remade(db.aggHash, Setup.agg)
                  \/ pc = "data" /\ pc' = "trim" /\ Migrates(liveDDLHash(db.hash)) /\ TrimBegins
                  \/ pc = "agg" /\ pc' = "trim" /\ Migrates(liveDDLHash(db.aggHash))
    BY <1>2 DEF UpdateData, UpdateAggregates, UpdateDDLIfNeeded, Remade, TrimBegins, fixed, ghosts
  <1> SUFFICES ASSUME ~UpdateDDLRefused(db.hash, CodeHash, Setup.noauto \/ Setup.noautoAgg),
                      ~UpdateDDLRefused(db.aggHash, Setup.agg, Setup.noautoAgg)
               PROVE  StartUpInv'
    BY <1>1
  <1>3. /\ UNCHANGED <<setups, halfway, cut, db, known>>
        /\ \/ pc = "data" /\ pc' = "agg" /\ liveDDLHash(db.hash) = CodeHash
           \/ pc = "agg" /\ pc' = "chain" /\ liveDDLHash(db.aggHash) = Setup.agg
           \/ pc = "data" /\ pc' = "create" /\ todo' = CoreDDL /\ Remade(db.hash, CodeHash)
           \/ pc = "agg" /\ pc' = "createAgg" /\ todo' = AggregatesDDL
              /\ Remade(db.aggHash, Setup.agg)
           \/ pc = "data" /\ pc' = "trim" /\ Migrates(liveDDLHash(db.hash)) /\ TrimBegins
           \/ pc = "agg" /\ pc' = "trim" /\ Migrates(liveDDLHash(db.aggHash))
    BY <1>2
  <1>4. Setup \in Setups /\ Setup.agg \notin Migrated \cup {"", "bad"}
        /\ CodeHash \notin Migrated \cup {"", "bad"} /\ "" \notin Migrated
    BY SetupIs, ScenariosAssumption, StartUpAssumption
  <1>5. KnownInv'
    BY <1>3 DEF KnownInv, KnowsItsChain
  <1>6. db.aggHash \notin Migrated
    BY DEF SchemaInv
  <1>7. CASE pc = "data" /\ pc' = "agg" /\ liveDDLHash(db.hash) = CodeHash
    <2>1. db.hash = CodeHash
      BY <1>4, <1>7 DEF liveDDLHash
    <2> QED
      BY <1>3, <1>5, <1>7, <2>1, GoesOnInv DEF Checked
  <1>8. CASE pc = "agg" /\ pc' = "chain" /\ liveDDLHash(db.aggHash) = Setup.agg
    <2>1. db.aggHash = Setup.agg /\ db.hash = CodeHash
      BY <1>4, <1>8 DEF liveDDLHash, SchemaInv
    <2> QED
      BY <1>3, <1>5, <1>8, <2>1, GoesOnInv DEF Checked
  <1>9. CASE pc = "data" /\ pc' = "create" /\ todo' = CoreDDL /\ Remade(db.hash, CodeHash)
    <2>1. CoreIsStale /\ db.hash # CodeHash
      <3>1. ~Migrates("")
        BY <1>4 DEF Migrates
      <3> QED
        BY <1>4, <1>9, <3>1 DEF Remade, CoreIsStale, liveDDLHash
    <2>3. CreateInv'
      <3>1. todo' = CoreDDL /\ db'.hash # CodeHash /\ CoreIsStale'
        BY <1>3, <1>9, <2>1, SameDatabase
      <3> QED
        BY <1>9, <3>1 DEF CreateInv
    <2>4. SchemaInv'
      BY <1>3, <1>9, SameDatabase DEF SchemaInv, Checked
    <2>5. RowsInv'
      BY <1>3, <1>9, SameDatabase DEF RowsInv
    <2> QED
      BY <1>5, <2>3, <2>4, <2>5
  <1>10. CASE pc = "agg" /\ pc' = "createAgg" /\ todo' = AggregatesDDL
              /\ Remade(db.aggHash, Setup.agg)
    <2>1. db.aggHash # Setup.agg /\ db.hash = CodeHash
      BY <1>4, <1>10 DEF Remade, liveDDLHash, SchemaInv
    <2>3. CreateInv'
      BY <1>3, <1>10, <2>1, SameDatabase DEF CreateInv
    <2>4. SchemaInv'
      BY <1>3, <1>10, <2>1, SameDatabase DEF SchemaInv, Checked
    <2>5. RowsInv'
      BY <1>3, <1>10, SameDatabase DEF RowsInv
    <2> QED
      BY <1>5, <2>3, <2>4, <2>5
  <1>11. CASE pc = "data" /\ pc' = "trim" /\ Migrates(liveDDLHash(db.hash)) /\ TrimBegins
    <2>1. db.hash \in Migrated /\ ~NoBlocks
      BY <1>4, <1>11 DEF Migrates, liveDDLHash
    <2>2. CreateInv'
      BY <1>11 DEF CreateInv
    <2>3. SchemaInv'
      <3>1. ~CoreIsStale /\ AggregatesFit
        BY <1>11 DEF SchemaInv, CoreIsStale
      <3> QED
        BY <1>3, <1>11, <2>1, <3>1, SameDatabase DEF SchemaInv, Checked
    <2>4. untrimmed' = Tables \/ (untrimmed' = {} /\ Heights = Kept)
      <3>1. PICK first \in Nat, last \in Nat : Heights = first..last
        BY DEF RowsInv
      <3>2. first <= last
        BY <2>1, <3>1 DEF NoBlocks
      <3>3. LastHeight = last
        BY <2>1, <3>1, <3>2, MaxIs DEF LastHeight
      <3>4. TrimHeight \in Nat
        BY StartUpAssumption
      <3> QED
        BY <1>11, <3>1, <3>3, <3>4 DEF TrimBegins, Kept
    <2>5. RowsInv'
      BY <1>3, <1>11, <2>4, SameDatabase DEF RowsInv, Tables
    <2> QED
      BY <1>5, <2>2, <2>3, <2>5
  <1>12. ~(pc = "agg" /\ pc' = "trim" /\ Migrates(liveDDLHash(db.aggHash)))
    BY <1>4, <1>6 DEF Migrates, liveDDLHash
  <1> QED
    BY <1>3, <1>7, <1>8, <1>9, <1>10, <1>11, <1>12

\* The process is refused, stopped, or a call of it fails.
LEMMA StopInv ==
    ASSUME StartUpInv,
           \/ Crash \/ CallFails
           \/ InitChainRefused \/ InitGenesisRefused \/ MatchRefused
    PROVE  StartUpInv'
  <1>1. Down /\ UNCHANGED <<setups, db, halfway>>
    BY DEF Crash, CallFails, InitChainRefused, InitGenesisRefused, MatchRefused, Refuse, fixed,
           ghosts, dbVars
  <1>2. CASE Crash
    BY <1>1, <1>2, EndsInv DEF Crash
  <1>3. CASE CallFails \/ InitChainRefused \/ InitGenesisRefused \/ MatchRefused
    <2>1. pc # "trim" /\ cut' = cut
      BY <1>3 DEF CallFails, InitChainRefused, InitGenesisRefused, MatchRefused, Refuse, fixed, ghosts
    <2> QED
      BY <1>1, <2>1, EndsInv
  <1> QED
    BY <1>2, <1>3

\* The steps that only read the database.
LEMMA ReadInv ==
    ASSUME StartUpInv,
           \/ Start \/ InitChain \/ Open \/ Fetch \/ FetchEnds \/ Opened
           \/ StartDump \/ Dump \/ DumpCloses
    PROVE  StartUpInv'
  <1>1. UNCHANGED <<setups, db, halfway, cut>>
    BY DEF Start, InitChain, Open, Fetch, FetchEnds, Opened, StartDump, Dump, DumpCloses, fixed, ghosts
  <1>2. \/ pc = "down" /\ pc' = "data" /\ known' = known
        \/ pc = "chain" /\ pc' = "open" /\ known' = [current |-> Enriched.current, root |-> Enriched.root]
        \/ pc = "open" /\ pc' = "store" /\ known' = known
        \/ pc = "store" /\ pc' = "store" /\ known' = known
        \/ pc = "store" /\ pc' = "dump" /\ known' = known /\ known = <<>>
        \/ pc = "store" /\ pc' = "match" /\ known' = known /\ known # <<>>
        \/ pc = "down" /\ pc' = "store" /\ known' = known
        \/ pc = "dump" /\ pc' = "dump" /\ known' = known
        \/ pc = "dump" /\ pc' = "down" /\ known' = known
    BY DEF Start, InitChain, Open, Fetch, FetchEnds, Opened, StartDump, Dump, DumpCloses
  <1>3. [current |-> Enriched.current, root |-> Enriched.root] # <<>>
    <2>1. "current" \in DOMAIN [current |-> Enriched.current, root |-> Enriched.root]
      OBVIOUS
    <2> QED
      BY <2>1, NoneIsOnce
  <1>4. KnownInv'
    BY <1>1, <1>2, <1>3 DEF StartUpInv, KnownInv, KnowsItsChain
  <1>5. pc = "open" => known # <<>>
    BY DEF StartUpInv, KnownInv, KnowsItsChain
  <1>6. pc = "down" => known = <<>>
    BY DEF StartUpInv, KnownInv, KnowsItsChain
  <1>7. Checked' => Checked
    BY <1>2, <1>5, <1>6 DEF Checked
  <1>8. Checked' => db.hash = CodeHash /\ db.aggHash = Setup.agg
    BY <1>7 DEF StartUpInv, SchemaInv
  <1> QED
    BY <1>1, <1>2, <1>4, <1>8, GoesOnInv

\* The operator moves on: who comes next may find a hash without its tables.
LEMMA MoveInv == ASSUME StartUpInv, Move PROVE StartUpInv'
  <1>1. /\ pc = "down" /\ UNCHANGED <<db, pc, known, untrimmed, cut>>
        /\ setups' = Tail(setups) /\ Len(setups) > 1
        /\ halfway' = (halfway \/ db.aggHash \notin {"", db.agg})
    BY DEF Move
  <1>2. KnownInv'
    <2>1. setups \in Seq(Setups) /\ Len(setups) > 1
      BY <1>1 DEF StartUpInv, KnownInv
    <2>2. Tail(setups) \in Seq(Setups) /\ Len(Tail(setups)) > 0
      BY <2>1
    <2> QED
      BY <1>1, <2>2 DEF StartUpInv, KnownInv
  <1>3. CreateInv'
    BY <1>1 DEF CreateInv
  <1>4. SchemaInv'
    BY <1>1 DEF StartUpInv, SchemaInv, Checked, AggregatesFit
  <1>5. RowsInv'
    BY <1>1 DEF StartUpInv, RowsInv, Heights, Kept
  <1> QED
    BY <1>2, <1>3, <1>4, <1>5 DEF StartUpInv

\* The hash is thrown away, and with it all tables, when they are next looked at.
LEMMA NukeInv == ASSUME StartUpInv, Nuke PROVE StartUpInv'
  <1>1. /\ pc = "down" /\ UNCHANGED <<setups, halfway, cut, pc, known, untrimmed>>
        /\ db' = [db EXCEPT !.hash = ""]
    BY DEF Nuke, fixed, ghosts
  <1>2. /\ DOMAIN db' = Fields /\ db'.hash = "" /\ db'.data = db.data
        /\ db'.aggHash = db.aggHash /\ db'.agg = db.agg
        /\ db'.blocks = db.blocks /\ db'.rows = db.rows /\ db'.states = db.states
    BY <1>1 DEF StartUpInv, SchemaInv, Fields
  <1>3. "" \notin Migrated /\ CodeHash # ""
    BY StartUpAssumption
  <1>4. KnownInv'
    BY <1>1 DEF StartUpInv, KnownInv
  <1>5. CreateInv'
    BY <1>1 DEF CreateInv
  <1>6. CoreIsStale'
    BY <1>2, <1>3 DEF CoreIsStale, liveDDLHash, Migrates
  <1>7. SchemaInv'
    BY <1>1, <1>2, <1>3, <1>6 DEF StartUpInv, SchemaInv, Checked
  <1>8. Heights' = Heights /\ Kept' = Kept
    BY <1>2 DEF Heights, Kept
  <1>9. RowsInv'
    BY <1>1, <1>2, <1>3, <1>8 DEF StartUpInv, RowsInv
  <1> QED
    BY <1>4, <1>5, <1>7, <1>9 DEF StartUpInv

\* What the parts do to the database.
LEMMA Parted ==
    ASSUME DOMAIN db = Fields, NEW part, db' = Apply(part)
    PROVE  /\ part \in Parts => DOMAIN db' = Fields
           /\ part \in {"drop midgard_agg", "aggregates", "aggregates hash"}
                 => /\ db'.hash = db.hash /\ db'.data = db.data /\ db'.blocks = db.blocks
                    /\ db'.rows = db.rows /\ db'.states = db.states
           /\ part = "drop midgard_agg" => db'.aggHash = db.aggHash
           /\ part = "aggregates" => db'.aggHash = db.aggHash /\ db'.agg = Setup.agg
           /\ part = "aggregates hash" => db'.aggHash = Setup.agg /\ db'.agg = db.agg
           /\ part \in {"drop midgard", "ddl.sql"}
                 => /\ db'.hash = "" /\ db'.aggHash = "" /\ db'.states = {}
                    /\ db'.blocks = <<>> /\ db'.rows = <<>>
           /\ part = "ddl.sql" => db'.data = CodeHash
           /\ part = "hash" => /\ db'.hash = CodeHash /\ db'.aggHash = db.aggHash
                               /\ db'.data = db.data /\ db'.agg = db.agg
                               /\ db'.blocks = db.blocks /\ db'.rows = db.rows /\ db'.states = db.states
  <1>1. CASE part = "drop midgard_agg"
    BY <1>1 DEF Apply, Fields
  <1>2. CASE part = "drop midgard"
    BY <1>2 DEF Apply, Fields, NoTables, EmptyTables
  <1>3. CASE part = "ddl.sql"
    BY <1>3 DEF Apply, Fields, EmptyTables
  <1>4. CASE part = "hash"
    BY <1>4 DEF Apply, Fields
  <1>5. CASE part = "aggregates"
    BY <1>5 DEF Apply, Fields
  <1>6. CASE part = "aggregates hash"
    BY <1>6 DEF Apply, Fields
  <1> QED
    BY <1>1, <1>2, <1>3, <1>4, <1>5, <1>6 DEF Parts

\* The tables are dropped and made: the hash comes last.
LEMMA CreateCoreInv == ASSUME StartUpInv, CreatePart, pc = "create" PROVE StartUpInv'
  <1> USE DEF StartUpInv
  <1>1. UNCHANGED <<setups, known, untrimmed>> /\ db' = Apply(Head(todo))
    BY DEF CreatePart
  <1>2. /\ IF Len(todo) > 1 THEN todo' = Tail(todo) /\ pc' = "create" ELSE pc' = "agg"
        /\ Head(todo) # "hash" => (cut' <=> cut)
        /\ Head(todo) # "aggregates hash" => (halfway' <=> halfway)
    BY DEF CreatePart
  <1>3. DOMAIN db = Fields /\ db.hash # CodeHash
    BY DEF SchemaInv, CreateInv
  <1>4. KnownInv'
    BY <1>1, <1>2 DEF KnownInv, KnowsItsChain
  <1>5. "" \notin Migrated /\ CodeHash \notin Migrated \cup {"", "bad"}
    BY StartUpAssumption
  <1>6. CASE todo = CoreDDL /\ (halfway \/ CoreIsStale)
    <2>1. Head(todo) = "drop midgard_agg" /\ pc' = "create" /\ todo' = CoreLeft3
      BY <1>6, PartDone, DdlHeads, DdlTails, DdlLengths
    <2>2. /\ DOMAIN db' = Fields /\ db'.hash = db.hash /\ db'.data = db.data /\ db'.aggHash = db.aggHash
          /\ db'.blocks = db.blocks /\ db'.rows = db.rows /\ db'.states = db.states
      BY <1>1, <1>3, <2>1, Parted DEF Parts
    <2>3. CoreIsStale' = CoreIsStale /\ Heights' = Heights /\ Kept' = Kept /\ Setup' = Setup
      BY <1>1, <2>2 DEF CoreIsStale, liveDDLHash, Migrates, Enriched, Setup, NoBlocks, Heights, Kept
    <2>4. halfway' \/ CoreIsStale'
      BY <1>2, <1>6, <2>1, <2>3
    <2>5. CreateInv'
      BY <1>3, <2>1, <2>2, <2>4 DEF CreateInv
    <2>6. SchemaInv'
      BY <2>1, <2>2, <2>4 DEF SchemaInv, Checked, AggregatesFit
    <2>7. RowsInv'
      BY <1>2, <2>1, <2>2, <2>3 DEF RowsInv
    <2> QED
      BY <1>4, <2>5, <2>6, <2>7
  <1>7. CASE todo = CoreLeft3 \/ (todo = CoreLeft2 /\ NothingInIt)
    <2>1. /\ pc' = "create" /\ Head(todo) \in Parts
          /\ \/ Head(todo) = "drop midgard" /\ todo' = CoreLeft2
             \/ Head(todo) = "ddl.sql" /\ todo' = CoreLeft1
      BY <1>7, PartDone, DdlHeads, DdlTails, DdlLengths DEF Parts
    <2>2. /\ DOMAIN db' = Fields /\ db'.states = {} /\ NothingInIt'
          /\ Head(todo) = "ddl.sql" => db'.data = CodeHash
      BY <1>1, <1>3, <2>1, Parted DEF NothingInIt
    <2>3. db'.hash = "" /\ db'.aggHash = "" /\ db'.blocks = <<>> /\ db'.rows = <<>>
      BY <2>2 DEF NothingInIt
    <2>4. CreateInv'
      BY <1>5, <2>1, <2>2, <2>3 DEF CreateInv
    <2>5. SchemaInv'
      BY <1>5, <2>1, <2>2, <2>3 DEF SchemaInv, Checked, AggregatesFit
    <2>6. RowsInv'
      <3>1. Heights' = {} /\ db'.rows = Once({})
        BY <2>3, NoneIsOnce DEF Heights
      <3>2. {} = 1..0 /\ 1 \in Nat /\ 0 \in Nat
        OBVIOUS
      <3> QED
        BY <2>1, <2>2, <3>1, <3>2 DEF RowsInv
    <2> QED
      BY <1>4, <2>4, <2>5, <2>6
  <1>8. CASE todo = CoreLeft1 /\ NothingInIt /\ db.data = CodeHash
    <2>1. Head(todo) = "hash" /\ pc' = "agg"
      BY <1>8, PartDone, DdlHeads, DdlLengths
    <2>2. /\ DOMAIN db' = Fields /\ db'.hash = CodeHash /\ db'.aggHash = "" /\ db'.data = CodeHash
          /\ db'.blocks = <<>> /\ db'.rows = <<>> /\ db'.states = db.states
      BY <1>1, <1>3, <1>8, <2>1, Parted DEF Parts, NothingInIt
    <2>3. CreateInv'
      BY <2>1 DEF CreateInv
    <2>4. SchemaInv'
      BY <1>5, <2>1, <2>2 DEF SchemaInv, Checked, AggregatesFit
    <2>5. RowsInv'
      <3>1. Heights' = {} /\ Heights = {} /\ db'.rows = Once({})
        BY <1>8, <2>2, NoneIsOnce DEF Heights, NothingInIt
      <3>2. {} = 1..0 /\ 1 \in Nat /\ 0 \in Nat
        OBVIOUS
      <3> QED
        BY <2>1, <2>2, <3>1, <3>2 DEF RowsInv
    <2> QED
      BY <1>4, <2>3, <2>4, <2>5
  <1> QED
    BY <1>6, <1>7, <1>8 DEF CreateInv

\* So are the aggregates.
LEMMA CreateAggregatesInv == ASSUME StartUpInv, CreatePart, pc = "createAgg" PROVE StartUpInv'
  <1> USE DEF StartUpInv
  <1>1. UNCHANGED <<setups, known, untrimmed>> /\ db' = Apply(Head(todo))
    BY DEF CreatePart
  <1>2. /\ IF Len(todo) > 1 THEN todo' = Tail(todo) /\ pc' = "createAgg" ELSE pc' = "chain"
        /\ Head(todo) # "hash" => (cut' <=> cut)
        /\ Head(todo) # "aggregates hash" => (halfway' <=> halfway)
    BY DEF CreatePart
  <1>3. DOMAIN db = Fields /\ db.hash = CodeHash /\ db.aggHash # Setup.agg
    BY DEF SchemaInv, CreateInv
  <1>4. KnownInv'
    BY <1>1, <1>2 DEF KnownInv, KnowsItsChain
  <1>5. Setup' = Setup /\ Setup.agg \notin Migrated \cup {"", "bad"}
    BY <1>1, SetupIs, ScenariosAssumption DEF Setup
  <1>6. \/ Head(todo) = "drop midgard_agg" /\ pc' = "createAgg" /\ todo' = AggregatesLeft2
        \/ Head(todo) = "aggregates" /\ pc' = "createAgg" /\ todo' = AggregatesLeft1
        \/ Head(todo) = "aggregates hash" /\ pc' = "chain" /\ db.agg = Setup.agg
    <2>1. CASE todo = AggregatesDDL
      BY <2>1, PartDone, DdlHeads, DdlTails, DdlLengths
    <2>2. CASE todo = AggregatesLeft2
      BY <2>2, PartDone, DdlHeads, DdlTails, DdlLengths
    <2>3. CASE todo = AggregatesLeft1 /\ db.agg = Setup.agg
      BY <2>3, PartDone, DdlHeads, DdlTails, DdlLengths
    <2> QED
      BY <2>1, <2>2, <2>3 DEF CreateInv
  <1>7. /\ Head(todo) \in Parts /\ (cut' <=> cut)
        /\ pc' = "createAgg" => (halfway' <=> halfway)
    BY <1>2, <1>6 DEF Parts
  <1>8. /\ DOMAIN db' = Fields /\ db'.hash = db.hash /\ db'.data = db.data
        /\ db'.blocks = db.blocks /\ db'.rows = db.rows /\ db'.states = db.states
        /\ pc' = "createAgg" => db'.aggHash = db.aggHash
        /\ Head(todo) = "aggregates" => db'.agg = Setup.agg
        /\ pc' = "chain" => db'.aggHash = Setup.agg /\ db'.agg = Setup.agg
    BY <1>1, <1>3, <1>6, <1>7, Parted
  <1>9. CreateInv'
    BY <1>3, <1>5, <1>6, <1>8 DEF CreateInv
  <1>10. SchemaInv'
    BY <1>3, <1>5, <1>6, <1>7, <1>8 DEF SchemaInv, Checked, AggregatesFit
  <1>11. Heights' = Heights /\ Kept' = Kept
    BY <1>8 DEF Heights, Kept
  <1>12. RowsInv'
    BY <1>6, <1>7, <1>8, <1>11 DEF RowsInv
  <1> QED
    BY <1>4, <1>9, <1>10, <1>12

\* A table is trimmed: the blocks and the rows from the height on go in any order.
LEMMA TrimInv == ASSUME StartUpInv, NEW table \in Tables, TrimTable(table) PROVE StartUpInv'
  <1> USE DEF StartUpInv
  <1>1. /\ pc = "trim" /\ table \in untrimmed /\ untrimmed' = untrimmed \ {table}
        /\ UNCHANGED <<setups, pc, known, halfway, cut>>
    BY DEF TrimTable, fixed, ghosts
  <1>2. /\ DOMAIN db' = Fields /\ db'.hash = db.hash /\ db'.data = db.data
        /\ db'.aggHash = db.aggHash /\ db'.agg = db.agg
        /\ table = "events" => /\ db'.blocks = db.blocks /\ db'.states = db.states
                               /\ db'.rows = Below(db.rows, TrimHeight)
        /\ table = "block_log" => /\ db'.blocks = Below(db.blocks, TrimHeight)
                                  /\ db'.states = {h \in db.states : h < TrimHeight}
                                  /\ db'.rows = db.rows
    BY DEF TrimTable, Tables, SchemaInv, Fields
  <1>3. db.hash \in Migrated /\ db.hash # CodeHash /\ untrimmed \subseteq Tables
    BY <1>1, StartUpAssumption DEF SchemaInv, RowsInv
  <1>4. KnownInv'
    BY <1>1 DEF KnownInv
  <1>5. CreateInv'
    BY <1>1 DEF CreateInv
  <1>6. SchemaInv'
    <2>1. AggregatesFit'
      BY <1>1, <1>2 DEF SchemaInv, AggregatesFit, Setup
    <2> QED
      BY <1>1, <1>2, <1>3, <2>1 DEF SchemaInv, Checked
  <1>7. TrimHeight \in Nat /\ TrimHeight > 0
    <2>1. TrimHeight \in Nat \ {0, 1}
      BY StartUpAssumption
    <2> QED
      BY <2>1
  <1>8. PICK first \in Nat, last \in Nat : Heights = first..last
    BY DEF RowsInv
  <1>9. Below(Once(Heights), TrimHeight) = Once(Kept) /\ Below(Once(Kept), TrimHeight) = Once(Kept)
    BY DEF Below, Once, Kept
  <1>10. CASE table = "events"
    <2>1. Heights' = Heights /\ Kept' = Kept
      BY <1>2, <1>10 DEF Heights, Kept
    <2>2. untrimmed' = {} \/ untrimmed' = {"block_log"}
      BY <1>1, <1>3, <1>10 DEF Tables
    <2>3. CASE untrimmed' = {"block_log"}
      <3>1. ~cut => db'.rows = Once(Kept)
        BY <1>1, <1>2, <1>9, <1>10, <2>3 DEF RowsInv
      <3> QED
        BY <1>1, <1>2, <1>3, <1>4, <1>5, <1>6, <1>10, <2>1, <2>3, <3>1 DEF RowsInv, Tables
    <2>4. CASE untrimmed' = {}
      <3>1. Heights = Kept /\ (~cut => db'.rows = Once(Heights))
        BY <1>1, <1>2, <1>10, <2>4 DEF RowsInv
      <3> QED
        BY <1>1, <1>2, <1>3, <1>4, <1>5, <1>6, <1>10, <2>1, <2>4, <3>1 DEF RowsInv, Tables
    <2> QED
      BY <2>2, <2>3, <2>4
  <1>11. CASE table = "block_log"
    <2>1. Heights' = Kept /\ Kept' = Kept
      BY <1>2, <1>11 DEF Heights, Kept, Below
    <2>2. \E a, b \in Nat : Kept = a..b
      <3>1. CASE last < TrimHeight
        <4>1. Kept = first..last
          BY <1>7, <1>8, <3>1 DEF Kept
        <4> QED
          BY <4>1
      <3>2. CASE ~(last < TrimHeight) /\ TrimHeight > 0
        <4>1. Kept = first..(TrimHeight - 1) /\ TrimHeight - 1 \in Nat
          BY <1>7, <1>8, <3>2 DEF Kept
        <4> QED
          BY <4>1
      <3> QED
        BY <1>7, <3>1, <3>2
    <2>3. db'.states \subseteq Heights'
      BY <1>2, <1>11, <2>1 DEF RowsInv, Kept
    <2>4. untrimmed' = {} \/ untrimmed' = {"events"}
      BY <1>1, <1>3, <1>11 DEF Tables
    <2>5. ~cut => db.rows = Once(Kept) \/ (db.rows = Once(Heights) /\ "events" \in untrimmed)
      BY <1>1, <1>3, <1>11 DEF RowsInv, Tables
    <2>6. CASE untrimmed' = {"events"}
      <3>1. ~cut => Below(db'.rows, TrimHeight) = Once(Kept)
        BY <1>2, <1>9, <1>11, <2>5
      <3> QED
        BY <1>1, <1>2, <1>4, <1>5, <1>6, <2>1, <2>2, <2>3, <2>6, <3>1 DEF RowsInv, Tables
    <2>7. CASE untrimmed' = {}
      <3>1. ~cut => db'.rows = Once(Kept)
        BY <1>1, <1>2, <1>11, <2>5, <2>7
      <3> QED
        BY <1>1, <1>2, <1>4, <1>5, <1>6, <2>1, <2>2, <2>3, <2>7, <3>1 DEF RowsInv, Tables
    <2> QED
      BY <2>4, <2>6, <2>7
  <1> QED
    BY <1>10, <1>11 DEF Tables

\* The migrated tables get the hash of the code: those of the hash they had are kept as they are.
LEMMA MigrateInv == ASSUME StartUpInv, Migrate PROVE StartUpInv'
  <1> USE DEF StartUpInv
  <1>1. /\ pc = "trim" /\ untrimmed = {} /\ pc' = "agg"
        /\ UNCHANGED <<setups, known, halfway, cut>>
        /\ db' = [db EXCEPT !.hash = CodeHash]
    BY DEF Migrate, fixed, ghosts
  <1>2. /\ DOMAIN db' = Fields /\ db'.hash = CodeHash /\ db'.data = db.data
        /\ db'.aggHash = db.aggHash /\ db'.agg = db.agg
        /\ db'.blocks = db.blocks /\ db'.rows = db.rows /\ db'.states = db.states
    BY <1>1 DEF SchemaInv, Fields
  <1>3. CodeHash \notin Migrated \cup {"", "bad"}
    BY StartUpAssumption
  <1>4. db.hash \in Migrated /\ db.data = CodeHash /\ db.hash # CodeHash
    BY <1>1, <1>3 DEF SchemaInv
  <1>5. KnownInv'
    BY <1>1 DEF KnownInv, KnowsItsChain
  <1>6. CreateInv'
    BY <1>1 DEF CreateInv
  <1>7. AggregatesFit'
    BY <1>1, <1>2 DEF SchemaInv, AggregatesFit, Setup
  <1>8. SchemaInv'
    BY <1>1, <1>2, <1>4, <1>7 DEF SchemaInv, Checked
  <1>9. Heights' = Heights /\ Kept' = Kept /\ Heights = Kept
    BY <1>1, <1>2 DEF Heights, Kept, RowsInv
  <1>10. RowsInv'
    BY <1>1, <1>2, <1>9 DEF RowsInv
  <1> QED
    BY <1>5, <1>6, <1>8, <1>10

\* A migration that fails: the tables are made anew, or the process ends.
LEMMA MigrationFailsInv == ASSUME StartUpInv, MigrationFails PROVE StartUpInv'
  <1> USE DEF StartUpInv
  <1>1. pc = "trim" /\ untrimmed = {} /\ UNCHANGED <<setups, cut, db>>
    BY DEF MigrationFails, dbVars
  <1>2. CASE Setup.noauto \/ Setup.noautoAgg
    <2>1. Down /\ UNCHANGED halfway
      BY <1>2 DEF MigrationFails
    <2> QED
      BY <1>1, <2>1, EndsInv
  <1>3. CASE ~(Setup.noauto \/ Setup.noautoAgg)
    <2>1. pc' = "create" /\ todo' = CoreDDL /\ halfway' = TRUE /\ known' = known
      BY <1>3 DEF MigrationFails
    <2>2. KnownInv'
      BY <1>1, <2>1 DEF KnownInv, KnowsItsChain
    <2>3. db.hash # CodeHash
      BY <1>1, StartUpAssumption DEF SchemaInv
    <2>4. CreateInv'
      BY <1>1, <2>1, <2>3 DEF CreateInv
    <2>5. SchemaInv'
      BY <1>1, <2>1, SameDatabase DEF SchemaInv, Checked, AggregatesFit
    <2>6. RowsInv'
      BY <1>1, <2>1, SameDatabase DEF RowsInv
    <2> QED
      BY <2>2, <2>4, <2>5, <2>6
  <1> QED
    BY <1>2, <1>3

\* The database belongs to the chain: the constants are written.
LEMMA MatchInv == ASSUME StartUpInv, EnsureDBMatchesChain \/ LoadGenesis PROVE StartUpInv'
  <1> USE DEF StartUpInv
  <1>1. /\ UNCHANGED <<setups, known, halfway, cut>>
        /\ \/ pc = "match" /\ pc' = "genesis"
           \/ pc = "genesis" /\ pc' = "running"
    BY DEF EnsureDBMatchesChain, LoadGenesis, fixed, ghosts
  <1>2. /\ DOMAIN db' = Fields /\ db'.hash = db.hash /\ db'.data = db.data
        /\ db'.aggHash = db.aggHash /\ db'.agg = db.agg
        /\ db'.blocks = db.blocks /\ db'.rows = db.rows /\ db'.states = db.states
    BY DEF EnsureDBMatchesChain, LoadGenesis, SchemaInv, Fields
  <1>3. KnownInv'
    BY <1>1 DEF KnownInv, KnowsItsChain
  <1>4. CreateInv'
    BY <1>1 DEF CreateInv
  <1>5. Setup' = Setup /\ Heights' = Heights /\ Kept' = Kept /\ db.hash = CodeHash
    BY <1>1, <1>2 DEF Setup, Heights, Kept, SchemaInv, Checked
  <1>6. SchemaInv'
    BY <1>1, <1>2, <1>5 DEF SchemaInv, Checked, AggregatesFit, CoreIsStale, liveDDLHash, Migrates,
                            Enriched, Setup, NoBlocks
  <1>7. RowsInv'
    BY <1>1, <1>2, <1>5 DEF RowsInv
  <1> QED
    BY <1>3, <1>4, <1>6, <1>7

\* The tables are marked to be made anew.
LEMMA OverrunInv == ASSUME StartUpInv, PreventOverrunAfterFork PROVE StartUpInv'
  <1> USE DEF StartUpInv
  <1>1. /\ UNCHANGED <<setups, halfway, cut>> /\ pc = "match" /\ pc' = "down" /\ known' = <<>>
        /\ db' = [db EXCEPT !.hash = "bad"]
    BY DEF PreventOverrunAfterFork, Down
  <1>2. /\ DOMAIN db' = Fields /\ db'.hash = "bad" /\ db'.data = db.data
        /\ db'.aggHash = db.aggHash /\ db'.agg = db.agg
        /\ db'.blocks = db.blocks /\ db'.rows = db.rows /\ db'.states = db.states
    BY <1>1 DEF SchemaInv, Fields
  <1>3. CodeHash \notin {"", "bad"} /\ "" \notin Migrated /\ db.data = CodeHash
    BY <1>1, StartUpAssumption DEF SchemaInv, Checked
  <1>4. KnownInv'
    BY <1>1 DEF KnownInv, KnowsItsChain
  <1>5. CreateInv'
    BY <1>1 DEF CreateInv
  <1>6. CoreIsStale'
    BY <1>2, <1>3 DEF CoreIsStale, liveDDLHash, Migrates
  <1>7. SchemaInv'
    BY <1>1, <1>2, <1>3, <1>6 DEF SchemaInv, Checked
  <1>8. Heights' = Heights /\ Kept' = Kept
    BY <1>2 DEF Heights, Kept
  <1>9. RowsInv'
    BY <1>1, <1>2, <1>3, <1>8 DEF RowsInv
  <1> QED
    BY <1>4, <1>5, <1>7, <1>9

\* The writer goes on behind the last block.
LEMMA NextIs ==
    ASSUME RowsInv, KnownInv
    PROVE  /\ NextHeight \in Nat
           /\ Heights \cap {h \in Nat : h >= NextHeight} = {}
           /\ \A last \in Nat : NextHeight <= last =>
                 \E a, b \in Nat : Heights \cup (NextHeight..last) = a..b
  <1>1. PICK first \in Nat, top \in Nat : Heights = first..top
    BY DEF RowsInv
  <1>2. CASE NoBlocks
    <2>1. NextHeight \in Nat
      <3>1. GenesisHeight \in Nat
        BY SetupIs, ScenariosAssumption DEF GenesisHeight
      <3> QED
        BY <1>2, <3>1 DEF NextHeight, LastHeight
    <2>2. Heights = {}
      BY <1>2 DEF NoBlocks
    <2>3. ASSUME NEW last \in Nat
          PROVE  \E a, b \in Nat : Heights \cup (NextHeight..last) = a..b
      <3>1. Heights \cup (NextHeight..last) = NextHeight..last
        BY <2>2
      <3> QED
        BY <2>1, <3>1
    <2> QED
      BY <2>1, <2>2, <2>3
  <1>3. CASE ~NoBlocks
    <2>1. first <= top
      BY <1>1, <1>3 DEF NoBlocks
    <2>2. LastHeight = top
      BY <1>1, <1>3, <2>1, MaxIs DEF LastHeight
    <2>3. NextHeight = top + 1
      BY <1>3, <2>2 DEF NextHeight
    <2>4. Heights \cap {h \in Nat : h >= NextHeight} = {}
      BY <1>1, <2>3
    <2>5. ASSUME NEW last \in Nat, NextHeight <= last
          PROVE  \E a, b \in Nat : Heights \cup (NextHeight..last) = a..b
      <3>1. Heights \cup (NextHeight..last) = first..last
        BY <1>1, <2>1, <2>3, <2>5
      <3> QED
        BY <3>1
    <2> QED
      BY <2>3, <2>4, <2>5
  <1> QED
    BY <1>2, <1>3

\* A batch is written.
LEMMA WriteInv == ASSUME StartUpInv, Write PROVE StartUpInv'
  <1> USE DEF StartUpInv
  <1>1. PICK last \in NextHeight..Setup.latest :
          LET batch == NextHeight..last
          IN  db' = [db EXCEPT
                        !.blocks = [h \in Heights \cup batch |-> IF h \in Heights THEN @[h] ELSE TheBlock(h)],
                        !.states = @ \cup {last},
                        !.rows = [h \in DOMAIN @ \cup batch |->
                                     (IF h \in DOMAIN @ THEN @[h] ELSE 0) + (IF h \in batch THEN 1 ELSE 0)]]
    BY DEF Write
  <1> DEFINE batch == NextHeight..last
  <1>2. pc = "running" /\ UNCHANGED <<setups, pc, known, halfway, cut>>
    BY DEF Write, fixed, ghosts
  <1>3. /\ DOMAIN db' = Fields /\ db'.hash = db.hash /\ db'.data = db.data
        /\ db'.aggHash = db.aggHash /\ db'.agg = db.agg
        /\ DOMAIN db'.blocks = Heights \cup batch
        /\ db'.states = db.states \cup {last}
        /\ db'.rows = [h \in DOMAIN db.rows \cup batch |->
                           (IF h \in DOMAIN db.rows THEN db.rows[h] ELSE 0) + (IF h \in batch THEN 1 ELSE 0)]
    BY <1>1 DEF SchemaInv, Fields
  <1>4. Setup.latest \in Nat
    BY SetupIs, ScenariosAssumption
  <1>5. NextHeight \in Nat /\ last \in Nat /\ NextHeight <= last
    BY <1>1, <1>4, NextIs
  <1>6. Heights' = Heights \cup batch
    BY <1>3 DEF Heights
  <1>7. last \in batch /\ Heights \cap batch = {}
    BY <1>5, NextIs
  <1>8. db.hash = CodeHash /\ Setup' = Setup
    BY <1>2 DEF SchemaInv, Checked, Setup
  <1>9. ~cut => db'.rows = Once(Heights')
    <2>1. SUFFICES ASSUME ~cut PROVE db'.rows = Once(Heights \cup batch)
      BY <1>6
    <2>2. db.rows = Once(Heights)
      BY <1>2, <1>8, <2>1 DEF RowsInv
    <2> QED
      BY <1>3, <1>7, <2>2 DEF Once
  <1>10. KnownInv'
    BY <1>2 DEF KnownInv
  <1>11. CreateInv'
    BY <1>2 DEF CreateInv
  <1>12. SchemaInv'
    <2>1. AggregatesFit
      <3>1. CodeHash # "bad"
        BY StartUpAssumption
      <3> QED
        BY <1>8, <3>1 DEF SchemaInv, CoreIsStale, liveDDLHash
    <2> QED
      BY <1>2, <1>3, <1>8, <2>1 DEF SchemaInv, Checked, AggregatesFit
  <1>13. \E a, b \in Nat : Heights' = a..b
    BY <1>5, <1>6, NextIs
  <1>14. RowsInv'
    BY <1>2, <1>3, <1>6, <1>7, <1>9, <1>13 DEF RowsInv
  <1> QED
    BY <1>10, <1>11, <1>12, <1>14

\* No step breaks the invariant.
LEMMA StartUpStep == ASSUME StartUpInv, [Next]_vars PROVE StartUpInv'
  <1>1. CASE CreatePart
    BY <1>1, CreateCoreInv, CreateAggregatesInv DEF CreatePart
  <1>2. CASE Checks /\ ~CreatePart
    BY <1>2, UpdateInv, MigrateInv, TrimInv, ReadInv, StopInv, MatchInv, OverrunInv DEF Checks
  <1>3. CASE Start \/ Stops \/ Operator
    BY <1>3, ReadInv, StopInv, MigrationFailsInv, MoveInv, NukeInv DEF Stops, Operator
  <1>4. CASE Write
    BY <1>4, WriteInv
  <1>5. CASE UNCHANGED vars
    <2>1. UNCHANGED <<setups, db, pc, todo, untrimmed, known, cut, halfway>>
      BY <1>5 DEF vars, ghosts
    <2>2. KnownInv' /\ CreateInv'
      BY <2>1, SameDatabase DEF StartUpInv, KnownInv, CreateInv, NothingInIt
    <2>3. SchemaInv'
      BY <2>1, SameDatabase DEF StartUpInv, SchemaInv, Checked
    <2>4. RowsInv'
      BY <2>1, SameDatabase DEF StartUpInv, RowsInv
    <2> QED
      BY <2>2, <2>3, <2>4 DEF StartUpInv
  <1> QED
    BY <1>1, <1>2, <1>3, <1>4, <1>5 DEF Next

-----------------------------------------------------------------------------
(* The type invariant: the block store and the process.                    *)

\* Somewhere in the next BlocksPerChunk heights a chunk ends.
LEMMA ChunkEnds ==
    ASSUME NEW n \in Nat, NEW C \in Nat \ {0}
    PROVE  \E i \in 1..C : (n + i) % C = 0
  <1>1. n % C \in 0..(C - 1) /\ n = C * (n \div C) + (n % C) /\ n \div C \in Int
    OBVIOUS
  <1> DEFINE i == C - (n % C)
             q == n \div C
  <1>2. i \in 1..C
    BY <1>1
  <1>3. n + i = C * (q + 1)
    BY <1>1
  <1>4. (C * (q + 1)) % C = 0
    <2>1. \A x \in Int : (C * x) % C = 0
      OBVIOUS
    <2> QED
      BY <1>1, <2>1
  <1> QED
    BY <1>2, <1>3, <1>4

\* A begun chunk is shorter than a whole one.
LEMMA BegunIsShort ==
    ASSUME NEW first \in Nat, NEW last \in Nat, last >= first,
           \A h \in (first + 1)..last : h % BlocksPerChunk # 0
    PROVE  Cardinality((first + 1)..last) < BlocksPerChunk
  <1>1. BlocksPerChunk \in Nat \ {0}
    BY BlockStoreAssumption
  <1>2. PICK i \in 1..BlocksPerChunk : (first + i) % BlocksPerChunk = 0
    BY <1>1, ChunkEnds
  <1>3. ~(first + i <= last)
    <2>1. first + i \in (first + 1)..last => (first + i) % BlocksPerChunk # 0
      OBVIOUS
    <2> QED
      BY <1>1, <1>2, <2>1
  <1>4. last - first < BlocksPerChunk
    BY <1>1, <1>3
  <1>5. Cardinality((first + 1)..last) = IF first + 1 > last THEN 0 ELSE last - (first + 1) + 1
    BY FS_Interval
  <1> QED
    BY <1>1, <1>4, <1>5

\* A height, rounded down to the end of a chunk.
LEMMA RoundedDown == ASSUME NEW n \in Nat PROVE n - (n % BlocksPerChunk) \in Nat
  <1>1. BlocksPerChunk \in Nat \ {0}
    BY BlockStoreAssumption
  <1>2. n % BlocksPerChunk \in 0..(BlocksPerChunk - 1)
    BY <1>1
  <1>3. CASE n < BlocksPerChunk
    <2>1. n % BlocksPerChunk = n
      BY <1>1, <1>3
    <2> QED
      BY <2>1
  <1>4. CASE ~(n < BlocksPerChunk)
    BY <1>1, <1>2, <1>4
  <1> QED
    BY <1>3, <1>4

\* A file that holds nothing is not longer than a chunk.
LEMMA NoFileIsShort == DOMAIN NoFile = {} /\ Cardinality(DOMAIN NoFile) <= BlocksPerChunk
  <1>1. BlocksPerChunk \in Nat \ {0}
    BY BlockStoreAssumption
  <1>2. Cardinality({}) = 0
    BY FS_EmptySet
  <1>3. DOMAIN NoFile = {}
    BY NoneIsOnce DEF NoFile
  <1> QED
    BY <1>1, <1>2, <1>3

\* The names stay heights, and one of them is the last.
LEMMA NewChunk ==
    ASSUME StoreInv, NEW name \in Nat, NEW chunk, folder' = WithChunk(name, chunk)
    PROVE  /\ DOMAIN folder' \subseteq Nat
           /\ \E top \in DOMAIN folder' : \A k \in DOMAIN folder' : k <= top
  <1>1. DOMAIN folder' = DOMAIN folder \cup {name} /\ DOMAIN folder \subseteq Nat
    BY DEF WithChunk, StoreInv
  <1>2. CASE DOMAIN folder = {}
    <2>1. name \in DOMAIN folder' /\ \A k \in DOMAIN folder' : k <= name
      BY <1>1, <1>2
    <2> QED
      BY <1>1, <2>1
  <1>3. CASE DOMAIN folder # {}
    <2>1. PICK top \in DOMAIN folder : \A k \in DOMAIN folder : k <= top
      BY <1>3 DEF StoreInv
    <2>2. CASE name <= top
      BY <1>1, <2>1, <2>2
    <2>3. CASE ~(name <= top)
      <3>1. \A k \in DOMAIN folder : k <= name
        BY <1>1, <2>1, <2>3
      <3> QED
        BY <1>1, <3>1
    <2> QED
      BY <2>2, <2>3
  <1> QED
    BY <1>1, <1>2, <1>3

\* The last chunk there is, and where a store without chunks begins.
LEMMA LastNameIs ==
    ASSUME StartUpInv, StoreInv
    PROVE  /\ LastName \in Nat
           /\ \A name \in DOMAIN folder : name <= LastName
           /\ DOMAIN folder # {} => LastName \in DOMAIN folder
  <1>1. CASE DOMAIN folder = {}
    <2>1. GenesisHeight \in Nat
      BY SetupIs, ScenariosAssumption DEF GenesisHeight, StartUpInv
    <2> QED
      BY <1>1, <2>1, RoundedDown DEF LastName, findLastFetchedHeight
  <1>2. CASE DOMAIN folder # {}
    <2>1. PICK top \in DOMAIN folder : \A k \in DOMAIN folder : k <= top
      BY <1>2 DEF StoreInv
    <2>2. top \in Nat /\ \A k \in DOMAIN folder : top >= k
      BY <2>1 DEF StoreInv
    <2>3. Max(DOMAIN folder) \in DOMAIN folder /\ \A k \in DOMAIN folder : Max(DOMAIN folder) >= k
      BY <2>1, <2>2 DEF Max
    <2>4. LastName = Max(DOMAIN folder)
      BY <1>2 DEF LastName, findLastFetchedHeight
    <2> QED
      BY <2>3, <2>4 DEF StoreInv
  <1> QED
    BY <1>1, <1>2

\* It is the chunk that was added behind all.
LEMMA AddedLast ==
    ASSUME NEW name \in Nat, DOMAIN folder' = DOMAIN folder \cup {name}, DOMAIN folder \subseteq Nat,
           \A k \in DOMAIN folder : k < name
    PROVE  LastName' = name
  <1>1. name \in DOMAIN folder' /\ \A k \in DOMAIN folder' : name >= k
    OBVIOUS
  <1>2. \A x \in DOMAIN folder' : (\A k \in DOMAIN folder' : x >= k) => x = name
    BY <1>1
  <1>3. Max(DOMAIN folder') = name
    BY <1>1, <1>2 DEF Max
  <1> QED
    BY <1>1, <1>3 DEF LastName, findLastFetchedHeight

\* The dump is at the height after what it has begun.
LEMMA DumpIsBehind ==
    ASSUME StartUpInv, StoreInv, NEW last \in Nat, Begun(last)
    PROVE  DumpHeight(GenesisHeight) = last + 1
  <1>1. LastName \in Nat
    BY LastNameIs
  <1>2. CASE last = LastName
    BY <1>2 DEF DumpHeight, Begun, LastName
  <1>3. CASE last # LastName
    <2>1. LastName + 1 \in Int /\ last \in Int /\ LastName + 1 <= last
      BY <1>1, <1>3 DEF Begun
    <2>2. Max(DOMAIN temporary) = last
      BY <2>1, MaxIs DEF Begun
    <2>3. temporary # NoFile
      BY <1>3 DEF Begun
    <2> QED
      BY <2>2, <2>3 DEF DumpHeight
  <1> QED
    BY <1>2, <1>3

\* It completes a chunk behind the last one, or goes on with the chunk it has begun.
LEMMA DumpIs ==
    ASSUME StartUpInv, StoreInv, Dump
    PROVE  \E last \in Nat :
              /\ Begun(last) /\ DumpHeight(GenesisHeight) = last + 1 /\ last + 1 <= DumpEnd
              /\ pc = "dump" /\ UNCHANGED <<setups, known, leftover, toFetch, stops, cut, misread, halfway, db>>
              /\ \/ folder' = WithChunk(last + 1, WithBlock(last + 1, NodeBlock(last + 1))) /\ temporary' = NoFile
                 \/ /\ (last + 1) % BlocksPerChunk # 0 /\ UNCHANGED <<folder, pc, lastFetched>>
                    /\ temporary' = WithBlock(last + 1, NodeBlock(last + 1))
              /\ \/ pc' = "down" /\ lastFetched' = 0
                 \/ UNCHANGED <<pc, lastFetched>>
  <1>1. pc = "dump"
    BY DEF Dump
  <1>2. PICK last \in Nat : Begun(last)
    BY <1>1 DEF StoreInv
  <1>3. DumpHeight(GenesisHeight) = last + 1
    BY <1>2, DumpIsBehind
  <1>4. last + 1 <= DumpEnd /\ UNCHANGED <<setups, known, leftover, toFetch, stops, db>>
    BY <1>3 DEF Dump, DumpBlock, fixed
  <1>5. UNCHANGED ghosts
    BY DEF Dump, fixed
  <1>6. /\ \/ folder' = WithChunk(last + 1, WithBlock(last + 1, NodeBlock(last + 1))) /\ temporary' = NoFile
           \/ /\ (last + 1) % BlocksPerChunk # 0 /\ UNCHANGED folder
              /\ last + 1 # Enriched.current.fork
              /\ temporary' = WithBlock(last + 1, NodeBlock(last + 1))
        /\ IF last + 1 = Enriched.current.fork THEN pc' = "down" /\ lastFetched' = 0 ELSE UNCHANGED <<pc, lastFetched>>
    BY <1>3 DEF Dump, DumpBlock
  <1>7. cut' = cut /\ misread' = misread /\ halfway' = halfway
    BY <1>5 DEF ghosts
  <1> QED
    BY <1>1, <1>2, <1>3, <1>4, <1>6, <1>7

\* The store as it was made.
LEMMA InitStore == ASSUME Init PROVE StoreInv /\ ProcessInv
  <1>1. folder = <<>> /\ leftover = FALSE /\ lastFetched = 0 /\ toFetch = {} /\ pc = "down"
    BY DEF Init, StoreInit
  <1>2. StoreInv
    BY <1>1, NoneIsOnce DEF StoreInv
  <1>3. known = <<>> /\ stops = 0 /\ cut = FALSE /\ misread = FALSE /\ halfway = FALSE /\ MaxStops \in Nat
    BY StartUpAssumption DEF Init
  <1>4. pc \in Pcs /\ stops \in 0..MaxStops
    BY <1>1, <1>3 DEF Pcs
  <1>5. cut \in BOOLEAN /\ misread \in BOOLEAN /\ halfway \in BOOLEAN
    BY <1>3
  <1> QED
    BY <1>2, <1>3, <1>4, <1>5 DEF ProcessInv

\* Most steps leave the files alone, and the dump.
LEMMA FilesStay ==
    ASSUME StoreInv, UNCHANGED <<folder, leftover>>, lastFetched' \in {0, lastFetched},
           toFetch' \in {{}, toFetch}, pc' \notin {"store", "dump"}
    PROVE  StoreInv'
  BY DEF StoreInv

\* The steps of the start-up, as far as they touch the store.
LEMMA StoreStep == ASSUME StartUpInv, StoreInv, [Next]_vars PROVE StoreInv'
  <1>1. CASE \/ Start \/ Crash \/ CallFails \/ Nuke \/ Move \/ UpdateData \/ UpdateAggregates \/ CreatePart
             \/ Migrate \/ MigrationFails \/ InitChain \/ InitChainRefused \/ InitGenesisRefused
             \/ EnsureDBMatchesChain \/ MatchRefused \/ PreventOverrunAfterFork \/ LoadGenesis \/ Write
             \/ \E table \in Tables : TrimTable(table)
    <2>1. CASE Crash \/ CallFails \/ InitChainRefused \/ InitGenesisRefused \/ MatchRefused
      <3>1. Down /\ UNCHANGED dbVars
        BY <2>1 DEF Crash, CallFails, InitChainRefused, InitGenesisRefused, MatchRefused, Refuse
      <3> QED
        BY <3>1, FilesStay DEF Down, dbVars
    <2>2. CASE MigrationFails
      <3>1. /\ UNCHANGED dbVars /\ pc' \in {"down", "create"}
            /\ lastFetched' \in {0, lastFetched} /\ toFetch' \in {{}, toFetch}
        BY <2>2 DEF MigrationFails, Down
      <3> QED
        BY <3>1, FilesStay DEF dbVars
    <2>3. CASE PreventOverrunAfterFork
      BY <2>3, FilesStay DEF PreventOverrunAfterFork, Down
    <2>4. CASE UpdateData \/ UpdateAggregates
      <3>1. \/ Down /\ UNCHANGED dbVars
            \/ UNCHANGED storeVars /\ pc' \in {"agg", "chain", "create", "createAgg", "trim"}
        BY <2>4 DEF UpdateData, UpdateAggregates, UpdateDDLRefused, UpdateDDLIfNeeded, Refuse
      <3> QED
        BY <3>1, FilesStay DEF Down, dbVars, storeVars
    <2>5. CASE \/ Start \/ Nuke \/ Move \/ CreatePart \/ Migrate \/ InitChain
               \/ EnsureDBMatchesChain \/ LoadGenesis \/ Write \/ \E table \in Tables : TrimTable(table)
      <3>1. UNCHANGED storeVars
        BY <2>5 DEF Start, Nuke, Move, CreatePart, Migrate, InitChain, EnsureDBMatchesChain, LoadGenesis,
                    Write, TrimTable
      <3>2. pc' \notin {"store", "dump"}
        BY <2>5 DEF Start, Nuke, Move, CreatePart, Migrate, InitChain, EnsureDBMatchesChain, LoadGenesis,
                    Write, TrimTable
      <3> QED
        BY <3>1, <3>2, FilesStay DEF storeVars
    <2> QED
      BY <1>1, <2>1, <2>2, <2>3, <2>4, <2>5
  <1>2. CASE Open \/ StartDump
    <2>1. /\ UNCHANGED <<setups, known, folder, lastFetched>> /\ pc' = "store"
          /\ leftover' \in {FALSE, leftover}
          /\ UNCHANGED toFetch \/ toFetch' \subseteq DOMAIN Remote \ DOMAIN folder
      BY <1>2 DEF Open, StartDump, OpenStore, cleanUp, storeVars, fixed
    <2>2. known' = <<>> => Setup'.store
      BY <1>2, <2>1 DEF Open, StartDump, StartUpInv, KnownInv, KnowsItsChain, Setup
    <2>3. leftover' \in BOOLEAN
      BY <2>1 DEF StoreInv
    <2> QED
      BY <2>1, <2>2, <2>3 DEF StoreInv
  <1>3. CASE Fetch
    <2>1. PICK name \in DOMAIN Remote : FetchChunk(name)
      BY <1>3 DEF Fetch
    <2>2. /\ folder' = WithChunk(name, Remote[name]) /\ toFetch' = toFetch \ {name}
          /\ UNCHANGED <<leftover, lastFetched, setups, pc, known>> /\ pc = "store"
      BY <1>3, <2>1 DEF Fetch, FetchChunk, fixed
    <2>3. name \in Nat
      BY BlockStoreAssumption
    <2>4. toFetch' \subseteq DOMAIN Remote /\ toFetch' \cap DOMAIN folder' = {}
      BY <2>2 DEF StoreInv, WithChunk
    <2> QED
      BY <2>2, <2>3, <2>4, NewChunk DEF StoreInv, Setup
  <1>4. CASE FetchEnds
    <2>1. PICK name \in DOMAIN Remote : FetchFails(name)
      BY <1>4 DEF FetchEnds
    <2>2. UNCHANGED <<folder, leftover, lastFetched, setups, pc, known>> /\ pc = "store" /\ toFetch' = {}
      BY <1>4, <2>1 DEF FetchEnds, FetchFails
    <2> QED
      BY <2>2 DEF StoreInv, Setup
  <1>5. CASE Opened
    <2>1. CASE Setup.store
      <3>1. /\ temporary' = NoFile /\ leftover' = FALSE /\ UNCHANGED <<folder, setups, toFetch>> /\ toFetch = {}
            /\ lastFetched' = LastName /\ pc' \in {"dump", "match"}
        BY <1>5, <2>1 DEF Opened, StoreOpened, cleanUp, LastName, fixed
      <3>2. LastName \in Nat /\ LastName' = LastName
        BY <3>1, LastNameIs DEF LastName, findLastFetchedHeight, GenesisHeight, Setup
      <3>3. PICK last \in Nat : last = LastName
        BY <3>2
      <3>4. Begun(last)'
        <4>1. DOMAIN temporary' = {} /\ (last + 1)..last = {}
          BY <3>1, <3>3, NoFileIsShort
        <4> QED
          BY <3>1, <3>2, <3>3, <4>1 DEF Begun
      <3> QED
        BY <3>1, <3>2, <3>4, NoFileIsShort DEF StoreInv
    <2>2. CASE ~Setup.store
      <3>1. known # <<>> /\ pc' = "match" /\ UNCHANGED storeVars
        BY <1>5, <2>2 DEF Opened, StoreInv
      <3> QED
        BY <3>1, FilesStay DEF storeVars
    <2> QED
      BY <2>1, <2>2
  <1>6. CASE Dump
    <2>1. PICK last \in Nat :
              /\ Begun(last) /\ UNCHANGED <<setups, leftover, toFetch>> /\ pc = "dump"
              /\ \/ folder' = WithChunk(last + 1, WithBlock(last + 1, NodeBlock(last + 1))) /\ temporary' = NoFile
                 \/ /\ (last + 1) % BlocksPerChunk # 0 /\ UNCHANGED <<folder, pc, lastFetched>>
                    /\ temporary' = WithBlock(last + 1, NodeBlock(last + 1))
              /\ \/ pc' = "down" /\ lastFetched' = 0
                 \/ UNCHANGED <<pc, lastFetched>>
      BY <1>6, DumpIs
    <2>2. /\ LastName \in Nat /\ \A name \in DOMAIN folder : name <= LastName
          /\ toFetch = {} /\ last >= LastName /\ lastFetched' \in Nat /\ leftover' \in BOOLEAN
      BY <2>1, LastNameIs DEF StoreInv, Begun
    <2>3. last + 1 \in Nat /\ last + 1 > LastName
      BY <2>1, <2>2
    <2>4. CASE folder' = WithChunk(last + 1, WithBlock(last + 1, NodeBlock(last + 1))) /\ temporary' = NoFile
      <3>1. DOMAIN folder' = DOMAIN folder \cup {last + 1}
        BY <2>4 DEF WithChunk
      <3>2. LastName' = last + 1
        <4>1. \A k \in DOMAIN folder : k < last + 1
          BY <2>2, <2>3 DEF StoreInv
        <4> QED
          BY <2>3, <3>1, <4>1, AddedLast DEF StoreInv
      <3>3. \E name \in Nat : Begun(name)'
        <4> DEFINE name == last + 1
        <4>1. DOMAIN temporary' = {} /\ (LastName' + 1)..name = {}
          BY <2>4, <2>3, <3>2, NoFileIsShort
        <4>2. name \in Nat /\ Begun(name)'
          BY <2>3, <2>4, <3>2, <4>1 DEF Begun
        <4> HIDE DEF name
        <4> QED
          BY <4>2
      <3>4. /\ DOMAIN folder' \subseteq Nat
            /\ \E top \in DOMAIN folder' : \A k \in DOMAIN folder' : k <= top
        BY <2>3, <2>4, NewChunk
      <3> QED
        BY <2>1, <2>2, <2>4, <3>3, <3>4, NoFileIsShort DEF StoreInv
    <2>5. CASE /\ (last + 1) % BlocksPerChunk # 0 /\ UNCHANGED <<folder, pc, lastFetched>>
               /\ temporary' = WithBlock(last + 1, NodeBlock(last + 1))
      <3>1. LastName' = LastName
        BY <2>1, <2>5 DEF LastName, findLastFetchedHeight, GenesisHeight, Setup
      <3>2. DOMAIN temporary' = DOMAIN temporary \cup {last + 1}
        BY <2>5 DEF WithBlock
      <3>3. DOMAIN temporary' = (LastName + 1)..(last + 1)
        BY <2>1, <2>2, <2>3, <3>2 DEF Begun
      <3>4. \A h \in DOMAIN temporary' : h % BlocksPerChunk # 0
        BY <2>1, <2>5, <3>2 DEF Begun
      <3>5. temporary' # NoFile
        BY <3>2, NoFileIsShort
      <3>6. \E name \in Nat : Begun(name)'
        <4> DEFINE name == last + 1
        <4>1. name \in Nat /\ name >= LastName /\ name # LastName
          BY <2>2, <2>3
        <4>2. Begun(name)'
          BY <3>1, <3>3, <3>4, <3>5, <4>1 DEF Begun
        <4> HIDE DEF name
        <4> QED
          BY <4>1, <4>2
      <3>7. Cardinality(DOMAIN temporary') <= BlocksPerChunk
        <4>1. \A h \in (LastName + 1)..(last + 1) : h % BlocksPerChunk # 0
          BY <3>3, <3>4
        <4>2. last + 1 >= LastName
          BY <2>2, <2>3
        <4>3. Cardinality((LastName + 1)..(last + 1)) < BlocksPerChunk
          BY <2>2, <2>3, <4>1, <4>2, BegunIsShort
        <4>4. Cardinality((LastName + 1)..(last + 1)) \in Nat /\ BlocksPerChunk \in Nat
          <5>1. LastName + 1 \in Int /\ last + 1 \in Int
            BY <2>2, <2>3
          <5>2. IsFiniteSet((LastName + 1)..(last + 1))
            BY <5>1, FS_Interval
          <5> QED
            BY <5>2, FS_CardinalityType, BlockStoreAssumption
        <4> QED
          BY <3>3, <4>3, <4>4
      <3> QED
        BY <2>1, <2>2, <2>5, <3>6, <3>7 DEF StoreInv
    <2> QED
      BY <2>1, <2>4, <2>5
  <1>7. CASE DumpCloses
    <2>1. /\ pc' = "down" /\ UNCHANGED <<folder, toFetch>> /\ lastFetched' = 0
          /\ leftover' = (leftover \/ temporary # NoFile)
      BY <1>7 DEF DumpCloses, CloseStore
    <2>2. leftover' \in BOOLEAN
      BY <2>1
    <2> QED
      BY <2>1, <2>2 DEF StoreInv
  <1>8. CASE UNCHANGED vars
    BY <1>8 DEF vars, storeVars, StoreInv, Setup, Begun, LastName, findLastFetchedHeight, GenesisHeight
  <1> QED
    BY <1>1, <1>2, <1>3, <1>4, <1>5, <1>6, <1>7, <1>8 DEF Next, Checks, Stops, Operator

\* A step leads to a place there is, and the chain is forgotten, kept or found out.
LEMMA PlaceStep ==
    ASSUME ProcessInv, [Next]_vars
    PROVE  pc' \in Pcs /\ (known' = <<>> \/ DOMAIN known' = {"current", "root"})
  <1>1. CASE Crash \/ CallFails \/ InitChainRefused \/ InitGenesisRefused \/ MatchRefused \/ PreventOverrunAfterFork
    BY <1>1 DEF Crash, CallFails, InitChainRefused, InitGenesisRefused, MatchRefused, PreventOverrunAfterFork,
                Refuse, Down, Pcs
  <1>2. CASE MigrationFails \/ UpdateData \/ UpdateAggregates
    BY <1>2 DEF MigrationFails, UpdateData, UpdateAggregates, UpdateDDLRefused, UpdateDDLIfNeeded,
                Refuse, Down, Pcs, ProcessInv
  <1>3. CASE \/ Start \/ Nuke \/ Move \/ CreatePart \/ Migrate \/ LoadGenesis \/ EnsureDBMatchesChain \/ Write
             \/ \E table \in Tables : TrimTable(table)
    BY <1>3 DEF Start, Nuke, Move, CreatePart, Migrate, LoadGenesis, EnsureDBMatchesChain, Write, TrimTable,
                Pcs, ProcessInv
  <1>4. CASE InitChain
    BY <1>4 DEF InitChain, Pcs
  <1>5. CASE Open \/ Fetch \/ FetchEnds \/ Opened
    BY <1>5 DEF Open, Fetch, FetchEnds, Opened, Pcs, ProcessInv
  <1>6. CASE StartDump \/ Dump \/ DumpCloses
    BY <1>6 DEF StartDump, Dump, DumpCloses, Pcs, ProcessInv
  <1>7. CASE UNCHANGED vars
    BY <1>7 DEF vars, ProcessInv
  <1> QED
    BY <1>1, <1>2, <1>3, <1>4, <1>5, <1>6, <1>7 DEF Next, Checks, Stops, Operator

\* Stops and failing calls are counted up to their bound.
LEMMA StopsStep == ASSUME ProcessInv, [Next]_vars PROVE stops' \in 0..MaxStops
  <1>1. stops' = stops \/ (stops < MaxStops /\ stops' = stops + 1)
    <2>1. CASE Crash \/ CallFails \/ MigrationFails \/ StartDump
      BY <2>1 DEF Crash, CallFails, MigrationFails, StartDump
    <2>2. CASE FetchEnds
      BY <2>2 DEF FetchEnds
    <2>3. CASE UpdateData \/ UpdateAggregates \/ InitChainRefused \/ InitGenesisRefused \/ MatchRefused
      BY <2>3 DEF UpdateData, UpdateAggregates, UpdateDDLRefused, UpdateDDLIfNeeded, InitChainRefused,
                  InitGenesisRefused, MatchRefused, Refuse, fixed
    <2>4. CASE \/ Start \/ Nuke \/ Move \/ CreatePart \/ Migrate \/ LoadGenesis \/ EnsureDBMatchesChain \/ Write
               \/ InitChain \/ PreventOverrunAfterFork \/ \E table \in Tables : TrimTable(table)
      BY <2>4 DEF Start, Nuke, Move, CreatePart, Migrate, LoadGenesis, EnsureDBMatchesChain, Write,
                  InitChain, PreventOverrunAfterFork, TrimTable, fixed
    <2>5. CASE Open \/ Fetch \/ Opened \/ Dump \/ DumpCloses
      BY <2>5 DEF Open, Fetch, Opened, Dump, DumpCloses, fixed
    <2>6. CASE UNCHANGED vars
      BY <2>6 DEF vars
    <2> QED
      BY <2>1, <2>2, <2>3, <2>4, <2>5, <2>6 DEF Next, Checks, Stops, Operator
  <1>2. stops \in 0..MaxStops /\ MaxStops \in Nat
    BY StartUpAssumption DEF ProcessInv
  <1> QED
    BY <1>1, <1>2

\* The ghosts are set and reset.
LEMMA GhostsStep ==
    ASSUME ProcessInv, [Next]_vars
    PROVE  cut' \in BOOLEAN /\ misread' \in BOOLEAN /\ halfway' \in BOOLEAN
  <1>1. CASE Crash \/ CreatePart \/ Move \/ MigrationFails \/ PreventOverrunAfterFork
    BY <1>1 DEF Crash, CreatePart, Move, MigrationFails, PreventOverrunAfterFork, ProcessInv
  <1>2. CASE UNCHANGED ghosts
    BY <1>2 DEF ghosts, ProcessInv
  <1>3. CASE UpdateData \/ UpdateAggregates \/ InitChainRefused \/ InitGenesisRefused \/ MatchRefused \/ CallFails
    BY <1>2, <1>3 DEF UpdateData, UpdateAggregates, UpdateDDLRefused, UpdateDDLIfNeeded, InitChainRefused,
                      InitGenesisRefused, MatchRefused, CallFails, Refuse, fixed
  <1>4. CASE \/ Start \/ Nuke \/ Migrate \/ LoadGenesis \/ EnsureDBMatchesChain \/ Write \/ InitChain
             \/ \E table \in Tables : TrimTable(table)
    BY <1>2, <1>4 DEF Start, Nuke, Migrate, LoadGenesis, EnsureDBMatchesChain, Write, InitChain, TrimTable, fixed
  <1>5. CASE \/ Open \/ Fetch \/ FetchEnds \/ Opened
             \/ StartDump \/ Dump \/ DumpCloses \/ UNCHANGED vars
    BY <1>2, <1>5 DEF Open, Fetch, FetchEnds, Opened, StartDump, Dump, DumpCloses, fixed, vars
  <1> QED
    BY <1>1, <1>3, <1>4, <1>5 DEF Next, Checks, Stops, Operator

-----------------------------------------------------------------------------
(* The block store can be read.                                            *)

\* The operator has a store for all blocks, now or later.
Wanted == \E i \in DOMAIN setups : HasWholeStore(setups[i])

\* Every height up to the last chunk is in the first chunk that reaches it.
Readable ==
    \A h \in Nat \ {0}, name \in DOMAIN folder :
        h <= name /\ (\A other \in DOMAIN folder : h <= other => name <= other)
            => h \in DOMAIN folder[name]

\* The store says it has the heights up to a chunk; what is listed and not to be fetched any more is
\* there.
HasStoreOpen == {"match", "dump", "genesis", "running"}
FolderInv ==
    /\ StoresAgree(setups)
    /\ lastFetched # 0 => Setup.store /\ pc \in HasStoreOpen
    /\ pc = "dump" => Setup.store
    /\ Wanted =>
          /\ Readable
          /\ lastFetched # 0 => lastFetched \in DOMAIN folder
          /\ toFetch # {} => toFetch \subseteq DOMAIN Remote /\ DOMAIN Remote \subseteq DOMAIN folder \cup toFetch

\* The chunk that findChunkPathForHeight leads to is the first that reaches the height.
LEMMA PathIs ==
    ASSUME NEW h \in Nat, DOMAIN folder \subseteq Nat, IsFiniteSet(DOMAIN folder),
           NEW name \in DOMAIN folder, h <= name,
           \A other \in DOMAIN folder : h <= other => name <= other
    PROVE  findChunkPathForHeight(h) = name
  <1> DEFINE names == DOMAIN folder
             chunks == Sorted(names)
             n == Cardinality(names)
  <1>1. /\ n \in Nat /\ chunks \in [1..n -> names]
        /\ \A t \in names : \E k \in 1..n : chunks[k] = t
        /\ Grows(chunks, n)
    <2>1. names \subseteq Int
      OBVIOUS
    <2> QED
      BY <2>1, SortedIs DEF Grows
  <1> HIDE DEF names
  <1>2. chunks \in [1..n -> Nat] /\ DOMAIN chunks = 1..n
    BY <1>1 DEF names
  <1>3. Len(chunks) = n
    <2>1. chunks = [k \in 1..n |-> chunks[k]]
      BY <1>1
    <2> HIDE DEF chunks
    <2> QED
      BY <1>1, <2>1
  <1>4. PICK k \in 1..n : chunks[k] = name
    BY <1>1 DEF names
  <1>5. findChunkPathForHeight(h) = (CHOOSE f : IsSearch(f, chunks, h))[<<1, n>>]
    BY <1>3 DEF findChunkPathForHeight, IsSearch, names
  <1> HIDE DEF n, chunks
  <1>6. \A f : IsSearch(f, chunks, h) => f[<<1, n>>] = Found(chunks, h, 1, n)
    <2>1. 1 \in 1..n /\ n \in 1..n
      BY <1>1, <1>4
    <2> QED
      BY <1>1, <1>2, <2>1, SearchIs
  <1>7. \E f : IsSearch(f, chunks, h)
    BY <1>1, <1>2, SearchIs
  <1>8. findChunkPathForHeight(h) = Found(chunks, h, 1, n)
    BY <1>5, <1>6, <1>7
  <1>9. k \in Reaching(chunks, h, 1, n) /\ \A i \in 1..n : i < k => chunks[i] < h
    <2>1. ASSUME NEW i \in 1..n, i < k PROVE chunks[i] < h
      <3>1. chunks[i] < name /\ chunks[i] \in names /\ chunks[i] \in Nat /\ name \in Nat
        BY <1>1, <1>2, <1>4, <2>1 DEF Grows
      <3>2. ~(h <= chunks[i])
        BY <3>1 DEF names
      <3> QED
        BY <3>1, <3>2
    <2> QED
      BY <1>4, <2>1 DEF Reaching
  <1>10. Min(Reaching(chunks, h, 1, n)) = k
    <2>1. 1 \in 1..n /\ n \in 1..n /\ 1 <= n
      BY <1>1, <1>4
    <2>2. n \in Nat /\ chunks \in [1..n -> Nat] /\ k \in Reaching(chunks, h, 1, n)
          /\ \A i \in 1..n : i < k => chunks[i] < h
      BY <1>1, <1>2, <1>9
    <2> QED
      BY <2>1, <2>2, FirstReaching
  <1> HIDE DEF names
  <1> QED
    <2>1. CASE 1 >= n
      <3>1. k = 1
        BY <1>1, <2>1
      <3> QED
        BY <1>4, <1>8, <2>1, <3>1 DEF Found
    <2>2. CASE ~(1 >= n)
      BY <1>4, <1>8, <1>10, <2>2 DEF Found
    <2> QED
      BY <2>1, <2>2


\* A new chunk has the heights since the chunk before it: no others are searched for in it.
LEMMA ChunkAdded ==
    ASSUME Readable, DOMAIN folder \subseteq Nat, NEW name \in Nat, NEW chunk,
           folder' = WithChunk(name, chunk),
           \A h \in 1..name : (\A other \in DOMAIN folder : other < name => other < h) => h \in DOMAIN chunk
    PROVE  Readable'
  <1>1. /\ DOMAIN folder' = DOMAIN folder \cup {name} /\ folder'[name] = chunk
        /\ \A n \in DOMAIN folder : n # name => folder'[n] = folder[n]
    BY DEF WithChunk
  <1>2. SUFFICES ASSUME NEW h \in Nat \ {0}, NEW n \in DOMAIN folder', h <= n,
                        \A other \in DOMAIN folder' : h <= other => n <= other
                 PROVE  h \in DOMAIN folder'[n]
    BY DEF Readable
  <1>3. CASE n = name
    <2>1. h \in 1..name
      BY <1>2, <1>3
    <2>2. \A other \in DOMAIN folder : other < name => other < h
      <3> TAKE other \in DOMAIN folder
      <3>1. other \in Nat /\ (h <= other => name <= other)
        BY <1>1, <1>2, <1>3
      <3> QED
        BY <3>1
    <2> QED
      BY <1>1, <1>3, <2>1, <2>2
  <1>4. CASE n # name
    <2>1. n \in DOMAIN folder /\ \A other \in DOMAIN folder : h <= other => n <= other
      BY <1>1, <1>2, <1>4
    <2> QED
      BY <1>1, <1>2, <1>4, <2>1 DEF Readable
  <1> QED
    BY <1>3, <1>4

\* Steps that leave the chunks alone, and are none of the dump's.
LEMMA ChunksStay ==
    ASSUME FolderInv, UNCHANGED <<setups, folder>>, toFetch' \in {{}, toFetch}, pc' # "dump",
           \/ lastFetched' = 0
           \/ lastFetched' = lastFetched /\ (pc \in HasStoreOpen => pc' \in HasStoreOpen)
    PROVE  FolderInv'
  <1>1. UNCHANGED Setup /\ (Wanted' <=> Wanted) /\ (Readable' <=> Readable)
        /\ (StoresAgree(setups)' <=> StoresAgree(setups))
    BY DEF Setup, Wanted, Readable, StoresAgree
  <1> QED
    BY <1>1 DEF FolderInv

\* With a store for all blocks nothing is rounded, and the last chunk is the last of them.
LEMMA LastIs ==
    ASSUME HasWholeStore(Setup), StoreInv
    PROVE  /\ GenesisHeight = 0
           /\ findLastFetchedHeight(GenesisHeight) =
                 IF DOMAIN folder = {} THEN 0 ELSE Max(DOMAIN folder)
           /\ DOMAIN folder # {} => /\ Max(DOMAIN folder) \in DOMAIN folder
                                    /\ \A name \in DOMAIN folder : name <= Max(DOMAIN folder)
  <1>1. GenesisHeight = 0
    BY DEF HasWholeStore, GenesisHeight
  <1>2. 0 - (0 % BlocksPerChunk) = 0
    <2>1. BlocksPerChunk \in Nat \ {0}
      BY BlockStoreAssumption
    <2> QED
      BY <2>1
  <1>3. ASSUME DOMAIN folder # {}
        PROVE  /\ Max(DOMAIN folder) \in DOMAIN folder
               /\ \A name \in DOMAIN folder : name <= Max(DOMAIN folder)
    <2>1. PICK top \in DOMAIN folder : \A k \in DOMAIN folder : k <= top
      BY <1>3 DEF StoreInv
    <2>2. top \in Nat /\ \A k \in DOMAIN folder : top >= k
      BY <2>1 DEF StoreInv
    <2>3. Max(DOMAIN folder) \in DOMAIN folder /\ \A k \in DOMAIN folder : Max(DOMAIN folder) >= k
      BY <2>1, <2>2 DEF Max
    <2> QED
      BY <2>2, <2>3 DEF StoreInv
  <1> QED
    BY <1>1, <1>2, <1>3 DEF findLastFetchedHeight

\* A store that is read or written is one for all blocks, if there ever is one.
LEMMA WholeIs ==
    ASSUME KnownInv, FolderInv
    PROVE  /\ Wanted /\ Setup.store => HasWholeStore(Setup)
           /\ HasWholeStore(Setup) => Wanted
  <1>1. 1 \in DOMAIN setups /\ Setup = setups[1]
    BY DEF KnownInv, Setup
  <1>2. Wanted /\ setups[1].store => HasWholeStore(setups[1])
    BY <1>1 DEF FolderInv, StoresAgree, Wanted
  <1>3. HasWholeStore(setups[1]) => Wanted
    BY <1>1 DEF Wanted
  <1> QED
    BY <1>1, <1>2, <1>3

LEMMA InitFolder == ASSUME Init PROVE FolderInv
  <1>1. folder = <<>> /\ lastFetched = 0 /\ toFetch = {} /\ pc = "down" /\ setups \in Scenarios
    BY DEF Init, StoreInit
  <1>2. StoresAgree(setups)
    BY <1>1, ScenariosAssumption
  <1>3. Readable
    BY <1>1, NoneIsOnce DEF Readable
  <1> QED
    BY <1>1, <1>2, <1>3 DEF FolderInv

\* The operator moves on.
LEMMA MoveFolder == ASSUME KnownInv, FolderInv, Move PROVE FolderInv'
  <1>1. /\ setups' = Tail(setups) /\ Len(setups) > 1 /\ setups \in Seq(Setups)
        /\ UNCHANGED <<folder, lastFetched, toFetch, pc>> /\ pc = "down"
    BY DEF Move, storeVars, KnownInv
  <1>2. \A i \in DOMAIN setups' : i + 1 \in DOMAIN setups /\ setups'[i] = setups[i + 1]
    BY <1>1
  <1>3. Wanted' => Wanted
    BY <1>2 DEF Wanted
  <1>4. StoresAgree(setups')
    BY <1>2 DEF FolderInv, StoresAgree
  <1>5. Readable' <=> Readable
    BY <1>1 DEF Readable
  <1>6. lastFetched = 0
    BY <1>1 DEF FolderInv, HasStoreOpen
  <1> QED
    BY <1>1, <1>3, <1>4, <1>5, <1>6 DEF FolderInv

\* The update from the repository fetches what is not there, the smallest name first.
LEMMA FetchFolder == ASSUME StoreInv, FolderInv, Fetch PROVE FolderInv'
  <1>1. PICK name \in DOMAIN Remote : FetchChunk(name)
    BY DEF Fetch
  <1>2. /\ toFetch # {} /\ name = Min(toFetch) /\ Remote[name] # NotThere
        /\ folder' = WithChunk(name, Remote[name]) /\ toFetch' = toFetch \ {name}
        /\ UNCHANGED <<setups, lastFetched, pc>> /\ pc = "store" /\ name \in Nat
    BY <1>1, BlockStoreAssumption DEF Fetch, FetchChunk, fixed
  <1>3. DOMAIN folder' = DOMAIN folder \cup {name} /\ DOMAIN folder \subseteq Nat
    BY <1>2 DEF WithChunk, StoreInv
  <1>4. UNCHANGED Setup /\ (Wanted' <=> Wanted) /\ (StoresAgree(setups)' <=> StoresAgree(setups))
    BY <1>2 DEF Setup, Wanted, StoresAgree
  <1>5. lastFetched = 0
    BY <1>2 DEF FolderInv, HasStoreOpen
  <1>6. ASSUME Wanted
        PROVE  Readable' /\ (toFetch' # {} => /\ toFetch' \subseteq DOMAIN Remote
                                              /\ DOMAIN Remote \subseteq DOMAIN folder' \cup toFetch')
    <2>1. Readable /\ toFetch \subseteq DOMAIN Remote /\ DOMAIN Remote \subseteq DOMAIN folder \cup toFetch
      BY <1>2, <1>6 DEF FolderInv
    <2>2. DOMAIN Remote \subseteq Nat
      BY BlockStoreAssumption
    <2>3. name \in toFetch /\ \A other \in toFetch : name <= other
      <3>1. toFetch \subseteq Nat
        BY <2>1, <2>2
      <3> QED
        BY <1>2, <3>1, MinIsOne
    <2>4. ASSUME NEW h \in 1..name, \A other \in DOMAIN folder : other < name => other < h
          PROVE  h \in DOMAIN Remote[name]
      <3>1. \A other \in DOMAIN Remote : other < name => other \in DOMAIN folder
        <4> TAKE other \in DOMAIN Remote
        <4>1. other \in Nat /\ (other \in toFetch => name <= other)
          BY <2>2, <2>3
        <4> QED
          BY <1>2, <2>1, <4>1
      <3>2. \A other \in DOMAIN Remote : other < name => other < h
        BY <2>4, <3>1
      <3> QED
        BY <1>2, <3>2, BlockStoreAssumption
    <2>5. Readable'
      BY <1>2, <1>3, <2>1, <2>4, ChunkAdded
    <2> QED
      BY <1>2, <1>3, <2>1, <2>5
  <1> QED
    BY <1>2, <1>4, <1>5, <1>6 DEF FolderInv

\* The dump completes a chunk behind the last one.
LEMMA DumpFolder == ASSUME StartUpInv, StoreInv, FolderInv, Dump PROVE FolderInv'
  <1>1. PICK last \in Nat :
            /\ Begun(last) /\ UNCHANGED <<setups, toFetch>> /\ pc = "dump"
            /\ \/ folder' = WithChunk(last + 1, WithBlock(last + 1, NodeBlock(last + 1)))
               \/ UNCHANGED folder
            /\ \/ pc' = "down" /\ lastFetched' = 0
               \/ UNCHANGED <<pc, lastFetched>>
    BY DumpIs
  <1>2. /\ LastName \in Nat /\ last >= LastName /\ DOMAIN folder \subseteq Nat /\ last + 1 \in Nat
        /\ DOMAIN folder # {} => LastName \in DOMAIN folder
    BY <1>1, LastNameIs DEF StoreInv, Begun
  <1>3. UNCHANGED Setup /\ (Wanted' <=> Wanted) /\ (StoresAgree(setups)' <=> StoresAgree(setups))
    BY <1>1 DEF Setup, Wanted, StoresAgree
  <1>4. CASE UNCHANGED folder
    <2>1. Readable' <=> Readable
      BY <1>4 DEF Readable
    <2> QED
      BY <1>1, <1>3, <1>4, <2>1 DEF FolderInv, HasStoreOpen
  <1>5. CASE folder' = WithChunk(last + 1, WithBlock(last + 1, NodeBlock(last + 1)))
    <2>1. DOMAIN folder' = DOMAIN folder \cup {last + 1}
      BY <1>5 DEF WithChunk
    <2>2. Setup.store
      BY <1>1 DEF FolderInv
    <2>3. ASSUME Wanted PROVE Readable'
      <3>1. Readable /\ (DOMAIN folder = {} => LastName = 0)
        BY <2>2, <2>3, WholeIs, LastIs DEF FolderInv, StartUpInv, LastName
      <3>2. DOMAIN WithBlock(last + 1, NodeBlock(last + 1)) = (LastName + 1)..last \cup {last + 1}
        BY <1>1 DEF WithBlock, Begun
      <3>3. ASSUME NEW h \in 1..(last + 1), \A other \in DOMAIN folder : other < last + 1 => other < h
            PROVE  h \in DOMAIN WithBlock(last + 1, NodeBlock(last + 1))
        <4>1. LastName < h
          <5>1. CASE DOMAIN folder = {}
            BY <3>1, <5>1
          <5>2. CASE DOMAIN folder # {}
            <6>1. LastName \in DOMAIN folder /\ LastName < last + 1
              BY <1>2, <5>2
            <6> QED
              BY <3>3, <6>1
          <5> QED
            BY <5>1, <5>2
        <4>2. h \in (LastName + 1)..last \cup {last + 1}
          BY <1>2, <4>1
        <4> QED
          BY <3>2, <4>2
      <3> QED
        BY <1>2, <1>5, <3>1, <3>3, ChunkAdded
    <2>4. toFetch \subseteq DOMAIN Remote /\ DOMAIN Remote \subseteq DOMAIN folder \cup toFetch
             => DOMAIN Remote \subseteq DOMAIN folder' \cup toFetch
      BY <2>1
    <2> QED
      BY <1>1, <1>3, <2>1, <2>2, <2>3, <2>4 DEF FolderInv, HasStoreOpen
  <1> QED
    BY <1>1, <1>4, <1>5

\* The store is being opened: what the repository lists and the folder does not have is looked at.
LEMMA OpenFolder == ASSUME KnownInv, FolderInv, Open \/ StartDump PROVE FolderInv'
  <1>1. /\ UNCHANGED <<setups, folder, lastFetched>> /\ pc' = "store" /\ lastFetched = 0
        /\ \/ UNCHANGED toFetch
           \/ /\ Setup.store
              /\ \/ toFetch' = {}
                 \/ toFetch' = {name \in DOMAIN Remote \ DOMAIN folder : name >= GenesisHeight}
    BY DEF Open, StartDump, OpenStore, storeVars, fixed, FolderInv, HasStoreOpen
  <1>2. CASE UNCHANGED toFetch \/ toFetch' = {}
    BY <1>1, <1>2, ChunksStay
  <1>3. CASE Setup.store /\ toFetch' = {name \in DOMAIN Remote \ DOMAIN folder : name >= GenesisHeight}
    <2>1. UNCHANGED Setup /\ (Wanted' <=> Wanted) /\ (Readable' <=> Readable)
          /\ (StoresAgree(setups)' <=> StoresAgree(setups))
      BY <1>1 DEF Setup, Wanted, Readable, StoresAgree
    <2>2. ASSUME Wanted PROVE toFetch' = DOMAIN Remote \ DOMAIN folder
      <3>1. GenesisHeight = 0
        BY <1>3, <2>2, WholeIs DEF HasWholeStore, GenesisHeight
      <3>2. \A name \in DOMAIN Remote : name >= 0
        BY BlockStoreAssumption
      <3> QED
        BY <1>3, <3>1, <3>2
    <2> QED
      BY <1>1, <2>1, <2>2 DEF FolderInv
  <1> QED
    BY <1>1, <1>2, <1>3

\* The store is open.
LEMMA OpenedFolder == ASSUME KnownInv, StoreInv, FolderInv, Opened PROVE FolderInv'
  <1>1. /\ pc = "store" /\ pc' = (IF known = <<>> THEN "dump" ELSE "match")
        /\ UNCHANGED <<setups, folder, toFetch>> /\ lastFetched = 0
    BY DEF Opened, StoreOpened, storeVars, fixed, FolderInv, HasStoreOpen
  <1>2. UNCHANGED Setup /\ (Wanted' <=> Wanted) /\ (Readable' <=> Readable)
        /\ (StoresAgree(setups)' <=> StoresAgree(setups))
    BY <1>1 DEF Setup, Wanted, Readable, StoresAgree
  <1>3. CASE ~Setup.store
    <2>1. lastFetched' = lastFetched /\ pc' = "match"
      BY <1>1, <1>3 DEF Opened, storeVars, StoreInv
    <2> QED
      BY <1>1, <2>1, ChunksStay
  <1>4. CASE Setup.store
    <2>1. toFetch = {} /\ lastFetched' = findLastFetchedHeight(GenesisHeight)
      BY <1>4 DEF Opened, StoreOpened
    <2>2. ASSUME Wanted PROVE lastFetched' # 0 => lastFetched' \in DOMAIN folder
      <3>1. HasWholeStore(Setup)
        BY <1>4, <2>2, WholeIs
      <3> QED
        BY <2>1, <3>1, LastIs
    <2> QED
      BY <1>1, <1>2, <1>4, <2>1, <2>2 DEF FolderInv, HasStoreOpen
  <1> QED
    BY <1>3, <1>4

\* The steps of the start-up, as far as they touch the chunks.
LEMMA FolderStep == ASSUME StartUpInv, StoreInv, FolderInv, [Next]_vars PROVE FolderInv'
  <1>1. CASE \/ Start \/ Crash \/ CallFails \/ Nuke \/ UpdateData \/ UpdateAggregates \/ CreatePart
             \/ Migrate \/ MigrationFails \/ InitChain \/ InitChainRefused \/ InitGenesisRefused
             \/ EnsureDBMatchesChain \/ MatchRefused \/ PreventOverrunAfterFork \/ LoadGenesis \/ Write
             \/ \E table \in Tables : TrimTable(table)
    <2>1. CASE Crash \/ CallFails \/ InitChainRefused \/ InitGenesisRefused \/ MatchRefused
      <3>1. Down /\ UNCHANGED <<setups, folder>>
        BY <2>1 DEF Crash, CallFails, InitChainRefused, InitGenesisRefused, MatchRefused, Refuse, dbVars, fixed
      <3> QED
        BY <3>1, ChunksStay DEF Down
    <2>2. CASE MigrationFails
      <3>1. /\ UNCHANGED <<setups, folder>> /\ pc = "trim"
            /\ Down \/ (pc' = "create" /\ UNCHANGED <<lastFetched, toFetch>>)
        BY <2>2 DEF MigrationFails, dbVars
      <3> QED
        BY <3>1, ChunksStay DEF Down, HasStoreOpen
    <2>3. CASE PreventOverrunAfterFork
      BY <2>3, ChunksStay DEF PreventOverrunAfterFork, Down
    <2>4. CASE UpdateData \/ UpdateAggregates
      <3>1. /\ UNCHANGED <<setups, folder>> /\ pc \notin HasStoreOpen
            /\ Down \/ (pc' # "dump" /\ UNCHANGED <<lastFetched, toFetch>>)
        BY <2>4 DEF UpdateData, UpdateAggregates, UpdateDDLRefused, UpdateDDLIfNeeded, Refuse, dbVars, storeVars,
                    fixed, HasStoreOpen
      <3> QED
        BY <3>1, ChunksStay DEF Down
    <2>5. CASE \/ Start \/ Nuke \/ CreatePart \/ Migrate \/ InitChain
               \/ EnsureDBMatchesChain \/ LoadGenesis \/ Write \/ \E table \in Tables : TrimTable(table)
      <3>1. UNCHANGED <<setups, folder, toFetch, lastFetched>>
        BY <2>5 DEF Start, Nuke, CreatePart, Migrate, InitChain, EnsureDBMatchesChain, LoadGenesis,
                    Write, TrimTable, fixed, storeVars
      <3>2. pc' # "dump" /\ (pc \in HasStoreOpen => pc' \in HasStoreOpen)
        BY <2>5 DEF Start, Nuke, CreatePart, Migrate, InitChain, EnsureDBMatchesChain, LoadGenesis,
                    Write, TrimTable, HasStoreOpen
      <3> QED
        BY <3>1, <3>2, ChunksStay
    <2> QED
      BY <1>1, <2>1, <2>2, <2>3, <2>4, <2>5
  <1>2. CASE Move
    BY <1>2, MoveFolder DEF StartUpInv
  <1>3. CASE Open \/ StartDump
    BY <1>3, OpenFolder DEF StartUpInv
  <1>4. CASE Fetch
    BY <1>4, FetchFolder
  <1>5. CASE FetchEnds
    <2>1. UNCHANGED <<setups, folder, lastFetched, pc>> /\ toFetch' = {} /\ pc = "store"
      BY <1>5 DEF FetchEnds, FetchFails
    <2> QED
      BY <2>1, ChunksStay
  <1>6. CASE Opened
    BY <1>6, OpenedFolder DEF StartUpInv
  <1>7. CASE Dump
    BY <1>7, DumpFolder
  <1>8. CASE DumpCloses
    <2>1. pc' = "down" /\ UNCHANGED <<setups, folder, toFetch>> /\ lastFetched' = 0
      BY <1>8 DEF DumpCloses, CloseStore, fixed
    <2> QED
      BY <2>1, ChunksStay
  <1>9. CASE UNCHANGED vars
    <2>1. UNCHANGED <<setups, folder, toFetch, lastFetched, pc, db>>
      BY <1>9 DEF vars, storeVars
    <2> QED
      BY <2>1 DEF FolderInv, Setup, Wanted, Readable, StoresAgree, HasStoreOpen
  <1> QED
    BY <1>1, <1>2, <1>3, <1>4, <1>5, <1>6, <1>7, <1>8, <1>9 DEF Next, Checks, Stops, Operator

\* Where a chunk reaches the height, the search leads to the first that does.
LEMMA SearchFinds ==
    ASSUME StoreInv, NEW h \in Nat, NEW reaching \in DOMAIN folder, h <= reaching
    PROVE  /\ findChunkPathForHeight(h) \in DOMAIN folder /\ h <= findChunkPathForHeight(h)
           /\ \A other \in DOMAIN folder : h <= other => findChunkPathForHeight(h) <= other
           /\ h <= Max(DOMAIN folder)
  <1>1. DOMAIN folder \subseteq Nat
    BY DEF StoreInv
  <1>2. PICK top \in DOMAIN folder : \A name \in DOMAIN folder : name <= top
    BY DEF StoreInv
  <1>3. IsFiniteSet(DOMAIN folder)
    BY <1>1, <1>2, FS_BoundedSetOfNaturals
  <1> DEFINE reach == {name \in DOMAIN folder : h <= name}
  <1>4. Min(reach) \in reach /\ \A other \in reach : Min(reach) <= other
    <2>1. reach \subseteq Nat /\ reach # {}
      BY <1>1
    <2> HIDE DEF reach
    <2> QED
      BY <2>1, MinIsOne
  <1>5. PICK name \in DOMAIN folder : h <= name /\ \A other \in DOMAIN folder : h <= other => name <= other
    BY <1>4
  <1>6. findChunkPathForHeight(h) = name
    BY <1>1, <1>3, <1>5, PathIs
  <1>7. h <= Max(DOMAIN folder)
    <2>1. top \in Nat /\ \A other \in DOMAIN folder : top >= other
      BY <1>1, <1>2
    <2>2. Max(DOMAIN folder) \in DOMAIN folder /\ \A other \in DOMAIN folder : Max(DOMAIN folder) >= other
      BY <1>2, <2>1 DEF Max
    <2> QED
      BY <1>1, <2>2
  <1> QED
    BY <1>5, <1>6, <1>7

\* Every height the store says it has is found.
LEMMA FoundIs ==
    ASSUME StoreInv, Readable, lastFetched \in DOMAIN folder, NEW h \in 1..lastFetched
    PROVE  StoreHasBlock(h)
  <1>1. DOMAIN folder \subseteq Nat /\ lastFetched \in Nat /\ h \in Nat \ {0} /\ h <= lastFetched
    BY DEF StoreInv
  <1>2. /\ findChunkPathForHeight(h) \in DOMAIN folder /\ h <= findChunkPathForHeight(h)
        /\ \A other \in DOMAIN folder : h <= other => findChunkPathForHeight(h) <= other
        /\ h <= Max(DOMAIN folder)
    BY <1>1, SearchFinds
  <1>3. h \in DOMAIN folder[findChunkPathForHeight(h)]
    BY <1>1, <1>2 DEF Readable
  <1> QED
    BY <1>2, <1>3 DEF StoreHasBlock

-----------------------------------------------------------------------------
(* Nothing of the parent past the fork: what is past the end of a chain.   *)

End(net) == World[net].end
\* What a process knows of its chain is what the infos make of the node's status; who dumps is on a
\* chain that is known, too.
ToldInv ==
    /\ pc \in KnowsItsChain \/ (pc = "store" /\ known # <<>>) =>
          Enriched.ok /\ known.current = Enriched.current /\ known.root = Enriched.root
    /\ pc = "dump" \/ (pc = "store" /\ known = <<>>) => Enriched.ok /\ Setup.store

\* What is past the end of a chain came of a node on it, one block after the other; where an operator
\* who is not told of a fork is still to come, or there, nothing else is past that end, neither in the
\* database nor in the store.
NamesUpTo(end) == \A name \in DOMAIN folder : name <= end
PastInv ==
    /\ \A net \in DOMAIN World : Unbroken(db.blocks, net)
    /\ NoReturn(setups)
    /\ \A i \in DOMAIN setups : Overruns(setups[i]) =>
          /\ AllPast(db.blocks, setups[i].net)
          /\ setups[i].store => NamesUpTo(End(setups[i].net))

\* Nothing is left of a chain that ends where the current one begins.
NothingLeft ==
    \A h \in Heights : \A net \in DOMAIN World :
        db.blocks[h] = Block(h, Bogus(net)) => End(net) + 1 # known.current.start
\* As long as the store has no block past an end; once it has one it always does.
ForkInv == ToldInv /\ (StoreIsReal => PastInv /\ (pc \in {"genesis", "running"} => NothingLeft))

\* At first there are the databases and no chunks.
LEMMA InitFork == ASSUME Init PROVE ForkInv
  <1>1. setups \in Scenarios /\ db \in Databases /\ pc = "down" /\ known = <<>> /\ folder = <<>>
    BY DEF Init, StoreInit
  <1>2. ToldInv /\ pc \notin {"genesis", "running"}
    BY <1>1 DEF ToldInv, KnowsItsChain
  <1>3. \A i \in DOMAIN setups : setups[i] \in Setups
    <2>1. setups \in Seq(Setups)
      BY InitStartUp DEF StartUpInv, KnownInv
    <2> QED
      BY <2>1
  <1>4. \A end : NamesUpTo(end)
    BY <1>1 DEF NamesUpTo
  <1>5. PastInv
    BY <1>1, <1>3, <1>4, OperatorsAssumption, BlocksAssumption DEF PastInv
  <1> QED
    BY <1>2, <1>5 DEF ForkInv


\* Blocks tell their height and their kind.
LEMMA KindsDiffer ==
    /\ \A x, y : Bogus(x) = Bogus(y) => x = y
    /\ \A x, y : Bogus(x) # <<"real", y>>
    /\ \A g, h, j, k : Block(g, j) = Block(h, k) => g = h /\ j = k
    /\ \A h, k : Block(h, k) # NoHash /\ Block(h, k)[2] = k
  <1>1. \A x, y : Bogus(x) = Bogus(y) => x = y
    BY DEF Bogus
  <1>2. \A x, y : Bogus(x) # <<"real", y>>
    BY DEF Bogus
  <1>3. \A g, h, j, k : Block(g, j) = Block(h, k) => g = h /\ j = k
    BY DEF Block
  <1>4. \A h, k : Block(h, k) # NoHash /\ Block(h, k)[2] = k
    BY DEF Block, NoHash
  <1> QED
    BY <1>1, <1>2, <1>3, <1>4

\* What is read from the store is in one of its chunks.
LEMMA StoredIs ==
    ASSUME StoreInv, NEW h \in Nat, Stored(h)
    PROVE  \E name \in DOMAIN folder : h \in DOMAIN folder[name] /\ TheBlock(h) = folder[name][h]
  <1>1. DOMAIN folder # {} /\ h <= Max(DOMAIN folder) /\ h \in DOMAIN folder[findChunkPathForHeight(h)]
    BY DEF Stored, StoreHasBlock
  <1>2. PICK top \in DOMAIN folder : \A name \in DOMAIN folder : name <= top
    BY <1>1 DEF StoreInv
  <1>3. top \in Nat /\ \A other \in DOMAIN folder : top >= other
    BY <1>2 DEF StoreInv
  <1>4. Max(DOMAIN folder) \in DOMAIN folder
    BY <1>3 DEF Max
  <1>5. findChunkPathForHeight(h) \in DOMAIN folder
    BY <1>1, <1>4, SearchFinds
  <1> QED
    BY <1>1, <1>5 DEF TheBlock, StoreBlock

\* A block past the end of a chain is of a node on that chain.
LEMMA BlockIs ==
    ASSUME StoreInv, StoreIsReal, NEW h \in Nat, NEW net \in DOMAIN World
    PROVE  /\ TheBlock(h) = Block(h, Bogus(net)) => ~Stored(h) /\ net = Setup.net /\ End(net) # 0 /\ h > End(net)
           /\ ~Stored(h) /\ End(Setup.net) # 0 /\ h > End(Setup.net) => TheBlock(h) = Block(h, Bogus(Setup.net))
  <1>1. ~Stored(h) => TheBlock(h) = Block(h, IF End(Setup.net) # 0 /\ h > End(Setup.net) THEN Bogus(Setup.net)
                                            ELSE Real(Setup.net))
    BY DEF TheBlock, NodeBlock, BlockOf, End
  <1>2. Stored(h) => TheBlock(h) # Block(h, Bogus(net))
    BY StoredIs DEF StoreIsReal
  <1>3. Real(Setup.net) # Bogus(net)
    BY KindsDiffer DEF Real
  <1> HIDE DEF Bogus, Real, Block
  <1> QED
    BY <1>1, <1>2, <1>3, KindsDiffer

\* Blocks are as they were or dropped.
Fewer == Heights' \subseteq Heights /\ \A h \in Heights' : db'.blocks[h] = db.blocks[h]

\* All steps but the writer's are such.
LEMMA FewerBlocks == ASSUME StartUpInv, [Next]_vars, ~Write PROVE Fewer
  <1>1. DOMAIN db = Fields
    BY DEF StartUpInv, SchemaInv
  <1>2. CASE db' = db
    BY <1>2 DEF Fewer, Heights
  <1>3. CASE CreatePart
    <2> DEFINE part == Head(todo)
    <2>1. db' = Apply(part)
      BY <1>3 DEF CreatePart
    <2>2. part \in {"drop midgard_agg", "hash", "aggregates", "aggregates hash"} => db'.blocks = db.blocks
      BY <1>1, <2>1 DEF Apply, Fields
    <2>3. part \in {"drop midgard", "ddl.sql"} => db'.blocks = <<>>
      BY <2>1 DEF Apply, NoTables, EmptyTables
    <2>4. part \in Parts
      BY <1>3, DdlHeads DEF CreatePart, StartUpInv, CreateInv, Parts
    <2>5. db'.blocks = db.blocks \/ db'.blocks = <<>>
      <3> HIDE DEF part
      <3> QED
        BY <2>2, <2>3, <2>4 DEF Parts
    <2> QED
      BY <2>5, NoneIsOnce DEF Fewer, Heights
  <1>4. CASE \E table \in Tables : TrimTable(table)
    <2>1. db'.blocks = db.blocks \/ db'.blocks = Below(db.blocks, TrimHeight)
      BY <1>1, <1>4 DEF TrimTable, Fields
    <2> QED
      BY <2>1 DEF Fewer, Heights, Below
  <1>5. CASE Nuke \/ Migrate \/ EnsureDBMatchesChain \/ PreventOverrunAfterFork \/ LoadGenesis
    <2>1. db'.blocks = db.blocks
      BY <1>1, <1>5 DEF Nuke, Migrate, EnsureDBMatchesChain, PreventOverrunAfterFork, LoadGenesis, Fields
    <2> QED
      BY <2>1 DEF Fewer, Heights
  <1>6. CASE UNCHANGED vars
    BY <1>2, <1>6 DEF vars
  <1>7. CASE Start \/ Crash \/ CallFails \/ Move \/ StartDump \/ Dump \/ DumpCloses
    BY <1>2, <1>7 DEF Start, Crash, CallFails, Move, StartDump, Dump, DumpCloses, dbVars
  <1>8. CASE UpdateData \/ UpdateAggregates \/ InitChain \/ InitChainRefused \/ InitGenesisRefused
             \/ Open \/ Fetch \/ FetchEnds \/ Opened \/ MatchRefused \/ MigrationFails
    BY <1>2, <1>8 DEF UpdateData, UpdateAggregates, UpdateDDLIfNeeded, UpdateDDLRefused, Refuse, InitChain,
         InitChainRefused, InitGenesisRefused, Open, Fetch, FetchEnds, Opened, MatchRefused, MigrationFails, dbVars
  <1> QED
    BY <1>3, <1>4, <1>5, <1>6, <1>7, <1>8 DEF Next, Checks, Stops, Operator

\* What a process knows of its chain is what the infos make of the node's status, and the dump is of a
\* chain that is known.
LEMMA ToldStep == ASSUME StartUpInv, ToldInv, [Next]_vars PROVE ToldInv'
  <1>1. CASE pc' \notin KnowsItsChain \cup {"store", "dump"}
    BY <1>1 DEF ToldInv, KnowsItsChain
  <1>2. ASSUME UNCHANGED <<setups, known>>, Enriched.ok, known # <<>>,
               known.current = Enriched.current /\ known.root = Enriched.root, pc' # "dump"
        PROVE  ToldInv'
    BY <1>2 DEF ToldInv, Enriched, Setup
  <1>3. ASSUME UNCHANGED <<setups, known>>, Enriched.ok, Setup.store, known = <<>>, pc' \in {"store", "dump"}
        PROVE  ToldInv'
    BY <1>3 DEF ToldInv, Enriched, Setup, KnowsItsChain
  <1>4. CASE InitChain
    <2>1. known' = [current |-> Enriched.current, root |-> Enriched.root] /\ Enriched.ok
          /\ UNCHANGED setups /\ pc' = "open"
      BY <1>4 DEF InitChain, fixed
    <2>2. Enriched' = Enriched
      BY <2>1 DEF Enriched, Setup
    <2> QED
      BY <2>1, <2>2 DEF ToldInv
  <1>5. CASE Open \/ EnsureDBMatchesChain \/ LoadGenesis \/ Write
    <2>1. UNCHANGED <<setups, known>> /\ pc \in KnowsItsChain /\ pc' # "dump"
      BY <1>5 DEF Open, EnsureDBMatchesChain, LoadGenesis, Write, fixed, KnowsItsChain
    <2> QED
      BY <1>2, <2>1 DEF ToldInv, StartUpInv, KnownInv
  <1>6. CASE Fetch \/ FetchEnds \/ UNCHANGED vars
    <2>1. UNCHANGED <<setups, known, pc>>
      BY <1>6 DEF Fetch, FetchEnds, fixed, vars
    <2>2. Enriched' = Enriched /\ Setup' = Setup
      BY <2>1 DEF Enriched, Setup
    <2> QED
      BY <2>1, <2>2 DEF ToldInv
  <1>7. CASE Opened
    <2>1. UNCHANGED <<setups, known>> /\ pc = "store" /\ pc' = IF known = <<>> THEN "dump" ELSE "match"
      BY <1>7 DEF Opened, fixed
    <2> QED
      BY <1>2, <1>3, <2>1 DEF ToldInv
  <1>8. CASE StartDump
    <2>1. UNCHANGED <<setups, known>> /\ pc = "down" /\ pc' = "store" /\ Enriched.ok /\ Setup.store
      BY <1>8 DEF StartDump
    <2>2. known = <<>>
      BY <2>1 DEF StartUpInv, KnownInv, KnowsItsChain
    <2> QED
      BY <1>3, <2>1, <2>2
  <1>9. CASE Dump
    <2>1. UNCHANGED <<setups, known>> /\ pc = "dump" /\ pc' \in {"dump", "down"}
      BY <1>9 DEF Dump, fixed
    <2>2. known = <<>>
      BY <2>1 DEF StartUpInv, KnownInv, KnowsItsChain
    <2> QED
      BY <1>1, <1>3, <2>1, <2>2 DEF ToldInv, KnowsItsChain
  <1>10. CASE Start \/ Stops \/ Move \/ Nuke \/ DumpCloses
    <2>1. pc' \in {"data", "down", "create"}
      BY <1>10 DEF Start, Stops, Crash, CallFails, MigrationFails, Move, Nuke, DumpCloses, Down
    <2> QED
      BY <1>1, <2>1 DEF KnowsItsChain
  <1>11. CASE \/ UpdateData \/ UpdateAggregates \/ CreatePart \/ Migrate
              \/ (\E table \in Tables : TrimTable(table)) \/ InitChainRefused \/ InitGenesisRefused
              \/ MatchRefused \/ PreventOverrunAfterFork
    <2>1. pc' \in {"down", "create", "createAgg", "trim", "agg", "chain"}
      BY <1>11 DEF UpdateData, UpdateAggregates, UpdateDDLIfNeeded, UpdateDDLRefused, Refuse, CreatePart, Migrate,
                   TrimTable, InitChainRefused, InitGenesisRefused, MatchRefused, PreventOverrunAfterFork, Down
    <2> QED
      BY <1>1, <2>1 DEF KnowsItsChain
  <1> QED
    BY <1>4, <1>5, <1>6, <1>7, <1>8, <1>9, <1>10, <1>11 DEF Next, Checks, Operator

\* The store gets no more chunks, if an operator not told of a fork uses it, than are for all.
Reach == \A i \in DOMAIN setups : Overruns(setups[i]) /\ setups[i].store => NamesUpTo(End(setups[i].net))

\* What reaches further reaches what is before it.
LEMMA Nearer ==
    ASSUME NEW setup \in Setups, NEW g \in Nat, NEW h \in Nat, g <= h, GetsAsFarAs(setup, h)
    PROVE  GetsAsFarAs(setup, g)
  <1>1. setup.latest \in Nat /\ Ancestry[setup].ok
    BY ScenariosAssumption DEF GetsAsFarAs
  <1>2. PICK fork \in Nat : fork = Ancestry[setup].current.fork
    BY <1>1, InfosAssumption
  <1>3. h <= setup.latest /\ (fork # 0 => h <= fork)
    BY <1>2 DEF GetsAsFarAs
  <1>4. g <= setup.latest /\ (fork # 0 => g <= fork)
    BY <1>1, <1>3
  <1> QED
    BY <1>1, <1>2, <1>4 DEF GetsAsFarAs

\* Where a setup gets that is now, one that goes on past an end later finds nothing of another chain.
LEMMA NotBefore ==
    ASSUME KnownInv, NoReturn(setups), NEW i \in DOMAIN setups, Overruns(setups[i]),
           NEW h \in Nat, GetsAsFarAs(Setup, h), End(setups[i].net) < h
    PROVE  setups[i].net = Setup.net /\ Overruns(Setup)
  <1>1. Setup = setups[1] /\ Setup \in Setups /\ setups[i] \in Setups /\ i \in Nat /\ i >= 1
        /\ 1 \in DOMAIN setups
    BY DEF KnownInv, Setup
  <1>2. End(setups[i].net) \in Nat
    BY <1>1, InfosAssumption DEF End
  <1>3. End(setups[i].net) + 1 \in Nat /\ End(setups[i].net) + 1 <= h
    BY <1>2
  <1>4. GetsAsFarAs(Setup, End(setups[i].net) + 1)
    BY <1>1, <1>3, Nearer
  <1>5. setups[i].net = Setup.net
    <2>1. CASE i = 1
      BY <1>1, <2>1
    <2>2. CASE 1 < i
      BY <1>1, <1>4, <2>2 DEF NoReturn, End
    <2> QED
      BY <1>1, <2>1, <2>2
  <1> QED
    BY <1>4, <1>5 DEF Overruns, End

\* What is not past its end at a height is not before it.
LEMMA DumpsNearer ==
    ASSUME NEW setup \in Setups, NEW g \in Nat, NEW h \in Nat, g <= h, Dumps(setup, h)
    PROVE  Dumps(setup, g)
  <1>1. setup.store /\ Ancestry[setup].ok /\ setup.latest \in Nat /\ h <= setup.latest
    BY ScenariosAssumption DEF Dumps
  <1>2. PICK end \in Nat : end = World[setup.net].end
    BY InfosAssumption
  <1>3. ~(end # 0 /\ h > end)
    <2>1. ASSUME end # 0 /\ h > end PROVE FALSE
      <3>1. Bogus(setup.net) = Real(setup.net)
        BY <1>2, <2>1, KindsDiffer DEF Dumps, BlockOf
      <3> QED
        BY <3>1, KindsDiffer DEF Real
    <2> QED
      BY <2>1
  <1>4. ~(end # 0 /\ g > end)
    BY <1>2, <1>3
  <1>5. BlockOf(setup.net, g) = Block(g, Real(setup.net))
    BY <1>2, <1>4 DEF BlockOf
  <1>6. g <= setup.latest
    BY <1>1
  <1> QED
    BY <1>1, <1>5, <1>6 DEF Dumps

\* All steps but the update's and the dump's leave the chunks alone.
LEMMA SameChunks ==
    ASSUME [Next]_vars, ~Fetch, ~Dump
    PROVE  UNCHANGED folder
  <1>1. CASE UNCHANGED vars
    BY <1>1 DEF vars, storeVars
  <1>2. CASE Start \/ Stops \/ Move \/ Nuke \/ DumpCloses \/ StartDump \/ Write
    BY <1>2 DEF Start, Stops, Crash, CallFails, MigrationFails, Move, Nuke, DumpCloses, CloseStore, Down,
                StartDump, OpenStore, Write, storeVars, dbVars
  <1>3. CASE \/ UpdateData \/ UpdateAggregates \/ CreatePart \/ Migrate
             \/ (\E table \in Tables : TrimTable(table)) \/ InitChainRefused \/ InitGenesisRefused
             \/ MatchRefused \/ PreventOverrunAfterFork
    BY <1>3 DEF UpdateData, UpdateAggregates, UpdateDDLIfNeeded, UpdateDDLRefused, Refuse, CreatePart, Migrate,
                TrimTable, InitChainRefused, InitGenesisRefused, MatchRefused, PreventOverrunAfterFork, Down,
                storeVars, dbVars
  <1>4. CASE InitChain \/ Open \/ FetchEnds \/ Opened \/ EnsureDBMatchesChain \/ LoadGenesis
    BY <1>4 DEF InitChain, Open, OpenStore, FetchEnds, FetchFails, Opened, StoreOpened, EnsureDBMatchesChain,
                LoadGenesis, storeVars
  <1> QED
    BY <1>1, <1>2, <1>3, <1>4 DEF Next, Checks, Operator

\* A chunk that is there stays as it is, so does a block past an end in it.
LEMMA RealBefore ==
    ASSUME StartUpInv, StoreInv, [Next]_vars, StoreIsReal'
    PROVE  StoreIsReal
  <1>1. ASSUME NEW name, name \notin DOMAIN folder, NEW chunk, folder' = WithChunk(name, chunk)
        PROVE  StoreIsReal
    <2>1. \A k \in DOMAIN folder : k \in DOMAIN folder' /\ folder'[k] = folder[k]
      BY <1>1 DEF WithChunk
    <2> QED
      BY <2>1 DEF StoreIsReal
  <1>2. CASE UNCHANGED folder
    BY <1>2 DEF StoreIsReal
  <1>3. CASE Fetch
    <2>1. PICK name \in DOMAIN Remote : FetchChunk(name)
      BY <1>3 DEF Fetch
    <2>2. name = Min(toFetch) /\ toFetch # {} /\ folder' = WithChunk(name, Remote[name])
          /\ toFetch' = toFetch \ {name}
      BY <2>1 DEF FetchChunk
    <2>3. name \notin DOMAIN folder
      <3>1. toFetch \subseteq Nat
        BY BlockStoreAssumption DEF StoreInv
      <3> QED
        BY <2>2, <3>1, MinIsOne DEF StoreInv
    <2> QED
      BY <1>1, <2>2, <2>3
  <1>4. CASE Dump
    <2>1. PICK last \in Nat :
            /\ Begun(last)
            /\ \/ folder' = WithChunk(last + 1, WithBlock(last + 1, NodeBlock(last + 1)))
               \/ UNCHANGED folder
      BY <1>4, DumpIs
    <2>2. last + 1 \notin DOMAIN folder
      BY <2>1, LastNameIs DEF Begun, StoreInv
    <2> QED
      BY <1>1, <1>2, <2>1, <2>2
  <1> QED
    BY <1>2, <1>3, <1>4, SameChunks

\* What is fetched and what is dumped is not past the end.
LEMMA ReachStep ==
    ASSUME StartUpInv, StoreInv, ToldInv, NoReturn(setups), Reach, [Next]_vars, UNCHANGED setups, StoreIsReal'
    PROVE  Reach'
  <1>1. ASSUME UNCHANGED folder PROVE Reach'
    BY <1>1 DEF Reach, NamesUpTo
  <1>2. \A i \in DOMAIN setups : setups[i] \in Setups
    BY DEF StartUpInv, KnownInv
  <1>3. ASSUME NEW name, DOMAIN folder' = DOMAIN folder \cup {name},
               \A i \in DOMAIN setups : Overruns(setups[i]) /\ setups[i].store => name <= End(setups[i].net)
        PROVE  Reach'
    BY <1>3 DEF Reach, NamesUpTo
  <1>4. CASE Fetch
    <2>1. PICK name \in DOMAIN Remote : folder' = WithChunk(name, Remote[name])
      BY <1>4 DEF Fetch, FetchChunk
    <2>2. DOMAIN folder' = DOMAIN folder \cup {name}
      BY <2>1 DEF WithChunk
    <2>3. \A i \in DOMAIN setups : Overruns(setups[i]) /\ setups[i].store => name <= End(setups[i].net)
      BY <1>2, OperatorsAssumption DEF End
    <2> QED
      BY <1>3, <2>2, <2>3
  <1>5. CASE Dump
    <2>1. PICK last \in Nat :
              /\ last + 1 <= DumpEnd /\ pc = "dump"
              /\ \/ folder' = WithChunk(last + 1, WithBlock(last + 1, NodeBlock(last + 1)))
                 \/ UNCHANGED folder
      BY <1>5, DumpIs
    <2>2. Enriched.ok /\ Setup.store
      BY <2>1 DEF ToldInv
    <2>3. Setup = setups[1] /\ 1 \in DOMAIN setups /\ Setup \in Setups /\ Setup.latest \in Nat
          /\ Setup.net \in DOMAIN World
      <3>1. Setup = setups[1] /\ 1 \in DOMAIN setups /\ Setup \in Setups
        BY DEF StartUpInv, KnownInv, Setup
      <3>2. Setup.latest \in Nat
        BY <3>1, ScenariosAssumption
      <3>3. Setup.net \in DOMAIN World
        BY <3>1, InfosAssumption
      <3> QED
        BY <3>1, <3>2, <3>3
    <2>4. last + 1 \in Nat /\ last + 1 <= Setup.latest
      <3>1. Setup.latest - (Setup.latest % BlocksPerChunk) \in Nat
            /\ Setup.latest - (Setup.latest % BlocksPerChunk) <= Setup.latest
        <4>1. BlocksPerChunk \in Nat \ {0}
          BY BlockStoreAssumption
        <4>2. Setup.latest % BlocksPerChunk \in 0..(BlocksPerChunk - 1)
          BY <2>3, <4>1
        <4> QED
          BY <2>3, <4>2, RoundedDown
      <3>2. PICK fork \in Nat : fork = Enriched.current.fork
        BY <2>2, <2>3, InfosAssumption DEF Enriched
      <3>3. DumpEnd \in Nat /\ DumpEnd <= Setup.latest
        BY <2>3, <3>1, <3>2 DEF DumpEnd
      <3> QED
        BY <2>1, <2>3, <3>3
    <2>5. CASE UNCHANGED folder
      BY <1>1, <2>5
    <2>6. CASE folder' = WithChunk(last + 1, WithBlock(last + 1, NodeBlock(last + 1)))
      <3>1. DOMAIN folder' = DOMAIN folder \cup {last + 1}
        BY <2>6 DEF WithChunk
      <3>2. NodeBlock(last + 1) # Block(last + 1, Bogus(Setup.net))
        <4>1. last + 1 \in DOMAIN folder' /\ folder'[last + 1] = WithBlock(last + 1, NodeBlock(last + 1))
          BY <2>6 DEF WithChunk
        <4>2. /\ last + 1 \in DOMAIN WithBlock(last + 1, NodeBlock(last + 1))
              /\ WithBlock(last + 1, NodeBlock(last + 1))[last + 1] = NodeBlock(last + 1)
          BY DEF WithBlock
        <4> QED
          BY <2>3, <4>1, <4>2 DEF StoreIsReal
      <3>3. Dumps(Setup, last + 1) /\ ~(End(Setup.net) # 0 /\ last + 1 > End(Setup.net))
        <4>1. ~(End(Setup.net) # 0 /\ last + 1 > End(Setup.net))
          BY <3>2 DEF NodeBlock, BlockOf, End
        <4>2. BlockOf(Setup.net, last + 1) = Block(last + 1, Real(Setup.net))
          BY <4>1 DEF BlockOf, End
        <4> QED
          BY <2>2, <2>4, <4>1, <4>2 DEF Dumps, Enriched
      <3>4. ASSUME NEW i \in DOMAIN setups, Overruns(setups[i]) PROVE last + 1 <= End(setups[i].net)
        <4>1. PICK end \in Nat : end = End(setups[i].net) /\ end # 0
          BY <1>2, <3>4, InfosAssumption DEF End, Overruns
        <4> SUFFICES ASSUME end < last + 1 PROVE FALSE
          BY <2>4, <4>1
        <4>2. setups[i].net # Setup.net
          BY <2>4, <3>3, <4>1
        <4>3. end + 1 \in Nat /\ end + 1 <= last + 1
          BY <2>4, <4>1
        <4>4. Dumps(Setup, end + 1)
          BY <2>3, <2>4, <3>3, <4>3, DumpsNearer
        <4>5. 1 < i
          <5>1. i \in Nat /\ i >= 1 /\ i # 1
            BY <2>3, <4>2 DEF StartUpInv, KnownInv
          <5> QED
            BY <5>1
        <4> QED
          BY <2>3, <3>4, <4>1, <4>2, <4>4, <4>5 DEF NoReturn, End
      <3> QED
        BY <1>3, <3>1, <3>4
    <2> QED
      BY <2>1, <2>5, <2>6
  <1>6. ~Fetch /\ ~Dump => UNCHANGED folder
    BY SameChunks
  <1> QED
    BY <1>1, <1>4, <1>5, <1>6

\* Without blocks written, what is past an end stays so.
LEMMA FewerPast ==
    ASSUME NEW net, Fewer
    PROVE  /\ Unbroken(db.blocks, net) => Unbroken(db'.blocks, net)
           /\ AllPast(db.blocks, net) => AllPast(db'.blocks, net)
  BY DEF Fewer, Heights, Unbroken, AllPast

\* The operator moves on only while Midgard is down.
LEMMA MovesOn ==
    ASSUME StartUpInv, [Next]_vars
    PROVE  \/ UNCHANGED setups
           \/ /\ Move /\ UNCHANGED <<db, folder, pc>>
              /\ \A i \in DOMAIN setups' : i + 1 \in DOMAIN setups /\ setups'[i] = setups[i + 1] /\ i \in Nat
  <1>1. CASE Move
    <2>1. setups' = Tail(setups) /\ setups \in Seq(Setups) /\ Len(setups) > 1 /\ UNCHANGED <<db, folder, pc>>
      BY <1>1 DEF Move, storeVars, StartUpInv, KnownInv
    <2>2. \A i \in DOMAIN setups' : i + 1 \in DOMAIN setups /\ setups'[i] = setups[i + 1] /\ i \in Nat
      BY <2>1
    <2> QED
      BY <1>1, <2>1, <2>2
  <1>2. CASE Start \/ Stops \/ Nuke \/ DumpCloses \/ StartDump \/ Write \/ Dump
             \/ UNCHANGED vars
    BY <1>2 DEF Start, Stops, Crash, CallFails, MigrationFails, Nuke, DumpCloses, StartDump, Write, Dump, vars, fixed
  <1>3. CASE \/ UpdateData \/ UpdateAggregates \/ CreatePart \/ Migrate
             \/ (\E table \in Tables : TrimTable(table)) \/ InitChainRefused \/ InitGenesisRefused
             \/ MatchRefused \/ PreventOverrunAfterFork
    BY <1>3 DEF UpdateData, UpdateAggregates, UpdateDDLIfNeeded, UpdateDDLRefused, Refuse, CreatePart, Migrate,
                TrimTable, InitChainRefused, InitGenesisRefused, MatchRefused, PreventOverrunAfterFork, fixed
  <1>4. CASE InitChain \/ Open \/ Fetch \/ FetchEnds \/ Opened \/ EnsureDBMatchesChain \/ LoadGenesis
    BY <1>4 DEF InitChain, Open, Fetch, FetchEnds, Opened, EnsureDBMatchesChain, LoadGenesis, fixed
  <1> QED
    BY <1>1, <1>2, <1>3, <1>4 DEF Next, Checks, Operator

\* So nothing but the writer ...
LEMMA PastStep ==
    ASSUME StartUpInv, StoreInv, ToldInv, PastInv, [Next]_vars, ~Write, StoreIsReal'
    PROVE  PastInv'
  <1>1. Fewer
    BY FewerBlocks
  <1>2. \A net \in DOMAIN World : Unbroken(db'.blocks, net)
    BY <1>1, FewerPast DEF PastInv
  <1>3. CASE UNCHANGED setups
    <2>1. Reach /\ NoReturn(setups)
      BY DEF PastInv, Reach
    <2>2. Reach'
      BY <1>3, <2>1, ReachStep
    <2>3. \A i \in DOMAIN setups' : Overruns(setups'[i]) => AllPast(db'.blocks, setups'[i].net)
      BY <1>1, <1>3, FewerPast DEF PastInv
    <2>4. NoReturn(setups')
      BY <1>3, <2>1
    <2> QED
      BY <1>2, <2>2, <2>3, <2>4 DEF PastInv, Reach
  <1>4. CASE ~UNCHANGED setups
    <2>1. /\ UNCHANGED <<db, folder, pc>>
          /\ \A i \in DOMAIN setups' : i + 1 \in DOMAIN setups /\ setups'[i] = setups[i + 1] /\ i \in Nat
      BY <1>4, MovesOn
    <2>2. NoReturn(setups')
      BY <2>1 DEF PastInv, NoReturn
    <2>3. \A i \in DOMAIN setups' : Overruns(setups'[i]) =>
             /\ AllPast(db'.blocks, setups'[i].net)
             /\ setups'[i].store => \A name \in DOMAIN folder' : name <= End(setups'[i].net)
      BY <2>1 DEF PastInv, NamesUpTo
    <2> QED
      BY <1>2, <2>2, <2>3 DEF PastInv, NamesUpTo
  <1> QED
    BY <1>3, <1>4

\* Of a chain that is gone on with past its end, only the node has the blocks after it.
LEMMA PastBlocks ==
    ASSUME StartUpInv, StoreInv, StoreIsReal, PastInv, Overruns(Setup), NEW h \in Nat, End(Setup.net) < h
    PROVE  TheBlock(h) = Block(h, Bogus(Setup.net))
  <1>1. Setup = setups[1] /\ 1 \in DOMAIN setups /\ Setup \in Setups
    BY DEF StartUpInv, KnownInv, Setup
  <1>2. End(Setup.net) \in Nat /\ End(Setup.net) # 0
    BY <1>1, InfosAssumption DEF Overruns, End
  <1>3. ~Stored(h)
    <2>1. SUFFICES ASSUME Setup.store, DOMAIN folder # {}, h <= Max(DOMAIN folder) PROVE FALSE
      BY DEF Stored, StoreHasBlock
    <2>2. \A name \in DOMAIN folder : name \in Nat /\ name <= End(Setup.net)
      BY <1>1, <2>1 DEF PastInv, NamesUpTo, StoreInv
    <2>3. Max(DOMAIN folder) \in DOMAIN folder
      <3>1. PICK top \in DOMAIN folder : \A name \in DOMAIN folder : name <= top
        BY <2>1 DEF StoreInv
      <3>2. \A name \in DOMAIN folder : top >= name
        BY <2>2, <3>1
      <3> QED
        BY <3>2 DEF Max
    <2> QED
      BY <1>2, <2>1, <2>2, <2>3
  <1>4. Setup.net \in DOMAIN World
    BY <1>1, InfosAssumption
  <1> QED
    BY <1>2, <1>3, <1>4, BlockIs

\* The blocks of a batch come after all there are, and the setup gets as far as them.
LEMMA BatchIs ==
    ASSUME StartUpInv, ToldInv, Write
    PROVE  \E batch \in SUBSET Nat :
              /\ Heights' = Heights \cup batch /\ UNCHANGED <<setups, known, pc, folder>>
              /\ \A h \in Heights : db'.blocks[h] = db.blocks[h]
              /\ \A h \in batch : /\ db'.blocks[h] = TheBlock(h) /\ GetsAsFarAs(Setup, h)
                                  /\ \A k \in Heights : k \in Nat /\ k < h
  <1>1. PICK last \in NextHeight..Setup.latest :
          /\ known.current.fork # 0 => last <= known.current.fork
          /\ LET batch == NextHeight..last
             IN  db' = [db EXCEPT
                           !.blocks = [h \in Heights \cup batch |-> IF h \in Heights THEN @[h] ELSE TheBlock(h)],
                           !.states = @ \cup {last},
                           !.rows = [h \in DOMAIN @ \cup batch |->
                                        (IF h \in DOMAIN @ THEN @[h] ELSE 0) + (IF h \in batch THEN 1 ELSE 0)]]
    BY DEF Write
  <1> DEFINE batch == NextHeight..last
  <1>2. pc = "running" /\ UNCHANGED <<setups, known, pc, folder>>
    BY DEF Write, fixed, storeVars
  <1>3. db'.blocks = [h \in Heights \cup batch |-> IF h \in Heights THEN db.blocks[h] ELSE TheBlock(h)]
    BY <1>1 DEF StartUpInv, SchemaInv, Fields
  <1>4. Setup \in Setups /\ Setup.latest \in Nat
    BY SetupIs, ScenariosAssumption DEF StartUpInv
  <1>5. NextHeight \in Nat /\ last \in Nat /\ last <= Setup.latest
    BY <1>1, <1>4, NextIs DEF StartUpInv
  <1>6. Enriched.ok /\ known.current = Enriched.current
    BY <1>2 DEF ToldInv, KnowsItsChain
  <1>7. PICK fork \in Nat : fork = Enriched.current.fork
    BY <1>4, <1>6, InfosAssumption DEF Enriched
  <1>8. ASSUME NEW h \in batch
        PROVE  /\ db'.blocks[h] = TheBlock(h) /\ GetsAsFarAs(Setup, h)
               /\ \A k \in Heights : k \in Nat /\ k < h
    <2>1. \A k \in Heights : k \in Nat /\ k < NextHeight
      <3>1. Heights \subseteq Nat
        BY DEF StartUpInv, RowsInv
      <3>2. Heights \cap {k \in Nat : k >= NextHeight} = {}
        BY NextIs DEF StartUpInv
      <3>3. \A k \in Heights : ~(k >= NextHeight)
        BY <3>1, <3>2
      <3> QED
        BY <1>5, <3>1, <3>3
    <2>2. h \in Nat /\ NextHeight <= h /\ h <= last
      BY <1>5
    <2>3. \A k \in Heights : k \in Nat /\ k < h
      BY <1>5, <2>1, <2>2
    <2>4. db'.blocks[h] = TheBlock(h)
      <3>1. h \notin Heights
        BY <2>2, <2>3
      <3> QED
        BY <1>3, <3>1
    <2>5. h <= Setup.latest /\ (fork # 0 => h <= fork)
      BY <1>1, <1>4, <1>5, <1>6, <1>7, <2>2
    <2>6. GetsAsFarAs(Setup, h)
      BY <1>6, <1>7, <2>5 DEF GetsAsFarAs, Enriched
    <2> QED
      BY <2>3, <2>4, <2>6
  <1>9. batch \in SUBSET Nat
    BY <1>5
  <1>10. Heights' = Heights \cup batch /\ \A h \in Heights : db'.blocks[h] = db.blocks[h]
    BY <1>3 DEF Heights
  <1> HIDE DEF batch
  <1> QED
    BY <1>2, <1>8, <1>9, <1>10

\* ... and not the writer breaks it.
LEMMA WritePast ==
    ASSUME StartUpInv, StoreInv, StoreIsReal, ToldInv, PastInv, Write
    PROVE  PastInv'
  <1>1. PICK batch \in SUBSET Nat :
              /\ Heights' = Heights \cup batch /\ UNCHANGED <<setups, known, pc, folder>>
              /\ \A h \in Heights : db'.blocks[h] = db.blocks[h]
              /\ \A h \in batch : /\ db'.blocks[h] = TheBlock(h) /\ GetsAsFarAs(Setup, h)
                                  /\ \A k \in Heights : k \in Nat /\ k < h
    BY BatchIs
  <1>2. DOMAIN db'.blocks = Heights \cup batch
    BY <1>1 DEF Heights
  <1>3. Setup = setups[1] /\ 1 \in DOMAIN setups /\ Setup \in Setups
    BY DEF StartUpInv, KnownInv, Setup
  <1>4. Heights \subseteq Nat
    BY DEF StartUpInv, RowsInv
  <1>5. ASSUME Overruns(Setup), NEW k \in Heights \cup batch, End(Setup.net) < k
        PROVE  db'.blocks[k] = Block(k, Bogus(Setup.net))
    <2>1. CASE k \in batch
      BY <1>1, <1>5, <2>1, PastBlocks
    <2>2. CASE k \in Heights
      BY <1>1, <1>3, <1>5, <2>2 DEF PastInv, AllPast, Heights, End
    <2> QED
      BY <1>5, <2>1, <2>2
  <1>6. ASSUME NEW net \in DOMAIN World PROVE Unbroken(db'.blocks, net)
    <2> SUFFICES ASSUME NEW h \in Heights \cup batch, db'.blocks[h] = Block(h, Bogus(net))
                 PROVE  /\ End(net) # 0 /\ End(net) < h
                        /\ \A k \in Heights \cup batch :
                              End(net) < k /\ k <= h => db'.blocks[k] = Block(k, Bogus(net))
      BY <1>2 DEF Unbroken, End
    <2>1. CASE h \in Heights
      <3>1. /\ End(net) # 0 /\ End(net) < h
            /\ \A k \in Heights : End(net) < k /\ k <= h => db'.blocks[k] = Block(k, Bogus(net))
        BY <1>1, <2>1 DEF PastInv, Unbroken, Heights, End
      <3>2. \A k \in batch : ~(k <= h)
        BY <1>1, <2>1
      <3> QED
        BY <3>1, <3>2
    <2>2. CASE h \in batch
      <3>1. net = Setup.net /\ End(net) # 0 /\ h > End(net)
        BY <1>1, <2>2, BlockIs
      <3>2. Overruns(Setup)
        <4>1. End(Setup.net) \in Nat
          BY <1>3, InfosAssumption DEF End
        <4>2. End(Setup.net) + 1 \in Nat /\ End(Setup.net) + 1 <= h /\ h \in Nat
          <5>1. h \in Nat
            BY <1>1, <2>2
          <5>2. h > End(Setup.net)
            BY <3>1, Zenon
          <5> QED
            BY ONLY <4>1, <5>1, <5>2, SMTT(30)
        <4>3. GetsAsFarAs(Setup, End(Setup.net) + 1)
          BY <1>1, <1>3, <2>2, <4>2, Nearer
        <4> QED
          BY <3>1, <4>3 DEF Overruns, End
      <3>3. End(net) < h
        BY <1>1, <1>3, <2>2, <3>1, InfosAssumption DEF End
      <3> QED
        BY <1>5, <3>1, <3>2, <3>3
    <2> QED
      BY <2>1, <2>2
  <1>7. ASSUME NEW i \in DOMAIN setups, Overruns(setups[i]) PROVE AllPast(db'.blocks, setups[i].net)
    <2> SUFFICES ASSUME NEW h \in Heights \cup batch, End(setups[i].net) < h
                 PROVE  db'.blocks[h] = Block(h, Bogus(setups[i].net))
      BY <1>2 DEF AllPast, End
    <2>1. CASE h \in Heights
      BY <1>1, <1>7, <2>1 DEF PastInv, AllPast, Heights, End
    <2>2. CASE h \in batch
      <3>1. setups[i].net = Setup.net /\ Overruns(Setup)
        BY <1>1, <1>7, <2>2, NotBefore DEF StartUpInv, PastInv
      <3> QED
        BY <1>5, <3>1
    <2> QED
      BY <2>1, <2>2
  <1>8. \A i \in DOMAIN setups' : Overruns(setups'[i]) =>
           /\ AllPast(db'.blocks, setups'[i].net)
           /\ setups'[i].store => \A name \in DOMAIN folder' : name <= End(setups'[i].net)
    BY <1>1, <1>7 DEF PastInv, NamesUpTo
  <1>9. NoReturn(setups')
    BY <1>1 DEF PastInv
  <1> QED
    BY <1>6, <1>8, <1>9 DEF PastInv, NamesUpTo

\* What fits the chain.
Fits == Mismatch = ""

\* Its first block is the one there has to be.
LEMMA FitsIs ==
    ASSUME Fits, ~NoBlocks
    PROVE  /\ FirstHash = NoHash \/ FirstHash = db.blocks[FirstInDB]
           /\ StartHeight = FirstInDB
  <1>1. "genesis" # "" /\ "first hash" # "" /\ "start height" # ""
    OBVIOUS
  <1>2. ~(FirstHash # NoHash /\ FirstHash # db.blocks[FirstInDB])
    BY <1>1, Zenon DEF Fits, Mismatch
  <1>3. ~(StartHeight # FirstInDB)
    BY <1>1, Zenon DEF Fits, Mismatch
  <1> QED
    BY <1>2, <1>3

\* The process knows its chain.
IsLearnt == pc \in KnowsItsChain

\* What the checks let through has nothing of a chain that ends where the current one begins: if its
\* first block is before the end, the first of the current chain is compared, else its own first is.
LEMMA MatchLeaves ==
    ASSUME StartUpInv, ToldInv, PastInv, IsLearnt, Fits, ~Overrun
    PROVE  NothingLeft
  <1> SUFFICES ASSUME NEW h \in Heights, NEW net \in DOMAIN World, db.blocks[h] = Block(h, Bogus(net)),
                      End(net) + 1 = known.current.start
               PROVE  FALSE
    BY DEF NothingLeft
  <1>1. /\ Setup \in Setups /\ Enriched.ok
        /\ known.current = Enriched.current /\ known.root = Enriched.root
    BY SetupIs DEF StartUpInv, ToldInv, IsLearnt
  <1>2. /\ End(net) # 0 /\ End(net) < h
        /\ \A k \in Heights : End(net) < k /\ k <= h => db.blocks[k] = Block(k, Bogus(net))
    BY DEF PastInv, Unbroken, Heights, End
  <1>3. PICK a \in Nat, b \in Nat : Heights = a..b
    BY DEF StartUpInv, RowsInv
  <1>4. FirstInDB = a /\ a <= h /\ h <= b /\ h \in Nat
    <2>1. a <= h /\ h <= b /\ h \in Nat
      BY <1>3
    <2>2. a..b \subseteq Nat /\ a..b # {} /\ a \in a..b
      BY <1>3, <2>1
    <2>3. Min(a..b) \in a..b /\ \A k \in a..b : Min(a..b) <= k
      BY <2>2, MinIsOne
    <2>4. Min(a..b) = a
      BY <2>2, <2>3
    <2> QED
      BY <1>3, <2>1, <2>4 DEF FirstInDB
  <1>5. End(net) \in Nat
    BY InfosAssumption DEF End
  <1>6. PICK s \in Nat, r \in Nat : s = known.current.start /\ r = known.root.start
    BY <1>1, InfosAssumption DEF Enriched
  <1>7. s = End(net) + 1
    BY <1>6
  <1>8. FirstHash # NoHash /\ FirstHash[2] # Bogus(net) /\ known.current.hash # Block(s, Bogus(net))
    <2>1. FirstHash = IF Setup.genesis # <<>> THEN Setup.genesis[1].hash ELSE Ancestry[Setup].root.hash
      BY <1>1 DEF FirstHash, Enriched
    <2>2. Ancestry[Setup].ok /\ known.current = Ancestry[Setup].current
      BY <1>1 DEF Enriched
    <2>4. Real(Setup.net) # Bogus(net)
      BY KindsDiffer DEF Real
    <2> QED
      BY <1>1, <1>6, <2>1, <2>2, <2>4, InfosAssumption
  <1>9. FirstHash = db.blocks[a] /\ StartHeight = a
    BY <1>3, <1>4, <1>8, FitsIs DEF NoBlocks
  <1>10. CASE End(net) < a
    <2>1. FirstHash = Block(a, Bogus(net))
      BY <1>2, <1>3, <1>4, <1>9, <1>10
    <2> QED
      BY <1>8, <2>1, KindsDiffer
  <1>11. CASE ~(End(net) < a)
    <2>1. s \in Heights /\ s <= h /\ End(net) < s /\ a < s
      BY <1>2, <1>3, <1>4, <1>5, <1>7, <1>11
    <2>2. db.blocks[s] = Block(s, Bogus(net))
      BY <1>2, <2>1
    <2>3. s = r
      BY <1>6, <1>8, <2>1, <2>2 DEF Overrun
    <2>4. GenesisHeight \in Nat
      BY <1>1, ScenariosAssumption DEF GenesisHeight
    <2>5. CASE GenesisHeight > 0
      <3>1. Setup.genesis # <<>> /\ GenesisHeight = Setup.genesis[1].height
        BY <2>5 DEF GenesisHeight
      <3>2. Enriched.root.start = s
        BY <1>1, <1>6, <2>3
      <3>3. GenesisHeight \notin 1..(s - 1)
        BY <1>1, <3>1, <3>2, InfosAssumption DEF Enriched
      <3>4. GenesisHeight = a
        BY <1>9, <2>5 DEF StartHeight
      <3> QED
        BY <2>1, <2>4, <2>5, <3>3, <3>4
    <2>6. CASE ~(GenesisHeight > 0)
      <3>1. a = r
        BY <1>6, <1>9, <2>6 DEF StartHeight
      <3> QED
        BY <2>1, <2>3, <3>1
    <2> QED
      BY <2>5, <2>6
  <1> QED
    BY <1>10, <1>11

\* The writer adds none: its chain does not begin after its end.
LEMMA WriteLeaves ==
    ASSUME StartUpInv, StoreInv, StoreIsReal, ToldInv, NothingLeft, Write
    PROVE  NothingLeft'
  <1>1. PICK batch \in SUBSET Nat :
              /\ Heights' = Heights \cup batch /\ UNCHANGED <<setups, known, pc, folder>>
              /\ \A h \in Heights : db'.blocks[h] = db.blocks[h]
              /\ \A h \in batch : /\ db'.blocks[h] = TheBlock(h) /\ GetsAsFarAs(Setup, h)
                                  /\ \A k \in Heights : k \in Nat /\ k < h
    BY BatchIs
  <1> SUFFICES ASSUME NEW h \in Heights \cup batch, NEW net \in DOMAIN World, db'.blocks[h] = Block(h, Bogus(net))
               PROVE  End(net) + 1 # known.current.start
    BY <1>1 DEF NothingLeft
  <1>2. CASE h \in Heights
    BY <1>1, <1>2 DEF NothingLeft
  <1>3. CASE h \in batch
    <2>1. net = Setup.net /\ End(net) # 0
      BY <1>1, <1>3, BlockIs
    <2>2. Setup \in Setups /\ Enriched.ok /\ known.current = Enriched.current
      BY SetupIs DEF StartUpInv, ToldInv, KnowsItsChain, Write
    <2>3. PICK s \in Nat, end \in Nat : s = known.current.start /\ end = End(net)
      BY <2>2, InfosAssumption DEF Enriched, End
    <2>4. s <= end
      BY <2>1, <2>2, <2>3, InfosAssumption DEF Enriched, End
    <2>5. end + 1 # s
      BY <2>4
    <2> QED
      BY <2>3, <2>5
  <1> QED
    BY <1>2, <1>3

\* A process gets to run by way of the check of the database.
LEMMA GetsToRun ==
    ASSUME [Next]_vars, pc' \in {"genesis", "running"}, ~Write, ~EnsureDBMatchesChain
    PROVE  pc \in {"genesis", "running"} /\ UNCHANGED known
  <1>1. CASE LoadGenesis \/ UNCHANGED vars
    BY <1>1 DEF LoadGenesis, vars
  <1>2. CASE Start \/ Stops \/ Move \/ Nuke \/ DumpCloses \/ StartDump \/ Dump
    BY <1>2 DEF Start, Stops, Crash, CallFails, MigrationFails, Move, Nuke, DumpCloses, StartDump, Dump, Down
  <1>3. CASE \/ UpdateData \/ UpdateAggregates \/ CreatePart \/ Migrate
             \/ (\E table \in Tables : TrimTable(table)) \/ InitChainRefused \/ InitGenesisRefused
             \/ MatchRefused \/ PreventOverrunAfterFork
    BY <1>3 DEF UpdateData, UpdateAggregates, UpdateDDLIfNeeded, UpdateDDLRefused, Refuse, CreatePart, Migrate,
                TrimTable, InitChainRefused, InitGenesisRefused, MatchRefused, PreventOverrunAfterFork, Down
  <1>4. CASE InitChain \/ Open \/ Fetch \/ FetchEnds \/ Opened
    BY <1>4 DEF InitChain, Open, Fetch, FetchEnds, Opened
  <1> QED
    BY <1>1, <1>2, <1>3, <1>4 DEF Next, Checks, Operator

\* No step breaks the invariant.
LEMMA ForkStep == ASSUME StartUpInv, StoreInv, ForkInv, [Next]_vars PROVE ForkInv'
  <1>1. ToldInv'
    BY ToldStep DEF ForkInv
  <1> SUFFICES ASSUME StoreIsReal' PROVE PastInv' /\ (pc' \in {"genesis", "running"} => NothingLeft')
    BY <1>1 DEF ForkInv
  <1>4. StoreIsReal /\ ToldInv /\ PastInv /\ (pc \in {"genesis", "running"} => NothingLeft)
    BY RealBefore DEF ForkInv
  <1>2. PastInv'
    BY <1>4, PastStep, WritePast
  <1>3. ASSUME pc' \in {"genesis", "running"} PROVE NothingLeft'
    <2>1. CASE Write
      <3>1. pc = "running"
        BY <2>1 DEF Write
      <3> QED
        BY <1>4, <2>1, <3>1, WriteLeaves
    <2>2. CASE EnsureDBMatchesChain
      <3>1. NothingLeft /\ UNCHANGED known
        BY <1>4, <2>2, MatchLeaves DEF EnsureDBMatchesChain, IsLearnt, Fits, KnowsItsChain
      <3>2. Fewer
        <4>1. ~Write
          BY <2>2 DEF EnsureDBMatchesChain, Write
        <4> QED
          BY <4>1, FewerBlocks
      <3> QED
        BY <3>1, <3>2 DEF NothingLeft, Fewer
    <2>3. CASE ~Write /\ ~EnsureDBMatchesChain
      <3>1. NothingLeft /\ UNCHANGED known
        BY <1>3, <1>4, <2>3, GetsToRun
      <3>2. Fewer
        BY <2>3, FewerBlocks
      <3> QED
        BY <3>1, <3>2 DEF NothingLeft, Fewer
    <2> QED
      BY <2>1, <2>2, <2>3
  <1> QED
    BY <1>2, <1>3

-----------------------------------------------------------------------------
(* Drops for a reason: the root the blocks are of.                         *)

\* A block past an end is there.
HasBogus == \E k \in Heights : db.blocks[k][2][1] = "bogus"

\* What the store has, and what the dump has begun, is of the root of the chains it is used with.
RootOf(setup) == World[setup.net].root
StoreOfRoot(root) ==
    /\ \A name \in DOMAIN folder : OfRoot(folder[name], root)
    /\ pc = "dump" => OfRoot(temporary, root)
StoreFits == \A i \in DOMAIN setups : setups[i].store => StoreOfRoot(RootOf(setups[i]))

\* The blocks are of one root, the current chain's once it is checked; the schema is marked for a block
\* past an end, or for an overrun that was looked for at a wrong block.
KindInv ==
    /\ OfOneRoot(db.blocks)
    /\ db.hash = "bad" => misread \/ HasBogus
    /\ StoreOfOneRoot(setups)
    /\ StoreFits
    /\ toFetch # {} => pc = "store" /\ Setup.store /\ RootOf(Setup) = Mainnet
    /\ pc \in {"genesis", "running"} => OfRoot(db.blocks, World[Setup.net].root)

\* At first so are the databases.
LEMMA InitKind == ASSUME Init PROVE KindInv
  <1>1. setups \in Scenarios /\ db \in Databases /\ pc = "down" /\ toFetch = {} /\ folder = <<>>
    BY DEF Init, StoreInit
  <1>2. StoreFits
    BY <1>1, NoneIsOnce DEF StoreFits, StoreOfRoot
  <1> QED
    BY <1>1, <1>2, OperatorsAssumption, BlocksAssumption DEF KindInv, HasBogus, Heights

\* Blocks of a root stay of it without new ones.
LEMMA FewerOfRoot == ASSUME Fewer, NEW root, OfRoot(db.blocks, root) PROVE OfRoot(db'.blocks, root)
  BY DEF Fewer, Heights, OfRoot

\* The first block that fits the chain tells of which root all are.
LEMMA MatchRoot ==
    ASSUME StartUpInv, ToldInv, IsLearnt, Fits, OfOneRoot(db.blocks)
    PROVE  OfRoot(db.blocks, World[Setup.net].root)
  <1>1. CASE NoBlocks
    BY <1>1 DEF NoBlocks, OfRoot, Heights
  <1>2. CASE ~NoBlocks
    <2>1. PICK net \in DOMAIN World : OfRoot(db.blocks, World[net].root)
      BY DEF OfOneRoot
    <2>2. Setup \in Setups /\ Enriched.ok /\ known.root = Enriched.root
      BY SetupIs DEF StartUpInv, ToldInv, IsLearnt
    <2>3. FirstInDB \in Heights
      <3>1. Heights \subseteq Nat /\ Heights # {}
        BY <1>2 DEF StartUpInv, RowsInv, NoBlocks
      <3> QED
        BY <3>1, MinIsOne DEF FirstInDB
    <2>4. FirstHash # NoHash /\ FirstHash[2] = Real(Setup.net)
      <3>1. FirstHash = IF Setup.genesis # <<>> THEN Setup.genesis[1].hash ELSE Ancestry[Setup].root.hash
        BY <2>2 DEF FirstHash, Enriched
      <3>2. Ancestry[Setup].ok
        BY <2>2 DEF Enriched
      <3> QED
        BY <2>2, <3>1, <3>2, InfosAssumption
    <2>5. db.blocks[FirstInDB][2] = Real(Setup.net)
      BY <1>2, <2>4, FitsIs
    <2>6. Real(Setup.net) = <<"real", World[net].root>> \/ \E x \in DOMAIN World : Real(Setup.net) = Bogus(x)
      BY <2>1, <2>3, <2>5, KindsDiffer DEF OfRoot, Heights
    <2>7. World[Setup.net].root = World[net].root
      <3>1. \A x : Real(Setup.net) # Bogus(x)
        BY KindsDiffer DEF Real
      <3>2. <<"real", World[Setup.net].root>> = <<"real", World[net].root>>
        BY <2>6, <3>1 DEF Real
      <3> QED
        BY <3>2
    <2> QED
      BY <2>1, <2>7
  <1> QED
    BY <1>1, <1>2

\* The schema is marked for a block past an end, unless the first of the chain is misread.
LEMMA MarkedForBogus ==
    ASSUME StartUpInv, ToldInv, IsLearnt, Fits, OfOneRoot(db.blocks), Overrun,
           ~(Setup.earliest > known.current.start /\ ~HashIsConfigured(Setup))
    PROVE  HasBogus
  <1>1. Setup \in Setups /\ Ancestry[Setup].ok /\ known.current = Ancestry[Setup].current
    BY SetupIs DEF StartUpInv, ToldInv, IsLearnt, Enriched
  <1>2. PICK s \in Nat : s = known.current.start
    BY <1>1, InfosAssumption
  <1>3. Setup.earliest \in Nat
    BY <1>1, InfosAssumption
  <1>4. Setup.earliest <= s \/ HashIsConfigured(Setup)
    BY <1>2, <1>3
  <1>5. known.current.hash = Block(s, Real(Setup.net))
    BY <1>1, <1>2, <1>4, InfosAssumption
  <1>6. s \in Heights /\ db.blocks[s] # Block(s, Real(Setup.net))
    BY <1>2, <1>5 DEF Overrun
  <1>7. OfRoot(db.blocks, World[Setup.net].root)
    BY MatchRoot
  <1>8. PICK net \in DOMAIN World : db.blocks[s] = Block(s, Bogus(net))
    BY <1>6, <1>7 DEF OfRoot, Real, Heights
  <1>9. db.blocks[s][2][1] = "bogus"
    BY <1>8 DEF Block, Bogus
  <1> QED
    BY <1>6, <1>9 DEF HasBogus

\* The writer goes on with the root there is.
LEMMA WriteOfRoot ==
    ASSUME StartUpInv, StoreInv, ToldInv, KindInv, Write
    PROVE  OfRoot(db'.blocks, World[Setup.net].root)
  <1>1. PICK batch \in SUBSET Nat :
              /\ Heights' = Heights \cup batch /\ UNCHANGED <<setups, known, pc, folder>>
              /\ \A h \in Heights : db'.blocks[h] = db.blocks[h]
              /\ \A h \in batch : /\ db'.blocks[h] = TheBlock(h) /\ GetsAsFarAs(Setup, h)
                                  /\ \A k \in Heights : k \in Nat /\ k < h
    BY BatchIs
  <1>2. OfRoot(db.blocks, World[Setup.net].root)
    BY DEF KindInv, Write
  <1>3. Setup = setups[1] /\ 1 \in DOMAIN setups /\ Setup \in Setups /\ Setup.net \in DOMAIN World
    BY InfosAssumption DEF StartUpInv, KnownInv, Setup
  <1>4. ASSUME NEW h \in batch
        PROVE  \/ TheBlock(h) = Block(h, <<"real", World[Setup.net].root>>)
               \/ \E net \in DOMAIN World : TheBlock(h) = Block(h, Bogus(net))
    <2>1. CASE Stored(h)
      <3>1. PICK name \in DOMAIN folder : h \in DOMAIN folder[name] /\ TheBlock(h) = folder[name][h]
        BY <2>1, StoredIs
      <3>2. OfRoot(folder[name], World[Setup.net].root)
        BY <1>3, <2>1 DEF Stored, KindInv, StoreFits, StoreOfRoot, RootOf
      <3> QED
        BY <3>1, <3>2 DEF OfRoot
    <2>2. CASE ~Stored(h)
      <3>1. TheBlock(h) = Block(h, Real(Setup.net)) \/ TheBlock(h) = Block(h, Bogus(Setup.net))
        BY <2>2 DEF TheBlock, NodeBlock, BlockOf
      <3> QED
        BY <1>3, <3>1 DEF Real
    <2> QED
      BY <2>1, <2>2
  <1>5. DOMAIN db'.blocks = Heights \cup batch
    BY <1>1 DEF Heights
  <1> QED
    BY <1>1, <1>2, <1>4, <1>5 DEF OfRoot, Heights

\* The store gets blocks of the root of its chains alone.
LEMMA StoreKindStep ==
    ASSUME StartUpInv, StoreInv, ToldInv, KindInv, [Next]_vars
    PROVE  /\ StoreOfOneRoot(setups') /\ StoreFits'
           /\ toFetch' # {} => pc' = "store" /\ Setup'.store /\ RootOf(Setup)' = Mainnet
  <1> USE DEF KindInv
  <1>0. ASSUME UNCHANGED <<setups, folder>>, pc' # "dump" PROVE StoreFits'
    BY <1>0 DEF StoreFits, StoreOfRoot, RootOf
  <1>1. ASSUME UNCHANGED <<setups, folder>>, pc' # "dump", toFetch' = {}
        PROVE  /\ StoreOfOneRoot(setups') /\ StoreFits'
               /\ toFetch' # {} => pc' = "store" /\ Setup'.store /\ RootOf(Setup)' = Mainnet
    BY <1>0, <1>1
  <1>2. Setup \in Setups /\ Setup = setups[1] /\ 1 \in DOMAIN setups /\ Setup.net \in DOMAIN World
    BY InfosAssumption DEF StartUpInv, KnownInv, Setup
  <1>3. CASE Move
    <2>1. /\ UNCHANGED <<folder, toFetch, pc>> /\ pc = "down"
          /\ \A i \in DOMAIN setups' : i + 1 \in DOMAIN setups /\ setups'[i] = setups[i + 1] /\ i \in Nat
      <3>1. setups' = Tail(setups) /\ setups \in Seq(Setups) /\ Len(setups) > 1
        BY <1>3 DEF Move, StartUpInv, KnownInv
      <3>2. \A i \in DOMAIN setups' : i + 1 \in DOMAIN setups /\ setups'[i] = setups[i + 1] /\ i \in Nat
        BY <3>1
      <3> QED
        BY <1>3, <3>2 DEF Move, storeVars
    <2>2. StoreOfOneRoot(setups')
      BY <2>1 DEF StoreOfOneRoot
    <2>3. StoreFits'
      BY <2>1 DEF StoreFits, StoreOfRoot, RootOf
    <2> QED
      BY <2>1, <2>2, <2>3
  <1>4. ASSUME UNCHANGED setups, Setup.store, StoreOfRoot(RootOf(Setup))' PROVE StoreFits'
    <2>1. \A i \in DOMAIN setups : setups[i].store => RootOf(setups[i]) = RootOf(Setup)
      BY <1>2, <1>4 DEF StoreOfOneRoot, RootOf
    <2>2. Setup' = Setup
      BY <1>4 DEF Setup
    <2> QED
      BY <1>4, <2>1, <2>2 DEF StoreFits, StoreOfRoot, RootOf
  <1>5. CASE Fetch
    <2>1. PICK name \in DOMAIN Remote : FetchChunk(name)
      BY <1>5 DEF Fetch
    <2>2. UNCHANGED <<setups, pc>> /\ pc = "store" /\ toFetch # {} /\ folder' = WithChunk(name, Remote[name])
      BY <1>5, <2>1 DEF Fetch, FetchChunk, fixed
    <2>3. Setup.store /\ RootOf(Setup) = Mainnet /\ Setup' = Setup /\ RootOf(Setup)' = RootOf(Setup)
      BY <2>2 DEF Setup, RootOf
    <2>4. OfRoot(Remote[name], Mainnet)
      BY RepositoryAssumption DEF OfRoot
    <2>5. \A k \in DOMAIN folder : OfRoot(folder[k], Mainnet)
      BY <1>2, <2>3 DEF StoreFits, StoreOfRoot
    <2>6. \A k \in DOMAIN folder' : OfRoot(folder'[k], Mainnet)
      BY <2>2, <2>4, <2>5 DEF WithChunk
    <2>7. StoreOfRoot(RootOf(Setup))'
      BY <2>2, <2>3, <2>6 DEF StoreOfRoot
    <2> QED
      BY <1>4, <2>2, <2>3, <2>7
  <1>6. CASE Dump
    <2>1. PICK last \in Nat :
            /\ UNCHANGED <<setups, toFetch>> /\ pc = "dump"
            /\ \/ folder' = WithChunk(last + 1, WithBlock(last + 1, NodeBlock(last + 1))) /\ temporary' = NoFile
               \/ UNCHANGED folder /\ temporary' = WithBlock(last + 1, NodeBlock(last + 1))
      BY <1>6, DumpIs
    <2>2. Setup.store /\ toFetch' = {} /\ Setup' = Setup /\ RootOf(Setup)' = RootOf(Setup)
      BY <2>1 DEF ToldInv, StoreInv, Setup, RootOf
    <2>3. /\ \A k \in DOMAIN folder : OfRoot(folder[k], RootOf(Setup))
          /\ OfRoot(temporary, RootOf(Setup))
      BY <1>2, <2>1, <2>2 DEF StoreFits, StoreOfRoot
    <2>4. \/ NodeBlock(last + 1) = Block(last + 1, <<"real", RootOf(Setup)>>)
          \/ NodeBlock(last + 1) = Block(last + 1, Bogus(Setup.net))
      BY DEF NodeBlock, BlockOf, Real, RootOf
    <2>5. OfRoot(WithBlock(last + 1, NodeBlock(last + 1)), RootOf(Setup))
      BY <1>2, <2>3, <2>4 DEF OfRoot, WithBlock
    <2>6. OfRoot(NoFile, RootOf(Setup))
      BY NoFileIsShort DEF OfRoot
    <2>7. /\ \A k \in DOMAIN folder' : OfRoot(folder'[k], RootOf(Setup))
          /\ OfRoot(temporary', RootOf(Setup))
      BY <2>1, <2>3, <2>5, <2>6 DEF WithChunk
    <2>8. StoreOfRoot(RootOf(Setup))'
      BY <2>2, <2>7 DEF StoreOfRoot
    <2> QED
      BY <1>4, <2>1, <2>2, <2>8
  <1>7. CASE Open \/ StartDump
    <2>1. UNCHANGED <<setups, folder>> /\ pc' = "store" /\ toFetch = {} /\ Setup' = Setup
          /\ RootOf(Setup)' = RootOf(Setup)
      BY <1>7 DEF Open, StartDump, OpenStore, storeVars, fixed, Setup, RootOf
    <2>2. toFetch' # {} => Setup.store /\ \/ pc = "open" /\ known.root.name = Mainnet
                                          \/ Enriched.ok /\ Enriched.root.name = Mainnet
      BY <1>7, <2>1 DEF Open, StartDump, OpenStore, storeVars
    <2>3. pc = "open" => Enriched.ok /\ known.root = Enriched.root
      BY DEF ToldInv, KnowsItsChain
    <2>4. Enriched.ok /\ Enriched.root.name = Mainnet => RootOf(Setup) = Mainnet
      BY <1>2, InfosAssumption DEF Enriched, RootOf
    <2> QED
      BY <1>0, <2>1, <2>2, <2>3, <2>4
  <1>8. CASE FetchEnds
    <2>1. UNCHANGED <<setups, folder>> /\ toFetch' = {} /\ pc' # "dump"
      BY <1>8 DEF FetchEnds, FetchFails
    <2> QED
      BY <1>1, <2>1
  <1>9. CASE Opened
    <2>1. UNCHANGED <<setups, folder>> /\ toFetch' = {}
      BY <1>9 DEF Opened, StoreOpened, storeVars, fixed
    <2>2. pc' = "dump" => temporary' = NoFile
      BY <1>9 DEF Opened, StoreOpened, cleanUp, StoreInv
    <2>3. pc' = "dump" => \A root : OfRoot(temporary', root)
      BY <2>2, NoFileIsShort DEF OfRoot
    <2>4. StoreFits'
      BY <2>1, <2>3 DEF StoreFits, StoreOfRoot, RootOf
    <2> QED
      BY <2>1, <2>4
  <1>10. CASE UNCHANGED vars
    BY <1>10 DEF vars, storeVars, Setup, StoreFits, StoreOfRoot, RootOf
  <1>11. CASE Start \/ Stops \/ Nuke \/ DumpCloses \/ Write
    <2>1. UNCHANGED <<setups, folder>> /\ toFetch' = {} /\ pc' # "dump"
      BY <1>11 DEF Start, Stops, Crash, CallFails, MigrationFails, Nuke, DumpCloses, CloseStore, Write, Down,
                   storeVars, dbVars, fixed
    <2> QED
      BY <1>1, <2>1
  <1>12. CASE \/ UpdateData \/ UpdateAggregates \/ CreatePart \/ Migrate
              \/ (\E table \in Tables : TrimTable(table)) \/ InitChainRefused \/ InitGenesisRefused
              \/ MatchRefused \/ PreventOverrunAfterFork
    <2>1. UNCHANGED <<setups, folder>> /\ toFetch' = {} /\ pc' # "dump"
      BY <1>12 DEF UpdateData, UpdateAggregates, UpdateDDLIfNeeded, UpdateDDLRefused, Refuse, CreatePart, Migrate,
                   TrimTable, InitChainRefused, InitGenesisRefused, MatchRefused, PreventOverrunAfterFork, Down,
                   storeVars, dbVars, fixed
    <2> QED
      BY <1>1, <2>1
  <1>13. CASE InitChain \/ EnsureDBMatchesChain \/ LoadGenesis
    <2>1. UNCHANGED <<setups, folder>> /\ toFetch' = {} /\ pc' # "dump"
      BY <1>13 DEF InitChain, EnsureDBMatchesChain, LoadGenesis, storeVars, fixed
    <2> QED
      BY <1>1, <2>1
  <1> QED
    BY <1>3, <1>5, <1>6, <1>7, <1>8, <1>9, <1>10, <1>11, <1>12, <1>13 DEF Next, Checks, Operator

\* The schema is marked only by PreventOverrunAfterFork, and then kept until the tables are dropped.
LEMMA MarkStep ==
    ASSUME StartUpInv, [Next]_vars, ~PreventOverrunAfterFork, db'.hash = "bad"
    PROVE  db.hash = "bad" /\ (misread' <=> misread) /\ db'.blocks = db.blocks
  <1>1. DOMAIN db = Fields /\ CodeHash # "bad" /\ "bad" \notin Migrated
    BY StartUpAssumption DEF StartUpInv, SchemaInv
  <1>2. CASE db' = db /\ UNCHANGED ghosts
    BY <1>2 DEF ghosts
  <1>3. CASE CreatePart
    <2> DEFINE part == Head(todo)
    <2>1. db' = Apply(part) /\ (part # "hash" => (misread' <=> misread))
      BY <1>3 DEF CreatePart
    <2>2. part \in {"drop midgard_agg", "aggregates", "aggregates hash"} =>
             db'.blocks = db.blocks /\ db'.hash = db.hash
      BY <1>1, <2>1 DEF Apply, Fields
    <2>3. part \in {"drop midgard", "ddl.sql"} => db'.hash = ""
      BY <2>1 DEF Apply, NoTables, EmptyTables
    <2>4. part = "hash" => db'.hash = CodeHash
      BY <1>1, <2>1 DEF Apply, Fields
    <2>5. part \in Parts
      BY <1>3, DdlHeads DEF CreatePart, StartUpInv, CreateInv, Parts
    <2> HIDE DEF part
    <2>6. part \in {"drop midgard_agg", "aggregates", "aggregates hash"}
      BY <1>1, <2>3, <2>4, <2>5 DEF Parts
    <2> QED
      BY <2>1, <2>2, <2>6
  <1>4. CASE \E table \in Tables : TrimTable(table)
    <2>1. db'.hash = db.hash /\ pc = "trim"
      BY <1>1, <1>4 DEF TrimTable, Fields
    <2> QED
      BY <1>1, <2>1 DEF StartUpInv, SchemaInv
  <1>5. CASE Nuke \/ Migrate
    <2>1. db'.hash \in {"", CodeHash}
      BY <1>1, <1>5 DEF Nuke, Migrate, Fields
    <2> QED
      BY <1>1, <2>1
  <1>6. CASE EnsureDBMatchesChain \/ LoadGenesis
    <2>1. db'.hash = db.hash /\ db'.blocks = db.blocks
      BY <1>1, <1>6 DEF EnsureDBMatchesChain, LoadGenesis, Fields
    <2>2. UNCHANGED misread
      BY <1>6 DEF EnsureDBMatchesChain, LoadGenesis, fixed, ghosts
    <2> QED
      BY <2>1, <2>2
  <1>7. CASE Write
    <2>1. db'.hash = db.hash /\ pc = "running"
      BY <1>1, <1>7 DEF Write, Fields
    <2> QED
      BY <1>1, <2>1 DEF StartUpInv, SchemaInv, Checked
  <1>8. CASE UNCHANGED vars
    BY <1>8 DEF vars, ghosts
  <1>9. CASE Start \/ Crash \/ CallFails \/ Move \/ StartDump \/ Dump \/ DumpCloses
    <2>1. UNCHANGED db
      BY <1>9 DEF Start, Crash, CallFails, Move, StartDump, Dump, DumpCloses, dbVars
    <2>2. UNCHANGED misread
      BY <1>9 DEF Start, Crash, CallFails, Move, StartDump, Dump, DumpCloses, fixed, ghosts
    <2> QED
      BY <2>1, <2>2
  <1>10. CASE UpdateData \/ UpdateAggregates \/ InitChain \/ InitChainRefused \/ InitGenesisRefused
              \/ Open \/ Fetch \/ FetchEnds \/ Opened \/ MatchRefused \/ MigrationFails
    <2>1. UNCHANGED db
      BY <1>10 DEF UpdateData, UpdateAggregates, UpdateDDLIfNeeded, UpdateDDLRefused, Refuse, InitChain,
           InitChainRefused, InitGenesisRefused, Open, Fetch, FetchEnds, Opened, MatchRefused, MigrationFails, dbVars
    <2>2. UNCHANGED misread
      BY <1>10 DEF UpdateData, UpdateAggregates, UpdateDDLIfNeeded, UpdateDDLRefused, Refuse, InitChain,
           InitChainRefused, InitGenesisRefused, Open, Fetch, FetchEnds, Opened, MatchRefused, MigrationFails,
           fixed, ghosts
    <2> QED
      BY <2>1, <2>2
  <1> QED
    BY <1>3, <1>4, <1>5, <1>6, <1>7, <1>8, <1>9, <1>10 DEF Next, Checks, Stops, Operator

\* No step breaks what is known of the roots of the blocks.
LEMMA KindStep == ASSUME StartUpInv, StoreInv, ToldInv, KindInv, [Next]_vars PROVE KindInv'
  <1>1. Setup \in Setups /\ Setup.net \in DOMAIN World
    BY SetupIs, InfosAssumption DEF StartUpInv
  <1>2. OfOneRoot(db'.blocks)
    <2>1. CASE Write
      BY <1>1, <2>1, WriteOfRoot DEF OfOneRoot
    <2>2. CASE ~Write
      BY <2>2, FewerBlocks, FewerOfRoot DEF OfOneRoot, KindInv
    <2> QED
      BY <2>1, <2>2
  <1>3. ASSUME db'.hash = "bad" PROVE misread' \/ HasBogus'
    <2>1. CASE PreventOverrunAfterFork
      <3>1. /\ pc = "match" /\ Fits /\ Overrun /\ db'.blocks = db.blocks
            /\ misread' = (Setup.earliest > known.current.start /\ ~HashIsConfigured(Setup))
        BY <2>1 DEF PreventOverrunAfterFork, Fits, StartUpInv, SchemaInv, Fields
      <3>2. misread' \/ HasBogus
        BY <3>1, MarkedForBogus DEF KindInv, IsLearnt, KnowsItsChain
      <3> QED
        BY <3>1, <3>2 DEF HasBogus, Heights
    <2>2. CASE ~PreventOverrunAfterFork
      <3>1. db.hash = "bad" /\ (misread' <=> misread) /\ db'.blocks = db.blocks
        BY <1>3, <2>2, MarkStep
      <3> QED
        BY <3>1 DEF KindInv, HasBogus, Heights
    <2> QED
      BY <2>1, <2>2
  <1>4. ASSUME pc' \in {"genesis", "running"} PROVE OfRoot(db'.blocks, World[Setup'.net].root)
    <2>1. UNCHANGED setups
      <3>1. ~Move
        BY <1>4 DEF Move
      <3> QED
        BY <3>1, MovesOn
    <2>2. Setup' = Setup
      BY <2>1 DEF Setup
    <2>3. CASE Write
      BY <2>2, <2>3, WriteOfRoot
    <2>4. CASE ~Write
      <3>1. OfRoot(db.blocks, World[Setup.net].root)
        <4>1. CASE EnsureDBMatchesChain
          BY <4>1, MatchRoot DEF EnsureDBMatchesChain, KindInv, IsLearnt, Fits, KnowsItsChain
        <4>2. CASE ~EnsureDBMatchesChain
          <5>1. pc \in {"genesis", "running"}
            BY <1>4, <2>4, <4>2, GetsToRun
          <5> QED
            BY <5>1 DEF KindInv
        <4> QED
          BY <4>1, <4>2
      <3> QED
        BY <2>2, <2>4, <3>1, FewerBlocks, FewerOfRoot
    <2> QED
      BY <2>3, <2>4
  <1> QED
    BY <1>2, <1>3, <1>4, StoreKindStep DEF KindInv

\* What is dropped.
LEMMA DropIs ==
    ASSUME StartUpInv, [Next]_vars, NEW h \in Heights \ Heights'
    PROVE  \/ pc = "trim" /\ h >= TrimHeight
           \/ pc = "create" /\ db.hash # CodeHash
  <1>1. DOMAIN db = Fields /\ h \in Nat
    BY DEF StartUpInv, SchemaInv, RowsInv
  <1>2. CASE CreatePart
    <2>1. ASSUME pc = "createAgg" PROVE FALSE
      <3> DEFINE part == Head(todo)
      <3>1. part \in {"drop midgard_agg", "aggregates", "aggregates hash"} /\ db' = Apply(part)
        BY <1>2, <2>1, DdlHeads DEF CreatePart, StartUpInv, CreateInv
      <3>2. db'.blocks = db.blocks
        BY <1>1, <3>1 DEF Apply, Fields
      <3> QED
        BY <3>2 DEF Heights
    <2> QED
      BY <1>2, <2>1 DEF CreatePart, StartUpInv, CreateInv
  <1>3. CASE \E table \in Tables : TrimTable(table)
    <2>1. pc = "trim" /\ (db'.blocks = db.blocks \/ db'.blocks = Below(db.blocks, TrimHeight))
      BY <1>1, <1>3 DEF TrimTable, Fields
    <2>2. ~(h < TrimHeight)
      BY <2>1 DEF Heights, Below
    <2>3. TrimHeight \in Nat
      BY StartUpAssumption
    <2>4. h >= TrimHeight
      BY ONLY <1>1, <2>2, <2>3
    <2> QED
      BY <2>1, <2>4
  <1>4. CASE Nuke \/ Migrate \/ EnsureDBMatchesChain \/ PreventOverrunAfterFork \/ LoadGenesis
    <2>1. db'.blocks = db.blocks
      BY <1>1, <1>4 DEF Nuke, Migrate, EnsureDBMatchesChain, PreventOverrunAfterFork, LoadGenesis, Fields
    <2> QED
      BY <2>1 DEF Heights
  <1>5. CASE Write
    <2>1. db'.blocks = [k \in Heights' |-> db'.blocks[k]] /\ Heights \subseteq Heights'
      BY <1>1, <1>5 DEF Write, Fields, Heights
    <2> QED
      BY <2>1
  <1>6. ASSUME db' = db PROVE FALSE
    BY <1>6 DEF Heights
  <1>7. CASE Start \/ Crash \/ CallFails \/ Move \/ StartDump \/ Dump \/ DumpCloses
             \/ UNCHANGED vars
    BY <1>6, <1>7 DEF Start, Crash, CallFails, Move, StartDump, Dump, DumpCloses, dbVars, vars
  <1>8. CASE UpdateData \/ UpdateAggregates \/ InitChain \/ InitChainRefused \/ InitGenesisRefused
             \/ Open \/ Fetch \/ FetchEnds \/ Opened \/ MatchRefused \/ MigrationFails
    BY <1>6, <1>8 DEF UpdateData, UpdateAggregates, UpdateDDLIfNeeded, UpdateDDLRefused, Refuse, InitChain,
         InitChainRefused, InitGenesisRefused, Open, Fetch, FetchEnds, Opened, MatchRefused, MigrationFails, dbVars
  <1> QED
    BY <1>2, <1>3, <1>4, <1>5, <1>7, <1>8 DEF Next, Checks, Stops, Operator

-----------------------------------------------------------------------------
(* The theorems.                                                           *)

\* Whatever the order of starts, stops, failing calls and moves of the operator, the hash of the
\* code is in the database only with its tables (db.go UpdateDDLIfNeeded, which drops the hash
\* with the tables and sets it last), and blocks have no gap.
THEOREM StartUpInvHolds == Spec => []StartUpInv
  BY InitStartUp, StartUpStep, PTL DEF Spec

\* A Midgard that gets past the checks of the schema (db.go UpdateDDLsIfNeeded) has the tables of
\* its code and the aggregates of its code, however often it was stopped while it made them
\* (unless another binary, or a failed migration, came between two halves of an update: halfway).
THEOREM SchemaFits == Spec => []SchemaIsTheCodes
  <1>1. StartUpInv => SchemaIsTheCodes
    <2>1. CodeHash # "bad" /\ (Setup \in Setups => Setup.agg # "")
      BY StartUpAssumption, ScenariosAssumption
    <2> QED
      BY <2>1, SetupIs
         DEF StartUpInv, SchemaInv, SchemaIsTheCodes, AggregatesFit, CoreIsStale, liveDDLHash
  <1> QED
    BY <1>1, StartUpInvHolds, PTL

\* Then too it has each block's events once and none of a block that is not: the writer goes on
\* behind the last block (globalblocks.go), and TrimDB (migrates.go) takes the events with the blocks
\* (unless it was stopped between the two: cut).
THEOREM RowsAreOnce == Spec => []RowsOnce
  <1>1. StartUpInv => RowsOnce
    BY DEF StartUpInv, SchemaInv, RowsInv, RowsOnce, Once, Checked
  <1> QED
    BY <1>1, StartUpInvHolds, PTL

\* The type invariant of the start-up and the store: with the chunk the dump (blockstore.go
\* DumpBlock) has begun no longer than a chunk, and states of none but blocks there are.
THEOREM StartUpTypeCorrect == Spec => []TypeOK
  <1>1. Init => StartUpInv /\ StoreInv /\ ProcessInv
    BY InitStartUp, InitStore
  <1>2. ASSUME StartUpInv /\ StoreInv /\ ProcessInv, [Next]_vars
        PROVE  (StartUpInv /\ StoreInv /\ ProcessInv)'
    <2>1. StartUpInv'
      BY <1>2, StartUpStep
    <2>2. StoreInv'
      BY <1>2, StoreStep
    <2>3. ProcessInv'
      BY <1>2, PlaceStep, StopsStep, GhostsStep DEF ProcessInv
    <2> QED
      BY <2>1, <2>2, <2>3
  <1>3. StartUpInv /\ StoreInv /\ ProcessInv => TypeOK
    BY DEF TypeOK, StartUpInv, RowsInv, StoreInv, ProcessInv, Pcs
  <1> QED
    BY <1>1, <1>2, <1>3, PTL DEF Spec

\* Whatever the dump, an update from the repository or a stop did to the folder: if the store is one
\* for all blocks, every height up to the one it says it has is found, in the chunk that the binary
\* search (blockstore.go findChunkPathForHeight) leads to.
THEOREM StoreReadable == Spec => []StoreIsReadable
  <1>1. Init => StartUpInv /\ StoreInv /\ FolderInv
    BY InitStartUp, InitStore, InitFolder
  <1>2. ASSUME StartUpInv /\ StoreInv /\ FolderInv, [Next]_vars
        PROVE  (StartUpInv /\ StoreInv /\ FolderInv)'
    <2>1. StartUpInv'
      BY <1>2, StartUpStep
    <2>2. StoreInv'
      BY <1>2, StoreStep
    <2>3. FolderInv'
      BY <1>2, FolderStep DEF StartUpInv
    <2> QED
      BY <2>1, <2>2, <2>3
  <1>3. StartUpInv /\ StoreInv /\ FolderInv => StoreIsReadable
    <2> SUFFICES ASSUME StartUpInv, StoreInv, FolderInv, GenesisHeight = 0, NEW h \in 1..lastFetched
                 PROVE  StoreHasBlock(h)
      BY DEF StoreIsReadable
    <2>1. lastFetched # 0 /\ Setup.store
      BY DEF FolderInv, StoreInv
    <2>2. HasWholeStore(Setup)
      BY <2>1 DEF HasWholeStore, GenesisHeight
    <2>3. Wanted
      BY <2>2, WholeIs DEF StartUpInv
    <2> QED
      BY <2>1, <2>3, FoundIs DEF FolderInv
  <1> QED
    BY <1>1, <1>2, <1>3, PTL DEF Spec

\* Of a parent chain that the node's operator followed past the fork (globalblocks.go
\* PreventOverrunAfterFork, EnsureDBMatchesChain) nothing is in the database of a Midgard that runs,
\* whatever it was started on and however often, as long as no dump has put a block past an end into
\* the store: one look at one block is enough, because past an end blocks come one after the other,
\* and because the first of all is looked at too.
THEOREM ForksAreDropped == Spec => []NothingOfTheParentPastTheFork
  <1>1. Init => StartUpInv /\ StoreInv /\ ForkInv
    BY InitStartUp, InitStore, InitFork
  <1>2. ASSUME StartUpInv /\ StoreInv /\ ForkInv, [Next]_vars
        PROVE  (StartUpInv /\ StoreInv /\ ForkInv)'
    <2>1. StartUpInv'
      BY <1>2, StartUpStep
    <2>2. StoreInv'
      BY <1>2, StoreStep
    <2>3. ForkInv'
      BY <1>2, ForkStep
    <2> QED
      BY <2>1, <2>2, <2>3
  <1>3. StartUpInv /\ StoreInv /\ ForkInv => NothingOfTheParentPastTheFork
    BY DEF ForkInv, NothingLeft, NothingOfTheParentPastTheFork, End
  <1> QED
    BY <1>1, <1>2, <1>3, PTL DEF Spec

\* Blocks go only where TrimDB (migrates.go) takes them, or with tables of another version, or when the
\* schema was marked and a block is there that its chain does not have (globalblocks.go
\* PreventOverrunAfterFork); only where no info tells the first hash of the chain and the node is pruned
\* may it be marked for nothing (misread).
THEOREM DropsHaveReasons == Spec => DroppedForAReason
  <1>1. Init => StartUpInv /\ StoreInv /\ ToldInv /\ KindInv
    BY InitStartUp, InitStore, InitFork, InitKind DEF ForkInv
  <1>2. ASSUME StartUpInv /\ StoreInv /\ ToldInv /\ KindInv, [Next]_vars
        PROVE  (StartUpInv /\ StoreInv /\ ToldInv /\ KindInv)'
    <2>1. StartUpInv'
      BY <1>2, StartUpStep
    <2>2. StoreInv'
      BY <1>2, StoreStep
    <2>3. ToldInv'
      BY <1>2, ToldStep
    <2>4. KindInv'
      BY <1>2, KindStep
    <2> QED
      BY <2>1, <2>2, <2>3, <2>4
  <1> DEFINE Reason == \A h \in Heights \ DOMAIN db'.blocks :
                          \/ pc = "trim" /\ h >= TrimHeight
                          \/ /\ pc = "create" /\ db.hash # CodeHash
                             /\ db.hash = "bad" => misread \/ \E k \in Heights : db.blocks[k][2][1] = "bogus"
  <1>3. ASSUME StartUpInv /\ StoreInv /\ ToldInv /\ KindInv, [Next]_vars PROVE [Reason]_vars
    <2>1. ASSUME NEW h \in Heights \ Heights'
          PROVE  \/ pc = "trim" /\ h >= TrimHeight
                 \/ pc = "create" /\ db.hash # CodeHash
      BY <1>3, <2>1, DropIs
    <2>2. Heights' = DOMAIN db'.blocks
      BY DEF Heights
    <2>3. db.hash = "bad" => misread \/ \E k \in Heights : db.blocks[k][2][1] = "bogus"
      BY <1>3 DEF KindInv, HasBogus
    <2> QED
      BY <2>1, <2>2, <2>3
  <1> QED
    BY <1>1, <1>2, <1>3, PTL DEF Spec, DroppedForAReason

=============================================================================
