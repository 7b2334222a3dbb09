----------------------------- MODULE IngestProofs -----------------------------
(***************************************************************************)
(* Proofs about the block writer, for chains, batches, channels and        *)
(* numbers of failures of any size.                                        *)
(***************************************************************************)
EXTENDS Ingest, TLAPS, SequenceTheorems

-----------------------------------------------------------------------------
(* Type correctness.                                                       *)

\* The row picked for block h is one of the rows, and is its row.
LEMMA RowOfIsARow ==
    ASSUME NEW rows \in Seq(Rows), NEW h \in {rows[i].height : i \in DOMAIN rows}
    PROVE  /\ RowOf(rows, h) \in Rows
           /\ RowOf(rows, h).height = h
           /\ \E i \in DOMAIN rows : RowOf(rows, h) = rows[i]
  <1>1. PICK i \in DOMAIN rows : rows[i].height = h
    OBVIOUS
  <1> DEFINE j == CHOOSE k \in DOMAIN rows : rows[k].height = h
  <1>2. j \in DOMAIN rows /\ rows[j].height = h
    BY <1>1
  <1>3. \A k \in DOMAIN rows : rows[k] \in Rows
    OBVIOUS
  <1>4. RowOf(rows, h) = rows[j]
    BY DEF RowOf
  <1> HIDE DEF j
  <1> QED
    BY <1>2, <1>3, <1>4

\* Adding rows to block_log keeps it a table of states.
LEMMA WithRowsType ==
    ASSUME NEW log, DOMAIN log \subseteq Nat, log \in [DOMAIN log -> Seq(Nat)],
           NEW rows \in Seq(Rows)
    PROVE  /\ DOMAIN WithRows(log, rows) \subseteq Nat
           /\ WithRows(log, rows) \in [DOMAIN WithRows(log, rows) -> Seq(Nat)]
  <1> DEFINE D == DOMAIN log \cup {rows[i].height : i \in DOMAIN rows}
  <1>1. DOMAIN WithRows(log, rows) = D
    BY DEF WithRows
  <1>2. D \subseteq Nat
    <2>1. \A i \in DOMAIN rows : rows[i] \in Rows
      OBVIOUS
    <2>2. \A i \in DOMAIN rows : rows[i].height \in Nat
      BY <2>1 DEF Rows
    <2> QED
      BY <2>2
  <1>3. ASSUME NEW h \in D
        PROVE  WithRows(log, rows)[h] \in Seq(Nat)
    <2>1. CASE h \in DOMAIN log
      BY <2>1 DEF WithRows
    <2>2. CASE h \notin DOMAIN log
      <3>1. RowOf(rows, h) \in Rows
        BY <2>2, RowOfIsARow
      <3>2. WithRows(log, rows)[h] = RowOf(rows, h).aggState
        BY <2>2 DEF WithRows
      <3> QED
        BY <3>1, <3>2 DEF Rows
    <2> QED
      BY <2>1, <2>2
  <1> QED
    BY <1>1, <1>2, <1>3 DEF WithRows

\* The last row of a gapless block_log.
LEMMA LastHeightOf ==
    ASSUME NEW log, NEW n \in Nat, FirstHeight - 1 <= n, DOMAIN log = FirstHeight..n
    PROVE  LastHeight(log) = IF n < FirstHeight THEN 0 ELSE n
  <1>0. FirstHeight \in Nat \ {0}
    BY IngestAssumption DEF FirstHeight, HasGenesis
  <1>1. CASE n < FirstHeight
    BY <1>0, <1>1 DEF LastHeight
  <1>2. CASE FirstHeight <= n
    <2>1. n \in DOMAIN log /\ \A k \in DOMAIN log : k <= n
      BY <1>0, <1>2
    <2> DEFINE last == CHOOSE h \in DOMAIN log : \A k \in DOMAIN log : k <= h
    <2>2. last \in DOMAIN log /\ \A k \in DOMAIN log : k <= last
      BY <2>1
    <2>3. LastHeight(log) = last
      BY <2>1 DEF LastHeight
    <2> HIDE DEF last
    <2>4. last \in Nat /\ last <= n /\ n <= last
      BY <1>0, <2>1, <2>2
    <2> QED
      BY <1>0, <1>2, <2>3, <2>4
  <1> QED
    BY <1>0, <1>1, <1>2

-----------------------------------------------------------------------------
(* The invariant, one action at a time.                                    *)

\* Numbers used everywhere.
LEMMA Heights ==
    /\ FirstHeight \in Nat \ {0}
    /\ IF HasGenesis THEN FirstHeight = GenesisHeight ELSE FirstHeight = 1
    /\ Inv => /\ Top \in Nat
              /\ FirstHeight - 1 <= Top
              /\ DOMAIN blockLog = FirstHeight..Top
              /\ LastRow = IF Top < FirstHeight THEN 0 ELSE Top
              /\ RestoredState \in Seq(Nat)
              /\ LastRow \in Nat
              /\ LastRow \in DOMAIN blockLog \/ LastRow = 0
              /\ Len(uncommitted) \in Nat
              /\ DOMAIN uncommitted = 1..Len(uncommitted)
  <1>1. FirstHeight \in Nat \ {0} /\ (IF HasGenesis THEN FirstHeight = GenesisHeight ELSE FirstHeight = 1)
    BY IngestAssumption DEF FirstHeight, HasGenesis
  <1>2. ASSUME Inv
        PROVE  /\ Top \in Nat
               /\ FirstHeight - 1 <= Top
               /\ DOMAIN blockLog = FirstHeight..Top
               /\ LastRow = IF Top < FirstHeight THEN 0 ELSE Top
               /\ LastRow \in DOMAIN blockLog \/ LastRow = 0
    BY <1>1, <1>2 DEF Inv, TableInv, Top
  <1>3. ASSUME Inv
        PROVE  RestoredState \in Seq(Nat) /\ LastRow \in Nat
    <2>1. <<>> \in Seq(Nat)
      OBVIOUS
    <2> QED
      BY <1>2, <1>3, <2>1 DEF Inv, RestoredState, NoState, TypeOK, DbTypeOK, TableInv
  <1>4. ASSUME Inv
        PROVE  Len(uncommitted) \in Nat /\ DOMAIN uncommitted = 1..Len(uncommitted)
    BY <1>4 DEF Inv, TypeOK, MemTypeOK
  <1> QED
    BY <1>1, <1>2, <1>3, <1>4

\* Values a process starts with.
LEMMA Empty ==
    /\ <<>> \in Seq(Rows) /\ <<>> \in Seq(Nat) /\ <<>> \in Seq(Nat \ {0})
    /\ DOMAIN <<>> = {} /\ Len(<<>>) = 0
    /\ NoBlock \in InFlight
  <1>1. /\ <<>> \in Seq(Rows) /\ <<>> \in Seq(Nat) /\ <<>> \in Seq(Nat \ {0})
        /\ DOMAIN <<>> = {} /\ Len(<<>>) = 0
    OBVIOUS
  <1> QED
    BY <1>1 DEF NoBlock, InFlight, NoState

\* A process that ends leaves the database as it is.
LEMMA DieInv ==
    ASSUME Inv, Die, UNCHANGED <<blockLog, genesisConstant, genesisRows>>,
           inserterFail' \in BOOLEAN, stops' \in 0..MaxStops
    PROVE  Inv'
  <1>1. TypeOK'
    <2>1. FeedTypeOK'
      BY Empty, BlockFeedAssumption DEF Die, FeedTypeOK
    <2>2. DbTypeOK'
      BY DEF Inv, TypeOK, DbTypeOK
    <2>3. MemTypeOK'
      <3>1. pc' \in PcValues
        BY DEF Die, PcValues
      <3>2. signals' \in BOOLEAN /\ ctxDone' \in BOOLEAN
        BY DEF Die, NoMemory
      <3>3. current' \in InFlight
        BY Empty DEF Die, NoMemory
      <3>4. /\ uncommitted' \in Seq(Rows) /\ recorder' \in Seq(Nat) /\ latest' \in Seq(Nat)
            /\ lastCommitted' \in Nat /\ firstBlock' \in Nat /\ refreshRequests' \in 0..1
            /\ inserter' \in {"batch", "immediate"}
        BY Empty DEF Die, NoMemory
      <3> QED
        BY <3>1, <3>2, <3>3, <3>4 DEF MemTypeOK
    <2> QED
      BY <2>1, <2>2, <2>3 DEF TypeOK
  <1>2. LastRow' = LastRow /\ Top' = Top
    BY DEF LastRow, Top
  <1>3. TableInv'
    BY <1>2 DEF Inv, TableInv
  <1>4. OrderInv' /\ StateInv'
    BY <1>2, Empty DEF Inv, OrderInv, StateInv, InLoop, Die, NoMemory
  <1> QED
    BY <1>1, <1>3, <1>4 DEF Inv

\* A step that leaves the database alone.
LEMMA SameDatabase ==
    ASSUME Inv, UNCHANGED dbVars
    PROVE  DbTypeOK' /\ TableInv' /\ LastRow' = LastRow /\ Top' = Top
  <1>1. LastRow' = LastRow /\ Top' = Top
    BY DEF LastRow, Top, dbVars
  <1>2. DbTypeOK'
    BY DEF Inv, TypeOK, DbTypeOK, dbVars
  <1> QED
    BY <1>1, <1>2 DEF Inv, TableInv, dbVars

LEMMA StartProcessInv == ASSUME Inv, StartProcess PROVE Inv'
  <1>1. DbTypeOK' /\ TableInv' /\ LastRow' = LastRow /\ Top' = Top
    BY SameDatabase DEF StartProcess
  <1>2. FeedTypeOK'
    BY BlockFeedAssumption DEF StartProcess, Inv, TypeOK, FeedTypeOK
  <1>3. MemTypeOK' /\ stops' \in 0..MaxStops
    <2>1. pc' \in PcValues /\ inserter' \in {"batch", "immediate"}
      BY DEF StartProcess, PcValues
    <2> QED
      BY <2>1, Heights DEF StartProcess, Inv, TypeOK, MemTypeOK, stopVars
  <1>4. OrderInv'
    BY <1>1, Heights DEF StartProcess, Inv, OrderInv, InLoop, dbVars
  <1>5. StateInv'
    BY DEF StartProcess, Inv, StateInv
  <1> QED
    BY <1>1, <1>2, <1>3, <1>4, <1>5 DEF Inv, TypeOK

LEMMA SkipGenesisInv == ASSUME Inv, SkipGenesis PROVE Inv'
  <1>1. DbTypeOK' /\ TableInv' /\ LastRow' = LastRow /\ Top' = Top
    BY SameDatabase DEF SkipGenesis
  <1>2. TypeOK'
    <2>1. lastCommitted' \in Nat
      BY IngestAssumption DEF SkipGenesis, Inv, TypeOK, MemTypeOK, HasGenesis
    <2>2. FeedTypeOK' /\ stops' \in 0..MaxStops
      BY DEF SkipGenesis, Inv, TypeOK, FeedTypeOK, stopVars, feedVars
    <2> QED
      BY <1>1, <2>1, <2>2 DEF SkipGenesis, Inv, TypeOK, MemTypeOK, PcValues, stopVars
  <1>3. OrderInv'
    BY <1>1, Heights
       DEF SkipGenesis, Inv, OrderInv, InLoop, Top, dbVars, feedVars
  <1>4. StateInv'
    BY DEF SkipGenesis, Inv, StateInv
  <1> QED
    BY <1>1, <1>2, <1>3, <1>4 DEF Inv

LEMMA RecordGenesisInv == ASSUME Inv, RecordGenesis PROVE Inv'
  <1>1. LastRow' = LastRow /\ Top' = Top
    BY DEF RecordGenesis, LastRow, Top
  <1>2. TypeOK'
    <2>1. GenesisHeight - 1 \in Nat
      BY IngestAssumption DEF RecordGenesis, HasGenesis
    <2>2. recorder' \in Seq(Nat)
      BY <2>1 DEF RecordGenesis, Inv, TypeOK, MemTypeOK
    <2>3. DbTypeOK' /\ FeedTypeOK' /\ stops' \in 0..MaxStops
      BY DEF RecordGenesis, Inv, TypeOK, DbTypeOK, FeedTypeOK, stopVars, feedVars
    <2> QED
      BY <2>2, <2>3 DEF RecordGenesis, Inv, TypeOK, MemTypeOK, PcValues, stopVars
  <1>3. OrderInv'
    BY <1>1, Heights DEF RecordGenesis, Inv, OrderInv, InLoop, feedVars
  <1>4. StateInv' /\ TableInv'
    BY <1>1 DEF RecordGenesis, Inv, StateInv, TableInv
  <1> QED
    BY <1>2, <1>3, <1>4 DEF Inv

LEMMA FlushGenesisInv == ASSUME Inv, FlushGenesis PROVE Inv'
  <1>1. LastRow' = LastRow /\ Top' = Top
    BY DEF FlushGenesis, LastRow, Top
  <1>2. TypeOK'
    BY IngestAssumption, Heights, SMTT(60)
       DEF FlushGenesis, Inv, OrderInv, TypeOK, DbTypeOK, FeedTypeOK, MemTypeOK, PcValues,
           stopVars, feedVars
  <1>3. OrderInv'
    BY <1>1, Heights DEF FlushGenesis, Inv, OrderInv, InLoop, Top, feedVars
  <1>4. StateInv' /\ TableInv'
    BY <1>1 DEF FlushGenesis, Inv, StateInv, TableInv
  <1> QED
    BY <1>2, <1>3, <1>4 DEF Inv

LEMMA StartJobsInv == ASSUME Inv, StartJobs PROVE Inv'
  <1>1. DbTypeOK' /\ TableInv' /\ LastRow' = LastRow /\ Top' = Top
    BY SameDatabase DEF StartJobs
  <1>2. TypeOK'
    BY <1>1 DEF StartJobs, Inv, TypeOK, FeedTypeOK, MemTypeOK, PcValues, memVars, stopVars
  <1>3. OrderInv'
    BY <1>1, Heights
       DEF StartJobs, Inv, OrderInv, InLoop, Expected, Handed, dbVars, memVars
  <1>4. StateInv'
    BY DEF StartJobs, Inv, StateInv
  <1> QED
    BY <1>1, <1>2, <1>3, <1>4 DEF Inv

LEMMA CheckContextInv == ASSUME Inv, CheckContext PROVE Inv'
  <1>1. DbTypeOK' /\ TableInv' /\ LastRow' = LastRow /\ Top' = Top
    BY SameDatabase DEF CheckContext
  <1>2. TypeOK'
    BY <1>1 DEF CheckContext, Inv, TypeOK, FeedTypeOK, MemTypeOK, PcValues, memVars, stopVars,
                feedVars
  <1>3. OrderInv'
    BY <1>1 DEF CheckContext, Inv, OrderInv, InLoop, Expected, Handed, dbVars, memVars, feedVars
  <1>4. StateInv'
    BY DEF CheckContext, Inv, StateInv
  <1> QED
    BY <1>1, <1>2, <1>3, <1>4 DEF Inv

LEMMA SelectDoneInv == ASSUME Inv, SelectDone PROVE Inv'
  <1>1. DbTypeOK' /\ TableInv' /\ LastRow' = LastRow /\ Top' = Top
    BY SameDatabase DEF SelectDone
  <1>2. TypeOK'
    BY <1>1 DEF SelectDone, Inv, TypeOK, FeedTypeOK, MemTypeOK, PcValues, memVars, stopVars,
                feedVars
  <1>3. OrderInv'
    BY <1>1 DEF SelectDone, Inv, OrderInv, InLoop, Expected, Handed, dbVars, memVars, feedVars
  <1>4. StateInv'
    BY DEF SelectDone, Inv, StateInv
  <1> QED
    BY <1>1, <1>2, <1>3, <1>4 DEF Inv

\* What the channel holds after one block was taken.
LEMMA ReceiveFacts ==
    ASSUME Inv, ReceiveBlock
    PROVE  /\ Head(blocks) \in Nat \ {0}
           /\ Head(blocks) = blocks[1] /\ 1 \in DOMAIN blocks
           /\ blocks' \in Seq(Nat \ {0})
           /\ Len(blocks) \in Nat /\ Len(blocks') = Len(blocks) - 1
           /\ \A i \in DOMAIN blocks' : i + 1 \in DOMAIN blocks /\ blocks'[i] = blocks[i + 1] /\ i \in Nat
  BY DEF Inv, TypeOK, FeedTypeOK, ReceiveBlock

LEMMA SelectBlockInv == ASSUME Inv, SelectBlock PROVE Inv'
  <1>1. DbTypeOK' /\ TableInv' /\ LastRow' = LastRow /\ Top' = Top
    BY SameDatabase DEF SelectBlock
  <1> DEFINE h == Head(blocks)
  <1>a. ReceiveBlock /\ h \in Nat \ {0} /\ h = blocks[1] /\ 1 \in DOMAIN blocks
    BY ReceiveFacts DEF SelectBlock
  <1>b. InLoop /\ Expected = Handed + 1 /\ Handed \in Nat
    BY Heights DEF SelectBlock, InLoop, Expected, Handed
  <1>2. h \in Nat \ {0} /\ h = Handed + 1 /\ ReceiveBlock
    BY <1>a, <1>b DEF Inv, OrderInv
  <1>3. current' \in InFlight
    <2>1. Commits(h, lastThorNode <= h + 1) \in BOOLEAN
      BY DEF Commits
    <2>2. (lastThorNode <= h + 1) \in BOOLEAN
      OBVIOUS
    <2>3. [height |-> h, synced |-> lastThorNode <= h + 1,
           commit |-> Commits(h, lastThorNode <= h + 1), aggState |-> NoState] \in InFlight
      BY <1>2, <2>1, <2>2, Empty DEF InFlight, NoState
    <2> QED
      BY <2>3 DEF SelectBlock, Inv, TypeOK, MemTypeOK
  <1>4. TypeOK'
    <2>1. FeedTypeOK'
      BY ReceiveFacts, <1>2 DEF ReceiveBlock, Inv, TypeOK, FeedTypeOK
    <2>2. pc' \in PcValues
      BY DEF SelectBlock, PcValues
    <2> QED
      BY <1>1, <1>3, <2>1, <2>2
         DEF SelectBlock, Inv, TypeOK, MemTypeOK, writerUnchanged, stopVars
  <1>5. Handed' = Handed /\ Len(uncommitted) \in Nat /\ Top \in Nat
    BY <1>1, Heights DEF SelectBlock, Handed
  <1>6. OrderInv'
    <2>1. pc' = "process" \/ pc' = "forkExit"
      BY DEF SelectBlock
    <2>2. /\ \A i \in DOMAIN uncommitted' : uncommitted'[i].height = Top' + i
          /\ pc' = "process" => current'.height = Handed' + 1
          /\ HasGenesis /\ (LastRow' # 0 \/ InLoop' \/ pc' \in {"flushGenesis", "jobs"}) => genesisConstant'
          /\ HasGenesis /\ ~genesisConstant' => LastRow' = 0
      BY <1>1, <1>2, <1>5 DEF SelectBlock, Inv, OrderInv, InLoop, dbVars
    <2>3. InLoop' => /\ nextFetch' = Expected' + Len(blocks')
                     /\ \A i \in DOMAIN blocks' : blocks'[i] = Expected' + i - 1
      <3>1. CASE pc' = "forkExit"
        BY <3>1 DEF InLoop
      <3>2. CASE pc' = "process"
        <4>1. Expected' = Expected + 1
          BY <3>2, <1>5, <1>b DEF SelectBlock, Expected
        <4>2. nextFetch' = nextFetch /\ nextFetch = Expected + Len(blocks) /\ Expected \in Nat
          BY <1>2, <1>b DEF ReceiveBlock, Inv, OrderInv
        <4>3. \A i \in DOMAIN blocks : blocks[i] = Expected + i - 1
          BY <1>b DEF Inv, OrderInv
        <4>4. /\ Len(blocks) \in Nat /\ Len(blocks') = Len(blocks) - 1
              /\ \A i \in DOMAIN blocks' : i + 1 \in DOMAIN blocks /\ blocks'[i] = blocks[i + 1] /\ i \in Nat
          BY ReceiveFacts, <1>2
        <4>5. nextFetch' = Expected' + Len(blocks')
          BY <4>1, <4>2, <4>4
        <4>6. ASSUME NEW i \in DOMAIN blocks'
              PROVE  blocks'[i] = Expected' + i - 1
          <5>1. blocks'[i] = Expected + (i + 1) - 1
            BY <4>3, <4>4
          <5> QED
            BY <5>1, <4>1, <4>2, <4>4
        <4> QED
          BY <4>5, <4>6
      <3> QED
        BY <2>1, <3>1, <3>2
    <2> QED
      BY <2>1, <2>2, <2>3 DEF OrderInv
  <1>7. StateInv'
    <2>1. CASE pc' = "forkExit"
      BY <2>1 DEF StateInv
    <2>2. CASE pc' = "process"
      BY <2>2, <1>2 DEF StateInv, SelectBlock, Commits, writerUnchanged
    <2> QED
      BY <2>1, <2>2 DEF SelectBlock
  <1> QED
    BY <1>1, <1>4, <1>6, <1>7 DEF Inv

LEMMA ProcessBlockInv == ASSUME Inv, ProcessBlock PROVE Inv'
  <1>1. DbTypeOK' /\ TableInv' /\ LastRow' = LastRow /\ Top' = Top
    BY SameDatabase DEF ProcessBlock
  <1>2. Top \in Nat /\ Len(uncommitted) \in Nat /\ current.height = Handed + 1
    BY Heights DEF ProcessBlock, Inv, OrderInv
  <1>3. /\ current \in InFlight /\ current.height \in Nat /\ recorder \in Seq(Nat)
        /\ uncommitted \in Seq(Rows)
    BY DEF Inv, TypeOK, MemTypeOK, InFlight
  <1>4. recorder' \in Seq(Nat) /\ recorder' # NoState
    BY <1>3 DEF ProcessBlock, NoState
  <1> DEFINE st == StateToStore(current, recorder')
  <1>5. st \in Seq(Nat) /\ (Persists(current) => st # NoState)
    BY <1>4, Empty DEF StateToStore, NoState
  <1> HIDE DEF st
  <1>6. /\ uncommitted' \in Seq(Rows) /\ uncommitted' # <<>>
        /\ Len(uncommitted') = Len(uncommitted) + 1
        /\ DOMAIN uncommitted' = 1..(Len(uncommitted) + 1)
        /\ DOMAIN uncommitted = 1..Len(uncommitted)
        /\ \A i \in DOMAIN uncommitted : uncommitted'[i] = uncommitted[i]
        /\ uncommitted'[Len(uncommitted')] = [height |-> current.height, aggState |-> st]
    <2> DEFINE row == [height |-> current.height, aggState |-> st]
    <2>1. row \in Rows
      BY <1>3, <1>5 DEF Rows
    <2>2. uncommitted' = Append(uncommitted, row)
      BY DEF ProcessBlock, st
    <2> HIDE DEF row
    <2>3. /\ uncommitted' \in Seq(Rows) /\ uncommitted' # <<>>
          /\ Len(uncommitted') = Len(uncommitted) + 1
          /\ DOMAIN uncommitted' = 1..(Len(uncommitted) + 1)
          /\ DOMAIN uncommitted = 1..Len(uncommitted)
          /\ \A i \in DOMAIN uncommitted : uncommitted'[i] = uncommitted[i]
          /\ uncommitted'[Len(uncommitted')] = row
      BY <1>3, <2>1, <2>2
    <2> QED
      BY <2>3 DEF row
  <1>7. Handed' = Handed + 1 /\ Handed \in Nat
    BY <1>1, <1>2, <1>6 DEF Handed
  <1>8. current' \in InFlight /\ current'.height = current.height
        /\ current'.commit = Persists(current)
    <2>1. Persists(current) \in BOOLEAN
      BY DEF Persists, InFlight, ThisIsTheFirstBlock
    <2> DEFINE p == Persists(current)
    <2> HIDE DEF p
    <2>2. current' = [current EXCEPT !.commit = p, !.aggState = recorder']
      BY DEF ProcessBlock, p
    <2>3. p \in BOOLEAN
      BY <2>1 DEF p
    <2>4. current' \in InFlight
      BY <1>3, <1>4, <2>2, <2>3 DEF InFlight
    <2>5. current'.height = current.height /\ current'.commit = p
      BY <1>3, <2>2 DEF InFlight
    <2> QED
      BY <2>4, <2>5 DEF p
  <1>9. TypeOK'
    <2>1. FeedTypeOK' /\ stops' \in 0..MaxStops
      BY DEF ProcessBlock, Inv, TypeOK, FeedTypeOK, feedVars, stopVars
    <2>2. pc' \in PcValues
      BY DEF ProcessBlock, PcValues
    <2> QED
      BY <1>1, <1>4, <1>6, <1>8, <2>1, <2>2
         DEF ProcessBlock, Inv, TypeOK, MemTypeOK, writerUnchanged, stopVars
  <1>10. OrderInv'
    <2>1. \A i \in DOMAIN uncommitted' : uncommitted'[i].height = Top' + i
      <3>1. \A i \in DOMAIN uncommitted : uncommitted[i].height = Top + i
        BY DEF Inv, OrderInv
      <3> QED
        BY <3>1, <1>1, <1>2, <1>6 DEF Handed
    <2>2. nextFetch' = Expected' + Len(blocks') /\ \A i \in DOMAIN blocks' : blocks'[i] = Expected' + i - 1
      <3>1. Expected' = Expected
        BY <1>7 DEF Expected, ProcessBlock
      <3> QED
        BY <3>1 DEF ProcessBlock, Inv, OrderInv, InLoop, feedVars
    <2>3. current'.height = Handed'
      BY <1>2, <1>7, <1>8
    <2>4. pc' = "endBlock" /\ UNCHANGED <<genesisConstant, LastRow>>
          /\ (HasGenesis => genesisConstant) /\ (HasGenesis /\ ~genesisConstant => LastRow = 0)
      BY <1>1 DEF ProcessBlock, Inv, OrderInv, InLoop, dbVars
    <2> QED
      BY <2>1, <2>2, <2>3, <2>4 DEF OrderInv
  <1>11. StateInv'
    <2>1. current'.commit => uncommitted'[Len(uncommitted')].aggState # NoState
      BY <1>5, <1>6, <1>8
    <2>2. inserter' = "immediate" => current'.commit
      BY <1>8 DEF ProcessBlock, Persists, Inv, StateInv, writerUnchanged
    <2> QED
      BY <2>1, <2>2 DEF ProcessBlock, StateInv
  <1> QED
    BY <1>1, <1>9, <1>10, <1>11 DEF Inv

\* Committing the rows of the inserter makes the run of rows longer, and changes none
\* that is there.
LEMMA WithRowsExtends ==
    ASSUME Inv
    PROVE  /\ DOMAIN WithRows(blockLog, uncommitted) = FirstHeight..Handed
           /\ \A h \in DOMAIN blockLog : WithRows(blockLog, uncommitted)[h] = blockLog[h]
           /\ \A i \in DOMAIN uncommitted :
                 WithRows(blockLog, uncommitted)[Top + i] = uncommitted[i].aggState
  <1> DEFINE rows == uncommitted
             heights == {rows[i].height : i \in DOMAIN rows}
  <1>1. /\ Top \in Nat /\ FirstHeight \in Nat \ {0} /\ FirstHeight - 1 <= Top
        /\ DOMAIN blockLog = FirstHeight..Top
        /\ Len(rows) \in Nat /\ DOMAIN rows = 1..Len(rows)
        /\ rows \in Seq(Rows) /\ \A i \in DOMAIN rows : rows[i].height = Top + i
        /\ Handed = Top + Len(rows)
    BY Heights DEF Inv, TypeOK, MemTypeOK, OrderInv, Handed
  <1>2. heights = (Top + 1)..Handed
    <2>1. \A i \in DOMAIN rows : rows[i].height \in (Top + 1)..Handed
      BY <1>1
    <2>2. ASSUME NEW h \in (Top + 1)..Handed
          PROVE  h \in heights
      <3>1. h - Top \in 1..Len(rows) /\ Top + (h - Top) = h
        BY <1>1
      <3>2. h - Top \in DOMAIN rows /\ rows[h - Top].height = Top + (h - Top)
        BY <1>1, <3>1
      <3> QED
        BY <3>1, <3>2
    <2> QED
      BY <2>1, <2>2
  <1>3. DOMAIN WithRows(blockLog, uncommitted) = DOMAIN blockLog \cup heights
    BY DEF WithRows
  <1>4. ASSUME NEW h \in DOMAIN blockLog
        PROVE  WithRows(blockLog, uncommitted)[h] = blockLog[h]
    BY DEF WithRows
  <1>5. ASSUME NEW i \in DOMAIN rows
        PROVE  WithRows(blockLog, rows)[Top + i] = rows[i].aggState
    <2>1. Top + i \notin DOMAIN blockLog /\ Top + i \in heights
      BY <1>1, <1>2
    <2>2. PICK k \in DOMAIN rows : RowOf(rows, Top + i) = rows[k] /\ rows[k].height = Top + i
      BY <1>1, <2>1, RowOfIsARow, SMTT(60)
    <2>3. k = i
      BY <2>2, <1>1
    <2> QED
      BY <2>1, <2>2, <2>3 DEF WithRows
  <1>6. DOMAIN WithRows(blockLog, uncommitted) = FirstHeight..Handed
    <2> HIDE DEF heights
    <2> QED
      BY <1>1, <1>2, <1>3
  <1> QED
    BY <1>4, <1>5, <1>6

\* A commit: the table grows by the rows of the inserter, which were the next ones.
LEMMA CommitFacts ==
    ASSUME Inv, CommitRows, uncommitted' = <<>>,
           \/ uncommitted = <<>>
           \/ uncommitted[Len(uncommitted)].aggState # NoState
    PROVE  /\ DOMAIN blockLog' \subseteq Nat
           /\ blockLog' \in [DOMAIN blockLog' -> Seq(Nat)]
           /\ TableInv'
           /\ Top' = Handed /\ Handed' = Handed /\ Handed \in Nat
           /\ \A h \in DOMAIN blockLog : h \in DOMAIN blockLog' /\ blockLog'[h] = blockLog[h]
           /\ \A i \in DOMAIN uncommitted : blockLog'[Top + i] = uncommitted[i].aggState
           /\ DOMAIN blockLog' = FirstHeight..Handed
           /\ LastRow # 0 => LastRow' # 0
           /\ blockLog' # blockLog => LastRow' # 0
           /\ LastRow' # 0 => blockLog'[LastRow'] # NoState
  <1>1. /\ Top \in Nat /\ FirstHeight \in Nat \ {0} /\ FirstHeight - 1 <= Top
        /\ DOMAIN blockLog = FirstHeight..Top
        /\ LastRow = IF Top < FirstHeight THEN 0 ELSE Top
        /\ Len(uncommitted) \in Nat /\ DOMAIN uncommitted = 1..Len(uncommitted)
    BY Heights
  <1>2. uncommitted \in Seq(Rows) /\ \A i \in DOMAIN uncommitted : uncommitted[i].height = Top + i
    BY DEF Inv, TypeOK, MemTypeOK, OrderInv
  <1>3. blockLog' = WithRows(blockLog, uncommitted)
    BY DEF CommitRows
  <1>4. /\ DOMAIN blockLog' = FirstHeight..Handed
        /\ \A h \in DOMAIN blockLog : blockLog'[h] = blockLog[h]
        /\ \A i \in DOMAIN uncommitted : blockLog'[Top + i] = uncommitted[i].aggState
    BY <1>3, WithRowsExtends
  <1>5. DOMAIN blockLog' \subseteq Nat /\ blockLog' \in [DOMAIN blockLog' -> Seq(Nat)]
    BY <1>2, <1>3, WithRowsType DEF Inv, TypeOK, DbTypeOK
  <1>6. Handed \in Nat /\ FirstHeight - 1 <= Handed /\ Top <= Handed
        /\ Handed = Top + Len(uncommitted)
    BY <1>1 DEF Handed
  <1>7. LastRow' = IF Handed < FirstHeight THEN 0 ELSE Handed
    <2>1. LastHeight(blockLog') = IF Handed < FirstHeight THEN 0 ELSE Handed
      BY <1>4, <1>6, LastHeightOf
    <2> QED
      BY <2>1 DEF LastRow
  <1>8. Top' = Handed
    BY <1>1, <1>6, <1>7 DEF Top
  <1>9. Handed' = Handed
    BY <1>6, <1>8, Empty DEF Handed
  <1>10. LastRow' # 0 => blockLog'[LastRow'] # NoState
    <2>1. CASE uncommitted = <<>>
      <3>1. Handed = Top
        BY <2>1, <1>1, <1>6, Empty
      <3>2. LastRow' = LastRow
        BY <3>1, <1>1, <1>7
      <3>3. LastRow # 0 => LastRow \in DOMAIN blockLog /\ blockLog[LastRow] # NoState
        BY <1>1 DEF Inv, TableInv
      <3> QED
        BY <3>2, <3>3, <1>4
    <2>2. CASE uncommitted # <<>> /\ uncommitted[Len(uncommitted)].aggState # NoState
      <3>1. Len(uncommitted) \in DOMAIN uncommitted
        BY <2>2, <1>1, <1>2
      <3>2. blockLog'[Handed] # NoState
        BY <3>1, <2>2, <1>4, <1>6
      <3> QED
        BY <3>2, <1>7
    <2> QED
      BY <2>1, <2>2
  <1>11. TableInv'
    BY <1>1, <1>4, <1>6, <1>7, <1>10 DEF TableInv
  <1>12. \A h \in DOMAIN blockLog : h \in DOMAIN blockLog'
    BY <1>1, <1>4, <1>6
  <1>13. blockLog' # blockLog => LastRow' # 0
    <2>1. SUFFICES ASSUME LastRow' = 0 PROVE blockLog' = blockLog
      OBVIOUS
    <2>2. DOMAIN blockLog' = DOMAIN blockLog
      BY <2>1, <1>1, <1>4, <1>6, <1>7
    <2>3. blockLog \in [DOMAIN blockLog -> Seq(Nat)] /\ blockLog' \in [DOMAIN blockLog -> Seq(Nat)]
      BY <2>2, <1>5 DEF Inv, TypeOK, DbTypeOK
    <2>4. /\ blockLog = [h \in DOMAIN blockLog |-> blockLog[h]]
          /\ blockLog' = [h \in DOMAIN blockLog |-> blockLog'[h]]
      BY <2>3
    <2>5. [h \in DOMAIN blockLog |-> blockLog'[h]] = [h \in DOMAIN blockLog |-> blockLog[h]]
      BY <1>4
    <2> QED
      BY <2>4, <2>5
  <1> QED
    BY <1>1, <1>4, <1>5, <1>6, <1>7, <1>8, <1>9, <1>10, <1>11, <1>12, <1>13

\* When the writer may commit, the last row it handed over has a state.
LEMMA CommitHasState ==
    ASSUME Inv, \/ pc = "flush"
                \/ pc = "endBlock" /\ inserter = "immediate"
    PROVE  uncommitted = <<>> \/ uncommitted[Len(uncommitted)].aggState # NoState
  BY DEF Inv, StateInv

\* The table, after a transaction that was committed or rolled back.
LEMMA AfterCommit ==
    ASSUME Inv, uncommitted' = <<>>, UNCHANGED <<genesisConstant, genesisRows>>,
           inserterFail' \in BOOLEAN,
           \/ UNCHANGED blockLog
           \/ /\ CommitRows
              /\ uncommitted = <<>> \/ uncommitted[Len(uncommitted)].aggState # NoState
    PROVE  DbTypeOK' /\ TableInv'
  <1>1. CASE UNCHANGED blockLog
    <2>1. LastRow' = LastRow
      BY <1>1 DEF LastRow
    <2> QED
      BY <1>1, <2>1 DEF Inv, TypeOK, DbTypeOK, TableInv
  <1>2. CASE /\ CommitRows
             /\ uncommitted = <<>> \/ uncommitted[Len(uncommitted)].aggState # NoState
    <2>1. TableInv' /\ DOMAIN blockLog' \subseteq Nat /\ blockLog' \in [DOMAIN blockLog' -> Seq(Nat)]
      BY <1>2, CommitFacts
    <2> QED
      BY <2>1 DEF Inv, TypeOK, DbTypeOK
  <1> QED
    BY <1>1, <1>2

LEMMA ProcessBlockFailsInv == ASSUME Inv, ProcessBlockFails PROVE Inv'
  <1>1. /\ DbTypeOK' /\ TableInv'
        /\ HasGenesis => genesisConstant'
    BY AfterCommit, CommitHasState
       DEF ProcessBlockFails, WriterError, Inv, TypeOK, DbTypeOK, OrderInv, InLoop
  <1>2. TypeOK'
    <2>1. pc' \in PcValues /\ signals' \in BOOLEAN
      BY DEF ProcessBlockFails, WriterError, PcValues
    <2>2. FeedTypeOK' /\ stops' \in 0..MaxStops
      BY IngestAssumption DEF ProcessBlockFails, Fail, Inv, TypeOK, FeedTypeOK, feedVars
    <2> QED
      BY <1>1, <2>1, <2>2, Empty DEF ProcessBlockFails, Inv, TypeOK, MemTypeOK, writerUnchanged
  <1>3. OrderInv'
    BY <1>1, Empty DEF ProcessBlockFails, WriterError, OrderInv, InLoop
  <1>4. StateInv'
    BY DEF ProcessBlockFails, WriterError, StateInv
  <1> QED
    BY <1>1, <1>2, <1>3, <1>4 DEF Inv

LEMMA FlushFailsInv == ASSUME Inv, FlushFails PROVE Inv'
  <1>1. /\ DbTypeOK' /\ TableInv'
        /\ HasGenesis => genesisConstant'
    BY AfterCommit, CommitHasState
       DEF FlushFails, Inv, TypeOK, DbTypeOK, OrderInv, InLoop
  <1>2. TypeOK'
    <2>1. pc' \in PcValues
      BY DEF FlushFails, PcValues
    <2>2. FeedTypeOK' /\ stops' \in 0..MaxStops
      BY IngestAssumption DEF FlushFails, Fail, Inv, TypeOK, FeedTypeOK, feedVars
    <2> QED
      BY <1>1, <2>1, <2>2, Empty DEF FlushFails, Inv, TypeOK, MemTypeOK, writerUnchanged
  <1>3. OrderInv'
    BY <1>1, Empty DEF FlushFails, OrderInv, InLoop
  <1>4. StateInv'
    BY DEF FlushFails, StateInv
  <1> QED
    BY <1>1, <1>2, <1>3, <1>4 DEF Inv

\* The writer commits and goes on.
LEMMA CommitAndGoOn ==
    ASSUME Inv, pc \in {"endBlock", "flush"}, pc' \in {"flush", "publish", "written"},
           CommitRows, uncommitted' = <<>>,
           uncommitted = <<>> \/ uncommitted[Len(uncommitted)].aggState # NoState,
           UNCHANGED <<genesisConstant, genesisRows, inserterFail, writerUnchanged, recorder,
                       current, stopVars, feedVars>>,
           pc' = "flush" => current.commit
    PROVE  Inv'
  <1>1. /\ DbTypeOK' /\ TableInv'
        /\ HasGenesis => genesisConstant'
    BY AfterCommit DEF Inv, TypeOK, DbTypeOK, OrderInv, InLoop
  <1>2. Handed' = Handed /\ Handed \in Nat
    BY CommitFacts
  <1>3. TypeOK'
    <2>1. pc' \in PcValues
      BY DEF PcValues
    <2>2. FeedTypeOK' /\ stops' \in 0..MaxStops
      BY DEF Inv, TypeOK, FeedTypeOK, feedVars, stopVars
    <2> QED
      BY <1>1, <2>1, <2>2, Empty DEF Inv, TypeOK, MemTypeOK, writerUnchanged, stopVars
  <1>4. OrderInv'
    <2>1. Expected' = Expected
      BY <1>2 DEF Expected
    <2> QED
      BY <1>1, <1>2, <2>1, Empty DEF Inv, OrderInv, InLoop, feedVars
  <1>5. StateInv'
    BY DEF Inv, StateInv
  <1> QED
    BY <1>1, <1>3, <1>4, <1>5 DEF Inv

LEMMA FlushInv == ASSUME Inv, Flush PROVE Inv'
  BY CommitAndGoOn, CommitHasState DEF Flush

LEMMA EndBlockInv == ASSUME Inv, EndBlock PROVE Inv'
  <1>1. CASE inserter = "immediate"
    BY <1>1, CommitAndGoOn, CommitHasState DEF EndBlock, AfterEndBlock
  <1>2. CASE inserter # "immediate"
    <2>1. UNCHANGED <<dbVars, uncommitted, writerUnchanged, recorder, current, stopVars, feedVars>>
      BY <1>2 DEF EndBlock, dbVars
    <2>2. DbTypeOK' /\ TableInv' /\ LastRow' = LastRow /\ Top' = Top
      BY <2>1, SameDatabase
    <2>3. pc = "endBlock" /\ pc' = IF current.commit THEN "flush" ELSE "written"
      BY DEF EndBlock, AfterEndBlock
    <2>4. TypeOK'
      <3>1. pc' \in PcValues
        BY <2>3 DEF PcValues
      <3> QED
        BY <2>1, <2>2, <3>1
           DEF Inv, TypeOK, FeedTypeOK, MemTypeOK, writerUnchanged, stopVars, feedVars
    <2>5. OrderInv'
      BY <2>1, <2>2, <2>3 DEF Inv, OrderInv, InLoop, Handed, Expected, dbVars, feedVars
    <2>6. StateInv'
      BY <2>1, <2>3 DEF Inv, StateInv
    <2> QED
      BY <2>2, <2>4, <2>5, <2>6 DEF Inv
  <1> QED
    BY <1>1, <1>2

LEMMA MarkBatchInserterFailInv == ASSUME Inv, MarkBatchInserterFail PROVE Inv'
  <1>1. inserterFail' \in BOOLEAN /\ stops' \in 0..MaxStops
    BY DEF MarkBatchInserterFail, Inv, TypeOK, DbTypeOK
  <1> QED
    BY <1>1, DieInv DEF MarkBatchInserterFail

LEMMA ExitInv == ASSUME Inv, Exit \/ Crash \/ FlushGenesisFails PROVE Inv'
  <1>1. inserterFail' \in BOOLEAN /\ stops' \in 0..MaxStops
    BY IngestAssumption DEF Exit, Crash, FlushGenesisFails, Fail, Inv, TypeOK, DbTypeOK, dbVars
  <1> QED
    BY <1>1, DieInv DEF Exit, Crash, FlushGenesisFails, dbVars

LEMMA SetLastBlockInv == ASSUME Inv, SetLastBlock PROVE Inv'
  <1>1. DbTypeOK' /\ TableInv' /\ LastRow' = LastRow /\ Top' = Top
    BY SameDatabase DEF SetLastBlock
  <1>2. TypeOK'
    <2>1. /\ current \in InFlight /\ current.height \in Nat /\ current.aggState \in Seq(Nat)
          /\ pc' \in PcValues
      BY DEF SetLastBlock, Inv, TypeOK, MemTypeOK, InFlight, PcValues
    <2>2. lastCommitted' \in Nat /\ firstBlock' \in Nat /\ latest' \in Seq(Nat)
      BY <2>1 DEF SetLastBlock, Inv, TypeOK, MemTypeOK
    <2> QED
      BY <1>1, <2>1, <2>2
         DEF SetLastBlock, Inv, TypeOK, FeedTypeOK, MemTypeOK, stopVars, feedVars
  <1>3. OrderInv'
    BY <1>1 DEF SetLastBlock, Inv, OrderInv, InLoop, Expected, Handed, dbVars, feedVars
  <1>4. StateInv'
    BY DEF SetLastBlock, Inv, StateInv
  <1> QED
    BY <1>1, <1>2, <1>3, <1>4 DEF Inv

LEMMA EndIterationInv == ASSUME Inv, EndIteration PROVE Inv'
  <1>1. DbTypeOK' /\ TableInv' /\ LastRow' = LastRow /\ Top' = Top
    BY SameDatabase DEF EndIteration
  <1>2. TypeOK'
    <2>1. pc' \in PcValues /\ refreshRequests' \in 0..1
      BY DEF EndIteration, WithRequest, PcValues, Inv, TypeOK, MemTypeOK
    <2> QED
      BY <1>1, <2>1
         DEF EndIteration, Inv, TypeOK, FeedTypeOK, MemTypeOK, stopVars, feedVars
  <1>3. OrderInv'
    BY <1>1 DEF EndIteration, Inv, OrderInv, InLoop, Expected, Handed, dbVars, feedVars
  <1>4. StateInv'
    BY DEF EndIteration, Inv, StateInv
  <1> QED
    BY <1>1, <1>2, <1>3, <1>4 DEF Inv

LEMMA LeaveForkInv == ASSUME Inv, LeaveFork PROVE Inv'
  <1>1. DbTypeOK' /\ TableInv' /\ LastRow' = LastRow /\ Top' = Top
    BY SameDatabase DEF LeaveFork
  <1>2. TypeOK'
    <2>1. pc' \in PcValues /\ signals' \in BOOLEAN
      BY DEF LeaveFork, PcValues, Inv, TypeOK, MemTypeOK
    <2> QED
      BY <1>1, <2>1 DEF LeaveFork, Inv, TypeOK, FeedTypeOK, MemTypeOK, memVars, feedVars
  <1>3. OrderInv'
    BY <1>1 DEF LeaveFork, Inv, OrderInv, InLoop, Expected, Handed, dbVars, memVars, feedVars
  <1>4. StateInv'
    BY DEF LeaveFork, Inv, StateInv
  <1> QED
    BY <1>1, <1>2, <1>3, <1>4 DEF Inv

LEMMA FetcherStepsInv == ASSUME Inv, FetcherSteps PROVE Inv'
  <1>1. DbTypeOK' /\ TableInv' /\ LastRow' = LastRow /\ Top' = Top
    BY SameDatabase DEF FetcherSteps
  <1>2. UNCHANGED <<dbVars, memVars, stopVars, pc>> /\ Running
    BY DEF FetcherSteps
  <1>3. FeedTypeOK
    BY DEF Inv, TypeOK
  <1>4. FeedTypeOK' /\ (RefreshStatus => UNCHANGED <<nextFetch, blocks>>)
    <2>1. RefreshStatus => FeedTypeOK' /\ UNCHANGED <<nextFetch, blocks>>
      BY <1>3, BlockFeedAssumption DEF RefreshStatus, FeedTypeOK
    <2>2. SendBlock => FeedTypeOK'
      BY <1>3, BlockFeedAssumption DEF SendBlock, FeedTypeOK
    <2> QED
      BY <2>1, <2>2 DEF FetcherSteps
  <1>5. TypeOK'
    BY <1>1, <1>2, <1>4 DEF Inv, TypeOK, MemTypeOK, memVars, stopVars
  <1>6. Expected' = Expected /\ Expected \in Nat
    BY <1>1, <1>2, Heights DEF Expected, Handed, memVars
  <1>7. InLoop => /\ nextFetch' = Expected + Len(blocks')
                  /\ \A i \in DOMAIN blocks' : blocks'[i] = Expected + i - 1
    <2>1. SUFFICES ASSUME InLoop
                   PROVE  /\ nextFetch' = Expected + Len(blocks')
                          /\ \A i \in DOMAIN blocks' : blocks'[i] = Expected + i - 1
      OBVIOUS
    <2>2. /\ nextFetch = Expected + Len(blocks)
          /\ \A i \in DOMAIN blocks : blocks[i] = Expected + i - 1
      BY <2>1 DEF Inv, OrderInv
    <2>3. CASE RefreshStatus
      BY <2>2, <2>3, <1>4
    <2>4. CASE SendBlock
      BY <2>2, <2>4, <1>3, <1>6 DEF SendBlock, FeedTypeOK
    <2> QED
      BY <2>3, <2>4 DEF FetcherSteps
  <1>8. OrderInv'
    BY <1>1, <1>2, <1>6, <1>7
       DEF Running, Inv, OrderInv, InLoop, Handed, dbVars, memVars
  <1>9. StateInv'
    BY <1>2 DEF Inv, StateInv, memVars
  <1> QED
    BY <1>1, <1>5, <1>8, <1>9 DEF Inv

\* The other jobs and the operator touch neither the rows nor the blocks on their way.
LEMMA BystanderInv ==
    ASSUME Inv, TakeRefreshRequest \/ Signal \/ SignalWatch \/ UNCHANGED vars
    PROVE  Inv'
  <1>1. UNCHANGED <<dbVars, inserter, uncommitted, recorder, current, lastCommitted, latest,
                    firstBlock, pc, feedVars>>
    BY DEF TakeRefreshRequest, Signal, SignalWatch, vars, memVars
  <1>2. DbTypeOK' /\ TableInv' /\ LastRow' = LastRow /\ Top' = Top
    BY <1>1, SameDatabase
  <1>3. TypeOK'
    <2>0. refreshRequests \in 0..1 /\ signals \in BOOLEAN /\ ctxDone \in BOOLEAN
      BY DEF Inv, TypeOK, MemTypeOK
    <2>1. refreshRequests' \in 0..1
      BY <2>0 DEF TakeRefreshRequest, Signal, SignalWatch, vars, memVars
    <2>a. (UNCHANGED signals \/ signals' = TRUE) /\ (UNCHANGED ctxDone \/ ctxDone' = TRUE)
      BY DEF TakeRefreshRequest, Signal, SignalWatch, vars, stopVars
    <2>b. signals' \in BOOLEAN /\ ctxDone' \in BOOLEAN
      BY <2>0, <2>a
    <2>2. stops' \in 0..MaxStops
      BY IngestAssumption
         DEF TakeRefreshRequest, Signal, SignalWatch, Fail, vars, stopVars, Inv, TypeOK
    <2> QED
      BY <1>1, <1>2, <2>1, <2>2, <2>b DEF Inv, TypeOK, FeedTypeOK, MemTypeOK, feedVars
  <1>4. OrderInv'
    BY <1>1, <1>2 DEF Inv, OrderInv, InLoop, Expected, Handed, dbVars, feedVars
  <1>5. StateInv'
    BY <1>1 DEF Inv, StateInv
  <1> QED
    BY <1>2, <1>3, <1>4, <1>5 DEF Inv

\* Nothing is stored and nothing is on its way at first.
LEMMA InitInv == ASSUME Init PROVE Inv
  <1>1. TypeOK
    <2>1. pc \in PcValues /\ blockLog \in [DOMAIN blockLog -> Seq(Nat)]
      BY Empty DEF Init, PcValues
    <2>2. DbTypeOK
      BY <2>1, Empty DEF Init, DbTypeOK
    <2>3. signals \in BOOLEAN /\ ctxDone \in BOOLEAN
      BY DEF Init
    <2>4. FeedTypeOK /\ stops \in 0..MaxStops
      BY Empty, IngestAssumption, BlockFeedAssumption DEF Init, FeedTypeOK
    <2>5. current \in InFlight
      BY Empty DEF Init
    <2>6. /\ uncommitted \in Seq(Rows) /\ recorder \in Seq(Nat) /\ latest \in Seq(Nat)
          /\ lastCommitted \in Nat /\ firstBlock \in Nat /\ refreshRequests \in 0..1
          /\ inserter \in {"batch", "immediate"}
      BY Empty DEF Init
    <2> QED
      BY <2>1, <2>2, <2>3, <2>4, <2>5, <2>6 DEF TypeOK, MemTypeOK
  <1>2. DOMAIN blockLog = {} /\ LastRow = 0
    BY Empty DEF Init, LastRow, LastHeight
  <1>3. TableInv
    BY <1>2, Heights DEF TableInv
  <1>4. OrderInv /\ StateInv
    BY <1>2, Empty DEF Init, OrderInv, StateInv, InLoop
  <1> QED
    BY <1>1, <1>3, <1>4 DEF Inv

-----------------------------------------------------------------------------
(* The theorems of the first stage: the table can always be resumed from.  *)

\* The invariant holds of every reachable state: the blocks follow each other from
\* block_log over the inserter and the channel to the fetcher (blockwriter.go:29-94).
THEOREM InvHolds == Spec => []Inv
  <1>1. ASSUME Inv, [Next]_vars PROVE Inv'
    BY <1>1, StartProcessInv, SkipGenesisInv, RecordGenesisInv, FlushGenesisInv, StartJobsInv,
       CheckContextInv, SelectDoneInv, SelectBlockInv, ProcessBlockInv, ProcessBlockFailsInv,
       EndBlockInv, FlushInv, FlushFailsInv, MarkBatchInserterFailInv, SetLastBlockInv,
       EndIterationInv, LeaveForkInv, FetcherStepsInv, BystanderInv, ExitInv
       DEF Next, StartUp, Writer, Faults
  <1> QED
    BY <1>1, InitInv, PTL DEF Spec

\* Every variable keeps its type: no channel, buffer or column ever holds anything else.
THEOREM TypeCorrect == Spec => []TypeOK
  <1>1. Inv => TypeOK
    BY DEF Inv
  <1> QED
    BY <1>1, InvHolds, PTL

\* No batch, crash, retry or change of inserter leaves a hole in block_log, for chains,
\* batches and channels of any size (blockwriter.go:66-79, inserter.go:129-171).
THEOREM NoHoles == Spec => []BlockLogIsContiguous
  <1>1. Inv => BlockLogIsContiguous
    BY DEF Inv, TableInv, BlockLogIsContiguous
  <1> QED
    BY <1>1, InvHolds, PTL

\* Wherever the process is interrupted, Setup finds a state to continue from with the
\* last row of block_log (timeseries.go:139-155, 45-101).
THEOREM CanResume == Spec => []LastRowHasState
  <1>1. Inv => LastRowHasState
    BY DEF Inv, TableInv, LastRowHasState
  <1> QED
    BY <1>1, InvHolds, PTL

-----------------------------------------------------------------------------
(* The inserter's batches and the requests of the refresh.                  *)

\* Between any number and the next C of them there is a multiple of C.
LEMMA NextMultiple ==
    ASSUME NEW n \in Nat, NEW C \in Nat \ {0}
    PROVE  \E i \in 1..C : (n + i) % C = 0
  <1>1. n % C \in 0..(C - 1) /\ n = C * (n \div C) + (n % C) /\ n \div C \in Int
    OBVIOUS
  <1> DEFINE i == C - (n % C)
             q == n \div C
  <1>2. i \in 1..C
    BY <1>1
  <1>3. n + i = C * (q + 1)
    BY <1>1
  <1>4. (C * (q + 1)) % C = 0
    <2>1. \A x \in Int : (C * x) % C = 0
      OBVIOUS
    <2> QED
      BY <1>1, <2>1
  <1> QED
    BY <1>2, <1>3, <1>4

\* A batch inserter keeps no block that fills a batch longer than it takes to flush it,
\* and an immediate one keeps a block only until its EndBlock.
BatchInv ==
    /\ pc = "process" /\ current.height % CommitBatchSize = 0 => current.commit
    /\ IF inserter = "immediate"
       THEN uncommitted # <<>> => pc = "endBlock" /\ Len(uncommitted) = 1
       ELSE \A i \in DOMAIN uncommitted :
               (Top + i) % CommitBatchSize = 0 =>
                  /\ i = Len(uncommitted)
                  /\ pc \in {"endBlock", "flush"}
                  /\ current.commit

\* A block in sync is committed, and published before the end of its iteration.
SyncedInv ==
    /\ pc \in {"process", "endBlock"} /\ current.synced => current.commit
    /\ pc = "written" /\ current.synced => lastCommitted = current.height

\* So the rows of the inserter stop at the first height that fills a batch.
LEMMA BatchFits == Inv /\ BatchInv => BatchIsBounded
  <1> SUFFICES ASSUME Inv, BatchInv
               PROVE  Len(uncommitted) <= CommitBatchSize
    BY DEF BatchIsBounded
  <1>1. /\ CommitBatchSize \in Nat \ {0} /\ Top \in Nat
        /\ Len(uncommitted) \in Nat /\ DOMAIN uncommitted = 1..Len(uncommitted)
    BY Heights, IngestAssumption
  <1>2. CASE inserter = "immediate"
    <2>1. CASE uncommitted = <<>>
      BY <2>1, <1>1, Empty
    <2>2. CASE uncommitted # <<>>
      BY <2>2, <1>1, <1>2 DEF BatchInv
    <2> QED
      BY <2>1, <2>2
  <1>3. CASE inserter # "immediate"
    <2>1. PICK i \in 1..CommitBatchSize : (Top + i) % CommitBatchSize = 0
      BY <1>1, NextMultiple
    <2>2. i \in DOMAIN uncommitted => i = Len(uncommitted)
      BY <1>3, <2>1 DEF BatchInv
    <2>3. i \in 1..Len(uncommitted) => i = Len(uncommitted)
      BY <1>1, <2>2
    <2>4. Len(uncommitted) \in Nat /\ CommitBatchSize \in Nat
      BY <1>1
    <2> QED
      BY <2>3, <2>4
  <1> QED
    BY <1>2, <1>3

\* A step that drops the rows of the inserter.
LEMMA RowsDropped ==
    ASSUME uncommitted' = <<>>, pc' # "process"
    PROVE  BatchInv'
  BY Empty DEF BatchInv

\* A block is added behind the others; if it fills the batch it is to be committed.
LEMMA ProcessBlockBatch ==
    ASSUME Inv, BatchInv, SyncedInv, ProcessBlock
    PROVE  BatchInv' /\ SyncedInv'
  <1>1. /\ Top' = Top /\ Top \in Nat
        /\ Len(uncommitted) \in Nat /\ DOMAIN uncommitted = 1..Len(uncommitted)
    BY Heights, SameDatabase DEF ProcessBlock
  <1>2. uncommitted \in Seq(Rows) /\ current \in InFlight
    BY DEF Inv, TypeOK, MemTypeOK
  <1>3. /\ uncommitted' = Append(uncommitted, [height |-> current.height,
                                               aggState |-> StateToStore(current, recorder')])
        /\ pc = "process" /\ pc' = "endBlock"
        /\ inserter' = inserter
        /\ current' = [current EXCEPT !.commit = Persists(current), !.aggState = recorder']
    BY DEF ProcessBlock, writerUnchanged
  <1>4. DOMAIN uncommitted' = 1..(Len(uncommitted) + 1) /\ Len(uncommitted') = Len(uncommitted) + 1
    BY <1>2, <1>3
  <1>5. current'.commit = Persists(current) /\ current'.synced = current.synced
    BY <1>2, <1>3 DEF InFlight
  <1>6. current.commit => Persists(current)
    BY DEF Persists
  <1>7. current.height = Top + Len(uncommitted) + 1
    BY <1>1, <1>3 DEF Inv, OrderInv, Handed
  <1>8. CASE inserter = "immediate"
    <2>1. uncommitted = <<>>
      BY <1>3, <1>8 DEF BatchInv
    <2>2. Len(uncommitted') = 1
      BY <2>1, <1>4, Empty
    <2> QED
      BY <1>3, <1>5, <1>6, <1>8, <2>2 DEF BatchInv, SyncedInv
  <1>9. CASE inserter # "immediate"
    <2>1. ASSUME NEW i \in DOMAIN uncommitted', (Top' + i) % CommitBatchSize = 0
          PROVE  i = Len(uncommitted') /\ pc' \in {"endBlock", "flush"} /\ current'.commit
      <3>1. CASE i \in DOMAIN uncommitted
        BY <3>1, <2>1, <1>1, <1>3, <1>9 DEF BatchInv
      <3>2. CASE i = Len(uncommitted) + 1
        <4>1. current.height % CommitBatchSize = 0
          BY <3>2, <2>1, <1>1, <1>7
        <4>2. current.commit
          BY <4>1, <1>3 DEF BatchInv
        <4> QED
          BY <3>2, <4>2, <1>3, <1>4, <1>5, <1>6
      <3> QED
        BY <3>1, <3>2, <1>1, <1>4
    <2>2. BatchInv'
      BY <2>1, <1>3, <1>9 DEF BatchInv
    <2> QED
      BY <2>2, <1>3, <1>5, <1>6 DEF SyncedInv
  <1> QED
    BY <1>8, <1>9

\* Whether the next block commits is decided when it arrives.
LEMMA SelectBlockBatch ==
    ASSUME Inv, BatchInv, SyncedInv, SelectBlock
    PROVE  BatchInv' /\ SyncedInv'
  <1>1. Top' = Top
    BY SameDatabase DEF SelectBlock
  <1> DEFINE h == Head(blocks)
             s == (lastThorNode <= h + 1)
  <1>2. /\ pc = "select" /\ uncommitted' = uncommitted /\ inserter' = inserter
        /\ \/ pc' = "forkExit" /\ current' = current
           \/ /\ pc' = "process"
              /\ current' = [height |-> h, synced |-> s, commit |-> Commits(h, s),
                             aggState |-> NoState]
    BY DEF SelectBlock, writerUnchanged
  <1>3. pc' = "process" => /\ current'.height % CommitBatchSize = 0 => current'.commit
                           /\ current'.synced => current'.commit
    <2>1. SUFFICES ASSUME pc' = "process"
                   PROVE  /\ current'.height % CommitBatchSize = 0 => current'.commit
                          /\ current'.synced => current'.commit
      OBVIOUS
    <2>2. current'.height = h /\ current'.synced = s /\ current'.commit = Commits(h, s)
      BY <1>2, <2>1
    <2> QED
      BY <2>2 DEF Commits
  <1>4. BatchInv'
    BY <1>1, <1>2, <1>3 DEF BatchInv
  <1> QED
    BY <1>2, <1>3, <1>4 DEF SyncedInv

\* Each step keeps the batches within bounds and the blocks in sync published.
LEMMA BatchStep ==
    ASSUME Inv, BatchInv, SyncedInv, [Next]_vars
    PROVE  BatchInv' /\ SyncedInv'
  <1>1. CASE Die
    BY <1>1, RowsDropped DEF Die, NoMemory, SyncedInv
  <1>2. CASE StartUp
    <2>1. uncommitted = <<>> /\ pc \in {"down", "genesis", "flushGenesis", "jobs"}
      BY <1>2 DEF StartUp, StartProcess, SkipGenesis, RecordGenesis, FlushGenesis, StartJobs,
                  Inv, OrderInv
    <2>2. uncommitted' = uncommitted
      BY <1>2 DEF StartUp, StartProcess, SkipGenesis, RecordGenesis, FlushGenesis, StartJobs, memVars
    <2>3. pc' \notin {"process", "endBlock", "written"}
      BY <1>2 DEF StartUp, StartProcess, SkipGenesis, RecordGenesis, FlushGenesis, StartJobs
    <2> QED
      BY <2>1, <2>2, <2>3, RowsDropped DEF SyncedInv
  <1>3. CASE CheckContext \/ SelectDone \/ LeaveFork
    <2>1. UNCHANGED <<dbVars, memVars>> /\ pc \in {"loop", "select", "forkWait", "forkExit"}
          /\ pc' \notin {"process", "endBlock", "written"}
      BY <1>3 DEF CheckContext, SelectDone, LeaveFork
    <2>2. Top' = Top
      BY <2>1, SameDatabase
    <2> QED
      BY <2>1, <2>2 DEF BatchInv, SyncedInv, memVars
  <1>4. CASE ProcessBlockFails \/ FlushFails \/ Flush
    <2>1. uncommitted' = <<>> /\ pc' \in {"stopped", "markFail", "publish"}
      BY <1>4 DEF ProcessBlockFails, FlushFails, Flush, WriterError
    <2> QED
      BY <2>1, RowsDropped DEF SyncedInv
  <1>5. CASE EndBlock
    <2>1. pc = "endBlock" /\ pc' = (IF current.commit THEN "flush" ELSE "written")
          /\ current' = current /\ inserter' = inserter
      BY <1>5 DEF EndBlock, AfterEndBlock, writerUnchanged
    <2>2. SyncedInv'
      BY <2>1 DEF SyncedInv
    <2>3. CASE inserter = "immediate"
      BY <1>5, <2>1, <2>2, <2>3, RowsDropped DEF EndBlock
    <2>4. CASE inserter # "immediate"
      <3>1. Top' = Top /\ uncommitted' = uncommitted
        BY <1>5, <2>4 DEF EndBlock, Top, LastRow
      <3> QED
        BY <2>1, <2>2, <2>4, <3>1 DEF BatchInv
    <2> QED
      BY <2>3, <2>4
  <1>6. CASE SetLastBlock
    BY <1>6, RowsDropped DEF SetLastBlock, SyncedInv, Inv, OrderInv
  <1>7. CASE EndIteration
    <2>1. UNCHANGED <<dbVars, inserter, uncommitted>> /\ pc = "written" /\ pc' \in {"forkExit", "loop"}
      BY <1>7 DEF EndIteration
    <2>2. Top' = Top
      BY <2>1, SameDatabase
    <2> QED
      BY <2>1, <2>2 DEF BatchInv, SyncedInv
  <1>8. CASE FetcherSteps \/ TakeRefreshRequest \/ SignalWatch \/ Signal \/ UNCHANGED vars
    <2>1. UNCHANGED <<dbVars, inserter, uncommitted, current, lastCommitted, pc>>
      BY <1>8 DEF FetcherSteps, TakeRefreshRequest, SignalWatch, Signal, vars, memVars
    <2>2. Top' = Top
      BY <2>1, SameDatabase
    <2> QED
      BY <2>1, <2>2 DEF BatchInv, SyncedInv
  <1>9. MarkBatchInserterFail \/ Exit \/ Crash \/ FlushGenesisFails => Die
    BY DEF MarkBatchInserterFail, Exit, Crash, FlushGenesisFails
  <1> QED
    BY <1>1, <1>2, <1>3, <1>4, <1>5, <1>6, <1>7, <1>8, <1>9, SelectBlockBatch, ProcessBlockBatch
       DEF Next, Writer, Faults

\* However far behind the node the writer is, the inserter never holds more than one
\* batch: the memory of a long sync and the work a crash loses are bounded
\* (blockwriter.go:66-79, inserter.go:129-171).
THEOREM BatchesAreBounded == Spec => []BatchIsBounded
  <1>1. Init => BatchInv /\ SyncedInv
    BY Empty DEF Init, BatchInv, SyncedInv
  <1>2. Inv /\ BatchInv => BatchIsBounded
    BY BatchFits
  <1> QED
    BY <1>1, <1>2, BatchStep, InvHolds, PTL DEF Spec

\* The aggregates are asked to catch up only with a block that is committed and
\* published: no request precedes what it is about (blockwriter.go:66-94).
THEOREM RefreshIsAskedInTime == Spec => RefreshSeesTheBlock
  <1>1. Init => BatchInv /\ SyncedInv
    BY Empty DEF Init, BatchInv, SyncedInv
  <1>2. ASSUME Inv, SyncedInv, [Next]_vars
        PROVE  [refreshRequests < refreshRequests' => lastCommitted = current.height]_vars
    <2>1. CASE EndIteration
      <3>1. ~current.synced => refreshRequests' = refreshRequests
        BY <2>1 DEF EndIteration
      <3>2. refreshRequests \in 0..1
        BY <1>2 DEF Inv, TypeOK, MemTypeOK
      <3> QED
        BY <2>1, <3>1, <3>2, <1>2 DEF EndIteration, SyncedInv
    <2>2. CASE ~EndIteration
      <3>1. refreshRequests' = refreshRequests \/ refreshRequests' = 0
        BY <1>2, <2>2
           DEF Next, StartUp, Writer, Faults, StartProcess, SkipGenesis, RecordGenesis, FlushGenesis,
               StartJobs, CheckContext, SelectDone, SelectBlock, ProcessBlock, EndBlock, Flush,
               MarkBatchInserterFail, SetLastBlock, LeaveFork, FlushGenesisFails,
               ProcessBlockFails, FlushFails, Signal, Crash, FetcherSteps, TakeRefreshRequest,
               SignalWatch, Exit, Die, NoMemory, writerUnchanged, memVars, vars
      <3>2. refreshRequests \in 0..1
        BY <1>2 DEF Inv, TypeOK, MemTypeOK
      <3> QED
        BY <3>1, <3>2
    <2> QED
      BY <2>1, <2>2
  <1> QED
    BY <1>1, <1>2, BatchStep, InvHolds, PTL DEF Spec, RefreshSeesTheBlock

-----------------------------------------------------------------------------
(* With no genesis file, no block is ever counted twice or left out: the   *)
(* totals in the recorder, in the rows on their way and in the database    *)
(* are those of the blocks up to theirs, each added once and in order,     *)
(* through any number of crashes, failed flushes and restarts.             *)
(*                                                                         *)
(* The last part, with a genesis file or without: at an announced hard     *)
(* fork the writer stops, and nothing of the chain after it is added to    *)
(* the totals or stored, whether the fork was reached while writing or     *)
(* before the writer started.                                              *)

\* What the first stage says of a chain with no genesis file.
LEMMA NoGenesis ==
    ASSUME GenesisHeight = 0
    PROVE  /\ ~HasGenesis /\ FirstHeight = 1
           /\ Inv => Top = LastRow /\ DOMAIN blockLog = 1..Top /\ Top \in Nat /\ Handed \in Nat
  BY Heights DEF HasGenesis, Handed

\* The totals after h blocks.
LEMMA DepthsSeq ==
    ASSUME GenesisHeight = 0, NEW h \in Nat
    PROVE  /\ DepthsAt(h) \in Seq(Nat) /\ Len(DepthsAt(h)) = h
           /\ \A i \in 1..h : DepthsAt(h)[i] = i
           /\ DepthsAt(0) = NoState
  <1>1. DepthsAt(h) = [i \in 1..h |-> i] /\ DepthsAt(0) = [i \in 1..0 |-> i]
    BY DEF DepthsAt, BaseHeight, HasGenesis
  <1>2. [i \in 1..h |-> i] \in Seq(Nat) /\ [i \in 1..0 |-> i] = <<>>
    OBVIOUS
  <1> QED
    BY <1>1, <1>2 DEF NoState

\* Adding the next block gives the totals after it.
LEMMA DepthsNext ==
    ASSUME GenesisHeight = 0, NEW h \in Nat
    PROVE  Append(DepthsAt(h), h + 1) = DepthsAt(h + 1)
  <1> DEFINE s == Append(DepthsAt(h), h + 1)
             t == DepthsAt(h + 1)
  <1>1. /\ DepthsAt(h) \in Seq(Nat) /\ Len(DepthsAt(h)) = h
        /\ \A i \in 1..h : DepthsAt(h)[i] = i
    BY DepthsSeq
  <1>2. /\ t \in Seq(Nat) /\ Len(t) = h + 1
        /\ \A i \in 1..(h + 1) : t[i] = i
    <2>1. h + 1 \in Nat
      OBVIOUS
    <2> QED
      BY <2>1, DepthsSeq
  <1>3. /\ s \in Seq(Nat) /\ Len(s) = h + 1
        /\ \A i \in 1..(h + 1) : s[i] = i
    BY <1>1
  <1> HIDE DEF s, t
  <1>4. \A i \in 1..Len(s) : s[i] = t[i]
    BY <1>2, <1>3
  <1>5. s = t
    BY <1>2, <1>3, <1>4, SeqEqual
  <1> QED
    BY <1>5 DEF s, t

-----------------------------------------------------------------------------
(* ExactInv, one action at a time.                                         *)

LEMMA InitExact == ASSUME Init, GenesisHeight = 0 PROVE ExactInv
  BY Empty DEF Init, ExactInv, InLoop

\* A process that ends takes every copy of the totals with it but the stored ones.
LEMMA DieExact == ASSUME Inv, ExactInv, Die, UNCHANGED blockLog PROVE ExactInv'
  BY Empty DEF ExactInv, InLoop, Die, NoMemory

\* The state stored with the last row is that of the last row.
LEMMA RestoredExact == ASSUME Inv, ExactInv, GenesisHeight = 0 PROVE RestoredState = DepthsAt(LastRow)
  <1>1. CASE LastRow = 0
    BY <1>1, DepthsSeq DEF RestoredState
  <1>2. CASE LastRow # 0
    <2>1. LastRow \in DOMAIN blockLog /\ blockLog[LastRow] # NoState
      BY <1>2, Heights DEF Inv, TableInv
    <2> QED
      BY <1>2, <2>1 DEF ExactInv, RestoredState
  <1> QED
    BY <1>1, <1>2

\* Setup gives the recorder the totals after the last row.
LEMMA StartProcessExact == ASSUME Inv, ExactInv, StartProcess, GenesisHeight = 0 PROVE ExactInv'
  <1>1. Top' = Top /\ UNCHANGED <<blockLog, uncommitted>>
    BY DEF StartProcess, Top, LastRow, dbVars
  <1>2. uncommitted = <<>> /\ Handed' = LastRow
    BY <1>1, NoGenesis, Empty DEF StartProcess, Inv, OrderInv, Handed
  <1>3. RestoredState = DepthsAt(LastRow)
    BY RestoredExact
  <1>4. pc' \in {"genesis", "unstartable"} /\ recorder' = RestoredState /\ latest' = RestoredState
        /\ lastCommitted' = LastRow
    BY DEF StartProcess
  <1>5. LastRow # 0 => LastRow \in DOMAIN blockLog
    BY Heights
  <1> QED
    BY <1>1, <1>2, <1>3, <1>4, <1>5, Empty DEF ExactInv, InLoop

\* ProcessBlock adds the next block to the totals.
LEMMA ProcessBlockExact == ASSUME Inv, ExactInv, ProcessBlock, GenesisHeight = 0 PROVE ExactInv'
  <1>1. Top' = Top /\ UNCHANGED blockLog
    BY DEF ProcessBlock, Top, LastRow, dbVars
  <1>2. /\ uncommitted \in Seq(Rows) /\ Len(uncommitted) \in Nat
        /\ current.height = Handed + 1 /\ recorder = DepthsAt(Handed) /\ Handed \in Nat
        /\ Handed = Top + Len(uncommitted) /\ Top \in Nat
        /\ current \in InFlight /\ recorder \in Seq(Nat)
    BY NoGenesis, Heights
       DEF ProcessBlock, Inv, TypeOK, MemTypeOK, OrderInv, ExactInv, InLoop, Handed
  <1>3. recorder' = DepthsAt(Handed + 1)
    BY <1>2, DepthsNext DEF ProcessBlock
  <1> DEFINE row == [height |-> current.height,
                     aggState |-> StateToStore(current, DepthsAt(Handed + 1))]
  <1>4. row \in Rows /\ row.aggState \in {NoState, DepthsAt(Handed + 1)}
    <2>1. StateToStore(current, DepthsAt(Handed + 1)) \in {NoState, DepthsAt(Handed + 1)}
      BY DEF StateToStore
    <2>2. Handed + 1 \in Nat
      BY <1>2
    <2>3. DepthsAt(Handed + 1) \in Seq(Nat)
      BY <2>2, DepthsSeq
    <2>4. StateToStore(current, DepthsAt(Handed + 1)) \in Seq(Nat)
      BY <2>1, <2>3, Empty DEF NoState
    <2> QED
      BY <1>2, <2>1, <2>4 DEF Rows
  <1>5. uncommitted' = Append(uncommitted, row)
    BY <1>3 DEF ProcessBlock
  <1> HIDE DEF row
  <1>6. /\ Len(uncommitted') = Len(uncommitted) + 1
        /\ DOMAIN uncommitted' = 1..(Len(uncommitted) + 1) /\ DOMAIN uncommitted = 1..Len(uncommitted)
        /\ \A i \in DOMAIN uncommitted : uncommitted'[i] = uncommitted[i]
        /\ uncommitted'[Len(uncommitted) + 1] = row
    BY <1>2, <1>4, <1>5
  <1>7. Handed' = Handed + 1
    BY <1>1, <1>2, <1>6 DEF Handed
  <1>8. \A i \in DOMAIN uncommitted' : uncommitted'[i].aggState \in {NoState, DepthsAt(Top' + i)}
    <2>1. \A i \in DOMAIN uncommitted : uncommitted[i].aggState \in {NoState, DepthsAt(Top + i)}
      BY DEF ExactInv
    <2>2. Top + (Len(uncommitted) + 1) = Handed + 1
      BY <1>2
    <2>3. ASSUME NEW i \in DOMAIN uncommitted'
          PROVE  uncommitted'[i].aggState \in {NoState, DepthsAt(Top' + i)}
      <3>1. CASE i = Len(uncommitted) + 1
        BY <3>1, <2>2, <1>1, <1>4, <1>6
      <3>2. CASE i # Len(uncommitted) + 1
        <4>1. i \in DOMAIN uncommitted
          BY <3>2, <1>2, <1>6
        <4> QED
          BY <4>1, <2>1, <1>1, <1>6
      <3> QED
        BY <3>1, <3>2
    <2> QED
      BY <2>3
  <1>9. current'.aggState = recorder'
    BY <1>2 DEF ProcessBlock, InFlight
  <1>10. lastCommitted' = lastCommitted /\ latest' = latest /\ pc' = "endBlock"
    BY DEF ProcessBlock, writerUnchanged
  <1> QED
    BY <1>1, <1>3, <1>7, <1>8, <1>9, <1>10 DEF ExactInv

\* A transaction that commits or rolls back stores only what the rows held.
LEMMA CommitExact ==
    ASSUME Inv, ExactInv, GenesisHeight = 0, uncommitted' = <<>>,
           UNCHANGED <<lastCommitted, latest, recorder, current>>,
           pc = "flush" \/ (pc = "endBlock" /\ inserter = "immediate"),
           \/ CommitRows /\ pc' \in {"flush", "publish", "written", "markFail", "stopped"}
           \/ UNCHANGED blockLog /\ pc' \in {"markFail", "stopped"}
    PROVE  ExactInv'
  <1>1. CASE CommitRows /\ pc' \in {"flush", "publish", "written", "markFail", "stopped"}
    <2>1. uncommitted = <<>> \/ uncommitted[Len(uncommitted)].aggState # NoState
      BY CommitHasState
    <2>2. /\ Handed' = Handed
          /\ \A h \in DOMAIN blockLog : h \in DOMAIN blockLog' /\ blockLog'[h] = blockLog[h]
          /\ \A i \in DOMAIN uncommitted : blockLog'[Top + i] = uncommitted[i].aggState
          /\ DOMAIN blockLog' = FirstHeight..Handed
      BY <1>1, <2>1, CommitFacts
    <2>3. /\ FirstHeight = 1 /\ DOMAIN blockLog = 1..Top /\ Top \in Nat
          /\ DOMAIN uncommitted = 1..Len(uncommitted) /\ Len(uncommitted) \in Nat
          /\ Handed = Top + Len(uncommitted)
      BY NoGenesis, Heights DEF Handed
    <2>4. ASSUME NEW h \in DOMAIN blockLog'
          PROVE  blockLog'[h] \in {NoState, DepthsAt(h)}
      <3>1. CASE h \in DOMAIN blockLog
        BY <3>1, <2>2 DEF ExactInv
      <3>2. CASE h \notin DOMAIN blockLog
        <4>1. h - Top \in DOMAIN uncommitted /\ Top + (h - Top) = h
          BY <3>2, <2>2, <2>3
        <4>2. /\ blockLog'[Top + (h - Top)] = uncommitted[h - Top].aggState
              /\ uncommitted[h - Top].aggState \in {NoState, DepthsAt(Top + (h - Top))}
          BY <4>1, <2>2 DEF ExactInv
        <4> QED
          BY <4>1, <4>2
      <3> QED
        BY <3>1, <3>2
    <2>5. lastCommitted' # 0 => lastCommitted' \in DOMAIN blockLog' /\ latest' = DepthsAt(lastCommitted')
      BY <2>2 DEF ExactInv
    <2>6. InLoop /\ pc \in {"endBlock", "flush"}
      BY DEF InLoop
    <2>7. recorder' = DepthsAt(Handed') /\ current'.aggState = DepthsAt(Handed')
      BY <2>2, <2>6 DEF ExactInv
    <2> QED
      BY <1>1, <2>4, <2>5, <2>7, Empty DEF ExactInv
  <1>2. CASE UNCHANGED blockLog /\ pc' \in {"markFail", "stopped"}
    BY <1>2, Empty DEF ExactInv, InLoop
  <1> QED
    BY <1>1, <1>2

LEMMA WriteExact ==
    ASSUME Inv, ExactInv, GenesisHeight = 0, Flush \/ FlushFails \/ EndBlock \/ ProcessBlockFails
    PROVE  ExactInv'
  <1>1. UNCHANGED <<lastCommitted, latest, recorder, current>>
    BY DEF Flush, FlushFails, EndBlock, ProcessBlockFails, writerUnchanged
  <1>2. CASE Flush
    BY <1>1, <1>2, CommitExact DEF Flush
  <1>3. CASE FlushFails
    BY <1>1, <1>3, CommitExact DEF FlushFails
  <1>4. CASE ProcessBlockFails /\ pc = "endBlock"
    BY <1>1, <1>4, CommitExact DEF ProcessBlockFails, WriterError
  <1>5. CASE ProcessBlockFails /\ pc = "process"
    BY <1>1, <1>5, Empty DEF ProcessBlockFails, WriterError, ExactInv, InLoop
  <1>6. CASE EndBlock /\ inserter = "immediate"
    BY <1>1, <1>6, CommitExact DEF EndBlock, AfterEndBlock
  <1>7. CASE EndBlock /\ inserter # "immediate"
    <2>1. UNCHANGED <<blockLog, uncommitted>> /\ pc = "endBlock" /\ pc' \in {"flush", "written"}
      BY <1>7 DEF EndBlock, AfterEndBlock
    <2>2. Top' = Top /\ Handed' = Handed
      BY <2>1 DEF Top, Handed, LastRow
    <2> QED
      BY <1>1, <2>1, <2>2 DEF ExactInv, InLoop
  <1> QED
    BY <1>2, <1>3, <1>4, <1>5, <1>6, <1>7 DEF ProcessBlockFails

\* setLastBlock publishes the block that was just flushed.
LEMMA SetLastBlockExact == ASSUME Inv, ExactInv, GenesisHeight = 0, SetLastBlock PROVE ExactInv'
  <1>1. UNCHANGED <<blockLog, uncommitted, recorder, current>> /\ Top' = Top /\ Handed' = Handed
    BY DEF SetLastBlock, dbVars, Top, Handed, LastRow
  <1>2. uncommitted = <<>> /\ Handed = Top /\ DOMAIN blockLog = 1..Top /\ Top \in Nat
    BY NoGenesis, Empty DEF SetLastBlock, Inv, OrderInv, Handed
  <1>3. lastCommitted' = Top /\ latest' = DepthsAt(Top)
    BY <1>2 DEF SetLastBlock, Inv, OrderInv, ExactInv
  <1>4. Top # 0 => Top \in DOMAIN blockLog
    BY <1>2
  <1> QED
    BY <1>1, <1>3, <1>4 DEF SetLastBlock, ExactInv, InLoop

\* The other steps move neither totals nor rows.
LEMMA QuietExact ==
    ASSUME Inv, ExactInv, GenesisHeight = 0,
           \/ SkipGenesis \/ StartJobs \/ CheckContext \/ SelectDone \/ SelectBlock
           \/ EndIteration \/ LeaveFork \/ FetcherSteps \/ TakeRefreshRequest \/ Signal
           \/ SignalWatch \/ UNCHANGED vars
    PROVE  ExactInv'
  <1>1. UNCHANGED <<blockLog, uncommitted, recorder, lastCommitted, latest>>
    BY NoGenesis
       DEF SkipGenesis, StartJobs, CheckContext, SelectDone, SelectBlock, EndIteration, LeaveFork,
           FetcherSteps, TakeRefreshRequest, Signal, SignalWatch, vars, dbVars, memVars,
           writerUnchanged
  <1>2. Top' = Top /\ Handed' = Handed
    BY <1>1 DEF Top, Handed, LastRow
  <1>3. pc' \in {"endBlock", "flush", "publish", "written"} => pc' = pc /\ current' = current
    BY DEF SkipGenesis, StartJobs, CheckContext, SelectDone, SelectBlock, EndIteration, LeaveFork,
           FetcherSteps, TakeRefreshRequest, Signal, SignalWatch, vars, memVars
  <1>4. InLoop' \/ pc' \in {"genesis", "jobs"} => InLoop \/ pc \in {"genesis", "jobs"}
    BY DEF InLoop, SkipGenesis, StartJobs, CheckContext, SelectDone, SelectBlock, EndIteration,
           LeaveFork, FetcherSteps, TakeRefreshRequest, Signal, SignalWatch, vars
  <1> QED
    BY <1>1, <1>2, <1>3, <1>4 DEF ExactInv

-----------------------------------------------------------------------------
(* The theorems of the second stage.                                       *)

\* With no genesis file, every copy of the totals is exact in every reachable state.
THEOREM ExactHolds == ASSUME GenesisHeight = 0 PROVE Spec => [](Inv /\ ExactInv)
  <1>1. Init => Inv /\ ExactInv
    BY InitInv, InitExact
  <1>2. ASSUME Inv, ExactInv, [Next]_vars PROVE ExactInv'
    <2>1. ~RecordGenesis /\ ~FlushGenesis /\ ~FlushGenesisFails
      BY <1>2, NoGenesis DEF RecordGenesis, FlushGenesis, FlushGenesisFails, Inv, OrderInv
    <2>2. CASE StartProcess
      BY <1>2, <2>2, StartProcessExact
    <2>3. CASE ProcessBlock
      BY <1>2, <2>3, ProcessBlockExact
    <2>4. CASE Flush \/ FlushFails \/ EndBlock \/ ProcessBlockFails
      BY <1>2, <2>4, WriteExact
    <2>5. CASE SetLastBlock
      BY <1>2, <2>5, SetLastBlockExact
    <2>6. CASE MarkBatchInserterFail \/ Exit \/ Crash
      BY <1>2, <2>6, DieExact DEF MarkBatchInserterFail, Exit, Crash, dbVars
    <2>7. CASE \/ SkipGenesis \/ StartJobs \/ CheckContext \/ SelectDone \/ SelectBlock
               \/ EndIteration \/ LeaveFork \/ FetcherSteps \/ TakeRefreshRequest \/ Signal
               \/ SignalWatch \/ UNCHANGED vars
      BY <1>2, <2>7, QuietExact
    <2> QED
      BY <1>2, <2>1, <2>2, <2>3, <2>4, <2>5, <2>6, <2>7 DEF Next, StartUp, Writer, Faults
  <1>3. Inv /\ ExactInv /\ [Next]_vars /\ Inv' => (Inv /\ ExactInv)'
    BY <1>2
  <1> QED
    BY <1>1, <1>3, InvHolds, PTL DEF Spec

\* Every stored agg_state is the totals after exactly the blocks up to its row
\* (timeseries.go:118-196, Setup, KeepInSync): nothing is counted twice or left out.
THEOREM StoredStatesAreExact == ASSUME GenesisHeight = 0 PROVE Spec => []StatesAreExact
  <1>1. ExactInv => StatesAreExact
    BY DEF ExactInv, StatesAreExact
  <1> QED
    BY <1>1, ExactHolds, PTL

\* What readers are told is committed is in the database, and the depths they are served
\* are those of that block (setLastBlock after Flush, timeseries.go:176-202).
THEOREM ReadersSeeCommitted == ASSUME GenesisHeight = 0 PROVE Spec => []PublishedIsCommitted
  <1>1. ExactInv => PublishedIsCommitted
    BY DEF ExactInv, PublishedIsCommitted
  <1> QED
    BY <1>1, ExactHolds, PTL

\* Rows are never deleted or rewritten, and a flush ends with a row to resume from
\* (inserter.go:129-171, timeseries.go:139-155).
THEOREM RowsStay == Spec => RowsArePermanent
  <1>1. ASSUME Inv, [Next]_vars
        PROVE  /\ \A h \in DOMAIN blockLog : h \in DOMAIN blockLog' /\ blockLog'[h] = blockLog[h]
               /\ blockLog' # blockLog => blockLog'[LastRow'] # NoState
    <2>1. CASE UNCHANGED blockLog
      BY <2>1
    <2>2. CASE ~UNCHANGED blockLog
      <3>1. /\ CommitRows /\ uncommitted' = <<>>
            /\ pc = "flush" \/ (pc = "endBlock" /\ inserter = "immediate")
        BY <1>1, <2>2
           DEF Next, StartUp, Writer, Faults, vars, dbVars,
               StartProcess, SkipGenesis, RecordGenesis, FlushGenesis, FlushGenesisFails, StartJobs,
               CheckContext, SelectDone, SelectBlock, ProcessBlock, ProcessBlockFails, EndBlock,
               Flush, FlushFails, MarkBatchInserterFail, SetLastBlock, EndIteration, LeaveFork,
               FetcherSteps, TakeRefreshRequest, Signal, SignalWatch, Exit, Crash
      <3>2. uncommitted = <<>> \/ uncommitted[Len(uncommitted)].aggState # NoState
        BY <1>1, <3>1, CommitHasState
      <3> QED
        BY <1>1, <3>1, <3>2, CommitFacts
    <2> QED
      BY <2>1, <2>2
  <1> QED
    BY <1>1, InvHolds, PTL DEF Spec, RowsArePermanent

\* The writer implements the ledger (Ledger.tla): what it stores and publishes is a prefix
\* of the chain and the state after it, whatever stops it and wherever it is started again.
THEOREM LedgerImplemented == ASSUME GenesisHeight = 0 PROVE Spec => ImplementsLedger
  <1>1. Init => Promised!Init
    BY InitInv, NoGenesis, DepthsSeq, Heights DEF Init, Promised!Init, RestoredState, LastRow, LastHeight
  <1>2. ASSUME Inv, ExactInv, Inv', ExactInv', [Next]_vars
        PROVE  [Promised!Next]_Promised!vars
    <2>1. /\ LastRow \in Nat /\ LastRow' \in Nat /\ lastCommitted \in Nat
          /\ RestoredState = DepthsAt(LastRow) /\ RestoredState' = DepthsAt(LastRow')
      <3>1. LastRow \in Nat /\ LastRow' \in Nat /\ lastCommitted \in Nat
        BY <1>2 DEF Inv, TableInv, TypeOK, MemTypeOK
      <3>2. RestoredState = DepthsAt(LastRow)
        BY <1>2, RestoredExact
      <3>3. RestoredState' = DepthsAt(LastRow')
        <4>1. LastRow' = 0 => RestoredState' = DepthsAt(LastRow')
          BY DepthsSeq DEF RestoredState
        <4>2. LastRow' # 0 => LastRow' \in DOMAIN blockLog' /\ blockLog'[LastRow'] # NoState
          BY <1>2, Heights DEF Inv, TableInv
        <4>3. LastRow' # 0 => RestoredState' = DepthsAt(LastRow')
          BY <1>2, <4>2 DEF ExactInv, RestoredState
        <4> QED
          BY <4>1, <4>3
      <3> QED
        BY <3>1, <3>2, <3>3
    <2>2. CASE StartProcess
      <3>1. LastRow' = LastRow /\ pc = "down" /\ lastCommitted' = LastRow
        BY <2>2 DEF StartProcess, LastRow, dbVars
      <3>2. pc' = "genesis"
        BY <1>2, <2>2 DEF StartProcess, Inv, TableInv
      <3> QED
        BY <2>1, <3>1, <3>2 DEF Promised!Next, Promised!Start
    <2>3. CASE Flush \/ FlushFails \/ EndBlock \/ ProcessBlockFails
      <3>1. /\ pc \in {"flush", "endBlock", "process"}
            /\ pc' \in {"publish", "markFail", "flush", "written", "stopped"}
            /\ lastCommitted' = lastCommitted
        BY <2>3 DEF Flush, FlushFails, EndBlock, ProcessBlockFails, WriterError, AfterEndBlock,
                    writerUnchanged
      <3>2. CASE UNCHANGED blockLog
        BY <3>1, <3>2 DEF Promised!vars, LastRow, RestoredState
      <3>3. CASE ~UNCHANGED blockLog
        <4>1. /\ CommitRows /\ uncommitted' = <<>>
              /\ pc = "flush" \/ (pc = "endBlock" /\ inserter = "immediate")
          BY <2>3, <3>3 DEF Flush, FlushFails, EndBlock, ProcessBlockFails
        <4>2. uncommitted = <<>> \/ uncommitted[Len(uncommitted)].aggState # NoState
          BY <1>2, <4>1, CommitHasState
        <4>3. Top' = Handed /\ Top \in Nat /\ Top <= Handed
          BY <1>2, <4>1, <4>2, CommitFacts, Heights DEF Handed
        <4>4. Top = LastRow /\ Top' = LastRow'
          BY <1>2, NoGenesis DEF Top
        <4>5. CASE LastRow' = LastRow
          BY <2>1, <3>1, <4>5 DEF Promised!vars
        <4>6. CASE LastRow < LastRow'
          BY <2>1, <3>1, <4>6 DEF Promised!Next, Promised!Store
        <4> QED
          BY <2>1, <4>3, <4>4, <4>5, <4>6
      <3> QED
        BY <3>2, <3>3
    <2>4. CASE SetLastBlock
      <3>1. UNCHANGED <<LastRow, RestoredState>> /\ pc = "publish" /\ pc' = "written"
        BY <2>4 DEF SetLastBlock, dbVars, LastRow, RestoredState
      <3>2. lastCommitted' = LastRow
        BY <1>2, <2>4, NoGenesis, Empty DEF SetLastBlock, Inv, OrderInv, Handed
      <3>3. lastCommitted <= LastRow
        BY <1>2, <2>1, NoGenesis DEF ExactInv
      <3> QED
        BY <2>1, <3>1, <3>2, <3>3 DEF Promised!Next, Promised!Publish, Promised!vars
    <2>5. CASE MarkBatchInserterFail \/ Exit \/ Crash \/ FlushGenesisFails
      <3>1. /\ UNCHANGED <<LastRow, RestoredState>> /\ pc \notin {"down", "unstartable"}
            /\ pc' = "down" /\ lastCommitted' = 0
        BY <2>5 DEF MarkBatchInserterFail, Exit, Crash, FlushGenesisFails, Die, NoMemory, dbVars,
                    LastRow, RestoredState
      <3> QED
        BY <3>1 DEF Promised!Next, Promised!Stop
    <2>6. CASE \/ SkipGenesis \/ StartJobs \/ CheckContext \/ SelectDone \/ SelectBlock
               \/ ProcessBlock \/ EndIteration \/ LeaveFork \/ FetcherSteps
               \/ TakeRefreshRequest \/ Signal \/ SignalWatch \/ UNCHANGED vars
      <3>1. UNCHANGED <<blockLog, lastCommitted>>
        BY <2>6, NoGenesis
           DEF SkipGenesis, StartJobs, CheckContext, SelectDone, SelectBlock, ProcessBlock,
               EndIteration, LeaveFork, FetcherSteps, TakeRefreshRequest, Signal, SignalWatch,
               vars, dbVars, memVars, writerUnchanged
      <3>2. (pc \in {"down", "unstartable"}) <=> (pc' \in {"down", "unstartable"})
        BY <2>6
           DEF SkipGenesis, StartJobs, CheckContext, SelectDone, SelectBlock, ProcessBlock,
               EndIteration, LeaveFork, FetcherSteps, TakeRefreshRequest, Signal, SignalWatch,
               Running, vars
      <3> QED
        BY <3>1, <3>2 DEF Promised!vars, LastRow, RestoredState
    <2>7. ~RecordGenesis /\ ~FlushGenesis
      BY <1>2, NoGenesis DEF RecordGenesis, FlushGenesis, Inv, OrderInv
    <2> QED
      BY <1>2, <2>2, <2>3, <2>4, <2>5, <2>6, <2>7 DEF Next, StartUp, Writer, Faults
  <1> QED
    BY <1>1, <1>2, ExactHolds, PTL DEF Spec, ImplementsLedger, Promised!Spec

-----------------------------------------------------------------------------
(* The announced hard fork.                                                *)

\* The next height written is at most one above the fork to begin with.
LEMMA ForkHeights ==
    ASSUME Inv, HardForkHeight # 0
    PROVE  /\ FirstHeight - 1 <= HardForkHeight /\ HardForkHeight \in Nat
           /\ Top \in Nat /\ Handed \in Nat /\ Len(uncommitted) \in Nat
           /\ Handed = Top + Len(uncommitted) /\ Top <= Handed
  <1>1. FirstHeight - 1 <= HardForkHeight /\ HardForkHeight \in Nat
    BY IngestAssumption DEF FirstHeight, HasGenesis
  <1> QED
    BY <1>1, Heights DEF Handed

LEMMA InitFork == ASSUME Init PROVE ForkInv
  <1>1. Inv
    BY InitInv
  <1>2. HardForkHeight # 0 => Handed <= HardForkHeight
    <2>1. LastRow = 0 /\ uncommitted = <<>>
      BY Empty DEF Init, LastRow, LastHeight
    <2> QED
      BY <1>1, <2>1, ForkHeights, Empty DEF Top, Handed
  <1> QED
    BY <1>2, Empty DEF Init, ForkInv, BeforeFork

\* A process that ends leaves the stored states, and loses the others.
LEMMA DieFork == ASSUME Inv, ForkInv, Die, UNCHANGED blockLog PROVE ForkInv'
  <1>1. SUFFICES ASSUME HardForkHeight # 0 PROVE ForkInv'
    BY DEF ForkInv
  <1>2. Top' = Top /\ Handed' = Top
    <2>1. Top' = Top
      BY DEF Top, LastRow
    <2> QED
      BY <1>1, <2>1, ForkHeights, Empty DEF Handed, Die, NoMemory
  <1> QED
    BY <1>1, <1>2, ForkHeights, Empty DEF ForkInv, BeforeFork, Die, NoMemory

\* The totals of a new process are those that were stored.
LEMMA StartProcessFork == ASSUME Inv, ForkInv, StartProcess PROVE ForkInv'
  <1>1. UNCHANGED <<blockLog, uncommitted>> /\ Top' = Top /\ Handed' = Handed
    BY DEF StartProcess, dbVars, Top, Handed, LastRow
  <1>2. HardForkHeight # 0 => BeforeFork(RestoredState)
    BY Heights, Empty DEF ForkInv, BeforeFork, RestoredState, NoState
  <1>3. recorder' = RestoredState /\ pc' # "process"
    BY DEF StartProcess
  <1> QED
    BY <1>1, <1>2, <1>3 DEF ForkInv, BeforeFork

\* The genesis file belongs to the chain before the fork.
LEMMA RecordGenesisFork == ASSUME Inv, ForkInv, RecordGenesis PROVE ForkInv'
  <1>1. UNCHANGED <<blockLog, uncommitted>> /\ Top' = Top /\ Handed' = Handed
    BY DEF RecordGenesis, Top, Handed, LastRow
  <1>2. GenesisHeight - 1 \in Nat /\ recorder \in Seq(Nat)
    BY IngestAssumption DEF RecordGenesis, HasGenesis, Inv, TypeOK, MemTypeOK
  <1>3. HardForkHeight # 0 => GenesisHeight - 1 <= HardForkHeight
    BY <1>2, IngestAssumption
  <1>4. HardForkHeight # 0 => BeforeFork(recorder')
    BY <1>2, <1>3 DEF RecordGenesis, ForkInv, BeforeFork
  <1>5. pc' # "process"
    BY DEF RecordGenesis
  <1> QED
    BY <1>1, <1>4, <1>5 DEF ForkInv

\* A block after the fork is not processed.
LEMMA SelectBlockFork == ASSUME Inv, ForkInv, SelectBlock PROVE ForkInv'
  <1>1. UNCHANGED <<blockLog, uncommitted, recorder>> /\ Top' = Top /\ Handed' = Handed
    BY DEF SelectBlock, dbVars, Top, Handed, LastRow
  <1>2. Inv'
    BY SelectBlockInv
  <1>3. HardForkHeight # 0 /\ pc' = "process" => Handed' < HardForkHeight
    <2>1. SUFFICES ASSUME HardForkHeight # 0, pc' = "process" PROVE Handed' < HardForkHeight
      OBVIOUS
    <2>2. current'.height = Handed' + 1 /\ Handed' \in Nat
      BY <1>2, <2>1, <1>1, ForkHeights DEF Inv, OrderInv
    <2>3. current'.height = Head(blocks) /\ ~(HardForkHeight < Head(blocks))
      BY <2>1 DEF SelectBlock, BeyondFork
    <2> QED
      BY <2>1, <2>2, <2>3, ForkHeights
  <1> QED
    BY <1>1, <1>3 DEF ForkInv

LEMMA ProcessBlockFork == ASSUME Inv, ForkInv, ProcessBlock PROVE ForkInv'
  <1>1. SUFFICES ASSUME HardForkHeight # 0 PROVE ForkInv'
    BY DEF ForkInv
  <1>2. UNCHANGED blockLog /\ Top' = Top /\ pc' = "endBlock"
    BY DEF ProcessBlock, dbVars, Top, LastRow
  <1>3. /\ uncommitted \in Seq(Rows) /\ recorder \in Seq(Nat) /\ current.height \in Nat
        /\ current.height = Handed + 1 /\ Handed < HardForkHeight
    BY <1>1 DEF ProcessBlock, Inv, TypeOK, MemTypeOK, InFlight, OrderInv, ForkInv
  <1>4. BeforeFork(recorder') /\ recorder' \in Seq(Nat)
    BY <1>1, <1>3, ForkHeights, SMTT(60) DEF ProcessBlock, ForkInv, BeforeFork
  <1> DEFINE st == StateToStore(current, recorder')
             row == [height |-> current.height, aggState |-> st]
  <1>5. row \in Rows /\ BeforeFork(row.aggState)
    <2>1. st \in {NoState, recorder'}
      BY DEF StateToStore
    <2>2. st \in Seq(Nat) /\ BeforeFork(st)
      BY <2>1, <1>4, Empty DEF NoState, BeforeFork
    <2> HIDE DEF st
    <2> QED
      BY <2>2, <1>3 DEF Rows
  <1>6. uncommitted' = Append(uncommitted, row)
    BY DEF ProcessBlock
  <1> HIDE DEF row
  <1>7. /\ Len(uncommitted') = Len(uncommitted) + 1 /\ Len(uncommitted) \in Nat
        /\ \A i \in DOMAIN uncommitted' :
              \/ i \in DOMAIN uncommitted /\ uncommitted'[i] = uncommitted[i]
              \/ uncommitted'[i] = row
    BY <1>3, <1>5, <1>6
  <1>8. Handed' <= HardForkHeight
    BY <1>1, <1>2, <1>3, <1>7, ForkHeights DEF Handed
  <1>9. \A i \in DOMAIN uncommitted' : BeforeFork(uncommitted'[i].aggState)
    BY <1>1, <1>5, <1>7 DEF ForkInv
  <1> QED
    BY <1>1, <1>2, <1>4, <1>8, <1>9 DEF ForkInv

\* A transaction that commits or rolls back stores only what the rows held.
LEMMA WriteFork ==
    ASSUME Inv, ForkInv, Flush \/ FlushFails \/ EndBlock \/ ProcessBlockFails
    PROVE  ForkInv'
  <1>1. SUFFICES ASSUME HardForkHeight # 0 PROVE ForkInv'
    BY DEF ForkInv
  <1>2. UNCHANGED recorder /\ pc' # "process"
    BY DEF Flush, FlushFails, EndBlock, ProcessBlockFails, WriterError, AfterEndBlock,
           writerUnchanged
  <1>3. CASE UNCHANGED <<blockLog, uncommitted>>
    <2>1. Top' = Top /\ Handed' = Handed
      BY <1>3 DEF Top, Handed, LastRow
    <2> QED
      BY <1>1, <1>2, <1>3, <2>1 DEF ForkInv
  <1>4. CASE UNCHANGED blockLog /\ uncommitted' = <<>>
    <2>1. Top' = Top
      BY <1>4 DEF Top, LastRow
    <2>2. Handed' = Top
      BY <1>1, <1>4, <2>1, ForkHeights, Empty DEF Handed
    <2> QED
      BY <1>1, <1>2, <1>4, <2>2, ForkHeights, Empty DEF ForkInv
  <1>5. CASE /\ CommitRows /\ uncommitted' = <<>>
             /\ pc = "flush" \/ (pc = "endBlock" /\ inserter = "immediate")
    <2>1. uncommitted = <<>> \/ uncommitted[Len(uncommitted)].aggState # NoState
      BY <1>5, CommitHasState
    <2>2. /\ Handed' = Handed
          /\ \A h \in DOMAIN blockLog : blockLog'[h] = blockLog[h]
          /\ \A i \in DOMAIN uncommitted : blockLog'[Top + i] = uncommitted[i].aggState
          /\ DOMAIN blockLog' = FirstHeight..Handed
      BY <1>5, <2>1, CommitFacts
    <2>3. /\ FirstHeight \in Nat /\ DOMAIN blockLog = FirstHeight..Top /\ Top \in Nat
          /\ DOMAIN uncommitted = 1..Len(uncommitted) /\ Len(uncommitted) \in Nat
          /\ Handed = Top + Len(uncommitted)
      BY Heights DEF Handed
    <2>4. ASSUME NEW h \in DOMAIN blockLog'
          PROVE  BeforeFork(blockLog'[h])
      <3>1. CASE h \in DOMAIN blockLog
        BY <1>1, <2>2, <3>1 DEF ForkInv
      <3>2. CASE h \notin DOMAIN blockLog
        <4>1. h - Top \in DOMAIN uncommitted /\ Top + (h - Top) = h
          BY <3>2, <2>2, <2>3
        <4>2. /\ blockLog'[Top + (h - Top)] = uncommitted[h - Top].aggState
              /\ BeforeFork(uncommitted[h - Top].aggState)
          BY <1>1, <4>1, <2>2 DEF ForkInv
        <4> QED
          BY <4>1, <4>2
      <3> QED
        BY <3>1, <3>2
    <2> QED
      BY <1>1, <1>2, <1>5, <2>2, <2>4, Empty DEF ForkInv
  <1> QED
    BY <1>3, <1>4, <1>5 DEF Flush, FlushFails, EndBlock, ProcessBlockFails

\* The other steps move neither totals nor rows.
LEMMA QuietFork ==
    ASSUME Inv, ForkInv,
           \/ SkipGenesis \/ FlushGenesis \/ StartJobs \/ CheckContext \/ SelectDone
           \/ SetLastBlock \/ EndIteration \/ LeaveFork \/ FetcherSteps \/ TakeRefreshRequest
           \/ Signal \/ SignalWatch \/ UNCHANGED vars
    PROVE  ForkInv'
  <1>1. UNCHANGED <<blockLog, uncommitted, recorder>>
    BY DEF SkipGenesis, FlushGenesis, StartJobs, CheckContext, SelectDone, SetLastBlock,
           EndIteration, LeaveFork, FetcherSteps, TakeRefreshRequest, Signal, SignalWatch, vars,
           dbVars, memVars
  <1>2. pc' = "process" => pc = "process"
    BY DEF SkipGenesis, FlushGenesis, StartJobs, CheckContext, SelectDone, SetLastBlock,
           EndIteration, LeaveFork, FetcherSteps, TakeRefreshRequest, Signal, SignalWatch, vars
  <1>3. Top' = Top /\ Handed' = Handed
    BY <1>1 DEF Top, Handed, LastRow
  <1> QED
    BY <1>1, <1>2, <1>3 DEF ForkInv

-----------------------------------------------------------------------------
(* The theorem.                                                            *)

\* Nothing of a block above the announced hard fork reaches the totals, the inserter or
\* the database, although the writer goes on after the wait before its loop
\* (blockwriter.go:33-37, 53-56, 85-92).
THEOREM StopsAtTheFork == Spec => []NothingPastTheFork
  <1>1. Init => Inv /\ ForkInv
    BY InitInv, InitFork
  <1>2. ASSUME Inv, ForkInv, [Next]_vars PROVE ForkInv'
    <2>1. CASE StartProcess
      BY <1>2, <2>1, StartProcessFork
    <2>2. CASE RecordGenesis
      BY <1>2, <2>2, RecordGenesisFork
    <2>3. CASE SelectBlock
      BY <1>2, <2>3, SelectBlockFork
    <2>4. CASE ProcessBlock
      BY <1>2, <2>4, ProcessBlockFork
    <2>5. CASE Flush \/ FlushFails \/ EndBlock \/ ProcessBlockFails
      BY <1>2, <2>5, WriteFork
    <2>6. CASE MarkBatchInserterFail \/ Exit \/ Crash \/ FlushGenesisFails
      BY <1>2, <2>6, DieFork DEF MarkBatchInserterFail, Exit, Crash, FlushGenesisFails, dbVars
    <2>7. CASE \/ SkipGenesis \/ FlushGenesis \/ StartJobs \/ CheckContext \/ SelectDone
               \/ SetLastBlock \/ EndIteration \/ LeaveFork \/ FetcherSteps \/ TakeRefreshRequest
               \/ Signal \/ SignalWatch \/ UNCHANGED vars
      BY <1>2, <2>7, QuietFork
    <2> QED
      BY <1>2, <2>1, <2>2, <2>3, <2>4, <2>5, <2>6, <2>7 DEF Next, StartUp, Writer, Faults
  <1>3. Inv /\ ForkInv /\ [Next]_vars /\ Inv' => (Inv /\ ForkInv)'
    BY <1>2
  <1>4. Inv /\ ForkInv => NothingPastTheFork
    <2>1. SUFFICES ASSUME Inv, ForkInv, HardForkHeight # 0 PROVE NothingPastTheFork
      BY DEF NothingPastTheFork
    <2>2. LastRow <= HardForkHeight
      BY <2>1, ForkHeights, Heights DEF ForkInv
    <2>3. \A i \in DOMAIN uncommitted : uncommitted[i].height <= HardForkHeight
      <3>1. \A i \in DOMAIN uncommitted : uncommitted[i].height = Top + i
        BY <2>1 DEF Inv, OrderInv
      <3> QED
        BY <2>1, <3>1, ForkHeights, Heights DEF ForkInv
    <2> QED
      BY <2>1, <2>2, <2>3 DEF ForkInv, BeforeFork, NothingPastTheFork
  <1> QED
    BY <1>1, <1>3, <1>4, InvHolds, PTL DEF Spec

=============================================================================
