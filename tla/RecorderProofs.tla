----------------------------- MODULE RecorderProofs -----------------------------
(***************************************************************************)
(* The history of the depths is exact, for every list of chains, every     *)
(* file and event in them and any number of stops: the depth recorder      *)
(* writes only what changed since a snapshot it forgets at every stop, its *)
(* rows become durable later than they are made, and still the last row of *)
(* a pool up to a block is the depth the pool had there.                   *)
(*                                                                         *)
(* For that, what the handlers make of the events does not matter:         *)
(* RecordBlock and RecordGenesis stay closed.  The second part opens them  *)
(* for what a start goes on from (DepthsSurviveRestarts) and for what a    *)
(* reader gets of the depths (DepthsAreServed).                            *)
(***************************************************************************)
EXTENDS DepthQueries, SeriesProofs, HandlersProofs, TLAPS

-----------------------------------------------------------------------------
(* The history of a pool.                                                  *)

\* The last rows of a pool.
LatestRows(h, p) ==
    {row \in h : row.pool = p /\ \A other \in h : other.pool = p => other.time <= row.time}

\* The depths of a pool as a row has them.
Value(d, p) == <<DepthIn(d.asset, p), DepthIn(d.rune, p), DepthIn(d.synth, p)>>

\* The last rows of the pools show their depths.
Shows(h, d) ==
    \A p \in PoolNames(d) : {<<row.asset, row.rune, row.synth>> : row \in LatestRows(h, p)} = {Value(d, p)}

\* What readers find up to a time.
Until(h, time) == {row \in h : row.time <= time}

-----------------------------------------------------------------------------
(* The invariant.                                                          *)

Stored == Len(blockLog)
Waiting == Len(pending.blockLog)

\* The blocks in block_log and those that wait in the inserter follow each other up to the
\* next one; those that wait need no state.
BlocksInv ==
    /\ IsSeq(blockLog) /\ IsSeq(pending.blockLog) /\ IsSeq(modes)
    /\ \A i \in 1..Stored : blockLog[i].time = CorrectedTime(chain, i)
    /\ \A i \in 1..Waiting : pending.blockLog[i].state = NoState
    /\ \A i \in 1..Waiting : pending.blockLog[i].time = CorrectedTime(chain, Stored + i)
    /\ Len(modes) = Stored + Waiting
    /\ Stored + Waiting <= Len(Blocks)
    /\ pc # "down" => next = Stored + Waiting + 1

\* The rows of history are made at the times of the blocks they are stored with.
MadeAt(h, first, last) == \A row \in h : \E i \in first..last : row.time = CorrectedTime(chain, i)

\* After the rows of every block with a state, and after those made so far, the last row of
\* each pool is its depth; the snapshot is what the rows made so far show.
HistoryInv ==
    /\ MadeAt(history, 1, Stored)
    /\ MadeAt(pending.history, Stored + 1, Stored + Waiting)
    /\ pc # "running" => snapshot = NoSnapshot /\ pending = NoPending
    /\ Shows(history \cup pending.history, snapshot)
    /\ \A i \in 1..Stored : blockLog[i].state # NoState =>
          Shows(Until(history, blockLog[i].time), blockLog[i].state[1])

RecorderInv == TypeOK /\ (\E i \in DOMAIN Chains : chain = Chains[i]) /\ BlocksInv /\ HistoryInv

-----------------------------------------------------------------------------
(* The depth recorder.                                                     *)

\* The rows written for what differs from the snapshot show the depths, if those before
\* showed the snapshot and are older.
LEMMA RowsShowDepths ==
    ASSUME NEW h, NEW old, NEW r, NEW time \in Int,
           Shows(h, old),
           \A row \in h : row.time \in Int /\ row.time < time
    PROVE  Shows(h \cup HistoryRows(old, r, time), Depths(r))
  <1> DEFINE new == Depths(r)
             H == HistoryRows(old, r, time)
             changed(p) == \/ Differs(old.asset, new.asset, p)
                           \/ Differs(old.rune, new.rune, p)
                           \/ Differs(old.synth, new.synth, p)
             Row(p) == [pool |-> p, time |-> time, asset |-> DepthIn(new.asset, p),
                        rune |-> DepthIn(new.rune, p), synth |-> DepthIn(new.synth, p)]
  <1>1. H = {Row(p) : p \in {q \in PoolNames(old) \cup PoolNames(new) : changed(q)}}
    BY DEF HistoryRows
  <1>2. ASSUME NEW p \in PoolNames(new)
        PROVE  {<<row.asset, row.rune, row.synth>> : row \in LatestRows(h \cup H, p)} = {Value(new, p)}
    <2>1. CASE changed(p)
      <3> DEFINE row0 == Row(p)
      <3>1. row0 \in H
        BY <1>1, <2>1
      <3>2. row0.pool = p /\ row0.time = time
            /\ <<row0.asset, row0.rune, row0.synth>> = Value(new, p)
        BY DEF Value
      <3>3. \A row \in H : row.time = time /\ (row.pool = p => row = row0)
        BY <1>1
      <3> HIDE DEF H, row0, new
      <3>4. row0 \in LatestRows(h \cup H, p)
        BY <3>1, <3>2, <3>3 DEF LatestRows
      <3>5. ASSUME NEW row \in LatestRows(h \cup H, p)
            PROVE  row = row0
        <4>1. row \in h \cup H /\ row.pool = p /\ row0.time <= row.time
          BY <3>1, <3>2 DEF LatestRows
        <4>2. row \notin h
          BY <3>2, <4>1
        <4> QED
          BY <3>3, <4>1, <4>2
      <3>6. LatestRows(h \cup H, p) = {row0}
        BY <3>4, <3>5
      <3> QED
        BY <3>2, <3>6
    <2>2. CASE ~changed(p)
      <3>1. \A row \in H : row.pool # p
        BY <1>1, <2>2
      <3>2. p \in PoolNames(old) /\ Value(old, p) = Value(new, p)
        BY <2>2 DEF PoolNames, Differs, Value, DepthIn
      <3> HIDE DEF H, new
      <3>3. LatestRows(h \cup H, p) = LatestRows(h, p)
        BY <3>1 DEF LatestRows
      <3> QED
        BY <3>2, <3>3 DEF Shows
    <2> QED
      BY <2>1, <2>2
  <1> QED
    BY <1>2 DEF Shows

\* A recorder that knows nothing shows in any rows.
LEMMA NothingToShow == ASSUME NEW h PROVE Shows(h, NoSnapshot)
  <1>1. PoolNames(NoSnapshot) = {}
    BY DEF PoolNames, NoSnapshot
  <1> QED
    BY <1>1 DEF Shows

\* New rows are made at the time they are written.
LEMMA RowsMadeNow ==
    ASSUME NEW old, NEW r, NEW time, NEW row \in HistoryRows(old, r, time)
    PROVE  row.time = time
  BY DEF HistoryRows

-----------------------------------------------------------------------------
(* The invariant, one action at a time.                                    *)

\* The chain there is.
LEMMA ChainFacts ==
    ASSUME NEW i \in DOMAIN Chains, chain = Chains[i]
    PROVE  /\ Len(Blocks) \in Nat \ {0}
           /\ \A h \in 1..Len(Blocks) : CorrectedTime(chain, h) \in Int
           /\ \A h, k \in 1..Len(Blocks) : h < k => CorrectedTime(chain, h) < CorrectedTime(chain, k)
  BY RecorderAssumption DEF Blocks

\* What the sequences hold.
LEMMA Lengths ==
    ASSUME BlocksInv
    PROVE  /\ Stored \in Nat /\ Waiting \in Nat /\ Len(modes) \in Nat
           /\ DOMAIN blockLog = 1..Stored
  BY AppendIs DEF BlocksInv, Stored, Waiting

\* The empty database of a Midgard that has never run.
LEMMA InitRecorder == ASSUME Init PROVE RecorderInv
  <1>1. PICK i \in DOMAIN Chains : chain = Chains[i]
    BY DEF Init
  <1>2. Len(Blocks) \in Nat \ {0}
    BY <1>1, ChainFacts
  <1>3. pending.blockLog = <<>> /\ pending.history = {}
    BY DEF Init, NoPending
  <1>4. TypeOK
    <2>1. genesisConstant \in BOOLEAN /\ inserterFail \in BOOLEAN /\ genesisKept \in BOOLEAN
      BY Zenon DEF Init
    <2>2. stops \in 0..MaxStops
      BY RecorderAssumption DEF Init
    <2> QED
      BY <1>2, <1>3, <2>1, <2>2, EmptyIs DEF Init, TypeOK
  <1>5. BlocksInv
    BY <1>2, <1>3, EmptyIs DEF Init, BlocksInv, Stored, Waiting
  <1>6. HistoryInv
    BY <1>3, EmptyIs, NothingToShow DEF Init, HistoryInv, MadeAt, Stored
  <1> QED
    BY <1>1, <1>4, <1>5, <1>6 DEF RecorderInv

\* The memory is lost: the blocks that waited will come again.
LEMMA DownInv ==
    ASSUME RecorderInv, Down, modes' = SubSeq(modes, 1, Len(blockLog)),
           UNCHANGED <<chain, blockLog, history, genesisConstant, genesisKept>>,
           inserterFail' \in BOOLEAN, stops' \in 0..MaxStops
    PROVE  RecorderInv'
  <1>1. Stored \in Nat /\ Waiting \in Nat /\ Len(modes) = Stored + Waiting /\ IsSeq(modes)
        /\ Stored + Waiting <= Len(Blocks)
    BY Lengths DEF RecorderInv, BlocksInv
  <1>2. IsSeq(modes') /\ Len(modes') = Stored
    BY <1>1, CutIs DEF Stored
  <1>3. pending' = NoPending /\ pending'.blockLog = <<>> /\ pending'.history = {} /\ pc' = "down"
        /\ snapshot' = NoSnapshot /\ next' = 0
    BY DEF Down, NoPending
  <1>4. Stored' = Stored /\ Waiting' = 0 /\ Blocks' = Blocks
    BY <1>3, EmptyIs DEF Stored, Waiting, Blocks
  <1>5. Len(Blocks) \in Nat
    BY ChainFacts DEF RecorderInv
  <1>6. TypeOK'
    BY <1>1, <1>2, <1>3, <1>4, <1>5 DEF RecorderInv, TypeOK, Stored, Waiting
  <1>7. BlocksInv'
    BY <1>1, <1>2, <1>3, <1>4, <1>5, EmptyIs DEF RecorderInv, BlocksInv
  <1>8. HistoryInv'
    BY <1>3, <1>4, NothingToShow DEF RecorderInv, HistoryInv, MadeAt
  <1> QED
    BY <1>6, <1>7, <1>8 DEF RecorderInv

\* Starting reads the blocks and the history, and goes on behind the last block stored.
LEMMA StartInv ==
    ASSUME RecorderInv, Setup \/ LoadGenesis
    PROVE  RecorderInv'
  <1>1. /\ UNCHANGED <<chain, blockLog, history, inserterFail, snapshot, pending, modes, stops>>
        /\ pc' \in {"genesis", "running"}
        /\ pc \in {"down", "genesis"}
        /\ pc = "down" => next' = Len(blockLog) + 1
        /\ pc = "genesis" => next' = next
    BY DEF Setup, LoadGenesis, dbVars
  <1>2. genesisConstant' \in BOOLEAN
    <2>1. genesisConstant' = genesisConstant \/ genesisConstant' = TRUE
      BY DEF Setup, LoadGenesis, dbVars
    <2> QED
      BY <2>1 DEF RecorderInv, TypeOK
  <1>3. genesisKept' \in BOOLEAN
    BY DEF Setup, LoadGenesis, RecorderInv, TypeOK
  <1>4. pending = NoPending /\ snapshot = NoSnapshot /\ Waiting = 0
    BY <1>1, EmptyIs DEF RecorderInv, HistoryInv, NoPending, Waiting
  <1>5. Stored' = Stored /\ Waiting' = Waiting /\ Blocks' = Blocks
    BY <1>1 DEF Stored, Waiting, Blocks
  <1>6. Len(Blocks) \in Nat /\ Stored \in Nat /\ Stored <= Len(Blocks)
    BY <1>4, Lengths, ChainFacts DEF RecorderInv, BlocksInv
  <1>7. next' = Stored + 1
    BY <1>1, <1>4, <1>6 DEF RecorderInv, BlocksInv, Stored
  <1>8. TypeOK'
    BY <1>1, <1>2, <1>3, <1>5, <1>6, <1>7 DEF RecorderInv, TypeOK
  <1>9. BlocksInv'
    BY <1>1, <1>4, <1>5, <1>6, <1>7 DEF RecorderInv, BlocksInv
  <1>10. HistoryInv'
    BY <1>1, <1>4, <1>5 DEF RecorderInv, HistoryInv, MadeAt
  <1> QED
    BY <1>1, <1>8, <1>9, <1>10 DEF RecorderInv

\* A block is recorded; the rows made so far are stored, or wait.
LEMMA ProcessBlockInv ==
    ASSUME RecorderInv, NEW commit \in BOOLEAN, ProcessBlock(commit)
    PROVE  RecorderInv'
  <1> DEFINE r == RecordBlock(recorder, chain.id, Blocks[next])
             t == CorrectedTime(chain, next)
             H == HistoryRows(snapshot, r, t)
             made == pending.history \cup H
             entry == [height |-> next, time |-> t,
                       state |-> IF Commits(commit) THEN <<Depths(r)>> ELSE NoState]
             waiting == Append(pending.blockLog, entry)
  <1>1. /\ pc = "running" /\ next <= Len(Blocks)
        /\ snapshot' = Depths(r) /\ next' = next + 1 /\ modes' = Append(modes, Immediate)
        /\ IF Commits(commit)
           THEN blockLog' = blockLog \o waiting /\ history' = history \cup made /\ pending' = NoPending
           ELSE /\ pending'.blockLog = waiting /\ pending'.history = made
                /\ UNCHANGED <<blockLog, history>>
        /\ UNCHANGED <<chain, genesisConstant, inserterFail, pc, genesisKept, stops>>
    <2>1. CASE Commits(commit)
      BY <2>1 DEF ProcessBlock, Flushed
    <2>2. CASE ~Commits(commit)
      BY <2>2 DEF ProcessBlock
    <2> QED
      BY <2>1, <2>2
  <1>2. /\ entry.time = t
        /\ entry.state = IF Commits(commit) THEN <<Depths(r)>> ELSE NoState
    OBVIOUS
  <1> HIDE DEF r, t, H, entry
  <1>3. /\ Stored \in Nat /\ Waiting \in Nat /\ DOMAIN blockLog = 1..Stored
        /\ IsSeq(blockLog) /\ IsSeq(pending.blockLog) /\ IsSeq(modes)
        /\ Len(modes) = Stored + Waiting /\ next = Stored + Waiting + 1
    BY <1>1, Lengths DEF RecorderInv, BlocksInv
  <1>4. /\ Len(Blocks) \in Nat \ {0}
        /\ \A h \in 1..Len(Blocks) : CorrectedTime(chain, h) \in Int
        /\ \A h, k \in 1..Len(Blocks) : h < k => CorrectedTime(chain, h) < CorrectedTime(chain, k)
    BY ChainFacts DEF RecorderInv
  <1>5. t \in Int /\ t = CorrectedTime(chain, next)
    BY <1>1, <1>3, <1>4 DEF t
  <1>6. /\ IsSeq(waiting) /\ Len(waiting) = Waiting + 1
        /\ \A i \in 1..Waiting : waiting[i] = pending.blockLog[i]
        /\ waiting[Waiting + 1] = entry
    BY <1>3, AppendIs DEF Waiting
  <1>7. IsSeq(modes') /\ Len(modes') = Stored + Waiting + 1
    BY <1>1, <1>3, AppendIs
  <1> HIDE DEF waiting
  <1>8. \A i \in 1..(Waiting + 1) : waiting[i].time = CorrectedTime(chain, Stored + i)
    <2>1. \A i \in 1..Waiting : waiting[i].time = CorrectedTime(chain, Stored + i)
      BY <1>6 DEF RecorderInv, BlocksInv
    <2>2. waiting[Waiting + 1].time = CorrectedTime(chain, Stored + (Waiting + 1))
      <3>1. Stored + (Waiting + 1) = next
        BY <1>3
      <3> QED
        BY <1>2, <1>5, <1>6, <3>1
    <2>3. \A i \in 1..(Waiting + 1) : i \in 1..Waiting \/ i = Waiting + 1
      BY <1>3
    <2> QED
      BY <2>1, <2>2, <2>3
  <1>9. MadeAt(made, Stored + 1, Stored + Waiting + 1)
    <2>1. \A row \in H : row.time = CorrectedTime(chain, Stored + Waiting + 1)
      BY <1>3, <1>5, RowsMadeNow DEF H
    <2>2. MadeAt(pending.history, Stored + 1, Stored + Waiting)
      BY DEF RecorderInv, HistoryInv
    <2> QED
      BY <1>3, <2>1, <2>2 DEF MadeAt
  <1>10. Shows(history \cup made, Depths(r))
    <2>1. \A row \in history \cup pending.history : row.time \in Int /\ row.time < t
      <3>1. \A row \in history \cup pending.history :
               \E i \in 1..(Stored + Waiting) : row.time = CorrectedTime(chain, i)
        BY <1>3 DEF RecorderInv, HistoryInv, MadeAt
      <3>2. \A i \in 1..(Stored + Waiting) : CorrectedTime(chain, i) \in Int /\ CorrectedTime(chain, i) < t
        BY <1>1, <1>3, <1>4, <1>5, SMTT(60)
      <3> QED
        BY <3>1, <3>2
    <2>2. Shows(history \cup pending.history, snapshot)
      BY DEF RecorderInv, HistoryInv
    <2>3. Shows((history \cup pending.history) \cup H, Depths(r))
      BY <1>5, <2>1, <2>2, RowsShowDepths DEF H
    <2>4. (history \cup pending.history) \cup H = history \cup made
      OBVIOUS
    <2> QED
      BY <2>3, <2>4
  <1>11. Blocks' = Blocks /\ \A i : CorrectedTime(chain, i)' = CorrectedTime(chain, i)
    BY <1>1 DEF Blocks, CorrectedTime
  <1> HIDE DEF made
  <1>12. CASE Commits(commit)
    <2>1. /\ blockLog' = blockLog \o waiting /\ history' = history \cup made
          /\ pending' = NoPending /\ pending'.blockLog = <<>> /\ pending'.history = {}
      BY <1>1, <1>12 DEF NoPending
    <2>2. /\ IsSeq(blockLog') /\ Stored' = Stored + Waiting + 1 /\ Waiting' = 0
          /\ \A i \in 1..Stored : blockLog'[i] = blockLog[i]
          /\ \A i \in 1..(Waiting + 1) : blockLog'[Stored + i] = waiting[i]
      <3>1. Waiting' = 0
        BY <2>1, EmptyIs DEF Waiting
      <3>2. Stored' = Len(blockLog')
        BY DEF Stored
      <3>3. /\ IsSeq(blockLog') /\ Len(blockLog') = Len(blockLog) + Len(waiting)
            /\ \A i \in 1..Len(blockLog) : blockLog'[i] = blockLog[i]
            /\ \A i \in 1..Len(waiting) : blockLog'[Len(blockLog) + i] = waiting[i]
        <4>1. IsSeq(blockLog) /\ IsSeq(waiting) /\ blockLog' = blockLog \o waiting
          BY <1>3, <1>6, <2>1
        <4>2. IsSeq(blockLog') /\ Len(blockLog') = Len(blockLog) + Len(waiting)
          BY <4>1, ConcatIs
        <4>3. \A i \in 1..Len(blockLog) : blockLog'[i] = blockLog[i]
          BY <4>1, ConcatIs
        <4>4. \A i \in 1..Len(waiting) : blockLog'[Len(blockLog) + i] = waiting[i]
          BY <4>1, ConcatIs
        <4> QED
          BY <4>2, <4>3, <4>4
      <3>4. Len(blockLog) = Stored /\ Stored + (Waiting + 1) = Stored + Waiting + 1
        BY <1>3 DEF Stored
      <3> QED
        BY <1>6, <2>1, <3>1, <3>2, <3>3, <3>4
    <2>3. \A i \in 1..Stored' : i \in 1..Stored \/ \E j \in 1..(Waiting + 1) : i = Stored + j
      <3>1. ASSUME NEW i \in 1..Stored', i \notin 1..Stored
            PROVE  \E j \in 1..(Waiting + 1) : i = Stored + j
        <4>1. i - Stored \in 1..(Waiting + 1) /\ i = Stored + (i - Stored)
          BY <1>3, <2>2, <3>1
        <4> QED
          BY <4>1
      <3> QED
        BY <3>1
    <2>4. \A i \in 1..Stored' : blockLog'[i].time = CorrectedTime(chain, i)
      <3>1. \A i \in 1..Stored : blockLog'[i].time = CorrectedTime(chain, i)
        BY <2>2 DEF RecorderInv, BlocksInv
      <3>2. \A j \in 1..(Waiting + 1) : blockLog'[Stored + j].time = CorrectedTime(chain, Stored + j)
        BY <1>8, <2>2
      <3> QED
        BY <2>3, <3>1, <3>2
    <2>5. BlocksInv'
      <3>1. IsSeq(pending'.blockLog) /\ 1..Waiting' = {} /\ Stored' + Waiting' <= Len(Blocks)
        BY <1>1, <1>3, <1>4, <2>1, <2>2, EmptyIs
      <3>2. next' = Stored' + Waiting' + 1 /\ Len(modes') = Stored' + Waiting'
        BY <1>1, <1>3, <1>7, <2>2
      <3>3. \A i \in 1..Stored' : blockLog'[i].time = CorrectedTime(chain', i)
        BY <1>1, <2>4
      <3> QED
        BY <1>7, <1>11, <2>2, <3>1, <3>2, <3>3 DEF BlocksInv, CorrectedTime
    <2>6. TypeOK'
      BY <1>1, <1>3, <1>4, <1>7, <1>11, <2>2 DEF RecorderInv, TypeOK, Stored, Waiting
    <2>7. MadeAt(history', 1, Stored')
      BY <1>3, <1>9, <2>1, <2>2 DEF RecorderInv, HistoryInv, MadeAt
    <2>8. ASSUME NEW i \in 1..Stored', blockLog'[i].state # NoState
          PROVE  Shows(Until(history', blockLog'[i].time), blockLog'[i].state[1])
      <3>1. CASE i \in 1..Stored
        <4>1. blockLog'[i] = blockLog[i] /\ blockLog[i].time = CorrectedTime(chain, i)
          BY <2>2, <3>1 DEF RecorderInv, BlocksInv
        <4>2. \A row \in made : ~(row.time <= blockLog[i].time)
          <5>1. ASSUME NEW row \in made
                PROVE  ~(row.time <= CorrectedTime(chain, i))
            <6>1. PICK j \in (Stored + 1)..(Stored + Waiting + 1) : row.time = CorrectedTime(chain, j)
              BY <1>9 DEF MadeAt
            <6>2. i < j /\ i \in 1..Len(Blocks) /\ j \in 1..Len(Blocks)
              BY <1>1, <1>3, <1>4, <3>1, <6>1
            <6> QED
              BY <1>4, <6>1, <6>2
          <5> QED
            BY <4>1, <5>1
        <4>3. Until(history', blockLog[i].time) = Until(history, blockLog[i].time)
          BY <2>1, <4>2 DEF Until
        <4> QED
          BY <2>8, <3>1, <4>1, <4>3 DEF RecorderInv, HistoryInv
      <3>2. CASE i \notin 1..Stored
        <4>1. PICK j \in 1..(Waiting + 1) : i = Stored + j
          BY <2>3, <3>2
        <4>2. blockLog'[i] = waiting[j]
          BY <2>2, <4>1
        <4>3. CASE j \in 1..Waiting
          <5>1. waiting[j].state = NoState
            BY <1>6, <4>3 DEF RecorderInv, BlocksInv
          <5> QED
            BY <2>8, <4>2, <5>1
        <4>4. CASE j = Waiting + 1
          <5>1. blockLog'[i] = entry /\ entry.time = t /\ entry.state = <<Depths(r)>>
            BY <1>2, <1>6, <1>12, <4>2, <4>4
          <5>2. \A row \in history' : row.time <= t
            <6>1. ASSUME NEW row \in history'
                  PROVE  row.time <= t
              <7>1. PICK k \in 1..Stored' : row.time = CorrectedTime(chain, k)
                BY <2>7, <1>11 DEF MadeAt
              <7>2. k \in 1..Len(Blocks) /\ next \in 1..Len(Blocks) /\ (k < next \/ k = next)
                BY <1>1, <1>3, <1>4, <2>2, <7>1
              <7> QED
                BY <1>4, <1>5, <7>1, <7>2
            <6> QED
              BY <6>1
          <5>3. Until(history', t) = history'
            BY <5>2 DEF Until
          <5>4. blockLog'[i].state[1] = Depths(r)
            BY <5>1
          <5>5. Shows(history', Depths(r))
            BY <1>10, <2>1
          <5> QED
            BY <5>1, <5>3, <5>4, <5>5
        <4> QED
          BY <1>3, <4>1, <4>3, <4>4
      <3> QED
        BY <3>1, <3>2
    <2>9. Shows(history' \cup pending'.history, snapshot')
      <3>1. history' \cup pending'.history = history \cup made
        BY <2>1
      <3> QED
        BY <1>1, <1>10, <3>1
    <2>10. HistoryInv'
      BY <1>1, <2>1, <2>7, <2>8, <2>9, <1>11 DEF HistoryInv, MadeAt
    <2> QED
      BY <1>1, <2>5, <2>6, <2>10 DEF RecorderInv
  <1>13. CASE ~Commits(commit)
    <2>1. /\ pending'.blockLog = waiting /\ pending'.history = made
          /\ blockLog' = blockLog /\ history' = history
      BY <1>1, <1>13
    <2>2. Stored' = Stored /\ Waiting' = Waiting + 1
      BY <1>6, <2>1 DEF Stored, Waiting
    <2>3. \A i \in 1..(Waiting + 1) : waiting[i].state = NoState
      <3>1. ASSUME NEW i \in 1..(Waiting + 1) PROVE waiting[i].state = NoState
        <4>1. CASE i \in 1..Waiting
          BY <1>6, <4>1 DEF RecorderInv, BlocksInv
        <4>2. CASE i = Waiting + 1
          BY <1>2, <1>6, <1>13, <4>2
        <4> QED
          BY <1>3, <4>1, <4>2
      <3> QED
        BY <3>1
    <2>4. BlocksInv'
      BY <1>1, <1>3, <1>4, <1>6, <1>7, <1>8, <1>11, <2>1, <2>2, <2>3, SMTT(60) DEF RecorderInv, BlocksInv
    <2>5. TypeOK'
      BY <1>1, <1>3, <1>4, <1>7, <1>11, <2>2, SMTT(60) DEF RecorderInv, TypeOK, Stored, Waiting
    <2>6. HistoryInv'
      BY <1>1, <1>3, <1>9, <1>10, <1>11, <2>1, <2>2 DEF RecorderInv, HistoryInv, MadeAt
    <2> QED
      BY <1>1, <2>4, <2>5, <2>6 DEF RecorderInv
  <1> QED
    BY <1>12, <1>13

\* No step of the recorder breaks the invariant.
LEMMA RecorderStep == ASSUME RecorderInv, [Next]_vars PROVE RecorderInv'
  <1>1. CASE Crash \/ \E commit \in BOOLEAN : FlushFails(commit)
    <2>1. /\ Down /\ modes' = SubSeq(modes, 1, Len(blockLog))
          /\ UNCHANGED <<chain, blockLog, history, genesisConstant, genesisKept>>
      BY <1>1 DEF Crash, FlushFails, dbVars
    <2>2. inserterFail' \in BOOLEAN /\ stops' \in 0..MaxStops
      <3>1. inserterFail \in BOOLEAN /\ stops \in 0..MaxStops /\ MaxStops \in Nat
        BY RecorderAssumption DEF RecorderInv, TypeOK
      <3>2. inserterFail' = inserterFail \/ inserterFail' = TRUE
        BY <1>1 DEF Crash, FlushFails, dbVars
      <3>3. stops' = stops \/ (stops < MaxStops /\ stops' = stops + 1)
        BY <1>1 DEF Crash, FlushFails
      <3>4. stops' \in 0..MaxStops
        BY <3>1, <3>3
      <3> QED
        BY <3>1, <3>2, <3>4
    <2> QED
      BY <2>1, <2>2, DownInv
  <1>2. CASE UNCHANGED vars
    BY <1>2
       DEF vars, dbVars, memVars, RecorderInv, TypeOK, BlocksInv, HistoryInv, MadeAt, Stored,
           Waiting, Blocks
  <1> QED
    BY <1>1, <1>2, StartInv, ProcessBlockInv DEF Next, Record1, SetupRefuses, Idle

-----------------------------------------------------------------------------
(* The theorems.                                                           *)

\* The inductive invariant: whatever the handlers make of the events, blocks are recorded in
\* the order of their times (ProcessBlock, timeseries.go), and the rows of history are those of
\* the snapshot of depthRecorder (depthrecorder.go), stored or with their block in the inserter.
THEOREM RecorderInvHolds == Spec => []RecorderInv
  BY InitRecorder, RecorderStep, PTL DEF Spec

\* The recorder's state has its type, however often it is stopped (timeseries.Setup, ProcessBlock).
THEOREM RecorderTypeCorrect == Spec => []TypeOK
  BY RecorderInvHolds, PTL DEF RecorderInv

\* At every block whose state is stored, the last row of a pool in block_pool_depths is the depth
\* of that state, though depthRecorder.update (depthrecorder.go) writes a row only for what differs
\* from the snapshot, and the first block after a start writes all.
THEOREM HistoryExact == Spec => []HistoryIsExact
  <1>1. RecorderInv => HistoryIsExact
    <2> SUFFICES ASSUME RecorderInv, NEW i \in DOMAIN blockLog, blockLog[i].state # NoState,
                        NEW p \in PoolNames(blockLog[i].state[1])
                 PROVE  {<<row.asset, row.rune, row.synth>> : row \in HistoryAt(p, blockLog[i].time)}
                           = {Value(blockLog[i].state[1], p)}
      BY DEF HistoryIsExact, Value
    <2>1. i \in 1..Stored
      BY Lengths DEF RecorderInv
    <2>2. Shows(Until(history, blockLog[i].time), blockLog[i].state[1])
      BY <2>1 DEF RecorderInv, HistoryInv
    <2>3. HistoryAt(p, blockLog[i].time) = LatestRows(Until(history, blockLog[i].time), p)
      BY DEF HistoryAt, LatestRows, Until
    <2> QED
      BY <2>2, <2>3 DEF Shows
  <1> QED
    BY <1>1, RecorderInvHolds, PTL

-----------------------------------------------------------------------------
(* The totals.                                                             *)

\* The depths in memory are those of a Midgard that recorded the blocks before the next in one go,
\* so is the state of every block that has one, and every block a start may go on from has one.
\* Until the totals of a genesis file are there, no block was recorded.
TotalsInv ==
    /\ pc # "down" => IsRecorder(recorder) /\ Depths(recorder) = Depths(Replay(next - 1))
    /\ \A i \in 1..Stored : blockLog[i].state # NoState => blockLog[i].state = <<Depths(Replay(i))>>
    /\ blockLog # <<>> => LastRow.state # NoState
    /\ genesisConstant => HasGenesis
    /\ ~genesisKept => genesisConstant
    /\ HasGenesis /\ ~genesisConstant =>
          /\ blockLog = <<>> /\ inserterFail = FALSE /\ pc # "running"
          /\ pc = "genesis" => recorder.n = 0 /\ recorder.refused = {} /\ recorder.immediate = FALSE
    /\ pc = "genesis" /\ blockLog = <<>> => ~(genesisConstant /\ genesisKept)

\* Of two recorders whose totals are compared, no pool is asked for, and no chain info.
NoPools == [pools |-> {}, told |-> FALSE]

\* What a Midgard has recorded is a recorder, and no block makes it forget a pool.
LEMMA RecordedGrows ==
    ASSUME NEW c, NEW how, NEW n \in Nat, \A h \in 1..n : IsBlock(c.blocks[h]), NEW base, IsRecorder(base)
    PROVE  /\ IsRecorder(Recorded(base, c, how, n))
           /\ \A i \in 0..n : PoolNames(Depths(Recorded(base, c, how, i))) \subseteq PoolNames(Depths(Recorded(base, c, how, n)))
  <1> DEFINE R(i) == Recorded(base, c, how, i)
             P(i) == PoolNames(Depths(R(i)))
             Q(i) == [pools |-> P(i), told |-> FALSE]
             S == {k \in 0..n : IsRecorder(R(k)) /\ \A i \in 0..k : P(i) \subseteq P(k)}
  <1>1. \A i \in 1..n : R(i) = Again(R(i - 1), c, how, i)
    BY RecordedIs
  <1>2. R(0) = base
    BY RecordedIs
  <1> HIDE DEF R
  <1>3. 0 \in S
    BY <1>2
  <1>4. ASSUME NEW k \in 1..n, k - 1 \in S PROVE k \in S
    <2>1. SameDepths(Q(k - 1), R(k - 1), R(k - 1))
      BY <1>4 DEF SameDepths, SameInfo
    <2> HIDE DEF Q
    <2>2. SameDepths(Q(k - 1), R(k), R(k))
      BY <1>1, <2>1, AgainAlike
    <2>3. IsRecorder(R(k)) /\ P(k - 1) \subseteq P(k)
      BY <2>2 DEF SameDepths, Q
    <2>4. \A i \in 0..k : i \in 0..(k - 1) \/ i = k
      OBVIOUS
    <2> QED
      BY <1>4, <2>3, <2>4
  <1> HIDE DEF S
  <1>5. n \in S
    BY <1>3, <1>4, Climb
  <1> QED
    BY <1>5 DEF S, R

\* The first totals are those of the genesis file, or none.
LEMMA FirstIs ==
    ASSUME RecorderInv, TotalsInv
    PROVE  /\ IsRecorder(NewRecorder) /\ IsRecorder(FirstTotals)
           /\ HasGenesis => IsGenesis(Genesis)
           /\ \A h \in 1..Len(Blocks) : IsBlock(Blocks[h])
  <1>1. IsRecorder(NewRecorder) /\ Alike(NoPools, NewRecorder, NewRecorder)
    BY DEF IsRecorder, NewRecorder, Alike, SameTotals, SameInfo, NoPools
  <1>2. PICK i \in DOMAIN Chains : chain = Chains[i]
    BY DEF RecorderInv
  <1>3. HasGenesis => IsGenesis(Genesis)
    BY <1>2, EventsAssumption DEF HasGenesis, Genesis
  <1>4. DOMAIN Blocks = 1..Len(Blocks)
    BY <1>2, RecorderAssumption DEF Blocks
  <1>5. \A h \in 1..Len(Blocks) : IsBlock(Blocks[h])
    BY <1>2, <1>4, EventsAssumption DEF Blocks
  <1>6. HasGenesis => IsRecorder(RecordGenesis(NewRecorder, Genesis))
    BY <1>1, <1>3, RecordGenesisAlike DEF SameTotals
  <1> QED
    BY <1>1, <1>3, <1>5, <1>6 DEF FirstTotals, TotalsInv

\* Nothing is counted before the first start.
LEMMA InitTotals == ASSUME Init PROVE TotalsInv
  <1>1. Stored = 0 /\ blockLog = <<>>
    BY EmptyIs DEF Init, Stored
  <1> QED
    BY <1>1 DEF Init, TotalsInv

\* Replay does not look at what is not recorded yet.
LEMMA ReplayIs ==
    ASSUME NEW n \in Nat
    PROVE  /\ Replay(0) = FirstTotals
           /\ n > 0 => Replay(n) = Again(Replay(n - 1), chain, modes, n)
           /\ (UNCHANGED <<chain, genesisConstant, genesisKept>> /\ \A h \in 1..n : modes'[h] = modes[h])
                 => Replay(n)' = Replay(n)
  <1>1. ASSUME UNCHANGED <<chain, genesisConstant, genesisKept>>, \A h \in 1..n : modes'[h] = modes[h]
        PROVE  Replay(n)' = Replay(n)
    <2>1. Recorded(FirstTotals, chain, modes', n) = Recorded(FirstTotals, chain, modes, n)
      BY <1>1, RecordedSame
    <2>2. FirstTotals' = FirstTotals
      BY <1>1 DEF FirstTotals, Genesis
    <2> QED
      BY <1>1, <2>1, <2>2 DEF Replay
  <1> QED
    BY <1>1, RecordedIs DEF Replay

\* A stop keeps the states, and the modes of the blocks stored.
LEMMA DownTotals ==
    ASSUME RecorderInv, TotalsInv, Down, modes' = SubSeq(modes, 1, Len(blockLog)),
           UNCHANGED <<chain, blockLog, genesisConstant, genesisKept>>,
           pc = "running" \/ inserterFail' = inserterFail
    PROVE  TotalsInv'
  <1>1. Stored \in Nat /\ Len(modes) \in Nat /\ Stored <= Len(modes) /\ IsSeq(modes)
    BY Lengths DEF RecorderInv, BlocksInv
  <1>2. \A h \in 1..Stored : modes'[h] = modes[h]
    BY <1>1 DEF Stored, IsSeq
  <1>3. ASSUME NEW i \in 1..Stored PROVE Replay(i)' = Replay(i)
    <2>1. i \in Nat /\ \A h \in 1..i : h \in 1..Stored
      BY <1>1
    <2>2. \A h \in 1..i : modes'[h] = modes[h]
      BY <1>2, <2>1
    <2> QED
      BY <2>1, <2>2, ReplayIs
  <1>4. Stored' = Stored /\ LastRow' = LastRow /\ HasGenesis' = HasGenesis /\ pc' = "down"
    BY DEF Stored, LastRow, HasGenesis, Down
  <1>5. HasGenesis' /\ ~genesisConstant' => blockLog' = <<>> /\ ~inserterFail'
    BY <1>4 DEF TotalsInv
  <1> QED
    BY <1>3, <1>4, <1>5 DEF TotalsInv

\* Setup takes the totals from the last block stored.
LEMMA SetupTotals == ASSUME RecorderInv, TotalsInv, Setup PROVE TotalsInv'
  <1>1. /\ UNCHANGED <<chain, blockLog, genesisConstant, inserterFail, modes>>
        /\ pc' = "genesis" /\ next' = Len(blockLog) + 1
        /\ genesisKept' = (genesisKept /\ ~(genesisConstant /\ blockLog = <<>>))
    BY DEF Setup, dbVars
  <1>2. /\ IsRecorder(recorder') /\ recorder'.immediate = inserterFail
        /\ recorder'.n = 0 /\ recorder'.refused = {}
        /\ Depths(recorder') = IF blockLog = <<>> THEN NoSnapshot
                               ELSE [asset |-> LastRow.state[1].asset, rune |-> LastRow.state[1].rune,
                                     synth |-> LastRow.state[1].synth]
    BY ZenonT(60) DEF Setup, Restored, NewRecorder, IsRecorder, Depths, NoSnapshot
  <1>3. Stored \in Nat /\ IsSeq(blockLog) /\ (blockLog # <<>> <=> Stored > 0) /\ Stored = Len(blockLog)
    BY Lengths DEF RecorderInv, BlocksInv, IsSeq, Stored
  <1>4. Stored' = Stored /\ LastRow' = LastRow /\ HasGenesis' = HasGenesis
    BY <1>1 DEF Stored, LastRow, HasGenesis
  <1>5. CASE blockLog = <<>>
    <2>1. Replay(0)' = NewRecorder
      <3>1. ~(genesisConstant' /\ genesisKept')
        BY <1>1, <1>5
      <3>2. FirstTotals' = NewRecorder
        BY <3>1 DEF FirstTotals
      <3>3. Recorded(NewRecorder, chain', modes', 0) = NewRecorder
        BY RecordedIs
      <3> QED
        BY <3>2, <3>3 DEF Replay
    <2>2. Depths(NewRecorder) = NoSnapshot
      BY DEF Depths, NewRecorder, NoSnapshot
    <2>3. next' - 1 = 0 /\ 1..Stored' = {}
      BY <1>1, <1>3, <1>4, <1>5
    <2>4. Depths(recorder') = Depths(Replay(next - 1)')
      BY <1>2, <1>5, <2>1, <2>2, <2>3
    <2> QED
      BY <1>1, <1>2, <1>4, <1>5, <2>3, <2>4 DEF TotalsInv
  <1>6. CASE blockLog # <<>>
    <2>1. UNCHANGED <<chain, genesisConstant, genesisKept>>
      <3>1. genesisKept' = genesisKept
        BY <1>1, <1>6 DEF RecorderInv, TypeOK
      <3> QED
        BY <1>1, <3>1
    <2>2. \A i \in 1..Stored : Replay(i)' = Replay(i)
      <3>1. ASSUME NEW i \in 1..Stored PROVE Replay(i)' = Replay(i)
        <4>1. i \in Nat /\ \A h \in 1..i : modes'[h] = modes[h]
          BY <1>1, <1>3
        <4> QED
          BY <2>1, <4>1, ReplayIs
      <3> QED
        BY <3>1
    <2>3. Stored \in 1..Stored /\ LastRow.state = <<Depths(Replay(Stored))>>
      BY <1>3, <1>6 DEF TotalsInv, LastRow
    <2>4. Depths(recorder') = Depths(Replay(Stored))
      BY <1>2, <1>6, <2>3 DEF Depths
    <2>5. next' - 1 = Stored
      BY <1>1, <1>3
    <2>6. Depths(recorder') = Depths(Replay(next - 1)')
      BY <2>2, <2>3, <2>4, <2>5
    <2> QED
      BY <1>1, <1>2, <1>4, <1>6, <2>1, <2>2, <2>6 DEF TotalsInv
  <1> QED
    BY <1>5, <1>6

\* The totals of the genesis file are recorded once, before any block.
LEMMA LoadGenesisTotals == ASSUME RecorderInv, TotalsInv, LoadGenesis PROVE TotalsInv'
  <1>1. /\ UNCHANGED <<chain, blockLog, inserterFail, modes, genesisKept, next>>
        /\ pc = "genesis" /\ pc' = "running"
    BY DEF LoadGenesis
  <1>2. /\ Stored \in Nat /\ Stored = Len(blockLog) /\ next = Stored + 1
        /\ blockLog = <<>> => Stored = 0
    BY <1>1, Lengths, EmptyIs DEF RecorderInv, BlocksInv, HistoryInv, NoPending, Stored, Waiting
  <1>3. Stored' = Stored /\ LastRow' = LastRow /\ HasGenesis' = HasGenesis
    BY <1>1 DEF Stored, LastRow, HasGenesis
  <1>4. CASE HasGenesis /\ ~genesisConstant
    <2>1. /\ blockLog = <<>> /\ inserterFail = FALSE /\ genesisKept = TRUE
          /\ recorder.n = 0 /\ recorder.refused = {} /\ recorder.immediate = FALSE
      BY <1>1, <1>4 DEF TotalsInv, RecorderInv, TypeOK
    <2>2. Genesis.height \in Nat /\ Len(blockLog) <= Genesis.height
      BY <1>2, <1>4, <2>1, FirstIs DEF IsGenesis
    <2> DEFINE r == RecordGenesis(recorder, Genesis)
    <2>3. genesisConstant' = TRUE /\ recorder' = [r EXCEPT !.rows = <<>>]
      BY <1>4, <2>2 DEF LoadGenesis
    <2>4. next - 1 = 0 /\ 1..Stored = {}
      BY <1>2, <2>1
    <2>5. FirstTotals = NewRecorder /\ Replay(0) = NewRecorder
      BY <1>4, ReplayIs DEF FirstTotals
    <2>6. Alike(NoPools, recorder, NewRecorder)
      <3>1. IsRecorder(recorder) /\ Depths(recorder) = Depths(NewRecorder)
        BY <1>1, <2>4, <2>5 DEF TotalsInv
      <3> QED
        BY <2>1, <3>1 DEF Alike, SameTotals, SameInfo, NoPools, Depths, NewRecorder, IsRecorder
    <2>7. SameTotals(NoPools, r, RecordGenesis(NewRecorder, Genesis))
      BY <1>4, <2>6, FirstIs, RecordGenesisAlike
    <2> HIDE DEF r
    <2>8. IsRecorder(recorder') /\ Depths(recorder') = Depths(RecordGenesis(NewRecorder, Genesis))
      BY <2>3, <2>7 DEF SameTotals, IsRecorder, Depths
    <2>9. Replay(0)' = RecordGenesis(NewRecorder, Genesis)
      <3>1. FirstTotals' = RecordGenesis(NewRecorder, Genesis)
        BY <1>1, <2>1, <2>3 DEF FirstTotals, Genesis
      <3>2. Recorded(RecordGenesis(NewRecorder, Genesis), chain', modes', 0) = RecordGenesis(NewRecorder, Genesis)
        BY RecordedIs
      <3> QED
        BY <3>1, <3>2 DEF Replay
    <2>10. Depths(recorder') = Depths(Replay(next - 1)')
      BY <1>1, <2>4, <2>8, <2>9
    <2> QED
      BY <1>1, <1>3, <1>4, <2>1, <2>3, <2>4, <2>8, <2>10 DEF TotalsInv
  <1>5. CASE ~(HasGenesis /\ ~genesisConstant)
    <2>1. UNCHANGED <<recorder, genesisConstant>>
      BY <1>5 DEF LoadGenesis
    <2>2. \A n \in Nat : Replay(n)' = Replay(n)
      BY <1>1, <2>1, ReplayIs
    <2>3. Replay(next - 1)' = Replay(next - 1) /\ \A i \in 1..Stored : Replay(i)' = Replay(i)
      BY <1>1, <1>2, <2>2
    <2> QED
      BY <1>1, <1>3, <1>5, <2>1, <2>3 DEF TotalsInv
  <1> QED
    BY <1>4, <1>5

\* A block recorded by the inserter there is.
LEMMA ProcessBlockTotals ==
    ASSUME RecorderInv, TotalsInv, NEW commit \in BOOLEAN, ProcessBlock(commit)
    PROVE  TotalsInv'
  <1> DEFINE r == RecordBlock(recorder, chain.id, Blocks[next])
             entry == [height |-> next, time |-> CorrectedTime(chain, next),
                       state |-> IF Commits(commit) THEN <<Depths(r)>> ELSE NoState]
             waiting == Append(pending.blockLog, entry)
  <1>1. /\ pc = "running" /\ next <= Len(Blocks)
        /\ recorder' = [r EXCEPT !.rows = <<>>]
        /\ next' = next + 1 /\ modes' = Append(modes, recorder.immediate)
        /\ IF Commits(commit) THEN blockLog' = blockLog \o waiting ELSE blockLog' = blockLog
        /\ UNCHANGED <<chain, genesisConstant, inserterFail, pc, genesisKept>>
    <2>1. CASE Commits(commit)
      BY <2>1 DEF ProcessBlock, Flushed, Immediate
    <2>2. CASE ~Commits(commit)
      BY <2>2 DEF ProcessBlock, Immediate
    <2> QED
      BY <2>1, <2>2
  <1>2. entry.state = IF Commits(commit) THEN <<Depths(r)>> ELSE NoState
    OBVIOUS
  <1> HIDE DEF r, entry
  <1>3. /\ Stored \in Nat /\ Waiting \in Nat
        /\ IsSeq(blockLog) /\ IsSeq(pending.blockLog) /\ IsSeq(modes)
        /\ Len(modes) = Stored + Waiting /\ next = Stored + Waiting + 1
    BY <1>1, Lengths DEF RecorderInv, BlocksInv
  <1>0. PICK n \in Nat : n = Stored + Waiting
    BY <1>3
  <1> DEFINE now == n + 1
  <1>4. now \in Nat /\ next = now /\ next' = now + 1 /\ now \in 1..Len(Blocks) /\ Len(modes) = n
    BY <1>0, <1>1, <1>3, ChainFacts DEF RecorderInv
  <1>5. modes'[now] = recorder.immediate /\ \A h \in 1..n : modes'[h] = modes[h]
    <2>1. /\ Append(modes, recorder.immediate)[Len(modes) + 1] = recorder.immediate
          /\ \A h \in 1..Len(modes) : Append(modes, recorder.immediate)[h] = modes[h]
      BY <1>3, AppendIs
    <2> QED
      BY <1>1, <1>4, <2>1
  <1>6. \A k \in 0..n : Replay(k)' = Replay(k)
    <2>1. ASSUME NEW k \in 0..n PROVE Replay(k)' = Replay(k)
      <3>1. k \in Nat /\ \A h \in 1..k : h \in 1..n
        BY <1>4
      <3>2. \A h \in 1..k : modes'[h] = modes[h]
        BY <1>5, <3>1
      <3> QED
        BY <1>1, <3>1, <3>2, ReplayIs
    <2> QED
      BY <2>1
  <1>7. IsRecorder(Replay(n))
    <2>1. IsRecorder(FirstTotals) /\ \A h \in 1..n : IsBlock(chain.blocks[h])
      BY <1>4, FirstIs DEF Blocks
    <2> QED
      BY <1>4, <2>1, RecordedGrows DEF Replay
  <1>8. IsRecorder(r) /\ Depths(r) = Depths(Replay(now)')
    <2>1. SameDepths(NoPools, recorder, Replay(n))
      <3>1. IsRecorder(recorder) /\ Depths(recorder) = Depths(Replay(n))
        BY <1>1, <1>4 DEF TotalsInv
      <3> QED
        BY <1>7, <3>1 DEF SameDepths, SameInfo, NoPools
    <2>2. IsBlock(chain.blocks[now])
      BY <1>4, FirstIs DEF Blocks
    <2>3. /\ SameDepths(NoPools, Again(recorder, chain, modes', now), Again(Replay(n), chain, modes', now))
          /\ Again(recorder, chain, modes', now) = r
      BY <1>4, <1>5, <2>1, <2>2, AgainAlike DEF r, Blocks
    <2>4. Recorded(FirstTotals', chain', modes', now) = Again(Recorded(FirstTotals', chain', modes', n), chain', modes', now)
      <3>1. now \in Nat /\ now > 0 /\ now - 1 = n
        BY <1>4
      <3> QED
        BY <3>1, RecordedIs
    <2>5. Replay(n)' = Replay(n)
      BY <1>4, <1>6
    <2>6. Recorded(FirstTotals', chain', modes', n) = Replay(n)
      BY <2>5 DEF Replay
    <2>7. Recorded(FirstTotals', chain', modes', now) = Again(Replay(n), chain, modes', now)
      BY <1>1, <2>4, <2>6
    <2> QED
      BY <2>3, <2>7 DEF SameDepths, Replay
  <1>9. /\ IsRecorder(recorder') /\ Depths(recorder') = Depths(Replay(now)')
        /\ next' - 1 = now
    BY <1>1, <1>4, <1>8 DEF IsRecorder, Depths
  <1>10. Depths(recorder') = Depths(Replay(next - 1)')
    BY <1>9
  <1>11. genesisConstant' => HasGenesis'
    BY <1>1 DEF TotalsInv, HasGenesis
  <1>12. ~genesisKept' => genesisConstant'
    BY <1>1 DEF TotalsInv
  <1>13. ~(HasGenesis' /\ ~genesisConstant') /\ pc' = "running"
    BY <1>1 DEF TotalsInv, HasGenesis
  <1>14. CASE ~Commits(commit)
    <2>1. blockLog' = blockLog /\ Stored' = Stored /\ LastRow' = LastRow
      BY <1>1, <1>14 DEF Stored, LastRow
    <2>2. \A i \in 1..Stored : i \in 0..n
      BY <1>0, <1>3
    <2> QED
      BY <1>6, <1>9, <1>10, <1>11, <1>12, <1>13, <2>1, <2>2 DEF TotalsInv
  <1>15. CASE Commits(commit)
    <2>1. PICK s \in Nat, w \in Nat : s = Stored /\ w = Waiting /\ n = s + w
      BY <1>0, <1>3
    <2>2. /\ IsSeq(waiting) /\ Len(waiting) = w + 1
          /\ \A i \in 1..w : waiting[i] = pending.blockLog[i]
          /\ waiting[w + 1] = entry
      BY <1>3, <2>1, AppendIs DEF Waiting
    <2>3. blockLog' = blockLog \o waiting
      BY <1>1, <1>15
    <2> HIDE DEF waiting
    <2>4. /\ Stored' = now
          /\ \A i \in 1..s : blockLog'[i] = blockLog[i]
          /\ \A i \in 1..(w + 1) : blockLog'[s + i] = waiting[i]
      <3>1. /\ Len(blockLog') = Len(blockLog) + Len(waiting)
            /\ \A i \in 1..Len(blockLog) : blockLog'[i] = blockLog[i]
            /\ \A i \in 1..Len(waiting) : blockLog'[Len(blockLog) + i] = waiting[i]
        <4>1. IsSeq(blockLog) /\ IsSeq(waiting) /\ blockLog' = blockLog \o waiting
          BY <1>3, <2>2, <2>3
        <4>2. Len(blockLog') = Len(blockLog) + Len(waiting)
          BY <4>1, ConcatIs
        <4>3. \A i \in 1..Len(blockLog) : blockLog'[i] = blockLog[i]
          BY <4>1, ConcatIs
        <4>4. \A i \in 1..Len(waiting) : blockLog'[Len(blockLog) + i] = waiting[i]
          BY <4>1, ConcatIs
        <4> QED
          BY <4>2, <4>3, <4>4
      <3>2. s = Len(blockLog) /\ Stored' = Len(blockLog')
        BY <2>1 DEF Stored
      <3>3. Len(waiting) = w + 1
        BY <2>2
      <3> HIDE DEF entry
      <3>4. Stored' = s + (w + 1) /\ s + (w + 1) = now
        BY <2>1, <3>1, <3>2, <3>3
      <3> QED
        BY ONLY <3>1, <3>2, <3>3, <3>4
    <2>5. ASSUME NEW i \in 1..now, blockLog'[i].state # NoState
          PROVE  blockLog'[i].state = <<Depths(Replay(i)')>>
      <3>1. CASE i \in 1..s
        <4>1. i \in 0..n /\ i \in 1..Stored
          BY <2>1, <3>1
        <4> QED
          BY <1>6, <2>4, <2>5, <3>1, <4>1 DEF TotalsInv
      <3>2. CASE i \in (s + 1)..n
        <4>1. i - s \in 1..w /\ i = s + (i - s)
          BY <2>1, <3>2
        <4>2. blockLog'[i] = pending.blockLog[i - s]
          BY <2>2, <2>4, <4>1
        <4>3. pending.blockLog[i - s].state = NoState
          BY <2>1, <4>1 DEF RecorderInv, BlocksInv
        <4> QED
          BY <2>5, <4>2, <4>3
      <3>3. CASE i = now
        <4>1. blockLog'[now] = entry
          <5>1. now = s + (w + 1) /\ w + 1 \in 1..(w + 1)
            BY <2>1
          <5> QED
            BY <2>2, <2>4, <5>1
        <4> QED
          BY <1>2, <1>8, <1>15, <3>3, <4>1
      <3> QED
        BY <2>1, <3>1, <3>2, <3>3
    <2>6. LastRow'.state # NoState
      <3>1. now = s + (w + 1) /\ w + 1 \in 1..(w + 1)
        BY <2>1
      <3>2. blockLog'[now] = entry
        BY <2>2, <2>4, <3>1
      <3>3. LastRow' = entry
        BY <2>4, <3>2 DEF LastRow, Stored
      <3> QED
        BY <1>2, <1>15, <3>3 DEF NoState
    <2> QED
      BY <1>9, <1>10, <1>11, <1>12, <1>13, <2>4, <2>5, <2>6 DEF TotalsInv
  <1> QED
    BY <1>14, <1>15

\* No step of the recorder counts twice or leaves out.
LEMMA TotalsStep == ASSUME RecorderInv, TotalsInv, [Next]_vars PROVE TotalsInv'
  <1>1. CASE Crash \/ \E commit \in BOOLEAN : FlushFails(commit)
    <2>1. /\ Down /\ modes' = SubSeq(modes, 1, Len(blockLog))
          /\ UNCHANGED <<chain, blockLog, genesisConstant, genesisKept>>
          /\ pc = "running" \/ inserterFail' = inserterFail
      BY <1>1 DEF Crash, FlushFails, dbVars
    <2> QED
      BY <2>1, DownTotals
  <1>2. CASE UNCHANGED vars
    <2>1. /\ UNCHANGED <<chain, blockLog, genesisConstant, genesisKept, inserterFail, pc, recorder, next, modes>>
          /\ Stored' = Stored /\ LastRow' = LastRow /\ HasGenesis' = HasGenesis
      BY <1>2 DEF vars, dbVars, memVars, Stored, LastRow, HasGenesis
    <2>2. Stored \in Nat
      BY Lengths DEF RecorderInv
    <2>3. \A i \in 1..Stored : Replay(i)' = Replay(i)
      <3>1. ASSUME NEW i \in Nat PROVE Replay(i)' = Replay(i)
        BY <2>1, ReplayIs
      <3> QED
        BY <2>2, <3>1
    <2>4. ASSUME pc # "down" PROVE Replay(next - 1)' = Replay(next - 1)
      <3>1. next - 1 \in Nat
        BY <2>4, Lengths DEF RecorderInv, BlocksInv
      <3>2. PICK k \in Nat : k = next - 1
        BY <3>1
      <3>3. Replay(k)' = Replay(k)
        BY <2>1, ReplayIs
      <3>4. k = next' - 1
        BY <2>1, <3>2
      <3> QED
        BY <3>2, <3>3, <3>4
    <2> QED
      BY <2>1, <2>3, <2>4 DEF TotalsInv
  <1> QED
    BY <1>1, <1>2, SetupTotals, LoadGenesisTotals, ProcessBlockTotals DEF Next, Record1, SetupRefuses, Idle

\* The inductive invariant: the totals a Midgard goes on from are those of all blocks before,
\* whether it recorded them itself, restored them from the state of the last block stored
\* (timeseries.Setup) or took them from the genesis file (record.LoadGenesis).
THEOREM TotalsInvHolds == Spec => []TotalsInv
  <1>1. Init => RecorderInv /\ TotalsInv
    BY InitRecorder, InitTotals
  <1>2. RecorderInv /\ TotalsInv /\ [Next]_vars => RecorderInv' /\ TotalsInv'
    BY RecorderStep, TotalsStep
  <1> QED
    BY <1>1, <1>2, PTL DEF Spec

\* The running totals survive every stop: what runningTotals holds before a block is what a Midgard
\* that recorded the blocks one after the other, in one go, holds there, wherever the process
\* ended and however the rows of a batch were lost (runningtotals.go, timeseries.Setup, batchinserter.go).
THEOREM DepthsSurvive == Spec => []DepthsSurviveRestarts
  <1>1. TotalsInv => DepthsSurviveRestarts
    BY DEF TotalsInv, DepthsSurviveRestarts
  <1> QED
    BY <1>1, TotalsInvHolds, PTL

-----------------------------------------------------------------------------
(* The pools of the rows of history.                                       *)

\* A row of block_pool_depths, by what it has.
IsRow(row) ==
    row = [pool |-> row.pool, time |-> row.time, asset |-> row.asset, rune |-> row.rune, synth |-> row.synth]

\* The pools there were totals of behind a block.
PoolsBehind(i) == PoolNames(Depths(Replay(i)))

\* A row is of a pool there were totals of behind its block, and so are the depths of the snapshot
\* behind the last one.
PoolsInv ==
    /\ \A row \in history \cup pending.history :
          /\ IsRow(row)
          /\ \A i \in 1..(Stored + Waiting) : row.time = CorrectedTime(chain, i) => row.pool \in PoolsBehind(i)
    /\ pc # "down" => PoolNames(snapshot) \subseteq PoolsBehind(next - 1)

\* Behind a block there are the pools of all blocks before.
LEMMA PoolsGrow ==
    ASSUME RecorderInv, TotalsInv, NEW n \in 0..Len(Blocks), NEW i \in 0..n
    PROVE  PoolsBehind(i) \subseteq PoolsBehind(n)
  <1>1. n \in Nat /\ \A h \in 1..n : h \in 1..Len(Blocks)
    BY ChainFacts DEF RecorderInv
  <1>2. IsRecorder(FirstTotals) /\ \A h \in 1..n : IsBlock(chain.blocks[h])
    BY <1>1, FirstIs DEF Blocks
  <1> QED
    BY <1>1, <1>2, RecordedGrows DEF PoolsBehind, Replay

\* There are no rows of history at first.
LEMMA InitPools == ASSUME Init PROVE PoolsInv
  <1>1. history = {} /\ pending.history = {} /\ pc = "down"
    BY DEF Init, NoPending
  <1> QED
    BY <1>1 DEF PoolsInv

\* The memory is lost, or not there yet: the rows that are left are stored.
LEMMA KeptPools ==
    ASSUME RecorderInv, TotalsInv, PoolsInv,
           UNCHANGED <<chain, blockLog, history>>, Waiting' = 0, pending'.history = {},
           \A i \in 1..Stored : Replay(i)' = Replay(i),
           pc' # "down" => snapshot' = NoSnapshot
    PROVE  PoolsInv'
  <1>1. Stored \in Nat /\ Waiting \in Nat /\ Stored' = Stored
    BY Lengths DEF RecorderInv, Stored
  <1>2. PoolNames(NoSnapshot) = {}
    BY DEF PoolNames, NoSnapshot
  <1>3. \A i \in 1..(Stored' + Waiting') : i \in 1..Stored /\ i \in 1..(Stored + Waiting)
    BY <1>1
  <1>4. \A i \in 1..Stored : PoolsBehind(i)' = PoolsBehind(i)
    BY DEF PoolsBehind
  <1>5. \A i : CorrectedTime(chain, i)' = CorrectedTime(chain, i)
    BY DEF CorrectedTime
  <1> QED
    BY <1>2, <1>3, <1>4, <1>5 DEF PoolsInv

\* A new row is of a pool the snapshot or the totals have.
LEMMA RowsOfPools ==
    ASSUME NEW old, NEW r, NEW time, NEW row \in HistoryRows(old, r, time)
    PROVE  IsRow(row) /\ row.time = time /\ row.pool \in PoolNames(old) \cup PoolNames(Depths(r))
  BY DEF HistoryRows, IsRow

\* A block adds rows of pools there are behind it.
LEMMA ProcessBlockPools ==
    ASSUME RecorderInv, TotalsInv, PoolsInv, RecorderInv', TotalsInv',
           NEW commit \in BOOLEAN, ProcessBlock(commit)
    PROVE  PoolsInv'
  <1> DEFINE r == RecordBlock(recorder, chain.id, Blocks[next])
             H == HistoryRows(snapshot, r, CorrectedTime(chain, next))
  <1>1. /\ pc = "running" /\ next <= Len(Blocks)
        /\ recorder' = [r EXCEPT !.rows = <<>>] /\ snapshot' = Depths(r)
        /\ next' = next + 1 /\ modes' = Append(modes, recorder.immediate)
        /\ history' \cup pending'.history = (history \cup pending.history) \cup H
        /\ UNCHANGED <<chain, genesisConstant, pc, genesisKept>>
    <2>1. CASE Commits(commit)
      BY <2>1 DEF ProcessBlock, Flushed, Immediate, NoPending
    <2>2. CASE ~Commits(commit)
      BY <2>2 DEF ProcessBlock, Immediate
    <2> QED
      BY <2>1, <2>2
  <1> HIDE DEF r
  <1>2. /\ Stored \in Nat /\ Waiting \in Nat /\ IsSeq(modes)
        /\ Len(modes) = Stored + Waiting /\ next = Stored + Waiting + 1
    BY <1>1, Lengths DEF RecorderInv, BlocksInv
  <1>3. PICK n \in Nat, now \in Nat : n = Stored + Waiting /\ now = n + 1
    BY <1>2
  <1>4. now \in Nat /\ now = n + 1 /\ next = now /\ next' = now + 1 /\ now \in 1..Len(Blocks) /\ Len(modes) = n
    BY <1>1, <1>2, <1>3, ChainFacts DEF RecorderInv
  <1>5. \A k \in 0..n : Replay(k)' = Replay(k)
    <2>1. \A h \in 1..n : modes'[h] = modes[h]
      BY <1>1, <1>2, <1>4, AppendIs
    <2>2. ASSUME NEW k \in 0..n PROVE Replay(k)' = Replay(k)
      <3>1. k \in Nat /\ \A h \in 1..k : h \in 1..n
        BY <1>4
      <3>2. \A h \in 1..k : modes'[h] = modes[h]
        BY <2>1, <3>1
      <3> QED
        BY <1>1, <3>1, <3>2, ReplayIs
    <2> QED
      BY <2>2
  <1>6. Stored' + Waiting' = now
    <2>1. Stored' \in Nat /\ Waiting' \in Nat
      <3>1. BlocksInv'
        BY DEF RecorderInv
      <3>2. Len(blockLog') \in Nat /\ Len(pending'.blockLog) \in Nat
        BY <3>1, AppendIs DEF BlocksInv
      <3> QED
        BY <3>2 DEF Stored, Waiting
    <2>2. next' = Stored' + Waiting' + 1
      BY <1>1 DEF RecorderInv, BlocksInv
    <2>3. PICK a \in Nat, b \in Nat : a = Stored' /\ b = Waiting' /\ next' = a + b + 1
      BY <2>1, <2>2
    <2>4. a + b = now
      <3>1. now + 1 = a + b + 1
        BY <1>4, <2>3
      <3> HIDE DEF H
      <3> QED
        BY <3>1
    <2> QED
      BY <2>3, <2>4
  <1>7. PoolsBehind(now)' = PoolNames(Depths(r))
    <2>1. Depths(recorder') = Depths(Replay(next - 1)')
      BY <1>1 DEF TotalsInv
    <2>2. Depths(recorder') = Depths(r)
      <3>1. recorder'.asset = r.asset /\ recorder'.rune = r.rune /\ recorder'.synth = r.synth
        BY <1>1
      <3> QED
        BY <3>1 DEF Depths
    <2>3. next' - 1 = now
      BY <1>4
    <2>4. Replay(next - 1)' = Replay(now)'
      BY <2>3
    <2>5. Depths(Replay(now)') = Depths(r)
      BY <2>1, <2>2, <2>4
    <2> QED
      BY <2>5 DEF PoolsBehind
  <1>8. \A k \in 0..n : PoolsBehind(k)' = PoolsBehind(k)
    BY <1>5 DEF PoolsBehind
  <1>9. PoolsBehind(n)' \subseteq PoolsBehind(now)'
    <2>1. IsRecorder(FirstTotals) /\ \A h \in 1..now : IsBlock(chain.blocks[h])
      BY <1>4, FirstIs DEF Blocks
    <2>2. n \in 0..now
      BY <1>4
    <2>3. PoolNames(Depths(Recorded(FirstTotals, chain, modes', n)))
             \subseteq PoolNames(Depths(Recorded(FirstTotals, chain, modes', now)))
      BY <1>4, <2>1, <2>2, RecordedGrows
    <2>4. FirstTotals' = FirstTotals
      BY <1>1 DEF FirstTotals, Genesis
    <2> QED
      BY <1>1, <2>3, <2>4 DEF PoolsBehind, Replay
  <1>10. PoolNames(snapshot) \subseteq PoolsBehind(now)'
    <2>1. PoolNames(snapshot) \subseteq PoolsBehind(next - 1)
      BY <1>1 DEF PoolsInv
    <2>2. next - 1 = n /\ n \in 0..n
      BY <1>4
    <2> QED
      BY <1>8, <1>9, <2>1, <2>2
  <1>11. /\ \A h \in 1..now : CorrectedTime(chain, h) \in Int
         /\ \A h, k \in 1..now : h < k => CorrectedTime(chain, h) < CorrectedTime(chain, k)
    <2>1. \A h \in 1..now : h \in 1..Len(Blocks)
      BY <1>4
    <2> QED
      BY <2>1, ChainFacts DEF RecorderInv
  <1>12. ASSUME NEW row \in history \cup pending.history, NEW i \in 1..now, row.time = CorrectedTime(chain, i)
         PROVE  IsRow(row) /\ row.pool \in PoolsBehind(i)'
    <2>1. PICK j \in 1..n : row.time = CorrectedTime(chain, j)
      BY <1>2, <1>3 DEF RecorderInv, HistoryInv, MadeAt
    <2>2. i \in 1..n
      <3>1. j < now /\ j \in 1..now /\ now \in 1..now /\ n \in Nat
        BY <1>4
      <3>2. CorrectedTime(chain, j) < CorrectedTime(chain, now) /\ CorrectedTime(chain, j) \in Int
        BY <1>11, <3>1
      <3>3. ~(row.time = CorrectedTime(chain, now))
        BY <2>1, <3>2
      <3>4. i # now
        BY <1>12, <3>3
      <3> QED
        BY <1>4, <3>4
    <2>3. i \in 0..n /\ i \in 1..(Stored + Waiting)
      BY <1>3, <2>2
    <2>4. IsRow(row) /\ row.pool \in PoolsBehind(i)
      BY <1>12, <2>3 DEF PoolsInv
    <2> QED
      BY <1>8, <2>3, <2>4
  <1>13. ASSUME NEW row \in H, NEW i \in 1..now, row.time = CorrectedTime(chain, i)
         PROVE  IsRow(row) /\ row.pool \in PoolsBehind(i)'
    <2>1. IsRow(row) /\ row.time = CorrectedTime(chain, now) /\ row.pool \in PoolNames(snapshot) \cup PoolNames(Depths(r))
      BY <1>4, RowsOfPools
    <2>2. i = now
      <3>1. i < now => CorrectedTime(chain, i) < CorrectedTime(chain, now)
        BY <1>4, <1>11
      <3>2. CorrectedTime(chain, i) \in Int /\ (i < now \/ i = now)
        BY <1>4, <1>11
      <3> QED
        BY <1>13, <2>1, <3>1, <3>2
    <2> QED
      BY <1>7, <1>10, <2>1, <2>2
  <1>14. \A row \in history' \cup pending'.history : IsRow(row)
    <2>1. \A row \in history \cup pending.history : IsRow(row)
      BY DEF PoolsInv
    <2>2. \A row \in H : IsRow(row)
      BY RowsOfPools
    <2> QED
      BY <1>1, <2>1, <2>2
  <1>15. \A row \in history' \cup pending'.history : \A i \in 1..now :
            row.time = CorrectedTime(chain, i) => row.pool \in PoolsBehind(i)'
    BY <1>1, <1>12, <1>13
  <1>16. PoolNames(snapshot') \subseteq PoolsBehind(next - 1)'
    <2>1. next' - 1 = now
      BY <1>4
    <2>2. PoolsBehind(next - 1)' = PoolsBehind(now)'
      BY <2>1
    <2> QED
      BY <1>1, <1>7, <2>2
  <1>17. \A i : CorrectedTime(chain, i)' = CorrectedTime(chain, i)
    BY <1>1 DEF CorrectedTime
  <1> QED
    BY <1>6, <1>14, <1>15, <1>16, <1>17 DEF PoolsInv

\* The totals behind the blocks stored stay what they are, whatever ends or begins.
LEMMA StoredReplays ==
    ASSUME RecorderInv, TotalsInv,
           \/ UNCHANGED vars \/ Setup \/ LoadGenesis
           \/ /\ modes' = SubSeq(modes, 1, Len(blockLog))
              /\ UNCHANGED <<chain, genesisConstant, genesisKept>>
    PROVE  \A i \in 1..Stored : Replay(i)' = Replay(i)
  <1>1. Stored \in Nat /\ Len(modes) \in Nat /\ Stored <= Len(modes) /\ IsSeq(modes) /\ (Stored > 0 => blockLog # <<>>)
    BY Lengths, EmptyIs DEF RecorderInv, BlocksInv, Stored
  <1>2. ASSUME UNCHANGED <<chain, genesisConstant, genesisKept>>, \A h \in 1..Stored : modes'[h] = modes[h]
        PROVE  \A i \in 1..Stored : Replay(i)' = Replay(i)
    <2> SUFFICES ASSUME NEW i \in 1..Stored PROVE Replay(i)' = Replay(i)
      OBVIOUS
    <2>1. i \in Nat /\ \A h \in 1..i : h \in 1..Stored
      BY <1>1
    <2>2. \A h \in 1..i : modes'[h] = modes[h]
      BY <1>2, <2>1
    <2> QED
      BY <1>2, <2>1, <2>2, ReplayIs
  <1>3. CASE UNCHANGED vars
    <2>1. UNCHANGED <<chain, genesisConstant, genesisKept, modes>>
      BY <1>3 DEF vars, dbVars
    <2> QED
      BY <1>2, <2>1
  <1>4. CASE Setup
    <2>1. /\ UNCHANGED <<chain, genesisConstant, modes>>
          /\ genesisKept' = (genesisKept /\ ~(genesisConstant /\ blockLog = <<>>))
      BY <1>4 DEF Setup, dbVars
    <2>2. blockLog # <<>> => genesisKept' = genesisKept
      BY <2>1 DEF RecorderInv, TypeOK
    <2>3. CASE blockLog = <<>>
      <3>1. 1..Stored = {}
        BY <1>1, <2>3
      <3> QED
        BY <3>1
    <2>4. CASE blockLog # <<>>
      BY <1>2, <2>1, <2>2, <2>4
    <2> QED
      BY <2>3, <2>4
  <1>5. CASE LoadGenesis
    <2>1. /\ UNCHANGED <<chain, modes, genesisKept>>
          /\ genesisConstant' = genesisConstant \/ (HasGenesis /\ ~genesisConstant)
      BY <1>5 DEF LoadGenesis
    <2>2. CASE HasGenesis /\ ~genesisConstant
      <3>1. 1..Stored = {}
        BY <1>1, <2>2 DEF TotalsInv
      <3> QED
        BY <3>1
    <2>3. CASE ~(HasGenesis /\ ~genesisConstant)
      BY <1>2, <2>1, <2>3
    <2> QED
      BY <2>2, <2>3
  <1>6. CASE modes' = SubSeq(modes, 1, Len(blockLog)) /\ UNCHANGED <<chain, genesisConstant, genesisKept>>
    <2>1. \A h \in 1..Stored : modes'[h] = modes[h]
      BY <1>1, <1>6 DEF Stored, IsSeq
    <2> QED
      BY <1>2, <1>6, <2>1
  <1> QED
    BY <1>3, <1>4, <1>5, <1>6

\* No step leaves rows of pools there are no totals of.
LEMMA PoolsStep ==
    ASSUME RecorderInv, TotalsInv, PoolsInv, RecorderInv', TotalsInv', [Next]_vars
    PROVE  PoolsInv'
  <1>1. CASE Crash \/ \E commit \in BOOLEAN : FlushFails(commit)
    <2>1. /\ Down /\ modes' = SubSeq(modes, 1, Len(blockLog))
          /\ UNCHANGED <<chain, blockLog, history, genesisConstant, genesisKept>>
      BY <1>1 DEF Crash, FlushFails, dbVars
    <2>2. Waiting' = 0 /\ pending'.history = {} /\ pc' = "down"
      BY <2>1, EmptyIs DEF Down, NoPending, Waiting
    <2>3. \A i \in 1..Stored : Replay(i)' = Replay(i)
      BY <2>1, StoredReplays
    <2> QED
      BY <2>1, <2>2, <2>3, KeptPools
  <1>2. CASE Setup \/ LoadGenesis
    <2>1. UNCHANGED <<chain, blockLog, history, pending, snapshot>> /\ pc # "running"
      BY <1>2 DEF Setup, LoadGenesis, dbVars
    <2>2. pending = NoPending /\ snapshot = NoSnapshot
      BY <2>1 DEF RecorderInv, HistoryInv
    <2>3. Waiting' = 0 /\ pending'.history = {} /\ snapshot' = NoSnapshot
      BY <2>1, <2>2, EmptyIs DEF NoPending, Waiting
    <2>4. \A i \in 1..Stored : Replay(i)' = Replay(i)
      BY <1>2, StoredReplays
    <2> QED
      BY <2>1, <2>3, <2>4, KeptPools
  <1>3. CASE UNCHANGED vars
    BY <1>3
       DEF vars, dbVars, memVars, PoolsInv, PoolsBehind, Replay, FirstTotals, Genesis, Stored, Waiting
  <1> QED
    BY <1>1, <1>2, <1>3, ProcessBlockPools DEF Next, Record1, SetupRefuses, Idle

\* The inductive invariant: depthRecorder.update (depthrecorder.go) writes a row only for a pool its
\* snapshot or the running totals have, and what has a total once has one behind every later block
\* and after every start, so that no row is of a pool that the state of a later block does not have.
THEOREM PoolsInvHolds == Spec => []PoolsInv
  <1>1. Init => RecorderInv /\ TotalsInv /\ PoolsInv
    BY InitRecorder, InitTotals, InitPools
  <1>2. RecorderInv /\ TotalsInv /\ PoolsInv /\ [Next]_vars => RecorderInv' /\ TotalsInv' /\ PoolsInv'
    <2>1. RecorderInv /\ TotalsInv /\ [Next]_vars => RecorderInv' /\ TotalsInv'
      BY RecorderStep, TotalsStep
    <2> QED
      BY <2>1, PoolsStep
  <1> QED
    BY <1>1, <1>2, PTL DEF Spec

-----------------------------------------------------------------------------
(* The depths that are served.                                             *)

\* The depths of a pool in a state, as they are answered.
InState(d, p) ==
    [asset |-> DepthIn(d.asset, p), rune |-> DepthIn(d.rune, p), synth |-> DepthIn(d.synth, p)]

\* The last row of a pool before a time has its depths in the last state before it, and of a pool
\* that is not in the state there is no row.
LastRowSays(time, p, d) ==
    \/ \E last \in history :
          /\ last.pool = p /\ last.time < time /\ Depth(last) = InState(d, p)
          /\ \A r \in history : r.pool = p /\ r.time < time /\ r # last => r.time < last.time
    \/ /\ \A r \in history : r.pool = p => time <= r.time
       /\ InState(d, p) = NoDepths

\* The last row of a pool before a time has its depths in the last state before it.
LEMMA LastRowIs ==
    ASSUME RecorderInv, TotalsInv, PoolsInv, NEW time \in Int, StatesBefore(time) # NoState, NEW p
    PROVE  LastRowSays(time, p, StatesBefore(time)[1])
  <1> DEFINE before == {i \in DOMAIN blockLog : blockLog[i].time < time}
             m == Max(before)
             T == CorrectedTime(chain, m)
             d == Depths(Replay(m))
             rowsTo == Until(history, T)
  <1>1. /\ Stored \in Nat /\ Waiting \in Nat /\ DOMAIN blockLog = 1..Stored /\ Stored + Waiting <= Len(Blocks)
        /\ \A i \in 1..Stored : blockLog[i].time = CorrectedTime(chain, i)
    BY Lengths DEF RecorderInv, BlocksInv
  <1>2. /\ Len(Blocks) \in Nat
        /\ \A h \in 1..Stored : CorrectedTime(chain, h) \in Int
        /\ \A h, k \in 1..Stored : h < k => CorrectedTime(chain, h) < CorrectedTime(chain, k)
    <2>1. Len(Blocks) \in Nat /\ \A h \in 1..Stored : h \in 1..Len(Blocks)
      BY <1>1, ChainFacts DEF RecorderInv
    <2> QED
      BY <2>1, ChainFacts DEF RecorderInv
  <1>3. before # {} /\ StatesBefore(time) = blockLog[m].state
    BY DEF StatesBefore, NoState
  <1>4. m \in before /\ m \in 1..Stored /\ \A i \in before : i <= m
    <2>1. before \subseteq 1..Stored /\ Stored \in Int
      BY <1>1
    <2> HIDE DEF before
    <2>2. m \in before /\ \A i \in before : i <= m
      BY <1>3, <2>1, GreatestOf
    <2> QED
      BY <2>1, <2>2
  <1>5. T \in Int /\ T < time /\ blockLog[m].time = T
    BY <1>1, <1>2, <1>4
  <1>6. StatesBefore(time)[1] = d
    <2>1. blockLog[m].state = <<d>>
      BY <1>3, <1>4 DEF TotalsInv
    <2> QED
      BY <1>3, <2>1
  <1>7. ASSUME NEW r \in history
        PROVE  /\ r.time \in Int /\ IsRow(r) /\ (r.time < time <=> r.time <= T)
               /\ r.time < time => r.pool \in PoolNames(d)
    <2>1. PICK i \in 1..Stored : r.time = CorrectedTime(chain, i)
      BY DEF RecorderInv, HistoryInv, MadeAt
    <2>2. r.time \in Int
      BY <1>2, <2>1
    <2>3. ASSUME r.time < time PROVE i \in 0..m /\ r.time <= T
      <3>1. i \in before
        BY <1>1, <2>1, <2>3
      <3>2. i \in Int /\ m \in Int /\ i <= m /\ 1 <= i
        BY <1>1, <1>4, <3>1
      <3>3. i = m \/ i < m
        BY <3>2
      <3>4. r.time <= T
        BY <1>2, <1>4, <1>5, <2>1, <2>2, <3>3
      <3> QED
        BY <3>2, <3>4
    <2>4. ASSUME r.time < time PROVE r.pool \in PoolNames(d)
      <3>1. i \in 1..(Stored + Waiting) /\ m \in 0..Len(Blocks)
        BY <1>1, <1>2, <1>4
      <3>2. r.pool \in PoolsBehind(i)
        BY <2>1, <3>1 DEF PoolsInv
      <3>3. PoolsBehind(i) \subseteq PoolsBehind(m)
        <4>1. i \in 0..m
          BY <2>3, <2>4
        <4> HIDE DEF m
        <4> QED
          BY <3>1, <4>1, PoolsGrow
      <3> QED
        BY <3>2, <3>3 DEF PoolsBehind
    <2>5. r.time <= T => r.time < time
      BY <1>5, <2>2
    <2>6. IsRow(r)
      BY DEF PoolsInv
    <2> QED
      BY <2>2, <2>3, <2>4, <2>5, <2>6
  <1>8. Shows(rowsTo, d)
    <2>1. blockLog[m].state # NoState /\ blockLog[m].state[1] = d
      BY <1>3, <1>6
    <2> QED
      BY <1>4, <1>5, <2>1 DEF RecorderInv, HistoryInv
  <1> HIDE DEF m, T, d
  <1>9. CASE p \in PoolNames(d)
    <2>1. {<<row.asset, row.rune, row.synth>> : row \in LatestRows(rowsTo, p)} = {Value(d, p)}
      BY <1>8, <1>9 DEF Shows
    <2>2. PICK last \in LatestRows(rowsTo, p) : TRUE
      BY <2>1
    <2>3. /\ last \in history /\ last.time <= T /\ last.pool = p
          /\ \A r \in rowsTo : r.pool = p => r.time <= last.time
      BY <2>2 DEF LatestRows, Until
    <2>4. \A r \in LatestRows(rowsTo, p) : <<r.asset, r.rune, r.synth>> = Value(d, p)
      BY <2>1
    <2>5. Depth(last) = InState(d, p)
      BY <2>2, <2>4 DEF Depth, InState, Value
    <2>6. ASSUME NEW r \in history, r.pool = p, r.time < time, r # last PROVE r.time < last.time
      <3>1. r \in rowsTo /\ r.time <= last.time
        BY <1>7, <2>3, <2>6 DEF Until
      <3>2. r.time # last.time
        <4> SUFFICES ASSUME r.time = last.time PROVE FALSE
          OBVIOUS
        <4>1. r \in LatestRows(rowsTo, p)
          BY <2>3, <2>6, <3>1 DEF LatestRows
        <4>2. r.asset = last.asset /\ r.rune = last.rune /\ r.synth = last.synth
          BY <2>2, <2>4, <4>1
        <4>3. IsRow(r) /\ IsRow(last)
          BY <1>7, <2>3
        <4>4. r = last
          BY <2>3, <2>6, <4>2, <4>3 DEF IsRow
        <4> QED
          BY <2>6, <4>4
      <3> QED
        BY <1>7, <2>3, <3>1, <3>2
    <2>7. last.time < time
      BY <1>7, <2>3
    <2> QED
      BY <1>6, <2>3, <2>5, <2>6, <2>7 DEF LastRowSays
  <1>10. CASE p \notin PoolNames(d)
    <2>1. ASSUME NEW r \in history, r.pool = p PROVE time <= r.time
      <3>1. ~(r.time < time) /\ r.time \in Int
        BY <1>7, <1>10, <2>1
      <3> QED
        BY <3>1
    <2>2. InState(d, p) = NoDepths
      BY <1>10 DEF InState, NoDepths, PoolNames, DepthIn
    <2> QED
      BY <1>6, <2>1, <2>2 DEF LastRowSays
  <1> QED
    BY <1>9, <1>10

\* The rows of history are not older than the first block.
LEMMA HistoryIsDated ==
    ASSUME RecorderInv
    PROVE  \A r \in history : r.time \in Nat /\ FirstSecond <= r.time
  <1>1. PICK c \in DOMAIN Chains : chain = Chains[c]
    BY DEF RecorderInv
  <1>2. /\ \A h \in 1..Len(Blocks) : CorrectedTime(chain, h) \in Int
        /\ \A h, k \in 1..Len(Blocks) : h < k => CorrectedTime(chain, h) < CorrectedTime(chain, k)
    BY <1>1, ChainFacts
  <1>3. CorrectedTime(chain, 1) = FirstSecond /\ FirstSecond \in Nat
    BY <1>1, DepthQueriesAssumption
  <1>4. Stored \in Nat /\ Waiting \in Nat /\ Stored + Waiting <= Len(Blocks) /\ Len(Blocks) \in Nat
    BY <1>1, Lengths, ChainFacts DEF RecorderInv, BlocksInv
  <1> SUFFICES ASSUME NEW r \in history PROVE r.time \in Nat /\ FirstSecond <= r.time
    OBVIOUS
  <1>5. PICK i \in 1..Stored : r.time = CorrectedTime(chain, i)
    BY DEF RecorderInv, HistoryInv, MadeAt
  <1>6. i \in 1..Len(Blocks) /\ 1 \in 1..Len(Blocks) /\ (i = 1 \/ 1 < i)
    BY <1>4
  <1>7. r.time \in Int /\ FirstSecond <= r.time
    BY <1>2, <1>3, <1>5, <1>6
  <1> QED
    BY <1>3, <1>7

\* A bucket has what the last row of a pool before its end says, in a series and in a range.
LEMMA BucketSays ==
    ASSUME RecorderInv, NEW q \in Asked, NEW b, b = BucketsFromQuery(q, FirstSecond, q.now), ~NoAnswer(b),
           NEW k \in 1..Count(b), NEW p \in AskedPools, NEW d, LastRowSays(b.timestamps[k + 1], p, d)
    PROVE  getDepthsHistory(b, history, AskedPools)[k][p] = InState(d, p)
  <1>1. Answerable(q, FirstSecond, q.now)
    BY DepthQueriesAssumption DEF Answerable, Starts
  <1>2. NoAnswer(BadRequest)
    BY DEF NoAnswer, BadRequest
  <1>3. \A r \in history : r.time \in Nat
    BY HistoryIsDated
  <1>4. CASE ForARange(q)
    <2> DEFINE low == Given(q.from, FirstSecond)
               high == Given(q.to, q.now)
    <2>1. high \in Int
      BY <1>1, ParameterIs DEF Answerable
    <2>2. b = BadRequest \/ b = Buckets("ok", <<low, high>>, "")
      BY <1>4 DEF BucketsFromQuery, ForARange, generateBucketsOnlyMeta
    <2>3. b.timestamps = <<low, high>> /\ OneInterval(b)
      <3> DEFINE range == <<low, high>>
      <3>1. b = Buckets("ok", range, "")
        BY <1>2, <2>2
      <3> HIDE DEF range
      <3>2. b.timestamps = range /\ b.interval = ""
        BY ONLY <3>1, OtherTimes
      <3> QED
        BY <3>2 DEF OneInterval, range
    <2> HIDE DEF low, high
    <2>4. CASE \E last \in history :
                  /\ last.pool = p /\ last.time < b.timestamps[k + 1] /\ Depth(last) = InState(d, p)
                  /\ \A r \in history : r.pool = p /\ r.time < b.timestamps[k + 1] /\ r # last => r.time < last.time
      BY <1>3, <2>1, <2>3, <2>4, DepthsOfARange
    <2>5. CASE (\A r \in history : r.pool = p => b.timestamps[k + 1] <= r.time) /\ InState(d, p) = NoDepths
      BY <1>3, <2>1, <2>3, <2>5, NothingInARange
    <2> QED
      BY <2>4, <2>5 DEF LastRowSays
  <1>5. CASE ~ForARange(q)
    <2> DEFINE i == q.interval
    <2>1. i \in DOMAIN intervals
      BY <1>2, <1>5 DEF BucketsFromQuery, ForARange
    <2>2. PICK t, first, last : b = Buckets("ok", t, i) /\ Whole(t, i, first, last)
      BY <1>1, <1>5, AnswerIsSeries DEF RefusedOrWhole
    <2>3. b.timestamps = t /\ b.interval = i /\ ~OneInterval(b) /\ Stretch(t, Starts(i)) /\ 2 <= Len(t)
      <3>1. b.timestamps = t /\ b.interval = i
        BY <2>2, OtherTimes
      <3>2. ~OneInterval(b)
        BY <1>5, <3>1 DEF OneInterval, ForARange
      <3> QED
        BY <2>2, <3>1, <3>2 DEF Whole
    <2>4. Dated(i, history)
      <3>1. PICK s \in Starts(i) : s + Beyond(i) <= FirstSecond
        BY <1>1, <2>1 DEF Answerable
      <3>2. Beyond(i) \in Nat /\ s \in Int /\ FirstSecond \in Int
        <4>1. maxIntervalCount \in Nat /\ Long(i) \in Nat
          BY <2>1, StartsAre, SeriesAssumption
        <4>2. Beyond(i) = (maxIntervalCount + 3) * Long(i)
          BY DEF Beyond, Long
        <4> HIDE DEF i
        <4>3. Beyond(i) \in Nat
          BY <4>1, <4>2
        <4> QED
          BY <2>1, <4>3, StartsAre, DepthQueriesAssumption
      <3>3. ASSUME NEW r \in history PROVE s <= r.time /\ r.time \in Int
        <4>1. r.time \in Nat /\ FirstSecond <= r.time
          BY HistoryIsDated
        <4> HIDE DEF i
        <4> QED
          BY <3>1, <3>2, <4>1
      <3> QED
        BY <3>3 DEF Dated
    <2> HIDE DEF i
    <2>5. CASE \E last0 \in history :
                  /\ last0.pool = p /\ last0.time < b.timestamps[k + 1] /\ Depth(last0) = InState(d, p)
                  /\ \A r \in history : r.pool = p /\ r.time < b.timestamps[k + 1] /\ r # last0 => r.time < last0.time
      BY <1>3, <2>1, <2>3, <2>4, <2>5, DepthsOfABucket
    <2>6. CASE (\A r \in history : r.pool = p => b.timestamps[k + 1] <= r.time) /\ InState(d, p) = NoDepths
      BY <1>3, <2>1, <2>3, <2>4, <2>6, NothingInABucket
    <2> QED
      BY <2>5, <2>6 DEF LastRowSays
  <1> QED
    BY <1>4, <1>5

\* The ends of the buckets of an answer are times.
LEMMA EndsAreTimes ==
    ASSUME NEW q \in Asked, NEW b, b = BucketsFromQuery(q, FirstSecond, q.now), ~NoAnswer(b), NEW k \in 1..Count(b)
    PROVE  b.timestamps[k + 1] \in Int
  <1>1. Answerable(q, FirstSecond, q.now)
    BY DepthQueriesAssumption DEF Answerable, Starts
  <1>2. NoAnswer(BadRequest)
    BY DEF NoAnswer, BadRequest
  <1>3. CASE ForARange(q)
    <2> DEFINE low == Given(q.from, FirstSecond)
               high == Given(q.to, q.now)
    <2>1. high \in Int
      BY <1>1, ParameterIs DEF Answerable
    <2>2. b = BadRequest \/ b = Buckets("ok", <<low, high>>, "")
      BY <1>3 DEF BucketsFromQuery, ForARange, generateBucketsOnlyMeta
    <2>3. b.timestamps = <<low, high>>
      <3> DEFINE range == <<low, high>>
      <3>1. b = Buckets("ok", range, "")
        BY <1>2, <2>2
      <3> HIDE DEF range
      <3>2. b.timestamps = range
        BY ONLY <3>1, OtherTimes
      <3> QED
        BY <3>2 DEF range
    <2> HIDE DEF low, high
    <2> QED
      BY <2>1, <2>3 DEF Count
  <1>4. CASE ~ForARange(q)
    <2>1. PICK t, first, last : b = Buckets("ok", t, q.interval) /\ Whole(t, q.interval, first, last)
      BY <1>1, <1>4, AnswerIsSeries DEF RefusedOrWhole
    <2>2. b.timestamps = t
      BY <2>1 DEF Buckets
    <2>3. Len(t) \in Nat /\ \A l \in 1..Len(t) : t[l] \in Int
      BY <2>1, StretchIs DEF Whole
    <2>4. k + 1 \in 1..Len(t)
      BY <2>2, <2>3 DEF Count
    <2> QED
      BY <2>2, <2>3, <2>4
  <1> QED
    BY <1>3, <1>4

\* Each bucket of an answer has, of every pool, the depths the recorder had behind the last block
\* before its end, also of a pool that did not change in it or had no depths yet (getDepthsHistory in
\* stat/depth.go): for every interval, count and range a query can ask for, and through every stop
\* and every batch that was lost.
THEOREM DepthsServed == Spec => []DepthsAreServed
  <1>1. RecorderInv /\ TotalsInv /\ PoolsInv => DepthsAreServed
    <2> SUFFICES ASSUME RecorderInv, TotalsInv, PoolsInv, NEW b \in Answers, NEW k \in 1..Count(b),
                        StatesBefore(b.timestamps[k + 1]) # NoState, NEW p \in AskedPools
                 PROVE  getDepthsHistory(b, history, AskedPools)[k][p]
                           = InState(StatesBefore(b.timestamps[k + 1])[1], p)
      BY DEF DepthsAreServed, InState
    <2>1. PICK q \in Asked : b = BucketsFromQuery(q, FirstSecond, q.now) /\ b.outcome = "ok"
      BY DEF Answers
    <2>2. ~NoAnswer(b)
      <3> SUFFICES ASSUME NEW outcome, NEW t, NEW i, outcome # "ok", b = Buckets(outcome, t, i) PROVE FALSE
        BY DEF NoAnswer
      <3>1. b.outcome = outcome
        BY DEF Buckets
      <3> QED
        BY <2>1, <3>1
    <2>3. b.timestamps[k + 1] \in Int
      BY <2>1, <2>2, EndsAreTimes
    <2>4. LastRowSays(b.timestamps[k + 1], p, StatesBefore(b.timestamps[k + 1])[1])
      BY <2>3, LastRowIs
    <2> QED
      BY <2>1, <2>2, <2>4, BucketSays
  <1> QED
    BY <1>1, RecorderInvHolds, TotalsInvHolds, PoolsInvHolds, PTL

-----------------------------------------------------------------------------
(* Event ids.                                                              *)

\* The places of a block, in their order.
PlaceOf(location) == CASE location = "BeginBlockEvents" -> 0
                       [] location = "TxsResults"       -> 1
                       [] location = "EndBlockEvents"   -> 2

\* An id whose parts have the digits the format of eventid.go gives them.
Fits(e) ==
    /\ e.height \in Nat /\ e.tx \in Nat /\ e.index \in Nat
    /\ \/ e.location \in {"BeginBlockEvents", "EndBlockEvents"} /\ e.index < TypeDigit
       \/ /\ e.location = "TxsResults" /\ e.index < TxIndexScale
          /\ e.tx * TxIndexScale + e.index < 8 * TypeDigit

\* One event is before another of the chain: in an earlier block, at an earlier place, in an
\* earlier transaction, or there by its number.
IsBefore(e, f) ==
    \/ e.height < f.height
    \/ /\ e.height = f.height
       /\ \/ PlaceOf(e.location) < PlaceOf(f.location)
          \/ /\ e.location = f.location
             /\ \/ e.location = "TxsResults" /\ (e.tx < f.tx \/ (e.tx = f.tx /\ e.index < f.index))
                \/ e.location # "TxsResults" /\ e.index < f.index

\* The digits below the height.
Low(e) == CASE e.location = "BeginBlockEvents" -> e.index
            [] e.location = "TxsResults"       -> TypeDigit + e.tx * TxIndexScale + e.index
            [] e.location = "EndBlockEvents"   -> 9 * TypeDigit + e.index

\* They stay below it, and the place can be told from them.
LEMMA LowIs ==
    ASSUME NEW e, Fits(e)
    PROVE  /\ AsBigint(e) = e.height * BlockHeightScale + Low(e)
           /\ Low(e) \in Nat /\ Low(e) < BlockHeightScale /\ BlockHeightScale \in Nat \ {0}
           /\ e.location = "BeginBlockEvents" => Low(e) = e.index /\ Low(e) < TypeDigit
           /\ e.location = "TxsResults" =>
                 /\ Low(e) = TypeDigit + e.tx * TxIndexScale + e.index
                 /\ TypeDigit <= Low(e) /\ Low(e) < 9 * TypeDigit
           /\ e.location = "EndBlockEvents" => Low(e) = 9 * TypeDigit + e.index /\ 9 * TypeDigit <= Low(e)
  <1>1. TxIndexScale \in Nat \ {0} /\ TypeDigit \in Nat \ {0} /\ BlockHeightScale = 10 * TypeDigit
    BY EventIdsAssumption DEF BlockHeightScale
  <1>2. AsBigint(e) = e.height * BlockHeightScale + Low(e)
    BY DEF AsBigint, Low
  <1>3. e.height \in Nat /\ e.tx \in Nat /\ e.index \in Nat /\ e.tx * TxIndexScale \in Nat
    BY <1>1 DEF Fits
  <1>4. CASE e.location = "BeginBlockEvents"
    <2>1. e.index < TypeDigit
      BY <1>4 DEF Fits
    <2>2. Low(e) = e.index
      BY <1>4 DEF Low
    <2> QED
      BY <1>1, <1>2, <1>3, <1>4, <2>1, <2>2
  <1>5. CASE e.location = "TxsResults"
    <2>1. e.tx * TxIndexScale + e.index < 8 * TypeDigit
      BY <1>5 DEF Fits
    <2>2. Low(e) = TypeDigit + e.tx * TxIndexScale + e.index
      BY <1>5 DEF Low
    <2> QED
      BY <1>1, <1>2, <1>3, <1>5, <2>1, <2>2
  <1>6. CASE e.location = "EndBlockEvents"
    <2>1. e.index < TypeDigit
      BY <1>6 DEF Fits
    <2>2. Low(e) = 9 * TypeDigit + e.index
      BY <1>6 DEF Low
    <2> QED
      BY <1>1, <1>2, <1>3, <1>6, <2>1, <2>2
  <1> QED
    BY <1>4, <1>5, <1>6 DEF Fits

\* Rows are read in the order of the chain: an event of an earlier block, of an earlier place
\* in its block, of an earlier transaction or with a smaller number gets the smaller id
\* (EventId.AsBigint), as long as the numbers have the digits the format gives them.
THEOREM IdsSortAsTheChain ==
    ASSUME NEW e, NEW f, Fits(e), Fits(f), IsBefore(e, f)
    PROVE  AsBigint(e) < AsBigint(f)
  <1>1. e.height \in Nat /\ f.height \in Nat
    BY DEF Fits
  <1>2. CASE e.height < f.height
    <2> DEFINE H == BlockHeightScale
               le == Low(e)
               lf == Low(f)
    <2>1. /\ AsBigint(e) = e.height * H + le /\ le \in Nat /\ le < H /\ H \in Nat \ {0}
          /\ AsBigint(f) = f.height * H + lf /\ lf \in Nat
      BY LowIs
    <2> HIDE DEF H, le, lf
    <2>2. e.height * H + le < f.height * H + lf
      BY <1>1, <1>2, <2>1, Digits
    <2> QED
      BY <2>1, <2>2
  <1>3. CASE ~(e.height < f.height)
    <2>1. e.height = f.height
      BY <1>3 DEF IsBefore
    <2>2. Low(e) < Low(f)
      <3>1. CASE PlaceOf(e.location) < PlaceOf(f.location)
        <4>1. \/ e.location = "BeginBlockEvents" /\ f.location \in {"TxsResults", "EndBlockEvents"}
              \/ e.location = "TxsResults" /\ f.location = "EndBlockEvents"
          BY <3>1 DEF PlaceOf, Fits
        <4>2. TypeDigit \in Nat
          BY EventIdsAssumption
        <4>3. Low(e) \in Nat /\ Low(f) \in Nat
          BY LowIs
        <4>4. CASE e.location = "BeginBlockEvents"
          <5>1. Low(e) < TypeDigit
            BY <4>4, LowIs
          <5>2. TypeDigit <= Low(f) \/ 9 * TypeDigit <= Low(f)
            BY <4>1, <4>4, LowIs
          <5> QED
            BY <4>2, <4>3, <5>1, <5>2
        <4>5. CASE e.location = "TxsResults"
          <5>1. Low(e) < 9 * TypeDigit
            BY <4>5, LowIs
          <5>2. 9 * TypeDigit <= Low(f)
            BY <4>1, <4>5, LowIs
          <5> QED
            BY <4>2, <4>3, <5>1, <5>2
        <4> QED
          BY <4>1, <4>4, <4>5
      <3>2. CASE ~(PlaceOf(e.location) < PlaceOf(f.location))
        <4>1. e.location = f.location
          BY <2>1, <1>1, <3>2 DEF IsBefore
        <4>2. CASE e.location = "TxsResults"
          <5>1. /\ Low(e) = TypeDigit + e.tx * TxIndexScale + e.index
                /\ Low(f) = TypeDigit + f.tx * TxIndexScale + f.index
            BY <4>1, <4>2, LowIs
          <5>2. /\ e.tx \in Nat /\ f.tx \in Nat /\ e.index \in Nat /\ f.index \in Nat
                /\ e.index < TxIndexScale /\ f.index < TxIndexScale
            BY <4>1, <4>2 DEF Fits
          <5>3. e.tx < f.tx \/ (e.tx = f.tx /\ e.index < f.index)
            BY <1>1, <2>1, <3>2, <4>2 DEF IsBefore
          <5>4. TxIndexScale \in Nat \ {0} /\ TypeDigit \in Nat
            BY EventIdsAssumption
          <5>5. e.tx * TxIndexScale + e.index < f.tx * TxIndexScale + f.index
            <6>1. CASE e.tx < f.tx
              BY <5>2, <5>4, <6>1, Digits
            <6>2. CASE e.tx = f.tx /\ e.index < f.index
              <7>1. e.tx * TxIndexScale \in Nat
                BY <5>2, <5>4
              <7> QED
                BY <5>2, <6>2, <7>1
            <6> QED
              BY <5>3, <6>1, <6>2
          <5>6. e.tx * TxIndexScale \in Nat /\ f.tx * TxIndexScale \in Nat
            BY <5>2, <5>4
          <5> QED
            BY <5>1, <5>2, <5>4, <5>5, <5>6
        <4>3. CASE e.location # "TxsResults"
          <5>1. e.index < f.index /\ e.index \in Nat /\ f.index \in Nat /\ TypeDigit \in Nat
            BY <1>1, <2>1, <3>2, <4>3, EventIdsAssumption DEF IsBefore, Fits
          <5>2. e.location \in {"BeginBlockEvents", "EndBlockEvents"}
            BY <4>3 DEF Fits
          <5>3. \/ Low(e) = e.index /\ Low(f) = f.index
                \/ Low(e) = 9 * TypeDigit + e.index /\ Low(f) = 9 * TypeDigit + f.index
            BY <4>1, <5>2, LowIs
          <5> QED
            BY <5>1, <5>3
        <4> QED
          BY <4>2, <4>3
      <3> QED
        BY <3>1, <3>2
    <2>3. e.height * BlockHeightScale \in Nat /\ Low(e) \in Nat /\ Low(f) \in Nat
      BY <1>1, LowIs
    <2> QED
      BY <2>1, <2>2, <2>3, LowIs
  <1> QED
    BY <1>2, <1>3

\* What was packed is read back (ParseEventId, HeightFromEventId): the height of every row,
\* and the transaction and the number an event has in its block.
THEOREM IdsAreReadBack ==
    ASSUME NEW height, NEW location, NEW tx, NEW index, Fits(EventId(height, location, tx, index))
    PROVE  LET e == EventId(height, location, tx, index)
           IN  /\ HeightFromEventId(AsBigint(e)) = height
               /\ location = "BeginBlockEvents" =>
                     ParseEventId(AsBigint(e)) = EventId(height, "BeginBlockEvents", 0, index)
               /\ location = "TxsResults" => ParseEventId(AsBigint(e)) = e
               /\ location = "EndBlockEvents" =>
                     ParseEventId(AsBigint(e)) = EventId(height, "EndBlockEvents", EndBlockPseudoTx, index)
  <1> DEFINE e == EventId(height, location, tx, index)
             low == Low(e)
             H == BlockHeightScale
  <1>1. e.height = height /\ e.location = location /\ e.tx = tx /\ e.index = index
    BY DEF EventId
  <1>2. height \in Nat /\ tx \in Nat /\ index \in Nat
    BY <1>1 DEF Fits
  <1>3. AsBigint(e) = height * H + low /\ low \in Nat /\ low < H /\ H \in Nat \ {0}
    BY <1>1, LowIs
  <1> HIDE DEF e, low, H
  <1>4. AsBigint(e) \div H = height /\ AsBigint(e) % H = low
    <2> DEFINE id == AsBigint(e)
    <2> HIDE DEF id
    <2>1. id = height * H + low /\ low \in Nat /\ low < H /\ H \in Nat \ {0}
      BY <1>3 DEF id
    <2>2. id \div H = height /\ id % H = low
      BY <1>2, <2>1, Digits
    <2> QED
      BY <2>2 DEF id
  <1>5. TxIndexScale \in Nat \ {0} /\ TypeDigit \in Nat \ {0} /\ TypeDigit % TxIndexScale = 0
    BY EventIdsAssumption
  <1>6. CASE location = "BeginBlockEvents"
    <2>1. low = index /\ low < TypeDigit
      BY <1>1, <1>6, LowIs DEF low, e
    <2> QED
      BY <1>4, <1>6, <2>1 DEF ParseEventId, HeightFromEventId, H, e
  <1>7. CASE location = "TxsResults"
    <2>1. low = TypeDigit + tx * TxIndexScale + index /\ TypeDigit <= low /\ low < 9 * TypeDigit
      BY <1>1, <1>7, LowIs DEF low, e
    <2>2. index < TxIndexScale
      BY <1>1, <1>7 DEF Fits, e
    <2>3. (low - TypeDigit) \div TxIndexScale = tx
      <3>1. low - TypeDigit = tx * TxIndexScale + index
        BY <1>2, <1>5, <2>1
      <3> QED
        BY <1>2, <1>5, <2>2, <3>1, Digits
    <2>4. low % TxIndexScale = index
      <3>1. PICK n \in Nat : TypeDigit = n * TxIndexScale
        <4>1. TypeDigit = TxIndexScale * (TypeDigit \div TxIndexScale) + (TypeDigit % TxIndexScale)
              /\ TypeDigit \div TxIndexScale \in Nat
          BY <1>5
        <4> QED
          BY <1>5, <4>1
      <3>2. low = (n + tx) * TxIndexScale + index /\ n + tx \in Nat
        BY <1>2, <1>5, <2>1, <3>1
      <3> QED
        BY <1>2, <1>5, <2>2, <3>2, Digits
    <2>5. ~(low < TypeDigit)
      BY <1>3, <1>5, <2>1
    <2> QED
      BY <1>4, <1>7, <2>1, <2>3, <2>4, <2>5 DEF ParseEventId, HeightFromEventId, H, e
  <1>8. CASE location = "EndBlockEvents"
    <2>1. low = 9 * TypeDigit + index /\ 9 * TypeDigit <= low
      BY <1>1, <1>8, LowIs DEF low, e
    <2>2. index < TypeDigit
      BY <1>1, <1>8 DEF Fits, e
    <2>3. low % TypeDigit = index
      BY <1>2, <1>5, <2>1, <2>2, Digits, ZenonT(60)
    <2>4. ~(low < TypeDigit) /\ ~(low < 9 * TypeDigit)
      BY <1>3, <1>5, <2>1
    <2> QED
      BY <1>4, <1>8, <2>3, <2>4 DEF ParseEventId, HeightFromEventId, H, e
  <1> QED
    BY <1>1, <1>6, <1>7, <1>8 DEF Fits, e

\* An id that is taken apart (ParseEventId) and packed again (AsBigint) is the same, whatever
\* the number: what the fuzz test of eventid_test.go asks of a few.
THEOREM ParsedIdsArePacked == ASSUME NEW eid \in Nat PROVE AsBigint(ParseEventId(eid)) = eid
  <1> DEFINE H == BlockHeightScale
             low == eid % H
             height == eid \div H
  <1>1. TxIndexScale \in Nat \ {0} /\ TypeDigit \in Nat \ {0} /\ TypeDigit % TxIndexScale = 0
    BY EventIdsAssumption
  <1>2. H \in Nat \ {0} /\ H = 10 * TypeDigit
    BY <1>1 DEF BlockHeightScale
  <1> HIDE DEF H
  <1>3. low \in Nat /\ low < H /\ height \in Nat /\ height * H \in Nat /\ eid = height * H + low
    BY <1>2
  <1> HIDE DEF low, height
  <1>4. CASE low < TypeDigit
    <2>1. ParseEventId(eid) = EventId(height, "BeginBlockEvents", 0, low)
      BY <1>4 DEF ParseEventId, H, low, height
    <2>2. AsBigint(ParseEventId(eid)) = height * H + low
      BY <2>1 DEF AsBigint, EventId, H
    <2> QED
      BY <1>3, <2>2
  <1>5. CASE ~(low < TypeDigit) /\ low < 9 * TypeDigit
    <2> DEFINE t == (low - TypeDigit) \div TxIndexScale
               i == low % TxIndexScale
    <2>1. ParseEventId(eid) = EventId(height, "TxsResults", t, i)
      BY <1>5 DEF ParseEventId, H, low, height
    <2>2. AsBigint(ParseEventId(eid)) = height * H + (TypeDigit + t * TxIndexScale + i)
      BY <2>1 DEF AsBigint, EventId, H
    <2>3. low = TypeDigit + t * TxIndexScale + i
      <3> DEFINE d == low - TypeDigit
                 j == d % TxIndexScale
      <3>1. d \in Nat /\ low = d + TypeDigit
        BY <1>1, <1>3, <1>5
      <3> HIDE DEF d
      <3>2. d \div TxIndexScale \in Nat /\ j \in Nat /\ j < TxIndexScale
            /\ d = (d \div TxIndexScale) * TxIndexScale + j
        BY <1>1, <3>1
      <3>3. PICK n \in Nat : TypeDigit = n * TxIndexScale
        <4>1. TypeDigit = TxIndexScale * (TypeDigit \div TxIndexScale) + (TypeDigit % TxIndexScale)
              /\ TypeDigit \div TxIndexScale \in Nat
          BY <1>1
        <4> QED
          BY <1>1, <4>1
      <3> DEFINE q == d \div TxIndexScale
      <3> HIDE DEF q, j
      <3>4. q \in Nat /\ d = q * TxIndexScale + j
        BY <3>2 DEF q
      <3>5. low = (q + n) * TxIndexScale + j /\ q + n \in Nat
        BY <1>1, <3>1, <3>2, <3>3, <3>4
      <3>6. low % TxIndexScale = j
        BY <1>1, <3>2, <3>5, Digits
      <3>7. t = q
        BY DEF d, q
      <3> QED
        BY <1>1, <1>3, <3>1, <3>2, <3>4, <3>6, <3>7
    <2> HIDE DEF t, i
    <2> QED
      BY <1>3, <2>2, <2>3
  <1>6. CASE ~(low < 9 * TypeDigit)
    <2>1. ~(low < TypeDigit)
      BY <1>1, <1>3, <1>6
    <2> DEFINE m == low % TypeDigit
    <2>2. ParseEventId(eid) = EventId(height, "EndBlockEvents", EndBlockPseudoTx, m)
      BY <1>6, <2>1 DEF ParseEventId, H, low, height
    <2> HIDE DEF m
    <2>3. AsBigint(ParseEventId(eid)) = height * H + (9 * TypeDigit + m)
      BY <2>2 DEF AsBigint, EventId, H
    <2>4. low = 9 * TypeDigit + m
      <3> DEFINE r == low - 9 * TypeDigit
      <3>1. r \in Nat /\ r < TypeDigit /\ low = 9 * TypeDigit + r
        BY <1>1, <1>2, <1>3, <1>6
      <3> HIDE DEF r
      <3>2. m = r
        BY <1>1, <3>1, Digits DEF m
      <3> QED
        BY <3>1, <3>2
    <2> QED
      BY <1>3, <2>3, <2>4
  <1> QED
    BY <1>4, <1>5, <1>6

-----------------------------------------------------------------------------
(* The rows of blocks.                                                     *)

\* A block as it is recorded, and the id after its last event's.
Corrected(c, h) == applyBlockCorrections(c.id, c.blocks[h])
LeftIn(c, h) == EndId(Corrected(c, h), NumberAt(Corrected(c, h), "EndBlockEvents", Len(Corrected(c, h).finalize) + 1))

\* A row of one of the blocks from lo to hi of chain c, by its id; and rows of these blocks, from a place on.
OfBlocks(c, row, lo, hi) ==
    LET h == HeightFromEventId(row.id)
    IN  /\ row.id \in Nat /\ h \in lo..hi /\ row.time = CorrectedTime(c, h)
        /\ row.table = MimirTable => SetsAt(Corrected(c, h), row.data[1], row.id)
RowsInOrder(c, a, b) == Precedes(a, b, LeftIn(c, HeightFromEventId(b.id)))
FromBlocks(c, rs, first, lo, hi) ==
    /\ IsSeq(rs)
    /\ \A i \in first..Len(rs) :
          OfBlocks(c, rs[i], lo, hi) /\ \A j \in first..(i - 1) : RowsInOrder(c, rs[j], rs[i])

\* The ids of earlier blocks are smaller.
LEMMA HeightsSort ==
    ASSUME NEW i \in Nat, NEW j \in Nat
    PROVE  /\ HeightFromEventId(i) < HeightFromEventId(j) => i < j
           /\ i <= j => HeightFromEventId(i) <= HeightFromEventId(j)
           /\ HeightFromEventId(i) \in Nat
  <1> DEFINE P == BlockHeightScale
  <1>1. P \in Nat \ {0}
    BY EventIdsAssumption DEF BlockHeightScale
  <1>2. HeightFromEventId(i) = i \div P /\ HeightFromEventId(j) = j \div P
    BY DEF HeightFromEventId
  <1> HIDE DEF P
  <1>3. PICK q \in Nat, r \in Nat : q = i \div P /\ r = i % P /\ r < P /\ i = q * P + r
    BY <1>1
  <1>4. PICK k \in Nat, s \in Nat : k = j \div P /\ s = j % P /\ s < P /\ j = k * P + s
    BY <1>1
  <1>5. q < k => i < j
    <2>1. q < k => q * P + r < k * P + s
      BY <1>1, <1>3, <1>4, Digits, Zenon
    <2> QED
      BY ONLY <1>3, <1>4, <2>1, Zenon
  <1>6. k < q => j < i
    <2>1. k < q => k * P + s < q * P + r
      BY <1>1, <1>3, <1>4, Digits, Zenon
    <2> QED
      BY ONLY <1>3, <1>4, <2>1, Zenon
  <1> QED
    BY <1>2, <1>3, <1>4, <1>5, <1>6

\* Rows of later blocks go behind those of earlier ones.
LEMMA JoinBlocks ==
    ASSUME NEW c, NEW a, NEW b, NEW first \in Nat \ {0}, NEW lo \in Nat, NEW mid \in Nat, NEW hi \in Nat, mid <= hi,
           lo <= mid + 1,
           FromBlocks(c, a, first, lo, mid), first <= Len(a) + 1, FromBlocks(c, b, 1, mid + 1, hi)
    PROVE  FromBlocks(c, a \o b, first, lo, hi)
  <1> DEFINE u == a \o b
  <1>1. IsSeq(a) /\ IsSeq(b)
    BY DEF FromBlocks
  <1>2. PICK n \in Nat, k \in Nat : n = Len(a) /\ k = Len(b)
    BY <1>1, ConcatIs
  <1>3. IsSeq(u)
    BY <1>1, ConcatIs
  <1>4. Len(u) = n + k
    BY <1>1, <1>2, ConcatIs
  <1>5. \A i \in 1..n : u[i] = a[i]
    BY <1>1, <1>2, ConcatIs
  <1>6. \A i \in 1..k : u[n + i] = b[i]
    BY <1>1, <1>2, ConcatIs
  <1> HIDE DEF u
  <1>7. \A i \in first..n : OfBlocks(c, a[i], lo, mid) /\ \A j \in first..(i - 1) : RowsInOrder(c, a[j], a[i])
    BY <1>2 DEF FromBlocks
  <1>8. \A i \in 1..k : OfBlocks(c, b[i], mid + 1, hi) /\ \A j \in 1..(i - 1) : RowsInOrder(c, b[j], b[i])
    BY <1>2 DEF FromBlocks
  <1>9. ASSUME NEW i \in first..n PROVE OfBlocks(c, u[i], lo, hi) /\ \A j \in first..(i - 1) : RowsInOrder(c, u[j], u[i])
    <2>1. i \in 1..n /\ \A j \in first..(i - 1) : j \in 1..n
      OBVIOUS
    <2>2. OfBlocks(c, a[i], lo, hi)
      <3>1. \A h \in lo..mid : h \in lo..hi
        OBVIOUS
      <3> QED
        BY <1>7, <3>1 DEF OfBlocks
    <2> QED
      BY <1>5, <1>7, <2>1, <2>2
  <1>10. ASSUME NEW i \in 1..k
         PROVE  OfBlocks(c, u[n + i], lo, hi) /\ \A j \in first..(n + i - 1) : RowsInOrder(c, u[j], u[n + i])
    <2>1. OfBlocks(c, b[i], lo, hi)
      <3>1. \A h \in (mid + 1)..hi : h \in lo..hi
        OBVIOUS
      <3> QED
        BY <1>8, <3>1 DEF OfBlocks
    <2>2. ASSUME NEW j \in first..(n + i - 1) PROVE RowsInOrder(c, u[j], b[i])
      <3>1. CASE j <= n
        <4>1. j \in first..n /\ u[j] = a[j]
          BY <1>5, <3>1
        <4>2. OfBlocks(c, a[j], lo, mid) /\ OfBlocks(c, b[i], mid + 1, hi)
          BY <1>7, <1>8, <4>1
        <4>3. a[j].id \in Nat /\ b[i].id \in Nat /\ HeightFromEventId(a[j].id) < HeightFromEventId(b[i].id)
          BY <4>2 DEF OfBlocks
        <4>4. a[j].id < b[i].id
          BY <4>3, HeightsSort
        <4> QED
          BY <4>1, <4>3, <4>4 DEF RowsInOrder, Precedes
      <3>2. CASE j > n
        <4>1. j - n \in 1..(i - 1) /\ j - n \in 1..k /\ j = n + (j - n)
          BY <3>2
        <4>2. u[j] = b[j - n]
          BY <1>6, <4>1
        <4> QED
          BY <1>8, <4>1, <4>2
      <3> QED
        BY <3>1, <3>2
    <2> QED
      BY <1>6, <2>1, <2>2
  <1>11. \A i \in first..(n + k) : i \in first..n \/ (i - n \in 1..k /\ i = n + (i - n))
    BY <1>2
  <1>12. ASSUME NEW i \in first..(n + k)
         PROVE  OfBlocks(c, u[i], lo, hi) /\ \A j \in first..(i - 1) : RowsInOrder(c, u[j], u[i])
    <2>1. CASE i \in first..n
      BY <1>9, <2>1
    <2>2. CASE i - n \in 1..k /\ i = n + (i - n)
      <3>1. PICK l \in 1..k : i = n + l
        BY <2>2
      <3>2. OfBlocks(c, u[n + l], lo, hi) /\ \A j \in first..(n + l - 1) : RowsInOrder(c, u[j], u[n + l])
        BY <1>10
      <3> QED
        BY ONLY <3>1, <3>2
    <2> QED
      BY <1>11, <2>1, <2>2
  <1> QED
    BY <1>3, <1>4, <1>12 DEF FromBlocks, u

\* A block of a chain, as it is recorded: a correction changes its time only.
LEMMA CorrectedIs ==
    ASSUME NEW i \in DOMAIN Chains, chain = Chains[i], NEW h \in 1..Len(Blocks)
    PROVE  LET b == Corrected(chain, h)
           IN  /\ b.height = h /\ h \in Nat /\ b.finalize = Blocks[h].finalize /\ b.txs = Blocks[h].txs
               /\ b.time = CorrectedTime(chain, h) /\ IsBlock(b)
               /\ Len(b.finalize) + 1 < TypeDigit
               /\ (Len(b.txs) + 1) * TxIndexScale <= 8 * TypeDigit
               /\ \A k \in DOMAIN b.txs : Len(b.txs[k].events) < TxIndexScale
               /\ EventLists(b) = EventLists(Blocks[h])
               /\ LeftIn(chain, h) = LeftOver(h)
  <1> DEFINE b == Corrected(chain, h)
             a == Blocks[h]
  <1>0. a = chain.blocks[h] /\ h \in DOMAIN chain.blocks /\ h \in Nat
    BY RecorderAssumption DEF Blocks
  <1>1. IsBlock(a) /\ a.height = h
    BY <1>0, RecorderAssumption, EventsAssumption DEF Blocks
  <1>2. /\ Len(a.finalize) + 1 < TypeDigit
        /\ (Len(a.txs) + 1) * TxIndexScale <= 8 * TypeDigit
        /\ \A k \in DOMAIN a.txs : Len(a.txs[k].events) < TxIndexScale
    BY <1>0, RoomAssumption
  <1>3. b.time = CorrectedTime(chain, h)
    BY DEF Corrected, CorrectedTime
  <1>4. b = a \/ b = [a EXCEPT !.time = a.height]
    BY <1>0 DEF Corrected, applyBlockCorrections
  <1>5. /\ {"height", "time", "finalize", "txs"} \subseteq DOMAIN b
        /\ b.height = a.height /\ b.finalize = a.finalize /\ b.txs = a.txs
    <2>1. {"height", "time", "finalize", "txs"} \subseteq DOMAIN a
      BY <1>1 DEF IsBlock
    <2> HIDE DEF a, b
    <2> QED
      BY <1>4, <2>1
  <1>6. EventLists(b) = EventLists(a)
    <2> HIDE DEF a, b
    <2> QED
      BY <1>5 DEF EventLists
  <1>7. IsBlock(b)
    <2> HIDE DEF a, b
    <2> QED
      BY <1>1, <1>5 DEF IsBlock
  <1>8. LeftIn(chain, h) = LeftOver(h)
    <2> DEFINE f == a.finalize
               n == Len(f)
    <2>1. n \in Nat /\ DOMAIN f = 1..n
      BY <1>1 DEF IsBlock, HasEvents, IsList
    <2> HIDE DEF n
    <2>2. {j \in DOMAIN f : j < n + 1 /\ f[j].mode = "EndBlock"} = {j \in DOMAIN f : f[j].mode = "EndBlock"}
      BY <2>1
    <2>3. LeftOver(h) = AsBigint(EventId(h, "EndBlockEvents", 0, 1 + Cardinality({j \in DOMAIN f : f[j].mode = "EndBlock"})))
      BY DEF LeftOver
    <2>4. LeftIn(chain, h) = AsBigint(EventId(b.height, "EndBlockEvents", 0, NumberAt(b, "EndBlockEvents", Len(b.finalize) + 1)))
      BY DEF LeftIn, EndId, OutsideId
    <2>5. NumberAt(b, "EndBlockEvents", Len(b.finalize) + 1)
             = 1 + Cardinality({j \in DOMAIN f : j < n + 1 /\ f[j].mode = "EndBlock"})
      <3>1. Len(b.finalize) = n /\ b.finalize = f
        BY <1>5 DEF n
      <3> HIDE DEF b, f, a
      <3> QED
        BY <3>1 DEF NumberAt, TakenBefore
    <2> QED
      BY <1>1, <1>5, <2>2, <2>3, <2>4, <2>5
  <1> QED
    BY <1>0, <1>1, <1>2, <1>3, <1>5, <1>6, <1>7, <1>8

\* What is known of block h before its rows.
KnownBefore(h, told, r) ==
    [b |-> Corrected(chain, h), h |-> h, time |-> CorrectedTime(chain, h), left |-> LeftOver(h), told |-> told,
     status |-> r.status, mimir |-> r.mimir]

\* The rows of a block are rows of it, in order; if none of chain info is refused they tell how that changed.
LEMMA RowsOfBlock ==
    ASSUME NEW i \in DOMAIN Chains, chain = Chains[i], NEW h \in 1..Len(Blocks), NEW r, HasRows(r), r.rows = <<>>,
           NEW told \in BOOLEAN,
           told => /\ r.status = [key \in DOMAIN r.status |-> r.status[key]]
                   /\ r.mimir = [key \in DOMAIN r.mimir |-> r.mimir[key]]
                   /\ \A k \in DOMAIN EventLists(Blocks[h]) : \A l \in DOMAIN EventLists(Blocks[h])[k] :
                         EventLists(Blocks[h])[k][l].type \in {"pool", "set_mimir"}
                            => EventLists(Blocks[h])[k][l].refused = {},
           NEW s, s = RecordBlock(r, chain.id, Blocks[h])
    PROVE  /\ HasRows(s) /\ FromBlocks(chain, s.rows, 1, h, h)
           /\ told => /\ Tells(PoolTable, r.status, s.rows, 0, Len(s.rows), s.status)
                      /\ Tells(MimirTable, r.mimir, s.rows, 0, Len(s.rows), s.mimir)
  <1> DEFINE c == KnownBefore(h, told, r)
             b == Corrected(chain, h)
  <1>1. /\ c.b = b /\ c.h = h /\ c.time = CorrectedTime(chain, h) /\ c.left = LeftOver(h) /\ c.told = told
        /\ c.status = r.status /\ c.mimir = r.mimir
    BY DEF KnownBefore
  <1>2. /\ b.height = h /\ h \in Nat /\ b.time = CorrectedTime(chain, h) /\ IsBlock(b)
        /\ Len(b.finalize) + 1 < TypeDigit
        /\ (Len(b.txs) + 1) * TxIndexScale <= 8 * TypeDigit
        /\ \A k \in DOMAIN b.txs : Len(b.txs[k].events) < TxIndexScale
        /\ EventLists(b) = EventLists(Blocks[h])
        /\ LeftIn(chain, h) = LeftOver(h)
    BY CorrectedIs
  <1>3. b = applyBlockCorrections(chain.id, Blocks[h]) /\ LeftIn(chain, h) = EndId(b, NumberAt(b, "EndBlockEvents", Len(b.finalize) + 1))
    BY DEF Corrected, Blocks, LeftIn
  <1> HIDE DEF c, b
  <1>4. IsContext(c)
    BY <1>1, <1>2, <1>3 DEF IsContext
  <1>5. Written(c, s, c.left)
    BY <1>1, <1>3, <1>4, RecordBlockWritten
  <1>6. FromBlocks(chain, s.rows, 1, h, h)
    <2>1. InBlock(c, s.rows, c.left) /\ MimirsOf(c, s.rows)
      BY <1>5 DEF Written
    <2>2. IsSeq(s.rows)
      BY <2>1 DEF InBlock
    <2>3. ASSUME NEW j \in 1..Len(s.rows)
          PROVE  OfBlocks(chain, s.rows[j], h, h) /\ \A l \in 1..(j - 1) : RowsInOrder(chain, s.rows[l], s.rows[j])
      <3>1. /\ s.rows[j].id \in Nat /\ HeightFromEventId(s.rows[j].id) = h /\ s.rows[j].time = CorrectedTime(chain, h)
            /\ \A l \in 1..(j - 1) : Precedes(s.rows[l], s.rows[j], LeftIn(chain, h))
        BY <1>1, <1>2, <2>1 DEF InBlock
      <3>2. s.rows[j].table = MimirTable => SetsAt(Corrected(chain, h), s.rows[j].data[1], s.rows[j].id)
        BY <1>1, <2>1 DEF MimirsOf, b
      <3>3. h \in h..h
        BY <1>2
      <3> QED
        BY <3>1, <3>2, <3>3 DEF OfBlocks, RowsInOrder
    <2> QED
      BY <2>2, <2>3 DEF FromBlocks
  <1> QED
    BY <1>1, <1>5, <1>6 DEF Written, Told

-----------------------------------------------------------------------------
(* The rows there are.                                                     *)

\* The rows of the genesis file come first, if there are any, then those of the blocks in block_log;
\* those of the blocks that wait are in the inserter, and the recorder has none of its own.
IdsInv ==
    /\ pc # "down" => HasRows(recorder) /\ recorder.rows = <<>>
    /\ HasGenesis /\ ~genesisConstant /\ pc = "genesis" => recorder = NewRecorder
    /\ Len(GenesisRows) <= Len(rows) /\ \A i \in 1..Len(GenesisRows) : rows[i] = GenesisRows[i]
    /\ FromBlocks(chain, rows, Len(GenesisRows) + 1, 1, Stored)
    /\ FromBlocks(chain, pending.rows, 1, Stored + 1, Stored + Waiting)

\* The rows of the genesis file, once it is recorded.
LEMMA GenesisRowsAre ==
    ASSUME RecorderInv, TotalsInv
    PROVE  /\ IsSeq(GenesisRows) /\ Len(GenesisRows) \in Nat
           /\ ~genesisConstant => GenesisRows = <<>> /\ Len(GenesisRows) = 0
           /\ HasGenesis => \E s : FromFile(Genesis, s, Len(Genesis.mimirs)) /\ s.r = RecordGenesis(NewRecorder, Genesis)
           /\ HasGenesis => Genesis.height = 1 /\ Genesis.time \in Int /\ Genesis.time <= CorrectedTime(chain, 1)
  <1>1. PICK i \in DOMAIN Chains : chain = Chains[i]
    BY DEF RecorderInv
  <1>2. ASSUME HasGenesis
        PROVE  /\ Genesis.height = 1 /\ IsGenesis(Genesis) /\ Len(Genesis.pools) + 1 < TypeDigit
               /\ Genesis.time \in Int /\ Genesis.time <= CorrectedTime(chain, 1)
    BY <1>1, <1>2, RecorderAssumption, EventsAssumption, RoomAssumption DEF HasGenesis, Genesis
  <1>3. HasGenesis => \E s : FromFile(Genesis, s, Len(Genesis.mimirs)) /\ s.r = RecordGenesis(NewRecorder, Genesis)
    BY <1>2, RecordGenesisWritten
  <1>4. CASE genesisConstant
    <2>1. HasGenesis
      BY <1>4 DEF TotalsInv
    <2>2. GenesisRows = RecordGenesis(NewRecorder, Genesis).rows
      BY <1>4 DEF GenesisRows
    <2>3. IsSeq(GenesisRows)
      BY <1>3, <2>1, <2>2 DEF FromFile, HasRows
    <2> QED
      BY <1>2, <1>3, <1>4, <2>3, AppendIs
  <1>5. CASE ~genesisConstant
    <2>1. GenesisRows = <<>>
      BY <1>5 DEF GenesisRows
    <2> QED
      BY <1>2, <1>3, <2>1, EmptyIs
  <1> QED
    BY <1>4, <1>5

\* Nothing is a row of any block.
LEMMA NoRows == ASSUME NEW c, NEW lo, NEW hi PROVE FromBlocks(c, <<>>, 1, lo, hi)
  BY EmptyIs DEF FromBlocks

\* If there is nothing of a genesis file and no block, there is no row.
LEMMA RowsEmpty ==
    ASSUME RecorderInv, TotalsInv, IdsInv, ~genesisConstant, blockLog = <<>>
    PROVE  rows = <<>> /\ Len(rows) = 0
  <1>1. Len(GenesisRows) = 0
    BY GenesisRowsAre
  <1>2. Stored = 0
    BY EmptyIs DEF Stored
  <1>3. IsSeq(rows) /\ \A i \in 1..Len(rows) : OfBlocks(chain, rows[i], 1, 0)
    BY <1>1, <1>2 DEF IdsInv, FromBlocks
  <1>4. \A i : ~OfBlocks(chain, rows[i], 1, 0)
    BY DEF OfBlocks
  <1>5. Len(rows) \in Nat /\ DOMAIN rows = 1..Len(rows)
    BY <1>3, AppendIs
  <1>6. Len(rows) = 0
    BY <1>3, <1>4, <1>5
  <1> QED
    BY <1>3, <1>6 DEF IsSeq

\* There are no rows at first.
LEMMA InitIds == ASSUME Init PROVE IdsInv
  <1>1. rows = <<>> /\ pending.rows = <<>> /\ genesisConstant = FALSE /\ pc = "down"
    BY DEF Init, NoPending
  <1>2. GenesisRows = <<>> /\ Len(GenesisRows) = 0
    BY <1>1, EmptyIs DEF GenesisRows
  <1> QED
    BY <1>1, <1>2, NoRows, EmptyIs DEF IdsInv

\* What waited is lost with its blocks.
LEMMA DownIds ==
    ASSUME RecorderInv, TotalsInv, IdsInv, Down, UNCHANGED <<chain, blockLog, rows, genesisConstant>>
    PROVE  IdsInv'
  <1>1. pc' = "down" /\ pending'.rows = <<>> /\ pending'.blockLog = <<>>
    BY DEF Down, NoPending
  <1>2. GenesisRows' = GenesisRows /\ Stored' = Stored
    BY DEF GenesisRows, Stored, Genesis
  <1>3. FromBlocks(chain', pending'.rows, 1, Stored' + 1, Stored' + Waiting')
    BY <1>1, NoRows
  <1>4. HasGenesis' = HasGenesis
    BY DEF HasGenesis
  <1> QED
    BY <1>1, <1>2, <1>3, <1>4 DEF IdsInv

\* A Midgard that has never run starts from a new recorder.
LEMMA SetupIds == ASSUME RecorderInv, TotalsInv, IdsInv, Setup PROVE IdsInv'
  <1>1. /\ UNCHANGED <<chain, blockLog, rows, genesisConstant, inserterFail, pending>>
        /\ pc' = "genesis" /\ pc = "down"
    BY DEF Setup, dbVars
  <1>2. PICK mimirRows : /\ mimirRows \in [MimirKeys -> UNION {LastMimirs(k) : k \in MimirKeys}]
                         /\ recorder' = [Restored(mimirRows) EXCEPT !.immediate = inserterFail]
    BY DEF Setup
  <1>3. HasRows(recorder') /\ recorder'.rows = <<>>
    <2>1. IsRecorder(recorder') /\ recorder'.rows = <<>>
      BY <1>2 DEF Restored, NewRecorder, IsRecorder
    <2> QED
      BY <2>1, EmptyIs DEF HasRows
  <1>4. ASSUME HasGenesis, ~genesisConstant PROVE recorder' = NewRecorder
    <2>1. blockLog = <<>> /\ inserterFail = FALSE
      BY <1>4 DEF TotalsInv
    <2>2. rows = <<>> /\ Len(rows) = 0
      BY <1>4, <2>1, RowsEmpty
    <2>3. DOMAIN rows = {}
      BY <2>2, EmptyIs, AppendIs
    <2>4. \A table : TableRows(table) = {}
      BY <2>3 DEF TableRows
    <2>5. MimirKeys = {}
      BY <2>4 DEF MimirKeys
    <2>6. \A f : DOMAIN f = {} /\ f = [x \in DOMAIN f |-> f[x]] => f = <<>>
      OBVIOUS
    <2>7. [k \in MimirKeys |-> rows[mimirRows[k]].data[2].int] = <<>>
      BY <2>5
    <2>8. StoredStatuses = <<>>
      BY <2>1, <2>4 DEF StoredStatuses
    <2>9. Restored(mimirRows) = [NewRecorder EXCEPT !.status = <<>>, !.mimir = <<>>]
      BY <2>1, <2>7, <2>8 DEF Restored
    <2>10. recorder' = [[NewRecorder EXCEPT !.status = <<>>, !.mimir = <<>>] EXCEPT !.immediate = FALSE]
      BY <1>2, <2>1, <2>9
    <2> QED
      BY <2>10 DEF NewRecorder
  <1>5. GenesisRows' = GenesisRows /\ Stored' = Stored /\ Waiting' = Waiting /\ HasGenesis' = HasGenesis
    BY <1>1 DEF GenesisRows, Stored, Waiting, Genesis, HasGenesis
  <1> QED
    BY <1>1, <1>3, <1>4, <1>5 DEF IdsInv

\* The rows of the genesis file are the first there are.
LEMMA LoadGenesisIds == ASSUME RecorderInv, TotalsInv, IdsInv, LoadGenesis PROVE IdsInv'
  <1>1. /\ UNCHANGED <<chain, blockLog, pending>> /\ pc = "genesis" /\ pc' = "running"
    BY DEF LoadGenesis
  <1>2. Stored' = Stored /\ Waiting' = Waiting /\ HasGenesis' = HasGenesis
    BY <1>1 DEF Stored, Waiting, HasGenesis
  <1>3. CASE HasGenesis /\ ~genesisConstant
    <2>1. blockLog = <<>> /\ recorder = NewRecorder
      BY <1>1, <1>3 DEF TotalsInv, IdsInv
    <2>2. Len(blockLog) <= Genesis.height
      BY <1>3, <2>1, EmptyIs, GenesisRowsAre
    <2>3. rows = <<>> /\ Len(rows) = 0 /\ Stored = 0
      BY <1>3, <2>1, RowsEmpty, EmptyIs DEF Stored
    <2> DEFINE r == RecordGenesis(NewRecorder, Genesis)
    <2>4. genesisConstant' = TRUE /\ recorder' = [r EXCEPT !.rows = <<>>] /\ rows' = rows \o r.rows
      BY <1>3, <2>1, <2>2 DEF LoadGenesis
    <2>5. HasRows(r)
      BY <1>3, GenesisRowsAre DEF FromFile
    <2>6. GenesisRows' = r.rows
      BY <1>1, <2>4 DEF GenesisRows, Genesis
    <2> HIDE DEF r
    <2>7. HasRows(recorder') /\ recorder'.rows = <<>>
      BY <2>4, <2>5, EmptyIs DEF HasRows, IsRecorder
    <2>8. IsSeq(rows) /\ IsSeq(r.rows)
      BY <2>3, <2>5, EmptyIs DEF HasRows
    <2>9. PICK n \in Nat : n = Len(r.rows)
      BY <2>8, AppendIs
    <2>10. IsSeq(rows') /\ Len(rows') = n
      <3>1. IsSeq(rows')
        BY <2>4, <2>8, ConcatIs
      <3>2. Len(rows') = 0 + n
        BY <2>3, <2>4, <2>8, <2>9, ConcatIs
      <3> QED
        BY <3>1, <3>2
    <2>11. \A i \in 1..n : rows'[i] = r.rows[i]
      <3>1. \A i \in 1..n : rows'[0 + i] = r.rows[i]
        BY <2>3, <2>4, <2>8, <2>9, ConcatIs
      <3> QED
        BY <3>1
    <2>12. FromBlocks(chain', rows', Len(GenesisRows)' + 1, 1, Stored')
      <3>1. Len(GenesisRows)' = n
        BY <2>6, <2>9
      <3>2. (n + 1)..n = {}
        OBVIOUS
      <3> QED
        BY <2>10, <3>1, <3>2 DEF FromBlocks
    <2>13. Len(GenesisRows)' <= Len(rows)' /\ \A i \in 1..Len(GenesisRows') : rows'[i] = GenesisRows'[i]
      BY <2>6, <2>9, <2>10, <2>11
    <2> QED
      BY <1>1, <1>2, <2>4, <2>7, <2>12, <2>13 DEF IdsInv
  <1>4. CASE ~(HasGenesis /\ ~genesisConstant)
    <2>1. UNCHANGED <<recorder, rows, genesisConstant>>
      BY <1>4 DEF LoadGenesis
    <2>2. GenesisRows' = GenesisRows
      BY <1>1, <2>1 DEF GenesisRows, Genesis
    <2> QED
      BY <1>1, <1>2, <1>4, <2>1, <2>2 DEF IdsInv
  <1> QED
    BY <1>3, <1>4

\* The rows of a block go behind those that wait, and these behind those in the database.
LEMMA ProcessBlockIds ==
    ASSUME RecorderInv, TotalsInv, IdsInv, NEW commit \in BOOLEAN, ProcessBlock(commit)
    PROVE  IdsInv'
  <1> DEFINE r == RecordBlock(recorder, chain.id, Blocks[next])
             waiting == pending.rows \o r.rows
  <1>1. /\ pc = "running" /\ next <= Len(Blocks)
        /\ recorder' = [r EXCEPT !.rows = <<>>]
        /\ UNCHANGED <<chain, genesisConstant, inserterFail, pc, genesisKept>>
        /\ IF Commits(commit) THEN rows' = rows \o waiting /\ pending' = NoPending
           ELSE pending'.rows = waiting /\ UNCHANGED <<rows, blockLog>>
    <2>1. CASE Commits(commit)
      BY <2>1 DEF ProcessBlock, Flushed
    <2>2. CASE ~Commits(commit)
      <3> DEFINE p == [rows |-> waiting,
                       blockLog |-> Append(pending.blockLog, [height |-> next, time |-> CorrectedTime(chain, next), state |-> NoState]),
                       history |-> pending.history \cup HistoryRows(snapshot, r, CorrectedTime(chain, next)),
                       prices |-> Append(pending.prices, PriceRow(r, chain.id, next, CorrectedTime(chain, next)))]
      <3>2. pending' = p /\ UNCHANGED <<rows, blockLog>>
        BY <2>2 DEF ProcessBlock
      <3>3. p.rows = waiting
        OBVIOUS
      <3> HIDE DEF p
      <3>1. pending'.rows = waiting
        BY <3>2, <3>3
      <3> QED
        BY <2>2, <3>1, <3>2 DEF ProcessBlock
    <2> QED
      BY <2>1, <2>2
  <1>2. PICK i \in DOMAIN Chains : chain = Chains[i]
    BY DEF RecorderInv
  <1>3. PICK s \in Nat, w \in Nat : s = Stored /\ w = Waiting /\ next = s + w + 1
    BY <1>1, Lengths DEF RecorderInv, BlocksInv
  <1>4. next \in 1..Len(Blocks) /\ Len(Blocks) \in Nat
    BY <1>1, <1>2, <1>3, ChainFacts
  <1>5. HasRows(r) /\ FromBlocks(chain, r.rows, 1, next, next)
    <2>1. HasRows(recorder) /\ recorder.rows = <<>>
      BY <1>1 DEF IdsInv
    <2>2. PICK told \in BOOLEAN : ~told
      OBVIOUS
    <2> QED
      BY <1>2, <1>4, <2>1, <2>2, RowsOfBlock
  <1> HIDE DEF r
  <1>6. HasRows(recorder') /\ recorder'.rows = <<>>
    BY <1>1, <1>5, EmptyIs DEF HasRows, IsRecorder
  <1>7. FromBlocks(chain, waiting, 1, s + 1, s + w + 1)
    <2>1. FromBlocks(chain, pending.rows, 1, s + 1, s + w)
      BY <1>3 DEF IdsInv
    <2>2. FromBlocks(chain, r.rows, 1, (s + w) + 1, s + w + 1)
      BY <1>3, <1>5
    <2>3. Len(pending.rows) \in Nat
      BY <2>1, AppendIs DEF FromBlocks
    <2>4. 1 \in Nat \ {0} /\ s + 1 \in Nat /\ s + w \in Nat /\ s + w + 1 \in Nat /\ s + w <= s + w + 1
          /\ s + 1 <= (s + w) + 1 /\ 1 <= Len(pending.rows) + 1
      BY <2>3
    <2> QED
      BY <2>1, <2>2, <2>4, JoinBlocks
  <1> HIDE DEF waiting
  <1>8. GenesisRows' = GenesisRows /\ HasGenesis' = HasGenesis
    BY <1>1 DEF GenesisRows, Genesis, HasGenesis
  <1>9. PICK n \in Nat : n = Len(GenesisRows)
    BY GenesisRowsAre
  <1>10. Stored' + Waiting' = s + w + 1 /\ Stored' \in Nat /\ Waiting' \in Nat
    <2>1. RecorderInv'
      BY ProcessBlockInv
    <2>2. Stored' \in Nat /\ Waiting' \in Nat
      BY <2>1, AppendIs DEF RecorderInv, BlocksInv, Stored, Waiting
    <2>3. pc' # "down" => next' = Stored' + Waiting' + 1
      BY <2>1 DEF RecorderInv, BlocksInv
    <2>4. next' = next + 1 /\ pc' = "running"
      BY <1>1 DEF ProcessBlock
    <2>5. PICK x \in Nat, y \in Nat : x = Stored' /\ y = Waiting'
      BY <2>2
    <2>6. next' = x + y + 1 /\ next' = s + w + 1 + 1
      BY <1>3, <2>3, <2>4, <2>5
    <2>7. x + y = s + w + 1
      BY ONLY <2>6
    <2> QED
      BY <2>5, <2>7
  <1>11. CASE ~Commits(commit)
    <2>1. Stored' = s /\ Waiting' = w + 1
      BY <1>1, <1>3, <1>10, <1>11 DEF Stored
    <2>2. FromBlocks(chain', pending'.rows, 1, Stored' + 1, Stored' + Waiting')
      <3>1. Stored' + 1 = s + 1 /\ Stored' + Waiting' = s + w + 1
        BY <2>1
      <3> QED
        BY <1>1, <1>7, <1>11, <3>1
    <2> QED
      BY <1>1, <1>6, <1>8, <1>11, <2>1, <1>3, <2>2 DEF IdsInv
  <1>12. CASE Commits(commit)
    <2>1. pending'.rows = <<>> /\ pending'.blockLog = <<>>
      BY <1>1, <1>12 DEF NoPending
    <2>2. Waiting' = 0 /\ Stored' = s + w + 1
      <3>1. Waiting' = 0
        BY <2>1, EmptyIs DEF Waiting
      <3>2. PICK x \in Nat, y \in Nat : x = Stored' /\ y = Waiting' /\ x + y = s + w + 1
        BY <1>10
      <3>4. y = 0
        BY <3>1, <3>2
      <3>5. x + 0 = x
        OBVIOUS
      <3>3. x = s + w + 1
        BY <3>2, <3>4, <3>5, Zenon
      <3> QED
        BY <3>1, <3>2, <3>3
    <2>3. FromBlocks(chain, rows, n + 1, 1, s) /\ n <= Len(rows) /\ IsSeq(rows) /\ Len(rows) \in Nat
      <3>1. FromBlocks(chain, rows, n + 1, 1, s) /\ n <= Len(rows)
        BY <1>3, <1>9 DEF IdsInv
      <3> QED
        BY <3>1, AppendIs DEF FromBlocks
    <2>4. FromBlocks(chain, rows', n + 1, 1, s + w + 1)
      <3>1. n + 1 \in Nat \ {0} /\ 1 \in Nat /\ s + w + 1 \in Nat /\ s <= s + w + 1 /\ 1 <= s + 1
            /\ n + 1 <= Len(rows) + 1
        BY <2>3
      <3> QED
        BY <1>1, <1>7, <1>12, <2>3, <3>1, JoinBlocks
    <2>5. Len(GenesisRows') <= Len(rows') /\ \A j \in 1..Len(GenesisRows') : rows'[j] = GenesisRows'[j]
      <3>1. IsSeq(waiting) /\ rows' = rows \o waiting
        BY <1>1, <1>7, <1>12 DEF FromBlocks
      <3>2. Len(rows') = Len(rows) + Len(waiting) /\ Len(waiting) \in Nat
        BY <2>3, <3>1, ConcatIs
      <3>3. \A j \in 1..Len(rows) : rows'[j] = rows[j]
        BY <2>3, <3>1, ConcatIs
      <3>4. \A j \in 1..n : j \in 1..Len(rows)
        BY <2>3
      <3> QED
        BY <1>8, <1>9, <2>3, <3>2, <3>3, <3>4 DEF IdsInv
    <2>6. FromBlocks(chain', pending'.rows, 1, Stored' + 1, Stored' + Waiting')
      BY <2>1, NoRows
    <2>7. FromBlocks(chain', rows', Len(GenesisRows)' + 1, 1, Stored')
      BY <1>1, <1>8, <1>9, <2>2, <2>4
    <2> QED
      BY <1>1, <1>6, <1>8, <2>5, <2>6, <2>7 DEF IdsInv
  <1> QED
    BY <1>11, <1>12

\* No step puts a row where it does not belong.
LEMMA IdsStep == ASSUME RecorderInv, TotalsInv, IdsInv, [Next]_vars PROVE IdsInv'
  <1>1. CASE Crash \/ \E commit \in BOOLEAN : FlushFails(commit)
    <2>1. Down /\ UNCHANGED <<chain, blockLog, rows, genesisConstant>>
      BY <1>1 DEF Crash, FlushFails, dbVars
    <2> QED
      BY <2>1, DownIds
  <1>2. CASE UNCHANGED vars
    BY <1>2 DEF vars, dbVars, memVars, IdsInv, GenesisRows, Genesis, HasGenesis, Stored, Waiting
  <1> QED
    BY <1>1, <1>2, SetupIds, LoadGenesisIds, ProcessBlockIds DEF Next, Record1, SetupRefuses, Idle

\* The inductive invariant: the rows are those of the blocks recorded, block after block, each with
\* its height and time, in the order of their ids (record.ProcessBlock, eventid.go, batchinserter.go).
THEOREM IdsInvHolds == Spec => []IdsInv
  <1>1. Init => RecorderInv /\ TotalsInv /\ IdsInv
    BY InitRecorder, InitTotals, InitIds
  <1>2. RecorderInv /\ TotalsInv /\ IdsInv /\ [Next]_vars => RecorderInv' /\ TotalsInv' /\ IdsInv'
    BY RecorderStep, TotalsStep, IdsStep
  <1> QED
    BY <1>1, <1>2, PTL DEF Spec

\* Rows are in the order of the chain by their ids, each id is of one event and of a block that is
\* stored, at that block's time, and can be unpacked again, however the events of a block were
\* nested, skipped, corrected or refused and wherever the process stopped (eventid.go, mux.go).
THEOREM EventIdsFollow == Spec => []EventIdsFollowTheChain
  <1>1. RecorderInv /\ TotalsInv /\ IdsInv => EventIdsFollowTheChain
    <2> SUFFICES ASSUME RecorderInv, TotalsInv, IdsInv PROVE EventIdsFollowTheChain
      OBVIOUS
    <2>1. PICK c \in DOMAIN Chains : chain = Chains[c]
      BY DEF RecorderInv
    <2>2. /\ Stored \in Nat /\ Stored <= Len(Blocks) /\ Len(Blocks) \in Nat /\ DOMAIN blockLog = 1..Stored
          /\ \A h \in 1..Stored : blockLog[h].time = CorrectedTime(chain, h)
      BY <2>1, Lengths, ChainFacts DEF RecorderInv, BlocksInv
    <2> DEFINE first == Len(GenesisRows) + 1
    <2>3. ASSUME NEW i \in first..Len(rows)
          PROVE  LET h == HeightFromEventId(rows[i].id)
                 IN  /\ h \in DOMAIN blockLog /\ blockLog[h].time = rows[i].time
                     /\ AsBigint(ParseEventId(rows[i].id)) = rows[i].id
                     /\ \A j \in first..(i - 1) :
                           /\ rows[j].id <= rows[i].id
                           /\ \/ rows[j].id < rows[i].id
                              \/ rows[j].table # rows[i].table
                              \/ rows[i].table \in SharedTables
                              \/ rows[i].id = LeftOver(h)
      <3> DEFINE h == HeightFromEventId(rows[i].id)
      <3>1. /\ OfBlocks(chain, rows[i], 1, Stored)
            /\ \A j \in first..(i - 1) : RowsInOrder(chain, rows[j], rows[i])
        BY DEF IdsInv, FromBlocks
      <3>2. rows[i].id \in Nat /\ h \in 1..Stored /\ rows[i].time = CorrectedTime(chain, h)
        BY <3>1 DEF OfBlocks
      <3>3. LeftIn(chain, h) = LeftOver(h)
        BY <2>1, <2>2, <3>2, CorrectedIs
      <3>4. ASSUME NEW j \in first..(i - 1) PROVE Precedes(rows[j], rows[i], LeftOver(h))
        BY <3>1, <3>3 DEF RowsInOrder
      <3>5. AsBigint(ParseEventId(rows[i].id)) = rows[i].id
        BY <3>2, ParsedIdsArePacked
      <3> QED
        BY <2>2, <3>2, <3>4, <3>5 DEF Precedes, Unlike
    <2> QED
      BY <2>3 DEF EventIdsFollowTheChain
  <1> QED
    BY <1>1, RecorderInvHolds, TotalsInvHolds, IdsInvHolds, PTL

-----------------------------------------------------------------------------
(* Chain info.                                                             *)

\* The rows from one place to another tell how the chain info of a recorder became that of another.
TellsInfo(rs, from, to, r, s) ==
    /\ Tells(PoolTable, r.status, rs, from, to, s.status)
    /\ Tells(MimirTable, r.mimir, rs, from, to, s.mimir)
HasInfo(r, s) == r.status = s.status /\ r.mimir = s.mimir

\* No rows tell nothing.
LEMMA NothingToTell ==
    ASSUME NEW rs, NEW r, r.status = [key \in DOMAIN r.status |-> r.status[key]],
           r.mimir = [key \in DOMAIN r.mimir |-> r.mimir[key]]
    PROVE  TellsInfo(rs, 0, 0, r, r)
  <1>1. \A k \in (0 + 1)..0 : FALSE
    OBVIOUS
  <1>2. Tells(PoolTable, r.status, rs, 0, 0, r.status)
    BY <1>1, TellsNothing
  <1>3. Tells(MimirTable, r.mimir, rs, 0, 0, r.mimir)
    BY <1>1, TellsNothing
  <1> QED
    BY <1>2, <1>3 DEF TellsInfo

\* Rows behind others tell what comes after.
LEMMA TellsJoined ==
    ASSUME NEW rs, IsSeq(rs), NEW us, IsSeq(us), NEW ws, ws = rs \o us, NEW r, NEW s, NEW t,
           TellsInfo(rs, 0, Len(rs), r, s), TellsInfo(us, 0, Len(us), s, t)
    PROVE  TellsInfo(ws, 0, Len(ws), r, t)
  <1>1. PICK n \in Nat, k \in Nat : n = Len(rs) /\ k = Len(us)
    BY AppendIs
  <1>2. Len(ws) = n + k
    BY <1>1, ConcatIs
  <1>3. \A i \in 1..n : ws[i] = rs[i]
    BY <1>1, ConcatIs
  <1>4. \A i \in 1..k : ws[n + i] = us[i]
    BY <1>1, ConcatIs
  <1>5. \A i \in (0 + 1)..(0 + n) : ws[0 + (i - 0)] = rs[i]
    <2>1. \A i \in (0 + 1)..(0 + n) : i \in 1..n /\ 0 + (i - 0) = i
      OBVIOUS
    <2> QED
      BY ONLY <1>3, <2>1, Zenon
  <1>6. \A i \in (0 + 1)..(0 + k) : ws[n + (i - 0)] = us[i]
    <2>1. \A i \in (0 + 1)..(0 + k) : i \in 1..k /\ n + (i - 0) = n + i
      OBVIOUS
    <2> QED
      BY ONLY <1>4, <2>1, Zenon
  <1>7. ASSUME NEW table, NEW f, NEW g, NEW h, Tells(table, f, rs, 0, n, g), Tells(table, g, us, 0, k, h)
        PROVE  Tells(table, f, ws, 0, n + k, h)
    <2>1. 0 \in Nat /\ 0 + n = n /\ 0 + k = k /\ n + k \in Nat /\ 0 <= n /\ n <= n + k
      OBVIOUS
    <2>2. Tells(table, f, rs, 0, 0 + n, g) /\ Tells(table, g, us, 0, 0 + k, h)
      BY <1>7, <2>1
    <2>3. Tells(table, f, ws, 0, 0 + n, g)
      BY <1>5, <2>1, <2>2, TellsMoved
    <2>4. Tells(table, g, ws, n, n + k, h)
      BY <1>6, <2>1, <2>2, TellsMoved
    <2>5. Tells(table, f, ws, 0, n, g)
      BY <2>1, <2>3
    <2> QED
      BY <2>1, <2>4, <2>5, TellsOn
  <1> QED
    BY <1>1, <1>2, <1>7 DEF TellsInfo

\* Of the rows about a key there is a last one.
LEMMA LastAbout ==
    ASSUME NEW rs, NEW n \in Nat, NEW table, NEW key, NEW i \in 1..n, About(rs[i], table, key)
    PROVE  \E l \in 1..n : About(rs[l], table, key) /\ \A j \in (l + 1)..n : ~About(rs[j], table, key)
  <1> DEFINE S == {n - j : j \in {k \in 1..n : About(rs[k], table, key)}}
  <1>1. n - i \in S /\ S \subseteq Nat
    OBVIOUS
  <1>2. PICK m \in S : \A k \in S : m <= k
    <2> HIDE DEF S
    <2> QED
      BY <1>1, MinIsOne
  <1>3. PICK l \in 1..n : About(rs[l], table, key) /\ m = n - l
    BY <1>2
  <1>4. ASSUME NEW j \in (l + 1)..n, About(rs[j], table, key) PROVE FALSE
    <2>1. j \in 1..n
      OBVIOUS
    <2>2. n - j \in S
      BY <1>4, <2>1
    <2>3. n - l <= n - j
      BY <1>2, <1>3, <2>2
    <2> QED
      BY <2>3
  <1> QED
    BY <1>3, <1>4

\* A number of the rows about a key grows from one to the next, and a row has the greatest.
GrowsAbout(rs, n, table, key, W) ==
    \A i \in 1..n : \A j \in 1..(i - 1) :
       About(rs[i], table, key) /\ About(rs[j], table, key) => W[i] \in Int /\ W[j] \in Int /\ W[j] < W[i]
GreatestAbout(rs, n, table, key, W, l) ==
    l \in 1..n /\ About(rs[l], table, key) /\ \A j \in 1..n : About(rs[j], table, key) => W[j] <= W[l]

\* That is the last row about the key, and the map has what it says.
LEMMA LatestTells ==
    ASSUME NEW table, NEW base, NEW rs, NEW n \in Nat, NEW f, Tells(table, base, rs, 0, n, f), NEW key,
           NEW W, GrowsAbout(rs, n, table, key, W), NEW l, GreatestAbout(rs, n, table, key, W, l)
    PROVE  f[key] = Says(table, rs[l].data)
  <1>1. l \in 1..n /\ About(rs[l], table, key)
    BY DEF GreatestAbout
  <1>2. ASSUME NEW j \in (l + 1)..n, About(rs[j], table, key) PROVE FALSE
    <2>1. j \in 1..n /\ l \in 1..(j - 1)
      BY <1>1
    <2>2. W[j] \in Int /\ W[l] \in Int /\ W[l] < W[j]
      BY <1>1, <1>2, <2>1 DEF GrowsAbout
    <2>3. W[j] <= W[l]
      BY <1>2, <2>1 DEF GreatestAbout
    <2> QED
      BY <2>2, <2>3
  <1>3. l \in (0 + 1)..n
    BY <1>1
  <1> QED
    BY <1>1, <1>2, <1>3 DEF Tells

-----------------------------------------------------------------------------
(* What a start reads back.                                                *)

\* The invariant: in memory is the chain info of all blocks before the next; the rows in the database
\* tell that of the blocks stored, and those in the inserter what the blocks that wait change of it.
InfoInv ==
    ChainInfoIsStored =>
        /\ pc # "down" => HasInfo(recorder, Replay(next - 1))
        /\ TellsInfo(rows, 0, Len(rows), NewRecorder, Replay(Stored))
        /\ TellsInfo(pending.rows, 0, Len(pending.rows), Replay(Stored), Replay(Stored + Waiting))

\* Whose row it is: that of the genesis file, which are the first, or of a block.
FileRows == Len(GenesisRows)

\* The rows there are, one by one and two by two.
LEMMA RowsAre ==
    ASSUME RecorderInv, TotalsInv, IdsInv
    PROVE  /\ FileRows \in Nat /\ Len(rows) \in Nat /\ FileRows <= Len(rows)
           /\ FileRows > 0 => /\ HasGenesis
                              /\ \E s : /\ FromFile(Genesis, s, Len(Genesis.mimirs)) /\ Len(s.r.rows) = FileRows
                                        /\ \A i \in 1..FileRows : rows[i] = s.r.rows[i]
           /\ \A i \in (FileRows + 1)..Len(rows) :
                 /\ OfBlocks(chain, rows[i], 1, Stored)
                 /\ \A j \in (FileRows + 1)..(i - 1) : RowsInOrder(chain, rows[j], rows[i])
  <1>1. FromBlocks(chain, rows, FileRows + 1, 1, Stored) /\ FileRows <= Len(rows) /\ \A i \in 1..FileRows : rows[i] = GenesisRows[i]
    BY DEF IdsInv, FileRows
  <1>2. FileRows \in Nat /\ Len(rows) \in Nat
    <2>1. Len(rows) \in Nat
      BY <1>1, AppendIs DEF FromBlocks
    <2> QED
      BY <2>1, GenesisRowsAre DEF FileRows
  <1>3. ASSUME FileRows > 0
        PROVE  /\ HasGenesis
               /\ \E s : /\ FromFile(Genesis, s, Len(Genesis.mimirs)) /\ Len(s.r.rows) = FileRows
                         /\ \A i \in 1..FileRows : rows[i] = s.r.rows[i]
    <2>1. genesisConstant
      BY <1>3, GenesisRowsAre DEF FileRows
    <2>2. HasGenesis
      BY <2>1 DEF TotalsInv
    <2>3. PICK s : FromFile(Genesis, s, Len(Genesis.mimirs)) /\ s.r = RecordGenesis(NewRecorder, Genesis)
      BY <2>2, GenesisRowsAre
    <2>4. GenesisRows = s.r.rows
      BY <2>1, <2>3 DEF GenesisRows
    <2> QED
      BY <1>1, <2>2, <2>3, <2>4 DEF FileRows
  <1> QED
    BY <1>1, <1>2, <1>3 DEF FromBlocks

\* The ids of the rows of pools grow from one to the next.
LEMMA PoolIdsGrow ==
    ASSUME RecorderInv, TotalsInv, IdsInv, NEW i \in 1..Len(rows), rows[i].table = PoolTable
    PROVE  /\ rows[i].id \in Nat
           /\ \A j \in 1..(i - 1) : rows[j].table = PoolTable => rows[j].id \in Nat /\ rows[j].id < rows[i].id
  <1>1. FileRows \in Nat /\ Len(rows) \in Nat
    BY RowsAre
  <1>2. ASSUME NEW k \in 1..FileRows, rows[k].table = PoolTable
        PROVE  /\ rows[k].id \in Nat /\ HeightFromEventId(rows[k].id) = 0
               /\ \A l \in 1..(k - 1) : rows[l].table = PoolTable => rows[l].id < rows[k].id
    <2>1. FileRows > 0
      BY <1>1
    <2>2. HasGenesis
      BY <2>1, RowsAre
    <2>3. PICK s : /\ FromFile(Genesis, s, Len(Genesis.mimirs)) /\ Len(s.r.rows) = FileRows
                   /\ \A o \in 1..FileRows : rows[o] = s.r.rows[o]
      BY <2>1, RowsAre
    <2>4. Genesis.height = 1
      BY <2>2, GenesisRowsAre
    <2>5. PoolsInOrder(Genesis, s.r.rows)
      BY <2>3 DEF FromFile
    <2>6. \A l \in 1..(k - 1) : l \in 1..FileRows
      BY <1>1
    <2>7. Genesis.height - 1 = 0
      BY <2>4
    <2> QED
      BY <1>2, <2>3, <2>5, <2>6, <2>7 DEF PoolsInOrder
  <1>3. ASSUME NEW k \in (FileRows + 1)..Len(rows)
        PROVE  rows[k].id \in Nat /\ HeightFromEventId(rows[k].id) > 0
    <2>1. OfBlocks(chain, rows[k], 1, Stored)
      BY RowsAre
    <2>2. Stored \in Nat
      BY Lengths DEF RecorderInv
    <2> QED
      BY <2>1, <2>2 DEF OfBlocks
  <1>4. \A k \in 1..Len(rows) : k \in 1..FileRows \/ k \in (FileRows + 1)..Len(rows)
    BY <1>1
  <1>5. ASSUME NEW j \in 1..(i - 1), rows[j].table = PoolTable
        PROVE  rows[j].id \in Nat /\ rows[j].id < rows[i].id
    <2>1. j \in 1..Len(rows)
      BY <1>1
    <2>2. CASE i \in 1..FileRows
      <3>1. j \in 1..FileRows
        BY <1>1, <2>2
      <3> QED
        BY <1>2, <1>5, <2>2, <3>1
    <2>3. CASE i \in (FileRows + 1)..Len(rows) /\ j \in 1..FileRows
      <3>1. rows[i].id \in Nat /\ rows[j].id \in Nat /\ HeightFromEventId(rows[j].id) = 0 /\ HeightFromEventId(rows[i].id) > 0
        BY <1>2, <1>3, <1>5, <2>3
      <3>2. HeightFromEventId(rows[j].id) < HeightFromEventId(rows[i].id)
        BY <3>1
      <3> QED
        BY <3>1, <3>2, HeightsSort
    <2>4. CASE i \in (FileRows + 1)..Len(rows) /\ j \in (FileRows + 1)..Len(rows)
      <3>1. j \in (FileRows + 1)..(i - 1)
        BY <2>4
      <3>2. RowsInOrder(chain, rows[j], rows[i])
        BY <2>4, <3>1, RowsAre
      <3>3. PoolTable \notin SharedTables /\ PoolTable \in InfoTables
        BY DEF PoolTable, SharedTables, InfoTables
      <3>4. rows[j].id < rows[i].id
        BY <1>5, <3>2, <3>3 DEF RowsInOrder, Precedes, Unlike
      <3> QED
        BY <1>3, <2>4, <3>4
    <2> QED
      BY <1>1, <1>4, <2>1, <2>2, <2>3, <2>4
  <1> QED
    BY <1>2, <1>3, <1>4, <1>5

\* No row is later than the last block stored.
LEMMA RowsInTime ==
    ASSUME RecorderInv, TotalsInv, IdsInv, blockLog # <<>>, NEW i \in 1..Len(rows)
    PROVE  rows[i].time <= LastRow.time
  <1>1. PICK c \in DOMAIN Chains : chain = Chains[c]
    BY DEF RecorderInv
  <1>2. /\ Stored \in Nat /\ Stored > 0 /\ Stored \in 1..Len(Blocks) /\ Len(Blocks) \in Nat
        /\ LastRow.time = CorrectedTime(chain, Stored)
    <2>1. Stored \in Nat /\ Waiting \in Nat /\ IsSeq(blockLog) /\ Stored + Waiting <= Len(Blocks)
      BY Lengths DEF RecorderInv, BlocksInv
    <2>2. Stored > 0
      BY <2>1 DEF IsSeq, Stored
    <2>3. Len(Blocks) \in Nat
      BY <1>1, ChainFacts
    <2>4. Stored \in 1..Len(Blocks) /\ Stored \in 1..Stored
      BY <2>1, <2>2, <2>3
    <2>5. LastRow = blockLog[Stored]
      BY DEF LastRow, Stored
    <2> QED
      BY <2>1, <2>2, <2>3, <2>4, <2>5 DEF RecorderInv, BlocksInv
  <1>3. \A h \in 1..Stored : /\ CorrectedTime(chain, h) \in Int /\ CorrectedTime(chain, Stored) \in Int
                             /\ CorrectedTime(chain, h) <= CorrectedTime(chain, Stored)
    <2> SUFFICES ASSUME NEW h \in 1..Stored
                 PROVE  /\ CorrectedTime(chain, h) \in Int /\ CorrectedTime(chain, Stored) \in Int
                        /\ CorrectedTime(chain, h) <= CorrectedTime(chain, Stored)
      OBVIOUS
    <2>1. h \in 1..Len(Blocks) /\ (h = Stored \/ h < Stored)
      BY <1>2
    <2>2. PICK a \in Int, b \in Int : a = CorrectedTime(chain, h) /\ b = CorrectedTime(chain, Stored) /\ (h < Stored => a < b)
      BY <1>1, <1>2, <2>1, ChainFacts
    <2>3. CASE h = Stored
      BY <2>2, <2>3
    <2>4. CASE h < Stored
      BY <2>2, <2>4
    <2> QED
      BY <2>1, <2>3, <2>4
  <1>4. FileRows \in Nat /\ Len(rows) \in Nat
    BY RowsAre
  <1>5. CASE i \in 1..FileRows
    <2>1. FileRows > 0
      BY <1>4, <1>5
    <2>2. PICK s : /\ FromFile(Genesis, s, Len(Genesis.mimirs)) /\ Len(s.r.rows) = FileRows
                   /\ \A o \in 1..FileRows : rows[o] = s.r.rows[o]
      BY <2>1, RowsAre
    <2>3. rows[i].time = Genesis.time
      BY <1>5, <2>2 DEF FromFile
    <2>4. Genesis.time \in Int /\ Genesis.time <= CorrectedTime(chain, 1)
      BY <2>1, RowsAre, GenesisRowsAre
    <2>5. 1 \in 1..Stored
      BY <1>2
    <2>6. PICK a \in Int, b \in Int, d \in Int : a = CorrectedTime(chain, 1) /\ b = CorrectedTime(chain, Stored) /\ d = Genesis.time
      BY <1>3, <2>4, <2>5
    <2>7. d <= a /\ a <= b
      BY <1>3, <2>4, <2>5, <2>6
    <2>8. d <= b
      BY ONLY <2>6, <2>7
    <2> QED
      BY <1>2, <2>3, <2>6, <2>8
  <1>6. CASE i \in (FileRows + 1)..Len(rows)
    <2>1. OfBlocks(chain, rows[i], 1, Stored)
      BY <1>6, RowsAre
    <2> QED
      BY <1>2, <1>3, <2>1 DEF OfBlocks
  <1> QED
    BY <1>4, <1>5, <1>6

\* Two rows of one mimir have different times, if none was set twice at one time.
LEMMA MimirTimesGrow ==
    ASSUME RecorderInv, TotalsInv, IdsInv, ChainInfoIsStored, NEW key, NEW i \in 1..Len(rows), NEW j \in 1..(i - 1),
           About(rows[i], MimirTable, key), About(rows[j], MimirTable, key)
    PROVE  rows[i].time \in Int /\ rows[j].time \in Int /\ rows[j].time < rows[i].time
  <1>1. PICK c \in DOMAIN Chains : chain = Chains[c]
    BY DEF RecorderInv
  <1>2. FileRows \in Nat /\ Len(rows) \in Nat /\ j \in 1..Len(rows)
    BY RowsAre
  <1>3. /\ Stored \in Nat /\ Len(Blocks) \in Nat /\ Stored <= Len(Blocks)
        /\ \A h \in 1..Stored : h \in 1..Len(Blocks)
    BY <1>1, Lengths, ChainFacts DEF RecorderInv, BlocksInv
  <1>4. DOMAIN Blocks = 1..Len(Blocks)
    BY <1>1, RecorderAssumption DEF Blocks
  <1>5. ASSUME NEW k \in (FileRows + 1)..Len(rows), About(rows[k], MimirTable, key)
        PROVE  LET h == HeightFromEventId(rows[k].id)
               IN  /\ h \in 1..Len(Blocks) /\ rows[k].time = CorrectedTime(chain, h) /\ rows[k].time \in Int
                   /\ SetsAt(Corrected(chain, h), key, rows[k].id) /\ EventLists(Corrected(chain, h)) = EventLists(Blocks[h])
                   /\ rows[k].id \in Nat
    <2>1. OfBlocks(chain, rows[k], 1, Stored)
      BY RowsAre
    <2>2. rows[k].table = MimirTable /\ rows[k].data[1] = key
      BY <1>5 DEF About
    <2>3. HeightFromEventId(rows[k].id) \in 1..Len(Blocks)
      BY <1>3, <2>1 DEF OfBlocks
    <2> QED
      BY <1>1, <2>1, <2>2, <2>3, ChainFacts, CorrectedIs DEF OfBlocks
  <1>6. ASSUME NEW k \in 1..FileRows, About(rows[k], MimirTable, key)
        PROVE  /\ HasGenesis /\ rows[k].time = Genesis.time
               /\ \E e \in DOMAIN Genesis.mimirs : key = Genesis.mimirs[e].key
               /\ \A l \in 1..(k - 1) : ~About(rows[l], MimirTable, key)
    <2>1. FileRows > 0
      BY <1>2
    <2>2. HasGenesis
      BY <2>1, RowsAre
    <2>3. PICK s : /\ FromFile(Genesis, s, Len(Genesis.mimirs)) /\ Len(s.r.rows) = FileRows
                   /\ \A o \in 1..FileRows : rows[o] = s.r.rows[o]
      BY <2>1, RowsAre
    <2>4. rows[k].table = MimirTable /\ rows[k].data[1] = key
      BY <1>6 DEF About
    <2>5. MimirsOfFile(Genesis, s.r.rows, Len(Genesis.mimirs)) /\ s.r.rows[k].time = Genesis.time
      BY <2>3 DEF FromFile
    <2>6. \A l \in 1..(k - 1) : l \in 1..FileRows
      BY <1>2
    <2>7. DOMAIN Genesis.mimirs = 1..Len(Genesis.mimirs)
      BY <2>2, FirstIs DEF IsGenesis, IsList
    <2>8. \A e, f \in DOMAIN Genesis.mimirs : e = f \/ Genesis.mimirs[e].key # Genesis.mimirs[f].key
      BY <2>2 DEF ChainInfoIsStored
    <2>9. s.r.rows[k] = rows[k] /\ k \in 1..Len(s.r.rows)
      BY <2>3
    <2>10. \E e \in 1..Len(Genesis.mimirs) : key = Genesis.mimirs[e].key
      BY <2>4, <2>5, <2>9 DEF MimirsOfFile
    <2>11. \A l \in 1..(k - 1) : s.r.rows[l].table = MimirTable => s.r.rows[l].data[1] # key
      BY <2>4, <2>5, <2>8, <2>9, SMTT(60) DEF MimirsOfFile
    <2>12. \A l \in 1..(k - 1) : ~About(rows[l], MimirTable, key)
      BY <2>3, <2>6, <2>11 DEF About
    <2> QED
      BY <2>2, <2>5, <2>7, <2>9, <2>10, <2>12
  <1>7. CASE i \in 1..FileRows
    BY <1>6, <1>7
  <1>8. CASE i \in (FileRows + 1)..Len(rows) /\ j \in 1..FileRows
    <2> DEFINE h == HeightFromEventId(rows[i].id)
    <2>1. /\ h \in 1..Len(Blocks) /\ rows[i].time = CorrectedTime(chain, h) /\ rows[i].time \in Int
          /\ SetsAt(Corrected(chain, h), key, rows[i].id) /\ EventLists(Corrected(chain, h)) = EventLists(Blocks[h])
      BY <1>5, <1>8
    <2>2. HasGenesis /\ rows[j].time = Genesis.time /\ \E e \in DOMAIN Genesis.mimirs : key = Genesis.mimirs[e].key
      BY <1>6, <1>8
    <2>3. PICK a \in Int, b \in Int, d \in Int :
             /\ a = CorrectedTime(chain, 1) /\ b = CorrectedTime(chain, h) /\ d = Genesis.time /\ d <= a
             /\ (1 < h => a < b)
      <3>1. 1 \in 1..Len(Blocks)
        BY <1>3, <2>1
      <3> QED
        BY <1>1, <2>1, <2>2, <3>1, ChainFacts, GenesisRowsAre
    <2>4. CASE h > 1
      BY <2>1, <2>2, <2>3, <2>4
    <2>5. CASE h = 1
      <3>1. PICK k \in DOMAIN EventLists(Blocks[1]) : \E l \in DOMAIN EventLists(Blocks[1])[k] :
               /\ EventLists(Blocks[1])[k][l].type = "set_mimir"
               /\ MimirKey(EventLists(Blocks[1])[k][l]) = key
        BY <2>1, <2>5 DEF SetsAt
      <3>2. Genesis.time # CorrectedTime(chain, 1)
        BY <2>2, <3>1 DEF ChainInfoIsStored
      <3>3. d # a
        BY <2>3, <3>2
      <3> QED
        BY <2>1, <2>2, <2>3, <2>5, <3>3
    <2> QED
      BY <2>1, <2>4, <2>5
  <1>9. CASE i \in (FileRows + 1)..Len(rows) /\ j \in (FileRows + 1)..Len(rows)
    <2> DEFINE h == HeightFromEventId(rows[i].id)
               o == HeightFromEventId(rows[j].id)
    <2>1. /\ h \in 1..Len(Blocks) /\ rows[i].time = CorrectedTime(chain, h) /\ rows[i].time \in Int
          /\ SetsAt(Corrected(chain, h), key, rows[i].id) /\ EventLists(Corrected(chain, h)) = EventLists(Blocks[h])
          /\ rows[i].id \in Nat
      BY <1>5, <1>9
    <2>2. /\ o \in 1..Len(Blocks) /\ rows[j].time = CorrectedTime(chain, o) /\ rows[j].time \in Int
          /\ SetsAt(Corrected(chain, o), key, rows[j].id) /\ rows[j].id \in Nat
      BY <1>5, <1>9
    <2>3. rows[j].id < rows[i].id
      <3>1. j \in (FileRows + 1)..(i - 1)
        BY <1>9
      <3>2. RowsInOrder(chain, rows[j], rows[i])
        BY <1>9, <3>1, RowsAre
      <3>3. MimirTable \notin SharedTables /\ MimirTable \in InfoTables
        BY DEF MimirTable, SharedTables, InfoTables
      <3>4. rows[i].table = MimirTable /\ rows[j].table = MimirTable
        BY DEF About
      <3> QED
        BY <3>2, <3>3, <3>4 DEF RowsInOrder, Precedes, Unlike
    <2>4. o <= h
      <3>1. rows[j].id \in Nat /\ rows[i].id \in Nat /\ rows[j].id <= rows[i].id
        BY <2>1, <2>2, <2>3
      <3> QED
        BY ONLY <3>1, HeightsSort
    <2>5. CASE o < h
      BY <1>1, <2>1, <2>2, <2>5, ChainFacts
    <2>6. CASE o = h
      <3> DEFINE all == EventLists(Blocks[h])
      <3> DEFINE Sets(k, l, id) == /\ k \in DOMAIN all /\ l \in DOMAIN all[k]
                                   /\ all[k][l].type = "set_mimir" /\ MimirKey(all[k][l]) = key
                                   /\ id = AsBigint(IdAt(Corrected(chain, h), k, l))
      <3>1. PICK k, l : Sets(k, l, rows[i].id)
        BY <2>1 DEF SetsAt
      <3>2. PICK p, q : Sets(p, q, rows[j].id)
        BY <2>1, <2>2, <2>6 DEF SetsAt
      <3>3. <<k, l>> = <<p, q>>
        <4>1. h \in DOMAIN Blocks
          BY <1>4, <2>1
        <4> QED
          BY <3>1, <3>2, <4>1 DEF ChainInfoIsStored
      <3> QED
        BY <2>1, <2>2, <2>3, <3>1, <3>2, <3>3
    <2> QED
      BY <2>1, <2>2, <2>4, <2>5, <2>6
  <1> QED
    BY <1>2, <1>7, <1>8, <1>9

\* Setup reads the chain info of the blocks stored back from the rows.
LEMMA StatusesReadBack ==
    ASSUME RecorderInv, TotalsInv, IdsInv, blockLog # <<>>, NEW f, Tells(PoolTable, <<>>, rows, 0, Len(rows), f)
    PROVE  StoredStatuses = f
  <1>1. PICK n \in Nat : n = Len(rows) /\ DOMAIN rows = 1..n
    <2>1. IsSeq(rows)
      BY DEF IdsInv, FromBlocks
    <2> QED
      BY <2>1, AppendIs
  <1> DEFINE known == {i \in TableRows(PoolTable) : blockLog # <<>> /\ rows[i].time <= LastRow.time}
             Of(p) == {i \in known : rows[i].data[1] = p}
             LastOne(p) == CHOOSE i \in Of(p) : \A j \in Of(p) : rows[j].id <= rows[i].id
             keys == {rows[i].data[1] : i \in known}
  <1>2. StoredStatuses = [p \in keys |-> rows[LastOne(p)].data[2]]
    BY DEF StoredStatuses, PoolTable
  <1>3. known = {i \in 1..n : rows[i].table = PoolTable}
    BY <1>1, RowsInTime DEF TableRows
  <1>4. \A p : Of(p) = {i \in 1..n : About(rows[i], PoolTable, p)}
    BY <1>3 DEF About
  <1>5. f = [p \in DOMAIN f |-> f[p]]
    BY DEF Tells
  <1>6. \A i : i \in (0 + 1)..n <=> i \in 1..n
    OBVIOUS
  <1>7. DOMAIN f = keys
    <2>1. \A p : p \in DOMAIN f <=> p \in DOMAIN <<>> \/ \E i \in (0 + 1)..n : About(rows[i], PoolTable, p)
      BY <1>1 DEF Tells
    <2>2. DOMAIN <<>> = {}
      OBVIOUS
    <2>3. \A p : p \in DOMAIN f <=> \E i \in 1..n : About(rows[i], PoolTable, p)
      BY <1>6, <2>1, <2>2
    <2>4. \A p : p \in keys <=> \E i \in 1..n : About(rows[i], PoolTable, p)
      BY <1>3 DEF About
    <2> HIDE DEF keys
    <2> QED
      BY <2>3, <2>4
  <1> HIDE DEF known
  <1>8. ASSUME NEW p \in keys PROVE f[p] = rows[LastOne(p)].data[2]
    <2>1. PICK i \in 1..n : About(rows[i], PoolTable, p)
      BY <1>3 DEF About
    <2>2. PICK l \in 1..n : About(rows[l], PoolTable, p) /\ \A j \in (l + 1)..n : ~About(rows[j], PoolTable, p)
      BY <2>1, LastAbout
    <2> DEFINE W == [j \in 1..n |-> rows[j].id]
    <2>3. \A k \in 1..n : \A j \in 1..(k - 1) :
             About(rows[k], PoolTable, p) /\ About(rows[j], PoolTable, p)
                => rows[k].id \in Nat /\ rows[j].id \in Nat /\ rows[j].id < rows[k].id
      BY <1>1, PoolIdsGrow DEF About
    <2>4. \A j \in Of(p) : rows[j].id <= rows[l].id
      <3> SUFFICES ASSUME NEW j \in 1..n, About(rows[j], PoolTable, p) PROVE rows[j].id <= rows[l].id
        BY <1>4
      <3>1. j \in 1..l
        BY <2>2
      <3>2. j = l \/ j \in 1..(l - 1)
        BY <3>1
      <3>3. rows[l].id \in Nat
        <4>1. rows[l].table = PoolTable
          BY <2>2 DEF About
        <4> QED
          BY <1>1, <4>1, PoolIdsGrow
      <3> QED
        BY <2>2, <2>3, <3>2, <3>3
    <2>5. l \in Of(p)
      BY <1>4, <2>2
    <2>6. PICK m : m = LastOne(p)
      OBVIOUS
    <2>7. m \in Of(p) /\ \A j \in Of(p) : rows[j].id <= rows[m].id
      <3>1. LastOne(p) \in Of(p) /\ \A j \in Of(p) : rows[j].id <= rows[LastOne(p)].id
        <4> HIDE DEF Of
        <4> QED
          BY <2>4, <2>5
      <3> HIDE DEF LastOne, Of
      <3> QED
        BY <2>6, <3>1
    <2>8. m \in 1..n /\ About(rows[m], PoolTable, p) /\ \A j \in 1..n : About(rows[j], PoolTable, p) => rows[j].id <= rows[m].id
      BY <1>4, <2>7
    <2> HIDE DEF LastOne, Of
    <2>9. \A k \in 1..n : W[k] = rows[k].id
      OBVIOUS
    <2>10. \A k \in 1..n : \A j \in 1..(k - 1) : j \in 1..n
      OBVIOUS
    <2> HIDE DEF W
    <2>11. \A k \in 1..n : \A j \in 1..(k - 1) :
              About(rows[k], PoolTable, p) /\ About(rows[j], PoolTable, p) => W[k] \in Int /\ W[j] \in Int /\ W[j] < W[k]
      BY <2>3, <2>9, <2>10
    <2>12. \A j \in 1..n : About(rows[j], PoolTable, p) => W[j] <= W[m]
      BY <2>8, <2>9
    <2>13. f[p] = Says(PoolTable, rows[m].data)
      <3>1. Tells(PoolTable, <<>>, rows, 0, n, f) /\ n \in Nat
        BY <1>1
      <3>2. GrowsAbout(rows, n, PoolTable, p, W)
        BY <2>11 DEF GrowsAbout
      <3>3. GreatestAbout(rows, n, PoolTable, p, W, m)
        BY <2>8, <2>12 DEF GreatestAbout
      <3> QED
        BY ONLY <3>1, <3>2, <3>3, LatestTells
    <2> QED
      BY <2>6, <2>13 DEF Says
  <1> HIDE DEF keys, LastOne
  <1> QED
    BY <1>2, <1>5, <1>7, <1>8

\* And the mimirs.
LEMMA MimirsReadBack ==
    ASSUME RecorderInv, TotalsInv, IdsInv, ChainInfoIsStored, NEW f, Tells(MimirTable, <<>>, rows, 0, Len(rows), f),
           NEW mimirRows, \A key \in MimirKeys : mimirRows[key] \in LastMimirs(key) /\ rows[mimirRows[key]].data[2].isInt
    PROVE  [key \in MimirKeys |-> rows[mimirRows[key]].data[2].int] = f
  <1>1. PICK n \in Nat : n = Len(rows) /\ DOMAIN rows = 1..n
    <2>1. IsSeq(rows)
      BY DEF IdsInv, FromBlocks
    <2> QED
      BY <2>1, AppendIs
  <1>2. f = [key \in DOMAIN f |-> f[key]]
    BY DEF Tells
  <1>3. DOMAIN f = MimirKeys
    <2>1. \A key : key \in DOMAIN f <=> key \in DOMAIN <<>> \/ \E i \in (0 + 1)..n : About(rows[i], MimirTable, key)
      BY <1>1 DEF Tells
    <2>2. DOMAIN <<>> = {} /\ \A i : i \in (0 + 1)..n <=> i \in 1..n
      OBVIOUS
    <2>3. \A key : key \in DOMAIN f <=> \E i \in 1..n : About(rows[i], MimirTable, key)
      BY <2>1, <2>2
    <2>4. \A key : key \in MimirKeys <=> \E i \in 1..n : About(rows[i], MimirTable, key)
      BY <1>1 DEF MimirKeys, TableRows, About, MimirTable
    <2> QED
      BY <2>3, <2>4
  <1>4. ASSUME NEW key \in MimirKeys PROVE f[key] = rows[mimirRows[key]].data[2].int
    <2>1. PICK m : m = mimirRows[key] /\ m \in LastMimirs(key) /\ rows[m].data[2].isInt
      OBVIOUS
    <2>2. m \in 1..n /\ About(rows[m], MimirTable, key) /\ \A j \in 1..n : About(rows[j], MimirTable, key) => rows[j].time <= rows[m].time
      BY <1>1, <2>1 DEF LastMimirs, TableRows, About, MimirTable
    <2> DEFINE W == [j \in 1..n |-> rows[j].time]
    <2>3. \A k \in 1..n : \A j \in 1..(k - 1) :
             About(rows[k], MimirTable, key) /\ About(rows[j], MimirTable, key)
                => rows[k].time \in Int /\ rows[j].time \in Int /\ rows[j].time < rows[k].time
      BY <1>1, MimirTimesGrow
    <2>4. \A k \in 1..n : W[k] = rows[k].time
      OBVIOUS
    <2>5. \A k \in 1..n : \A j \in 1..(k - 1) : j \in 1..n
      OBVIOUS
    <2> HIDE DEF W
    <2>6. \A k \in 1..n : \A j \in 1..(k - 1) :
              About(rows[k], MimirTable, key) /\ About(rows[j], MimirTable, key) => W[k] \in Int /\ W[j] \in Int /\ W[j] < W[k]
      BY <2>3, <2>4, <2>5
    <2>7. \A j \in 1..n : About(rows[j], MimirTable, key) => W[j] <= W[m]
      BY <2>2, <2>4
    <2>8. f[key] = Says(MimirTable, rows[m].data)
      <3>1. Tells(MimirTable, <<>>, rows, 0, n, f) /\ n \in Nat
        BY <1>1
      <3>2. GrowsAbout(rows, n, MimirTable, key, W)
        BY <2>6 DEF GrowsAbout
      <3>3. GreatestAbout(rows, n, MimirTable, key, W, m)
        BY <2>2, <2>7 DEF GreatestAbout
      <3> QED
        BY ONLY <3>1, <3>2, <3>3, LatestTells
    <2>9. MimirTable # PoolTable
      BY DEF MimirTable, PoolTable
    <2> QED
      BY <2>1, <2>8, <2>9 DEF Says
  <1> QED
    BY <1>2, <1>3, <1>4

\* A new recorder has no chain info.
LEMMA NoInfo ==
    /\ NewRecorder.status = <<>> /\ NewRecorder.mimir = <<>>
    /\ \A rs : TellsInfo(rs, 0, 0, NewRecorder, NewRecorder)
  <1>1. NewRecorder.status = <<>> /\ NewRecorder.mimir = <<>>
    BY DEF NewRecorder
  <1>2. \A f : f = <<>> => f = [key \in DOMAIN f |-> f[key]]
    OBVIOUS
  <1>3. /\ NewRecorder.status = [key \in DOMAIN NewRecorder.status |-> NewRecorder.status[key]]
        /\ NewRecorder.mimir = [key \in DOMAIN NewRecorder.mimir |-> NewRecorder.mimir[key]]
    BY <1>1, <1>2
  <1> QED
    BY <1>1, <1>3, NothingToTell

\* What the rows tell is a map.
LEMMA InfoIsMap ==
    ASSUME NEW rs, NEW i, NEW j, NEW r, NEW s, TellsInfo(rs, i, j, r, s)
    PROVE  s.status = [key \in DOMAIN s.status |-> s.status[key]] /\ s.mimir = [key \in DOMAIN s.mimir |-> s.mimir[key]]
  BY TellsMap DEF TellsInfo

\* Whether chain info is stored as it must be does not change but when the file's totals are lost.
LEMMA InfoStays ==
    ASSUME UNCHANGED chain, genesisKept' => genesisKept, ChainInfoIsStored'
    PROVE  ChainInfoIsStored
  <1>1. Blocks' = Blocks /\ HasGenesis' = HasGenesis /\ Genesis' = Genesis /\ CorrectedTime(chain, 1)' = CorrectedTime(chain, 1)
    BY DEF Blocks, HasGenesis, Genesis
  <1>2. genesisKept
    BY DEF ChainInfoIsStored
  <1> DEFINE Info(s) == {i \in DOMAIN s : s[i].type \in {"pool", "set_mimir"}}
  <1>3. PICK b, g, h, t : b = Blocks /\ b = Blocks' /\ g = Genesis /\ g = Genesis' /\ h = HasGenesis /\ h = HasGenesis'
          /\ t = CorrectedTime(chain, 1) /\ t = CorrectedTime(chain, 1)'
    BY <1>1
  <1>4. ASSUME NEW x \in DOMAIN b
        PROVE  LET all == EventLists(b[x])
               IN  /\ \A k \in DOMAIN all : \A i \in Info(all[k]) : all[k][i].refused = {}
                   /\ \A k, l \in DOMAIN all : \A i \in Info(all[k]) : \A j \in Info(all[l]) :
                         all[k][i].type = "set_mimir" /\ all[l][j].type = "set_mimir"
                           => <<k, i>> = <<l, j>> \/ MimirKey(all[k][i]) # MimirKey(all[l][j])
    BY <1>3 DEF ChainInfoIsStored
  <1>5. ASSUME h 
        PROVE 
          /\ \A i, j \in DOMAIN g.mimirs : i = j \/ g.mimirs[i].key # g.mimirs[j].key
          /\ g.time = t =>
                LET all == EventLists(b[1])
                IN  \A k \in DOMAIN all : \A i \in DOMAIN all[k] : \A j \in DOMAIN g.mimirs :
                       all[k][i].type = "set_mimir" => MimirKey(all[k][i]) # g.mimirs[j].key
    BY <1>3, <1>5 DEF ChainInfoIsStored
  <1> QED
    BY <1>2, <1>3, <1>4, <1>5 DEF ChainInfoIsStored

\* There is no chain info at first.
LEMMA InitInfo == ASSUME Init PROVE InfoInv
  <1>1. rows = <<>> /\ pending.rows = <<>> /\ pc = "down" /\ Stored = 0 /\ Waiting = 0 /\ genesisConstant = FALSE
    BY EmptyIs DEF Init, NoPending, Stored, Waiting
  <1>2. Replay(0) = NewRecorder
    BY <1>1, ReplayIs DEF FirstTotals
  <1>3. Len(<<>>) = 0 /\ 0 + 0 = 0
    BY EmptyIs
  <1>4. Replay(Stored) = NewRecorder /\ Replay(Stored + Waiting) = NewRecorder
    BY <1>1, <1>2, <1>3
  <1> QED
    BY <1>1, <1>3, <1>4, NoInfo DEF InfoInv

\* A stop loses what waited.
LEMMA DownInfo ==
    ASSUME RecorderInv, TotalsInv, InfoInv, Down, modes' = SubSeq(modes, 1, Len(blockLog)),
           UNCHANGED <<chain, blockLog, rows, genesisConstant, genesisKept>>
    PROVE  InfoInv'
  <1>1. Stored \in Nat /\ Len(modes) \in Nat /\ Stored <= Len(modes) /\ IsSeq(modes)
    BY Lengths DEF RecorderInv, BlocksInv
  <1>2. \A h \in 1..Stored : modes'[h] = modes[h]
    BY <1>1 DEF Stored, IsSeq
  <1>3. PICK s \in Nat : s = Stored
    BY <1>1
  <1>4. Replay(s)' = Replay(s)
    BY <1>2, <1>3, ReplayIs
  <1>5. Stored' = s /\ Waiting' = 0 /\ pc' = "down" /\ pending'.rows = <<>> /\ Len(<<>>) = 0 /\ s + 0 = s
    BY <1>3, EmptyIs DEF Stored, Waiting, Down, NoPending
  <1>6. ChainInfoIsStored' => ChainInfoIsStored
    BY InfoStays
  <1>7. ASSUME ChainInfoIsStored PROVE TellsInfo(rows, 0, Len(rows), NewRecorder, Replay(s))
    BY <1>3, <1>7 DEF InfoInv
  <1>8. PICK R : R = Replay(s)
    OBVIOUS
  <1>9. Replay(Stored)' = R /\ Replay(Stored + Waiting)' = R
    <2>1. PICK w \in Nat : w = Waiting' /\ w = 0
      BY <1>5
    <2>2. s + w = s
      BY <2>1
    <2> QED
      BY <1>4, <1>5, <1>8, <2>1, <2>2
  <1>10. ASSUME ChainInfoIsStored PROVE TellsInfo(<<>>, 0, 0, R, R)
    <2>1. TellsInfo(rows, 0, Len(rows), NewRecorder, R)
      BY <1>7, <1>8, <1>10
    <2>2. R.status = [key \in DOMAIN R.status |-> R.status[key]] /\ R.mimir = [key \in DOMAIN R.mimir |-> R.mimir[key]]
      BY ONLY <2>1, InfoIsMap
    <2> QED
      BY ONLY <2>2, NothingToTell
  <1> QED
    BY <1>5, <1>6, <1>7, <1>8, <1>9, <1>10 DEF InfoInv

\* A start reads the chain info back from the rows of the blocks stored.
LEMMA SetupInfo == ASSUME RecorderInv, TotalsInv, IdsInv, InfoInv, Setup PROVE InfoInv'
  <1>1. /\ UNCHANGED <<chain, blockLog, rows, genesisConstant, inserterFail, modes, pending>>
        /\ pc' = "genesis" /\ pc = "down" /\ next' = Len(blockLog) + 1
        /\ genesisKept' = (genesisKept /\ ~(genesisConstant /\ blockLog = <<>>))
    BY DEF Setup, dbVars
  <1>2. PICK mimirRows : /\ \A k \in MimirKeys : mimirRows[k] \in LastMimirs(k) /\ rows[mimirRows[k]].data[2].isInt
                         /\ recorder' = [Restored(mimirRows) EXCEPT !.immediate = inserterFail]
    BY DEF Setup
  <1>3. recorder'.status = StoredStatuses /\ recorder'.mimir = [k \in MimirKeys |-> rows[mimirRows[k]].data[2].int]
    BY <1>2 DEF Restored, NewRecorder
  <1> SUFFICES ASSUME ChainInfoIsStored'
               PROVE  /\ HasInfo(recorder', Replay(next - 1)')
                      /\ TellsInfo(rows', 0, Len(rows'), NewRecorder, Replay(Stored)')
                      /\ TellsInfo(pending'.rows, 0, Len(pending'.rows), Replay(Stored)', Replay(Stored + Waiting)')
    BY DEF InfoInv
  <1>4. genesisKept' = TRUE /\ genesisKept = TRUE /\ ~(genesisConstant /\ blockLog = <<>>)
    <2>1. genesisKept' /\ genesisKept \in BOOLEAN
      BY DEF ChainInfoIsStored, RecorderInv, TypeOK
    <2> QED
      BY <1>1, <2>1
  <1>5. ChainInfoIsStored
    BY <1>1, <1>4, InfoStays
  <1>6. PICK s \in Nat, w \in Nat : s = Stored /\ w = Waiting /\ s + w \in Nat /\ s = Len(blockLog)
    BY Lengths DEF RecorderInv, BlocksInv, Stored
  <1>7. \A k \in Nat : Replay(k)' = Replay(k)
    BY <1>1, <1>4, ReplayIs
  <1>8. Stored' = s /\ Waiting' = w /\ next' - 1 = s
    BY <1>1, <1>6 DEF Stored, Waiting
  <1>9. TellsInfo(rows, 0, Len(rows), NewRecorder, Replay(s)) /\ TellsInfo(pending.rows, 0, Len(pending.rows), Replay(s), Replay(s + w))
    BY <1>5, <1>6 DEF InfoInv
  <1>10. HasInfo(recorder', Replay(s))
    <2>1. [k \in MimirKeys |-> rows[mimirRows[k]].data[2].int] = Replay(s).mimir
      BY <1>2, <1>5, <1>9, NoInfo, MimirsReadBack DEF TellsInfo
    <2>2. CASE blockLog # <<>>
      <3>1. StoredStatuses = Replay(s).status
        BY <1>9, <2>2, NoInfo, StatusesReadBack DEF TellsInfo
      <3> QED
        BY <1>3, <2>1, <3>1 DEF HasInfo
    <2>3. CASE blockLog = <<>>
      <3>1. StoredStatuses = <<>>
        BY <2>3 DEF StoredStatuses
      <3>2. s = 0 /\ ~genesisConstant
        BY <1>4, <1>6, <2>3, EmptyIs
      <3>3. Replay(s) = NewRecorder
        BY <3>2, ReplayIs DEF FirstTotals
      <3> QED
        BY <1>3, <2>1, <3>1, <3>3, NoInfo DEF HasInfo
    <2> QED
      BY <2>2, <2>3
  <1>11. PICK R, T : R = Replay(s) /\ T = Replay(s + w)
    OBVIOUS
  <1>12. Replay(next - 1)' = R /\ Replay(Stored)' = R /\ Replay(Stored + Waiting)' = T
    <2>1. Replay(s)' = R /\ Replay(s + w)' = T
      BY <1>6, <1>7, <1>11
    <2> QED
      BY <1>8, <2>1
  <1> QED
    BY <1>1, <1>9, <1>10, <1>11, <1>12

\* The file's rows tell its own chain info, from a new recorder's.
LEMMA LoadGenesisInfo == ASSUME RecorderInv, TotalsInv, IdsInv, InfoInv, LoadGenesis PROVE InfoInv'
  <1>1. /\ UNCHANGED <<chain, blockLog, pending, modes, genesisKept, next>> /\ pc = "genesis" /\ pc' = "running"
    BY DEF LoadGenesis
  <1>2. PICK s \in Nat, w \in Nat : s = Stored /\ w = Waiting /\ next = s + w + 1 /\ s + w \in Nat
    BY <1>1, Lengths DEF RecorderInv, BlocksInv
  <1>3. Stored' = s /\ Waiting' = w /\ next' - 1 = s + w /\ next - 1 = s + w
    BY <1>1, <1>2 DEF Stored, Waiting
  <1> SUFFICES ASSUME ChainInfoIsStored'
               PROVE  /\ HasInfo(recorder', Replay(next - 1)')
                      /\ TellsInfo(rows', 0, Len(rows'), NewRecorder, Replay(Stored)')
                      /\ TellsInfo(pending'.rows, 0, Len(pending'.rows), Replay(Stored)', Replay(Stored + Waiting)')
    BY DEF InfoInv
  <1>4. ChainInfoIsStored /\ genesisKept
    BY <1>1, InfoStays DEF ChainInfoIsStored
  <1>5. CASE HasGenesis /\ ~genesisConstant
    <2>1. blockLog = <<>> /\ recorder = NewRecorder /\ pending = NoPending
      BY <1>1, <1>5 DEF TotalsInv, IdsInv, RecorderInv, HistoryInv
    <2>2. Len(blockLog) <= Genesis.height
      BY <1>5, <2>1, EmptyIs, GenesisRowsAre
    <2>3. rows = <<>> /\ s = 0 /\ w = 0
      BY <1>2, <1>5, <2>1, RowsEmpty, EmptyIs DEF Stored, Waiting, NoPending
    <2> DEFINE r == RecordGenesis(NewRecorder, Genesis)
    <2>4. genesisConstant' = TRUE /\ recorder' = [r EXCEPT !.rows = <<>>] /\ rows' = rows \o r.rows
      BY <1>5, <2>1, <2>2 DEF LoadGenesis
    <2>5. PICK f : FromFile(Genesis, f, Len(Genesis.mimirs)) /\ f.r = r
      BY <1>5, GenesisRowsAre
    <2>6. Replay(0)' = r
      <3>1. FirstTotals' = r
        BY <1>1, <1>4, <2>4 DEF FirstTotals, Genesis
      <3>2. Recorded(r, chain', modes', 0) = r
        BY RecordedIs
      <3> HIDE DEF r
      <3> QED
        BY <3>1, <3>2 DEF Replay
    <2> HIDE DEF r
    <2>7. HasRows(r) /\ TellsInfo(r.rows, 0, Len(r.rows), NewRecorder, r)
      BY <2>5, NoInfo DEF FromFile, TellsInfo
    <2>8. IsSeq(rows) /\ IsSeq(r.rows) /\ TellsInfo(rows, 0, Len(rows), NewRecorder, NewRecorder)
      BY <2>3, <2>7, EmptyIs, NoInfo DEF HasRows
    <2>9. PICK rs : rs = rows'
      OBVIOUS
    <2>10. TellsInfo(rs, 0, Len(rs), NewRecorder, r)
      BY <2>4, <2>7, <2>8, <2>9, TellsJoined, ZenonT(60)
    <2>11. HasInfo(recorder', r)
      BY <2>4, <2>7 DEF HasRows, IsRecorder, HasInfo
    <2>12. pending'.rows = <<>> /\ Len(<<>>) = 0
      BY <1>1, <2>1, EmptyIs DEF NoPending
    <2>13. TellsInfo(<<>>, 0, 0, r, r)
      <3>1. r.status = [key \in DOMAIN r.status |-> r.status[key]] /\ r.mimir = [key \in DOMAIN r.mimir |-> r.mimir[key]]
        BY ONLY <2>7, InfoIsMap
      <3> QED
        BY ONLY <3>1, NothingToTell
    <2>14. Replay(next - 1)' = r /\ Replay(Stored)' = r /\ Replay(Stored + Waiting)' = r
      <3>1. next' - 1 = 0 /\ Stored' = 0 /\ Waiting' = 0 /\ 0 + 0 = 0
        BY <1>3, <2>3
      <3> QED
        BY <2>6, <3>1
    <2> QED
      BY <2>9, <2>10, <2>11, <2>12, <2>13, <2>14
  <1>6. CASE ~(HasGenesis /\ ~genesisConstant)
    <2>1. UNCHANGED <<recorder, rows, genesisConstant>>
      BY <1>6 DEF LoadGenesis
    <2>2. \A k \in Nat : Replay(k)' = Replay(k)
      BY <1>1, <2>1, ReplayIs
    <2>3. PICK R, T : R = Replay(s) /\ T = Replay(s + w)
      OBVIOUS
    <2>4. Replay(next - 1)' = T /\ Replay(Stored)' = R /\ Replay(Stored + Waiting)' = T
      <3>1. Replay(s)' = R /\ Replay(s + w)' = T
        BY <1>2, <2>2, <2>3
      <3> QED
        BY <1>3, <3>1
    <2>5. /\ HasInfo(recorder, T) /\ TellsInfo(rows, 0, Len(rows), NewRecorder, R)
          /\ TellsInfo(pending.rows, 0, Len(pending.rows), R, T)
      BY <1>1, <1>2, <1>3, <1>4, <2>3 DEF InfoInv
    <2> QED
      BY <1>1, <2>1, <2>4, <2>5
  <1> QED
    BY <1>5, <1>6

\* Of two recorders whose chain info is compared too, no pool is asked for.
WithInfo == [pools |-> {}, told |-> TRUE]

\* The rows of a block go behind those that wait, and tell what it changes of the chain info.
LEMMA ProcessBlockInfo ==
    ASSUME RecorderInv, TotalsInv, IdsInv, InfoInv, NEW commit \in BOOLEAN, ProcessBlock(commit)
    PROVE  InfoInv'
  <1> DEFINE r == RecordBlock(recorder, chain.id, Blocks[next])
             waiting == pending.rows \o r.rows
  <1>1. /\ pc = "running" /\ next <= Len(Blocks)
        /\ recorder' = [r EXCEPT !.rows = <<>>]
        /\ next' = next + 1 /\ modes' = Append(modes, recorder.immediate)
        /\ UNCHANGED <<chain, genesisConstant, inserterFail, pc, genesisKept>>
        /\ IF Commits(commit) THEN rows' = rows \o waiting /\ pending' = NoPending
           ELSE pending'.rows = waiting /\ UNCHANGED <<rows, blockLog>>
    <2>1. CASE Commits(commit)
      BY <2>1 DEF ProcessBlock, Flushed, Immediate
    <2>2. CASE ~Commits(commit)
      <3> DEFINE p == [rows |-> waiting,
                       blockLog |-> Append(pending.blockLog, [height |-> next, time |-> CorrectedTime(chain, next), state |-> NoState]),
                       history |-> pending.history \cup HistoryRows(snapshot, r, CorrectedTime(chain, next)),
                       prices |-> Append(pending.prices, PriceRow(r, chain.id, next, CorrectedTime(chain, next)))]
      <3>2. pending' = p /\ UNCHANGED <<rows, blockLog>>
        BY <2>2 DEF ProcessBlock
      <3>3. p.rows = waiting
        OBVIOUS
      <3> HIDE DEF p
      <3>1. pending'.rows = waiting
        BY <3>2, <3>3
      <3> QED
        BY <2>2, <3>1, <3>2 DEF ProcessBlock, Immediate
    <2> QED
      BY <2>1, <2>2
  <1> SUFFICES ASSUME ChainInfoIsStored'
               PROVE  /\ HasInfo(recorder', Replay(next - 1)')
                      /\ TellsInfo(rows', 0, Len(rows'), NewRecorder, Replay(Stored)')
                      /\ TellsInfo(pending'.rows, 0, Len(pending'.rows), Replay(Stored)', Replay(Stored + Waiting)')
    BY DEF InfoInv
  <1>2. PICK i \in DOMAIN Chains : chain = Chains[i]
    BY DEF RecorderInv
  <1>3. PICK s \in Nat, w \in Nat, n \in Nat : s = Stored /\ w = Waiting /\ next = n + 1 /\ n = s + w
    BY <1>1, Lengths DEF RecorderInv, BlocksInv
  <1>4. n + 1 \in 1..Len(Blocks) /\ Len(Blocks) \in Nat /\ n + 1 \in Nat /\ n + 1 > 0 /\ (n + 1) - 1 = n /\ Len(modes) = n
        /\ IsSeq(modes)
    BY <1>1, <1>2, <1>3, ChainFacts DEF RecorderInv, BlocksInv
  <1>5. ChainInfoIsStored
    BY <1>1, InfoStays
  <1>6. PICK R, T, U : R = Replay(s) /\ T = Replay(n) /\ U = Replay(n + 1)'
    OBVIOUS
  <1>7. /\ HasInfo(recorder, T) /\ TellsInfo(rows, 0, Len(rows), NewRecorder, R)
        /\ TellsInfo(pending.rows, 0, Len(pending.rows), R, T)
    <2>1. next - 1 = n
      BY <1>3, <1>4
    <2> QED
      BY <1>1, <1>3, <1>5, <1>6, <2>1 DEF InfoInv
  <1>8. modes'[n + 1] = recorder.immediate /\ \A h \in 1..n : modes'[h] = modes[h]
    <2>1. /\ Append(modes, recorder.immediate)[Len(modes) + 1] = recorder.immediate
          /\ \A h \in 1..Len(modes) : Append(modes, recorder.immediate)[h] = modes[h]
      BY <1>4, AppendIs
    <2> QED
      BY <1>1, <1>4, <2>1
  <1>9. Replay(s)' = R /\ Replay(n)' = T
    <2>1. \A h \in 1..s : h \in 1..n
      BY <1>3
    <2>2. Replay(s)' = Replay(s) /\ Replay(n)' = Replay(n)
      BY <1>1, <1>8, <2>1, ReplayIs
    <2> QED
      BY <1>6, <2>2
  <1>10. IsBlock(chain.blocks[n + 1])
    BY <1>4, FirstIs DEF Blocks
  <1>11. HasInfo(r, U)
    <2>1. IsRecorder(T)
      <3>1. IsRecorder(FirstTotals) /\ \A h \in 1..n : IsBlock(chain.blocks[h])
        BY <1>4, FirstIs DEF Blocks
      <3> QED
        BY <1>6, <3>1, RecordedGrows DEF Replay
    <2>2. Depths(recorder) = Depths(T) /\ IsRecorder(recorder)
      <3>1. next - 1 = n
        BY <1>3, <1>4
      <3> QED
        BY <1>1, <1>6, <3>1 DEF TotalsInv
    <2>3. SameDepths(WithInfo, recorder, T)
      BY <1>7, <2>1, <2>2 DEF SameDepths, SameInfo, WithInfo, HasInfo
    <2>4. PICK how : how = modes'
      OBVIOUS
    <2>5. recorder.immediate = how[n + 1]
      BY <1>8, <2>4
    <2>6. /\ SameDepths(WithInfo, Again(recorder, chain, how, n + 1), Again(T, chain, how, n + 1))
          /\ Again(recorder, chain, how, n + 1) = RecordBlock(recorder, chain.id, chain.blocks[n + 1])
      BY <1>10, <2>3, <2>5, AgainAlike
    <2>7. Recorded(FirstTotals', chain', how, n + 1) = Again(Recorded(FirstTotals', chain', how, n), chain', how, n + 1)
      BY <1>4, RecordedIs
    <2>8. Recorded(FirstTotals', chain', how, n) = T
      BY <1>9, <2>4 DEF Replay
    <2>9. U = Again(T, chain, how, n + 1)
      <3>1. Replay(n + 1)' = Recorded(FirstTotals', chain', how, n + 1)
        BY <2>4 DEF Replay
      <3> QED
        BY <1>1, <1>6, <2>7, <2>8, <3>1
    <2>10. r = RecordBlock(recorder, chain.id, chain.blocks[n + 1])
      BY <1>3 DEF Blocks
    <2> HIDE DEF r
    <2> QED
      BY <2>6, <2>9, <2>10 DEF SameDepths, SameInfo, WithInfo, HasInfo
  <1>12. HasRows(r) /\ TellsInfo(r.rows, 0, Len(r.rows), recorder, r)
    <2>1. HasRows(recorder) /\ recorder.rows = <<>>
      BY <1>1 DEF IdsInv
    <2>2. recorder.status = [key \in DOMAIN recorder.status |-> recorder.status[key]]
          /\ recorder.mimir = [key \in DOMAIN recorder.mimir |-> recorder.mimir[key]]
      <3>1. T.status = [key \in DOMAIN T.status |-> T.status[key]] /\ T.mimir = [key \in DOMAIN T.mimir |-> T.mimir[key]]
        BY <1>7, InfoIsMap
      <3> QED
        BY <1>7, <3>1 DEF HasInfo
    <2>3. \A k \in DOMAIN EventLists(Blocks[n + 1]) : \A l \in DOMAIN EventLists(Blocks[n + 1])[k] :
             EventLists(Blocks[n + 1])[k][l].type \in {"pool", "set_mimir"} => EventLists(Blocks[n + 1])[k][l].refused = {}
      <3>1. n + 1 \in DOMAIN Blocks
        BY <1>2, <1>4, RecorderAssumption DEF Blocks
      <3> QED
        BY <1>5, <3>1 DEF ChainInfoIsStored
    <2>4. PICK told \in BOOLEAN : told
      OBVIOUS
    <2>5. r = RecordBlock(recorder, chain.id, Blocks[n + 1])
      BY <1>3
    <2> HIDE DEF r
    <2> QED
      BY <1>2, <1>4, <2>1, <2>2, <2>3, <2>4, <2>5, RowsOfBlock DEF TellsInfo
  <1> HIDE DEF r
  <1>13. HasInfo(recorder', U)
    BY <1>1, <1>11, <1>12 DEF HasRows, IsRecorder, HasInfo
  <1>14. IsSeq(rows) /\ IsSeq(pending.rows) /\ IsSeq(r.rows) /\ IsSeq(waiting)
    <2>1. IsSeq(rows) /\ IsSeq(pending.rows) /\ IsSeq(r.rows)
      BY <1>12 DEF IdsInv, FromBlocks, HasRows
    <2> QED
      BY <2>1, ConcatIs
  <1>15. TellsInfo(r.rows, 0, Len(r.rows), T, U)
    BY <1>7, <1>11, <1>12 DEF TellsInfo, HasInfo
  <1>16. TellsInfo(waiting, 0, Len(waiting), R, U)
    BY <1>7, <1>14, <1>15, TellsJoined, ZenonT(60)
  <1> HIDE DEF waiting
  <1>17. PICK x \in Nat, y \in Nat : x = Stored' /\ y = Waiting' /\ x + y = n + 1
    <2>1. RecorderInv'
      BY ProcessBlockInv
    <2>2. Stored' \in Nat /\ Waiting' \in Nat
      BY <2>1, AppendIs DEF RecorderInv, BlocksInv, Stored, Waiting
    <2>3. next' = Stored' + Waiting' + 1
      BY <1>1, <2>1 DEF RecorderInv, BlocksInv
    <2>4. PICK x \in Nat, y \in Nat : x = Stored' /\ y = Waiting'
      BY <2>2
    <2>5. n + 1 + 1 = x + y + 1
      BY <1>1, <1>3, <2>3, <2>4
    <2>6. x + y = n + 1
      BY ONLY <2>5
    <2> QED
      BY <2>4, <2>6
  <1>18. Replay(Stored + Waiting)' = U /\ Replay(next - 1)' = U
    <2>1. next' - 1 = n + 1
      BY <1>1, <1>3
    <2>2. Stored' + Waiting' = n + 1
      BY <1>17
    <2> QED
      BY <1>6, <2>1, <2>2
  <1>19. CASE ~Commits(commit)
    <2>1. Stored' = s
      BY <1>1, <1>3, <1>19 DEF Stored
    <2>2. Replay(Stored)' = R
      BY <1>9, <2>1
    <2> QED
      BY <1>1, <1>7, <1>13, <1>16, <1>18, <1>19, <2>2
  <1>20. CASE Commits(commit)
    <2>1. rows' = rows \o waiting /\ pending'.rows = <<>> /\ Waiting' = 0 /\ Len(<<>>) = 0
      BY <1>1, <1>20, EmptyIs DEF NoPending, Waiting
    <2>2. Stored' = n + 1
      <3>1. y = 0
        BY <1>17, <2>1
      <3>2. x + 0 = x
        OBVIOUS
      <3> QED
        BY <1>17, <3>1, <3>2, Zenon
    <2>3. Replay(Stored)' = U
      BY <1>6, <2>2
    <2>4. PICK rs : rs = rows'
      OBVIOUS
    <2>5. TellsInfo(rs, 0, Len(rs), NewRecorder, U)
      <3>1. rs = rows \o waiting
        BY <2>1, <2>4
      <3> QED
        BY ONLY <1>7, <1>14, <1>16, <3>1, TellsJoined
    <2>6. TellsInfo(<<>>, 0, 0, U, U)
      <3>1. U.status = [key \in DOMAIN U.status |-> U.status[key]] /\ U.mimir = [key \in DOMAIN U.mimir |-> U.mimir[key]]
        BY ONLY <1>16, InfoIsMap
      <3> QED
        BY ONLY <3>1, NothingToTell
    <2> QED
      BY <1>13, <1>18, <2>1, <2>3, <2>4, <2>5, <2>6
  <1> QED
    BY <1>19, <1>20

\* No step loses chain info.
LEMMA InfoStep == ASSUME RecorderInv, TotalsInv, IdsInv, InfoInv, [Next]_vars PROVE InfoInv'
  <1>1. CASE Crash \/ \E commit \in BOOLEAN : FlushFails(commit)
    <2>1. Down /\ modes' = SubSeq(modes, 1, Len(blockLog)) /\ UNCHANGED <<chain, blockLog, rows, genesisConstant, genesisKept>>
      BY <1>1 DEF Crash, FlushFails, dbVars
    <2> QED
      BY <2>1, DownInfo
  <1>2. CASE UNCHANGED vars
    <2>1. /\ UNCHANGED <<chain, blockLog, rows, pending, genesisConstant, genesisKept, pc, recorder, next, modes>>
          /\ Stored' = Stored /\ Waiting' = Waiting
      BY <1>2 DEF vars, dbVars, memVars, Stored, Waiting
    <2>2. ChainInfoIsStored' => ChainInfoIsStored
      BY <2>1, InfoStays
    <2>3. \A k \in Nat : Replay(k)' = Replay(k)
      BY <2>1, ReplayIs
    <2>4. PICK s \in Nat, w \in Nat, t \in Nat : s = Stored /\ w = Waiting /\ t = s + w /\ (pc # "down" => next - 1 = t)
      BY Lengths DEF RecorderInv, BlocksInv
    <2>5. PICK R, T : R = Replay(s) /\ T = Replay(t) /\ R = Replay(s)' /\ T = Replay(t)'
      BY <2>3, <2>4
    <2>6. Replay(Stored)' = R /\ Replay(Stored + Waiting)' = T /\ (pc # "down" => Replay(next - 1)' = T)
      BY <2>1, <2>4, <2>5
    <2>7. ChainInfoIsStored => /\ pc # "down" => HasInfo(recorder, T)
                               /\ TellsInfo(rows, 0, Len(rows), NewRecorder, R)
                               /\ TellsInfo(pending.rows, 0, Len(pending.rows), R, T)
      BY <2>4, <2>5 DEF InfoInv
    <2> QED
      BY <2>1, <2>2, <2>6, <2>7 DEF InfoInv
  <1> QED
    BY <1>1, <1>2, SetupInfo, LoadGenesisInfo, ProcessBlockInfo DEF Next, Record1, SetupRefuses, Idle

\* The inductive invariant: the rows tell the chain info of the blocks that are stored, and those
\* in the batch inserter what the blocks that wait change of it (recorder.go, timeseries.Setup).
THEOREM InfoInvHolds == Spec => []InfoInv
  <1>1. Init => RecorderInv /\ TotalsInv /\ IdsInv /\ InfoInv
    BY InitRecorder, InitTotals, InitIds, InitInfo
  <1>2. RecorderInv /\ TotalsInv /\ IdsInv /\ InfoInv /\ [Next]_vars => RecorderInv' /\ TotalsInv' /\ IdsInv' /\ InfoInv'
    BY RecorderStep, TotalsStep, IdsStep, InfoStep
  <1> QED
    BY <1>1, <1>2, PTL DEF Spec

\* Whatever stopped the process and whatever was lost with it, the pool statuses and mimirs it goes
\* on from are those of the blocks before the next, if the database took every row of them and no
\* mimir was set twice at one time (timeseries.Setup, GetPoolsStatuses, GetAllLastConstantValue).
THEOREM ChainInfoSurvives == Spec => []ChainInfoSurvivesRestarts
  <1>1. InfoInv => ChainInfoSurvivesRestarts
    BY DEF InfoInv, ChainInfoSurvivesRestarts, HasInfo
  <1> QED
    BY <1>1, InfoInvHolds, PTL

=============================================================================
