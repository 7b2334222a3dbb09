----------------------------- MODULE HandlersProofs -----------------------------
(***************************************************************************)
(* What the recorder makes of a block depends on the running totals and on *)
(* the inserter, not on how the recorder came to have them: two recorders  *)
(* with the same totals have the same totals after the same block, whether *)
(* they were restored from the database or went on.  And no handler        *)
(* forgets a pool.                                                         *)
(*                                                                         *)
(* The rows it writes of a block are in the order of their ids, each of    *)
(* the block's height and time, however events are nested, skipped,        *)
(* corrected and refused; and the rows of a block or of a genesis file     *)
(* tell how the statuses of the pools and the mimirs have changed.         *)
(*                                                                         *)
(* The folds over events, messages and amounts are unfolded to the lists   *)
(* of their results (Steps), for every fold in the same way.               *)
(***************************************************************************)
EXTENDS Recorder, SortingProofs, FiniteSetTheorems

-----------------------------------------------------------------------------
(* Recorders that are alike.                                               *)

\* A recorder, by what it has.
IsRecorder(r) == {"asset", "rune", "synth", "status", "mimir", "rows", "n", "refused", "immediate",
                  "poisoned"} \subseteq DOMAIN r

\* The totals and the inserter are the same, and the pools of a set are known; so is the chain info,
\* if the two are to be compared in it as well.
SameInfo(P, r, s) == P.told => r.status = s.status /\ r.mimir = s.mimir
SameTotals(P, r, s) ==
    /\ IsRecorder(r) /\ IsRecorder(s)
    /\ r.asset = s.asset /\ r.rune = s.rune /\ r.synth = s.synth /\ r.immediate = s.immediate
    /\ P.pools \subseteq DOMAIN r.asset \cup DOMAIN r.rune \cup DOMAIN r.synth
    /\ SameInfo(P, r, s)

\* So is what the database thinks of the rows of the event at hand.
Alike(P, r, s) == SameTotals(P, r, s) /\ r.n = s.n /\ r.refused = s.refused

\* A row is taken or refused alike: what it says of an amount does not matter.
LEMMA InsertAlike ==
    ASSUME NEW P, NEW r, NEW s, Alike(P, r, s), NEW table, NEW m, NEW data, NEW data2
    PROVE  /\ Alike(P, InsertWithMeta(r, table, m, data), InsertWithMeta(s, table, m, data2))
           /\ Accepts(r) <=> Accepts(s)
  BY DEF Alike, SameTotals, SameInfo, IsRecorder, InsertWithMeta, Accepts

\* An amount that is added makes no pool unknown.
LEMMA AddedTo ==
    ASSUME NEW depths, NEW pool, NEW e8
    PROVE  DOMAIN depths \subseteq DOMAIN AddTo(depths, pool, e8)
  BY DEF AddTo

\* So it does to none of the three depths.
LEMMA AddAlike ==
    ASSUME NEW P, NEW r, NEW s, Alike(P, r, s), NEW pool, NEW e8
    PROVE  /\ Alike(P, AddPoolAssetE8Depth(r, pool, e8), AddPoolAssetE8Depth(s, pool, e8))
           /\ Alike(P, AddPoolRuneE8Depth(r, pool, e8), AddPoolRuneE8Depth(s, pool, e8))
           /\ Alike(P, AddPoolSynthE8Depth(r, pool, e8), AddPoolSynthE8Depth(s, pool, e8))
  <1>1. Alike(P, AddPoolAssetE8Depth(r, pool, e8), AddPoolAssetE8Depth(s, pool, e8))
    BY AddedTo DEF Alike, SameTotals, SameInfo, IsRecorder, AddPoolAssetE8Depth
  <1>2. Alike(P, AddPoolRuneE8Depth(r, pool, e8), AddPoolRuneE8Depth(s, pool, e8))
    BY AddedTo DEF Alike, SameTotals, SameInfo, IsRecorder, AddPoolRuneE8Depth
  <1>3. Alike(P, AddPoolSynthE8Depth(r, pool, e8), AddPoolSynthE8Depth(s, pool, e8))
    BY AddedTo DEF Alike, SameTotals, SameInfo, IsRecorder, AddPoolSynthE8Depth
  <1> QED
    BY <1>1, <1>2, <1>3

\* Nor does a depth that is set, and statuses and mimirs are not among the totals.
LEMMA SetAlike ==
    ASSUME NEW P, NEW r, NEW s, Alike(P, r, s), NEW pool, NEW e8
    PROVE  /\ Alike(P, SetAssetDepth(r, pool, e8), SetAssetDepth(s, pool, e8))
           /\ Alike(P, SetRuneDepth(r, pool, e8), SetRuneDepth(s, pool, e8))
           /\ Alike(P, SetSynthDepth(r, pool, e8), SetSynthDepth(s, pool, e8))
           /\ Alike(P, SetPoolStatus(r, pool, e8), SetPoolStatus(s, pool, e8))
           /\ Alike(P, SetMimirStatus(r, pool, e8), SetMimirStatus(s, pool, e8))
  <1>1. \A depths : DOMAIN depths \subseteq DOMAIN SetTo(depths, pool, e8)
    BY DEF SetTo
  <1>2. Alike(P, SetAssetDepth(r, pool, e8), SetAssetDepth(s, pool, e8))
    BY <1>1 DEF Alike, SameTotals, SameInfo, IsRecorder, SetAssetDepth
  <1>3. Alike(P, SetRuneDepth(r, pool, e8), SetRuneDepth(s, pool, e8))
    BY <1>1 DEF Alike, SameTotals, SameInfo, IsRecorder, SetRuneDepth
  <1>4. Alike(P, SetSynthDepth(r, pool, e8), SetSynthDepth(s, pool, e8))
    BY <1>1 DEF Alike, SameTotals, SameInfo, IsRecorder, SetSynthDepth
  <1>5. Alike(P, SetPoolStatus(r, pool, e8), SetPoolStatus(s, pool, e8))
    BY DEF Alike, SameTotals, SameInfo, IsRecorder, SetPoolStatus
  <1>6. Alike(P, SetMimirStatus(r, pool, e8), SetMimirStatus(s, pool, e8))
    BY DEF Alike, SameTotals, SameInfo, IsRecorder, SetMimirStatus
  <1> QED
    BY <1>2, <1>3, <1>4, <1>5, <1>6

\* What the handlers read of the totals.
LEMMA ReadAlike ==
    ASSUME NEW P, NEW r, NEW s, Alike(P, r, s)
    PROVE  r.asset = s.asset /\ r.rune = s.rune /\ r.synth = s.synth /\ (Accepts(r) <=> Accepts(s))
  BY DEF Alike, SameTotals, Accepts

-----------------------------------------------------------------------------
(* One event.                                                              *)

\* Each event moves the totals by what it says, and by the totals themselves (demux.go, recorder.go).
\* An add, of an asset or of the yield of savers.
LEMMA OnAddAlike ==
    ASSUME NEW P, NEW r, NEW s, Alike(P, r, s), NEW x, NEW m
    PROVE  Alike(P, OnAdd(r, x, m), OnAdd(s, x, m))
  <1> DEFINE native == ConvertSynthPoolToNative(x.pool)
             saver == x.pool.sep = "/" /\ x.memo = "THOR-SAVERS-YIELD"
             Minted(t) == IF saver THEN AddPoolSynthE8Depth(t, native, x.asset.e8) ELSE t
             Stored(t) == IF saver THEN InsertWithMeta(Minted(t), "rewards_event_entries", m, <<native, 0, x.asset.e8>>)
                          ELSE InsertWithMeta(t, "add_events", m, <<x.pool, x.asset.e8, x.rune_e8>>)
  <1>1. Alike(P, Minted(r), Minted(s))
    BY AddAlike
  <1> HIDE DEF Minted
  <1>2. Alike(P, Stored(r), Stored(s))
    BY <1>1, InsertAlike
  <1> HIDE DEF Stored, saver, native
  <1>3. Alike(P, AddPoolAssetE8Depth(Stored(r), x.pool, x.asset.e8), AddPoolAssetE8Depth(Stored(s), x.pool, x.asset.e8))
    BY <1>2, AddAlike
  <1>4. \A t : OnAdd(t, x, m) = IF ~Accepts(t) THEN Stored(t)
                  ELSE AddPoolRuneE8Depth(AddPoolAssetE8Depth(Stored(t), x.pool, x.asset.e8), x.pool, x.rune_e8)
    BY DEF OnAdd, Stored, Minted, saver, native
  <1> QED
    BY <1>2, <1>3, <1>4, AddAlike, ReadAlike

\* An errata.
LEMMA OnErrataAlike ==
    ASSUME NEW P, NEW r, NEW s, Alike(P, r, s), NEW x, NEW m
    PROVE  Alike(P, OnErrata(r, x, m), OnErrata(s, x, m))
  BY InsertAlike, AddAlike, ReadAlike DEF OnErrata

\* Gas.
LEMMA OnGasAlike ==
    ASSUME NEW P, NEW r, NEW s, Alike(P, r, s), NEW x, NEW m
    PROVE  Alike(P, OnGas(r, x, m), OnGas(s, x, m))
  BY InsertAlike, AddAlike, ReadAlike DEF OnGas

\* A stake.
LEMMA OnStakeAlike ==
    ASSUME NEW P, NEW r, NEW s, Alike(P, r, s), NEW x, NEW m
    PROVE  Alike(P, OnStake(r, x, m), OnStake(s, x, m))
  BY InsertAlike, AddAlike, ReadAlike DEF OnStake

\* A swap: which depths it moves depends on what is sold and bought.
LEMMA OnSwapAlike ==
    ASSUME NEW P, NEW r, NEW s, Alike(P, r, s), NEW x, NEW m, NEW height
    PROVE  Alike(P, OnSwap(r, x, m, height), OnSwap(s, x, m, height))
  <1> DEFINE from == GetCoinType(x.coin.asset)
             to == GetCoinType(x.emit_asset.asset)
             fee == x.liquidity_fee_in_rune
             undelayed == m.height >= height
             Stored(t) == InsertWithMeta(t, "swap_events", m, <<x.pool, x.coin, x.emit_asset>>)
             Charged(t) == AddPoolRuneE8Depth(Stored(t), x.pool, -fee)
             Reported(t) == InsertWithMeta(Charged(t), "rewards_event_entries", m, <<x.pool, -fee, 0>>)
             Paid(t) == IF ~undelayed THEN Stored(t) ELSE IF x.pool = ThorTCY THEN Charged(t) ELSE Reported(t)
             Native(t) == IF from = "AssetNative" THEN AddPoolAssetE8Depth(Paid(t), x.pool, x.coin.e8) ELSE Paid(t)
             Synth(t) == IF from = "AssetSynth" THEN AddPoolSynthE8Depth(Paid(t), x.pool, -x.coin.e8) ELSE Native(t)
             Sold(t) == AddPoolRuneE8Depth(Synth(t), x.pool, -x.emit_asset.e8)
             Rune(t) == AddPoolRuneE8Depth(Paid(t), x.pool, x.coin.e8)
             Bought(t) == CASE to = "AssetNative" -> AddPoolAssetE8Depth(Rune(t), x.pool, -x.emit_asset.e8)
                            [] to = "AssetSynth"  -> AddPoolSynthE8Depth(Rune(t), x.pool, x.emit_asset.e8)
                            [] OTHER              -> Rune(t)
  <1>1. Alike(P, Stored(r), Stored(s))
    BY InsertAlike
  <1>2. Alike(P, Charged(r), Charged(s))
    BY <1>1, AddAlike
  <1>3. Alike(P, Reported(r), Reported(s))
    BY <1>2, InsertAlike
  <1>4. Alike(P, Paid(r), Paid(s))
    BY <1>1, <1>2, <1>3
  <1> HIDE DEF Paid
  <1>5. Alike(P, Synth(r), Synth(s)) /\ Alike(P, Rune(r), Rune(s))
    BY <1>4, AddAlike
  <1> HIDE DEF Synth, Rune
  <1>6. Alike(P, Sold(r), Sold(s)) /\ Alike(P, Bought(r), Bought(s))
    BY <1>5, AddAlike
  <1>7. \A t : OnSwap(t, x, m, height) =
              IF ~IsSwap(from, to) THEN t
              ELSE IF ~Accepts(t) THEN Stored(t)
              ELSE IF undelayed /\ x.pool # ThorTCY /\ ~Accepts(Charged(t)) THEN Reported(t)
              ELSE IF to = "Switch" THEN Sold(t) ELSE Bought(t)
    BY DEF OnSwap, Paid, Synth, Rune
  <1>8. (Accepts(r) <=> Accepts(s)) /\ (Accepts(Charged(r)) <=> Accepts(Charged(s)))
    BY <1>2, ReadAlike
  <1> HIDE DEF Stored, Charged, Reported, Sold, Bought, from, to, undelayed
  <1> QED
    BY <1>1, <1>3, <1>6, <1>7, <1>8

\* A fee.
LEMMA OnFeeAlike ==
    ASSUME NEW P, NEW r, NEW s, Alike(P, r, s), NEW x, NEW m
    PROVE  Alike(P, OnFee(r, x, m), OnFee(s, x, m))
  BY InsertAlike, AddAlike, ReadAlike DEF OnFee

\* A pool.
LEMMA OnPoolAlike ==
    ASSUME NEW P, NEW r, NEW s, Alike(P, r, s), NEW x, NEW m
    PROVE  Alike(P, OnPool(r, x, m), OnPool(s, x, m))
  BY InsertAlike, SetAlike, ReadAlike DEF OnPool

\* A withdrawal.
LEMMA OnWithdrawAlike ==
    ASSUME NEW P, NEW r, NEW s, Alike(P, r, s), NEW x, NEW m, NEW kept, NEW pooled
    PROVE  Alike(P, OnWithdraw(r, x, m, kept, pooled), OnWithdraw(s, x, m, kept, pooled))
  BY InsertAlike, AddAlike, ReadAlike, SMTT(60) DEF OnWithdraw

\* A change of balance.
LEMMA OnPoolBalanceChangeAlike ==
    ASSUME NEW P, NEW r, NEW s, Alike(P, r, s), NEW x, NEW m
    PROVE  Alike(P, OnPoolBalanceChange(r, x, m), OnPoolBalanceChange(s, x, m))
  BY InsertAlike, AddAlike, ReadAlike DEF OnPoolBalanceChange

\* A mint or a burn.
LEMMA OnMintBurnAlike ==
    ASSUME NEW P, NEW r, NEW s, Alike(P, r, s), NEW x, NEW m
    PROVE  Alike(P, OnMintBurn(r, x, m), OnMintBurn(s, x, m))
  BY InsertAlike, AddAlike, ReadAlike DEF OnMintBurn

\* A deposit or a withdrawal of an account.
LEMMA OnAccountEventAlike ==
    ASSUME NEW P, NEW r, NEW s, Alike(P, r, s), NEW table, NEW x, NEW m, NEW sign
    PROVE  Alike(P, OnAccountEvent(r, table, x, m, sign), OnAccountEvent(s, table, x, m, sign))
  BY InsertAlike, AddAlike, ReadAlike DEF OnAccountEvent

-----------------------------------------------------------------------------
(* Folds.                                                                  *)

\* The steps of the folds, numbered; c is what the fold takes from outside.
Step(k, c, acc, e) ==
    CASE k = 1  -> RewardEntry(acc, c[1], c[2], e)
      [] k = 2  -> PayReward(acc, c[1], e)
      [] k = 3  -> SlashAmount(acc, c[1], c[2], e)
      [] k = 4  -> processMsg(acc, c[1], c[2], e)
      [] k = 5  -> RecordEvent(acc, c[1], c[2], c[3], c[4], c[5], e)
      [] k = 6  -> RecordTxEvent(acc, c[1], c[2], c[3], c[4], c[5], e)
      [] k = 7  -> AddMissingEvent(acc, c[1], c[2], e)
      [] k = 8  -> NextTx(acc, c[1], c[2], c[3], e)
      [] k = 9  -> GenPool(acc, e)
      [] k = 10 -> GenSupply(acc, e)
      [] k = 11 -> GenTransfer(acc)
      [] k = 12 -> GenLP(acc, e)
      [] k = 13 -> GenTHORName(acc)
      [] k = 14 -> GenNode(acc)
      [] k = 15 -> GenLoan(acc, e)
      [] k = 16 -> GenMimir(acc, e)
      [] k = 17 -> Again(acc, c[1], c[2], e)

\* The results of a fold over the first elements of a sequence.
Steps(k, c, t, base, seq, n) == t[0] = base /\ \A i \in 1..n : t[i] = Step(k, c, t[i - 1], seq[i])

\* The recursion of FoldLeft.
IsIter(k, c, g, base, seq, n) ==
    g = [s \in SUBSET (1..n) |-> IF s = {} THEN base ELSE Step(k, c, g[s \ {Max(s)}], seq[Max(s)])]

\* A set of numbers that has the first and with each the next has the last.
LEMMA Climb ==
    ASSUME NEW n \in Nat, NEW S, 0 \in S, \A k \in 1..n : k - 1 \in S => k \in S
    PROVE  n \in S
  <1> DEFINE Missed == {k \in 0..n : k \notin S}
  <1> SUFFICES ASSUME n \notin S PROVE FALSE
    OBVIOUS
  <1>1. n \in Missed /\ Missed \subseteq Nat
    OBVIOUS
  <1>2. PICK k \in Missed : \A l \in Missed : k <= l
    <2> HIDE DEF Missed
    <2> QED
      BY <1>1, MinIsOne
  <1> QED
    BY <1>2

\* The last number is the greatest up to it.
LEMMA GreatestOfInitial == ASSUME NEW k \in Nat, NEW s, s \subseteq 1..k, k \in s PROVE Max(s) = k
  <1>1. \A y \in s : y \in Int /\ k >= y
    OBVIOUS
  <1>2. \A x \in s : (\A y \in s : x >= y) => x = k
    BY <1>1
  <1> QED
    BY <1>1, <1>2, Zenon DEF Max

\* There is one.
LEMMA Iterates ==
    ASSUME NEW k, NEW c, NEW base, NEW seq, NEW n \in Nat
    PROVE  \E g : IsIter(k, c, g, base, seq, n)
  <1> DEFINE Body(g, s) == IF s = {} THEN base ELSE Step(k, c, g[s \ {Max(s)}], seq[Max(s)])
             Iter(i) == \E g : g = [s \in SUBSET (1..i) |-> Body(g, s)]
             S == {i \in 0..n : Iter(i)}
  <1>1. Iter(0)
    <2> DEFINE g == [s \in SUBSET (1..0) |-> base]
    <2>1. \A s \in SUBSET (1..0) : s = {}
      OBVIOUS
    <2>2. g = [s \in SUBSET (1..0) |-> Body(g, s)]
      BY <2>1
    <2> QED
      BY <2>2
  <1>2. ASSUME NEW i \in 1..n, Iter(i - 1) PROVE Iter(i)
    <2> DEFINE below == SUBSET (1..(i - 1))
    <2>1. PICK g : g = [s \in below |-> Body(g, s)]
      BY <1>2
    <2> DEFINE h == [s \in SUBSET (1..i) |-> IF i \in s THEN Step(k, c, g[s \ {i}], seq[i]) ELSE g[s]]
    <2>2. ASSUME NEW s \in SUBSET (1..i) PROVE h[s] = Body(h, s)
      <3>1. CASE i \in s
        <4>1. s # {} /\ s \ {i} \in below /\ s \ {i} \in SUBSET (1..i) /\ i \notin s \ {i}
          BY <3>1
        <4>2. Max(s) = i
          <5>1. i \in Nat /\ s \subseteq 1..i
            OBVIOUS
          <5> QED
            BY ONLY <3>1, <5>1, GreatestOfInitial
        <4>3. h[s \ {i}] = g[s \ {i}]
          BY <4>1
        <4> QED
          BY <3>1, <4>1, <4>2, <4>3
      <3>2. CASE i \notin s
        <4>1. s \in below /\ s \ {Max(s)} \in SUBSET (1..i) /\ i \notin s \ {Max(s)}
          <5> DEFINE rest == s \ {Max(s)}
          <5>1. rest \subseteq s
            OBVIOUS
          <5> HIDE DEF rest
          <5>2. s \in below /\ rest \in SUBSET (1..i) /\ i \notin rest
            BY <3>2, <5>1
          <5> QED
            BY <5>2 DEF rest
        <4>2. g[s] = Body(g, s)
          BY <2>1, <4>1
        <4>3. h[s] = g[s] /\ h[s \ {Max(s)}] = g[s \ {Max(s)}]
          BY <3>2, <4>1
        <4> QED
          BY <4>2, <4>3
      <3> QED
        BY <3>1, <3>2
    <2>3. h = [s \in SUBSET (1..i) |-> h[s]]
      OBVIOUS
    <2> HIDE DEF h
    <2>4. h = [s \in SUBSET (1..i) |-> Body(h, s)]
      BY <2>2, <2>3
    <2> QED
      BY <2>4
  <1> HIDE DEF Iter
  <1>3. 0 \in S /\ \A i \in 1..n : i - 1 \in S => i \in S
    BY <1>1, <1>2
  <1>4. n \in S
    BY <1>3, Climb
  <1> QED
    BY <1>4 DEF Iter, IsIter

\* Its values on the first elements are the steps.
LEMMA Traced ==
    ASSUME NEW k, NEW c, NEW base, NEW seq, NEW n \in Nat, NEW iter,
           IsIter(k, c, iter, base, seq, n)
    PROVE  \E t : Steps(k, c, t, base, seq, n) /\ t[n] = iter[1..n]
  <1> DEFINE t == [i \in 0..n |-> iter[1..i]]
  <1>1. t[0] = base
    BY 1..0 = {} DEF IsIter
  <1>2. ASSUME NEW i \in 1..n PROVE t[i] = Step(k, c, t[i - 1], seq[i])
    <2>1. 1..i \in SUBSET (1..n) /\ 1..i # {} /\ i \in 1..i /\ i \in Nat /\ (1..i) \ {i} = 1..(i - 1)
      OBVIOUS
    <2>2. Max(1..i) = i
      BY ONLY <2>1, GreatestOfInitial
    <2>3. i \in 0..n /\ i - 1 \in 0..n
      OBVIOUS
    <2> QED
      BY <2>1, <2>2, <2>3 DEF IsIter
  <1>3. Steps(k, c, t, base, seq, n) /\ t[n] = iter[1..n]
    BY <1>1, <1>2 DEF Steps
  <1> QED
    BY <1>3

\* The steps of each fold: the entries of a reward,
LEMMA RewardEntriesSteps ==
    ASSUME NEW r, NEW x, NEW m, NEW seq, seq = SetToSeq(DOMAIN x.perPool),
           NEW n \in Nat, DOMAIN seq = 1..n
    PROVE  \E t : /\ Steps(1, <<x, m>>, t, [lost |-> ~Accepts(r), r |-> InsertWithMeta(r, "rewards_events", m, <<>>)], seq, n)
                  /\ t[n] = RewardEntries(r, x, m)
  <1> DEFINE c == <<x, m>>
             base == [lost |-> ~Accepts(r), r |-> InsertWithMeta(r, "rewards_events", m, <<>>)]
             iter[s \in SUBSET (1..n)] == IF s = {} THEN base ELSE
                 RewardEntry(iter[s \ {Max(s)}], x, m, seq[Max(s)])
  <1>1. iter[1..n] = RewardEntries(r, x, m)
    BY Zenon DEF RewardEntries, FoldLeft, MapThenFoldSet
  <1>2. \A a, e : Step(1, c, a, e) = RewardEntry(a, x, m, e)
    BY DEF Step
  <1> HIDE DEF c, base
  <1>3. PICK g : IsIter(1, c, g, base, seq, n)
    BY Iterates
  <1>4. g = [s \in SUBSET (1..n) |-> IF s = {} THEN base ELSE
                RewardEntry(g[s \ {Max(s)}], x, m, seq[Max(s)])]
    BY <1>2, <1>3, ZenonT(60) DEF IsIter
  <1>5. iter = [s \in SUBSET (1..n) |-> IF s = {} THEN base ELSE
                RewardEntry(iter[s \ {Max(s)}], x, m, seq[Max(s)])]
    BY <1>4, Zenon
  <1> HIDE DEF iter
  <1>6. IsIter(1, c, iter, base, seq, n)
    BY <1>2, <1>5, ZenonT(90) DEF IsIter
  <1>7. PICK t : Steps(1, c, t, base, seq, n) /\ t[n] = iter[1..n]
    BY <1>6, Traced
  <1> QED
    BY <1>1, <1>7 DEF c, base

\* what it pays to the pools,
LEMMA PayRewardsSteps ==
    ASSUME NEW r, NEW x, NEW seq, seq = SetToSeq(DOMAIN x.perPool),
           NEW n \in Nat, DOMAIN seq = 1..n
    PROVE  \E t : Steps(2, <<x>>, t, r, seq, n) /\ t[n] = PayRewards(r, x)
  <1> DEFINE c == <<x>>
             base == r
             iter[s \in SUBSET (1..n)] == IF s = {} THEN base ELSE
                 PayReward(iter[s \ {Max(s)}], x, seq[Max(s)])
  <1>1. iter[1..n] = PayRewards(r, x)
    BY Zenon DEF PayRewards, FoldLeft, MapThenFoldSet
  <1>2. \A a, e : Step(2, c, a, e) = PayReward(a, x, e)
    BY DEF Step
  <1> HIDE DEF c, base
  <1>3. PICK g : IsIter(2, c, g, base, seq, n)
    BY Iterates
  <1>4. g = [s \in SUBSET (1..n) |-> IF s = {} THEN base ELSE
                PayReward(g[s \ {Max(s)}], x, seq[Max(s)])]
    BY <1>2, <1>3, ZenonT(60) DEF IsIter
  <1>5. iter = [s \in SUBSET (1..n) |-> IF s = {} THEN base ELSE
                PayReward(iter[s \ {Max(s)}], x, seq[Max(s)])]
    BY <1>4, Zenon
  <1> HIDE DEF iter
  <1>6. IsIter(2, c, iter, base, seq, n)
    BY <1>2, <1>5, ZenonT(90) DEF IsIter
  <1>7. PICK t : Steps(2, c, t, base, seq, n) /\ t[n] = iter[1..n]
    BY <1>6, Traced
  <1> QED
    BY <1>1, <1>7 DEF c, base

\* the amounts that are slashed,
LEMMA OnSlashSteps ==
    ASSUME NEW r, NEW x, NEW m, NEW seq, seq = SetToSeq(DOMAIN x.amounts),
           NEW n \in Nat, DOMAIN seq = 1..n
    PROVE  \E t : Steps(3, <<x, m>>, t, r, seq, n) /\ t[n] = OnSlash(r, x, m)
  <1> DEFINE c == <<x, m>>
             base == r
             iter[s \in SUBSET (1..n)] == IF s = {} THEN base ELSE
                 SlashAmount(iter[s \ {Max(s)}], x, m, seq[Max(s)])
  <1>1. iter[1..n] = OnSlash(r, x, m)
    BY Zenon DEF OnSlash, FoldLeft, MapThenFoldSet
  <1>2. \A a, e : Step(3, c, a, e) = SlashAmount(a, x, m, e)
    BY DEF Step
  <1> HIDE DEF c, base
  <1>3. PICK g : IsIter(3, c, g, base, seq, n)
    BY Iterates
  <1>4. g = [s \in SUBSET (1..n) |-> IF s = {} THEN base ELSE
                SlashAmount(g[s \ {Max(s)}], x, m, seq[Max(s)])]
    BY <1>2, <1>3, ZenonT(60) DEF IsIter
  <1>5. iter = [s \in SUBSET (1..n) |-> IF s = {} THEN base ELSE
                SlashAmount(iter[s \ {Max(s)}], x, m, seq[Max(s)])]
    BY <1>4, Zenon
  <1> HIDE DEF iter
  <1>6. IsIter(3, c, iter, base, seq, n)
    BY <1>2, <1>5, ZenonT(90) DEF IsIter
  <1>7. PICK t : Steps(3, c, t, base, seq, n) /\ t[n] = iter[1..n]
    BY <1>6, Traced
  <1> QED
    BY <1>1, <1>7 DEF c, base

\* the messages of a transaction,
LEMMA processMsgsSteps ==
    ASSUME NEW r, NEW tx, NEW m, NEW seq, seq = tx.msgs,
           NEW n \in Nat, DOMAIN seq = 1..n
    PROVE  \E t : /\ Steps(4, <<tx, m>>, t, [r |-> r, done |-> FALSE], seq, n)
                  /\ t[n] = processMsgs(r, tx, m)
  <1> DEFINE c == <<tx, m>>
             base == [r |-> r, done |-> FALSE]
             iter[s \in SUBSET (1..n)] == IF s = {} THEN base ELSE
                 processMsg(iter[s \ {Max(s)}], tx, m, seq[Max(s)])
  <1>1. iter[1..n] = processMsgs(r, tx, m)
    BY Zenon DEF processMsgs, FoldLeft, MapThenFoldSet
  <1>2. \A a, e : Step(4, c, a, e) = processMsg(a, tx, m, e)
    BY DEF Step
  <1> HIDE DEF c, base
  <1>3. PICK g : IsIter(4, c, g, base, seq, n)
    BY Iterates
  <1>4. g = [s \in SUBSET (1..n) |-> IF s = {} THEN base ELSE
                processMsg(g[s \ {Max(s)}], tx, m, seq[Max(s)])]
    BY <1>2, <1>3, ZenonT(60) DEF IsIter
  <1>5. iter = [s \in SUBSET (1..n) |-> IF s = {} THEN base ELSE
                processMsg(iter[s \ {Max(s)}], tx, m, seq[Max(s)])]
    BY <1>4, Zenon
  <1> HIDE DEF iter
  <1>6. IsIter(4, c, iter, base, seq, n)
    BY <1>2, <1>5, ZenonT(90) DEF IsIter
  <1>7. PICK t : Steps(4, c, t, base, seq, n) /\ t[n] = iter[1..n]
    BY <1>6, Traced
  <1> QED
    BY <1>1, <1>7 DEF c, base

\* the events of a block that are not of a transaction,
LEMMA RecordFinalizeSteps ==
    ASSUME NEW r, NEW id, NEW b, NEW location, NEW modez, NEW m, NEW seq, seq = b.finalize,
           NEW n \in Nat, DOMAIN seq = 1..n
    PROVE  \E t : /\ Steps(5, <<id, b, location, modez, m>>, t, [r |-> r, index |-> 1], seq, n)
                  /\ t[n] = RecordFinalize(r, id, b, location, modez, m)
  <1> DEFINE c == <<id, b, location, modez, m>>
             base == [r |-> r, index |-> 1]
             iter[s \in SUBSET (1..n)] == IF s = {} THEN base ELSE
                 RecordEvent(iter[s \ {Max(s)}], id, b, location, modez, m, seq[Max(s)])
  <1>1. iter[1..n] = RecordFinalize(r, id, b, location, modez, m)
    BY Zenon DEF RecordFinalize, FoldLeft, MapThenFoldSet
  <1>2. \A a, e : Step(5, c, a, e) = RecordEvent(a, id, b, location, modez, m, e)
    BY DEF Step
  <1> HIDE DEF c, base
  <1>3. PICK g : IsIter(5, c, g, base, seq, n)
    BY Iterates
  <1>4. g = [s \in SUBSET (1..n) |-> IF s = {} THEN base ELSE
                RecordEvent(g[s \ {Max(s)}], id, b, location, modez, m, seq[Max(s)])]
    BY <1>2, <1>3, ZenonT(60) DEF IsIter
  <1>5. iter = [s \in SUBSET (1..n) |-> IF s = {} THEN base ELSE
                RecordEvent(iter[s \ {Max(s)}], id, b, location, modez, m, seq[Max(s)])]
    BY <1>4, Zenon
  <1> HIDE DEF iter
  <1>6. IsIter(5, c, iter, base, seq, n)
    BY <1>2, <1>5, ZenonT(90) DEF IsIter
  <1>7. PICK t : Steps(5, c, t, base, seq, n) /\ t[n] = iter[1..n]
    BY <1>6, Traced
  <1> QED
    BY <1>1, <1>7 DEF c, base

\* those of a transaction,
LEMMA RecordTxEventsSteps ==
    ASSUME NEW r, NEW id, NEW b, NEW tx, NEW txIndex, NEW m, NEW seq, seq = tx.events,
           NEW n \in Nat, DOMAIN seq = 1..n
    PROVE  \E t : /\ Steps(6, <<id, b, tx, txIndex, m>>, t, [r |-> r, index |-> 1], seq, n)
                  /\ t[n] = RecordTxEvents(r, id, b, tx, txIndex, m)
  <1> DEFINE c == <<id, b, tx, txIndex, m>>
             base == [r |-> r, index |-> 1]
             iter[s \in SUBSET (1..n)] == IF s = {} THEN base ELSE
                 RecordTxEvent(iter[s \ {Max(s)}], id, b, tx, txIndex, m, seq[Max(s)])
  <1>1. iter[1..n] = RecordTxEvents(r, id, b, tx, txIndex, m)
    BY Zenon DEF RecordTxEvents, FoldLeft, MapThenFoldSet
  <1>2. \A a, e : Step(6, c, a, e) = RecordTxEvent(a, id, b, tx, txIndex, m, e)
    BY DEF Step
  <1> HIDE DEF c, base
  <1>3. PICK g : IsIter(6, c, g, base, seq, n)
    BY Iterates
  <1>4. g = [s \in SUBSET (1..n) |-> IF s = {} THEN base ELSE
                RecordTxEvent(g[s \ {Max(s)}], id, b, tx, txIndex, m, seq[Max(s)])]
    BY <1>2, <1>3, ZenonT(60) DEF IsIter
  <1>5. iter = [s \in SUBSET (1..n) |-> IF s = {} THEN base ELSE
                RecordTxEvent(iter[s \ {Max(s)}], id, b, tx, txIndex, m, seq[Max(s)])]
    BY <1>4, Zenon
  <1> HIDE DEF iter
  <1>6. IsIter(6, c, iter, base, seq, n)
    BY <1>2, <1>5, ZenonT(90) DEF IsIter
  <1>7. PICK t : Steps(6, c, t, base, seq, n) /\ t[n] = iter[1..n]
    BY <1>6, Traced
  <1> QED
    BY <1>1, <1>7 DEF c, base

\* the events a correction adds,
LEMMA AddMissingEventsSteps ==
    ASSUME NEW r, NEW id, NEW m, NEW seq, seq = AdditionalEvents(id),
           NEW n \in Nat, DOMAIN seq = 1..n
    PROVE  \E t : Steps(7, <<id, m>>, t, r, seq, n) /\ t[n] = AddMissingEvents(r, id, m)
  <1> DEFINE c == <<id, m>>
             base == r
             iter[s \in SUBSET (1..n)] == IF s = {} THEN base ELSE
                 AddMissingEvent(iter[s \ {Max(s)}], id, m, seq[Max(s)])
  <1>1. iter[1..n] = AddMissingEvents(r, id, m)
    BY Zenon DEF AddMissingEvents, FoldLeft, MapThenFoldSet
  <1>2. \A a, e : Step(7, c, a, e) = AddMissingEvent(a, id, m, e)
    BY DEF Step
  <1> HIDE DEF c, base
  <1>3. PICK g : IsIter(7, c, g, base, seq, n)
    BY Iterates
  <1>4. g = [s \in SUBSET (1..n) |-> IF s = {} THEN base ELSE
                AddMissingEvent(g[s \ {Max(s)}], id, m, seq[Max(s)])]
    BY <1>2, <1>3, ZenonT(60) DEF IsIter
  <1>5. iter = [s \in SUBSET (1..n) |-> IF s = {} THEN base ELSE
                AddMissingEvent(iter[s \ {Max(s)}], id, m, seq[Max(s)])]
    BY <1>4, Zenon
  <1> HIDE DEF iter
  <1>6. IsIter(7, c, iter, base, seq, n)
    BY <1>2, <1>5, ZenonT(90) DEF IsIter
  <1>7. PICK t : Steps(7, c, t, base, seq, n) /\ t[n] = iter[1..n]
    BY <1>6, Traced
  <1> QED
    BY <1>1, <1>7 DEF c, base

\* the transactions,
LEMMA RecordTxsSteps ==
    ASSUME NEW r, NEW id, NEW b, NEW m, NEW seq, seq = b.txs,
           NEW n \in Nat, DOMAIN seq = 1..n
    PROVE  \E t : Steps(8, <<id, b, m>>, t, [r |-> r, tx |-> 1], seq, n) /\ t[n] = RecordTxs(r, id, b, m)
  <1> DEFINE c == <<id, b, m>>
             base == [r |-> r, tx |-> 1]
             iter[s \in SUBSET (1..n)] == IF s = {} THEN base ELSE
                 NextTx(iter[s \ {Max(s)}], id, b, m, seq[Max(s)])
  <1>1. iter[1..n] = RecordTxs(r, id, b, m)
    BY Zenon DEF RecordTxs, FoldLeft, MapThenFoldSet
  <1>2. \A a, e : Step(8, c, a, e) = NextTx(a, id, b, m, e)
    BY DEF Step
  <1> HIDE DEF c, base
  <1>3. PICK g : IsIter(8, c, g, base, seq, n)
    BY Iterates
  <1>4. g = [s \in SUBSET (1..n) |-> IF s = {} THEN base ELSE
                NextTx(g[s \ {Max(s)}], id, b, m, seq[Max(s)])]
    BY <1>2, <1>3, ZenonT(60) DEF IsIter
  <1>5. iter = [s \in SUBSET (1..n) |-> IF s = {} THEN base ELSE
                NextTx(iter[s \ {Max(s)}], id, b, m, seq[Max(s)])]
    BY <1>4, Zenon
  <1> HIDE DEF iter
  <1>6. IsIter(8, c, iter, base, seq, n)
    BY <1>2, <1>5, ZenonT(90) DEF IsIter
  <1>7. PICK t : Steps(8, c, t, base, seq, n) /\ t[n] = iter[1..n]
    BY <1>6, Traced
  <1> QED
    BY <1>1, <1>7 DEF c, base

\* the parts of a genesis file: its pools,
LEMMA GenPoolsSteps ==
    ASSUME NEW s0, NEW list, NEW seq, seq = list,
           NEW n \in Nat, DOMAIN seq = 1..n
    PROVE  \E t : Steps(9, <<>>, t, s0, seq, n) /\ t[n] = recordGenPools(s0, list)
  <1> DEFINE c == <<>>
             base == s0
             iter[s \in SUBSET (1..n)] == IF s = {} THEN base ELSE
                 GenPool(iter[s \ {Max(s)}], seq[Max(s)])
  <1>1. iter[1..n] = recordGenPools(s0, list)
    BY Zenon DEF recordGenPools, FoldLeft, MapThenFoldSet
  <1>2. \A a, e : Step(9, c, a, e) = GenPool(a, e)
    BY DEF Step
  <1> HIDE DEF c, base
  <1>3. PICK g : IsIter(9, c, g, base, seq, n)
    BY Iterates
  <1>4. g = [s \in SUBSET (1..n) |-> IF s = {} THEN base ELSE
                GenPool(g[s \ {Max(s)}], seq[Max(s)])]
    BY <1>2, <1>3, ZenonT(60) DEF IsIter
  <1>5. iter = [s \in SUBSET (1..n) |-> IF s = {} THEN base ELSE
                GenPool(iter[s \ {Max(s)}], seq[Max(s)])]
    BY <1>4, Zenon
  <1> HIDE DEF iter
  <1>6. IsIter(9, c, iter, base, seq, n)
    BY <1>2, <1>5, ZenonT(90) DEF IsIter
  <1>7. PICK t : Steps(9, c, t, base, seq, n) /\ t[n] = iter[1..n]
    BY <1>6, Traced
  <1> QED
    BY <1>1, <1>7 DEF c, base

\* supplies,
LEMMA GenSuppliesSteps ==
    ASSUME NEW s0, NEW list, NEW seq, seq = list,
           NEW n \in Nat, DOMAIN seq = 1..n
    PROVE  \E t : Steps(10, <<>>, t, s0, seq, n) /\ t[n] = recordGenSupplies(s0, list)
  <1> DEFINE c == <<>>
             base == s0
             iter[s \in SUBSET (1..n)] == IF s = {} THEN base ELSE
                 GenSupply(iter[s \ {Max(s)}], seq[Max(s)])
  <1>1. iter[1..n] = recordGenSupplies(s0, list)
    BY Zenon DEF recordGenSupplies, FoldLeft, MapThenFoldSet
  <1>2. \A a, e : Step(10, c, a, e) = GenSupply(a, e)
    BY DEF Step
  <1> HIDE DEF c, base
  <1>3. PICK g : IsIter(10, c, g, base, seq, n)
    BY Iterates
  <1>4. g = [s \in SUBSET (1..n) |-> IF s = {} THEN base ELSE
                GenSupply(g[s \ {Max(s)}], seq[Max(s)])]
    BY <1>2, <1>3, ZenonT(60) DEF IsIter
  <1>5. iter = [s \in SUBSET (1..n) |-> IF s = {} THEN base ELSE
                GenSupply(iter[s \ {Max(s)}], seq[Max(s)])]
    BY <1>4, Zenon
  <1> HIDE DEF iter
  <1>6. IsIter(10, c, iter, base, seq, n)
    BY <1>2, <1>5, ZenonT(90) DEF IsIter
  <1>7. PICK t : Steps(10, c, t, base, seq, n) /\ t[n] = iter[1..n]
    BY <1>6, Traced
  <1> QED
    BY <1>1, <1>7 DEF c, base

\* balances,
LEMMA GenTransfersSteps ==
    ASSUME NEW s0, NEW list, NEW seq, seq = list,
           NEW n \in Nat, DOMAIN seq = 1..n
    PROVE  \E t : Steps(11, <<>>, t, s0, seq, n) /\ t[n] = GenTransfers(s0, list)
  <1> DEFINE c == <<>>
             base == s0
             iter[s \in SUBSET (1..n)] == IF s = {} THEN base ELSE
                 GenTransfer(iter[s \ {Max(s)}])
  <1>1. iter[1..n] = GenTransfers(s0, list)
    BY Zenon DEF GenTransfers, FoldLeft, MapThenFoldSet
  <1>2. \A a, e : Step(11, c, a, e) = GenTransfer(a)
    BY DEF Step
  <1> HIDE DEF c, base
  <1>3. PICK g : IsIter(11, c, g, base, seq, n)
    BY Iterates
  <1>4. g = [s \in SUBSET (1..n) |-> IF s = {} THEN base ELSE
                GenTransfer(g[s \ {Max(s)}])]
    BY <1>2, <1>3, ZenonT(60) DEF IsIter
  <1>5. iter = [s \in SUBSET (1..n) |-> IF s = {} THEN base ELSE
                GenTransfer(iter[s \ {Max(s)}])]
    BY <1>4, Zenon
  <1> HIDE DEF iter
  <1>6. IsIter(11, c, iter, base, seq, n)
    BY <1>2, <1>5, ZenonT(90) DEF IsIter
  <1>7. PICK t : Steps(11, c, t, base, seq, n) /\ t[n] = iter[1..n]
    BY <1>6, Traced
  <1> QED
    BY <1>1, <1>7 DEF c, base

\* members,
LEMMA GenLPsSteps ==
    ASSUME NEW s0, NEW list, NEW seq, seq = list,
           NEW n \in Nat, DOMAIN seq = 1..n
    PROVE  \E t : Steps(12, <<>>, t, s0, seq, n) /\ t[n] = recordGenLPs(s0, list)
  <1> DEFINE c == <<>>
             base == s0
             iter[s \in SUBSET (1..n)] == IF s = {} THEN base ELSE
                 GenLP(iter[s \ {Max(s)}], seq[Max(s)])
  <1>1. iter[1..n] = recordGenLPs(s0, list)
    BY Zenon DEF recordGenLPs, FoldLeft, MapThenFoldSet
  <1>2. \A a, e : Step(12, c, a, e) = GenLP(a, e)
    BY DEF Step
  <1> HIDE DEF c, base
  <1>3. PICK g : IsIter(12, c, g, base, seq, n)
    BY Iterates
  <1>4. g = [s \in SUBSET (1..n) |-> IF s = {} THEN base ELSE
                GenLP(g[s \ {Max(s)}], seq[Max(s)])]
    BY <1>2, <1>3, ZenonT(60) DEF IsIter
  <1>5. iter = [s \in SUBSET (1..n) |-> IF s = {} THEN base ELSE
                GenLP(iter[s \ {Max(s)}], seq[Max(s)])]
    BY <1>4, Zenon
  <1> HIDE DEF iter
  <1>6. IsIter(12, c, iter, base, seq, n)
    BY <1>2, <1>5, ZenonT(90) DEF IsIter
  <1>7. PICK t : Steps(12, c, t, base, seq, n) /\ t[n] = iter[1..n]
    BY <1>6, Traced
  <1> QED
    BY <1>1, <1>7 DEF c, base

\* names,
LEMMA GenTHORNamesSteps ==
    ASSUME NEW s0, NEW list, NEW seq, seq = list,
           NEW n \in Nat, DOMAIN seq = 1..n
    PROVE  \E t : Steps(13, <<>>, t, s0, seq, n) /\ t[n] = recordGenTHORNames(s0, list)
  <1> DEFINE c == <<>>
             base == s0
             iter[s \in SUBSET (1..n)] == IF s = {} THEN base ELSE
                 GenTHORName(iter[s \ {Max(s)}])
  <1>1. iter[1..n] = recordGenTHORNames(s0, list)
    BY Zenon DEF recordGenTHORNames, FoldLeft, MapThenFoldSet
  <1>2. \A a, e : Step(13, c, a, e) = GenTHORName(a)
    BY DEF Step
  <1> HIDE DEF c, base
  <1>3. PICK g : IsIter(13, c, g, base, seq, n)
    BY Iterates
  <1>4. g = [s \in SUBSET (1..n) |-> IF s = {} THEN base ELSE
                GenTHORName(g[s \ {Max(s)}])]
    BY <1>2, <1>3, ZenonT(60) DEF IsIter
  <1>5. iter = [s \in SUBSET (1..n) |-> IF s = {} THEN base ELSE
                GenTHORName(iter[s \ {Max(s)}])]
    BY <1>4, Zenon
  <1> HIDE DEF iter
  <1>6. IsIter(13, c, iter, base, seq, n)
    BY <1>2, <1>5, ZenonT(90) DEF IsIter
  <1>7. PICK t : Steps(13, c, t, base, seq, n) /\ t[n] = iter[1..n]
    BY <1>6, Traced
  <1> QED
    BY <1>1, <1>7 DEF c, base

\* nodes,
LEMMA GenNodesSteps ==
    ASSUME NEW s0, NEW list, NEW seq, seq = list,
           NEW n \in Nat, DOMAIN seq = 1..n
    PROVE  \E t : Steps(14, <<>>, t, s0, seq, n) /\ t[n] = recordGenNodes(s0, list)
  <1> DEFINE c == <<>>
             base == s0
             iter[s \in SUBSET (1..n)] == IF s = {} THEN base ELSE
                 GenNode(iter[s \ {Max(s)}])
  <1>1. iter[1..n] = recordGenNodes(s0, list)
    BY Zenon DEF recordGenNodes, FoldLeft, MapThenFoldSet
  <1>2. \A a, e : Step(14, c, a, e) = GenNode(a)
    BY DEF Step
  <1> HIDE DEF c, base
  <1>3. PICK g : IsIter(14, c, g, base, seq, n)
    BY Iterates
  <1>4. g = [s \in SUBSET (1..n) |-> IF s = {} THEN base ELSE
                GenNode(g[s \ {Max(s)}])]
    BY <1>2, <1>3, ZenonT(60) DEF IsIter
  <1>5. iter = [s \in SUBSET (1..n) |-> IF s = {} THEN base ELSE
                GenNode(iter[s \ {Max(s)}])]
    BY <1>4, Zenon
  <1> HIDE DEF iter
  <1>6. IsIter(14, c, iter, base, seq, n)
    BY <1>2, <1>5, ZenonT(90) DEF IsIter
  <1>7. PICK t : Steps(14, c, t, base, seq, n) /\ t[n] = iter[1..n]
    BY <1>6, Traced
  <1> QED
    BY <1>1, <1>7 DEF c, base

\* loans,
LEMMA GenLoansSteps ==
    ASSUME NEW s0, NEW list, NEW seq, seq = list,
           NEW n \in Nat, DOMAIN seq = 1..n
    PROVE  \E t : Steps(15, <<>>, t, s0, seq, n) /\ t[n] = recordGenLoans(s0, list)
  <1> DEFINE c == <<>>
             base == s0
             iter[s \in SUBSET (1..n)] == IF s = {} THEN base ELSE
                 GenLoan(iter[s \ {Max(s)}], seq[Max(s)])
  <1>1. iter[1..n] = recordGenLoans(s0, list)
    BY Zenon DEF recordGenLoans, FoldLeft, MapThenFoldSet
  <1>2. \A a, e : Step(15, c, a, e) = GenLoan(a, e)
    BY DEF Step
  <1> HIDE DEF c, base
  <1>3. PICK g : IsIter(15, c, g, base, seq, n)
    BY Iterates
  <1>4. g = [s \in SUBSET (1..n) |-> IF s = {} THEN base ELSE
                GenLoan(g[s \ {Max(s)}], seq[Max(s)])]
    BY <1>2, <1>3, ZenonT(60) DEF IsIter
  <1>5. iter = [s \in SUBSET (1..n) |-> IF s = {} THEN base ELSE
                GenLoan(iter[s \ {Max(s)}], seq[Max(s)])]
    BY <1>4, Zenon
  <1> HIDE DEF iter
  <1>6. IsIter(15, c, iter, base, seq, n)
    BY <1>2, <1>5, ZenonT(90) DEF IsIter
  <1>7. PICK t : Steps(15, c, t, base, seq, n) /\ t[n] = iter[1..n]
    BY <1>6, Traced
  <1> QED
    BY <1>1, <1>7 DEF c, base

\* and mimirs,
LEMMA GenMimirsSteps ==
    ASSUME NEW s0, NEW list, NEW seq, seq = list,
           NEW n \in Nat, DOMAIN seq = 1..n
    PROVE  \E t : Steps(16, <<>>, t, s0, seq, n) /\ t[n] = recordGenMimirs(s0, list)
  <1> DEFINE c == <<>>
             base == s0
             iter[s \in SUBSET (1..n)] == IF s = {} THEN base ELSE
                 GenMimir(iter[s \ {Max(s)}], seq[Max(s)])
  <1>1. iter[1..n] = recordGenMimirs(s0, list)
    BY Zenon DEF recordGenMimirs, FoldLeft, MapThenFoldSet
  <1>2. \A a, e : Step(16, c, a, e) = GenMimir(a, e)
    BY DEF Step
  <1> HIDE DEF c, base
  <1>3. PICK g : IsIter(16, c, g, base, seq, n)
    BY Iterates
  <1>4. g = [s \in SUBSET (1..n) |-> IF s = {} THEN base ELSE
                GenMimir(g[s \ {Max(s)}], seq[Max(s)])]
    BY <1>2, <1>3, ZenonT(60) DEF IsIter
  <1>5. iter = [s \in SUBSET (1..n) |-> IF s = {} THEN base ELSE
                GenMimir(iter[s \ {Max(s)}], seq[Max(s)])]
    BY <1>4, Zenon
  <1> HIDE DEF iter
  <1>6. IsIter(16, c, iter, base, seq, n)
    BY <1>2, <1>5, ZenonT(90) DEF IsIter
  <1>7. PICK t : Steps(16, c, t, base, seq, n) /\ t[n] = iter[1..n]
    BY <1>6, Traced
  <1> QED
    BY <1>1, <1>7 DEF c, base

\* and the blocks.
LEMMA RecordedSteps ==
    ASSUME NEW base0, NEW chn, NEW how, NEW k, NEW seq, seq = Heights(k),
           NEW n \in Nat, DOMAIN seq = 1..n
    PROVE  \E t : Steps(17, <<chn, how>>, t, base0, seq, n) /\ t[n] = Recorded(base0, chn, how, k)
  <1> DEFINE c == <<chn, how>>
             base == base0
             iter[s \in SUBSET (1..n)] == IF s = {} THEN base ELSE
                 Again(iter[s \ {Max(s)}], chn, how, seq[Max(s)])
  <1>1. iter[1..n] = Recorded(base0, chn, how, k)
    BY Zenon DEF Recorded, FoldLeft, MapThenFoldSet
  <1>2. \A a, e : Step(17, c, a, e) = Again(a, chn, how, e)
    BY DEF Step
  <1> HIDE DEF c, base
  <1>3. PICK g : IsIter(17, c, g, base, seq, n)
    BY Iterates
  <1>4. g = [s \in SUBSET (1..n) |-> IF s = {} THEN base ELSE
                Again(g[s \ {Max(s)}], chn, how, seq[Max(s)])]
    BY <1>2, <1>3, ZenonT(60) DEF IsIter
  <1>5. iter = [s \in SUBSET (1..n) |-> IF s = {} THEN base ELSE
                Again(iter[s \ {Max(s)}], chn, how, seq[Max(s)])]
    BY <1>4, Zenon
  <1> HIDE DEF iter
  <1>6. IsIter(17, c, iter, base, seq, n)
    BY <1>2, <1>5, ZenonT(90) DEF IsIter
  <1>7. PICK t : Steps(17, c, t, base, seq, n) /\ t[n] = iter[1..n]
    BY <1>6, Traced
  <1> QED
    BY <1>1, <1>7 DEF c, base

-----------------------------------------------------------------------------
(* What a fold keeps.                                                      *)

\* What is recorded of a genesis file so far, with the metadata of the next row.
GenesisAlike(P, a, b) ==
    {"r", "m"} \subseteq DOMAIN a \cap DOMAIN b /\ a.m = b.m /\ Alike(P, a.r, b.r)

\* Results of a fold that are alike.
AlikeAt(k, P, a, b) ==
    CASE k = 1          -> (a.lost <=> b.lost) /\ Alike(P, a.r, b.r)
      [] k \in {2, 3}   -> Alike(P, a, b)
      [] k = 4          -> {"r", "done"} \subseteq DOMAIN a \cap DOMAIN b /\ (a.done <=> b.done) /\ SameTotals(P, a.r, b.r)
      [] k \in {5, 6}   -> a.index = b.index /\ SameTotals(P, a.r, b.r)
      [] k \in {7, 17}  -> SameTotals(P, a, b)
      [] k = 8          -> a.tx = b.tx /\ SameTotals(P, a.r, b.r)
      [] k \in 9..16    -> GenesisAlike(P, a, b)

\* Two folds of the same steps over the same elements stay alike.
LEMMA FoldsAlike ==
    ASSUME NEW k, NEW c, NEW P, NEW n \in Nat, NEW seq, NEW base, NEW base2, NEW t, NEW u,
           Steps(k, c, t, base, seq, n), Steps(k, c, u, base2, seq, n),
           AlikeAt(k, P, base, base2),
           \A i \in 1..n : \A a, b : AlikeAt(k, P, a, b) => AlikeAt(k, P, Step(k, c, a, seq[i]), Step(k, c, b, seq[i]))
    PROVE  AlikeAt(k, P, t[n], u[n])
  <1> DEFINE S == {i \in 0..n : AlikeAt(k, P, t[i], u[i])}
  <1>1. 0 \in S
    BY DEF Steps
  <1>2. \A i \in 1..n : i - 1 \in S => i \in S
    BY DEF Steps
  <1> HIDE DEF S
  <1>3. n \in S
    BY <1>1, <1>2, Climb
  <1> QED
    BY <1>3 DEF S

\* The list of a finite set is as long as the set is large.
LEMMA ListOf ==
    ASSUME NEW S, IsFiniteSet(S)
    PROVE  Cardinality(S) \in Nat /\ DOMAIN SetToSeq(S) = 1..Cardinality(S)
  <1>1. Cardinality(S) \in Nat /\ ExistsBijection(1..Cardinality(S), S)
    BY FS_CardinalityType
  <1>2. PICK f : f \in Bijection(1..Cardinality(S), S)
    BY <1>1 DEF ExistsBijection
  <1>3. f \in [1..Cardinality(S) -> S] /\ IsInjective(f)
    BY <1>2 DEF Bijection, Injection, IsInjective
  <1> QED
    BY <1>1, <1>3 DEF SetToSeq


-----------------------------------------------------------------------------
(* Events with amounts.                                                    *)

\* All rows of the rewards, and whether one of them was lost.
LEMMA RewardEntriesAlike ==
    ASSUME NEW P, NEW r, NEW s, Alike(P, r, s), NEW x, NEW m, IsFiniteSet(DOMAIN x.perPool)
    PROVE  AlikeAt(1, P, RewardEntries(r, x, m), RewardEntries(s, x, m))
  <1> DEFINE seq == SetToSeq(DOMAIN x.perPool)
             n == Cardinality(DOMAIN x.perPool)
             c == <<x, m>>
             Base(a) == [lost |-> ~Accepts(a), r |-> InsertWithMeta(a, "rewards_events", m, <<>>)]
  <1>1. n \in Nat /\ DOMAIN seq = 1..n
    BY ListOf
  <1>2. AlikeAt(1, P, Base(r), Base(s))
    BY InsertAlike DEF AlikeAt
  <1>3. ASSUME NEW e, NEW a, NEW b, AlikeAt(1, P, a, b) PROVE AlikeAt(1, P, Step(1, c, a, e), Step(1, c, b, e))
    BY <1>3, InsertAlike DEF AlikeAt, Step, RewardEntry
  <1> HIDE DEF n, seq, Base
  <1>4. PICK t : Steps(1, c, t, Base(r), seq, n) /\ t[n] = RewardEntries(r, x, m)
    BY <1>1, RewardEntriesSteps DEF seq, Base
  <1>5. PICK u : Steps(1, c, u, Base(s), seq, n) /\ u[n] = RewardEntries(s, x, m)
    BY <1>1, RewardEntriesSteps DEF seq, Base
  <1> HIDE DEF c
  <1> QED
    BY <1>1, <1>2, <1>3, <1>4, <1>5, FoldsAlike

\* The pools are paid.
LEMMA PayRewardsAlike ==
    ASSUME NEW P, NEW r, NEW s, Alike(P, r, s), NEW x, IsFiniteSet(DOMAIN x.perPool)
    PROVE  Alike(P, PayRewards(r, x), PayRewards(s, x))
  <1> DEFINE seq == SetToSeq(DOMAIN x.perPool)
             n == Cardinality(DOMAIN x.perPool)
             c == <<x>>
  <1>1. n \in Nat /\ DOMAIN seq = 1..n
    BY ListOf
  <1>2. \A a, b : AlikeAt(2, P, a, b) <=> Alike(P, a, b)
    BY DEF AlikeAt
  <1>3. ASSUME NEW e, NEW a, NEW b, Alike(P, a, b) PROVE Alike(P, Step(2, c, a, e), Step(2, c, b, e))
    BY <1>3, AddAlike DEF Step, PayReward
  <1> HIDE DEF n, seq
  <1>4. PICK t : Steps(2, c, t, r, seq, n) /\ t[n] = PayRewards(r, x)
    BY <1>1, PayRewardsSteps DEF seq
  <1>5. PICK u : Steps(2, c, u, s, seq, n) /\ u[n] = PayRewards(s, x)
    BY <1>1, PayRewardsSteps DEF seq
  <1> HIDE DEF c
  <1> QED
    BY <1>1, <1>2, <1>3, <1>4, <1>5, FoldsAlike

\* Rewards: all pools are paid, or none.
LEMMA OnRewardsAlike ==
    ASSUME NEW P, NEW r, NEW s, Alike(P, r, s), NEW x, NEW m, IsFiniteSet(DOMAIN x.perPool)
    PROVE  Alike(P, OnRewards(r, x, m), OnRewards(s, x, m))
  <1> DEFINE a == RewardEntries(r, x, m)
             b == RewardEntries(s, x, m)
  <1>1. (a.lost <=> b.lost) /\ Alike(P, a.r, b.r)
    BY RewardEntriesAlike DEF AlikeAt
  <1>2. Alike(P, PayRewards(a.r, x), PayRewards(b.r, x))
    BY <1>1, PayRewardsAlike
  <1> QED
    BY <1>1, <1>2 DEF OnRewards

\* Slashes, asset by asset.
LEMMA OnSlashAlike ==
    ASSUME NEW P, NEW r, NEW s, Alike(P, r, s), NEW x, NEW m, IsFiniteSet(DOMAIN x.amounts)
    PROVE  Alike(P, OnSlash(r, x, m), OnSlash(s, x, m))
  <1> DEFINE seq == SetToSeq(DOMAIN x.amounts)
             n == Cardinality(DOMAIN x.amounts)
             c == <<x, m>>
  <1>1. n \in Nat /\ DOMAIN seq = 1..n
    BY ListOf
  <1>2. \A a, b : AlikeAt(3, P, a, b) <=> Alike(P, a, b)
    BY DEF AlikeAt
  <1>3. ASSUME NEW e, NEW a, NEW b, Alike(P, a, b) PROVE Alike(P, Step(3, c, a, e), Step(3, c, b, e))
    <2> DEFINE Kept(z) == InsertWithMeta(z, "slash_events", m, <<x.pool, e, x.amounts[e]>>)
    <2>1. Alike(P, Kept(a), Kept(b))
      BY <1>3, InsertAlike
    <2> HIDE DEF Kept
    <2>2. Alike(P, AddPoolRuneE8Depth(Kept(a), x.pool, x.amounts[e]), AddPoolRuneE8Depth(Kept(b), x.pool, x.amounts[e]))
      BY <2>1, AddAlike
    <2>3. Alike(P, AddPoolAssetE8Depth(Kept(a), x.pool, x.amounts[e]), AddPoolAssetE8Depth(Kept(b), x.pool, x.amounts[e]))
      BY <2>1, AddAlike
    <2> QED
      BY <2>1, <2>2, <2>3 DEF Step, SlashAmount, Kept
  <1> HIDE DEF n, seq
  <1>4. PICK t : Steps(3, c, t, r, seq, n) /\ t[n] = OnSlash(r, x, m)
    BY <1>1, OnSlashSteps DEF seq
  <1>5. PICK u : Steps(3, c, u, s, seq, n) /\ u[n] = OnSlash(s, x, m)
    BY <1>1, OnSlashSteps DEF seq
  <1> HIDE DEF c
  <1> QED
    BY <1>1, <1>2, <1>3, <1>4, <1>5, FoldsAlike

-----------------------------------------------------------------------------
(* All events.                                                             *)

\* Every event of pools and balances keeps recorders alike.
LEMMA processPoolEventAlike ==
    ASSUME NEW P, NEW r, NEW s, Alike(P, r, s), NEW id, NEW e, NEW m, e.type \in SwapEvents,
           e.type \in {"rewards", "slash"} => IsFiniteSet(DOMAIN e.attrs.amounts)
    PROVE  Alike(P, processPoolEvent(r, id, e, m), processPoolEvent(s, id, e, m))
  <1>1. CASE e.type = "donate"
    BY <1>1, OnAddAlike DEF processPoolEvent, Record
  <1>2. CASE e.type = "errata"
    BY <1>2, OnErrataAlike DEF processPoolEvent, Record
  <1>3. CASE e.type = "fee"
    BY <1>3, OnFeeAlike DEF processPoolEvent, Record
  <1>4. CASE e.type = "gas"
    BY <1>4, OnGasAlike DEF processPoolEvent, Record
  <1>5. CASE e.type = "pool"
    BY <1>5, OnPoolAlike DEF processPoolEvent, Record
  <1>6. CASE e.type = "rewards"
    BY <1>6, OnRewardsAlike DEF processPoolEvent, Record, LoadRewards, Malformed
  <1>7. CASE e.type = "slash"
    BY <1>7, OnSlashAlike DEF processPoolEvent, Record, LoadSlash, Malformed
  <1>8. CASE e.type = "pending_liquidity"
    BY <1>8, InsertAlike DEF processPoolEvent, Record, OnPendingLiquidity
  <1>9. CASE e.type = "add_liquidity"
    BY <1>9, OnStakeAlike DEF processPoolEvent, Record
  <1>10. CASE e.type = "swap"
    BY <1>10, OnSwapAlike DEF processPoolEvent, Record
  <1>11. CASE e.type = "transfer"
    BY <1>11, InsertAlike DEF processPoolEvent, Record, OnTransfer
  <1>12. CASE e.type = "withdraw"
    BY <1>12, OnWithdrawAlike DEF processPoolEvent, Record
  <1>13. CASE e.type = "pool_balance_change"
    BY <1>13, OnPoolBalanceChangeAlike DEF processPoolEvent, Record
  <1>14. CASE e.type = "mint_burn"
    BY <1>14, OnMintBurnAlike DEF processPoolEvent, Record
  <1>15. CASE e.type = "trade_account_deposit"
    BY <1>15, OnAccountEventAlike DEF processPoolEvent, Record, OnTradeAccountDeposit
  <1>16. CASE e.type = "trade_account_withdraw"
    BY <1>16, OnAccountEventAlike DEF processPoolEvent, Record, OnTradeAccountWithdraw
  <1>17. CASE e.type = "secured_asset_deposit"
    BY <1>17, OnAccountEventAlike DEF processPoolEvent, Record, OnSecureAssetDeposit
  <1>18. CASE e.type = "secured_asset_withdraw"
    BY <1>18, OnAccountEventAlike DEF processPoolEvent, Record, OnSecureAssetWithdraw
  <1> QED
    BY <1>1, <1>2, <1>3, <1>4, <1>5, <1>6, <1>7, <1>8, <1>9, <1>10, <1>11, <1>12, <1>13, <1>14, <1>15,
       <1>16, <1>17, <1>18 DEF SwapEvents

\* So does every event of nodes and vaults.
LEMMA processNodeEventAlike ==
    ASSUME NEW P, NEW r, NEW s, Alike(P, r, s), NEW e, NEW m, e.type \in NodeEvents
    PROVE  Alike(P, processNodeEvent(r, e, m), processNodeEvent(s, e, m))
  <1>1. CASE e.type = "ActiveVault"
    BY <1>1, InsertAlike DEF processNodeEvent, Record, OnActiveVault
  <1>2. CASE e.type = "asgard_fund_yggdrasil"
    BY <1>2, InsertAlike DEF processNodeEvent, Record, OnAsgardFundYggdrasil
  <1>3. CASE e.type = "bond"
    BY <1>3, InsertAlike DEF processNodeEvent, Record, OnBond
  <1>4. CASE e.type = "InactiveVault"
    BY <1>4, InsertAlike DEF processNodeEvent, Record, OnInactiveVault
  <1>5. CASE e.type = "message"
    BY <1>5, InsertAlike DEF processNodeEvent, Record, OnMessage
  <1>6. CASE e.type = "new_node"
    BY <1>6, InsertAlike DEF processNodeEvent, Record, OnNewNode
  <1>7. CASE e.type = "outbound"
    BY <1>7, InsertAlike DEF processNodeEvent, Record, OnOutbound
  <1>8. CASE e.type = "refund"
    BY <1>8, InsertAlike DEF processNodeEvent, Record, OnRefund
  <1>9. CASE e.type = "reserve"
    BY <1>9, InsertAlike DEF processNodeEvent, Record, OnReserve
  <1>10. CASE e.type = "set_ip_address"
    BY <1>10, InsertAlike DEF processNodeEvent, Record, OnSetIPAddress
  <1>11. CASE e.type = "set_mimir"
    BY <1>11, InsertAlike, SetAlike DEF processNodeEvent, Record, OnSetMimir
  <1>12. CASE e.type = "set_node_keys"
    BY <1>12, InsertAlike DEF processNodeEvent, Record, OnSetNodeKeys
  <1>13. CASE e.type = "set_version"
    BY <1>13, InsertAlike DEF processNodeEvent, Record, OnSetVersion
  <1>14. CASE e.type = "UpdateNodeAccountStatus"
    BY <1>14, InsertAlike DEF processNodeEvent, Record, OnUpdateNodeAccountStatus
  <1>15. CASE e.type = "validator_request_leave"
    BY <1>15, InsertAlike DEF processNodeEvent, Record, OnValidatorRequestLeave
  <1> QED
    BY <1>1, <1>2, <1>3, <1>4, <1>5, <1>6, <1>7, <1>8, <1>9, <1>10, <1>11, <1>12, <1>13, <1>14, <1>15
       DEF NodeEvents

\* So does every other event.
LEMMA processNewerEventAlike ==
    ASSUME NEW P, NEW r, NEW s, Alike(P, r, s), NEW id, NEW e, NEW m
    PROVE  Alike(P, processNewerEvent(r, id, e, m), processNewerEvent(s, id, e, m))
  <1>1. CASE e.type = "thorname"
    BY <1>1, InsertAlike DEF processNewerEvent, Record, OnTHORNameChange
  <1>2. CASE e.type = "switch"
    BY <1>2, InsertAlike DEF processNewerEvent, Record, OnSwitch
  <1>3. CASE e.type = "slash_points"
    BY <1>3, InsertAlike DEF processNewerEvent, Record, OnSlashPoints
  <1>4. CASE e.type = "set_node_mimir"
    BY <1>4, InsertAlike DEF processNewerEvent, Record, OnSetNodeMimir
  <1>5. CASE e.type = "version"
    BY <1>5, InsertAlike DEF processNewerEvent, Record, OnVersion
  <1>6. CASE e.type = "loan_open"
    BY <1>6, InsertAlike DEF processNewerEvent, Record, OnLoanOpen
  <1>7. CASE e.type = "loan_repayment"
    BY <1>7, InsertAlike DEF processNewerEvent, Record, OnLoanRepayment
  <1>8. CASE e.type = "streaming_swap"
    BY <1>8, InsertAlike DEF processNewerEvent, Record, OnStreamingSwapDetails
  <1>9. CASE e.type = "tss_keygen_success"
    BY <1>9, InsertAlike DEF processNewerEvent, Record, OnTSSKeygenSuccess
  <1>10. CASE e.type = "tss_keygen_failure"
    BY <1>10, InsertAlike DEF processNewerEvent, Record, OnTSSKeygenFailure
  <1>11. CASE e.type = "scheduled_outbound"
    BY <1>11, InsertAlike DEF processNewerEvent, Record, OnScheduledOutbound
  <1>12. CASE e.type = "rune_pool_deposit"
    BY <1>12, InsertAlike DEF processNewerEvent, Record, OnRunePoolDeposit
  <1>13. CASE e.type = "rune_pool_withdraw"
    BY <1>13, InsertAlike DEF processNewerEvent, Record, OnRunePoolWithdraw
  <1>14. CASE e.type = "affiliate_fee"
    BY <1>14, InsertAlike DEF processNewerEvent, Record, OnAffiliateFee
  <1>15. CASE e.type = "instantiate"
    BY <1>15, InsertAlike DEF processNewerEvent, Record, OnInstantiate
  <1>16. CASE e.type = "tcy_claim"
    BY <1>16, InsertAlike DEF processNewerEvent, Record, OnTcyClaim
  <1>17. CASE e.type = "tcy_distribution"
    BY <1>17, InsertAlike DEF processNewerEvent, Record, OnTcyDistribution
  <1>18. CASE e.type = "tcy_stake"
    BY <1>18, InsertAlike DEF processNewerEvent, Record, OnTcyStake
  <1>19. CASE e.type = "tcy_unstake"
    BY <1>19, InsertAlike DEF processNewerEvent, Record, OnTcyUnstake
  <1>20. CASE e.type = "wasm-"
    BY <1>20, InsertAlike DEF processNewerEvent, Record, OnCosmWasm
  <1>21. CASE e.type \notin {"thorname", "switch", "slash_points", "set_node_mimir", "version",
     "loan_open", "loan_repayment", "streaming_swap", "tss_keygen_success", "tss_keygen_failure",
     "scheduled_outbound", "rune_pool_deposit", "rune_pool_withdraw", "affiliate_fee", "instantiate",
     "tcy_claim", "tcy_distribution", "tcy_stake", "tcy_unstake", "wasm-"}
    BY <1>21 DEF processNewerEvent
  <1> QED
    BY <1>1, <1>2, <1>3, <1>4, <1>5, <1>6, <1>7, <1>8, <1>9, <1>10, <1>11, <1>12, <1>13, <1>14, <1>15,
       <1>16, <1>17, <1>18, <1>19, <1>20, <1>21

\* An event without its mode, its index and its empty attributes is of the same type and has the
\* same amounts.
LEMMA FilteredIs ==
    ASSUME NEW e, IsEvent(e)
    PROVE  /\ Filtered(e).type = e.type
           /\ e.type \in {"rewards", "slash"} => IsFiniteSet(DOMAIN Filtered(e).attrs.amounts)
  <1>1. Filtered(e).type = e.type
    BY DEF Filtered, IsEvent
  <1>2. ASSUME e.type \in {"rewards", "slash"} PROVE Filtered(e).attrs.amounts = e.attrs.amounts
    BY <1>2 DEF Filtered, IsEvent
  <1> QED
    BY <1>1, <1>2 DEF IsEvent

\* What the database thought of the rows of earlier events is forgotten.
LEMMA BegunAlike ==
    ASSUME NEW P, NEW r, NEW s, SameTotals(P, r, s), NEW refused
    PROVE  Alike(P, Begun(r, refused), Begun(s, refused))
  BY DEF Begun, Alike, SameTotals, SameInfo, IsRecorder

\* An event does the same to recorders with the same totals.
LEMMA processEventAlike ==
    ASSUME NEW P, NEW r, NEW s, SameTotals(P, r, s), NEW id, NEW event, IsEvent(event), NEW m
    PROVE  SameTotals(P, processEvent(r, id, event, m), processEvent(s, id, event, m))
  <1> DEFINE e == Filtered(event)
             a == Begun(r, e.refused)
             b == Begun(s, e.refused)
  <1>1. Alike(P, a, b)
    BY BegunAlike
  <1>2. e.type \in {"rewards", "slash"} => IsFiniteSet(DOMAIN e.attrs.amounts)
    BY FilteredIs
  <1>3. processEvent(r, id, event, m) = CASE e.type \in SwapEvents -> processPoolEvent(a, id, e, m)
                                          [] e.type \in NodeEvents -> processNodeEvent(a, e, m)
                                          [] OTHER -> processNewerEvent(a, id, e, m)
    BY DEF processEvent
  <1>4. processEvent(s, id, event, m) = CASE e.type \in SwapEvents -> processPoolEvent(b, id, e, m)
                                          [] e.type \in NodeEvents -> processNodeEvent(b, e, m)
                                          [] OTHER -> processNewerEvent(b, id, e, m)
    BY DEF processEvent
  <1> HIDE DEF e, a, b
  <1>5. CASE e.type \in SwapEvents
    <2>0. e.type \notin NodeEvents
      BY <1>5 DEF SwapEvents, NodeEvents
    <2>1. processEvent(r, id, event, m) = processPoolEvent(a, id, e, m)
          /\ processEvent(s, id, event, m) = processPoolEvent(b, id, e, m)
      BY <1>3, <1>4, <1>5, <2>0
    <2>2. Alike(P, processPoolEvent(a, id, e, m), processPoolEvent(b, id, e, m))
      BY <1>1, <1>2, <1>5, processPoolEventAlike
    <2> QED
      BY <2>1, <2>2 DEF Alike
  <1>6. CASE e.type \in NodeEvents
    <2>1. e.type \notin SwapEvents
      BY <1>6 DEF SwapEvents, NodeEvents
    <2>2. processEvent(r, id, event, m) = processNodeEvent(a, e, m)
          /\ processEvent(s, id, event, m) = processNodeEvent(b, e, m)
      BY <1>3, <1>4, <1>6, <2>1
    <2>3. Alike(P, processNodeEvent(a, e, m), processNodeEvent(b, e, m))
      BY <1>1, <1>6, processNodeEventAlike
    <2> QED
      BY <2>2, <2>3 DEF Alike
  <1>7. CASE e.type \notin SwapEvents /\ e.type \notin NodeEvents
    <2>1. processEvent(r, id, event, m) = processNewerEvent(a, id, e, m)
          /\ processEvent(s, id, event, m) = processNewerEvent(b, id, e, m)
      BY <1>3, <1>4, <1>7
    <2>2. Alike(P, processNewerEvent(a, id, e, m), processNewerEvent(b, id, e, m))
      BY <1>1, processNewerEventAlike
    <2> QED
      BY <2>1, <2>2 DEF Alike
  <1> QED
    BY <1>5, <1>6, <1>7

-----------------------------------------------------------------------------
(* Transactions.                                                           *)

\* The messages of a transaction.
LEMMA processTxAlike ==
    ASSUME NEW P, NEW r, NEW s, SameTotals(P, r, s), NEW tx, IsList(tx.msgs), NEW m
    PROVE  SameTotals(P, processTx(r, tx, m), processTx(s, tx, m))
  <1> DEFINE n == Len(tx.msgs)
             c == <<tx, m>>
             Base(a) == [r |-> a, done |-> FALSE]
  <1>1. n \in Nat /\ DOMAIN tx.msgs = 1..n
    BY DEF IsList
  <1>2. AlikeAt(4, P, Base(r), Base(s))
    BY DEF AlikeAt
  <1>3. ASSUME NEW e, NEW a, NEW b, AlikeAt(4, P, a, b) PROVE AlikeAt(4, P, Step(4, c, a, e), Step(4, c, b, e))
    <2> DEFINE x == IF e.kind = "MsgDeposit" THEN LoadDeposit(e) ELSE LoadSend(e)
               ar == Begun(a.r, e.refused)
               br == Begun(b.r, e.refused)
    <2>1. {"r", "done"} \subseteq DOMAIN a \cap DOMAIN b /\ (a.done <=> b.done) /\ SameTotals(P, a.r, b.r)
      BY <1>3 DEF AlikeAt
    <2>2. Alike(P, ar, br)
      BY <2>1, BegunAlike
    <2>3. /\ SameTotals(P, OnDeposit(ar, x, m), OnDeposit(br, x, m))
          /\ SameTotals(P, OnMsgSend(ar, x, m), OnMsgSend(br, x, m))
      <3> HIDE DEF ar, br, x
      <3> QED
        BY <2>2, InsertAlike DEF Alike, OnDeposit, OnMsgSend
    <2>4. \A z : Step(4, c, z, e) =
              IF z.done \/ e.kind \notin {"MsgDeposit", "MsgSend"} THEN z
              ELSE IF (e.kind = "MsgDeposit" /\ tx.code = 0) \/ ~x.ok THEN [z EXCEPT !.done = TRUE]
              ELSE [z EXCEPT !.r = IF e.kind = "MsgDeposit" THEN OnDeposit(Begun(z.r, e.refused), x, m)
                                   ELSE OnMsgSend(Begun(z.r, e.refused), x, m)]
      BY DEF Step, processMsg
    <2>5. CASE a.done \/ e.kind \notin {"MsgDeposit", "MsgSend"}
      <3>1. Step(4, c, a, e) = a /\ Step(4, c, b, e) = b
        BY <2>1, <2>4, <2>5
      <3> QED
        BY <1>3, <3>1
    <2>6. CASE ~a.done /\ e.kind \in {"MsgDeposit", "MsgSend"} /\ ((e.kind = "MsgDeposit" /\ tx.code = 0) \/ ~x.ok)
      <3>1. Step(4, c, a, e) = [a EXCEPT !.done = TRUE] /\ Step(4, c, b, e) = [b EXCEPT !.done = TRUE]
        BY <2>1, <2>4, <2>6
      <3> QED
        BY <2>1, <3>1 DEF AlikeAt
    <2>7. CASE ~a.done /\ e.kind \in {"MsgDeposit", "MsgSend"} /\ ~((e.kind = "MsgDeposit" /\ tx.code = 0) \/ ~x.ok)
      <3> DEFINE New(z) == IF e.kind = "MsgDeposit" THEN OnDeposit(z, x, m) ELSE OnMsgSend(z, x, m)
      <3>1. Step(4, c, a, e) = [a EXCEPT !.r = New(ar)] /\ Step(4, c, b, e) = [b EXCEPT !.r = New(br)]
        BY <2>1, <2>4, <2>7
      <3>2. SameTotals(P, New(ar), New(br))
        BY <2>3
      <3> HIDE DEF New
      <3> QED
        BY <2>1, <3>1, <3>2 DEF AlikeAt
    <2> QED
      BY <2>5, <2>6, <2>7
  <1> HIDE DEF n, Base
  <1>4. PICK t : Steps(4, c, t, Base(r), tx.msgs, n) /\ t[n] = processMsgs(r, tx, m)
    BY <1>1, processMsgsSteps DEF Base
  <1>5. PICK u : Steps(4, c, u, Base(s), tx.msgs, n) /\ u[n] = processMsgs(s, tx, m)
    BY <1>1, processMsgsSteps DEF Base
  <1> HIDE DEF c
  <1>6. AlikeAt(4, P, t[n], u[n])
    BY <1>1, <1>2, <1>3, <1>4, <1>5, FoldsAlike
  <1> QED
    BY <1>4, <1>5, <1>6 DEF AlikeAt, processTx

\* What a transaction adds to an event leaves its type and its amounts.
LEMMA ParentTxIs == ASSUME NEW tx, NEW e, IsEvent(e) PROVE IsEvent(processParentTx(tx, e))
  <1>1. CASE e.type \in {"rewards", "slash"}
    BY <1>1 DEF processParentTx
  <1>2. CASE e.type \notin {"rewards", "slash"}
    <2> DEFINE Same(f) == DOMAIN f = DOMAIN e /\ f.type = e.type
    <2>1. \A attrs : Same(With(e, attrs))
      BY DEF With, IsEvent
    <2>2. \A attrs : Same([e EXCEPT !.attrs = attrs])
      BY DEF IsEvent
    <2>3. Same(e)
      OBVIOUS
    <2>4. Same(processParentTx(tx, e))
      <3> HIDE DEF Same
      <3> QED
        BY <2>1, <2>2, <2>3 DEF processParentTx
    <2> QED
      BY <1>2, <2>4 DEF IsEvent
  <1> QED
    BY <1>1, <1>2

\* The events of a transaction.
LEMMA RecordTxEventsAlike ==
    ASSUME NEW P, NEW r, NEW s, SameTotals(P, r, s), NEW id, NEW b, NEW tx, HasEvents(tx.events), NEW txIndex, NEW m
    PROVE  SameTotals(P, RecordTxEvents(r, id, b, tx, txIndex, m).r, RecordTxEvents(s, id, b, tx, txIndex, m).r)
  <1> DEFINE n == Len(tx.events)
             c == <<id, b, tx, txIndex, m>>
             Base(z) == [r |-> z, index |-> 1]
  <1>1. n \in Nat /\ DOMAIN tx.events = 1..n /\ \A i \in 1..n : IsEvent(tx.events[i])
    BY DEF HasEvents, IsList
  <1>2. AlikeAt(6, P, Base(r), Base(s))
    BY DEF AlikeAt
  <1>3. ASSUME NEW i \in 1..n, NEW y, NEW z, AlikeAt(6, P, y, z)
        PROVE  AlikeAt(6, P, Step(6, c, y, tx.events[i]), Step(6, c, z, tx.events[i]))
    <2> DEFINE e == processParentTx(tx, tx.events[i])
               at == TxEventAt(b, txIndex, m, y.index)
    <2>1. y.index = z.index /\ SameTotals(P, y.r, z.r)
      BY <1>3 DEF AlikeAt
    <2>2. IsEvent(e)
      BY <1>1, ParentTxIs
    <2>3. /\ Step(6, c, y, tx.events[i]) = [r |-> processEvent(y.r, id, e, at), index |-> y.index + 1]
          /\ Step(6, c, z, tx.events[i]) = [r |-> processEvent(z.r, id, e, at), index |-> z.index + 1]
      BY <2>1 DEF Step, RecordTxEvent
    <2> HIDE DEF e, at
    <2>4. SameTotals(P, processEvent(y.r, id, e, at), processEvent(z.r, id, e, at))
      BY <2>1, <2>2, processEventAlike
    <2> QED
      BY <2>1, <2>3, <2>4 DEF AlikeAt
  <1> HIDE DEF n, Base
  <1>4. PICK t : Steps(6, c, t, Base(r), tx.events, n) /\ t[n] = RecordTxEvents(r, id, b, tx, txIndex, m)
    BY <1>1, RecordTxEventsSteps DEF Base
  <1>5. PICK u : Steps(6, c, u, Base(s), tx.events, n) /\ u[n] = RecordTxEvents(s, id, b, tx, txIndex, m)
    BY <1>1, RecordTxEventsSteps DEF Base
  <1> HIDE DEF c
  <1>6. AlikeAt(6, P, t[n], u[n])
    BY <1>1, <1>2, <1>3, <1>4, <1>5, FoldsAlike
  <1> QED
    BY <1>4, <1>5, <1>6 DEF AlikeAt

\* All transactions of a block.
LEMMA RecordTxsAlike ==
    ASSUME NEW P, NEW r, NEW s, SameTotals(P, r, s), NEW id, NEW b, IsBlock(b), NEW m
    PROVE  SameTotals(P, RecordTxs(r, id, b, m).r, RecordTxs(s, id, b, m).r)
  <1> DEFINE n == Len(b.txs)
             c == <<id, b, m>>
             Base(z) == [r |-> z, tx |-> 1]
  <1>1. n \in Nat /\ DOMAIN b.txs = 1..n /\ \A i \in 1..n : HasEvents(b.txs[i].events) /\ IsList(b.txs[i].msgs)
    BY DEF IsBlock, IsList
  <1>2. AlikeAt(8, P, Base(r), Base(s))
    BY DEF AlikeAt
  <1>3. ASSUME NEW i \in 1..n, NEW y, NEW z, AlikeAt(8, P, y, z)
        PROVE  AlikeAt(8, P, Step(8, c, y, b.txs[i]), Step(8, c, z, b.txs[i]))
    <2> DEFINE tx == b.txs[i]
               At(index) == TxEventAt(b, y.tx, m, index)
    <2>1. y.tx = z.tx /\ SameTotals(P, y.r, z.r)
      BY <1>3 DEF AlikeAt
    <2>2. /\ Step(8, c, y, b.txs[i]) = [r |-> RecordTx(y.r, id, b, tx, y.tx, m), tx |-> y.tx + 1]
          /\ Step(8, c, z, b.txs[i]) = [r |-> RecordTx(z.r, id, b, tx, y.tx, m), tx |-> y.tx + 1]
      BY <2>1 DEF Step, NextTx
    <2>3. HasEvents(tx.events) /\ IsList(tx.msgs)
      BY <1>1
    <2> HIDE DEF tx
    <2>4. SameTotals(P, processTx(y.r, tx, At(1)), processTx(z.r, tx, At(1)))
      BY <2>1, <2>3, processTxAlike
    <2>5. SameTotals(P, RecordTx(y.r, id, b, tx, y.tx, m), RecordTx(z.r, id, b, tx, y.tx, m))
      BY <2>3, <2>4, RecordTxEventsAlike DEF RecordTx
    <2> QED
      BY <2>1, <2>2, <2>5 DEF AlikeAt
  <1> HIDE DEF n, Base
  <1>4. PICK t : Steps(8, c, t, Base(r), b.txs, n) /\ t[n] = RecordTxs(r, id, b, m)
    BY <1>1, RecordTxsSteps DEF Base
  <1>5. PICK u : Steps(8, c, u, Base(s), b.txs, n) /\ u[n] = RecordTxs(s, id, b, m)
    BY <1>1, RecordTxsSteps DEF Base
  <1> HIDE DEF c
  <1>6. AlikeAt(8, P, t[n], u[n])
    BY <1>1, <1>2, <1>3, <1>4, <1>5, FoldsAlike
  <1> QED
    BY <1>4, <1>5, <1>6 DEF AlikeAt

-----------------------------------------------------------------------------
(* The block.                                                              *)

\* A pass over the events outside of transactions: it numbers them the same.
LEMMA RecordFinalizeAlike ==
    ASSUME NEW P, NEW r, NEW s, SameTotals(P, r, s), NEW id, NEW b, HasEvents(b.finalize), NEW location,
           NEW modez, NEW m
    PROVE  AlikeAt(5, P, RecordFinalize(r, id, b, location, modez, m), RecordFinalize(s, id, b, location, modez, m))
  <1> DEFINE n == Len(b.finalize)
             c == <<id, b, location, modez, m>>
             Base(z) == [r |-> z, index |-> 1]
  <1>1. n \in Nat /\ DOMAIN b.finalize = 1..n /\ \A i \in 1..n : IsEvent(b.finalize[i])
    BY DEF HasEvents, IsList
  <1>2. AlikeAt(5, P, Base(r), Base(s))
    BY DEF AlikeAt
  <1>3. ASSUME NEW i \in 1..n, NEW y, NEW z, AlikeAt(5, P, y, z)
        PROVE  AlikeAt(5, P, Step(5, c, y, b.finalize[i]), Step(5, c, z, b.finalize[i]))
    <2> DEFINE e == b.finalize[i]
               at == [m EXCEPT !.id = EventId(b.height, location, 0, y.index)]
               Result(w) == [r |-> IF e.mode \in modez THEN processEvent(w, id, e, at) ELSE w,
                             index |-> NextIndex(y.index, e.mode \in modez, location)]
    <2>1. y.index = z.index /\ SameTotals(P, y.r, z.r)
      BY <1>3 DEF AlikeAt
    <2>2. IsEvent(e)
      BY <1>1
    <2>3. Step(5, c, y, b.finalize[i]) = Result(y.r) /\ Step(5, c, z, b.finalize[i]) = Result(z.r)
      BY <2>1 DEF Step, RecordEvent
    <2> HIDE DEF e, at
    <2>4. SameTotals(P, processEvent(y.r, id, e, at), processEvent(z.r, id, e, at))
      BY <2>1, <2>2, processEventAlike
    <2> QED
      BY <2>1, <2>3, <2>4 DEF AlikeAt
  <1> HIDE DEF n, Base
  <1>4. PICK t : Steps(5, c, t, Base(r), b.finalize, n) /\ t[n] = RecordFinalize(r, id, b, location, modez, m)
    BY <1>1, RecordFinalizeSteps DEF Base
  <1>5. PICK u : Steps(5, c, u, Base(s), b.finalize, n) /\ u[n] = RecordFinalize(s, id, b, location, modez, m)
    BY <1>1, RecordFinalizeSteps DEF Base
  <1> HIDE DEF c
  <1> QED
    BY <1>1, <1>2, <1>3, <1>4, <1>5, FoldsAlike

\* The handlers a correction may name.
CorrectionHandlers ==
    {"OnStake", "OnWithdraw", "OnSwap", "OnUpdateNodeAccountStatus", "OnTransfer", "OnTHORNameChange", "OnBurn",
     "OnCoinbase", "OnPoolBalanceChange"}

\* All corrections of a chain name one of them.
LEMMA CorrectionsAre ==
    ASSUME NEW id
    PROVE  /\ IsList(AdditionalEvents(id))
           /\ \A i \in DOMAIN AdditionalEvents(id) : AdditionalEvents(id)[i].handler \in CorrectionHandlers
  <1> DEFINE K == {addInsteadWithdrawMapMainnet202104, WithdrawIncreasesUnits, GenesisNode, MissingWithdraws,
                   RemoveLiquidityCorrections, BalanceCorrections[1], MissingRefunds[1], PreregisterThornames,
                   THORNodeInvariants[1], THORNodeInvariants[2], mainnetArtificialDepthChanges,
                   TestnetEvents[1]}
  <1>1. \A a \in K : a.handler \in CorrectionHandlers
    <2>1. /\ addInsteadWithdrawMapMainnet202104.handler \in CorrectionHandlers
          /\ mainnetArtificialDepthChanges.handler \in CorrectionHandlers
      BY DEF addInsteadWithdrawMapMainnet202104, mainnetArtificialDepthChanges, ArtificialUnitChange,
             ArtificialDepthChange, Artificial, CorrectionHandlers
    <2>2. /\ WithdrawIncreasesUnits.handler \in CorrectionHandlers
          /\ GenesisNode.handler \in CorrectionHandlers
          /\ MissingWithdraws.handler \in CorrectionHandlers
          /\ RemoveLiquidityCorrections.handler \in CorrectionHandlers
          /\ PreregisterThornames.handler \in CorrectionHandlers
      BY DEF WithdrawIncreasesUnits, GenesisNode, MissingWithdraws, RemoveLiquidityCorrections,
             PreregisterThornames, Artificial, CorrectionHandlers
    <2>3. /\ BalanceCorrections[1].handler \in CorrectionHandlers
          /\ MissingRefunds[1].handler \in CorrectionHandlers
          /\ THORNodeInvariants[1].handler \in CorrectionHandlers
          /\ THORNodeInvariants[2].handler \in CorrectionHandlers
          /\ TestnetEvents[1].handler \in CorrectionHandlers
      BY DEF BalanceCorrections, MissingRefunds, THORNodeInvariants, TestnetEvents, Artificial, CorrectionHandlers
    <2> QED
      BY <2>1, <2>2, <2>3
  <1>2. /\ BalanceCorrections \in Seq(K) /\ MissingRefunds \in Seq(K) /\ THORNodeInvariants \in Seq(K)
        /\ TestnetEvents \in Seq(K)
    <2>1. BalanceCorrections \in [1..2 -> K] /\ MissingRefunds \in [1..2 -> K]
      <3>1. \A i \in 1..2 : BalanceCorrections[i] = BalanceCorrections[1] /\ MissingRefunds[i] = MissingRefunds[1]
        BY DEF BalanceCorrections, MissingRefunds
      <3>2. BalanceCorrections = [i \in 1..2 |-> BalanceCorrections[i]] /\ MissingRefunds = [i \in 1..2 |-> MissingRefunds[i]]
        BY DEF BalanceCorrections, MissingRefunds
      <3> QED
        BY <3>1, <3>2
    <2>2. BalanceCorrections \in Seq(K) /\ MissingRefunds \in Seq(K)
      <3> HIDE DEF K
      <3>1. \A s \in [1..2 -> K] : s \in Seq(K)
        BY SeqDef, 2 \in Nat, Zenon
      <3> QED
        BY <2>1, <3>1
    <2>3. THORNodeInvariants = <<THORNodeInvariants[1], THORNodeInvariants[2]>> /\ TestnetEvents = <<TestnetEvents[1]>>
      BY DEF THORNodeInvariants, TestnetEvents
    <2>4. THORNodeInvariants[1] \in K /\ THORNodeInvariants[2] \in K /\ TestnetEvents[1] \in K
      OBVIOUS
    <2> HIDE DEF K
    <2>5. \A a, b \in K : <<a>> \in Seq(K) /\ <<a, b>> \in Seq(K)
      OBVIOUS
    <2> QED
      BY <2>2, <2>3, <2>4, <2>5, Zenon
  <1>3. /\ <<addInsteadWithdrawMapMainnet202104, WithdrawIncreasesUnits, GenesisNode, MissingWithdraws,
             RemoveLiquidityCorrections>> \in Seq(K)
        /\ <<PreregisterThornames>> \in Seq(K) /\ <<mainnetArtificialDepthChanges>> \in Seq(K)
    <2>1. /\ addInsteadWithdrawMapMainnet202104 \in K /\ WithdrawIncreasesUnits \in K /\ GenesisNode \in K
          /\ MissingWithdraws \in K /\ RemoveLiquidityCorrections \in K /\ PreregisterThornames \in K
          /\ mainnetArtificialDepthChanges \in K
      OBVIOUS
    <2> HIDE DEF K
    <2> QED
      BY <2>1
  <1> HIDE DEF K
  <1>4. \A s, t \in Seq(K) : s \o t \in Seq(K)
    OBVIOUS
  <1>5. MainnetEvents \in Seq(K)
    BY <1>2, <1>3, <1>4 DEF MainnetEvents
  <1>6. <<>> \in Seq(K)
    OBVIOUS
  <1>7. AdditionalEvents(id) \in Seq(K)
    BY <1>2, <1>5, <1>6 DEF AdditionalEvents
  <1>8. IsList(AdditionalEvents(id)) /\ \A i \in DOMAIN AdditionalEvents(id) : AdditionalEvents(id)[i] \in K
    BY <1>7 DEF IsList
  <1> QED
    BY <1>1, <1>8

\* The corrections at the end of a block.
LEMMA AddMissingEventsAlike ==
    ASSUME NEW P, NEW r, NEW s, SameTotals(P, r, s), NEW id, NEW m
    PROVE  SameTotals(P, AddMissingEvents(r, id, m), AddMissingEvents(s, id, m))
  <1> DEFINE seq == AdditionalEvents(id)
             n == Len(seq)
             c == <<id, m>>
  <1>1. n \in Nat /\ DOMAIN seq = 1..n /\ \A i \in 1..n : seq[i].handler \in CorrectionHandlers
    BY CorrectionsAre DEF IsList
  <1>2. \A a, b : AlikeAt(7, P, a, b) <=> SameTotals(P, a, b)
    BY DEF AlikeAt
  <1>3. ASSUME NEW e, e.handler \in CorrectionHandlers, NEW a, NEW b, SameTotals(P, a, b)
        PROVE  SameTotals(P, Step(7, c, a, e), Step(7, c, b, e))
    <2> DEFINE ar == Begun(a, {})
               br == Begun(b, {})
    <2>1. Alike(P, ar, br)
      BY <1>3, BegunAlike
    <2>2. Step(7, c, a, e) = AddMissingEvent(a, id, m, e) /\ Step(7, c, b, e) = AddMissingEvent(b, id, m, e)
      BY DEF Step
    <2>3. CASE HeightOf[e.at] # m.height
      BY <1>3, <2>2, <2>3 DEF AddMissingEvent
    <2>4. CASE HeightOf[e.at] = m.height
      <3>1. CASE e.handler = "OnStake"
        BY <2>1, <2>2, <2>4, <3>1, OnStakeAlike DEF AddMissingEvent, Alike
      <3>2. CASE e.handler = "OnWithdraw"
        BY <2>1, <2>2, <2>4, <3>2, OnWithdrawAlike DEF AddMissingEvent, Alike
      <3>3. CASE e.handler = "OnSwap"
        BY <2>1, <2>2, <2>4, <3>3, OnSwapAlike DEF AddMissingEvent, Alike
      <3>4. CASE e.handler = "OnUpdateNodeAccountStatus"
        BY <2>1, <2>2, <2>4, <3>4, InsertAlike DEF AddMissingEvent, Alike, OnUpdateNodeAccountStatus
      <3>5. CASE e.handler = "OnTransfer"
        BY <2>1, <2>2, <2>4, <3>5, InsertAlike DEF AddMissingEvent, Alike, OnTransfer
      <3>6. CASE e.handler = "OnTHORNameChange"
        BY <2>1, <2>2, <2>4, <3>6, InsertAlike DEF AddMissingEvent, Alike, OnTHORNameChange
      <3>7. CASE e.handler = "OnBurn"
        BY <2>1, <2>2, <2>4, <3>7, AddAlike DEF AddMissingEvent, Alike, OnBurn
      <3>8. CASE e.handler = "OnCoinbase"
        BY <2>1, <2>2, <2>4, <3>8, AddAlike DEF AddMissingEvent, Alike, OnCoinbase
      <3>9. CASE e.handler = "OnPoolBalanceChange"
        BY <2>1, <2>2, <2>4, <3>9, OnPoolBalanceChangeAlike DEF AddMissingEvent, Alike
      <3> QED
        BY <1>3, <3>1, <3>2, <3>3, <3>4, <3>5, <3>6, <3>7, <3>8, <3>9 DEF CorrectionHandlers
    <2> QED
      BY <2>3, <2>4
  <1> HIDE DEF n, seq
  <1>4. PICK t : Steps(7, c, t, r, seq, n) /\ t[n] = AddMissingEvents(r, id, m)
    BY <1>1, AddMissingEventsSteps DEF seq
  <1>5. PICK u : Steps(7, c, u, s, seq, n) /\ u[n] = AddMissingEvents(s, id, m)
    BY <1>1, AddMissingEventsSteps DEF seq
  <1> HIDE DEF c
  <1> QED
    BY <1>1, <1>2, <1>3, <1>4, <1>5, FoldsAlike

\* A block leaves the same totals to recorders with the same totals, and no pool is forgotten.
THEOREM RecordBlockAlike ==
    ASSUME NEW P, NEW r, NEW s, SameTotals(P, r, s), NEW id, NEW block, IsBlock(block)
    PROVE  SameTotals(P, RecordBlock(r, id, block), RecordBlock(s, id, block))
  <1> DEFINE b == applyBlockCorrections(id, block)
             m == Metadata(b.height, b.time, EventId(b.height, "BeginBlockEvents", 0, 1))
             Begin(z) == RecordFinalize(z, id, b, "BeginBlockEvents", BeginModes, m).r
             Between(z) == RecordTxs(Begin(z), id, b, m).r
             End(z) == RecordFinalize(Between(z), id, b, "EndBlockEvents", {"EndBlock"}, m)
             left == [m EXCEPT !.id = EventId(b.height, "EndBlockEvents", 0, End(r).index)]
  <1>1. IsBlock(b)
    BY DEF applyBlockCorrections, IsBlock
  <1>2. HasEvents(b.finalize)
    BY <1>1 DEF IsBlock
  <1>3. \A z : RecordBlock(z, id, block) =
              AddMissingEvents(End(z).r, id, [m EXCEPT !.id = EventId(b.height, "EndBlockEvents", 0, End(z).index)])
    BY DEF RecordBlock, RecordEnd
  <1> HIDE DEF b, m
  <1>4. SameTotals(P, Begin(r), Begin(s))
    BY <1>2, RecordFinalizeAlike DEF AlikeAt
  <1> HIDE DEF Begin
  <1>5. SameTotals(P, Between(r), Between(s))
    BY <1>1, <1>4, RecordTxsAlike
  <1> HIDE DEF Between
  <1>6. SameTotals(P, End(r).r, End(s).r) /\ End(r).index = End(s).index
    BY <1>2, <1>5, RecordFinalizeAlike DEF AlikeAt
  <1> HIDE DEF End
  <1>7. SameTotals(P, AddMissingEvents(End(r).r, id, left), AddMissingEvents(End(s).r, id, left))
    BY <1>6, AddMissingEventsAlike
  <1> QED
    BY <1>3, <1>6, <1>7

-----------------------------------------------------------------------------
(* The genesis file.                                                       *)

\* One entry: its rows, its totals and the id of the next.
LEMMA EntryAlike ==
    ASSUME NEW P, NEW a, NEW b, GenesisAlike(P, a, b)
    PROVE  /\ \A table, data, data2 : GenesisAlike(P, Insert(a, table, data), Insert(b, table, data2))
           /\ GenesisAlike(P, Bump(a), Bump(b))
           /\ \A x, y : Alike(P, x, y) => GenesisAlike(P, [a EXCEPT !.r = x], [b EXCEPT !.r = y])
  <1>1. ASSUME NEW x, NEW y, Alike(P, x, y) PROVE GenesisAlike(P, [a EXCEPT !.r = x], [b EXCEPT !.r = y])
    BY <1>1 DEF GenesisAlike
  <1>2. ASSUME NEW table, NEW data, NEW data2
        PROVE  GenesisAlike(P, Insert(a, table, data), Insert(b, table, data2))
    <2>1. Alike(P, InsertWithMeta(a.r, table, a.m, data), InsertWithMeta(b.r, table, b.m, data2))
      BY InsertAlike DEF GenesisAlike
    <2> QED
      BY <1>1, <2>1 DEF Insert
  <1>3. GenesisAlike(P, Bump(a), Bump(b))
    BY DEF GenesisAlike, Bump
  <1> QED
    BY <1>1, <1>2, <1>3

\* The pools of the file.
LEMMA GenPoolsAlike ==
    ASSUME NEW P, NEW s1, NEW s2, GenesisAlike(P, s1, s2), NEW list, IsList(list)
    PROVE  GenesisAlike(P, recordGenPools(s1, list), recordGenPools(s2, list))
  <1> DEFINE n == Len(list)
             c == <<>>
  <1>1. n \in Nat /\ DOMAIN list = 1..n
    BY DEF IsList
  <1>2. \A a, b : AlikeAt(9, P, a, b) <=> GenesisAlike(P, a, b)
    BY DEF AlikeAt
  <1>3. ASSUME NEW e, NEW a, NEW b, GenesisAlike(P, a, b)
        PROVE  GenesisAlike(P, Step(9, c, a, e), Step(9, c, b, e))
    <2> DEFINE stored(z) == Insert(Insert(z, "pool_balance_change_events", <<e.asset, e.rune, TRUE, e.amount, TRUE>>),
                                   "pool_events", <<e.asset, e.status>>)
               r(z) == SetPoolStatus(stored(z).r, e.asset, e.status)
               paid(z) == AddPoolRuneE8Depth(AddPoolAssetE8Depth(r(z), e.asset, e.amount), e.asset, e.rune)
    <2>1. GenesisAlike(P, stored(a), stored(b))
      BY <1>3, EntryAlike
    <2>2. Alike(P, r(a), r(b))
      BY <2>1, SetAlike DEF GenesisAlike
    <2> HIDE DEF r
    <2>3. Alike(P, paid(a), paid(b))
      <3>1. Alike(P, AddPoolAssetE8Depth(r(a), e.asset, e.amount), AddPoolAssetE8Depth(r(b), e.asset, e.amount))
        BY <2>2, AddAlike
      <3> QED
        BY <3>1, AddAlike
    <2>4. \A z : Step(9, c, z, e) = Bump([stored(z) EXCEPT !.r = paid(z)])
      BY DEF Step, GenPool, r
    <2> HIDE DEF stored, paid
    <2>5. GenesisAlike(P, [stored(a) EXCEPT !.r = paid(a)], [stored(b) EXCEPT !.r = paid(b)])
      BY <2>1, <2>3, EntryAlike
    <2> QED
      BY <2>4, <2>5, EntryAlike
  <1> HIDE DEF n
  <1>4. PICK t : Steps(9, c, t, s1, list, n) /\ t[n] = recordGenPools(s1, list)
    BY <1>1, GenPoolsSteps
  <1>5. PICK u : Steps(9, c, u, s2, list, n) /\ u[n] = recordGenPools(s2, list)
    BY <1>1, GenPoolsSteps
  <1> HIDE DEF c
  <1> QED
    BY <1>1, <1>2, <1>3, <1>4, <1>5, FoldsAlike

\* The supplies of synths of the file.
LEMMA GenSuppliesAlike ==
    ASSUME NEW P, NEW s1, NEW s2, GenesisAlike(P, s1, s2), NEW list, IsList(list)
    PROVE  GenesisAlike(P, recordGenSupplies(s1, list), recordGenSupplies(s2, list))
  <1> DEFINE n == Len(list)
             c == <<>>
  <1>1. n \in Nat /\ DOMAIN list = 1..n
    BY DEF IsList
  <1>2. \A a, b : AlikeAt(10, P, a, b) <=> GenesisAlike(P, a, b)
    BY DEF AlikeAt
  <1>3. ASSUME NEW e, NEW a, NEW b, GenesisAlike(P, a, b)
        PROVE  GenesisAlike(P, Step(10, c, a, e), Step(10, c, b, e))
    <2> DEFINE pool == ConvertSynthPoolToNative(e.asset)
    <2>1. Alike(P, AddPoolSynthE8Depth(a.r, pool, e.e8), AddPoolSynthE8Depth(b.r, pool, e.e8))
      BY <1>3, AddAlike DEF GenesisAlike
    <2>2. /\ Step(10, c, a, e) = [a EXCEPT !.r = AddPoolSynthE8Depth(a.r, pool, e.e8)]
          /\ Step(10, c, b, e) = [b EXCEPT !.r = AddPoolSynthE8Depth(b.r, pool, e.e8)]
      BY DEF Step, GenSupply
    <2> DEFINE x == AddPoolSynthE8Depth(a.r, pool, e.e8)
               y == AddPoolSynthE8Depth(b.r, pool, e.e8)
    <2> HIDE DEF x, y
    <2>3. GenesisAlike(P, [a EXCEPT !.r = x], [b EXCEPT !.r = y])
      BY <1>3, <2>1, EntryAlike DEF x, y
    <2> QED
      BY <2>2, <2>3 DEF x, y
  <1> HIDE DEF n
  <1>4. PICK t : Steps(10, c, t, s1, list, n) /\ t[n] = recordGenSupplies(s1, list)
    BY <1>1, GenSuppliesSteps
  <1>5. PICK u : Steps(10, c, u, s2, list, n) /\ u[n] = recordGenSupplies(s2, list)
    BY <1>1, GenSuppliesSteps
  <1> HIDE DEF c
  <1> QED
    BY <1>1, <1>2, <1>3, <1>4, <1>5, FoldsAlike

\* The balances of the file.
LEMMA GenTransfersAlike ==
    ASSUME NEW P, NEW s1, NEW s2, GenesisAlike(P, s1, s2), NEW list, IsList(list)
    PROVE  GenesisAlike(P, GenTransfers(s1, list), GenTransfers(s2, list))
  <1> DEFINE n == Len(list)
             c == <<>>
  <1>1. n \in Nat /\ DOMAIN list = 1..n
    BY DEF IsList
  <1>2. \A a, b : AlikeAt(11, P, a, b) <=> GenesisAlike(P, a, b)
    BY DEF AlikeAt
  <1>3. ASSUME NEW e, NEW a, NEW b, GenesisAlike(P, a, b)
        PROVE  GenesisAlike(P, Step(11, c, a, e), Step(11, c, b, e))
    <2> DEFINE stored(z) == Insert(z, "transfer_events", <<>>)
    <2>1. GenesisAlike(P, stored(a), stored(b))
      BY <1>3, EntryAlike
    <2>2. \A z : Step(11, c, z, e) = Bump(stored(z))
      BY DEF Step, GenTransfer
    <2> HIDE DEF stored
    <2> QED
      BY <2>1, <2>2, EntryAlike
  <1> HIDE DEF n
  <1>4. PICK t : Steps(11, c, t, s1, list, n) /\ t[n] = GenTransfers(s1, list)
    BY <1>1, GenTransfersSteps
  <1>5. PICK u : Steps(11, c, u, s2, list, n) /\ u[n] = GenTransfers(s2, list)
    BY <1>1, GenTransfersSteps
  <1> HIDE DEF c
  <1> QED
    BY <1>1, <1>2, <1>3, <1>4, <1>5, FoldsAlike

\* The members of the file.
LEMMA GenLPsAlike ==
    ASSUME NEW P, NEW s1, NEW s2, GenesisAlike(P, s1, s2), NEW list, IsList(list)
    PROVE  GenesisAlike(P, recordGenLPs(s1, list), recordGenLPs(s2, list))
  <1> DEFINE n == Len(list)
             c == <<>>
  <1>1. n \in Nat /\ DOMAIN list = 1..n
    BY DEF IsList
  <1>2. \A a, b : AlikeAt(12, P, a, b) <=> GenesisAlike(P, a, b)
    BY DEF AlikeAt
  <1>3. ASSUME NEW e, NEW a, NEW b, GenesisAlike(P, a, b)
        PROVE  GenesisAlike(P, Step(12, c, a, e), Step(12, c, b, e))
    <2> DEFINE pended(z) == IF e.pending THEN Insert(z, "pending_liquidity_events", <<>>) ELSE z
               inRune(z) == AssetInRune(e.amount, DepthIn(z.r.asset, e.pool), DepthIn(z.r.rune, e.pool))
               staked(z) == IF e.units > 0
                            THEN Insert(pended(z), "stake_events", <<e.pool, e.amount, e.rune, inRune(z)>>) ELSE pended(z)
    <2>1. GenesisAlike(P, pended(a), pended(b))
      BY <1>3, EntryAlike
    <2> HIDE DEF pended, inRune
    <2>2. GenesisAlike(P, staked(a), staked(b))
      BY <2>1, EntryAlike
    <2>3. \A z : Step(12, c, z, e) = Bump(staked(z))
      BY DEF Step, GenLP, pended, inRune
    <2> HIDE DEF staked
    <2> QED
      BY <2>2, <2>3, EntryAlike
  <1> HIDE DEF n
  <1>4. PICK t : Steps(12, c, t, s1, list, n) /\ t[n] = recordGenLPs(s1, list)
    BY <1>1, GenLPsSteps
  <1>5. PICK u : Steps(12, c, u, s2, list, n) /\ u[n] = recordGenLPs(s2, list)
    BY <1>1, GenLPsSteps
  <1> HIDE DEF c
  <1> QED
    BY <1>1, <1>2, <1>3, <1>4, <1>5, FoldsAlike

\* The names of the file.
LEMMA GenTHORNamesAlike ==
    ASSUME NEW P, NEW s1, NEW s2, GenesisAlike(P, s1, s2), NEW list, IsList(list)
    PROVE  GenesisAlike(P, recordGenTHORNames(s1, list), recordGenTHORNames(s2, list))
  <1> DEFINE n == Len(list)
             c == <<>>
  <1>1. n \in Nat /\ DOMAIN list = 1..n
    BY DEF IsList
  <1>2. \A a, b : AlikeAt(13, P, a, b) <=> GenesisAlike(P, a, b)
    BY DEF AlikeAt
  <1>3. ASSUME NEW e, NEW a, NEW b, GenesisAlike(P, a, b)
        PROVE  GenesisAlike(P, Step(13, c, a, e), Step(13, c, b, e))
    <2> DEFINE stored(z) == Insert(z, "thorname_change_events", <<>>)
    <2>1. GenesisAlike(P, stored(a), stored(b))
      BY <1>3, EntryAlike
    <2>2. \A z : Step(13, c, z, e) = Bump(stored(z))
      BY DEF Step, GenTHORName
    <2> HIDE DEF stored
    <2> QED
      BY <2>1, <2>2, EntryAlike
  <1> HIDE DEF n
  <1>4. PICK t : Steps(13, c, t, s1, list, n) /\ t[n] = recordGenTHORNames(s1, list)
    BY <1>1, GenTHORNamesSteps
  <1>5. PICK u : Steps(13, c, u, s2, list, n) /\ u[n] = recordGenTHORNames(s2, list)
    BY <1>1, GenTHORNamesSteps
  <1> HIDE DEF c
  <1> QED
    BY <1>1, <1>2, <1>3, <1>4, <1>5, FoldsAlike

\* The nodes of the file.
LEMMA GenNodesAlike ==
    ASSUME NEW P, NEW s1, NEW s2, GenesisAlike(P, s1, s2), NEW list, IsList(list)
    PROVE  GenesisAlike(P, recordGenNodes(s1, list), recordGenNodes(s2, list))
  <1> DEFINE n == Len(list)
             c == <<>>
  <1>1. n \in Nat /\ DOMAIN list = 1..n
    BY DEF IsList
  <1>2. \A a, b : AlikeAt(14, P, a, b) <=> GenesisAlike(P, a, b)
    BY DEF AlikeAt
  <1>3. ASSUME NEW e, NEW a, NEW b, GenesisAlike(P, a, b)
        PROVE  GenesisAlike(P, Step(14, c, a, e), Step(14, c, b, e))
    <2> DEFINE stored(z) == Insert(Insert(z, "update_node_account_status_events", <<>>), "bond_events", <<>>)
    <2>1. GenesisAlike(P, stored(a), stored(b))
      BY <1>3, EntryAlike
    <2>2. \A z : Step(14, c, z, e) = Bump(stored(z))
      BY DEF Step, GenNode
    <2> HIDE DEF stored
    <2> QED
      BY <2>1, <2>2, EntryAlike
  <1> HIDE DEF n
  <1>4. PICK t : Steps(14, c, t, s1, list, n) /\ t[n] = recordGenNodes(s1, list)
    BY <1>1, GenNodesSteps
  <1>5. PICK u : Steps(14, c, u, s2, list, n) /\ u[n] = recordGenNodes(s2, list)
    BY <1>1, GenNodesSteps
  <1> HIDE DEF c
  <1> QED
    BY <1>1, <1>2, <1>3, <1>4, <1>5, FoldsAlike

\* The loans of the file.
LEMMA GenLoansAlike ==
    ASSUME NEW P, NEW s1, NEW s2, GenesisAlike(P, s1, s2), NEW list, IsList(list)
    PROVE  GenesisAlike(P, recordGenLoans(s1, list), recordGenLoans(s2, list))
  <1> DEFINE n == Len(list)
             c == <<>>
  <1>1. n \in Nat /\ DOMAIN list = 1..n
    BY DEF IsList
  <1>2. \A a, b : AlikeAt(15, P, a, b) <=> GenesisAlike(P, a, b)
    BY DEF AlikeAt
  <1>3. ASSUME NEW e, NEW a, NEW b, GenesisAlike(P, a, b)
        PROVE  GenesisAlike(P, Step(15, c, a, e), Step(15, c, b, e))
    <2> DEFINE at(z) == [z EXCEPT !.m.height = e.height, !.m.id = EventId(e.height, "BeginBlockEvents", 0, 0)]
               opened(z) == Insert(at(z), "loan_open_events", <<>>)
               done(z) == IF e.repaid THEN Insert(opened(z), "loan_repayment_events", <<>>) ELSE opened(z)
    <2>1. GenesisAlike(P, at(a), at(b))
      BY <1>3 DEF GenesisAlike
    <2> HIDE DEF at
    <2>2. GenesisAlike(P, opened(a), opened(b))
      BY <2>1, EntryAlike
    <2> HIDE DEF opened
    <2>3. GenesisAlike(P, done(a), done(b))
      BY <2>2, EntryAlike
    <2>4. \A z : Step(15, c, z, e) = Bump(done(z))
      BY DEF Step, GenLoan, at, opened
    <2> HIDE DEF done
    <2> QED
      BY <2>3, <2>4, EntryAlike
  <1> HIDE DEF n
  <1>4. PICK t : Steps(15, c, t, s1, list, n) /\ t[n] = recordGenLoans(s1, list)
    BY <1>1, GenLoansSteps
  <1>5. PICK u : Steps(15, c, u, s2, list, n) /\ u[n] = recordGenLoans(s2, list)
    BY <1>1, GenLoansSteps
  <1> HIDE DEF c
  <1> QED
    BY <1>1, <1>2, <1>3, <1>4, <1>5, FoldsAlike

\* The mimirs of the file.
LEMMA GenMimirsAlike ==
    ASSUME NEW P, NEW s1, NEW s2, GenesisAlike(P, s1, s2), NEW list, IsList(list)
    PROVE  GenesisAlike(P, recordGenMimirs(s1, list), recordGenMimirs(s2, list))
  <1> DEFINE n == Len(list)
             c == <<>>
  <1>1. n \in Nat /\ DOMAIN list = 1..n
    BY DEF IsList
  <1>2. \A a, b : AlikeAt(16, P, a, b) <=> GenesisAlike(P, a, b)
    BY DEF AlikeAt
  <1>3. ASSUME NEW e, NEW a, NEW b, GenesisAlike(P, a, b)
        PROVE  GenesisAlike(P, Step(16, c, a, e), Step(16, c, b, e))
    <2> DEFINE stored(z) == Insert(z, "set_mimir_events", <<e.key, [isInt |-> TRUE, int |-> e.value]>>)
    <2>1. GenesisAlike(P, stored(a), stored(b))
      BY <1>3, EntryAlike
    <2>2. Alike(P, SetMimirStatus(stored(a).r, e.key, e.value), SetMimirStatus(stored(b).r, e.key, e.value))
      BY <2>1, SetAlike DEF GenesisAlike
    <2> DEFINE told(z) == [stored(z) EXCEPT !.r = SetMimirStatus(stored(z).r, e.key, e.value)]
    <2>3. \A z : Step(16, c, z, e) = Bump(told(z))
      BY DEF Step, GenMimir
    <2> HIDE DEF stored
    <2>4. GenesisAlike(P, told(a), told(b))
      BY <2>1, <2>2, EntryAlike
    <2> HIDE DEF told
    <2> QED
      BY <2>3, <2>4, EntryAlike
  <1> HIDE DEF n
  <1>4. PICK t : Steps(16, c, t, s1, list, n) /\ t[n] = recordGenMimirs(s1, list)
    BY <1>1, GenMimirsSteps
  <1>5. PICK u : Steps(16, c, u, s2, list, n) /\ u[n] = recordGenMimirs(s2, list)
    BY <1>1, GenMimirsSteps
  <1> HIDE DEF c
  <1> QED
    BY <1>1, <1>2, <1>3, <1>4, <1>5, FoldsAlike

\* A genesis file leaves the same totals to recorders that are alike.
LEMMA RecordGenesisAlike ==
    ASSUME NEW P, NEW r, NEW s, Alike(P, r, s), NEW g, IsGenesis(g)
    PROVE  SameTotals(P, RecordGenesis(r, g), RecordGenesis(s, g))
  <1> DEFINE m == Metadata(g.height - 1, g.time, EventId(g.height - 1, "BeginBlockEvents", 0, 1))
             Begin(z) == [r |-> z, m |-> m]
             Pools(z) == recordGenPools(Begin(z), g.pools)
             Supplies(z) == recordGenSupplies(Pools(z), g.supplies)
             Transfers(z) == recordGenTransfers(Supplies(z), g.balances)
             LPs(z) == recordGenLPs(Transfers(z), g.lps)
             THORNames(z) == recordGenTHORNames(LPs(z), g.names)
             Nodes(z) == recordGenNodes(THORNames(z), g.nodes)
             Loans(z) == recordGenLoans(Nodes(z), g.loans)
  <1>1. \A z : RecordGenesis(z, g) = recordGenMimirs(Loans(z), g.mimirs).r
    BY DEF RecordGenesis
  <1>2. /\ IsList(g.pools) /\ IsList(g.supplies) /\ IsList(g.balances) /\ IsList(g.lps) /\ IsList(g.names)
        /\ IsList(g.nodes) /\ IsList(g.loans) /\ IsList(g.mimirs)
    BY DEF IsGenesis
  <1> HIDE DEF m
  <1>3. GenesisAlike(P, Begin(r), Begin(s))
    BY DEF GenesisAlike
  <1> HIDE DEF Begin
  <1>4. GenesisAlike(P, Pools(r), Pools(s))
    BY <1>2, <1>3, GenPoolsAlike
  <1> HIDE DEF Pools
  <1>5. GenesisAlike(P, Supplies(r), Supplies(s))
    BY <1>2, <1>4, GenSuppliesAlike
  <1> HIDE DEF Supplies
  <1>6. GenesisAlike(P, Transfers(r), Transfers(s))
    BY <1>2, <1>5, GenTransfersAlike DEF recordGenTransfers
  <1> HIDE DEF Transfers
  <1>7. GenesisAlike(P, LPs(r), LPs(s))
    BY <1>2, <1>6, GenLPsAlike
  <1> HIDE DEF LPs
  <1>8. GenesisAlike(P, THORNames(r), THORNames(s))
    BY <1>2, <1>7, GenTHORNamesAlike
  <1> HIDE DEF THORNames
  <1>9. GenesisAlike(P, Nodes(r), Nodes(s))
    BY <1>2, <1>8, GenNodesAlike
  <1> HIDE DEF Nodes
  <1>10. GenesisAlike(P, Loans(r), Loans(s))
    BY <1>2, <1>9, GenLoansAlike
  <1> HIDE DEF Loans
  <1>11. GenesisAlike(P, recordGenMimirs(Loans(r), g.mimirs), recordGenMimirs(Loans(s), g.mimirs))
    BY <1>2, <1>10, GenMimirsAlike
  <1> QED
    BY <1>1, <1>11 DEF GenesisAlike, Alike

-----------------------------------------------------------------------------
(* Block after block.                                                      *)

\* A Midgard that recorded n blocks: the first totals, and each block with the inserter it had.
LEMMA RecordedIs ==
    ASSUME NEW base, NEW c, NEW how, NEW n \in Nat
    PROVE  /\ Recorded(base, c, how, 0) = base
           /\ n > 0 => Recorded(base, c, how, n) = Again(Recorded(base, c, how, n - 1), c, how, n)
  <1> DEFINE Long == Recorded(base, c, how, n)
             m == n - 1
             Short == Recorded(base, c, how, m)
             cc == <<c, how>>
  <1>1. \A k \in Nat : DOMAIN Heights(k) = 1..k /\ \A i \in 1..k : Heights(k)[i] = i
    BY DEF Heights
  <1>2. PICK t : Steps(17, cc, t, base, Heights(n), n) /\ t[n] = Long
    BY <1>1, RecordedSteps
  <1>3. \A a, h : Step(17, cc, a, h) = Again(a, c, how, h)
    BY DEF Step
  <1> HIDE DEF cc
  <1>4. t[0] = base /\ \A i \in 1..n : t[i] = Again(t[i - 1], c, how, i)
    BY <1>1, <1>2, <1>3 DEF Steps
  <1>5. Recorded(base, c, how, 0) = base
    <2>1. PICK u : Steps(17, cc, u, base, Heights(0), 0) /\ u[0] = Recorded(base, c, how, 0)
      BY <1>1, RecordedSteps DEF cc
    <2> QED
      BY <2>1 DEF Steps
  <1>6. ASSUME n > 0 PROVE Long = Again(Short, c, how, n)
    <2>1. m \in Nat
      BY <1>6
    <2>2. PICK u : Steps(17, cc, u, base, Heights(m), m) /\ u[m] = Short
      <3> HIDE DEF m
      <3> QED
        BY <1>1, <2>1, RecordedSteps DEF cc
    <2>3. u[0] = base /\ \A i \in 1..m : u[i] = Again(u[i - 1], c, how, i)
      <3> HIDE DEF m
      <3> QED
        BY <1>1, <1>3, <2>1, <2>2 DEF Steps
    <2> DEFINE S == {i \in 0..m : t[i] = u[i]}
    <2>4. 0 \in S /\ \A i \in 1..m : i - 1 \in S => i \in S
      BY <1>4, <1>6, <2>1, <2>3
    <2>5. m \in S
      <3> HIDE DEF S, m
      <3> QED
        BY <2>1, <2>4, Climb
    <2>6. t[n - 1] = Short
      BY <2>2, <2>5
    <2> QED
      BY <1>2, <1>4, <1>6, <2>6
  <1> QED
    BY <1>5, <1>6

\* Only the inserters of the blocks recorded matter.
LEMMA RecordedSame ==
    ASSUME NEW base, NEW c, NEW how, NEW how2, NEW n \in Nat, \A h \in 1..n : how[h] = how2[h]
    PROVE  Recorded(base, c, how, n) = Recorded(base, c, how2, n)
  <1> DEFINE S == {i \in 0..n : Recorded(base, c, how, i) = Recorded(base, c, how2, i)}
  <1>1. 0 \in S
    BY RecordedIs
  <1>2. \A i \in 1..n : i - 1 \in S => i \in S
    <2> SUFFICES ASSUME NEW i \in 1..n, i - 1 \in S PROVE i \in S
      OBVIOUS
    <2>1. i \in Nat /\ i > 0 /\ how[i] = how2[i]
      OBVIOUS
    <2>2. \A a : Again(a, c, how, i) = Again(a, c, how2, i)
      BY <2>1 DEF Again
    <2>3. /\ Recorded(base, c, how, i) = Again(Recorded(base, c, how, i - 1), c, how, i)
          /\ Recorded(base, c, how2, i) = Again(Recorded(base, c, how2, i - 1), c, how2, i)
      BY <2>1, RecordedIs
    <2> QED
      BY <2>2, <2>3
  <1> HIDE DEF S
  <1>3. n \in S
    BY <1>1, <1>2, Climb
  <1> QED
    BY <1>3 DEF S

\* The totals are the same, whatever inserter there is.
SameDepths(P, r, s) ==
    /\ IsRecorder(r) /\ IsRecorder(s) /\ Depths(r) = Depths(s) /\ P.pools \subseteq PoolNames(Depths(r))
    /\ SameInfo(P, r, s)

\* A block recorded again, by the inserter it was recorded with.
LEMMA AgainAlike ==
    ASSUME NEW P, NEW r, NEW s, SameDepths(P, r, s), NEW c, NEW how, NEW h, IsBlock(c.blocks[h])
    PROVE  /\ SameDepths(P, Again(r, c, how, h), Again(s, c, how, h))
           /\ r.immediate = how[h] => Again(r, c, how, h) = RecordBlock(r, c.id, c.blocks[h])
  <1> DEFINE By(z) == IF z.immediate = how[h] THEN z ELSE [z EXCEPT !.immediate = how[h]]
  <1>1. \A z : Again(z, c, how, h) = RecordBlock(By(z), c.id, c.blocks[h])
    BY DEF Again
  <1>2. SameTotals(P, By(r), By(s))
    BY DEF SameDepths, SameTotals, SameInfo, IsRecorder, Depths, PoolNames
  <1> HIDE DEF By
  <1>3. SameTotals(P, RecordBlock(By(r), c.id, c.blocks[h]), RecordBlock(By(s), c.id, c.blocks[h]))
    BY <1>2, RecordBlockAlike
  <1> QED
    BY <1>1, <1>3 DEF SameTotals, SameDepths, SameInfo, Depths, PoolNames, By

-----------------------------------------------------------------------------
(* Sequences.                                                              *)

\* A sequence, whatever its elements are.
IsSeq(s) == s \in Seq({s[i] : i \in DOMAIN s})

\* What the library calls a sequence is one, whatever its elements are.
LEMMA SeqIs == ASSUME NEW S, NEW s \in Seq(S) PROVE IsSeq(s)
  BY DEF IsSeq

\* Appending an element, element by element.
LEMMA AppendIs ==
    ASSUME NEW s, IsSeq(s), NEW e
    PROVE  /\ IsSeq(Append(s, e))
           /\ Len(s) \in Nat /\ DOMAIN s = 1..Len(s)
           /\ Len(Append(s, e)) = Len(s) + 1
           /\ \A i \in 1..Len(s) : Append(s, e)[i] = s[i]
           /\ Append(s, e)[Len(s) + 1] = e
  <1> DEFINE S == {s[i] : i \in DOMAIN s} \cup {e}
             t == Append(s, e)
  <1>1. s \in Seq(S)
    BY DEF IsSeq
  <1>2. /\ t \in Seq(S) /\ Len(s) \in Nat /\ DOMAIN s = 1..Len(s) /\ Len(t) = Len(s) + 1
        /\ \A i \in 1..Len(s) : t[i] = s[i]
        /\ t[Len(s) + 1] = e
    BY <1>1
  <1> QED
    BY <1>2, SeqIs

\* A sequence behind another one, element by element.
LEMMA ConcatIs ==
    ASSUME NEW s, IsSeq(s), NEW t, IsSeq(t), NEW u, u = s \o t
    PROVE  /\ IsSeq(u)
           /\ Len(s) \in Nat /\ Len(t) \in Nat
           /\ Len(u) = Len(s) + Len(t)
           /\ \A i \in 1..Len(s) : u[i] = s[i]
           /\ \A i \in 1..Len(t) : u[Len(s) + i] = t[i]
  <1> DEFINE S == {s[i] : i \in DOMAIN s} \cup {t[i] : i \in DOMAIN t}
  <1>1. s \in Seq(S) /\ t \in Seq(S)
    BY DEF IsSeq
  <1> HIDE DEF S
  <1>2. /\ u \in Seq(S) /\ Len(s) \in Nat /\ Len(t) \in Nat /\ Len(u) = Len(s) + Len(t)
        /\ \A i \in 1..Len(s) : u[i] = s[i]
    BY <1>1
  <1>3. ASSUME NEW i \in 1..Len(t)
        PROVE  u[Len(s) + i] = t[i]
    BY <1>1, <1>2
  <1> QED
    BY <1>2, <1>3, SeqIs

\* What is left of the modes of the blocks after a stop.
LEMMA CutIs ==
    ASSUME NEW s, IsSeq(s), NEW n \in 0..Len(s)
    PROVE  IsSeq(SubSeq(s, 1, n)) /\ Len(SubSeq(s, 1, n)) = n
  <1> DEFINE S == {s[i] : i \in DOMAIN s}
  <1>1. s \in Seq(S) /\ n \in Nat /\ n <= Len(s)
    BY DEF IsSeq
  <1> HIDE DEF S
  <1>2. SubSeq(s, 1, n) \in Seq(S) /\ Len(SubSeq(s, 1, n)) = n
    BY <1>1
  <1> QED
    BY <1>2, SeqIs

\* Nothing is a sequence.
LEMMA EmptyIs == IsSeq(<<>>) /\ Len(<<>>) = 0
  BY DEF IsSeq

-----------------------------------------------------------------------------
(* The rows of an event.                                                   *)

\* The tables the chain info is restored from.
PoolTable == "pool_events"
MimirTable == "set_mimir_events"
InfoTables == {PoolTable, MimirTable}

\* What an event adds to the rows: all with its id and time, in tables of a set, at most one in
\* each unless the table is one of those that have many.  Chain info changes with its own tables only.
KeepsInfo(T, r, s) == (PoolTable \notin T => s.status = r.status) /\ (MimirTable \notin T => s.mimir = r.mimir)
IsRowOf(m, T, row) == row.id = AsBigint(m.id) /\ row.time = m.time /\ row.table \in T
Unlike(a, b) == a.table # b.table \/ b.table \in SharedTables
Adds(m, T, r, s) ==
    /\ IsRecorder(s) /\ IsSeq(r.rows) /\ IsSeq(s.rows) /\ Len(r.rows) <= Len(s.rows)
    /\ \A i \in 1..Len(r.rows) : s.rows[i] = r.rows[i]
    /\ \A i \in (Len(r.rows) + 1)..Len(s.rows) :
          /\ IsRowOf(m, T, s.rows[i])
          /\ \A j \in (Len(r.rows) + 1)..(i - 1) : Unlike(s.rows[j], s.rows[i])
    /\ KeepsInfo(T, r, s)

\* The row that is tried.
RowOf(table, m, data) == [table |-> table, id |-> AsBigint(m.id), time |-> m.time, data |-> data]

\* A row goes behind the others, or is lost; nothing else the rows depend on changes.
LEMMA InsertIs ==
    ASSUME NEW s, IsRecorder(s), NEW table, NEW m, NEW data
    PROVE  LET t == InsertWithMeta(s, table, m, data)
           IN  /\ IsRecorder(t) /\ t.status = s.status /\ t.mimir = s.mimir
               /\ t.rows = IF Accepts(s) THEN Append(s.rows, RowOf(table, m, data)) ELSE s.rows
  BY DEF InsertWithMeta, IsRecorder, RowOf

\* A row of a new table, or of one with many.
LEMMA InsertAdds ==
    ASSUME NEW m, NEW T, NEW r, NEW s, Adds(m, T, r, s), NEW table, table \notin T \/ table \in SharedTables, NEW data
    PROVE  Adds(m, T \cup {table}, r, InsertWithMeta(s, table, m, data))
  <1> DEFINE t == InsertWithMeta(s, table, m, data)
             row == RowOf(table, m, data)
             U == T \cup {table}
  <1>1. /\ IsRecorder(t) /\ t.status = s.status /\ t.mimir = s.mimir
        /\ t.rows = IF Accepts(s) THEN Append(s.rows, row) ELSE s.rows
    BY InsertIs DEF Adds
  <1>2. row.id = AsBigint(m.id) /\ row.time = m.time /\ row.table = table
    BY DEF RowOf
  <1>3. PICK n \in Nat, k \in Nat : n = Len(r.rows) /\ k = Len(s.rows) /\ n <= k
    BY AppendIs DEF Adds
  <1>4. KeepsInfo(U, r, t)
    BY <1>1 DEF Adds, KeepsInfo
  <1> HIDE DEF row, t
  <1> SUFFICES Adds(m, U, r, t)
    BY DEF t
  <1>5. CASE Accepts(s)
    <2>1. /\ IsSeq(t.rows) /\ Len(t.rows) = k + 1 /\ t.rows[k + 1] = row
          /\ \A i \in 1..k : t.rows[i] = s.rows[i]
      BY <1>1, <1>3, <1>5, AppendIs DEF Adds
    <2>2. \A i \in 1..n : t.rows[i] = r.rows[i]
      BY <1>3, <2>1 DEF Adds
    <2>3. ASSUME NEW i \in (n + 1)..(k + 1)
          PROVE  IsRowOf(m, U, t.rows[i]) /\ \A j \in (n + 1)..(i - 1) : Unlike(t.rows[j], t.rows[i])
      <3>1. CASE i = k + 1
        <4>1. ASSUME NEW j \in (n + 1)..(i - 1) PROVE Unlike(t.rows[j], t.rows[i])
          <5>1. j \in (n + 1)..k /\ j \in 1..k
            BY <3>1, <1>3
          <5>2. t.rows[j].table \in T
            BY <5>1, <1>3, <2>1 DEF Adds, IsRowOf
          <5> QED
            BY <5>2, <1>2, <2>1, <3>1 DEF Unlike
        <4> QED
          BY <4>1, <3>1, <2>1, <1>2 DEF IsRowOf
      <3>2. CASE i # k + 1
        <4>1. i \in (n + 1)..k /\ i \in 1..k /\ \A j \in (n + 1)..(i - 1) : j \in 1..k
          BY <3>2, <1>3
        <4>2. IsRowOf(m, T, s.rows[i]) /\ \A j \in (n + 1)..(i - 1) : Unlike(s.rows[j], s.rows[i])
          BY <4>1, <1>3 DEF Adds
        <4> QED
          BY <4>1, <4>2, <2>1 DEF IsRowOf
      <3> QED
        BY <3>1, <3>2
    <2>4. n <= k + 1
      BY <1>3
    <2>5. /\ IsRecorder(t) /\ IsSeq(r.rows) /\ IsSeq(t.rows) /\ Len(r.rows) <= Len(t.rows)
          /\ \A i \in 1..Len(r.rows) : t.rows[i] = r.rows[i]
      BY <1>1, <1>3, <2>1, <2>2, <2>4 DEF Adds
    <2>6. \A i \in (Len(r.rows) + 1)..Len(t.rows) :
             /\ IsRowOf(m, U, t.rows[i])
             /\ \A j \in (Len(r.rows) + 1)..(i - 1) : Unlike(t.rows[j], t.rows[i])
      BY <1>3, <2>1, <2>3
    <2> HIDE DEF U
    <2> QED
      BY <1>4, <2>5, <2>6 DEF Adds
  <1>6. CASE ~Accepts(s)
    <2>1. t.rows = s.rows
      BY <1>1, <1>6
    <2>2. \A q : IsRowOf(m, T, q) => IsRowOf(m, U, q)
      BY DEF IsRowOf
    <2> HIDE DEF U
    <2> QED
      BY <1>1, <1>4, <2>1, <2>2 DEF Adds
  <1> QED
    BY <1>5, <1>6

\* An event that tells nothing of pools and mimirs.
Quiet(m, r, s) == \E T : T \cap InfoTables = {} /\ Adds(m, T, r, s)

\* Before the rows of an event there are none of it.
LEMMA BegunAdds ==
    ASSUME NEW m, NEW r, IsRecorder(r), IsSeq(r.rows), NEW refused
    PROVE  Adds(m, {}, r, Begun(r, refused)) /\ IsRecorder(Begun(r, refused))
  <1> DEFINE s == Begun(r, refused)
  <1>1. IsRecorder(s) /\ s.rows = r.rows /\ s.status = r.status /\ s.mimir = r.mimir
    BY DEF Begun, IsRecorder
  <1> HIDE DEF s
  <1>2. Len(r.rows) \in Nat
    BY AppendIs
  <1>3. Len(r.rows) <= Len(r.rows) /\ (Len(r.rows) + 1)..Len(r.rows) = {}
    BY <1>2
  <1> QED
    BY <1>1, <1>3 DEF Adds, KeepsInfo, s

\* An event that leaves the recorder alone adds nothing.
LEMMA NothingAdded == ASSUME NEW m, NEW r, IsRecorder(r), IsSeq(r.rows) PROVE Adds(m, {}, r, r)
  <1>1. Len(r.rows) \in Nat
    BY AppendIs
  <1>2. Len(r.rows) <= Len(r.rows) /\ (Len(r.rows) + 1)..Len(r.rows) = {}
    BY <1>1
  <1> QED
    BY <1>2 DEF Adds, KeepsInfo

\* Totals are not among the rows.
LEMMA AddAdds ==
    ASSUME NEW m, NEW T, NEW r, NEW s, Adds(m, T, r, s), NEW pool, NEW e8
    PROVE  /\ Adds(m, T, r, AddPoolAssetE8Depth(s, pool, e8))
           /\ Adds(m, T, r, AddPoolRuneE8Depth(s, pool, e8))
           /\ Adds(m, T, r, AddPoolSynthE8Depth(s, pool, e8))
           /\ Adds(m, T, r, SetAssetDepth(s, pool, e8))
           /\ Adds(m, T, r, SetRuneDepth(s, pool, e8))
           /\ Adds(m, T, r, SetSynthDepth(s, pool, e8))
  <1> DEFINE Kept(t) == IsRecorder(t) /\ t.rows = s.rows /\ t.status = s.status /\ t.mimir = s.mimir
  <1>1. \A t : Kept(t) => Adds(m, T, r, t)
    BY DEF Adds, KeepsInfo
  <1>2. IsRecorder(s)
    BY DEF Adds
  <1>3. Kept(AddPoolAssetE8Depth(s, pool, e8)) /\ Kept(AddPoolRuneE8Depth(s, pool, e8)) /\ Kept(AddPoolSynthE8Depth(s, pool, e8))
    BY <1>2 DEF AddPoolAssetE8Depth, AddPoolRuneE8Depth, AddPoolSynthE8Depth, IsRecorder
  <1>4. Kept(SetAssetDepth(s, pool, e8)) /\ Kept(SetRuneDepth(s, pool, e8)) /\ Kept(SetSynthDepth(s, pool, e8))
    BY <1>2 DEF SetAssetDepth, SetRuneDepth, SetSynthDepth, IsRecorder
  <1> HIDE DEF Kept
  <1> QED
    BY <1>1, <1>3, <1>4

\* The same of events that tell nothing of pools and mimirs.
LEMMA QuietStart == ASSUME NEW m, NEW r, IsRecorder(r), IsSeq(r.rows) PROVE Quiet(m, r, r)
  BY NothingAdded DEF Quiet

\* A first row of another table.
LEMMA QuietFirst ==
    ASSUME NEW m, NEW r, NEW s, Adds(m, {}, r, s), NEW table, table \notin InfoTables, NEW data
    PROVE  Quiet(m, r, InsertWithMeta(s, table, m, data))
  <1>1. Adds(m, {} \cup {table}, r, InsertWithMeta(s, table, m, data))
    BY InsertAdds
  <1> QED
    BY <1>1 DEF Quiet

\* A further row of a table that has many for one event.
LEMMA QuietShared ==
    ASSUME NEW m, NEW r, NEW s, Quiet(m, r, s), NEW table, table \in SharedTables \ InfoTables, NEW data
    PROVE  Quiet(m, r, InsertWithMeta(s, table, m, data))
  <1>1. PICK T : T \cap InfoTables = {} /\ Adds(m, T, r, s)
    BY DEF Quiet
  <1>2. Adds(m, T \cup {table}, r, InsertWithMeta(s, table, m, data))
    BY <1>1, InsertAdds
  <1> QED
    BY <1>1, <1>2 DEF Quiet

\* Amounts.
LEMMA QuietAdd ==
    ASSUME NEW m, NEW r, NEW s, Quiet(m, r, s), NEW pool, NEW e8
    PROVE  /\ Quiet(m, r, AddPoolAssetE8Depth(s, pool, e8))
           /\ Quiet(m, r, AddPoolRuneE8Depth(s, pool, e8))
           /\ Quiet(m, r, AddPoolSynthE8Depth(s, pool, e8))
  <1>1. PICK T : T \cap InfoTables = {} /\ Adds(m, T, r, s)
    BY DEF Quiet
  <1> QED
    BY <1>1, AddAdds DEF Quiet

\* What a handler starts from, and its first row.
HasRows(r) == IsRecorder(r) /\ IsSeq(r.rows)

\* A first row, from the start.
LEMMA QuietRow ==
    ASSUME NEW m, NEW r, HasRows(r), NEW table, table \notin InfoTables, NEW data
    PROVE  Quiet(m, r, InsertWithMeta(r, table, m, data))
  BY NothingAdded, QuietFirst DEF HasRows

\* One event, type by type.
LEMMA OnAddQuiet == ASSUME NEW m, NEW r, HasRows(r), NEW x PROVE Quiet(m, r, OnAdd(r, x, m))
  <1> DEFINE native == ConvertSynthPoolToNative(x.pool)
             saver == x.pool.sep = "/" /\ x.memo = "THOR-SAVERS-YIELD"
             minted == IF saver THEN AddPoolSynthE8Depth(r, native, x.asset.e8) ELSE r
             stored == IF saver THEN InsertWithMeta(minted, "rewards_event_entries", m, <<native, 0, x.asset.e8>>)
                       ELSE InsertWithMeta(r, "add_events", m, <<x.pool, x.asset.e8, x.rune_e8>>)
  <1>1. Adds(m, {}, r, minted)
    BY NothingAdded, AddAdds DEF HasRows
  <1> HIDE DEF minted
  <1>2. Quiet(m, r, stored)
    BY <1>1, QuietRow, QuietFirst DEF InfoTables, PoolTable, MimirTable
  <1> HIDE DEF stored, saver, native
  <1>3. OnAdd(r, x, m) = IF ~Accepts(r) THEN stored
           ELSE AddPoolRuneE8Depth(AddPoolAssetE8Depth(stored, x.pool, x.asset.e8), x.pool, x.rune_e8)
    BY DEF OnAdd, stored, minted, saver, native
  <1> QED
    BY <1>2, <1>3, QuietAdd

\* Errata, which are taken back from the depths.
LEMMA OnErrataQuiet == ASSUME NEW m, NEW r, HasRows(r), NEW x PROVE Quiet(m, r, OnErrata(r, x, m))
  BY QuietRow, QuietAdd DEF OnErrata, InfoTables, PoolTable, MimirTable

\* Gas, which a pool pays and is paid for.
LEMMA OnGasQuiet == ASSUME NEW m, NEW r, HasRows(r), NEW x PROVE Quiet(m, r, OnGas(r, x, m))
  BY QuietRow, QuietAdd DEF OnGas, InfoTables, PoolTable, MimirTable

\* Liquidity that is added.
LEMMA OnStakeQuiet == ASSUME NEW m, NEW r, HasRows(r), NEW x PROVE Quiet(m, r, OnStake(r, x, m))
  BY QuietRow, QuietAdd DEF OnStake, InfoTables, PoolTable, MimirTable

\* A swap may leave a second row, of the fee.
LEMMA OnSwapQuiet == ASSUME NEW m, NEW r, HasRows(r), NEW x, NEW height PROVE Quiet(m, r, OnSwap(r, x, m, height))
  <1> DEFINE from == GetCoinType(x.coin.asset)
             to == GetCoinType(x.emit_asset.asset)
             fee == x.liquidity_fee_in_rune
             undelayed == m.height >= height
             stored == InsertWithMeta(r, "swap_events", m, <<x.pool, x.coin, x.emit_asset>>)
             charged == AddPoolRuneE8Depth(stored, x.pool, -fee)
             reported == InsertWithMeta(charged, "rewards_event_entries", m, <<x.pool, -fee, 0>>)
             paid == IF ~undelayed THEN stored ELSE IF x.pool = ThorTCY THEN charged ELSE reported
             native == IF from = "AssetNative" THEN AddPoolAssetE8Depth(paid, x.pool, x.coin.e8) ELSE paid
             synth == IF from = "AssetSynth" THEN AddPoolSynthE8Depth(paid, x.pool, -x.coin.e8) ELSE native
             sold == AddPoolRuneE8Depth(synth, x.pool, -x.emit_asset.e8)
             rune == AddPoolRuneE8Depth(paid, x.pool, x.coin.e8)
             bought == CASE to = "AssetNative" -> AddPoolAssetE8Depth(rune, x.pool, -x.emit_asset.e8)
                         [] to = "AssetSynth"  -> AddPoolSynthE8Depth(rune, x.pool, x.emit_asset.e8)
                         [] OTHER              -> rune
  <1>1. Quiet(m, r, stored)
    BY QuietRow DEF InfoTables, PoolTable, MimirTable
  <1>2. Quiet(m, r, charged)
    BY <1>1, QuietAdd
  <1>3. Quiet(m, r, reported)
    BY <1>2, QuietShared DEF SharedTables, InfoTables, PoolTable, MimirTable
  <1>4. Quiet(m, r, paid)
    BY <1>1, <1>2, <1>3
  <1> HIDE DEF paid
  <1>5. Quiet(m, r, synth) /\ Quiet(m, r, rune)
    BY <1>4, QuietAdd
  <1> HIDE DEF synth, rune
  <1>6. Quiet(m, r, sold) /\ Quiet(m, r, bought)
    BY <1>5, QuietAdd
  <1>7. OnSwap(r, x, m, height) =
              IF ~IsSwap(from, to) THEN r
              ELSE IF ~Accepts(r) THEN stored
              ELSE IF undelayed /\ x.pool # ThorTCY /\ ~Accepts(charged) THEN reported
              ELSE IF to = "Switch" THEN sold ELSE bought
    BY DEF OnSwap, paid, synth, rune
  <1>8. Quiet(m, r, r)
    BY QuietStart DEF HasRows
  <1> HIDE DEF stored, charged, reported, sold, bought, from, to, undelayed
  <1> QED
    BY <1>1, <1>3, <1>6, <1>7, <1>8

\* Fees.
LEMMA OnFeeQuiet == ASSUME NEW m, NEW r, HasRows(r), NEW x PROVE Quiet(m, r, OnFee(r, x, m))
  BY QuietRow, QuietAdd DEF OnFee, InfoTables, PoolTable, MimirTable

\* Liquidity that is withdrawn.
LEMMA OnWithdrawQuiet ==
    ASSUME NEW m, NEW r, HasRows(r), NEW x, NEW kept, NEW pooled
    PROVE  Quiet(m, r, OnWithdraw(r, x, m, kept, pooled))
  BY QuietRow, QuietAdd DEF OnWithdraw, InfoTables, PoolTable, MimirTable

\* A change of a balance, of any sign.
LEMMA OnPoolBalanceChangeQuiet ==
    ASSUME NEW m, NEW r, HasRows(r), NEW x PROVE Quiet(m, r, OnPoolBalanceChange(r, x, m))
  BY QuietRow, QuietAdd DEF OnPoolBalanceChange, InfoTables, PoolTable, MimirTable

\* Synths that are minted and burnt.
LEMMA OnMintBurnQuiet == ASSUME NEW m, NEW r, HasRows(r), NEW x PROVE Quiet(m, r, OnMintBurn(r, x, m))
  BY QuietRow, QuietAdd DEF OnMintBurn, InfoTables, PoolTable, MimirTable

\* Trade accounts and secured assets.
LEMMA OnAccountEventQuiet ==
    ASSUME NEW m, NEW r, HasRows(r), NEW table, table \notin InfoTables, NEW x, NEW sign
    PROVE  Quiet(m, r, OnAccountEvent(r, table, x, m, sign))
  BY QuietRow, QuietAdd DEF OnAccountEvent

\* Fees of affiliates.
LEMMA OnAffiliateFeeQuiet == ASSUME NEW m, NEW r, HasRows(r), NEW x PROVE Quiet(m, r, OnAffiliateFee(r, x, m))
  <1> DEFINE inRune == IF x.asset = ThorRune THEN x.fee_amount
                       ELSE AssetInRune(x.fee_amount, DepthIn(r.asset, x.asset), DepthIn(r.rune, x.asset))
             sent == InsertWithMeta(r, "outbound_events", m, <<x.asset, x.fee_amount>>)
             out == IF x.asset = ThorRune THEN sent ELSE r
  <1>1. Adds(m, {}, r, r)
    BY NothingAdded DEF HasRows
  <1>2. Adds(m, {} \cup {"outbound_events"}, r, sent)
    BY <1>1, InsertAdds
  <1> HIDE DEF sent
  <1>3. PICK T : T \subseteq {"outbound_events"} /\ Adds(m, T, r, out)
    BY <1>1, <1>2
  <1> HIDE DEF out, inRune
  <1>4. Adds(m, T \cup {"affiliate_fee_events"}, r, InsertWithMeta(out, "affiliate_fee_events", m, <<x.asset, x.fee_amount, inRune>>))
    BY <1>3, InsertAdds
  <1>5. OnAffiliateFee(r, x, m) = InsertWithMeta(out, "affiliate_fee_events", m, <<x.asset, x.fee_amount, inRune>>)
    BY DEF OnAffiliateFee, out, inRune, sent
  <1> QED
    BY <1>3, <1>4, <1>5 DEF Quiet, InfoTables, PoolTable, MimirTable

-----------------------------------------------------------------------------
(* The rows of a block, and what they tell.                                *)

\* A row goes before another one: their ids are in order, and differ unless they are of two tables,
\* of a table with many rows of an event, or of the corrections, whose id is the one left over.
Precedes(a, b, left) == a.id <= b.id /\ (a.id < b.id \/ Unlike(a, b) \/ (b.id = left /\ b.table \notin InfoTables))

\* There is room behind a row for the rows of an event with a given id.
Room(row, id, left) ==
    row.id < id \/ (row.id = id /\ (row.table \in SharedTables \/ (id = left /\ row.table \notin InfoTables)))

\* The rows of a block c, in order, and with room for an id.
InBlock(c, rs, id) ==
    /\ IsSeq(rs)
    /\ \A i \in 1..Len(rs) :
          /\ rs[i].id \in Nat /\ HeightFromEventId(rs[i].id) = c.h /\ rs[i].time = c.time
          /\ Room(rs[i], id, c.left)
          /\ \A j \in 1..(i - 1) : Precedes(rs[j], rs[i], c.left)

\* What a row of chain info says.
Says(table, data) == IF table = PoolTable THEN data[2] ELSE IF data[2].isInt THEN data[2].int ELSE 0

\* The rows from one place to another tell how a map has changed: to what the last row about a key says.
About(row, table, key) == row.table = table /\ row.data[1] = key
Tells(table, base, rs, from, to, f) ==
    /\ f = [key \in DOMAIN f |-> f[key]]
    /\ \A key : key \in DOMAIN f <=> key \in DOMAIN base \/ \E i \in (from + 1)..to : About(rs[i], table, key)
    /\ \A i \in (from + 1)..to : \A key :
          About(rs[i], table, key) /\ (\A j \in (i + 1)..to : ~About(rs[j], table, key))
             => f[key] = Says(table, rs[i].data)
    /\ \A key \in DOMAIN base : (\A i \in (from + 1)..to : ~About(rs[i], table, key)) => f[key] = base[key]

\* The id of an event by its place in a block: list k of EventLists, event l of it.
TakenBefore(b, l) == Cardinality({i \in DOMAIN b.finalize : i < l /\ b.finalize[i].mode = "EndBlock"})
IdAt(b, k, l) ==
    IF k > 0 THEN EventId(b.height, "TxsResults", k, l)
    ELSE IF b.finalize[l].mode = "EndBlock" THEN EventId(b.height, "EndBlockEvents", 0, 1 + TakenBefore(b, l))
    ELSE EventId(b.height, "BeginBlockEvents", 0, l)
SetsAt(b, key, id) ==
    \E k \in DOMAIN EventLists(b) : \E l \in DOMAIN EventLists(b)[k] :
       /\ EventLists(b)[k][l].type = "set_mimir"
       /\ MimirKey(EventLists(b)[k][l]) = key
       /\ id = AsBigint(IdAt(b, k, l))

\* Every row of a mimir is that of an event of the block, by its key and its id.
MimirsOf(c, rs) == \A i \in 1..Len(rs) : rs[i].table = MimirTable => SetsAt(c.b, rs[i].data[1], rs[i].id)

\* The rows tell the chain info, if none of them was refused.
Told(c, s) ==
    c.told => /\ Tells(PoolTable, c.status, s.rows, 0, Len(s.rows), s.status)
              /\ Tells(MimirTable, c.mimir, s.rows, 0, Len(s.rows), s.mimir)

\* What a recorder has written of a block, with room for an id.
Written(c, s, id) == HasRows(s) /\ InBlock(c, s.rows, id) /\ MimirsOf(c, s.rows) /\ Told(c, s)

\* Ids of a block's events: by their number outside of transactions, and by both inside; and the
\* number of an event outside of transactions.
OutsideId(b, location, i) == AsBigint(EventId(b.height, location, 0, i))
TxId(b, t, i) == AsBigint(EventId(b.height, "TxsResults", t, i))
NumberAt(b, location, l) == IF location = "BeginBlockEvents" THEN l ELSE 1 + TakenBefore(b, l)

\* The rows a genesis file g leaves: all have its time, those of pools are in order, those of mimirs
\* are about the first l mimirs of the file, one about each, and they tell the chain info.
FileId(g, i) == EventId(g.height - 1, "BeginBlockEvents", 0, i)
PoolsInOrder(g, rs) ==
    \A i \in 1..Len(rs) : rs[i].table = PoolTable =>
        /\ rs[i].id \in Nat /\ HeightFromEventId(rs[i].id) = g.height - 1
        /\ \A j \in 1..(i - 1) : rs[j].table = PoolTable => rs[j].id < rs[i].id
PoolsBelow(rs, id) == \A i \in 1..Len(rs) : rs[i].table = PoolTable => rs[i].id < id
MimirsOfFile(g, rs, l) ==
    \A i \in 1..Len(rs) : rs[i].table = MimirTable =>
        /\ \E e \in 1..l : rs[i].data[1] = g.mimirs[e].key
        /\ (\A e, f \in DOMAIN g.mimirs : e = f \/ g.mimirs[e].key # g.mimirs[f].key) =>
              \A j \in 1..(i - 1) : rs[j].table = MimirTable => rs[j].data[1] # rs[i].data[1]
FromFile(g, s, l) ==
    /\ HasRows(s.r) /\ s.r.refused = {} /\ {"r", "m"} \subseteq DOMAIN s
    /\ {"height", "time", "id"} \subseteq DOMAIN s.m /\ s.m.time = g.time
    /\ \A i \in 1..Len(s.r.rows) : s.r.rows[i].time = g.time
    /\ PoolsInOrder(g, s.r.rows) /\ MimirsOfFile(g, s.r.rows, l)
    /\ Tells(PoolTable, <<>>, s.r.rows, 0, Len(s.r.rows), s.r.status)
    /\ Tells(MimirTable, <<>>, s.r.rows, 0, Len(s.r.rows), s.r.mimir)

-----------------------------------------------------------------------------
(* What a fold has after so many steps.                                    *)

\* Context q: the metadata and the recorder the event started from.
HasAt(k, q, i, a) ==
    CASE k = 1        -> Quiet(q[1], q[2], a.r)
      [] k \in {2, 3} -> Quiet(q[1], q[2], a)
      [] k = 4        -> {"r", "done"} \subseteq DOMAIN a /\ Written(q[1], a.r, q[2])
      [] k = 5        -> a.index = NumberAt(q[1].b, q[2], i + 1) /\ Written(q[1], a.r, OutsideId(q[1].b, q[2], a.index))
      [] k = 6        -> a.index = i + 1 /\ Written(q[1], a.r, TxId(q[1].b, q[2], i + 1))
      [] k = 7        -> Written(q, a, q.left)
      [] k = 8        -> a.tx = i + 1 /\ Written(q, a.r, TxId(q.b, i + 1, 0))
      [] k = 9        -> FromFile(q, a, 0) /\ a.m.id = FileId(q, i + 1) /\ PoolsBelow(a.r.rows, AsBigint(a.m.id))
      [] k \in 10..15 -> FromFile(q, a, 0)
      [] k = 16       -> FromFile(q, a, i)

\* What holds before and after every step holds at the end of the fold.
LEMMA FoldHas ==
    ASSUME NEW k, NEW c, NEW q, NEW n \in Nat, NEW seq, NEW base, NEW t, Steps(k, c, t, base, seq, n),
           HasAt(k, q, 0, base),
           \A i \in 1..n : \A a : HasAt(k, q, i - 1, a) => HasAt(k, q, i, Step(k, c, a, seq[i]))
    PROVE  HasAt(k, q, n, t[n])
  <1> DEFINE S == {i \in 0..n : HasAt(k, q, i, t[i])}
  <1>1. 0 \in S
    BY DEF Steps
  <1>2. \A i \in 1..n : i - 1 \in S => i \in S
    BY DEF Steps
  <1> HIDE DEF S
  <1>3. n \in S
    BY <1>1, <1>2, Climb
  <1> QED
    BY <1>3 DEF S

-----------------------------------------------------------------------------
(* Events with amounts.                                                    *)

\* Rewards: one row for the block, and one for each pool that has some.
LEMMA OnRewardsQuiet ==
    ASSUME NEW m, NEW r, HasRows(r), NEW x, IsFiniteSet(DOMAIN x.perPool)
    PROVE  Quiet(m, r, OnRewards(r, x, m))
  <1> DEFINE seq == SetToSeq(DOMAIN x.perPool)
             n == Cardinality(DOMAIN x.perPool)
             c == <<x, m>>
             d == <<x>>
             q == <<m, r>>
             base == [lost |-> ~Accepts(r), r |-> InsertWithMeta(r, "rewards_events", m, <<>>)]
             entries == RewardEntries(r, x, m)
  <1>1. n \in Nat /\ DOMAIN seq = 1..n
    BY ListOf
  <1>2. HasAt(1, q, 0, base)
    BY QuietRow DEF HasAt, InfoTables, PoolTable, MimirTable
  <1>3. ASSUME NEW e, NEW i, NEW a, HasAt(1, q, i - 1, a) PROVE HasAt(1, q, i, Step(1, c, a, e))
    <2>1. Quiet(m, r, a.r)
      BY <1>3 DEF HasAt
    <2>2. Quiet(m, r, InsertWithMeta(a.r, "rewards_event_entries", m, <<e, x.perPool[e], 0>>))
      BY <2>1, QuietShared DEF SharedTables, InfoTables, PoolTable, MimirTable
    <2> QED
      BY <2>1, <2>2 DEF HasAt, Step, RewardEntry
  <1> HIDE DEF n, seq, base
  <1>4. PICK t : Steps(1, c, t, base, seq, n) /\ t[n] = RewardEntries(r, x, m)
    BY <1>1, RewardEntriesSteps DEF seq, base
  <1> HIDE DEF c, q
  <1>5. HasAt(1, q, n, t[n])
    BY <1>1, <1>2, <1>3, <1>4, FoldHas
  <1>6. Quiet(m, r, entries.r)
    BY <1>4, <1>5 DEF HasAt, q
  <1>7. PICK u : Steps(2, d, u, entries.r, seq, n) /\ u[n] = PayRewards(entries.r, x)
    BY <1>1, PayRewardsSteps DEF seq
  <1>8. ASSUME NEW e, NEW i, NEW a, HasAt(2, q, i - 1, a) PROVE HasAt(2, q, i, Step(2, d, a, e))
    BY <1>8, QuietAdd DEF HasAt, Step, PayReward, q
  <1>9. HasAt(2, q, 0, entries.r)
    BY <1>6 DEF HasAt, q
  <1> HIDE DEF d, entries
  <1>10. HasAt(2, q, n, u[n])
    BY <1>1, <1>7, <1>8, <1>9, FoldHas
  <1>11. Quiet(m, r, PayRewards(entries.r, x))
    BY <1>7, <1>10 DEF HasAt, q
  <1> QED
    BY <1>6, <1>11 DEF OnRewards, entries

\* Slashes: a row for each asset.
LEMMA OnSlashQuiet ==
    ASSUME NEW m, NEW r, HasRows(r), NEW x, IsFiniteSet(DOMAIN x.amounts)
    PROVE  Quiet(m, r, OnSlash(r, x, m))
  <1> DEFINE seq == SetToSeq(DOMAIN x.amounts)
             n == Cardinality(DOMAIN x.amounts)
             c == <<x, m>>
             q == <<m, r>>
  <1>1. n \in Nat /\ DOMAIN seq = 1..n
    BY ListOf
  <1>2. HasAt(3, q, 0, r)
    BY QuietStart DEF HasAt, HasRows
  <1>3. ASSUME NEW e, NEW i, NEW a, HasAt(3, q, i - 1, a) PROVE HasAt(3, q, i, Step(3, c, a, e))
    <2> DEFINE stored == InsertWithMeta(a, "slash_events", m, <<x.pool, e, x.amounts[e]>>)
    <2>1. Quiet(m, r, a)
      BY <1>3 DEF HasAt
    <2>2. Quiet(m, r, stored)
      BY <2>1, QuietShared DEF SharedTables, InfoTables, PoolTable, MimirTable
    <2>3. Step(3, c, a, e) \in {AddPoolRuneE8Depth(stored, x.pool, x.amounts[e]),
                                AddPoolAssetE8Depth(stored, x.pool, x.amounts[e]), stored}
      BY DEF Step, SlashAmount
    <2> HIDE DEF stored, c
    <2>4. Quiet(m, r, Step(3, c, a, e))
      BY <2>2, <2>3, QuietAdd
    <2> QED
      BY <2>4 DEF HasAt
  <1> HIDE DEF n, seq
  <1>4. PICK t : Steps(3, c, t, r, seq, n) /\ t[n] = OnSlash(r, x, m)
    BY <1>1, OnSlashSteps DEF seq
  <1> HIDE DEF c, q
  <1>5. HasAt(3, q, n, t[n])
    BY <1>1, <1>2, <1>3, <1>4, FoldHas
  <1> QED
    BY <1>4, <1>5 DEF HasAt, q

-----------------------------------------------------------------------------
(* Events that tell of pools and mimirs.                                   *)

\* Its row goes behind the others, or is lost, and the memory has it in both cases.
Informs(m, table, data, taken, r, s) ==
    /\ HasRows(s)
    /\ s.rows = IF taken THEN Append(r.rows, RowOf(table, m, data)) ELSE r.rows
    /\ s.status = IF table = PoolTable THEN SetTo(r.status, data[1], Says(table, data)) ELSE r.status
    /\ s.mimir = IF table = MimirTable THEN SetTo(r.mimir, data[1], Says(table, data)) ELSE r.mimir

\* The type of the events of such a table.
TypeOf(table) == IF table = PoolTable THEN "pool" ELSE "set_mimir"

\* What an event does to the rows and the chain info.
Does(m, e, r, s) ==
    \/ Quiet(m, r, s)
    \/ \E table \in InfoTables : \E data : \E taken \in BOOLEAN :
          /\ Informs(m, table, data, taken, r, s)
          /\ e.refused = {} => taken
          /\ e.type = TypeOf(table)
          /\ table = MimirTable => data[1] = MimirKey(e)

\* The status of a pool, and its depths if it is suspended.
LEMMA OnPoolInforms ==
    ASSUME NEW m, NEW r, HasRows(r), NEW x
    PROVE  \E data : Informs(m, PoolTable, data, Accepts(r), r, OnPool(r, x, m))
  <1> DEFINE data == <<x.pool, x.pool_status>>
             stored == InsertWithMeta(r, "pool_events", m, data)
             emptied == SetSynthDepth(SetRuneDepth(SetAssetDepth(stored, x.pool, 0), x.pool, 0), x.pool, 0)
             s == IF x.pool_status = "suspended" THEN emptied ELSE stored
             Kept(t) == IsRecorder(t) /\ t.rows = stored.rows /\ t.status = stored.status /\ t.mimir = stored.mimir
  <1>1. /\ IsRecorder(stored) /\ stored.status = r.status /\ stored.mimir = r.mimir
        /\ stored.rows = IF Accepts(r) THEN Append(r.rows, RowOf(PoolTable, m, data)) ELSE r.rows
    BY InsertIs DEF HasRows, PoolTable
  <1> HIDE DEF stored
  <1>2. ASSUME NEW t, Kept(t), NEW p, NEW v
        PROVE  Kept(SetAssetDepth(t, p, v)) /\ Kept(SetRuneDepth(t, p, v)) /\ Kept(SetSynthDepth(t, p, v))
    BY <1>2 DEF SetAssetDepth, SetRuneDepth, SetSynthDepth, IsRecorder
  <1>3. Kept(stored)
    BY <1>1
  <1> HIDE DEF Kept
  <1>4. Kept(s)
    BY <1>2, <1>3
  <1>5. OnPool(r, x, m) = SetPoolStatus(s, x.pool, x.pool_status)
    BY DEF OnPool, stored
  <1> HIDE DEF s
  <1> DEFINE u == SetPoolStatus(s, x.pool, x.pool_status)
  <1>6. IsRecorder(u) /\ u.rows = s.rows /\ u.status = SetTo(s.status, x.pool, x.pool_status) /\ u.mimir = s.mimir
    BY <1>4 DEF SetPoolStatus, IsRecorder, Kept
  <1>7. data[1] = x.pool /\ data[2] = x.pool_status
    OBVIOUS
  <1> HIDE DEF u, data
  <1>8. IsSeq(u.rows)
    BY <1>1, <1>4, <1>6, AppendIs DEF Kept, HasRows
  <1>9. PoolTable # MimirTable
    BY DEF PoolTable, MimirTable
  <1>10. Informs(m, PoolTable, data, Accepts(r), r, u)
    BY <1>1, <1>4, <1>6, <1>7, <1>8, <1>9 DEF Informs, Says, HasRows, Kept
  <1> QED
    BY <1>5, <1>10 DEF u

\* A mimir, which is 0 in memory if it is not a number.
LEMMA OnSetMimirInforms ==
    ASSUME NEW m, NEW r, HasRows(r), NEW x
    PROVE  \E data : data[1] = x.key /\ Informs(m, MimirTable, data, Accepts(r), r, OnSetMimir(r, x, m))
  <1> DEFINE data == <<x.key, x.value>>
             v == IF x.value.isInt THEN x.value.int ELSE 0
             stored == InsertWithMeta(r, "set_mimir_events", m, data)
             u == SetMimirStatus(stored, x.key, v)
  <1>1. /\ IsRecorder(stored) /\ stored.status = r.status /\ stored.mimir = r.mimir
        /\ stored.rows = IF Accepts(r) THEN Append(r.rows, RowOf(MimirTable, m, data)) ELSE r.rows
    BY InsertIs DEF HasRows, MimirTable
  <1>2. OnSetMimir(r, x, m) = u
    BY DEF OnSetMimir
  <1> HIDE DEF stored
  <1>3. IsRecorder(u) /\ u.rows = stored.rows /\ u.mimir = SetTo(stored.mimir, x.key, v) /\ u.status = stored.status
    BY <1>1 DEF SetMimirStatus, IsRecorder
  <1>4. data[1] = x.key /\ data[2] = x.value
    OBVIOUS
  <1> HIDE DEF u, data
  <1>5. IsSeq(u.rows)
    BY <1>1, <1>3, AppendIs DEF HasRows
  <1>6. PoolTable # MimirTable
    BY DEF PoolTable, MimirTable
  <1>7. Informs(m, MimirTable, data, Accepts(r), r, u)
    BY <1>1, <1>3, <1>4, <1>5, <1>6 DEF Informs, Says, HasRows
  <1> QED
    BY <1>2, <1>4, <1>7

-----------------------------------------------------------------------------
(* All events.                                                             *)

\* Events of pools and balances, but for a pool itself.
LEMMA processPoolEventQuiet ==
    ASSUME NEW m, NEW r, HasRows(r), NEW id, NEW e, e.type \in SwapEvents, e.type # "pool",
           e.type \in {"rewards", "slash"} => IsFiniteSet(DOMAIN e.attrs.amounts)
    PROVE  Quiet(m, r, processPoolEvent(r, id, e, m))
  <1>1. CASE e.type = "donate"
    BY <1>1, OnAddQuiet, QuietStart DEF processPoolEvent, Record, HasRows
  <1>2. CASE e.type = "errata"
    BY <1>2, OnErrataQuiet, QuietStart DEF processPoolEvent, Record, HasRows
  <1>3. CASE e.type = "fee"
    BY <1>3, OnFeeQuiet, QuietStart DEF processPoolEvent, Record, HasRows
  <1>4. CASE e.type = "gas"
    BY <1>4, OnGasQuiet, QuietStart DEF processPoolEvent, Record, HasRows
  <1>6. CASE e.type = "rewards"
    BY <1>6, OnRewardsQuiet, QuietStart DEF processPoolEvent, Record, LoadRewards, Malformed, HasRows
  <1>7. CASE e.type = "slash"
    BY <1>7, OnSlashQuiet, QuietStart DEF processPoolEvent, Record, LoadSlash, Malformed, HasRows
  <1>8. CASE e.type = "pending_liquidity"
    BY <1>8, QuietRow, QuietStart DEF processPoolEvent, Record, OnPendingLiquidity, HasRows, InfoTables, PoolTable, MimirTable
  <1>9. CASE e.type = "add_liquidity"
    BY <1>9, OnStakeQuiet, QuietStart DEF processPoolEvent, Record, HasRows
  <1>10. CASE e.type = "swap"
    BY <1>10, OnSwapQuiet, QuietStart DEF processPoolEvent, Record, HasRows
  <1>11. CASE e.type = "transfer"
    BY <1>11, QuietRow, QuietStart DEF processPoolEvent, Record, OnTransfer, HasRows, InfoTables, PoolTable, MimirTable
  <1>12. CASE e.type = "withdraw"
    BY <1>12, OnWithdrawQuiet, QuietStart DEF processPoolEvent, Record, HasRows
  <1>13. CASE e.type = "pool_balance_change"
    BY <1>13, OnPoolBalanceChangeQuiet, QuietStart DEF processPoolEvent, Record, HasRows
  <1>14. CASE e.type = "mint_burn"
    BY <1>14, OnMintBurnQuiet, QuietStart DEF processPoolEvent, Record, HasRows
  <1>15. CASE e.type = "trade_account_deposit"
    BY <1>15, OnAccountEventQuiet, QuietStart DEF processPoolEvent, Record, OnTradeAccountDeposit, HasRows, InfoTables, PoolTable, MimirTable
  <1>16. CASE e.type = "trade_account_withdraw"
    BY <1>16, OnAccountEventQuiet, QuietStart DEF processPoolEvent, Record, OnTradeAccountWithdraw, HasRows, InfoTables, PoolTable, MimirTable
  <1>17. CASE e.type = "secured_asset_deposit"
    BY <1>17, OnAccountEventQuiet, QuietStart DEF processPoolEvent, Record, OnSecureAssetDeposit, HasRows, InfoTables, PoolTable, MimirTable
  <1>18. CASE e.type = "secured_asset_withdraw"
    BY <1>18, OnAccountEventQuiet, QuietStart DEF processPoolEvent, Record, OnSecureAssetWithdraw, HasRows, InfoTables, PoolTable, MimirTable
  <1> QED
    BY <1>1, <1>2, <1>3, <1>4, <1>6, <1>7, <1>8, <1>9, <1>10, <1>11, <1>12, <1>13, <1>14, <1>15,
       <1>16, <1>17, <1>18 DEF SwapEvents

\* Events of nodes and vaults, but for a mimir.
LEMMA processNodeEventQuiet ==
    ASSUME NEW m, NEW r, HasRows(r), NEW e, e.type \in NodeEvents, e.type # "set_mimir"
    PROVE  Quiet(m, r, processNodeEvent(r, e, m))
  <1>1. CASE e.type = "ActiveVault"
    BY <1>1, QuietRow, QuietStart DEF processNodeEvent, Record, OnActiveVault, HasRows, InfoTables, PoolTable, MimirTable
  <1>2. CASE e.type = "asgard_fund_yggdrasil"
    BY <1>2, QuietRow, QuietStart DEF processNodeEvent, Record, OnAsgardFundYggdrasil, HasRows, InfoTables, PoolTable, MimirTable
  <1>3. CASE e.type = "bond"
    BY <1>3, QuietRow, QuietStart DEF processNodeEvent, Record, OnBond, HasRows, InfoTables, PoolTable, MimirTable
  <1>4. CASE e.type = "InactiveVault"
    BY <1>4, QuietRow, QuietStart DEF processNodeEvent, Record, OnInactiveVault, HasRows, InfoTables, PoolTable, MimirTable
  <1>5. CASE e.type = "message"
    BY <1>5, QuietRow, QuietStart DEF processNodeEvent, Record, OnMessage, HasRows, InfoTables, PoolTable, MimirTable
  <1>6. CASE e.type = "new_node"
    BY <1>6, QuietRow, QuietStart DEF processNodeEvent, Record, OnNewNode, HasRows, InfoTables, PoolTable, MimirTable
  <1>7. CASE e.type = "outbound"
    BY <1>7, QuietRow, QuietStart DEF processNodeEvent, Record, OnOutbound, HasRows, InfoTables, PoolTable, MimirTable
  <1>8. CASE e.type = "refund"
    BY <1>8, QuietRow, QuietStart DEF processNodeEvent, Record, OnRefund, HasRows, InfoTables, PoolTable, MimirTable
  <1>9. CASE e.type = "reserve"
    BY <1>9, QuietRow, QuietStart DEF processNodeEvent, Record, OnReserve, HasRows, InfoTables, PoolTable, MimirTable
  <1>10. CASE e.type = "set_ip_address"
    BY <1>10, QuietRow, QuietStart DEF processNodeEvent, Record, OnSetIPAddress, HasRows, InfoTables, PoolTable, MimirTable
  <1>12. CASE e.type = "set_node_keys"
    BY <1>12, QuietRow, QuietStart DEF processNodeEvent, Record, OnSetNodeKeys, HasRows, InfoTables, PoolTable, MimirTable
  <1>13. CASE e.type = "set_version"
    BY <1>13, QuietRow, QuietStart DEF processNodeEvent, Record, OnSetVersion, HasRows, InfoTables, PoolTable, MimirTable
  <1>14. CASE e.type = "UpdateNodeAccountStatus"
    BY <1>14, QuietRow, QuietStart DEF processNodeEvent, Record, OnUpdateNodeAccountStatus, HasRows, InfoTables, PoolTable, MimirTable
  <1>15. CASE e.type = "validator_request_leave"
    BY <1>15, QuietRow, QuietStart DEF processNodeEvent, Record, OnValidatorRequestLeave, HasRows, InfoTables, PoolTable, MimirTable
  <1> QED
    BY <1>1, <1>2, <1>3, <1>4, <1>5, <1>6, <1>7, <1>8, <1>9, <1>10, <1>12, <1>13, <1>14, <1>15
       DEF NodeEvents

\* All others.
LEMMA processNewerEventQuiet ==
    ASSUME NEW m, NEW r, HasRows(r), NEW id, NEW e
    PROVE  Quiet(m, r, processNewerEvent(r, id, e, m))
  <1>1. CASE e.type = "thorname"
    BY <1>1, QuietRow, QuietStart DEF processNewerEvent, Record, OnTHORNameChange, HasRows, InfoTables, PoolTable, MimirTable
  <1>2. CASE e.type = "switch"
    BY <1>2, QuietRow, QuietStart DEF processNewerEvent, Record, OnSwitch, HasRows, InfoTables, PoolTable, MimirTable
  <1>3. CASE e.type = "slash_points"
    BY <1>3, QuietRow, QuietStart DEF processNewerEvent, Record, OnSlashPoints, HasRows, InfoTables, PoolTable, MimirTable
  <1>4. CASE e.type = "set_node_mimir"
    BY <1>4, QuietRow, QuietStart DEF processNewerEvent, Record, OnSetNodeMimir, HasRows, InfoTables, PoolTable, MimirTable
  <1>5. CASE e.type = "version"
    BY <1>5, QuietRow, QuietStart DEF processNewerEvent, Record, OnVersion, HasRows, InfoTables, PoolTable, MimirTable
  <1>6. CASE e.type = "loan_open"
    BY <1>6, QuietRow, QuietStart DEF processNewerEvent, Record, OnLoanOpen, HasRows, InfoTables, PoolTable, MimirTable
  <1>7. CASE e.type = "loan_repayment"
    BY <1>7, QuietRow, QuietStart DEF processNewerEvent, Record, OnLoanRepayment, HasRows, InfoTables, PoolTable, MimirTable
  <1>8. CASE e.type = "streaming_swap"
    BY <1>8, QuietRow, QuietStart DEF processNewerEvent, Record, OnStreamingSwapDetails, HasRows, InfoTables, PoolTable, MimirTable
  <1>9. CASE e.type = "tss_keygen_success"
    BY <1>9, QuietRow, QuietStart DEF processNewerEvent, Record, OnTSSKeygenSuccess, HasRows, InfoTables, PoolTable, MimirTable
  <1>10. CASE e.type = "tss_keygen_failure"
    BY <1>10, QuietRow, QuietStart DEF processNewerEvent, Record, OnTSSKeygenFailure, HasRows, InfoTables, PoolTable, MimirTable
  <1>11. CASE e.type = "scheduled_outbound"
    BY <1>11, QuietRow, QuietStart DEF processNewerEvent, Record, OnScheduledOutbound, HasRows, InfoTables, PoolTable, MimirTable
  <1>12. CASE e.type = "rune_pool_deposit"
    BY <1>12, QuietRow, QuietStart DEF processNewerEvent, Record, OnRunePoolDeposit, HasRows, InfoTables, PoolTable, MimirTable
  <1>13. CASE e.type = "rune_pool_withdraw"
    BY <1>13, QuietRow, QuietStart DEF processNewerEvent, Record, OnRunePoolWithdraw, HasRows, InfoTables, PoolTable, MimirTable
  <1>14. CASE e.type = "affiliate_fee"
    BY <1>14, OnAffiliateFeeQuiet, QuietStart DEF processNewerEvent, Record, HasRows
  <1>15. CASE e.type = "instantiate"
    BY <1>15, QuietRow, QuietStart DEF processNewerEvent, Record, OnInstantiate, HasRows, InfoTables, PoolTable, MimirTable
  <1>16. CASE e.type = "tcy_claim"
    BY <1>16, QuietRow, QuietStart DEF processNewerEvent, Record, OnTcyClaim, HasRows, InfoTables, PoolTable, MimirTable
  <1>17. CASE e.type = "tcy_distribution"
    BY <1>17, QuietRow, QuietStart DEF processNewerEvent, Record, OnTcyDistribution, HasRows, InfoTables, PoolTable, MimirTable
  <1>18. CASE e.type = "tcy_stake"
    BY <1>18, QuietRow, QuietStart DEF processNewerEvent, Record, OnTcyStake, HasRows, InfoTables, PoolTable, MimirTable
  <1>19. CASE e.type = "tcy_unstake"
    BY <1>19, QuietRow, QuietStart DEF processNewerEvent, Record, OnTcyUnstake, HasRows, InfoTables, PoolTable, MimirTable
  <1>20. CASE e.type = "wasm-"
    BY <1>20, QuietRow, QuietStart DEF processNewerEvent, Record, OnCosmWasm, HasRows, InfoTables, PoolTable, MimirTable
  <1>21. CASE e.type \notin {"thorname", "switch", "slash_points", "set_node_mimir", "version",
     "loan_open", "loan_repayment", "streaming_swap", "tss_keygen_success", "tss_keygen_failure",
     "scheduled_outbound", "rune_pool_deposit", "rune_pool_withdraw", "affiliate_fee", "instantiate",
     "tcy_claim", "tcy_distribution", "tcy_stake", "tcy_unstake", "wasm-"}
    BY <1>21, QuietStart DEF processNewerEvent, HasRows
  <1> QED
    BY <1>1, <1>2, <1>3, <1>4, <1>5, <1>6, <1>7, <1>8, <1>9, <1>10, <1>11, <1>12, <1>13, <1>14, <1>15,
       <1>16, <1>17, <1>18, <1>19, <1>20, <1>21

\* The rows that were there before an event began are those before its first row.
LEMMA QuietBegun ==
    ASSUME NEW m, NEW r, HasRows(r), NEW refused, NEW s, Quiet(m, Begun(r, refused), s)
    PROVE  Quiet(m, r, s)
  <1> DEFINE a == Begun(r, refused)
  <1>1. a.rows = r.rows /\ a.status = r.status /\ a.mimir = r.mimir
    BY DEF Begun, HasRows, IsRecorder
  <1> HIDE DEF a
  <1>2. PICK T : T \cap InfoTables = {} /\ Adds(m, T, a, s)
    BY DEF Quiet, a
  <1>3. Adds(m, T, r, s)
    BY <1>1, <1>2 DEF Adds, KeepsInfo
  <1> QED
    BY <1>2, <1>3 DEF Quiet

\* The same of an event that tells of a pool or a mimir.
LEMMA InformsBegun ==
    ASSUME NEW m, NEW r, HasRows(r), NEW refused, NEW s, NEW table, NEW data, NEW taken,
           Informs(m, table, data, taken, Begun(r, refused), s)
    PROVE  Informs(m, table, data, taken, r, s)
  <1> DEFINE a == Begun(r, refused)
  <1>1. a.rows = r.rows /\ a.status = r.status /\ a.mimir = r.mimir
    BY DEF Begun, HasRows, IsRecorder
  <1> HIDE DEF a
  <1>2. Informs(m, table, data, taken, a, s)
    BY DEF a
  <1> QED
    BY <1>1, <1>2 DEF Informs

\* A recorder that has begun an event accepts its rows if the database refuses none.
LEMMA BegunIs ==
    ASSUME NEW r, HasRows(r), NEW refused
    PROVE  HasRows(Begun(r, refused)) /\ (refused = {} => Accepts(Begun(r, refused))) /\ Accepts(Begun(r, refused)) \in BOOLEAN
  <1> DEFINE a == Begun(r, refused)
  <1>1. IsRecorder(a) /\ a.rows = r.rows /\ a.refused = refused
    BY DEF Begun, HasRows, IsRecorder
  <1> HIDE DEF a
  <1>2. HasRows(a) /\ (refused = {} => Accepts(a)) /\ Accepts(a) \in BOOLEAN
    BY <1>1 DEF HasRows, Accepts
  <1> QED
    BY <1>2 DEF a

\* What an event does.
LEMMA processEventDoes ==
    ASSUME NEW m, NEW r, HasRows(r), NEW id, NEW event, IsEvent(event)
    PROVE  Does(m, event, r, processEvent(r, id, event, m))
  <1> DEFINE e == Filtered(event)
             a == Begun(r, e.refused)
             s == processEvent(r, id, event, m)
  <1>1. /\ e.type = event.type
        /\ e.type \in {"rewards", "slash"} => IsFiniteSet(DOMAIN e.attrs.amounts)
    BY FilteredIs
  <1>2. e.refused = event.refused
    BY DEF Filtered, IsEvent
  <1>3. HasRows(a) /\ (e.refused = {} => Accepts(a)) /\ Accepts(a) \in BOOLEAN
    BY BegunIs
  <1>4. s = CASE e.type \in SwapEvents -> processPoolEvent(a, id, e, m)
              [] e.type \in NodeEvents -> processNodeEvent(a, e, m)
              [] OTHER -> processNewerEvent(a, id, e, m)
    BY DEF processEvent
  <1>5. Quiet(m, a, s) => Does(m, event, r, s)
    BY QuietBegun DEF Does
  <1>6. "pool" \in SwapEvents /\ "set_mimir" \in NodeEvents /\ SwapEvents \cap NodeEvents = {}
    BY DEF SwapEvents, NodeEvents
  <1> DEFINE mimirKey == MimirKey(event)
  <1>7. mimirKey = LoadSetMimir(e).key
    BY DEF MimirKey
  <1>8. PoolTable # MimirTable /\ PoolTable \in InfoTables /\ MimirTable \in InfoTables
    BY DEF PoolTable, MimirTable, InfoTables
  <1> SUFFICES Does(m, event, r, s)
    OBVIOUS
  <1>9. ASSUME NEW table \in InfoTables, NEW data, Informs(m, table, data, Accepts(a), a, s),
               e.type = TypeOf(table), table = MimirTable => data[1] = mimirKey
        PROVE  Does(m, event, r, s)
    <2>1. Informs(m, table, data, Accepts(a), r, s)
      BY <1>9, InformsBegun
    <2> HIDE DEF a, s, e
    <2> QED
      BY <2>1, <1>1, <1>2, <1>3, <1>9 DEF Does
  <1> HIDE DEF e, a, s, mimirKey
  <1>10. CASE e.type = "pool"
    <2> DEFINE x == LoadPool(e)
    <2>1. s = processPoolEvent(a, id, e, m)
      BY <1>4, <1>6, <1>10
    <2>2. s = IF x.ok THEN OnPool(a, x, m) ELSE a
      BY <2>1, <1>10 DEF processPoolEvent, Record
    <2> HIDE DEF x
    <2>3. CASE x.ok
      <3>1. PICK data : Informs(m, PoolTable, data, Accepts(a), a, s)
        BY <2>2, <2>3, <1>3, OnPoolInforms
      <3>2. e.type = TypeOf(PoolTable)
        BY <1>10 DEF TypeOf
      <3> QED
        BY <3>1, <3>2, <1>8, <1>9
    <2>4. CASE ~x.ok
      BY <2>2, <2>4, <1>3, <1>5, QuietStart DEF HasRows
    <2> QED
      BY <2>3, <2>4
  <1>11. CASE e.type = "set_mimir"
    <2> DEFINE x == LoadSetMimir(e)
    <2>1. s = processNodeEvent(a, e, m)
      BY <1>4, <1>6, <1>11
    <2>2. s = IF x.ok THEN OnSetMimir(a, x, m) ELSE a
      BY <2>1, <1>11 DEF processNodeEvent, Record
    <2>3. mimirKey = x.key
      BY <1>7
    <2> HIDE DEF x
    <2>4. CASE x.ok
      <3>1. PICK data : data[1] = x.key /\ Informs(m, MimirTable, data, Accepts(a), a, s)
        BY <2>2, <2>4, <1>3, OnSetMimirInforms
      <3>2. e.type = TypeOf(MimirTable)
        BY <1>8, <1>11 DEF TypeOf
      <3> QED
        BY <3>1, <3>2, <2>3, <1>8, <1>9
    <2>5. CASE ~x.ok
      BY <2>2, <2>5, <1>3, <1>5, QuietStart DEF HasRows
    <2> QED
      BY <2>4, <2>5
  <1>12. CASE e.type \in SwapEvents /\ e.type # "pool"
    BY <1>1, <1>3, <1>4, <1>5, <1>6, <1>12, processPoolEventQuiet
  <1>13. CASE e.type \in NodeEvents /\ e.type # "set_mimir"
    BY <1>3, <1>4, <1>5, <1>6, <1>13, processNodeEventQuiet
  <1>14. CASE e.type \notin SwapEvents \cup NodeEvents
    BY <1>3, <1>4, <1>5, <1>14, processNewerEventQuiet
  <1> QED
    BY <1>10, <1>11, <1>12, <1>13, <1>14

\* Corrections tell nothing of pools and mimirs.
LEMMA AddMissingEventQuiet ==
    ASSUME NEW m, NEW r, HasRows(r), NEW id, NEW a, a.handler \in CorrectionHandlers
    PROVE  Quiet(m, r, AddMissingEvent(r, id, m, a))
  <1> DEFINE z == Begun(r, {})
             s == AddMissingEvent(r, id, m, a)
  <1>1. HasRows(z)
    BY BegunIs
  <1>2. Quiet(m, z, s) => Quiet(m, r, s)
    BY QuietBegun
  <1>3. CASE HeightOf[a.at] # m.height
    BY <1>3, QuietStart DEF AddMissingEvent, HasRows
  <1>4. CASE HeightOf[a.at] = m.height
    <2> HIDE DEF s
    <2> USE <1>1, <1>4 DEF AddMissingEvent, s, InfoTables, PoolTable, MimirTable
    <2>1. CASE a.handler = "OnStake"
      BY <1>2, <2>1, OnStakeQuiet
    <2>2. CASE a.handler = "OnWithdraw"
      BY <1>2, <2>2, OnWithdrawQuiet
    <2>3. CASE a.handler = "OnSwap"
      BY <1>2, <2>3, OnSwapQuiet
    <2>4. CASE a.handler = "OnUpdateNodeAccountStatus"
      BY <1>2, <2>4, QuietRow DEF OnUpdateNodeAccountStatus
    <2>5. CASE a.handler = "OnTransfer"
      BY <1>2, <2>5, QuietRow, QuietStart DEF OnTransfer, HasRows
    <2>6. CASE a.handler = "OnTHORNameChange"
      BY <1>2, <2>6, QuietRow DEF OnTHORNameChange
    <2>7. CASE a.handler = "OnBurn"
      BY <1>2, <2>7, QuietStart, QuietAdd DEF OnBurn, HasRows
    <2>8. CASE a.handler = "OnCoinbase"
      BY <1>2, <2>8, QuietStart, QuietAdd DEF OnCoinbase, HasRows
    <2>9. CASE a.handler = "OnPoolBalanceChange"
      BY <1>2, <2>9, OnPoolBalanceChangeQuiet
    <2> QED
      BY <2>1, <2>2, <2>3, <2>4, <2>5, <2>6, <2>7, <2>8, <2>9 DEF CorrectionHandlers
  <1> QED
    BY <1>3, <1>4

-----------------------------------------------------------------------------
(* The order of the rows.                                                  *)

\* Rows of one event keep the order.
LEMMA AddsInBlock ==
    ASSUME NEW c, NEW m, NEW T, NEW r, NEW s, NEW id \in Nat, NEW id2 \in Nat, c.left \in Nat,
           InBlock(c, r.rows, id), Adds(m, T, r, s), AsBigint(m.id) = id, m.time = c.time, HeightFromEventId(id) = c.h,
           id < id2 \/ (id = id2 /\ (T \subseteq SharedTables \/ (id = c.left /\ T \cap InfoTables = {})))
    PROVE  InBlock(c, s.rows, id2)
  <1>1. PICK n \in Nat, k \in Nat : n = Len(r.rows) /\ k = Len(s.rows) /\ n <= k
    BY AppendIs DEF Adds
  <1>2. \A i \in 1..n : s.rows[i] = r.rows[i]
    BY <1>1 DEF Adds
  <1>3. ASSUME NEW i \in 1..k, i <= n
        PROVE  /\ s.rows[i].id \in Nat /\ HeightFromEventId(s.rows[i].id) = c.h /\ s.rows[i].time = c.time
               /\ Room(s.rows[i], id, c.left) /\ Room(s.rows[i], id2, c.left)
               /\ \A j \in 1..(i - 1) : Precedes(s.rows[j], s.rows[i], c.left)
    <2>1. i \in 1..n /\ \A j \in 1..(i - 1) : j \in 1..n
      BY <1>1, <1>3
    <2>2. /\ s.rows[i].id \in Nat /\ HeightFromEventId(s.rows[i].id) = c.h /\ s.rows[i].time = c.time
          /\ Room(s.rows[i], id, c.left)
          /\ \A j \in 1..(i - 1) : Precedes(s.rows[j], s.rows[i], c.left)
      BY <1>1, <1>2, <2>1 DEF InBlock
    <2>3. Room(s.rows[i], id2, c.left)
      BY <2>2 DEF Room
    <2> QED
      BY <2>2, <2>3
  <1>4. ASSUME NEW i \in 1..k, i > n
        PROVE  /\ s.rows[i].id = id /\ s.rows[i].time = c.time /\ s.rows[i].table \in T
               /\ Room(s.rows[i], id2, c.left)
               /\ \A j \in 1..(i - 1) : Precedes(s.rows[j], s.rows[i], c.left)
    <2>1. i \in (n + 1)..k
      BY <1>1, <1>4
    <2>2. IsRowOf(m, T, s.rows[i]) /\ \A j \in (n + 1)..(i - 1) : Unlike(s.rows[j], s.rows[i])
      BY <1>1, <2>1 DEF Adds
    <2>3. s.rows[i].id = id /\ s.rows[i].time = c.time /\ s.rows[i].table \in T
      BY <2>2 DEF IsRowOf
    <2>4. Room(s.rows[i], id2, c.left)
      BY <2>3 DEF Room
    <2>5. ASSUME NEW j \in 1..(i - 1) PROVE Precedes(s.rows[j], s.rows[i], c.left)
      <3>1. CASE j <= n
        <4>1. j \in 1..k /\ Room(s.rows[j], id, c.left) /\ s.rows[j].id \in Nat
          BY <1>1, <1>3, <3>1
        <4> QED
          BY <2>3, <4>1 DEF Room, Precedes, Unlike
      <3>2. CASE j > n
        <4>1. j \in (n + 1)..(i - 1) /\ j \in (n + 1)..k
          BY <1>1, <3>2
        <4>2. s.rows[j].id = id
          BY <1>1, <4>1 DEF Adds, IsRowOf
        <4> QED
          BY <2>2, <2>3, <4>1, <4>2 DEF Precedes
      <3> QED
        BY <1>1, <3>1, <3>2
    <2> QED
      BY <2>3, <2>4, <2>5
  <1>5. \A i \in 1..k :
           /\ s.rows[i].id \in Nat /\ HeightFromEventId(s.rows[i].id) = c.h /\ s.rows[i].time = c.time
           /\ Room(s.rows[i], id2, c.left)
           /\ \A j \in 1..(i - 1) : Precedes(s.rows[j], s.rows[i], c.left)
    BY <1>1, <1>3, <1>4
  <1> QED
    BY <1>1, <1>5 DEF InBlock, Adds

\* There is room for the next id as well.
LEMMA RoomFor ==
    ASSUME NEW c, NEW rs, NEW id \in Nat, NEW id2 \in Nat, id <= id2, InBlock(c, rs, id)
    PROVE  InBlock(c, rs, id2)
  <1>1. \A i \in 1..Len(rs) : Room(rs[i], id2, c.left)
    BY DEF InBlock, Room
  <1> QED
    BY <1>1 DEF InBlock

-----------------------------------------------------------------------------
(* Chain info.                                                             *)

\* One stretch of rows after another.
LEMMA TellsOn ==
    ASSUME NEW table, NEW base, NEW rs, NEW i \in Nat, NEW j \in Nat, NEW k \in Nat, i <= j, j <= k, NEW f, NEW g,
           Tells(table, base, rs, i, j, f), Tells(table, f, rs, j, k, g)
    PROVE  Tells(table, base, rs, i, k, g)
  <1>1. \A key : (\E l \in (i + 1)..k : About(rs[l], table, key)) <=>
                 (\E l \in (i + 1)..j : About(rs[l], table, key)) \/ (\E l \in (j + 1)..k : About(rs[l], table, key))
    <2>1. \A l : l \in (i + 1)..k <=> l \in (i + 1)..j \/ l \in (j + 1)..k
      OBVIOUS
    <2> QED
      BY <2>1
  <1>2. \A key : key \in DOMAIN g <=> key \in DOMAIN base \/ \E l \in (i + 1)..k : About(rs[l], table, key)
    BY <1>1 DEF Tells
  <1>3. ASSUME NEW l \in (i + 1)..k, NEW key, About(rs[l], table, key), \A o \in (l + 1)..k : ~About(rs[o], table, key)
        PROVE  g[key] = Says(table, rs[l].data)
    <2>1. CASE l > j
      <3>1. l \in (j + 1)..k
        BY <2>1
      <3> QED
        BY <1>3, <3>1 DEF Tells
    <2>2. CASE l <= j
      <3>1. l \in (i + 1)..j
        BY <2>2
      <3>2. \A o \in (l + 1)..j : ~About(rs[o], table, key)
        BY <1>3
      <3>3. f[key] = Says(table, rs[l].data) /\ key \in DOMAIN f
        BY <1>3, <3>1, <3>2 DEF Tells
      <3>4. \A o \in (j + 1)..k : ~About(rs[o], table, key)
        BY <1>3, <2>2
      <3> QED
        BY <3>3, <3>4 DEF Tells
    <2> QED
      BY <2>1, <2>2
  <1>4. ASSUME NEW key \in DOMAIN base, \A l \in (i + 1)..k : ~About(rs[l], table, key)
        PROVE  g[key] = base[key]
    <2>1. (\A l \in (i + 1)..j : ~About(rs[l], table, key)) /\ (\A l \in (j + 1)..k : ~About(rs[l], table, key))
      BY <1>4
    <2>2. f[key] = base[key] /\ key \in DOMAIN f
      BY <2>1 DEF Tells
    <2> QED
      BY <2>1, <2>2 DEF Tells
  <1> QED
    BY <1>2, <1>3, <1>4 DEF Tells

\* Rows of other tables tell nothing.
LEMMA TellsNothing ==
    ASSUME NEW table, NEW f, f = [key \in DOMAIN f |-> f[key]], NEW rs, NEW i, NEW j,
           \A k \in (i + 1)..j : rs[k].table # table
    PROVE  Tells(table, f, rs, i, j, f)
  BY DEF Tells, About

\* One row.
LEMMA TellsOne ==
    ASSUME NEW table, NEW f, NEW rs, NEW n \in Nat, rs[n + 1].table = table
    PROVE  Tells(table, f, rs, n, n + 1, SetTo(f, rs[n + 1].data[1], Says(table, rs[n + 1].data)))
  <1> DEFINE key == rs[n + 1].data[1]
             g == SetTo(f, key, Says(table, rs[n + 1].data))
  <1>1. g = [k \in DOMAIN f \cup {key} |-> IF k = key THEN Says(table, rs[n + 1].data) ELSE f[k]]
    BY DEF SetTo
  <1>2. \A i : i \in (n + 1)..(n + 1) <=> i = n + 1
    OBVIOUS
  <1>3. \A k : About(rs[n + 1], table, k) <=> k = key
    BY DEF About
  <1> HIDE DEF g, key
  <1>4. DOMAIN g = DOMAIN f \cup {key} /\ g[key] = Says(table, rs[n + 1].data) /\ \A k \in DOMAIN f : k # key => g[k] = f[k]
    BY <1>1
  <1>5. g = [k \in DOMAIN g |-> g[k]]
    BY <1>1
  <1>6. Tells(table, f, rs, n, n + 1, g)
    BY <1>2, <1>3, <1>4, <1>5 DEF Tells
  <1> QED
    BY <1>6 DEF g, key

\* The same rows elsewhere.
LEMMA TellsMoved ==
    ASSUME NEW table, NEW base, NEW rs, NEW us, NEW n \in Nat, NEW k \in Nat, NEW l \in Nat, NEW f,
           \A i \in (l + 1)..(l + n) : us[k + (i - l)] = rs[i], Tells(table, base, rs, l, l + n, f)
    PROVE  Tells(table, base, us, k, k + n, f)
  <1>1. \A i \in (k + 1)..(k + n) : l + (i - k) \in (l + 1)..(l + n) /\ us[i] = rs[l + (i - k)]
    <2> SUFFICES ASSUME NEW i \in (k + 1)..(k + n)
                 PROVE  l + (i - k) \in (l + 1)..(l + n) /\ us[i] = rs[l + (i - k)]
      OBVIOUS
    <2>1. l + (i - k) \in (l + 1)..(l + n) /\ k + ((l + (i - k)) - l) = i
      OBVIOUS
    <2> QED
      BY <2>1
  <1>2. \A i \in (l + 1)..(l + n) : k + (i - l) \in (k + 1)..(k + n) /\ us[k + (i - l)] = rs[i]
    OBVIOUS
  <1>3. \A key : (\E i \in (k + 1)..(k + n) : About(us[i], table, key)) <=> (\E i \in (l + 1)..(l + n) : About(rs[i], table, key))
    BY <1>1, <1>2
  <1>4. ASSUME NEW i \in (k + 1)..(k + n), NEW key, About(us[i], table, key), \A j \in (i + 1)..(k + n) : ~About(us[j], table, key)
        PROVE  f[key] = Says(table, us[i].data)
    <2> DEFINE o == l + (i - k)
    <2>1. o \in (l + 1)..(l + n) /\ us[i] = rs[o]
      BY <1>1
    <2>2. ASSUME NEW j \in (o + 1)..(l + n) PROVE ~About(rs[j], table, key)
      <3>1. j \in (l + 1)..(l + n) /\ k + (j - l) \in (i + 1)..(k + n)
        OBVIOUS
      <3> QED
        BY <3>1, <1>2, <1>4
    <2> HIDE DEF o
    <2> QED
      BY <2>1, <2>2, <1>4 DEF Tells
  <1> QED
    BY <1>3, <1>4 DEF Tells

-----------------------------------------------------------------------------
(* What events write.                                                      *)

\* A map is one.
LEMMA TellsMap == ASSUME NEW table, NEW base, NEW rs, NEW i, NEW j, NEW f, Tells(table, base, rs, i, j, f)
                  PROVE  f = [key \in DOMAIN f |-> f[key]]
  BY DEF Tells

\* Rows of other tables change nothing of a map.
LEMMA TellsStill ==
    ASSUME NEW table, NEW base, NEW rs, NEW us, NEW n \in Nat, NEW k \in Nat, n <= k, NEW f,
           \A i \in 1..n : us[i] = rs[i], \A i \in (n + 1)..k : us[i].table # table,
           Tells(table, base, rs, 0, n, f)
    PROVE  Tells(table, base, us, 0, k, f)
  <1>1. Tells(table, base, us, 0, n, f)
    <2>1. \A i \in (0 + 1)..(0 + n) : us[0 + (i - 0)] = rs[i]
      OBVIOUS
    <2>2. 0 + n = n
      OBVIOUS
    <2> QED
      BY <2>1, <2>2, TellsMoved
  <1>2. Tells(table, f, us, n, k, f)
    BY <1>1, TellsMap, TellsNothing
  <1> QED
    BY <1>1, <1>2, TellsOn

\* Rows of one event that tell nothing of pools and mimirs.
LEMMA AddsWritten ==
    ASSUME NEW c, NEW m, NEW T, T \cap InfoTables = {}, NEW r, NEW s, NEW id \in Nat, NEW id2 \in Nat, c.left \in Nat,
           Written(c, r, id), Adds(m, T, r, s), AsBigint(m.id) = id, m.time = c.time, HeightFromEventId(id) = c.h,
           id < id2 \/ (id = id2 /\ (T \subseteq SharedTables \/ id = c.left))
    PROVE  Written(c, s, id2)
  <1>1. HasRows(s) /\ InBlock(c, s.rows, id2)
    BY AddsInBlock DEF Written, HasRows, Adds
  <1>2. PICK n \in Nat, k \in Nat : n = Len(r.rows) /\ k = Len(s.rows) /\ n <= k
    BY AppendIs DEF Adds
  <1>3. (\A i \in 1..n : s.rows[i] = r.rows[i]) /\ \A i \in (n + 1)..k : s.rows[i].table \notin InfoTables
    BY <1>2 DEF Adds, IsRowOf
  <1>4. \A i \in 1..k : i \in 1..n \/ i \in (n + 1)..k
    BY <1>2
  <1>5. PoolTable \notin T /\ MimirTable \notin T /\ PoolTable \in InfoTables /\ MimirTable \in InfoTables
    BY DEF InfoTables
  <1>6. s.status = r.status /\ s.mimir = r.mimir
    BY <1>5 DEF Adds, KeepsInfo
  <1>7. MimirsOf(c, s.rows)
    BY <1>2, <1>3, <1>4, <1>5 DEF Written, MimirsOf
  <1>8. Told(c, s)
    <2> SUFFICES ASSUME c.told PROVE Told(c, s)
      BY DEF Told
    <2>1. Tells(PoolTable, c.status, r.rows, 0, n, r.status) /\ Tells(MimirTable, c.mimir, r.rows, 0, n, r.mimir)
      BY <1>2 DEF Written, Told
    <2>2. \A i \in (n + 1)..k : s.rows[i].table # PoolTable /\ s.rows[i].table # MimirTable
      BY <1>3, <1>5
    <2>3. Tells(PoolTable, c.status, s.rows, 0, k, r.status)
      BY <1>2, <1>3, <2>1, <2>2, TellsStill, SMTT(60)
    <2>4. Tells(MimirTable, c.mimir, s.rows, 0, k, r.mimir)
      BY <1>2, <1>3, <2>1, <2>2, TellsStill, SMTT(60)
    <2> QED
      BY <1>2, <1>6, <2>3, <2>4 DEF Told
  <1> QED
    BY <1>1, <1>7, <1>8 DEF Written

\* An event that tells nothing of pools and mimirs: its rows go behind the others.
LEMMA QuietWritten ==
    ASSUME NEW c, NEW m, NEW r, NEW s, NEW id \in Nat, NEW id2 \in Nat, c.left \in Nat,
           Written(c, r, id), Quiet(m, r, s), AsBigint(m.id) = id, m.time = c.time, HeightFromEventId(id) = c.h,
           id < id2 \/ (id = id2 /\ id = c.left)
    PROVE  Written(c, s, id2)
  <1>1. PICK T : T \cap InfoTables = {} /\ Adds(m, T, r, s)
    BY DEF Quiet
  <1> QED
    BY <1>1, AddsWritten

\* A row of chain info is one of its table.
LEMMA InformsAdds ==
    ASSUME NEW m, NEW table \in InfoTables, NEW data, NEW taken, NEW r, HasRows(r), NEW s,
           Informs(m, table, data, taken, r, s)
    PROVE  Adds(m, {table}, r, s)
  <1> DEFINE row == RowOf(table, m, data)
  <1>1. PICK n \in Nat : n = Len(r.rows)
    BY AppendIs DEF HasRows
  <1>2. IsRowOf(m, {table}, row)
    BY DEF IsRowOf, RowOf
  <1>3. IsRecorder(s) /\ IsSeq(r.rows) /\ IsSeq(s.rows) /\ KeepsInfo({table}, r, s)
    BY DEF Informs, HasRows, KeepsInfo, InfoTables
  <1> HIDE DEF row
  <1>4. CASE taken
    <2>1. s.rows = Append(r.rows, row)
      BY <1>4 DEF Informs, row
    <2>2. Len(s.rows) = n + 1 /\ s.rows[n + 1] = row /\ \A i \in 1..n : s.rows[i] = r.rows[i]
      BY <1>1, <2>1, AppendIs DEF HasRows
    <2>3. \A i \in (n + 1)..(n + 1) : IsRowOf(m, {table}, s.rows[i]) /\ (n + 1)..(i - 1) = {}
      BY <1>2, <2>2
    <2>4. n <= n + 1
      OBVIOUS
    <2> QED
      BY <1>1, <1>3, <2>2, <2>3, <2>4 DEF Adds
  <1>5. CASE ~taken
    <2>1. s.rows = r.rows
      BY <1>5 DEF Informs
    <2>2. n <= n /\ (n + 1)..n = {}
      OBVIOUS
    <2> QED
      BY <1>1, <1>3, <2>1, <2>2 DEF Adds
  <1> QED
    BY <1>4, <1>5

\* Nor does what the rows tell.
LEMMA InformsTold ==
    ASSUME NEW m, NEW table \in InfoTables, NEW data, NEW r, HasRows(r), NEW s, Informs(m, table, data, TRUE, r, s),
           NEW status, Tells(PoolTable, status, r.rows, 0, Len(r.rows), r.status),
           NEW mimir, Tells(MimirTable, mimir, r.rows, 0, Len(r.rows), r.mimir)
    PROVE  /\ Tells(PoolTable, status, s.rows, 0, Len(s.rows), s.status)
           /\ Tells(MimirTable, mimir, s.rows, 0, Len(s.rows), s.mimir)
  <1> DEFINE row == RowOf(table, m, data)
  <1>1. PICK n \in Nat : n = Len(r.rows)
    BY AppendIs DEF HasRows
  <1>2. row.table = table /\ row.data = data
    BY DEF RowOf
  <1>3. PoolTable # MimirTable /\ table \in {PoolTable, MimirTable}
    BY DEF PoolTable, MimirTable, InfoTables
  <1> HIDE DEF row
  <1>4. s.rows = Append(r.rows, row)
    BY DEF Informs, row
  <1>5. Len(s.rows) = n + 1 /\ s.rows[n + 1] = row /\ \A i \in 1..n : s.rows[i] = r.rows[i]
    BY <1>1, <1>4, AppendIs DEF HasRows
  <1>6. Tells(PoolTable, status, r.rows, 0, n, r.status) /\ Tells(MimirTable, mimir, r.rows, 0, n, r.mimir)
    BY <1>1
  <1>7. /\ s.status = IF table = PoolTable THEN SetTo(r.status, data[1], Says(table, data)) ELSE r.status
        /\ s.mimir = IF table = MimirTable THEN SetTo(r.mimir, data[1], Says(table, data)) ELSE r.mimir
    BY DEF Informs
  <1>8. n + 1 \in Nat /\ n <= n + 1 /\ 0 <= n
    OBVIOUS
  <1>9. ASSUME NEW f, NEW base, Tells(table, base, r.rows, 0, n, f)
        PROVE  Tells(table, base, s.rows, 0, n + 1, SetTo(f, data[1], Says(table, data)))
    <2>1. Tells(table, base, s.rows, 0, n, f)
      BY <1>5, <1>9, TellsStill
    <2>2. Tells(table, f, s.rows, n, n + 1, SetTo(f, data[1], Says(table, data)))
      BY <1>2, <1>5, TellsOne
    <2> QED
      BY <1>8, <2>1, <2>2, TellsOn
  <1>10. ASSUME NEW f, NEW base, NEW other, other # table, Tells(other, base, r.rows, 0, n, f)
         PROVE  Tells(other, base, s.rows, 0, n + 1, f)
    <2>1. \A i \in (n + 1)..(n + 1) : s.rows[i].table # other
      BY <1>2, <1>5, <1>10
    <2> QED
      BY <1>5, <1>8, <1>10, <2>1, TellsStill
  <1>11. CASE table = PoolTable
    <2>1. Tells(PoolTable, status, s.rows, 0, n + 1, s.status)
      BY <1>6, <1>7, <1>9, <1>11
    <2>2. Tells(MimirTable, mimir, s.rows, 0, n + 1, s.mimir)
      BY <1>3, <1>6, <1>7, <1>10, <1>11
    <2> QED
      BY <1>5, <2>1, <2>2
  <1>12. CASE table = MimirTable
    <2>1. Tells(MimirTable, mimir, s.rows, 0, n + 1, s.mimir)
      BY <1>6, <1>7, <1>9, <1>12
    <2>2. Tells(PoolTable, status, s.rows, 0, n + 1, s.status)
      BY <1>3, <1>6, <1>7, <1>10, <1>12
    <2> QED
      BY <1>5, <2>1, <2>2
  <1> QED
    BY <1>3, <1>11, <1>12

\* An event that tells of a pool or a mimir, whose row the database takes if chain info is to be told.
LEMMA InformsWritten ==
    ASSUME NEW c, NEW m, NEW table \in InfoTables, NEW data, NEW taken \in BOOLEAN, NEW r, NEW s,
           NEW id \in Nat, NEW id2 \in Nat, c.left \in Nat,
           Written(c, r, id), Informs(m, table, data, taken, r, s), c.told => taken,
           AsBigint(m.id) = id, m.time = c.time, HeightFromEventId(id) = c.h, id < id2,
           table = MimirTable => SetsAt(c.b, data[1], id)
    PROVE  Written(c, s, id2)
  <1> DEFINE row == RowOf(table, m, data)
  <1>0. HasRows(r) /\ HasRows(s)
    BY DEF Written, Informs
  <1>1. Adds(m, {table}, r, s)
    BY <1>0, InformsAdds
  <1>2. InBlock(c, s.rows, id2)
    BY <1>1, AddsInBlock DEF Written
  <1>3. PICK n \in Nat : n = Len(r.rows)
    BY <1>0, AppendIs DEF HasRows
  <1>4. row.id = id /\ row.table = table /\ row.data = data
    BY DEF RowOf
  <1>5. PoolTable # MimirTable /\ table \in {PoolTable, MimirTable}
    BY DEF PoolTable, MimirTable, InfoTables
  <1> HIDE DEF row
  <1>6. CASE taken
    <2>1. s.rows = Append(r.rows, row)
      BY <1>6 DEF Informs, row
    <2>2. Len(s.rows) = n + 1 /\ s.rows[n + 1] = row /\ \A i \in 1..n : s.rows[i] = r.rows[i]
      BY <1>0, <1>3, <2>1, AppendIs DEF HasRows
    <2>3. \A i \in 1..(n + 1) : i \in 1..n \/ i = n + 1
      OBVIOUS
    <2>4. MimirsOf(c, s.rows)
      BY <1>3, <1>4, <2>2, <2>3 DEF Written, MimirsOf
    <2>5. Told(c, s)
      BY <1>0, <1>6, InformsTold DEF Written, Told
    <2> QED
      BY <1>0, <1>2, <2>4, <2>5 DEF Written, Told
  <1>7. CASE ~taken
    <2>1. s.rows = r.rows
      BY <1>7 DEF Informs
    <2> QED
      BY <1>0, <1>2, <1>7, <2>1 DEF Written, MimirsOf, Told
  <1> QED
    BY <1>6, <1>7

\* Any event.
LEMMA DoesWritten ==
    ASSUME NEW c, NEW m, NEW e, NEW r, NEW s, NEW id \in Nat, NEW id2 \in Nat, c.left \in Nat,
           Written(c, r, id), Does(m, e, r, s), AsBigint(m.id) = id, m.time = c.time, HeightFromEventId(id) = c.h, id < id2,
           c.told /\ e.type \in {"pool", "set_mimir"} => e.refused = {},
           e.type = "set_mimir" => SetsAt(c.b, MimirKey(e), id)
    PROVE  Written(c, s, id2)
  <1>1. CASE Quiet(m, r, s)
    BY <1>1, QuietWritten
  <1>2. ASSUME NEW table \in InfoTables, NEW data, NEW taken \in BOOLEAN, Informs(m, table, data, taken, r, s),
               e.refused = {} => taken, e.type = TypeOf(table), table = MimirTable => data[1] = MimirKey(e)
        PROVE  Written(c, s, id2)
    <2>1. c.told => taken
      BY <1>2 DEF TypeOf
    <2>2. table = MimirTable => SetsAt(c.b, data[1], id)
      BY <1>2 DEF TypeOf, PoolTable, MimirTable
    <2> QED
      BY <1>2, <2>1, <2>2, InformsWritten
  <1> QED
    BY <1>1, <1>2 DEF Does

-----------------------------------------------------------------------------
(* The ids of a block.                                                     *)

\* Digits above and below a place: a number is taken apart at it, and ordered by what is above.
LEMMA Digits ==
    ASSUME NEW P \in Nat \ {0}, NEW q \in Nat, NEW r \in Nat, r < P
    PROVE  /\ q * P + r \in Nat /\ (q * P + r) \div P = q /\ (q * P + r) % P = r
           /\ \A k, s \in Nat : q < k => q * P + r < k * P + s
  <1>1. q * P \in Nat
    OBVIOUS
  <1>2. q * P + r \in Nat
    BY <1>1
  <1>3. (q * P + r) \div P = q /\ (q * P + r) % P = r
    OBVIOUS
  <1>4. ASSUME NEW k \in Nat, NEW s \in Nat, q < k PROVE q * P + r < k * P + s
    <2>1. (k - q) * P >= P
      BY <1>4
    <2>2. k * P = q * P + (k - q) * P
      OBVIOUS
    <2>3. k * P \in Nat /\ (k - q) * P \in Int
      OBVIOUS
    <2> QED
      BY <1>1, <2>1, <2>2, <2>3
  <1> QED
    BY <1>2, <1>3, <1>4

\* They have the height of the block above their digits.
LEMMA IdsAre ==
    ASSUME NEW b, b.height \in Nat, NEW low \in Nat, low < BlockHeightScale
    PROVE  /\ b.height * BlockHeightScale + low \in Nat
           /\ HeightFromEventId(b.height * BlockHeightScale + low) = b.height
  <1>1. BlockHeightScale \in Nat \ {0}
    BY EventIdsAssumption DEF BlockHeightScale
  <1>2. PICK h \in Nat, P \in Nat \ {0} : h = b.height /\ P = BlockHeightScale
    BY <1>1
  <1>3. h * P + low \in Nat /\ (h * P + low) \div P = h
    BY <1>2, Digits
  <1> QED
    BY <1>2, <1>3 DEF HeightFromEventId

\* Ids of one block differ in their lower digits.
LEMMA LowDigits ==
    ASSUME NEW b
    PROVE  /\ \A i : OutsideId(b, "BeginBlockEvents", i) = b.height * BlockHeightScale + i
           /\ \A i : OutsideId(b, "EndBlockEvents", i) = b.height * BlockHeightScale + (9 * TypeDigit + i)
           /\ \A t, i : TxId(b, t, i) = b.height * BlockHeightScale + (TypeDigit + t * TxIndexScale + i)
  BY DEF OutsideId, TxId, AsBigint, EventId

\* The ids of the two passes over the events outside of transactions.
BeginId(b, i) == OutsideId(b, "BeginBlockEvents", i)
EndId(b, i) == OutsideId(b, "EndBlockEvents", i)

\* Ids grow from event to event, from pass to pass and from transaction to transaction.
LEMMA IdsGrow ==
    ASSUME NEW b, b.height \in Nat, NEW n \in Nat, n + 1 < TypeDigit, NEW k \in Nat, (k + 1) * TxIndexScale <= 8 * TypeDigit
    PROVE  /\ \A i \in 0..(n + 1) :
                 /\ BeginId(b, i) \in Nat /\ HeightFromEventId(BeginId(b, i)) = b.height
                 /\ EndId(b, i) \in Nat /\ HeightFromEventId(EndId(b, i)) = b.height
                 /\ BeginId(b, i) <= TxId(b, 1, 0)
           /\ \A i, j \in 0..(n + 1) : i < j => BeginId(b, i) < BeginId(b, j) /\ EndId(b, i) < EndId(b, j)
           /\ \A t \in 1..(k + 1) : TxId(b, t, 0) \in Nat
           /\ \A t \in 1..k : \A i \in 0..TxIndexScale :
                 /\ TxId(b, t, i) \in Nat /\ HeightFromEventId(TxId(b, t, i)) = b.height
                 /\ TxId(b, t, i) <= TxId(b, t + 1, 0)
                 /\ \A j \in 0..TxIndexScale : i < j => TxId(b, t, i) < TxId(b, t, j)
           /\ TxId(b, k + 1, 0) <= EndId(b, 1)
  <1>1. PICK h \in Nat, B \in Nat, D \in Nat \ {0}, S \in Nat \ {0} :
           /\ h = b.height /\ D = TypeDigit /\ S = TxIndexScale /\ B = BlockHeightScale /\ B = 10 * D
    BY EventIdsAssumption DEF BlockHeightScale
  <1>2. PICK H \in Nat : H = h * B
    OBVIOUS
  <1>3. \A low \in Nat : low < B => H + low \in Nat /\ HeightFromEventId(H + low) = b.height
    BY <1>1, <1>2, IdsAre
  <1>4. \A i \in Nat : BeginId(b, i) = H + i /\ EndId(b, i) = H + (9 * D + i)
    BY <1>1, <1>2, LowDigits, SMTT(60) DEF BeginId, EndId
  <1>5. ASSUME NEW t \in Nat, NEW i \in Nat, NEW y \in Nat, y = t * S PROVE TxId(b, t, i) = H + (D + y + i)
    <2>1. TxId(b, t, i) = b.height * BlockHeightScale + (TypeDigit + t * TxIndexScale + i)
      BY LowDigits
    <2> QED
      BY <1>1, <1>2, <1>5, <2>1, Zenon
  <1>6. \A t \in 1..(k + 1) : t * S \in Nat /\ t * S <= (k + 1) * S /\ (t + 1) * S = t * S + S
    <2> SUFFICES ASSUME NEW t \in 1..(k + 1)
                 PROVE  t * S \in Nat /\ t * S <= (k + 1) * S /\ (t + 1) * S = t * S + S
      OBVIOUS
    <2>1. (k + 1 - t) * S \in Nat
      OBVIOUS
    <2>2. (k + 1) * S = t * S + (k + 1 - t) * S /\ t * S \in Nat
      OBVIOUS
    <2> QED
      BY <2>1, <2>2
  <1>7. n + 1 < D /\ (k + 1) * S <= 8 * D /\ S <= 8 * D
    <2>1. 1 * S <= (k + 1) * S /\ 1 * S = S /\ (k + 1) * S \in Nat
      BY <1>6
    <2> QED
      BY <1>1, <2>1
  <1>8. \A i \in 0..(n + 1) :
           /\ BeginId(b, i) \in Nat /\ HeightFromEventId(BeginId(b, i)) = b.height
           /\ EndId(b, i) \in Nat /\ HeightFromEventId(EndId(b, i)) = b.height
           /\ BeginId(b, i) <= TxId(b, 1, 0)
    <2> SUFFICES ASSUME NEW i \in 0..(n + 1)
                 PROVE  /\ BeginId(b, i) \in Nat /\ HeightFromEventId(BeginId(b, i)) = b.height
                        /\ EndId(b, i) \in Nat /\ HeightFromEventId(EndId(b, i)) = b.height
                        /\ BeginId(b, i) <= TxId(b, 1, 0)
      OBVIOUS
    <2>1. i \in Nat /\ i < B /\ 9 * D + i \in Nat /\ 9 * D + i < B
      BY <1>1, <1>7
    <2>2. BeginId(b, i) = H + i /\ EndId(b, i) = H + (9 * D + i)
      BY <1>4, <2>1
    <2>3. TxId(b, 1, 0) = H + (D + S + 0)
      <3>1. S = 1 * S /\ 1 \in Nat /\ 0 \in Nat
        OBVIOUS
      <3> QED
        BY <1>5, <3>1
    <2>4. BeginId(b, i) <= TxId(b, 1, 0)
      BY <1>7, <2>2, <2>3
    <2>5. H + i \in Nat /\ HeightFromEventId(H + i) = b.height
      BY <1>3, <2>1
    <2>6. H + (9 * D + i) \in Nat /\ HeightFromEventId(H + (9 * D + i)) = b.height
      BY <1>3, <2>1
    <2> QED
      BY <2>2, <2>4, <2>5, <2>6
  <1>9. \A i, j \in 0..(n + 1) : i < j => BeginId(b, i) < BeginId(b, j) /\ EndId(b, i) < EndId(b, j)
    <2> SUFFICES ASSUME NEW i \in 0..(n + 1), NEW j \in 0..(n + 1), i < j
                 PROVE  BeginId(b, i) < BeginId(b, j) /\ EndId(b, i) < EndId(b, j)
      OBVIOUS
    <2>1. /\ BeginId(b, i) = H + i /\ EndId(b, i) = H + (9 * D + i)
          /\ BeginId(b, j) = H + j /\ EndId(b, j) = H + (9 * D + j)
      BY <1>4
    <2> QED
      BY <2>1
  <1>10. ASSUME NEW t \in 1..k, NEW i \in 0..S
         PROVE  /\ TxId(b, t, i) \in Nat /\ HeightFromEventId(TxId(b, t, i)) = b.height
                /\ TxId(b, t, i) <= TxId(b, t + 1, 0)
                /\ \A j \in 0..S : i < j => TxId(b, t, i) < TxId(b, t, j)
    <2>1. t \in 1..(k + 1) /\ t + 1 \in 1..(k + 1) /\ t \in Nat /\ t + 1 \in Nat /\ i \in Nat
      OBVIOUS
    <2>2. PICK x \in Nat : x = t * S
      BY <1>6, <2>1
    <2>3. (t + 1) * S = x + S /\ x + S <= 8 * D
      <3>1. (t + 1) * S <= (k + 1) * S /\ (t + 1) * S \in Nat
        BY <1>6, <2>1
      <3>2. (t + 1) * S = x + S
        BY <1>6, <2>1, <2>2
      <3>3. PICK y \in Nat : y = (k + 1) * S
        OBVIOUS
      <3> QED
        BY <1>7, <3>1, <3>2, <3>3
    <2>4. TxId(b, t, i) = H + (D + x + i) /\ TxId(b, t + 1, 0) = H + (D + (x + S) + 0)
      <3>1. PICK u \in Nat, y \in Nat : u = t + 1 /\ y = x + S /\ y = u * S /\ 0 \in Nat
        BY <2>1, <2>3
      <3>4. u \in Nat /\ y \in Nat /\ y = u * S /\ 0 \in Nat
        BY <3>1
      <3>2. TxId(b, u, 0) = H + (D + y + 0)
        BY ONLY <3>4, <1>5, SMTT(60)
      <3>3. TxId(b, t, i) = H + (D + x + i)
        BY <2>1, <2>2, <1>5
      <3> QED
        BY <3>1, <3>2, <3>3
    <2>5. D + x + i \in Nat /\ D + x + i < B
      BY <1>1, <2>3
    <2>6. H + (D + x + i) \in Nat /\ HeightFromEventId(H + (D + x + i)) = b.height
      BY <1>3, <2>5
    <2>7. \A j \in 0..S : TxId(b, t, j) = H + (D + x + j)
      BY <1>5, <2>1, <2>2
    <2>8. H + (D + x + i) <= H + (D + (x + S) + 0)
      OBVIOUS
    <2>9. \A j \in 0..S : i < j => H + (D + x + i) < H + (D + x + j)
      OBVIOUS
    <2> QED
      BY <2>4, <2>6, <2>7, <2>8, <2>9
  <1>11. \A t \in 1..(k + 1) : TxId(b, t, 0) \in Nat
    <2> SUFFICES ASSUME NEW t \in 1..(k + 1) PROVE TxId(b, t, 0) \in Nat
      OBVIOUS
    <2>0. PICK y \in Nat : y = t * S /\ t \in Nat /\ 0 \in Nat
      BY <1>6
    <2>1. TxId(b, t, 0) = H + (D + y + 0)
      BY <1>5, <2>0
    <2> QED
      BY <2>1
  <1>12. TxId(b, k + 1, 0) <= EndId(b, 1)
    <2>2. PICK u \in Nat, y \in Nat : u = k + 1 /\ y = u * S /\ y = (k + 1) * S /\ 0 \in Nat
      OBVIOUS
    <2>3. TxId(b, u, 0) = H + (D + y + 0)
      BY <1>5, <2>2
    <2>1. TxId(b, k + 1, 0) = H + (D + y + 0) /\ EndId(b, 1) = H + (9 * D + 1)
      BY <1>4, <2>2, <2>3
    <2> QED
      BY <1>7, <2>1, <2>2
  <1> QED
    BY <1>1, <1>8, <1>9, <1>10, <1>11, <1>12

-----------------------------------------------------------------------------
(* A block.                                                                *)

\* What is known of a block c before its rows: its events, what its ids have room for, the id that
\* is left over for the corrections, and of the rows of chain info that none is refused if c says so.
IsContext(c) ==
    /\ c.b.height \in Nat /\ c.h = c.b.height /\ c.time = c.b.time
    /\ IsBlock(c.b)
    /\ Len(c.b.finalize) + 1 < TypeDigit
    /\ (Len(c.b.txs) + 1) * TxIndexScale <= 8 * TypeDigit
    /\ \A k \in DOMAIN c.b.txs : Len(c.b.txs[k].events) < TxIndexScale
    /\ c.left = EndId(c.b, NumberAt(c.b, "EndBlockEvents", Len(c.b.finalize) + 1))
    /\ c.told => \A k \in DOMAIN EventLists(c.b) : \A l \in DOMAIN EventLists(c.b)[k] :
          EventLists(c.b)[k][l].type \in {"pool", "set_mimir"} => EventLists(c.b)[k][l].refused = {}

\* The metadata rows get, with an id of their own.
IsMeta(c, m) == {"height", "time", "id"} \subseteq DOMAIN m /\ m.time = c.time

\* How many events of the last pass are before the next one.
LEMMA TakenIs ==
    ASSUME NEW b, NEW n \in Nat, DOMAIN b.finalize = 1..n
    PROVE  /\ TakenBefore(b, 1) = 0
           /\ \A l \in 1..(n + 1) : TakenBefore(b, l) \in 0..(l - 1)
           /\ \A l \in 1..n : TakenBefore(b, l + 1) =
                 IF b.finalize[l].mode = "EndBlock" THEN TakenBefore(b, l) + 1 ELSE TakenBefore(b, l)
  <1> DEFINE Set(l) == {i \in DOMAIN b.finalize : i < l /\ b.finalize[i].mode = "EndBlock"}
             S == {l \in 0..n : TakenBefore(b, l + 1) \in 0..l}
  <1>1. \A l \in 0..(n + 1) : Set(l) \subseteq 1..n
    OBVIOUS
  <1>2. \A l \in 0..(n + 1) : IsFiniteSet(Set(l)) /\ Cardinality(Set(l)) \in Nat
    <2>1. IsFiniteSet(1..n)
      BY FS_Interval
    <2> HIDE DEF Set
    <2> QED
      BY <1>1, <2>1, FS_Subset, FS_CardinalityType
  <1>3. \A l : TakenBefore(b, l) = Cardinality(Set(l))
    BY DEF TakenBefore
  <1>4. Set(1) = {}
    OBVIOUS
  <1>5. ASSUME NEW l \in 1..n
        PROVE  TakenBefore(b, l + 1) = IF b.finalize[l].mode = "EndBlock" THEN TakenBefore(b, l) + 1 ELSE TakenBefore(b, l)
    <2>1. l \notin Set(l) /\ l \in 0..(n + 1) /\ \A i \in 1..n : i < l + 1 <=> i < l \/ i = l
      OBVIOUS
    <2>2. CASE b.finalize[l].mode = "EndBlock"
      <3>1. Set(l + 1) = Set(l) \cup {l}
        BY <2>1, <2>2
      <3> HIDE DEF Set
      <3>2. Cardinality(Set(l) \cup {l}) = Cardinality(Set(l)) + 1
        BY <1>2, <2>1, FS_AddElement
      <3> QED
        BY <1>3, <2>2, <3>1, <3>2
    <2>3. CASE b.finalize[l].mode # "EndBlock"
      <3>1. Set(l + 1) = Set(l)
        BY <2>1, <2>3
      <3> QED
        BY <1>3, <2>3, <3>1
    <2> QED
      BY <2>2, <2>3
  <1>6. TakenBefore(b, 1) = 0
    BY <1>3, <1>4, FS_EmptySet
  <1> HIDE DEF Set
  <1>7. 0 \in S
    BY <1>6
  <1>8. \A l \in 1..n : l - 1 \in S => l \in S
    <2> SUFFICES ASSUME NEW l \in 1..n, l - 1 \in S PROVE l \in S
      OBVIOUS
    <2>1. TakenBefore(b, l) \in 0..(l - 1) /\ l \in 0..n
      <3>1. (l - 1) + 1 = l
        OBVIOUS
      <3> QED
        BY <3>1
    <2>2. TakenBefore(b, l + 1) \in {TakenBefore(b, l), TakenBefore(b, l) + 1}
      BY <1>5
    <2> QED
      BY <2>1, <2>2
  <1>9. \A k \in 0..n : k \in S
    <2> SUFFICES ASSUME NEW k \in 0..n PROVE k \in S
      OBVIOUS
    <2> DEFINE R == S
    <2>1. \A l \in 1..k : l - 1 \in R => l \in R
      BY <1>8
    <2>2. 0 \in R
      BY <1>7
    <2>3. k \in Nat
      OBVIOUS
    <2> HIDE DEF R
    <2>4. k \in R
      BY <2>1, <2>2, <2>3, Climb
    <2> QED
      BY <2>4 DEF R
  <1>10. \A l \in 1..(n + 1) : TakenBefore(b, l) \in 0..(l - 1)
    <2> SUFFICES ASSUME NEW l \in 1..(n + 1) PROVE TakenBefore(b, l) \in 0..(l - 1)
      OBVIOUS
    <2>1. l - 1 \in S /\ (l - 1) + 1 = l
      BY <1>9
    <2> QED
      BY <2>1
  <1> QED
    BY <1>5, <1>6, <1>10

\* The passes: over the events of the begin and over those of the end of a block.
IsPass(location, modez) ==
    \/ location = "BeginBlockEvents" /\ modez = BeginModes
    \/ location = "EndBlockEvents" /\ modez = {"EndBlock"}

\* How a pass numbers an event.
LEMMA NumbersAre ==
    ASSUME NEW b, NEW n \in Nat, DOMAIN b.finalize = 1..n, NEW location, NEW modez, IsPass(location, modez), NEW l \in 1..n
    PROVE  LET taken == b.finalize[l].mode \in modez
               i == NumberAt(b, location, l)
               i2 == NumberAt(b, location, l + 1)
           IN  /\ i \in 1..(n + 1) /\ i2 \in 1..(n + 1) /\ i <= i2
               /\ i2 = NextIndex(i, taken, location)
               /\ taken => i < i2 /\ AsBigint(IdAt(b, 0, l)) = OutsideId(b, location, i)
  <1>1. CASE location = "BeginBlockEvents" /\ modez = BeginModes
    <2>1. \A o \in 1..(n + 1) : NumberAt(b, location, o) = o
      BY <1>1 DEF NumberAt
    <2>2. \A i, t : NextIndex(i, t, location) = i + 1
      BY <1>1 DEF NextIndex
    <2>3. ASSUME b.finalize[l].mode \in modez PROVE AsBigint(IdAt(b, 0, l)) = OutsideId(b, location, l)
      <3>1. b.finalize[l].mode # "EndBlock"
        BY <1>1, <2>3 DEF BeginModes
      <3> QED
        BY <1>1, <3>1 DEF IdAt, OutsideId
    <2>4. l \in 1..(n + 1) /\ l + 1 \in 1..(n + 1) /\ l <= l + 1 /\ l < l + 1
      OBVIOUS
    <2> QED
      BY <2>1, <2>2, <2>3, <2>4
  <1>2. CASE location = "EndBlockEvents" /\ modez = {"EndBlock"}
    <2>1. \A o : NumberAt(b, location, o) = 1 + TakenBefore(b, o)
      BY <1>2 DEF NumberAt
    <2>2. \A i, t : NextIndex(i, t, location) = IF t THEN i + 1 ELSE i
      BY <1>2 DEF NextIndex
    <2>3. b.finalize[l].mode \in modez <=> b.finalize[l].mode = "EndBlock"
      BY <1>2
    <2>4. ASSUME b.finalize[l].mode \in modez PROVE AsBigint(IdAt(b, 0, l)) = OutsideId(b, location, 1 + TakenBefore(b, l))
      BY <1>2, <2>3, <2>4 DEF IdAt, OutsideId
    <2>5. l \in 1..(n + 1) /\ l + 1 \in 1..(n + 1)
      OBVIOUS
    <2> DEFINE x == TakenBefore(b, l)
               y == TakenBefore(b, l + 1)
               taken == b.finalize[l].mode \in modez
    <2>6. x \in 0..(l - 1) /\ y \in 0..l /\ y = IF taken THEN x + 1 ELSE x
      <3>1. TakenBefore(b, l) \in 0..(l - 1) /\ TakenBefore(b, l + 1) \in 0..((l + 1) - 1)
        BY <2>5, TakenIs
      <3>2. TakenBefore(b, l + 1) =
               IF b.finalize[l].mode = "EndBlock" THEN TakenBefore(b, l) + 1 ELSE TakenBefore(b, l)
        BY TakenIs
      <3>3. (l + 1) - 1 = l
        OBVIOUS
      <3> QED
        BY <2>3, <3>1, <3>2, <3>3
    <2> HIDE DEF x, y, taken
    <2>7. /\ 1 + x \in 1..(n + 1) /\ 1 + y \in 1..(n + 1) /\ 1 + x <= 1 + y
          /\ 1 + y = IF taken THEN (1 + x) + 1 ELSE 1 + x
          /\ taken => 1 + x < 1 + y
      BY <2>6
    <2> QED
      BY <2>1, <2>2, <2>4, <2>7 DEF x, y, taken
  <1> QED
    BY <1>1, <1>2 DEF IsPass

\* The lists of a block's events.
LEMMA ListsAre ==
    ASSUME NEW c, IsContext(c)
    PROVE  /\ Len(c.b.finalize) \in Nat /\ DOMAIN c.b.finalize = 1..Len(c.b.finalize)
           /\ Len(c.b.txs) \in Nat /\ DOMAIN c.b.txs = 1..Len(c.b.txs)
           /\ 0 \in DOMAIN EventLists(c.b) /\ EventLists(c.b)[0] = c.b.finalize
           /\ \A k \in 1..Len(c.b.txs) :
                 /\ k \in DOMAIN EventLists(c.b) /\ EventLists(c.b)[k] = c.b.txs[k].events
                 /\ Len(c.b.txs[k].events) \in Nat /\ DOMAIN c.b.txs[k].events = 1..Len(c.b.txs[k].events)
  <1>1. Len(c.b.finalize) \in Nat /\ DOMAIN c.b.finalize = 1..Len(c.b.finalize)
    BY DEF IsContext, IsBlock, HasEvents, IsList
  <1>2. Len(c.b.txs) \in Nat /\ DOMAIN c.b.txs = 1..Len(c.b.txs)
    BY DEF IsContext, IsBlock, IsList
  <1>3. \A k \in 1..Len(c.b.txs) : Len(c.b.txs[k].events) \in Nat /\ DOMAIN c.b.txs[k].events = 1..Len(c.b.txs[k].events)
    BY <1>2 DEF IsContext, IsBlock, HasEvents, IsList
  <1>4. DOMAIN EventLists(c.b) = 0..Len(c.b.txs)
    BY DEF EventLists
  <1>5. 0 \in DOMAIN EventLists(c.b) /\ EventLists(c.b)[0] = c.b.finalize
    BY <1>2, <1>4 DEF EventLists
  <1>6. \A k \in 1..Len(c.b.txs) : k \in DOMAIN EventLists(c.b) /\ EventLists(c.b)[k] = c.b.txs[k].events
    BY <1>2, <1>4 DEF EventLists
  <1> QED
    BY <1>1, <1>2, <1>3, <1>5, <1>6

\* The id of an event goes with its metadata.
LEMMA MetaIs ==
    ASSUME NEW c, NEW m, IsMeta(c, m), NEW e
    PROVE  [m EXCEPT !.id = e].id = e /\ [m EXCEPT !.id = e].time = c.time /\ IsMeta(c, [m EXCEPT !.id = e])
  BY DEF IsMeta

\* A pass over the events outside of transactions.
LEMMA RecordFinalizeWritten ==
    ASSUME NEW c, IsContext(c), NEW m, IsMeta(c, m), NEW location, NEW modez, IsPass(location, modez), NEW id,
           NEW r, Written(c, r, OutsideId(c.b, location, NumberAt(c.b, location, 1)))
    PROVE  LET f == RecordFinalize(r, id, c.b, location, modez, m)
           IN  /\ f.index = NumberAt(c.b, location, Len(c.b.finalize) + 1)
               /\ Written(c, f.r, OutsideId(c.b, location, f.index))
  <1> DEFINE b == c.b
             n == Len(b.finalize)
             d == <<id, b, location, modez, m>>
             q == <<c, location>>
             base == [r |-> r, index |-> 1]
  <1>1. n \in Nat /\ DOMAIN b.finalize = 1..n /\ (\A i \in 1..n : IsEvent(b.finalize[i])) /\ c.left \in Nat /\ b.height \in Nat
    <2>1. n \in Nat /\ DOMAIN b.finalize = 1..n /\ \A i \in 1..n : IsEvent(b.finalize[i])
      BY ListsAre DEF IsContext, IsBlock, HasEvents, IsList
    <2>2. c.left = EndId(b, NumberAt(b, "EndBlockEvents", n + 1)) /\ b.height \in Nat /\ n + 1 < TypeDigit
          /\ (Len(b.txs) + 1) * TxIndexScale <= 8 * TypeDigit /\ Len(b.txs) \in Nat
      BY ListsAre DEF IsContext
    <2>3. NumberAt(b, "EndBlockEvents", n + 1) = 1 + TakenBefore(b, n + 1) /\ TakenBefore(b, n + 1) \in 0..n
      <3>1. n + 1 \in 1..(n + 1) /\ (n + 1) - 1 = n
        BY <2>1
      <3> QED
        BY <2>1, <3>1, TakenIs DEF NumberAt
    <2> HIDE DEF b, n
    <2>4. NumberAt(b, "EndBlockEvents", n + 1) \in 0..(n + 1)
      <3> DEFINE x == NumberAt(b, "EndBlockEvents", n + 1)
                 y == TakenBefore(b, n + 1)
      <3>1. x = 1 + y /\ y \in 0..n
        BY <2>3
      <3> HIDE DEF x, y
      <3>2. x \in 0..(n + 1)
        BY <3>1, <2>1
      <3> QED
        BY <3>2 DEF x
    <2>5. c.left \in Nat
      BY <2>1, <2>2, <2>4, IdsGrow
    <2> QED
      BY <2>1, <2>2, <2>5
  <1>2. ASSUME NEW i \in 0..(n + 1)
        PROVE  /\ OutsideId(b, location, i) \in Nat /\ HeightFromEventId(OutsideId(b, location, i)) = b.height
               /\ \A j \in 0..(n + 1) : i < j => OutsideId(b, location, i) < OutsideId(b, location, j)
    <2>1. n + 1 < TypeDigit /\ (Len(b.txs) + 1) * TxIndexScale <= 8 * TypeDigit /\ Len(b.txs) \in Nat
      BY ListsAre DEF IsContext
    <2> HIDE DEF b, n
    <2>2. /\ BeginId(b, i) \in Nat /\ HeightFromEventId(BeginId(b, i)) = b.height
          /\ EndId(b, i) \in Nat /\ HeightFromEventId(EndId(b, i)) = b.height
          /\ \A j \in 0..(n + 1) : i < j => BeginId(b, i) < BeginId(b, j) /\ EndId(b, i) < EndId(b, j)
      BY <1>1, <2>1, IdsGrow
    <2>3. \A j : OutsideId(b, location, j) = BeginId(b, j) \/ OutsideId(b, location, j) = EndId(b, j)
      BY DEF IsPass, BeginId, EndId
    <2>4. (\A j : OutsideId(b, location, j) = BeginId(b, j)) \/ (\A j : OutsideId(b, location, j) = EndId(b, j))
      BY DEF IsPass, BeginId, EndId
    <2> QED
      BY <2>2, <2>4
  <1>3. ASSUME NEW i \in 1..n, NEW a, HasAt(5, q, i - 1, a)
        PROVE  HasAt(5, q, i, Step(5, d, a, b.finalize[i]))
    <2> DEFINE e == b.finalize[i]
               taken == e.mode \in modez
               num == NumberAt(b, location, i)
               num2 == NumberAt(b, location, i + 1)
               meta == [m EXCEPT !.id = EventId(b.height, location, 0, num)]
               s == IF taken THEN processEvent(a.r, id, e, meta) ELSE a.r
               here == OutsideId(b, location, num)
               there == OutsideId(b, location, num2)
    <2>1. a.index = num /\ Written(c, a.r, here)
      <3>1. (i - 1) + 1 = i
        OBVIOUS
      <3> QED
        BY <1>3, <3>1 DEF HasAt
    <2>2. /\ num \in 1..(n + 1) /\ num2 \in 1..(n + 1) /\ num <= num2
          /\ num2 = NextIndex(num, taken, location)
          /\ taken => num < num2 /\ AsBigint(IdAt(b, 0, i)) = here
      BY <1>1, NumbersAre
    <2>3. Step(5, d, a, e) = [r |-> s, index |-> num2]
      BY <2>1, <2>2 DEF Step, RecordEvent
    <2>4. AsBigint(meta.id) = here /\ meta.time = c.time
      <3>1. \A x : [m EXCEPT !.id = x].id = x /\ [m EXCEPT !.id = x].time = c.time
        BY DEF IsMeta
      <3>2. meta.id = EventId(b.height, location, 0, num) /\ meta.time = c.time
        BY <3>1
      <3>3. here = AsBigint(EventId(b.height, location, 0, num))
        BY DEF OutsideId
      <3> HIDE DEF meta, here, num, b
      <3> QED
        BY <3>2, <3>3
    <2>5. e.type = "set_mimir" /\ taken => SetsAt(b, MimirKey(e), here)
      <3>1. 0 \in DOMAIN EventLists(b) /\ EventLists(b)[0] = b.finalize /\ i \in DOMAIN b.finalize
        BY <1>1, ListsAre
      <3> QED
        BY <3>1, <2>2 DEF SetsAt
    <2>6. c.told /\ e.type \in {"pool", "set_mimir"} => e.refused = {}
      <3>1. 0 \in DOMAIN EventLists(b) /\ EventLists(b)[0] = b.finalize /\ i \in DOMAIN b.finalize
        BY <1>1, ListsAre
      <3> QED
        BY <3>1 DEF IsContext
    <2>7. IsEvent(e)
      BY <1>1
    <2>8. /\ here \in Nat /\ HeightFromEventId(here) = c.h /\ there \in Nat
          /\ here <= there /\ (taken => here < there)
      <3> HIDE DEF taken, num, num2
      <3>1. num \in 0..(n + 1) /\ num2 \in 0..(n + 1) /\ (num < num2 \/ num = num2)
        BY <1>1, <2>2
      <3>2. c.h = b.height
        BY DEF IsContext
      <3>3. here \in Nat /\ there \in Nat /\ HeightFromEventId(here) = b.height /\ (num < num2 => here < there)
        BY <1>2, <3>1
      <3> QED
        BY <2>2, <3>1, <3>2, <3>3
    <2> HIDE DEF e, meta, here, there, num, num2, taken
    <2>9. Written(c, s, there)
      <3>1. CASE taken
        <4>1. HasRows(a.r)
          BY <2>1 DEF Written
        <4>2. Does(meta, e, a.r, s)
          BY <4>1, <3>1, <2>7, processEventDoes
        <4> HIDE DEF s
        <4> QED
          BY <4>2, <3>1, <1>1, <2>1, <2>4, <2>5, <2>6, <2>8, DoesWritten
      <3>2. CASE ~taken
        <4>1. s = a.r
          BY <3>2
        <4>2. InBlock(c, a.r.rows, there)
          BY <2>1, <2>8, RoomFor DEF Written
        <4> QED
          BY <4>1, <4>2, <2>1 DEF Written
      <3> QED
        BY <3>1, <3>2
    <2> HIDE DEF s
    <2>10. HasAt(5, q, i, [r |-> s, index |-> num2])
      BY <2>9 DEF HasAt, num2, there
    <2> QED
      BY <2>3, <2>10 DEF e
  <1>4. HasAt(5, q, 0, base)
    <2>1. NumberAt(b, location, 1) = 1 /\ 0 + 1 = 1
      <3>1. CASE location = "BeginBlockEvents"
        BY <3>1 DEF NumberAt
      <3>2. CASE location # "BeginBlockEvents"
        <4>1. NumberAt(b, location, 1) = 1 + TakenBefore(b, 1)
          BY <3>2 DEF NumberAt
        <4>2. TakenBefore(b, 1) = 0
          BY <1>1, TakenIs
        <4> QED
          BY <4>1, <4>2
      <3> QED
        BY <3>1, <3>2
    <2> QED
      BY <2>1 DEF HasAt
  <1> HIDE DEF n, base, b
  <1>5. PICK t : Steps(5, d, t, base, b.finalize, n) /\ t[n] = RecordFinalize(r, id, b, location, modez, m)
    BY <1>1, RecordFinalizeSteps DEF base
  <1> HIDE DEF d, q
  <1>6. HasAt(5, q, n, t[n])
    BY <1>1, <1>3, <1>4, <1>5, FoldHas
  <1> QED
    BY <1>5, <1>6 DEF HasAt, q, b, n

\* The messages of a transaction: their rows share the id of its first event.
LEMMA processTxWritten ==
    ASSUME NEW c, NEW m, NEW id \in Nat, c.left \in Nat, AsBigint(m.id) = id, m.time = c.time, HeightFromEventId(id) = c.h,
           NEW r, Written(c, r, id), NEW tx, IsList(tx.msgs)
    PROVE  Written(c, processTx(r, tx, m), id)
  <1> DEFINE n == Len(tx.msgs)
             d == <<tx, m>>
             q == <<c, id>>
             base == [r |-> r, done |-> FALSE]
  <1>1. n \in Nat /\ DOMAIN tx.msgs = 1..n
    BY DEF IsList
  <1>2. ASSUME NEW i \in 1..n, NEW a, HasAt(4, q, i - 1, a)
        PROVE  HasAt(4, q, i, Step(4, d, a, tx.msgs[i]))
    <2> DEFINE msg == tx.msgs[i]
               s == Begun(a.r, msg.refused)
               x == IF msg.kind = "MsgDeposit" THEN LoadDeposit(msg) ELSE LoadSend(msg)
               Kept(o) == {"r", "done"} \subseteq DOMAIN o /\ Written(c, o.r, id)
    <2>1. Kept(a)
      BY <1>2 DEF HasAt
    <2>2. HasRows(a.r)
      BY <2>1 DEF Written
    <2>3. Adds(m, {}, a.r, s)
      BY <2>2, BegunAdds DEF HasRows
    <2> HIDE DEF s, x
    <2>4. \A table \in {"send_messages", "failed_deposit_messages"} : Written(c, InsertWithMeta(s, table, m, <<>>), id)
      <3> SUFFICES ASSUME NEW table \in {"send_messages", "failed_deposit_messages"}
                   PROVE  Written(c, InsertWithMeta(s, table, m, <<>>), id)
        OBVIOUS
      <3> DEFINE T == {} \cup {table}
      <3>1. Adds(m, T, a.r, InsertWithMeta(s, table, m, <<>>))
        BY <2>3, InsertAdds
      <3>2. T \cap InfoTables = {} /\ T \subseteq SharedTables
        BY DEF InfoTables, PoolTable, MimirTable, SharedTables
      <3> HIDE DEF T
      <3> QED
        BY <2>1, <3>1, <3>2, AddsWritten
    <2>5. Written(c, OnDeposit(s, x, m), id) /\ Written(c, OnMsgSend(s, x, m), id)
      BY <2>4 DEF OnDeposit, OnMsgSend
    <2>6. Kept([a EXCEPT !.done = TRUE])
      BY <2>1
    <2>7. ASSUME NEW z, Written(c, z, id) PROVE Kept([a EXCEPT !.r = z])
      BY <2>1, <2>7
    <2>8. processMsg(a, tx, m, msg) \in
             {a, [a EXCEPT !.done = TRUE], [a EXCEPT !.r = OnDeposit(s, x, m)], [a EXCEPT !.r = OnMsgSend(s, x, m)]}
      BY DEF processMsg, s, x
    <2> HIDE DEF Kept
    <2>9. Kept(processMsg(a, tx, m, msg))
      BY <2>1, <2>5, <2>6, <2>7, <2>8
    <2>10. Step(4, d, a, msg) = processMsg(a, tx, m, msg)
      BY DEF Step
    <2> QED
      BY <2>9, <2>10 DEF HasAt, Kept
  <1>3. HasAt(4, q, 0, base)
    BY DEF HasAt
  <1> HIDE DEF n, base
  <1>4. PICK t : Steps(4, d, t, base, tx.msgs, n) /\ t[n] = processMsgs(r, tx, m)
    BY <1>1, processMsgsSteps DEF base
  <1> HIDE DEF d, q
  <1>5. HasAt(4, q, n, t[n])
    BY <1>1, <1>2, <1>3, <1>4, FoldHas
  <1> QED
    BY <1>4, <1>5 DEF HasAt, q, processTx

\* What a transaction adds to an event is nothing its rows are told by.
LEMMA ParentTxKeeps ==
    ASSUME NEW tx, NEW e, IsEvent(e)
    PROVE  LET f == processParentTx(tx, e)
           IN  IsEvent(f) /\ (e.type \in {"pool", "set_mimir"} => f = e) /\ f.type = e.type
  <1>1. IsEvent(processParentTx(tx, e))
    BY ParentTxIs
  <1>2. e.type \in {"pool", "set_mimir"} => processParentTx(tx, e) = e
    BY DEF processParentTx
  <1>3. processParentTx(tx, e).type = e.type
    <2> DEFINE Same(f) == f.type = e.type
    <2>1. \A attrs : Same(With(e, attrs))
      BY DEF With, IsEvent
    <2>2. \A attrs : Same([e EXCEPT !.attrs = attrs])
      BY DEF IsEvent
    <2>3. Same(e)
      OBVIOUS
    <2>4. Same(processParentTx(tx, e))
      <3> HIDE DEF Same
      <3> QED
        BY <2>1, <2>2, <2>3 DEF processParentTx
    <2> QED
      BY <2>4
  <1> QED
    BY <1>1, <1>2, <1>3

\* The ids of a transaction of a block.
LEMMA TxIds ==
    ASSUME NEW c, IsContext(c), NEW tx \in 1..Len(c.b.txs)
    PROVE  /\ \A i \in 0..TxIndexScale :
                 TxId(c.b, tx, i) \in Nat /\ HeightFromEventId(TxId(c.b, tx, i)) = c.h /\ TxId(c.b, tx, i) <= TxId(c.b, tx + 1, 0)
           /\ \A i, j \in 0..TxIndexScale : i < j => TxId(c.b, tx, i) < TxId(c.b, tx, j)
           /\ TxId(c.b, tx + 1, 0) \in Nat
           /\ c.left \in Nat
  <1> DEFINE b == c.b
             n == Len(b.finalize)
             k == Len(b.txs)
  <1>1. n \in Nat /\ k \in Nat /\ DOMAIN b.finalize = 1..n
    BY ListsAre
  <1>2. /\ b.height \in Nat /\ n + 1 < TypeDigit /\ (k + 1) * TxIndexScale <= 8 * TypeDigit /\ c.h = b.height
        /\ c.left = EndId(b, NumberAt(b, "EndBlockEvents", n + 1))
    BY DEF IsContext
  <1>3. NumberAt(b, "EndBlockEvents", n + 1) = 1 + TakenBefore(b, n + 1) /\ TakenBefore(b, n + 1) \in 0..n
    <2>1. n + 1 \in 1..(n + 1) /\ (n + 1) - 1 = n
      BY <1>1
    <2> HIDE DEF n, b
    <2> QED
      BY <1>1, <2>1, TakenIs DEF NumberAt
  <1> HIDE DEF b, n, k
  <1>4. NumberAt(b, "EndBlockEvents", n + 1) \in 0..(n + 1)
    <2> DEFINE x == NumberAt(b, "EndBlockEvents", n + 1)
               y == TakenBefore(b, n + 1)
    <2>1. x = 1 + y /\ y \in 0..n
      BY <1>3
    <2> HIDE DEF x, y
    <2>2. x \in 0..(n + 1)
      BY <1>1, <2>1
    <2> QED
      BY <2>2 DEF x
  <1>5. c.left \in Nat
    BY <1>1, <1>2, <1>4, IdsGrow
  <1>6. tx \in 1..k /\ tx + 1 \in 1..(k + 1)
    BY <1>1 DEF k, b
  <1>7. /\ \A t \in 1..(k + 1) : TxId(b, t, 0) \in Nat
        /\ \A t \in 1..k : \A i \in 0..TxIndexScale :
              /\ TxId(b, t, i) \in Nat /\ HeightFromEventId(TxId(b, t, i)) = b.height
              /\ TxId(b, t, i) <= TxId(b, t + 1, 0)
              /\ \A j \in 0..TxIndexScale : i < j => TxId(b, t, i) < TxId(b, t, j)
    BY <1>1, <1>2, IdsGrow
  <1> QED
    BY <1>2, <1>5, <1>6, <1>7 DEF b

\* The events of a transaction.
LEMMA RecordTxEventsWritten ==
    ASSUME NEW c, IsContext(c), NEW m, IsMeta(c, m), NEW id, NEW k \in 1..Len(c.b.txs),
           NEW r, Written(c, r, TxId(c.b, k, 1))
    PROVE  Written(c, RecordTxEvents(r, id, c.b, c.b.txs[k], k, m).r, TxId(c.b, k, Len(c.b.txs[k].events) + 1))
  <1> DEFINE b == c.b
             tx == b.txs[k]
             n == Len(tx.events)
             d == <<id, b, tx, k, m>>
             q == <<c, k>>
             base == [r |-> r, index |-> 1]
  <1>1. n \in Nat /\ DOMAIN tx.events = 1..n /\ (\A i \in 1..n : IsEvent(tx.events[i])) /\ n < TxIndexScale
        /\ k \in DOMAIN EventLists(b) /\ EventLists(b)[k] = tx.events /\ k > 0
    <2>1. k \in DOMAIN b.txs /\ k > 0
      BY ListsAre
    <2> QED
      BY <2>1, ListsAre DEF IsContext, IsBlock, HasEvents, IsList
  <1>2. /\ \A i \in 0..TxIndexScale : TxId(b, k, i) \in Nat /\ HeightFromEventId(TxId(b, k, i)) = c.h
        /\ \A i, j \in 0..TxIndexScale : i < j => TxId(b, k, i) < TxId(b, k, j)
        /\ c.left \in Nat
    BY TxIds
  <1>3. TxIndexScale \in Nat
    BY EventIdsAssumption
  <1>4. ASSUME NEW i \in 1..n, NEW a, HasAt(6, q, i - 1, a)
        PROVE  HasAt(6, q, i, Step(6, d, a, tx.events[i]))
    <2> DEFINE e == tx.events[i]
               f == processParentTx(tx, e)
               meta == TxEventAt(b, k, m, i)
               s == processEvent(a.r, id, f, meta)
               here == TxId(b, k, i)
               there == TxId(b, k, i + 1)
    <2>1. a.index = i /\ Written(c, a.r, here)
      <3>1. (i - 1) + 1 = i
        OBVIOUS
      <3> QED
        BY <1>4, <3>1 DEF HasAt
    <2>2. Step(6, d, a, e) = [r |-> s, index |-> i + 1]
      BY <2>1 DEF Step, RecordTxEvent
    <2>3. AsBigint(meta.id) = here /\ meta.time = c.time
      <3>1. \A x : [m EXCEPT !.id = x].id = x /\ [m EXCEPT !.id = x].time = c.time
        BY DEF IsMeta
      <3>2. meta.id = EventId(b.height, "TxsResults", k, i) /\ meta.time = c.time
        BY <3>1 DEF TxEventAt
      <3>3. here = AsBigint(EventId(b.height, "TxsResults", k, i))
        BY DEF TxId
      <3> HIDE DEF meta, here, b
      <3> QED
        BY <3>2, <3>3
    <2>4. IsEvent(f) /\ f.type = e.type /\ (e.type \in {"pool", "set_mimir"} => f = e)
      BY <1>1, ParentTxKeeps
    <2>5. i \in DOMAIN EventLists(b)[k] /\ EventLists(b)[k][i] = e
      BY <1>1
    <2>6. f.type = "set_mimir" => SetsAt(b, MimirKey(f), here)
      <3>1. here = AsBigint(IdAt(b, k, i))
        BY <1>1 DEF TxId, IdAt
      <3> QED
        BY <1>1, <2>4, <2>5, <3>1 DEF SetsAt
    <2>7. c.told /\ f.type \in {"pool", "set_mimir"} => f.refused = {}
      BY <1>1, <2>4, <2>5 DEF IsContext
    <2>8. here \in Nat /\ HeightFromEventId(here) = c.h /\ there \in Nat /\ here < there
      <3>1. i \in 0..TxIndexScale /\ i + 1 \in 0..TxIndexScale /\ i < i + 1
        BY <1>1, <1>3
      <3> HIDE DEF b
      <3> QED
        BY <1>2, <3>1
    <2>9. HasRows(a.r)
      BY <2>1 DEF Written
    <2> HIDE DEF e, meta, f, here, there
    <2>10. Does(meta, f, a.r, s)
      BY <2>4, <2>9, processEventDoes
    <2> HIDE DEF s
    <2>11. Written(c, s, there)
      BY <2>10, <1>2, <2>1, <2>3, <2>6, <2>7, <2>8, DoesWritten
    <2>12. HasAt(6, q, i, [r |-> s, index |-> i + 1])
      BY <2>11 DEF HasAt, there
    <2> QED
      BY <2>2, <2>12 DEF e
  <1>5. HasAt(6, q, 0, base)
    <2>1. 0 + 1 = 1
      OBVIOUS
    <2> QED
      BY <2>1 DEF HasAt
  <1> HIDE DEF n, base, tx
  <1>6. PICK t : Steps(6, d, t, base, tx.events, n) /\ t[n] = RecordTxEvents(r, id, b, tx, k, m)
    BY <1>1, RecordTxEventsSteps DEF base
  <1> HIDE DEF d, q
  <1>7. HasAt(6, q, n, t[n])
    BY <1>1, <1>4, <1>5, <1>6, FoldHas
  <1> QED
    BY <1>6, <1>7 DEF HasAt, q, n, tx

\* The transactions of a block, one after the other.
LEMMA RecordTxsWritten ==
    ASSUME NEW c, IsContext(c), NEW m, IsMeta(c, m), NEW id, NEW r, Written(c, r, TxId(c.b, 1, 0))
    PROVE  Written(c, RecordTxs(r, id, c.b, m).r, TxId(c.b, Len(c.b.txs) + 1, 0))
  <1> DEFINE b == c.b
             n == Len(b.txs)
             d == <<id, b, m>>
             base == [r |-> r, tx |-> 1]
  <1>1. n \in Nat /\ DOMAIN b.txs = 1..n
    BY ListsAre
  <1>2. ASSUME NEW k \in 1..n, NEW a, HasAt(8, c, k - 1, a)
        PROVE  HasAt(8, c, k, Step(8, d, a, b.txs[k]))
    <2> DEFINE tx == b.txs[k]
               l == Len(tx.events)
               meta == TxEventAt(b, k, m, 1)
               sent == processTx(a.r, tx, meta)
               s == RecordTxEvents(sent, id, b, tx, k, m).r
    <2>1. a.tx = k /\ Written(c, a.r, TxId(b, k, 0))
      <3>1. (k - 1) + 1 = k
        OBVIOUS
      <3> QED
        BY <1>2, <3>1 DEF HasAt
    <2>2. Step(8, d, a, tx) = [r |-> s, tx |-> k + 1]
      BY <2>1 DEF Step, NextTx, RecordTx
    <2>3. l \in Nat /\ l < TxIndexScale /\ IsList(tx.msgs)
      <3>1. k \in DOMAIN b.txs
        BY <1>1
      <3> QED
        BY <3>1, ListsAre DEF IsContext, IsBlock
    <2>4. 0 \in 0..TxIndexScale /\ 1 \in 0..TxIndexScale /\ l + 1 \in 0..TxIndexScale
      <3>1. TxIndexScale \in Nat
        BY EventIdsAssumption
      <3> HIDE DEF l
      <3> QED
        BY <2>3, <3>1
    <2>5. /\ \A i \in 0..TxIndexScale :
                TxId(b, k, i) \in Nat /\ HeightFromEventId(TxId(b, k, i)) = c.h /\ TxId(b, k, i) <= TxId(b, k + 1, 0)
          /\ \A i, j \in 0..TxIndexScale : i < j => TxId(b, k, i) < TxId(b, k, j)
          /\ TxId(b, k + 1, 0) \in Nat
          /\ c.left \in Nat
      BY TxIds
    <2>6. AsBigint(meta.id) = TxId(b, k, 1) /\ meta.time = c.time
      <3>1. \A x : [m EXCEPT !.id = x].id = x /\ [m EXCEPT !.id = x].time = c.time
        BY DEF IsMeta
      <3>2. meta.id = EventId(b.height, "TxsResults", k, 1) /\ meta.time = c.time
        BY <3>1 DEF TxEventAt
      <3>3. TxId(b, k, 1) = AsBigint(EventId(b.height, "TxsResults", k, 1))
        BY DEF TxId
      <3> HIDE DEF meta, b
      <3> QED
        BY <3>2, <3>3
    <2> HIDE DEF meta, l
    <2>7. Written(c, a.r, TxId(b, k, 1))
      <3>1. TxId(b, k, 0) \in Nat /\ TxId(b, k, 1) \in Nat /\ TxId(b, k, 0) <= TxId(b, k, 1)
        BY <2>4, <2>5
      <3> HIDE DEF b
      <3> QED
        BY <2>1, <3>1, RoomFor DEF Written
    <2>8. Written(c, sent, TxId(b, k, 1))
      <3>1. TxId(b, k, 1) \in Nat /\ HeightFromEventId(TxId(b, k, 1)) = c.h
        BY <2>4, <2>5
      <3> HIDE DEF tx
      <3> QED
        BY <2>3, <2>5, <2>6, <2>7, <3>1, processTxWritten
    <2> HIDE DEF sent
    <2>9. Written(c, s, TxId(b, k, l + 1))
      BY <2>8, RecordTxEventsWritten DEF l
    <2> HIDE DEF s
    <2>10. Written(c, s, TxId(b, k + 1, 0))
      <3>1. TxId(b, k, l + 1) \in Nat /\ TxId(b, k + 1, 0) \in Nat /\ TxId(b, k, l + 1) <= TxId(b, k + 1, 0)
        BY <2>4, <2>5
      <3> HIDE DEF b
      <3> QED
        BY <2>9, <3>1, RoomFor DEF Written
    <2>11. HasAt(8, c, k, [r |-> s, tx |-> k + 1])
      BY <2>10 DEF HasAt
    <2> QED
      BY <2>2, <2>11
  <1>3. HasAt(8, c, 0, base)
    <2>1. 0 + 1 = 1
      OBVIOUS
    <2> QED
      BY <2>1 DEF HasAt
  <1> HIDE DEF n, base
  <1>4. PICK t : Steps(8, d, t, base, b.txs, n) /\ t[n] = RecordTxs(r, id, b, m)
    BY <1>1, RecordTxsSteps DEF base
  <1> HIDE DEF d
  <1>5. HasAt(8, c, n, t[n])
    BY <1>1, <1>2, <1>3, <1>4, FoldHas
  <1> QED
    BY <1>4, <1>5 DEF HasAt, n

\* The corrections all have the id that is left.
LEMMA AddMissingEventsWritten ==
    ASSUME NEW c, c.left \in Nat, HeightFromEventId(c.left) = c.h, NEW m, AsBigint(m.id) = c.left, m.time = c.time, NEW id,
           NEW r, Written(c, r, c.left)
    PROVE  Written(c, AddMissingEvents(r, id, m), c.left)
  <1> DEFINE seq == AdditionalEvents(id)
             n == Len(seq)
             d == <<id, m>>
  <1>1. n \in Nat /\ DOMAIN seq = 1..n /\ \A i \in 1..n : seq[i].handler \in CorrectionHandlers
    BY CorrectionsAre DEF IsList
  <1>2. \A i, a : HasAt(7, c, i, a) <=> Written(c, a, c.left)
    BY DEF HasAt
  <1>3. ASSUME NEW e, e.handler \in CorrectionHandlers, NEW a, Written(c, a, c.left)
        PROVE  Written(c, Step(7, d, a, e), c.left)
    <2>1. Step(7, d, a, e) = AddMissingEvent(a, id, m, e)
      BY DEF Step
    <2>2. Quiet(m, a, AddMissingEvent(a, id, m, e))
      BY <1>3, AddMissingEventQuiet DEF Written
    <2> QED
      BY <1>3, <2>1, <2>2, QuietWritten
  <1> HIDE DEF n, seq
  <1>4. PICK t : Steps(7, d, t, r, seq, n) /\ t[n] = AddMissingEvents(r, id, m)
    BY <1>1, AddMissingEventsSteps DEF seq
  <1> HIDE DEF d
  <1>5. HasAt(7, c, n, t[n])
    BY <1>1, <1>2, <1>3, <1>4, FoldHas
  <1> QED
    BY <1>2, <1>4, <1>5

\* A block: all of its rows are in order, with ids up to the one that is left, and they tell the
\* chain info it leaves, if none of them was refused.
LEMMA RecordBlockWritten ==
    ASSUME NEW c, IsContext(c), NEW r, HasRows(r), r.rows = <<>>, c.status = r.status, c.mimir = r.mimir,
           c.told => /\ r.status = [key \in DOMAIN r.status |-> r.status[key]]
                     /\ r.mimir = [key \in DOMAIN r.mimir |-> r.mimir[key]],
           NEW id, NEW block, applyBlockCorrections(id, block) = c.b
    PROVE  Written(c, RecordBlock(r, id, block), c.left) /\ c.left \in Nat
  <1> DEFINE b == c.b
             n == Len(b.finalize)
             k == Len(b.txs)
             m == Metadata(b.height, b.time, EventId(b.height, "BeginBlockEvents", 0, 1))
             Begin == RecordFinalize(r, id, b, "BeginBlockEvents", BeginModes, m)
             Between == RecordTxs(Begin.r, id, b, m).r
             End == RecordFinalize(Between, id, b, "EndBlockEvents", {"EndBlock"}, m)
             meta == [m EXCEPT !.id = EventId(b.height, "EndBlockEvents", 0, End.index)]
             left == NumberAt(b, "EndBlockEvents", n + 1)
  <1>1. IsMeta(c, m)
    BY DEF IsMeta, Metadata, IsContext
  <1>2. RecordBlock(r, id, block) = AddMissingEvents(End.r, id, meta)
    BY DEF RecordBlock, RecordEnd
  <1>3. /\ n \in Nat /\ k \in Nat /\ b.height \in Nat /\ n + 1 < TypeDigit /\ (k + 1) * TxIndexScale <= 8 * TypeDigit
        /\ c.h = b.height /\ c.left = EndId(b, left) /\ DOMAIN b.finalize = 1..n
    BY ListsAre DEF IsContext
  <1>4. left \in 0..(n + 1) /\ left >= 1
    <2>1. left = 1 + TakenBefore(b, n + 1) /\ TakenBefore(b, n + 1) \in 0..n
      <3>1. n + 1 \in 1..(n + 1) /\ (n + 1) - 1 = n
        BY <1>3
      <3> HIDE DEF n, b
      <3> QED
        BY <1>3, <3>1, TakenIs DEF NumberAt
    <2> DEFINE y == TakenBefore(b, n + 1)
    <2> HIDE DEF left, y
    <2> QED
      BY <2>1, <1>3 DEF y
  <1>5. /\ \A i \in 0..(n + 1) :
              /\ BeginId(b, i) \in Nat /\ HeightFromEventId(BeginId(b, i)) = b.height
              /\ EndId(b, i) \in Nat /\ HeightFromEventId(EndId(b, i)) = b.height
              /\ BeginId(b, i) <= TxId(b, 1, 0)
        /\ \A t \in 1..(k + 1) : TxId(b, t, 0) \in Nat
        /\ TxId(b, k + 1, 0) <= EndId(b, 1)
    <2> HIDE DEF b, n, k
    <2> QED
      BY <1>3, IdsGrow
  <1>6. c.left \in Nat /\ HeightFromEventId(c.left) = c.h
    <2> HIDE DEF left
    <2> QED
      BY <1>3, <1>4, <1>5
  <1>7. NumberAt(b, "BeginBlockEvents", 1) = 1 /\ NumberAt(b, "EndBlockEvents", 1) = 1
    <2>1. TakenBefore(b, 1) = 0
      BY <1>3, TakenIs
    <2> QED
      BY <2>1 DEF NumberAt
  <1>8. Written(c, r, BeginId(b, 1))
    <2>1. IsSeq(r.rows) /\ Len(r.rows) = 0
      BY EmptyIs
    <2>2. 1..Len(r.rows) = {} /\ (0 + 1)..Len(r.rows) = {}
      BY <2>1
    <2>3. c.told => /\ Tells(PoolTable, c.status, r.rows, 0, Len(r.rows), r.status)
                    /\ Tells(MimirTable, c.mimir, r.rows, 0, Len(r.rows), r.mimir)
      BY <2>2, TellsNothing
    <2> QED
      BY <2>1, <2>2, <2>3 DEF Written, InBlock, MimirsOf, Told
  <1> HIDE DEF m
  <1>9. Begin.index = n + 1 /\ Written(c, Begin.r, BeginId(b, n + 1))
    <2>1. IsPass("BeginBlockEvents", BeginModes)
      BY DEF IsPass
    <2>2. NumberAt(b, "BeginBlockEvents", n + 1) = n + 1
      BY DEF NumberAt
    <2> QED
      BY <1>1, <1>7, <1>8, <2>1, <2>2, RecordFinalizeWritten DEF BeginId
  <1> HIDE DEF Begin
  <1>10. Written(c, Begin.r, TxId(b, 1, 0))
    <2>1. n + 1 \in 0..(n + 1) /\ 1 \in 1..(k + 1)
      BY <1>3
    <2>2. BeginId(b, n + 1) \in Nat /\ TxId(b, 1, 0) \in Nat /\ BeginId(b, n + 1) <= TxId(b, 1, 0)
      BY <1>5, <2>1
    <2> HIDE DEF b, n, k
    <2> QED
      BY <1>9, <2>2, RoomFor DEF Written
  <1>11. Written(c, Between, TxId(b, k + 1, 0))
    BY <1>1, <1>10, RecordTxsWritten
  <1> HIDE DEF Between
  <1>12. Written(c, Between, EndId(b, 1))
    <2>1. k + 1 \in 1..(k + 1) /\ 1 \in 0..(n + 1)
      BY <1>3
    <2>2. TxId(b, k + 1, 0) \in Nat /\ EndId(b, 1) \in Nat /\ TxId(b, k + 1, 0) <= EndId(b, 1)
      BY <1>5, <2>1
    <2> HIDE DEF b, n, k
    <2> QED
      BY <1>11, <2>2, RoomFor DEF Written
  <1>13. End.index = left /\ Written(c, End.r, c.left)
    <2>1. IsPass("EndBlockEvents", {"EndBlock"})
      BY DEF IsPass
    <2>2. /\ End.index = left
          /\ Written(c, End.r, OutsideId(b, "EndBlockEvents", End.index))
      BY <1>1, <1>7, <1>12, <2>1, RecordFinalizeWritten DEF EndId
    <2> HIDE DEF left, End
    <2> QED
      BY <1>3, <2>2 DEF EndId
  <1>14. AsBigint(meta.id) = c.left /\ meta.time = c.time
    <2>1. \A x : [m EXCEPT !.id = x].id = x /\ [m EXCEPT !.id = x].time = c.time
      BY <1>1 DEF IsMeta
    <2>2. meta.id = EventId(b.height, "EndBlockEvents", 0, left) /\ meta.time = c.time
      BY <1>13, <2>1
    <2>3. c.left = AsBigint(EventId(b.height, "EndBlockEvents", 0, left))
      BY <1>3 DEF EndId, OutsideId
    <2> HIDE DEF meta, left, b
    <2> QED
      BY <2>2, <2>3
  <1> HIDE DEF End, meta
  <1> QED
    BY <1>2, <1>6, <1>13, <1>14, AddMissingEventsWritten

-----------------------------------------------------------------------------
(* The rows of a genesis file.                                             *)

\* What is not among the rows does not matter.
LEMMA FileKept ==
    ASSUME NEW g, NEW s, NEW l, FromFile(g, s, l), NEW t, {"r", "m"} \subseteq DOMAIN t,
           IsRecorder(t.r), t.r.rows = s.r.rows, t.r.refused = s.r.refused, t.r.status = s.r.status, t.r.mimir = s.r.mimir,
           {"height", "time", "id"} \subseteq DOMAIN t.m, t.m.time = s.m.time
    PROVE  FromFile(g, t, l)
  BY DEF FromFile, HasRows

\* The number moves on.
LEMMA FileBump == ASSUME NEW g, NEW s, NEW l, FromFile(g, s, l) PROVE FromFile(g, Bump(s), l) /\ Bump(s).r = s.r
  <1> DEFINE t == Bump(s)
  <1>1. t.r = s.r /\ {"r", "m"} \subseteq DOMAIN t
    BY DEF Bump, FromFile
  <1>2. t.m.time = s.m.time /\ {"height", "time", "id"} \subseteq DOMAIN t.m
    <2>1. t.m = [s.m EXCEPT !.id.index = @ + 1]
      BY DEF Bump, FromFile
    <2> HIDE DEF t
    <2> QED
      BY <2>1 DEF FromFile
  <1> HIDE DEF t
  <1>3. FromFile(g, t, l)
    BY <1>1, <1>2, FileKept DEF FromFile, HasRows
  <1> QED
    BY <1>1, <1>3 DEF t

\* No row of a file is refused.
LEMMA InsertTaken ==
    ASSUME NEW r, HasRows(r), r.refused = {}, NEW table, NEW m, NEW data
    PROVE  LET u == InsertWithMeta(r, table, m, data)
           IN  /\ IsRecorder(u) /\ u.status = r.status /\ u.mimir = r.mimir /\ u.refused = {}
               /\ u.rows = Append(r.rows, RowOf(table, m, data))
  <1> DEFINE u == InsertWithMeta(r, table, m, data)
  <1>1. Accepts(r)
    BY DEF Accepts
  <1>0. IsRecorder(r)
    BY DEF HasRows
  <1>2. /\ IsRecorder(u) /\ u.status = r.status /\ u.mimir = r.mimir
        /\ u.rows = IF Accepts(r) THEN Append(r.rows, RowOf(table, m, data)) ELSE r.rows
    BY <1>0, InsertIs
  <1>3. u.refused = {}
    BY <1>0 DEF InsertWithMeta, IsRecorder
  <1> QED
    BY <1>0, <1>1, <1>2, <1>3

\* A row that is not of a mimir.
LEMMA FileMimirs ==
    ASSUME NEW g, NEW rs, NEW us, NEW n \in Nat, Len(rs) = n, Len(us) = n + 1, \A i \in 1..n : us[i] = rs[i],
           us[n + 1].table # MimirTable, NEW l, MimirsOfFile(g, rs, l)
    PROVE  MimirsOfFile(g, us, l)
  <1> DEFINE F == {g.mimirs[e].key : e \in 1..l}
             Apiece == \A e, f \in DOMAIN g.mimirs : e = f \/ g.mimirs[e].key # g.mimirs[f].key
             Kept(ss) == \A i \in 1..Len(ss) : ss[i].table = MimirTable =>
                            /\ ss[i].data[1] \in F
                            /\ Apiece => \A j \in 1..(i - 1) : ss[j].table = MimirTable => ss[j].data[1] # ss[i].data[1]
  <1>1. \A ss : MimirsOfFile(g, ss, l) <=> Kept(ss)
    BY Zenon DEF MimirsOfFile
  <1> HIDE DEF F, Apiece
  <1>2. \A i \in 1..n : \A j \in 1..(i - 1) : j \in 1..n
    OBVIOUS
  <1>3. ASSUME NEW i \in 1..(n + 1), us[i].table = MimirTable
        PROVE  /\ us[i].data[1] \in F
               /\ Apiece => \A j \in 1..(i - 1) : us[j].table = MimirTable => us[j].data[1] # us[i].data[1]
    <2>1. i \in 1..n
      BY <1>3
    <2>2. us[i] = rs[i] /\ \A j \in 1..(i - 1) : us[j] = rs[j]
      BY <1>2, <2>1
    <2>3. /\ rs[i].data[1] \in F
          /\ Apiece => \A j \in 1..(i - 1) : rs[j].table = MimirTable => rs[j].data[1] # rs[i].data[1]
      BY <1>1, <1>3, <2>1, <2>2
    <2> QED
      BY <2>2, <2>3
  <1> QED
    BY <1>1, <1>3

\* A row of another table.
LEMMA FileRow ==
    ASSUME NEW g, NEW s, NEW l, FromFile(g, s, l), NEW table, table \notin InfoTables, NEW data
    PROVE  FromFile(g, Insert(s, table, data), l)
  <1> DEFINE t == Insert(s, table, data)
             r == s.r
             u == InsertWithMeta(r, table, s.m, data)
             row == RowOf(table, s.m, data)
  <1>0. HasRows(r) /\ r.refused = {}
    BY DEF FromFile
  <1>1. t.r = u /\ t.m = s.m /\ {"r", "m"} \subseteq DOMAIN t
    BY DEF Insert, FromFile
  <1>2. IsRecorder(u) /\ u.status = r.status /\ u.mimir = r.mimir /\ u.rows = Append(r.rows, row)
    BY <1>0, InsertTaken
  <1>3. u.refused = {}
    BY <1>0, InsertTaken
  <1>4. row.time = g.time /\ row.table \notin InfoTables
    BY DEF RowOf, FromFile
  <1> HIDE DEF t, u, row, r
  <1>5. PICK n \in Nat : n = Len(r.rows)
    BY <1>0, AppendIs DEF HasRows
  <1>6. IsSeq(u.rows) /\ Len(u.rows) = n + 1 /\ u.rows[n + 1] = row /\ \A i \in 1..n : u.rows[i] = r.rows[i]
    BY <1>0, <1>2, <1>5, AppendIs DEF HasRows
  <1>7. \A i \in 1..(n + 1) : (i \in 1..n /\ \A j \in 1..(i - 1) : j \in 1..n) \/ i = n + 1
    OBVIOUS
  <1>8. \A i \in 1..Len(u.rows) : u.rows[i].time = g.time
    BY <1>4, <1>5, <1>6, <1>7 DEF FromFile, r
  <1>9. PoolsInOrder(g, u.rows) /\ MimirsOfFile(g, u.rows, l)
    <2>1. row.table # PoolTable /\ row.table # MimirTable
      BY <1>4 DEF InfoTables
    <2>2. PoolsInOrder(g, r.rows) /\ MimirsOfFile(g, r.rows, l)
      BY DEF FromFile, r
    <2>3. PoolsInOrder(g, u.rows)
      BY <1>5, <1>6, <1>7, <2>1, <2>2 DEF PoolsInOrder
    <2>4. MimirsOfFile(g, u.rows, l)
      BY <1>5, <1>6, <2>1, <2>2, FileMimirs
    <2> QED
      BY <2>3, <2>4
  <1>10. ASSUME NEW info \in InfoTables, NEW f, Tells(info, <<>>, r.rows, 0, n, f) PROVE Tells(info, <<>>, u.rows, 0, n + 1, f)
    <2>1. \A i \in (n + 1)..(n + 1) : u.rows[i].table # info
      BY <1>4, <1>6
    <2>2. n + 1 \in Nat /\ n <= n + 1
      OBVIOUS
    <2> QED
      BY <1>6, <1>10, <2>1, <2>2, TellsStill
  <1>11. /\ Tells(PoolTable, <<>>, u.rows, 0, Len(u.rows), u.status)
         /\ Tells(MimirTable, <<>>, u.rows, 0, Len(u.rows), u.mimir)
    BY <1>2, <1>5, <1>6, <1>10 DEF FromFile, r, InfoTables
  <1>12. {"height", "time", "id"} \subseteq DOMAIN s.m /\ s.m.time = g.time
    BY DEF FromFile
  <1>13. HasRows(u)
    BY <1>2, <1>6 DEF HasRows
  <1> QED
    BY <1>1, <1>3, <1>8, <1>9, <1>11, <1>12, <1>13 DEF FromFile, t

\* A recorder in place of another, under the same metadata.
Over(s, u, t) == {"r", "m"} \subseteq DOMAIN t /\ t.r = u /\ t.m = s.m

\* A row of chain info.
LEMMA FileInforms ==
    ASSUME NEW g, NEW s, NEW l \in Nat, FromFile(g, s, l), NEW table \in InfoTables, NEW data, NEW u,
           Informs(s.m, table, data, TRUE, s.r, u), u.refused = {}, NEW l2 \in Nat, DOMAIN g.mimirs = 1..Len(g.mimirs),
           table = PoolTable =>
              /\ l2 = l
              /\ AsBigint(s.m.id) \in Nat /\ HeightFromEventId(AsBigint(s.m.id)) = g.height - 1
              /\ PoolsBelow(s.r.rows, AsBigint(s.m.id)),
           table = MimirTable => l2 = l + 1 /\ l2 \in DOMAIN g.mimirs /\ data[1] = g.mimirs[l2].key,
           NEW t, Over(s, u, t)
    PROVE  FromFile(g, t, l2)
  <1> DEFINE r == s.r
             row == RowOf(table, s.m, data)
  <1>0. HasRows(r) /\ HasRows(u)
    BY DEF FromFile, Informs
  <1>2. u.rows = Append(r.rows, row)
    BY DEF Informs
  <1>4. row.time = g.time /\ row.table = table /\ row.data = data /\ row.id = AsBigint(s.m.id)
    BY DEF RowOf, FromFile
  <1>11. /\ Tells(PoolTable, <<>>, u.rows, 0, Len(u.rows), u.status)
         /\ Tells(MimirTable, <<>>, u.rows, 0, Len(u.rows), u.mimir)
    BY <1>0, InformsTold DEF FromFile
  <1>3. PoolsInOrder(g, r.rows) /\ MimirsOfFile(g, r.rows, l) /\ \A i \in 1..Len(r.rows) : r.rows[i].time = g.time
    BY DEF FromFile
  <1> HIDE DEF row, r
  <1>5. PICK n \in Nat : n = Len(r.rows)
    BY <1>0, AppendIs DEF HasRows
  <1>6. IsSeq(u.rows) /\ Len(u.rows) = n + 1 /\ u.rows[n + 1] = row /\ \A i \in 1..n : u.rows[i] = r.rows[i]
    BY <1>0, <1>2, <1>5, AppendIs DEF HasRows
  <1>7. \A i \in 1..(n + 1) : (i \in 1..n /\ \A j \in 1..(i - 1) : j \in 1..n) \/ (i = n + 1 /\ \A j \in 1..(i - 1) : j \in 1..n)
    OBVIOUS
  <1>8. \A i \in 1..Len(u.rows) : u.rows[i].time = g.time
    BY <1>3, <1>4, <1>5, <1>6, <1>7
  <1>9. PoolTable # MimirTable /\ table \in {PoolTable, MimirTable}
    BY DEF PoolTable, MimirTable, InfoTables
  <1>10. CASE table = PoolTable
    <2>1. \A i \in 1..n : r.rows[i].table = PoolTable => r.rows[i].id < row.id
      BY <1>4, <1>5, <1>10 DEF PoolsBelow, r
    <2>2. row.id \in Nat /\ HeightFromEventId(row.id) = g.height - 1 /\ row.table # MimirTable /\ l2 = l
      BY <1>4, <1>9, <1>10
    <2>3. PoolsInOrder(g, u.rows)
      BY <1>3, <1>5, <1>6, <1>7, <2>1, <2>2 DEF PoolsInOrder
    <2>4. MimirsOfFile(g, u.rows, l2)
      BY <1>3, <1>5, <1>6, <2>2, FileMimirs
    <2> QED
      BY <1>0, <1>8, <1>11, <2>3, <2>4 DEF FromFile, Over
  <1>12. CASE table = MimirTable
    <2>1. row.table # PoolTable /\ l2 = l + 1 /\ l2 \in DOMAIN g.mimirs /\ row.data[1] = g.mimirs[l2].key
      BY <1>4, <1>9, <1>12
    <2>2. PoolsInOrder(g, u.rows)
      BY <1>3, <1>5, <1>6, <1>7, <2>1 DEF PoolsInOrder
    <2>3. ASSUME NEW i \in 1..n, r.rows[i].table = MimirTable
          PROVE  \E e \in 1..l : r.rows[i].data[1] = g.mimirs[e].key
      BY <1>3, <1>5, <2>3 DEF MimirsOfFile
    <2>4. \A e \in 1..l : e \in DOMAIN g.mimirs /\ e # l2 /\ e \in 1..l2
      BY <2>1
    <2>5. ASSUME \A e, f \in DOMAIN g.mimirs : e = f \/ g.mimirs[e].key # g.mimirs[f].key,
                 NEW i \in 1..n, r.rows[i].table = MimirTable
          PROVE  r.rows[i].data[1] # row.data[1]
      BY <2>1, <2>3, <2>4, <2>5
    <2>6. l2 \in 1..l2
      BY <2>1
    <2>7. ASSUME NEW i \in 1..(n + 1), u.rows[i].table = MimirTable
          PROVE  /\ \E e \in 1..l2 : u.rows[i].data[1] = g.mimirs[e].key
                 /\ (\A e, f \in DOMAIN g.mimirs : e = f \/ g.mimirs[e].key # g.mimirs[f].key) =>
                       \A j \in 1..(i - 1) : u.rows[j].table = MimirTable => u.rows[j].data[1] # u.rows[i].data[1]
      <3>1. CASE i \in 1..n
        <4>1. \A j \in 1..(i - 1) : j \in 1..n
          BY <3>1
        <4>2. \E e \in 1..l2 : u.rows[i].data[1] = g.mimirs[e].key
          BY <1>6, <2>3, <2>4, <2>7, <3>1, SMTT(60)
        <4>3. (\A e, f \in DOMAIN g.mimirs : e = f \/ g.mimirs[e].key # g.mimirs[f].key) =>
                 \A j \in 1..(i - 1) : r.rows[j].table = MimirTable => r.rows[j].data[1] # r.rows[i].data[1]
          BY <1>3, <1>5, <1>6, <2>7, <3>1 DEF MimirsOfFile
        <4> QED
          BY <1>6, <3>1, <4>1, <4>2, <4>3
      <3>2. CASE i = n + 1
        <4>1. \A j \in 1..(i - 1) : j \in 1..n
          BY <3>2
        <4> QED
          BY <1>6, <2>1, <2>5, <2>6, <3>2, <4>1
      <3> QED
        BY <3>1, <3>2
    <2>8. MimirsOfFile(g, u.rows, l2)
      BY <1>6, <2>7 DEF MimirsOfFile
    <2> QED
      BY <1>0, <1>8, <1>11, <2>2, <2>8 DEF FromFile, Over
  <1> QED
    BY <1>9, <1>10, <1>12

\* Rows of tables that are not chain info, the numbers and the totals leave a file's rows as they are.
LEMMA FileEntries ==
    ASSUME NEW g, NEW a, FromFile(g, a, 0), NEW e
    PROVE  /\ FromFile(g, GenSupply(a, e), 0) /\ FromFile(g, GenTransfer(a), 0) /\ FromFile(g, GenLP(a, e), 0)
           /\ FromFile(g, GenTHORName(a), 0) /\ FromFile(g, GenNode(a), 0) /\ FromFile(g, GenLoan(a, e), 0)
  <1>1. FromFile(g, GenSupply(a, e), 0)
    <2> DEFINE u == AddPoolSynthE8Depth(a.r, ConvertSynthPoolToNative(e.asset), e.e8)
               t == [a EXCEPT !.r = u]
    <2>1. IsRecorder(a.r) /\ {"r", "m"} \subseteq DOMAIN a /\ {"height", "time", "id"} \subseteq DOMAIN a.m
      BY DEF FromFile, HasRows
    <2>2. IsRecorder(u) /\ u.rows = a.r.rows /\ u.refused = a.r.refused /\ u.status = a.r.status /\ u.mimir = a.r.mimir
      BY <2>1 DEF AddPoolSynthE8Depth, IsRecorder
    <2>3. GenSupply(a, e) = t
      BY DEF GenSupply
    <2> HIDE DEF u
    <2>4. t.r = u /\ t.m = a.m /\ {"r", "m"} \subseteq DOMAIN t
      BY <2>1
    <2> HIDE DEF t
    <2>5. FromFile(g, t, 0)
      BY <2>1, <2>2, <2>4, FileKept
    <2> QED
      BY <2>3, <2>5
  <1>2. \A table : table \notin InfoTables => \A data : \A s : FromFile(g, s, 0) => FromFile(g, Insert(s, table, data), 0)
    BY FileRow
  <1>3. \A s : FromFile(g, s, 0) => FromFile(g, Bump(s), 0)
    BY FileBump
  <1>4. \A data : \A s : FromFile(g, s, 0) =>
           /\ FromFile(g, Insert(s, "transfer_events", data), 0)
           /\ FromFile(g, Insert(s, "pending_liquidity_events", data), 0)
           /\ FromFile(g, Insert(s, "stake_events", data), 0)
           /\ FromFile(g, Insert(s, "thorname_change_events", data), 0)
           /\ FromFile(g, Insert(s, "update_node_account_status_events", data), 0)
           /\ FromFile(g, Insert(s, "bond_events", data), 0)
           /\ FromFile(g, Insert(s, "loan_open_events", data), 0)
           /\ FromFile(g, Insert(s, "loan_repayment_events", data), 0)
    <2>1. InfoTables \cap {"transfer_events", "pending_liquidity_events", "stake_events", "thorname_change_events",
                           "update_node_account_status_events", "bond_events", "loan_open_events",
                           "loan_repayment_events"} = {}
      BY DEF InfoTables, PoolTable, MimirTable
    <2> QED
      BY <1>2, <2>1
  <1>5. FromFile(g, GenTransfer(a), 0)
    BY <1>3, <1>4 DEF GenTransfer
  <1>6. FromFile(g, GenLP(a, e), 0)
    BY <1>3, <1>4 DEF GenLP
  <1>7. FromFile(g, GenTHORName(a), 0)
    BY <1>3, <1>4 DEF GenTHORName
  <1>8. FromFile(g, GenNode(a), 0)
    BY <1>3, <1>4 DEF GenNode
  <1>9. FromFile(g, GenLoan(a, e), 0)
    <2> DEFINE at == [a EXCEPT !.m.height = e.height, !.m.id = EventId(e.height, "BeginBlockEvents", 0, 0)]
    <2>1. FromFile(g, at, 0)
      <3>1. /\ IsRecorder(a.r) /\ {"r", "m"} \subseteq DOMAIN a /\ {"height", "time", "id"} \subseteq DOMAIN a.m
        BY DEF FromFile, HasRows
      <3>2. at.r = a.r /\ {"r", "m"} \subseteq DOMAIN at
        BY <3>1
      <3>3. at.m.time = a.m.time /\ {"height", "time", "id"} \subseteq DOMAIN at.m
        BY <3>1
      <3> HIDE DEF at
      <3> QED
        BY <3>1, <3>2, <3>3, FileKept
    <2> HIDE DEF at
    <2>2. FromFile(g, Insert(at, "loan_open_events", <<>>), 0)
      BY <1>4, <2>1
    <2> QED
      BY <1>3, <1>4, <2>2 DEF GenLoan, at
  <1> QED
    BY <1>1, <1>5, <1>6, <1>7, <1>8, <1>9

\* The supplies of synths of a file.
LEMMA SuppliesFromFile ==
    ASSUME NEW g, NEW s, FromFile(g, s, 0), NEW list, IsList(list) PROVE FromFile(g, recordGenSupplies(s, list), 0)
  <1> DEFINE n == Len(list)
             d == <<>>
  <1>1. n \in Nat /\ DOMAIN list = 1..n
    BY DEF IsList
  <1>2. \A i, a : HasAt(10, g, i, a) <=> FromFile(g, a, 0)
    BY DEF HasAt
  <1>3. \A a, e : FromFile(g, a, 0) => FromFile(g, Step(10, d, a, e), 0)
    BY FileEntries DEF Step
  <1> HIDE DEF n
  <1>4. PICK t : Steps(10, d, t, s, list, n) /\ t[n] = recordGenSupplies(s, list)
    BY <1>1, GenSuppliesSteps
  <1> HIDE DEF d
  <1>5. HasAt(10, g, n, t[n])
    BY <1>1, <1>2, <1>3, <1>4, FoldHas
  <1> QED
    BY <1>2, <1>4, <1>5

\* The balances of a file.
LEMMA TransfersFromFile ==
    ASSUME NEW g, NEW s, FromFile(g, s, 0), NEW list, IsList(list) PROVE FromFile(g, GenTransfers(s, list), 0)
  <1> DEFINE n == Len(list)
             d == <<>>
  <1>1. n \in Nat /\ DOMAIN list = 1..n
    BY DEF IsList
  <1>2. \A i, a : HasAt(11, g, i, a) <=> FromFile(g, a, 0)
    BY DEF HasAt
  <1>3. \A a, e : FromFile(g, a, 0) => FromFile(g, Step(11, d, a, e), 0)
    BY FileEntries DEF Step
  <1> HIDE DEF n
  <1>4. PICK t : Steps(11, d, t, s, list, n) /\ t[n] = GenTransfers(s, list)
    BY <1>1, GenTransfersSteps
  <1> HIDE DEF d
  <1>5. HasAt(11, g, n, t[n])
    BY <1>1, <1>2, <1>3, <1>4, FoldHas
  <1> QED
    BY <1>2, <1>4, <1>5

\* The members of a file.
LEMMA LPsFromFile ==
    ASSUME NEW g, NEW s, FromFile(g, s, 0), NEW list, IsList(list) PROVE FromFile(g, recordGenLPs(s, list), 0)
  <1> DEFINE n == Len(list)
             d == <<>>
  <1>1. n \in Nat /\ DOMAIN list = 1..n
    BY DEF IsList
  <1>2. \A i, a : HasAt(12, g, i, a) <=> FromFile(g, a, 0)
    BY DEF HasAt
  <1>3. \A a, e : FromFile(g, a, 0) => FromFile(g, Step(12, d, a, e), 0)
    BY FileEntries DEF Step
  <1> HIDE DEF n
  <1>4. PICK t : Steps(12, d, t, s, list, n) /\ t[n] = recordGenLPs(s, list)
    BY <1>1, GenLPsSteps
  <1> HIDE DEF d
  <1>5. HasAt(12, g, n, t[n])
    BY <1>1, <1>2, <1>3, <1>4, FoldHas
  <1> QED
    BY <1>2, <1>4, <1>5

\* The names of a file.
LEMMA THORNamesFromFile ==
    ASSUME NEW g, NEW s, FromFile(g, s, 0), NEW list, IsList(list) PROVE FromFile(g, recordGenTHORNames(s, list), 0)
  <1> DEFINE n == Len(list)
             d == <<>>
  <1>1. n \in Nat /\ DOMAIN list = 1..n
    BY DEF IsList
  <1>2. \A i, a : HasAt(13, g, i, a) <=> FromFile(g, a, 0)
    BY DEF HasAt
  <1>3. \A a, e : FromFile(g, a, 0) => FromFile(g, Step(13, d, a, e), 0)
    BY FileEntries DEF Step
  <1> HIDE DEF n
  <1>4. PICK t : Steps(13, d, t, s, list, n) /\ t[n] = recordGenTHORNames(s, list)
    BY <1>1, GenTHORNamesSteps
  <1> HIDE DEF d
  <1>5. HasAt(13, g, n, t[n])
    BY <1>1, <1>2, <1>3, <1>4, FoldHas
  <1> QED
    BY <1>2, <1>4, <1>5

\* The nodes of a file.
LEMMA NodesFromFile ==
    ASSUME NEW g, NEW s, FromFile(g, s, 0), NEW list, IsList(list) PROVE FromFile(g, recordGenNodes(s, list), 0)
  <1> DEFINE n == Len(list)
             d == <<>>
  <1>1. n \in Nat /\ DOMAIN list = 1..n
    BY DEF IsList
  <1>2. \A i, a : HasAt(14, g, i, a) <=> FromFile(g, a, 0)
    BY DEF HasAt
  <1>3. \A a, e : FromFile(g, a, 0) => FromFile(g, Step(14, d, a, e), 0)
    BY FileEntries DEF Step
  <1> HIDE DEF n
  <1>4. PICK t : Steps(14, d, t, s, list, n) /\ t[n] = recordGenNodes(s, list)
    BY <1>1, GenNodesSteps
  <1> HIDE DEF d
  <1>5. HasAt(14, g, n, t[n])
    BY <1>1, <1>2, <1>3, <1>4, FoldHas
  <1> QED
    BY <1>2, <1>4, <1>5

\* The loans of a file.
LEMMA LoansFromFile ==
    ASSUME NEW g, NEW s, FromFile(g, s, 0), NEW list, IsList(list) PROVE FromFile(g, recordGenLoans(s, list), 0)
  <1> DEFINE n == Len(list)
             d == <<>>
  <1>1. n \in Nat /\ DOMAIN list = 1..n
    BY DEF IsList
  <1>2. \A i, a : HasAt(15, g, i, a) <=> FromFile(g, a, 0)
    BY DEF HasAt
  <1>3. \A a, e : FromFile(g, a, 0) => FromFile(g, Step(15, d, a, e), 0)
    BY FileEntries DEF Step
  <1> HIDE DEF n
  <1>4. PICK t : Steps(15, d, t, s, list, n) /\ t[n] = recordGenLoans(s, list)
    BY <1>1, GenLoansSteps
  <1> HIDE DEF d
  <1>5. HasAt(15, g, n, t[n])
    BY <1>1, <1>2, <1>3, <1>4, FoldHas
  <1> QED
    BY <1>2, <1>4, <1>5

\* The pools of a file: the id of each is one more than that of the one before.
LEMMA PoolsFromFile ==
    ASSUME NEW g, g.height \in Nat \ {0}, NEW s, FromFile(g, s, 0), s.m.id = FileId(g, 1), PoolsBelow(s.r.rows, AsBigint(s.m.id)),
           NEW list, IsList(list), Len(list) + 1 < TypeDigit, DOMAIN g.mimirs = 1..Len(g.mimirs)
    PROVE  FromFile(g, recordGenPools(s, list), 0)
  <1> DEFINE n == Len(list)
             d == <<>>
             Id(i) == AsBigint(FileId(g, i))
  <1>1. n \in Nat /\ DOMAIN list = 1..n
    BY DEF IsList
  <1>2. \A i \in 0..(n + 1) : /\ Id(i) \in Nat /\ HeightFromEventId(Id(i)) = g.height - 1
                              /\ \A j \in 0..(n + 1) : i < j => Id(i) < Id(j)
    <2> DEFINE b == [height |-> g.height - 1]
    <2>1. b.height \in Nat /\ b.height = g.height - 1
      OBVIOUS
    <2>2. \A i : Id(i) = BeginId(b, i)
      BY <2>1 DEF BeginId, OutsideId, FileId
    <2>3. 0 \in Nat /\ (0 + 1) * TxIndexScale <= 8 * TypeDigit
      BY EventIdsAssumption
    <2> HIDE DEF b
    <2>4. /\ \A i \in 0..(n + 1) : BeginId(b, i) \in Nat /\ HeightFromEventId(BeginId(b, i)) = b.height
          /\ \A i, j \in 0..(n + 1) : i < j => BeginId(b, i) < BeginId(b, j)
      BY <1>1, <2>1, <2>3, IdsGrow
    <2> HIDE DEF Id
    <2> QED
      BY <2>1, <2>2, <2>4
  <1>3. ASSUME NEW i \in 1..n, NEW a, HasAt(9, g, i - 1, a)
        PROVE  HasAt(9, g, i, Step(9, d, a, list[i]))
    <2> DEFINE e == list[i]
               data == <<e.asset, e.status>>
               z == Insert(a, "pool_balance_change_events", <<e.asset, e.rune, TRUE, e.amount, TRUE>>)
               v == InsertWithMeta(z.r, "pool_events", z.m, data)
               w == SetPoolStatus(v, e.asset, e.status)
               u == AddPoolRuneE8Depth(AddPoolAssetE8Depth(w, e.asset, e.amount), e.asset, e.rune)
               t == [z EXCEPT !.r = u]
    <2>1. FromFile(g, a, 0) /\ a.m.id = FileId(g, i) /\ PoolsBelow(a.r.rows, Id(i))
      <3>1. (i - 1) + 1 = i
        OBVIOUS
      <3> QED
        BY <1>3, <3>1 DEF HasAt
    <2>2. Step(9, d, a, e) = Bump(t)
      <3>1. Insert(z, "pool_events", data) = [z EXCEPT !.r = v]
        BY DEF Insert
      <3> DEFINE y == [z EXCEPT !.r = v]
      <3>2. {"r", "m"} \subseteq DOMAIN z
        BY <2>1 DEF Insert, FromFile
      <3> HIDE DEF z, v, data
      <3>3. y.r = v /\ [y EXCEPT !.r = u] = t
        BY <3>2
      <3>4. Step(9, d, a, e) = GenPool(a, e)
        BY DEF Step
      <3>5. GenPool(a, e) =
               Bump([Insert(z, "pool_events", data) EXCEPT
                        !.r = AddPoolRuneE8Depth(AddPoolAssetE8Depth(
                                 SetPoolStatus(Insert(z, "pool_events", data).r, e.asset, e.status), e.asset, e.amount), e.asset, e.rune)])
        BY DEF GenPool, z, data
      <3> QED
        BY <3>1, <3>3, <3>4, <3>5
    <2>3. FromFile(g, z, 0)
      <3>1. "pool_balance_change_events" \notin InfoTables
        BY DEF InfoTables, PoolTable, MimirTable
      <3> QED
        BY <2>1, <3>1, FileRow
    <2>4. z.m = a.m /\ z.r = InsertWithMeta(a.r, "pool_balance_change_events", a.m, <<e.asset, e.rune, TRUE, e.amount, TRUE>>)
      BY <2>1 DEF Insert, FromFile
    <2>5. PoolsBelow(z.r.rows, Id(i))
      <3> DEFINE row == RowOf("pool_balance_change_events", a.m, <<e.asset, e.rune, TRUE, e.amount, TRUE>>)
      <3>1. HasRows(a.r) /\ a.r.refused = {}
        BY <2>1 DEF FromFile
      <3>2. z.r.rows = Append(a.r.rows, row)
        <4> DEFINE entry == <<e.asset, e.rune, TRUE, e.amount, TRUE>>
                   table == "pool_balance_change_events"
        <4>1. z.r = InsertWithMeta(a.r, table, a.m, entry)
          BY <2>4
        <4> HIDE DEF entry, table, z
        <4>2. InsertWithMeta(a.r, table, a.m, entry).rows = Append(a.r.rows, RowOf(table, a.m, entry))
          BY <3>1, InsertTaken
        <4> QED
          BY <4>1, <4>2 DEF entry, table
      <3>3. row.table # PoolTable
        BY DEF RowOf, PoolTable
      <3> HIDE DEF row, z
      <3>4. PICK k \in Nat : k = Len(a.r.rows)
        BY <3>1, AppendIs DEF HasRows
      <3>5. Len(z.r.rows) = k + 1 /\ z.r.rows[k + 1] = row /\ \A j \in 1..k : z.r.rows[j] = a.r.rows[j]
        BY <3>1, <3>2, <3>4, AppendIs DEF HasRows
      <3>6. \A j \in 1..(k + 1) : j \in 1..k \/ j = k + 1
        OBVIOUS
      <3> QED
        BY <2>1, <3>3, <3>4, <3>5, <3>6 DEF PoolsBelow
    <2>6. HasRows(z.r) /\ z.r.refused = {} /\ {"r", "m"} \subseteq DOMAIN z
      BY <2>3 DEF FromFile
    <2> HIDE DEF z
    <2>7. /\ IsRecorder(v) /\ v.status = z.r.status /\ v.mimir = z.r.mimir /\ v.refused = {}
          /\ v.rows = Append(z.r.rows, RowOf("pool_events", z.m, data))
      BY <2>6, InsertTaken
    <2>8. PICK row : row = RowOf("pool_events", z.m, data)
      OBVIOUS
    <2> HIDE DEF v, data
    <2>9. /\ IsRecorder(w) /\ w.status = SetTo(v.status, e.asset, e.status) /\ w.mimir = v.mimir /\ w.refused = {}
          /\ w.rows = v.rows
      BY <2>7 DEF SetPoolStatus, IsRecorder
    <2> HIDE DEF w
    <2>10. /\ IsRecorder(u) /\ u.status = w.status /\ u.mimir = w.mimir /\ u.refused = {} /\ u.rows = w.rows
      <3> DEFINE x == AddPoolAssetE8Depth(w, e.asset, e.amount)
      <3>1. IsRecorder(x) /\ x.status = w.status /\ x.mimir = w.mimir /\ x.refused = {} /\ x.rows = w.rows
        BY <2>9 DEF AddPoolAssetE8Depth, IsRecorder
      <3> HIDE DEF x
      <3>2. IsRecorder(AddPoolRuneE8Depth(x, e.asset, e.rune))
            /\ AddPoolRuneE8Depth(x, e.asset, e.rune).status = x.status /\ AddPoolRuneE8Depth(x, e.asset, e.rune).mimir = x.mimir
            /\ AddPoolRuneE8Depth(x, e.asset, e.rune).refused = {} /\ AddPoolRuneE8Depth(x, e.asset, e.rune).rows = x.rows
        BY <3>1 DEF AddPoolRuneE8Depth, IsRecorder
      <3> QED
        BY <3>1, <3>2 DEF x
    <2> HIDE DEF u
    <2>11. IsSeq(u.rows)
      BY <2>6, <2>7, <2>9, <2>10, AppendIs DEF HasRows
    <2>12. Informs(z.m, PoolTable, data, TRUE, z.r, u)
      <3>1. data[1] = e.asset /\ Says(PoolTable, data) = e.status
        BY DEF Says, data
      <3>2. RowOf("pool_events", z.m, data) = RowOf(PoolTable, z.m, data) /\ PoolTable # MimirTable
        BY DEF PoolTable, MimirTable
      <3> HIDE DEF e
      <3> QED
        BY <2>7, <2>9, <2>10, <2>11, <3>1, <3>2 DEF Informs, HasRows
    <2>13. i \in 0..(n + 1) /\ i + 1 \in 0..(n + 1) /\ i < i + 1
      BY <1>1
    <2>14. z.m.id = FileId(g, i)
      BY <2>1, <2>4
    <2>15. FromFile(g, t, 0) /\ t.r = u /\ t.m = z.m
      <3>1. PoolTable \in InfoTables /\ PoolTable # MimirTable
        BY DEF InfoTables, PoolTable, MimirTable
      <3>2. AsBigint(z.m.id) \in Nat /\ HeightFromEventId(AsBigint(z.m.id)) = g.height - 1 /\ PoolsBelow(z.r.rows, AsBigint(z.m.id))
        <4>1. AsBigint(z.m.id) = Id(i)
          BY <2>14
        <4> HIDE DEF Id
        <4> QED
          BY <1>2, <2>5, <2>13, <4>1
      <3>3. 0 \in Nat
        OBVIOUS
      <3>4. {"r", "m"} \subseteq DOMAIN t /\ t.r = u /\ t.m = z.m
        BY <2>6
      <3> HIDE DEF t, e, Id
      <3>5. u.refused = {} /\ DOMAIN g.mimirs = 1..Len(g.mimirs)
        BY <2>10
      <3>6. PICK table : table = PoolTable
        OBVIOUS
      <3>7. Informs(z.m, table, data, TRUE, z.r, u) /\ table \in InfoTables /\ table # MimirTable
        BY <2>12, <3>1, <3>6
      <3>9. Over(z, u, t)
        BY <3>4 DEF Over
      <3>8. FromFile(g, t, 0)
        BY ONLY <3>9, <2>3, <3>2, <3>3, <3>4, <3>5, <3>7, FileInforms
      <3> QED
        BY <3>4, <3>8
    <2>16. Bump(t).m.id = FileId(g, i + 1)
      <3>1. Bump(t).m = [t.m EXCEPT !.id.index = @ + 1] /\ "id" \in DOMAIN t.m
        BY <2>15 DEF Bump, FromFile
      <3>2. t.m.id = FileId(g, i)
        BY <2>14, <2>15
      <3>3. Bump(t).m.id = [FileId(g, i) EXCEPT !.index = @ + 1]
        <4> HIDE DEF t
        <4> QED
          BY <3>1, <3>2
      <3>4. [FileId(g, i) EXCEPT !.index = @ + 1] = FileId(g, i + 1)
        BY DEF FileId, EventId
      <3> QED
        BY <3>3, <3>4
    <2>17. PoolsBelow(u.rows, Id(i + 1))
      <3>1. u.rows = Append(z.r.rows, row) /\ row.id = Id(i)
        <4>1. RowOf("pool_events", z.m, data).id = AsBigint(z.m.id)
          BY DEF RowOf
        <4> QED
          BY <2>7, <2>8, <2>9, <2>10, <2>14, <4>1
      <3>2. PICK k \in Nat : k = Len(z.r.rows)
        BY <2>6, AppendIs DEF HasRows
      <3>3. Len(u.rows) = k + 1 /\ u.rows[k + 1] = row /\ \A j \in 1..k : u.rows[j] = z.r.rows[j]
        BY <2>6, <3>1, <3>2, AppendIs DEF HasRows
      <3>4. Id(i) < Id(i + 1) /\ Id(i) \in Nat /\ Id(i + 1) \in Nat
        <4> HIDE DEF Id
        <4> QED
          BY <1>2, <2>13
      <3>5. PoolsInOrder(g, z.r.rows)
        BY <2>3 DEF FromFile
      <3> HIDE DEF Id
      <3>6. \A j \in 1..k : z.r.rows[j].table = PoolTable => z.r.rows[j].id \in Nat /\ z.r.rows[j].id < Id(i)
        BY <2>5, <3>2, <3>5 DEF PoolsBelow, PoolsInOrder
      <3>7. \A j \in 1..k : z.r.rows[j].table = PoolTable => z.r.rows[j].id < Id(i + 1)
        BY <3>4, <3>6
      <3>8. \A j \in 1..(k + 1) : j \in 1..k \/ j = k + 1
        OBVIOUS
      <3> QED
        BY <3>1, <3>3, <3>4, <3>7, <3>8 DEF PoolsBelow
    <2>18. FromFile(g, Bump(t), 0) /\ Bump(t).r = u
      BY <2>15, FileBump
    <2> HIDE DEF t
    <2>19. HasAt(9, g, i, Bump(t))
      BY <2>16, <2>17, <2>18 DEF HasAt
    <2> QED
      BY <2>2, <2>19 DEF e
  <1>4. HasAt(9, g, 0, s)
    <2>1. 0 + 1 = 1
      OBVIOUS
    <2> QED
      BY <2>1 DEF HasAt
  <1> HIDE DEF n
  <1>5. PICK t : Steps(9, d, t, s, list, n) /\ t[n] = recordGenPools(s, list)
    BY <1>1, GenPoolsSteps
  <1> HIDE DEF d
  <1>6. HasAt(9, g, n, t[n])
    BY <1>1, <1>3, <1>4, <1>5, FoldHas
  <1> QED
    BY <1>5, <1>6 DEF HasAt

\* The mimirs of a file.
LEMMA MimirsFromFile ==
    ASSUME NEW g, NEW s, FromFile(g, s, 0), IsList(g.mimirs)
    PROVE  FromFile(g, recordGenMimirs(s, g.mimirs), Len(g.mimirs))
  <1> DEFINE list == g.mimirs
             n == Len(list)
             d == <<>>
  <1>1. n \in Nat /\ DOMAIN list = 1..n
    BY DEF IsList
  <1>2. \A i, a : HasAt(16, g, i, a) <=> FromFile(g, a, i)
    BY DEF HasAt
  <1>3. ASSUME NEW i \in 1..n, NEW a, FromFile(g, a, i - 1)
        PROVE  FromFile(g, Step(16, d, a, list[i]), i)
    <2> DEFINE e == list[i]
               data == <<e.key, [isInt |-> TRUE, int |-> e.value]>>
               v == InsertWithMeta(a.r, "set_mimir_events", a.m, data)
               u == SetMimirStatus(v, e.key, e.value)
               t == [a EXCEPT !.r = u]
    <2>1. HasRows(a.r) /\ a.r.refused = {} /\ {"r", "m"} \subseteq DOMAIN a
      BY <1>3 DEF FromFile
    <2>2. Step(16, d, a, e) = Bump(t)
      <3>1. Insert(a, "set_mimir_events", data) = [a EXCEPT !.r = v]
        BY DEF Insert
      <3> DEFINE y == [a EXCEPT !.r = v]
      <3>2. Step(16, d, a, e) = GenMimir(a, e)
        BY DEF Step
      <3>3. GenMimir(a, e) = Bump([Insert(a, "set_mimir_events", data) EXCEPT
                                      !.r = SetMimirStatus(Insert(a, "set_mimir_events", data).r, e.key, e.value)])
        BY DEF GenMimir, data
      <3> HIDE DEF v, data
      <3>4. y.r = v /\ [y EXCEPT !.r = u] = t
        BY <2>1
      <3> QED
        BY <3>1, <3>2, <3>3, <3>4
    <2>3. data[1] = e.key /\ Says(MimirTable, data) = e.value
      <3>1. data[1] = e.key /\ data[2] = [isInt |-> TRUE, int |-> e.value]
        BY DEF data
      <3>2. data[2].int = e.value
        BY <3>1
      <3>3. MimirTable # PoolTable
        BY DEF PoolTable, MimirTable
      <3> HIDE DEF data
      <3> QED
        BY <3>1, <3>2, <3>3 DEF Says
    <2>4. RowOf("set_mimir_events", a.m, data) = RowOf(MimirTable, a.m, data) /\ PoolTable # MimirTable /\ MimirTable \in InfoTables
      BY DEF PoolTable, MimirTable, InfoTables
    <2> HIDE DEF data
    <2>5. /\ IsRecorder(v) /\ v.status = a.r.status /\ v.mimir = a.r.mimir /\ v.refused = {}
          /\ v.rows = Append(a.r.rows, RowOf("set_mimir_events", a.m, data))
      BY <2>1, InsertTaken
    <2> HIDE DEF v
    <2>6. /\ IsRecorder(u) /\ u.status = v.status /\ u.mimir = SetTo(v.mimir, e.key, e.value) /\ u.refused = {}
          /\ u.rows = v.rows
      BY <2>5 DEF SetMimirStatus, IsRecorder
    <2> HIDE DEF u
    <2>7. IsSeq(u.rows)
      BY <2>1, <2>5, <2>6, AppendIs DEF HasRows
    <2>8. Informs(a.m, MimirTable, data, TRUE, a.r, u)
      <3> HIDE DEF e
      <3> QED
        BY <2>3, <2>4, <2>5, <2>6, <2>7 DEF Informs, HasRows
    <2>9. {"r", "m"} \subseteq DOMAIN t /\ t.r = u /\ t.m = a.m
      BY <2>1
    <2>10. /\ i - 1 \in Nat /\ i \in Nat /\ i = (i - 1) + 1
           /\ i \in DOMAIN g.mimirs /\ DOMAIN g.mimirs = 1..Len(g.mimirs)
      BY <1>1
    <2>11. data[1] = g.mimirs[i].key
      BY <2>3
    <2> HIDE DEF t, e, list
    <2>12. PICK table : table = MimirTable
      OBVIOUS
    <2>13. Informs(a.m, table, data, TRUE, a.r, u) /\ table \in InfoTables /\ table # PoolTable /\ u.refused = {}
      BY <2>4, <2>6, <2>8, <2>12
    <2>16. Over(a, u, t)
      BY <2>9 DEF Over
    <2>14. FromFile(g, t, i)
      BY ONLY <2>16, <1>3, <2>9, <2>10, <2>11, <2>13, FileInforms
    <2>15. FromFile(g, Bump(t), i)
      BY <2>14, FileBump
    <2> QED
      BY <2>2, <2>15 DEF e
  <1> HIDE DEF n
  <1>4. PICK t : Steps(16, d, t, s, list, n) /\ t[n] = recordGenMimirs(s, list)
    BY <1>1, GenMimirsSteps
  <1> HIDE DEF d
  <1>5. HasAt(16, g, n, t[n])
    BY <1>1, <1>2, <1>3, <1>4, FoldHas
  <1> QED
    BY <1>2, <1>4, <1>5 DEF n

\* The rows of a genesis file.
LEMMA RecordGenesisWritten ==
    ASSUME NEW g, IsGenesis(g), g.height = 1, Len(g.pools) + 1 < TypeDigit
    PROVE  \E s : FromFile(g, s, Len(g.mimirs)) /\ s.r = RecordGenesis(NewRecorder, g)
  <1> DEFINE m == Metadata(g.height - 1, g.time, EventId(g.height - 1, "BeginBlockEvents", 0, 1))
             Begin == [r |-> NewRecorder, m |-> m]
             Pools == recordGenPools(Begin, g.pools)
             Supplies == recordGenSupplies(Pools, g.supplies)
             Transfers == recordGenTransfers(Supplies, g.balances)
             LPs == recordGenLPs(Transfers, g.lps)
             THORNames == recordGenTHORNames(LPs, g.names)
             Nodes == recordGenNodes(THORNames, g.nodes)
             Loans == recordGenLoans(Nodes, g.loans)
  <1>1. RecordGenesis(NewRecorder, g) = recordGenMimirs(Loans, g.mimirs).r
    BY DEF RecordGenesis
  <1>2. /\ IsList(g.pools) /\ IsList(g.supplies) /\ IsList(g.balances) /\ IsList(g.lps) /\ IsList(g.names)
        /\ IsList(g.nodes) /\ IsList(g.loans) /\ IsList(g.mimirs) /\ DOMAIN g.mimirs = 1..Len(g.mimirs)
    BY DEF IsGenesis, IsList
  <1>3. m.time = g.time /\ {"height", "time", "id"} \subseteq DOMAIN m /\ m.id = FileId(g, 1)
    BY DEF Metadata, FileId
  <1> HIDE DEF m
  <1>4. FromFile(g, Begin, 0) /\ Begin.m = m /\ PoolsBelow(Begin.r.rows, AsBigint(m.id))
    <2>1. Begin.r = NewRecorder /\ Begin.m = m /\ {"r", "m"} \subseteq DOMAIN Begin
      OBVIOUS
    <2>2. IsRecorder(NewRecorder) /\ NewRecorder.rows = <<>> /\ NewRecorder.refused = {}
          /\ NewRecorder.status = <<>> /\ NewRecorder.mimir = <<>>
      BY DEF NewRecorder, IsRecorder
    <2>3. IsSeq(NewRecorder.rows) /\ Len(NewRecorder.rows) = 0
      BY <2>2, EmptyIs DEF IsSeq
    <2> HIDE DEF Begin
    <2>4. Tells(PoolTable, <<>>, NewRecorder.rows, 0, 0, <<>>) /\ Tells(MimirTable, <<>>, NewRecorder.rows, 0, 0, <<>>)
      <3>1. \A f : f = <<>> => f = [key \in DOMAIN f |-> f[key]]
        OBVIOUS
      <3> QED
        BY <3>1, TellsNothing
    <2> QED
      BY <1>3, <2>1, <2>2, <2>3, <2>4 DEF FromFile, HasRows, PoolsInOrder, PoolsBelow, MimirsOfFile
  <1> HIDE DEF Begin
  <1>5. FromFile(g, Pools, 0)
    <2>1. g.height \in Nat \ {0} /\ Begin.m.id = FileId(g, 1)
      BY <1>3, <1>4
    <2> QED
      BY <1>2, <1>4, <2>1, PoolsFromFile
  <1> HIDE DEF Pools
  <1>6. FromFile(g, Supplies, 0)
    BY <1>2, <1>5, SuppliesFromFile
  <1> HIDE DEF Supplies
  <1>7. FromFile(g, Transfers, 0)
    BY <1>2, <1>6, TransfersFromFile DEF recordGenTransfers
  <1> HIDE DEF Transfers
  <1>8. FromFile(g, LPs, 0)
    BY <1>2, <1>7, LPsFromFile
  <1> HIDE DEF LPs
  <1>9. FromFile(g, THORNames, 0)
    BY <1>2, <1>8, THORNamesFromFile
  <1> HIDE DEF THORNames
  <1>10. FromFile(g, Nodes, 0)
    BY <1>2, <1>9, NodesFromFile
  <1> HIDE DEF Nodes
  <1>11. FromFile(g, Loans, 0)
    BY <1>2, <1>10, LoansFromFile
  <1> HIDE DEF Loans
  <1>12. FromFile(g, recordGenMimirs(Loans, g.mimirs), Len(g.mimirs))
    BY <1>2, <1>11, MimirsFromFile
  <1> QED
    BY <1>1, <1>12

=============================================================================
