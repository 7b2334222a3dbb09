-------------------------------- MODULE Handlers --------------------------------
(***************************************************************************)
(* What the recorder does with one event (internal/fetch/record: record.go,*)
(* aggregate.go, chainInfo.go): insert rows and change the running totals. *)
(*                                                                         *)
(* A recorder is a record of the totals (asset, rune and synth depths per  *)
(* pool, functions of the pools seen), the chain info (pool statuses,      *)
(* mimirs), the rows inserted by this block, and of what the database      *)
(* thinks of the rows of the event at hand: `refused` are the numbers of   *)
(* the rows it does not take, n the rows tried so far.  The batch inserter *)
(* takes every row and fails at its flush (`poisoned`); the immediate one  *)
(* returns an error, and every handler decides what that means.            *)
(***************************************************************************)
EXTENDS Integers, Sequences, SequencesExt, TLC, Assets, EventIds, Events

Metadata(height, time, id) == [height |-> height, time |-> time, id |-> id]

-----------------------------------------------------------------------------
(* Running totals and chain info.                                          *)

DepthIn(depths, pool) == IF pool \in DOMAIN depths THEN depths[pool] ELSE 0

SetTo(map, key, v) == [k \in DOMAIN map \cup {key} |-> IF k = key THEN v ELSE map[k]]
AddTo(depths, pool, e8) ==
    [p \in DOMAIN depths \cup {pool} |-> DepthIn(depths, p) + (IF p = pool THEN e8 ELSE 0)]

AddPoolAssetE8Depth(r, pool, e8) == [r EXCEPT !.asset = AddTo(@, pool, e8)]
AddPoolRuneE8Depth(r, pool, e8) == [r EXCEPT !.rune = AddTo(@, pool, e8)]
AddPoolSynthE8Depth(r, pool, e8) == [r EXCEPT !.synth = AddTo(@, pool, e8)]

SetAssetDepth(r, pool, e8) == [r EXCEPT !.asset = SetTo(@, pool, e8)]
SetRuneDepth(r, pool, e8) == [r EXCEPT !.rune = SetTo(@, pool, e8)]
SetSynthDepth(r, pool, e8) == [r EXCEPT !.synth = SetTo(@, pool, e8)]

SetPoolStatus(r, pool, status) == [r EXCEPT !.status = SetTo(@, pool, status)]
SetMimirStatus(r, key, value) == [r EXCEPT !.mimir = SetTo(@, key, value)]
CurrentPoolStatus(r, pool) == IF pool \in DOMAIN r.status THEN r.status[pool] ELSE ""
CurrentMimirStatus(r, key) == DepthIn(r.mimir, key)

-----------------------------------------------------------------------------
(* Rows.                                                                   *)

Accepts(r) == ~(r.immediate /\ r.n + 1 \in r.refused)

\* InsertWithMeta: the id and the time of the event go with every row.
InsertWithMeta(r, table, m, data) ==
    LET row == [table |-> table, id |-> AsBigint(m.id), time |-> m.time, data |-> data]
    IN  [r EXCEPT !.n = @ + 1,
                  !.rows = IF Accepts(r) THEN Append(@, row) ELSE @,
                  !.poisoned = @ \/ r.n + 1 \in r.refused]

\* The value of an amount of the pool's asset in rune, rounded.
AssetInRune(e8, assetDepth, runeDepth) ==
    IF assetDepth = 0 THEN 0 ELSE (2 * e8 * runeDepth + assetDepth) \div (2 * assetDepth)

-----------------------------------------------------------------------------
(* Pools: the handlers that lose the event with its row.                   *)

\* Donations.  The yield of savers arrives as a donation to the synth and only mints synths; the
\* depth of the synth's own name grows too.
OnAdd(r, x, m) ==
    LET saver == x.pool.sep = "/" /\ x.memo = "THOR-SAVERS-YIELD"
        native == ConvertSynthPoolToNative(x.pool)
        minted == IF saver THEN AddPoolSynthE8Depth(r, native, x.asset.e8) ELSE r
        stored == IF saver THEN InsertWithMeta(minted, "rewards_event_entries", m, <<native, 0, x.asset.e8>>)
                  ELSE InsertWithMeta(r, "add_events", m, <<x.pool, x.asset.e8, x.rune_e8>>)
    IN  IF ~Accepts(r) THEN stored
        ELSE AddPoolRuneE8Depth(AddPoolAssetE8Depth(stored, x.pool, x.asset.e8), x.pool, x.rune_e8)

OnErrata(r, x, m) ==
    LET stored == InsertWithMeta(r, "errata_events", m, <<x.asset, x.asset_e8, x.rune_e8>>)
    IN  IF ~Accepts(r) THEN stored
        ELSE AddPoolRuneE8Depth(AddPoolAssetE8Depth(stored, x.asset, x.asset_e8), x.asset, x.rune_e8)

\* Wrong_OnGas: the totals change although the row is lost.
Wrong_OnGas(r, x, m) ==
    LET stored == InsertWithMeta(r, "gas_events", m, <<x.asset, x.asset_amt, x.rune_amt>>)
    IN  AddPoolRuneE8Depth(AddPoolAssetE8Depth(stored, x.asset, -x.asset_amt), x.asset, x.rune_amt)
OnGas(r, x, m) ==
    LET stored == InsertWithMeta(r, "gas_events", m, <<x.asset, x.asset_amt, x.rune_amt>>)
    IN  IF ~Accepts(r) THEN stored
        ELSE AddPoolRuneE8Depth(AddPoolAssetE8Depth(stored, x.asset, -x.asset_amt), x.asset, x.rune_amt)

\* One row per pool; the pools are paid only if all their rows were taken.
RewardEntry(acc, x, m, p) ==
    IF acc.lost THEN acc
    ELSE [lost |-> ~Accepts(acc.r),
          r |-> InsertWithMeta(acc.r, "rewards_event_entries", m, <<p, x.perPool[p], 0>>)]
RewardEntries(r, x, m) ==
    FoldLeft(LAMBDA acc, p : RewardEntry(acc, x, m, p),
             [lost |-> ~Accepts(r), r |-> InsertWithMeta(r, "rewards_events", m, <<>>)],
             SetToSeq(DOMAIN x.perPool))
PayReward(r, x, p) == AddPoolRuneE8Depth(r, p, x.perPool[p])
PayRewards(r, x) == FoldLeft(LAMBDA acc, p : PayReward(acc, x, p), r, SetToSeq(DOMAIN x.perPool))
OnRewards(r, x, m) ==
    LET entries == RewardEntries(r, x, m)
    IN  IF entries.lost THEN entries.r ELSE PayRewards(entries.r, x)

OnStake(r, x, m) ==
    LET inRune == AssetInRune(x.asset_amount, DepthIn(r.asset, x.pool) + x.asset_amount,
                              DepthIn(r.rune, x.pool) + x.rune_amount)
        stored == InsertWithMeta(r, "stake_events", m, <<x.pool, x.asset_amount, x.rune_amount, inRune>>)
    IN  IF ~Accepts(r) THEN stored
        ELSE AddPoolRuneE8Depth(AddPoolAssetE8Depth(stored, x.pool, x.asset_amount), x.pool, x.rune_amount)

-----------------------------------------------------------------------------
(* Swaps.                                                                  *)

\* Exactly one side is the native coin, the other any kind but unknown.
IsSwap(from, to) ==
    /\ "UnknownCoin" \notin {from, to}
    /\ (from = "Switch") # (to = "Switch")

\* From the height on where fees are paid at once, the pool pays the fee and a second row says so.
\* If that row is refused, the fee is paid and the swap itself is lost.
OnSwap(r, x, m, undelayedLiquidityFeesHeight) ==
    LET from == GetCoinType(x.coin.asset)
        to == GetCoinType(x.emit_asset.asset)
        fee == x.liquidity_fee_in_rune
        stored == InsertWithMeta(r, "swap_events", m, <<x.pool, x.coin, x.emit_asset>>)
        undelayed == m.height >= undelayedLiquidityFeesHeight
        charged == AddPoolRuneE8Depth(stored, x.pool, -fee)
        reported == InsertWithMeta(charged, "rewards_event_entries", m, <<x.pool, -fee, 0>>)
        paid == IF ~undelayed THEN stored ELSE IF x.pool = ThorTCY THEN charged ELSE reported
        Sold(s) == LET native == IF from = "AssetNative" THEN AddPoolAssetE8Depth(s, x.pool, x.coin.e8) ELSE s
                       synth == IF from = "AssetSynth" THEN AddPoolSynthE8Depth(s, x.pool, -x.coin.e8) ELSE native
                   IN  AddPoolRuneE8Depth(synth, x.pool, -x.emit_asset.e8)
        Bought(s) == LET rune == AddPoolRuneE8Depth(s, x.pool, x.coin.e8)
                     IN  CASE to = "AssetNative" -> AddPoolAssetE8Depth(rune, x.pool, -x.emit_asset.e8)
                           [] to = "AssetSynth"  -> AddPoolSynthE8Depth(rune, x.pool, x.emit_asset.e8)
                           [] OTHER              -> rune
    IN  IF ~IsSwap(from, to) THEN r
        ELSE IF ~Accepts(r) THEN stored
        ELSE IF undelayed /\ x.pool # ThorTCY /\ ~Accepts(charged) THEN reported
        ELSE IF to = "Switch" THEN Sold(paid) ELSE Bought(paid)

-----------------------------------------------------------------------------
(* Pools: the handlers that change the totals whether the row was taken or not. *)

OnFee(r, x, m) ==
    LET stored == InsertWithMeta(r, "fee_events", m, <<x.coins, x.pool_deduct>>)
        kind == GetCoinType(x.coins.asset)
        pool == GetNativeAsset(x.coins.asset)
        moved == CASE kind = "AssetNative" -> AddPoolAssetE8Depth(stored, pool, x.coins.e8)
                   [] kind = "AssetSynth"  -> AddPoolSynthE8Depth(stored, pool, -x.coins.e8)
                   [] OTHER                -> stored
    IN  IF IsSwitch(x.coins.asset) THEN stored ELSE AddPoolRuneE8Depth(moved, pool, -x.pool_deduct)

\* A suspended pool is emptied.
OnPool(r, x, m) ==
    LET stored == InsertWithMeta(r, "pool_events", m, <<x.pool, x.pool_status>>)
        emptied == SetSynthDepth(SetRuneDepth(SetAssetDepth(stored, x.pool, 0), x.pool, 0), x.pool, 0)
    IN  SetPoolStatus(IF x.pool_status = "suspended" THEN emptied ELSE stored, x.pool, x.pool_status)

SlashAmount(r, x, m, a) ==
    LET e8 == x.amounts[a]
        stored == InsertWithMeta(r, "slash_events", m, <<x.pool, a, e8>>)
    IN  CASE GetCoinType(a) = "Switch"      -> AddPoolRuneE8Depth(stored, x.pool, e8)
          [] GetCoinType(a) = "AssetNative" -> AddPoolAssetE8Depth(stored, x.pool, e8)
          [] OTHER                          -> stored
OnSlash(r, x, m) == FoldLeft(LAMBDA acc, a : SlashAmount(acc, x, m, a), r, SetToSeq(DOMAIN x.amounts))

\* What became of the coin sent in with a withdrawal changed twice in the life of the chain.
OnWithdraw(r, x, m, withdrawCoinKeptHeight, withdrawCoinPooledHeight) ==
    LET inRune == AssetInRune(x.emit_asset, DepthIn(r.asset, x.pool), DepthIn(r.rune, x.pool))
        stored == InsertWithMeta(r, "withdraw_events", m,
                     <<x.pool, x.coin, x.emit_asset, x.emit_rune, x.liquidity_provider_units,
                       x.imp_loss_protection, inRune>>)
        paid == AddPoolRuneE8Depth(AddPoolAssetE8Depth(stored, x.pool, -x.emit_asset),
                                   x.pool, x.imp_loss_protection - x.emit_rune)
        kept == IF m.height < withdrawCoinKeptHeight /\ x.coin.e8 # 0 /\ x.pool = x.coin.asset
                THEN AddPoolAssetE8Depth(paid, x.pool, x.coin.e8) ELSE paid
        pooled == /\ m.height >= withdrawCoinPooledHeight
                  /\ x.coin.e8 # 0
                  /\ DepthIn(kept.asset, x.coin.asset) > 0 \/ DepthIn(kept.rune, x.coin.asset) > 0
                  /\ x.chain = ChainOf(x.pool)
    IN  IF pooled THEN AddPoolAssetE8Depth(kept, x.coin.asset, x.coin.e8) ELSE kept

OnPoolBalanceChange(r, x, m) ==
    LET stored == InsertWithMeta(r, "pool_balance_change_events", m,
                     <<x.asset, x.rune_amt, x.rune_add, x.asset_amt, x.asset_add>>)
        asset == IF x.asset_amt = 0 THEN stored
                 ELSE AddPoolAssetE8Depth(stored, x.asset, Signed(x.asset_amt, x.asset_add))
    IN  IF x.rune_amt = 0 THEN asset
        ELSE AddPoolRuneE8Depth(asset, x.asset, Signed(x.rune_amt, x.rune_add))

OnMintBurn(r, x, m) ==
    LET stored == InsertWithMeta(r, "mint_burn_events", m, <<x.denom, x.amount, x.supply, x.reason>>)
    IN  IF x.denom.sep = "/" /\ x.supply = "burn" /\ x.reason = "failed_refund"
        THEN AddPoolSynthE8Depth(stored, ConvertSynthPoolToNative(x.denom), -x.amount) ELSE stored

\* Trade and secured accounts move the pool only for the swaps at the end of a block.
OnAccountEvent(r, table, x, m, sign) ==
    LET stored == InsertWithMeta(r, table, m, <<x.asset, x.amount>>)
    IN  IF m.id.location = "EndBlockEvents"
        THEN AddPoolAssetE8Depth(stored, GetNativeAsset(x.asset), sign * x.amount) ELSE stored
OnTradeAccountDeposit(r, x, m) == OnAccountEvent(r, "trade_account_deposit_events", x, m, -1)
OnTradeAccountWithdraw(r, x, m) == OnAccountEvent(r, "trade_account_withdraw_events", x, m, 1)
OnSecureAssetDeposit(r, x, m) == OnAccountEvent(r, "secure_asset_deposit_events", x, m, -1)
OnSecureAssetWithdraw(r, x, m) == OnAccountEvent(r, "secure_asset_withdraw_events", x, m, 1)

\* Only corrections make these two; they leave no row.
OnCoinbase(r, x) == AddPoolSynthE8Depth(r, ConvertSynthPoolToNative(x.asset), x.e8)
OnBurn(r, x) == AddPoolSynthE8Depth(r, ConvertSynthPoolToNative(x.asset), -x.e8)

-----------------------------------------------------------------------------
(* Chain info.                                                             *)

\* A value is a text; one that is not a number is stored as it is and counts as 0 in memory.
OnSetMimir(r, x, m) ==
    SetMimirStatus(InsertWithMeta(r, "set_mimir_events", m, <<x.key, x.value>>), x.key,
                   IF x.value.isInt THEN x.value.int ELSE 0)

-----------------------------------------------------------------------------
(* Events that leave rows and no totals.                                   *)

\* The outbound of an affiliate fee paid in rune, under rune's old name.
OnAffiliateFee(r, x, m) ==
    LET inRune == IF x.asset = ThorRune THEN x.fee_amount
                  ELSE AssetInRune(x.fee_amount, DepthIn(r.asset, x.asset), DepthIn(r.rune, x.asset))
        out == IF x.asset = ThorRune THEN InsertWithMeta(r, "outbound_events", m, <<x.asset, x.fee_amount>>) ELSE r
    IN  InsertWithMeta(out, "affiliate_fee_events", m, <<x.asset, x.fee_amount, inRune>>)

\* Switches before the fees changed, or without an asset, mint rune.
OnSwitch(r, x, m, undelayedLiquidityFeesHeight) ==
    InsertWithMeta(r, "switch_events", m,
        IF m.height < undelayedLiquidityFeesHeight \/ "asset" \notin DOMAIN x THEN <<ThorRune>> ELSE <<x.asset>>)

OnActiveVault(r, x, m) == InsertWithMeta(r, "active_vault_events", m, <<>>)
OnAsgardFundYggdrasil(r, x, m) == InsertWithMeta(r, "asgard_fund_yggdrasil_events", m, <<>>)
OnBond(r, x, m) == InsertWithMeta(r, "bond_events", m, <<x.signer>>)
OnInactiveVault(r, x, m) == InsertWithMeta(r, "inactive_vault_events", m, <<>>)
OnNewNode(r, x, m) == InsertWithMeta(r, "new_node_events", m, <<>>)
OnOutbound(r, x, m) == InsertWithMeta(r, "outbound_events", m, <<>>)
OnScheduledOutbound(r, x, m) == InsertWithMeta(r, "scheduled_outbound_events", m, <<>>)
OnRefund(r, x, m) == InsertWithMeta(r, "refund_events", m, <<>>)
OnReserve(r, x, m) == InsertWithMeta(r, "reserve_events", m, <<>>)
OnSetIPAddress(r, x, m) == InsertWithMeta(r, "set_ip_address_events", m, <<>>)
OnSetNodeKeys(r, x, m) == InsertWithMeta(r, "set_node_keys_events", m, <<>>)
OnSetVersion(r, x, m) == InsertWithMeta(r, "set_version_events", m, <<>>)
OnPendingLiquidity(r, x, m) == InsertWithMeta(r, "pending_liquidity_events", m, <<>>)
OnUpdateNodeAccountStatus(r, x, m) == InsertWithMeta(r, "update_node_account_status_events", m, <<>>)
OnValidatorRequestLeave(r, x, m) == InsertWithMeta(r, "validator_request_leave_events", m, <<>>)
OnTHORNameChange(r, x, m) == InsertWithMeta(r, "thorname_change_events", m, <<x.tx_id, x.memo, x.signer>>)
OnSlashPoints(r, x, m) == InsertWithMeta(r, "slash_points_events", m, <<>>)
OnSetNodeMimir(r, x, m) == InsertWithMeta(r, "set_node_mimir_events", m, <<>>)
OnVersion(r, x, m) == InsertWithMeta(r, "network_version_events", m, <<>>)
OnLoanOpen(r, x, m) == InsertWithMeta(r, "loan_open_events", m, <<>>)
OnLoanRepayment(r, x, m) == InsertWithMeta(r, "loan_repayment_events", m, <<>>)
OnStreamingSwapDetails(r, x, m) == InsertWithMeta(r, "streaming_swap_details_events", m, <<>>)
OnTSSKeygenSuccess(r, x, m) == InsertWithMeta(r, "tss_keygen_success_events", m, <<>>)
OnTSSKeygenFailure(r, x, m) == InsertWithMeta(r, "tss_keygen_failure_events", m, <<>>)
OnRunePoolDeposit(r, x, m) == InsertWithMeta(r, "rune_pool_deposit_events", m, <<>>)
OnRunePoolWithdraw(r, x, m) == InsertWithMeta(r, "rune_pool_withdraw_events", m, <<>>)
OnCosmWasm(r, x, m) == InsertWithMeta(r, "wasm_contracts_events", m, <<x.tx_id, x.sender, x.msg, x.funds>>)
OnInstantiate(r, x, m) == InsertWithMeta(r, "instantiate_events", m, <<x.tx_id, x.sender, x.msg, x.funds>>)
OnTcyClaim(r, x, m) == InsertWithMeta(r, "tcy_claim_events", m, <<x.tx_id, x.memo>>)
OnTcyDistribution(r, x, m) == InsertWithMeta(r, "tcy_distribution_events", m, <<>>)
OnTcyStake(r, x, m) == InsertWithMeta(r, "tcy_stake_events", m, <<x.tx_id, x.memo>>)
OnTcyUnstake(r, x, m) == InsertWithMeta(r, "tcy_unstake_events", m, <<x.tx_id, x.memo>>)
\* Both are written only if the configuration asks for them.
OnMessage(r, x, m, enabled) == IF enabled THEN InsertWithMeta(r, "message_events", m, <<>>) ELSE r
OnTransfer(r, x, m, enabled) == IF enabled THEN InsertWithMeta(r, "transfer_events", m, <<>>) ELSE r

\* Messages of transactions.
OnMsgSend(r, x, m) == InsertWithMeta(r, "send_messages", m, <<>>)
OnDeposit(r, x, m) == InsertWithMeta(r, "failed_deposit_messages", m, <<>>)

=============================================================================
