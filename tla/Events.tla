--------------------------------- MODULE Events ---------------------------------
(***************************************************************************)
(* The decoders of internal/fetch/record/event.go.  An event of the node   *)
(* has a type, attributes and, for the events of a block outside of its    *)
(* transactions, a mode.  A decoder either reads all it needs or gives the *)
(* event up; attributes it does not know are logged and skipped.           *)
(*                                                                         *)
(* attrs maps the keys present to values of the kind their decoder wants:  *)
(* a number, a coin, a text.  `bad` are the keys whose text does not parse *)
(* as such, `empty` the keys whose text is empty.                          *)
(***************************************************************************)
EXTENDS Integers, Sequences, FiniteSets, TLC, Assets

NoAsset == Asset("", "", "")
NoCoin == [asset |-> NoAsset, e8 |-> 0]
Coin(asset, e8) == [asset |-> asset, e8 |-> e8]

\* An attribute the node did not send, as the zero value of its field.
NoText == "nil"

\* A decoded event, or the reason it is given up.
Malformed == [ok |-> FALSE, ignored |-> FALSE]
Ignored == [ok |-> FALSE, ignored |-> TRUE]

\* The loop every decoder has: keys that must parse, with the zero value of those absent.
Load(e, numbers, coins, texts) ==
    IF e.bad \cap (numbers \cup coins) # {} THEN Malformed
    ELSE e.attrs @@ [k \in numbers |-> 0] @@ [k \in coins |-> NoCoin] @@ [k \in texts |-> NoText]
         @@ [ok |-> TRUE]

\* processEvent drops mode, msg_index and attributes with an empty text before any decoder.
Filtered(e) == [e EXCEPT !.attrs = [k \in DOMAIN @ \ (e.empty \cup {"msg_index"}) |-> @[k]],
                         !.bad = @ \ e.empty]

-----------------------------------------------------------------------------
(* Liquidity, swaps and the balances of pools.                             *)

Opt(e, key, default) == IF key \in DOMAIN e.attrs THEN e.attrs[key] ELSE default

LoadAdd(e) ==
    \* The coins are a list, and the last of each kind counts.
    LET coins == Opt(e, "coin", <<>>)
        Last(S) == IF S = {} THEN NoCoin ELSE coins[CHOOSE i \in S : \A j \in S : j <= i]
        asset == Last({i \in DOMAIN coins : ~IsSwitch(coins[i].asset)})
        rune == Last({i \in DOMAIN coins : IsSwitch(coins[i].asset)})
    IN  IF "coin" \in e.bad THEN Malformed
        ELSE [asset |-> asset, rune_e8 |-> rune.e8] @@ Load(e, {}, {}, {"memo"})

Signed(x, positive) == IF positive THEN x ELSE -x

LoadErrata(e) ==
    LET x == Load(e, {"asset_amt", "rune_amt", "asset_add", "rune_add"}, {}, {"in_tx_id"})
    IN  IF ~x.ok THEN x
        ELSE [asset_e8 |-> Signed(x.asset_amt, Opt(e, "asset_add", TRUE)),
              rune_e8 |-> Signed(x.rune_amt, Opt(e, "rune_add", TRUE))] @@ x

\* Here an absent sign is a negative one.
LoadPoolBalanceChange(e) ==
    LET x == Load(e, {"asset_amt", "rune_amt", "asset_add", "rune_add"}, {}, {"reason"})
    IN  IF ~x.ok THEN x
        ELSE [asset_add |-> Opt(e, "asset_add", FALSE), rune_add |-> Opt(e, "rune_add", FALSE)] @@ x

LoadFee(e) == Load(e, {"pool_deduct"}, {"coins"}, {"tx_id"})
LoadGas(e) == Load(e, {"asset_amt", "rune_amt", "transaction_count"}, {}, {})
LoadPool(e) == Load(e, {}, {}, {})

\* The other keys are pools, or assets: `amounts` are those whose text is a number, and the rest
\* is only logged.
LoadRewards(e) ==
    IF "bond_reward" \in e.bad THEN Malformed ELSE [ok |-> TRUE, perPool |-> e.attrs.amounts]
LoadSlash(e) == [ok |-> TRUE, pool |-> e.attrs.pool, amounts |-> e.attrs.amounts]

\* AddBase.parse: at most one asset chain may name its transaction.
LoadAddBase(e, numbers) ==
    IF Opt(e, "asset_txids", 1) > 1 THEN Malformed
    ELSE Load(e, {"rune_amount", "asset_amount"} \cup numbers, {}, {"rune_address", "asset_address"})
LoadPendingLiquidity(e) == LoadAddBase(e, {})
LoadStake(e) == LoadAddBase(e, {"liquidity_provider_units"})

LoadSwap(e) ==
    IF "id" \notin DOMAIN e.attrs THEN Malformed
    ELSE Load(e, {"swap_target", "swap_slip", "liquidity_fee", "liquidity_fee_in_rune",
                  "streaming_swap_count", "streaming_swap_quantity"}, {"coin", "emit_asset"}, {"memo"})

LoadWithdraw(e) ==
    IF "coin" \notin DOMAIN e.attrs THEN Malformed
    ELSE Load(e, {"emit_asset", "emit_rune", "liquidity_provider_units", "basis_points", "asymmetry",
                  "imp_loss_protection"}, {"coin"}, {"id", "chain", "memo"})

\* "rune" is written under its old name; a supply that is neither mint nor burn is left out.
LoadMintBurn(e) == Load(e, {"amount"}, {}, {"supply", "reason"})

\* Trade and secured accounts have the same four attributes.
LoadAccountEvent(e) == Load(e, {"amount"}, {}, {"tx_id"})
LoadTradeAccountDeposit(e) == LoadAccountEvent(e)
LoadTradeAccountWithdraw(e) == LoadAccountEvent(e)
LoadSecureAssetDeposit(e) == LoadAccountEvent(e)
LoadSecureAssetWithdraw(e) == LoadAccountEvent(e)

-----------------------------------------------------------------------------
(* Transactions and names.                                                 *)

LoadAsgardFundYggdrasil(e) == Load(e, {}, {"coins"}, {})
\* A bond type is one byte below 4 or begins with "bond_".  (One of two to four bytes, which the chain
\* does not write, ends the process; here it is bad as any other.)
LoadBond(e) == Load(e, {"amount", "bond_type"}, {"coin"}, {"signer"})
LoadOutbound(e) == Load(e, {}, {"coin"}, {"memo"})
LoadScheduledOutbound(e) ==
    Load(e, {"coin_amount", "coin_decimals", "gas_rate", "max_gas_amount_0", "max_gas_decimals_0"}, {}, {})
\* A second coin, after a comma, must parse as well.
LoadRefund(e) == Load(e, {"code"}, {"coin", "coin_2nd"}, {"memo", "reason"})
LoadReserve(e) == Load(e, {"amount"}, {"coin"}, {"memo"})
\* A transfer without an amount is dropped without a word.
LoadTransfer(e) == IF "amount" \notin DOMAIN e.attrs THEN Ignored ELSE Load(e, {}, {"amount"}, {})
LoadTHORNameChange(e) == Load(e, {"registration_fee", "fund_amount", "expire"}, {}, {"tx_id", "memo", "signer"})
\* Errors in "burn_amount" and "amount" are overlooked; without a minted amount all that was burnt
\* is minted.
LoadSwitchEvent(e) ==
    LET x == Load(e, {"mint"}, {"burn"}, {})
        burnt == Opt(e, "burn_amount", x.burn.e8)
    IN  IF ~x.ok THEN x
        ELSE [mint_e8 |-> Opt(e, "mint", Opt(e, "amount", burnt)), burn_e8 |-> burnt] @@ x
LoadLoanOpen(e) == Load(e, {"collateral_deposited", "debt_issued", "collateralization_ratio"}, {}, {})
LoadLoanRepayment(e) == Load(e, {"collateral_withdrawn", "debt_repaid"}, {}, {})
LoadStreamingSwapDetails(e) ==
    Load(e, {"last_height", "count", "quantity", "interval", "failed_swaps"}, {"in", "out", "deposit"}, {})
LoadRunePoolDeposit(e) == Load(e, {"rune_amount", "units"}, {}, {})
LoadRunePoolWithdraw(e) ==
    Load(e, {"rune_amount", "units", "basis_points", "affiliate_basis_points", "affiliate_amount"}, {}, {})
LoadAffiliateFee(e) == Load(e, {"fee_amount", "gross_amount", "fee_bps"}, {}, {"memo", "thorname"})
LoadCosmWasmEvent(e) == Load(e, {}, {}, {"tx_id", "sender", "msg", "funds"})
LoadInstantiate(e) == Load(e, {"code_id"}, {}, {"tx_id", "sender", "msg", "funds"})
LoadTcyClaim(e) == Load(e, {"tcy_amount"}, {}, {"tx_id", "memo"})
LoadTcyDistribution(e) == Load(e, {"rune_amount"}, {}, {})
LoadTcyStake(e) == Load(e, {"amount"}, {}, {"tx_id", "memo"})
LoadTcyUnstake(e) == Load(e, {"amount"}, {}, {"tx_id", "memo"})

-----------------------------------------------------------------------------
(* Nodes and the network.                                                  *)

LoadSlashPoints(e) == Load(e, {"slash_points"}, {}, {})
\* The number is under "value" and is stored as the key.
LoadSetNodeMimir(e) == Load(e, {"value"}, {}, {})
LoadTSSKeygenSuccess(e) == Load(e, {"height"}, {}, {})
LoadTSSKeygenFailure(e) == Load(e, {"height", "is_unicast"}, {}, {})

\* The decoders that take everything as text and cannot fail.
LoadText(e) == Load(e, {}, {}, {})
LoadActiveVault(e) == LoadText(e)
LoadInactiveVault(e) == LoadText(e)
LoadMessage(e) == LoadText(e)
LoadNewNode(e) == LoadText(e)
LoadSetIPAddress(e) == LoadText(e)
LoadSetMimir(e) == LoadText(e)
LoadSetNodeKeys(e) == LoadText(e)
LoadSetVersion(e) == LoadText(e)
LoadUpdateNodeAccountStatus(e) == LoadText(e)
LoadValidatorRequestLeave(e) == LoadText(e)
LoadVersion(e) == LoadText(e)

-----------------------------------------------------------------------------
(* Messages of the transactions, which emit no event.                      *)

LoadSend(msg) == Load(msg, {}, {"amount"}, {})
LoadDeposit(msg) == Load(msg, {}, {"coins"}, {})

=============================================================================
