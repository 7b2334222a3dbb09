------------------------------- MODULE MCRecorder -------------------------------
\* The chains Recorder is checked on: every type of event, in every place of a block, with rows
\* the database takes and with rows it refuses, with and without a genesis file.
EXTENDS DepthQueries

Btc == Asset("BTC", ".", "BTC")
Eth == EthPool
EthSynth == Asset("ETH", "/", "ETH")
EthTrade == Asset("ETH", "~", "ETH")
EthSecured == Asset("ETH", "-", "ETH")
Tor == Asset("SWITCHLY", ".", "TOR")
Unknown == Asset("ETH", "?", "ETH")
MCUsdPools == <<Btc, Eth>>

E(type, attrs) ==
    [type |-> type, mode |-> "none", attrs |-> attrs, bad |-> {}, empty |-> {}, refused |-> {}]
Bad(e, key) == [e EXCEPT !.bad = {key}, !.attrs = (key :> 0) @@ @]
Refusing(e, s) == [e EXCEPT !.refused = s]
In(e, mode) == [e EXCEPT !.mode = mode]

Number(n) == [isInt |-> TRUE, int |-> n]
NotANumber == [isInt |-> FALSE, int |-> 0]

Swap(pool, from, e8, to, out) ==
    E("swap", [id |-> "id", pool |-> pool, coin |-> Coin(from, e8), emit_asset |-> Coin(to, out),
               liquidity_fee_in_rune |-> 1])
Withdraw(pool, coin, units) ==
    E("withdraw", [id |-> CorrectedTx, pool |-> pool, coin |-> coin, emit_asset |-> 1, emit_rune |-> 2,
                   liquidity_provider_units |-> units, imp_loss_protection |-> 1, chain |-> pool.chain])
Fee(asset) == E("fee", [coins |-> Coin(asset, 2), pool_deduct |-> 1])
Account(type) == E(type, [asset |-> EthTrade, amount |-> 2])
AddLiquidity(pool) ==
    E("add_liquidity", [pool |-> pool, rune_amount |-> 20, asset_amount |-> 10, liquidity_provider_units |-> 5])
SetPool(pool, status) == E("pool", [pool |-> pool, pool_status |-> status])
SetMimir(kind, what, value) == E("set_mimir", [key |-> <<kind, "BTC", what>>, value |-> value])

\* Events that move balances; those with more than one row come first.
ManyRows ==
    << Swap(Eth, Eth, 3, nativeSwitch, 2), Swap(ThorTCY, ThorTCY, 3, nativeSwitch, 2),
       E("rewards", [amounts |-> (Btc :> 2 @@ Eth :> -1)]),
       E("slash", [pool |-> Eth, amounts |-> (nativeSwitch :> -2 @@ Eth :> -1 @@ EthSynth :> 1)]),
       E("affiliate_fee", [asset |-> ThorRune, fee_amount |-> 2]) >>
Moves ==
    << E("donate", [pool |-> Eth, coin |-> <<Coin(Eth, 2), Coin(nativeSwitch, 3), Coin(Eth, 4)>>, memo |-> "ADD"]),
       E("donate", [pool |-> EthSynth, coin |-> <<Coin(EthSynth, 2)>>, memo |-> "THOR-SAVERS-YIELD"]),
       E("errata", [asset |-> Eth, asset_amt |-> 2, rune_amt |-> 3, rune_add |-> FALSE]),
       E("pool_balance_change", [asset |-> Eth, asset_amt |-> 2, rune_amt |-> 3, rune_add |-> TRUE]),
       E("pool_balance_change", [asset |-> Eth, asset_amt |-> 0, rune_amt |-> 0]),
       Fee(Eth), Fee(EthSynth), Fee(nativeSwitch), Fee(EthTrade),
       E("gas", [asset |-> Btc, asset_amt |-> 2, rune_amt |-> 3]),
       AddLiquidity(Btc), E("pending_liquidity", [pool |-> Eth]),
       Swap(Eth, nativeSwitch, 3, Eth, 2), Swap(Eth, nativeSwitch, 3, EthSynth, 2),
       Swap(Eth, EthSynth, 3, nativeSwitch, 2), Swap(Eth, EthTrade, 3, nativeSwitch, 2),
       Swap(Eth, nativeSwitch, 3, Tor, 2), Swap(Eth, Eth, 3, Btc, 2), Swap(Eth, Unknown, 3, nativeSwitch, 2),
       Withdraw(Eth, Coin(Eth, 0), 3), Withdraw(Eth, Coin(Eth, 1), 3), Withdraw(Eth, Coin(Btc, 1), 0),
       SetPool(Eth, "suspended"), SetPool(Btc, "staged"), SetMimir("HALT", "CHAIN", Number(1)),
       SetMimir("10-", "", Number(1)), SetMimir("HALT", "TRADING", NotANumber),
       E("mint_burn", [denom |-> EthSynth, amount |-> 2, supply |-> "burn", reason |-> "failed_refund"]),
       E("mint_burn", [denom |-> EthSynth, amount |-> 2, supply |-> "mint", reason |-> "swap"]),
       Account("trade_account_deposit"), Account("trade_account_withdraw"),
       Account("secured_asset_deposit"), Account("secured_asset_withdraw"),
       E("affiliate_fee", [asset |-> Eth, fee_amount |-> 2]),
       E("switch", [burn |-> Coin(Asset("BNB", ".", "SWITCH-67C"), 3), tx_id |-> "observed"]),
       E("switch", [burn |-> Coin(Asset("BNB", ".", "SWITCH-67C"), 3), asset |-> nativeSwitch, mint |-> 2]) >>

\* Types that leave one row each, or none.
Plain ==
    << "ActiveVault", "asgard_fund_yggdrasil", "bond", "InactiveVault", "message", "new_node", "outbound",
       "refund", "reserve", "set_ip_address", "set_node_keys", "set_version", "UpdateNodeAccountStatus",
       "validator_request_leave", "thorname", "slash_points", "set_node_mimir", "version", "loan_open",
       "loan_repayment", "streaming_swap", "tss_keygen_success", "tss_keygen_failure", "scheduled_outbound",
       "rune_pool_deposit", "rune_pool_withdraw", "instantiate", "tcy_claim", "tcy_distribution", "tcy_stake",
       "tcy_unstake", "wasm-", "transfer", "coin_spent", "unheard_of" >>
PlainEvents == [i \in DOMAIN Plain |-> E(Plain[i], [memo |-> "memo"])]

\* Events that do not decode, or are left out by a rule.
Odd ==
    << Bad(E("fee", [coins |-> Coin(Eth, 1)]), "pool_deduct"), Bad(E("rewards", [amounts |-> <<>>]), "bond_reward"),
       Bad(E("bond", [memo |-> "memo"]), "msg_index"), E("swap", [pool |-> Eth]), E("withdraw", [pool |-> Eth]),
       E("add_liquidity", [pool |-> Eth, asset_txids |-> 2]), Bad(E("donate", [pool |-> Eth]), "coin"),
       [E("gas", [asset |-> Eth, asset_amt |-> 1, rune_amt |-> 1]) EXCEPT !.empty = {"asset_amt"}],
       E("transfer", [amount |-> Coin(Eth, 1)]) >>

-----------------------------------------------------------------------------
Msg(kind) == [kind |-> kind, attrs |-> <<>>, bad |-> {}, empty |-> {}, refused |-> {}, memo |-> "memo",
              hash |-> "observed", signer |-> "signer", sender |-> "sender", msg |-> "", funds |-> "",
              amount |-> Coin(Btc, 4)]
Tx(code, kinds, events) ==
    [code |-> code, hash |-> "hash", memo |-> "", msgs |-> [i \in DOMAIN kinds |-> Msg(kinds[i])], events |-> events]

\* The event in all places: at the begin, without a mode, in transactions, at the end.
ChainOf1(id, genesis, t) ==
    LET failed == Tx(1, <<"MsgSend", "MsgDeposit", "MsgDeposit">>, <<t>>)
        observed == Tx(0, <<"MsgObservedTxIn", "MsgDeposit", "MsgSend">>, <<t, AddLiquidity(Eth)>>)
        called == Tx(0, <<"MsgInstantiateContract">>, <<t>>)
        undecoded == Tx(0, <<>>, <<t>>)
        first == << In(SetPool(Btc, "available"), "BeginBlock"), In(SetPool(Eth, "available"), "BeginBlock"),
                    AddLiquidity(Btc), In(AddLiquidity(Eth), "EndBlock"),
                    In(SetMimir("TORANCHOR", "BTC", Number(1)), "EndBlock") >>
        last == << t, In(SetMimir("TORANCHOR", "BTC", Number(0)), "EndBlock"),
                   In(SetPool(Eth, "staged"), "EndBlock"),
                   In(E("gas", [asset |-> Eth, asset_amt |-> 1, rune_amt |-> 2]), "EndBlock") >>
    IN  [id |-> id, genesis |-> genesis,
         blocks |-> << [height |-> 1, time |-> 1, finalize |-> first, txs |-> <<>>],
                       [height |-> 2, time |-> IF id = ChainIDTestnet20211106 THEN 1 ELSE 2,
                        finalize |-> <<In(t, "BeginBlock"), t, In(t, "EndBlock")>>,
                        txs |-> <<failed, observed, called, undecoded>>],
                       [height |-> 3, time |-> 3, finalize |-> last, txs |-> <<>>] >>]

GenesisFile ==
    [height |-> 1, time |-> 0,
     pools |-> <<[asset |-> Btc, rune |-> 4, amount |-> 2, status |-> "available"],
                 [asset |-> Eth, rune |-> 6, amount |-> 3, status |-> "staged"]>>,
     supplies |-> <<Coin(EthSynth, 2), Coin(nativeSwitch, 9)>>,
     balances |-> <<1>>, names |-> <<1>>, nodes |-> <<1>>,
     lps |-> <<[pool |-> Btc, pending |-> TRUE, units |-> 0, amount |-> 0, rune |-> 0],
               [pool |-> Eth, pending |-> FALSE, units |-> 2, amount |-> 0, rune |-> 0]>>,
     loans |-> <<[height |-> 0, repaid |-> TRUE]>>,
     mimirs |-> <<[key |-> <<"TORANCHOR", "BTC", "BTC">>, value |-> 0]>>]

Templates == ManyRows \o Moves \o PlainEvents \o Odd
MCChains ==
    [i \in DOMAIN Templates |-> ChainOf1(ChainIDMainnet202104, <<>>, Templates[i])]
    \o [i \in DOMAIN Templates |-> ChainOf1(ChainIDMainnet202104, <<GenesisFile>>, Refusing(Templates[i], {1}))]
    \o [i \in DOMAIN Templates |-> ChainOf1(ChainIDTestnet20211106, <<GenesisFile>>, Templates[i])]
    \o [i \in DOMAIN ManyRows |-> ChainOf1(ChainIDStagenet2024, <<>>, Refusing(ManyRows[i], {2}))]

MCHeightOf ==
    [name \in CorrectionNames |->
        IF name \in {"forwardedAsset", "removedLiquidity", "balance", "mintedSynths", "artificialDepth",
                     "unitsAlwaysSent", "withdrawCoinKept", "withdrawCoinPooled", "undelayedFees"}
        THEN 3 ELSE 2]

-----------------------------------------------------------------------------
\* The three blocks are in two days of two hours; the history is asked for until the last of
\* them and until later, by hour, day and month and in one range.
Exact(period) ==
    [exact |-> TRUE, minDuration |-> period, maxDuration |-> period,
     starts |-> {t \in -36..15 : t % period = 0}]
MCIntervals ==
    "hour" :> Exact(1) @@ "day" :> Exact(2)
    @@ "month" :> [exact |-> FALSE, minDuration |-> 2, maxDuration |-> 4,
                   starts |-> {t \in -36..15 : t % 6 \in {0, 2}}]
MCAsked ==
    [interval : {"hour", "day", "month"}, from : {<<>>}, to : {<<>>}, count : {<<>>, <<1>>}, now : {4}]
    \cup [interval : {""}, from : {<<>>, <<2>>}, to : {<<>>, <<3>>}, count : {<<>>}, now : {4}]
MCAskedPools == {Btc, Eth, ThorTCY}
=============================================================================
