---------------------------------- MODULE Mux ----------------------------------
(***************************************************************************)
(* record.ProcessBlock (internal/fetch/record/mux.go): the events of a     *)
(* block in the order they are recorded, each under its id.  A block is a  *)
(* height, a time, the events outside of transactions (FinalizeBlockEvents)*)
(* and the transactions, each a result code, the messages (nil if the      *)
(* transaction does not decode) and its events.                            *)
(***************************************************************************)
EXTENDS Corrections

CONSTANTS
    OnTransferEnabled,  \* config EventRecorder.OnTransferEnabled
    OnMessageEnabled    \* config EventRecorder.OnMessageEnabled

ASSUME MuxAssumption == OnTransferEnabled \in BOOLEAN /\ OnMessageEnabled \in BOOLEAN

\* A recorder before its first event.
NewRecorder ==
    [asset |-> <<>>, rune |-> <<>>, synth |-> <<>>, status |-> <<>>, mimir |-> <<>>,
     rows |-> <<>>, n |-> 0, refused |-> {}, immediate |-> FALSE, poisoned |-> FALSE]

\* A recorder before the rows of an event, of which the database refuses some.
Begun(r, refused) == [r EXCEPT !.n = 0, !.refused = refused]

\* An event reaches its handler if it decodes; the rest is logged.
Record(r, x, On(_, _, _), m) == IF x.ok THEN On(r, x, m) ELSE r

-----------------------------------------------------------------------------
(* processEvent: the switch over the types, in three parts.                *)

SwapEvents == {"donate", "errata", "fee", "gas", "pool", "rewards", "slash", "pending_liquidity",
               "add_liquidity", "swap", "transfer", "withdraw", "pool_balance_change",
               "mint_burn", "trade_account_deposit", "trade_account_withdraw",
               "secured_asset_deposit", "secured_asset_withdraw"}

\* Events of pools and balances.
processPoolEvent(r, id, e, m) ==
    LET Fee(s, x, mm) == IF CorrectionsFeeEventIsOK(x, mm) THEN OnFee(s, x, mm) ELSE s
        Swap(s, x, mm) == OnSwap(s, x, mm, undelayedLiquidityFeesHeight(id))
        Transfer(s, x, mm) == OnTransfer(s, x, mm, OnTransferEnabled)
        Withdraw(s, x, mm) ==
            LET c == CorrectWithdraw(id, x, mm)
            IN  IF c.keep THEN OnWithdraw(s, c.x, mm, withdrawCoinKeptHeight(id), withdrawCoinPooledHeight(id))
                ELSE s
    IN  CASE e.type = "donate"                 -> Record(r, LoadAdd(e), OnAdd, m)
          [] e.type = "errata"                 -> Record(r, LoadErrata(e), OnErrata, m)
          [] e.type = "fee"                    -> Record(r, LoadFee(e), Fee, m)
          [] e.type = "gas"                    -> Record(r, LoadGas(e), OnGas, m)
          [] e.type = "pool"                   -> Record(r, LoadPool(e), OnPool, m)
          [] e.type = "rewards"                -> Record(r, LoadRewards(e), OnRewards, m)
          [] e.type = "slash"                  -> Record(r, LoadSlash(e), OnSlash, m)
          [] e.type = "pending_liquidity"      -> Record(r, LoadPendingLiquidity(e), OnPendingLiquidity, m)
          [] e.type = "add_liquidity"          -> Record(r, LoadStake(e), OnStake, m)
          [] e.type = "swap"                   -> Record(r, LoadSwap(e), Swap, m)
          [] e.type = "transfer"               -> Record(r, LoadTransfer(e), Transfer, m)
          [] e.type = "withdraw"               -> Record(r, LoadWithdraw(e), Withdraw, m)
          [] e.type = "pool_balance_change"    -> Record(r, LoadPoolBalanceChange(e), OnPoolBalanceChange, m)
          [] e.type = "mint_burn"              -> Record(r, LoadMintBurn(e), OnMintBurn, m)
          [] e.type = "trade_account_deposit"  -> Record(r, LoadTradeAccountDeposit(e), OnTradeAccountDeposit, m)
          [] e.type = "trade_account_withdraw" -> Record(r, LoadTradeAccountWithdraw(e), OnTradeAccountWithdraw, m)
          [] e.type = "secured_asset_deposit"  -> Record(r, LoadSecureAssetDeposit(e), OnSecureAssetDeposit, m)
          [] e.type = "secured_asset_withdraw" -> Record(r, LoadSecureAssetWithdraw(e), OnSecureAssetWithdraw, m)

\* Events of nodes and vaults, and some of transactions.
NodeEvents == {"ActiveVault", "asgard_fund_yggdrasil", "bond", "InactiveVault", "message", "new_node",
               "outbound", "refund", "reserve", "set_ip_address", "set_mimir", "set_node_keys",
               "set_version", "UpdateNodeAccountStatus", "validator_request_leave"}
processNodeEvent(r, e, m) ==
    LET Message(s, x, mm) == OnMessage(s, x, mm, OnMessageEnabled)
    IN  CASE e.type = "ActiveVault"             -> Record(r, LoadActiveVault(e), OnActiveVault, m)
          [] e.type = "asgard_fund_yggdrasil"   -> Record(r, LoadAsgardFundYggdrasil(e), OnAsgardFundYggdrasil, m)
          [] e.type = "bond"                    -> Record(r, LoadBond(e), OnBond, m)
          [] e.type = "InactiveVault"           -> Record(r, LoadInactiveVault(e), OnInactiveVault, m)
          [] e.type = "message"                 -> Record(r, LoadMessage(e), Message, m)
          [] e.type = "new_node"                -> Record(r, LoadNewNode(e), OnNewNode, m)
          [] e.type = "outbound"                -> Record(r, LoadOutbound(e), OnOutbound, m)
          [] e.type = "refund"                  -> Record(r, LoadRefund(e), OnRefund, m)
          [] e.type = "reserve"                 -> Record(r, LoadReserve(e), OnReserve, m)
          [] e.type = "set_ip_address"          -> Record(r, LoadSetIPAddress(e), OnSetIPAddress, m)
          [] e.type = "set_mimir"               -> Record(r, LoadSetMimir(e), OnSetMimir, m)
          [] e.type = "set_node_keys"           -> Record(r, LoadSetNodeKeys(e), OnSetNodeKeys, m)
          [] e.type = "set_version"             -> Record(r, LoadSetVersion(e), OnSetVersion, m)
          [] e.type = "UpdateNodeAccountStatus" ->
                 Record(r, LoadUpdateNodeAccountStatus(e), OnUpdateNodeAccountStatus, m)
          [] e.type = "validator_request_leave" ->
                 Record(r, LoadValidatorRequestLeave(e), OnValidatorRequestLeave, m)

\* The later types.  What is not listed, or known to be of no use, leaves nothing.
processNewerEvent(r, id, e, m) ==
    LET Switch(s, x, mm) == OnSwitch(s, x, mm, undelayedLiquidityFeesHeight(id))
    IN  CASE e.type = "thorname"           -> Record(r, LoadTHORNameChange(e), OnTHORNameChange, m)
          [] e.type = "switch"             -> Record(r, LoadSwitchEvent(e), Switch, m)
          [] e.type = "slash_points"       -> Record(r, LoadSlashPoints(e), OnSlashPoints, m)
          [] e.type = "set_node_mimir"     -> Record(r, LoadSetNodeMimir(e), OnSetNodeMimir, m)
          [] e.type = "version"            -> Record(r, LoadVersion(e), OnVersion, m)
          [] e.type = "loan_open"          -> Record(r, LoadLoanOpen(e), OnLoanOpen, m)
          [] e.type = "loan_repayment"     -> Record(r, LoadLoanRepayment(e), OnLoanRepayment, m)
          [] e.type = "streaming_swap"     -> Record(r, LoadStreamingSwapDetails(e), OnStreamingSwapDetails, m)
          [] e.type = "tss_keygen_success" -> Record(r, LoadTSSKeygenSuccess(e), OnTSSKeygenSuccess, m)
          [] e.type = "tss_keygen_failure" -> Record(r, LoadTSSKeygenFailure(e), OnTSSKeygenFailure, m)
          [] e.type = "scheduled_outbound" -> Record(r, LoadScheduledOutbound(e), OnScheduledOutbound, m)
          [] e.type = "rune_pool_deposit"  -> Record(r, LoadRunePoolDeposit(e), OnRunePoolDeposit, m)
          [] e.type = "rune_pool_withdraw" -> Record(r, LoadRunePoolWithdraw(e), OnRunePoolWithdraw, m)
          [] e.type = "affiliate_fee"      -> Record(r, LoadAffiliateFee(e), OnAffiliateFee, m)
          [] e.type = "instantiate"        -> Record(r, LoadInstantiate(e), OnInstantiate, m)
          [] e.type = "tcy_claim"          -> Record(r, LoadTcyClaim(e), OnTcyClaim, m)
          [] e.type = "tcy_distribution"   -> Record(r, LoadTcyDistribution(e), OnTcyDistribution, m)
          [] e.type = "tcy_stake"          -> Record(r, LoadTcyStake(e), OnTcyStake, m)
          [] e.type = "tcy_unstake"        -> Record(r, LoadTcyUnstake(e), OnTcyUnstake, m)
          [] e.type = "wasm-"              -> Record(r, LoadCosmWasmEvent(e), OnCosmWasm, m)
          [] OTHER                         -> r

processEvent(recorder, id, event, m) ==
    LET e == Filtered(event)
        r == Begun(recorder, e.refused)
    IN  CASE e.type \in SwapEvents -> processPoolEvent(r, id, e, m)
          [] e.type \in NodeEvents -> processNodeEvent(r, e, m)
          [] OTHER                 -> processNewerEvent(r, id, e, m)

-----------------------------------------------------------------------------
(* Transactions.                                                           *)

\* Sends are recorded, and deposits that failed; a deposit that succeeded ends the scan, and so
\* does a message that does not decode.  Every row has the id of the transaction's first event.
processMsg(acc, tx, m, msg) ==
    LET s == Begun(acc.r, msg.refused)
        x == IF msg.kind = "MsgDeposit" THEN LoadDeposit(msg) ELSE LoadSend(msg)
    IN  IF acc.done \/ msg.kind \notin {"MsgDeposit", "MsgSend"} THEN acc
        ELSE IF (msg.kind = "MsgDeposit" /\ tx.code = 0) \/ ~x.ok THEN [acc EXCEPT !.done = TRUE]
        ELSE [acc EXCEPT !.r = IF msg.kind = "MsgDeposit" THEN OnDeposit(s, x, m) ELSE OnMsgSend(s, x, m)]
processMsgs(r, tx, m) == FoldLeft(LAMBDA acc, msg : processMsg(acc, tx, m, msg), [r |-> r, done |-> FALSE], tx.msgs)
processTx(r, tx, m) == processMsgs(r, tx, m).r

\* Attributes that are added win over those the event has; without a text they are dropped, as the
\* event's own are.
With(e, attrs) ==
    LET added == [k \in {key \in DOMAIN attrs : attrs[key] # ""} |-> attrs[k]]
    IN  [e EXCEPT !.attrs = added @@ @, !.empty = @ \ DOMAIN added]

\* The last message of a kind, and its memo or hash, as the loops over the messages leave them.
LastOf(msgs, kinds, field, default) ==
    FoldLeft(LAMBDA acc, msg : IF msg.kind \in kinds THEN msg[field] ELSE acc, default, msgs)
Observed == {"MsgObservedTxIn", "MsgObservedTxQuorum"}

\* The message the event is about: msg_index, or the first.
MessageOf(tx, e) ==
    LET i == 1 + Opt(e, "msg_index", 0)
    IN  IF i \in DOMAIN tx.msgs THEN tx.msgs[i] ELSE [kind |-> "none"]

\* What the event leaves out and its transaction knows.
processParentTx(tx, e) ==
    LET msg == MessageOf(tx, e)
        Called == [tx_id |-> tx.hash, sender |-> msg.sender, msg |-> msg.msg, funds |-> msg.funds]
        Burnt == {i \in DOMAIN tx.msgs : tx.msgs[i].kind \in Observed /\ tx.msgs[i].hash = e.attrs.tx_id}
    IN  IF tx.msgs = <<>> \/ (e.type \in {"instantiate", "bond", "wasm-"} /\ "msg_index" \in e.bad) THEN e
        ELSE
        CASE e.type = "thorname" ->
                 With(e, [tx_id |-> tx.hash, memo |-> tx.memo,
                          signer |-> LastOf(tx.msgs, {"MsgDeposit", "MsgSend"}, "signer", "")])
          [] e.type = "add_liquidity" ->
                 With(e, [memo |-> LastOf(tx.msgs, {"MsgDeposit"} \cup Observed, "memo", "")])
          [] e.type = "switch" /\ "tx_id" \in DOMAIN e.attrs /\ Burnt # {} ->
                 LET last == tx.msgs[CHOOSE i \in Burnt : \A j \in Burnt : j <= i]
                 IN  [e EXCEPT !.attrs = [burn_amount |-> last.amount.e8] @@ @]
          [] e.type \in {"tcy_claim", "tcy_stake", "tcy_unstake"} ->
                 With(e, [memo |-> LastOf(tx.msgs, {"MsgDeposit"} \cup Observed, "memo", tx.memo),
                          tx_id |-> LastOf(tx.msgs, Observed, "hash", tx.hash)])
          [] e.type = "bond" /\ msg.kind \in {"MsgDeposit", "MsgSetVersion"} ->
                 With(e, [signer |-> msg.signer])
          [] \/ e.type = "instantiate" /\ msg.kind = "MsgInstantiateContract"
             \/ e.type = "wasm-" /\ msg.kind \in {"MsgExecuteContract", "MsgInstantiateContract"} ->
                 With(e, Called)
          [] OTHER -> e

-----------------------------------------------------------------------------
(* The block.                                                              *)

\* The modes an event of the first pass may have; "none" is an event without a mode.
BeginModes == {"BeginBlock", "none"}

\* The first pass numbers all events and takes some; the last numbers those it takes.
\* Wrong_NextIndex: the number is not moved on from one event to the next.
Wrong_NextIndex(index, taken, location) == index
NextIndex(index, taken, location) ==
    IF taken \/ location = "BeginBlockEvents" THEN index + 1 ELSE index
RecordEvent(acc, id, b, location, modes, m, e) ==
    [r |-> IF e.mode \in modes
           THEN processEvent(acc.r, id, e, [m EXCEPT !.id = EventId(b.height, location, 0, acc.index)])
           ELSE acc.r,
     index |-> NextIndex(acc.index, e.mode \in modes, location)]
RecordFinalize(r, id, b, location, modes, m) ==
    FoldLeft(LAMBDA acc, e : RecordEvent(acc, id, b, location, modes, m, e), [r |-> r, index |-> 1], b.finalize)

TxEventAt(b, txIndex, m, index) == [m EXCEPT !.id = EventId(b.height, "TxsResults", txIndex, index)]
RecordTxEvent(acc, id, b, tx, txIndex, m, e) ==
    [r |-> processEvent(acc.r, id, processParentTx(tx, e), TxEventAt(b, txIndex, m, acc.index)),
     index |-> acc.index + 1]
RecordTxEvents(r, id, b, tx, txIndex, m) ==
    FoldLeft(LAMBDA acc, e : RecordTxEvent(acc, id, b, tx, txIndex, m, e), [r |-> r, index |-> 1], tx.events)
RecordTx(r, id, b, tx, txIndex, m) ==
    RecordTxEvents(processTx(r, tx, TxEventAt(b, txIndex, m, 1)), id, b, tx, txIndex, m).r

\* AddMissingEvents: all of them share the id after the last event of the block.
AddMissingEvent(r, id, m, a) ==
    LET s == Begun(r, {})
    IN  IF HeightOf[a.at] # m.height THEN r
        ELSE
        CASE a.handler = "OnStake" -> OnStake(s, a.x, m)
          [] a.handler = "OnWithdraw" ->
                 OnWithdraw(s, a.x, m, withdrawCoinKeptHeight(id), withdrawCoinPooledHeight(id))
          [] a.handler = "OnSwap" -> OnSwap(s, a.x, m, undelayedLiquidityFeesHeight(id))
          [] a.handler = "OnUpdateNodeAccountStatus" -> OnUpdateNodeAccountStatus(s, a.x, m)
          [] a.handler = "OnTransfer" -> OnTransfer(s, a.x, m, OnTransferEnabled)
          [] a.handler = "OnTHORNameChange" -> OnTHORNameChange(s, a.x, m)
          [] a.handler = "OnBurn" -> OnBurn(s, a.x)
          [] a.handler = "OnCoinbase" -> OnCoinbase(s, a.x)
          [] a.handler = "OnPoolBalanceChange" -> OnPoolBalanceChange(s, a.x, m)
AddMissingEvents(r, id, m) == FoldLeft(LAMBDA acc, a : AddMissingEvent(acc, id, m, a), r, AdditionalEvents(id))

NextTx(acc, id, b, m, tx) == [r |-> RecordTx(acc.r, id, b, tx, acc.tx, m), tx |-> acc.tx + 1]
RecordTxs(r, id, b, m) == FoldLeft(LAMBDA acc, tx : NextTx(acc, id, b, m, tx), [r |-> r, tx |-> 1], b.txs)

\* The corrections come after the last event, under the number that is left.
RecordEnd(ended, id, b, m) ==
    AddMissingEvents(ended.r, id, [m EXCEPT !.id = EventId(b.height, "EndBlockEvents", 0, ended.index)])

\* ProcessBlock of package record.
RecordBlock(recorder, id, block) ==
    LET b == applyBlockCorrections(id, block)
        m == Metadata(b.height, b.time, EventId(b.height, "BeginBlockEvents", 0, 1))
        begun == RecordFinalize(recorder, id, b, "BeginBlockEvents", BeginModes, m).r
    IN  RecordEnd(RecordFinalize(RecordTxs(begun, id, b, m).r, id, b, "EndBlockEvents", {"EndBlock"}, m), id, b, m)

=============================================================================
