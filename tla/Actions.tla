-------------------------------- MODULE Actions --------------------------------
(***************************************************************************)
(* The table midgard_agg.actions (internal/db/aggregates.sql): what users  *)
(* did, put together by the procedure "actions" of Aggregates from the     *)
(* rows of the blocks.  A call makes actions of the rows between its       *)
(* watermark and the end of the refresh, joins the payments and fees of    *)
(* those rows to the actions there are, and removes the pending deposits   *)
(* they settle.  A payment often comes many blocks after its action, and   *)
(* refreshes end anywhere in between.                                      *)
(*                                                                         *)
(* The other steps are those of Aggregates; the table is a variable of its *)
(* own beside theirs.                                                      *)
(***************************************************************************)
EXTENDS RangeQueries, EventIds, Assets

CONSTANTS
    RowsOf,         \* height -> the rows of its block: the table (kind), the id and the columns
    NativeFee       \* 20000000, the fee of a transaction on the chain itself

NoProvider == "null"
NoTx == "null"

ASSUME ActionsAssumption ==
    /\ NativeFee \in Nat
    \* Amounts and ids are numbers, an id has the height of its block, and the chain tells
    \* the details of a streaming swap once, when it ends.
    /\ \A h \in Heights : \A r \in RowsOf[h] : HeightFromEventId(r.id) = h /\ r.coin.amount \in Nat
    /\ \A h, k \in Heights : \A r \in RowsOf[h], s \in RowsOf[k] :
          r.kind = "streaming" /\ s.kind = "streaming" /\ r.ref = s.ref => r = s

VARIABLE
    actions         \* table midgard_agg.actions, by id

actionsVars == <<vars, actions>>

-----------------------------------------------------------------------------
(* The views: an action for each row, and for both rows of a double swap.  *)

Coin(asset, amount) == [asset |-> asset, amount |-> amount]
Transfer(tx, address, coin, internal) ==
    [tx |-> tx, address |-> address, coin |-> coin, internal |-> internal]

\* The views in the order insert_actions reads them, with the type of their actions.
ViewOrder ==
    << "switch", "refund", "donate", "withdraw", "swap", "stake", "pending", "send", "thorname",
       "trade_deposit", "trade_withdraw", "rune_pool_deposit", "rune_pool_withdraw", "bond",
       "failed_deposit", "secure_deposit", "secure_withdraw", "wasm", "instantiate",
       "tcy_claim", "tcy_stake", "tcy_unstake" >>
Renamed ==
    "stake" :> "addLiquidity" @@ "pending" :> "addLiquidity"
    @@ "trade_deposit" :> "trade" @@ "trade_withdraw" :> "trade"
    @@ "secure_deposit" :> "secure" @@ "secure_withdraw" :> "secure"
    @@ "rune_pool_deposit" :> "runePoolDeposit" @@ "rune_pool_withdraw" :> "runePoolWithdraw"
    @@ "failed_deposit" :> "failed" @@ "wasm" :> "contract" @@ "instantiate" :> "contract"
TypeOf(row) ==
    CASE row.kind = "bond"              -> IF row.memo \in {"bond", "unbond"} THEN row.memo ELSE "unknown"
      [] row.kind \in DOMAIN Renamed    -> Renamed[row.kind]
      [] OTHER                          -> row.kind

\* main_ref: the transaction; the provider and the pool of a deposit that waits for its other
\* half, none if the provider has no address on the chain.
NoRef == <<>>
TxRef(tx) == <<tx>>
PendingRef(row) == IF row.provider = NoProvider THEN NoRef ELSE <<row.provider, row.pool>>
RefOf(row) ==
    CASE row.kind = "stake"     -> NoRef
      [] row.kind = "pending"   -> PendingRef(row)
      [] OTHER                  -> TxRef(row.ref)

OnlyOuts == {"rune_pool_withdraw", "tcy_unstake"}
InsAndOuts == {"switch", "send", "bond", "wasm", "instantiate", "tcy_claim"}
PaysNativeFee ==
    {"send", "thorname", "rune_pool_deposit", "rune_pool_withdraw", "bond", "failed_deposit"}

\* A deposit into an account starts from the coin outside of it.
CoinIn(row) == IF row.kind \in {"trade_deposit", "secure_deposit"} THEN [row.coin EXCEPT !.asset.sep = "."] ELSE row.coin

ActionOf(row) ==
    [id |-> row.id, type |-> TypeOf(row), ref |-> RefOf(row), pools |-> row.pool,
     ins |-> IF row.kind \in OnlyOuts THEN <<>> ELSE <<Transfer(row.ref, row.from, CoinIn(row), FALSE)>>,
     outs |-> IF row.kind \in OnlyOuts \cup InsAndOuts
              THEN <<Transfer(IF row.kind = "switch" THEN NoTx ELSE row.ref, row.to, row.coin, FALSE)>> ELSE <<>>,
     fees |-> IF row.kind \in PaysNativeFee THEN <<Coin(ThorRune, NativeFee)>> ELSE <<>>,
     meta |-> IF row.kind = "pending" THEN [row.meta EXCEPT !.status = "pending"] ELSE row.meta,
     count |-> row.count, quantity |-> row.quantity]

\* The two halves of a double swap, by way of the native asset under its former name.
Halves(in, out) ==
    /\ in.kind = "swap" /\ out.kind = "swap"
    /\ in.ref = out.ref /\ HeightFromEventId(in.id) = HeightFromEventId(out.id)
    /\ in.coin.asset # out.emit.asset /\ in.emit.amount = out.coin.amount
    /\ in.emit.asset = ThorRune /\ out.coin.asset = ThorRune
    /\ in.memo # "noop"
DoubleSwap(in, out) ==
    [ActionOf(in) EXCEPT !.pools = IF in.pool = out.pool THEN @ ELSE @ \o out.pool]

\* A single swap: no swap of its transaction in its block, itself included, has an amount
\* that could be its other half.
Single(row, rows) ==
    /\ row.kind = "swap"
    /\ \A s \in rows :
          s.kind = "swap" /\ s.ref = row.ref /\ HeightFromEventId(s.id) = HeightFromEventId(row.id)
          => s.coin.amount # row.emit.amount /\ s.emit.amount # row.coin.amount

SwapActions(rows) ==
    {DoubleSwap(p[1], p[2]) : p \in {q \in rows \X rows : Halves(q[1], q[2])}}
    \cup {ActionOf(r) : r \in {s \in rows : Single(s, rows)}}
ViewActions(kind, rows) ==
    {ActionOf(r) : r \in {s \in rows : s.kind = kind /\ (kind = "pending" => s.memo = "add")
                                       /\ (kind = "bond" => s.memo # "")}}

-----------------------------------------------------------------------------
(* The steps of update_actions_interval, in their order.                   *)

SwapIndex == {"swap", "trade", "secure"}
PlacesOf(table, ref, types) == {i \in DOMAIN table : table[i].ref = ref /\ table[i].type \in types}

\* add_streaming_logs: the trigger adds a further swap of a transaction to its action.
AddStreamingLogs(old, new) ==
    IF new.ins[1].coin.asset = old.ins[1].coin.asset
    THEN [old EXCEPT !.ins[1].coin.amount = @ + new.ins[1].coin.amount, !.count = new.count]
    ELSE old

\* INSERT ... ON CONFLICT DO NOTHING with the unique index swap_idx.
InsertAction(table, new) ==
    LET swaps == IF new.type = "swap" THEN PlacesOf(table, new.ref, {"swap"}) ELSE {}
    IN  IF swaps # {}
        THEN [i \in DOMAIN table |-> IF i \in swaps THEN AddStreamingLogs(table[i], new) ELSE table[i]]
        ELSE IF new.type \in SwapIndex /\ PlacesOf(table, new.ref, SwapIndex) # {} THEN table
        ELSE Append(table, new)

ById(r, s) == r.id < s.id
InOrder(S) == SetToSortSeq(S, ById)

\* A view says nothing of the order of its rows: that of the swaps matters.
InsertActions(table, rows, swapOrder) ==
    LET Listed(kind) == IF kind = "swap" THEN swapOrder ELSE InOrder(ViewActions(kind, rows))
        inserted == FoldLeft(LAMBDA t, kind : FoldLeft(InsertAction, t, Listed(kind)), table, ViewOrder)
    IN  SortSeq(inserted, ById)

\* trim_pending_actions: what settles a pending deposit removes it, if it is not a later one.
Settles(row) == row.kind = "stake" \/ (row.kind = "pending" /\ row.memo = "withdraw")
\* Wrong_SettlesAction: the one after it, too.
Wrong_SettlesAction(row, a) ==
    Settles(row) /\ row.provider # NoProvider /\ a.ref = PendingRef(row)
SettlesAction(row, a) ==
    /\ Settles(row) /\ row.provider # NoProvider
    /\ a.id <= row.id /\ a.ref = PendingRef(row)
TrimPendingActions(table, rows) == SelectSeq(table, LAMBDA a : \A r \in rows : ~SettlesAction(r, a))

\* actions_add_outbounds marks what the second half of a double swap takes as internal, and
\* joins the other payments to every action of their transaction.
Internal(o, rows) ==
    \E s \in rows :
        /\ s.kind = "swap" /\ s.ref = o.ref /\ HeightFromEventId(s.id) = HeightFromEventId(o.id)
        /\ s.coin.asset = ThorRune /\ s.coin = o.coin
Outbounds(ref, rows) ==
    {o \in rows : o.kind = "outbound" /\ TxRef(o.ref) = ref /\ ~Internal(o, rows)}
ActionsAddOutbounds(table, rows) ==
    [i \in DOMAIN table |->
        IF table[i].type = "switch" THEN table[i]
        ELSE LET outbounds == InOrder(Outbounds(table[i].ref, rows))
             IN  [table[i] EXCEPT !.outs = @ \o [k \in DOMAIN outbounds |->
                    Transfer(outbounds[k].tx, outbounds[k].to, outbounds[k].coin, FALSE)]]]

\* actions_add_trade_deposit and actions_add_secure_deposit: the deposits of a refresh are added
\* up for each owner and asset, and ONE of the sums is joined to the actions of a transaction:
\* an UPDATE takes one row, any, if several match.
DepositKinds == {"trade_deposit", "secure_deposit"}
Deposits(rows) == {r \in rows : r.kind \in DepositKinds}
SameDeposit(r, s) ==
    r.kind = s.kind /\ r.ref = s.ref /\ r.provider = s.provider /\ r.coin.asset = s.coin.asset
Accounts(rows) == {<<r.kind, TxRef(r.ref)>> : r \in Deposits(rows)}
Picks(rows) ==
    {f \in [Accounts(rows) -> {CHOOSE s \in Deposits(rows) : SameDeposit(r, s) : r \in Deposits(rows)}] :
        \A a \in DOMAIN f : f[a].kind = a[1] /\ TxRef(f[a].ref) = a[2]}
Sum(S, Amount(_)) == MapThenSumSet(Amount, S)
ActionsAddDeposits(table, rows, kind, pick) ==
    [i \in DOMAIN table |->
        LET account == <<kind, table[i].ref>>
        IN  IF account \notin DOMAIN pick THEN table[i]
            ELSE LET d == pick[account]
                     sum == Sum({r \in Deposits(rows) : SameDeposit(r, d)}, LAMBDA r : r.coin.amount)
                 IN  [table[i] EXCEPT !.outs =
                        Append(@, Transfer(d.ref, d.provider, Coin(d.coin.asset, sum), TRUE))]]

StreamingDetails(table, rows) ==
    [i \in DOMAIN table |->
        LET details == {r \in rows : r.kind = "streaming" /\ TxRef(r.ref) = table[i].ref}
        IN  IF details = {} THEN table[i]
            ELSE LET r == CHOOSE s \in details : TRUE
                 IN  [table[i] EXCEPT !.count = r.count, !.quantity = r.quantity]]

ActionsAddFees(table, rows) ==
    [i \in DOMAIN table |->
        LET fees == InOrder({r \in rows : r.kind = "fee" /\ TxRef(r.ref) = table[i].ref})
        IN  [table[i] EXCEPT !.fees = @ \o [k \in DOMAIN fees |-> fees[k].coin]]]

\* After the actions are inserted.
CompleteActions(table, rows, pick) ==
    LET paid == ActionsAddOutbounds(TrimPendingActions(table, rows), rows)
        traded == ActionsAddDeposits(paid, rows, "trade_deposit", pick)
        secured == ActionsAddDeposits(traded, rows, "secure_deposit", pick)
    IN  ActionsAddFees(StreamingDetails(secured, rows), rows)

-----------------------------------------------------------------------------
(* The table beside the aggregates.                                        *)

RowsTakenIn == UNION {RowsOf[h] : h \in {k \in Heights : TakesIn("actions", k)}}

\* update_actions, in the transaction of the call.
UpdateActions ==
    \E rows \in {RowsTakenIn} :
        \E inserted \in {InsertActions(actions, rows, order) : order \in SetToSeqs(SwapActions(rows))} :
            \E pick \in Picks(rows) : actions' = CompleteActions(inserted, rows, pick)

\* TrimDB deletes the actions from the block on, and leaves the others as they are.
TrimActions ==
    actions' = SelectSeq(actions, LAMBDA a : HeightFromEventId(a.id) <= top')

ActionsInit == Init /\ actions = <<>>
ActionsNext ==
    /\ Next
    /\ IF alive /\ watermark["actions"] < watermark'["actions"] THEN UpdateActions ELSE UNCHANGED actions

ActionsSpec == ActionsInit /\ [][ActionsNext]_actionsVars
ActionsFairSpec == ActionsSpec /\ Fairness
ActionsTrimSpec == ActionsInit /\ [][ActionsNext \/ (Trim /\ TrimActions)]_actionsVars /\ Fairness

=================================================================================
