----------------------------- MODULE MCAggregates -----------------------------
\* The aggregates over a chain of four blocks, one in a second: two of them follow each
\* other closely, the others are more than one step away from the block before.  A day is 4,
\* months are of 4 or 8, and weeks do not start at the epoch.
EXTENDS ActionPages

MCBlockTime == <<5, 11, 12, 17>>
MCProcedures == <<"balances", "actions", "rune_price">>

Horizon == -60..68
Exact(period) ==
    [exact |-> TRUE, minDuration |-> period, maxDuration |-> period,
     starts |-> {t \in Horizon : t % period = 0}]
MCIntervals ==
    "hour" :> Exact(2) @@ "day" :> Exact(4)
    @@ "week" :> [exact |-> FALSE, minDuration |-> 8, maxDuration |-> 8,
                  starts |-> {t \in Horizon : t % 8 = 4}]
    @@ "month" :> [exact |-> FALSE, minDuration |-> 4, maxDuration |-> 8,
                   starts |-> {t \in Horizon : t % 20 \in {0, 8, 12}}]

Times == {<<>>, <<1>>, <<5>>, <<8>>, <<11>>, <<13>>, <<18>>}
MCAsked ==
    [interval : {"", "hour", "day", "week", "month"}, from : Times, to : Times,
     count : {<<>>, <<1>>, <<2>>, <<4>>}, now : {12, 19}]

-----------------------------------------------------------------------------
\* The rows of the four blocks.  An id is the height and a number.
Btc == Asset("BTC", ".", "BTC")
Eth == Asset("ETH", ".", "ETH")
EthTrade == Asset("ETH", "~", "ETH")
EthSecured == Asset("ETH", "-", "ETH")
NoMeta == [status |-> "", emitRune |-> 0, emitAsset |-> 0, code |-> 0]
Row(id, kind, ref) ==
    [id |-> id, kind |-> kind, ref |-> ref, tx |-> NoTx, from |-> "user", to |-> "user", provider |-> "user",
     pool |-> <<>>, coin |-> Coin(ThorRune, 1), emit |-> Coin(ThorRune, 0), memo |-> "", count |-> 1,
     quantity |-> 1, meta |-> NoMeta]
Swap(id, ref, pool, in, out) ==
    [Row(id, "swap", ref) EXCEPT !.pool = <<pool>>, !.coin = in, !.emit = out]
Streaming(row, count, quantity) == [row EXCEPT !.count = count, !.quantity = quantity]
Outbound(id, ref, to, coin) == [Row(id, "outbound", ref) EXCEPT !.tx = "out", !.to = to, !.coin = coin]
Fee(id, ref, coin) == [Row(id, "fee", ref) EXCEPT !.coin = coin]
Deposit(id, kind, ref, owner, coin) == [Row(id, kind, ref) EXCEPT !.provider = owner, !.coin = coin]
Provides(id, kind, memo, provider) ==
    [Row(id, kind, "tx") EXCEPT !.memo = memo, !.provider = provider, !.pool = <<Btc>>]

\* A swap in three parts; a double swap, which pays its affiliate first; a swap that is partly
\* paid back; deposits that wait and are settled or taken back, before and after others of the
\* same provider; swaps into accounts; two messages with one id.
MCRowsOf ==
    << { Streaming(Swap(101, "parts", Btc, Coin(Btc, 10), Coin(ThorRune, 4)), 1, 3),
         Swap(102, "double", Btc, Coin(Btc, 7), Coin(ThorRune, 9)),
         Swap(103, "double", Eth, Coin(ThorRune, 9), Coin(Eth, 3)),
         Outbound(104, "double", "user", Coin(ThorRune, 9)),
         Swap(105, "partly", Eth, Coin(ThorRune, 6), Coin(Eth, 2)),
         Provides(106, "pending", "add", "alice"), Provides(107, "pending", "add", NoProvider),
         [Row(108, "send", "sent") EXCEPT !.coin = Coin(Btc, 1)],
         [Row(108, "send", "sent") EXCEPT !.coin = Coin(Btc, 2)] },
       { Streaming(Swap(201, "parts", Btc, Coin(Btc, 11), Coin(ThorRune, 4)), 2, 3),
         Outbound(202, "double", "affiliate", Coin(nativeSwitch, 1)), Fee(203, "double", Coin(Eth, 1)),
         Outbound(204, "partly", "user", Coin(Eth, 2)),
         Swap(205, "account", Eth, Coin(ThorRune, 5), Coin(EthTrade, 8)),
         Deposit(206, "trade_deposit", "account", "user", Coin(EthTrade, 8)),
         [Row(207, "withdraw", "withdrawn") EXCEPT !.meta = [NoMeta EXCEPT !.emitRune = 2, !.emitAsset = 3]],
         Deposit(208, "secure_deposit", "secured", "user", Coin(EthSecured, 3)),
         Provides(209, "pending", "add", "bob") },
       { Streaming(Swap(301, "parts", Btc, Coin(Btc, 12), Coin(ThorRune, 4)), 3, 3),
         Streaming(Row(302, "streaming", "parts"), 3, 3), Outbound(303, "parts", "user", Coin(ThorRune, 12)),
         Outbound(304, "double", "user", Coin(Eth, 2)), Fee(305, "double", Coin(Eth, 1)),
         Row(306, "refund", "partly"), Outbound(307, "partly", "user", Coin(ThorRune, 1)),
         Provides(308, "stake", "", "alice"), Provides(309, "pending", "add", "alice"),
         Outbound(310, "withdrawn", "user", Coin(ThorRune, 2)) },
       { Provides(401, "pending", "withdraw", "alice"), Outbound(402, "withdrawn", "user", Coin(Btc, 3)),
         Deposit(403, "trade_withdraw", "account2", "user", Coin(EthTrade, 4)),
         Outbound(404, "account2", "user", Coin(Eth, 4)),
         Deposit(408, "trade_deposit", "twice", "user", Coin(EthTrade, 2)),
         Deposit(409, "trade_deposit", "twice", "affiliate", Coin(EthTrade, 1)),
         [Row(405, "bond", "bonded") EXCEPT !.memo = "bond"],
         Swap(406, "former", Eth, Coin(Eth, 4), Coin(nativeSwitch, 5)),
         Swap(407, "former", Btc, Coin(nativeSwitch, 5), Coin(Btc, 2)) } >>

MCActionQueries ==
    { [Request0 EXCEPT !.limit = 2], [Request0 EXCEPT !.limit = 3, !.types = {"swap", "refund", "addLiquidity"}],
      [Request0 EXCEPT !.limit = 1, !.txid = "out"], [Request0 EXCEPT !.limit = 4, !.height = 3],
      [Request0 EXCEPT !.timestamp = 3, !.limit = 2] }
=============================================================================
