------------------------------ MODULE ActionPages ------------------------------
(***************************************************************************)
(* What the API answers of the actions (internal/timeseries/actions.go):   *)
(* pages cut by the ids of the actions, which a client follows with the    *)
(* tokens of the page before, and the status worked out of each action.    *)
(***************************************************************************)
EXTENDS Actions

CONSTANTS
    ActionQueries,  \* the queries for a first page
    MaxLimit        \* config Endpoints.ActionParams.MaxLimit

ValidActions ==
    {"swap", "addLiquidity", "withdraw", "donate", "refund", "switch", "send", "thorname",
     "runePoolDeposit", "runePoolWithdraw", "bond", "unbond", "trade", "secure", "contract"}

\* The parameters of a request; 0, {} and "" are not given.
Request0 ==
    [limit |-> 0, next |-> 0, timestamp |-> 0, height |-> 0, prev |-> 0, fromTimestamp |-> 0,
     fromHeight |-> 0, offset |-> 0, types |-> {}, txid |-> ""]
AtMostOne(S) == Cardinality({x \in S : x[2] # 0}) <= 1
NextGroup(p) == {<<1, p.next>>, <<2, p.timestamp>>, <<3, p.height>>}
PrevGroup(p) == {<<1, p.prev>>, <<2, p.fromTimestamp>>, <<3, p.fromHeight>>}

ParsesActions(p) ==
    /\ p.limit <= MaxLimit
    /\ AtMostOne(NextGroup(p)) /\ AtMostOne(PrevGroup(p))
    /\ p.types \subseteq ValidActions
OldAction(p) == \A x \in NextGroup(p) \cup PrevGroup(p) : x[2] = 0
IsReverseLookup(p) == \E x \in PrevGroup(p) : x[2] # 0

-----------------------------------------------------------------------------
(* The status of an action: completeFromDBRead.                            *)

CoinsOf(transfers) == [i \in DOMAIN transfers |-> transfers[i].coin]
AssetsOf(coins) == {coins[i].asset : i \in DOMAIN coins}
\* An amount in one of the assets, the last one if there are several, 0 if there is none.
LastAmount(coins, assets) ==
    FoldLeft(LAMBDA n, c : IF c.asset \in assets THEN c.amount ELSE n, 0, coins)

\* The payment of an affiliate is told by being in the native asset and to someone else.
ToAffiliate(a, out) ==
    IsSwitch(out.coin.asset) /\ out.address # a.ins[1].address /\ Len(a.pools) > 1
SwapIsPaid(a) ==
    /\ \E i \in DOMAIN a.outs : ~a.outs[i].internal \/ a.outs[i].tx # NoTx
    /\ ~(Len(a.outs) = 1 /\ ToAffiliate(a, a.outs[1]))
\* Nothing beyond the fee is due in the assets, or something was paid in them.
IsPaid(a, assets, due) ==
    due <= LastAmount(a.fees, assets) \/ LastAmount(CoinsOf(a.outs), assets) # 0
RefundIsPaid(a) ==
    \A asset \in AssetsOf(CoinsOf(a.ins)) : IsPaid(a, {asset}, LastAmount(CoinsOf(a.ins), {asset}))
WithdrawIsPaid(a) ==
    /\ IsPaid(a, {ThorRune}, a.meta.emitRune)
    /\ IsPaid(a, (AssetsOf(a.fees) \cup AssetsOf(CoinsOf(a.outs))) \ {ThorRune}, a.meta.emitAsset)

DefaultStatus(a) == IF a.meta.status = "" THEN "success" ELSE a.meta.status
PendingUnless(paid) == IF paid THEN "success" ELSE "pending"
StatusOf(a) ==
    CASE a.type = "swap" /\ a.outs = <<>>               -> "pending"
      [] a.type = "swap" /\ a.count < a.quantity        -> "pending"
      [] a.type = "swap"                                -> IF SwapIsPaid(a) THEN DefaultStatus(a) ELSE "pending"
      [] a.type = "refund"                              -> PendingUnless(RefundIsPaid(a))
      [] a.type = "withdraw"                            -> PendingUnless(WithdrawIsPaid(a))
      [] a.type = "send"                                -> IF a.meta.code # 0 THEN "failed" ELSE "success"
      [] a.type \in {"runePoolDeposit", "failed"}       -> "success"
      [] OTHER                                          -> DefaultStatus(a)

-----------------------------------------------------------------------------
(* A page: actionsPreparedStatements and GetActions.                       *)

DefaultLimit == 50
NoCount == -1

Transactions(a) == ({a.ins[i].tx : i \in DOMAIN a.ins} \cup {a.outs[i].tx : i \in DOMAIN a.outs}) \ {NoTx}
Matches(p, a) == /\ p.types = {} \/ a.type \in p.types
                 /\ p.txid = "" \/ p.txid \in Transactions(a)

\* The highest id up to the last block, if no other part of the chain is asked for.
NanoEventIdUp == HeightToEventId(visible + 1) - 1
TimeOfAction(a) == TimeOf(HeightFromEventId(a.id))
InTime(p, a) ==
    /\ p.next # 0 => a.id < p.next
    /\ p.timestamp # 0 => TimeOfAction(a) < p.timestamp * Second
    /\ p.height # 0 => a.id < HeightToEventId(p.height)
    /\ p.prev # 0 => p.prev < a.id
    /\ p.fromTimestamp # 0 => p.fromTimestamp * Second < TimeOfAction(a)
    /\ p.fromHeight # 0 => HeightToEventId(p.fromHeight) < a.id
    /\ OldAction(p) => a.id <= NanoEventIdUp

Answer0 == [outcome |-> "refused", actions |-> <<>>, next |-> 0, prev |-> 0, count |-> NoCount]
GetActions(p) ==
    IF ~ParsesActions(p) THEN Answer0
    ELSE LET found == SelectSeq(actions, LAMBDA a : InTime(p, a) /\ Matches(p, a))
             ordered == SortSeq(found, LAMBDA a, b : IF IsReverseLookup(p) THEN a.id < b.id ELSE b.id < a.id)
             limit == IF p.limit = 0 THEN DefaultLimit ELSE p.limit
             page == SubSeq(ordered, p.offset + 1, AtMost(p.offset + limit, Len(ordered)))
             shown == IF IsReverseLookup(p) THEN Reverse(page) ELSE page
             token(k) == IF shown = <<>> THEN 0 ELSE shown[k].id
         IN  [outcome |-> "ok", actions |-> shown, next |-> token(Len(shown)), prev |-> token(1),
              count |-> IF OldAction(p) THEN Len(found) ELSE NoCount]

\* A client follows the pages until one is empty.
NextRequest(p, answer) == [p EXCEPT !.next = answer.next, !.timestamp = 0, !.height = 0, !.offset = 0]
Pages(p) ==
    FoldLeft(LAMBDA pages, a : IF Last(pages).actions = <<>> THEN pages
                               ELSE Append(pages, GetActions(NextRequest(p, Last(pages)))),
             <<GetActions(p)>>, actions)

-----------------------------------------------------------------------------
(* What users did, by the rows of the blocks that the table has taken in.  *)

Taken == UNION {RowsOf[h] : h \in {k \in Heights : k <= top /\ Aggregated("actions", k)}}
Since(a, rows) == {r \in rows : HeightFromEventId(a.id) <= HeightFromEventId(r.id)}
Occurrences(s, P(_)) == Cardinality({k \in DOMAIN s : P(s[k])})

\* Rows that leave an action whatever the others are.
AccountKinds == {"trade_deposit", "trade_withdraw", "secure_deposit", "secure_withdraw"}
OneToOne == {ViewOrder[i] : i \in DOMAIN ViewOrder} \ ({"swap", "pending"} \cup AccountKinds)
LeavesAnAction(r, rows) ==
    \/ r.kind \in OneToOne /\ (r.kind = "bond" => r.memo # "")
    \/ /\ r.kind = "pending" /\ r.memo = "add"
       /\ \A s \in rows :
             Settles(s) /\ s.provider = r.provider /\ r.provider # NoProvider /\ s.pool = r.pool => s.id < r.id

\* Paid out of an action, to an address in an asset; and paid by the rows, by payments and deposits.
PaidOut(a, address, asset) ==
    FoldLeft(LAMBDA n, t : IF t.address = address /\ t.coin.asset = asset THEN n + t.coin.amount ELSE n, 0, a.outs)
PaidBy(ref, rows, address, asset) ==
    Sum({o \in Outbounds(ref, rows) : o.to = address /\ o.coin.asset = asset}, LAMBDA o : o.coin.amount)
    + Sum({d \in Deposits(rows) : TxRef(d.ref) = ref /\ d.provider = address /\ d.coin.asset = asset},
          LAMBDA d : d.coin.amount)

\* Two accounts that a transaction deposits to: a refresh joins one of them.
TwoDeposits(ref, rows) ==
    \E r \in Deposits(rows), s \in Deposits(rows) : TxRef(r.ref) = ref /\ r.ref = s.ref /\ ~SameDeposit(r, s)

\* What was paid since the block of the action is joined to it once; what was paid before it
\* is, if the same refresh took it in.  `own` are the rows of its transaction.
PaymentsAreExact(a, own) ==
    a.type \in SwapIndex \cup {"refund", "withdraw"} /\ ~TwoDeposits(a.ref, own) =>
        \A r \in own : \A address \in {r.to, r.provider} :
            /\ PaidBy(a.ref, Since(a, own), address, r.coin.asset) <= PaidOut(a, address, r.coin.asset)
            /\ PaidOut(a, address, r.coin.asset) <= PaidBy(a.ref, own, address, r.coin.asset)
FeesAreExact(a, own) ==
    \A r \in Since(a, own) : r.kind = "fee" =>
        Occurrences(a.fees, LAMBDA c : c = r.coin) = Cardinality({s \in own : s.kind = "fee" /\ s.coin = r.coin})

\* A swap is shown with all that was put in, and as done once all of it was swapped and
\* someone besides the affiliate was paid.
SwapIsExact(a, own) ==
    a.type = "swap" => \E swaps \in {SwapActions(own)} :
        /\ a.ins[1].coin.amount = Sum(swaps, LAMBDA s : s.ins[1].coin.amount)
        /\ (StatusOf(a) = "success") =
              /\ \E s \in swaps : s.count = s.quantity
              /\ \/ \E o \in Outbounds(a.ref, Since(a, own)) : o.to # "affiliate"
                 \/ Deposits(Since(a, own)) # {}

\* Transactions that swap, or move coins in or out of accounts, have one action.
ActionsFollow(rows) ==
    \E plain \in {{r \in rows : LeavesAnAction(r, rows)}}, swapRefs \in {{a.ref : a \in SwapActions(rows)}} :
        LET accountRefs == {TxRef(r.ref) : r \in {s \in rows : s.kind \in AccountKinds}}
        IN  /\ \A r \in plain :
                  Occurrences(actions, LAMBDA a : a.id = r.id /\ a.type = TypeOf(r)) =
                     Cardinality({s \in plain : s.id = r.id /\ TypeOf(s) = TypeOf(r)})
            /\ \A ref \in swapRefs : Cardinality(PlacesOf(actions, ref, {"swap"})) = 1
            /\ \A ref \in swapRefs \cup accountRefs : Cardinality(PlacesOf(actions, ref, SwapIndex)) = 1
            /\ Len(actions) = Cardinality(plain) + Cardinality(swapRefs \cup accountRefs)
            /\ \A k \in DOMAIN actions :
                  \E own \in {{r \in rows : TxRef(r.ref) = actions[k].ref}} :
                     PaymentsAreExact(actions[k], own) /\ FeesAreExact(actions[k], own) /\ SwapIsExact(actions[k], own)

\* Actions of one id: a page that ends between them loses the rest.
SharesItsId(a) == 1 < Occurrences(actions, LAMBDA b : b.id = a.id)

\* The pages of a query have every action it asks for once, and lead back as well.
TimesOn(pages, a) == MapThenSumSet(LAMBDA k : Occurrences(pages[k].actions, LAMBDA b : b = a), DOMAIN pages)
AskedFor(p) == SelectSeq(actions, LAMBDA a : InTime(p, a) /\ Matches(p, a))
GoesBack(p, pages, k) ==
    \/ pages[k].actions = <<>>
    \/ \E a \in Range(pages[k - 1].actions) \cup Range(pages[k].actions) : SharesItsId(a)
    \/ pages[k - 1].actions =
          GetActions([NextRequest(p, pages[k]) EXCEPT !.next = 0, !.prev = pages[k].prev]).actions
PagesAreWhole(p) ==
    \E pages \in {Pages(p)}, asked \in {AskedFor(p)} :
        /\ Last(pages).actions = <<>>
        /\ pages[1].count \in {Len(asked), NoCount}
        /\ \A i \in DOMAIN asked : SharesItsId(asked[i]) \/ TimesOn(pages, asked[i]) = 1
        /\ MapThenSumSet(LAMBDA k : Len(pages[k].actions), DOMAIN pages) <= Len(asked)
        /\ \A k \in 2..Len(pages) : GoesBack(p, pages, k)

\* The procedure was called; the table stays as it is until the next refresh calls it again.
ActionsRefreshed == pc = "calls" /\ 1 < refresh.next /\ Procedures[refresh.next - 1] = "actions"

\* After every refresh the actions are what users did, by all rows so far, wherever the
\* refreshes before it ended: none is missing, doubled or pending for ever, and each is paid
\* what it was paid ("Pending `add`s will be removed when not pending anymore",
\* aggregates.sql:435); and a client that follows the pages sees each of them.
ActionsAreServed ==
    ActionsRefreshed => (\E rows \in {Taken} : ActionsFollow(rows)) /\ \A p \in ActionQueries : PagesAreWhole(p)

=================================================================================
