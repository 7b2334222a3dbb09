------------------------------ MODULE Corrections ------------------------------
(***************************************************************************)
(* Corrections (internal/fetch/record: corrections.go, correctmainnet.go,  *)
(* correcttestnet.go, correctstagenet.go, correctwithdrawimploss.go).      *)
(* Where the events of a chain do not say what the node did, the recorder  *)
(* adds events of its own at the end of a block, or changes withdrawals as *)
(* they come.  Which ones depends on the id of the chain; a table of them  *)
(* is represented by one entry, its heights by one height of the model.    *)
(***************************************************************************)
EXTENDS Handlers

CONSTANTS
    HeightOf        \* the heights the corrections bite at, in blocks of the model

CorrectionNames ==
    {"artificialDeposit", "withdrawUnits", "forwardedAsset", "increasedUnits", "genesisNode",
     "missingWithdraw", "removedLiquidity", "balance", "missingRefund", "thornames",
     "burnedSynths", "mintedSynths", "artificialDepth", "unitsAlwaysSent", "withdrawCoinKept",
     "withdrawCoinPooled", "undelayedFees", "undelayedFeesStagenet", "torAnchors",
     "testnetWithdraw", "testnetTimestamp"}

ASSUME CorrectionsAssumption == HeightOf \in [CorrectionNames -> Nat]

ChainIDMainnet202104 == "thorchain"
ChainIDTestnet20211106 == "thorchain-testnet-v0"
ChainIDStagenet2024 == "thorchain-stagenet-2"

EthPool == Asset("ETH", ".", "ETH")

-----------------------------------------------------------------------------
(* Events that are added.                                                  *)

Artificial(at, handler, x) == [at |-> at, handler |-> handler, x |-> x]

ArtificialStake(pool, rune, units) ==
    [pool |-> pool, rune_amount |-> rune, asset_amount |-> 0, liquidity_provider_units |-> units]
ArtificialWithdraw(pool, chain, asset, rune, assetE8, units) ==
    [pool |-> pool, chain |-> chain, coin |-> Coin(asset, 0), emit_asset |-> assetE8,
     emit_rune |-> rune, liquidity_provider_units |-> units, imp_loss_protection |-> 0]

\* AdditionalWithdraw.Record: the coin sent in is rune under its old name, and nothing of it.
AdditionalWithdraw(pool, rune, assetE8, units) ==
    ArtificialWithdraw(pool, pool.chain, ThorRune, rune, assetE8, units)

\* registerArtificialDeposits: units that a member lacks, or has in excess.
ArtificialUnitChange(at, pool, units) ==
    IF units >= 0 THEN Artificial(at, "OnStake", ArtificialStake(pool, 0, units))
    ELSE Artificial(at, "OnWithdraw", ArtificialWithdraw(pool, pool.chain, pool, 0, 0, -units))

\* registerArtificialPoolBallanceChanges, absAndSign.
ArtificialDepthChange(at, pool, rune, asset) ==
    LET Abs(n) == IF n >= 0 THEN n ELSE -n
    IN  Artificial(at, "OnPoolBalanceChange",
            [asset |-> pool, rune_amt |-> Abs(rune), rune_add |-> rune >= 0,
             asset_amt |-> Abs(asset), asset_add |-> asset >= 0])

\* The refund of a swap is told as a swap into rune, under its old name.
MissingRefund ==
    [pool |-> EthPool, coin |-> Coin(EthPool, 5), emit_asset |-> Coin(ThorRune, 4),
     liquidity_fee_in_rune |-> 0]

\* The tables, each represented by one entry, or two where several share a height.
addInsteadWithdrawMapMainnet202104 == ArtificialUnitChange("artificialDeposit", Asset("BTC", ".", "BTC"), 2)
WithdrawIncreasesUnits == Artificial("increasedUnits", "OnStake", ArtificialStake(EthPool, 3, 2))
GenesisNode == Artificial("genesisNode", "OnUpdateNodeAccountStatus", <<>>)
MissingWithdraws == Artificial("missingWithdraw", "OnWithdraw", AdditionalWithdraw(EthPool, 2, 1, 3))
RemoveLiquidityCorrections ==
    Artificial("removedLiquidity", "OnWithdraw", ArtificialWithdraw(EthPool, "THOR", ThorRune, 0, 0, 2))
BalanceCorrections == [i \in 1..2 |-> Artificial("balance", "OnTransfer", <<>>)]
MissingRefunds == [i \in 1..2 |-> Artificial("missingRefund", "OnSwap", MissingRefund)]
PreregisterThornames ==
    Artificial("thornames", "OnTHORNameChange", [tx_id |-> NoText, memo |-> NoText, signer |-> NoText])
THORNodeInvariants ==
    << Artificial("burnedSynths", "OnBurn", Coin(Asset("ETH", "/", "ETH"), 1)),
       Artificial("mintedSynths", "OnCoinbase", Coin(Asset("ETH", "/", "ETH"), 2)) >>
mainnetArtificialDepthChanges == ArtificialDepthChange("artificialDepth", EthPool, 4, -2)

\* In the order LoadCorrections registers them, which is the order they are applied in.
MainnetEvents ==
    << addInsteadWithdrawMapMainnet202104, WithdrawIncreasesUnits, GenesisNode, MissingWithdraws,
       RemoveLiquidityCorrections >>
    \o BalanceCorrections \o MissingRefunds \o <<PreregisterThornames>> \o THORNodeInvariants
    \o <<mainnetArtificialDepthChanges>>

TestnetEvents ==
    << Artificial("testnetWithdraw", "OnWithdraw", AdditionalWithdraw(EthPool, 2, 1, 3)) >>

\* What is registered for a chain, for all heights.
AdditionalEvents(chainID) ==
    CASE chainID = ChainIDMainnet202104   -> MainnetEvents
      [] chainID = ChainIDTestnet20211106 -> TestnetEvents
      [] OTHER                            -> <<>>

-----------------------------------------------------------------------------
(* Events that are changed or left out.                                    *)

\* The transaction and the units of withdrawUnitCorrections at the model's height.
CorrectedTx == "corrected"
ActualUnits == 1

correctWithdawsImpLoss(x) ==
    IF x.id = CorrectedTx THEN [x EXCEPT !.liquidity_provider_units = ActualUnits] ELSE x
correctWithdawsForwardedAsset(x) == [x EXCEPT !.coin.e8 = 0]

\* At first, withdrawing pending liquidity made a withdrawal without units.
CorrectWithdraw(chainID, x, m) ==
    LET mainnet == chainID = ChainIDMainnet202104
        At(name) == mainnet /\ HeightOf[name] = m.height
        units == IF At("withdrawUnits") THEN correctWithdawsImpLoss(x) ELSE x
    IN  [keep |-> ~(mainnet /\ x.liquidity_provider_units = 0
                            /\ m.height < HeightOf["unitsAlwaysSent"]),
         x |-> IF At("forwardedAsset") THEN correctWithdawsForwardedAsset(units) ELSE units]

\* No fee was ever put on the list of those to be left out.
CorrectionsFeeEventIsOK(x, m) == TRUE

-----------------------------------------------------------------------------
(* Times and heights of the chain.                                         *)

\* The testnet's restart took the time of its first block once more.
applyBlockCorrections(chainID, block) ==
    IF chainID = ChainIDTestnet20211106 /\ block.height = HeightOf["testnetTimestamp"]
    THEN [block EXCEPT !.time = block.height] ELSE block

withdrawCoinKeptHeight(chainID) ==
    IF chainID = ChainIDMainnet202104 THEN HeightOf["withdrawCoinKept"] ELSE 0
withdrawCoinPooledHeight(chainID) ==
    IF chainID = ChainIDMainnet202104 THEN HeightOf["withdrawCoinPooled"] ELSE 0
undelayedLiquidityFeesHeight(chainID) ==
    CASE chainID = ChainIDMainnet202104 -> HeightOf["undelayedFees"]
      [] chainID = ChainIDStagenet2024  -> HeightOf["undelayedFeesStagenet"]
      [] OTHER                          -> 0

=============================================================================
