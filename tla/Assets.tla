--------------------------------- MODULE Assets ---------------------------------
(***************************************************************************)
(* Asset notation (internal/fetch/record/event.go, internal/util): a chain *)
(* and a symbol, and the separator between them, which says where the coin *)
(* lives.  Pools are named by the native asset.                            *)
(***************************************************************************)
EXTENDS Naturals, Sequences

\* An asset as the code parses it: "ETH/USDC-0X" is [chain |-> "ETH", sep |-> "/", ...].
Asset(chain, sep, symbol) == [chain |-> chain, sep |-> sep, symbol |-> symbol]

nativeSwitch == Asset("SWITCHLY", ".", "SWITCH")
nativeTCY == Asset("SWITCHLY", ".", "TCY")
SwitchAssets == {nativeSwitch, Asset("BNB", ".", "SWITCH-67C"), Asset("BNB", ".", "SWITCH-B1A")}

\* The names the native assets had before the chain was renamed; some code still has them.
ThorRune == Asset("THOR", ".", "RUNE")
ThorTCY == Asset("THOR", ".", "TCY")

IsSwitch(asset) == asset \in SwitchAssets

GetCoinType(asset) ==
    CASE IsSwitch(asset) -> "Switch"
      [] asset = nativeTCY -> "AssetNative"
      [] asset.sep = "/" -> "AssetSynth"
      [] asset.chain = "SWITCHLY" /\ asset.sep = "." -> "AssetDerived"
      [] asset.sep = "." -> "AssetNative"
      [] asset.sep = "~" -> "AssetTrade"
      [] asset.sep = "-" -> "AssetSecure"
      [] OTHER -> "UnknownCoin"

GetNativeAsset(asset) ==
    IF GetCoinType(asset) \in {"AssetSynth", "AssetTrade", "AssetSecure"}
    THEN [asset EXCEPT !.sep = "."] ELSE asset

ConvertSynthPoolToNative(pool) == IF pool.sep = "/" THEN [pool EXCEPT !.sep = "."] ELSE pool

\* util.AssetFromString: what has no separator it knows belongs to THOR, secured assets too.
ChainOf(asset) == IF asset.sep \in {"/", "~", "."} THEN asset.chain ELSE "THOR"

=============================================================================
