-------------------------- MODULE TokenShopContract --------------------------
(***************************************************************************)
(* TokenShop.sol: sells TRI, which it mints, for ETH or a supported token, *)
(* and buys it back, which it burns.  Amounts, rates and fees are whole    *)
(* numbers, divided as Solidity divides; One stands for 1e18 and a scale   *)
(* for 10 ** (18 - decimals) of an asset.                                  *)
(***************************************************************************)
EXTENDS TriToken

CONSTANTS
    One,            \* 1e18
    Amount,         \* what a transaction may pay, sell or withdraw
    Rates,          \* pairs <<buyRate, sellRate>> the owner may set
    Fee,            \* feeBps the owner may set
    Limit,          \* maxEthIn and maxGenIn the owner may set, 0 for none
    CoinScale       \* 10 ** (18 - decimals) of the coin

BPS == 10000
Asset == {"eth", "coin"}

ASSUME TokenShopContractAssumption ==
    /\ One \in Nat \ {0}
    /\ Amount \subseteq Nat
    /\ Fee \subseteq 0..1000
    /\ Limit \subseteq Nat
    /\ \A pair \in Rates : pair[1] \in Nat \ {0} /\ pair[2] \in Nat \ {0}
    /\ CoinScale \in Nat \ {0}

VARIABLES
    money,          \* [Asset -> [Player \union {"shop"} -> Nat]]
    settings,       \* the contract's settings
    taxLogged       \* TaxProcessor: the events the shop has logged

shopVars == <<money, settings, taxLogged>>

\* After the constructor, which sets the rates for ETH, and when the owner has
\* added the coin to the assets.
InitShop(pair, added, funds) ==
    /\ money = [a \in Asset |->
                  [h \in Player \union {"shop"} |-> IF h = "shop" THEN 0 ELSE funds]]
    /\ settings =
           [paused |-> FALSE,
            supported |-> [a \in Asset |-> a \in added],
            scale |-> [a \in Asset |->
                IF a = "eth" THEN 1 ELSE IF a \in added THEN CoinScale ELSE 0],
            buyRate |-> [a \in Asset |-> IF a \in added THEN pair[1] ELSE 0],
            sellRate |-> [a \in Asset |-> IF a \in added THEN pair[2] ELSE 0],
            feeBps |-> 0, maxEthIn |-> 0, maxGenIn |-> 0,
            taxProcessor |-> FALSE, operator |-> FALSE]
    /\ taxLogged = 0

ApplyFee(amount) == (amount * (BPS - settings.feeBps)) \div BPS
To18(asset, amount) == amount * settings.scale[asset]
From18(asset, amount18) == amount18 \div settings.scale[asset]

QuoteBuy(asset, amountIn) == (To18(asset, amountIn) * settings.buyRate[asset]) \div One
\* Mutant: the decimals of the coin are forgotten.
QuoteSellMutant(asset, genIn) == (genIn * One) \div settings.sellRate[asset]

QuoteSell(asset, genIn) == From18(asset, (genIn * One) \div settings.sellRate[asset])

Open(asset) ==
    /\ ~settings.paused
    /\ settings.supported[asset]
    /\ settings.scale[asset] # 0

Within(amount, limit) == limit = 0 \/ amount <= limit

\* _logTax reverts the trade unless the shop is an operator of the processor.
LogTradeTax ==
    IF settings.taxProcessor
    THEN settings.operator /\ taxLogged' = taxLogged + 1
    ELSE UNCHANGED taxLogged

\* buyETH and buyToken; a higher minGenOut reverts.
BuyTri(u, asset, amountIn) ==
    LET gross == QuoteBuy(asset, amountIn)
        net == ApplyFee(gross)
    IN /\ Open(asset)
       /\ amountIn > 0
       /\ asset = "eth" => Within(amountIn, settings.maxEthIn)
       /\ gross > 0
       /\ Covers(money[asset], u, amountIn)
       /\ money' = [money EXCEPT ![asset] = Moved(@, u, "shop", amountIn)]
       /\ MintTri(u, net)
       /\ LogTradeTax
       /\ UNCHANGED settings

\* The fee is taken in the asset: for a coin, of what is left after rounding.
NetOut(asset, gross) ==
    IF asset = "eth" THEN ApplyFee(gross) ELSE From18(asset, ApplyFee(To18(asset, gross)))

\* sellToETH and sellToToken; a higher minimum reverts.
SellTri(u, asset, genIn) ==
    LET gross == QuoteSell(asset, genIn)
        net == NetOut(asset, gross)
    IN /\ Open(asset)
       /\ settings.sellRate[asset] > 0
       /\ genIn > 0
       /\ Within(genIn, settings.maxGenIn)
       /\ gross > 0
       /\ Covers(money[asset], "shop", net)
       /\ BurnTri(u, genIn)
       /\ money' = [money EXCEPT ![asset] = Moved(@, "shop", u, net)]
       /\ LogTradeTax
       /\ UNCHANGED settings

\* receive: anybody may send ETH to the shop.
FundShop(u, amount) ==
    /\ Covers(money["eth"], u, amount)
    /\ money' = [money EXCEPT !["eth"] = Moved(@, u, "shop", amount)]
    /\ UNCHANGED <<token, settings, taxLogged>>
-----------------------------------------------------------------------------
\* The owner's functions.
SetPaused(p) == settings' = [settings EXCEPT !.paused = p]
SetSupportedToken(a, s) == settings' = [settings EXCEPT !.supported[a] = s]
SetAssetDecimals(s) == settings' = [settings EXCEPT !.scale["coin"] = s]
SetRates(a, pair) == settings' = [settings EXCEPT !.buyRate[a] = pair[1], !.sellRate[a] = pair[2]]
SetMaxEthIn(limit) == settings' = [settings EXCEPT !.maxEthIn = limit]
SetMaxGenIn(limit) == settings' = [settings EXCEPT !.maxGenIn = limit]
SetFeeBps(fee) == settings' = [settings EXCEPT !.feeBps = fee]
SetTaxProcessor(p) == settings' = [settings EXCEPT !.taxProcessor = p]
GrantOperator == settings' = [settings EXCEPT !.operator = TRUE]

Configure ==
    /\ \/ \E p \in BOOLEAN : SetPaused(p) \/ SetTaxProcessor(p)
       \/ \E a \in Asset, s \in BOOLEAN : SetSupportedToken(a, s)
       \/ \E s \in {0, CoinScale} : SetAssetDecimals(s)
       \/ \E a \in Asset, pair \in Rates : SetRates(a, pair)
       \/ \E limit \in Limit : SetMaxEthIn(limit) \/ SetMaxGenIn(limit)
       \/ \E fee \in Fee : SetFeeBps(fee)
       \/ GrantOperator
    /\ settings' # settings
    /\ UNCHANGED <<token, money, taxLogged>>

WithdrawETH(to, amount) ==
    /\ Covers(money["eth"], "shop", amount)
    /\ money' = [money EXCEPT !["eth"] = Moved(@, "shop", to, amount)]
    /\ UNCHANGED <<token, settings, taxLogged>>

Trade ==
    \E u \in Player, asset \in Asset, amount \in Amount :
        BuyTri(u, asset, amount) \/ SellTri(u, asset, amount)

ShopTransaction ==
    \/ Trade
    \/ \E u \in Player, amount \in Amount : FundShop(u, amount) \/ WithdrawETH(u, amount)
    \/ Configure
-----------------------------------------------------------------------------
\* What an account holds of an asset and TRI, in TRI at the buying rate.
Wealth(u, asset) ==
    settings.scale[asset] * money[asset][u] * settings.buyRate[asset] + tri[u] * One

(***************************************************************************)
(* A trade never pays the trader: as long as the shop does not buy TRI at  *)
(* a better rate than it sells it for, no trade leaves the account richer  *)
(* than before, whatever decimals, fee, limits and rounding come together; *)
(* so no round trip drains the shop.                                       *)
(***************************************************************************)
TradesDoNotProfit ==
    [][\A u \in Player, asset \in Asset :
          (settings' = settings /\ money'[asset] # money[asset] /\ tri'[u] # tri[u]
             /\ settings.sellRate[asset] >= settings.buyRate[asset])
          => Wealth(u, asset)' <= Wealth(u, asset)]_<<token, shopVars>>
=============================================================================
